-------------------------------- MODULE Pages --------------------------------
(***************************************************************************)
(* Paging through a conversation (internal/service/pages.go, codex/        *)
(* history.go and, with Transcript, claude/transcript_history.go) and the  *)
(* cache of message bodies (internal/service/payloads.go), while the       *)
(* conversation goes on.  The pager works over a source, or over another   *)
(* pager when the helper pages too.  A text is a sequence of UTF-16 units: *)
(* "c" for one that stands alone, "h" and "l" for the halves of a pair.    *)
(***************************************************************************)
EXTENDS Transcript, TLC

CONSTANTS
  Scenarios,     \* [hist, left]: the conversation, how often it is paged, and what may happen
  Kinds,         \* the kinds of events that a scenario bounds
  ItemLimit,     \* the items of a native page
  PageMessages,  \* maxMessages
  PageBytes,     \* MaxConversationPageBytes
  PartUnits,     \* partCharacters
  CacheBytes,    \* maxBytes of the cache
  Grown          \* what a text may grow by

VARIABLES
  hist,    \* the conversation: [source, layers, items, file, ids]; ids counts the messages ever written
  walk,    \* a client paging towards the beginning
  cache,   \* ConversationPayloads.entries in eviction order
  bytes,   \* ConversationPayloads.bytes
  load,    \* a request for message bodies
  left     \* events that may still happen

vars == <<hist, walk, cache, bytes, load, left>>
Spend(k) == left[k] > 0 /\ left' = [left EXCEPT ![k] = @ - 1]
NoLoad == [state |-> "none", want |-> <<>>, found |-> <<>>, cursor |-> NoCursor, visited |-> {}, exact |-> FALSE, calm |-> TRUE]
NoWalk == [state |-> "closed", next |-> NoCursor, newer |-> <<>>, last |-> <<>>, replay |-> NoCursor, end |-> <<>>]

Init ==
  /\ \E s \in Scenarios : hist = s.hist /\ left = s.left
  /\ walk = NoWalk /\ cache = <<>> /\ bytes = 0 /\ load = NoLoad

-----------------------------------------------------------------------------
(* ReadHistory(): the items before the one the cursor names, or the latest; *)
(* a cursor whose item is gone is refused by the native side.               *)
ItemsBefore(items, after, end, start) ==
  [ok |-> TRUE, msgs |-> SubSeq(items, start + 1, end), replay |-> [kind |-> "items", after |-> after],
   next |-> IF start = 0 THEN NoCursor ELSE [kind |-> "items", after |-> items[start + 1].id]]
ItemsUpTo(items, after, end) == ItemsBefore(items, after, end, IF end > ItemLimit THEN end - ItemLimit ELSE 0)
ReadHistory(items, cursor) ==
  IF cursor.kind = "none" \/ cursor.after = <<>> THEN ItemsUpTo(items, <<>>, Len(items))
  ELSE IF \E i \in DOMAIN items : items[i].id = cursor.after
       THEN ItemsUpTo(items, cursor.after, Min({i \in DOMAIN items : items[i].id = cursor.after}) - 1)
       ELSE Failed

ReadSource(cursor) ==
  IF hist.source = "items" THEN ReadHistory(hist.items, cursor)
  ELSE IF cursor.kind = "none" THEN ReadLatest(hist.file) ELSE ReadTranscript(hist.file, cursor)

(* Mutant: a text is cut anywhere.                                           *)
CutAnywhere(text, start) == Min({start + PartUnits, Len(text)})

(* splitTextParts(): long texts in parts that do not divide a pair.          *)
CutAfter(text, start) ==
  LET end == Min({start + PartUnits, Len(text)}) IN
  IF end < Len(text) /\ text[end] = "h" /\ text[end + 1] = "l" THEN end - 1 ELSE end
Parts(m) ==
  LET from[start \in 0..Len(m.text)] ==
        IF start = Len(m.text) THEN <<>>
        ELSE LET end == CutAfter(m.text, start) IN
             <<[m EXCEPT !.id = IF start = 0 THEN @ ELSE @ \o <<start>>,
                         !.text = SubSeq(m.text, start + 1, end)]>> \o from[end] IN
  IF Len(m.text) <= PartUnits THEN <<m>> ELSE from[0]
SplitTextParts(msgs) == FlattenSeq([i \in DOMAIN msgs |-> Parts(msgs[i])])

(* ReadConversationPage(): the parts of one native page that end at the     *)
(* cursor's anchor, as many as fit.                                         *)
Cost(layer, p) == Len(p.text) + (IF layer = "public" THEN 2 ELSE 1)
PageCursor(layer, native, anchor, id) == [kind |-> "page", layer |-> layer, native |-> native, anchor |-> anchor, id |-> id]
Own(layer, cursor) == cursor.kind = "page" /\ cursor.layer = layer
Found(parts, id) == {i \in DOMAIN parts : parts[i].id = id}
Shows(layer, page, shown, rest) ==
  [ok |-> TRUE, msgs |-> shown,
   next |-> IF rest > 0 THEN PageCursor(layer, page.replay, "before", shown[1].id) ELSE page.next,
   replay |-> IF shown = <<>> THEN page.replay ELSE PageCursor(layer, page.replay, "through", Last(shown).id)]
Counted(layer, page, parts, end, count) ==
  IF end > 0 /\ count = 0 THEN Failed ELSE Shows(layer, page, SubSeq(parts, end - count + 1, end), end - count)
EndingAt(layer, page, parts, end) ==
  Counted(layer, page, parts, end,
    Max({k \in 0..Min({end, PageMessages}) :
           MapThenSumSet(LAMBDA i : Cost(layer, parts[i]), (end - k + 1)..end) <= PageBytes}))
Anchored(layer, cursor, page, parts) ==
  IF ~Own(layer, cursor) THEN EndingAt(layer, page, parts, Len(parts))
  ELSE IF Found(parts, cursor.id) = {} THEN Failed
  ELSE EndingAt(layer, page, parts, Min(Found(parts, cursor.id)) - (IF cursor.anchor = "through" THEN 0 ELSE 1))
Assembled(layer, cursor, page) ==
  IF page.ok THEN Anchored(layer, cursor, page, SplitTextParts(page.msgs)) ELSE Failed
NativeCursor(layer, cursor) == IF Own(layer, cursor) THEN cursor.native ELSE cursor

WorkerPage(cursor) == Assembled("worker", cursor, ReadSource(NativeCursor("worker", cursor)))
BelowPublic(cursor) == IF hist.layers = 2 THEN WorkerPage(cursor) ELSE ReadSource(cursor)
PublicPage(cursor) == Assembled("public", cursor, BelowPublic(NativeCursor("public", cursor)))

-----------------------------------------------------------------------------
(* remember(): a body is kept once, at the newest place, and the oldest go  *)
(* until the rest fits; one that is too large is not kept.                  *)
BodySize(m) == Len(m.text) + 1
SameKey(m, n) == m.id = n.id /\ m.text = n.text /\ m.result = n.result
Total(ms) == FoldLeft(LAMBDA n, m : n + BodySize(m), 0, ms)

(* Mutant: a body is counted again where it is already kept.                 *)
RememberTwice(c, m) ==
  LET others == SelectSeq(c.entries, LAMBDA e : ~SameKey(e, m))
      grown == Append(others, m)
      drop == Min({k \in 0..Len(grown) : c.bytes + BodySize(m) - Total(SubSeq(grown, 1, k)) <= CacheBytes \/ k = Len(grown)}) IN
  IF BodySize(m) > CacheBytes THEN c
  ELSE [entries |-> SubSeq(grown, drop + 1, Len(grown)), bytes |-> c.bytes + BodySize(m) - Total(SubSeq(grown, 1, drop))]

Remember(c, m) ==
  LET others == SelectSeq(c.entries, LAMBDA e : ~SameKey(e, m))
      held == c.bytes - (IF Len(others) = Len(c.entries) THEN 0 ELSE BodySize(m))
      grown == Append(others, m)
      kept(k) == SubSeq(grown, k + 1, Len(grown))
      drop == Min({k \in 0..Len(grown) : held + BodySize(m) - Total(SubSeq(grown, 1, k)) <= CacheBytes}) IN
  IF BodySize(m) > CacheBytes THEN [entries |-> others, bytes |-> held]
  ELSE [entries |-> kept(drop), bytes |-> held + BodySize(m) - Total(SubSeq(grown, 1, drop))]
RememberAll(msgs) ==
  LET c == FoldLeft(Remember, [entries |-> cache, bytes |-> bytes], msgs) IN
  cache' = c.entries /\ bytes' = c.bytes

(* Page(): a page, and its bodies in the cache.                              *)
AllParts == SplitTextParts(IF hist.source = "items" THEN hist.items
                           ELSE FlattenSeq([i \in DOMAIN hist.file.recs |-> RecordMessages(hist.file, i, DOMAIN hist.file.recs)]))
Ids(ps) == [i \in DOMAIN ps |-> ps[i].id]
Shown(page, w) ==
  IF ~page.ok THEN walk' = [w EXCEPT !.state = "refused"] /\ UNCHANGED <<cache, bytes>>
  ELSE /\ walk' = [w EXCEPT !.state = IF page.next.kind = "none" THEN "done" ELSE "open",
                            !.next = page.next, !.last = page.msgs, !.replay = page.replay]
       /\ RememberAll(page.msgs)

Open ==
  /\ walk.state = "closed"
  /\ Shown(PublicPage(NoCursor), [walk EXCEPT !.end = IF AllParts = <<>> THEN <<>> ELSE Last(AllParts).id])
  /\ UNCHANGED <<hist, load, left>>
Older ==
  /\ walk.state = "open"
  /\ Shown(PublicPage(walk.next), [walk EXCEPT !.newer = walk.last \o @])
  /\ UNCHANGED <<hist, load, left>>
(* A page is read again by the cursor it came with; an empty page names no   *)
(* message, and its cursor is the native page's own.                         *)
Again ==
  /\ walk.state = "open" /\ walk.last /= <<>> /\ Spend("again")
  /\ Shown(PublicPage(walk.replay), walk)
  /\ UNCHANGED <<hist, load>>

-----------------------------------------------------------------------------
(* Load(): bodies by identity and revision, from the cache or by reading    *)
(* the conversation again.                                                  *)
Loading(changes) == load' = changes @@ load
Request(want, exact) ==
  /\ load.state = "none" /\ Spend("load") /\ want /= <<>>
  /\ Loading([state |-> "take", want |-> want, exact |-> exact,
              calm |-> \A i \in DOMAIN want : \E p \in ToSet(AllParts) : SameKey(p, want[i])])
  /\ UNCHANGED <<hist, walk, cache, bytes>>

Wanted(id) == {i \in DOMAIN load.want : load.want[i].id = id}
Take(i) ==
  LET hit == {k \in DOMAIN cache : SameKey(cache[k], load.want[i])} IN
  /\ load.state = "take" /\ i = Len(load.found) + 1
  /\ IF hit = {} THEN UNCHANGED cache
     ELSE cache' = Append(SelectSeq(cache, LAMBDA e : ~SameKey(e, load.want[i])), load.want[i])
  /\ Loading([found |-> Append(load.found, IF hit = {} THEN {} ELSE {cache[Min(hit)]}),
              state |-> IF i = Len(load.want) THEN "read" ELSE "take"])
  /\ UNCHANGED <<hist, walk, bytes, left>>

Missing == {i \in DOMAIN load.found : load.found[i] = {}}
Changed(m) == \E i \in Wanted(m.id) \cap Missing : load.exact /\ ~SameKey(m, load.want[i])
TakesFrom(msgs) ==
  [i \in DOMAIN load.found |-> load.found[i] \cup {m \in ToSet(msgs) : load.found[i] = {} /\ m.id = load.want[i].id}]
Takes(page, found) ==
  Loading([found |-> found, cursor |-> page.next, visited |-> load.visited \cup {load.cursor},
           state |-> IF page.next.kind = "none" /\ \E i \in DOMAIN found : found[i] = {} THEN "refused" ELSE "read"])
Reads(page) ==
  \/ /\ \E k \in DOMAIN page.msgs : Changed(page.msgs[k]) /\ RememberAll(SubSeq(page.msgs, 1, k))
                                    /\ \A j \in 1..(k - 1) : ~Changed(page.msgs[j])
     /\ Loading([state |-> "refused"])
  \/ /\ \A k \in DOMAIN page.msgs : ~Changed(page.msgs[k])
     /\ RememberAll(page.msgs) /\ Takes(page, TakesFrom(page.msgs))
ReadMore ==
  /\ load.state = "read" /\ Missing /= {} /\ load.cursor \notin load.visited
  /\ \E page \in {PublicPage(load.cursor)} : page.ok /\ Reads(page)
  /\ UNCHANGED <<hist, walk, left>>
LoadEnds ==
  /\ load.state = "read" /\ UNCHANGED <<hist, walk, cache, bytes, left>>
  /\ \/ Missing = {} /\ Loading([state |-> "answered"])
     \/ Missing /= {} /\ (load.cursor \in load.visited \/ ~PublicPage(load.cursor).ok) /\ Loading([state |-> "refused"])

-----------------------------------------------------------------------------
(* The conversation goes on: a message arrives, the last one grows, a turn   *)
(* is rolled back, a transcript is rewritten or registered anew.            *)
Became(h) == hist' = h /\ Loading([calm |-> FALSE]) /\ UNCHANGED <<walk, cache, bytes>>
Fresh == <<hist.ids + 1, 0>>
Written(size, block) ==
  [hist.file EXCEPT !.recs = Append(@, [id |-> hist.file.ids + 1, size |-> hist.file.tail + size, blocks |-> <<block>>]),
                    !.tail = 0, !.ids = @ + 1]
Arrive(text) ==
  /\ Spend("arrive")
  /\ IF hist.source = "items"
     THEN Became([hist EXCEPT !.items = Append(@, Message(Fresh, text, FALSE)), !.ids = @ + 1])
     ELSE Became([hist EXCEPT !.file = Written(2, [kind |-> "text", tool |-> 0, text |-> text])])
Result(t) ==
  /\ hist.source = "transcript" /\ Spend("result")
  /\ Became([hist EXCEPT !.file = Written(1, [kind |-> "result", tool |-> t, text |-> <<>>])])
Grow(text) ==
  /\ Spend("grow")
  /\ IF hist.source = "items"
     THEN /\ hist.items /= <<>>
          /\ Became([hist EXCEPT !.items[Len(hist.items)].text = @ \o text])
     ELSE hist.file.tail = 0 /\ Became([hist EXCEPT !.file.tail = 1])
Rollback ==
  /\ Spend("rollback")
  /\ IF hist.source = "items"
     THEN hist.items /= <<>> /\ Became([hist EXCEPT !.items = Front(@)])
     ELSE \/ Len(hist.file.recs) > 1 /\ Became([hist EXCEPT !.file.recs = Tail(@)])
          \/ Became([hist EXCEPT !.file.binding = @ + 1])

Next ==
  \/ Open \/ Older \/ Again
  \/ \E p, q \in ToSet(walk.last \o walk.newer), exact \in BOOLEAN :
       Request(IF p.id = q.id THEN <<p>> ELSE <<p, q>>, exact)
  \/ \E i \in 1..2 : i <= Len(load.want) /\ Take(i)
  \/ ReadMore \/ LoadEnds
  \/ \E text \in Grown : Arrive(text) \/ Grow(text)
  \/ \E t \in 1..2 : Result(t)
  \/ Rollback
Spec == Init /\ [][Next]_vars

-----------------------------------------------------------------------------
(* A part divides no pair at its ends.                                      *)
Whole(p) == p.text = <<>> \/ (Last(p.text) /= "h" /\ p.text[1] /= "l")

(* Paging backwards while the conversation goes on shows a stretch of it    *)
(* without a gap and without a repetition, in whole pairs, up to where it   *)
(* was opened; at the end it has reached the beginning.  Where that cannot  *)
(* be kept the walk is refused (pages.go:139).                              *)
WalkExact ==
  LET seen == walk.last \o walk.newer
      now == AllParts
      at == {i \in DOMAIN now : seen /= <<>> /\ now[i].id = seen[1].id}
      there == \A p \in ToSet(seen) : \E q \in ToSet(now) : p.id = q.id IN
  walk.state \in {"open", "done"} /\ there =>
    /\ seen /= <<>> => Min(at) + Len(seen) - 1 <= Len(now) /\ Ids(seen) = SubSeq(Ids(now), Min(at), Min(at) + Len(seen) - 1) /\ Last(seen).id = walk.end
    /\ walk.state = "done" /\ now /= <<>> /\ walk.end /= <<>> => seen /= <<>> /\ Min(at) = 1
    /\ \A p \in ToSet(seen) : Whole(p) /\ \E q \in ToSet(now) : p.id = q.id /\ IsPrefix(p.text, q.text)

(* A body is the one that was asked for: of the identity, and of the        *)
(* revision where that matters; one that is still there is found, from the  *)
(* cache or not, and the cache counts what it holds, within its limit       *)
(* (payloads.go:102 and :224).                                              *)
LoadTrue ==
  /\ bytes = Total(cache) /\ bytes <= CacheBytes
  /\ load.state = "answered" => \A i \in DOMAIN load.want : \A m \in load.found[i] :
       m.id = load.want[i].id /\ (load.exact => SameKey(m, load.want[i]))
  /\ load.state = "refused" => ~load.calm
=============================================================================
