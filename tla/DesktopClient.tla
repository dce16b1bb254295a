---------------------------- MODULE DesktopClient ----------------------------
(***************************************************************************)
(* The IPC client of the original Desktop (internal/desktop/client.go) and *)
(* the exchange it keeps per connection (exchange.go).                     *)
(*                                                                         *)
(* A Client shares one opening between its callers, holds at most one      *)
(* socket and numbers its connections.  Each connection has a reader, a    *)
(* writer with a bounded queue, and a table of pending calls.  A step is   *)
(* one critical section of c.mu or x.mu, one channel operation, or one     *)
(* blocking call between two of them.  The Desktop and the pipe are        *)
(* external: they may fail, stay silent or answer at any time.             *)
(***************************************************************************)
EXTENDS Integers, Sequences, FiniteSets

CONSTANTS
  Callers,      \* calls of Request, RequestOnConnection or Broadcast, each made once
  Budgets,      \* bounds of a behaviour: attempts to connect, calls, discovery
                \* requests, Close(), and the limit of pending calls of an exchange (64)
  MaxWrites,    \* capacity of x.writes (64)
  MaxQueued     \* MaxOutputBytes, in packets of one size

Opener == "opener"       \* the goroutine of open()
Owner  == "owner"        \* the caller of Close()
Note   == "note"         \* a packet without a pending call
None   == "none"
Procs  == Callers \cup {Opener}

ASSUME ClientAssumption ==
  /\ \A b \in Budgets : {b.opens, b.calls, b.notes, b.closes, b.pending} \subseteq Nat
  /\ {MaxWrites, MaxQueued} \subseteq Nat \ {0}
  /\ Callers \cap {Opener, Owner, Note, None} = {}

VARIABLES
  budget,       \* the bounds of this behaviour, never changed
  socket,       \* c.socket, by its generation; 0 is nil
  generation, connected, stopped,
  opening,      \* c.opening # nil
  opens,        \* attempts so far
  outcome,      \* what attempt.done has published to a caller that waits for it
  backoff,      \* time is before c.retryAt
  pc, op,       \* where a goroutine stands, which operation it is
  on,           \* the exchange it uses
  bound,        \* the generation a caller has seen and carries
  late,         \* goroutines whose context is done
  ready,        \* initialize() has succeeded so far
  pending, writes, queued, failed,   \* fields of each exchange
  stage,        \* how far the exchange's one effective close() has come
  hand, wpc,    \* writeLoop: the packet in hand, where it stands
  rpc,          \* readLoop
  received,     \* calls the Desktop has got over a connection (external)
  replies,      \* everything sent on a call's result channel
  notes,
  admitted,     \* connections that were ever connected (history)
  told          \* runs of OnClosed for a connection

client == <<socket, generation, connected, stopped, opening, opens, outcome, backoff, ready, admitted>>
call   == <<op, on, bound, late>>
loops  == <<hand, wpc, rpc>>
books  == <<pending, writes, queued, failed, stage, replies>>
env    == <<received, notes>>
vars   == <<budget, client, pc, call, loops, books, env, told>>

Conns == 1..budget.opens

Init ==
  /\ budget \in Budgets
  /\ socket = 0 /\ generation = 0 /\ connected = FALSE /\ stopped = FALSE
  /\ opening = FALSE /\ opens = 0 /\ outcome = [c \in Callers |-> None]
  /\ backoff = FALSE /\ ready = FALSE /\ admitted = {}
  /\ pc = [a \in Procs \cup {Owner} |-> "idle"]
  /\ op = [c \in Callers |-> None] /\ on = [a \in Procs \cup {Owner} |-> 0]
  /\ bound = [c \in Callers |-> 0] /\ late = {}
  /\ pending = [g \in Conns |-> {}] /\ writes = [g \in Conns |-> << >>]
  /\ queued = [g \in Conns |-> 0] /\ failed = [g \in Conns |-> FALSE]
  /\ stage = [g \in Conns |-> "open"] /\ replies = [a \in Procs |-> << >>]
  /\ hand = [g \in Conns |-> None]
  /\ wpc = [g \in Conns |-> "off"] /\ rpc = [g \in Conns |-> "off"]
  /\ received = [g \in Conns |-> {}] /\ notes = 0
  /\ told = [g \in Conns |-> 0]

Goto(a, l) == pc' = [pc EXCEPT ![a] = l]

-----------------------------------------------------------------------------
(* Connect() under the lock, for a caller c of Request().                   *)
StartOpening == opening' = TRUE /\ opens' = opens + 1
CanOpen == ~opening /\ ~backoff /\ opens < budget.opens

Connect(c) ==
  /\ pc[c] = "idle" /\ op' = [op EXCEPT ![c] = "request"]
  /\ \/ (stopped \/ (~connected /\ ~opening /\ backoff))      \* refused, or the last failure
        /\ Goto(c, "done") /\ UNCHANGED <<opening, opens>>
     \/ ~stopped /\ connected
        /\ Goto(c, "admit") /\ UNCHANGED <<opening, opens>>
     \/ ~stopped /\ ~connected /\ opening
        /\ Goto(c, "connect") /\ UNCHANGED <<opening, opens>>
     \/ ~stopped /\ ~connected /\ CanOpen /\ StartOpening
        /\ pc' = [pc EXCEPT ![c] = "connect", ![Opener] = "dial"]
  /\ UNCHANGED <<socket, generation, connected, stopped, outcome, backoff, ready, admitted, on, bound,
                 late, loops, books, env, told>>

(* Connect() of anyone whose own waiting does not matter here.              *)
SomebodyConnects ==
  /\ ~stopped /\ ~connected /\ CanOpen /\ StartOpening
  /\ Goto(Opener, "dial")
  /\ UNCHANGED <<socket, generation, connected, stopped, outcome, backoff, ready, admitted, call, loops,
                 books, env, told>>

BackoffPasses ==
  /\ backoff /\ backoff' = FALSE
  /\ UNCHANGED <<socket, generation, connected, stopped, opening, opens, outcome, ready, admitted, pc,
                 call, loops, books, env, told>>

(* The caller's wait: the attempt's outcome, its own context or Close().    *)
ConnectReturns(c) ==
  /\ pc[c] = "connect"
  /\ \/ outcome[c] = "ok" /\ Goto(c, "admit") /\ UNCHANGED late
     \/ /\ outcome[c] = "error" \/ c \in late \/ stopped
        /\ Goto(c, "done") /\ late' = late \ {c}
  /\ outcome' = [outcome EXCEPT ![c] = None]
  /\ UNCHANGED <<socket, generation, connected, stopped, opening, opens, backoff, ready, admitted, op, on,
                 bound, loops, books, env, told>>

(* Request() after Connect(): the socket of this moment, if it is admitted. *)
Request(c) ==
  /\ pc[c] = "admit"
  /\ IF connected /\ socket # 0
     THEN Goto(c, "register") /\ on' = [on EXCEPT ![c] = socket]
     ELSE Goto(c, "done") /\ UNCHANGED on
  /\ UNCHANGED <<client, op, bound, late, loops, books, env, told>>

(* ConnectionGeneration(): the caller remembers what it saw.                *)
ConnectionGeneration(c) ==
  /\ pc[c] = "idle" /\ bound[c] = 0
  /\ connected /\ ~stopped /\ socket # 0
  /\ bound' = [bound EXCEPT ![c] = generation]
  /\ op' = [op EXCEPT ![c] = "bound"] /\ Goto(c, "bound")
  /\ UNCHANGED <<client, on, late, loops, books, env, told>>

RequestOnAnyConnection(c) ==                                 \* mutant: the generation is not compared
  /\ pc[c] = "bound"
  /\ IF connected /\ ~stopped /\ socket # 0
     THEN Goto(c, "register") /\ on' = [on EXCEPT ![c] = socket]
     ELSE Goto(c, "done") /\ UNCHANGED on
  /\ UNCHANGED <<client, op, bound, late, loops, books, env, told>>
RequestOnConnection(c) ==
  /\ pc[c] = "bound"
  /\ IF generation = bound[c] /\ connected /\ ~stopped /\ socket # 0
     THEN Goto(c, "register") /\ on' = [on EXCEPT ![c] = socket]
     ELSE Goto(c, "done") /\ UNCHANGED on
  /\ UNCHANGED <<client, op, bound, late, loops, books, env, told>>

(* Broadcast(): a packet no call waits for.                                 *)
Broadcast(c) ==
  /\ pc[c] = "idle" /\ connected /\ socket # 0
  /\ op' = [op EXCEPT ![c] = "broadcast"]
  /\ on' = [on EXCEPT ![c] = socket] /\ Goto(c, "enqueue")
  /\ UNCHANGED <<client, bound, late, loops, books, env, told>>

-----------------------------------------------------------------------------
(* exchange.call(): registers, enqueues, waits, and always leaves.          *)
Broadcasts(a) == a \in Callers /\ op[a] = "broadcast"
DeadlinePasses(a) ==
  /\ pc[a] \in {"connect", "register", "enqueue", "wait"} /\ ~Broadcasts(a) /\ a \notin late
  /\ late' = late \cup {a}
  /\ UNCHANGED <<client, pc, op, on, bound, loops, books, env, told>>

AfterCall(a) == IF a = Opener THEN "fail" ELSE "done"
Register(a) ==
  LET g == on[a] IN
  /\ pc[a] = "register"
  /\ IF failed[g] \/ Cardinality(pending[g]) >= budget.pending
     THEN Goto(a, AfterCall(a)) /\ UNCHANGED pending
     ELSE Goto(a, "enqueue") /\ pending' = [pending EXCEPT ![g] = @ \cup {a}]
  /\ UNCHANGED <<client, call, loops, writes, queued, failed, stage, replies, env, told>>

Room(g) == queued[g] + 1 <= MaxQueued /\ Len(writes[g]) < MaxWrites
Put(g, packet) ==
  /\ writes' = [writes EXCEPT ![g] = Append(@, packet)]
  /\ queued' = [queued EXCEPT ![g] = @ + 1]

(* enqueue(); a full queue closes the exchange.  The context is looked at   *)
(* before it.                                                               *)
AfterEnqueue(a) == IF Broadcasts(a) THEN "done" ELSE "wait"
AfterError(a) == IF Broadcasts(a) THEN "done" ELSE "leave"
Enqueue(a) ==
  LET g == on[a] IN
  /\ pc[a] = "enqueue"
  /\ \/ (failed[g] \/ a \in late) /\ Goto(a, AfterError(a)) /\ UNCHANGED <<writes, queued>>
     \/ /\ ~failed[g] /\ Room(g) /\ Goto(a, AfterEnqueue(a))
        /\ Put(g, IF Broadcasts(a) THEN Note ELSE a)
     \/ ~failed[g] /\ ~Room(g) /\ Goto(a, "close") /\ UNCHANGED <<writes, queued>>
  /\ UNCHANGED <<client, call, loops, pending, failed, stage, replies, env, told>>

CallReturns(a) ==
  /\ pc[a] = "wait" /\ (replies[a] # << >> \/ a \in late)
  /\ Goto(a, "leave")
  /\ UNCHANGED <<client, call, loops, books, env, told>>

(* The deferred delete; nobody has the channel any more.  initialize()      *)
(* accepts an answer or rejects it.                                         *)
AfterLeave(a) == IF a = Opener THEN {"fail"} \cup (IF replies[a] = <<"answer">> THEN {"identify"} ELSE {})
                 ELSE {"done"}
Leave(a) ==
  /\ pc[a] = "leave"
  /\ \E l \in AfterLeave(a) : Goto(a, l)
  /\ pending' = [pending EXCEPT ![on[a]] = @ \ {a}]
  /\ late' = late \ {a} /\ replies' = [replies EXCEPT ![a] = << >>]
  /\ on' = IF a = Opener THEN on ELSE [on EXCEPT ![a] = 0]
  /\ UNCHANGED <<client, op, bound, loops, writes, queued, failed, stage, env, told>>

-----------------------------------------------------------------------------
(* close() under x.mu: the first closer fails every pending call and drains *)
(* the queue.                                                               *)
CloseExchange(g) ==
  /\ failed' = [failed EXCEPT ![g] = TRUE]
  /\ stage' = [stage EXCEPT ![g] = "failed"]
  /\ replies' = [a \in Procs |-> IF a \in pending[g] THEN Append(replies[a], "closed") ELSE replies[a]]
  /\ pending' = [pending EXCEPT ![g] = {}]
  /\ writes' = [writes EXCEPT ![g] = << >>]
  /\ queued' = [queued EXCEPT ![g] = 0]

(* The rest of close(): the wire and, through onClose, the client.  Only    *)
(* the loss of the present socket is reported.  Nothing travels over the    *)
(* wire after that.                                                         *)
OnClose(g) ==
  /\ stage[g] = "failed"
  /\ IF socket = g
     THEN /\ socket' = 0 /\ connected' = FALSE
          /\ stage' = [stage EXCEPT ![g] = "report"]
     ELSE stage' = [stage EXCEPT ![g] = "over"] /\ UNCHANGED <<socket, connected>>
  /\ received' = [received EXCEPT ![g] = {}]
  /\ UNCHANGED <<generation, stopped, opening, opens, outcome, backoff, ready, admitted, pc, call, loops,
                 pending, writes, queued, failed, replies, notes, told>>

OnClosed(g) ==
  /\ stage[g] = "report"
  /\ stage' = [stage EXCEPT ![g] = "over"]
  /\ told' = [told EXCEPT ![g] = @ + 1]
  /\ UNCHANGED <<client, pc, call, loops, pending, writes, queued, failed, replies, env>>

(* A goroutine that calls close(): it goes on when its own close() is over, *)
(* at once when it was not the first.                                       *)
AfterClose(a) == CASE a = Opener /\ pc[a] \in {"fail", "failing"} -> "finish"
                   [] a = Owner -> "done"
                   [] OTHER -> AfterError(a)
Closes(a) ==
  /\ pc[a] \in {"close", "fail"}
  /\ IF on[a] = 0 \/ failed[on[a]]
     THEN Goto(a, AfterClose(a)) /\ UNCHANGED books
     ELSE Goto(a, IF pc[a] = "fail" THEN "failing" ELSE "closing") /\ CloseExchange(on[a])
  /\ UNCHANGED <<client, call, loops, env, told>>
HasClosed(a) ==
  /\ pc[a] \in {"closing", "failing"} /\ stage[on[a]] = "over"
  /\ Goto(a, AfterClose(a))
  /\ UNCHANGED <<client, call, loops, books, env, told>>

-----------------------------------------------------------------------------
(* initialize(): BeforeConnect and Dial end in a wire or in an error.       *)
Dial ==
  /\ pc[Opener] = "dial"
  /\ ready' = FALSE
  /\ Goto(Opener, "finish") \/ (~stopped /\ Goto(Opener, "install"))
  /\ UNCHANGED <<socket, generation, connected, stopped, opening, opens, outcome, backoff, admitted, call,
                 loops, books, env, told>>

(* The new exchange becomes the client's socket and its loops start.  A     *)
(* client that was stopped meanwhile closes the wire instead.               *)
InstallIt ==
  /\ socket' = generation + 1 /\ generation' = generation + 1
  /\ on' = [on EXCEPT ![Opener] = generation + 1]
  /\ wpc' = [wpc EXCEPT ![generation + 1] = "loop"]
  /\ rpc' = [rpc EXCEPT ![generation + 1] = "read"]
  /\ Goto(Opener, "register")
Install ==
  /\ pc[Opener] = "install"
  /\ IF stopped
     THEN Goto(Opener, "finish") /\ UNCHANGED <<socket, generation, on, wpc, rpc>>
     ELSE InstallIt
  /\ UNCHANGED <<connected, stopped, opening, opens, outcome, backoff, ready, admitted, op,
                 bound, late, hand, books, env, told>>

(* The native client id is kept unless the exchange has failed meanwhile.   *)
Identify ==
  /\ pc[Opener] = "identify"
  /\ ready' = ~failed[on[Opener]]
  /\ Goto(Opener, IF failed[on[Opener]] THEN "fail" ELSE "finish")
  /\ UNCHANGED <<socket, generation, connected, stopped, opening, opens, outcome, backoff, admitted, call,
                 loops, books, env, told>>

(* The second critical section of open(): the connection is admitted only   *)
(* if its socket is still there and alive.                                  *)
Publish(ok) ==
  /\ pc[Opener] = "finish"
  /\ connected' = ok
  /\ backoff' = ~ok
  /\ opening' = FALSE
  /\ outcome' = [c \in Callers |-> IF pc[c] = "connect" /\ outcome[c] = None
                                  THEN (IF ok THEN "ok" ELSE "error") ELSE outcome[c]]
  /\ admitted' = IF ok THEN admitted \cup {socket} ELSE admitted
  /\ Goto(Opener, "idle") /\ on' = [on EXCEPT ![Opener] = 0]
  /\ ready' = FALSE /\ late' = late \ {Opener}
  /\ UNCHANGED <<socket, generation, stopped, opens, op, bound, loops, books, env, told>>
FinishUnchecked == Publish(ready /\ ~stopped)               \* mutant: no second look at the socket
Finish == Publish(ready /\ socket # 0 /\ ~failed[socket] /\ ~stopped)

(* Close(): no authority remains, then the socket is closed.                *)
Close ==
  /\ pc[Owner] = "idle" /\ budget.closes > 0
  /\ stopped' = TRUE /\ connected' = FALSE
  /\ on' = [on EXCEPT ![Owner] = socket] /\ Goto(Owner, "close")
  /\ UNCHANGED <<socket, generation, opening, opens, outcome, backoff, ready, admitted, op, bound,
                 late, loops, books, env, told>>

-----------------------------------------------------------------------------
WireClosed(g) == stage[g] \in {"report", "over"}

(* writeLoop(): a packet of a call that no longer waits is dropped.         *)
Written(l, g) == wpc' = [wpc EXCEPT ![g] = l]
WriterTakes(g) ==
  /\ wpc[g] = "loop"
  /\ \/ failed[g] /\ Written("done", g) /\ UNCHANGED <<writes, hand>>
     \/ /\ writes[g] # << >> /\ Written("taken", g)
        /\ hand' = [hand EXCEPT ![g] = Head(writes[g])]
        /\ writes' = [writes EXCEPT ![g] = Tail(@)]
  /\ UNCHANGED <<client, pc, call, rpc, pending, queued, failed, stage, replies, env, told>>

Active(g) == ~failed[g] /\ (hand[g] = Note \/ (hand[g] \in pending[g] /\ hand[g] \notin late))
WriterChecksOnlyFailure(g) ==                                \* mutant: an abandoned call is written
  /\ wpc[g] = "taken" /\ Written(IF failed[g] THEN "written" ELSE "write", g)
  /\ UNCHANGED <<client, pc, call, hand, rpc, books, env, told>>
WriterChecks(g) ==
  /\ wpc[g] = "taken" /\ Written(IF Active(g) THEN "write" ELSE "written", g)
  /\ UNCHANGED <<client, pc, call, hand, rpc, books, env, told>>

WriterWrites(g) ==
  /\ wpc[g] = "write" /\ ~WireClosed(g)
  /\ Written("written", g)
  /\ received' = [received EXCEPT ![g] = @ \cup ({hand[g]} \cap Procs)]
  /\ UNCHANGED <<client, pc, call, hand, rpc, books, notes, told>>

(* A failed write closes the exchange and ends the writer.                  *)
WriterFails(g) ==
  /\ wpc[g] = "write" /\ Written("done", g) /\ hand' = [hand EXCEPT ![g] = None]
  /\ IF failed[g] THEN UNCHANGED books ELSE CloseExchange(g)
  /\ UNCHANGED <<client, pc, call, rpc, env, told>>

Unaccount(g) == queued' = [queued EXCEPT ![g] = IF failed[g] THEN @ ELSE @ - 1]
WriterFinishes(g) ==
  /\ wpc[g] = "written" /\ Written("loop", g) /\ hand' = [hand EXCEPT ![g] = None]
  /\ Unaccount(g)
  /\ UNCHANGED <<client, pc, call, rpc, pending, writes, failed, stage, replies, env, told>>

-----------------------------------------------------------------------------
(* readLoop(): an answer takes its call out of the table and reaches it     *)
(* under one lock.  A broadcast goes to OnBroadcast and changes nothing     *)
(* here.                                                                    *)
ReaderAnswers(g, a) ==
  /\ rpc[g] = "read" /\ a \in received[g] \cap pending[g]
  /\ replies' = [replies EXCEPT ![a] = Append(@, "answer")]
  /\ pending' = [pending EXCEPT ![g] = @ \ {a}]
  /\ UNCHANGED <<client, pc, call, loops, writes, queued, failed, stage, env, told>>

(* A discovery request is answered; a full queue closes the exchange.       *)
ReaderDiscovers(g) ==
  /\ rpc[g] = "read" /\ ~failed[g] /\ notes < budget.notes /\ notes' = notes + 1
  /\ IF Room(g)
     THEN Put(g, Note) /\ UNCHANGED <<rpc, pending, failed, stage, replies>>
     ELSE CloseExchange(g) /\ rpc' = [rpc EXCEPT ![g] = "done"]
  /\ UNCHANGED <<client, pc, call, hand, wpc, received, told>>

(* The stream ends or carries an invalid message.                           *)
ReaderEnds(g) ==
  /\ rpc[g] = "read" /\ rpc' = [rpc EXCEPT ![g] = "done"]
  /\ IF failed[g] THEN UNCHANGED books ELSE CloseExchange(g)
  /\ UNCHANGED <<client, pc, call, hand, wpc, env, told>>

-----------------------------------------------------------------------------
Waiting(a) == DeadlinePasses(a) \/ CallReturns(a) \/ Register(a) \/ Enqueue(a) \/ Leave(a)
CallerStep(c) == ConnectReturns(c) \/ Request(c) \/ RequestOnConnection(c) \/ Waiting(c)
OpenerStep == Dial \/ Install \/ Identify \/ Finish \/ Waiting(Opener)
CloseStep(a) == Closes(a) \/ HasClosed(a)
WriterStep(g) == WriterTakes(g) \/ WriterChecks(g) \/ WriterFinishes(g)
ExchangeStep(g) ==
  \/ OnClose(g) \/ OnClosed(g) \/ WriterStep(g) \/ WriterWrites(g) \/ WriterFails(g)
  \/ ReaderDiscovers(g) \/ ReaderEnds(g)
  \/ \E a \in Procs : ReaderAnswers(g, a)

Calls == Cardinality({c \in Callers : pc[c] # "idle"})
Begin(c) == Calls < budget.calls /\ (Connect(c) \/ ConnectionGeneration(c) \/ Broadcast(c))

Step ==
  \/ \E c \in Callers : Begin(c) \/ CallerStep(c)
  \/ SomebodyConnects \/ BackoffPasses \/ OpenerStep \/ Close
  \/ \E a \in Procs \cup {Owner} : CloseStep(a)
  \/ \E g \in Conns : ExchangeStep(g)

Next == Step /\ UNCHANGED budget

Spec == Init /\ [][Next]_vars

-----------------------------------------------------------------------------
ClientTyped ==
  /\ budget \in Budgets /\ generation \in 0..budget.opens /\ socket \in 0..generation
  /\ connected \in BOOLEAN /\ stopped \in BOOLEAN /\ opening \in BOOLEAN
  /\ backoff \in BOOLEAN /\ ready \in BOOLEAN
  /\ opens \in 0..budget.opens /\ outcome \in [Callers -> {None, "ok", "error"}]
  /\ admitted \subseteq Conns /\ told \in [Conns -> Nat]
CallsTyped ==
  /\ pc \in [Procs \cup {Owner} -> {"idle", "connect", "admit", "bound", "register", "enqueue", "wait",
                "leave", "close", "closing", "fail", "failing", "dial", "install", "identify", "finish", "done"}]
  /\ op \in [Callers -> {None, "request", "bound", "broadcast"}]
  /\ on \in [Procs \cup {Owner} -> 0..budget.opens]
  /\ bound \in [Callers -> 0..budget.opens] /\ late \subseteq Procs
BooksTyped ==
  /\ pending \in [Conns -> SUBSET Procs] /\ writes \in [Conns -> Seq(Procs \cup {Note})]
  /\ queued \in [Conns -> 0..MaxQueued] /\ failed \in [Conns -> BOOLEAN]
  /\ stage \in [Conns -> {"open", "failed", "report", "over"}]
  /\ replies \in [Procs -> {<< >>, <<"answer">>, <<"closed">>}]
LoopsTyped ==
  /\ hand \in [Conns -> Procs \cup {Note, None}]
  /\ wpc \in [Conns -> {"off", "loop", "taken", "write", "written", "done"}]
  /\ rpc \in [Conns -> {"off", "read", "done"}]
  /\ received \in [Conns -> SUBSET Procs] /\ notes \in 0..budget.notes

(* Types and ranges. A result channel holds at most one value: an answer, a *)
(* close and a deadline race for it, and a second send would block with the *)
(* exchange's lock held.                                                    *)
TypeOK == ClientTyped /\ CallsTyped /\ BooksTyped /\ LoopsTyped

(* "A socket replacement cannot receive a request carrying the previous     *)
(* generation": a mutation bound to a connection reaches no other, however  *)
(* losses and reconnections fall between its steps.                         *)
NeverMigrates ==
  \A c \in Callers, g \in Conns : op[c] = "bound" /\ c \in received[g] => g = bound[c]

(* A client that says it is connected holds its newest connection, and if   *)
(* that one has failed its closer is about to take the authority away.      *)
(* Without the second look of open() a connection lost during its           *)
(* initialization would stay admitted for ever.                             *)
ConnectedToSomething ==
  connected => /\ socket = generation /\ socket # 0
               /\ failed[socket] => stage[socket] = "failed"

(* Every connection the client does not hold is closed, and once Close()    *)
(* has returned no connection is left, also when it raced an opening.       *)
NothingLeaks ==
  \A g \in 1..generation : ~failed[g] => socket = g /\ pc[Owner] # "done"

(* The loss of an admitted connection is reported exactly once: the         *)
(* followers of its tasks depend on it.                                     *)
LossReported ==
  \A g \in Conns : /\ told[g] <= 1
                   /\ g \in admitted /\ stage[g] = "over" => told[g] = 1

(* The bytes accounted for are those of the queue and of the packet in      *)
(* hand; a leak would close a healthy connection for backpressure.          *)
QueueAccounted ==
  \A g \in 1..generation : ~failed[g] => queued[g] = Len(writes[g]) + (IF hand[g] = None THEN 0 ELSE 1)

(* No connection is lost sight of, whatever openings, losses and Close      *)
(* overlap: the admitted one lives or is about to be reported, no other is  *)
(* left open, a loss is told once, and the queue is counted exactly         *)
(* (client.go:113, :159 and :171, exchange.go:158).                         *)
ConnectionsAccounted == TypeOK /\ ConnectedToSomething /\ NothingLeaks /\ LossReported /\ QueueAccounted

(* The writer starts to write a call only while its caller waits for the    *)
(* answer: input that timed out in the queue never runs later.              *)
NoAbandonedWrite ==
  [][\A g \in Conns : wpc[g] # "write" /\ wpc'[g] = "write" /\ hand[g] # Note => pc[hand[g]] = "wait"]_vars
==============================================================================
