---------------------------- MODULE DesktopProofs ----------------------------
(***************************************************************************)
(* Proofs about the original Desktop.  About DesktopClient, for any        *)
(* callers, bounds and numbers of connections: a bound request never       *)
(* reaches another connection, no connection is lost sight of, and no      *)
(* abandoned call is written.  About DesktopAccess, for any requests,      *)
(* Desktop clients, accounts and settings: a bound mutation goes out as    *)
(* its client saw the task, a settings change reported as applied was, no  *)
(* second writer is opened for a task that a Desktop client owns, and      *)
(* readers share one history read.                                         *)
(***************************************************************************)
EXTENDS DesktopClient, DesktopAccess, FiniteSetTheorems, SequenceTheorems, TLAPS

-----------------------------------------------------------------------------
(* DesktopClient.                                                           *)

(* What a queue holds.                                                      *)
InQueue(q, p) == \E i \in 1..Len(q) : q[i] = p

(* At most one opening, which finds every earlier connection failed; what   *)
(* it installs is the newest connection until it publishes the outcome.     *)
AllFailed == \A g \in 1..generation : failed[g]
Openings ==
  /\ opening <=> pc[Opener] # "idle"
  /\ opening => ~connected
  /\ generation <= opens /\ (pc[Opener] \in {"dial", "install"} => generation < opens)
  /\ ready => pc[Opener] = "finish"
  /\ pc[Opener] \in {"register", "enqueue", "wait", "leave", "close", "closing", "identify", "fail", "failing"}
       => on[Opener] = generation /\ generation # 0
  /\ ~stopped /\ ~connected /\ pc[Opener] \in {"idle", "dial", "install"} => AllFailed
  /\ ~stopped /\ pc[Opener] = "finish" /\ ~ready => AllFailed
  /\ pc[Opener] \notin {"connect", "admit", "bound", "done"}

(* The socket is the newest connection or nothing, and the only one that    *)
(* can be alive.                                                            *)
Sockets ==
  /\ socket \in {0, generation}
  /\ \A g \in 1..generation : ~failed[g] => socket = g
  /\ socket # 0 => stage[socket] \in {"open", "failed"}
  /\ connected => socket # 0 /\ ~stopped
  /\ \A g \in Conns : failed[g] <=> stage[g] # "open"

(* An admitted connection stays the socket until its loss is reported.      *)
Losses ==
  /\ admitted \subseteq 1..generation
  /\ \A g \in admitted : stage[g] \in {"open", "failed"} => socket = g /\ (connected \/ stopped)
  /\ \A g \in Conns : told[g] \in 0..1 /\ (stage[g] # "over" => told[g] = 0)
  /\ \A g \in admitted : stage[g] = "over" => told[g] = 1

(* Close() holds what was alive when it stopped the client.                 *)
Closing ==
  /\ stopped <=> pc[Owner] # "idle"
  /\ pc[Owner] \in {"idle", "close", "closing", "done"}
  /\ stopped => \A g \in 1..generation : ~failed[g] => on[Owner] = g
  /\ pc[Owner] = "done" => on[Owner] = 0 \/ failed[on[Owner]]

(* Which exchange a goroutine uses.                                         *)
Users ==
  /\ \A a \in Procs \cup {Owner} : on[a] \in 0..generation
  /\ \A a \in Procs \cup {Owner} : pc[a] \in {"closing", "failing"} => on[a] # 0 /\ failed[on[a]]
  /\ \A c \in Callers : /\ pc[c] \in {"register", "enqueue", "wait", "leave", "close"} => on[c] # 0
                        /\ pc[c] \notin {"dial", "install", "identify", "fail", "failing", "finish"}
                        /\ pc[c] \in {"idle", "connect", "admit", "bound"} => on[c] = 0

(* A connection that does not exist yet is untouched; a failed one is       *)
(* drained.                                                                 *)
Fresh == \A g \in Conns : g > generation =>
  /\ ~failed[g] /\ pending[g] = {} /\ writes[g] = << >> /\ queued[g] = 0 /\ hand[g] = None
  /\ wpc[g] = "off" /\ rpc[g] = "off" /\ received[g] = {}
Drained == \A g \in Conns : failed[g] => writes[g] = << >> /\ queued[g] = 0 /\ pending[g] = {}

(* The bytes of a live connection are those of the queue and of the hand.   *)
Hands == \A g \in Conns : hand[g] # None <=> wpc[g] \in {"taken", "write", "written"}
Queues == \A g \in Conns : ~failed[g] =>
  (hand[g] = None /\ queued[g] = Len(writes[g])) \/ (hand[g] # None /\ queued[g] = Len(writes[g]) + 1)

(* A registered call waits with an empty channel, on one connection; a      *)
(* broadcast is not registered and gets no answer.                          *)
InCall == {"enqueue", "wait", "close", "closing", "leave"}
Waits(a) ==
  /\ \A g \in Conns : a \in pending[g] =>
       /\ replies[a] = << >> /\ on[a] = g /\ pc[a] \in InCall \ {"closing"}
       /\ (pc[a] = "leave" => a \in late) /\ ~Broadcasts(a)
  /\ replies[a] # << >> => pc[a] \in InCall /\ ~Broadcasts(a)
Calling == \A a \in Procs : Waits(a)
OpsAt == \A c \in Callers :
  /\ op[c] = "broadcast" => pc[c] \in {"enqueue", "close", "closing", "done"}
  /\ op[c] = "bound" => pc[c] \notin {"idle", "connect", "admit"}

(* Only a call that has been enqueued is on its way, and a bound one only   *)
(* over the connection it is bound to.                                      *)
Out(a, g) == InQueue(writes[g], a) \/ hand[g] = a \/ a \in received[g]
SentAt == {"wait", "leave", "done", "identify", "fail", "failing", "finish"}
Sent ==
  \A g \in Conns, a \in Procs : Out(a, g) => pc[a] \in SentAt \/ (a = Opener /\ on[a] # g)
Bindings ==
  \A c \in Callers :
    /\ pc[c] = "idle" => bound[c] = 0
    /\ op[c] = "bound" => /\ on[c] \in {0, bound[c]}
                          /\ \A g \in Conns : Out(c, g) => g = bound[c]

ClientInv == /\ TypeOK /\ Openings /\ Sockets /\ Losses /\ Closing /\ Users /\ Fresh /\ Drained /\ Hands
       /\ Queues /\ Calling /\ OpsAt /\ Sent /\ Bindings

-----------------------------------------------------------------------------
LEMMA Distinct ==
  /\ Opener \in Procs /\ Opener # Owner /\ Opener # Note /\ Opener # None /\ Note # None
  /\ \A a \in Procs : a \in Procs \cup {Owner} /\ a # Owner /\ a # Note /\ a # None
  /\ \A c \in Callers : c \in Procs /\ c # Opener /\ c # Owner
  /\ \A a \in Procs : a # Opener => a \in Callers
  /\ None \notin {"ok", "error", "request", "bound", "broadcast"}
  BY ClientAssumption DEF Procs, Opener, Owner, Note, None

LEMMA Bounds ==
  ASSUME budget \in Budgets
  PROVE  /\ budget.opens \in Nat /\ budget.calls \in Nat /\ budget.notes \in Nat
         /\ budget.pending \in Nat /\ MaxWrites \in Nat \ {0} /\ MaxQueued \in Nat \ {0}
  BY ClientAssumption

(* The first value sent on a channel.                                       *)
LEMMA FirstSent == ASSUME NEW x \in STRING PROVE Append(<< >>, x) = <<x>>
  OBVIOUS

LEMMA QueuePut ==
  ASSUME NEW S, NEW q \in Seq(S), NEW p \in S
  PROVE  /\ Append(q, p) \in Seq(S) /\ Len(Append(q, p)) = Len(q) + 1 /\ Len(q) \in Nat
         /\ \A x : InQueue(Append(q, p), x) <=> x = p \/ InQueue(q, x)
<1> DEFINE r == Append(q, p)
<1>1. /\ r \in Seq(S) /\ Len(q) \in Nat /\ Len(r) = Len(q) + 1
      /\ \A i \in 1..Len(q) : r[i] = q[i]
      /\ r[Len(q) + 1] = p
  BY AppendProperties
<1> HIDE DEF r
<1>2. ASSUME NEW x PROVE InQueue(r, x) <=> x = p \/ InQueue(q, x)
  <2>1. ASSUME InQueue(r, x), x # p PROVE InQueue(q, x)
    BY <1>1, <2>1 DEF InQueue
  <2>2. ASSUME InQueue(q, x) PROVE InQueue(r, x)
    <3>1. PICK i \in 1..Len(q) : q[i] = x
      BY <2>2 DEF InQueue
    <3>2. i \in 1..Len(r) /\ r[i] = x
      BY <1>1, <3>1
    <3> QED BY <3>2 DEF InQueue
  <2>3. Len(r) \in 1..Len(r) /\ r[Len(r)] = p
    BY <1>1
  <2> QED BY <2>1, <2>2, <2>3 DEF InQueue
<1> QED BY <1>1, <1>2 DEF r

LEMMA QueueTaken ==
  ASSUME NEW S, NEW q \in Seq(S), q # << >>
  PROVE  /\ Head(q) \in S /\ Tail(q) \in Seq(S) /\ Len(Tail(q)) = Len(q) - 1 /\ Len(q) \in Nat \ {0}
         /\ InQueue(q, Head(q)) /\ \A x : InQueue(Tail(q), x) => InQueue(q, x)
<1> DEFINE r == Tail(q)
<1>1. /\ r \in Seq(S) /\ Len(q) \in Nat \ {0} /\ Len(r) = Len(q) - 1 /\ Head(q) = q[1] /\ Head(q) \in S
      /\ \A i \in 1..Len(r) : r[i] = q[i + 1]
  OBVIOUS
<1> HIDE DEF r
<1>2. ASSUME NEW x, InQueue(r, x) PROVE InQueue(q, x)
  <2>1. PICK i \in 1..Len(r) : r[i] = x
    BY <1>2 DEF InQueue
  <2>2. i + 1 \in 1..Len(q) /\ q[i + 1] = x
    BY <1>1, <2>1
  <2> QED BY <2>2 DEF InQueue
<1>3. InQueue(q, Head(q))
  BY <1>1 DEF InQueue
<1> QED BY <1>1, <1>2, <1>3 DEF r

LEMMA QueueEmpty == \A x : ~InQueue(<< >>, x)
<1>1. Len(<< >>) = 0
  OBVIOUS
<1> QED BY <1>1 DEF InQueue

-----------------------------------------------------------------------------
(* What the first close() of an exchange does to its books.                 *)
CloseEffect(g) ==
  /\ failed' = [failed EXCEPT ![g] = TRUE] /\ stage' = [stage EXCEPT ![g] = "failed"]
  /\ pending' = [pending EXCEPT ![g] = {}] /\ writes' = [writes EXCEPT ![g] = << >>]
  /\ queued' = [queued EXCEPT ![g] = 0]
  /\ replies' = [a \in Procs |-> IF a \in pending[g] THEN <<"closed">> ELSE replies[a]]
LEMMA CloseEffects ==
  ASSUME Calling, NEW g \in Conns, CloseExchange(g) PROVE CloseEffect(g)
<1>1. Append(<< >>, "closed") = <<"closed">>
  BY FirstSent
<1>2. ASSUME NEW a \in Procs
      PROVE  (IF a \in pending[g] THEN Append(replies[a], "closed") ELSE replies[a])
             = (IF a \in pending[g] THEN <<"closed">> ELSE replies[a])
  BY <1>1 DEF Calling, Waits
<1>3. replies' = [a \in Procs |-> IF a \in pending[g] THEN Append(replies[a], "closed") ELSE replies[a]]
  BY DEF CloseExchange
<1>4. replies' = [a \in Procs |-> IF a \in pending[g] THEN <<"closed">> ELSE replies[a]]
  BY <1>2, <1>3, Zenon
<1> QED BY <1>4 DEF CloseExchange, CloseEffect

(* What an answer does.                                                     *)
AnswerEffect(g, a) ==
  /\ replies' = [replies EXCEPT ![a] = <<"answer">>] /\ pending' = [pending EXCEPT ![g] = @ \ {a}]
LEMMA AnswerEffects ==
  ASSUME TypeOK, Calling, NEW g \in Conns, NEW a \in Procs, ReaderAnswers(g, a) PROVE AnswerEffect(g, a)
<1>1. Append(<< >>, "answer") = <<"answer">> /\ replies[a] = << >>
  BY FirstSent DEF Calling, Waits, ReaderAnswers
<1> QED BY <1>1 DEF ReaderAnswers, AnswerEffect

(* What a packet put into a queue does, ...                                 *)
PutEffect(g, p) ==
  /\ writes' \in [Conns -> Seq(Procs \cup {Note})] /\ Len(writes'[g]) = Len(writes[g]) + 1 /\ Len(writes[g]) \in Nat
  /\ \A h \in Conns : h # g => writes'[h] = writes[h]
  /\ \A x : InQueue(writes'[g], x) <=> x = p \/ InQueue(writes[g], x)
  /\ queued' = [queued EXCEPT ![g] = @ + 1] /\ queued[g] + 1 \in 0..MaxQueued
LEMMA PutEffects ==
  ASSUME TypeOK, NEW g \in Conns, NEW p \in Procs \cup {Note}, Room(g), Put(g, p) PROVE PutEffect(g, p)
<1>1. writes \in [Conns -> Seq(Procs \cup {Note})] /\ writes' = [writes EXCEPT ![g] = Append(writes[g], p)]
  BY DEF TypeOK, BooksTyped, Put
<1>2. /\ Append(writes[g], p) \in Seq(Procs \cup {Note}) /\ Len(Append(writes[g], p)) = Len(writes[g]) + 1
      /\ Len(writes[g]) \in Nat
      /\ \A x : InQueue(Append(writes[g], p), x) <=> x = p \/ InQueue(writes[g], x)
  BY <1>1, QueuePut
<1>3. writes'[g] = Append(writes[g], p) /\ \A h \in Conns : h # g => writes'[h] = writes[h]
  BY <1>1
<1>4. writes' \in [Conns -> Seq(Procs \cup {Note})]
  BY <1>1, <1>2
<1>5. queued[g] + 1 \in 0..MaxQueued
  BY ClientAssumption DEF Room, TypeOK, BooksTyped
<1> QED BY <1>2, <1>3, <1>4, <1>5 DEF Put, PutEffect

(* ... and what taking the oldest one does.                                 *)
TakeEffect(g) ==
  \/ failed[g] /\ wpc' = [wpc EXCEPT ![g] = "done"] /\ UNCHANGED <<writes, hand>>
  \/ \E p \in Procs \cup {Note} :
       /\ wpc' = [wpc EXCEPT ![g] = "taken"] /\ hand' = [hand EXCEPT ![g] = p]
       /\ InQueue(writes[g], p) /\ writes[g] # << >>
       /\ writes' \in [Conns -> Seq(Procs \cup {Note})] /\ Len(writes'[g]) = Len(writes[g]) - 1
       /\ Len(writes[g]) \in Nat
       /\ \A h \in Conns : h # g => writes'[h] = writes[h]
       /\ \A x : InQueue(writes'[g], x) => InQueue(writes[g], x)
LEMMA TakeEffects ==
  ASSUME TypeOK, NEW g \in Conns, WriterTakes(g) PROVE TakeEffect(g)
<1>1. CASE failed[g] /\ Written("done", g) /\ UNCHANGED <<writes, hand>>
  BY <1>1 DEF Written, TakeEffect
<1>2. CASE /\ writes[g] # << >> /\ Written("taken", g)
           /\ hand' = [hand EXCEPT ![g] = Head(writes[g])]
           /\ writes' = [writes EXCEPT ![g] = Tail(@)]
  <2>1. writes \in [Conns -> Seq(Procs \cup {Note})]
    BY DEF TypeOK, BooksTyped
  <2>2. /\ Head(writes[g]) \in Procs \cup {Note} /\ Tail(writes[g]) \in Seq(Procs \cup {Note})
        /\ Len(Tail(writes[g])) = Len(writes[g]) - 1 /\ Len(writes[g]) \in Nat
        /\ InQueue(writes[g], Head(writes[g])) /\ \A x : InQueue(Tail(writes[g]), x) => InQueue(writes[g], x)
    BY <1>2, <2>1, QueueTaken
  <2>3. writes'[g] = Tail(writes[g]) /\ \A h \in Conns : h # g => writes'[h] = writes[h]
    BY <1>2, <2>1
  <2>4. writes' \in [Conns -> Seq(Procs \cup {Note})]
    BY <1>2, <2>1, <2>2
  <2> QED BY <1>2, <2>2, <2>3, <2>4 DEF Written, TakeEffect
<1> QED BY <1>1, <1>2 DEF WriterTakes

(* The exchange a goroutine works on exists.                                *)
LEMMA OnConn ==
  ASSUME TypeOK, Openings, Users, NEW a \in Procs,
         pc[a] \in {"register", "enqueue", "wait", "leave", "close", "closing", "fail", "failing", "identify"}
  PROVE  on[a] \in Conns /\ on[a] \in 1..generation
<1>1. on[a] # 0
  BY Distinct DEF Openings, Users
<1>2. on[a] \in 0..generation /\ generation \in 0..budget.opens /\ budget.opens \in Nat
  BY Distinct, Bounds DEF Users, TypeOK, ClientTyped
<1> QED BY <1>1, <1>2 DEF Conns

EnqueueEffect(a) ==
  /\ pc[a] = "enqueue" /\ on[a] \in Conns /\ on[a] \in 1..generation
  /\ \/ /\ failed[on[a]] \/ a \in late
        /\ pc' = [pc EXCEPT ![a] = AfterError(a)] /\ UNCHANGED <<writes, queued>>
     \/ /\ ~failed[on[a]] /\ pc' = [pc EXCEPT ![a] = AfterEnqueue(a)]
        /\ PutEffect(on[a], IF Broadcasts(a) THEN Note ELSE a)
     \/ ~failed[on[a]] /\ pc' = [pc EXCEPT ![a] = "close"] /\ UNCHANGED <<writes, queued>>
LEMMA EnqueueEffects ==
  ASSUME TypeOK, Openings, Users, NEW a \in Procs, Enqueue(a) PROVE EnqueueEffect(a)
<1> DEFINE p == IF Broadcasts(a) THEN Note ELSE a
<1>1. pc[a] = "enqueue" /\ on[a] \in Conns /\ on[a] \in 1..generation
  BY OnConn DEF Enqueue
<1>2. p \in Procs \cup {Note}
  OBVIOUS
<1> HIDE DEF p
<1>3. CASE ~failed[on[a]] /\ Room(on[a]) /\ Goto(a, AfterEnqueue(a)) /\ Put(on[a], p)
  <2>1. PutEffect(on[a], p)
    BY <1>1, <1>2, <1>3, PutEffects
  <2> QED BY <1>1, <1>3, <2>1 DEF EnqueueEffect, Goto, p
<1>4. CASE ~(~failed[on[a]] /\ Room(on[a]) /\ Goto(a, AfterEnqueue(a)) /\ Put(on[a], p))
  BY <1>1, <1>4 DEF EnqueueEffect, Enqueue, Goto, p
<1> QED BY <1>3, <1>4

LEMMA CloseTyped ==
  ASSUME BooksTyped, NEW g \in Conns, CloseEffect(g), Conns' = Conns, MaxQueued \in Nat PROVE BooksTyped'
<1> USE DEF BooksTyped, CloseEffect
<1>1. pending' \in [Conns -> SUBSET Procs] /\ failed' \in [Conns -> BOOLEAN]
  OBVIOUS
<1>2. writes' \in [Conns -> Seq(Procs \cup {Note})]
  <2>1. << >> \in Seq(Procs \cup {Note})
    OBVIOUS
  <2> QED BY <2>1
<1>3. queued' \in [Conns -> 0..MaxQueued] /\ stage' \in [Conns -> {"open", "failed", "report", "over"}]
  OBVIOUS
<1>4. replies' \in [Procs -> {<< >>, <<"answer">>, <<"closed">>}]
  OBVIOUS
<1> HIDE DEF CloseEffect
<1> QED BY <1>1, <1>2, <1>3, <1>4

LEMMA PutTyped ==
  ASSUME BooksTyped, NEW g \in Conns, NEW p, PutEffect(g, p), Conns' = Conns,
         UNCHANGED <<pending, failed, stage, replies>>
  PROVE  BooksTyped'
<1>1. queued' \in [Conns -> 0..MaxQueued]
  BY DEF BooksTyped, PutEffect
<1>2. writes' \in [Conns -> Seq(Procs \cup {Note})]
  BY DEF PutEffect
<1> QED BY <1>1, <1>2 DEF BooksTyped

BooksOrClose(g) == \/ failed[g] /\ UNCHANGED books
                   \/ ~failed[g] /\ CloseEffect(g)
ClosesEffect(a) ==
  \/ (on[a] = 0 \/ failed[on[a]]) /\ pc' = [pc EXCEPT ![a] = AfterClose(a)] /\ UNCHANGED books
  \/ /\ on[a] \in Conns /\ on[a] \in 1..generation /\ ~failed[on[a]] /\ CloseEffect(on[a])
     /\ pc' = [pc EXCEPT ![a] = IF pc[a] = "fail" THEN "failing" ELSE "closing"]
LEMMA ClosesEffects ==
  ASSUME TypeOK, Users, Calling, NEW a \in Procs \cup {Owner}, Closes(a) PROVE ClosesEffect(a)
<1>1. CASE on[a] = 0 \/ failed[on[a]]
  BY <1>1 DEF Closes, ClosesEffect, Goto
<1>2. CASE ~(on[a] = 0 \/ failed[on[a]])
  <2>1. on[a] \in 0..generation /\ generation \in 0..budget.opens /\ budget.opens \in Nat
    BY Bounds DEF Users, TypeOK, ClientTyped
  <2>2. on[a] \in Conns /\ on[a] \in 1..generation
    BY <1>2, <2>1 DEF Conns
  <2>3. CloseExchange(on[a]) /\ pc' = [pc EXCEPT ![a] = IF pc[a] = "fail" THEN "failing" ELSE "closing"]
    BY <1>2 DEF Closes, Goto
  <2> QED BY <1>2, <2>2, <2>3, CloseEffects DEF ClosesEffect
<1> QED BY <1>1, <1>2

LEMMA LoopCloses ==
  ASSUME Calling, NEW g \in Conns, WriterFails(g) \/ ReaderEnds(g) PROVE BooksOrClose(g)
  BY CloseEffects DEF WriterFails, ReaderEnds, BooksOrClose

(* Whoever closes an exchange, it fails once.                               *)
FailsOnce(g) ==
  /\ ~failed[g] /\ failed'[g] /\ stage'[g] = "failed"
  /\ \A h \in Conns : h # g => (failed'[h] <=> failed[h]) /\ stage'[h] = stage[h]
FailEffect(g) == UNCHANGED <<failed, stage>> \/ FailsOnce(g)
LEMMA CloseFails == ASSUME BooksTyped, NEW g \in Conns, CloseEffect(g), ~failed[g] PROVE FailsOnce(g)
  BY DEF CloseEffect, FailsOnce, BooksTyped

LEMMA SocketsFail ==
  ASSUME TypeOK, Sockets, NEW g \in Conns, FailsOnce(g), UNCHANGED <<budget, socket, generation, connected, stopped>>
  PROVE  Sockets'
<1>1. Conns' = Conns /\ (\A h \in 1..generation : h \in Conns) /\ (socket # 0 => socket \in Conns)
  BY Bounds DEF Conns, TypeOK, ClientTyped
<1>2. \A h \in 1..generation : ~failed'[h] => socket = h
  BY <1>1 DEF Sockets, FailsOnce
<1>3. socket # 0 => stage'[socket] \in {"open", "failed"}
  BY <1>1 DEF Sockets, FailsOnce
<1>4. \A h \in Conns : failed'[h] <=> stage'[h] # "open"
  BY DEF Sockets, FailsOnce
<1> QED BY <1>1, <1>2, <1>3, <1>4 DEF Sockets

LEMMA LossesFail ==
  ASSUME TypeOK, Losses, Sockets, NEW g \in Conns, FailsOnce(g),
         UNCHANGED <<budget, socket, generation, connected, stopped, admitted, told>>
  PROVE  Losses'
<1>1. Conns' = Conns /\ admitted \subseteq Conns
  BY DEF Conns, TypeOK, ClientTyped
<1>2. stage[g] = "open" /\ stage'[g] = "failed"
  BY DEF Sockets, FailsOnce
<1>3. \A h \in Conns : stage'[h] = stage[h] \/ (stage[h] = "open" /\ stage'[h] = "failed")
  BY <1>2 DEF FailsOnce
<1> QED BY <1>1, <1>3 DEF Losses

(* The books of the exchange that closes, and of the others.                *)
ClosedBooks(g) ==
  /\ failed'[g] /\ writes'[g] = << >> /\ queued'[g] = 0 /\ pending'[g] = {}
  /\ \A h \in Conns : h # g => /\ failed'[h] <=> failed[h]
                              /\ writes'[h] = writes[h] /\ queued'[h] = queued[h] /\ pending'[h] = pending[h]
LEMMA CloseBooks == ASSUME BooksTyped, NEW g \in Conns, CloseEffect(g) PROVE ClosedBooks(g)
  BY DEF CloseEffect, ClosedBooks, BooksTyped

(* Where a caller stands and which exchange it holds.                       *)
Labelled(l, s) ==
  /\ l \notin {"dial", "install", "identify", "fail", "failing", "finish"}
  /\ l \in {"register", "enqueue", "wait", "leave", "close"} => s # 0
  /\ l \in {"idle", "connect", "admit", "bound"} => s = 0
LEMMA UsersMove ==
  ASSUME TypeOK, Users, NEW a \in Procs \cup {Owner}, NEW l, NEW s \in 0..generation,
         pc' = [pc EXCEPT ![a] = l], on' = [on EXCEPT ![a] = s], UNCHANGED <<budget, generation>>,
         \A h \in Conns : failed[h] => failed'[h],
         l \in {"closing", "failing"} => s # 0 /\ failed'[s],
         a \in Callers => Labelled(l, s)
  PROVE  Users'
<1>1. /\ pc'[a] = l /\ on'[a] = s
      /\ \A b \in Procs \cup {Owner} : b # a => pc'[b] = pc[b] /\ on'[b] = on[b]
  BY DEF TypeOK, CallsTyped
<1>2. \A b \in Procs \cup {Owner} : on'[b] \in 0..generation
  BY <1>1 DEF Users
<1>3. ASSUME NEW b \in Procs \cup {Owner}, pc'[b] \in {"closing", "failing"} PROVE on'[b] # 0 /\ failed'[on'[b]]
  <2>1. CASE b = a
    BY <1>1, <1>3, <2>1
  <2>2. CASE b # a
    <3>1. on[b] # 0 /\ failed[on[b]] /\ on[b] \in 0..generation
      BY <1>1, <1>3, <2>2 DEF Users
    <3>2. on[b] \in Conns
      BY <3>1, Bounds DEF Conns, TypeOK, ClientTyped
    <3> QED BY <1>1, <2>2, <3>1, <3>2
  <2> QED BY <2>1, <2>2
<1>4. \A c \in Callers : Labelled(pc'[c], on'[c])
  BY <1>1, Distinct DEF Users, Labelled
<1> QED BY <1>2, <1>3, <1>4 DEF Users, Labelled

LEMMA UsersStay ==
  ASSUME TypeOK, Users, UNCHANGED <<budget, pc, on, generation>>, \A h \in Conns : failed[h] => failed'[h]
  PROVE  Users'
<1>1. \A b \in Procs \cup {Owner} : on[b] # 0 => on[b] \in Conns
  BY Bounds DEF Conns, Users, TypeOK, ClientTyped
<1> QED BY <1>1 DEF Users

DiscoverEffect(g) ==
  \/ PutEffect(g, Note) /\ UNCHANGED <<rpc, pending, failed, stage, replies>>
  \/ CloseEffect(g) /\ rpc' = [rpc EXCEPT ![g] = "done"]
LEMMA DiscoverEffects ==
  ASSUME TypeOK, Calling, NEW g \in Conns, ReaderDiscovers(g) PROVE DiscoverEffect(g)
<1>1. CASE Room(g)
  <2>1. PutEffect(g, Note)
    BY <1>1, PutEffects DEF ReaderDiscovers
  <2> QED BY <1>1, <2>1 DEF ReaderDiscovers, DiscoverEffect
<1>2. CASE ~Room(g)
  BY <1>2, CloseEffects DEF ReaderDiscovers, DiscoverEffect
<1> QED BY <1>1, <1>2

LEMMA LoopFails ==
  ASSUME TypeOK, Calling, NEW g \in Conns, WriterFails(g) \/ ReaderEnds(g) \/ ReaderDiscovers(g)
  PROVE  FailEffect(g) /\ UNCHANGED <<client, pc, call, told>>
<1>1. CASE WriterFails(g) \/ ReaderEnds(g)
  <2>1. BooksOrClose(g) /\ UNCHANGED <<client, pc, call, told>>
    BY <1>1, LoopCloses DEF WriterFails, ReaderEnds
  <2>2. FailEffect(g)
    BY <2>1, CloseFails DEF BooksOrClose, FailEffect, books, TypeOK
  <2> QED BY <2>1, <2>2
<1>2. CASE ReaderDiscovers(g)
  <2>1. DiscoverEffect(g) /\ ~failed[g] /\ UNCHANGED <<client, pc, call, told>>
    BY <1>2, DiscoverEffects DEF ReaderDiscovers
  <2>2. FailEffect(g)
    BY <2>1, CloseFails DEF DiscoverEffect, FailEffect, TypeOK
  <2> QED BY <2>1, <2>2
<1> QED BY <1>1, <1>2

(* A goroutine that is in no call may do what it likes, ...                 *)
LEMMA CallingStays ==
  ASSUME Calling, Conns' = Conns, UNCHANGED <<pending, replies>>,
         \A b \in Procs : \/ pc[b] \notin InCall
                          \/ /\ pc'[b] = pc[b] /\ on'[b] = on[b] /\ (b \in late => b \in late')
                             /\ (Broadcasts(b)' => Broadcasts(b))
  PROVE  Calling'
<1>1. ASSUME NEW b \in Procs PROVE Waits(b)'
  <2>1. CASE pc[b] \notin InCall
    BY <2>1 DEF Calling, Waits
  <2>2. CASE pc[b] \in InCall
    BY <2>2 DEF Calling, Waits
  <2> QED BY <2>1, <2>2
<1> QED BY <1>1 DEF Calling

(* ... and a close answers exactly the calls that wait on its exchange.     *)
LEMMA CallingCloses ==
  ASSUME TypeOK, Calling, NEW g \in Conns, CloseEffect(g), Conns' = Conns, UNCHANGED <<on, late, op>>,
         \A b \in Procs : pc'[b] = pc[b] \/ (on[b] = g /\ pc[b] = "close" /\ pc'[b] = "closing")
                                         \/ pc[b] \notin InCall
  PROVE  Calling'
<1>1. pending'[g] = {} /\ \A h \in Conns : h # g => pending'[h] = pending[h]
  BY DEF CloseEffect, TypeOK, BooksTyped
<1>2. ASSUME NEW b \in Procs PROVE Waits(b)'
  <2>0. (Broadcasts(b)' <=> Broadcasts(b)) /\ on'[b] = on[b] /\ (b \in late' <=> b \in late)
    BY DEF Broadcasts
  <2>1. CASE b \in pending[g]
    <3>1. pc[b] \in InCall \ {"closing"} /\ ~Broadcasts(b) /\ on[b] = g
      BY <2>1 DEF Calling, Waits
    <3>2. \A h \in Conns : b \notin pending'[h]
      BY <1>1, <3>1 DEF Calling, Waits
    <3>3. pc'[b] \in InCall
      BY <3>1 DEF InCall
    <3> QED BY <2>0, <3>1, <3>2, <3>3 DEF Waits
  <2>2. CASE b \notin pending[g]
    <3>1. replies'[b] = replies[b]
      BY <2>2 DEF CloseEffect
    <3>2. \A h \in Conns : b \in pending'[h] => b \in pending[h] /\ h # g
      BY <1>1
    <3>3. CASE pc'[b] = pc[b]
      BY <2>0, <3>1, <3>2, <3>3 DEF Calling, Waits
    <3>4. CASE on[b] = g /\ pc[b] = "close" /\ pc'[b] = "closing"
      <4>1. \A h \in Conns : b \notin pending'[h]
        BY <3>2, <3>4 DEF Calling, Waits
      <4> QED BY <2>0, <3>1, <3>4, <4>1 DEF Calling, Waits, InCall
    <3>5. CASE pc[b] \notin InCall
      BY <2>0, <3>1, <3>2, <3>5 DEF Calling, Waits
    <3> QED BY <3>3, <3>4, <3>5
  <2> QED BY <2>1, <2>2
<1> QED BY <1>2 DEF Calling

(* Nothing new is on its way for a, or only what is put into the queue.     *)
Shrinks(a) == \A g \in Conns : Out(a, g)' => Out(a, g)
LEMMA OutFewer ==
  ASSUME \A h \in Conns : /\ writes'[h] = writes[h] \/ writes'[h] = << >>
                          /\ hand'[h] = hand[h] \/ hand'[h] = None
                          /\ received'[h] = received[h]
  PROVE  \A b \in Procs : Shrinks(b)
  BY QueueEmpty, Distinct DEF Shrinks, Out
LEMMA OutPut ==
  ASSUME NEW g \in Conns, NEW p \in Procs \cup {Note}, PutEffect(g, p), UNCHANGED <<hand, received>>
  PROVE  \A b \in Procs : /\ b # p => Shrinks(b)
                          /\ \A h \in Conns : Out(b, h)' => Out(b, h) \/ (b = p /\ h = g)
<1>1. ASSUME NEW b \in Procs, NEW h \in Conns, Out(b, h)' PROVE Out(b, h) \/ (b = p /\ h = g)
  <2>1. CASE h = g
    BY <1>1, <2>1 DEF PutEffect, Out
  <2>2. CASE h # g
    BY <1>1, <2>2 DEF PutEffect, Out
  <2> QED BY <2>1, <2>2
<1> QED BY <1>1 DEF Shrinks
LEMMA OutTaken ==
  ASSUME TypeOK, NEW g \in Conns, TakeEffect(g), UNCHANGED received
  PROVE  \A b \in Procs : Shrinks(b)
<1>1. CASE UNCHANGED <<writes, hand>>
  BY <1>1, OutFewer
<1>2. CASE ~UNCHANGED <<writes, hand>>
  <2>1. PICK p \in Procs \cup {Note} :
          /\ hand' = [hand EXCEPT ![g] = p] /\ InQueue(writes[g], p)
          /\ \A h \in Conns : h # g => writes'[h] = writes[h]
          /\ \A x : InQueue(writes'[g], x) => InQueue(writes[g], x)
    BY <1>2 DEF TakeEffect
  <2>2. hand'[g] = p /\ \A h \in Conns : h # g => hand'[h] = hand[h]
    BY <2>1 DEF TypeOK, LoopsTyped
  <2>3. ASSUME NEW b \in Procs, NEW h \in Conns, Out(b, h)' PROVE Out(b, h)
    <3>1. CASE h = g
      BY <2>1, <2>2, <2>3, <3>1 DEF Out
    <3>2. CASE h # g
      BY <2>1, <2>2, <2>3, <3>2 DEF Out
    <3> QED BY <3>1, <3>2
  <2> QED BY <2>3 DEF Shrinks
<1> QED BY <1>1, <1>2

LEMMA SentStays ==
  ASSUME Sent, Conns' = Conns,
         \A b \in Procs : \/ pc'[b] \in SentAt
                          \/ b = Opener /\ on'[b] \notin Conns
                          \/ /\ pc[b] \notin SentAt /\ Shrinks(b)
                             /\ b = Opener => \A g \in Conns : on'[b] = g => on[b] = g \/ ~Out(b, g)
  PROVE  Sent'
<1>1. ASSUME NEW g \in Conns, NEW b \in Procs, Out(b, g)'
      PROVE  pc'[b] \in SentAt \/ (b = Opener /\ on'[b] # g)
  <2>1. CASE pc[b] \notin SentAt /\ Shrinks(b) /\ (b = Opener => \A h \in Conns : on'[b] = h => on[b] = h \/ ~Out(b, h))
    BY <1>1, <2>1 DEF Sent, Shrinks
  <2> QED BY <2>1
<1> QED BY <1>1 DEF Sent

LEMMA BindingsStay ==
  ASSUME Bindings, Conns' = Conns,
         \A c \in Callers : /\ pc'[c] = "idle" => pc[c] = "idle" /\ bound'[c] = bound[c]
                            /\ op'[c] = "bound" => op[c] = "bound" /\ bound'[c] = bound[c]
                                                   /\ on'[c] \in {0, on[c]} /\ Shrinks(c)
  PROVE  Bindings'
<1>1. ASSUME NEW c \in Callers, op'[c] = "bound"
      PROVE  on'[c] \in {0, bound'[c]} /\ \A g \in Conns : Out(c, g)' => g = bound'[c]
  BY <1>1 DEF Bindings, Shrinks
<1>2. \A c \in Callers : pc'[c] = "idle" => bound'[c] = 0
  BY DEF Bindings
<1> QED BY <1>1, <1>2 DEF Bindings

-----------------------------------------------------------------------------
(* Types are kept: the client, ...                                          *)
LEMMA ClientStep == ASSUME ClientInv, Next PROVE ClientTyped'
<1> USE Distinct DEF client, call, loops, books, env, Goto
<1> /\ TypeOK /\ Openings /\ Sockets /\ Losses /\ Closing /\ Users /\ Fresh /\ Drained /\ Hands
    /\ Queues /\ Calling /\ OpsAt /\ Sent /\ Bindings
  BY DEF ClientInv
<1> budget' = budget /\ Conns' = Conns
  BY DEF Next, Conns
<1> budget.opens \in Nat /\ budget.notes \in Nat /\ MaxQueued \in Nat
  BY Bounds DEF TypeOK, ClientTyped
<1> (\A h \in 1..generation : h \in Conns) /\ generation \in Nat /\ Conns = 1..budget.opens
  BY DEF TypeOK, ClientTyped, Conns
<1>1. ASSUME NEW c \in Callers, Connect(c) PROVE ClientTyped'
  <2>1. opening' \in BOOLEAN /\ opens' \in 0..budget.opens
    <3>1. CASE CanOpen /\ StartOpening
      BY <3>1 DEF CanOpen, StartOpening, TypeOK, ClientTyped
    <3>2. CASE UNCHANGED <<opening, opens>>
      BY <3>2 DEF TypeOK, ClientTyped
    <3> QED BY <1>1, <3>1, <3>2 DEF Connect
  <2>2. UNCHANGED <<socket, generation, connected, stopped, outcome, backoff, ready, admitted, told>>
    BY <1>1 DEF Connect
  <2> QED BY <2>1, <2>2 DEF TypeOK, ClientTyped
<1>2. ASSUME NEW c \in Callers, ConnectReturns(c) PROVE ClientTyped'
  BY <1>2 DEF ConnectReturns, TypeOK, ClientTyped
<1>3. ASSUME NEW c \in Callers, Request(c) PROVE ClientTyped'
  BY <1>3 DEF Request, TypeOK, ClientTyped
<1>4. ASSUME NEW c \in Callers, ConnectionGeneration(c) PROVE ClientTyped'
  BY <1>4 DEF ConnectionGeneration, TypeOK, ClientTyped
<1>5. ASSUME NEW c \in Callers, RequestOnConnection(c) PROVE ClientTyped'
  BY <1>5 DEF RequestOnConnection, TypeOK, ClientTyped
<1>6. ASSUME NEW c \in Callers, Broadcast(c) PROVE ClientTyped'
  BY <1>6 DEF Broadcast, TypeOK, ClientTyped
<1>7. ASSUME NEW a \in Procs, DeadlinePasses(a) PROVE ClientTyped'
  BY <1>7 DEF DeadlinePasses, TypeOK, ClientTyped
<1>8. ASSUME NEW a \in Procs, Register(a) PROVE ClientTyped'
  <2>1. on[a] \in Conns /\ on[a] \in 1..generation
    BY <1>8, OnConn DEF Register
  <2> QED BY <1>8, <2>1 DEF Register, AfterCall, TypeOK, ClientTyped
<1>9. ASSUME NEW a \in Procs, Enqueue(a) PROVE ClientTyped'
  <2>1. EnqueueEffect(a)
    BY <1>9, EnqueueEffects
  <2> QED BY <1>9, <2>1
      DEF Enqueue, AfterError, AfterEnqueue, Broadcasts, EnqueueEffect, PutEffect, TypeOK, ClientTyped
<1>10. ASSUME NEW a \in Procs, CallReturns(a) PROVE ClientTyped'
  BY <1>10 DEF CallReturns, TypeOK, ClientTyped
<1>11. ASSUME NEW a \in Procs, Leave(a) PROVE ClientTyped'
  <2>1. on[a] \in Conns /\ on[a] \in 1..generation
    BY <1>11, OnConn DEF Leave
  <2> QED BY <1>11, <2>1 DEF Leave, AfterLeave, TypeOK, ClientTyped
<1>12. CASE SomebodyConnects
  <2>1. opens + 1 \in 0..budget.opens
    BY <1>12 DEF SomebodyConnects, CanOpen, TypeOK, ClientTyped
  <2>2. opening' \in BOOLEAN /\ opens' \in 0..budget.opens
    BY <1>12, <2>1 DEF SomebodyConnects, StartOpening, TypeOK, ClientTyped
  <2>3. UNCHANGED <<socket, generation, connected, stopped, outcome, backoff, ready, admitted, told>>
    BY <1>12 DEF SomebodyConnects
  <2> QED BY <2>2, <2>3 DEF TypeOK, ClientTyped
<1>13. CASE BackoffPasses
  BY <1>13 DEF BackoffPasses, TypeOK, ClientTyped
<1>14. CASE Dial
  BY <1>14 DEF Dial, TypeOK, ClientTyped
<1>15. CASE Install
  <2>1. generation + 1 \in 0..budget.opens /\ generation + 1 \in 0..(generation + 1)
    BY <1>15 DEF Install, Openings, TypeOK, ClientTyped
  <2>2. generation' \in 0..budget.opens /\ socket' \in 0..generation'
    BY <1>15, <2>1 DEF Install, InstallIt, TypeOK, ClientTyped
  <2>3. UNCHANGED <<connected, stopped, opening, opens, outcome, backoff, ready, admitted, told>>
    BY <1>15 DEF Install
  <2> QED BY <2>2, <2>3 DEF TypeOK, ClientTyped
<1>16. CASE Identify
  BY <1>16 DEF Identify, TypeOK, ClientTyped
<1>17. CASE Finish
  <2> DEFINE ok == ready /\ socket # 0 /\ ~failed[socket] /\ ~stopped
  <2>1. Publish(ok) /\ ok \in BOOLEAN
    BY <1>17 DEF Finish
  <2> HIDE DEF ok
  <2>2. connected' \in BOOLEAN /\ backoff' \in BOOLEAN /\ opening' \in BOOLEAN /\ ready' \in BOOLEAN
    BY <2>1, Zenon DEF Publish
  <2>3. outcome' \in [Callers -> {None, "ok", "error"}]
    BY <2>1 DEF Publish, TypeOK, ClientTyped
  <2>4. admitted' \subseteq Conns
    <3>1. ok => socket \in Conns
      BY DEF ok, Conns, TypeOK, ClientTyped
    <3> QED BY <2>1, <3>1 DEF Publish, TypeOK, ClientTyped
  <2>5. UNCHANGED <<socket, generation, stopped, opens, told>>
    BY <2>1 DEF Publish
  <2> QED BY <2>2, <2>3, <2>4, <2>5 DEF TypeOK, ClientTyped
<1>18. CASE Close
  BY <1>18 DEF Close, TypeOK, ClientTyped
<1>19. ASSUME NEW a \in Procs \cup {Owner}, Closes(a) PROVE ClientTyped'
  <2>1. ClosesEffect(a)
    BY <1>19, ClosesEffects
  <2> QED BY <1>19, <2>1 DEF Closes, AfterClose, AfterError, Broadcasts, ClosesEffect, CloseEffect, TypeOK, ClientTyped
<1>20. ASSUME NEW a \in Procs \cup {Owner}, HasClosed(a) PROVE ClientTyped'
  BY <1>20 DEF HasClosed, AfterClose, AfterError, Broadcasts, TypeOK, ClientTyped
<1>21. ASSUME NEW g \in Conns, OnClose(g) PROVE ClientTyped'
  <2>1. socket' \in 0..generation
    BY <1>21 DEF OnClose, TypeOK, ClientTyped
  <2>2. connected' \in BOOLEAN
    <3>1. connected' = FALSE \/ connected' = connected
      BY <1>21 DEF OnClose
    <3> QED BY <3>1, Zenon DEF TypeOK, ClientTyped
  <2>3. UNCHANGED <<generation, stopped, opening, opens, outcome, backoff, ready, admitted, told>>
    BY <1>21 DEF OnClose
  <2> QED BY <2>1, <2>2, <2>3 DEF TypeOK, ClientTyped
<1>22. ASSUME NEW g \in Conns, OnClosed(g) PROVE ClientTyped'
  BY <1>22 DEF OnClosed, TypeOK, ClientTyped
<1>23. ASSUME NEW g \in Conns, WriterTakes(g) PROVE ClientTyped'
  <2>1. TakeEffect(g)
    BY <1>23, TakeEffects
  <2> QED BY <1>23, <2>1 DEF WriterTakes, TakeEffect, TypeOK, ClientTyped
<1>24. ASSUME NEW g \in Conns, WriterChecks(g) PROVE ClientTyped'
  BY <1>24 DEF WriterChecks, Written, TypeOK, ClientTyped
<1>25. ASSUME NEW g \in Conns, WriterWrites(g) PROVE ClientTyped'
  BY <1>25 DEF WriterWrites, Written, WireClosed, TypeOK, ClientTyped
<1>26. ASSUME NEW g \in Conns, WriterFails(g) PROVE ClientTyped'
  <2>1. BooksOrClose(g)
    BY <1>26, LoopCloses
  <2> QED BY <1>26, <2>1 DEF WriterFails, Written, BooksOrClose, CloseEffect, TypeOK, ClientTyped
<1>27. ASSUME NEW g \in Conns, WriterFinishes(g) PROVE ClientTyped'
  BY <1>27 DEF WriterFinishes, Written, Unaccount, TypeOK, ClientTyped
<1>28. ASSUME NEW g \in Conns, NEW a \in Procs, ReaderAnswers(g, a) PROVE ClientTyped'
  <2>1. AnswerEffect(g, a)
    BY <1>28, AnswerEffects
  <2> QED BY <1>28, <2>1 DEF ReaderAnswers, AnswerEffect, TypeOK, ClientTyped
<1>29. ASSUME NEW g \in Conns, ReaderDiscovers(g) PROVE ClientTyped'
  <2>1. DiscoverEffect(g)
    BY <1>29, DiscoverEffects
  <2> QED BY <1>29, <2>1 DEF ReaderDiscovers, DiscoverEffect, PutEffect, CloseEffect, TypeOK, ClientTyped
<1>30. ASSUME NEW g \in Conns, ReaderEnds(g) PROVE ClientTyped'
  <2>1. BooksOrClose(g)
    BY <1>30, LoopCloses
  <2> QED BY <1>30, <2>1 DEF ReaderEnds, BooksOrClose, CloseEffect, TypeOK, ClientTyped
<1> QED BY <1>1, <1>2, <1>3, <1>4, <1>5, <1>6, <1>7, <1>8, <1>9, <1>10, <1>11, <1>12, <1>13, <1>14, <1>15, <1>16,
    <1>17, <1>18, <1>19, <1>20, <1>21, <1>22, <1>23, <1>24, <1>25, <1>26, <1>27, <1>28, <1>29, <1>30
    DEF Next, Step, Begin, CallerStep, Waiting, OpenerStep, CloseStep, ExchangeStep, WriterStep

(* ... the goroutines and calls, ...                                        *)
LEMMA CallsStep == ASSUME ClientInv, Next PROVE CallsTyped'
<1> USE Distinct DEF client, call, loops, books, env, Goto
<1> /\ TypeOK /\ Openings /\ Sockets /\ Losses /\ Closing /\ Users /\ Fresh /\ Drained /\ Hands
    /\ Queues /\ Calling /\ OpsAt /\ Sent /\ Bindings
  BY DEF ClientInv
<1> budget' = budget /\ Conns' = Conns
  BY DEF Next, Conns
<1> budget.opens \in Nat /\ budget.notes \in Nat /\ MaxQueued \in Nat
  BY Bounds DEF TypeOK, ClientTyped
<1> (\A h \in 1..generation : h \in Conns) /\ generation \in Nat /\ Conns = 1..budget.opens
  BY DEF TypeOK, ClientTyped, Conns
<1>1. ASSUME NEW c \in Callers, Connect(c) PROVE CallsTyped'
  BY <1>1 DEF Connect, StartOpening, CanOpen, TypeOK, CallsTyped, ClientTyped
<1>2. ASSUME NEW c \in Callers, ConnectReturns(c) PROVE CallsTyped'
  BY <1>2 DEF ConnectReturns, TypeOK, CallsTyped, ClientTyped
<1>3. ASSUME NEW c \in Callers, Request(c) PROVE CallsTyped'
  <2>1. socket \in 0..budget.opens /\ generation \in 0..budget.opens
    BY DEF TypeOK, ClientTyped
  <2> QED BY <1>3, <2>1 DEF Request, TypeOK, CallsTyped
<1>4. ASSUME NEW c \in Callers, ConnectionGeneration(c) PROVE CallsTyped'
  <2>1. socket \in 0..budget.opens /\ generation \in 0..budget.opens
    BY DEF TypeOK, ClientTyped
  <2> QED BY <1>4, <2>1 DEF ConnectionGeneration, TypeOK, CallsTyped
<1>5. ASSUME NEW c \in Callers, RequestOnConnection(c) PROVE CallsTyped'
  <2>1. socket \in 0..budget.opens /\ generation \in 0..budget.opens
    BY DEF TypeOK, ClientTyped
  <2> QED BY <1>5, <2>1 DEF RequestOnConnection, TypeOK, CallsTyped
<1>6. ASSUME NEW c \in Callers, Broadcast(c) PROVE CallsTyped'
  <2>1. socket \in 0..budget.opens /\ generation \in 0..budget.opens
    BY DEF TypeOK, ClientTyped
  <2> QED BY <1>6, <2>1 DEF Broadcast, TypeOK, CallsTyped
<1>7. ASSUME NEW a \in Procs, DeadlinePasses(a) PROVE CallsTyped'
  BY <1>7 DEF DeadlinePasses, TypeOK, CallsTyped, ClientTyped
<1>8. ASSUME NEW a \in Procs, Register(a) PROVE CallsTyped'
  <2>1. on[a] \in Conns /\ on[a] \in 1..generation
    BY <1>8, OnConn DEF Register
  <2> QED BY <1>8, <2>1 DEF Register, AfterCall, TypeOK, CallsTyped, ClientTyped
<1>9. ASSUME NEW a \in Procs, Enqueue(a) PROVE CallsTyped'
  <2>1. EnqueueEffect(a)
    BY <1>9, EnqueueEffects
  <2> QED BY <1>9, <2>1
      DEF Enqueue, AfterError, AfterEnqueue, Broadcasts, EnqueueEffect, PutEffect, TypeOK, CallsTyped, ClientTyped
<1>10. ASSUME NEW a \in Procs, CallReturns(a) PROVE CallsTyped'
  BY <1>10 DEF CallReturns, TypeOK, CallsTyped, ClientTyped
<1>11. ASSUME NEW a \in Procs, Leave(a) PROVE CallsTyped'
  <2>1. pc' \in [Procs \cup {Owner} -> {"idle", "connect", "admit", "bound", "register", "enqueue", "wait",
               "leave", "close", "closing", "fail", "failing", "dial", "install", "identify", "finish", "done"}]
    BY <1>11 DEF Leave, AfterLeave, TypeOK, CallsTyped
  <2>2. late' \subseteq late /\ UNCHANGED <<op, bound>> /\ 0 \in 0..budget.opens
    BY <1>11 DEF Leave
  <2>3. on' \in [Procs \cup {Owner} -> 0..budget.opens]
    BY <1>11, <2>2 DEF Leave, TypeOK, CallsTyped
  <2> QED BY <2>1, <2>2, <2>3 DEF TypeOK, CallsTyped
<1>12. CASE SomebodyConnects
  BY <1>12 DEF SomebodyConnects, StartOpening, CanOpen, TypeOK, CallsTyped, ClientTyped
<1>13. CASE BackoffPasses
  BY <1>13 DEF BackoffPasses, TypeOK, CallsTyped, ClientTyped
<1>14. CASE Dial
  BY <1>14 DEF Dial, TypeOK, CallsTyped, ClientTyped
<1>15. CASE Install
  <2>1. generation + 1 \in 0..budget.opens
    BY <1>15 DEF Install, Openings, TypeOK, ClientTyped
  <2> QED BY <1>15, <2>1 DEF Install, InstallIt, TypeOK, CallsTyped
<1>16. CASE Identify
  BY <1>16 DEF Identify, TypeOK, CallsTyped, ClientTyped
<1>17. CASE Finish
  <2>1. pc' = [pc EXCEPT ![Opener] = "idle"] /\ on' = [on EXCEPT ![Opener] = 0] /\ late' \subseteq late
    BY <1>17 DEF Finish, Publish
  <2>2. UNCHANGED <<op, bound>>
    BY <1>17 DEF Finish, Publish
  <2> QED BY <2>1, <2>2 DEF TypeOK, CallsTyped
<1>18. CASE Close
  <2>1. socket \in 0..budget.opens /\ generation \in 0..budget.opens
    BY DEF TypeOK, ClientTyped
  <2> QED BY <1>18, <2>1 DEF Close, TypeOK, CallsTyped
<1>19. ASSUME NEW a \in Procs \cup {Owner}, Closes(a) PROVE CallsTyped'
  <2>1. ClosesEffect(a)
    BY <1>19, ClosesEffects
  <2> QED BY <1>19, <2>1
      DEF Closes, AfterClose, AfterError, Broadcasts, ClosesEffect, CloseEffect, TypeOK, CallsTyped, ClientTyped
<1>20. ASSUME NEW a \in Procs \cup {Owner}, HasClosed(a) PROVE CallsTyped'
  BY <1>20 DEF HasClosed, AfterClose, AfterError, Broadcasts, TypeOK, CallsTyped, ClientTyped
<1>21. ASSUME NEW g \in Conns, OnClose(g) PROVE CallsTyped'
  BY <1>21 DEF OnClose, TypeOK, CallsTyped, ClientTyped
<1>22. ASSUME NEW g \in Conns, OnClosed(g) PROVE CallsTyped'
  BY <1>22 DEF OnClosed, TypeOK, CallsTyped, ClientTyped
<1>23. ASSUME NEW g \in Conns, WriterTakes(g) PROVE CallsTyped'
  <2>1. TakeEffect(g)
    BY <1>23, TakeEffects
  <2> QED BY <1>23, <2>1 DEF WriterTakes, TakeEffect, TypeOK, CallsTyped, ClientTyped
<1>24. ASSUME NEW g \in Conns, WriterChecks(g) PROVE CallsTyped'
  BY <1>24 DEF WriterChecks, Written, TypeOK, CallsTyped, ClientTyped
<1>25. ASSUME NEW g \in Conns, WriterWrites(g) PROVE CallsTyped'
  BY <1>25 DEF WriterWrites, Written, WireClosed, TypeOK, CallsTyped, ClientTyped
<1>26. ASSUME NEW g \in Conns, WriterFails(g) PROVE CallsTyped'
  <2>1. BooksOrClose(g)
    BY <1>26, LoopCloses
  <2> QED BY <1>26, <2>1 DEF WriterFails, Written, BooksOrClose, CloseEffect, TypeOK, CallsTyped, ClientTyped
<1>27. ASSUME NEW g \in Conns, WriterFinishes(g) PROVE CallsTyped'
  BY <1>27 DEF WriterFinishes, Written, Unaccount, TypeOK, CallsTyped, ClientTyped
<1>28. ASSUME NEW g \in Conns, NEW a \in Procs, ReaderAnswers(g, a) PROVE CallsTyped'
  <2>1. AnswerEffect(g, a)
    BY <1>28, AnswerEffects
  <2> QED BY <1>28, <2>1 DEF ReaderAnswers, AnswerEffect, TypeOK, CallsTyped, ClientTyped
<1>29. ASSUME NEW g \in Conns, ReaderDiscovers(g) PROVE CallsTyped'
  <2>1. DiscoverEffect(g)
    BY <1>29, DiscoverEffects
  <2> QED BY <1>29, <2>1 DEF ReaderDiscovers, DiscoverEffect, PutEffect, CloseEffect, TypeOK, CallsTyped, ClientTyped
<1>30. ASSUME NEW g \in Conns, ReaderEnds(g) PROVE CallsTyped'
  <2>1. BooksOrClose(g)
    BY <1>30, LoopCloses
  <2> QED BY <1>30, <2>1 DEF ReaderEnds, BooksOrClose, CloseEffect, TypeOK, CallsTyped, ClientTyped
<1> QED BY <1>1, <1>2, <1>3, <1>4, <1>5, <1>6, <1>7, <1>8, <1>9, <1>10, <1>11, <1>12, <1>13, <1>14, <1>15, <1>16,
    <1>17, <1>18, <1>19, <1>20, <1>21, <1>22, <1>23, <1>24, <1>25, <1>26, <1>27, <1>28, <1>29, <1>30
    DEF Next, Step, Begin, CallerStep, Waiting, OpenerStep, CloseStep, ExchangeStep, WriterStep

(* ... the exchanges, ...                                                   *)
LEMMA BooksStep == ASSUME ClientInv, Next PROVE BooksTyped'
<1> USE Distinct DEF client, call, loops, books, env, Goto
<1> /\ TypeOK /\ Openings /\ Sockets /\ Losses /\ Closing /\ Users /\ Fresh /\ Drained /\ Hands
    /\ Queues /\ Calling /\ OpsAt /\ Sent /\ Bindings
  BY DEF ClientInv
<1> budget' = budget /\ Conns' = Conns
  BY DEF Next, Conns
<1> budget.opens \in Nat /\ budget.notes \in Nat /\ MaxQueued \in Nat
  BY Bounds DEF TypeOK, ClientTyped
<1> (\A h \in 1..generation : h \in Conns) /\ generation \in Nat /\ Conns = 1..budget.opens
  BY DEF TypeOK, ClientTyped, Conns
<1>1. ASSUME NEW c \in Callers, Connect(c) PROVE BooksTyped'
  BY <1>1 DEF Connect, StartOpening, CanOpen, TypeOK, BooksTyped
<1>2. ASSUME NEW c \in Callers, ConnectReturns(c) PROVE BooksTyped'
  BY <1>2 DEF ConnectReturns, TypeOK, BooksTyped
<1>3. ASSUME NEW c \in Callers, Request(c) PROVE BooksTyped'
  BY <1>3 DEF Request, TypeOK, BooksTyped
<1>4. ASSUME NEW c \in Callers, ConnectionGeneration(c) PROVE BooksTyped'
  BY <1>4 DEF ConnectionGeneration, TypeOK, BooksTyped
<1>5. ASSUME NEW c \in Callers, RequestOnConnection(c) PROVE BooksTyped'
  BY <1>5 DEF RequestOnConnection, TypeOK, BooksTyped
<1>6. ASSUME NEW c \in Callers, Broadcast(c) PROVE BooksTyped'
  BY <1>6 DEF Broadcast, TypeOK, BooksTyped
<1>7. ASSUME NEW a \in Procs, DeadlinePasses(a) PROVE BooksTyped'
  BY <1>7 DEF DeadlinePasses, TypeOK, BooksTyped
<1>8. ASSUME NEW a \in Procs, Register(a) PROVE BooksTyped'
  <2>1. on[a] \in Conns
    BY <1>8, OnConn DEF Register
  <2>2. pending' \in [Conns -> SUBSET Procs]
    <3>1. pending' = pending \/ pending' = [pending EXCEPT ![on[a]] = pending[on[a]] \cup {a}]
      BY <1>8 DEF Register
    <3>2. pending \in [Conns -> SUBSET Procs] /\ pending[on[a]] \cup {a} \in SUBSET Procs
      BY <2>1 DEF TypeOK, BooksTyped
    <3> QED BY <2>1, <3>1, <3>2
  <2>3. UNCHANGED <<writes, queued, failed, stage, replies>>
    BY <1>8 DEF Register
  <2> QED BY <2>2, <2>3 DEF TypeOK, BooksTyped
<1>9. ASSUME NEW a \in Procs, Enqueue(a) PROVE BooksTyped'
  <2>1. EnqueueEffect(a) /\ UNCHANGED <<pending, failed, stage, replies>>
    BY <1>9, EnqueueEffects DEF Enqueue
  <2>2. CASE UNCHANGED <<writes, queued>>
    BY <2>1, <2>2 DEF TypeOK, BooksTyped
  <2>3. CASE PutEffect(on[a], IF Broadcasts(a) THEN Note ELSE a)
    BY <2>1, <2>3, PutTyped DEF EnqueueEffect, TypeOK
  <2> QED BY <2>1, <2>2, <2>3 DEF EnqueueEffect
<1>10. ASSUME NEW a \in Procs, CallReturns(a) PROVE BooksTyped'
  BY <1>10 DEF CallReturns, TypeOK, BooksTyped
<1>11. ASSUME NEW a \in Procs, Leave(a) PROVE BooksTyped'
  <2>1. on[a] \in Conns /\ on[a] \in 1..generation
    BY <1>11, OnConn DEF Leave
  <2> QED BY <1>11, <2>1 DEF Leave, AfterLeave, TypeOK, BooksTyped
<1>12. CASE SomebodyConnects
  BY <1>12 DEF SomebodyConnects, StartOpening, CanOpen, TypeOK, BooksTyped
<1>13. CASE BackoffPasses
  BY <1>13 DEF BackoffPasses, TypeOK, BooksTyped
<1>14. CASE Dial
  BY <1>14 DEF Dial, TypeOK, BooksTyped
<1>15. CASE Install
  BY <1>15 DEF Install, InstallIt, TypeOK, BooksTyped
<1>16. CASE Identify
  BY <1>16 DEF Identify, TypeOK, BooksTyped
<1>17. CASE Finish
  BY <1>17 DEF Finish, Publish, TypeOK, BooksTyped
<1>18. CASE Close
  BY <1>18 DEF Close, TypeOK, BooksTyped
<1>19. ASSUME NEW a \in Procs \cup {Owner}, Closes(a) PROVE BooksTyped'
  <2>1. ClosesEffect(a)
    BY <1>19, ClosesEffects
  <2>2. CASE UNCHANGED books
    BY <2>2 DEF TypeOK, BooksTyped
  <2>3. CASE on[a] \in Conns /\ CloseEffect(on[a])
    BY <2>3, CloseTyped DEF TypeOK
  <2> QED BY <2>1, <2>2, <2>3 DEF ClosesEffect
<1>20. ASSUME NEW a \in Procs \cup {Owner}, HasClosed(a) PROVE BooksTyped'
  BY <1>20 DEF HasClosed, AfterClose, AfterError, Broadcasts, TypeOK, BooksTyped
<1>21. ASSUME NEW g \in Conns, OnClose(g) PROVE BooksTyped'
  BY <1>21 DEF OnClose, TypeOK, BooksTyped
<1>22. ASSUME NEW g \in Conns, OnClosed(g) PROVE BooksTyped'
  BY <1>22 DEF OnClosed, TypeOK, BooksTyped
<1>23. ASSUME NEW g \in Conns, WriterTakes(g) PROVE BooksTyped'
  <2>1. TakeEffect(g)
    BY <1>23, TakeEffects
  <2> QED BY <1>23, <2>1 DEF WriterTakes, TakeEffect, TypeOK, BooksTyped
<1>24. ASSUME NEW g \in Conns, WriterChecks(g) PROVE BooksTyped'
  BY <1>24 DEF WriterChecks, Written, TypeOK, BooksTyped
<1>25. ASSUME NEW g \in Conns, WriterWrites(g) PROVE BooksTyped'
  BY <1>25 DEF WriterWrites, Written, WireClosed, TypeOK, BooksTyped
<1>26. ASSUME NEW g \in Conns, WriterFails(g) PROVE BooksTyped'
  <2>1. BooksOrClose(g)
    BY <1>26, LoopCloses
  <2> QED BY <2>1, CloseTyped DEF BooksOrClose, TypeOK, BooksTyped
<1>27. ASSUME NEW g \in Conns, WriterFinishes(g) PROVE BooksTyped'
  <2>1. hand[g] # None /\ queued[g] \in 0..MaxQueued
    BY <1>27 DEF WriterFinishes, Hands, TypeOK, BooksTyped
  <2>2. ~failed[g] => queued[g] - 1 \in 0..MaxQueued
    <3>1. Len(writes[g]) \in Nat
      BY DEF TypeOK, BooksTyped
    <3>2. ~failed[g] => queued[g] = Len(writes[g]) + 1
      BY <2>1 DEF Queues
    <3> QED BY <2>1, <3>1, <3>2
  <2>3. queued' \in [Conns -> 0..MaxQueued]
    BY <1>27, <2>2 DEF WriterFinishes, Unaccount, TypeOK, BooksTyped
  <2>4. UNCHANGED <<pending, writes, failed, stage, replies>>
    BY <1>27 DEF WriterFinishes
  <2> QED BY <2>3, <2>4 DEF TypeOK, BooksTyped
<1>28. ASSUME NEW g \in Conns, NEW a \in Procs, ReaderAnswers(g, a) PROVE BooksTyped'
  <2>1. AnswerEffect(g, a)
    BY <1>28, AnswerEffects
  <2>2. pending' \in [Conns -> SUBSET Procs]
    BY <2>1 DEF AnswerEffect, TypeOK, BooksTyped
  <2>3. replies' \in [Procs -> {<< >>, <<"answer">>, <<"closed">>}]
    BY <2>1 DEF AnswerEffect, TypeOK, BooksTyped
  <2>4. UNCHANGED <<writes, queued, failed, stage>>
    BY <1>28 DEF ReaderAnswers
  <2> QED BY <2>2, <2>3, <2>4 DEF TypeOK, BooksTyped
<1>29. ASSUME NEW g \in Conns, ReaderDiscovers(g) PROVE BooksTyped'
  <2>1. DiscoverEffect(g)
    BY <1>29, DiscoverEffects
  <2>2. CASE CloseEffect(g)
    BY <2>2, CloseTyped DEF TypeOK
  <2>3. CASE PutEffect(g, Note) /\ UNCHANGED <<pending, failed, stage, replies>>
    BY <2>3, PutTyped DEF TypeOK
  <2> QED BY <2>1, <2>2, <2>3 DEF DiscoverEffect
<1>30. ASSUME NEW g \in Conns, ReaderEnds(g) PROVE BooksTyped'
  <2>1. BooksOrClose(g)
    BY <1>30, LoopCloses
  <2> QED BY <2>1, CloseTyped DEF BooksOrClose, TypeOK, BooksTyped
<1> QED BY <1>1, <1>2, <1>3, <1>4, <1>5, <1>6, <1>7, <1>8, <1>9, <1>10, <1>11, <1>12, <1>13, <1>14, <1>15, <1>16,
    <1>17, <1>18, <1>19, <1>20, <1>21, <1>22, <1>23, <1>24, <1>25, <1>26, <1>27, <1>28, <1>29, <1>30
    DEF Next, Step, Begin, CallerStep, Waiting, OpenerStep, CloseStep, ExchangeStep, WriterStep

(* ... and their loops.                                                     *)
LEMMA LoopsStep == ASSUME ClientInv, Next PROVE LoopsTyped'
<1> USE Distinct DEF client, call, loops, books, env, Goto
<1> /\ TypeOK /\ Openings /\ Sockets /\ Losses /\ Closing /\ Users /\ Fresh /\ Drained /\ Hands
    /\ Queues /\ Calling /\ OpsAt /\ Sent /\ Bindings
  BY DEF ClientInv
<1> budget' = budget /\ Conns' = Conns
  BY DEF Next, Conns
<1> budget.opens \in Nat /\ budget.notes \in Nat /\ MaxQueued \in Nat
  BY Bounds DEF TypeOK, ClientTyped
<1> (\A h \in 1..generation : h \in Conns) /\ generation \in Nat /\ Conns = 1..budget.opens
  BY DEF TypeOK, ClientTyped, Conns
<1>1. ASSUME NEW c \in Callers, Connect(c) PROVE LoopsTyped'
  BY <1>1 DEF Connect, StartOpening, CanOpen, TypeOK, LoopsTyped
<1>2. ASSUME NEW c \in Callers, ConnectReturns(c) PROVE LoopsTyped'
  BY <1>2 DEF ConnectReturns, TypeOK, LoopsTyped
<1>3. ASSUME NEW c \in Callers, Request(c) PROVE LoopsTyped'
  BY <1>3 DEF Request, TypeOK, LoopsTyped
<1>4. ASSUME NEW c \in Callers, ConnectionGeneration(c) PROVE LoopsTyped'
  BY <1>4 DEF ConnectionGeneration, TypeOK, LoopsTyped
<1>5. ASSUME NEW c \in Callers, RequestOnConnection(c) PROVE LoopsTyped'
  BY <1>5 DEF RequestOnConnection, TypeOK, LoopsTyped
<1>6. ASSUME NEW c \in Callers, Broadcast(c) PROVE LoopsTyped'
  BY <1>6 DEF Broadcast, TypeOK, LoopsTyped
<1>7. ASSUME NEW a \in Procs, DeadlinePasses(a) PROVE LoopsTyped'
  BY <1>7 DEF DeadlinePasses, TypeOK, LoopsTyped
<1>8. ASSUME NEW a \in Procs, Register(a) PROVE LoopsTyped'
  <2>1. on[a] \in Conns /\ on[a] \in 1..generation
    BY <1>8, OnConn DEF Register
  <2> QED BY <1>8, <2>1 DEF Register, AfterCall, TypeOK, LoopsTyped
<1>9. ASSUME NEW a \in Procs, Enqueue(a) PROVE LoopsTyped'
  <2>1. EnqueueEffect(a)
    BY <1>9, EnqueueEffects
  <2> QED BY <1>9, <2>1 DEF Enqueue, AfterError, AfterEnqueue, Broadcasts, EnqueueEffect, PutEffect, TypeOK, LoopsTyped
<1>10. ASSUME NEW a \in Procs, CallReturns(a) PROVE LoopsTyped'
  BY <1>10 DEF CallReturns, TypeOK, LoopsTyped
<1>11. ASSUME NEW a \in Procs, Leave(a) PROVE LoopsTyped'
  <2>1. on[a] \in Conns /\ on[a] \in 1..generation
    BY <1>11, OnConn DEF Leave
  <2> QED BY <1>11, <2>1 DEF Leave, AfterLeave, TypeOK, LoopsTyped
<1>12. CASE SomebodyConnects
  BY <1>12 DEF SomebodyConnects, StartOpening, CanOpen, TypeOK, LoopsTyped
<1>13. CASE BackoffPasses
  BY <1>13 DEF BackoffPasses, TypeOK, LoopsTyped
<1>14. CASE Dial
  BY <1>14 DEF Dial, TypeOK, LoopsTyped
<1>15. CASE Install
  BY <1>15 DEF Install, InstallIt, TypeOK, LoopsTyped
<1>16. CASE Identify
  BY <1>16 DEF Identify, TypeOK, LoopsTyped
<1>17. CASE Finish
  BY <1>17 DEF Finish, Publish, TypeOK, LoopsTyped
<1>18. CASE Close
  BY <1>18 DEF Close, TypeOK, LoopsTyped
<1>19. ASSUME NEW a \in Procs \cup {Owner}, Closes(a) PROVE LoopsTyped'
  <2>1. ClosesEffect(a)
    BY <1>19, ClosesEffects
  <2> QED BY <1>19, <2>1 DEF Closes, AfterClose, AfterError, Broadcasts, ClosesEffect, CloseEffect, TypeOK, LoopsTyped
<1>20. ASSUME NEW a \in Procs \cup {Owner}, HasClosed(a) PROVE LoopsTyped'
  BY <1>20 DEF HasClosed, AfterClose, AfterError, Broadcasts, TypeOK, LoopsTyped
<1>21. ASSUME NEW g \in Conns, OnClose(g) PROVE LoopsTyped'
  BY <1>21 DEF OnClose, TypeOK, LoopsTyped
<1>22. ASSUME NEW g \in Conns, OnClosed(g) PROVE LoopsTyped'
  BY <1>22 DEF OnClosed, TypeOK, LoopsTyped
<1>23. ASSUME NEW g \in Conns, WriterTakes(g) PROVE LoopsTyped'
  <2>1. TakeEffect(g) /\ UNCHANGED <<rpc, env>>
    BY <1>23, TakeEffects DEF WriterTakes
  <2>2. hand' \in [Conns -> Procs \cup {Note, None}]
    BY <2>1 DEF TakeEffect, TypeOK, LoopsTyped
  <2>3. wpc' \in [Conns -> {"off", "loop", "taken", "write", "written", "done"}]
    BY <2>1 DEF TakeEffect, TypeOK, LoopsTyped
  <2> QED BY <2>1, <2>2, <2>3 DEF TypeOK, LoopsTyped
<1>24. ASSUME NEW g \in Conns, WriterChecks(g) PROVE LoopsTyped'
  BY <1>24 DEF WriterChecks, Written, TypeOK, LoopsTyped
<1>25. ASSUME NEW g \in Conns, WriterWrites(g) PROVE LoopsTyped'
  BY <1>25 DEF WriterWrites, Written, WireClosed, TypeOK, LoopsTyped
<1>26. ASSUME NEW g \in Conns, WriterFails(g) PROVE LoopsTyped'
  <2>1. BooksOrClose(g)
    BY <1>26, LoopCloses
  <2> QED BY <1>26, <2>1 DEF WriterFails, Written, BooksOrClose, CloseEffect, TypeOK, LoopsTyped
<1>27. ASSUME NEW g \in Conns, WriterFinishes(g) PROVE LoopsTyped'
  BY <1>27 DEF WriterFinishes, Written, Unaccount, TypeOK, LoopsTyped
<1>28. ASSUME NEW g \in Conns, NEW a \in Procs, ReaderAnswers(g, a) PROVE LoopsTyped'
  <2>1. AnswerEffect(g, a)
    BY <1>28, AnswerEffects
  <2> QED BY <1>28, <2>1 DEF ReaderAnswers, AnswerEffect, TypeOK, LoopsTyped
<1>29. ASSUME NEW g \in Conns, ReaderDiscovers(g) PROVE LoopsTyped'
  <2>1. notes' \in 0..budget.notes /\ rpc' \in [Conns -> {"off", "read", "done"}]
    BY <1>29 DEF ReaderDiscovers, TypeOK, LoopsTyped
  <2>2. UNCHANGED <<hand, wpc, received>>
    BY <1>29 DEF ReaderDiscovers
  <2> QED BY <2>1, <2>2 DEF TypeOK, LoopsTyped
<1>30. ASSUME NEW g \in Conns, ReaderEnds(g) PROVE LoopsTyped'
  <2>1. BooksOrClose(g)
    BY <1>30, LoopCloses
  <2> QED BY <1>30, <2>1 DEF ReaderEnds, BooksOrClose, CloseEffect, TypeOK, LoopsTyped
<1> QED BY <1>1, <1>2, <1>3, <1>4, <1>5, <1>6, <1>7, <1>8, <1>9, <1>10, <1>11, <1>12, <1>13, <1>14, <1>15, <1>16,
    <1>17, <1>18, <1>19, <1>20, <1>21, <1>22, <1>23, <1>24, <1>25, <1>26, <1>27, <1>28, <1>29, <1>30
    DEF Next, Step, Begin, CallerStep, Waiting, OpenerStep, CloseStep, ExchangeStep, WriterStep

(* One opening at a time, over failed connections.                          *)
LEMMA OpeningsStep == ASSUME ClientInv, Next PROVE Openings'
<1> USE Distinct DEF client, call, loops, books, env, Goto
<1> /\ TypeOK /\ Openings /\ Sockets /\ Losses /\ Closing /\ Users /\ Fresh /\ Drained /\ Hands
    /\ Queues /\ Calling /\ OpsAt /\ Sent /\ Bindings
  BY DEF ClientInv
<1> budget' = budget /\ Conns' = Conns
  BY DEF Next, Conns
<1> budget.opens \in Nat /\ budget.notes \in Nat /\ MaxQueued \in Nat
  BY Bounds DEF TypeOK, ClientTyped
<1> (\A h \in 1..generation : h \in Conns) /\ generation \in Nat /\ Conns = 1..budget.opens
  BY DEF TypeOK, ClientTyped, Conns
<1>1. ASSUME NEW c \in Callers, Connect(c) PROVE Openings'
  BY <1>1 DEF Connect, StartOpening, CanOpen, Openings, AllFailed, Sockets, TypeOK, ClientTyped, CallsTyped, BooksTyped
<1>2. ASSUME NEW c \in Callers, ConnectReturns(c) PROVE Openings'
  BY <1>2 DEF ConnectReturns, Openings, AllFailed, Sockets, TypeOK, ClientTyped, CallsTyped, BooksTyped
<1>3. ASSUME NEW c \in Callers, Request(c) PROVE Openings'
  BY <1>3 DEF Request, Openings, AllFailed, Sockets, TypeOK, ClientTyped, CallsTyped, BooksTyped
<1>4. ASSUME NEW c \in Callers, ConnectionGeneration(c) PROVE Openings'
  BY <1>4 DEF ConnectionGeneration, Openings, AllFailed, Sockets, TypeOK, ClientTyped, CallsTyped, BooksTyped
<1>5. ASSUME NEW c \in Callers, RequestOnConnection(c) PROVE Openings'
  BY <1>5 DEF RequestOnConnection, Openings, AllFailed, Sockets, TypeOK, ClientTyped, CallsTyped, BooksTyped
<1>6. ASSUME NEW c \in Callers, Broadcast(c) PROVE Openings'
  BY <1>6 DEF Broadcast, Openings, AllFailed, Sockets, TypeOK, ClientTyped, CallsTyped, BooksTyped
<1>7. ASSUME NEW a \in Procs, DeadlinePasses(a) PROVE Openings'
  BY <1>7 DEF DeadlinePasses, Openings, AllFailed, Sockets, TypeOK, ClientTyped, CallsTyped, BooksTyped
<1>8. ASSUME NEW a \in Procs, Register(a) PROVE Openings'
  <2>1. on[a] \in Conns /\ on[a] \in 1..generation
    BY <1>8, OnConn DEF Register
  <2> QED BY <1>8, <2>1
      DEF Register, AfterCall, Openings, AllFailed, Sockets, TypeOK, ClientTyped, CallsTyped, BooksTyped
<1>9. ASSUME NEW a \in Procs, Enqueue(a) PROVE Openings'
  <2>1. EnqueueEffect(a)
    BY <1>9, EnqueueEffects
  <2> QED BY <1>9, <2>1
      DEF Enqueue, AfterError, AfterEnqueue, Broadcasts, EnqueueEffect, PutEffect, Openings, AllFailed, Sockets,
          TypeOK, ClientTyped, CallsTyped, BooksTyped
<1>10. ASSUME NEW a \in Procs, CallReturns(a) PROVE Openings'
  BY <1>10 DEF CallReturns, Openings, AllFailed, Sockets, TypeOK, ClientTyped, CallsTyped, BooksTyped
<1>11. ASSUME NEW a \in Procs, Leave(a) PROVE Openings'
  <2>1. on[a] \in Conns /\ on[a] \in 1..generation
    BY <1>11, OnConn DEF Leave
  <2> QED BY <1>11, <2>1
      DEF Leave, AfterLeave, Openings, AllFailed, Sockets, TypeOK, ClientTyped, CallsTyped, BooksTyped
<1>12. CASE SomebodyConnects
  BY <1>12
      DEF SomebodyConnects, StartOpening, CanOpen, Openings, AllFailed, Sockets, TypeOK, ClientTyped, CallsTyped,
          BooksTyped
<1>13. CASE BackoffPasses
  BY <1>13 DEF BackoffPasses, Openings, AllFailed, Sockets, TypeOK, ClientTyped, CallsTyped, BooksTyped
<1>14. CASE Dial
  BY <1>14 DEF Dial, Openings, AllFailed, Sockets, TypeOK, ClientTyped, CallsTyped, BooksTyped
<1>15. CASE Install
  BY <1>15 DEF Install, InstallIt, Openings, AllFailed, Sockets, TypeOK, ClientTyped, CallsTyped, BooksTyped
<1>16. CASE Identify
  BY <1>16 DEF Identify, Openings, AllFailed, Sockets, TypeOK, ClientTyped, CallsTyped, BooksTyped
<1>17. CASE Finish
  BY <1>17 DEF Finish, Publish, Openings, AllFailed, Sockets, TypeOK, ClientTyped, CallsTyped, BooksTyped
<1>18. CASE Close
  BY <1>18 DEF Close, Openings, AllFailed, Sockets, TypeOK, ClientTyped, CallsTyped, BooksTyped
<1>19. ASSUME NEW a \in Procs \cup {Owner}, Closes(a) PROVE Openings'
  <2>1. ClosesEffect(a)
    BY <1>19, ClosesEffects
  <2>2. CASE UNCHANGED books /\ (on[a] = 0 \/ failed[on[a]]) /\ pc' = [pc EXCEPT ![a] = AfterClose(a)]
    BY <1>19, <2>2 DEF Closes, AfterClose, AfterError, Broadcasts, Openings, AllFailed, Sockets, TypeOK, ClientTyped, CallsTyped, BooksTyped
  <2>3. CASE on[a] \in Conns /\ ~failed[on[a]]
    <3>0. CloseEffect(on[a])
      BY <2>1, <2>3 DEF ClosesEffect
    <3>1. FailsOnce(on[a])
      BY <2>3, <3>0, CloseFails DEF TypeOK
    <3>2. pc' = [pc EXCEPT ![a] = IF pc[a] = "fail" THEN "failing" ELSE "closing"]
      BY <2>1, <2>3 DEF ClosesEffect
    <3>3. pc[a] \in {"close", "fail"} /\ UNCHANGED <<client, call, loops, env, told>>
      BY <1>19 DEF Closes
    <3> QED BY <2>3, <3>1, <3>2, <3>3 DEF FailsOnce, Openings, AllFailed, Sockets, TypeOK, ClientTyped, CallsTyped, BooksTyped
  <2> QED BY <2>1, <2>2, <2>3 DEF ClosesEffect
<1>20. ASSUME NEW a \in Procs \cup {Owner}, HasClosed(a) PROVE Openings'
  BY <1>20
      DEF HasClosed, AfterClose, AfterError, Broadcasts, Openings, AllFailed, Sockets, TypeOK, ClientTyped,
          CallsTyped, BooksTyped
<1>21. ASSUME NEW g \in Conns, OnClose(g) PROVE Openings'
  BY <1>21 DEF OnClose, Openings, AllFailed, Sockets, TypeOK, ClientTyped, CallsTyped, BooksTyped
<1>22. ASSUME NEW g \in Conns, OnClosed(g) PROVE Openings'
  BY <1>22 DEF OnClosed, Openings, AllFailed, Sockets, TypeOK, ClientTyped, CallsTyped, BooksTyped
<1>23. ASSUME NEW g \in Conns, WriterTakes(g) PROVE Openings'
  <2>1. TakeEffect(g)
    BY <1>23, TakeEffects
  <2> QED BY <1>23, <2>1
      DEF WriterTakes, TakeEffect, Openings, AllFailed, Sockets, TypeOK, ClientTyped, CallsTyped, BooksTyped
<1>24. ASSUME NEW g \in Conns, WriterChecks(g) PROVE Openings'
  BY <1>24 DEF WriterChecks, Written, Openings, AllFailed, Sockets, TypeOK, ClientTyped, CallsTyped, BooksTyped
<1>25. ASSUME NEW g \in Conns, WriterWrites(g) PROVE Openings'
  BY <1>25
      DEF WriterWrites, Written, WireClosed, Openings, AllFailed, Sockets, TypeOK, ClientTyped, CallsTyped,
          BooksTyped
<1>26. ASSUME NEW g \in Conns, WriterFails(g) PROVE Openings'
  <2>1. FailEffect(g) /\ UNCHANGED <<client, pc, call, told>>
    BY <1>26, LoopFails
  <2> QED BY <2>1 DEF FailEffect, FailsOnce, Openings, AllFailed, Sockets, TypeOK, ClientTyped, CallsTyped, BooksTyped
<1>27. ASSUME NEW g \in Conns, WriterFinishes(g) PROVE Openings'
  BY <1>27
      DEF WriterFinishes, Written, Unaccount, Openings, AllFailed, Sockets, TypeOK, ClientTyped, CallsTyped,
          BooksTyped
<1>28. ASSUME NEW g \in Conns, NEW a \in Procs, ReaderAnswers(g, a) PROVE Openings'
  <2>1. AnswerEffect(g, a)
    BY <1>28, AnswerEffects
  <2> QED BY <1>28, <2>1
      DEF ReaderAnswers, AnswerEffect, Openings, AllFailed, Sockets, TypeOK, ClientTyped, CallsTyped, BooksTyped
<1>29. ASSUME NEW g \in Conns, ReaderDiscovers(g) PROVE Openings'
  <2>1. FailEffect(g) /\ UNCHANGED <<client, pc, call, told>>
    BY <1>29, LoopFails
  <2> QED BY <2>1 DEF FailEffect, FailsOnce, Openings, AllFailed, Sockets, TypeOK, ClientTyped, CallsTyped, BooksTyped
<1>30. ASSUME NEW g \in Conns, ReaderEnds(g) PROVE Openings'
  <2>1. FailEffect(g) /\ UNCHANGED <<client, pc, call, told>>
    BY <1>30, LoopFails
  <2> QED BY <2>1 DEF FailEffect, FailsOnce, Openings, AllFailed, Sockets, TypeOK, ClientTyped, CallsTyped, BooksTyped
<1> QED BY <1>1, <1>2, <1>3, <1>4, <1>5, <1>6, <1>7, <1>8, <1>9, <1>10, <1>11, <1>12, <1>13, <1>14, <1>15, <1>16,
    <1>17, <1>18, <1>19, <1>20, <1>21, <1>22, <1>23, <1>24, <1>25, <1>26, <1>27, <1>28, <1>29, <1>30
    DEF Next, Step, Begin, CallerStep, Waiting, OpenerStep, CloseStep, ExchangeStep, WriterStep

(* The socket is the newest connection or nothing.                          *)
LEMMA SocketsStep == ASSUME ClientInv, Next PROVE Sockets'
<1> USE Distinct DEF client, call, loops, books, env, Goto
<1> /\ TypeOK /\ Openings /\ Sockets /\ Losses /\ Closing /\ Users /\ Fresh /\ Drained /\ Hands
    /\ Queues /\ Calling /\ OpsAt /\ Sent /\ Bindings
  BY DEF ClientInv
<1> budget' = budget /\ Conns' = Conns
  BY DEF Next, Conns
<1> budget.opens \in Nat /\ budget.notes \in Nat /\ MaxQueued \in Nat
  BY Bounds DEF TypeOK, ClientTyped
<1> (\A h \in 1..generation : h \in Conns) /\ generation \in Nat /\ Conns = 1..budget.opens
  BY DEF TypeOK, ClientTyped, Conns
<1>1. ASSUME NEW c \in Callers, Connect(c) PROVE Sockets'
  BY <1>1 DEF Connect, StartOpening, CanOpen, Sockets, Openings, AllFailed, Fresh, TypeOK, ClientTyped, BooksTyped
<1>2. ASSUME NEW c \in Callers, ConnectReturns(c) PROVE Sockets'
  BY <1>2 DEF ConnectReturns, Sockets, Openings, AllFailed, Fresh, TypeOK, ClientTyped, BooksTyped
<1>3. ASSUME NEW c \in Callers, Request(c) PROVE Sockets'
  BY <1>3 DEF Request, Sockets, Openings, AllFailed, Fresh, TypeOK, ClientTyped, BooksTyped
<1>4. ASSUME NEW c \in Callers, ConnectionGeneration(c) PROVE Sockets'
  BY <1>4 DEF ConnectionGeneration, Sockets, Openings, AllFailed, Fresh, TypeOK, ClientTyped, BooksTyped
<1>5. ASSUME NEW c \in Callers, RequestOnConnection(c) PROVE Sockets'
  BY <1>5 DEF RequestOnConnection, Sockets, Openings, AllFailed, Fresh, TypeOK, ClientTyped, BooksTyped
<1>6. ASSUME NEW c \in Callers, Broadcast(c) PROVE Sockets'
  BY <1>6 DEF Broadcast, Sockets, Openings, AllFailed, Fresh, TypeOK, ClientTyped, BooksTyped
<1>7. ASSUME NEW a \in Procs, DeadlinePasses(a) PROVE Sockets'
  BY <1>7 DEF DeadlinePasses, Sockets, Openings, AllFailed, Fresh, TypeOK, ClientTyped, BooksTyped
<1>8. ASSUME NEW a \in Procs, Register(a) PROVE Sockets'
  <2>1. on[a] \in Conns /\ on[a] \in 1..generation
    BY <1>8, OnConn DEF Register
  <2> QED BY <1>8, <2>1 DEF Register, AfterCall, Sockets, Openings, AllFailed, Fresh, TypeOK, ClientTyped, BooksTyped
<1>9. ASSUME NEW a \in Procs, Enqueue(a) PROVE Sockets'
  <2>1. EnqueueEffect(a)
    BY <1>9, EnqueueEffects
  <2> QED BY <1>9, <2>1
      DEF Enqueue, AfterError, AfterEnqueue, Broadcasts, EnqueueEffect, PutEffect, Sockets, Openings, AllFailed,
          Fresh, TypeOK, ClientTyped, BooksTyped
<1>10. ASSUME NEW a \in Procs, CallReturns(a) PROVE Sockets'
  BY <1>10 DEF CallReturns, Sockets, Openings, AllFailed, Fresh, TypeOK, ClientTyped, BooksTyped
<1>11. ASSUME NEW a \in Procs, Leave(a) PROVE Sockets'
  <2>1. on[a] \in Conns /\ on[a] \in 1..generation
    BY <1>11, OnConn DEF Leave
  <2> QED BY <1>11, <2>1 DEF Leave, AfterLeave, Sockets, Openings, AllFailed, Fresh, TypeOK, ClientTyped, BooksTyped
<1>12. CASE SomebodyConnects
  BY <1>12
      DEF SomebodyConnects, StartOpening, CanOpen, Sockets, Openings, AllFailed, Fresh, TypeOK, ClientTyped,
          BooksTyped
<1>13. CASE BackoffPasses
  BY <1>13 DEF BackoffPasses, Sockets, Openings, AllFailed, Fresh, TypeOK, ClientTyped, BooksTyped
<1>14. CASE Dial
  BY <1>14 DEF Dial, Sockets, Openings, AllFailed, Fresh, TypeOK, ClientTyped, BooksTyped
<1>15. CASE Install
  <2>1. CASE stopped
    BY <1>15, <2>1 DEF Install, Sockets
  <2>2. CASE ~stopped
    <3> DEFINE n == generation + 1
    <3>1. socket' = n /\ generation' = n /\ UNCHANGED <<failed, stage, connected, stopped>> /\ n # 0
      BY <1>15, <2>2 DEF Install, InstallIt
    <3>2. ~connected /\ AllFailed
      BY <1>15, <2>2 DEF Install, Openings
    <3>3. n \in Conns /\ n > generation
      BY <1>15 DEF Install, Openings, TypeOK, ClientTyped
    <3>4. ~failed[n] /\ stage[n] = "open"
      BY <3>3 DEF Fresh, Sockets
    <3>5. \A h \in 1..n : h = n \/ h \in 1..generation
      OBVIOUS
    <3> HIDE DEF n
    <3> QED BY <3>1, <3>2, <3>4, <3>5 DEF Sockets, AllFailed
  <2> QED BY <2>1, <2>2
<1>16. CASE Identify
  BY <1>16 DEF Identify, Sockets, Openings, AllFailed, Fresh, TypeOK, ClientTyped, BooksTyped
<1>17. CASE Finish
  BY <1>17 DEF Finish, Publish, Sockets, Openings, AllFailed, Fresh, TypeOK, ClientTyped, BooksTyped
<1>18. CASE Close
  BY <1>18 DEF Close, Sockets, Openings, AllFailed, Fresh, TypeOK, ClientTyped, BooksTyped
<1>19. ASSUME NEW a \in Procs \cup {Owner}, Closes(a) PROVE Sockets'
  <2>1. ClosesEffect(a)
    BY <1>19, ClosesEffects
  <2>2. CASE UNCHANGED books /\ (on[a] = 0 \/ failed[on[a]]) /\ pc' = [pc EXCEPT ![a] = AfterClose(a)]
    BY <1>19, <2>2 DEF Closes, AfterClose, AfterError, Broadcasts, Sockets
  <2>3. CASE on[a] \in Conns /\ ~failed[on[a]]
    <3>0. CloseEffect(on[a])
      BY <2>1, <2>3 DEF ClosesEffect
    <3>1. FailsOnce(on[a])
      BY <2>3, <3>0, CloseFails DEF TypeOK
    <3>2. pc' = [pc EXCEPT ![a] = IF pc[a] = "fail" THEN "failing" ELSE "closing"]
      BY <2>1, <2>3 DEF ClosesEffect
    <3>3. pc[a] \in {"close", "fail"} /\ UNCHANGED <<client, call, loops, env, told>>
      BY <1>19 DEF Closes
    <3> QED BY <2>3, <3>1, <3>3, SocketsFail
  <2> QED BY <2>1, <2>2, <2>3 DEF ClosesEffect
<1>20. ASSUME NEW a \in Procs \cup {Owner}, HasClosed(a) PROVE Sockets'
  BY <1>20
      DEF HasClosed, AfterClose, AfterError, Broadcasts, Sockets, Openings, AllFailed, Fresh, TypeOK, ClientTyped,
          BooksTyped
<1>21. ASSUME NEW g \in Conns, OnClose(g) PROVE Sockets'
  BY <1>21 DEF OnClose, Sockets, Openings, AllFailed, Fresh, TypeOK, ClientTyped, BooksTyped
<1>22. ASSUME NEW g \in Conns, OnClosed(g) PROVE Sockets'
  BY <1>22 DEF OnClosed, Sockets, Openings, AllFailed, Fresh, TypeOK, ClientTyped, BooksTyped
<1>23. ASSUME NEW g \in Conns, WriterTakes(g) PROVE Sockets'
  <2>1. TakeEffect(g)
    BY <1>23, TakeEffects
  <2> QED BY <1>23, <2>1
      DEF WriterTakes, TakeEffect, Sockets, Openings, AllFailed, Fresh, TypeOK, ClientTyped, BooksTyped
<1>24. ASSUME NEW g \in Conns, WriterChecks(g) PROVE Sockets'
  BY <1>24 DEF WriterChecks, Written, Sockets, Openings, AllFailed, Fresh, TypeOK, ClientTyped, BooksTyped
<1>25. ASSUME NEW g \in Conns, WriterWrites(g) PROVE Sockets'
  BY <1>25 DEF WriterWrites, Written, WireClosed, Sockets, Openings, AllFailed, Fresh, TypeOK, ClientTyped, BooksTyped
<1>26. ASSUME NEW g \in Conns, WriterFails(g) PROVE Sockets'
  <2>1. FailEffect(g) /\ UNCHANGED <<client, pc, call, told>>
    BY <1>26, LoopFails
  <2> QED BY <2>1, SocketsFail DEF FailEffect, Sockets
<1>27. ASSUME NEW g \in Conns, WriterFinishes(g) PROVE Sockets'
  BY <1>27 DEF WriterFinishes, Written, Unaccount, Sockets, Openings, AllFailed, Fresh, TypeOK, ClientTyped, BooksTyped
<1>28. ASSUME NEW g \in Conns, NEW a \in Procs, ReaderAnswers(g, a) PROVE Sockets'
  <2>1. AnswerEffect(g, a)
    BY <1>28, AnswerEffects
  <2> QED BY <1>28, <2>1
      DEF ReaderAnswers, AnswerEffect, Sockets, Openings, AllFailed, Fresh, TypeOK, ClientTyped, BooksTyped
<1>29. ASSUME NEW g \in Conns, ReaderDiscovers(g) PROVE Sockets'
  <2>1. FailEffect(g) /\ UNCHANGED <<client, pc, call, told>>
    BY <1>29, LoopFails
  <2> QED BY <2>1, SocketsFail DEF FailEffect, Sockets
<1>30. ASSUME NEW g \in Conns, ReaderEnds(g) PROVE Sockets'
  <2>1. FailEffect(g) /\ UNCHANGED <<client, pc, call, told>>
    BY <1>30, LoopFails
  <2> QED BY <2>1, SocketsFail DEF FailEffect, Sockets
<1> QED BY <1>1, <1>2, <1>3, <1>4, <1>5, <1>6, <1>7, <1>8, <1>9, <1>10, <1>11, <1>12, <1>13, <1>14, <1>15, <1>16,
    <1>17, <1>18, <1>19, <1>20, <1>21, <1>22, <1>23, <1>24, <1>25, <1>26, <1>27, <1>28, <1>29, <1>30
    DEF Next, Step, Begin, CallerStep, Waiting, OpenerStep, CloseStep, ExchangeStep, WriterStep

(* A loss is reported once.                                                 *)
LEMMA LossesStep == ASSUME ClientInv, Next PROVE Losses'
<1> USE Distinct DEF client, call, loops, books, env, Goto
<1> /\ TypeOK /\ Openings /\ Sockets /\ Losses /\ Closing /\ Users /\ Fresh /\ Drained /\ Hands
    /\ Queues /\ Calling /\ OpsAt /\ Sent /\ Bindings
  BY DEF ClientInv
<1> budget' = budget /\ Conns' = Conns
  BY DEF Next, Conns
<1> budget.opens \in Nat /\ budget.notes \in Nat /\ MaxQueued \in Nat
  BY Bounds DEF TypeOK, ClientTyped
<1> (\A h \in 1..generation : h \in Conns) /\ generation \in Nat /\ Conns = 1..budget.opens
  BY DEF TypeOK, ClientTyped, Conns
<1>1. ASSUME NEW c \in Callers, Connect(c) PROVE Losses'
  BY <1>1 DEF Connect, StartOpening, CanOpen, Losses, Sockets, Openings, Fresh, TypeOK, ClientTyped, BooksTyped
<1>2. ASSUME NEW c \in Callers, ConnectReturns(c) PROVE Losses'
  BY <1>2 DEF ConnectReturns, Losses, Sockets, Openings, Fresh, TypeOK, ClientTyped, BooksTyped
<1>3. ASSUME NEW c \in Callers, Request(c) PROVE Losses'
  BY <1>3 DEF Request, Losses, Sockets, Openings, Fresh, TypeOK, ClientTyped, BooksTyped
<1>4. ASSUME NEW c \in Callers, ConnectionGeneration(c) PROVE Losses'
  BY <1>4 DEF ConnectionGeneration, Losses, Sockets, Openings, Fresh, TypeOK, ClientTyped, BooksTyped
<1>5. ASSUME NEW c \in Callers, RequestOnConnection(c) PROVE Losses'
  BY <1>5 DEF RequestOnConnection, Losses, Sockets, Openings, Fresh, TypeOK, ClientTyped, BooksTyped
<1>6. ASSUME NEW c \in Callers, Broadcast(c) PROVE Losses'
  BY <1>6 DEF Broadcast, Losses, Sockets, Openings, Fresh, TypeOK, ClientTyped, BooksTyped
<1>7. ASSUME NEW a \in Procs, DeadlinePasses(a) PROVE Losses'
  BY <1>7 DEF DeadlinePasses, Losses, Sockets, Openings, Fresh, TypeOK, ClientTyped, BooksTyped
<1>8. ASSUME NEW a \in Procs, Register(a) PROVE Losses'
  <2>1. on[a] \in Conns /\ on[a] \in 1..generation
    BY <1>8, OnConn DEF Register
  <2> QED BY <1>8, <2>1 DEF Register, AfterCall, Losses, Sockets, Openings, Fresh, TypeOK, ClientTyped, BooksTyped
<1>9. ASSUME NEW a \in Procs, Enqueue(a) PROVE Losses'
  <2>1. EnqueueEffect(a)
    BY <1>9, EnqueueEffects
  <2> QED BY <1>9, <2>1
      DEF Enqueue, AfterError, AfterEnqueue, Broadcasts, EnqueueEffect, PutEffect, Losses, Sockets, Openings,
          Fresh, TypeOK, ClientTyped, BooksTyped
<1>10. ASSUME NEW a \in Procs, CallReturns(a) PROVE Losses'
  BY <1>10 DEF CallReturns, Losses, Sockets, Openings, Fresh, TypeOK, ClientTyped, BooksTyped
<1>11. ASSUME NEW a \in Procs, Leave(a) PROVE Losses'
  <2>1. on[a] \in Conns /\ on[a] \in 1..generation
    BY <1>11, OnConn DEF Leave
  <2> QED BY <1>11, <2>1 DEF Leave, AfterLeave, Losses, Sockets, Openings, Fresh, TypeOK, ClientTyped, BooksTyped
<1>12. CASE SomebodyConnects
  BY <1>12
      DEF SomebodyConnects, StartOpening, CanOpen, Losses, Sockets, Openings, Fresh, TypeOK, ClientTyped, BooksTyped
<1>13. CASE BackoffPasses
  BY <1>13 DEF BackoffPasses, Losses, Sockets, Openings, Fresh, TypeOK, ClientTyped, BooksTyped
<1>14. CASE Dial
  BY <1>14 DEF Dial, Losses, Sockets, Openings, Fresh, TypeOK, ClientTyped, BooksTyped
<1>15. CASE Install
  BY <1>15 DEF Install, InstallIt, Losses, Sockets, Openings, Fresh, TypeOK, ClientTyped, BooksTyped
<1>16. CASE Identify
  BY <1>16 DEF Identify, Losses, Sockets, Openings, Fresh, TypeOK, ClientTyped, BooksTyped
<1>17. CASE Finish
  BY <1>17 DEF Finish, Publish, Losses, Sockets, Openings, Fresh, TypeOK, ClientTyped, BooksTyped
<1>18. CASE Close
  BY <1>18 DEF Close, Losses, Sockets, Openings, Fresh, TypeOK, ClientTyped, BooksTyped
<1>19. ASSUME NEW a \in Procs \cup {Owner}, Closes(a) PROVE Losses'
  <2>1. ClosesEffect(a)
    BY <1>19, ClosesEffects
  <2>2. CASE UNCHANGED books /\ (on[a] = 0 \/ failed[on[a]]) /\ pc' = [pc EXCEPT ![a] = AfterClose(a)]
    BY <1>19, <2>2 DEF Closes, AfterClose, AfterError, Broadcasts, Losses
  <2>3. CASE on[a] \in Conns /\ ~failed[on[a]]
    <3>0. CloseEffect(on[a])
      BY <2>1, <2>3 DEF ClosesEffect
    <3>1. FailsOnce(on[a])
      BY <2>3, <3>0, CloseFails DEF TypeOK
    <3>2. pc' = [pc EXCEPT ![a] = IF pc[a] = "fail" THEN "failing" ELSE "closing"]
      BY <2>1, <2>3 DEF ClosesEffect
    <3>3. pc[a] \in {"close", "fail"} /\ UNCHANGED <<client, call, loops, env, told>>
      BY <1>19 DEF Closes
    <3> QED BY <2>3, <3>1, <3>3, LossesFail
  <2> QED BY <2>1, <2>2, <2>3 DEF ClosesEffect
<1>20. ASSUME NEW a \in Procs \cup {Owner}, HasClosed(a) PROVE Losses'
  BY <1>20
      DEF HasClosed, AfterClose, AfterError, Broadcasts, Losses, Sockets, Openings, Fresh, TypeOK, ClientTyped,
          BooksTyped
<1>21. ASSUME NEW g \in Conns, OnClose(g) PROVE Losses'
  BY <1>21 DEF OnClose, Losses, Sockets, Openings, Fresh, TypeOK, ClientTyped, BooksTyped
<1>22. ASSUME NEW g \in Conns, OnClosed(g) PROVE Losses'
  BY <1>22 DEF OnClosed, Losses, Sockets, Openings, Fresh, TypeOK, ClientTyped, BooksTyped
<1>23. ASSUME NEW g \in Conns, WriterTakes(g) PROVE Losses'
  <2>1. TakeEffect(g)
    BY <1>23, TakeEffects
  <2> QED BY <1>23, <2>1 DEF WriterTakes, TakeEffect, Losses, Sockets, Openings, Fresh, TypeOK, ClientTyped, BooksTyped
<1>24. ASSUME NEW g \in Conns, WriterChecks(g) PROVE Losses'
  BY <1>24 DEF WriterChecks, Written, Losses, Sockets, Openings, Fresh, TypeOK, ClientTyped, BooksTyped
<1>25. ASSUME NEW g \in Conns, WriterWrites(g) PROVE Losses'
  BY <1>25 DEF WriterWrites, Written, WireClosed, Losses, Sockets, Openings, Fresh, TypeOK, ClientTyped, BooksTyped
<1>26. ASSUME NEW g \in Conns, WriterFails(g) PROVE Losses'
  <2>1. FailEffect(g) /\ UNCHANGED <<client, pc, call, told>>
    BY <1>26, LoopFails
  <2> QED BY <2>1, LossesFail DEF FailEffect, Losses
<1>27. ASSUME NEW g \in Conns, WriterFinishes(g) PROVE Losses'
  BY <1>27 DEF WriterFinishes, Written, Unaccount, Losses, Sockets, Openings, Fresh, TypeOK, ClientTyped, BooksTyped
<1>28. ASSUME NEW g \in Conns, NEW a \in Procs, ReaderAnswers(g, a) PROVE Losses'
  <2>1. AnswerEffect(g, a)
    BY <1>28, AnswerEffects
  <2> QED BY <1>28, <2>1
      DEF ReaderAnswers, AnswerEffect, Losses, Sockets, Openings, Fresh, TypeOK, ClientTyped, BooksTyped
<1>29. ASSUME NEW g \in Conns, ReaderDiscovers(g) PROVE Losses'
  <2>1. FailEffect(g) /\ UNCHANGED <<client, pc, call, told>>
    BY <1>29, LoopFails
  <2> QED BY <2>1, LossesFail DEF FailEffect, Losses
<1>30. ASSUME NEW g \in Conns, ReaderEnds(g) PROVE Losses'
  <2>1. FailEffect(g) /\ UNCHANGED <<client, pc, call, told>>
    BY <1>30, LoopFails
  <2> QED BY <2>1, LossesFail DEF FailEffect, Losses
<1> QED BY <1>1, <1>2, <1>3, <1>4, <1>5, <1>6, <1>7, <1>8, <1>9, <1>10, <1>11, <1>12, <1>13, <1>14, <1>15, <1>16,
    <1>17, <1>18, <1>19, <1>20, <1>21, <1>22, <1>23, <1>24, <1>25, <1>26, <1>27, <1>28, <1>29, <1>30
    DEF Next, Step, Begin, CallerStep, Waiting, OpenerStep, CloseStep, ExchangeStep, WriterStep

(* Close() leaves nothing alive.                                            *)
LEMMA ClosingStep == ASSUME ClientInv, Next PROVE Closing'
<1> USE Distinct DEF client, call, loops, books, env, Goto
<1> /\ TypeOK /\ Openings /\ Sockets /\ Losses /\ Closing /\ Users /\ Fresh /\ Drained /\ Hands
    /\ Queues /\ Calling /\ OpsAt /\ Sent /\ Bindings
  BY DEF ClientInv
<1> budget' = budget /\ Conns' = Conns
  BY DEF Next, Conns
<1> budget.opens \in Nat /\ budget.notes \in Nat /\ MaxQueued \in Nat
  BY Bounds DEF TypeOK, ClientTyped
<1> (\A h \in 1..generation : h \in Conns) /\ generation \in Nat /\ Conns = 1..budget.opens
  BY DEF TypeOK, ClientTyped, Conns
<1>1. ASSUME NEW c \in Callers, Connect(c) PROVE Closing'
  BY <1>1 DEF Connect, StartOpening, CanOpen, Closing, Sockets, TypeOK, ClientTyped, CallsTyped, BooksTyped
<1>2. ASSUME NEW c \in Callers, ConnectReturns(c) PROVE Closing'
  BY <1>2 DEF ConnectReturns, Closing, Sockets, TypeOK, ClientTyped, CallsTyped, BooksTyped
<1>3. ASSUME NEW c \in Callers, Request(c) PROVE Closing'
  BY <1>3 DEF Request, Closing, Sockets, TypeOK, ClientTyped, CallsTyped, BooksTyped
<1>4. ASSUME NEW c \in Callers, ConnectionGeneration(c) PROVE Closing'
  BY <1>4 DEF ConnectionGeneration, Closing, Sockets, TypeOK, ClientTyped, CallsTyped, BooksTyped
<1>5. ASSUME NEW c \in Callers, RequestOnConnection(c) PROVE Closing'
  BY <1>5 DEF RequestOnConnection, Closing, Sockets, TypeOK, ClientTyped, CallsTyped, BooksTyped
<1>6. ASSUME NEW c \in Callers, Broadcast(c) PROVE Closing'
  BY <1>6 DEF Broadcast, Closing, Sockets, TypeOK, ClientTyped, CallsTyped, BooksTyped
<1>7. ASSUME NEW a \in Procs, DeadlinePasses(a) PROVE Closing'
  BY <1>7 DEF DeadlinePasses, Closing, Sockets, TypeOK, ClientTyped, CallsTyped, BooksTyped
<1>8. ASSUME NEW a \in Procs, Register(a) PROVE Closing'
  <2>1. on[a] \in Conns /\ on[a] \in 1..generation
    BY <1>8, OnConn DEF Register
  <2> QED BY <1>8, <2>1 DEF Register, AfterCall, Closing, Sockets, TypeOK, ClientTyped, CallsTyped, BooksTyped
<1>9. ASSUME NEW a \in Procs, Enqueue(a) PROVE Closing'
  <2>1. pc'[Owner] = pc[Owner] /\ UNCHANGED <<stopped, generation, failed, on>>
    BY <1>9 DEF Enqueue, TypeOK, CallsTyped
  <2> QED BY <2>1 DEF Closing
<1>10. ASSUME NEW a \in Procs, CallReturns(a) PROVE Closing'
  BY <1>10 DEF CallReturns, Closing, Sockets, TypeOK, ClientTyped, CallsTyped, BooksTyped
<1>11. ASSUME NEW a \in Procs, Leave(a) PROVE Closing'
  <2>1. on[a] \in Conns /\ on[a] \in 1..generation
    BY <1>11, OnConn DEF Leave
  <2> QED BY <1>11, <2>1 DEF Leave, AfterLeave, Closing, Sockets, TypeOK, ClientTyped, CallsTyped, BooksTyped
<1>12. CASE SomebodyConnects
  BY <1>12 DEF SomebodyConnects, StartOpening, CanOpen, Closing, Sockets, TypeOK, ClientTyped, CallsTyped, BooksTyped
<1>13. CASE BackoffPasses
  BY <1>13 DEF BackoffPasses, Closing, Sockets, TypeOK, ClientTyped, CallsTyped, BooksTyped
<1>14. CASE Dial
  BY <1>14 DEF Dial, Closing, Sockets, TypeOK, ClientTyped, CallsTyped, BooksTyped
<1>15. CASE Install
  BY <1>15 DEF Install, InstallIt, Closing, Sockets, TypeOK, ClientTyped, CallsTyped, BooksTyped
<1>16. CASE Identify
  BY <1>16 DEF Identify, Closing, Sockets, TypeOK, ClientTyped, CallsTyped, BooksTyped
<1>17. CASE Finish
  BY <1>17 DEF Finish, Publish, Closing, Sockets, TypeOK, ClientTyped, CallsTyped, BooksTyped
<1>18. CASE Close
  BY <1>18 DEF Close, Closing, Sockets, TypeOK, ClientTyped, CallsTyped, BooksTyped
<1>19. ASSUME NEW a \in Procs \cup {Owner}, Closes(a) PROVE Closing'
  <2>1. ClosesEffect(a) /\ pc[a] \in {"close", "fail"} /\ UNCHANGED <<stopped, generation, on>>
    BY <1>19, ClosesEffects DEF Closes
  <2>2. CASE UNCHANGED books /\ (on[a] = 0 \/ failed[on[a]]) /\ pc' = [pc EXCEPT ![a] = AfterClose(a)]
    BY <1>19, <2>2 DEF Closes, AfterClose, AfterError, Broadcasts, Closing, Sockets, TypeOK, ClientTyped, CallsTyped, BooksTyped
  <2>3. CASE on[a] \in Conns /\ ~failed[on[a]]
    <3>1. FailsOnce(on[a]) /\ pc' = [pc EXCEPT ![a] = IF pc[a] = "fail" THEN "failing" ELSE "closing"]
      BY <2>1, <2>3, CloseFails DEF ClosesEffect, TypeOK
    <3>2. \A h \in Conns : failed[h] => failed'[h]
      BY <3>1 DEF FailsOnce
    <3>3. pc'[Owner] = pc[Owner] \/ (pc[Owner] = "close" /\ pc'[Owner] = "closing")
      BY <2>1, <3>1 DEF Closing, TypeOK, CallsTyped
    <3>4. pc'[Owner] = "done" => on[Owner] = 0 \/ failed'[on[Owner]]
      <4>1. on[Owner] # 0 => on[Owner] \in Conns
        BY DEF Users
      <4> QED BY <3>2, <3>3, <4>1 DEF Closing
    <3>5. \A h \in 1..generation : ~failed'[h] => ~failed[h]
      BY <3>2
    <3> QED BY <2>1, <3>3, <3>4, <3>5 DEF Closing
  <2> QED BY <2>1, <2>2, <2>3 DEF ClosesEffect
<1>20. ASSUME NEW a \in Procs \cup {Owner}, HasClosed(a) PROVE Closing'
  BY <1>20
      DEF HasClosed, AfterClose, AfterError, Broadcasts, Closing, Sockets, TypeOK, ClientTyped, CallsTyped,
          BooksTyped
<1>21. ASSUME NEW g \in Conns, OnClose(g) PROVE Closing'
  BY <1>21 DEF OnClose, Closing, Sockets, TypeOK, ClientTyped, CallsTyped, BooksTyped
<1>22. ASSUME NEW g \in Conns, OnClosed(g) PROVE Closing'
  BY <1>22 DEF OnClosed, Closing, Sockets, TypeOK, ClientTyped, CallsTyped, BooksTyped
<1>23. ASSUME NEW g \in Conns, WriterTakes(g) PROVE Closing'
  <2>1. TakeEffect(g)
    BY <1>23, TakeEffects
  <2> QED BY <1>23, <2>1 DEF WriterTakes, TakeEffect, Closing, Sockets, TypeOK, ClientTyped, CallsTyped, BooksTyped
<1>24. ASSUME NEW g \in Conns, WriterChecks(g) PROVE Closing'
  BY <1>24 DEF WriterChecks, Written, Closing, Sockets, TypeOK, ClientTyped, CallsTyped, BooksTyped
<1>25. ASSUME NEW g \in Conns, WriterWrites(g) PROVE Closing'
  BY <1>25 DEF WriterWrites, Written, WireClosed, Closing, Sockets, TypeOK, ClientTyped, CallsTyped, BooksTyped
<1>26. ASSUME NEW g \in Conns, WriterFails(g) PROVE Closing'
  <2>1. FailEffect(g) /\ UNCHANGED <<client, pc, call, told>>
    BY <1>26, LoopFails
  <2> QED BY <2>1 DEF FailEffect, FailsOnce, Closing, Sockets, TypeOK, ClientTyped, CallsTyped, BooksTyped
<1>27. ASSUME NEW g \in Conns, WriterFinishes(g) PROVE Closing'
  BY <1>27 DEF WriterFinishes, Written, Unaccount, Closing, Sockets, TypeOK, ClientTyped, CallsTyped, BooksTyped
<1>28. ASSUME NEW g \in Conns, NEW a \in Procs, ReaderAnswers(g, a) PROVE Closing'
  <2>1. AnswerEffect(g, a)
    BY <1>28, AnswerEffects
  <2> QED BY <1>28, <2>1 DEF ReaderAnswers, AnswerEffect, Closing, Sockets, TypeOK, ClientTyped, CallsTyped, BooksTyped
<1>29. ASSUME NEW g \in Conns, ReaderDiscovers(g) PROVE Closing'
  <2>1. FailEffect(g) /\ UNCHANGED <<client, pc, call, told>>
    BY <1>29, LoopFails
  <2> QED BY <2>1 DEF FailEffect, FailsOnce, Closing, Sockets, TypeOK, ClientTyped, CallsTyped, BooksTyped
<1>30. ASSUME NEW g \in Conns, ReaderEnds(g) PROVE Closing'
  <2>1. FailEffect(g) /\ UNCHANGED <<client, pc, call, told>>
    BY <1>30, LoopFails
  <2> QED BY <2>1 DEF FailEffect, FailsOnce, Closing, Sockets, TypeOK, ClientTyped, CallsTyped, BooksTyped
<1> QED BY <1>1, <1>2, <1>3, <1>4, <1>5, <1>6, <1>7, <1>8, <1>9, <1>10, <1>11, <1>12, <1>13, <1>14, <1>15, <1>16,
    <1>17, <1>18, <1>19, <1>20, <1>21, <1>22, <1>23, <1>24, <1>25, <1>26, <1>27, <1>28, <1>29, <1>30
    DEF Next, Step, Begin, CallerStep, Waiting, OpenerStep, CloseStep, ExchangeStep, WriterStep

(* A goroutine works on an exchange that exists.                            *)
LEMMA UsersStep == ASSUME ClientInv, Next PROVE Users'
<1> USE Distinct DEF client, call, loops, books, env, Goto
<1> /\ TypeOK /\ Openings /\ Sockets /\ Losses /\ Closing /\ Users /\ Fresh /\ Drained /\ Hands
    /\ Queues /\ Calling /\ OpsAt /\ Sent /\ Bindings
  BY DEF ClientInv
<1> budget' = budget /\ Conns' = Conns
  BY DEF Next, Conns
<1> budget.opens \in Nat /\ budget.notes \in Nat /\ MaxQueued \in Nat
  BY Bounds DEF TypeOK, ClientTyped
<1> (\A h \in 1..generation : h \in Conns) /\ generation \in Nat /\ Conns = 1..budget.opens
  BY DEF TypeOK, ClientTyped, Conns
<1>1. ASSUME NEW c \in Callers, Connect(c) PROVE Users'
  <2>1. \E l \in {"done", "admit", "connect"} :
          pc' = [pc EXCEPT ![c] = l] \/ pc' = [pc EXCEPT ![c] = l, ![Opener] = "dial"]
    BY <1>1 DEF Connect
  <2>2. pc[c] = "idle" /\ UNCHANGED <<on, generation, failed>>
    BY <1>1 DEF Connect
  <2> QED BY <2>1, <2>2 DEF Users, TypeOK, CallsTyped
<1>2. ASSUME NEW c \in Callers, ConnectReturns(c) PROVE Users'
  BY <1>2 DEF ConnectReturns, Users, TypeOK, CallsTyped
<1>3. ASSUME NEW c \in Callers, Request(c) PROVE Users'
  <2> DEFINE ok == connected /\ socket # 0
  <2>1. pc' = [pc EXCEPT ![c] = IF ok THEN "register" ELSE "done"]
        /\ on' = [on EXCEPT ![c] = IF ok THEN socket ELSE on[c]]
        /\ UNCHANGED <<generation, failed>>
    BY <1>3 DEF Request, TypeOK, CallsTyped
  <2>2. socket \in 0..generation /\ on[c] \in 0..generation
    BY DEF TypeOK, ClientTyped, Users
  <2>3. (IF ok THEN socket ELSE on[c]) \in 0..generation /\ Labelled(IF ok THEN "register" ELSE "done", IF ok THEN socket ELSE on[c])
    BY <2>2 DEF Labelled
  <2> HIDE DEF ok
  <2> QED BY <2>1, <2>3, UsersMove DEF Labelled
<1>4. ASSUME NEW c \in Callers, ConnectionGeneration(c) PROVE Users'
  BY <1>4 DEF ConnectionGeneration, Users, TypeOK, CallsTyped
<1>5. ASSUME NEW c \in Callers, RequestOnConnection(c) PROVE Users'
  <2> DEFINE ok == generation = bound[c] /\ connected /\ ~stopped /\ socket # 0
  <2>1. pc' = [pc EXCEPT ![c] = IF ok THEN "register" ELSE "done"]
        /\ on' = [on EXCEPT ![c] = IF ok THEN socket ELSE on[c]]
        /\ UNCHANGED <<generation, failed>>
    BY <1>5 DEF RequestOnConnection, TypeOK, CallsTyped
  <2>2. socket \in 0..generation /\ on[c] \in 0..generation
    BY DEF TypeOK, ClientTyped, Users
  <2>3. (IF ok THEN socket ELSE on[c]) \in 0..generation /\ Labelled(IF ok THEN "register" ELSE "done", IF ok THEN socket ELSE on[c])
    BY <2>2 DEF Labelled
  <2> HIDE DEF ok
  <2> QED BY <2>1, <2>3, UsersMove DEF Labelled
<1>6. ASSUME NEW c \in Callers, Broadcast(c) PROVE Users'
  <2>1. socket \in 1..generation /\ on' = [on EXCEPT ![c] = socket] /\ pc' = [pc EXCEPT ![c] = "enqueue"]
        /\ UNCHANGED <<generation, failed>>
    BY <1>6 DEF Broadcast, TypeOK, ClientTyped
  <2>2. socket \in 0..generation /\ Labelled("enqueue", socket)
    BY <2>1 DEF Labelled
  <2> QED BY <2>1, <2>2, UsersMove
<1>7. ASSUME NEW a \in Procs, DeadlinePasses(a) PROVE Users'
  BY <1>7 DEF DeadlinePasses, Users, TypeOK, CallsTyped
<1>8. ASSUME NEW a \in Procs, Register(a) PROVE Users'
  <2>1. on[a] \in 1..generation /\ pc[a] = "register"
    BY <1>8, OnConn DEF Register
  <2>2. \E l \in {"enqueue", AfterCall(a)} : pc' = [pc EXCEPT ![a] = l]
    BY <1>8 DEF Register
  <2>3. UNCHANGED <<on, generation, failed>>
    BY <1>8 DEF Register
  <2> QED BY <2>1, <2>2, <2>3 DEF AfterCall, Users, TypeOK, CallsTyped
<1>9. ASSUME NEW a \in Procs, Enqueue(a) PROVE Users'
  <2>1. on[a] \in 1..generation /\ pc[a] = "enqueue"
    BY <1>9, OnConn DEF Enqueue
  <2>2. \E l \in {"done", "leave", "wait", "close"} : pc' = [pc EXCEPT ![a] = l]
    BY <1>9 DEF Enqueue, AfterError, AfterEnqueue
  <2>3. UNCHANGED <<on, generation, failed>>
    BY <1>9 DEF Enqueue
  <2> QED BY <2>1, <2>2, <2>3 DEF Users, TypeOK, CallsTyped
<1>10. ASSUME NEW a \in Procs, CallReturns(a) PROVE Users'
  BY <1>10 DEF CallReturns, Users, TypeOK, CallsTyped
<1>11. ASSUME NEW a \in Procs, Leave(a) PROVE Users'
  <2>1. on[a] \in Conns /\ on[a] \in 1..generation
    BY <1>11, OnConn DEF Leave
  <2> QED BY <1>11, <2>1 DEF Leave, AfterLeave, Users, TypeOK, CallsTyped
<1>12. CASE SomebodyConnects
  BY <1>12 DEF SomebodyConnects, StartOpening, CanOpen, Users, TypeOK, CallsTyped
<1>13. CASE BackoffPasses
  BY <1>13 DEF BackoffPasses, Users, TypeOK, CallsTyped
<1>14. CASE Dial
  BY <1>14 DEF Dial, Users, TypeOK, CallsTyped
<1>15. CASE Install
  <2>1. CASE stopped
    BY <1>15, <2>1 DEF Install, Users, TypeOK, CallsTyped
  <2>2. CASE ~stopped
    <3>1. /\ generation' = generation + 1 /\ on' = [on EXCEPT ![Opener] = generation + 1]
          /\ pc' = [pc EXCEPT ![Opener] = "register"] /\ UNCHANGED failed
      BY <1>15, <2>2 DEF Install, InstallIt
    <3>2. \A b \in Procs \cup {Owner} : on'[b] \in 0..generation'
      BY <3>1 DEF Users, TypeOK, CallsTyped
    <3>3. \A b \in Procs \cup {Owner} : b # Opener => pc'[b] = pc[b] /\ on'[b] = on[b]
      BY <3>1 DEF TypeOK, CallsTyped
    <3>4. pc'[Opener] = "register"
      BY <3>1 DEF TypeOK, CallsTyped
    <3> QED BY <3>1, <3>2, <3>3, <3>4 DEF Users
  <2> QED BY <2>1, <2>2
<1>16. CASE Identify
  BY <1>16 DEF Identify, Users, TypeOK, CallsTyped
<1>17. CASE Finish
  BY <1>17 DEF Finish, Publish, Users, TypeOK, CallsTyped
<1>18. CASE Close
  <2>1. on' = [on EXCEPT ![Owner] = socket] /\ pc' = [pc EXCEPT ![Owner] = "close"] /\ UNCHANGED <<generation, failed>>
    BY <1>18 DEF Close
  <2>2. socket \in 0..generation /\ Owner \notin Callers
    BY DEF TypeOK, ClientTyped
  <2> QED BY <2>1, <2>2, UsersMove
<1>19. ASSUME NEW a \in Procs \cup {Owner}, Closes(a) PROVE Users'
  <2>1. ClosesEffect(a) /\ pc[a] \in {"close", "fail"} /\ UNCHANGED <<on, generation>>
    BY <1>19, ClosesEffects DEF Closes
  <2>2. CASE UNCHANGED books /\ pc' = [pc EXCEPT ![a] = AfterClose(a)]
    <3>1. AfterClose(a) \in {"finish", "done", "leave"} /\ (a \in Callers => AfterClose(a) # "finish")
      BY DEF AfterClose, AfterError
    <3> QED BY <2>1, <2>2, <3>1 DEF Users, TypeOK, CallsTyped
  <2>3. CASE on[a] \in Conns /\ ~failed[on[a]]
    <3>1. CloseEffect(on[a]) /\ pc' = [pc EXCEPT ![a] = IF pc[a] = "fail" THEN "failing" ELSE "closing"]
      BY <2>1, <2>3 DEF ClosesEffect
    <3>2. FailsOnce(on[a])
      BY <2>3, <3>1, CloseFails DEF TypeOK
    <3>3. (\A h \in Conns : failed[h] => failed'[h]) /\ failed'[on[a]]
      BY <3>2 DEF FailsOnce
    <3>4. on' = [on EXCEPT ![a] = on[a]] /\ on[a] \in 0..generation /\ on[a] # 0
      BY <2>1, <2>3 DEF Users, TypeOK, CallsTyped
    <3>5. a \in Callers => pc[a] = "close" /\ Labelled("closing", on[a])
      BY <2>1 DEF Users, Labelled
    <3> QED BY <2>1, <3>1, <3>3, <3>4, <3>5, UsersMove
  <2> QED BY <2>1, <2>2, <2>3 DEF ClosesEffect
<1>20. ASSUME NEW a \in Procs \cup {Owner}, HasClosed(a) PROVE Users'
  BY <1>20 DEF HasClosed, AfterClose, AfterError, Broadcasts, Users, TypeOK, CallsTyped
<1>21. ASSUME NEW g \in Conns, OnClose(g) PROVE Users'
  BY <1>21 DEF OnClose, Users, TypeOK, CallsTyped
<1>22. ASSUME NEW g \in Conns, OnClosed(g) PROVE Users'
  BY <1>22 DEF OnClosed, Users, TypeOK, CallsTyped
<1>23. ASSUME NEW g \in Conns, WriterTakes(g) PROVE Users'
  <2>1. TakeEffect(g)
    BY <1>23, TakeEffects
  <2> QED BY <1>23, <2>1 DEF WriterTakes, TakeEffect, Users, TypeOK, CallsTyped
<1>24. ASSUME NEW g \in Conns, WriterChecks(g) PROVE Users'
  BY <1>24 DEF WriterChecks, Written, Users, TypeOK, CallsTyped
<1>25. ASSUME NEW g \in Conns, WriterWrites(g) PROVE Users'
  BY <1>25 DEF WriterWrites, Written, WireClosed, Users, TypeOK, CallsTyped
<1>26. ASSUME NEW g \in Conns, WriterFails(g) PROVE Users'
  <2>1. FailEffect(g) /\ UNCHANGED <<client, pc, call, told>>
    BY <1>26, LoopFails
  <2>2. \A h \in Conns : failed[h] => failed'[h]
    BY <2>1 DEF FailEffect, FailsOnce
  <2> QED BY <2>1, <2>2, UsersStay
<1>27. ASSUME NEW g \in Conns, WriterFinishes(g) PROVE Users'
  BY <1>27 DEF WriterFinishes, Written, Unaccount, Users, TypeOK, CallsTyped
<1>28. ASSUME NEW g \in Conns, NEW a \in Procs, ReaderAnswers(g, a) PROVE Users'
  <2>1. AnswerEffect(g, a)
    BY <1>28, AnswerEffects
  <2> QED BY <1>28, <2>1 DEF ReaderAnswers, AnswerEffect, Users, TypeOK, CallsTyped
<1>29. ASSUME NEW g \in Conns, ReaderDiscovers(g) PROVE Users'
  <2>1. FailEffect(g) /\ UNCHANGED <<client, pc, call, told>>
    BY <1>29, LoopFails
  <2>2. \A h \in Conns : failed[h] => failed'[h]
    BY <2>1 DEF FailEffect, FailsOnce
  <2> QED BY <2>1, <2>2, UsersStay
<1>30. ASSUME NEW g \in Conns, ReaderEnds(g) PROVE Users'
  <2>1. FailEffect(g) /\ UNCHANGED <<client, pc, call, told>>
    BY <1>30, LoopFails
  <2>2. \A h \in Conns : failed[h] => failed'[h]
    BY <2>1 DEF FailEffect, FailsOnce
  <2> QED BY <2>1, <2>2, UsersStay
<1> QED BY <1>1, <1>2, <1>3, <1>4, <1>5, <1>6, <1>7, <1>8, <1>9, <1>10, <1>11, <1>12, <1>13, <1>14, <1>15, <1>16,
    <1>17, <1>18, <1>19, <1>20, <1>21, <1>22, <1>23, <1>24, <1>25, <1>26, <1>27, <1>28, <1>29, <1>30
    DEF Next, Step, Begin, CallerStep, Waiting, OpenerStep, CloseStep, ExchangeStep, WriterStep

(* A future connection is untouched, ...                                    *)
LEMMA FreshStep == ASSUME ClientInv, Next PROVE Fresh'
<1> USE Distinct DEF client, call, loops, books, env, Goto
<1> /\ TypeOK /\ Openings /\ Sockets /\ Losses /\ Closing /\ Users /\ Fresh /\ Drained /\ Hands
    /\ Queues /\ Calling /\ OpsAt /\ Sent /\ Bindings
  BY DEF ClientInv
<1> budget' = budget /\ Conns' = Conns
  BY DEF Next, Conns
<1> budget.opens \in Nat /\ budget.notes \in Nat /\ MaxQueued \in Nat
  BY Bounds DEF TypeOK, ClientTyped
<1> (\A h \in 1..generation : h \in Conns) /\ generation \in Nat /\ Conns = 1..budget.opens
  BY DEF TypeOK, ClientTyped, Conns
<1>1. ASSUME NEW c \in Callers, Connect(c) PROVE Fresh'
  BY <1>1 DEF Connect, StartOpening, CanOpen, Fresh, TypeOK, ClientTyped, BooksTyped, LoopsTyped
<1>2. ASSUME NEW c \in Callers, ConnectReturns(c) PROVE Fresh'
  BY <1>2 DEF ConnectReturns, Fresh, TypeOK, ClientTyped, BooksTyped, LoopsTyped
<1>3. ASSUME NEW c \in Callers, Request(c) PROVE Fresh'
  BY <1>3 DEF Request, Fresh, TypeOK, ClientTyped, BooksTyped, LoopsTyped
<1>4. ASSUME NEW c \in Callers, ConnectionGeneration(c) PROVE Fresh'
  BY <1>4 DEF ConnectionGeneration, Fresh, TypeOK, ClientTyped, BooksTyped, LoopsTyped
<1>5. ASSUME NEW c \in Callers, RequestOnConnection(c) PROVE Fresh'
  BY <1>5 DEF RequestOnConnection, Fresh, TypeOK, ClientTyped, BooksTyped, LoopsTyped
<1>6. ASSUME NEW c \in Callers, Broadcast(c) PROVE Fresh'
  BY <1>6 DEF Broadcast, Fresh, TypeOK, ClientTyped, BooksTyped, LoopsTyped
<1>7. ASSUME NEW a \in Procs, DeadlinePasses(a) PROVE Fresh'
  BY <1>7 DEF DeadlinePasses, Fresh, TypeOK, ClientTyped, BooksTyped, LoopsTyped
<1>8. ASSUME NEW a \in Procs, Register(a) PROVE Fresh'
  <2>1. on[a] \in Conns /\ on[a] \in 1..generation
    BY <1>8, OnConn DEF Register
  <2>2. \A h \in Conns : h > generation => pending'[h] = pending[h]
    BY <1>8, <2>1 DEF Register, TypeOK, BooksTyped
  <2> QED BY <1>8, <2>2 DEF Register, Fresh
<1>9. ASSUME NEW a \in Procs, Enqueue(a) PROVE Fresh'
  <2>1. EnqueueEffect(a) /\ UNCHANGED <<generation, pending, failed, hand, wpc, rpc, received>>
    BY <1>9, EnqueueEffects DEF Enqueue
  <2>2. CASE UNCHANGED <<writes, queued>>
    BY <2>1, <2>2 DEF Fresh, TypeOK, ClientTyped, BooksTyped, LoopsTyped
  <2>3. CASE PutEffect(on[a], IF Broadcasts(a) THEN Note ELSE a)
    BY <2>1, <2>3 DEF EnqueueEffect, PutEffect, Fresh, TypeOK, ClientTyped, BooksTyped, LoopsTyped
  <2> QED BY <2>1, <2>2, <2>3 DEF EnqueueEffect
<1>10. ASSUME NEW a \in Procs, CallReturns(a) PROVE Fresh'
  BY <1>10 DEF CallReturns, Fresh, TypeOK, ClientTyped, BooksTyped, LoopsTyped
<1>11. ASSUME NEW a \in Procs, Leave(a) PROVE Fresh'
  <2>1. on[a] \in Conns /\ on[a] \in 1..generation
    BY <1>11, OnConn DEF Leave
  <2> QED BY <1>11, <2>1 DEF Leave, AfterLeave, Fresh, TypeOK, ClientTyped, BooksTyped, LoopsTyped
<1>12. CASE SomebodyConnects
  BY <1>12 DEF SomebodyConnects, StartOpening, CanOpen, Fresh, TypeOK, ClientTyped, BooksTyped, LoopsTyped
<1>13. CASE BackoffPasses
  BY <1>13 DEF BackoffPasses, Fresh, TypeOK, ClientTyped, BooksTyped, LoopsTyped
<1>14. CASE Dial
  BY <1>14 DEF Dial, Fresh, TypeOK, ClientTyped, BooksTyped, LoopsTyped
<1>15. CASE Install
  BY <1>15 DEF Install, InstallIt, Fresh, TypeOK, ClientTyped, BooksTyped, LoopsTyped
<1>16. CASE Identify
  BY <1>16 DEF Identify, Fresh, TypeOK, ClientTyped, BooksTyped, LoopsTyped
<1>17. CASE Finish
  BY <1>17 DEF Finish, Publish, Fresh, TypeOK, ClientTyped, BooksTyped, LoopsTyped
<1>18. CASE Close
  BY <1>18 DEF Close, Fresh, TypeOK, ClientTyped, BooksTyped, LoopsTyped
<1>19. ASSUME NEW a \in Procs \cup {Owner}, Closes(a) PROVE Fresh'
  <2>1. ClosesEffect(a)
    BY <1>19, ClosesEffects
  <2>2. UNCHANGED books \/ (on[a] \in Conns /\ on[a] \in 1..generation /\ ClosedBooks(on[a]))
    BY <2>1, CloseBooks DEF ClosesEffect, TypeOK
  <2>3. UNCHANGED <<generation, hand, wpc, rpc, received>>
    BY <1>19 DEF Closes
  <2> QED BY <2>2, <2>3 DEF ClosedBooks, Fresh, TypeOK, ClientTyped, BooksTyped, LoopsTyped
<1>20. ASSUME NEW a \in Procs \cup {Owner}, HasClosed(a) PROVE Fresh'
  BY <1>20 DEF HasClosed, AfterClose, AfterError, Broadcasts, Fresh, TypeOK, ClientTyped, BooksTyped, LoopsTyped
<1>21. ASSUME NEW g \in Conns, OnClose(g) PROVE Fresh'
  BY <1>21 DEF OnClose, Fresh, TypeOK, ClientTyped, BooksTyped, LoopsTyped
<1>22. ASSUME NEW g \in Conns, OnClosed(g) PROVE Fresh'
  BY <1>22 DEF OnClosed, Fresh, TypeOK, ClientTyped, BooksTyped, LoopsTyped
<1>23. ASSUME NEW g \in Conns, WriterTakes(g) PROVE Fresh'
  <2>1. TakeEffect(g)
    BY <1>23, TakeEffects
  <2> QED BY <1>23, <2>1 DEF WriterTakes, TakeEffect, Fresh, TypeOK, ClientTyped, BooksTyped, LoopsTyped
<1>24. ASSUME NEW g \in Conns, WriterChecks(g) PROVE Fresh'
  BY <1>24 DEF WriterChecks, Written, Fresh, TypeOK, ClientTyped, BooksTyped, LoopsTyped
<1>25. ASSUME NEW g \in Conns, WriterWrites(g) PROVE Fresh'
  BY <1>25 DEF WriterWrites, Written, WireClosed, Fresh, TypeOK, ClientTyped, BooksTyped, LoopsTyped
<1>26. ASSUME NEW g \in Conns, WriterFails(g) PROVE Fresh'
  <2>1. BooksOrClose(g)
    BY <1>26, LoopCloses
  <2>2. (failed[g] /\ UNCHANGED books) \/ ClosedBooks(g)
    BY <2>1, CloseBooks DEF BooksOrClose, TypeOK
  <2> QED BY <1>26, <2>2 DEF WriterFails, ReaderEnds, Written, ClosedBooks, Fresh, TypeOK, ClientTyped, BooksTyped, LoopsTyped
<1>27. ASSUME NEW g \in Conns, WriterFinishes(g) PROVE Fresh'
  BY <1>27 DEF WriterFinishes, Written, Unaccount, Fresh, TypeOK, ClientTyped, BooksTyped, LoopsTyped
<1>28. ASSUME NEW g \in Conns, NEW a \in Procs, ReaderAnswers(g, a) PROVE Fresh'
  <2>1. AnswerEffect(g, a)
    BY <1>28, AnswerEffects
  <2> QED BY <1>28, <2>1 DEF ReaderAnswers, AnswerEffect, Fresh, TypeOK, ClientTyped, BooksTyped, LoopsTyped
<1>29. ASSUME NEW g \in Conns, ReaderDiscovers(g) PROVE Fresh'
  <2>1. DiscoverEffect(g)
    BY <1>29, DiscoverEffects
  <2>2. rpc[g] = "read" /\ ~failed[g] /\ UNCHANGED <<generation, hand, wpc, received>>
        /\ (rpc' = rpc \/ rpc' = [rpc EXCEPT ![g] = "done"])
    BY <1>29 DEF ReaderDiscovers
  <2>3. CASE CloseEffect(g)
    <3>1. ClosedBooks(g)
      BY <2>3, CloseBooks DEF TypeOK
    <3> QED BY <2>2, <3>1 DEF ClosedBooks, Fresh, TypeOK, ClientTyped, BooksTyped, LoopsTyped
  <2>4. CASE PutEffect(g, Note) /\ UNCHANGED <<rpc, pending, failed, stage, replies>>
    BY <2>2, <2>4 DEF PutEffect, Fresh, TypeOK, ClientTyped, BooksTyped, LoopsTyped
  <2> QED BY <2>1, <2>3, <2>4 DEF DiscoverEffect
<1>30. ASSUME NEW g \in Conns, ReaderEnds(g) PROVE Fresh'
  <2>1. BooksOrClose(g)
    BY <1>30, LoopCloses
  <2>2. (failed[g] /\ UNCHANGED books) \/ ClosedBooks(g)
    BY <2>1, CloseBooks DEF BooksOrClose, TypeOK
  <2> QED BY <1>30, <2>2 DEF WriterFails, ReaderEnds, Written, ClosedBooks, Fresh, TypeOK, ClientTyped, BooksTyped, LoopsTyped
<1> QED BY <1>1, <1>2, <1>3, <1>4, <1>5, <1>6, <1>7, <1>8, <1>9, <1>10, <1>11, <1>12, <1>13, <1>14, <1>15, <1>16,
    <1>17, <1>18, <1>19, <1>20, <1>21, <1>22, <1>23, <1>24, <1>25, <1>26, <1>27, <1>28, <1>29, <1>30
    DEF Next, Step, Begin, CallerStep, Waiting, OpenerStep, CloseStep, ExchangeStep, WriterStep

(* ... and a failed one drained.                                            *)
LEMMA DrainedStep == ASSUME ClientInv, Next PROVE Drained'
<1> USE Distinct DEF client, call, loops, books, env, Goto
<1> /\ TypeOK /\ Openings /\ Sockets /\ Losses /\ Closing /\ Users /\ Fresh /\ Drained /\ Hands
    /\ Queues /\ Calling /\ OpsAt /\ Sent /\ Bindings
  BY DEF ClientInv
<1> budget' = budget /\ Conns' = Conns
  BY DEF Next, Conns
<1> budget.opens \in Nat /\ budget.notes \in Nat /\ MaxQueued \in Nat
  BY Bounds DEF TypeOK, ClientTyped
<1> (\A h \in 1..generation : h \in Conns) /\ generation \in Nat /\ Conns = 1..budget.opens
  BY DEF TypeOK, ClientTyped, Conns
<1>1. ASSUME NEW c \in Callers, Connect(c) PROVE Drained'
  BY <1>1 DEF Connect, StartOpening, CanOpen, Drained, TypeOK, ClientTyped, BooksTyped
<1>2. ASSUME NEW c \in Callers, ConnectReturns(c) PROVE Drained'
  BY <1>2 DEF ConnectReturns, Drained, TypeOK, ClientTyped, BooksTyped
<1>3. ASSUME NEW c \in Callers, Request(c) PROVE Drained'
  BY <1>3 DEF Request, Drained, TypeOK, ClientTyped, BooksTyped
<1>4. ASSUME NEW c \in Callers, ConnectionGeneration(c) PROVE Drained'
  BY <1>4 DEF ConnectionGeneration, Drained, TypeOK, ClientTyped, BooksTyped
<1>5. ASSUME NEW c \in Callers, RequestOnConnection(c) PROVE Drained'
  BY <1>5 DEF RequestOnConnection, Drained, TypeOK, ClientTyped, BooksTyped
<1>6. ASSUME NEW c \in Callers, Broadcast(c) PROVE Drained'
  BY <1>6 DEF Broadcast, Drained, TypeOK, ClientTyped, BooksTyped
<1>7. ASSUME NEW a \in Procs, DeadlinePasses(a) PROVE Drained'
  BY <1>7 DEF DeadlinePasses, Drained, TypeOK, ClientTyped, BooksTyped
<1>8. ASSUME NEW a \in Procs, Register(a) PROVE Drained'
  <2>1. on[a] \in Conns /\ on[a] \in 1..generation
    BY <1>8, OnConn DEF Register
  <2> QED BY <1>8, <2>1 DEF Register, AfterCall, Drained, TypeOK, ClientTyped, BooksTyped
<1>9. ASSUME NEW a \in Procs, Enqueue(a) PROVE Drained'
  <2>1. EnqueueEffect(a)
    BY <1>9, EnqueueEffects
  <2> QED BY <1>9, <2>1
      DEF Enqueue, AfterError, AfterEnqueue, Broadcasts, EnqueueEffect, PutEffect, Drained, TypeOK, ClientTyped,
          BooksTyped
<1>10. ASSUME NEW a \in Procs, CallReturns(a) PROVE Drained'
  BY <1>10 DEF CallReturns, Drained, TypeOK, ClientTyped, BooksTyped
<1>11. ASSUME NEW a \in Procs, Leave(a) PROVE Drained'
  <2>1. on[a] \in Conns /\ on[a] \in 1..generation
    BY <1>11, OnConn DEF Leave
  <2> QED BY <1>11, <2>1 DEF Leave, AfterLeave, Drained, TypeOK, ClientTyped, BooksTyped
<1>12. CASE SomebodyConnects
  BY <1>12 DEF SomebodyConnects, StartOpening, CanOpen, Drained, TypeOK, ClientTyped, BooksTyped
<1>13. CASE BackoffPasses
  BY <1>13 DEF BackoffPasses, Drained, TypeOK, ClientTyped, BooksTyped
<1>14. CASE Dial
  BY <1>14 DEF Dial, Drained, TypeOK, ClientTyped, BooksTyped
<1>15. CASE Install
  BY <1>15 DEF Install, InstallIt, Drained, TypeOK, ClientTyped, BooksTyped
<1>16. CASE Identify
  BY <1>16 DEF Identify, Drained, TypeOK, ClientTyped, BooksTyped
<1>17. CASE Finish
  BY <1>17 DEF Finish, Publish, Drained, TypeOK, ClientTyped, BooksTyped
<1>18. CASE Close
  BY <1>18 DEF Close, Drained, TypeOK, ClientTyped, BooksTyped
<1>19. ASSUME NEW a \in Procs \cup {Owner}, Closes(a) PROVE Drained'
  <2>1. ClosesEffect(a)
    BY <1>19, ClosesEffects
  <2>2. UNCHANGED books \/ (on[a] \in Conns /\ on[a] \in 1..generation /\ ClosedBooks(on[a]))
    BY <2>1, CloseBooks DEF ClosesEffect, TypeOK
  <2>3. UNCHANGED <<generation, hand, wpc, rpc, received>>
    BY <1>19 DEF Closes
  <2> QED BY <2>2, <2>3 DEF ClosedBooks, Drained, TypeOK, ClientTyped, BooksTyped
<1>20. ASSUME NEW a \in Procs \cup {Owner}, HasClosed(a) PROVE Drained'
  BY <1>20 DEF HasClosed, AfterClose, AfterError, Broadcasts, Drained, TypeOK, ClientTyped, BooksTyped
<1>21. ASSUME NEW g \in Conns, OnClose(g) PROVE Drained'
  BY <1>21 DEF OnClose, Drained, TypeOK, ClientTyped, BooksTyped
<1>22. ASSUME NEW g \in Conns, OnClosed(g) PROVE Drained'
  BY <1>22 DEF OnClosed, Drained, TypeOK, ClientTyped, BooksTyped
<1>23. ASSUME NEW g \in Conns, WriterTakes(g) PROVE Drained'
  <2>1. TakeEffect(g)
    BY <1>23, TakeEffects
  <2> QED BY <1>23, <2>1 DEF WriterTakes, TakeEffect, Drained, TypeOK, ClientTyped, BooksTyped
<1>24. ASSUME NEW g \in Conns, WriterChecks(g) PROVE Drained'
  BY <1>24 DEF WriterChecks, Written, Drained, TypeOK, ClientTyped, BooksTyped
<1>25. ASSUME NEW g \in Conns, WriterWrites(g) PROVE Drained'
  BY <1>25 DEF WriterWrites, Written, WireClosed, Drained, TypeOK, ClientTyped, BooksTyped
<1>26. ASSUME NEW g \in Conns, WriterFails(g) PROVE Drained'
  <2>1. BooksOrClose(g)
    BY <1>26, LoopCloses
  <2>2. (failed[g] /\ UNCHANGED books) \/ ClosedBooks(g)
    BY <2>1, CloseBooks DEF BooksOrClose, TypeOK
  <2> QED BY <1>26, <2>2 DEF WriterFails, ReaderEnds, Written, ClosedBooks, Drained, TypeOK, ClientTyped, BooksTyped
<1>27. ASSUME NEW g \in Conns, WriterFinishes(g) PROVE Drained'
  BY <1>27 DEF WriterFinishes, Written, Unaccount, Drained, TypeOK, ClientTyped, BooksTyped
<1>28. ASSUME NEW g \in Conns, NEW a \in Procs, ReaderAnswers(g, a) PROVE Drained'
  <2>1. AnswerEffect(g, a)
    BY <1>28, AnswerEffects
  <2> QED BY <1>28, <2>1 DEF ReaderAnswers, AnswerEffect, Drained, TypeOK, ClientTyped, BooksTyped
<1>29. ASSUME NEW g \in Conns, ReaderDiscovers(g) PROVE Drained'
  <2>1. DiscoverEffect(g)
    BY <1>29, DiscoverEffects
  <2>2. rpc[g] = "read" /\ ~failed[g] /\ UNCHANGED <<generation, hand, wpc, received>>
        /\ (rpc' = rpc \/ rpc' = [rpc EXCEPT ![g] = "done"])
    BY <1>29 DEF ReaderDiscovers
  <2>3. CASE CloseEffect(g)
    <3>1. ClosedBooks(g)
      BY <2>3, CloseBooks DEF TypeOK
    <3> QED BY <2>2, <3>1 DEF ClosedBooks, Drained, TypeOK, ClientTyped, BooksTyped
  <2>4. CASE PutEffect(g, Note) /\ UNCHANGED <<rpc, pending, failed, stage, replies>>
    BY <2>2, <2>4 DEF PutEffect, Drained, TypeOK, ClientTyped, BooksTyped
  <2> QED BY <2>1, <2>3, <2>4 DEF DiscoverEffect
<1>30. ASSUME NEW g \in Conns, ReaderEnds(g) PROVE Drained'
  <2>1. BooksOrClose(g)
    BY <1>30, LoopCloses
  <2>2. (failed[g] /\ UNCHANGED books) \/ ClosedBooks(g)
    BY <2>1, CloseBooks DEF BooksOrClose, TypeOK
  <2> QED BY <1>30, <2>2 DEF WriterFails, ReaderEnds, Written, ClosedBooks, Drained, TypeOK, ClientTyped, BooksTyped
<1> QED BY <1>1, <1>2, <1>3, <1>4, <1>5, <1>6, <1>7, <1>8, <1>9, <1>10, <1>11, <1>12, <1>13, <1>14, <1>15, <1>16,
    <1>17, <1>18, <1>19, <1>20, <1>21, <1>22, <1>23, <1>24, <1>25, <1>26, <1>27, <1>28, <1>29, <1>30
    DEF Next, Step, Begin, CallerStep, Waiting, OpenerStep, CloseStep, ExchangeStep, WriterStep

(* The writer knows what it holds.                                          *)
LEMMA HandsStep == ASSUME ClientInv, Next PROVE Hands'
<1> USE Distinct DEF client, call, loops, books, env, Goto
<1> /\ TypeOK /\ Openings /\ Sockets /\ Losses /\ Closing /\ Users /\ Fresh /\ Drained /\ Hands
    /\ Queues /\ Calling /\ OpsAt /\ Sent /\ Bindings
  BY DEF ClientInv
<1> budget' = budget /\ Conns' = Conns
  BY DEF Next, Conns
<1> budget.opens \in Nat /\ budget.notes \in Nat /\ MaxQueued \in Nat
  BY Bounds DEF TypeOK, ClientTyped
<1> (\A h \in 1..generation : h \in Conns) /\ generation \in Nat /\ Conns = 1..budget.opens
  BY DEF TypeOK, ClientTyped, Conns
<1>1. ASSUME NEW c \in Callers, Connect(c) PROVE Hands'
  BY <1>1 DEF Connect, StartOpening, CanOpen, Hands, TypeOK, LoopsTyped
<1>2. ASSUME NEW c \in Callers, ConnectReturns(c) PROVE Hands'
  BY <1>2 DEF ConnectReturns, Hands, TypeOK, LoopsTyped
<1>3. ASSUME NEW c \in Callers, Request(c) PROVE Hands'
  BY <1>3 DEF Request, Hands, TypeOK, LoopsTyped
<1>4. ASSUME NEW c \in Callers, ConnectionGeneration(c) PROVE Hands'
  BY <1>4 DEF ConnectionGeneration, Hands, TypeOK, LoopsTyped
<1>5. ASSUME NEW c \in Callers, RequestOnConnection(c) PROVE Hands'
  BY <1>5 DEF RequestOnConnection, Hands, TypeOK, LoopsTyped
<1>6. ASSUME NEW c \in Callers, Broadcast(c) PROVE Hands'
  BY <1>6 DEF Broadcast, Hands, TypeOK, LoopsTyped
<1>7. ASSUME NEW a \in Procs, DeadlinePasses(a) PROVE Hands'
  BY <1>7 DEF DeadlinePasses, Hands, TypeOK, LoopsTyped
<1>8. ASSUME NEW a \in Procs, Register(a) PROVE Hands'
  BY <1>8 DEF Register, Hands
<1>9. ASSUME NEW a \in Procs, Enqueue(a) PROVE Hands'
  BY <1>9 DEF Enqueue, Hands
<1>10. ASSUME NEW a \in Procs, CallReturns(a) PROVE Hands'
  BY <1>10 DEF CallReturns, Hands, TypeOK, LoopsTyped
<1>11. ASSUME NEW a \in Procs, Leave(a) PROVE Hands'
  BY <1>11 DEF Leave, Hands
<1>12. CASE SomebodyConnects
  BY <1>12 DEF SomebodyConnects, StartOpening, CanOpen, Hands, TypeOK, LoopsTyped
<1>13. CASE BackoffPasses
  BY <1>13 DEF BackoffPasses, Hands, TypeOK, LoopsTyped
<1>14. CASE Dial
  BY <1>14 DEF Dial, Hands, TypeOK, LoopsTyped
<1>15. CASE Install
  <2>1. UNCHANGED hand
    BY <1>15 DEF Install
  <2>2. CASE UNCHANGED wpc
    BY <2>1, <2>2 DEF Hands
  <2>3. CASE wpc' = [wpc EXCEPT ![generation + 1] = "loop"]
    <3>1. generation + 1 \in Conns => hand[generation + 1] = None
      BY DEF Fresh
    <3> QED BY <2>1, <2>3, <3>1 DEF Hands, TypeOK, LoopsTyped
  <2> QED BY <1>15, <2>2, <2>3 DEF Install, InstallIt
<1>16. CASE Identify
  BY <1>16 DEF Identify, Hands, TypeOK, LoopsTyped
<1>17. CASE Finish
  BY <1>17 DEF Finish, Publish, Hands, TypeOK, LoopsTyped
<1>18. CASE Close
  BY <1>18 DEF Close, Hands, TypeOK, LoopsTyped
<1>19. ASSUME NEW a \in Procs \cup {Owner}, Closes(a) PROVE Hands'
  BY <1>19 DEF Closes, Hands
<1>20. ASSUME NEW a \in Procs \cup {Owner}, HasClosed(a) PROVE Hands'
  BY <1>20 DEF HasClosed, AfterClose, AfterError, Broadcasts, Hands, TypeOK, LoopsTyped
<1>21. ASSUME NEW g \in Conns, OnClose(g) PROVE Hands'
  BY <1>21 DEF OnClose, Hands, TypeOK, LoopsTyped
<1>22. ASSUME NEW g \in Conns, OnClosed(g) PROVE Hands'
  BY <1>22 DEF OnClosed, Hands, TypeOK, LoopsTyped
<1>23. ASSUME NEW g \in Conns, WriterTakes(g) PROVE Hands'
  <2>1. TakeEffect(g)
    BY <1>23, TakeEffects
  <2> QED BY <1>23, <2>1 DEF WriterTakes, TakeEffect, Hands, TypeOK, LoopsTyped
<1>24. ASSUME NEW g \in Conns, WriterChecks(g) PROVE Hands'
  BY <1>24 DEF WriterChecks, Written, Hands, TypeOK, LoopsTyped
<1>25. ASSUME NEW g \in Conns, WriterWrites(g) PROVE Hands'
  BY <1>25 DEF WriterWrites, Written, WireClosed, Hands, TypeOK, LoopsTyped
<1>26. ASSUME NEW g \in Conns, WriterFails(g) PROVE Hands'
  BY <1>26 DEF WriterFails, Written, Hands, TypeOK, LoopsTyped
<1>27. ASSUME NEW g \in Conns, WriterFinishes(g) PROVE Hands'
  BY <1>27 DEF WriterFinishes, Written, Unaccount, Hands, TypeOK, LoopsTyped
<1>28. ASSUME NEW g \in Conns, NEW a \in Procs, ReaderAnswers(g, a) PROVE Hands'
  <2>1. AnswerEffect(g, a)
    BY <1>28, AnswerEffects
  <2> QED BY <1>28, <2>1 DEF ReaderAnswers, AnswerEffect, Hands, TypeOK, LoopsTyped
<1>29. ASSUME NEW g \in Conns, ReaderDiscovers(g) PROVE Hands'
  BY <1>29 DEF ReaderDiscovers, Hands
<1>30. ASSUME NEW g \in Conns, ReaderEnds(g) PROVE Hands'
  BY <1>30 DEF ReaderEnds, Hands
<1> QED BY <1>1, <1>2, <1>3, <1>4, <1>5, <1>6, <1>7, <1>8, <1>9, <1>10, <1>11, <1>12, <1>13, <1>14, <1>15, <1>16,
    <1>17, <1>18, <1>19, <1>20, <1>21, <1>22, <1>23, <1>24, <1>25, <1>26, <1>27, <1>28, <1>29, <1>30
    DEF Next, Step, Begin, CallerStep, Waiting, OpenerStep, CloseStep, ExchangeStep, WriterStep

(* The queued bytes are exact.                                              *)
LEMMA QueuesStep == ASSUME ClientInv, Next PROVE Queues'
<1> USE Distinct DEF client, call, loops, books, env, Goto
<1> /\ TypeOK /\ Openings /\ Sockets /\ Losses /\ Closing /\ Users /\ Fresh /\ Drained /\ Hands
    /\ Queues /\ Calling /\ OpsAt /\ Sent /\ Bindings
  BY DEF ClientInv
<1> budget' = budget /\ Conns' = Conns
  BY DEF Next, Conns
<1> budget.opens \in Nat /\ budget.notes \in Nat /\ MaxQueued \in Nat
  BY Bounds DEF TypeOK, ClientTyped
<1> (\A h \in 1..generation : h \in Conns) /\ generation \in Nat /\ Conns = 1..budget.opens
  BY DEF TypeOK, ClientTyped, Conns
<1>1. ASSUME NEW c \in Callers, Connect(c) PROVE Queues'
  BY <1>1 DEF Connect, StartOpening, CanOpen, Queues, TypeOK, BooksTyped
<1>2. ASSUME NEW c \in Callers, ConnectReturns(c) PROVE Queues'
  BY <1>2 DEF ConnectReturns, Queues, TypeOK, BooksTyped
<1>3. ASSUME NEW c \in Callers, Request(c) PROVE Queues'
  BY <1>3 DEF Request, Queues, TypeOK, BooksTyped
<1>4. ASSUME NEW c \in Callers, ConnectionGeneration(c) PROVE Queues'
  BY <1>4 DEF ConnectionGeneration, Queues, TypeOK, BooksTyped
<1>5. ASSUME NEW c \in Callers, RequestOnConnection(c) PROVE Queues'
  BY <1>5 DEF RequestOnConnection, Queues, TypeOK, BooksTyped
<1>6. ASSUME NEW c \in Callers, Broadcast(c) PROVE Queues'
  BY <1>6 DEF Broadcast, Queues, TypeOK, BooksTyped
<1>7. ASSUME NEW a \in Procs, DeadlinePasses(a) PROVE Queues'
  BY <1>7 DEF DeadlinePasses, Queues, TypeOK, BooksTyped
<1>8. ASSUME NEW a \in Procs, Register(a) PROVE Queues'
  BY <1>8 DEF Register, Queues
<1>9. ASSUME NEW a \in Procs, Enqueue(a) PROVE Queues'
  <2>1. EnqueueEffect(a) /\ UNCHANGED <<failed, hand>>
    BY <1>9, EnqueueEffects DEF Enqueue
  <2>2. CASE UNCHANGED <<writes, queued>>
    BY <2>1, <2>2 DEF Queues
  <2>3. CASE PutEffect(on[a], IF Broadcasts(a) THEN Note ELSE a)
    <3>1. ASSUME NEW h \in Conns, ~failed'[h]
          PROVE  \/ hand'[h] = None /\ queued'[h] = Len(writes'[h])
                 \/ hand'[h] # None /\ queued'[h] = Len(writes'[h]) + 1
      <4>0. writes[h] \in Seq(Procs \cup {Note}) /\ queued[h] \in 0..MaxQueued
        BY DEF TypeOK, BooksTyped
      <4>1. Len(writes[h]) \in Nat /\ queued[h] \in Nat
        BY <4>0
      <4>2. CASE h = on[a]
        BY <2>1, <2>3, <3>1, <4>1, <4>2 DEF PutEffect, Queues, EnqueueEffect, TypeOK, BooksTyped
      <4>3. CASE h # on[a]
        BY <2>1, <2>3, <3>1, <4>1, <4>3 DEF PutEffect, Queues, EnqueueEffect, TypeOK, BooksTyped
      <4> QED BY <4>2, <4>3
    <3> QED BY <3>1 DEF Queues
  <2> QED BY <2>1, <2>2, <2>3 DEF EnqueueEffect
<1>10. ASSUME NEW a \in Procs, CallReturns(a) PROVE Queues'
  BY <1>10 DEF CallReturns, Queues, TypeOK, BooksTyped
<1>11. ASSUME NEW a \in Procs, Leave(a) PROVE Queues'
  BY <1>11 DEF Leave, Queues
<1>12. CASE SomebodyConnects
  BY <1>12 DEF SomebodyConnects, StartOpening, CanOpen, Queues, TypeOK, BooksTyped
<1>13. CASE BackoffPasses
  BY <1>13 DEF BackoffPasses, Queues, TypeOK, BooksTyped
<1>14. CASE Dial
  BY <1>14 DEF Dial, Queues, TypeOK, BooksTyped
<1>15. CASE Install
  BY <1>15 DEF Install, InstallIt, Queues, TypeOK, BooksTyped
<1>16. CASE Identify
  BY <1>16 DEF Identify, Queues, TypeOK, BooksTyped
<1>17. CASE Finish
  BY <1>17 DEF Finish, Publish, Queues, TypeOK, BooksTyped
<1>18. CASE Close
  BY <1>18 DEF Close, Queues, TypeOK, BooksTyped
<1>19. ASSUME NEW a \in Procs \cup {Owner}, Closes(a) PROVE Queues'
  <2>1. ClosesEffect(a)
    BY <1>19, ClosesEffects
  <2>2. UNCHANGED books \/ (on[a] \in Conns /\ on[a] \in 1..generation /\ ClosedBooks(on[a]))
    BY <2>1, CloseBooks DEF ClosesEffect, TypeOK
  <2>3. UNCHANGED <<generation, hand, wpc, rpc, received>>
    BY <1>19 DEF Closes
  <2> QED BY <2>2, <2>3 DEF ClosedBooks, Queues
<1>20. ASSUME NEW a \in Procs \cup {Owner}, HasClosed(a) PROVE Queues'
  BY <1>20 DEF HasClosed, AfterClose, AfterError, Broadcasts, Queues, TypeOK, BooksTyped
<1>21. ASSUME NEW g \in Conns, OnClose(g) PROVE Queues'
  BY <1>21 DEF OnClose, Queues, TypeOK, BooksTyped
<1>22. ASSUME NEW g \in Conns, OnClosed(g) PROVE Queues'
  BY <1>22 DEF OnClosed, Queues, TypeOK, BooksTyped
<1>23. ASSUME NEW g \in Conns, WriterTakes(g) PROVE Queues'
  <2>1. TakeEffect(g) /\ UNCHANGED <<queued, failed>> /\ hand[g] = None
    BY <1>23, TakeEffects DEF WriterTakes, Hands
  <2>2. CASE UNCHANGED <<writes, hand>>
    BY <2>1, <2>2 DEF Queues
  <2>3. CASE ~UNCHANGED <<writes, hand>>
    <3>1. PICK p \in Procs \cup {Note} :
            /\ hand' = [hand EXCEPT ![g] = p]
            /\ Len(writes'[g]) = Len(writes[g]) - 1 /\ Len(writes[g]) \in Nat
            /\ \A h \in Conns : h # g => writes'[h] = writes[h]
      BY <2>1, <2>3 DEF TakeEffect
    <3>2. hand'[g] # None /\ \A h \in Conns : h # g => hand'[h] = hand[h]
      BY <3>1 DEF TypeOK, LoopsTyped
    <3>3. ~failed[g] => queued[g] = Len(writes'[g]) + 1
      BY <2>1, <3>1 DEF Queues
    <3> QED BY <2>1, <3>1, <3>2, <3>3 DEF Queues
  <2> QED BY <2>2, <2>3
<1>24. ASSUME NEW g \in Conns, WriterChecks(g) PROVE Queues'
  BY <1>24 DEF WriterChecks, Written, Queues, TypeOK, BooksTyped
<1>25. ASSUME NEW g \in Conns, WriterWrites(g) PROVE Queues'
  BY <1>25 DEF WriterWrites, Written, WireClosed, Queues, TypeOK, BooksTyped
<1>26. ASSUME NEW g \in Conns, WriterFails(g) PROVE Queues'
  <2>1. BooksOrClose(g) /\ hand' = [hand EXCEPT ![g] = None]
    BY <1>26, LoopCloses DEF WriterFails
  <2>2. (failed[g] /\ UNCHANGED books) \/ ClosedBooks(g)
    BY <2>1, CloseBooks DEF BooksOrClose, TypeOK
  <2>3. \A h \in Conns : h # g => hand'[h] = hand[h]
    BY <2>1 DEF TypeOK, LoopsTyped
  <2> QED BY <2>2, <2>3 DEF ClosedBooks, Queues
<1>27. ASSUME NEW g \in Conns, WriterFinishes(g) PROVE Queues'
  <2>1. hand[g] # None /\ hand' = [hand EXCEPT ![g] = None] /\ UNCHANGED <<writes, failed>>
    BY <1>27 DEF WriterFinishes, Hands
  <2>2. queued' = [queued EXCEPT ![g] = IF failed[g] THEN queued[g] ELSE queued[g] - 1]
    BY <1>27 DEF WriterFinishes, Unaccount
  <2>3. hand'[g] = None /\ \A h \in Conns : h # g => hand'[h] = hand[h] /\ queued'[h] = queued[h]
    BY <2>1, <2>2 DEF TypeOK, LoopsTyped, BooksTyped
  <2>4. ~failed[g] => queued'[g] = Len(writes[g])
    <3>1. ~failed[g] => queued[g] = Len(writes[g]) + 1 /\ queued'[g] = queued[g] - 1 /\ Len(writes[g]) \in Nat
      BY <2>1, <2>2 DEF Queues, TypeOK, BooksTyped
    <3> QED BY <3>1
  <2> QED BY <2>1, <2>3, <2>4 DEF Queues
<1>28. ASSUME NEW g \in Conns, NEW a \in Procs, ReaderAnswers(g, a) PROVE Queues'
  <2>1. AnswerEffect(g, a)
    BY <1>28, AnswerEffects
  <2> QED BY <1>28, <2>1 DEF ReaderAnswers, AnswerEffect, Queues, TypeOK, BooksTyped
<1>29. ASSUME NEW g \in Conns, ReaderDiscovers(g) PROVE Queues'
  <2>1. DiscoverEffect(g) /\ UNCHANGED hand
    BY <1>29, DiscoverEffects DEF ReaderDiscovers
  <2>2. CASE CloseEffect(g)
    <3>1. ClosedBooks(g)
      BY <2>2, CloseBooks DEF TypeOK
    <3>2. UNCHANGED hand /\ failed'[g] /\ \A h \in Conns : h # g => /\ failed'[h] <=> failed[h]
                                                                   /\ queued'[h] = queued[h] /\ writes'[h] = writes[h]
      BY <2>1, <3>1 DEF ClosedBooks
    <3> QED BY <3>2 DEF Queues
  <2>3. CASE PutEffect(g, Note) /\ UNCHANGED failed
    <3>1. ASSUME NEW h \in Conns, ~failed'[h]
          PROVE  \/ hand'[h] = None /\ queued'[h] = Len(writes'[h])
                 \/ hand'[h] # None /\ queued'[h] = Len(writes'[h]) + 1
      <4>0. writes[h] \in Seq(Procs \cup {Note}) /\ queued[h] \in 0..MaxQueued
        BY DEF TypeOK, BooksTyped
      <4>1. Len(writes[h]) \in Nat /\ queued[h] \in Nat
        BY <4>0
      <4>2. CASE h = g
        BY <2>1, <2>3, <3>1, <4>1, <4>2 DEF PutEffect, Queues, TypeOK, BooksTyped
      <4>3. CASE h # g
        BY <2>1, <2>3, <3>1, <4>1, <4>3 DEF PutEffect, Queues, TypeOK, BooksTyped
      <4> QED BY <4>2, <4>3
    <3> QED BY <3>1 DEF Queues
  <2> QED BY <2>1, <2>2, <2>3 DEF DiscoverEffect
<1>30. ASSUME NEW g \in Conns, ReaderEnds(g) PROVE Queues'
  <2>1. BooksOrClose(g) /\ UNCHANGED hand
    BY <1>30, LoopCloses DEF ReaderEnds
  <2>2. (failed[g] /\ UNCHANGED books) \/ ClosedBooks(g)
    BY <2>1, CloseBooks DEF BooksOrClose, TypeOK
  <2> QED BY <2>1, <2>2 DEF ClosedBooks, Queues
<1> QED BY <1>1, <1>2, <1>3, <1>4, <1>5, <1>6, <1>7, <1>8, <1>9, <1>10, <1>11, <1>12, <1>13, <1>14, <1>15, <1>16,
    <1>17, <1>18, <1>19, <1>20, <1>21, <1>22, <1>23, <1>24, <1>25, <1>26, <1>27, <1>28, <1>29, <1>30
    DEF Next, Step, Begin, CallerStep, Waiting, OpenerStep, CloseStep, ExchangeStep, WriterStep

(* Each operation takes its own way.                                        *)
LEMMA OpsStep == ASSUME ClientInv, Next PROVE OpsAt'
<1> USE Distinct DEF client, call, loops, books, env, Goto
<1> /\ TypeOK /\ Openings /\ Sockets /\ Losses /\ Closing /\ Users /\ Fresh /\ Drained /\ Hands
    /\ Queues /\ Calling /\ OpsAt /\ Sent /\ Bindings
  BY DEF ClientInv
<1> budget' = budget /\ Conns' = Conns
  BY DEF Next, Conns
<1> budget.opens \in Nat /\ budget.notes \in Nat /\ MaxQueued \in Nat
  BY Bounds DEF TypeOK, ClientTyped
<1> (\A h \in 1..generation : h \in Conns) /\ generation \in Nat /\ Conns = 1..budget.opens
  BY DEF TypeOK, ClientTyped, Conns
<1>1. ASSUME NEW c \in Callers, Connect(c) PROVE OpsAt'
  BY <1>1 DEF Connect, StartOpening, CanOpen, OpsAt, TypeOK, CallsTyped
<1>2. ASSUME NEW c \in Callers, ConnectReturns(c) PROVE OpsAt'
  BY <1>2 DEF ConnectReturns, OpsAt, TypeOK, CallsTyped
<1>3. ASSUME NEW c \in Callers, Request(c) PROVE OpsAt'
  BY <1>3 DEF Request, OpsAt, TypeOK, CallsTyped
<1>4. ASSUME NEW c \in Callers, ConnectionGeneration(c) PROVE OpsAt'
  BY <1>4 DEF ConnectionGeneration, OpsAt, TypeOK, CallsTyped
<1>5. ASSUME NEW c \in Callers, RequestOnConnection(c) PROVE OpsAt'
  BY <1>5 DEF RequestOnConnection, OpsAt, TypeOK, CallsTyped
<1>6. ASSUME NEW c \in Callers, Broadcast(c) PROVE OpsAt'
  BY <1>6 DEF Broadcast, OpsAt, TypeOK, CallsTyped
<1>7. ASSUME NEW a \in Procs, DeadlinePasses(a) PROVE OpsAt'
  BY <1>7 DEF DeadlinePasses, OpsAt, TypeOK, CallsTyped
<1>8. ASSUME NEW a \in Procs, Register(a) PROVE OpsAt'
  <2>1. on[a] \in Conns /\ on[a] \in 1..generation
    BY <1>8, OnConn DEF Register
  <2> QED BY <1>8, <2>1 DEF Register, AfterCall, OpsAt, TypeOK, CallsTyped
<1>9. ASSUME NEW a \in Procs, Enqueue(a) PROVE OpsAt'
  <2>1. EnqueueEffect(a)
    BY <1>9, EnqueueEffects
  <2> QED BY <1>9, <2>1
      DEF Enqueue, AfterError, AfterEnqueue, Broadcasts, EnqueueEffect, PutEffect, OpsAt, TypeOK, CallsTyped
<1>10. ASSUME NEW a \in Procs, CallReturns(a) PROVE OpsAt'
  BY <1>10 DEF CallReturns, OpsAt, TypeOK, CallsTyped
<1>11. ASSUME NEW a \in Procs, Leave(a) PROVE OpsAt'
  <2>1. on[a] \in Conns /\ on[a] \in 1..generation
    BY <1>11, OnConn DEF Leave
  <2> QED BY <1>11, <2>1 DEF Leave, AfterLeave, OpsAt, TypeOK, CallsTyped
<1>12. CASE SomebodyConnects
  BY <1>12 DEF SomebodyConnects, StartOpening, CanOpen, OpsAt, TypeOK, CallsTyped
<1>13. CASE BackoffPasses
  BY <1>13 DEF BackoffPasses, OpsAt, TypeOK, CallsTyped
<1>14. CASE Dial
  BY <1>14 DEF Dial, OpsAt, TypeOK, CallsTyped
<1>15. CASE Install
  BY <1>15 DEF Install, InstallIt, OpsAt, TypeOK, CallsTyped
<1>16. CASE Identify
  BY <1>16 DEF Identify, OpsAt, TypeOK, CallsTyped
<1>17. CASE Finish
  BY <1>17 DEF Finish, Publish, OpsAt, TypeOK, CallsTyped
<1>18. CASE Close
  BY <1>18 DEF Close, OpsAt, TypeOK, CallsTyped
<1>19. ASSUME NEW a \in Procs \cup {Owner}, Closes(a) PROVE OpsAt'
  <2>1. ClosesEffect(a)
    BY <1>19, ClosesEffects
  <2> QED BY <1>19, <2>1
      DEF Closes, AfterClose, AfterError, Broadcasts, ClosesEffect, CloseEffect, OpsAt, TypeOK, CallsTyped
<1>20. ASSUME NEW a \in Procs \cup {Owner}, HasClosed(a) PROVE OpsAt'
  BY <1>20 DEF HasClosed, AfterClose, AfterError, Broadcasts, OpsAt, TypeOK, CallsTyped
<1>21. ASSUME NEW g \in Conns, OnClose(g) PROVE OpsAt'
  BY <1>21 DEF OnClose, OpsAt, TypeOK, CallsTyped
<1>22. ASSUME NEW g \in Conns, OnClosed(g) PROVE OpsAt'
  BY <1>22 DEF OnClosed, OpsAt, TypeOK, CallsTyped
<1>23. ASSUME NEW g \in Conns, WriterTakes(g) PROVE OpsAt'
  <2>1. TakeEffect(g)
    BY <1>23, TakeEffects
  <2> QED BY <1>23, <2>1 DEF WriterTakes, TakeEffect, OpsAt, TypeOK, CallsTyped
<1>24. ASSUME NEW g \in Conns, WriterChecks(g) PROVE OpsAt'
  BY <1>24 DEF WriterChecks, Written, OpsAt, TypeOK, CallsTyped
<1>25. ASSUME NEW g \in Conns, WriterWrites(g) PROVE OpsAt'
  BY <1>25 DEF WriterWrites, Written, WireClosed, OpsAt, TypeOK, CallsTyped
<1>26. ASSUME NEW g \in Conns, WriterFails(g) PROVE OpsAt'
  <2>1. BooksOrClose(g)
    BY <1>26, LoopCloses
  <2> QED BY <1>26, <2>1 DEF WriterFails, Written, BooksOrClose, CloseEffect, OpsAt, TypeOK, CallsTyped
<1>27. ASSUME NEW g \in Conns, WriterFinishes(g) PROVE OpsAt'
  BY <1>27 DEF WriterFinishes, Written, Unaccount, OpsAt, TypeOK, CallsTyped
<1>28. ASSUME NEW g \in Conns, NEW a \in Procs, ReaderAnswers(g, a) PROVE OpsAt'
  <2>1. AnswerEffect(g, a)
    BY <1>28, AnswerEffects
  <2> QED BY <1>28, <2>1 DEF ReaderAnswers, AnswerEffect, OpsAt, TypeOK, CallsTyped
<1>29. ASSUME NEW g \in Conns, ReaderDiscovers(g) PROVE OpsAt'
  <2>1. DiscoverEffect(g)
    BY <1>29, DiscoverEffects
  <2> QED BY <1>29, <2>1 DEF ReaderDiscovers, DiscoverEffect, PutEffect, CloseEffect, OpsAt, TypeOK, CallsTyped
<1>30. ASSUME NEW g \in Conns, ReaderEnds(g) PROVE OpsAt'
  <2>1. BooksOrClose(g)
    BY <1>30, LoopCloses
  <2> QED BY <1>30, <2>1 DEF ReaderEnds, BooksOrClose, CloseEffect, OpsAt, TypeOK, CallsTyped
<1> QED BY <1>1, <1>2, <1>3, <1>4, <1>5, <1>6, <1>7, <1>8, <1>9, <1>10, <1>11, <1>12, <1>13, <1>14, <1>15, <1>16,
    <1>17, <1>18, <1>19, <1>20, <1>21, <1>22, <1>23, <1>24, <1>25, <1>26, <1>27, <1>28, <1>29, <1>30
    DEF Next, Step, Begin, CallerStep, Waiting, OpenerStep, CloseStep, ExchangeStep, WriterStep

(* A registered call waits with an empty channel.                           *)
LEMMA CallingStep == ASSUME ClientInv, Next PROVE Calling'
<1> USE Distinct DEF client, call, loops, books, env, Goto
<1> /\ TypeOK /\ Openings /\ Sockets /\ Losses /\ Closing /\ Users /\ Fresh /\ Drained /\ Hands
    /\ Queues /\ Calling /\ OpsAt /\ Sent /\ Bindings
  BY DEF ClientInv
<1> budget' = budget /\ Conns' = Conns
  BY DEF Next, Conns
<1> budget.opens \in Nat /\ budget.notes \in Nat /\ MaxQueued \in Nat
  BY Bounds DEF TypeOK, ClientTyped
<1> (\A h \in 1..generation : h \in Conns) /\ generation \in Nat /\ Conns = 1..budget.opens
  BY DEF TypeOK, ClientTyped, Conns
<1>1. ASSUME NEW c \in Callers, Connect(c) PROVE Calling'
  <2>1. pc[c] = "idle" /\ UNCHANGED <<pending, replies, on, late>>
    BY <1>1 DEF Connect
  <2>2. \A b \in Procs : b # c => (Broadcasts(b)' => Broadcasts(b))
    BY <1>1 DEF Connect, Broadcasts, TypeOK, CallsTyped
  <2>3. \/ \A b \in Procs : b # c => pc'[b] = pc[b]
        \/ pc[Opener] = "idle" /\ \A b \in Procs : b # c /\ b # Opener => pc'[b] = pc[b]
    BY <1>1 DEF Connect, CanOpen, Openings, TypeOK, CallsTyped
  <2> QED BY <2>1, <2>2, <2>3, CallingStays DEF InCall
<1>2. ASSUME NEW c \in Callers, ConnectReturns(c) PROVE Calling'
  <2>1. pc[c] \notin InCall /\ UNCHANGED <<pending, replies>>
    BY <1>2 DEF ConnectReturns, InCall
  <2>2. \A b \in Procs : b # c => pc'[b] = pc[b] /\ on'[b] = on[b] /\ (b \in late => b \in late')
                                   /\ (Broadcasts(b)' => Broadcasts(b))
    BY <1>2 DEF ConnectReturns, Broadcasts, TypeOK, CallsTyped
  <2> QED BY <2>1, <2>2, CallingStays
<1>3. ASSUME NEW c \in Callers, Request(c) PROVE Calling'
  <2>1. pc[c] \notin InCall /\ UNCHANGED <<pending, replies>>
    BY <1>3 DEF Request, InCall
  <2>2. \A b \in Procs : b # c => pc'[b] = pc[b] /\ on'[b] = on[b] /\ (b \in late => b \in late')
                                   /\ (Broadcasts(b)' => Broadcasts(b))
    BY <1>3 DEF Request, Broadcasts, TypeOK, CallsTyped
  <2> QED BY <2>1, <2>2, CallingStays
<1>4. ASSUME NEW c \in Callers, ConnectionGeneration(c) PROVE Calling'
  <2>1. pc[c] \notin InCall /\ UNCHANGED <<pending, replies>>
    BY <1>4 DEF ConnectionGeneration, InCall
  <2>2. \A b \in Procs : b # c => pc'[b] = pc[b] /\ on'[b] = on[b] /\ (b \in late => b \in late')
                                   /\ (Broadcasts(b)' => Broadcasts(b))
    BY <1>4 DEF ConnectionGeneration, Broadcasts, TypeOK, CallsTyped
  <2> QED BY <2>1, <2>2, CallingStays
<1>5. ASSUME NEW c \in Callers, RequestOnConnection(c) PROVE Calling'
  <2>1. pc[c] \notin InCall /\ UNCHANGED <<pending, replies>>
    BY <1>5 DEF RequestOnConnection, InCall
  <2>2. \A b \in Procs : b # c => pc'[b] = pc[b] /\ on'[b] = on[b] /\ (b \in late => b \in late')
                                   /\ (Broadcasts(b)' => Broadcasts(b))
    BY <1>5 DEF RequestOnConnection, Broadcasts, TypeOK, CallsTyped
  <2> QED BY <2>1, <2>2, CallingStays
<1>6. ASSUME NEW c \in Callers, Broadcast(c) PROVE Calling'
  <2>1. pc[c] \notin InCall /\ UNCHANGED <<pending, replies>>
    BY <1>6 DEF Broadcast, InCall
  <2>2. \A b \in Procs : b # c => pc'[b] = pc[b] /\ on'[b] = on[b] /\ (b \in late => b \in late')
                                   /\ (Broadcasts(b)' => Broadcasts(b))
    BY <1>6 DEF Broadcast, Broadcasts, TypeOK, CallsTyped
  <2> QED BY <2>1, <2>2, CallingStays
<1>7. ASSUME NEW a \in Procs, DeadlinePasses(a) PROVE Calling'
  <2>1. UNCHANGED <<pc, on, op, pending, replies>> /\ late \subseteq late'
    BY <1>7 DEF DeadlinePasses
  <2> QED BY <2>1, CallingStays DEF Broadcasts
<1>8. ASSUME NEW a \in Procs, Register(a) PROVE Calling'
  <2>1. on[a] \in Conns /\ pc[a] = "register" /\ UNCHANGED <<on, late, op, replies>>
    BY <1>8, OnConn DEF Register
  <2>2. ~Broadcasts(a) /\ replies[a] = << >> /\ \A h \in Conns : a \notin pending[h]
    BY <2>1 DEF OpsAt, Broadcasts, Calling, Waits, InCall
  <2>3. CASE UNCHANGED pending
    <3>1. \A b \in Procs : b # a => pc'[b] = pc[b]
      BY <1>8 DEF Register, TypeOK, CallsTyped
    <3> QED BY <2>1, <2>3, <3>1, CallingStays DEF Broadcasts, InCall
  <2>4. CASE pc' = [pc EXCEPT ![a] = "enqueue"] /\ pending' = [pending EXCEPT ![on[a]] = pending[on[a]] \cup {a}]
    <3>1. pc'[a] = "enqueue" /\ \A b \in Procs : b # a => pc'[b] = pc[b]
      BY <2>4 DEF TypeOK, CallsTyped
    <3>2. /\ \A h \in Conns : a \in pending'[h] => h = on[a]
          /\ \A h \in Conns, b \in Procs : b # a => (b \in pending'[h] <=> b \in pending[h])
      BY <2>1, <2>2, <2>4 DEF TypeOK, BooksTyped
    <3>3. Waits(a)'
      BY <2>1, <2>2, <3>1, <3>2 DEF Waits, InCall, Broadcasts
    <3>4. ASSUME NEW b \in Procs, b # a PROVE Waits(b)'
      BY <2>1, <3>1, <3>2, <3>4 DEF Calling, Waits, Broadcasts
    <3> QED BY <3>3, <3>4 DEF Calling
  <2> QED BY <1>8, <2>3, <2>4 DEF Register
<1>9. ASSUME NEW a \in Procs, Enqueue(a) PROVE Calling'
  <2>1. EnqueueEffect(a) /\ UNCHANGED <<on, late, op, pending, replies>>
    BY <1>9, EnqueueEffects DEF Enqueue
  <2>2. \A b \in Procs : b # a => pc'[b] = pc[b]
    BY <1>9 DEF Enqueue, TypeOK, CallsTyped
  <2>3. /\ Broadcasts(a) => pc'[a] \in InCall \cup {"done"}
        /\ ~Broadcasts(a) => pc'[a] \in InCall \ {"closing"}
        /\ pc'[a] = "leave" => failed[on[a]] \/ a \in late
    BY <1>9 DEF Enqueue, AfterError, AfterEnqueue, InCall, TypeOK, CallsTyped
  <2>4. pc'[a] = "leave" /\ a \notin late => pending[on[a]] = {}
    BY <2>1, <2>3 DEF EnqueueEffect, Drained
  <2>5. Waits(a)'
    BY <2>1, <2>3, <2>4 DEF Calling, Waits, Broadcasts
  <2>6. ASSUME NEW b \in Procs, b # a PROVE Waits(b)'
    BY <2>1, <2>2, <2>6 DEF Calling, Waits, Broadcasts
  <2> QED BY <2>5, <2>6 DEF Calling
<1>10. ASSUME NEW a \in Procs, CallReturns(a) PROVE Calling'
  <2>1. pc[a] = "wait" /\ (replies[a] # << >> \/ a \in late) /\ UNCHANGED <<on, late, op, pending, replies>>
    BY <1>10 DEF CallReturns
  <2>2. pc'[a] = "leave" /\ \A b \in Procs : b # a => pc'[b] = pc[b]
    BY <1>10 DEF CallReturns, TypeOK, CallsTyped
  <2>3. Waits(a)'
    BY <2>1, <2>2 DEF Calling, Waits, Broadcasts, InCall
  <2>4. ASSUME NEW b \in Procs, b # a PROVE Waits(b)'
    BY <2>1, <2>2, <2>4 DEF Calling, Waits, Broadcasts
  <2> QED BY <2>3, <2>4 DEF Calling
<1>11. ASSUME NEW a \in Procs, Leave(a) PROVE Calling'
  <2>1. on[a] \in Conns /\ pc[a] = "leave" /\ UNCHANGED op
    BY <1>11, OnConn DEF Leave
  <2>2. /\ \A b \in Procs : b # a => pc'[b] = pc[b] /\ on'[b] = on[b] /\ replies'[b] = replies[b]
        /\ replies'[a] = << >> /\ late' = late \ {a}
    BY <1>11 DEF Leave, TypeOK, CallsTyped, BooksTyped
  <2>3. \A h \in Conns, b \in Procs : b \in pending'[h] => b \in pending[h] /\ (b = a => h # on[a])
    BY <1>11 DEF Leave, TypeOK, BooksTyped
  <2>4. Waits(a)'
    BY <2>2, <2>3 DEF Calling, Waits
  <2>5. ASSUME NEW b \in Procs, b # a PROVE Waits(b)'
    <3>1. pc'[b] = pc[b] /\ on'[b] = on[b] /\ replies'[b] = replies[b] /\ (b \in late => b \in late')
      BY <2>2, <2>5
    <3>2. \A h \in Conns : b \in pending'[h] => b \in pending[h]
      BY <2>3
    <3>3. Broadcasts(b)' <=> Broadcasts(b)
      BY <2>1 DEF Broadcasts
    <3>4. Waits(b)
      BY DEF Calling
    <3> QED BY <3>1, <3>2, <3>3, <3>4 DEF Waits
  <2> QED BY <2>4, <2>5 DEF Calling
<1>12. CASE SomebodyConnects
  <2>1. pc[Opener] \notin InCall /\ UNCHANGED <<pending, replies>>
    BY <1>12 DEF SomebodyConnects, CanOpen, Openings, InCall
  <2>2. \A b \in Procs : b # Opener => pc'[b] = pc[b] /\ on'[b] = on[b] /\ (b \in late => b \in late')
                                   /\ (Broadcasts(b)' => Broadcasts(b))
    BY <1>12 DEF SomebodyConnects, Broadcasts, TypeOK, CallsTyped
  <2> QED BY <2>1, <2>2, CallingStays
<1>13. CASE BackoffPasses
  <2>1. UNCHANGED <<pc, on, late, op, pending, replies>>
    BY <1>13 DEF BackoffPasses
  <2> QED BY <2>1, CallingStays DEF Broadcasts
<1>14. CASE Dial
  <2>1. pc[Opener] \notin InCall /\ UNCHANGED <<pending, replies>>
    BY <1>14 DEF Dial, InCall
  <2>2. \A b \in Procs : b # Opener => pc'[b] = pc[b] /\ on'[b] = on[b] /\ (b \in late => b \in late')
                                   /\ (Broadcasts(b)' => Broadcasts(b))
    BY <1>14 DEF Dial, Broadcasts, TypeOK, CallsTyped
  <2> QED BY <2>1, <2>2, CallingStays
<1>15. CASE Install
  <2>1. pc[Opener] \notin InCall /\ UNCHANGED <<pending, replies>>
    BY <1>15 DEF Install, InstallIt, InCall
  <2>2. \A b \in Procs : b # Opener => pc'[b] = pc[b] /\ on'[b] = on[b] /\ (b \in late => b \in late')
                                   /\ (Broadcasts(b)' => Broadcasts(b))
    BY <1>15 DEF Install, InstallIt, Broadcasts, TypeOK, CallsTyped
  <2> QED BY <2>1, <2>2, CallingStays
<1>16. CASE Identify
  <2>1. pc[Opener] \notin InCall /\ UNCHANGED <<pending, replies>>
    BY <1>16 DEF Identify, InCall
  <2>2. \A b \in Procs : b # Opener => pc'[b] = pc[b] /\ on'[b] = on[b] /\ (b \in late => b \in late')
                                   /\ (Broadcasts(b)' => Broadcasts(b))
    BY <1>16 DEF Identify, Broadcasts, TypeOK, CallsTyped
  <2> QED BY <2>1, <2>2, CallingStays
<1>17. CASE Finish
  <2>1. pc[Opener] \notin InCall /\ UNCHANGED <<pending, replies>>
    BY <1>17 DEF Finish, Publish, InCall
  <2>2. \A b \in Procs : b # Opener => pc'[b] = pc[b] /\ on'[b] = on[b] /\ (b \in late => b \in late')
                                   /\ (Broadcasts(b)' => Broadcasts(b))
    BY <1>17 DEF Finish, Publish, Broadcasts, TypeOK, CallsTyped
  <2> QED BY <2>1, <2>2, CallingStays
<1>18. CASE Close
  <2>1. UNCHANGED <<late, op, pending, replies>> /\ \A b \in Procs : pc'[b] = pc[b] /\ on'[b] = on[b]
    BY <1>18 DEF Close, TypeOK, CallsTyped
  <2> QED BY <2>1, CallingStays DEF Broadcasts
<1>19. ASSUME NEW a \in Procs \cup {Owner}, Closes(a) PROVE Calling'
  <2>1. ClosesEffect(a) /\ pc[a] \in {"close", "fail"} /\ UNCHANGED <<on, late, op>>
    BY <1>19, ClosesEffects DEF Closes
  <2>2. CASE UNCHANGED books /\ (on[a] = 0 \/ failed[on[a]]) /\ pc' = [pc EXCEPT ![a] = AfterClose(a)]
    <3>1. \A b \in Procs : b # a => pc'[b] = pc[b]
      BY <2>2 DEF TypeOK, CallsTyped
    <3>2. a \in Procs => pc'[a] = AfterClose(a)
      BY <2>2 DEF TypeOK, CallsTyped
    <3>3. ASSUME a \in Procs PROVE Waits(a)'
      <4>0. 0 \notin Conns /\ (on[a] \in Conns => pending[on[a]] = {} \/ ~failed[on[a]])
        BY DEF Drained
      <4>1. \A h \in Conns : a \notin pending[h]
        BY <2>2, <3>3, <4>0 DEF Calling, Waits, Drained
      <4>2. replies[a] # << >> => pc[a] = "close" /\ ~Broadcasts(a)
        BY <2>1, <3>3 DEF Calling, Waits, InCall
      <4>3. replies[a] # << >> => AfterClose(a) = "leave"
        BY <3>3, <4>2 DEF AfterClose, AfterError
      <4> QED BY <2>1, <2>2, <3>2, <3>3, <4>1, <4>2, <4>3 DEF Waits, Broadcasts, InCall
    <3>4. ASSUME NEW b \in Procs, b # a PROVE Waits(b)'
      BY <2>1, <2>2, <3>1, <3>4 DEF Calling, Waits, Broadcasts
    <3> QED BY <3>3, <3>4 DEF Calling
  <2>3. CASE on[a] \in Conns /\ ~failed[on[a]]
    <3>1. CloseEffect(on[a]) /\ pc' = [pc EXCEPT ![a] = IF pc[a] = "fail" THEN "failing" ELSE "closing"]
      BY <2>1, <2>3 DEF ClosesEffect
    <3>2. \A b \in Procs : pc'[b] = pc[b] \/ (on[b] = on[a] /\ pc[b] = "close" /\ pc'[b] = "closing")
                                         \/ pc[b] \notin InCall
      BY <2>1, <3>1 DEF InCall, TypeOK, CallsTyped
    <3> QED BY <2>1, <2>3, <3>1, <3>2, CallingCloses
  <2> QED BY <2>1, <2>2, <2>3 DEF ClosesEffect
<1>20. ASSUME NEW a \in Procs \cup {Owner}, HasClosed(a) PROVE Calling'
  <2>1. pc[a] \in {"closing", "failing"} /\ UNCHANGED <<on, late, op, pending, replies>>
    BY <1>20 DEF HasClosed
  <2>2. (a \in Procs => pc'[a] = AfterClose(a)) /\ \A b \in Procs : b # a => pc'[b] = pc[b]
    BY <1>20 DEF HasClosed, TypeOK, CallsTyped
  <2>3. ASSUME a \in Procs PROVE Waits(a)'
    <3>1. \A h \in Conns : a \notin pending[h]
      BY <2>1, <2>3 DEF Calling, Waits, InCall
    <3>2. replies[a] # << >> => pc[a] = "closing" /\ ~Broadcasts(a)
      BY <2>1, <2>3 DEF Calling, Waits, InCall
    <3>3. replies[a] # << >> => AfterClose(a) = "leave"
      BY <2>3, <3>2 DEF AfterClose, AfterError
    <3> QED BY <2>1, <2>2, <2>3, <3>1, <3>2, <3>3 DEF Waits, Broadcasts, InCall
  <2>4. ASSUME NEW b \in Procs, b # a PROVE Waits(b)'
    BY <2>1, <2>2, <2>4 DEF Calling, Waits, Broadcasts
  <2> QED BY <2>3, <2>4 DEF Calling
<1>21. ASSUME NEW g \in Conns, OnClose(g) PROVE Calling'
  <2>1. UNCHANGED <<pc, on, late, op, pending, replies>>
    BY <1>21 DEF OnClose
  <2> QED BY <2>1, CallingStays DEF Broadcasts
<1>22. ASSUME NEW g \in Conns, OnClosed(g) PROVE Calling'
  <2>1. UNCHANGED <<pc, on, late, op, pending, replies>>
    BY <1>22 DEF OnClosed
  <2> QED BY <2>1, CallingStays DEF Broadcasts
<1>23. ASSUME NEW g \in Conns, WriterTakes(g) PROVE Calling'
  <2>1. UNCHANGED <<pc, on, late, op, pending, replies>>
    BY <1>23 DEF WriterTakes
  <2> QED BY <2>1, CallingStays DEF Broadcasts
<1>24. ASSUME NEW g \in Conns, WriterChecks(g) PROVE Calling'
  <2>1. UNCHANGED <<pc, on, late, op, pending, replies>>
    BY <1>24 DEF WriterChecks
  <2> QED BY <2>1, CallingStays DEF Broadcasts
<1>25. ASSUME NEW g \in Conns, WriterWrites(g) PROVE Calling'
  <2>1. UNCHANGED <<pc, on, late, op, pending, replies>>
    BY <1>25 DEF WriterWrites
  <2> QED BY <2>1, CallingStays DEF Broadcasts
<1>26. ASSUME NEW g \in Conns, WriterFails(g) PROVE Calling'
  <2>1. BooksOrClose(g) /\ UNCHANGED <<pc, on, late, op>>
    BY <1>26, LoopCloses DEF WriterFails, ReaderEnds
  <2>2. CASE UNCHANGED books
    BY <2>1, <2>2, CallingStays DEF Broadcasts
  <2>3. CASE CloseEffect(g)
    BY <2>1, <2>3, CallingCloses
  <2> QED BY <2>1, <2>2, <2>3 DEF BooksOrClose
<1>27. ASSUME NEW g \in Conns, WriterFinishes(g) PROVE Calling'
  <2>1. UNCHANGED <<pc, on, late, op, pending, replies>>
    BY <1>27 DEF WriterFinishes
  <2> QED BY <2>1, CallingStays DEF Broadcasts
<1>28. ASSUME NEW g \in Conns, NEW a \in Procs, ReaderAnswers(g, a) PROVE Calling'
  <2>1. AnswerEffect(g, a) /\ a \in pending[g] /\ UNCHANGED <<pc, on, late, op>>
    BY <1>28, AnswerEffects DEF ReaderAnswers
  <2>2. \A b \in Procs : b # a => replies'[b] = replies[b]
    BY <2>1 DEF AnswerEffect, TypeOK, BooksTyped
  <2>3. \A h \in Conns, b \in Procs : b \in pending'[h] => b \in pending[h] /\ (b = a => h # g)
    BY <2>1 DEF AnswerEffect, TypeOK, BooksTyped
  <2>4. Waits(a)'
    BY <2>1, <2>3 DEF Calling, Waits, Broadcasts
  <2>5. ASSUME NEW b \in Procs, b # a PROVE Waits(b)'
    BY <2>1, <2>2, <2>3, <2>5 DEF Calling, Waits, Broadcasts
  <2> QED BY <2>4, <2>5 DEF Calling
<1>29. ASSUME NEW g \in Conns, ReaderDiscovers(g) PROVE Calling'
  <2>1. DiscoverEffect(g) /\ UNCHANGED <<pc, on, late, op>>
    BY <1>29, DiscoverEffects DEF ReaderDiscovers
  <2>2. CASE UNCHANGED <<pending, replies>>
    BY <2>1, <2>2, CallingStays DEF Broadcasts
  <2>3. CASE CloseEffect(g)
    BY <2>1, <2>3, CallingCloses
  <2> QED BY <2>1, <2>2, <2>3 DEF DiscoverEffect
<1>30. ASSUME NEW g \in Conns, ReaderEnds(g) PROVE Calling'
  <2>1. BooksOrClose(g) /\ UNCHANGED <<pc, on, late, op>>
    BY <1>30, LoopCloses DEF WriterFails, ReaderEnds
  <2>2. CASE UNCHANGED books
    BY <2>1, <2>2, CallingStays DEF Broadcasts
  <2>3. CASE CloseEffect(g)
    BY <2>1, <2>3, CallingCloses
  <2> QED BY <2>1, <2>2, <2>3 DEF BooksOrClose
<1> QED BY <1>1, <1>2, <1>3, <1>4, <1>5, <1>6, <1>7, <1>8, <1>9, <1>10, <1>11, <1>12, <1>13, <1>14, <1>15, <1>16,
    <1>17, <1>18, <1>19, <1>20, <1>21, <1>22, <1>23, <1>24, <1>25, <1>26, <1>27, <1>28, <1>29, <1>30
    DEF Next, Step, Begin, CallerStep, Waiting, OpenerStep, CloseStep, ExchangeStep, WriterStep

(* Only an enqueued call is on its way, ...                                 *)
LEMMA SentStep == ASSUME ClientInv, Next PROVE Sent'
<1> USE Distinct DEF client, call, loops, books, env, Goto
<1> /\ TypeOK /\ Openings /\ Sockets /\ Losses /\ Closing /\ Users /\ Fresh /\ Drained /\ Hands
    /\ Queues /\ Calling /\ OpsAt /\ Sent /\ Bindings
  BY DEF ClientInv
<1> budget' = budget /\ Conns' = Conns
  BY DEF Next, Conns
<1> budget.opens \in Nat /\ budget.notes \in Nat /\ MaxQueued \in Nat
  BY Bounds DEF TypeOK, ClientTyped
<1> (\A h \in 1..generation : h \in Conns) /\ generation \in Nat /\ Conns = 1..budget.opens
  BY DEF TypeOK, ClientTyped, Conns
<1>1. ASSUME NEW c \in Callers, Connect(c) PROVE Sent'
  BY <1>1
      DEF Connect, StartOpening, CanOpen, Sent, SentAt, Out, Users, Openings, TypeOK, CallsTyped, BooksTyped,
          LoopsTyped
<1>2. ASSUME NEW c \in Callers, ConnectReturns(c) PROVE Sent'
  <2>1. UNCHANGED <<writes, hand, received>>
    BY <1>2 DEF ConnectReturns
  <2>2. \A b \in Procs : Shrinks(b)
    BY <2>1, OutFewer
  <2>3. pc[c] \notin SentAt /\ \A b \in Procs : b # c => pc'[b] = pc[b] /\ on'[b] = on[b]
    BY <1>2 DEF ConnectReturns, SentAt, TypeOK, CallsTyped
  <2> QED BY <2>2, <2>3, SentStays
<1>3. ASSUME NEW c \in Callers, Request(c) PROVE Sent'
  <2>1. UNCHANGED <<writes, hand, received>>
    BY <1>3 DEF Request
  <2>2. \A b \in Procs : Shrinks(b)
    BY <2>1, OutFewer
  <2>3. pc[c] \notin SentAt /\ \A b \in Procs : b # c => pc'[b] = pc[b] /\ on'[b] = on[b]
    BY <1>3 DEF Request, SentAt, TypeOK, CallsTyped
  <2> QED BY <2>2, <2>3, SentStays
<1>4. ASSUME NEW c \in Callers, ConnectionGeneration(c) PROVE Sent'
  <2>1. UNCHANGED <<writes, hand, received>>
    BY <1>4 DEF ConnectionGeneration
  <2>2. \A b \in Procs : Shrinks(b)
    BY <2>1, OutFewer
  <2>3. pc[c] \notin SentAt /\ \A b \in Procs : b # c => pc'[b] = pc[b] /\ on'[b] = on[b]
    BY <1>4 DEF ConnectionGeneration, SentAt, TypeOK, CallsTyped
  <2> QED BY <2>2, <2>3, SentStays
<1>5. ASSUME NEW c \in Callers, RequestOnConnection(c) PROVE Sent'
  <2>1. UNCHANGED <<writes, hand, received>>
    BY <1>5 DEF RequestOnConnection
  <2>2. \A b \in Procs : Shrinks(b)
    BY <2>1, OutFewer
  <2>3. pc[c] \notin SentAt /\ \A b \in Procs : b # c => pc'[b] = pc[b] /\ on'[b] = on[b]
    BY <1>5 DEF RequestOnConnection, SentAt, TypeOK, CallsTyped
  <2> QED BY <2>2, <2>3, SentStays
<1>6. ASSUME NEW c \in Callers, Broadcast(c) PROVE Sent'
  <2>1. UNCHANGED <<writes, hand, received>>
    BY <1>6 DEF Broadcast
  <2>2. \A b \in Procs : Shrinks(b)
    BY <2>1, OutFewer
  <2>3. pc[c] \notin SentAt /\ \A b \in Procs : b # c => pc'[b] = pc[b] /\ on'[b] = on[b]
    BY <1>6 DEF Broadcast, SentAt, TypeOK, CallsTyped
  <2> QED BY <2>2, <2>3, SentStays
<1>7. ASSUME NEW a \in Procs, DeadlinePasses(a) PROVE Sent'
  BY <1>7 DEF DeadlinePasses, Sent, SentAt, Out, Users, Openings, TypeOK, CallsTyped, BooksTyped, LoopsTyped
<1>8. ASSUME NEW a \in Procs, Register(a) PROVE Sent'
  <2>1. UNCHANGED <<writes, hand, received>>
    BY <1>8 DEF Register
  <2>2. \A b \in Procs : Shrinks(b)
    BY <2>1, OutFewer
  <2>3. pc[a] \notin SentAt /\ UNCHANGED on /\ \A b \in Procs : b # a => pc'[b] = pc[b]
    BY <1>8 DEF Register, SentAt, TypeOK, CallsTyped
  <2> QED BY <2>2, <2>3, SentStays
<1>9. ASSUME NEW a \in Procs, Enqueue(a) PROVE Sent'
  <2>1. EnqueueEffect(a) /\ UNCHANGED <<on, hand, received>>
    BY <1>9, EnqueueEffects DEF Enqueue
  <2>2. pc[a] \notin SentAt /\ \A b \in Procs : b # a => pc'[b] = pc[b]
    BY <1>9 DEF Enqueue, SentAt, TypeOK, CallsTyped
  <2>3. CASE UNCHANGED writes
    <3>1. \A b \in Procs : Shrinks(b)
      BY <2>1, <2>3, OutFewer
    <3> QED BY <2>1, <2>2, <3>1, SentStays
  <2>4. CASE PutEffect(on[a], IF Broadcasts(a) THEN Note ELSE a) /\ pc' = [pc EXCEPT ![a] = AfterEnqueue(a)]
    <3>1. \A b \in Procs : b # a => Shrinks(b)
      BY <2>1, <2>4, OutPut DEF EnqueueEffect
    <3>2. pc'[a] \in SentAt
      BY <2>4 DEF AfterEnqueue, SentAt, TypeOK, CallsTyped
    <3> QED BY <2>1, <2>2, <3>1, <3>2, SentStays
  <2> QED BY <2>1, <2>3, <2>4 DEF EnqueueEffect
<1>10. ASSUME NEW a \in Procs, CallReturns(a) PROVE Sent'
  BY <1>10 DEF CallReturns, Sent, SentAt, Out, Users, Openings, TypeOK, CallsTyped, BooksTyped, LoopsTyped
<1>11. ASSUME NEW a \in Procs, Leave(a) PROVE Sent'
  <2>1. on[a] \in Conns /\ on[a] \in 1..generation
    BY <1>11, OnConn DEF Leave
  <2> QED BY <1>11, <2>1
      DEF Leave, AfterLeave, Sent, SentAt, Out, Users, Openings, TypeOK, CallsTyped, BooksTyped, LoopsTyped
<1>12. CASE SomebodyConnects
  BY <1>12
      DEF SomebodyConnects, StartOpening, CanOpen, Sent, SentAt, Out, Users, Openings, TypeOK, CallsTyped,
          BooksTyped, LoopsTyped
<1>13. CASE BackoffPasses
  BY <1>13 DEF BackoffPasses, Sent, SentAt, Out, Users, Openings, TypeOK, CallsTyped, BooksTyped, LoopsTyped
<1>14. CASE Dial
  BY <1>14 DEF Dial, Sent, SentAt, Out, Users, Openings, TypeOK, CallsTyped, BooksTyped, LoopsTyped
<1>15. CASE Install
  <2>1. UNCHANGED <<writes, hand, received>>
    BY <1>15 DEF Install
  <2>2. \A b \in Procs : Shrinks(b)
    BY <2>1, OutFewer
  <2>3. pc[Opener] \notin SentAt /\ \A b \in Procs : b # Opener => pc'[b] = pc[b] /\ on'[b] = on[b]
    BY <1>15 DEF Install, InstallIt, SentAt, TypeOK, CallsTyped
  <2>4. CASE stopped
    <3>1. pc'[Opener] \in SentAt
      BY <1>15, <2>4 DEF Install, SentAt, TypeOK, CallsTyped
    <3> QED BY <2>2, <2>3, <3>1, SentStays
  <2>5. CASE ~stopped
    <3>1. on'[Opener] = generation + 1
      BY <1>15, <2>5 DEF Install, InstallIt, TypeOK, CallsTyped
    <3>2. \A h \in Conns : h = generation + 1 => ~Out(Opener, h)
      BY QueueEmpty DEF Fresh, Out
    <3> QED BY <2>2, <2>3, <3>1, <3>2, SentStays
  <2> QED BY <2>4, <2>5
<1>16. CASE Identify
  BY <1>16 DEF Identify, Sent, SentAt, Out, Users, Openings, TypeOK, CallsTyped, BooksTyped, LoopsTyped
<1>17. CASE Finish
  BY <1>17 DEF Finish, Publish, Sent, SentAt, Out, Users, Openings, TypeOK, CallsTyped, BooksTyped, LoopsTyped
<1>18. CASE Close
  BY <1>18 DEF Close, Sent, SentAt, Out, Users, Openings, TypeOK, CallsTyped, BooksTyped, LoopsTyped
<1>19. ASSUME NEW a \in Procs \cup {Owner}, Closes(a) PROVE Sent'
  <2>1. ClosesEffect(a) /\ UNCHANGED <<on, hand, received>>
    BY <1>19, ClosesEffects DEF Closes
  <2>2. UNCHANGED books \/ (on[a] \in Conns /\ ClosedBooks(on[a]))
    BY <2>1, CloseBooks DEF ClosesEffect, TypeOK
  <2>3. \A h \in Conns : writes'[h] = writes[h] \/ writes'[h] = << >>
    BY <2>2 DEF ClosedBooks
  <2>4. \A b \in Procs : Shrinks(b)
    BY <2>1, <2>3, OutFewer
  <2>5. \A b \in Procs : b # a => pc'[b] = pc[b]
    BY <1>19 DEF Closes, TypeOK, CallsTyped
  <2>6. a \in Procs => pc'[a] \in SentAt \/ pc[a] \notin SentAt
    <3>1. pc[a] = "close" \/ pc[a] = "fail"
      BY <1>19 DEF Closes
    <3>2. CASE pc[a] = "close"
      BY <3>2 DEF SentAt
    <3>3. CASE pc[a] = "fail" /\ a \in Procs
      <4>1. a = Opener
        BY <3>3 DEF Users
      <4>2. AfterClose(a) = "finish" 
        BY <3>3, <4>1 DEF AfterClose
      <4> QED BY <2>1, <3>3, <4>2 DEF ClosesEffect, SentAt, TypeOK, CallsTyped
    <3> QED BY <3>1, <3>2, <3>3
  <2> QED BY <2>1, <2>4, <2>5, <2>6, SentStays
<1>20. ASSUME NEW a \in Procs \cup {Owner}, HasClosed(a) PROVE Sent'
  BY <1>20
      DEF HasClosed, AfterClose, AfterError, Broadcasts, Sent, SentAt, Out, Users, Openings, TypeOK, CallsTyped,
          BooksTyped, LoopsTyped
<1>21. ASSUME NEW g \in Conns, OnClose(g) PROVE Sent'
  BY <1>21 DEF OnClose, Sent, SentAt, Out, Users, Openings, TypeOK, CallsTyped, BooksTyped, LoopsTyped
<1>22. ASSUME NEW g \in Conns, OnClosed(g) PROVE Sent'
  BY <1>22 DEF OnClosed, Sent, SentAt, Out, Users, Openings, TypeOK, CallsTyped, BooksTyped, LoopsTyped
<1>23. ASSUME NEW g \in Conns, WriterTakes(g) PROVE Sent'
  <2>1. TakeEffect(g) /\ UNCHANGED <<pc, on, received>>
    BY <1>23, TakeEffects DEF WriterTakes
  <2>2. \A b \in Procs : Shrinks(b)
    BY <2>1, OutTaken
  <2> QED BY <2>1, <2>2, SentStays
<1>24. ASSUME NEW g \in Conns, WriterChecks(g) PROVE Sent'
  BY <1>24 DEF WriterChecks, Written, Sent, SentAt, Out, Users, Openings, TypeOK, CallsTyped, BooksTyped, LoopsTyped
<1>25. ASSUME NEW g \in Conns, WriterWrites(g) PROVE Sent'
  BY <1>25
      DEF WriterWrites, Written, WireClosed, Sent, SentAt, Out, Users, Openings, TypeOK, CallsTyped, BooksTyped,
          LoopsTyped
<1>26. ASSUME NEW g \in Conns, WriterFails(g) PROVE Sent'
  <2>1. BooksOrClose(g) /\ UNCHANGED <<pc, on, received>>
    BY <1>26, LoopCloses DEF WriterFails
  <2>2. (failed[g] /\ UNCHANGED books) \/ ClosedBooks(g)
    BY <2>1, CloseBooks DEF BooksOrClose, TypeOK
  <2>3. \A h \in Conns : hand'[h] = hand[h] \/ hand'[h] = None
    BY <1>26 DEF WriterFails, TypeOK, LoopsTyped
  <2>4. \A h \in Conns : writes'[h] = writes[h] \/ writes'[h] = << >>
    BY <2>2 DEF ClosedBooks
  <2>5. \A b \in Procs : Shrinks(b)
    BY <2>1, <2>3, <2>4, OutFewer
  <2> QED BY <2>1, <2>5, SentStays
<1>27. ASSUME NEW g \in Conns, WriterFinishes(g) PROVE Sent'
  BY <1>27
      DEF WriterFinishes, Written, Unaccount, Sent, SentAt, Out, Users, Openings, TypeOK, CallsTyped, BooksTyped,
          LoopsTyped
<1>28. ASSUME NEW g \in Conns, NEW a \in Procs, ReaderAnswers(g, a) PROVE Sent'
  <2>1. AnswerEffect(g, a)
    BY <1>28, AnswerEffects
  <2> QED BY <1>28, <2>1
      DEF ReaderAnswers, AnswerEffect, Sent, SentAt, Out, Users, Openings, TypeOK, CallsTyped, BooksTyped,
          LoopsTyped
<1>29. ASSUME NEW g \in Conns, ReaderDiscovers(g) PROVE Sent'
  <2>1. DiscoverEffect(g) /\ UNCHANGED <<pc, on, hand, received>>
    BY <1>29, DiscoverEffects DEF ReaderDiscovers
  <2>2. \A b \in Procs : Shrinks(b)
    <3>1. CASE PutEffect(g, Note)
      BY <2>1, <3>1, OutPut
    <3>2. CASE CloseEffect(g)
      <4>1. \A h \in Conns : writes'[h] = writes[h] \/ writes'[h] = << >>
        BY <3>2, CloseBooks DEF ClosedBooks, TypeOK
      <4> QED BY <2>1, <4>1, OutFewer
    <3> QED BY <2>1, <3>1, <3>2 DEF DiscoverEffect
  <2> QED BY <2>1, <2>2, SentStays
<1>30. ASSUME NEW g \in Conns, ReaderEnds(g) PROVE Sent'
  <2>1. BooksOrClose(g) /\ UNCHANGED <<pc, on, received>>
    BY <1>30, LoopCloses DEF ReaderEnds
  <2>2. (failed[g] /\ UNCHANGED books) \/ ClosedBooks(g)
    BY <2>1, CloseBooks DEF BooksOrClose, TypeOK
  <2>3. \A h \in Conns : hand'[h] = hand[h] \/ hand'[h] = None
    BY <1>30 DEF ReaderEnds, TypeOK, LoopsTyped
  <2>4. \A h \in Conns : writes'[h] = writes[h] \/ writes'[h] = << >>
    BY <2>2 DEF ClosedBooks
  <2>5. \A b \in Procs : Shrinks(b)
    BY <2>1, <2>3, <2>4, OutFewer
  <2> QED BY <2>1, <2>5, SentStays
<1> QED BY <1>1, <1>2, <1>3, <1>4, <1>5, <1>6, <1>7, <1>8, <1>9, <1>10, <1>11, <1>12, <1>13, <1>14, <1>15, <1>16,
    <1>17, <1>18, <1>19, <1>20, <1>21, <1>22, <1>23, <1>24, <1>25, <1>26, <1>27, <1>28, <1>29, <1>30
    DEF Next, Step, Begin, CallerStep, Waiting, OpenerStep, CloseStep, ExchangeStep, WriterStep

(* ... a bound one over its own connection.                                 *)
LEMMA BindingsStep == ASSUME ClientInv, Next PROVE Bindings'
<1> USE Distinct DEF client, call, loops, books, env, Goto
<1> /\ TypeOK /\ Openings /\ Sockets /\ Losses /\ Closing /\ Users /\ Fresh /\ Drained /\ Hands
    /\ Queues /\ Calling /\ OpsAt /\ Sent /\ Bindings
  BY DEF ClientInv
<1> budget' = budget /\ Conns' = Conns
  BY DEF Next, Conns
<1> budget.opens \in Nat /\ budget.notes \in Nat /\ MaxQueued \in Nat
  BY Bounds DEF TypeOK, ClientTyped
<1> (\A h \in 1..generation : h \in Conns) /\ generation \in Nat /\ Conns = 1..budget.opens
  BY DEF TypeOK, ClientTyped, Conns
<1>1. ASSUME NEW c \in Callers, Connect(c) PROVE Bindings'
  BY <1>1 DEF Connect, StartOpening, CanOpen, Bindings, Out, Sent, Sockets, TypeOK, CallsTyped, BooksTyped, LoopsTyped
<1>2. ASSUME NEW c \in Callers, ConnectReturns(c) PROVE Bindings'
  BY <1>2 DEF ConnectReturns, Bindings, Out, Sent, Sockets, TypeOK, CallsTyped, BooksTyped, LoopsTyped
<1>3. ASSUME NEW c \in Callers, Request(c) PROVE Bindings'
  <2>1. UNCHANGED <<writes, hand, received>>
    BY <1>3 DEF Request
  <2>2. \A b \in Procs : Shrinks(b)
    BY <2>1, OutFewer
  <2>3. op[c] # "bound" /\ UNCHANGED <<op, bound>>
    BY <1>3 DEF Request, OpsAt
  <2>4. /\ pc'[c] # "idle"
        /\ \A b \in Callers : b # c => pc'[b] = pc[b] /\ on'[b] = on[b]
    BY <1>3 DEF Request, TypeOK, CallsTyped
  <2> QED BY <2>2, <2>3, <2>4, BindingsStay
<1>4. ASSUME NEW c \in Callers, ConnectionGeneration(c) PROVE Bindings'
  <2>1. UNCHANGED <<writes, hand, received>>
    BY <1>4 DEF ConnectionGeneration
  <2>2. \A b \in Procs : Shrinks(b)
    BY <2>1, OutFewer
  <2>3. /\ pc[c] = "idle" /\ UNCHANGED on /\ on[c] = 0 /\ pc'[c] # "idle"
        /\ \A b \in Callers : b # c => pc'[b] = pc[b] /\ op'[b] = op[b] /\ bound'[b] = bound[b]
    BY <1>4 DEF ConnectionGeneration, Users, TypeOK, CallsTyped
  <2>4. \A h \in Conns : ~Out(c, h)
    BY <2>3 DEF Sent, SentAt
  <2>5. ASSUME NEW b \in Callers
        PROVE  /\ pc'[b] = "idle" => bound'[b] = 0
               /\ op'[b] = "bound" => on'[b] \in {0, bound'[b]} /\ \A h \in Conns : Out(b, h)' => h = bound'[b]
    <3>1. CASE b = c
      BY <2>2, <2>3, <2>4, <3>1 DEF Shrinks
    <3>2. CASE b # c
      BY <2>2, <2>3, <3>2 DEF Shrinks, Bindings
    <3> QED BY <3>1, <3>2
  <2> QED BY <2>5 DEF Bindings
<1>5. ASSUME NEW c \in Callers, RequestOnConnection(c) PROVE Bindings'
  BY <1>5 DEF RequestOnConnection, Bindings, Out, Sent, Sockets, TypeOK, CallsTyped, BooksTyped, LoopsTyped
<1>6. ASSUME NEW c \in Callers, Broadcast(c) PROVE Bindings'
  BY <1>6 DEF Broadcast, Bindings, Out, Sent, Sockets, TypeOK, CallsTyped, BooksTyped, LoopsTyped
<1>7. ASSUME NEW a \in Procs, DeadlinePasses(a) PROVE Bindings'
  BY <1>7 DEF DeadlinePasses, Bindings, Out, Sent, Sockets, TypeOK, CallsTyped, BooksTyped, LoopsTyped
<1>8. ASSUME NEW a \in Procs, Register(a) PROVE Bindings'
  <2>1. on[a] \in Conns /\ on[a] \in 1..generation
    BY <1>8, OnConn DEF Register
  <2> QED BY <1>8, <2>1
      DEF Register, AfterCall, Bindings, Out, Sent, Sockets, TypeOK, CallsTyped, BooksTyped, LoopsTyped
<1>9. ASSUME NEW a \in Procs, Enqueue(a) PROVE Bindings'
  <2>1. EnqueueEffect(a) /\ UNCHANGED <<on, op, bound, hand, received>>
    BY <1>9, EnqueueEffects DEF Enqueue
  <2>2. \A b \in Callers : pc'[b] = "idle" => pc[b] = "idle"
    BY <1>9 DEF Enqueue, AfterError, AfterEnqueue, TypeOK, CallsTyped
  <2>3. CASE UNCHANGED writes
    <3>1. \A b \in Procs : Shrinks(b)
      BY <2>1, <2>3, OutFewer
    <3> QED BY <2>1, <2>2, <3>1, BindingsStay
  <2>4. CASE PutEffect(on[a], IF Broadcasts(a) THEN Note ELSE a)
    <3> DEFINE p == IF Broadcasts(a) THEN Note ELSE a
    <3>1. \A b \in Procs, h \in Conns : Out(b, h)' => Out(b, h) \/ (b = p /\ h = on[a])
      BY <2>1, <2>4, OutPut DEF EnqueueEffect
    <3>2. \A b \in Procs, h \in Conns : Out(b, h)' => Out(b, h) \/ (b = a /\ h = on[a])
      BY <3>1
    <3> HIDE DEF p
    <3>3. \A b \in Callers : op[b] = "bound" => \A h \in Conns : Out(b, h)' => h = bound[b]
      BY <3>2 DEF Bindings
    <3> QED BY <2>1, <2>2, <3>3 DEF Bindings
  <2> QED BY <2>1, <2>3, <2>4 DEF EnqueueEffect
<1>10. ASSUME NEW a \in Procs, CallReturns(a) PROVE Bindings'
  BY <1>10 DEF CallReturns, Bindings, Out, Sent, Sockets, TypeOK, CallsTyped, BooksTyped, LoopsTyped
<1>11. ASSUME NEW a \in Procs, Leave(a) PROVE Bindings'
  <2>1. on[a] \in Conns /\ on[a] \in 1..generation
    BY <1>11, OnConn DEF Leave
  <2> QED BY <1>11, <2>1 DEF Leave, AfterLeave, Bindings, Out, Sent, Sockets, TypeOK, CallsTyped, BooksTyped, LoopsTyped
<1>12. CASE SomebodyConnects
  BY <1>12
      DEF SomebodyConnects, StartOpening, CanOpen, Bindings, Out, Sent, Sockets, TypeOK, CallsTyped, BooksTyped,
          LoopsTyped
<1>13. CASE BackoffPasses
  BY <1>13 DEF BackoffPasses, Bindings, Out, Sent, Sockets, TypeOK, CallsTyped, BooksTyped, LoopsTyped
<1>14. CASE Dial
  BY <1>14 DEF Dial, Bindings, Out, Sent, Sockets, TypeOK, CallsTyped, BooksTyped, LoopsTyped
<1>15. CASE Install
  BY <1>15 DEF Install, InstallIt, Bindings, Out, Sent, Sockets, TypeOK, CallsTyped, BooksTyped, LoopsTyped
<1>16. CASE Identify
  BY <1>16 DEF Identify, Bindings, Out, Sent, Sockets, TypeOK, CallsTyped, BooksTyped, LoopsTyped
<1>17. CASE Finish
  BY <1>17 DEF Finish, Publish, Bindings, Out, Sent, Sockets, TypeOK, CallsTyped, BooksTyped, LoopsTyped
<1>18. CASE Close
  BY <1>18 DEF Close, Bindings, Out, Sent, Sockets, TypeOK, CallsTyped, BooksTyped, LoopsTyped
<1>19. ASSUME NEW a \in Procs \cup {Owner}, Closes(a) PROVE Bindings'
  <2>1. ClosesEffect(a) /\ UNCHANGED <<on, op, bound, hand, received>>
    BY <1>19, ClosesEffects DEF Closes
  <2>2. UNCHANGED books \/ (on[a] \in Conns /\ ClosedBooks(on[a]))
    BY <2>1, CloseBooks DEF ClosesEffect, TypeOK
  <2>3. \A h \in Conns : writes'[h] = writes[h] \/ writes'[h] = << >>
    BY <2>2 DEF ClosedBooks
  <2>4. \A b \in Procs : Shrinks(b)
    BY <2>1, <2>3, OutFewer
  <2>5. \A b \in Callers : pc'[b] = "idle" => pc[b] = "idle"
    BY <1>19 DEF Closes, AfterClose, AfterError, TypeOK, CallsTyped
  <2> QED BY <2>1, <2>4, <2>5, BindingsStay
<1>20. ASSUME NEW a \in Procs \cup {Owner}, HasClosed(a) PROVE Bindings'
  BY <1>20
      DEF HasClosed, AfterClose, AfterError, Broadcasts, Bindings, Out, Sent, Sockets, TypeOK, CallsTyped,
          BooksTyped, LoopsTyped
<1>21. ASSUME NEW g \in Conns, OnClose(g) PROVE Bindings'
  BY <1>21 DEF OnClose, Bindings, Out, Sent, Sockets, TypeOK, CallsTyped, BooksTyped, LoopsTyped
<1>22. ASSUME NEW g \in Conns, OnClosed(g) PROVE Bindings'
  BY <1>22 DEF OnClosed, Bindings, Out, Sent, Sockets, TypeOK, CallsTyped, BooksTyped, LoopsTyped
<1>23. ASSUME NEW g \in Conns, WriterTakes(g) PROVE Bindings'
  <2>1. TakeEffect(g) /\ UNCHANGED <<pc, on, op, bound, received>>
    BY <1>23, TakeEffects DEF WriterTakes
  <2>2. \A b \in Procs : Shrinks(b)
    BY <2>1, OutTaken
  <2> QED BY <2>1, <2>2, BindingsStay
<1>24. ASSUME NEW g \in Conns, WriterChecks(g) PROVE Bindings'
  BY <1>24 DEF WriterChecks, Written, Bindings, Out, Sent, Sockets, TypeOK, CallsTyped, BooksTyped, LoopsTyped
<1>25. ASSUME NEW g \in Conns, WriterWrites(g) PROVE Bindings'
  BY <1>25
      DEF WriterWrites, Written, WireClosed, Bindings, Out, Sent, Sockets, TypeOK, CallsTyped, BooksTyped,
          LoopsTyped
<1>26. ASSUME NEW g \in Conns, WriterFails(g) PROVE Bindings'
  <2>1. BooksOrClose(g) /\ UNCHANGED <<pc, on, op, bound, received>>
    BY <1>26, LoopCloses DEF WriterFails
  <2>2. (failed[g] /\ UNCHANGED books) \/ ClosedBooks(g)
    BY <2>1, CloseBooks DEF BooksOrClose, TypeOK
  <2>3. \A h \in Conns : hand'[h] = hand[h] \/ hand'[h] = None
    BY <1>26 DEF WriterFails, TypeOK, LoopsTyped
  <2>4. \A h \in Conns : writes'[h] = writes[h] \/ writes'[h] = << >>
    BY <2>2 DEF ClosedBooks
  <2>5. \A b \in Procs : Shrinks(b)
    BY <2>1, <2>3, <2>4, OutFewer
  <2> QED BY <2>1, <2>5, BindingsStay
<1>27. ASSUME NEW g \in Conns, WriterFinishes(g) PROVE Bindings'
  BY <1>27
      DEF WriterFinishes, Written, Unaccount, Bindings, Out, Sent, Sockets, TypeOK, CallsTyped, BooksTyped,
          LoopsTyped
<1>28. ASSUME NEW g \in Conns, NEW a \in Procs, ReaderAnswers(g, a) PROVE Bindings'
  <2>1. AnswerEffect(g, a)
    BY <1>28, AnswerEffects
  <2> QED BY <1>28, <2>1
      DEF ReaderAnswers, AnswerEffect, Bindings, Out, Sent, Sockets, TypeOK, CallsTyped, BooksTyped, LoopsTyped
<1>29. ASSUME NEW g \in Conns, ReaderDiscovers(g) PROVE Bindings'
  <2>1. DiscoverEffect(g) /\ UNCHANGED <<pc, on, op, bound, hand, received>>
    BY <1>29, DiscoverEffects DEF ReaderDiscovers
  <2>2. \A b \in Procs : Shrinks(b)
    <3>1. CASE PutEffect(g, Note)
      BY <2>1, <3>1, OutPut
    <3>2. CASE CloseEffect(g)
      <4>1. \A h \in Conns : writes'[h] = writes[h] \/ writes'[h] = << >>
        BY <3>2, CloseBooks DEF ClosedBooks, TypeOK
      <4> QED BY <2>1, <4>1, OutFewer
    <3> QED BY <2>1, <3>1, <3>2 DEF DiscoverEffect
  <2> QED BY <2>1, <2>2, BindingsStay
<1>30. ASSUME NEW g \in Conns, ReaderEnds(g) PROVE Bindings'
  <2>1. BooksOrClose(g) /\ UNCHANGED <<pc, on, op, bound, received>>
    BY <1>30, LoopCloses DEF ReaderEnds
  <2>2. (failed[g] /\ UNCHANGED books) \/ ClosedBooks(g)
    BY <2>1, CloseBooks DEF BooksOrClose, TypeOK
  <2>3. \A h \in Conns : hand'[h] = hand[h] \/ hand'[h] = None
    BY <1>30 DEF ReaderEnds, TypeOK, LoopsTyped
  <2>4. \A h \in Conns : writes'[h] = writes[h] \/ writes'[h] = << >>
    BY <2>2 DEF ClosedBooks
  <2>5. \A b \in Procs : Shrinks(b)
    BY <2>1, <2>3, <2>4, OutFewer
  <2> QED BY <2>1, <2>5, BindingsStay
<1> QED BY <1>1, <1>2, <1>3, <1>4, <1>5, <1>6, <1>7, <1>8, <1>9, <1>10, <1>11, <1>12, <1>13, <1>14, <1>15, <1>16,
    <1>17, <1>18, <1>19, <1>20, <1>21, <1>22, <1>23, <1>24, <1>25, <1>26, <1>27, <1>28, <1>29, <1>30
    DEF Next, Step, Begin, CallerStep, Waiting, OpenerStep, CloseStep, ExchangeStep, WriterStep

LEMMA ClientInitInv == Init => ClientInv
<1> SUFFICES ASSUME Init PROVE ClientInv
  OBVIOUS
<1> USE Distinct DEF Init
<1>1. budget.opens \in Nat /\ budget.notes \in Nat /\ MaxQueued \in Nat /\ Conns = 1..budget.opens
  BY Bounds DEF Conns
<1>2. ClientTyped /\ CallsTyped
  <2>1. ClientTyped
    <3>1. outcome \in [Callers -> {None, "ok", "error"}] /\ told \in [Conns -> Nat]
      OBVIOUS
    <3>2. generation \in 0..budget.opens /\ socket \in 0..generation /\ opens \in 0..budget.opens
      BY <1>1
    <3> QED BY <3>1, <3>2 DEF ClientTyped
  <2>2. pc \in [Procs \cup {Owner} -> {"idle"}] /\ op \in [Callers -> {None}]
    OBVIOUS
  <2>3. on \in [Procs \cup {Owner} -> 0..budget.opens] /\ bound \in [Callers -> 0..budget.opens]
    BY <1>1
  <2> QED BY <2>1, <2>2, <2>3 DEF CallsTyped
<1>3. BooksTyped /\ LoopsTyped
  <2>1. << >> \in Seq(Procs \cup {Note})
    OBVIOUS
  <2> QED BY <1>1, <2>1 DEF BooksTyped, LoopsTyped
<1>4. Openings /\ Sockets /\ Losses /\ Closing
  BY <1>1 DEF Openings, AllFailed, Sockets, Losses, Closing
<1>5. Users /\ OpsAt
  BY <1>1 DEF Users, OpsAt
<1>6. Fresh /\ Drained /\ Hands /\ Calling
  BY <1>1 DEF Fresh, Drained, Hands, Calling, Waits
<1>7. Queues
  <2>1. Len(<< >>) = 0
    OBVIOUS
  <2> QED BY <2>1 DEF Queues
<1>8. \A g \in Conns, a \in Procs : ~Out(a, g)
  BY QueueEmpty DEF Out
<1>9. Sent /\ Bindings
  BY <1>8 DEF Sent, Bindings
<1> QED BY <1>2, <1>3, <1>4, <1>5, <1>6, <1>7, <1>9 DEF ClientInv, TypeOK

LEMMA ClientStepInv == ClientInv /\ [Next]_vars => ClientInv'
<1>1. ASSUME ClientInv, Next PROVE ClientInv'
  <2>1. TypeOK'
    BY <1>1, ClientStep, CallsStep, BooksStep, LoopsStep DEF TypeOK
  <2>2. Openings' /\ Sockets' /\ Losses' /\ Closing' /\ Users'
    BY <1>1, OpeningsStep, SocketsStep, LossesStep, ClosingStep, UsersStep
  <2>3. Fresh' /\ Drained' /\ Hands' /\ Queues'
    BY <1>1, FreshStep, DrainedStep, HandsStep, QueuesStep
  <2>4. OpsAt' /\ Calling' /\ Sent' /\ Bindings'
    BY <1>1, OpsStep, CallingStep, SentStep, BindingsStep
  <2> QED BY <2>1, <2>2, <2>3, <2>4 DEF ClientInv
<1>2. ASSUME ClientInv, UNCHANGED vars PROVE ClientInv'
  <2> USE <1>2 DEF ClientInv, vars, client, call, loops, books, env
  <2>0. Conns' = Conns
    BY DEF Conns
  <2>1. TypeOK' /\ Openings' /\ Sockets' /\ Losses' /\ Closing' /\ Users'
    BY <2>0 DEF TypeOK, ClientTyped, CallsTyped, BooksTyped, LoopsTyped, Openings, AllFailed, Sockets, Losses,
        Closing, Users
  <2>2. Fresh' /\ Drained' /\ Hands' /\ Queues' /\ OpsAt'
    BY <2>0 DEF Fresh, Drained, Hands, Queues, OpsAt
  <2>3. Calling'
    BY <2>0, CallingStays DEF Broadcasts
  <2>4. \A b \in Procs : Shrinks(b)
    BY OutFewer
  <2>5. Sent'
    BY <2>0, <2>4, SentStays
  <2>6. Bindings'
    BY <2>0, <2>4, BindingsStay, Distinct
  <2> QED BY <2>1, <2>2, <2>3, <2>5, <2>6
<1> QED BY <1>1, <1>2

LEMMA ClientInvHolds == Spec => []ClientInv
  BY ClientInitInv, ClientStepInv, PTL DEF Spec

-----------------------------------------------------------------------------
(* RequestOnConnection(): whatever losses, reconnections and callers there  *)
(* are, a mutation bound to a connection reaches the Desktop over no other. *)
THEOREM BoundNeverMigrates == Spec => []NeverMigrates
<1>1. ClientInv => NeverMigrates
  BY Distinct DEF ClientInv, Bindings, Out, NeverMigrates
<1> QED BY <1>1, ClientInvHolds, PTL

(* The client never loses sight of a connection: an admitted one lives or   *)
(* is about to be reported, Close() leaves none open even when it races an  *)
(* opening, a loss is told once and the queued bytes are exact.             *)
THEOREM ConnectionsAreAccounted == Spec => []ConnectionsAccounted
<1>1. ASSUME ClientInv PROVE ConnectionsAccounted
  <2> USE <1>1 DEF ClientInv
  <2>0. budget.opens \in Nat /\ \A g \in 1..generation : g \in Conns
    BY Bounds DEF Conns, TypeOK, ClientTyped
  <2>1. ConnectedToSomething
    <3>1. ASSUME connected, failed[socket] PROVE stage[socket] = "failed"
      <4>1. socket \in 1..generation
        BY <3>1 DEF Sockets, TypeOK, ClientTyped
      <4> QED BY <2>0, <3>1, <4>1 DEF Sockets
    <3> QED BY <3>1 DEF Sockets, ConnectedToSomething
  <2>2. NothingLeaks
    BY DEF NothingLeaks, Sockets, Closing
  <2>3. LossReported
    <3>1. \A g \in Conns : told[g] \in 0..1 => told[g] <= 1
      OBVIOUS
    <3> QED BY <3>1 DEF LossReported, Losses
  <2>4. QueueAccounted
    <3>1. \A g \in Conns : Len(writes[g]) \in Nat
      BY DEF TypeOK, BooksTyped
    <3>2. ASSUME NEW g \in 1..generation, ~failed[g]
          PROVE  queued[g] = Len(writes[g]) + (IF hand[g] = None THEN 0 ELSE 1)
      <4>1. CASE hand[g] = None
        BY <2>0, <3>1, <3>2, <4>1 DEF Queues
      <4>2. CASE hand[g] # None
        BY <2>0, <3>1, <3>2, <4>2 DEF Queues
      <4> QED BY <4>1, <4>2
    <3> QED BY <3>2 DEF QueueAccounted
  <2> QED BY <2>1, <2>2, <2>3, <2>4 DEF ConnectionsAccounted
<1> QED BY <1>1, ClientInvHolds, PTL

(* Input that timed out or was given up in the queue never runs later: the  *)
(* writer begins a call only while its caller waits for the answer.         *)
THEOREM AbandonedNeverWritten == Spec => NoAbandonedWrite
<1>1. ASSUME ClientInv, [Next]_vars
      PROVE  [\A g \in Conns : wpc[g] # "write" /\ wpc'[g] = "write" /\ hand[g] # Note => pc[hand[g]] = "wait"]_vars
  <2> SUFFICES ASSUME NEW g \in Conns, Next, wpc[g] # "write", wpc'[g] = "write", hand[g] # Note
               PROVE  pc[hand[g]] = "wait"
    BY <1>1
  <2>1. WriterChecks(g)
    <3> USE Distinct DEF client, call, loops, books, env, Goto, ClientInv, TypeOK, LoopsTyped
    <3>1. Next => wpc' = wpc \/ Install \/ \E h \in Conns : \/ WriterTakes(h) \/ WriterChecks(h)
                                              \/ WriterWrites(h) \/ WriterFails(h) \/ WriterFinishes(h)
      BY
          DEF Next, Step, Begin, CallerStep, Waiting, OpenerStep, CloseStep, ExchangeStep, WriterStep, Connect,
              ConnectReturns, Request, ConnectionGeneration, RequestOnConnection, Broadcast, DeadlinePasses,
              Register, Enqueue, CallReturns, Leave, SomebodyConnects, BackoffPasses, Dial, Identify, Finish,
              Publish, Close, Closes, HasClosed, OnClose, OnClosed, ReaderAnswers, ReaderDiscovers, ReaderEnds
    <3> QED BY <1>1, <3>1
        DEF Install, InstallIt, WriterTakes, WriterChecks, WriterWrites, WriterFails, WriterFinishes, Written
  <2>2. hand[g] \in pending[g] /\ hand[g] \notin late /\ hand[g] \in Procs
    BY <1>1, <2>1 DEF WriterChecks, Written, Active, ClientInv, TypeOK, LoopsTyped, BooksTyped
  <2>3. pc[hand[g]] \in {"enqueue", "wait", "close"} /\ on[hand[g]] = g
    BY <1>1, <2>2 DEF ClientInv, Calling, Waits, InCall
  <2>4. pc[hand[g]] \in SentAt
    BY <1>1, <2>2, <2>3 DEF ClientInv, Sent, Out
  <2> QED BY <2>3, <2>4 DEF SentAt
<1> QED BY <1>1, ClientInvHolds, PTL DEF Spec, NoAbandonedWrite

-----------------------------------------------------------------------------
(* DesktopAccess.                                                           *)

(* What a request, an entry and a native revision are.                      *)
Resolving == {"resolve", "follow", "entry", "created", "native", "recheck", "history", "recheck idle", "confirm"}
Handing == {"owned", "evidence", "recheck created", "created op"}
Checking == {"op owner", "op connection", "op scope", "op entry"}
Sending == Checking \cup {"op send", "wait", "wait owner"}
Reading == {"discover", "read", "status", "live", "persisted", "previous", "load", "merge"}
Steps == {"idle", "ok", "failed", "scope", "destination", "control", "controlled", "base", "metadata", "publish"}
         \cup Resolving \cup Handing \cup Sending \cup Reading
Clients == Owners \cup {Nobody}
Scopes == Accounts \cup {Nobody, CHOOSE x \in Accounts : TRUE}
Values == Efforts \cup {Nobody, Default}
Accesses == [kind : {Nobody, "unconfirmed", "history", "desktop", "scope"}, scope : Scopes, owner : Clients,
             g : Nat, epoch : Nat, conn : Nat, nat : Nat, hist : Nat, recovery : BOOLEAN, may : SUBSET Ops]
Requests == [pc : Steps, op : Ops \cup {Nobody}, scoped : BOOLEAN,
             ret : {Nobody, "offer", "admit", "destination", "context"}, acc : Accesses, adm : Accesses,
             want : {<< >>} \cup {Binding(a) : a \in Accesses}, owner : Clients, g : Nat, turn : Nat,
             kind : {Nobody, "steer", "start"}, base : Nat, value : Values, recovery : BOOLEAN, key : Nat,
             load : Nat, seenAt : Nat, checkedAt : Nat, quiet : BOOLEAN]
Entries == [owner : Clients, conn : Nat, epoch : Nat, rev : Nat, evidence : Nat, load : Nat, snaps : SUBSET Nat]
Revisions == [owner : Clients, turn : Nat, active : BOOLEAN, effort : Values, fallback : Values,
              wrote : {"all", "nothing", "effort", "fallback", "message"}]
Loads == [g : Nat, key : Nat, st : {"running", "done", "failed"}]

World ==
  /\ cur \in Nat /\ ent \in Seq(Entries) /\ seen \in BOOLEAN
  /\ conn \in Nat /\ conns \in Nat /\ lost \in BOOLEAN
  /\ owner \in Clients /\ log \in Seq(Revisions) /\ Len(log) >= 1
  /\ account \in Scopes /\ record \in {"none", "created", "recovered"}
  /\ exec \in [gen : Nat, live : BOOLEAN, active : BOOLEAN] /\ hist \in [status : Statuses, n : Nat]
  /\ loads \in Seq(Loads)
  /\ changes \in [jobs : [Requesters -> SUBSET (Ops \X BOOLEAN)], left : [Changes -> Nat]]
Types == World /\ caller \in [Requesters -> Requests]

(* Only the newest entry is in the table; what the owner wrote last is its  *)
(* own; and a revision says which setting it changed.                       *)
Current == cur = 0 \/ cur = Len(ent)
Owning == owner # Nobody => log[Last].owner = owner
Logged ==
  \A r \in 1..Len(log) : r > 1 =>
    /\ log[r].wrote # "effort" => log[r].effort = log[r - 1].effort
    /\ log[r].wrote # "fallback" => log[r].fallback = log[r - 1].fallback

(* The setting that an entry shows was reported by its owner, at or after   *)
(* the revision it has evidence for.                                        *)
Shows(e) ==
  \E r \in e.evidence..e.rev : Reports(r, e) /\ Effective(r) = Effective(e.rev) /\ log[r].owner = e.owner
Followed == \A g \in 1..Len(ent) :
  /\ ent[g].rev \in 1..Len(log) /\ ent[g].evidence \in 1..ent[g].rev /\ Shows(ent[g])
  /\ ent[g].load \in 0..Len(loads)

(* A running history read is the one its entry names.                       *)
Loading == \A k \in 1..Len(loads) :
  /\ loads[k].g \in 1..Len(ent)
  /\ loads[k].st = "running" => ent[loads[k].g].load = k

(* The entry g has shown the same turn since its epoch n was seen with the  *)
(* revision r.                                                              *)
Kept(g, n, r) ==
  g # 0 => /\ g \in 1..Len(ent) /\ r \in 1..Len(log) /\ n <= ent[g].epoch
           /\ n = ent[g].epoch => Identity(ent[g].rev) = Identity(r)

(* The bindings of a request, from the offer to the dispatch.               *)
Offered(c) ==
  /\ c.ret = "offer" => c.adm.g = 0 /\ Kept(c.acc.g, c.acc.epoch, c.seenAt)
  /\ c.ret \in {"admit", "destination", "context"} =>
       \E a \in Accesses : c.want = Binding(a) /\ Kept(a.g, a.epoch, c.seenAt)
  /\ Kept(c.adm.g, c.adm.epoch, c.seenAt)
  /\ c.ret \in {"destination", "context"} => c.want = Binding(c.adm)
  /\ c.ret = "context" => c.adm.owner = Nobody /\ Reachable(c.adm) /\ c.op \in c.adm.may

(* A send is chosen for the turn the client saw, as long as it matters.     *)
Chosen(c) ==
  /\ c.scoped /\ c.op = "send" /\ c.pc \in Checking /\ c.adm.g # 0 /\ cur = c.adm.g /\ ent[cur].epoch = c.adm.epoch
       => (c.kind = "steer" <=> log[c.seenAt].active)
  /\ c.pc \in {"op scope", "op entry"} => c.adm.g # 0
  /\ c.scoped /\ c.pc = "op send" =>
       /\ c.checkedAt \in 1..Len(log) /\ c.seenAt \in 1..Len(log)
       /\ Identity(c.checkedAt) = Identity(c.seenAt)
       /\ c.op = "send" => (c.kind = "steer" <=> log[c.checkedAt].active)

(* Nobody owned the task when a writer of the created scope was allowed.    *)
Unowned(c) ==
  /\ c.pc \in {"recheck", "recheck idle", "recheck created"} /\ owner = Nobody => c.quiet
  /\ c.pc = "history" /\ c.acc.nat # 0 => c.quiet
  /\ c.pc = "confirm" /\ (c.acc.nat # 0 \/ c.acc.recovery) => c.quiet
  /\ c.pc = "created op" => c.quiet

(* What a request has found out by the step it is at.                       *)
Resolved(c) ==
  /\ c.pc \in Resolving \ {"confirm"} => ~c.acc.recovery
  /\ c.pc \in {"resolve", "follow", "entry", "created", "native"} => c.acc.nat = 0
  /\ c.acc.recovery => "stop" \notin c.acc.may
  /\ c.adm.recovery => "stop" \notin c.adm.may
  /\ c.op = "stop" => ~c.recovery
  /\ c.pc = "evidence" => c.op # "stop"

Placed(c) ==
  /\ c.pc = "idle" => c = [Idle EXCEPT !.quiet = c.quiet]
  /\ c.pc \in {"scope"} \cup Resolving \cup Handing => c.owner = Nobody
  /\ c.pc = "follow" => c.acc.owner # Nobody
  /\ c.pc \in {"control", "read"} => c.owner # Nobody
  /\ c.pc \in {"entry", "controlled"} \cup (Reading \ {"discover", "read"}) => c.g \in 1..Len(ent)
  /\ c.pc \in Reading \cup {"metadata", "publish"} => c.op # "settings"
  /\ c.pc = "base" => c.op # "send"

(* A settings change waits on an entry of the owner it was sent to.         *)
Settling(c) ==
  /\ c.op = "settings" /\ c.pc \in Sending => c.g \in 1..Len(ent) /\ ent[c.g].owner = c.owner
  /\ c.pc \in {"wait", "wait owner"} => c.op = "settings"
  /\ c.pc = "wait owner" \/ (c.pc = "ok" /\ c.op = "settings" /\ c.owner # Nobody) =>
       /\ c.g \in 1..Len(ent)
       /\ \E r \in 1..Len(log) : /\ r > c.base /\ Reports(r, ent[c.g]) /\ Effective(r) = c.value
                                 /\ log[r].owner = c.owner

Merging(c) == c.pc \in {"load", "merge"} => c.load \in 1..Len(loads) /\ loads[c.load].key = c.key

Proper(c) ==
  Offered(c) /\ Chosen(c) /\ Unowned(c) /\ Resolved(c) /\ Placed(c) /\ Settling(c) /\ Merging(c)

Shelf == Current /\ Owning /\ Logged /\ Followed /\ Loading
AccessInv == Types /\ Shelf /\ \A p \in Requesters : Proper(caller[p])

-----------------------------------------------------------------------------
(* Whatever happens, revisions, entries and reads are only added: an entry  *)
(* keeps its owner and, within an epoch, its turn, and one that has left    *)
(* the table does not return.                                               *)
Grows ==
  /\ Len(log) <= Len(log') /\ \A r \in 1..Len(log) : log'[r] = log[r]
  /\ Len(ent) <= Len(ent')
  /\ \A g \in 1..Len(ent) :
       /\ ent'[g].owner = ent[g].owner /\ ent[g].snaps \subseteq ent'[g].snaps
       /\ ent[g].epoch <= ent'[g].epoch
       /\ ent'[g].epoch = ent[g].epoch =>
            /\ log'[ent'[g].rev].turn = log[ent[g].rev].turn
            /\ log'[ent'[g].rev].active = log[ent[g].rev].active
  /\ cur' = cur \/ cur' = 0 \/ cur' > Len(ent)
  /\ Len(loads) <= Len(loads') /\ \A k \in 1..Len(loads) : loads'[k].key = loads[k].key

(* The sequences, element by element.                                       *)
Sized ==
  /\ Len(ent) \in Nat /\ Len(log) \in Nat /\ Len(loads) \in Nat
  /\ \A g \in 1..Len(ent) : ent[g] \in Entries
  /\ \A r \in 1..Len(log) : log[r] \in Revisions
  /\ \A k \in 1..Len(loads) : loads[k] \in Loads
LEMMA Sizes == Types => Sized
BY DEF Types, World, Sized
LEMMA SizesNext == Types' => Sized'
BY DEF Types, World, Sized

LEMMA KeptGrows ==
  ASSUME Types, Types', Followed, Grows, NEW g \in Nat, NEW n \in Nat, NEW r \in Nat, Kept(g, n, r)
  PROVE  Kept(g, n, r)'
<1> SUFFICES ASSUME g # 0
             PROVE  /\ g \in 1..Len(ent') /\ r \in 1..Len(log') /\ n <= ent'[g].epoch
                    /\ n = ent'[g].epoch => Identity(ent[g].rev)' = Identity(r)'
  BY DEF Kept
<1>1. g \in 1..Len(ent) /\ r \in 1..Len(log) /\ n <= ent[g].epoch
  BY DEF Kept
<1>2. ent[g].epoch \in Nat /\ ent'[g].epoch \in Nat /\ Len(ent) \in Nat /\ Len(ent') \in Nat /\ Len(log) \in Nat /\ Len(log') \in Nat
  <2>1. g \in 1..Len(ent') /\ ent[g] \in Entries
    BY <1>1, Sizes, SizesNext DEF Sized, Grows
  <2>2. ent'[g] \in Entries
    BY <2>1, SizesNext DEF Sized
  <2> QED BY <2>1, <2>2, Sizes, SizesNext DEF Sized, Entries
<1>3. g \in 1..Len(ent') /\ r \in 1..Len(log') /\ n <= ent'[g].epoch
  <2>1. Len(log) <= Len(log') /\ Len(ent) <= Len(ent') /\ ent[g].epoch <= ent'[g].epoch
    BY <1>1 DEF Grows
  <2> QED BY <1>1, <1>2, <2>1
<1>4. ASSUME n = ent'[g].epoch PROVE Identity(ent[g].rev)' = Identity(r)'
  <2>1. ent[g].epoch = n
    BY <1>1, <1>2, <1>4 DEF Grows
  <2>2. Identity(ent[g].rev) = Identity(r)
    BY <1>1, <2>1 DEF Kept
  <2> QED BY <1>1, <1>4, <2>1, <2>2 DEF Grows, Identity
<1> QED BY <1>3, <1>4

LEMMA RequestGrows ==
  ASSUME Types, Types', Followed, Grows, NEW c \in Requests, Proper(c), owner' = Nobody => owner = Nobody \/ c.quiet
  PROVE  Proper(c)'
<1>0. /\ Len(ent) \in Nat /\ Len(ent') \in Nat /\ Len(log) \in Nat /\ Len(log') \in Nat
      /\ Len(loads) \in Nat /\ Len(loads') \in Nat /\ Len(ent) <= Len(ent') /\ Len(log) <= Len(log') /\ Len(loads) <= Len(loads')
  BY Sizes, SizesNext DEF Sized, Grows
<1>00. \A r \in 1..Len(log) : r \in 1..Len(log')
  BY <1>0
<1>1. Offered(c)'
  <2>1. /\ c.acc.g \in Nat /\ c.acc.epoch \in Nat /\ c.adm.g \in Nat /\ c.adm.epoch \in Nat /\ c.seenAt \in Nat
        /\ \A a \in Accesses : a.g \in Nat /\ a.epoch \in Nat
    BY DEF Requests, Accesses
  <2>2. \A a \in Accesses : Kept(a.g, a.epoch, c.seenAt) => Kept(a.g, a.epoch, c.seenAt)'
    BY <2>1, KeptGrows
  <2>3. Kept(c.acc.g, c.acc.epoch, c.seenAt) => Kept(c.acc.g, c.acc.epoch, c.seenAt)'
    BY <2>1, KeptGrows
  <2>4. Kept(c.adm.g, c.adm.epoch, c.seenAt) => Kept(c.adm.g, c.adm.epoch, c.seenAt)'
    BY <2>1, KeptGrows
  <2> QED BY <2>2, <2>3, <2>4 DEF Proper, Offered, Reachable, Binding
<1>2. Chosen(c)'
  <2>1. ASSUME c.scoped, c.op = "send", c.pc \in Checking, c.adm.g # 0, cur' = c.adm.g, ent'[cur'].epoch = c.adm.epoch
        PROVE  c.kind = "steer" <=> log'[c.seenAt].active
    <3>1. c.adm.g \in 1..Len(ent) /\ c.seenAt \in 1..Len(log) /\ c.adm.epoch <= ent[c.adm.g].epoch
      BY <2>1 DEF Proper, Offered, Kept
    <3>2. cur = c.adm.g
      <4>1. cur' = cur \/ cur' = 0 \/ cur' > Len(ent)
        BY DEF Grows
      <4> QED BY <2>1, <3>1, <1>0, <4>1
    <3>3. ent[cur].epoch \in Nat /\ ent'[cur].epoch \in Nat /\ c.adm.epoch \in Nat
      <4>1. cur \in 1..Len(ent) /\ cur \in 1..Len(ent')
        BY <3>1, <3>2, <1>0
      <4>2. ent[cur] \in Entries /\ ent'[cur] \in Entries
        BY <4>1, Sizes, SizesNext DEF Sized
      <4> QED BY <4>2 DEF Entries, Requests, Accesses
    <3>4. ent[cur].epoch = c.adm.epoch
      BY <2>1, <3>1, <3>2, <3>3, SMTT(40) DEF Grows
    <3> QED BY <2>1, <3>1, <3>2, <3>4 DEF Proper, Chosen, Grows
  <2>2. c.scoped /\ c.pc = "op send" =>
          /\ c.checkedAt \in 1..Len(log') /\ c.seenAt \in 1..Len(log')
          /\ Identity(c.checkedAt)' = Identity(c.seenAt)'
          /\ c.op = "send" => (c.kind = "steer" <=> log'[c.checkedAt].active)
    <3> SUFFICES ASSUME c.scoped, c.pc = "op send"
                 PROVE  /\ c.checkedAt \in 1..Len(log') /\ c.seenAt \in 1..Len(log')
                        /\ Identity(c.checkedAt)' = Identity(c.seenAt)'
                        /\ c.op = "send" => (c.kind = "steer" <=> log'[c.checkedAt].active)
      OBVIOUS
    <3>0. c.checkedAt \in 1..Len(log) /\ c.seenAt \in 1..Len(log)
      BY DEF Proper, Chosen
    <3>1. /\ Identity(c.checkedAt) = Identity(c.seenAt)
          /\ c.op = "send" => (c.kind = "steer" <=> log[c.checkedAt].active)
      BY DEF Proper, Chosen
    <3>2. log'[c.checkedAt] = log[c.checkedAt] /\ log'[c.seenAt] = log[c.seenAt]
      BY <3>0 DEF Grows
    <3>3. c.checkedAt \in 1..Len(log') /\ c.seenAt \in 1..Len(log')
      BY <1>00, <3>0, Zenon
    <3>4. Identity(c.checkedAt)' = Identity(c.seenAt)'
      BY <3>1, <3>2 DEF Identity
    <3>5. c.op = "send" => (c.kind = "steer" <=> log'[c.checkedAt].active)
      BY <3>1, <3>2
    <3> QED BY <3>3, <3>4, <3>5
  <2> QED BY <2>1, <2>2 DEF Proper, Chosen
<1>3. Unowned(c)'
  BY DEF Proper, Unowned
<1>4. Resolved(c)'
  BY DEF Proper, Resolved
<1>5. Placed(c)'
  <2>1. c.g \in 1..Len(ent) => c.g \in 1..Len(ent')
    BY <1>0
  <2> USE DEF Proper, Placed
  <2>2. c.pc \in {"entry", "controlled"} \cup (Reading \ {"discover", "read"}) => c.g \in 1..Len(ent')
    BY <2>1
  <2> QED BY <2>2, Zenon
<1>6. Settling(c)'
  <2>1. c.op = "settings" /\ c.pc \in Sending => c.g \in 1..Len(ent') /\ ent'[c.g].owner = c.owner
    <3>1. c.g \in 1..Len(ent) => c.g \in 1..Len(ent') /\ ent'[c.g].owner = ent[c.g].owner
      BY <1>0 DEF Grows
    <3> QED BY <3>1 DEF Proper, Settling
  <2>2. ASSUME c.pc = "wait owner" \/ (c.pc = "ok" /\ c.op = "settings" /\ c.owner # Nobody)
        PROVE  /\ c.g \in 1..Len(ent')
               /\ \E r \in 1..Len(log') : /\ r > c.base /\ Reports(r, ent[c.g])' /\ Effective(r)' = c.value
                                          /\ log'[r].owner = c.owner
    <3>1. PICK r \in 1..Len(log) : r > c.base /\ Reports(r, ent[c.g]) /\ Effective(r) = c.value /\ log[r].owner = c.owner
      BY <2>2 DEF Proper, Settling
    <3>2. c.g \in 1..Len(ent)
      BY <2>2 DEF Proper, Settling
    <3>3. log'[r] = log[r] /\ ent[c.g].snaps \subseteq ent'[c.g].snaps
      BY <3>1, <3>2 DEF Grows
    <3>4. Reports(r, ent[c.g])' /\ Effective(r)' = c.value
      BY <3>1, <3>3 DEF Reports, Effective
    <3> QED BY <3>1, <3>2, <3>3, <3>4, <1>0
  <2> QED BY <2>1, <2>2 DEF Proper, Settling
<1>7. Merging(c)'
  BY <1>0 DEF Proper, Merging, Grows
<1> QED BY <1>1, <1>2, <1>3, <1>4, <1>5, <1>6, <1>7 DEF Proper

(* A request moves on, while the world it is in grows.                      *)
Evolves == World' /\ Shelf' /\ Grows /\ (owner' = Nobody => owner = Nobody)

LEMMA Moves ==
  ASSUME AccessInv, NEW p \in Requesters, NEW d \in Requests, Set(p, d), Evolves, Proper(d)'
  PROVE  AccessInv'
<1>0. Types'
  BY DEF AccessInv, Types, Set, Evolves
<1> SUFFICES ASSUME NEW q \in Requesters PROVE Proper(caller[q])'
  BY <1>0 DEF AccessInv, Evolves
<1>1. CASE q = p
  <2>1. caller'[q] = d
    BY <1>1 DEF Set, AccessInv, Types
  <2> QED BY <2>1
<1>2. CASE q # p
  <2>1. PICK c \in Requests : c = caller[q]
    BY DEF AccessInv, Types
  <2>2. caller'[q] = c
    BY <1>2, <2>1 DEF Set, AccessInv, Types
  <2>3. Proper(c)'
    BY <1>0, <2>1, RequestGrows DEF AccessInv, Shelf, Evolves
  <2> QED BY <2>2, <2>3
<1> QED BY <1>1, <1>2

LEMMA Turns ==
  ASSUME AccessInv, NEW p \in Requesters, NEW d \in Requests, Set(p, d), Evolves, Proper(d)
  PROVE  AccessInv'
<1>1. Types'
  BY DEF AccessInv, Types, Set, Evolves
<1>2. Proper(d)'
  BY <1>1, RequestGrows DEF AccessInv, Shelf, Evolves
<1> QED BY <1>2, Moves

(* An entry stands as long as the revisions behind it do.                   *)
Stands(e) == e.rev \in 1..Len(log) /\ e.evidence \in 1..e.rev /\ Shows(e)
Extends == Len(log) \in Nat /\ Len(log') \in Nat /\ Len(log) <= Len(log') /\ \A r \in 1..Len(log) : log'[r] = log[r]

LEMMA StandsStill ==
  ASSUME NEW e \in Entries, NEW f \in Entries, Extends, Stands(e),
         f.owner = e.owner, f.rev = e.rev, f.evidence = e.evidence, f.snaps = e.snaps
  PROVE  Stands(f)'
<1>0. e.rev \in Nat /\ e.evidence \in Nat /\ e.rev \in 1..Len(log) /\ e.evidence \in 1..e.rev
  BY DEF Entries, Stands
<1>1. PICK r \in e.evidence..e.rev : Reports(r, e) /\ Effective(r) = Effective(e.rev) /\ log[r].owner = e.owner
  BY DEF Stands, Shows
<1>2. r \in 1..Len(log)
  BY <1>0, Extends DEF Extends
<1>3. log'[r] = log[r] /\ log'[e.rev] = log[e.rev]
  BY <1>0, <1>2 DEF Extends
<1>4. Reports(r, f)' /\ Effective(r)' = Effective(f.rev)' /\ log'[r].owner = f.owner
  BY <1>1, <1>3 DEF Reports, Effective
<1>5. r \in f.evidence..f.rev /\ f.rev \in 1..Len(log') /\ f.evidence \in 1..f.rev
  BY <1>0, <1>1 DEF Extends
<1> QED BY <1>4, <1>5 DEF Stands, Shows

LEMMA EntriesStand == AccessInv => \A g \in 1..Len(ent) : Stands(ent[g])
BY DEF AccessInv, Shelf, Followed, Stands

(* The entries of the next state, each one old or standing on its own.      *)
LEMMA FollowedNext ==
  ASSUME AccessInv, World', Extends, Len(loads) <= Len(loads'),
         \A g \in 1..Len(ent') : /\ ent'[g].load \in 0..Len(loads')
                                 /\ \/ /\ g \in 1..Len(ent) /\ ent'[g].owner = ent[g].owner /\ ent'[g].rev = ent[g].rev
                                       /\ ent'[g].evidence = ent[g].evidence /\ ent'[g].snaps = ent[g].snaps
                                    \/ \E e \in Entries : e = ent'[g] /\ Stands(e)'
  PROVE  Followed'
<1> SUFFICES ASSUME NEW g \in 1..Len(ent')
             PROVE  /\ ent'[g].rev \in 1..Len(log') /\ ent'[g].evidence \in 1..ent'[g].rev /\ Shows(ent[g])'
                    /\ ent'[g].load \in 0..Len(loads')
  BY DEF Followed
<1>1. PICK f \in Entries : f = ent'[g]
  BY DEF World
<1>2. Stands(f)'
  <2>1. CASE \E e \in Entries : e = ent'[g] /\ Stands(e)'
    BY <1>1, <2>1
  <2>2. CASE /\ g \in 1..Len(ent) /\ ent'[g].owner = ent[g].owner /\ ent'[g].rev = ent[g].rev
             /\ ent'[g].evidence = ent[g].evidence /\ ent'[g].snaps = ent[g].snaps
    <3>1. PICK e \in Entries : e = ent[g]
      BY <2>2, Sizes DEF AccessInv, Sized
    <3>2. Stands(e)
      BY <2>2, <3>1, EntriesStand
    <3> QED BY <1>1, <2>2, <3>1, <3>2, StandsStill
  <2> QED BY <2>1, <2>2
<1>3. f.rev \in 1..Len(log') /\ f.evidence \in 1..f.rev /\ Shows(f)'
  BY <1>2 DEF Stands
<1>4. Shows(ent[g])'
  BY <1>1, <1>3 DEF Shows
<1> QED BY <1>1, <1>3, <1>4

(* One entry is replaced.                                                   *)
LEMMA Replaced ==
  ASSUME AccessInv, NEW g \in 1..Len(ent), NEW e \in Entries, ent' = [ent EXCEPT ![g] = e]
  PROVE  /\ ent' \in Seq(Entries) /\ Len(ent') = Len(ent) /\ ent'[g] = e
         /\ \A k \in 1..Len(ent) : k # g => ent'[k] = ent[k]
BY DEF AccessInv, Types, World

LEMMA Rests ==
  ASSUME AccessInv, UNCHANGED <<cur, ent, native, loads>>, World'
  PROVE  Evolves
<1> USE DEF native
<1>1. Sized
  BY Sizes DEF AccessInv
<1>2. Current' /\ Owning' /\ Logged' /\ Loading'
  BY DEF AccessInv, Shelf, Current, Owning, Logged, Loading, Last
<1>3. Followed'
  <2>1. Extends /\ Len(loads) <= Len(loads')
    BY <1>1 DEF Extends, Sized
  <2> QED BY <2>1, FollowedNext DEF AccessInv, Shelf, Followed
<1>4. Grows
  BY <1>1 DEF Grows, Sized, Entries
<1> QED BY <1>2, <1>3, <1>4 DEF Evolves, Shelf

(* A request moves alone.                                                   *)
LEMMA Alone ==
  ASSUME AccessInv, UNCHANGED <<followers, link, native, outside, loads, changes>>
  PROVE  Evolves
<1>1. World'
  BY DEF AccessInv, Types, World, followers, link, native, outside
<1> QED BY <1>1, Rests DEF followers

(* The newest entry is replaced by one of the same owner and connection.    *)
LEMMA Renewed ==
  ASSUME AccessInv, World', NEW e \in Entries, cur # 0, ent' = [ent EXCEPT ![cur] = e], UNCHANGED <<cur, native, loads>>,
         e.owner = ent[cur].owner, ent[cur].snaps \subseteq e.snaps, ent[cur].epoch <= e.epoch, e.load = ent[cur].load,
         e.epoch = ent[cur].epoch => Identity(e.rev) = Identity(ent[cur].rev), Stands(e)
  PROVE  Evolves
<1> USE DEF native
<1>0. Sized /\ Current /\ Types
  BY Sizes DEF AccessInv, Shelf
<1>1. cur \in 1..Len(ent)
  BY <1>0 DEF Sized, Current, Types, World
<1>2. /\ Len(ent') = Len(ent) /\ ent'[cur] = e
      /\ \A k \in 1..Len(ent) : k # cur => ent'[k] = ent[k]
  BY <1>1, Replaced
<1>3. Current' /\ Owning' /\ Logged'
  BY <1>2 DEF AccessInv, Shelf, Current, Owning, Logged, Last
<1>4. Loading'
  BY <1>2 DEF AccessInv, Shelf, Loading
<1>5. Followed'
  <2>1. Extends /\ Len(loads) <= Len(loads')
    BY <1>0 DEF Extends, Sized
  <2>2. Stands(e)'
    BY <2>1, StandsStill
  <2>3. \A g \in 1..Len(ent) : ent'[g].load = ent[g].load
    BY <1>2
  <2>4. \A g \in 1..Len(ent) : ent[g].load \in 0..Len(loads)
    BY DEF AccessInv, Shelf, Followed
  <2> QED BY <1>2, <2>1, <2>2, <2>3, <2>4, FollowedNext
<1>6. Grows
  <2>1. \A g \in 1..Len(ent) :
       /\ ent'[g].owner = ent[g].owner /\ ent[g].snaps \subseteq ent'[g].snaps
       /\ ent[g].epoch <= ent'[g].epoch
       /\ ent'[g].epoch = ent[g].epoch =>
            /\ log'[ent'[g].rev].turn = log[ent[g].rev].turn
            /\ log'[ent'[g].rev].active = log[ent[g].rev].active
    <3> SUFFICES ASSUME NEW g \in 1..Len(ent)
                 PROVE  /\ ent'[g].owner = ent[g].owner /\ ent[g].snaps \subseteq ent'[g].snaps
                        /\ ent[g].epoch <= ent'[g].epoch
                        /\ ent'[g].epoch = ent[g].epoch =>
                             /\ log'[ent'[g].rev].turn = log[ent[g].rev].turn
                             /\ log'[ent'[g].rev].active = log[ent[g].rev].active
      OBVIOUS
    <3>1. CASE g = cur
      BY <1>2, <3>1 DEF Identity
    <3>2. CASE g # cur
      <4>1. ent[g].epoch \in Nat
        BY <1>0 DEF Sized, Entries
      <4> QED BY <1>2, <3>2, <4>1
    <3> QED BY <3>1, <3>2
  <2> QED BY <1>0, <1>2, <2>1 DEF Grows, Sized
<1> QED BY <1>3, <1>4, <1>5, <1>6 DEF Evolves, Shelf

(* The answer of a discovery may end the epoch of the newest entry.         *)
LEMMA Asks ==
  ASSUME AccessInv, AskOwner
  PROVE  Evolves
<1> USE DEF AskOwner
<1>0. Sized /\ Types /\ Current
  BY Sizes DEF AccessInv, Shelf
<1>1. conn' \in Nat /\ conns' \in Nat /\ seen' \in BOOLEAN
  BY <1>0 DEF Types, World
<1>2. CASE cur # 0 /\ ent[cur].owner # owner
  <2>1. cur \in 1..Len(ent)
    BY <1>0, <1>2 DEF Sized, Current, Types, World
  <2>2. PICK e \in Entries : e = ent[cur]
    BY <1>0, <2>1 DEF Sized
  <2> DEFINE f == [e EXCEPT !.epoch = e.epoch + 1]
  <2>3. e.epoch \in Nat
    BY DEF Entries
  <2>4. f \in Entries /\ f.epoch = e.epoch + 1
    BY <2>3 DEF Entries
  <2>5. f.owner = e.owner /\ f.rev = e.rev /\ f.evidence = e.evidence /\ f.snaps = e.snaps /\ f.load = e.load
    BY DEF Entries
  <2>6. ent' = [ent EXCEPT ![cur] = f]
    BY <1>2, <2>1, <2>2, <1>0 DEF Types, World
  <2> HIDE DEF f
  <2>7. World'
    <3>1. ent' \in Seq(Entries)
      BY <2>1, <2>4, <2>6, Replaced
    <3> QED BY <1>0, <1>1, <3>1 DEF Types, World, native, outside
  <2>8. Stands(f)
    <3>1. Stands(e)
      BY <2>1, <2>2, EntriesStand
    <3> QED BY <2>5, <3>1 DEF Stands, Shows, Reports
  <2>9. e.epoch <= f.epoch /\ f.epoch # e.epoch
    BY <2>3, <2>4
  <2> QED BY <1>2, <2>2, <2>4, <2>5, <2>6, <2>7, <2>8, <2>9, Renewed
<1>3. CASE ~(cur # 0 /\ ent[cur].owner # owner)
  <2>1. ent' = ent
    BY <1>3
  <2>2. World'
    BY <1>0, <1>1, <2>1 DEF Types, World, native, outside
  <2>3. cur' = cur /\ native' = native /\ loads' = loads
    OBVIOUS
  <2> QED BY <2>1, <2>2, <2>3, Rests
<1> QED BY <1>2, <1>3

(* A native revision is added.                                              *)
LEMMA RevisionWritten ==
  ASSUME AccessInv, World', NEW v \in Revisions, log' = Append(log, v), UNCHANGED <<cur, ent, loads>>,
         owner' = Nobody => owner = Nobody, owner' # Nobody => v.owner = owner',
         v.wrote # "effort" => v.effort = log[Last].effort, v.wrote # "fallback" => v.fallback = log[Last].fallback
  PROVE  Evolves
<1>0. Sized /\ Types /\ Len(log) >= 1
  BY Sizes DEF AccessInv, Types, World
<1>1. /\ Len(log') = Len(log) + 1 /\ log'[Len(log) + 1] = v
      /\ \A r \in 1..Len(log) : log'[r] = log[r]
  BY <1>0 DEF Types, World
<1>2. Extends
  BY <1>0, <1>1 DEF Extends, Sized
<1>3. Current' /\ Owning' /\ Loading'
  BY <1>1 DEF AccessInv, Shelf, Current, Owning, Loading, Last
<1>4. Logged'
  <2> SUFFICES ASSUME NEW r \in 1..Len(log'), r > 1
               PROVE  /\ log'[r].wrote # "effort" => log'[r].effort = log'[r - 1].effort
                      /\ log'[r].wrote # "fallback" => log'[r].fallback = log'[r - 1].fallback
    BY DEF Logged
  <2>1. CASE r \in 1..Len(log)
    <3>1. r - 1 \in 1..Len(log)
      BY <1>0, <2>1 DEF Sized
    <3> QED BY <1>1, <2>1, <3>1 DEF AccessInv, Shelf, Logged
  <2>2. CASE r = Len(log) + 1
    <3>1. r - 1 = Len(log) /\ Len(log) \in 1..Len(log)
      BY <1>0, <2>2 DEF Sized
    <3> QED BY <1>1, <2>2, <3>1 DEF Last
  <2> QED BY <1>0, <1>1, <2>1, <2>2 DEF Sized
<1>5. Followed'
  <2>1. Len(loads) <= Len(loads')
    BY <1>0 DEF Sized
  <2>2. \A g \in 1..Len(ent) : ent[g].load \in 0..Len(loads)
    BY DEF AccessInv, Shelf, Followed
  <2> QED BY <1>2, <2>1, <2>2, FollowedNext
<1>6. Grows
  <2>1. \A g \in 1..Len(ent) : log'[ent[g].rev] = log[ent[g].rev] /\ ent[g].epoch <= ent[g].epoch
    BY <1>0, <1>1 DEF AccessInv, Shelf, Followed, Sized, Entries
  <2>2. Len(log) <= Len(log') /\ Len(ent) <= Len(ent) /\ Len(loads) <= Len(loads)
    BY <1>0, <1>1 DEF Sized
  <2>3. ent' = ent /\ cur' = cur /\ loads' = loads
    OBVIOUS
  <2> QED BY <1>1, <2>1, <2>2, <2>3 DEF Grows
<1> QED BY <1>3, <1>4, <1>5, <1>6 DEF Evolves, Shelf

(* A new entry takes the place of the one in the table.                     *)
LEMMA Opened ==
  ASSUME AccessInv, World', NEW e \in Entries, ent' = Append(ent, e), cur' = Len(ent) + 1, UNCHANGED <<native, loads>>,
         e.load = 0, Stands(e)
  PROVE  Evolves
<1> USE DEF native
<1>0. Sized /\ Types
  BY Sizes DEF AccessInv
<1>1. /\ Len(ent') = Len(ent) + 1 /\ ent'[Len(ent) + 1] = e
      /\ \A g \in 1..Len(ent) : ent'[g] = ent[g]
  BY <1>0 DEF Types, World
<1>2. Current' /\ Owning' /\ Logged'
  BY <1>1 DEF AccessInv, Shelf, Current, Owning, Logged, Last
<1>3. Loading'
  <2> SUFFICES ASSUME NEW k \in 1..Len(loads)
               PROVE  loads[k].g \in 1..Len(ent') /\ (loads[k].st = "running" => ent'[loads[k].g].load = k)
    BY DEF Loading
  <2>1. loads[k].g \in 1..Len(ent) /\ (loads[k].st = "running" => ent[loads[k].g].load = k)
    BY DEF AccessInv, Shelf, Loading
  <2>2. loads[k].g \in 1..Len(ent')
    BY <1>0, <1>1, <2>1 DEF Sized
  <2> QED BY <1>1, <2>1, <2>2
<1>4. Followed'
  <2>1. Extends /\ Len(loads) \in Nat
    BY <1>0 DEF Extends, Sized
  <2>2. Stands(e)'
    BY <2>1, StandsStill
  <2>3. \A g \in 1..Len(ent') : g \in 1..Len(ent) \/ g = Len(ent) + 1
    BY <1>0, <1>1 DEF Sized
  <2>4. \A g \in 1..Len(ent) : ent[g].load \in 0..Len(loads)
    BY DEF AccessInv, Shelf, Followed
  <2>5. \A g \in 1..Len(ent') : ent'[g].load \in 0..Len(loads')
    BY <1>1, <2>1, <2>3, <2>4
  <2>6. Len(loads) <= Len(loads')
    BY <2>1
  <2> QED BY <1>1, <2>1, <2>2, <2>3, <2>5, <2>6, FollowedNext
<1>5. Grows
  <2>1. \A g \in 1..Len(ent) : ent[g].epoch <= ent[g].epoch
    BY <1>0, SMTT(40) DEF Sized, Entries
  <2> QED BY <1>0, <1>1, <2>1 DEF Grows, Sized
<1> QED BY <1>2, <1>3, <1>4, <1>5 DEF Evolves, Shelf

(* The entry leaves the table.                                              *)
LEMMA Left ==
  ASSUME AccessInv, World', cur' = 0, UNCHANGED <<ent, native, loads>>
  PROVE  Evolves
<1> USE DEF native
<1>0. Sized
  BY Sizes DEF AccessInv
<1>1. Current' /\ Owning' /\ Logged' /\ Loading'
  BY DEF AccessInv, Shelf, Current, Owning, Logged, Loading, Last
<1>2. Followed'
  <2>1. Extends /\ Len(loads) <= Len(loads')
    BY <1>0 DEF Extends, Sized
  <2> QED BY <2>1, FollowedNext DEF AccessInv, Shelf, Followed
<1>3. Grows
  <2>1. \A g \in 1..Len(ent) : ent[g].epoch <= ent[g].epoch
    BY <1>0 DEF Sized, Entries
  <2> QED BY <1>0, <2>1 DEF Grows, Sized
<1> QED BY <1>1, <1>2, <1>3 DEF Evolves, Shelf

(* An entry names another history read, and Loading holds again.            *)
LEMMA Reloaded ==
  ASSUME AccessInv, World', NEW g \in 1..Len(ent), NEW n \in Nat, ent' = [ent EXCEPT ![g].load = n], UNCHANGED <<cur,
        native>>,
         Len(loads) <= Len(loads'), \A k \in 1..Len(loads) : loads'[k].key = loads[k].key,
         n <= Len(loads'), Loading'
  PROVE  Evolves
<1> USE DEF native
<1>0. Sized /\ Types /\ Sized'
  BY Sizes, SMTT(40) DEF AccessInv, Types, World, Sized
<1>1. PICK e \in Entries : e = ent[g]
  BY <1>0 DEF Sized
<1> DEFINE f == [e EXCEPT !.load = n]
<1>2. f \in Entries
  BY DEF Entries
<1>3. /\ f.owner = e.owner /\ f.rev = e.rev /\ f.evidence = e.evidence /\ f.snaps = e.snaps /\ f.epoch = e.epoch
      /\ f.load = n
  BY DEF Entries
<1>4. ent' = [ent EXCEPT ![g] = f]
  BY <1>0, <1>1 DEF Types, World
<1> HIDE DEF f
<1>5. /\ Len(ent') = Len(ent) /\ ent'[g] = f
      /\ \A k \in 1..Len(ent) : k # g => ent'[k] = ent[k]
  BY <1>2, <1>4, Replaced
<1>6. \A k \in 1..Len(ent) : /\ ent'[k].owner = ent[k].owner /\ ent'[k].rev = ent[k].rev /\ ent'[k].evidence = ent[k].evidence
                              /\ ent'[k].snaps = ent[k].snaps /\ ent'[k].epoch = ent[k].epoch
                              /\ (ent'[k].load = n \/ ent'[k].load = ent[k].load)
  BY <1>1, <1>3, <1>5
<1>7. Current' /\ Owning' /\ Logged'
  BY <1>5 DEF AccessInv, Shelf, Current, Owning, Logged, Last
<1>8. Followed'
  <2>1. Extends
    BY <1>0 DEF Extends, Sized
  <2>2. \A k \in 1..Len(ent) : ent[k].load \in 0..Len(loads)
    BY DEF AccessInv, Shelf, Followed
  <2>3. \A k \in 1..Len(ent) : ent'[k].load \in 0..Len(loads')
    <3> SUFFICES ASSUME NEW k \in 1..Len(ent) PROVE ent'[k].load \in 0..Len(loads')
      OBVIOUS
    <3>1. ent[k].load \in 0..Len(loads) /\ (ent'[k].load = n \/ ent'[k].load = ent[k].load)
      BY <1>6, <2>2
    <3> QED BY <1>0, <3>1 DEF Sized
  <2> QED BY <1>5, <1>6, <2>1, <2>3, FollowedNext
<1>9. Grows
  <2>1. \A k \in 1..Len(ent) : ent[k].epoch <= ent'[k].epoch
    <3>1. \A k \in 1..Len(ent) : ent[k].epoch \in Nat
      BY <1>0 DEF Sized, Entries
    <3>2. \A k \in 1..Len(ent) : ent'[k].epoch = ent[k].epoch
      BY <1>6
    <3> QED BY <3>1, <3>2
  <2> QED BY <1>0, <1>5, <1>6, <2>1 DEF Grows, Sized
<1> QED BY <1>7, <1>8, <1>9 DEF Evolves, Shelf

-----------------------------------------------------------------------------
(* A request that failed holds nothing.                                     *)
LEMMA Failing ==
  ASSUME AccessInv, NEW p \in Requesters, Fail(p), Evolves
  PROVE  AccessInv'
<1> DEFINE d == [Idle EXCEPT !.pc = "failed"]
<1>1. NoAccess \in Accesses
  BY DEF NoAccess, Accesses, Scopes, Clients, Nobody
<1>2. d \in Requests
  BY <1>1 DEF Idle, Requests, Steps, Clients, Values, Nobody
<1>3. /\ d.pc = "failed" /\ d.op = Nobody /\ d.scoped = FALSE /\ d.ret = Nobody /\ d.acc = NoAccess /\ d.adm = NoAccess
      /\ d.recovery = FALSE
  BY DEF Idle
<1>4. Set(p, d)
  BY DEF Fail
<1> HIDE DEF d
<1>5. NoAccess.g = 0 /\ NoAccess.recovery = FALSE
  BY DEF NoAccess
<1>6. Offered(d)
  BY <1>3, <1>5 DEF Offered, Kept, Nobody
<1>7. Chosen(d) /\ Unowned(d)
  BY <1>3 DEF Chosen, Unowned, Checking
<1>8. Resolved(d)
  BY <1>3, <1>5 DEF Resolved, Resolving, Nobody
<1>9. Placed(d) /\ Settling(d) /\ Merging(d)
  BY <1>3 DEF Placed, Settling, Merging, Resolving, Handing, Reading, Sending, Checking, Nobody
<1> QED BY <1>2, <1>4, <1>6, <1>7, <1>8, <1>9, Turns DEF Proper

LEMMA FailsInv ==
  ASSUME AccessInv, NEW p \in Requesters, Fails(p)
  PROVE  AccessInv'
BY Alone, Failing DEF Fails

(* A request that only moves on keeps what it holds.                        *)
LEMMA Went ==
  ASSUME NEW c \in Requests, NEW x \in Steps
  PROVE  LET d == [c EXCEPT !.pc = x] IN
         /\ d \in Requests /\ d.pc = x
         /\ d.op = c.op /\ d.scoped = c.scoped /\ d.ret = c.ret /\ d.acc = c.acc /\ d.adm = c.adm /\ d.want = c.want
         /\ d.owner = c.owner /\ d.g = c.g /\ d.turn = c.turn /\ d.kind = c.kind /\ d.base = c.base /\ d.value = c.value
         /\ d.recovery = c.recovery /\ d.key = c.key /\ d.load = c.load /\ d.seenAt = c.seenAt
         /\ d.checkedAt = c.checkedAt /\ d.quiet = c.quiet
BY DEF Requests

LEMMA OfferKept ==
  ASSUME NEW c \in Requests, NEW d \in Requests, Offered(c), d.ret = c.ret, d.acc = c.acc, d.adm = c.adm,
         d.want = c.want, d.seenAt = c.seenAt, d.op = c.op
  PROVE  Offered(d)
BY DEF Offered

(* Where a request may go on to, given what it holds.                       *)
Fits(c, x) ==
  /\ c.scoped /\ c.op = "send" /\ x \in Checking /\ c.adm.g # 0 /\ cur = c.adm.g /\ ent[cur].epoch = c.adm.epoch
       => (c.kind = "steer" <=> log[c.seenAt].active)
  /\ x \in {"op scope", "op entry"} => c.adm.g # 0
  /\ c.scoped /\ x = "op send" =>
       /\ c.checkedAt \in 1..Len(log) /\ c.seenAt \in 1..Len(log)
       /\ Identity(c.checkedAt) = Identity(c.seenAt)
       /\ c.op = "send" => (c.kind = "steer" <=> log[c.checkedAt].active)
  /\ x \in {"recheck", "recheck idle", "recheck created"} /\ owner = Nobody => c.quiet
  /\ x = "history" /\ c.acc.nat # 0 => c.quiet
  /\ x = "confirm" /\ (c.acc.nat # 0 \/ c.acc.recovery) => c.quiet
  /\ x = "created op" => c.quiet
  /\ x \in Resolving \ {"confirm"} => ~c.acc.recovery
  /\ x \in {"resolve", "follow", "entry", "created", "native"} => c.acc.nat = 0
  /\ x = "evidence" => c.op # "stop"
  /\ x # "idle"
  /\ x \in {"scope"} \cup Resolving \cup Handing => c.owner = Nobody
  /\ x = "follow" => c.acc.owner # Nobody
  /\ x \in {"control", "read"} => c.owner # Nobody
  /\ x \in {"entry", "controlled"} \cup (Reading \ {"discover", "read"}) => c.g \in 1..Len(ent)
  /\ x \in Reading \cup {"metadata", "publish"} => c.op # "settings"
  /\ x = "base" => c.op # "send"
  /\ c.op = "settings" /\ x \in Sending => c.g \in 1..Len(ent) /\ ent[c.g].owner = c.owner
  /\ x \in {"wait", "wait owner"} => c.op = "settings"
  /\ x = "wait owner" \/ (x = "ok" /\ c.op = "settings" /\ c.owner # Nobody) =>
       /\ c.g \in 1..Len(ent)
       /\ \E r \in 1..Len(log) : /\ r > c.base /\ Reports(r, ent[c.g]) /\ Effective(r) = c.value
                                 /\ log[r].owner = c.owner
  /\ x \in {"load", "merge"} => c.load \in 1..Len(loads) /\ loads[c.load].key = c.key

LEMMA Going ==
  ASSUME AccessInv, NEW p \in Requesters, NEW x \in Steps, Go(p, x), Evolves, Fits(caller[p], x)
  PROVE  AccessInv'
<1>1. PICK c \in Requests : c = caller[p]
  BY DEF AccessInv, Types
<1>2. Proper(c) /\ Fits(c, x)
  BY <1>1 DEF AccessInv
<1>3. PICK d \in Requests : d = [c EXCEPT !.pc = x]
  BY Went
<1>4. /\ d.pc = x
      /\ d.op = c.op /\ d.scoped = c.scoped /\ d.ret = c.ret /\ d.acc = c.acc /\ d.adm = c.adm /\ d.want = c.want
      /\ d.owner = c.owner /\ d.g = c.g /\ d.turn = c.turn /\ d.kind = c.kind /\ d.base = c.base /\ d.value = c.value
      /\ d.recovery = c.recovery /\ d.key = c.key /\ d.load = c.load /\ d.seenAt = c.seenAt
      /\ d.checkedAt = c.checkedAt /\ d.quiet = c.quiet
  BY <1>3, Went
<1>5. Set(p, d)
  BY <1>1, <1>3 DEF Go
<1>6. Offered(d)
  BY <1>2, <1>4, OfferKept DEF Proper
<1>7. Chosen(d)
  BY <1>2, <1>4, ZenonT(60) DEF Fits, Chosen
<1>8. Unowned(d)
  BY <1>2, <1>4 DEF Fits, Unowned
<1>9. Resolved(d)
  BY <1>2, <1>4 DEF Fits, Resolved, Proper
<1>10. Placed(d)
  BY <1>2, <1>4, ZenonT(60) DEF Fits, Placed
<1>11. Settling(d)
  <2>1. d.op = "settings" /\ d.pc \in Sending => d.g \in 1..Len(ent) /\ ent[d.g].owner = d.owner
    BY <1>2, <1>4 DEF Fits
  <2>2. d.pc \in {"wait", "wait owner"} => d.op = "settings"
    BY <1>2, <1>4 DEF Fits
  <2>3. ASSUME d.pc = "wait owner" \/ (d.pc = "ok" /\ d.op = "settings" /\ d.owner # Nobody)
        PROVE  /\ d.g \in 1..Len(ent)
               /\ \E r \in 1..Len(log) : /\ r > d.base /\ Reports(r, ent[d.g]) /\ Effective(r) = d.value
                                         /\ log[r].owner = d.owner
    <3>1. x = "wait owner" \/ (x = "ok" /\ c.op = "settings" /\ c.owner # Nobody)
      BY <1>4, <2>3
    <3>2. /\ c.g \in 1..Len(ent)
          /\ \E r \in 1..Len(log) : /\ r > c.base /\ Reports(r, ent[c.g]) /\ Effective(r) = c.value
                                    /\ log[r].owner = c.owner
      BY <1>2, <3>1 DEF Fits
    <3>3. d.g = c.g /\ d.base = c.base /\ d.value = c.value /\ d.owner = c.owner
      BY <1>4
    <3> QED BY <3>2, <3>3
  <2> QED BY <2>1, <2>2, <2>3 DEF Settling
<1>12. Merging(d)
  BY <1>2, <1>4 DEF Fits, Merging
<1> QED BY <1>5, <1>6, <1>7, <1>8, <1>9, <1>10, <1>11, <1>12, Turns DEF Proper

LEMMA CreatedAccessInv ==
  ASSUME AccessInv, NEW p \in Requesters, CreatedAccess(p)
  PROVE  AccessInv'
<1>1. Evolves
  BY Alone DEF CreatedAccess
<1>2. PICK c \in Requests : c = caller[p] /\ Proper(c)
  BY DEF AccessInv, Types
<1>3. CASE Go(p, "native")
  <2>1. Fits(c, "native") /\ "native" \in Steps
    BY <1>2, <1>3 DEF CreatedAccess, At, Fits, Proper, Unowned, Resolved, Placed, Steps, Resolving, Handing, Reading,
          Sending, Checking
  <2> QED BY <1>1, <1>2, <1>3, <2>1, Going
<1>4. CASE Go(p, "history")
  <2>1. Fits(c, "history") /\ "history" \in Steps
    BY <1>2, <1>4 DEF CreatedAccess, At, Fits, Proper, Unowned, Resolved, Placed, Steps, Resolving, Handing, Reading,
          Sending, Checking
  <2> QED BY <1>1, <1>2, <1>4, <2>1, Going
<1>5. CASE Fail(p)
  BY <1>1, <1>5, Failing
<1> QED BY <1>2, <1>3, <1>4, <1>5 DEF CreatedAccess, GoOrFail

LEMMA RecheckInv ==
  ASSUME AccessInv, NEW p \in Requesters, Recheck(p)
  PROVE  AccessInv'
<1>1. Evolves
  BY Asks DEF Recheck
<1>2. PICK c \in Requests : c = caller[p] /\ Proper(c)
  BY DEF AccessInv, Types
<1>3. CASE owner = Nobody /\ Go(p, "confirm")
  <2>1. Fits(c, "confirm") /\ "confirm" \in Steps
    BY <1>2, <1>3 DEF Recheck, At, Fits, Proper, Unowned, Resolved, Placed, Steps, Resolving, Handing, Reading,
          Sending, Checking
  <2> QED BY <1>1, <1>2, <1>3, <2>1, Going
<1>4. CASE owner = Nobody /\ Go(p, "history")
  <2>1. Fits(c, "history") /\ "history" \in Steps
    BY <1>2, <1>4 DEF Recheck, At, Fits, Proper, Unowned, Resolved, Placed, Steps, Resolving, Handing, Reading,
          Sending, Checking
  <2> QED BY <1>1, <1>2, <1>4, <2>1, Going
<1>5. CASE Fail(p)
  BY <1>1, <1>5, Failing
<1> QED BY <1>2, <1>3, <1>4, <1>5 DEF Recheck, GoOrFail

LEMMA RecheckCreatedInv ==
  ASSUME AccessInv, NEW p \in Requesters, RecheckCreated(p)
  PROVE  AccessInv'
<1>1. Evolves
  BY Asks DEF RecheckCreated
<1>2. PICK c \in Requests : c = caller[p] /\ Proper(c)
  BY DEF AccessInv, Types
<1>3. CASE owner = Nobody /\ Go(p, "created op")
  <2>1. Fits(c, "created op") /\ "created op" \in Steps
    BY <1>2, <1>3 DEF RecheckCreated, At, Fits, Proper, Unowned, Resolved, Placed, Steps, Resolving, Handing,
          Reading, Sending, Checking
  <2> QED BY <1>1, <1>2, <1>3, <2>1, Going
<1>4. CASE Fail(p)
  BY <1>1, <1>4, Failing
<1> QED BY <1>2, <1>3, <1>4 DEF RecheckCreated, GoOrFail

LEMMA OpOwnerInv ==
  ASSUME AccessInv, NEW p \in Requesters, OpOwner(p)
  PROVE  AccessInv'
<1>1. Evolves
  BY Asks DEF OpOwner
<1>2. PICK c \in Requests : c = caller[p] /\ Proper(c)
  BY DEF AccessInv, Types
<1>3. CASE c.scoped /\ Go(p, "op connection")
  <2>1. Fits(c, "op connection") /\ "op connection" \in Steps
    BY <1>2, <1>3 DEF OpOwner, At, Fits, Proper, Chosen, Settling, Steps, Resolving, Handing, Reading, Sending,
          Checking
  <2> QED BY <1>1, <1>2, <1>3, <2>1, Going
<1>4. CASE ~c.scoped /\ Go(p, "op send")
  <2>1. Fits(c, "op send") /\ "op send" \in Steps
    BY <1>2, <1>4 DEF OpOwner, At, Fits, Proper, Chosen, Settling, Steps, Resolving, Handing, Reading, Sending,
          Checking
  <2> QED BY <1>1, <1>2, <1>4, <2>1, Going
<1>5. CASE Fail(p)
  BY <1>1, <1>5, Failing
<1> QED BY <1>2, <1>3, <1>4, <1>5 DEF OpOwner, GoOrFail

LEMMA OpConnectionInv ==
  ASSUME AccessInv, NEW p \in Requesters, OpConnection(p)
  PROVE  AccessInv'
<1>1. Evolves
  BY Alone DEF OpConnection
<1>2. PICK c \in Requests : c = caller[p] /\ Proper(c)
  BY DEF AccessInv, Types
<1>3. CASE c.adm.g # 0 /\ Go(p, "op scope")
  <2>1. Fits(c, "op scope") /\ "op scope" \in Steps
    BY <1>2, <1>3 DEF OpConnection, At, Fits, Proper, Chosen, Settling, Steps, Resolving, Handing, Reading, Sending,
          Checking
  <2> QED BY <1>1, <1>2, <1>3, <2>1, Going
<1>4. CASE Fail(p)
  BY <1>1, <1>4, Failing
<1> QED BY <1>2, <1>3, <1>4 DEF OpConnection, GoOrFail

LEMMA OpScopeInv ==
  ASSUME AccessInv, NEW p \in Requesters, OpScope(p)
  PROVE  AccessInv'
<1>1. Evolves
  BY Alone DEF OpScope
<1>2. PICK c \in Requests : c = caller[p] /\ Proper(c)
  BY DEF AccessInv, Types
<1>3. CASE Go(p, "op entry")
  <2>1. Fits(c, "op entry") /\ "op entry" \in Steps
    BY <1>2, <1>3 DEF OpScope, At, Fits, Proper, Chosen, Settling, Steps, Resolving, Handing, Reading, Sending,
          Checking
  <2> QED BY <1>1, <1>2, <1>3, <2>1, Going
<1>4. CASE Fail(p)
  BY <1>1, <1>4, Failing
<1> QED BY <1>2, <1>3, <1>4 DEF OpScope, GoOrFail

LEMMA RowStatusInv ==
  ASSUME AccessInv, NEW p \in Requesters, RowStatus(p)
  PROVE  AccessInv'
<1>1. Evolves
  BY Alone DEF RowStatus
<1>2. PICK c \in Requests : c = caller[p] /\ Proper(c)
  BY DEF AccessInv, Types
<1>3. CASE Go(p, "ok")
  <2>1. Fits(c, "ok") /\ "ok" \in Steps
    BY <1>2, <1>3 DEF RowStatus, At, Fits, Proper, Unowned, Resolved, Placed, Steps, Resolving, Handing, Reading,
          Sending, Checking
  <2> QED BY <1>1, <1>2, <1>3, <2>1, Going
<1>4. CASE Fail(p)
  BY <1>1, <1>4, Failing
<1> QED BY <1>2, <1>3, <1>4 DEF RowStatus, GoOrFail

LEMMA MergeInv ==
  ASSUME AccessInv, NEW p \in Requesters, Merge(p)
  PROVE  AccessInv'
<1>1. Evolves
  BY Alone DEF Merge
<1>2. PICK c \in Requests : c = caller[p] /\ Proper(c)
  BY DEF AccessInv, Types
<1>3. CASE Go(p, "ok")
  <2>1. Fits(c, "ok") /\ "ok" \in Steps
    BY <1>2, <1>3 DEF Merge, At, Fits, Proper, Unowned, Resolved, Placed, Steps, Resolving, Handing, Reading,
          Sending, Checking
  <2> QED BY <1>1, <1>2, <1>3, <2>1, Going
<1>4. CASE Fail(p)
  BY <1>1, <1>4, Failing
<1> QED BY <1>2, <1>3, <1>4 DEF Merge, GoOrFail

LEMMA PreviousInv ==
  ASSUME AccessInv, NEW p \in Requesters, Previous(p)
  PROVE  AccessInv'
<1>1. Evolves
  BY Alone DEF Previous
<1>2. PICK c \in Requests : c = caller[p] /\ Proper(c)
  BY DEF AccessInv, Types
<1>3. CASE Go(p, "persisted")
  <2>1. Fits(c, "persisted") /\ "persisted" \in Steps
    BY <1>2, <1>3 DEF Previous, At, Fits, Proper, Unowned, Resolved, Placed, Steps, Resolving, Handing, Reading,
          Sending, Checking
  <2> QED BY <1>1, <1>2, <1>3, <2>1, Going
<1>4. CASE Fail(p)
  BY <1>1, <1>4, Failing
<1> QED BY <1>2, <1>3, <1>4 DEF Previous, GoOrFail

LEMMA LoadedInv ==
  ASSUME AccessInv, NEW p \in Requesters, Loaded(p)
  PROVE  AccessInv'
<1>1. Evolves
  BY Alone DEF Loaded
<1>2. PICK c \in Requests : c = caller[p] /\ Proper(c)
  BY DEF AccessInv, Types
<1>3. CASE Go(p, "merge")
  <2>1. Fits(c, "merge") /\ "merge" \in Steps
    BY <1>2, <1>3 DEF Loaded, At, Fits, Proper, Placed, Merging, Steps, Resolving, Handing, Reading, Sending, Checking
  <2> QED BY <1>1, <1>2, <1>3, <2>1, Going
<1>4. CASE Fail(p)
  BY <1>1, <1>4, Failing
<1> QED BY <1>2, <1>3, <1>4 DEF Loaded, GoOrFail

LEMMA MetadataInv ==
  ASSUME AccessInv, NEW p \in Requesters, Metadata(p)
  PROVE  AccessInv'
<1>1. Evolves
  BY Alone DEF Metadata
<1>2. PICK c \in Requests : c = caller[p] /\ Proper(c)
  BY DEF AccessInv, Types
<1>3. CASE Go(p, "publish")
  <2>1. Fits(c, "publish") /\ "publish" \in Steps
    BY <1>2, <1>3 DEF Metadata, At, Fits, Proper, Unowned, Resolved, Placed, Steps, Resolving, Handing, Reading,
          Sending, Checking
  <2> QED BY <1>1, <1>2, <1>3, <2>1, Going
<1>4. CASE Go(p, "ok")
  <2>1. Fits(c, "ok") /\ "ok" \in Steps
    BY <1>2, <1>4 DEF Metadata, At, Fits, Proper, Unowned, Resolved, Placed, Steps, Resolving, Handing, Reading,
          Sending, Checking
  <2> QED BY <1>1, <1>2, <1>4, <2>1, Going
<1>5. CASE Fail(p)
  BY <1>1, <1>5, Failing
<1> QED BY <1>2, <1>3, <1>4, <1>5 DEF Metadata, GoOrFail

LEMMA WaitOwnerInv ==
  ASSUME AccessInv, NEW p \in Requesters, WaitOwner(p)
  PROVE  AccessInv'
<1>1. Evolves
  BY Asks DEF WaitOwner
<1>2. PICK c \in Requests : c = caller[p] /\ Proper(c)
  BY DEF AccessInv, Types
<1>3. CASE Go(p, "ok")
  <2>1. Fits(c, "ok") /\ "ok" \in Steps
    BY <1>2, <1>3 DEF WaitOwner, At, Fits, Proper, Settling, Steps, Resolving, Handing, Reading, Sending, Checking
  <2> QED BY <1>1, <1>2, <1>3, <2>1, Going
<1>4. CASE Fail(p)
  BY <1>1, <1>4, Failing
<1> QED BY <1>2, <1>3, <1>4 DEF WaitOwner, GoOrFail

(* What changes outside leaves the requests where they are.                 *)
LEMMA Stays ==
  ASSUME AccessInv, Evolves, UNCHANGED caller
  PROVE  AccessInv'
<1>1. Types'
  BY DEF AccessInv, Types, Evolves
<1> SUFFICES ASSUME NEW p \in Requesters PROVE Proper(caller[p])'
  BY <1>1 DEF AccessInv, Evolves
<1>2. PICK c \in Requests : c = caller[p] /\ Proper(c)
  BY DEF AccessInv, Types
<1>3. Proper(c)'
  BY <1>1, <1>2, RequestGrows DEF AccessInv, Shelf, Evolves
<1> QED BY <1>2, <1>3

LEMMA CreatedOpInv ==
  ASSUME AccessInv, NEW p \in Requesters, CreatedOp(p)
  PROVE  AccessInv'
<1>1. Evolves
  <2>1. World'
    BY DEF AccessInv, Types, World, CreatedOp, followers, link, native
  <2> QED BY <2>1, Rests DEF CreatedOp, followers
<1>2. PICK c \in Requests : c = caller[p] /\ Proper(c)
  BY DEF AccessInv, Types
<1>3. Fits(c, "ok") /\ "ok" \in Steps
  BY <1>2 DEF CreatedOp, At, Fits, Proper, Placed, Steps, Resolving, Handing, Reading, Sending, Checking
<1> QED BY <1>1, <1>2, <1>3, Going DEF CreatedOp

LEMMA PublishInv ==
  ASSUME AccessInv, NEW p \in Requesters, PublishChange(p)
  PROVE  AccessInv'
<1>1. World'
  <2>1. cur' \in Nat /\ seen' \in BOOLEAN
    <3>1. (cur' = cur /\ seen' = seen) \/ (cur' = 0 /\ seen' = FALSE)
      BY DEF PublishChange
    <3>2. cur \in Nat /\ seen \in BOOLEAN /\ 0 \in Nat /\ FALSE \in BOOLEAN
      BY DEF AccessInv, Types, World
    <3>3. cur' \in Nat
      BY <3>1, <3>2
    <3>4. seen' \in BOOLEAN
      BY <3>1, <3>2
    <3> QED BY <3>3, <3>4
  <2> QED BY <2>1 DEF AccessInv, Types, World, PublishChange, link, native, outside
<1>2. PICK c \in Requests : c = caller[p] /\ Proper(c)
  BY DEF AccessInv, Types
<1>3. CASE Fail(p) /\ UNCHANGED <<cur, seen>>
  BY <1>1, <1>3, Rests, Failing DEF PublishChange
<1>4. CASE Go(p, "ok") /\ cur' = 0
  <2>1. Evolves
    BY <1>1, <1>4, Left DEF PublishChange
  <2>2. Fits(c, "ok") /\ "ok" \in Steps
    BY <1>2 DEF PublishChange, At, Fits, Proper, Placed, Steps, Resolving, Handing, Reading, Sending, Checking
  <2> QED BY <1>2, <1>4, <2>1, <2>2, Going
<1> QED BY <1>3, <1>4 DEF PublishChange

(* What an owner writes is one of its own revisions.                        *)
LEMMA LastRevision == AccessInv => Len(log) \in 1..Len(log) /\ log[Last] \in Revisions /\ (owner # Nobody => log[Last].owner = owner)
<1> SUFFICES ASSUME AccessInv PROVE Len(log) \in 1..Len(log) /\ log[Last] \in Revisions /\ (owner # Nobody => log[Last].owner = owner)
  OBVIOUS
<1>1. Sized /\ Len(log) >= 1
  BY Sizes DEF AccessInv, Types, World
<1> QED BY <1>1 DEF Sized, AccessInv, Shelf, Owning, Last

LEMMA OwnerWrites ==
  ASSUME AccessInv, NEW v \in Revisions, Writes(v), UNCHANGED <<followers, link, owner, outside, loads>>,
         changes' \in [jobs : [Requesters -> SUBSET (Ops \X BOOLEAN)], left : [Changes -> Nat]],
         owner # Nobody => v.owner = owner,
         v.wrote # "effort" => v.effort = log[Last].effort, v.wrote # "fallback" => v.fallback = log[Last].fallback
  PROVE  Evolves
<1>1. World'
  <2>1. log' \in Seq(Revisions) /\ Len(log') >= 1
    BY DEF Writes, AccessInv, Types, World
  <2> QED BY <2>1 DEF AccessInv, Types, World, followers, link, outside
<1> QED BY <1>1, RevisionWritten DEF Writes, followers

LEMMA Spent ==
  ASSUME AccessInv, NEW k \in Changes, Spend(k)
  PROVE  changes' \in [jobs : [Requesters -> SUBSET (Ops \X BOOLEAN)], left : [Changes -> Nat]]
<1>1. PICK b \in [jobs : [Requesters -> SUBSET (Ops \X BOOLEAN)], left : [Changes -> Nat]] : b = changes
  BY DEF AccessInv, Types, World
<1>2. b.left \in [Changes -> Nat] /\ b.left[k] \in Nat /\ b.left[k] > 0
  BY <1>1 DEF Spend
<1>3. [b.left EXCEPT ![k] = b.left[k] - 1] \in [Changes -> Nat]
  BY <1>2
<1>4. changes' = [b EXCEPT !.left = [b.left EXCEPT ![k] = b.left[k] - 1]]
  BY <1>1 DEF Spend
<1> QED BY <1>3, <1>4

LEMMA TurnChangesInv == AccessInv /\ TurnChanges => AccessInv'
<1> SUFFICES ASSUME AccessInv, TurnChanges PROVE AccessInv'
  OBVIOUS
<1>1. PICK l \in Revisions : l = log[Last] /\ l.owner = owner
  BY LastRevision DEF TurnChanges
<1>2. PICK v \in Revisions : Writes(v) /\ v.owner = owner /\ v.effort = l.effort /\ v.fallback = l.fallback
  <2>1. CASE Writes([log[Last] EXCEPT !.active = FALSE, !.wrote = "nothing"])
    <3> DEFINE v == [l EXCEPT !.active = FALSE, !.wrote = "nothing"]
    <3>1. v \in Revisions /\ v.owner = l.owner /\ v.effort = l.effort /\ v.fallback = l.fallback
      BY DEF Revisions
    <3> QED BY <1>1, <2>1, <3>1
  <2>2. CASE Writes([log[Last] EXCEPT !.turn = @ + 1, !.active = TRUE, !.wrote = "nothing"])
    <3> DEFINE v == [l EXCEPT !.turn = l.turn + 1, !.active = TRUE, !.wrote = "nothing"]
    <3>1. l.turn + 1 \in Nat
      BY DEF Revisions
    <3>2. v \in Revisions /\ v.owner = l.owner /\ v.effort = l.effort /\ v.fallback = l.fallback
      BY <3>1 DEF Revisions
    <3> QED BY <1>1, <2>2, <3>2
  <2> QED BY <2>1, <2>2 DEF TurnChanges
<1>3. Evolves
  BY <1>1, <1>2, OwnerWrites, Spent DEF TurnChanges, Changes
<1> QED BY <1>3, Stays DEF TurnChanges

LEMMA NativeWritesInv == AccessInv /\ NativeWrites => AccessInv'
<1> SUFFICES ASSUME AccessInv, NativeWrites PROVE AccessInv'
  OBVIOUS
<1>1. PICK l \in Revisions : l = log[Last] /\ l.owner = owner
  BY LastRevision DEF NativeWrites
<1>2. PICK v \in Revisions : /\ Writes(v) /\ v.owner = owner
                             /\ v.wrote # "effort" => v.effort = l.effort
                             /\ v.wrote # "fallback" => v.fallback = l.fallback
  <2>1. CASE \E e \in Efforts \cup {Nobody} : Writes([log[Last] EXCEPT !.effort = e, !.wrote = "effort"])
    <3>1. PICK e \in Efforts \cup {Nobody} : Writes([log[Last] EXCEPT !.effort = e, !.wrote = "effort"])
      BY <2>1
    <3> DEFINE v == [l EXCEPT !.effort = e, !.wrote = "effort"]
    <3>2. v \in Revisions /\ v.owner = l.owner /\ v.fallback = l.fallback /\ v.wrote = "effort"
      BY DEF Revisions, Values
    <3> QED BY <1>1, <3>1, <3>2
  <2>2. CASE \E f \in Efforts : Writes([log[Last] EXCEPT !.fallback = f, !.wrote = "fallback"])
    <3>1. PICK f \in Efforts : Writes([log[Last] EXCEPT !.fallback = f, !.wrote = "fallback"])
      BY <2>2
    <3> DEFINE v == [l EXCEPT !.fallback = f, !.wrote = "fallback"]
    <3>2. v \in Revisions /\ v.owner = l.owner /\ v.effort = l.effort /\ v.wrote = "fallback"
      BY DEF Revisions, Values
    <3> QED BY <1>1, <3>1, <3>2
  <2>3. CASE Writes([log[Last] EXCEPT !.wrote = "message"])
    <3> DEFINE v == [l EXCEPT !.wrote = "message"]
    <3>1. v \in Revisions /\ v.owner = l.owner /\ v.effort = l.effort /\ v.fallback = l.fallback
      BY DEF Revisions
    <3> QED BY <1>1, <2>3, <3>1
  <2> QED BY <2>1, <2>2, <2>3 DEF NativeWrites
<1>3. Evolves
  BY <1>1, <1>2, OwnerWrites, Spent DEF NativeWrites, Changes
<1> QED BY <1>3, Stays DEF NativeWrites

LEMMA OutsideInv == AccessInv /\ (Loses \/ AccountChanges \/ HistoryChanges \/ ExecutorChanges) => AccessInv'
<1> SUFFICES ASSUME AccessInv, Loses \/ AccountChanges \/ HistoryChanges \/ ExecutorChanges PROVE AccessInv'
  OBVIOUS
<1>0. World
  BY DEF AccessInv, Types
<1>1. World' /\ UNCHANGED <<cur, ent, native, loads, caller>>
  <2>1. CASE Loses
    <3>1. changes' \in [jobs : [Requesters -> SUBSET (Ops \X BOOLEAN)], left : [Changes -> Nat]]
      BY <2>1, Spent DEF Loses, Changes
    <3> QED BY <1>0, <2>1, <3>1 DEF World, Loses, followers, native, outside
  <2>2. CASE AccountChanges
    <3>1. changes' \in [jobs : [Requesters -> SUBSET (Ops \X BOOLEAN)], left : [Changes -> Nat]]
      BY <2>2, Spent DEF AccountChanges, Changes
    <3> QED BY <1>0, <2>2, <3>1 DEF World, AccountChanges, followers, native, link, Scopes
  <2>3. CASE HistoryChanges
    <3>1. changes' \in [jobs : [Requesters -> SUBSET (Ops \X BOOLEAN)], left : [Changes -> Nat]]
      BY <2>3, Spent DEF HistoryChanges, Changes
    <3>2. hist' \in [status : Statuses, n : Nat]
      BY <1>0, <2>3 DEF World, HistoryChanges
    <3> QED BY <1>0, <2>3, <3>1, <3>2 DEF World, HistoryChanges, followers, native, link
  <2>4. CASE ExecutorChanges
    <3>1. changes' \in [jobs : [Requesters -> SUBSET (Ops \X BOOLEAN)], left : [Changes -> Nat]]
      BY <2>4, Spent DEF ExecutorChanges, Changes
    <3>2. exec' \in [gen : Nat, live : BOOLEAN, active : BOOLEAN]
      <4>1. PICK x \in [gen : Nat, live : BOOLEAN, active : BOOLEAN] : x = exec
        BY <1>0 DEF World
      <4>2. x.gen + 1 \in Nat /\ (~x.active) \in BOOLEAN
        OBVIOUS
      <4>3. \/ exec' = [x EXCEPT !.active = ~x.active]
            \/ exec' = [x EXCEPT !.live = FALSE, !.active = FALSE, !.gen = x.gen + 1]
            \/ exec' = [x EXCEPT !.live = TRUE, !.gen = x.gen + 1]
        BY <2>4, <4>1 DEF ExecutorChanges
      <4> QED BY <4>2, <4>3
    <3> QED BY <1>0, <2>4, <3>1, <3>2 DEF World, ExecutorChanges, followers, native, link
  <2> QED BY <2>1, <2>2, <2>3, <2>4
<1>2. Evolves
  BY <1>1, Rests
<1> QED BY <1>1, <1>2, Stays

LEMMA DisconnectedInv == AccessInv /\ Disconnected => AccessInv'
<1> SUFFICES ASSUME AccessInv, Disconnected PROVE AccessInv'
  OBVIOUS
<1>1. World'
  BY DEF AccessInv, Types, World, Disconnected, native, outside
<1>2. Evolves
  BY <1>1, Left DEF Disconnected
<1> QED BY <1>2, Stays DEF Disconnected

(* A patch or a snapshot: what the entry shows is still what its owner      *)
(* reported.                                                                *)
LEMMA Received ==
  ASSUME AccessInv, NEW e \in Entries, Stands(e), NEW r \in 1..Len(log), r = e.rev + 1, log[r].owner = e.owner, ~Carries(r),
         NEW f \in Entries, f.owner = e.owner, f.rev = r, f.evidence = e.evidence, f.snaps = e.snaps
  PROVE  Stands(f)
<1>0. Sized /\ e.rev \in 1..Len(log) /\ e.evidence \in 1..e.rev
  BY Sizes DEF AccessInv, Stands
<1>1. e.evidence \in 1..r /\ r \in e.evidence..r /\ r > 1
  BY <1>0 DEF Sized
<1>2. CASE log[r].wrote = "effort"
  <2>1. Reports(r, f)
    BY <1>2 DEF Reports
  <2> QED BY <1>1, <2>1 DEF Stands, Shows
<1>3. CASE log[r].wrote # "effort"
  <2>1. r - 1 = e.rev
    BY <1>0
  <2>2. log[r].effort = log[e.rev].effort
    BY <1>1, <1>3, <2>1 DEF AccessInv, Shelf, Logged
  <2>3. log[r].effort = Nobody => log[r].wrote # "fallback"
    BY DEF Carries
  <2>4. log[r].effort = Nobody => log[r].fallback = log[e.rev].fallback
    BY <1>1, <2>1, <2>3 DEF AccessInv, Shelf, Logged
  <2>5. Effective(r) = Effective(e.rev)
    BY <2>2, <2>4 DEF Effective
  <2>6. PICK q \in e.evidence..e.rev : Reports(q, e) /\ Effective(q) = Effective(e.rev) /\ log[q].owner = e.owner
    BY DEF Stands, Shows
  <2>7. q \in f.evidence..f.rev
    BY <1>0, <2>6
  <2>8. Reports(q, f)
    BY <2>6 DEF Reports
  <2> QED BY <1>1, <2>5, <2>6, <2>7, <2>8 DEF Stands, Shows
<1> QED BY <1>2, <1>3

LEMMA ReceiveInv == AccessInv /\ Receive => AccessInv'
<1> SUFFICES ASSUME AccessInv, Receive PROVE AccessInv'
  OBVIOUS
<1>0. Sized /\ Types /\ Current /\ cur # 0
  BY Sizes DEF AccessInv, Shelf, Receive
<1>1. cur \in 1..Len(ent)
  BY <1>0 DEF Sized, Current, Types, World
<1>2. PICK e \in Entries : e = ent[cur] /\ Stands(e)
  BY <1>0, <1>1, EntriesStand DEF Sized
<1>3. PICK r \in e.rev + 1 .. Last :
       /\ log[r].owner = e.owner
       /\ \/ /\ r = e.rev + 1
             /\ ent' = [ent EXCEPT ![cur] = [e EXCEPT !.rev = r, !.epoch = TurnEpoch(e, r),
                                             !.evidence = IF Carries(r) THEN r ELSE @]]
          \/ ent' = [ent EXCEPT ![cur] = [e EXCEPT !.rev = r, !.epoch = TurnEpoch(e, r), !.evidence = r,
                                             !.snaps = @ \cup {r}]]
  BY <1>2 DEF Receive
<1>4. e.rev \in Nat /\ e.epoch \in Nat /\ e.evidence \in Nat /\ e.snaps \subseteq Nat /\ r \in 1..Len(log) /\ r \in Nat
  BY <1>0 DEF Entries, Sized, Last
<1>5. PICK n \in Nat : n = TurnEpoch(e, r)
  BY <1>4 DEF TurnEpoch
<1>6. e.epoch <= n /\ (n = e.epoch => Identity(r) = Identity(e.rev))
  BY <1>4, <1>5 DEF TurnEpoch
<1>7. PICK f \in Entries : /\ ent' = [ent EXCEPT ![cur] = f]
                           /\ f.owner = e.owner /\ f.rev = r /\ f.epoch = n /\ f.load = e.load /\ e.snaps \subseteq f.snaps
                           /\ \/ f.evidence = e.evidence /\ r = e.rev + 1 /\ ~Carries(r) /\ f.snaps = e.snaps
                              \/ f.evidence = r /\ Carries(r)
                              \/ f.evidence = r /\ r \in f.snaps
  <2>1. CASE r = e.rev + 1 /\ Carries(r) /\ ent' = [ent EXCEPT ![cur] = [e EXCEPT !.rev = r, !.epoch = n,
        !.evidence = r]]
    <3> DEFINE f == [e EXCEPT !.rev = r, !.epoch = n, !.evidence = r]
    <3>1. /\ f \in Entries /\ f.owner = e.owner /\ f.rev = r /\ f.epoch = n /\ f.load = e.load /\ f.snaps = e.snaps
          /\ f.evidence = r
      BY <1>4 DEF Entries
    <3> QED BY <2>1, <3>1
  <2>2. CASE r = e.rev + 1 /\ ~Carries(r) /\ ent' = [ent EXCEPT ![cur] = [e EXCEPT !.rev = r, !.epoch = n,
        !.evidence = e.evidence]]
    <3> DEFINE f == [e EXCEPT !.rev = r, !.epoch = n, !.evidence = e.evidence]
    <3>1. /\ f \in Entries /\ f.owner = e.owner /\ f.rev = r /\ f.epoch = n /\ f.load = e.load /\ f.snaps = e.snaps
          /\ f.evidence = e.evidence
      BY <1>4 DEF Entries
    <3> QED BY <2>2, <3>1
  <2>3. CASE ent' = [ent EXCEPT ![cur] = [e EXCEPT !.rev = r, !.epoch = n, !.evidence = r,
        !.snaps = e.snaps \cup {r}]]
    <3> DEFINE f == [e EXCEPT !.rev = r, !.epoch = n, !.evidence = r, !.snaps = e.snaps \cup {r}]
    <3>1. e.snaps \cup {r} \in SUBSET Nat
      BY <1>4
    <3>2. /\ f \in Entries /\ f.owner = e.owner /\ f.rev = r /\ f.epoch = n /\ f.load = e.load /\ f.snaps = e.snaps \cup {r}
          /\ f.evidence = r
      BY <1>4, <3>1 DEF Entries
    <3> QED BY <2>3, <3>2
  <2> QED BY <1>3, <1>5, <2>1, <2>2, <2>3
<1>8. Stands(f)
  <2>1. CASE f.evidence = e.evidence /\ r = e.rev + 1 /\ ~Carries(r) /\ f.snaps = e.snaps
    BY <1>2, <1>3, <1>4, <1>7, <2>1, Received
  <2>2. CASE f.evidence = r /\ (Carries(r) \/ r \in f.snaps)
    <3>1. Reports(r, f)
      BY <2>2 DEF Reports, Carries
    <3>2. r \in 1..r /\ r \in r..r
      BY <1>4
    <3> QED BY <1>3, <1>4, <1>7, <2>2, <3>1, <3>2 DEF Stands, Shows
  <2> QED BY <1>7, <2>1, <2>2
<1>9. World'
  <2>1. ent' \in Seq(Entries)
    BY <1>1, <1>7, Replaced
  <2> QED BY <1>0, <2>1 DEF Types, World, Receive, link, native, outside
<1>10. Evolves
  BY <1>0, <1>2, <1>6, <1>7, <1>8, <1>9, Renewed DEF Receive
<1> QED BY <1>10, Stays DEF Receive

(* A history read ends; a failed one is forgotten by its entry.             *)
LEMMA LoadEndsInv ==
  ASSUME AccessInv, NEW l \in DOMAIN loads, NEW st \in {"done", "failed"}, LoadEnds(l, st)
  PROVE  AccessInv'
<1>0. Sized /\ Types /\ Loading /\ l \in 1..Len(loads)
  BY Sizes DEF AccessInv, Types, World, Shelf
<1>1. PICK a \in Loads : a = loads[l]
  BY <1>0 DEF Sized
<1>2. a.g \in 1..Len(ent) /\ a.st = "running" /\ ent[a.g].load = l
  BY <1>0, <1>1 DEF Loading, LoadEnds
<1>3. PICK b \in Loads : b.g = a.g /\ b.key = a.key /\ b.st = st /\ loads' = [loads EXCEPT ![l] = b]
  <2> DEFINE b == [a EXCEPT !.st = st]
  <2>1. b \in Loads /\ b.g = a.g /\ b.key = a.key /\ b.st = st
    BY DEF Loads
  <2>2. loads' = [loads EXCEPT ![l] = b]
    BY <1>0, <1>1 DEF LoadEnds, Types, World
  <2> QED BY <2>1, <2>2
<1>4. /\ loads' \in Seq(Loads) /\ Len(loads') = Len(loads) /\ loads'[l] = b
      /\ \A k \in 1..Len(loads) : k # l => loads'[k] = loads[k]
  BY <1>0, <1>3 DEF Types, World
<1>5. PICK n \in Nat : ent' = [ent EXCEPT ![a.g].load = n] /\ n <= Len(loads') /\ (n = l \/ st = "failed")
  <2>1. CASE st = "failed"
    <3>1. ent' = [ent EXCEPT ![a.g].load = 0]
      BY <1>1, <1>2, <2>1 DEF LoadEnds
    <3>2. 0 \in Nat /\ 0 <= Len(loads')
      BY <1>0, <1>4 DEF Sized
    <3> QED BY <2>1, <3>1, <3>2
  <2>2. CASE st # "failed"
    <3>1. PICK e \in Entries : e = ent[a.g] /\ e.load = l
      BY <1>0, <1>2 DEF Sized
    <3>2. [e EXCEPT !.load = l] = e
      BY <3>1 DEF Entries
    <3>3. ent' = [ent EXCEPT ![a.g].load = l]
      BY <1>0, <1>2, <2>2, <3>1, <3>2 DEF LoadEnds, Types, World
    <3>4. l \in Nat /\ l <= Len(loads')
      BY <1>0, <1>4 DEF Sized
    <3> QED BY <3>3, <3>4
  <2> QED BY <2>1, <2>2
<1>6. Len(ent') = Len(ent) /\ \A g \in 1..Len(ent) : g # a.g => ent'[g] = ent[g]
  BY <1>0, <1>2, <1>5 DEF Types, World
<1>7. World'
  <2>1. ent' \in Seq(Entries)
    <3>1. PICK e \in Entries : e = ent[a.g]
      BY <1>0, <1>2 DEF Sized
    <3>2. [e EXCEPT !.load = n] \in Entries
      BY DEF Entries
    <3>3. ent' = [ent EXCEPT ![a.g] = [e EXCEPT !.load = n]]
      BY <1>0, <1>2, <1>5, <3>1 DEF Types, World
    <3> QED BY <1>2, <3>2, <3>3, Replaced
  <2> QED BY <1>0, <1>4, <2>1 DEF Types, World, LoadEnds, link, native, outside
<1>8. Loading'
  <2> SUFFICES ASSUME NEW k \in 1..Len(loads')
               PROVE  loads'[k].g \in 1..Len(ent') /\ (loads'[k].st = "running" => ent'[loads'[k].g].load = k)
    BY DEF Loading
  <2>1. CASE k = l
    BY <1>2, <1>3, <1>4, <1>6, <2>1
  <2>2. CASE k # l
    <3>1. loads'[k] = loads[k] /\ k \in 1..Len(loads)
      BY <1>4, <2>2
    <3>2. loads[k].g \in 1..Len(ent) /\ (loads[k].st = "running" => ent[loads[k].g].load = k)
      BY <1>0, <3>1 DEF Loading
    <3>3. loads[k].st = "running" => loads[k].g # a.g
      BY <1>2, <2>2, <3>2
    <3> QED BY <1>6, <3>1, <3>2, <3>3
  <2> QED BY <2>1, <2>2
<1>9. Len(loads) <= Len(loads') /\ \A k \in 1..Len(loads) : loads'[k].key = loads[k].key
  BY <1>0, <1>1, <1>3, <1>4 DEF Sized
<1>10. Evolves
  BY <1>2, <1>5, <1>7, <1>8, <1>9, Reloaded DEF LoadEnds
<1> QED BY <1>10, Stays DEF LoadEnds

(* The task changes owner: a request that waits to see nobody own it has    *)
(* seen it.                                                                 *)
LEMMA OwnerMovesInv == AccessInv /\ OwnerMoves => AccessInv'
<1> SUFFICES ASSUME AccessInv, OwnerMoves PROVE AccessInv'
  OBVIOUS
<1>1. PICK o \in (Owners \cup {Nobody}) \ {owner} :
       /\ owner' = o
       /\ log' = IF o = Nobody THEN log ELSE Append(log, [log[Last] EXCEPT !.owner = o, !.wrote = "all"])
       /\ caller' = [p \in Requesters |-> [caller[p] EXCEPT !.quiet = @ \/ o = Nobody]]
  BY DEF OwnerMoves
<1>2. PICK l \in Revisions : l = log[Last]
  BY LastRevision
<1>3. PICK v \in Revisions : v = [l EXCEPT !.owner = o,
      !.wrote = "all"] /\ v.owner = o /\ v.effort = l.effort /\ v.fallback = l.fallback
  <2> DEFINE v == [l EXCEPT !.owner = o, !.wrote = "all"]
  <2>1. v \in Revisions /\ v.owner = o /\ v.effort = l.effort /\ v.fallback = l.fallback
    BY DEF Revisions, Clients
  <2> QED BY <2>1
<1>4. UNCHANGED <<cur, ent, loads>>
  BY DEF OwnerMoves, followers
<1>5. World'
  <2>1. changes' \in [jobs : [Requesters -> SUBSET (Ops \X BOOLEAN)], left : [Changes -> Nat]]
    BY Spent DEF OwnerMoves, Changes
  <2>2. log' \in Seq(Revisions) /\ Len(log') >= 1
    BY <1>1, <1>2, <1>3 DEF AccessInv, Types, World
  <2>3. owner' \in Clients
    BY <1>1 DEF Clients
  <2> QED BY <2>1, <2>2, <2>3 DEF AccessInv, Types, World, OwnerMoves, followers, link, outside
<1>6. Shelf' /\ Grows
  <2>1. CASE o = Nobody
    (* nothing is written, so this is a step of the shelf alone              *)
    <3>1. log' = log
      BY <1>1, <2>1
    <3>2. Sized
      BY Sizes DEF AccessInv
    <3>3. Current' /\ Owning' /\ Logged' /\ Loading'
      BY <1>1, <1>4, <2>1, <3>1 DEF AccessInv, Shelf, Current, Owning, Logged, Loading, Last
    <3>4. Followed'
      <4>1. Extends /\ Len(loads) <= Len(loads')
        BY <1>4, <3>1, <3>2 DEF Extends, Sized
      <4> QED BY <1>4, <1>5, <4>1, FollowedNext DEF AccessInv, Shelf, Followed
    <3>5. Grows
      BY <1>4, <3>1, <3>2 DEF Grows, Sized, Entries
    <3> QED BY <3>3, <3>4, <3>5 DEF Shelf
  <2>2. CASE o # Nobody
    <3>1. log' = Append(log, v)
      BY <1>1, <1>2, <1>3, <2>2
    <3> QED BY <1>1, <1>2, <1>3, <1>4, <1>5, <2>2, <3>1, RevisionWritten DEF Evolves
  <2> QED BY <2>1, <2>2
<1>7. Types'
  <2>1. caller' \in [Requesters -> Requests]
    <3> SUFFICES ASSUME NEW p \in Requesters PROVE [caller[p] EXCEPT !.quiet = @ \/ o = Nobody] \in Requests
      BY <1>1
    <3>1. PICK c \in Requests : c = caller[p]
      BY DEF AccessInv, Types
    <3>2. (c.quiet \/ o = Nobody) \in BOOLEAN
      OBVIOUS
    <3>3. PICK b \in BOOLEAN : b = (c.quiet \/ o = Nobody)
      BY <3>2
    <3>4. [c EXCEPT !.quiet = b] \in Requests
      BY DEF Requests
    <3> QED BY <3>1, <3>3, <3>4
  <2> QED BY <1>5, <2>1 DEF Types
<1>8. ASSUME NEW p \in Requesters PROVE Proper(caller[p])'
  <2>1. PICK c \in Requests : c = caller[p] /\ Proper(c)
    BY DEF AccessInv, Types
  <2>2. PICK b \in BOOLEAN : b = (c.quiet \/ o = Nobody)
    OBVIOUS
  <2>3. PICK d \in Requests : d = [c EXCEPT !.quiet = b]
    BY DEF Requests
  <2>4. caller'[p] = d
    BY <1>1, <2>1, <2>2, <2>3
  <2>5. /\ d.op = c.op /\ d.scoped = c.scoped /\ d.ret = c.ret /\ d.acc = c.acc /\ d.adm = c.adm /\ d.want = c.want
        /\ d.owner = c.owner /\ d.g = c.g /\ d.turn = c.turn /\ d.kind = c.kind /\ d.base = c.base /\ d.value = c.value
        /\ d.recovery = c.recovery /\ d.key = c.key /\ d.load = c.load /\ d.seenAt = c.seenAt
        /\ d.checkedAt = c.checkedAt /\ d.quiet = b /\ d.pc = c.pc
    BY <2>3 DEF Requests
  <2>6. (c.quiet => d.quiet) /\ (o = Nobody => d.quiet)
    BY <2>2, <2>5
  <2>7. Offered(d)
    BY <2>1, <2>5, OfferKept DEF Proper
  <2>8. Chosen(d) /\ Resolved(d) /\ Merging(d)
    <3>1. Chosen(d)
      BY <2>1, <2>5 DEF Proper, Chosen
    <3>2. Resolved(d)
      BY <2>1, <2>5 DEF Proper, Resolved
    <3>3. Merging(d)
      BY <2>1, <2>5 DEF Proper, Merging
    <3> QED BY <3>1, <3>2, <3>3
  <2>9. Unowned(d)
    BY <2>1, <2>5, <2>6 DEF Proper, Unowned
  <2>10. Placed(d)
    <3>1. d.pc = "idle" => d = [Idle EXCEPT !.quiet = d.quiet]
      <4>1. c.pc = "idle" => c = [Idle EXCEPT !.quiet = c.quiet]
        BY <2>1 DEF Proper, Placed
      <4> QED BY <2>3, <2>5, <4>1 DEF Idle
    <3>2. c.pc \in {"scope"} \cup Resolving \cup Handing => c.owner = Nobody
      BY <2>1 DEF Proper, Placed
    <3>3. /\ c.pc = "follow" => c.acc.owner # Nobody
          /\ c.pc \in {"control", "read"} => c.owner # Nobody
          /\ c.pc \in {"entry", "controlled"} \cup (Reading \ {"discover", "read"}) => c.g \in 1..Len(ent)
          /\ c.pc \in Reading \cup {"metadata", "publish"} => c.op # "settings"
          /\ c.pc = "base" => c.op # "send"
      BY <2>1 DEF Proper, Placed
    <3> QED BY <2>5, <3>1, <3>2, <3>3 DEF Placed
  <2>11. Settling(d)
    <3>1. Settling(c)
      BY <2>1 DEF Proper
    <3> QED BY <2>5, <3>1 DEF Settling
  <2>12. owner' = Nobody => owner = Nobody \/ d.quiet
    BY <1>1, <2>6
  <2>13. Proper(d)'
    BY <1>6, <1>7, <2>7, <2>8, <2>9, <2>10, <2>11, <2>12, RequestGrows DEF Proper, AccessInv, Shelf
  <2> QED BY <2>4, <2>13
<1> QED BY <1>6, <1>7, <1>8 DEF AccessInv

(* What a request holds wherever it is.                                     *)
Held(c) ==
  /\ Offered(c)
  /\ c.acc.recovery => "stop" \notin c.acc.may
  /\ c.adm.recovery => "stop" \notin c.adm.may
  /\ c.op = "stop" => ~c.recovery

LEMMA Fitting == \A d \in Requests : Held(d) /\ Fits(d, d.pc) => Proper(d)
<1> SUFFICES ASSUME NEW d \in Requests, Held(d), Fits(d, d.pc) PROVE Proper(d)
  OBVIOUS
<1>1. Chosen(d)
  BY DEF Fits, Chosen
<1>2. Unowned(d)
  BY DEF Fits, Unowned
<1>3. Resolved(d)
  BY DEF Held, Fits, Resolved
<1>4. Placed(d)
  BY DEF Fits, Placed
<1>5. Settling(d)
  BY DEF Fits, Settling
<1>6. Merging(d)
  BY DEF Fits, Merging
<1> QED BY <1>1, <1>2, <1>3, <1>4, <1>5, <1>6 DEF Held, Proper

LEMMA HeldKept ==
  ASSUME NEW c \in Requests, NEW d \in Requests, Proper(c), Offered(d), d.acc = c.acc, d.adm = c.adm, d.op = c.op,
         d.recovery = c.recovery
  PROVE  Held(d)
BY DEF Proper, Resolved, Held

LEMMA FittingNext == (\A d \in Requests : Held(d) /\ Fits(d, d.pc) => Proper(d))'
BY Fitting, PTL

LEMMA StopOwnedInv ==
  ASSUME AccessInv, NEW p \in Requesters, StopOwned(p)
  PROVE  AccessInv'
<1>1. Evolves
  BY Alone DEF StopOwned
<1>2. PICK c \in Requests : c = caller[p] /\ Proper(c)
  BY DEF AccessInv, Types
<1>3. Types /\ Sized
  BY Sizes DEF AccessInv
<1>4. CASE Created /\ Set(p, [c EXCEPT !.pc = "recheck created", !.quiet = (owner = Nobody)])
  <2>1. PICK b \in BOOLEAN : b = (owner = Nobody)
    BY <1>3
  <2> DEFINE d == [c EXCEPT !.pc = "recheck created", !.quiet = b]
  <2>2. Set(p, d)
    BY <1>4, <2>1
  <2>3. d \in Requests
    BY DEF Requests, Steps, Resolving, Handing, Reading, Sending, Checking
  <2>4. /\ d.pc = "recheck created" /\ d.op = c.op /\ d.scoped = c.scoped /\ d.ret = c.ret /\ d.acc = c.acc
        /\ d.adm = c.adm /\ d.want = c.want /\ d.owner = c.owner /\ d.g = c.g /\ d.turn = c.turn
        /\ d.kind = c.kind /\ d.base = c.base /\ d.value = c.value /\ d.recovery = c.recovery /\ d.key = c.key
        /\ d.load = c.load /\ d.seenAt = c.seenAt /\ d.checkedAt = c.checkedAt /\ d.quiet = b
    BY DEF Requests
  <2> HIDE DEF d
  <2>5. Offered(d)
    BY <1>2, <2>3, <2>4, OfferKept DEF Proper
  <2>6. Held(d)
    BY <1>2, <2>3, <2>4, <2>5, HeldKept
  <2>7. Fits(d, d.pc)
    BY <1>2, <1>3, <1>4, <2>4, <2>1
          DEF Fits, Proper, Unowned, Resolved, Placed, StopOwned, At, Steps, Resolving, Handing, Reading, Sending,
          Checking
  <2> QED BY <1>1, <2>2, <2>3, <2>6, <2>7, Fitting, Turns
<1>5. CASE Fail(p)
  BY <1>1, <1>5, Failing
<1> QED BY <1>2, <1>4, <1>5 DEF StopOwned, GoOrFail

LEMMA EvidenceInv ==
  ASSUME AccessInv, NEW p \in Requesters, Evidence(p)
  PROVE  AccessInv'
<1>1. Evolves
  BY Alone DEF Evidence
<1>2. PICK c \in Requests : c = caller[p] /\ Proper(c)
  BY DEF AccessInv, Types
<1>3. Types /\ Sized
  BY Sizes DEF AccessInv
<1>4. CASE Set(p, [c EXCEPT !.pc = "recheck created",
      !.recovery = (~(record # "none" /\ Runtime.status = "active")), !.quiet = (owner = Nobody)])
  <2>1. PICK b \in BOOLEAN : b = (owner = Nobody)
    BY <1>3
  <2>2. PICK a \in BOOLEAN : a = (~(record # "none" /\ Runtime.status = "active"))
    BY <1>3, <2>1
  <2> DEFINE d == [c EXCEPT !.pc = "recheck created", !.recovery = a, !.quiet = b]
  <2>3. Set(p, d)
    BY <1>4, <2>1, <2>2
  <2>4. d \in Requests
    BY ZenonT(60) DEF Requests, Steps, Resolving, Handing, Reading, Sending, Checking
  <2>5. /\ d.pc = "recheck created" /\ d.op = c.op /\ d.scoped = c.scoped /\ d.ret = c.ret /\ d.acc = c.acc
        /\ d.adm = c.adm /\ d.want = c.want /\ d.owner = c.owner /\ d.g = c.g /\ d.turn = c.turn
        /\ d.kind = c.kind /\ d.base = c.base /\ d.value = c.value /\ d.recovery = a /\ d.key = c.key
        /\ d.load = c.load /\ d.seenAt = c.seenAt /\ d.checkedAt = c.checkedAt /\ d.quiet = b
    BY DEF Requests
  <2> HIDE DEF d
  <2>6. Offered(d)
    BY <1>2, <2>4, <2>5, OfferKept DEF Proper
  <2>7. Held(d)
    BY <1>2, <2>4, <2>5, <2>6, <1>4, <2>1, <2>2 DEF Held, Proper, Resolved, Evidence, At
  <2>8. Fits(d, d.pc)
    BY <1>2, <1>3, <1>4, <2>5, <2>1, <2>2
          DEF Fits, Proper, Unowned, Resolved, Placed, Evidence, At, Steps, Resolving, Handing, Reading, Sending,
          Checking
  <2> QED BY <1>1, <2>3, <2>4, <2>7, <2>8, Fitting, Turns
<1>5. CASE Fail(p)
  BY <1>1, <1>5, Failing
<1> QED BY <1>2, <1>4, <1>5 DEF Evidence, GoOrFail

LEMMA BaseInv ==
  ASSUME AccessInv, NEW p \in Requesters, Base(p)
  PROVE  AccessInv'
<1>1. Evolves
  BY Alone DEF Base
<1>2. PICK c \in Requests : c = caller[p] /\ Proper(c)
  BY DEF AccessInv, Types
<1>3. Types /\ Sized
  BY Sizes DEF AccessInv
<1>4. CASE cur # 0 /\ ent[cur].owner = c.owner /\ Set(p, [c EXCEPT !.pc = "op owner", !.g = cur,
      !.base = ent[cur].rev])
  <2>1. cur \in 1..Len(ent) /\ cur \in Nat
    BY <1>3, <1>4 DEF AccessInv, Shelf, Current, Sized, Types, World
  <2>2. ent[cur].rev \in Nat
    BY <1>3, <2>1 DEF Sized, Entries
  <2>3. PICK g \in Nat : g = cur
    BY <1>3, <2>1, <2>2
  <2>4. PICK n \in Nat : n = ent[cur].rev
    BY <1>3, <2>1, <2>2, <2>3
  <2> DEFINE d == [c EXCEPT !.pc = "op owner", !.g = g, !.base = n]
  <2>5. Set(p, d)
    BY <1>4, <2>1, <2>2, <2>3, <2>4
  <2>6. d \in Requests
    BY DEF Requests, Steps, Resolving, Handing, Reading, Sending, Checking
  <2>7. /\ d.pc = "op owner" /\ d.op = c.op /\ d.scoped = c.scoped /\ d.ret = c.ret /\ d.acc = c.acc
        /\ d.adm = c.adm /\ d.want = c.want /\ d.owner = c.owner /\ d.g = g /\ d.turn = c.turn
        /\ d.kind = c.kind /\ d.base = n /\ d.value = c.value /\ d.recovery = c.recovery /\ d.key = c.key
        /\ d.load = c.load /\ d.seenAt = c.seenAt /\ d.checkedAt = c.checkedAt /\ d.quiet = c.quiet
    BY DEF Requests
  <2> HIDE DEF d
  <2>8. Offered(d)
    BY <1>2, <2>6, <2>7, OfferKept DEF Proper
  <2>9. Held(d)
    BY <1>2, <2>6, <2>7, <2>8, HeldKept
  <2>10. c.op # "send" /\ g \in 1..Len(ent) /\ ent[g].owner = c.owner
    BY <1>2, <1>3, <1>4, <2>1, <2>2, <2>3, <2>4 DEF Proper, Placed, Base, At
  <2>11. Fits(d, d.pc)
    BY <2>7, <2>10 DEF Fits, Steps, Resolving, Handing, Reading, Sending, Checking
  <2> QED BY <1>1, <2>5, <2>6, <2>9, <2>11, Fitting, Turns
<1>5. CASE Fail(p)
  BY <1>1, <1>5, Failing
<1> QED BY <1>2, <1>4, <1>5 DEF Base, GoOrFail

LEMMA OpEntryInv ==
  ASSUME AccessInv, NEW p \in Requesters, OpEntry(p)
  PROVE  AccessInv'
<1>1. Evolves
  BY Alone DEF OpEntry
<1>2. PICK c \in Requests : c = caller[p] /\ Proper(c)
  BY DEF AccessInv, Types
<1>3. Types /\ Sized
  BY Sizes DEF AccessInv
<1>4. CASE cur = c.adm.g /\ ent[c.adm.g].epoch = c.adm.epoch /\ Set(p, [c EXCEPT !.pc = "op send",
      !.checkedAt = ent[c.adm.g].rev])
  <2>1. c.pc = "op entry" /\ c.adm.g # 0
    BY <1>2 DEF OpEntry, At, Proper, Chosen
  <2>2. c.adm.g \in 1..Len(ent) /\ c.seenAt \in 1..Len(log) /\ Identity(ent[c.adm.g].rev) = Identity(c.seenAt)
    BY <1>2, <2>1, <1>4 DEF Proper, Offered, Kept
  <2>3. ent[c.adm.g].rev \in 1..Len(log) /\ ent[c.adm.g].rev \in Nat
    BY <1>3, <2>2 DEF AccessInv, Shelf, Followed, Sized, Entries
  <2>4. PICK n \in Nat : n = ent[c.adm.g].rev
    BY <1>3, <2>1, <2>2, <2>3
  <2> DEFINE d == [c EXCEPT !.pc = "op send", !.checkedAt = n]
  <2>5. Set(p, d)
    BY <1>4, <2>1, <2>2, <2>3, <2>4
  <2>6. d \in Requests
    BY DEF Requests, Steps, Resolving, Handing, Reading, Sending, Checking
  <2>7. /\ d.pc = "op send" /\ d.op = c.op /\ d.scoped = c.scoped /\ d.ret = c.ret /\ d.acc = c.acc
        /\ d.adm = c.adm /\ d.want = c.want /\ d.owner = c.owner /\ d.g = c.g /\ d.turn = c.turn
        /\ d.kind = c.kind /\ d.base = c.base /\ d.value = c.value /\ d.recovery = c.recovery /\ d.key = c.key
        /\ d.load = c.load /\ d.seenAt = c.seenAt /\ d.checkedAt = n /\ d.quiet = c.quiet
    BY DEF Requests
  <2> HIDE DEF d
  <2>8. Offered(d)
    BY <1>2, <2>6, <2>7, OfferKept DEF Proper
  <2>9. Held(d)
    BY <1>2, <2>6, <2>7, <2>8, HeldKept
  <2>10. n \in 1..Len(log) /\ Identity(n) = Identity(c.seenAt) /\ log[n].active = log[c.seenAt].active
    BY <1>2, <1>3, <1>4, <2>1, <2>2, <2>3, <2>4 DEF Identity
  <2>11. c.scoped /\ c.op = "send" => (c.kind = "steer" <=> log[n].active)
    BY <1>2, <1>3, <1>4, <2>1, <2>2, <2>3, <2>4, <2>10 DEF Proper, Chosen, Checking
  <2>12. c.op = "settings" => c.g \in 1..Len(ent) /\ ent[c.g].owner = c.owner
    BY <1>2, <1>3, <1>4, <2>1, <2>2, <2>3, <2>4, <2>10, <2>11 DEF Proper, Settling, Sending, Checking
  <2>13. c.seenAt \in 1..Len(log)
    BY <1>2, <1>3, <1>4, <2>1, <2>2, <2>3, <2>4, <2>10, <2>11, <2>12
  <2>14. Fits(d, d.pc)
    BY <2>7, <2>10, <2>11, <2>12, <2>13 DEF Fits, Steps, Resolving, Handing, Reading, Sending, Checking
  <2> QED BY <1>1, <2>5, <2>6, <2>9, <2>14, Fitting, Turns
<1>5. CASE Fail(p)
  BY <1>1, <1>5, Failing
<1> QED BY <1>2, <1>4, <1>5 DEF OpEntry, GoOrFail

LEMMA ReadScopeInv ==
  ASSUME AccessInv, NEW p \in Requesters, ReadScope(p)
  PROVE  AccessInv'
<1>1. Evolves
  BY Alone DEF ReadScope
<1>2. PICK c \in Requests : c = caller[p] /\ Proper(c)
  BY DEF AccessInv, Types
<1>3. Types /\ Sized
  BY Sizes DEF AccessInv
<1>4. CASE Set(p, [c EXCEPT !.pc = "resolve", !.acc = [NoAccess EXCEPT !.scope = account]])
  <2>1. account \in Scopes
    BY <1>3 DEF Types, World
  <2>2. PICK a \in Accesses : a = [NoAccess EXCEPT !.scope = account] /\ a.g = 0 /\ a.nat = 0 /\ ~a.recovery
    <3> DEFINE a == [NoAccess EXCEPT !.scope = account]
    <3>1. a \in Accesses
      BY <2>1 DEF Accesses, Requests, NoAccess, Clients, Scopes, Nobody
    <3>2. a.g = 0 /\ a.nat = 0 /\ ~a.recovery
      BY DEF Accesses, Requests, NoAccess
    <3> QED BY <3>1, <3>2, <2>1
  <2> DEFINE d == [c EXCEPT !.pc = "resolve", !.acc = a]
  <2>3. Set(p, d)
    BY <1>4, <2>1, <2>2
  <2>4. d \in Requests
    BY DEF Requests, Steps, Resolving, Handing, Reading, Sending, Checking
  <2>5. /\ d.pc = "resolve" /\ d.op = c.op /\ d.scoped = c.scoped /\ d.ret = c.ret /\ d.acc = a
        /\ d.adm = c.adm /\ d.want = c.want /\ d.owner = c.owner /\ d.g = c.g /\ d.turn = c.turn
        /\ d.kind = c.kind /\ d.base = c.base /\ d.value = c.value /\ d.recovery = c.recovery /\ d.key = c.key
        /\ d.load = c.load /\ d.seenAt = c.seenAt /\ d.checkedAt = c.checkedAt /\ d.quiet = c.quiet
    BY DEF Requests
  <2> HIDE DEF d
  <2>6. c.pc = "scope" /\ c.owner = Nobody
    BY <1>2, <1>3, <1>4, <2>1, <2>2 DEF Proper, Unowned, Resolved, Placed, At, Resolving, Handing, Reading, ReadScope
  <2>7. Offered(d)
    BY <1>2, <2>4, <2>5, <2>1, <2>2, <2>6 DEF Proper, Offered, Kept
  <2>8. Held(d)
    BY <1>2, <2>4, <2>5, <2>7, <2>1, <2>2, <2>6 DEF Held, Proper, Resolved
  <2>9. Fits(d, d.pc)
    BY <2>5, <2>1, <2>2, <2>6 DEF Fits, Steps, Resolving, Handing, Reading, Sending, Checking
  <2> QED BY <1>1, <2>3, <2>4, <2>8, <2>9, Fitting, Turns
<1> QED BY <1>2, <1>4 DEF ReadScope, GoOrFail

LEMMA ResolveInv ==
  ASSUME AccessInv, NEW p \in Requesters, Resolve(p)
  PROVE  AccessInv'
<1>1. Evolves
  BY Asks DEF Resolve
<1>2. PICK c \in Requests : c = caller[p] /\ Proper(c)
  BY DEF AccessInv, Types
<1>3. Types /\ Sized
  BY Sizes DEF AccessInv
<1>4. CASE Set(p, [c EXCEPT !.pc = (IF owner # Nobody THEN "follow" ELSE "created"),
      !.acc = [c.acc EXCEPT !.owner = owner, !.kind = IF owner # Nobody THEN "unconfirmed" ELSE "history"]])
  <2>1. PICK k \in {"unconfirmed", "history"} : k = IF owner # Nobody THEN "unconfirmed" ELSE "history"
    OBVIOUS
  <2>2. owner \in Clients
    BY <1>3 DEF Types, World
  <2>3. PICK a \in Accesses : a = [c.acc EXCEPT !.owner = owner,
        !.kind = IF owner # Nobody THEN "unconfirmed" ELSE "history"]
       /\ a.g = c.acc.g /\ a.epoch = c.acc.epoch /\ a.nat = c.acc.nat /\ a.recovery = c.acc.recovery /\ a.may = c.acc.may /\ a.owner = owner
    <3> DEFINE a == [c.acc EXCEPT !.owner = owner, !.kind = k]
    <3>1. a \in Accesses
      BY <2>1, <2>2 DEF Accesses, Requests
    <3>2. a.g = c.acc.g /\ a.epoch = c.acc.epoch /\ a.nat = c.acc.nat /\ a.recovery = c.acc.recovery /\ a.may = c.acc.may /\ a.owner = owner
      BY DEF Accesses, Requests, NoAccess
    <3> QED BY <3>1, <3>2, <2>1, <2>2
  <2>4. PICK x \in {"follow", "created"} : x = (IF owner # Nobody THEN "follow" ELSE "created") /\ (x = "follow" => owner # Nobody)
    BY <1>2, <1>3, <1>4, <2>1, <2>2, <2>3
  <2> DEFINE d == [c EXCEPT !.pc = x, !.acc = a]
  <2>5. Set(p, d)
    BY <1>4, <2>1, <2>2, <2>3, <2>4
  <2>6. d \in Requests
    BY DEF Requests, Steps, Resolving, Handing, Reading, Sending, Checking
  <2>7. /\ d.pc = x /\ d.op = c.op /\ d.scoped = c.scoped /\ d.ret = c.ret /\ d.acc = a /\ d.adm = c.adm
        /\ d.want = c.want /\ d.owner = c.owner /\ d.g = c.g /\ d.turn = c.turn /\ d.kind = c.kind
        /\ d.base = c.base /\ d.value = c.value /\ d.recovery = c.recovery /\ d.key = c.key /\ d.load = c.load
        /\ d.seenAt = c.seenAt /\ d.checkedAt = c.checkedAt /\ d.quiet = c.quiet
    BY DEF Requests
  <2> HIDE DEF d
  <2>8. c.pc = "resolve" /\ c.owner = Nobody /\ c.acc.nat = 0 /\ ~c.acc.recovery
    BY <1>2, <1>3, <1>4, <2>1, <2>2, <2>3, <2>4
          DEF Proper, Unowned, Resolved, Placed, At, Resolving, Handing, Reading, Resolve
  <2>9. Offered(d)
    BY <1>2, <2>6, <2>7, <2>1, <2>2, <2>3, <2>4, <2>8 DEF Proper, Offered
  <2>10. Held(d)
    BY <1>2, <2>6, <2>7, <2>9, <2>1, <2>2, <2>3, <2>4, <2>8 DEF Held, Proper, Resolved
  <2>11. Fits(d, d.pc)
    BY <2>7, <2>1, <2>2, <2>3, <2>4, <2>8 DEF Fits, Steps, Resolving, Handing, Reading, Sending, Checking
  <2> QED BY <1>1, <2>5, <2>6, <2>10, <2>11, Fitting, Turns
<1> QED BY <1>2, <1>4 DEF Resolve, GoOrFail

LEMMA NativeAccessInv ==
  ASSUME AccessInv, NEW p \in Requesters, NativeAccess(p)
  PROVE  AccessInv'
<1>1. Evolves
  BY Alone DEF NativeAccess
<1>2. PICK c \in Requests : c = caller[p] /\ Proper(c)
  BY DEF AccessInv, Types
<1>3. Types /\ Sized
  BY Sizes DEF AccessInv
<1>4. CASE Set(p, [c EXCEPT !.pc = "recheck", !.quiet = (owner = Nobody), !.acc = [c.acc EXCEPT !.kind = "scope",
      !.nat = exec.gen,
      !.may = IF ~exec.live THEN {} ELSE {"send", "settings"} \cup (IF exec.active THEN {"stop"} ELSE {})]])
  <2>1. exec.gen \in Nat
    BY <1>3 DEF Types, World
  <2>2. PICK m \in SUBSET Ops : m = IF ~exec.live THEN {} ELSE {"send", "settings"} \cup (IF exec.active THEN {"stop"} ELSE {})
    BY DEF Ops
  <2>3. PICK b \in BOOLEAN : b = (owner = Nobody)
    BY <1>2, <1>3, <1>4, <2>1, <2>2
  <2>4. PICK a \in Accesses : a = [c.acc EXCEPT !.kind = "scope", !.nat = exec.gen,
        !.may = IF ~exec.live THEN {} ELSE {"send", "settings"} \cup (IF exec.active THEN {"stop"} ELSE {})]
       /\ a.g = c.acc.g /\ a.epoch = c.acc.epoch /\ a.recovery = c.acc.recovery
    <3> DEFINE a == [c.acc EXCEPT !.kind = "scope", !.nat = exec.gen, !.may = m]
    <3>1. a \in Accesses
      BY <2>1, <2>2, <2>3 DEF Accesses, Requests
    <3>2. a.g = c.acc.g /\ a.epoch = c.acc.epoch /\ a.recovery = c.acc.recovery
      BY DEF Accesses, Requests, NoAccess
    <3> QED BY <3>1, <3>2, <2>1, <2>2, <2>3
  <2> DEFINE d == [c EXCEPT !.pc = "recheck", !.quiet = b, !.acc = a]
  <2>5. Set(p, d)
    BY <1>4, <2>1, <2>2, <2>3, <2>4
  <2>6. d \in Requests
    BY DEF Requests, Steps, Resolving, Handing, Reading, Sending, Checking
  <2>7. /\ d.pc = "recheck" /\ d.op = c.op /\ d.scoped = c.scoped /\ d.ret = c.ret /\ d.acc = a
        /\ d.adm = c.adm /\ d.want = c.want /\ d.owner = c.owner /\ d.g = c.g /\ d.turn = c.turn
        /\ d.kind = c.kind /\ d.base = c.base /\ d.value = c.value /\ d.recovery = c.recovery /\ d.key = c.key
        /\ d.load = c.load /\ d.seenAt = c.seenAt /\ d.checkedAt = c.checkedAt /\ d.quiet = b
    BY DEF Requests
  <2> HIDE DEF d
  <2>8. c.pc = "native" /\ c.owner = Nobody /\ ~c.acc.recovery
    BY <1>2, <1>3, <1>4, <2>1, <2>2, <2>3, <2>4
          DEF Proper, Unowned, Resolved, Placed, At, Resolving, Handing, Reading, NativeAccess
  <2>9. owner = Nobody => b
    BY <1>2, <1>3, <1>4, <2>1, <2>2, <2>3, <2>4, <2>8
  <2>10. Offered(d)
    BY <1>2, <2>6, <2>7, <2>1, <2>2, <2>3, <2>4, <2>8, <2>9 DEF Proper, Offered
  <2>11. Held(d)
    BY <1>2, <2>6, <2>7, <2>10, <2>1, <2>2, <2>3, <2>4, <2>8, <2>9 DEF Held, Proper, Resolved
  <2>12. Fits(d, d.pc)
    BY <2>7, <2>1, <2>2, <2>3, <2>4, <2>8, <2>9 DEF Fits, Steps, Resolving, Handing, Reading, Sending, Checking
  <2> QED BY <1>1, <2>5, <2>6, <2>11, <2>12, Fitting, Turns
<1> QED BY <1>2, <1>4 DEF NativeAccess, GoOrFail

LEMMA ReadHistoryInv ==
  ASSUME AccessInv, NEW p \in Requesters, ReadHistory(p)
  PROVE  AccessInv'
<1>1. Evolves
  BY Alone DEF ReadHistory
<1>2. PICK c \in Requests : c = caller[p] /\ Proper(c)
  BY DEF AccessInv, Types
<1>3. Types /\ Sized
  BY Sizes DEF AccessInv
<1>4. CASE Go(p, "confirm")
  <2>1. Fits(c, "confirm") /\ "confirm" \in Steps
    BY <1>2, <1>4 DEF ReadHistory, At, Fits, Proper, Unowned, Resolved, Placed, Steps, Resolving, Handing, Reading,
          Sending, Checking
  <2> QED BY <1>1, <1>2, <1>4, <2>1, Going
<1>5. CASE Set(p, [c EXCEPT !.pc = "recheck idle", !.quiet = (owner = Nobody), !.acc = [c.acc EXCEPT !.hist = hist.n]])
  <2>1. hist.n \in Nat
    BY <1>3 DEF Types, World
  <2>2. PICK b \in BOOLEAN : b = (owner = Nobody)
    BY <1>2, <1>3, <1>5, <2>1
  <2>3. PICK a \in Accesses : a = [c.acc EXCEPT !.hist = hist.n]
       /\ a.g = c.acc.g /\ a.epoch = c.acc.epoch /\ a.recovery = c.acc.recovery
    <3> DEFINE a == [c.acc EXCEPT !.hist = hist.n]
    <3>1. a \in Accesses
      BY <2>1, <2>2 DEF Accesses, Requests
    <3>2. a.g = c.acc.g /\ a.epoch = c.acc.epoch /\ a.recovery = c.acc.recovery
      BY DEF Accesses, Requests, NoAccess
    <3> QED BY <3>1, <3>2, <2>1, <2>2
  <2> DEFINE d == [c EXCEPT !.pc = "recheck idle", !.quiet = b, !.acc = a]
  <2>4. Set(p, d)
    BY <1>5, <2>1, <2>2, <2>3
  <2>5. d \in Requests
    BY DEF Requests, Steps, Resolving, Handing, Reading, Sending, Checking
  <2>6. /\ d.pc = "recheck idle" /\ d.op = c.op /\ d.scoped = c.scoped /\ d.ret = c.ret /\ d.acc = a
        /\ d.adm = c.adm /\ d.want = c.want /\ d.owner = c.owner /\ d.g = c.g /\ d.turn = c.turn
        /\ d.kind = c.kind /\ d.base = c.base /\ d.value = c.value /\ d.recovery = c.recovery /\ d.key = c.key
        /\ d.load = c.load /\ d.seenAt = c.seenAt /\ d.checkedAt = c.checkedAt /\ d.quiet = b
    BY DEF Requests
  <2> HIDE DEF d
  <2>7. c.pc = "history" /\ c.owner = Nobody /\ ~c.acc.recovery
    BY <1>2, <1>3, <1>5, <2>1, <2>2, <2>3
          DEF Proper, Unowned, Resolved, Placed, At, Resolving, Handing, Reading, ReadHistory
  <2>8. owner = Nobody => b
    BY <1>2, <1>3, <1>5, <2>1, <2>2, <2>3, <2>7
  <2>9. Offered(d)
    BY <1>2, <2>5, <2>6, <2>1, <2>2, <2>3, <2>7, <2>8, ZenonT(60) DEF Proper, Offered
  <2>10. Held(d)
    BY <1>2, <2>5, <2>6, <2>9, <2>1, <2>2, <2>3, <2>7, <2>8 DEF Held, Proper, Resolved
  <2>11. Fits(d, d.pc)
    BY <2>6, <2>1, <2>2, <2>3, <2>7, <2>8 DEF Fits, Steps, Resolving, Handing, Reading, Sending, Checking
  <2> QED BY <1>1, <2>4, <2>5, <2>10, <2>11, Fitting, Turns
<1> QED BY <1>2, <1>4, <1>5 DEF ReadHistory, GoOrFail

LEMMA RecheckIdleInv ==
  ASSUME AccessInv, NEW p \in Requesters, RecheckIdle(p)
  PROVE  AccessInv'
<1>1. Evolves
  BY Asks DEF RecheckIdle
<1>2. PICK c \in Requests : c = caller[p] /\ Proper(c)
  BY DEF AccessInv, Types
<1>3. Types /\ Sized
  BY Sizes DEF AccessInv
<1>4. CASE owner = Nobody /\ Set(p, [c EXCEPT !.pc = "confirm", !.acc = [c.acc EXCEPT !.recovery = TRUE,
      !.may = {"send", "settings"}]])
  <2>1. PICK a \in Accesses : a = [c.acc EXCEPT !.recovery = TRUE, !.may = {"send", "settings"}]
       /\ a.g = c.acc.g /\ a.epoch = c.acc.epoch /\ a.may = {"send", "settings"}
    <3> DEFINE a == [c.acc EXCEPT !.recovery = TRUE, !.may = {"send", "settings"}]
    <3>1. a \in Accesses
      BY  DEF Accesses, Requests, Ops
    <3>2. a.g = c.acc.g /\ a.epoch = c.acc.epoch /\ a.may = {"send", "settings"}
      BY DEF Accesses, Requests, NoAccess
    <3> QED BY <3>1, <3>2
  <2> DEFINE d == [c EXCEPT !.pc = "confirm", !.acc = a]
  <2>2. Set(p, d)
    BY <1>4, <2>1
  <2>3. d \in Requests
    BY DEF Requests, Steps, Resolving, Handing, Reading, Sending, Checking
  <2>4. /\ d.pc = "confirm" /\ d.op = c.op /\ d.scoped = c.scoped /\ d.ret = c.ret /\ d.acc = a
        /\ d.adm = c.adm /\ d.want = c.want /\ d.owner = c.owner /\ d.g = c.g /\ d.turn = c.turn
        /\ d.kind = c.kind /\ d.base = c.base /\ d.value = c.value /\ d.recovery = c.recovery /\ d.key = c.key
        /\ d.load = c.load /\ d.seenAt = c.seenAt /\ d.checkedAt = c.checkedAt /\ d.quiet = c.quiet
    BY DEF Requests
  <2> HIDE DEF d
  <2>5. c.owner = Nobody /\ c.quiet
    BY <1>2, <1>3, <1>4, <2>1 DEF Proper, Unowned, Resolved, Placed, At, Resolving, Handing, Reading, RecheckIdle
  <2>6. Offered(d)
    BY <1>2, <2>3, <2>4, <2>1, <2>5 DEF Proper, Offered
  <2>7. Held(d)
    BY <1>2, <2>3, <2>4, <2>6, <2>1, <2>5 DEF Held, Proper, Resolved
  <2>8. Fits(d, d.pc)
    BY <2>4, <2>1, <2>5 DEF Fits, Steps, Resolving, Handing, Reading, Sending, Checking
  <2> QED BY <1>1, <2>2, <2>3, <2>7, <2>8, Fitting, Turns
<1>5. CASE Fail(p)
  BY <1>1, <1>5, Failing
<1> QED BY <1>2, <1>4, <1>5 DEF RecheckIdle, GoOrFail

LEMMA ProjectAccessInv ==
  ASSUME AccessInv, NEW p \in Requesters, ProjectAccess(p)
  PROVE  AccessInv'
<1>1. Evolves
  BY Alone DEF ProjectAccess
<1>2. PICK c \in Requests : c = caller[p] /\ Proper(c)
  BY DEF AccessInv, Types
<1>3. Types /\ Sized
  BY Sizes DEF AccessInv
<1>4. CASE cur = c.g /\ Set(p, [c EXCEPT !.pc = "confirm",
      !.seenAt = (IF c.ret = "offer" THEN ent[c.g].rev ELSE c.seenAt), !.acc = [c.acc EXCEPT !.kind = "desktop",
      !.g = cur, !.epoch = ent[c.g].epoch, !.conn = ent[c.g].conn,
      !.may = (IF conn # ent[c.g].conn THEN {}
      ELSE {"send", "settings"} \cup (IF log[ent[c.g].rev].active THEN {"stop"} ELSE {}))]])
  <2>1. c.pc = "entry" /\ c.owner = Nobody /\ ~c.acc.recovery /\ c.acc.nat = 0 /\ c.g \in 1..Len(ent)
    BY <1>2, <1>3, <1>4 DEF Proper, Unowned, Resolved, Placed, At, Resolving, Handing, Reading, ProjectAccess
  <2>2. PICK e \in Entries : e = ent[c.g]
    BY <1>3, <2>1 DEF Sized
  <2>3. e.epoch \in Nat /\ e.conn \in Nat /\ e.rev \in Nat /\ e.rev \in 1..Len(log) /\ cur \in Nat
    BY <1>3, <2>1, <2>2 DEF Entries, AccessInv, Shelf, Followed, Types, World
  <2>4. PICK m \in SUBSET Ops : m = (IF conn # ent[c.g].conn THEN {} ELSE {"send", "settings"} \cup (IF log[ent[c.g].rev].active THEN {"stop"} ELSE {}))
    BY DEF Ops
  <2>5. Kept(cur, e.epoch, e.rev)
    BY <1>4, <2>1, <2>2, <2>3 DEF Kept
  <2>6. PICK n \in Nat : n = (IF c.ret = "offer" THEN ent[c.g].rev ELSE c.seenAt)
       /\ (c.ret = "offer" => n = e.rev) /\ (c.ret # "offer" => n = c.seenAt)
    BY <2>2, <2>3 DEF Requests
  <2>7. PICK a \in Accesses : a = [c.acc EXCEPT !.kind = "desktop", !.g = cur, !.epoch = ent[c.g].epoch,
        !.conn = ent[c.g].conn,
        !.may = (IF conn # ent[c.g].conn THEN {}
        ELSE {"send", "settings"} \cup (IF log[ent[c.g].rev].active THEN {"stop"} ELSE {}))]
       /\ a.g = cur /\ a.epoch = e.epoch /\ a.nat = c.acc.nat /\ a.recovery = c.acc.recovery
    <3> DEFINE a == [c.acc EXCEPT !.kind = "desktop", !.g = cur, !.epoch = e.epoch, !.conn = e.conn, !.may = m]
    <3>1. a \in Accesses
      BY <2>1, <2>2, <2>3, <2>4, <2>5, <2>6, ZenonT(60) DEF Accesses, Requests
    <3>2. a.g = cur /\ a.epoch = e.epoch /\ a.nat = c.acc.nat /\ a.recovery = c.acc.recovery
      BY DEF Accesses, Requests, NoAccess
    <3> QED BY <3>1, <3>2, <2>1, <2>2, <2>3, <2>4, <2>5, <2>6
  <2> DEFINE d == [c EXCEPT !.pc = "confirm", !.seenAt = n, !.acc = a]
  <2>8. Set(p, d)
    BY <1>4, <2>1, <2>2, <2>3, <2>4, <2>5, <2>6, <2>7
  <2>9. d \in Requests
    BY DEF Requests, Steps, Resolving, Handing, Reading, Sending, Checking
  <2>10. /\ d.pc = "confirm" /\ d.op = c.op /\ d.scoped = c.scoped /\ d.ret = c.ret /\ d.acc = a
         /\ d.adm = c.adm /\ d.want = c.want /\ d.owner = c.owner /\ d.g = c.g /\ d.turn = c.turn
         /\ d.kind = c.kind /\ d.base = c.base /\ d.value = c.value /\ d.recovery = c.recovery /\ d.key = c.key
         /\ d.load = c.load /\ d.seenAt = n /\ d.checkedAt = c.checkedAt /\ d.quiet = c.quiet
    BY DEF Requests
  <2> HIDE DEF d
  <2>11. Offered(c)
    BY <1>2 DEF Proper
  <2>12. Offered(d)
    <3>1. CASE c.ret = "offer"
      <4>1. d.adm.g = 0 /\ d.seenAt = e.rev /\ d.acc.g = cur /\ d.acc.epoch = e.epoch /\ d.ret = "offer"
        BY <2>6, <2>7, <2>10, <2>11, <3>1 DEF Offered
      <4>2. Kept(d.acc.g, d.acc.epoch, d.seenAt) /\ Kept(d.adm.g, d.adm.epoch, d.seenAt)
        BY <2>5, <4>1 DEF Kept
      <4> QED BY <4>1, <4>2 DEF Offered
    <3>2. CASE c.ret # "offer"
      <4>1. d.seenAt = c.seenAt
        BY <2>6, <2>10, <3>2
      <4> QED BY <2>10, <2>11, <3>2, <4>1 DEF Offered
    <3> QED BY <3>1, <3>2
  <2>13. Held(d)
    BY <1>2, <2>9, <2>10, <2>12, <2>1, <2>2, <2>3, <2>4, <2>5, <2>6, <2>7, <2>11 DEF Held, Proper, Resolved
  <2>14. Fits(d, d.pc)
    BY <2>10, <2>1, <2>2, <2>3, <2>4, <2>5, <2>6, <2>7, <2>11
          DEF Fits, Steps, Resolving, Handing, Reading, Sending, Checking
  <2> QED BY <1>1, <2>8, <2>9, <2>13, <2>14, Fitting, Turns
<1>5. CASE Fail(p)
  BY <1>1, <1>5, Failing
<1> QED BY <1>2, <1>4, <1>5 DEF ProjectAccess, GoOrFail

LEMMA ConfirmScopeInv ==
  ASSUME AccessInv, NEW p \in Requesters, ConfirmScope(p)
  PROVE  AccessInv'
<1>1. Evolves
  BY Alone DEF ConfirmScope
<1>2. PICK c \in Requests : c = caller[p] /\ Proper(c)
  BY DEF AccessInv, Types
<1>3. Types /\ Sized
  BY Sizes DEF AccessInv
<1>4. CASE c.op = "access" /\ Go(p, "ok")
  <2>1. Fits(c, "ok") /\ "ok" \in Steps
    BY <1>2, <1>4 DEF ConfirmScope, At, Fits, Proper, Unowned, Resolved, Placed, Steps, Resolving, Handing, Reading,
          Sending, Checking
  <2> QED BY <1>1, <1>2, <1>4, <2>1, Going
<1>5. CASE c.ret = "offer" /\ Set(p, [c EXCEPT !.pc = "scope", !.ret = "admit", !.want = Binding(c.acc)])
  <2>1. c.acc \in Accesses
    BY DEF Requests
  <2>2. PICK w \in {Binding(a) : a \in Accesses} : w = Binding(c.acc)
    BY <1>2, <1>3, <1>5, <2>1
  <2> DEFINE d == [c EXCEPT !.pc = "scope", !.ret = "admit", !.want = w]
  <2>3. Set(p, d)
    BY <1>5, <2>1, <2>2
  <2>4. d \in Requests
    BY DEF Requests, Steps, Resolving, Handing, Reading, Sending, Checking
  <2>5. /\ d.pc = "scope" /\ d.op = c.op /\ d.scoped = c.scoped /\ d.ret = "admit" /\ d.acc = c.acc
        /\ d.adm = c.adm /\ d.want = w /\ d.owner = c.owner /\ d.g = c.g /\ d.turn = c.turn /\ d.kind = c.kind
        /\ d.base = c.base /\ d.value = c.value /\ d.recovery = c.recovery /\ d.key = c.key /\ d.load = c.load
        /\ d.seenAt = c.seenAt /\ d.checkedAt = c.checkedAt /\ d.quiet = c.quiet
    BY DEF Requests
  <2> HIDE DEF d
  <2>6. c.owner = Nobody /\ Kept(c.acc.g, c.acc.epoch, c.seenAt) /\ c.adm.g = 0
    BY <1>2, <1>3, <1>5, <2>1, <2>2
          DEF Offered,  Proper, Unowned, Resolved, Placed, At, Resolving, Handing, Reading, ConfirmScope
  <2>7. Offered(d)
    BY <1>2, <2>4, <2>5, <2>1, <2>2, <2>6 DEF Offered, Kept
  <2>8. Held(d)
    BY <1>2, <2>4, <2>5, <2>7, HeldKept
  <2>9. Fits(d, d.pc)
    BY <2>5, <2>1, <2>2, <2>6 DEF Fits, Steps, Resolving, Handing, Reading, Sending, Checking
  <2> QED BY <1>1, <2>3, <2>4, <2>8, <2>9, Fitting, Turns
<1>6. CASE c.ret = "admit" /\ Admitted(p) /\ Set(p, [c EXCEPT !.pc = "scope", !.ret = "destination", !.adm = c.acc])
  <2>1. c.acc \in Accesses
    BY DEF Requests
  <2>2. c.want = Binding(c.acc)
    BY <1>2, <1>6 DEF Admitted
  <2>3. PICK a \in Accesses : c.want = Binding(a) /\ Kept(a.g, a.epoch, c.seenAt)
    BY <1>2, <1>6 DEF Proper, Offered
  <2>4. a.g = c.acc.g /\ a.epoch = c.acc.epoch
    BY <2>2, <2>3 DEF Binding
  <2>5. Kept(c.acc.g, c.acc.epoch, c.seenAt)
    BY <2>3, <2>4
  <2> DEFINE d == [c EXCEPT !.pc = "scope", !.ret = "destination", !.adm = c.acc]
  <2>6. Set(p, d)
    BY <1>6, <2>1, <2>2, <2>3, <2>4, <2>5
  <2>7. d \in Requests
    BY DEF Requests, Steps, Resolving, Handing, Reading, Sending, Checking
  <2>8. /\ d.pc = "scope" /\ d.op = c.op /\ d.scoped = c.scoped /\ d.ret = "destination" /\ d.acc = c.acc
        /\ d.adm = c.acc /\ d.want = c.want /\ d.owner = c.owner /\ d.g = c.g /\ d.turn = c.turn
        /\ d.kind = c.kind /\ d.base = c.base /\ d.value = c.value /\ d.recovery = c.recovery /\ d.key = c.key
        /\ d.load = c.load /\ d.seenAt = c.seenAt /\ d.checkedAt = c.checkedAt /\ d.quiet = c.quiet
    BY DEF Requests
  <2> HIDE DEF d
  <2>9. c.owner = Nobody
    BY <1>2, <1>3, <1>6, <2>1, <2>2, <2>3, <2>4, <2>5
          DEF Proper, Unowned, Resolved, Placed, At, Resolving, Handing, Reading, ConfirmScope
  <2>10. Offered(d)
    BY <1>2, <2>7, <2>8, <2>1, <2>2, <2>3, <2>4, <2>5, <2>9 DEF Offered
  <2>11. Held(d)
    BY <1>2, <2>7, <2>8, <2>10, <2>1, <2>2, <2>3, <2>4, <2>5, <2>9 DEF Held, Proper, Resolved
  <2>12. Fits(d, d.pc)
    BY <2>8, <2>1, <2>2, <2>3, <2>4, <2>5, <2>9 DEF Fits, Steps, Resolving, Handing, Reading, Sending, Checking
  <2> QED BY <1>1, <2>6, <2>7, <2>11, <2>12, Fitting, Turns
<1>7. CASE c.ret = "destination" /\ c.adm.owner # Nobody /\ Set(p, [c EXCEPT !.pc = "control", !.owner = c.adm.owner])
  <2>1. c.adm.owner \in Clients
    BY DEF Requests, Accesses
  <2>2. PICK o \in Clients : o = c.adm.owner
    BY <1>2, <1>3, <1>7, <2>1
  <2> DEFINE d == [c EXCEPT !.pc = "control", !.owner = o]
  <2>3. Set(p, d)
    BY <1>7, <2>1, <2>2
  <2>4. d \in Requests
    BY DEF Requests, Steps, Resolving, Handing, Reading, Sending, Checking
  <2>5. /\ d.pc = "control" /\ d.op = c.op /\ d.scoped = c.scoped /\ d.ret = c.ret /\ d.acc = c.acc
        /\ d.adm = c.adm /\ d.want = c.want /\ d.owner = o /\ d.g = c.g /\ d.turn = c.turn /\ d.kind = c.kind
        /\ d.base = c.base /\ d.value = c.value /\ d.recovery = c.recovery /\ d.key = c.key /\ d.load = c.load
        /\ d.seenAt = c.seenAt /\ d.checkedAt = c.checkedAt /\ d.quiet = c.quiet
    BY DEF Requests
  <2> HIDE DEF d
  <2>6. o # Nobody
    BY <1>7, <1>2, <1>3, <1>7, <2>1, <2>2
  <2>7. Offered(d)
    BY <1>2, <2>4, <2>5, OfferKept DEF Proper
  <2>8. Held(d)
    BY <1>2, <2>4, <2>5, <2>7, HeldKept
  <2>9. Fits(d, d.pc)
    BY <2>5, <2>1, <2>2, <2>6 DEF Fits, Steps, Resolving, Handing, Reading, Sending, Checking
  <2> QED BY <1>1, <2>3, <2>4, <2>8, <2>9, Fitting, Turns
<1>8. CASE c.ret = "destination" /\ c.adm.owner = Nobody /\ Reachable(c.adm) /\ c.op \in c.adm.may /\ Set(p,
      [c EXCEPT !.pc = "scope", !.ret = "context"])
  <2> DEFINE d == [c EXCEPT !.pc = "scope", !.ret = "context"]
  <2>1. Set(p, d)
    BY <1>8
  <2>2. d \in Requests
    BY DEF Requests, Steps, Resolving, Handing, Reading, Sending, Checking
  <2>3. /\ d.pc = "scope" /\ d.op = c.op /\ d.scoped = c.scoped /\ d.ret = "context" /\ d.acc = c.acc
        /\ d.adm = c.adm /\ d.want = c.want /\ d.owner = c.owner /\ d.g = c.g /\ d.turn = c.turn
        /\ d.kind = c.kind /\ d.base = c.base /\ d.value = c.value /\ d.recovery = c.recovery /\ d.key = c.key
        /\ d.load = c.load /\ d.seenAt = c.seenAt /\ d.checkedAt = c.checkedAt /\ d.quiet = c.quiet
    BY DEF Requests
  <2> HIDE DEF d
  <2>4. c.owner = Nobody
    BY <1>2, <1>3, <1>8 DEF Proper, Unowned, Resolved, Placed, At, Resolving, Handing, Reading, ConfirmScope
  <2>5. Offered(c)
    BY <1>2 DEF Proper
  <2>6. Offered(d)
    BY <1>2, <2>2, <2>3, <2>4, <2>5, <1>8 DEF Offered
  <2>7. Held(d)
    BY <1>2, <2>2, <2>3, <2>6, HeldKept
  <2>8. Fits(d, d.pc)
    BY <2>3, <2>4, <2>5 DEF Fits, Steps, Resolving, Handing, Reading, Sending, Checking
  <2> QED BY <1>1, <2>1, <2>2, <2>7, <2>8, Fitting, Turns
<1>9. CASE c.ret = "context" /\ Admitted(p) /\ Set(p, [c EXCEPT !.pc = "created op", !.recovery = c.adm.recovery])
  <2>1. c.adm.recovery \in BOOLEAN
    BY DEF Requests, Accesses
  <2>2. c.want = Binding(c.acc)
    BY <1>2, <1>9 DEF Admitted
  <2>3. c.want = Binding(c.adm) /\ c.adm.owner = Nobody /\ Reachable(c.adm) /\ c.op \in c.adm.may
    BY <1>2, <1>9 DEF Proper, Offered
  <2>4. c.acc.nat = c.adm.nat /\ c.acc.recovery = c.adm.recovery
    BY <2>2, <2>3 DEF Binding
  <2>5. c.acc.nat # 0 \/ c.acc.recovery
    BY <2>3, <2>4 DEF Reachable
  <2>6. PICK b \in BOOLEAN : b = c.adm.recovery
    BY <1>2, <1>3, <1>9, <2>1, <2>2, <2>3, <2>4, <2>5
  <2> DEFINE d == [c EXCEPT !.pc = "created op", !.recovery = b]
  <2>7. Set(p, d)
    BY <1>9, <2>1, <2>2, <2>3, <2>4, <2>5, <2>6
  <2>8. d \in Requests
    BY DEF Requests, Steps, Resolving, Handing, Reading, Sending, Checking
  <2>9. /\ d.pc = "created op" /\ d.op = c.op /\ d.scoped = c.scoped /\ d.ret = c.ret /\ d.acc = c.acc
        /\ d.adm = c.adm /\ d.want = c.want /\ d.owner = c.owner /\ d.g = c.g /\ d.turn = c.turn
        /\ d.kind = c.kind /\ d.base = c.base /\ d.value = c.value /\ d.recovery = b /\ d.key = c.key
        /\ d.load = c.load /\ d.seenAt = c.seenAt /\ d.checkedAt = c.checkedAt /\ d.quiet = c.quiet
    BY DEF Requests
  <2> HIDE DEF d
  <2>10. c.owner = Nobody /\ c.quiet
    BY <1>2, <1>3, <1>9, <2>1, <2>2, <2>3, <2>4, <2>5, <2>6
          DEF Proper, Unowned, Resolved, Placed, At, Resolving, Handing, Reading, ConfirmScope
  <2>11. c.adm.recovery => c.op # "stop"
    BY <1>2, <2>3 DEF Proper, Resolved
  <2>12. Offered(d)
    BY <1>2, <2>8, <2>9, OfferKept DEF Proper
  <2>13. Held(d)
    BY <1>2, <2>8, <2>9, <2>12, <2>1, <2>2, <2>3, <2>4, <2>5, <2>6, <2>10, <2>11 DEF Held, Proper, Resolved
  <2>14. Fits(d, d.pc)
    BY <2>9, <2>1, <2>2, <2>3, <2>4, <2>5, <2>6, <2>10, <2>11
          DEF Fits, Steps, Resolving, Handing, Reading, Sending, Checking
  <2> QED BY <1>1, <2>7, <2>8, <2>13, <2>14, Fitting, Turns
<1>10. CASE Fail(p)
  BY <1>1, <1>10, Failing
<1> QED BY <1>2, <1>4, <1>5, <1>6, <1>7, <1>8, <1>9, <1>10 DEF ConfirmScope, GoOrFail

LEMMA DestinationInv ==
  ASSUME AccessInv, NEW p \in Requesters, Destination(p)
  PROVE  AccessInv'
<1>1. Evolves
  BY Asks DEF Destination
<1>2. PICK c \in Requests : c = caller[p] /\ Proper(c)
  BY DEF AccessInv, Types
<1>3. Types /\ Sized
  BY Sizes DEF AccessInv
<1>4. CASE Set(p, [c EXCEPT !.owner = owner,
      !.pc = (IF owner # Nobody THEN "control" ELSE IF c.op = "stop" THEN "owned" ELSE "evidence")])
  <2>1. owner \in Clients
    BY <1>3 DEF Types, World
  <2>2. PICK o \in Clients : o = owner
    BY <1>2, <1>3, <1>4, <2>1
  <2>3. PICK x \in {"control", "owned", "evidence"} : x = (IF owner # Nobody THEN "control" ELSE IF c.op = "stop" THEN "owned" ELSE "evidence")
       /\ (x = "control" <=> o # Nobody) /\ (x = "evidence" => c.op # "stop")
    BY <1>2, <1>3, <1>4, <2>1, <2>2
  <2> DEFINE d == [c EXCEPT !.owner = o, !.pc = x]
  <2>4. Set(p, d)
    BY <1>4, <2>1, <2>2, <2>3
  <2>5. d \in Requests
    BY DEF Requests, Steps, Resolving, Handing, Reading, Sending, Checking
  <2>6. /\ d.pc = x /\ d.op = c.op /\ d.scoped = c.scoped /\ d.ret = c.ret /\ d.acc = c.acc /\ d.adm = c.adm
        /\ d.want = c.want /\ d.owner = o /\ d.g = c.g /\ d.turn = c.turn /\ d.kind = c.kind /\ d.base = c.base
        /\ d.value = c.value /\ d.recovery = c.recovery /\ d.key = c.key /\ d.load = c.load
        /\ d.seenAt = c.seenAt /\ d.checkedAt = c.checkedAt /\ d.quiet = c.quiet
    BY DEF Requests
  <2> HIDE DEF d
  <2>7. Offered(d)
    BY <1>2, <2>5, <2>6, OfferKept DEF Proper
  <2>8. Held(d)
    BY <1>2, <2>5, <2>6, <2>7, HeldKept
  <2>9. Fits(d, d.pc)
    BY <2>6, <2>1, <2>2, <2>3 DEF Fits, Steps, Resolving, Handing, Reading, Sending, Checking
  <2> QED BY <1>1, <2>4, <2>5, <2>8, <2>9, Fitting, Turns
<1> QED BY <1>2, <1>4 DEF Destination, GoOrFail

LEMMA ControlledInv ==
  ASSUME AccessInv, NEW p \in Requesters, Controlled(p)
  PROVE  AccessInv'
<1>1. Evolves
  BY Alone DEF Controlled
<1>2. PICK c \in Requests : c = caller[p] /\ Proper(c)
  BY DEF AccessInv, Types
<1>3. Types /\ Sized
  BY Sizes DEF AccessInv
<1>4. CASE cur = c.g /\ c.op = "send" /\ Set(p, [c EXCEPT !.pc = "op owner",
      !.kind = (IF log[ent[c.g].rev].active THEN "steer" ELSE "start")])
  <2>1. PICK k \in {"steer", "start"} : k = (IF log[ent[c.g].rev].active THEN "steer" ELSE "start") /\ (k = "steer" <=> log[ent[c.g].rev].active)
    OBVIOUS
  <2> DEFINE d == [c EXCEPT !.pc = "op owner", !.kind = k]
  <2>2. Set(p, d)
    BY <1>4, <2>1
  <2>3. d \in Requests
    BY DEF Requests, Steps, Resolving, Handing, Reading, Sending, Checking
  <2>4. /\ d.pc = "op owner" /\ d.op = c.op /\ d.scoped = c.scoped /\ d.ret = c.ret /\ d.acc = c.acc
        /\ d.adm = c.adm /\ d.want = c.want /\ d.owner = c.owner /\ d.g = c.g /\ d.turn = c.turn /\ d.kind = k
        /\ d.base = c.base /\ d.value = c.value /\ d.recovery = c.recovery /\ d.key = c.key /\ d.load = c.load
        /\ d.seenAt = c.seenAt /\ d.checkedAt = c.checkedAt /\ d.quiet = c.quiet
    BY DEF Requests
  <2> HIDE DEF d
  <2>5. c.adm.g # 0 /\ cur = c.adm.g /\ ent[cur].epoch = c.adm.epoch => Identity(ent[c.g].rev) = Identity(c.seenAt)
    BY <1>2, <1>4 DEF Proper, Offered, Kept
  <2>6. c.adm.g # 0 /\ cur = c.adm.g /\ ent[cur].epoch = c.adm.epoch => log[ent[c.g].rev].active = log[c.seenAt].active
    BY <2>5 DEF Identity
  <2>7. c.adm.g # 0 /\ cur = c.adm.g /\ ent[cur].epoch = c.adm.epoch => (k = "steer" <=> log[c.seenAt].active)
    BY <2>1, <2>6
  <2>8. c.op = "send"
    BY <1>4
  <2>9. Offered(d)
    BY <1>2, <2>3, <2>4, OfferKept DEF Proper
  <2>10. Held(d)
    BY <1>2, <2>3, <2>4, <2>9, HeldKept
  <2>11. Fits(d, d.pc)
    BY <2>4, <2>1, <2>5, <2>6, <2>7, <2>8 DEF Fits, Steps, Resolving, Handing, Reading, Sending, Checking
  <2> QED BY <1>1, <2>2, <2>3, <2>10, <2>11, Fitting, Turns
<1>5. CASE c.op = "stop" /\ Go(p, "op owner")
  <2>1. Fits(c, "op owner") /\ "op owner" \in Steps
    BY <1>2, <1>5 DEF Controlled, At, Fits, Proper, Unowned, Resolved, Placed, Steps, Resolving, Handing, Reading,
          Sending, Checking
  <2> QED BY <1>1, <1>2, <1>5, <2>1, Going
<1>6. CASE c.op # "stop" /\ c.op # "send" /\ Go(p, "base")
  <2>1. Fits(c, "base") /\ "base" \in Steps
    BY <1>2, <1>6 DEF Controlled, At, Fits, Proper, Unowned, Resolved, Placed, Steps, Resolving, Handing, Reading,
          Sending, Checking
  <2> QED BY <1>1, <1>2, <1>6, <2>1, Going
<1>7. CASE Fail(p)
  BY <1>1, <1>7, Failing
<1> QED BY <1>2, <1>4, <1>5, <1>6, <1>7 DEF Controlled, GoOrFail

LEMMA DiscoverInv ==
  ASSUME AccessInv, NEW p \in Requesters, Discover(p)
  PROVE  AccessInv'
<1>1. Evolves
  BY Asks DEF Discover
<1>2. PICK c \in Requests : c = caller[p] /\ Proper(c)
  BY DEF AccessInv, Types
<1>3. Types /\ Sized
  BY Sizes DEF AccessInv
<1>4. CASE Set(p, [c EXCEPT !.owner = owner, !.pc = (IF owner # Nobody THEN "read" ELSE "ok")])
  <2>1. owner \in Clients
    BY <1>3 DEF Types, World
  <2>2. PICK o \in Clients : o = owner
    BY <1>2, <1>3, <1>4, <2>1
  <2>3. PICK x \in {"read", "ok"} : x = (IF owner # Nobody THEN "read" ELSE "ok") /\ (x = "read" <=> o # Nobody)
    BY <1>2, <1>3, <1>4, <2>1, <2>2
  <2> DEFINE d == [c EXCEPT !.owner = o, !.pc = x]
  <2>4. Set(p, d)
    BY <1>4, <2>1, <2>2, <2>3
  <2>5. d \in Requests
    BY DEF Requests, Steps, Resolving, Handing, Reading, Sending, Checking
  <2>6. /\ d.pc = x /\ d.op = c.op /\ d.scoped = c.scoped /\ d.ret = c.ret /\ d.acc = c.acc /\ d.adm = c.adm
        /\ d.want = c.want /\ d.owner = o /\ d.g = c.g /\ d.turn = c.turn /\ d.kind = c.kind /\ d.base = c.base
        /\ d.value = c.value /\ d.recovery = c.recovery /\ d.key = c.key /\ d.load = c.load
        /\ d.seenAt = c.seenAt /\ d.checkedAt = c.checkedAt /\ d.quiet = c.quiet
    BY DEF Requests
  <2> HIDE DEF d
  <2>7. c.op # "settings"
    BY <1>2, <1>3, <1>4, <2>1, <2>2, <2>3
          DEF Proper, Unowned, Resolved, Placed, At, Resolving, Handing, Reading, Discover
  <2>8. Offered(d)
    BY <1>2, <2>5, <2>6, OfferKept DEF Proper
  <2>9. Held(d)
    BY <1>2, <2>5, <2>6, <2>8, HeldKept
  <2>10. Fits(d, d.pc)
    BY <2>6, <2>1, <2>2, <2>3, <2>7 DEF Fits, Steps, Resolving, Handing, Reading, Sending, Checking
  <2> QED BY <1>1, <2>4, <2>5, <2>9, <2>10, Fitting, Turns
<1> QED BY <1>2, <1>4 DEF Discover, GoOrFail

LEMMA LiveInv ==
  ASSUME AccessInv, NEW p \in Requesters, Live(p)
  PROVE  AccessInv'
<1>1. Evolves
  BY Alone DEF Live
<1>2. PICK c \in Requests : c = caller[p] /\ Proper(c)
  BY DEF AccessInv, Types
<1>3. Types /\ Sized
  BY Sizes DEF AccessInv
<1>4. CASE cur = c.g /\ Set(p, [c EXCEPT !.pc = "persisted", !.key = log[ent[cur].rev].turn])
  <2>1. c.g \in 1..Len(ent) /\ c.op # "settings"
    BY <1>2, <1>3, <1>4 DEF Proper, Unowned, Resolved, Placed, At, Resolving, Handing, Reading, Live
  <2>2. ent[c.g].rev \in 1..Len(log)
    BY <2>1 DEF AccessInv, Shelf, Followed
  <2>3. log[ent[c.g].rev].turn \in Nat
    BY <1>3, <2>2 DEF Sized, Revisions
  <2>4. PICK n \in Nat : n = log[ent[cur].rev].turn
    BY <1>2, <1>3, <1>4, <2>1, <2>2, <2>3
  <2> DEFINE d == [c EXCEPT !.pc = "persisted", !.key = n]
  <2>5. Set(p, d)
    BY <1>4, <2>1, <2>2, <2>3, <2>4
  <2>6. d \in Requests
    BY DEF Requests, Steps, Resolving, Handing, Reading, Sending, Checking
  <2>7. /\ d.pc = "persisted" /\ d.op = c.op /\ d.scoped = c.scoped /\ d.ret = c.ret /\ d.acc = c.acc
        /\ d.adm = c.adm /\ d.want = c.want /\ d.owner = c.owner /\ d.g = c.g /\ d.turn = c.turn
        /\ d.kind = c.kind /\ d.base = c.base /\ d.value = c.value /\ d.recovery = c.recovery /\ d.key = n
        /\ d.load = c.load /\ d.seenAt = c.seenAt /\ d.checkedAt = c.checkedAt /\ d.quiet = c.quiet
    BY DEF Requests
  <2> HIDE DEF d
  <2>8. Offered(d)
    BY <1>2, <2>6, <2>7, OfferKept DEF Proper
  <2>9. Held(d)
    BY <1>2, <2>6, <2>7, <2>8, HeldKept
  <2>10. Fits(d, d.pc)
    BY <2>7, <2>1, <2>2, <2>3, <2>4 DEF Fits, Steps, Resolving, Handing, Reading, Sending, Checking
  <2> QED BY <1>1, <2>5, <2>6, <2>9, <2>10, Fitting, Turns
<1>5. CASE Fail(p)
  BY <1>1, <1>5, Failing
<1> QED BY <1>2, <1>4, <1>5 DEF Live, GoOrFail

(* A request that takes up what its own step has added.                     *)
LEMMA Taking ==
  ASSUME AccessInv, NEW p \in Requesters, NEW d \in Requests, Set(p, d), Evolves, NEW c \in Requests, c = caller[p],
         d.op = c.op, d.ret = c.ret, d.acc = c.acc, d.adm = c.adm, d.want = c.want, d.seenAt = c.seenAt,
         d.recovery = c.recovery, Fits(d, d.pc)'
  PROVE  AccessInv'
<1>1. Types' /\ Proper(c)
  BY DEF AccessInv, Types, Set, Evolves
<1>2. Proper(c)'
  BY <1>1, RequestGrows DEF AccessInv, Shelf, Evolves
<1>3. Offered(d)'
  BY <1>2 DEF Proper, Offered
<1>4. Held(d)'
  BY <1>1, <1>3 DEF Proper, Resolved, Held
<1>5. Proper(d)'
  BY <1>4, FittingNext
<1> QED BY <1>5, Moves

LEMMA Follows ==
  ASSUME AccessInv, NEW p \in Requesters, NEW o \in Clients, o # Nobody, NEW x \in {"entry", "controlled", "live", "status"},
         NEW w \in {"confirm", "failed", "ok"}, Follow(p, o, x, w), NEW c \in Requests, c = caller[p], Fits(c, w),
         x = "entry" => ~c.acc.recovery /\ c.acc.nat = 0 /\ c.owner = Nobody,
         x \in {"live", "status"} => c.op # "settings"
  PROVE  AccessInv'
<1>0. x \in Steps
  BY DEF Steps, Resolving, Reading
<1>1. Types /\ Sized
  BY Sizes DEF AccessInv
<1>2. CASE Shared(o) /\ Set(p, [c EXCEPT !.pc = x, !.g = cur]) /\ UNCHANGED <<cur, ent>>
  <2>1. cur \in 1..Len(ent) /\ cur \in Nat
    BY <1>1, <1>2 DEF Shared, AccessInv, Shelf, Current, Sized, Types, World
  <2>2. PICK g \in Nat : g = cur
    BY <2>1
  <2> DEFINE d == [c EXCEPT !.pc = x, !.g = g]
  <2>3. Set(p, d)
    BY <1>2, <2>2
  <2>4. d \in Requests
    BY <1>0 DEF Requests
  <2>5. /\ d.pc = x /\ d.op = c.op /\ d.scoped = c.scoped /\ d.ret = c.ret /\ d.acc = c.acc /\ d.adm = c.adm
        /\ d.want = c.want /\ d.owner = c.owner /\ d.g = g /\ d.turn = c.turn /\ d.kind = c.kind
        /\ d.base = c.base /\ d.value = c.value /\ d.recovery = c.recovery /\ d.key = c.key /\ d.load = c.load
        /\ d.seenAt = c.seenAt /\ d.checkedAt = c.checkedAt /\ d.quiet = c.quiet
    BY DEF Requests
  <2> HIDE DEF d
  <2>6. g \in 1..Len(ent)
    BY <2>1, <2>2
  <2>7. Fits(d, d.pc)
    BY <2>5, <2>6 DEF Fits, Resolving, Handing, Reading, Sending, Checking
  <2>8. Proper(c)
    BY DEF AccessInv
  <2>9. Held(d)
    BY <2>4, <2>5, <2>8, OfferKept, HeldKept DEF Proper
  <2>10. Proper(d)
    BY <2>4, <2>7, <2>9, Fitting
  <2>11. Evolves
    <3>1. World'
      BY <1>1, <1>2 DEF Follow, Types, World, link, native, outside
    <3> QED BY <1>2, <3>1, Rests DEF Follow
  <2> QED BY <2>3, <2>4, <2>10, <2>11, Turns
<1>3. CASE /\ conn # 0 /\ owner = o
           /\ ent' = Append(ent, [NoEntry EXCEPT !.owner = o, !.conn = conn, !.rev = Last, !.evidence = Last,
                 !.snaps = {Last}])
           /\ cur' = Len(ent) + 1 /\ Set(p, [c EXCEPT !.pc = x, !.g = Len(ent) + 1])
  <2>1. conn \in Nat /\ Last \in Nat /\ Last \in 1..Len(log) /\ log[Last].owner = o /\ Last = Len(log)
    BY <1>1, <1>3, LastRevision DEF Types, World, Last, Sized
  <2> DEFINE e == [NoEntry EXCEPT !.owner = o, !.conn = conn, !.rev = Last, !.evidence = Last, !.snaps = {Last}]
  <2>2. /\ e \in Entries /\ e.owner = o /\ e.rev = Last /\ e.evidence = Last /\ e.snaps = {Last} /\ e.load = 0
    BY <2>1 DEF Entries, NoEntry
  <2>3. ent' = Append(ent, e)
    BY <1>3
  <2> HIDE DEF e
  <2>4. Stands(e)
    <3>1. Reports(Last, e)
      BY <2>2 DEF Reports
    <3>2. Last \in e.evidence..e.rev /\ e.evidence \in 1..e.rev
      BY <2>1, <2>2
    <3>3. Effective(Last) = Effective(e.rev)
      BY <2>2
    <3> QED BY <2>1, <2>2, <3>1, <3>2, <3>3 DEF Stands, Shows
  <2>5. World'
    <3>1. ent' \in Seq(Entries) /\ cur' \in Nat
      BY <1>1, <1>3, <2>2, <2>3 DEF Types, World, Sized
    <3> QED BY <1>1, <3>1 DEF Follow, Types, World, link, native, outside
  <2>6. Evolves
    BY <1>3, <2>2, <2>3, <2>4, <2>5, Opened DEF Follow
  <2>7. PICK g \in Nat : g = Len(ent) + 1
    BY <1>1 DEF Sized
  <2> DEFINE d == [c EXCEPT !.pc = x, !.g = g]
  <2>8. Set(p, d)
    BY <1>3, <2>7
  <2>9. d \in Requests
    BY <1>0 DEF Requests
  <2>10. /\ d.pc = x /\ d.op = c.op /\ d.scoped = c.scoped /\ d.ret = c.ret /\ d.acc = c.acc /\ d.adm = c.adm
         /\ d.want = c.want /\ d.owner = c.owner /\ d.g = g /\ d.turn = c.turn /\ d.kind = c.kind
         /\ d.base = c.base /\ d.value = c.value /\ d.recovery = c.recovery /\ d.key = c.key /\ d.load = c.load
         /\ d.seenAt = c.seenAt /\ d.checkedAt = c.checkedAt /\ d.quiet = c.quiet
    BY DEF Requests
  <2> HIDE DEF d
  <2>11. g \in 1..Len(ent')
    BY <1>1, <2>3, <2>7 DEF Types, World, Sized
  <2>12. Fits(d, d.pc)'
    BY <2>10, <2>11 DEF Fits, Resolving, Handing, Reading, Sending, Checking
  <2> QED BY <2>6, <2>8, <2>9, <2>10, <2>12, Taking
<1>4. CASE Go(p, w) /\ UNCHANGED <<cur, ent>>
  <2>1. Evolves
    <3>1. World'
      BY <1>1, <1>4 DEF Follow, Types, World, link, native, outside
    <3> QED BY <1>4, <3>1, Rests DEF Follow
  <2>2. w \in Steps
    BY DEF Steps, Resolving
  <2> QED BY <1>4, <2>1, <2>2, Going
<1> QED BY <1>2, <1>3, <1>4 DEF Follow

LEMMA FollowForAccessInv ==
  ASSUME AccessInv, NEW p \in Requesters, FollowForAccess(p)
  PROVE  AccessInv'
<1>1. PICK c \in Requests : c = caller[p] /\ Proper(c) /\ c.pc = "follow"
  BY DEF AccessInv, Types, FollowForAccess, At
<1>2. ~c.acc.recovery /\ c.acc.nat = 0 /\ c.owner = Nobody /\ c.acc.owner # Nobody /\ c.acc.owner \in Clients
  BY <1>1 DEF Proper, Resolved, Placed, Resolving, Requests, Accesses
<1>3. Fits(c, "confirm")
  BY <1>1, <1>2 DEF Fits, Resolving, Handing, Reading, Sending, Checking
<1>4. Follow(p, c.acc.owner, "entry", "confirm")
  BY <1>1 DEF FollowForAccess
<1> QED BY <1>1, <1>2, <1>3, <1>4, Follows

LEMMA ControlInv ==
  ASSUME AccessInv, NEW p \in Requesters, Control(p)
  PROVE  AccessInv'
<1>1. PICK c \in Requests : c = caller[p] /\ Proper(c) /\ c.pc = "control"
  BY DEF AccessInv, Types, Control, At
<1>2. c.owner # Nobody /\ c.owner \in Clients
  BY <1>1 DEF Proper, Placed, Requests
<1>3. Fits(c, "failed")
  BY DEF Fits, Resolving, Handing, Reading, Sending, Checking
<1>4. Follow(p, c.owner, "controlled", "failed")
  BY <1>1 DEF Control
<1> QED BY <1>1, <1>2, <1>3, <1>4, Follows

LEMMA FollowForReadInv ==
  ASSUME AccessInv, NEW p \in Requesters, FollowForRead(p)
  PROVE  AccessInv'
<1>1. PICK c \in Requests : c = caller[p] /\ Proper(c) /\ c.pc = "read"
  BY DEF AccessInv, Types, FollowForRead, At
<1>2. c.owner # Nobody /\ c.owner \in Clients /\ c.op # "settings"
  BY <1>1 DEF Proper, Placed, Requests, Reading
<1>3. Fits(c, "ok")
  BY <1>2 DEF Fits, Resolving, Handing, Reading, Sending, Checking
<1>4. PICK x \in {"live", "status"} : Follow(p, c.owner, x, "ok")
  BY <1>1 DEF FollowForRead
<1> QED BY <1>1, <1>2, <1>3, <1>4, Follows

(* A reader shares the history read of the entry, waits for the one of      *)
(* another key, or begins its own.                                          *)
LEMMA PersistedInv ==
  ASSUME AccessInv, NEW p \in Requesters, Persisted(p)
  PROVE  AccessInv'
<1>1. PICK c \in Requests : c = caller[p] /\ Proper(c) /\ c.pc = "persisted"
  BY DEF AccessInv, Types, Persisted, At
<1>2. Types /\ Sized /\ c.g \in 1..Len(ent) /\ c.op # "settings"
  BY <1>1, Sizes DEF AccessInv, Proper, Placed, Reading
<1>3. PICK e \in Entries : e = ent[c.g]
  BY <1>2 DEF Sized
<1>4. PICK l \in Nat : l = e.load /\ l \in 0..Len(loads)
  BY <1>2, <1>3 DEF Entries, AccessInv, Shelf, Followed
<1>5. UNCHANGED <<cur, seen, link, native, outside, changes>>
  BY DEF Persisted
<1>6. ASSUME UNCHANGED <<ent, loads>> PROVE Evolves
  <2>1. World'
    BY <1>2, <1>5, <1>6 DEF Types, World, link, native, outside
  <2> QED BY <1>5, <1>6, <2>1, Rests
<1>7. CASE Fail(p) /\ UNCHANGED <<ent, loads>>
  BY <1>6, <1>7, Failing
<1>8. ASSUME NEW x \in {"load", "previous"}, l # 0, x = "load" => loads[l].key = c.key,
             Set(p, [c EXCEPT !.pc = x, !.load = l]), UNCHANGED <<ent, loads>>
      PROVE  AccessInv'
  <2> DEFINE d == [c EXCEPT !.pc = x, !.load = l]
  <2>1. d \in Requests
    BY DEF Requests, Steps, Reading
  <2>2. /\ d.pc = x /\ d.op = c.op /\ d.scoped = c.scoped /\ d.ret = c.ret /\ d.acc = c.acc /\ d.adm = c.adm
        /\ d.want = c.want /\ d.owner = c.owner /\ d.g = c.g /\ d.turn = c.turn /\ d.kind = c.kind
        /\ d.base = c.base /\ d.value = c.value /\ d.recovery = c.recovery /\ d.key = c.key /\ d.load = l
        /\ d.seenAt = c.seenAt /\ d.checkedAt = c.checkedAt /\ d.quiet = c.quiet
    BY DEF Requests
  <2>3. Set(p, d)
    BY <1>8
  <2> HIDE DEF d
  <2>4. l \in 1..Len(loads)
    BY <1>2, <1>4, <1>8 DEF Sized
  <2>5. Fits(d, d.pc)
    BY <1>2, <1>8, <2>2, <2>4 DEF Fits, Resolving, Handing, Reading, Sending, Checking
  <2>6. Held(d)
    BY <1>1, <2>1, <2>2, OfferKept, HeldKept DEF Proper
  <2>7. Proper(d)
    BY <2>1, <2>5, <2>6, Fitting
  <2> QED BY <1>6, <1>8, <2>1, <2>3, <2>7, Turns
<1>9. CASE /\ cur = c.g
           /\ l = 0 \/ loads[l].st # "running"
           /\ loads' = Append(loads, [g |-> cur, key |-> c.key, st |-> "running"])
           /\ ent' = [ent EXCEPT ![cur].load = Len(loads) + 1]
           /\ Set(p, [c EXCEPT !.pc = "load", !.load = Len(loads) + 1])
  <2>1. PICK n \in Nat : n = Len(loads) + 1
    BY <1>2 DEF Sized
  <2> DEFINE b == [g |-> c.g, key |-> c.key, st |-> "running"]
  <2>2. b \in Loads /\ b.g = c.g /\ b.key = c.key /\ b.st = "running"
    BY <1>2 DEF Loads, Requests
  <2>3. loads' = Append(loads, b) /\ cur = c.g
    BY <1>9
  <2> HIDE DEF b
  <2>4. /\ loads' \in Seq(Loads) /\ Len(loads') = n /\ loads'[n] = b
        /\ \A k \in 1..Len(loads) : loads'[k] = loads[k]
    BY <1>2, <2>1, <2>2, <2>3 DEF Types, World
  <2>5. ent' = [ent EXCEPT ![c.g].load = n]
    BY <1>9, <2>1, <2>3
  <2>6. ent' \in Seq(Entries) /\ Len(ent') = Len(ent) /\ ent'[c.g].load = n /\ \A g \in 1..Len(ent) : g # c.g => ent'[g] = ent[g]
    <3> DEFINE f == [e EXCEPT !.load = n]
    <3>1. f \in Entries /\ f.load = n
      BY DEF Entries
    <3>2. ent' = [ent EXCEPT ![c.g] = f]
      BY <1>2, <1>3, <2>5 DEF Types, World
    <3> HIDE DEF f
    <3> QED BY <1>2, <3>1, <3>2, Replaced
  <2>7. World'
    BY <1>2, <1>5, <2>4, <2>6 DEF Types, World, link, native, outside
  <2>8. Loading'
    <3> SUFFICES ASSUME NEW k \in 1..Len(loads')
                 PROVE  loads'[k].g \in 1..Len(ent') /\ (loads'[k].st = "running" => ent'[loads'[k].g].load = k)
      BY DEF Loading
    <3>1. CASE k = n
      BY <1>2, <2>2, <2>4, <2>6, <3>1
    <3>2. CASE k # n
      <4>1. k \in 1..Len(loads) /\ loads'[k] = loads[k]
        BY <1>2, <2>1, <2>4, <3>2 DEF Sized
      <4>2. loads[k].g \in 1..Len(ent) /\ (loads[k].st = "running" => ent[loads[k].g].load = k)
        BY <4>1 DEF AccessInv, Shelf, Loading
      <4>3. ASSUME loads[k].st = "running" PROVE loads[k].g # c.g
        <5> SUFFICES ASSUME loads[k].g = c.g PROVE FALSE
          OBVIOUS
        <5>1. k = l
          BY <1>3, <1>4, <4>2, <4>3
        <5> QED BY <1>9, <4>1, <4>3, <5>1
      <4> QED BY <2>6, <4>1, <4>2, <4>3
    <3> QED BY <3>1, <3>2
  <2>9. Evolves
    <3>1. Len(loads) <= Len(loads') /\ \A k \in 1..Len(loads) : loads'[k].key = loads[k].key
      BY <1>2, <2>1, <2>4 DEF Sized
    <3>2. n <= Len(loads')
      BY <2>4
    <3> QED BY <1>2, <1>5, <2>5, <2>7, <2>8, <3>1, <3>2, Reloaded
  <2> DEFINE d == [c EXCEPT !.pc = "load", !.load = n]
  <2>10. d \in Requests
    BY DEF Requests, Steps, Reading
  <2>11. /\ d.pc = "load" /\ d.op = c.op /\ d.scoped = c.scoped /\ d.ret = c.ret /\ d.acc = c.acc
         /\ d.adm = c.adm /\ d.want = c.want /\ d.owner = c.owner /\ d.g = c.g /\ d.turn = c.turn
         /\ d.kind = c.kind /\ d.base = c.base /\ d.value = c.value /\ d.recovery = c.recovery /\ d.key = c.key
         /\ d.load = n /\ d.seenAt = c.seenAt /\ d.checkedAt = c.checkedAt /\ d.quiet = c.quiet
    BY DEF Requests
  <2>12. Set(p, d)
    BY <1>9, <2>1
  <2> HIDE DEF d
  <2>13. n \in 1..Len(loads') /\ loads'[n].key = c.key /\ c.g \in 1..Len(ent')
    BY <1>2, <2>1, <2>2, <2>4, <2>6 DEF Sized
  <2>14. Fits(d, d.pc)'
    BY <1>2, <2>11, <2>13 DEF Fits, Resolving, Handing, Reading, Sending, Checking
  <2> QED BY <1>1, <2>9, <2>10, <2>11, <2>12, <2>14, Taking
<1>10. CASE cur = c.g /\ l # 0 /\ loads[l].key = c.key /\ Set(p, [c EXCEPT !.pc = "load",
      !.load = l]) /\ UNCHANGED <<ent, loads>>
  BY <1>8, <1>10
<1>11. CASE cur = c.g /\ l # 0 /\ Set(p, [c EXCEPT !.pc = "previous", !.load = l]) /\ UNCHANGED <<ent, loads>>
  BY <1>8, <1>11
<1> QED BY <1>1, <1>3, <1>4, <1>7, <1>9, <1>10, <1>11 DEF Persisted, MustWait

(* The owner handles the request and writes, or it does not.                *)
LEMMA OpSendInv ==
  ASSUME AccessInv, NEW p \in Requesters, OpSend(p)
  PROVE  AccessInv'
<1>1. PICK c \in Requests : c = caller[p] /\ Proper(c) /\ c.pc = "op send"
  BY DEF AccessInv, Types, OpSend, At
<1>2. UNCHANGED <<followers, link, owner, outside, loads, changes>>
  BY DEF OpSend
<1>3. UNCHANGED log \/ \E v \in Revisions :
         /\ Writes(v)
         /\ owner # Nobody => v.owner = owner
         /\ v.wrote # "effort" => v.effort = log[Last].effort
         /\ v.wrote # "fallback" => v.fallback = log[Last].fallback
  <2>1. PICK l \in Revisions : l = log[Last] /\ (owner # Nobody => l.owner = owner)
    BY LastRevision
  <2>2. CASE Writes([log[Last] EXCEPT !.turn = @ + 1, !.active = TRUE, !.wrote = "nothing"])
    <3> DEFINE v == [l EXCEPT !.turn = l.turn + 1, !.active = TRUE, !.wrote = "nothing"]
    <3>1. l.turn + 1 \in Nat
      BY DEF Revisions
    <3>2. v \in Revisions /\ v.owner = l.owner /\ v.effort = l.effort /\ v.fallback = l.fallback
      BY <3>1 DEF Revisions
    <3>3. Writes(v)
      BY <2>1, <2>2
    <3> QED BY <2>1, <3>2, <3>3
  <2>3. CASE Writes([log[Last] EXCEPT !.active = FALSE, !.wrote = "nothing"])
    <3> DEFINE v == [l EXCEPT !.active = FALSE, !.wrote = "nothing"]
    <3>1. v \in Revisions /\ v.owner = l.owner /\ v.effort = l.effort /\ v.fallback = l.fallback
      BY DEF Revisions
    <3>2. Writes(v)
      BY <2>1, <2>3
    <3> QED BY <2>1, <3>1, <3>2
  <2>4. CASE Writes([log[Last] EXCEPT !.effort = c.value, !.wrote = "effort"])
    <3> DEFINE v == [l EXCEPT !.effort = c.value, !.wrote = "effort"]
    <3>1. v \in Revisions /\ v.owner = l.owner /\ v.fallback = l.fallback /\ v.wrote = "effort"
      BY DEF Revisions, Requests
    <3>2. Writes(v)
      BY <2>1, <2>4
    <3> QED BY <2>1, <3>1, <3>2
  <2> QED BY <1>1, <2>2, <2>3, <2>4 DEF OpSend
<1>4. Evolves
  <2>1. CASE UNCHANGED log
    <3>1. World'
      BY <1>2, <2>1 DEF AccessInv, Types, World, followers, link, outside
    <3> QED BY <1>2, <2>1, <3>1, Rests DEF followers, native
  <2>2. CASE \E v \in Revisions :
         /\ Writes(v)
         /\ owner # Nobody => v.owner = owner
         /\ v.wrote # "effort" => v.effort = log[Last].effort
         /\ v.wrote # "fallback" => v.fallback = log[Last].fallback
    <3>1. changes' \in [jobs : [Requesters -> SUBSET (Ops \X BOOLEAN)], left : [Changes -> Nat]]
      BY <1>2 DEF AccessInv, Types, World
    <3>2. UNCHANGED <<followers, link, owner, outside, loads>>
      BY <1>2
    <3>3. PICK v \in Revisions :
         /\ Writes(v)
         /\ owner # Nobody => v.owner = owner
         /\ v.wrote # "effort" => v.effort = log[Last].effort
         /\ v.wrote # "fallback" => v.fallback = log[Last].fallback
      BY <2>2
    <3> QED BY <3>1, <3>2, <3>3, OwnerWrites
  <2> QED BY <1>3, <2>1, <2>2
<1>5. CASE c.op = "settings" /\ Go(p, "wait")
  <2>1. c.g \in 1..Len(ent) /\ ent[c.g].owner = c.owner
    BY <1>1, <1>5 DEF Proper, Settling, Sending
  <2>2. Fits(c, "wait") /\ "wait" \in Steps
    BY <1>5, <2>1 DEF Fits, Steps, Resolving, Handing, Reading, Sending, Checking
  <2> QED BY <1>1, <1>4, <1>5, <2>2, Going
<1>6. CASE c.op # "settings" /\ Go(p, "ok")
  <2>1. Fits(c, "ok") /\ "ok" \in Steps
    BY <1>6 DEF Fits, Steps, Resolving, Handing, Reading, Sending, Checking
  <2> QED BY <1>1, <1>4, <1>6, <2>1, Going
<1>7. CASE Fail(p)
  BY <1>4, <1>7, Failing
<1> QED BY <1>1, <1>5, <1>6, <1>7 DEF OpSend

(* What the entry shows after the base revision, its owner has reported.    *)
LEMMA WaitSettingsInv ==
  ASSUME AccessInv, NEW p \in Requesters, WaitSettings(p)
  PROVE  AccessInv'
<1>1. PICK c \in Requests : c = caller[p] /\ Proper(c) /\ c.pc = "wait"
  BY DEF AccessInv, Types, WaitSettings, At
<1>2. Evolves
  BY Alone DEF WaitSettings
<1>3. CASE Fail(p)
  BY <1>2, <1>3, Failing
<1>4. CASE ent[c.g].evidence > c.base /\ Effective(ent[c.g].rev) = c.value /\ Go(p, "wait owner")
  <2>1. c.op = "settings" /\ c.g \in 1..Len(ent) /\ ent[c.g].owner = c.owner
    BY <1>1 DEF Proper, Settling, Sending
  <2>2. PICK e \in Entries : e = ent[c.g] /\ Stands(e)
    BY <2>1, EntriesStand, Sizes DEF AccessInv, Sized
  <2>3. PICK r \in e.evidence..e.rev : Reports(r, e) /\ Effective(r) = Effective(e.rev) /\ log[r].owner = e.owner
    BY <2>2 DEF Stands, Shows
  <2>4. r \in 1..Len(log) /\ r > c.base
    <3>1. e.evidence \in Nat /\ e.rev \in Nat /\ c.base \in Nat /\ Len(log) \in Nat
      BY Sizes DEF Entries, Requests, AccessInv, Sized
    <3>2. e.evidence \in 1..e.rev /\ e.rev \in 1..Len(log) /\ e.evidence > c.base
      BY <1>4, <2>2 DEF Stands
    <3> QED BY <2>3, <3>1, <3>2
  <2>5. Reports(r, ent[c.g]) /\ Effective(r) = c.value /\ log[r].owner = c.owner
    BY <1>4, <2>1, <2>2, <2>3
  <2>6. Fits(c, "wait owner") /\ "wait owner" \in Steps
    BY <2>1, <2>4, <2>5 DEF Fits, Steps, Resolving, Handing, Reading, Sending, Checking
  <2> QED BY <1>1, <1>2, <1>4, <2>6, Going
<1> QED BY <1>1, <1>3, <1>4 DEF WaitSettings

(* A request begins with nothing in its hands.                              *)
LEMMA BeginInv ==
  ASSUME AccessInv, NEW p \in Requesters, BeginRequest(p)
  PROVE  AccessInv'
<1>1. PICK c \in Requests : c = caller[p] /\ Proper(c) /\ c.pc = "idle"
  BY DEF AccessInv, Types, BeginRequest, At
<1>2. c = [Idle EXCEPT !.quiet = c.quiet]
  BY <1>1 DEF Proper, Placed
<1>3. c.adm = NoAccess /\ c.owner = Nobody /\ c.want = << >> /\ c.recovery = FALSE
  BY <1>2 DEF Idle
<1>4. Types /\ Sized /\ account \in Scopes
  BY Sizes DEF AccessInv, Types, World
<1>5. PICK j \in changes.jobs[p], v \in Efforts :
         Set(p, [c EXCEPT !.op = j[1], !.scoped = j[2], !.value = v, !.turn = log[Last].turn,
                          !.acc = [NoAccess EXCEPT !.scope = account], !.ret = "offer",
                          !.pc = CASE j[1] \in {"read", "status"} -> "discover"
                                   [] j[1] \in {"archive", "rename"} -> "metadata"
                                   [] j[2] -> "scope"
                                   [] OTHER -> "destination"])
  BY <1>1 DEF BeginRequest
<1>6. PICK o \in Ops, s \in BOOLEAN : o = j[1] /\ s = j[2]
  <2>1. changes.jobs[p] \in SUBSET (Ops \X BOOLEAN)
    BY <1>4 DEF Types, World
  <2>2. j \in Ops \X BOOLEAN
    BY <2>1
  <2> QED BY <2>2
<1>7. PICK t \in Nat : t = log[Last].turn
  BY LastRevision DEF Revisions
<1>8. PICK a \in Accesses : a = [NoAccess EXCEPT !.scope = account] /\ a.g = 0 /\ a.nat = 0 /\ ~a.recovery
  <2> DEFINE a == [NoAccess EXCEPT !.scope = account]
  <2>1. a \in Accesses
    BY <1>4 DEF Accesses, NoAccess, Clients, Scopes, Nobody
  <2>2. a.g = 0 /\ a.nat = 0 /\ ~a.recovery
    BY DEF NoAccess
  <2> QED BY <2>1, <2>2
<1>9. PICK x \in {"discover", "metadata", "scope", "destination"} :
        /\ x = CASE o \in {"read", "status"} -> "discover"
                 [] o \in {"archive", "rename"} -> "metadata"
                 [] s -> "scope"
                 [] OTHER -> "destination"
        /\ x \in {"discover", "metadata"} => o # "settings"
  <2>1. CASE o \in {"read", "status"}
    BY <2>1
  <2>2. CASE o \in {"archive", "rename"}
    BY <2>2
  <2>3. CASE o \notin {"read", "status", "archive", "rename"} /\ s
    BY <2>3
  <2>4. CASE o \notin {"read", "status", "archive", "rename"} /\ ~s
    BY <2>4
  <2> QED BY <2>1, <2>2, <2>3, <2>4
<1> DEFINE d == [c EXCEPT !.op = o, !.scoped = s, !.value = v, !.turn = t, !.acc = a, !.ret = "offer", !.pc = x]
<1>10. Set(p, d)
  BY <1>5, <1>6, <1>7, <1>8, <1>9
<1>11. x \in Steps /\ v \in Values
  BY DEF Steps, Reading, Values
<1>12. d \in Requests
  BY <1>11 DEF Requests
<1>13. /\ d.pc = x /\ d.op = o /\ d.scoped = s /\ d.ret = "offer" /\ d.acc = a /\ d.adm = c.adm
        /\ d.want = c.want /\ d.owner = c.owner /\ d.g = c.g /\ d.turn = t /\ d.kind = c.kind
        /\ d.base = c.base /\ d.value = v /\ d.recovery = c.recovery /\ d.key = c.key /\ d.load = c.load
        /\ d.seenAt = c.seenAt /\ d.checkedAt = c.checkedAt /\ d.quiet = c.quiet
  BY DEF Requests
<1> HIDE DEF d
<1>14. Offered(d)
  BY <1>3, <1>8, <1>13 DEF Offered, Kept, NoAccess
<1>15. Held(d)
  <2>1. d.adm.recovery = FALSE /\ d.recovery = FALSE /\ ~d.acc.recovery
    BY <1>3, <1>8, <1>13 DEF NoAccess
  <2> QED BY <1>14, <2>1 DEF Held
<1>16. Fits(d, d.pc)
  BY <1>3, <1>8, <1>9, <1>13 DEF Fits, Resolving, Handing, Reading, Sending, Checking
<1>17. Evolves
  BY Alone DEF BeginRequest
<1> QED BY <1>10, <1>12, <1>15, <1>16, <1>17, Fitting, Turns

-----------------------------------------------------------------------------
LEMMA AccessInitInv == ASSUME AccessInit PROVE AccessInv
<1>1. PICK s \in Scenario :
        /\ cur = 0 /\ ent = << >> /\ seen = FALSE /\ conn = 1 /\ conns = 1 /\ lost = FALSE /\ owner = s.owner
        /\ \E e \in s.efforts, a \in BOOLEAN :
             log = <<[owner |-> s.owner, turn |-> 1, active |-> a /\ s.owner # Nobody, effort |-> e,
                      fallback |-> Default, wrote |-> "all"]>>
        /\ account = (CHOOSE x \in Accounts : TRUE) /\ record = s.record
        /\ exec = [gen |-> 1, live |-> s.live, active |-> FALSE]
        /\ \E h \in s.hist : hist = [status |-> h, n |-> 1]
        /\ loads = << >> /\ caller = [p \in Requesters |-> Idle] /\ changes = [jobs |-> s.jobs, left |-> s.budget]
  BY AccessAssumption DEF AccessInit
<1>2. /\ s.jobs \in [Requesters -> SUBSET (Ops \X BOOLEAN)] /\ s.owner \in Clients /\ s.efforts \subseteq Efforts \cup {Nobody}
      /\ s.record \in {"none", "created", "recovered"} /\ s.live \in BOOLEAN /\ s.hist \subseteq Statuses
      /\ s.budget \in [Changes -> Nat]
  BY DEF Scenario, Clients
<1>3. PICK e \in s.efforts, a \in BOOLEAN :
        log = <<[owner |-> s.owner, turn |-> 1, active |-> a /\ s.owner # Nobody, effort |-> e,
                 fallback |-> Default, wrote |-> "all"]>>
  BY <1>1
<1>4. PICK v \in Revisions : log = <<v>> /\ v.owner = s.owner
  <2>1. PICK b \in BOOLEAN : b = (a /\ s.owner # Nobody)
    OBVIOUS
  <2> DEFINE v == [owner |-> s.owner, turn |-> 1, active |-> b, effort |-> e, fallback |-> Default, wrote |-> "all"]
  <2>2. e \in Values /\ Default \in Values
    BY <1>2 DEF Values
  <2>3. v \in Revisions /\ v.owner = s.owner
    BY <1>2, <2>2 DEF Revisions
  <2>4. log = <<v>>
    BY <1>3, <2>1
  <2> QED BY <2>3, <2>4
<1>5. log \in Seq(Revisions) /\ Len(log) = 1 /\ log[1] = v
  BY <1>4
<1>6. ent \in Seq(Entries) /\ Len(ent) = 0 /\ loads \in Seq(Loads) /\ Len(loads) = 0
  BY <1>1
<1>7. exec \in [gen : Nat, live : BOOLEAN, active : BOOLEAN] /\ hist \in [status : Statuses, n : Nat]
  BY <1>1, <1>2
<1>8. World
  <2>1. changes \in [jobs : [Requesters -> SUBSET (Ops \X BOOLEAN)], left : [Changes -> Nat]]
    BY <1>1, <1>2
  <2>2. account \in Scopes /\ owner \in Clients /\ record \in {"none", "created", "recovered"}
    BY <1>1, <1>2 DEF Scopes
  <2>3. seen \in BOOLEAN /\ lost \in BOOLEAN
    BY <1>1
  <2>4. cur \in Nat /\ conn \in Nat /\ conns \in Nat
    BY <1>1
  <2> QED BY <1>5, <1>6, <1>7, <2>1, <2>2, <2>3, <2>4 DEF World
<1>9. Idle \in Requests
  <2>1. NoAccess \in Accesses
    BY DEF NoAccess, Accesses, Scopes, Clients, Nobody
  <2> QED BY <2>1 DEF Idle, Requests, Steps, Clients, Values, Nobody
<1>10. Types
  BY <1>1, <1>8, <1>9 DEF Types
<1>11. Shelf
  <2>1. Current /\ Followed /\ Loading
    BY <1>1, <1>6 DEF Current, Followed, Loading
  <2>2. Owning /\ Logged
    BY <1>1, <1>4, <1>5 DEF Owning, Logged, Last
  <2> QED BY <2>1, <2>2 DEF Shelf
<1>12. Proper(Idle)
  <2>1. /\ Idle.pc = "idle" /\ Idle.op = Nobody /\ Idle.scoped = FALSE /\ Idle.ret = Nobody /\ Idle.acc = NoAccess
        /\ Idle.adm = NoAccess /\ Idle.recovery = FALSE /\ Idle.quiet = FALSE
    BY DEF Idle
  <2>2. NoAccess.g = 0 /\ NoAccess.recovery = FALSE
    BY DEF NoAccess
  <2>3. Offered(Idle)
    BY <2>1, <2>2 DEF Offered, Kept, Nobody
  <2>4. Chosen(Idle) /\ Unowned(Idle)
    BY <2>1 DEF Chosen, Unowned, Checking
  <2>5. Resolved(Idle)
    BY <2>1, <2>2 DEF Resolved, Resolving, Nobody
  <2>6. Idle = [Idle EXCEPT !.quiet = Idle.quiet]
    BY DEF Idle
  <2>7. Placed(Idle)
    BY <2>1, <2>6 DEF Placed, Resolving, Handing, Reading, Nobody
  <2>8. Settling(Idle) /\ Merging(Idle)
    BY <2>1 DEF Settling, Merging, Sending, Checking, Nobody
  <2> QED BY <2>3, <2>4, <2>5, <2>7, <2>8 DEF Proper
<1>13. \A p \in Requesters : caller[p] = Idle
  BY <1>1
<1> QED BY <1>10, <1>11, <1>12, <1>13 DEF AccessInv

LEMMA AccessStepInv ==
  ASSUME AccessInv, NEW p \in Requesters, RequestStep(p)
  PROVE  AccessInv'
<1>1. CASE BeginRequest(p) \/ Fails(p) \/ ReadScope(p) \/ Resolve(p) \/ FollowForAccess(p) \/ ProjectAccess(p) \/ CreatedAccess(p)
  BY <1>1, BeginInv, FailsInv, ReadScopeInv, ResolveInv, FollowForAccessInv, ProjectAccessInv, CreatedAccessInv
<1>2. CASE NativeAccess(p) \/ Recheck(p) \/ ReadHistory(p) \/ RecheckIdle(p) \/ ConfirmScope(p)
  BY <1>2, NativeAccessInv, RecheckInv, ReadHistoryInv, RecheckIdleInv, ConfirmScopeInv
<1>3. CASE Destination(p) \/ StopOwned(p) \/ Evidence(p) \/ RecheckCreated(p) \/ CreatedOp(p)
  BY <1>3, DestinationInv, StopOwnedInv, EvidenceInv, RecheckCreatedInv, CreatedOpInv
<1>4. CASE Control(p) \/ Controlled(p) \/ Base(p) \/ OpOwner(p) \/ OpConnection(p) \/ OpScope(p)
  BY <1>4, ControlInv, ControlledInv, BaseInv, OpOwnerInv, OpConnectionInv, OpScopeInv
<1>5. CASE OpEntry(p) \/ OpSend(p) \/ WaitSettings(p) \/ WaitOwner(p)
  BY <1>5, OpEntryInv, OpSendInv, WaitSettingsInv, WaitOwnerInv
<1>6. CASE Discover(p) \/ FollowForRead(p) \/ RowStatus(p) \/ Live(p) \/ Persisted(p) \/ Previous(p)
  BY <1>6, DiscoverInv, FollowForReadInv, RowStatusInv, LiveInv, PersistedInv, PreviousInv
<1>7. CASE Loaded(p) \/ Merge(p) \/ Metadata(p) \/ PublishChange(p)
  BY <1>7, LoadedInv, MergeInv, MetadataInv, PublishInv
<1> QED BY <1>1, <1>2, <1>3, <1>4, <1>5, <1>6, <1>7 DEF RequestStep

LEMMA AccessNextInv == AccessInv /\ [AccessNext]_accessVars => AccessInv'
<1> SUFFICES ASSUME AccessInv, [AccessNext]_accessVars PROVE AccessInv'
  OBVIOUS
<1>1. CASE \E p \in Requesters : RequestStep(p)
  BY <1>1, AccessStepInv
<1>2. CASE \E l \in DOMAIN loads, st \in {"done", "failed"} : LoadEnds(l, st)
  BY <1>2, LoadEndsInv
<1>3. CASE Receive \/ Disconnected \/ OwnerMoves \/ TurnChanges \/ NativeWrites
  BY <1>3, ReceiveInv, DisconnectedInv, OwnerMovesInv, TurnChangesInv, NativeWritesInv
<1>4. CASE Loses \/ AccountChanges \/ HistoryChanges \/ ExecutorChanges
  BY <1>4, OutsideInv
<1>5. CASE UNCHANGED accessVars
  <2>1. UNCHANGED <<followers, link, native, outside, loads, changes>> /\ UNCHANGED caller
    BY <1>5 DEF accessVars
  <2> QED BY <2>1, Alone, Stays
<1> QED BY <1>1, <1>2, <1>3, <1>4, <1>5 DEF AccessNext

LEMMA AccessInvariance == AccessSpec => []AccessInv
<1>1. AccessInit => AccessInv
  BY AccessInitInv
<1> QED BY <1>1, AccessNextInv, PTL DEF AccessSpec

(* A scoped send, stop or settings change that reaches its dispatch does so *)
(* with the follower still at the turn its client was shown with the        *)
(* binding, and a send was chosen to start or to steer for that turn        *)
(* (resolveAccess, admitAccess, controlState, requestOperation), whatever   *)
(* owners, connections, accounts and entries did in between.                *)
THEOREM BoundToItsTurn == AccessSpec => []DispatchedAsSeen
<1>1. AccessInv => DispatchedAsSeen
  <2> SUFFICES ASSUME AccessInv, NEW p \in Requesters, caller[p].scoped, At(p, "op send")
               PROVE  /\ Identity(caller[p].checkedAt) = Identity(caller[p].seenAt)
                      /\ caller[p].op = "send" => ((caller[p].kind = "steer") = log[caller[p].checkedAt].active)
    BY DEF DispatchedAsSeen
  <2>1. PICK c \in Requests : c = caller[p] /\ Proper(c)
    BY DEF AccessInv, Types
  <2>2. c.scoped /\ c.pc = "op send"
    BY <2>1 DEF At
  <2>3. /\ c.checkedAt \in 1..Len(log)
        /\ Identity(c.checkedAt) = Identity(c.seenAt)
        /\ c.op = "send" => (c.kind = "steer" <=> log[c.checkedAt].active)
    BY <2>1, <2>2 DEF Proper, Chosen
  <2>4. log[c.checkedAt].active \in BOOLEAN
    BY <2>3, Sizes DEF AccessInv, Sized, Revisions
  <2>5. c.op = "send" => ((c.kind = "steer") = log[c.checkedAt].active)
    BY <2>3, <2>4
  <2> QED BY <2>1, <2>3, <2>5
<1> QED BY <1>1, AccessInvariance, PTL

(* A settings change that UpdateSettings() reports as applied was applied:  *)
(* after the revision read before the request, the owner it was sent to     *)
(* reported the effective setting itself, with the value asked for          *)
(* (recordSettingsEvidence, waitSettings).                                  *)
THEOREM AppliedAsAnswered == AccessSpec => []SettingsTrue
<1>1. AccessInv => SettingsTrue
  <2> SUFFICES ASSUME AccessInv, NEW p \in Requesters, caller[p].op = "settings", At(p, "ok"), caller[p].owner # Nobody
               PROVE  \E r \in caller[p].base + 1 .. Last :
                        Reports(r, ent[caller[p].g]) /\ Effective(r) = caller[p].value /\ log[r].owner = caller[p].owner
    BY DEF SettingsTrue
  <2>1. PICK c \in Requests : c = caller[p] /\ Proper(c)
    BY DEF AccessInv, Types
  <2>2. PICK r \in 1..Len(log) : r > c.base /\ Reports(r, ent[c.g]) /\ Effective(r) = c.value /\ log[r].owner = c.owner
    BY <2>1 DEF Proper, Settling, At
  <2>3. r \in c.base + 1 .. Last
    BY <2>2, Sizes DEF AccessInv, Sized, Requests, Last
  <2> QED BY <2>1, <2>2, <2>3
<1> QED BY <1>1, AccessInvariance, PTL

(* A request reaches the created scope, which may open a second writer,     *)
(* only if no Desktop client owned the task at some moment since the        *)
(* evidence for it was read, and a stop never carries the permission to     *)
(* recover (scopeAccess, idleRecoveryAccess, mutationDestination).          *)
THEOREM OneWriter == AccessSpec => []NoSecondWriter
<1>1. AccessInv => NoSecondWriter
  <2> SUFFICES ASSUME AccessInv, NEW p \in Requesters, At(p, "created op")
               PROVE  caller[p].quiet /\ (caller[p].op = "stop" => ~caller[p].recovery)
    BY DEF NoSecondWriter
  <2>1. Proper(caller[p])
    BY DEF AccessInv
  <2> QED BY <2>1 DEF Proper, Unowned, Resolved, At
<1> QED BY <1>1, AccessInvariance, PTL

(* The readers of one entry share its one running history read, and a       *)
(* reader merges only a page read with the exclusions of its own snapshot   *)
(* (persisted), although the entry, its read and the turn change meanwhile. *)
THEOREM SharedLoad == AccessSpec => []OneSharedLoad
<1>1. AccessInv => OneSharedLoad
  <2> SUFFICES ASSUME AccessInv PROVE OneSharedLoad
    OBVIOUS
  <2>1. DOMAIN loads = 1..Len(loads)
    BY DEF AccessInv, Types, World
  <2>2. \A k, l \in DOMAIN loads : loads[k].g = loads[l].g /\ loads[k].st = "running" /\ loads[l].st = "running" => k = l
    BY <2>1 DEF AccessInv, Shelf, Loading
  <2>3. \A p \in Requesters : At(p, "merge") => loads[caller[p].load].key = caller[p].key
    BY DEF AccessInv, Proper, Merging, At
  <2> QED BY <2>2, <2>3 DEF OneSharedLoad
<1> QED BY <1>1, AccessInvariance, PTL
==============================================================================
