--------------------------------- MODULE Rpc ---------------------------------
(***************************************************************************)
(* The JSONL transport to a native Codex process (internal/codex/rpc.go    *)
(* and rpc_write.go): concurrent callers, one writer goroutine with a      *)
(* bounded queue, one reader goroutine, deadlines, and closing.            *)
(*                                                                         *)
(* A step is one critical section of r.mu, one channel operation, or one   *)
(* blocking call between two of them.  Time is abstracted to the set of    *)
(* calls whose deadline has passed.  What was ever sent on a reply or      *)
(* result channel (capacity one) is kept, so that a second send, which     *)
(* would block while it holds r.mu, is visible.                            *)
(***************************************************************************)
EXTENDS Integers, Sequences, FiniteSets

CONSTANTS
  Requests,   \* calls of RequestContext (each is made once)
  Sends,      \* calls of Notify, Respond and RejectRequest
  Size,       \* Size[c]: the encoded bytes of a call
  MaxWrites,  \* maxRPCWrites
  MaxBytes    \* maxRPCQueuedBytes

Procs  == Requests \cup Sends
Writer == "writeLoop"
Reader == "readLoop"
Owner  == "owner"        \* a caller of Close()
Actors == Procs \cup {Writer, Reader, Owner}
None   == "none"

ASSUME RpcAssumption ==
  /\ MaxWrites \in Nat \ {0} /\ MaxBytes \in Nat
  /\ Size \in [Procs -> Nat]
  /\ Requests \cap Sends = {} /\ Procs \cap {Writer, Reader, Owner, None} = {}

VARIABLES
  pc,         \* where each goroutine stands
  pending,    \* r.pending: calls with a registered reply channel
  writes,     \* r.writes
  queue, queuedBytes,
  state,      \* rpcWriteState of each call's write
  wake,       \* r.wakeWriter holds its token
  closed,     \* r.closedErr is set
  handler,    \* r.onClosed is installed
  captured,   \* the closer found it under the lock
  called,     \* times it ran
  current,    \* the write or the reply a loop has in hand
  late,       \* calls whose deadline has passed
  reply, result,   \* everything sent on the channels of a call
  received,   \* requests whose bytes the native process has (external)
  uncertain   \* requests that expired while their bytes were written (history)

books == <<pending, writes, queue, queuedBytes, state>>
hook  == <<handler, captured, called>>
vars  == <<pc, books, wake, closed, hook, current, late, reply, result, received, uncertain>>

Init ==
  /\ pc = [a \in Actors |-> CASE a = Writer -> "loop" [] a = Reader -> "read" [] OTHER -> "idle"]
  /\ pending = {} /\ writes = {} /\ queue = << >> /\ queuedBytes = 0
  /\ state = [c \in Procs |-> None]
  /\ wake = FALSE /\ closed = FALSE
  /\ handler = FALSE /\ captured = FALSE /\ called = 0
  /\ current = [a \in {Writer, Reader} |-> None]
  /\ late = {}
  /\ reply = [c \in Procs |-> << >>] /\ result = [c \in Procs |-> << >>]
  /\ received = {} /\ uncertain = {}

-----------------------------------------------------------------------------
(* RequestContext() or send() up to enqueue(): a call is refused when its   *)
(* context is cancelled, its deadline passes, the transport is closed, or a *)
(* bound is reached.  The earlier check for a closed transport only         *)
(* repeats enqueue's.                                                       *)
Backpressure(c) ==
  \/ Cardinality(writes) >= MaxWrites
  \/ c \in Requests /\ Cardinality(pending) >= MaxWrites
  \/ queuedBytes + Size[c] > MaxBytes
Enqueue(c) ==
  /\ pc[c] = "idle"
  /\ \/ pc' = [pc EXCEPT ![c] = "done"] /\ UNCHANGED <<books, wake>>
     \/ /\ ~closed /\ ~Backpressure(c)
        /\ pc' = [pc EXCEPT ![c] = "wait"]
        /\ writes' = writes \cup {c}
        /\ queue' = Append(queue, c)
        /\ queuedBytes' = queuedBytes + Size[c]
        /\ pending' = IF c \in Requests THEN pending \cup {c} ELSE pending
        /\ state' = [state EXCEPT ![c] = "queued"]
        /\ wake' = TRUE
  /\ UNCHANGED <<closed, hook, current, late, reply, result, received, uncertain>>

(* A deadline passes.  It is forgotten once the call has given up: nothing  *)
(* looks at it after that.                                                  *)
DeadlinePasses(c) ==
  /\ pc[c] \in {"wait", "expire"} /\ c \notin late
  /\ late' = late \cup {c}
  /\ UNCHANGED <<pc, books, wake, closed, hook, current, reply, result, received, uncertain>>

(* The caller waits for its channel; its timer, or its cancelled context,   *)
(* makes it call expire() and then wait for the channel again.              *)
Channel(c) == IF c \in Requests THEN reply[c] ELSE result[c]
Return(c) ==
  /\ pc[c] \in {"wait", "collect"} /\ Channel(c) # << >>
  /\ pc' = [pc EXCEPT ![c] = "done"]
  /\ late' = late \ {c}
  /\ UNCHANGED <<books, wake, closed, hook, current, reply, result, received, uncertain>>

GiveUp(c) ==
  /\ pc[c] = "wait" /\ (c \in late \/ c \in Requests)
  /\ pc' = [pc EXCEPT ![c] = "expire"]
  /\ UNCHANGED <<books, wake, closed, hook, current, late, reply, result, received, uncertain>>

(* finishWriteLocked() for the writes W: those still accounted for leave    *)
(* the books and publish their outcome.                                     *)
FinishWrites(W, outcome) ==
  /\ writes' = writes \ W
  /\ state' = [c \in Procs |-> IF c \in W \cap writes THEN outcome ELSE state[c]]
  /\ result' = [c \in Procs |-> IF c \in W \cap writes THEN Append(result[c], outcome) ELSE result[c]]

Replied(C, what) ==
  reply' = [c \in Procs |-> IF c \in C THEN Append(reply[c], what) ELSE reply[c]]

(* A write leaves the queue, if it is still there.                          *)
LeavesQueue(c) ==
  \/ (\A i \in 1..Len(queue) : queue[i] # c) /\ UNCHANGED queue
  \/ \E i \in 1..Len(queue) :
       queue[i] = c /\ queue' = SubSeq(queue, 1, i - 1) \o SubSeq(queue, i + 1, Len(queue))

(* expire(): a settled call is left alone; queued work is removed.          *)
Settled(c) == c \in Requests /\ c \notin pending
ExpireKeepsQueued(c) ==                                      \* mutant: expired work stays queued
  IF Settled(c)
  THEN UNCHANGED <<books, reply, result>>
  ELSE /\ pending' = pending \ {c}
       /\ Replied({c} \cap Requests, "timeout")
       /\ UNCHANGED <<writes, queue, queuedBytes, state, result>>
ExpireKeepsBytes(c) ==                                       \* mutant: the bytes stay accounted for
  IF Settled(c)
  THEN UNCHANGED <<books, reply, result>>
  ELSE /\ pending' = pending \ {c}
       /\ Replied({c} \cap Requests, "timeout")
       /\ UNCHANGED queuedBytes
       /\ IF state[c] = "queued"
          THEN LeavesQueue(c) /\ FinishWrites({c}, "cancelled")
          ELSE UNCHANGED <<writes, queue, state, result>>
ExpireSilent(c) ==                                           \* mutant: the caller is not told
  /\ pending' = pending \ {c}
  /\ LeavesQueue(c)
  /\ FinishWrites({c}, "cancelled")
  /\ UNCHANGED <<queuedBytes, reply>>
Expire(c) ==
  IF Settled(c)
  THEN UNCHANGED <<books, reply, result>>
  ELSE /\ pending' = pending \ {c}
       /\ Replied({c} \cap Requests, "timeout")
       /\ IF state[c] = "queued"
          THEN /\ LeavesQueue(c)
               /\ queuedBytes' = IF c \in writes THEN queuedBytes - Size[c] ELSE queuedBytes
               /\ FinishWrites({c}, "cancelled")
          ELSE UNCHANGED <<writes, queue, queuedBytes, state, result>>

(* A write that has begun is uncertain: the caller closes the transport.    *)
CloseNeeded(c) == ~Settled(c) /\ state[c] = "writing"
CallerExpires(c) ==
  /\ pc[c] = "expire"
  /\ Expire(c)
  /\ pc' = [pc EXCEPT ![c] = IF CloseNeeded(c) THEN "close" ELSE "collect"]
  /\ uncertain' = IF ~Settled(c) /\ state[c] = "writing" THEN uncertain \cup {c} ELSE uncertain
  /\ late' = late \ {c}
  /\ UNCHANGED <<wake, closed, hook, current, received>>

-----------------------------------------------------------------------------
(* writeLoop(): one queued write at a time; an expired one is not written.  *)
WriterTakes ==
  /\ pc[Writer] = "loop"
  /\ IF closed
     THEN pc' = [pc EXCEPT ![Writer] = "done"] /\ UNCHANGED <<queue, state, current>>
     ELSE IF queue = << >>
     THEN pc' = [pc EXCEPT ![Writer] = "sleep"] /\ UNCHANGED <<queue, state, current>>
     ELSE LET c == Head(queue) IN
          /\ queue' = Tail(queue)
          /\ current' = [current EXCEPT ![Writer] = c]
          /\ IF c \in late
             THEN pc' = [pc EXCEPT ![Writer] = "expire"] /\ UNCHANGED state
             ELSE /\ pc' = [pc EXCEPT ![Writer] = "write"]
                  /\ state' = [state EXCEPT ![c] = "writing"]
  /\ UNCHANGED <<pending, writes, queuedBytes, wake, closed, hook, late, reply, result, received,
                 uncertain>>

WriterWakes ==
  /\ pc[Writer] = "sleep" /\ wake
  /\ wake' = FALSE
  /\ pc' = [pc EXCEPT ![Writer] = "loop"]
  /\ UNCHANGED <<books, closed, hook, current, late, reply, result, received, uncertain>>

WriterExpires ==
  /\ pc[Writer] = "expire"
  /\ Expire(current[Writer])
  /\ pc' = [pc EXCEPT ![Writer] = "loop"]
  /\ current' = [current EXCEPT ![Writer] = None]
  /\ UNCHANGED <<wake, closed, hook, late, received, uncertain>>

(* output.Write(): all of it, or an error after some of it.                 *)
WriterWrites ==
  /\ pc[Writer] = "write"
  /\ \/ pc' = [pc EXCEPT ![Writer] = "written"] /\ received' = received \cup ({current[Writer]} \cap Requests)
     \/ pc' = [pc EXCEPT ![Writer] = "close"] /\ UNCHANGED received
  /\ UNCHANGED <<books, wake, closed, hook, current, late, reply, result, uncertain>>

WriterFinishes ==
  LET c == current[Writer] IN
  /\ pc[Writer] = "written"
  /\ FinishWrites({c}, "written")
  /\ queuedBytes' = IF c \in writes THEN queuedBytes - Size[c] ELSE queuedBytes
  /\ pc' = [pc EXCEPT ![Writer] = "loop"]
  /\ current' = [current EXCEPT ![Writer] = None]
  /\ UNCHANGED <<pending, queue, wake, closed, hook, late, reply, received, uncertain>>

(* readLoop() and dispatch(): an answer takes its call out of pending under *)
(* the lock and sends the reply after it.  An answer nobody waits for, and  *)
(* a native request or notification, changes nothing here.                  *)
ReaderTakes(c) ==
  /\ pc[Reader] = "read" /\ c \in received \cap pending
  /\ pending' = pending \ {c}
  /\ current' = [current EXCEPT ![Reader] = c]
  /\ pc' = [pc EXCEPT ![Reader] = "deliver"]
  /\ UNCHANGED <<writes, queue, queuedBytes, state, wake, closed, hook, late, reply, result,
                 received, uncertain>>

ReaderDelivers ==
  /\ pc[Reader] = "deliver"
  /\ Replied({current[Reader]}, "answer")
  /\ pc' = [pc EXCEPT ![Reader] = "read"]
  /\ current' = [current EXCEPT ![Reader] = None]
  /\ UNCHANGED <<books, wake, closed, hook, late, result, received, uncertain>>

(* The stream ends, or a packet is malformed or over the packet bound.      *)
ReaderEnds ==
  /\ pc[Reader] = "read"
  /\ pc' = [pc EXCEPT ![Reader] = "close"]
  /\ UNCHANGED <<books, wake, closed, hook, current, late, reply, result, received, uncertain>>

-----------------------------------------------------------------------------
(* Close(): the owner decides to close.                                     *)
OwnerCloses ==
  /\ pc[Owner] = "idle"
  /\ pc' = [pc EXCEPT ![Owner] = "close"]
  /\ UNCHANGED <<books, wake, closed, hook, current, late, reply, result, received, uncertain>>

(* CloseWithError() under the lock: the first closer fails every pending    *)
(* call and every accounted write.                                          *)
AfterClose(a) == IF a \in Procs THEN "collect" ELSE "done"
CloseLocked(a) ==
  /\ pc[a] = "close"
  /\ IF closed
     THEN /\ pc' = [pc EXCEPT ![a] = AfterClose(a)]
          /\ UNCHANGED <<books, closed, captured, reply, result>>
     ELSE /\ pc' = [pc EXCEPT ![a] = "closing"]
          /\ closed' = TRUE
          /\ Replied(pending, "closed") /\ pending' = {}
          /\ FinishWrites(writes, "cancelled")
          /\ queue' = << >> /\ queuedBytes' = 0
          /\ captured' = handler
  /\ UNCHANGED <<wake, handler, called, current, late, received, uncertain>>

(* ... and after it: the writer is woken, the endpoints are closed and the  *)
(* handler that was installed runs.                                         *)
CloseFinishes(a) ==
  /\ pc[a] = "closing"
  /\ wake' = TRUE
  /\ called' = IF captured THEN called + 1 ELSE called
  /\ pc' = [pc EXCEPT ![a] = AfterClose(a)]
  /\ UNCHANGED <<books, closed, handler, captured, current, late, reply, result, received, uncertain>>

(* SetClosedHandler(): a handler installed after the close runs at once.    *)
SetClosedHandler ==
  /\ ~handler /\ handler' = TRUE
  /\ called' = IF closed THEN called + 1 ELSE called
  /\ UNCHANGED <<pc, books, wake, closed, captured, current, late, reply, result, received,
                 uncertain>>

-----------------------------------------------------------------------------
CloseStep(a) == CloseLocked(a) \/ CloseFinishes(a)
CallStep(c) == DeadlinePasses(c) \/ GiveUp(c) \/ Return(c) \/ CallerExpires(c)
WriterStep == WriterTakes \/ WriterWakes \/ WriterExpires \/ WriterFinishes
ReaderStep == (\E c \in Requests : ReaderTakes(c)) \/ ReaderDelivers

Next ==
  \/ \E c \in Procs : Enqueue(c) \/ CallStep(c)
  \/ WriterStep \/ WriterWrites \/ ReaderStep \/ ReaderEnds
  \/ OwnerCloses \/ SetClosedHandler
  \/ \E a \in Actors : CloseStep(a)

Spec == Init /\ [][Next]_vars

(* Goroutines run and deadlines pass.  A write may stall and the stream may *)
(* stay silent for ever, until the endpoints are closed under them.         *)
Unblocked == closed /\ \A a \in Actors : pc[a] # "closing"
Fairness ==
  /\ \A c \in Procs : WF_vars(CallStep(c) \/ CloseStep(c))
  /\ WF_vars(WriterStep \/ CloseStep(Writer) \/ (Unblocked /\ WriterWrites))
  /\ WF_vars(ReaderDelivers \/ CloseStep(Reader) \/ (Unblocked /\ ReaderEnds))
  /\ WF_vars(CloseStep(Owner))
FairSpec == Spec /\ Fairness

-----------------------------------------------------------------------------
PcTyped ==
  pc \in [Actors -> {"idle", "wait", "expire", "collect", "done", "loop", "sleep",
                     "write", "written", "read", "deliver", "close", "closing"}]
BooksTyped ==
  /\ pending \subseteq Requests /\ writes \subseteq Procs
  /\ queue \in Seq(Procs) /\ queuedBytes \in Nat
  /\ state \in [Procs -> {None, "queued", "writing", "written", "cancelled"}]
ChannelsTyped ==
  /\ reply \in [Procs -> {<< >>, <<"answer">>, <<"timeout">>, <<"closed">>}]
  /\ result \in [Procs -> {<< >>, <<"written">>, <<"cancelled">>}]
FlagsTyped ==
  /\ wake \in BOOLEAN /\ closed \in BOOLEAN
  /\ handler \in BOOLEAN /\ captured \in BOOLEAN /\ called \in 0..1
SetsTyped ==
  /\ current \in [{Writer, Reader} -> Procs \cup {None}]
  /\ late \subseteq Procs /\ received \subseteq Requests /\ uncertain \subseteq Procs

(* Types and ranges. Nothing is sent twice on a reply or result channel:    *)
(* answers, timeouts, cancelled contexts and closing race for the same      *)
(* call, and the loser would block for ever while it holds the transport's  *)
(* lock. No byte count is negative and the closed handler runs at most once.*)
TypeOK == PcTyped /\ BooksTyped /\ ChannelsTyped /\ FlagsTyped /\ SetsTyped

(* The writer never sleeps on work: when it waits for a token although      *)
(* something is queued or the transport is closed, a token is there or the  *)
(* closer is about to leave one.                                            *)
NoLostWakeup ==
  pc[Writer] = "sleep" /\ (queue # << >> \/ closed) => wake \/ \E a \in Actors : pc[a] = "closing"

(* "never ... let a queued expired input run later": the writer begins to   *)
(* write only requests whose caller still waits for the answer.             *)
NoExpiredWrite ==
  [][\A c \in Procs : state[c] # "writing" /\ state'[c] = "writing" =>
       pc[c] \in {"wait", "expire"} /\ (c \in Requests => c \in pending)]_vars

(* "If writing has begun its delivery is uncertain: retire this             *)
(* connection": when such a call has returned, the transport is closed.     *)
UncertainRetired == \A c \in uncertain : pc[c] = "done" => closed

(* The books balance: the accounted writes can be listed with a running     *)
(* total that ends in queuedBytes, and both bounds hold.                    *)
Balanced ==
  LET n == Cardinality(writes) IN
  /\ n <= MaxWrites /\ Cardinality(pending) <= MaxWrites /\ queuedBytes <= MaxBytes
  /\ \E order \in [1..n -> writes], total \in [0..n -> 0..queuedBytes] :
       /\ \A c \in writes : \E i \in 1..n : order[i] = c
       /\ \A i, j \in 1..n : order[i] = order[j] => i = j
       /\ total[0] = 0 /\ total[n] = queuedBytes
       /\ \A i \in 1..n : total[i] = total[i - 1] + Size[order[i]]
       /\ \A i, j \in 0..n : i <= j => total[i] <= total[j]

(* What is queued is marked so, and every write still marked queued is in   *)
(* the queue or in the writer's hands: nothing leaks on timeout, failure or *)
(* close.                                                                   *)
QueueTrue ==
  /\ \A i \in 1..Len(queue) : state[queue[i]] = "queued"
  /\ \A c \in writes : state[c] = "queued" => c = current[Writer] \/ \E i \in 1..Len(queue) : queue[i] = c

(* No request is lost track of, whatever timeouts, answers, contexts and    *)
(* closes race for it: a reply channel gets one value, the books balance,   *)
(* the writer does not sleep on work, and a write whose fate is unknown has *)
(* retired the transport (rpc.go:299, rpc_write.go:117 and :140).           *)
RequestsAccounted == TypeOK /\ Balanced /\ QueueTrue /\ NoLostWakeup /\ UncertainRetired

(* Every call returns, whether the native process answers, stalls or goes   *)
(* away; both loops end once the transport is closed; and a closed handler  *)
(* is called, however its installation races the close.                     *)
EverythingEnds ==
  /\ \A c \in Procs : pc[c] = "wait" ~> pc[c] = "done"
  /\ closed ~> (pc[Writer] = "done" /\ pc[Reader] = "done")
  /\ (closed /\ handler) ~> called = 1
==============================================================================
