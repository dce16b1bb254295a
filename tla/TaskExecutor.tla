---------------------------- MODULE TaskExecutor ----------------------------
(***************************************************************************)
(* One private task executor (internal/codex/taskexecutor.go): the owner   *)
(* of one native Codex task, its private client endpoint and the           *)
(* retirement of its native writer.                                        *)
(*                                                                         *)
(* Every client request runs in a goroutine of its own (serveClient), the  *)
(* native JSONL stream is read by one goroutine that delivers responses    *)
(* and runs handleNotification in stream order (Rpc.readLoop), and timers  *)
(* run Retire.  A step of the model is one critical section of e.mu, or    *)
(* one exchange with the native process.  The native process is external:  *)
(* it takes requests in the order they were written, may answer them       *)
(* later, and publishes notifications before or after the answers.         *)
(***************************************************************************)
EXTENDS Naturals, Sequences, FiniteSets

CONSTANTS
  Requests,    \* client request goroutines (each is used once)
  Methods,     \* the methods those clients call
  AdmittedIDs, \* what options.AdmittedID may be: a durably admitted thread, or 0 for none
  MaxThreads,  \* bound on native threads
  MaxTurns,    \* bound on native turns
  MaxPending,  \* executorMaxPending
  MaxFaults    \* bound on rpc timeouts, releaseNative errors and rpc failures

AllMethods == {"filo/task/state", "thread/start", "thread/resume", "turn/start",
               "turn/steer", "turn/interrupt", "thread/archive", "thread/read", "model/list"}
Terminal == {"completed", "failed", "interrupted"}   \* executorTerminalTurnStatuses
Verify == "retire"        \* the retirement's own native calls
Abandoned == "abandoned"  \* ... once they have timed out

ASSUME ExecutorAssumption ==
  /\ Methods \subseteq AllMethods
  /\ MaxThreads \in Nat /\ AdmittedIDs \subseteq 0..MaxThreads
  /\ MaxTurns \in Nat /\ MaxFaults \in Nat
  /\ MaxPending \in Nat \ {0}
  /\ IsFiniteSet(Requests)
  /\ Verify \notin Requests /\ Abandoned \notin Requests

VARIABLES
  id, opening, turn, hasUser, materialized,   \* the owned task
  pending, active, settled, nativeClosed, retiring,     \* e.pending is the set of counted requests
  timer,       \* e.timer is armed
  fired,       \* a timer callback runs but has not entered Retire
  retire,      \* phase of the Retire call past its guard
  retireTurn,  \* verifyIdle's copy of e.turn
  rearm,       \* retryRetirement has lifted the fence and not yet armed the timer
  req,         \* request goroutines
  toNative,    \* requests written to the native process, in order
  owed,        \* answers the native process has decided and not yet written
  fromNative,  \* the native stream not yet read
  nthreads, nturn, narchived,  \* the native task: threads created, latest turn
  released,    \* releaseNative succeeded
  rpc,         \* the transport: open, closing (calls failed), closed (Disconnect ran)
  faults

(* Every pending call of the transport has failed and no other is accepted.  *)
RpcClosed == rpc # "open"

task    == <<id, opening, turn, hasUser, materialized>>
life    == <<pending, active, settled, nativeClosed, retiring, timer>>
native  == <<toNative, owed, fromNative, nthreads, nturn, narchived>>
retired == <<fired, retire, retireTurn, rearm, released>>
vars == <<task, life, native, retired, req, rpc, faults>>

NoTurn == [id |-> 0, status |-> "none"]
NoRes  == [ok |-> FALSE, th |-> 0, turn |-> NoTurn, status |-> "none"]

Call(o, m, th) == [of |-> o, m |-> m, th |-> th]
Note(k, th, t) == [kind |-> k, of |-> "native", th |-> th, turn |-> t, res |-> NoRes]
Answer(o, res) == [kind |-> "response", of |-> o, th |-> 0, turn |-> NoTurn, res |-> res]

Init ==
  /\ id \in AdmittedIDs /\ opening = FALSE /\ turn = NoTurn
  /\ hasUser = FALSE /\ materialized = (id # 0)
  /\ pending = {} /\ active = FALSE /\ settled = FALSE /\ nativeClosed = FALSE
  /\ retiring = FALSE
  /\ timer = TRUE           \* Listen ends with schedule()
  /\ fired = FALSE /\ retire = "off" /\ retireTurn = NoTurn /\ rearm = FALSE /\ released = FALSE
  /\ req = [r \in Requests |-> [ph |-> "new", m |-> "filo/task/state", th |-> 0, res |-> NoRes]]
  /\ toNative = << >> /\ owed = {} /\ fromNative = << >>
  /\ nthreads = id
  /\ nturn = [id |-> 0, status |-> "none", th |-> 0, announced |-> TRUE, item |-> TRUE]
  /\ narchived = FALSE /\ rpc = "open" /\ faults = 0

-----------------------------------------------------------------------------
(* schedule(): stop the timer, and arm it again unless the executor retires *)
(* or has work.  The delay (idle or completed) is abstracted.               *)
Scheduled(p, a) == ~retiring /\ p = {} /\ ~a

(* receive(): admission of one client packet.  A packet read before the     *)
(* endpoint went away may be dispatched after it.                           *)
Receive(r) ==
  /\ req[r].ph = "new"
  /\ \E m \in Methods, th \in 0..MaxThreads :
       IF retiring \/ Cardinality(pending) >= MaxPending
       THEN /\ req' = [req EXCEPT ![r].ph = "done"]
            /\ UNCHANGED <<pending, timer>>
       ELSE /\ req' = [req EXCEPT ![r] = [@ EXCEPT !.ph = "admitted", !.m = m, !.th = th]]
            /\ pending' = pending \cup {r}
            /\ timer' = FALSE
  /\ UNCHANGED <<task, active, settled, nativeClosed, retiring, native, retired,
                 rpc, faults>>

(* The reply is written, pending is decremented and schedule() runs.        *)
Finish(r) ==
  /\ req' = [req EXCEPT ![r].ph = "done"]
  /\ pending' = pending \ {r}
  /\ timer' = Scheduled(pending', active')

(* request() for what ends without a native call: the state read, the       *)
(* refusals (protectedLifetime() is external and may always refuse), and    *)
(* everything on a closed transport.                                        *)
InScope(r) == id # 0 /\ req[r].th = id
Refused(r) ==
  CASE req[r].m = "thread/start" -> id # 0 \/ opening
    [] req[r].m = "model/list" -> FALSE
    [] OTHER -> ~InScope(r)
NeedsProtection == {"thread/start", "turn/start", "turn/steer"}   \* refused when unprotected

Local(r) ==
  /\ req[r].ph = "admitted"
  /\ \/ req[r].m = "filo/task/state" \/ Refused(r) \/ RpcClosed
     \/ req[r].m \in NeedsProtection
  /\ active' = active
  /\ Finish(r)
  /\ UNCHANGED <<task, settled, nativeClosed, retiring, native, retired,
                 rpc, faults>>

(* thread/start passes the ownership check, and only then, in a second      *)
(* critical section, sets opening and calls the native process.             *)
StartChecked(r) ==
  /\ req[r].ph = "admitted" /\ req[r].m = "thread/start" /\ ~Refused(r)
  /\ req' = [req EXCEPT ![r].ph = "checked"]
  /\ UNCHANGED <<task, life, native, retired, rpc, faults>>

StartOpening(r) ==
  /\ req[r].ph = "checked" /\ ~RpcClosed
  /\ opening' = TRUE
  /\ toNative' = Append(toNative, Call(r, "thread/start", 0))
  /\ req' = [req EXCEPT ![r].ph = "sent"]
  /\ UNCHANGED <<id, turn, hasUser, materialized, life, owed, fromNative,
                 nthreads, nturn, narchived, retired, rpc, faults>>

(* The thread-scoped methods and the reconnecting resume are forwarded.     *)
Forward(r) ==
  /\ req[r].ph = "admitted" /\ ~RpcClosed
  /\ req[r].m \notin {"filo/task/state", "thread/start"} /\ ~Refused(r)
  /\ toNative' = Append(toNative, Call(r, req[r].m, req[r].th))
  /\ req' = [req EXCEPT ![r].ph = "sent"]
  /\ UNCHANGED <<task, life, owed, fromNative, nthreads, nturn, narchived, retired,
                 rpc, faults>>

(* The native error, timeout, closed transport or invalid created identity  *)
(* is passed to the client.                                                 *)
Fail(r) ==
  /\ \/ req[r].ph = "failed"
     \/ req[r].ph = "checked" /\ RpcClosed
     \/ req[r].ph = "answered" /\ req[r].m = "thread/start" /\ req[r].res.th = 0
  /\ opening' = (opening /\ req[r].m # "thread/start")
  /\ active' = active
  /\ Finish(r)
  /\ UNCHANGED <<id, turn, hasUser, materialized, settled, nativeClosed,
                 retiring, native, retired, rpc, faults>>

(* thread/start answered: the identity is owned before recordTask may fail. *)
Started(r) ==
  /\ req[r].ph = "answered" /\ req[r].m = "thread/start" /\ req[r].res.th # 0
  /\ id' = req[r].res.th
  /\ opening' = FALSE
  /\ active' = active
  /\ Finish(r)
  /\ UNCHANGED <<turn, hasUser, materialized, settled, nativeClosed, retiring, native,
                 retired, rpc, faults>>

(* What request() records from the answer to a thread-scoped method.  A     *)
(* turn that ended before its answer is applied does not become active.     *)
ActiveAfterAnswer == active \/ ~settled
Applied(r) ==
  LET m == req[r].m
      t == req[r].res.turn IN
  /\ req[r].ph = "answered" /\ m # "thread/start"
  /\ turn' = IF m = "turn/start" /\ t # NoTurn /\ turn.id # t.id THEN t ELSE turn
  /\ materialized' = (materialized \/ m = "turn/start")
  /\ active' = CASE m \in {"turn/start", "turn/steer"} -> ActiveAfterAnswer
                 [] m = "thread/archive" -> FALSE
                 [] OTHER -> active
  /\ settled' = (settled \/ m = "thread/archive")
  /\ Finish(r)
  /\ UNCHANGED <<id, opening, hasUser, nativeClosed, retiring, native,
                 retired, rpc, faults>>

-----------------------------------------------------------------------------
(* Rpc.dispatch: a response is delivered to the call that waits for it.     *)
Verifying == retire \in {"reading", "listing"}               \* verifyIdle waits
Deliver(p) ==
  /\ p.kind = "response" /\ (p.of = Verify => ~Verifying)
  /\ req' = IF p.of \in Requests /\ req[p.of].ph = "sent"
            THEN [req EXCEPT ![p.of] = [@ EXCEPT !.ph = IF p.res.ok THEN "answered" ELSE "failed",
                                                 !.res = p.res]]
            ELSE req     \* no pending call: it timed out
  /\ UNCHANGED <<task, life, retired>>

(* A turn first seen through one of its items is in progress.               *)
InferredTurnUnknown(p) == [id |-> p.turn.id, status |-> "unknown"]   \* mutant: a status nobody knows
InferredTurn(p) == [id |-> p.turn.id, status |-> "inProgress"]

(* handleNotification(): lifetime state from the native stream, then        *)
(* schedule().  A notification for another thread is ignored.               *)
HandleNotification(p) ==
  LET known  == p.kind \in {"turn/started", "turn/completed"} IN
  /\ p.kind # "response"
  /\ IF p.th # id
     THEN UNCHANGED <<turn, hasUser, materialized, active, settled, nativeClosed, timer>>
     ELSE /\ turn' = CASE known -> p.turn
                     [] turn = NoTurn /\ p.kind = "item/started" -> InferredTurn(p)
                     [] OTHER -> turn
          /\ hasUser' = \/ p.kind = "item/started" /\ p.turn.id = turn'.id
                        \/ hasUser /\ p.kind # "turn/started"
          /\ materialized' = (materialized \/ (p.kind = "item/started" /\ p.turn.id = turn'.id))
          /\ nativeClosed' = (nativeClosed \/ p.kind = "thread/archived")
          /\ active' = (p.kind = "turn/started" \/ (active /\ p.kind = "item/started"))
          /\ settled' = (p.kind \in {"turn/completed", "thread/archived"}
                          \/ (settled /\ p.kind # "turn/started"))
          /\ timer' = Scheduled(pending, active')
  /\ UNCHANGED <<id, opening, pending, retiring, retired, req>>

-----------------------------------------------------------------------------
(* retryRetirement(): the writer stays.  The fence is lifted in one critical *)
(* section and the timer armed in the next, whatever was admitted between.  *)
RetryRetirement ==
  /\ retire = "failed" /\ retire' = "off"
  /\ ~rearm /\ rearm' = TRUE
  /\ retiring' = FALSE
  /\ UNCHANGED <<task, pending, active, settled, nativeClosed, timer, native, fired,
                 retireTurn, released, req, rpc, faults>>

RearmStopsTimer ==                                           \* mutant: no timer for the retry
  /\ rearm /\ rearm' = FALSE /\ timer' = FALSE
  /\ UNCHANGED <<task, pending, active, settled, nativeClosed, retiring, native, fired, retire,
                 retireTurn, released, req, rpc, faults>>
Rearm ==
  /\ rearm /\ rearm' = FALSE /\ timer' = TRUE
  /\ UNCHANGED <<task, pending, active, settled, nativeClosed, retiring, native, fired, retire,
                 retireTurn, released, req, rpc, faults>>

(* Retire(): a timer callback starts, and a callback whose timer was        *)
(* stopped too late still runs.                                             *)
TimerFires ==
  /\ timer /\ ~fired
  /\ timer' = FALSE /\ fired' = TRUE
  /\ UNCHANGED <<task, pending, active, settled, nativeClosed, retiring, native, retire,
                 retireTurn, rearm, released, req, rpc, faults>>

(* The guard, the admission fence, and verifyIdle's first native read,      *)
(* which fails at once on a closed transport.                               *)
RetireBlockedByTurn == retiring \/ active                    \* mutant: ignores e.pending
RetireBlocked == retiring \/ pending # {} \/ active
Retire ==
  /\ fired /\ fired' = FALSE
  /\ IF RetireBlocked
     THEN UNCHANGED <<retiring, timer, retire, retireTurn, toNative>>
     ELSE /\ retireTurn' = turn
          /\ retiring' = TRUE /\ timer' = FALSE
          /\ retire' = IF id = 0 THEN "verified" ELSE IF RpcClosed THEN "failed" ELSE "reading"
          /\ toNative' = IF retire' = "reading"
                         THEN Append(toNative, Call(Verify, "thread/read", id)) ELSE toNative
  /\ UNCHANGED <<task, pending, active, settled, nativeClosed, owed, fromNative, nthreads,
                 nturn, narchived, rearm, released, req, rpc, faults>>

(* verifyIdle(): the answer to thread/read, and to thread/turns/list when a *)
(* systemError task has no terminal turn of its own.                        *)
InactiveAnyStatus(s) == s # "none"                           \* mutant: any status is idle
Inactive(s) == s \in {"idle", "notLoaded"}
VerifyAnswered(p) ==
  /\ p.kind = "response" /\ p.of = Verify /\ Verifying
  /\ retire' = CASE retire = "reading" /\ Inactive(p.res.status) -> "verified"
                 [] retire = "reading" /\ p.res.status = "systemError" ->
                      IF retireTurn.status \in Terminal THEN "verified" ELSE "listing"
                 [] retire = "listing" /\ p.res.turn.status \in Terminal -> "verified"
                 [] OTHER -> "failed"
  /\ toNative' = IF retire' = "listing"
                 THEN Append(toNative, Call(Verify, "thread/turns/list", id)) ELSE toNative
  /\ UNCHANGED <<task, life, fired, retireTurn, rearm, released, req>>

(* One packet of the native stream: a client's answer, the retirement's     *)
(* answer, or a notification.                                               *)
ReadPacket ==
  /\ fromNative # << >> /\ ~RpcClosed
  /\ fromNative' = Tail(fromNative)
  /\ LET p == Head(fromNative) IN
       \/ Deliver(p) /\ UNCHANGED toNative
       \/ HandleNotification(p) /\ UNCHANGED toNative
       \/ VerifyAnswered(p)
  /\ UNCHANGED <<owed, nthreads, nturn, narchived, rpc, faults>>

(* releaseNative() succeeds and Disconnect() drops the endpoint, or it      *)
(* fails and the retirement is retried.                                     *)
Release ==
  /\ retire = "verified"
  /\ released' = TRUE /\ retire' = "done"
  /\ retiring' = TRUE /\ timer' = FALSE
  /\ UNCHANGED <<task, pending, active, settled, nativeClosed, native, fired, retireTurn,
                 rearm, req, rpc, faults>>

ReleaseFails ==
  /\ retire = "verified" /\ faults < MaxFaults
  /\ faults' = faults + 1
  /\ retire' = "failed"
  /\ UNCHANGED <<task, life, native, fired, retireTurn, rearm, released, req, rpc>>

(* Rpc timeouts: the caller fails; a written request is still the native    *)
(* process's to handle.                                                     *)
RequestTimeout(r) ==
  /\ req[r].ph = "sent" /\ faults < MaxFaults
  /\ faults' = faults + 1
  /\ req' = [req EXCEPT ![r].ph = "failed"]
  /\ UNCHANGED <<task, life, native, retired, rpc>>

(* A timed-out verification is still handled and answered, but its answer   *)
(* finds no pending call.                                                   *)
Abandon(x) == IF x.of = Verify THEN [x EXCEPT !.of = Abandoned] ELSE x
VerifyTimeout ==
  /\ Verifying /\ faults < MaxFaults
  /\ faults' = faults + 1
  /\ retire' = "failed"
  /\ toNative' = [i \in DOMAIN toNative |-> Abandon(toNative[i])]
  /\ fromNative' = [i \in DOMAIN fromNative |-> Abandon(fromNative[i])]
  /\ owed' = {Abandon(a) : a \in owed}
  /\ UNCHANGED <<task, life, nthreads, nturn, narchived, fired, retireTurn, rearm, released,
                 req, rpc>>

(* The native stream ends: CloseWithError fails every pending call, the     *)
(* retirement's included, and then runs the closed handler, Disconnect().   *)
RpcCloses ==
  /\ ~RpcClosed /\ ~released /\ faults < MaxFaults
  /\ faults' = faults + 1
  /\ rpc' = "closing"
  /\ req' = [r \in Requests |-> IF req[r].ph = "sent" THEN [req[r] EXCEPT !.ph = "failed"] ELSE req[r]]
  /\ retire' = IF Verifying THEN "failed" ELSE retire
  /\ UNCHANGED <<task, life, native, fired, retireTurn, rearm, released>>

Disconnect ==
  /\ rpc = "closing" /\ rpc' = "closed"
  /\ retiring' = TRUE /\ timer' = FALSE
  /\ UNCHANGED <<task, pending, active, settled, nativeClosed, native, retired, req, faults>>

-----------------------------------------------------------------------------
(* The native process (external).  Requests are handled in the order they   *)
(* were written; the answer is written later, independently of the          *)
(* notifications the request causes.                                        *)
InProgress == nturn.status = "inProgress"
ThreadStatus ==
  IF InProgress THEN "active"
  ELSE IF nturn.status = "failed" THEN "systemError"
  ELSE IF narchived THEN "notLoaded" ELSE "idle"
NativeTurn == IF nturn.id = 0 THEN NoTurn ELSE [id |-> nturn.id, status |-> nturn.status]

NativeHandles ==
  /\ toNative # << >> /\ ~RpcClosed
  /\ toNative' = Tail(toNative)
  /\ LET c == Head(toNative)
         reply(ok, th, t) ==
           owed' = owed \cup {[of |-> c.of, m |-> c.m,
                               res |-> [ok |-> ok, th |-> th, turn |-> t, status |-> ThreadStatus]]} IN
       \/ /\ c.m = "thread/start"
          /\ \/ /\ nthreads < MaxThreads
                /\ nthreads' = nthreads + 1
                /\ reply(TRUE, nthreads + 1, NoTurn)
             \/ UNCHANGED nthreads /\ \E ok \in BOOLEAN : reply(ok, 0, NoTurn)
          /\ UNCHANGED <<nturn, narchived, fromNative>>
       \/ /\ c.m = "turn/start"
          /\ IF ~InProgress /\ ~narchived /\ nturn.id < MaxTurns
             THEN /\ nturn' = [id |-> nturn.id + 1, status |-> "inProgress", th |-> c.th,
                               announced |-> FALSE, item |-> FALSE]
                  /\ reply(TRUE, c.th, [id |-> nturn.id + 1, status |-> "inProgress"])
             ELSE UNCHANGED nturn /\ reply(FALSE, c.th, NoTurn)
          /\ UNCHANGED <<nthreads, narchived, fromNative>>
       \/ /\ c.m \in {"turn/steer", "turn/interrupt"}
          /\ reply(InProgress, c.th, NativeTurn)
          /\ UNCHANGED <<nturn, nthreads, narchived, fromNative>>
       \/ /\ c.m = "thread/archive"
          /\ narchived' = TRUE
          /\ nturn' = IF InProgress THEN [nturn EXCEPT !.status = "interrupted"] ELSE nturn
          /\ fromNative' = Append(fromNative, Note("thread/archived", c.th, NativeTurn))
          /\ reply(TRUE, c.th, NoTurn)
          /\ UNCHANGED nthreads
       \/ /\ c.m \in {"thread/read", "thread/resume", "thread/turns/list", "model/list"}
          /\ reply(TRUE, c.th, NativeTurn)
          /\ UNCHANGED <<nturn, nthreads, narchived, fromNative>>
  /\ UNCHANGED <<task, life, retired, req, rpc, faults>>

NativeAnswers ==
  /\ ~RpcClosed
  /\ \E a \in owed :
       /\ owed' = owed \ {a}
       /\ fromNative' = Append(fromNative, Answer(a.of, a.res))
  /\ UNCHANGED <<task, life, toNative, nthreads, nturn, narchived, retired, req, rpc,
                 faults>>

(* The turn is announced, its user message published, and it ends.          *)
NativeNotifies ==
  /\ InProgress /\ ~RpcClosed
  /\ \/ /\ ~nturn.announced
        /\ nturn' = [nturn EXCEPT !.announced = TRUE]
        /\ fromNative' = Append(fromNative, Note("turn/started", nturn.th, NativeTurn))
     \/ /\ ~nturn.item
        /\ nturn' = [nturn EXCEPT !.item = TRUE]
        /\ fromNative' = Append(fromNative, Note("item/started", nturn.th, NativeTurn))
     \/ /\ nturn.announced
        /\ \E s \in Terminal :
             /\ nturn' = [nturn EXCEPT !.status = s, !.item = TRUE]
             /\ fromNative' = Append(fromNative, Note("turn/completed", nturn.th,
                                                      [id |-> nturn.id, status |-> s]))
  /\ UNCHANGED <<task, life, toNative, owed, nthreads, narchived, retired, req, rpc,
                 faults>>

-----------------------------------------------------------------------------
(* A retired or disconnected executor may simply stop.                      *)
Stopped == (released \/ RpcClosed) /\ UNCHANGED vars

ClientStep(r) ==
  \/ Local(r) \/ StartChecked(r) \/ StartOpening(r) \/ Forward(r)
  \/ Fail(r) \/ Started(r) \/ Applied(r)

Next ==
  \/ \E r \in Requests : Receive(r) \/ ClientStep(r) \/ RequestTimeout(r)
  \/ ReadPacket \/ TimerFires \/ Retire \/ Release \/ ReleaseFails
  \/ VerifyTimeout \/ RetryRetirement \/ Rearm \/ RpcCloses \/ Disconnect
  \/ NativeHandles \/ NativeAnswers \/ NativeNotifies
  \/ Stopped

Spec == Init /\ [][Next]_vars

(* Goroutines, timers and the reader run; the native process answers and    *)
(* its turns end.  Nothing obliges a client to call or a fault to happen.   *)
Fairness ==
  /\ \A r \in Requests : WF_vars(ClientStep(r))
  /\ WF_vars(ReadPacket) /\ WF_vars(TimerFires) /\ WF_vars(Retire) /\ WF_vars(Release)
  /\ WF_vars(RetryRetirement) /\ WF_vars(Rearm)
  /\ WF_vars(NativeHandles) /\ WF_vars(NativeAnswers) /\ WF_vars(NativeNotifies)

FairSpec == Spec /\ Fairness

-----------------------------------------------------------------------------
Turns == [id : 0..MaxTurns, status : Terminal \cup {"none", "inProgress"}]
Results == [ok : BOOLEAN, th : 0..MaxThreads, turn : Turns,
            status : {"none", "active", "idle", "notLoaded", "systemError"}]
Calls == [of : Requests \cup {Verify, Abandoned}, m : AllMethods \cup {"thread/turns/list"}, th : 0..MaxThreads]
Answers == [of : Requests \cup {Verify, Abandoned}, m : AllMethods \cup {"thread/turns/list"}, res : Results]
Packets == [kind : {"response", "turn/started", "turn/completed", "item/started", "thread/archived"},
            of : Requests \cup {Verify, Abandoned, "native"}, th : 0..MaxThreads, turn : Turns, res : Results]

Reqs == [ph : {"new", "admitted", "checked", "sent", "answered", "failed", "done"},
         m : AllMethods, th : 0..MaxThreads, res : Results]
NativeTurns == [id : 0..MaxTurns, status : Terminal \cup {"none", "inProgress"},
                th : 0..MaxThreads, announced : BOOLEAN, item : BOOLEAN]

TaskType ==
  /\ id \in 0..MaxThreads /\ turn \in Turns /\ opening \in BOOLEAN
  /\ hasUser \in BOOLEAN /\ materialized \in BOOLEAN
LifeType ==
  /\ pending \in SUBSET Requests /\ active \in BOOLEAN /\ settled \in BOOLEAN
  /\ nativeClosed \in BOOLEAN /\ retiring \in BOOLEAN /\ timer \in BOOLEAN
RetireType ==
  /\ retire \in {"off", "reading", "listing", "verified", "failed", "done"}
  /\ fired \in BOOLEAN /\ retireTurn \in Turns /\ rearm \in BOOLEAN /\ released \in BOOLEAN
ChannelType == toNative \in Seq(Calls) /\ owed \in SUBSET Answers /\ fromNative \in Seq(Packets)
NativeType == nthreads \in 0..MaxThreads /\ nturn \in NativeTurns /\ narchived \in BOOLEAN
RestType ==
  /\ req \in [Requests -> Reqs] /\ rpc \in {"open", "closing", "closed"}
  /\ faults \in 0..MaxFaults
(* Types of the fields of TaskExecutor and of what surrounds it.            *)
TypeOK == TaskType /\ LifeType /\ RetireType /\ ChannelType /\ NativeType /\ RestType

(* Retire fences admission before the native idle check: from the guard of  *)
(* Retire to the release no client request is in flight and none can be     *)
(* admitted.                                                                *)
RetirementFenced ==
  retire \in {"reading", "listing", "verified", "done"} => retiring /\ pending = {}

(* No turn runs, and no request for one is left to the native process.      *)
Quiet == ~InProgress /\ \A i \in 1..Len(toNative) : toNative[i].m # "turn/start"

(* The native writer is released only when the native task has no turn in   *)
(* progress and no accepted request is left for it to run, even when a      *)
(* client's turn/start timed out or answered before its notification.       *)
ReleasedOnlyIdle == released => Quiet

(* The lifetime of one writer, as the executor leads it: it is behind the   *)
(* fence from Retire() to retryRetirement(), and at work while a turn runs  *)
(* or the request for one is on its way.                                    *)
Phase == IF released THEN "released"
         ELSE IF retire \in {"reading", "listing", "verified", "done"} THEN "fenced" ELSE "serving"
Lifetime == INSTANCE WriterLifetime WITH
              Clients <- Requests, admitted <- pending, working <- ~Quiet, phase <- Phase

(* The executor implements WriterLifetime: its endpoint, its retirement and *)
(* the native stream together keep what one writer's lifetime promises      *)
(* (taskexecutor.go:281 and :561).                                          *)
ImplementsLifetime == Lifetime!Spec

(* "creating a second task never is [allowed]": one executor never has the  *)
(* native process create two threads.                                       *)
SingleTask == nthreads <= 1

(* With clients gone quiet, the executor retires its native writer, unless  *)
(* the native process itself went away.                                     *)
EventuallyRetires == <>(released \/ RpcClosed)
=============================================================================
