----------------------------- MODULE TaskSessions -----------------------------
(***************************************************************************)
(* The scoped task adapter of a user helper (internal/service:             *)
(* newtasksessions.go and taskaccess.go).  It keeps one admitted           *)
(* connection per task, shares one opening attempt between callers, checks *)
(* a client's access binding again before every native mutation, and stops *)
(* only when no mutation is in flight.                                     *)
(*                                                                         *)
(* One step is one section under s.mu, one native request with its answer, *)
(* or one event of a connection.  A native task is the number of times a   *)
(* turn of it started or ended: odd while a turn runs.  What a page shows  *)
(* (history, activity, settings, usage) is left out.                       *)
(***************************************************************************)
EXTENDS Naturals, FiniteSets

CONSTANTS
  Tasks, Conns, Clients,
  Callings,     \* what the clients of a behaviour may call: functions from Clients to operations
  MaxPhase,     \* bound on the turns of a task: starts and ends
  EarlyReads,   \* a task may be asked for before its creation has returned
  None

ASSUME TaskSessionsAssumption ==
  /\ IsFiniteSet(Clients) /\ IsFiniteSet(Conns)
  /\ MaxPhase \in Nat /\ EarlyReads \in BOOLEAN
  /\ None \notin Tasks \cup Conns \cup Clients

VARIABLES
  entries,    \* task -> published connection
  opening,    \* task -> client whose attempt the others share
  draining, writes,
  lock,       \* connection -> client that holds its entry's operation lock
  conn,       \* connections
  op,         \* client -> operation in progress
  held,       \* client -> access binding it was given
  phase,      \* native task -> starts and ends of its turns
  created, known,   \* tasks that exist natively; tasks a client may ask for
  stopping,   \* "no", PrepareShutdown "verify"-ing, "close", "prepared"
  closed,     \* Close() has run
  calling     \* the element of Callings this behaviour is about

vars == <<entries, opening, draining, writes, lock, conn, op, held, phase, created, known,
          stopping, closed>>

Mutations == {"create", "send", "stop", "settings", "archive"}
Kinds == Mutations \cup {"read", "access"}
ASSUME CallingsAssumption == Callings \subseteq [Clients -> SUBSET Kinds]
Binding(k, n, s) == [k |-> k, epoch |-> n, seen |-> s]
NoBinding == Binding(None, 0, 0)
Idle == [kind |-> "read", pc |-> "idle", t |-> None, k |-> None, bind |-> NoBinding, lead |-> None,
         epoch |-> 0, seen |-> 0, turn |-> 0, method |-> "none", next |-> "none"]
Active(n) == n % 2 = 1

Init ==
  /\ entries = [t \in Tasks |-> None] /\ opening = [t \in Tasks |-> None]
  /\ draining = FALSE /\ writes = 0
  /\ lock = [k \in Conns |-> None]
  /\ conn = [k \in Conns |-> [st |-> "free", t |-> None, reg |-> FALSE, told |-> 0]]
  /\ op = [c \in Clients |-> Idle] /\ held = [c \in Clients |-> NoBinding]
  /\ phase = [t \in Tasks |-> 0]
  /\ created \in SUBSET Tasks /\ known = created
  /\ stopping = "no" /\ closed = FALSE
  /\ calling \in Callings

-----------------------------------------------------------------------------
(* How an operation ends: it gives its operation lock back and, if it is a  *)
(* mutation, leaves the count PrepareShutdown looks at.  An attempt that    *)
(* others share first goes through FinishOpening.                           *)
Leave(c) ==
  /\ op' = [op EXCEPT ![c] = Idle]
  /\ writes' = IF op[c].kind \in Mutations THEN writes - 1 ELSE writes
  /\ lock' = [k \in Conns |-> IF lock[k] = c THEN None ELSE lock[k]]
  /\ known' = IF op[c].kind = "create" /\ op[c].t # None THEN known \cup {op[c].t} ELSE known
Fail(c) ==
  IF op[c].pc \in {"factory", "opened", "attach", "publish"} /\ op[c].kind # "create"
  THEN op' = [op EXCEPT ![c].pc = "finish", ![c].k = None, ![c].next = "error"] /\ UNCHANGED <<writes, lock, known>>
  ELSE Leave(c)
Goto(c, pc) == op' = [op EXCEPT ![c].pc = pc] /\ UNCHANGED <<writes, lock, known>>
CloseConn(k) == conn' = IF conn[k].st = "open" THEN [conn EXCEPT ![k].st = "closed"] ELSE conn

(* mutation(): refused while draining.  Stop names the turn its client saw. *)
MayStart == ~draining
Begin(c) ==
  /\ op[c].pc = "idle"
  /\ \E kind \in calling[c], b \in {NoBinding, held[c]} :
       \/ /\ kind = "create" /\ MayStart
          /\ op' = [op EXCEPT ![c] = [Idle EXCEPT !.kind = kind, !.pc = "factory"]]
          /\ writes' = writes + 1
       \/ \E t \in known \cup (IF EarlyReads THEN created ELSE {}) :
          /\ kind # "create" /\ (kind \in Mutations => MayStart)
          /\ kind \in {"read", "access", "archive"} => b = NoBinding
          /\ kind = "stop" => Active(phase[t])
          /\ op' = [op EXCEPT ![c] = [Idle EXCEPT !.kind = kind, !.t = t, !.bind = b, !.turn = IF kind = "stop" THEN phase[t] ELSE 0,
                                        !.pc = IF kind = "access" THEN "access" ELSE "acquire"]]
          /\ writes' = IF kind \in Mutations THEN writes + 1 ELSE writes
  /\ UNCHANGED <<entries, opening, draining, lock, conn, held, phase, created, known, stopping, closed>>

-----------------------------------------------------------------------------
(* acquire(): the published entry, the attempt in progress, or a new one.   *)
Writes(c) == op[c].kind \in {"send", "settings"}
Acquire(c) ==
  LET t == op[c].t IN
  /\ op[c].pc = "acquire"
  /\ IF draining THEN Fail(c) /\ UNCHANGED opening
     ELSE IF entries[t] # None
     THEN op' = [op EXCEPT ![c].pc = "got", ![c].k = entries[t]] /\ UNCHANGED <<opening, writes, lock, known>>
     ELSE IF op[c].bind # NoBinding THEN Fail(c) /\ UNCHANGED opening
     ELSE IF opening[t] # None
     THEN op' = [op EXCEPT ![c].pc = "wait", ![c].lead = opening[t]] /\ UNCHANGED <<opening, writes, lock, known>>
     ELSE opening' = [opening EXCEPT ![t] = c] /\ Goto(c, "factory")
  /\ UNCHANGED <<entries, draining, conn, held, phase, created, stopping, closed>>

(* factory.Open and factory.Follow: a connection, none (only Follow), or an *)
(* error; always an error once the factory is closed.                       *)
Factory(c) ==
  /\ op[c].pc = "factory"
  /\ \/ /\ ~closed
        /\ \E k \in Conns : /\ conn[k].st = "free"
                            /\ conn' = [conn EXCEPT ![k].st = "open", ![k].t = op[c].t]
                            /\ op' = [op EXCEPT ![c].pc = "opened", ![c].k = k]
        /\ UNCHANGED <<writes, lock, known>>
     \/ ~closed /\ ~Writes(c) /\ op[c].kind # "create" /\ UNCHANGED conn
        /\ op' = [op EXCEPT ![c].pc = "finish", ![c].next = "nil"] /\ UNCHANGED <<writes, lock, known>>
     \/ Fail(c) /\ UNCHANGED conn
  /\ UNCHANGED <<entries, opening, draining, held, phase, created, stopping, closed>>

(* register(): install the handlers.  A connection that closed before runs  *)
(* its closed handler at once.                                              *)
Register(c) ==
  LET k == op[c].k IN
  /\ conn' = [conn EXCEPT ![k].t = op[c].t, ![k].reg = TRUE, ![k].told = phase[op[c].t],
                          ![k].st = IF @ = "closed" THEN "gone" ELSE @]
  /\ entries' = IF conn[k].st = "closed" /\ entries[op[c].t] = k
                THEN [entries EXCEPT ![op[c].t] = None] ELSE entries

(* open(), after the factory answered.                                      *)
Opened(c) ==
  /\ op[c].pc = "opened" /\ op[c].kind # "create"
  /\ IF draining
     THEN CloseConn(op[c].k) /\ Fail(c) /\ UNCHANGED entries
     ELSE Register(c) /\ Goto(c, "attach")
  /\ UNCHANGED <<opening, draining, held, phase, created, stopping, closed>>

(* sessions.Attach(): thread/resume on the connection.                      *)
Attach(c) ==
  /\ op[c].pc = "attach"
  /\ IF conn[op[c].k].st = "open" THEN Goto(c, "publish") /\ UNCHANGED conn
     ELSE CloseConn(op[c].k) /\ Fail(c)
  /\ UNCHANGED <<entries, opening, draining, held, phase, created, stopping, closed>>

(* The entry is published only while the helper does not drain.             *)
MayPublishLate == TRUE                             \* mutant: publishes into a closed table
MayPublish == ~draining
Publish(c) ==
  LET t == op[c].t  k == op[c].k IN
  /\ op[c].pc = "publish"
  /\ IF MayPublish
     THEN /\ entries' = [entries EXCEPT ![t] = k]
          /\ IF op[c].kind = "create"
             THEN /\ op' = [op EXCEPT ![c].pc = "send", ![c].method = "turn/start"]
                  /\ lock' = [lock EXCEPT ![k] = c]
             ELSE op' = [op EXCEPT ![c].pc = "finish", ![c].next = "entry"] /\ UNCHANGED lock
          /\ UNCHANGED <<conn, writes, known>>
     ELSE CloseConn(k) /\ Fail(c) /\ UNCHANGED entries
  /\ UNCHANGED <<opening, draining, held, phase, created, stopping, closed>>

(* The attempt is over: whoever shared it has its entry, its error, or, if  *)
(* it may open a writer, tries again after an attempt without a connection. *)
Outcome(c, r, k) ==
  IF r = "entry" THEN [op[c] EXCEPT !.pc = "got", !.k = k, !.lead = None]
  ELSE IF r = "nil" /\ Writes(c) /\ op[c].lead # None THEN [op[c] EXCEPT !.pc = "acquire", !.lead = None]
  ELSE [op[c] EXCEPT !.pc = IF r = "nil" THEN "none" ELSE "failed", !.k = None, !.lead = None]
FinishOpeningKept(c) ==                            \* mutant: a failed attempt is not forgotten
  /\ op[c].pc = "finish"
  /\ opening' = [opening EXCEPT ![op[c].t] = IF op[c].next = "entry" THEN None ELSE @]
  /\ op' = [d \in Clients |-> IF d = c \/ op[d].lead = c THEN Outcome(d, op[c].next, op[c].k) ELSE op[d]]
  /\ UNCHANGED <<entries, draining, writes, lock, conn, held, phase, created, known, stopping, closed>>
FinishOpening(c) ==
  /\ op[c].pc = "finish"
  /\ opening' = [opening EXCEPT ![op[c].t] = IF @ = c THEN None ELSE @]
  /\ op' = [d \in Clients |-> IF d = c \/ op[d].lead = c THEN Outcome(d, op[c].next, op[c].k) ELSE op[d]]
  /\ UNCHANGED <<entries, draining, writes, lock, conn, held, phase, created, known, stopping, closed>>

(* An operation that has an error, or no connection (history, metadata).    *)
Returns(c) ==
  /\ op[c].pc \in {"failed", "none"}
  /\ Leave(c)
  /\ UNCHANGED <<entries, opening, draining, conn, held, phase, created, stopping, closed>>

-----------------------------------------------------------------------------
(* Create(): a new native task on a new connection, its provenance checked, *)
(* published, and its first turn started.                                   *)
StartTask(c) ==
  /\ op[c].pc = "opened" /\ op[c].kind = "create"
  /\ \/ /\ ~draining /\ conn[op[c].k].st = "open"
        /\ \E t \in Tasks \ created :
             /\ created' = created \cup {t}
             /\ op' = [op EXCEPT ![c].pc = "provenance", ![c].t = t]
             /\ conn' = [conn EXCEPT ![op[c].k].t = t]
        /\ UNCHANGED <<writes, lock, known>>
     \/ CloseConn(op[c].k) /\ Fail(c) /\ UNCHANGED created     \* draining, or thread/start failed
  /\ UNCHANGED <<entries, opening, draining, held, phase, stopping, closed>>
Provenance(c) ==
  /\ op[c].pc = "provenance"
  /\ \/ Register(c) /\ Goto(c, "publish")
     \/ CloseConn(op[c].k) /\ Leave(c) /\ UNCHANGED entries    \* Owns failed or denied it
  /\ UNCHANGED <<opening, draining, held, phase, created, stopping, closed>>

(* A refused settings draft, or a changed scope, ends the creation before   *)
(* its first turn.                                                          *)
DraftRefused(c) ==
  /\ op[c].pc = "send" /\ op[c].kind = "create"
  /\ CloseConn(op[c].k) /\ Leave(c)
  /\ UNCHANGED <<entries, opening, draining, held, phase, created, stopping, closed>>

-----------------------------------------------------------------------------
(* With its entry, a read or an archive makes one request; a send, a stop   *)
(* or a settings change takes the entry's operation lock first, and checks  *)
(* its binding under it.                                                    *)
Uses(c) ==
  LET k == op[c].k IN
  /\ op[c].pc = "got"
  /\ IF op[c].kind \in {"read", "archive"} THEN Leave(c)
     ELSE /\ lock[k] = None
          /\ lock' = [lock EXCEPT ![k] = c]
          /\ op' = [op EXCEPT ![c].pc = IF op[c].bind = NoBinding THEN "run" ELSE "epoch", ![c].next = "bind"]
          /\ UNCHANGED <<writes, known>>
  /\ UNCHANGED <<entries, opening, draining, conn, held, phase, created, stopping, closed>>

(* Access(): only an admitted connection is observed.                       *)
Access(c) ==
  /\ op[c].pc = "access"
  /\ IF draining \/ entries[op[c].t] = None THEN Leave(c)
     ELSE op' = [op EXCEPT ![c].pc = "epoch", ![c].k = entries[op[c].t], ![c].next = "access"]
          /\ UNCHANGED <<writes, lock, known>>
  /\ UNCHANGED <<entries, opening, draining, conn, held, phase, created, stopping, closed>>

(* taskEntryAccess(): the entry and its epoch, the native state, and the    *)
(* same entry and epoch again.                                              *)
Valid(c) == ~draining /\ entries[op[c].t] = op[c].k
ReadEpoch(c) ==
  /\ op[c].pc = "epoch"
  /\ IF Valid(c) THEN op' = [op EXCEPT ![c].pc = "snapshot", ![c].epoch = conn[op[c].k].told] /\ UNCHANGED <<writes, lock, known>>
     ELSE Leave(c)
  /\ UNCHANGED <<entries, opening, draining, conn, held, phase, created, stopping, closed>>
ReadState(c) ==
  /\ op[c].pc = "snapshot"
  /\ IF conn[op[c].k].st = "open"
     THEN op' = [op EXCEPT ![c].pc = "recheck", ![c].seen = phase[op[c].t]] /\ UNCHANGED <<writes, lock, known>>
     ELSE Leave(c)
  /\ UNCHANGED <<entries, opening, draining, conn, held, phase, created, stopping, closed>>

(* What validate() allows for a state it read.                              *)
Allowed(c) ==
  \/ op[c].method = "turn/start" /\ ~Active(op[c].seen)
  \/ op[c].method \in {"turn/steer", "turn/interrupt"} /\ Active(op[c].seen) /\ op[c].turn = op[c].seen
  \/ op[c].method = "thread/settings/update"
SameTask(c) == TRUE                                \* mutant: any binding of the task will do
SameBinding(c) == op[c].bind = Binding(op[c].k, op[c].epoch, op[c].seen)
Recheck(c) ==
  LET valid == Valid(c) /\ conn[op[c].k].told = op[c].epoch
      b == Binding(op[c].k, op[c].epoch, op[c].seen) IN
  /\ op[c].pc = "recheck"
  /\ IF valid /\ op[c].next = "access" THEN held' = [held EXCEPT ![c] = b] /\ Leave(c)
     ELSE /\ IF valid /\ SameBinding(c) /\ (op[c].next = "dispatch" => Allowed(c))
             THEN /\ op' = [op EXCEPT ![c].pc = IF op[c].next = "bind" THEN "run" ELSE "send", ![c].epoch = 0, ![c].seen = 0]
                  /\ UNCHANGED <<writes, lock, known>>
             ELSE Leave(c)
          /\ UNCHANGED held
  /\ UNCHANGED <<entries, opening, draining, conn, phase, created, stopping, closed>>

(* Send, Stop and UpdateSettings: the native state decides the method, and  *)
(* a bound request is validated once more right before it is sent.          *)
Run(c) ==
  LET n == phase[op[c].t]
      method == IF op[c].kind = "settings" THEN "thread/settings/update"
                ELSE IF op[c].kind = "stop" THEN "turn/interrupt"
                ELSE IF Active(n) THEN "turn/steer" ELSE "turn/start" IN
  /\ op[c].pc = "run"
  /\ IF conn[op[c].k].st = "open" /\ (op[c].kind = "stop" => op[c].turn = n)
     THEN op' = [op EXCEPT ![c].method = method, ![c].turn = IF op[c].kind = "stop" THEN @ ELSE n,
                           ![c].next = "dispatch", ![c].pc = IF op[c].bind = NoBinding THEN "send" ELSE "epoch"]
          /\ UNCHANGED <<writes, lock, known>>
     ELSE Leave(c)
  /\ UNCHANGED <<entries, opening, draining, conn, held, phase, created, stopping, closed>>

(* The request reaches the native task, which starts a turn only when idle  *)
(* and steers or interrupts only the turn that is named (external).         *)
Send(c) ==
  LET t == op[c].t  k == op[c].k  m == op[c].method IN
  /\ op[c].pc = "send"
  /\ phase' = IF conn[k].st = "open" /\ phase[t] < MaxPhase
                 /\ ((m = "turn/start" /\ ~Active(phase[t])) \/ (m = "turn/interrupt" /\ op[c].turn = phase[t]))
              THEN [phase EXCEPT ![t] = @ + 1] ELSE phase
  /\ Leave(c)
  /\ UNCHANGED <<entries, opening, draining, conn, held, created, stopping, closed>>

-----------------------------------------------------------------------------
(* Connections: a turn ends, its notification arrives, the transport        *)
(* closes, and its closed handler forgets the entry.                        *)
TurnEnds(t) ==
  /\ Active(phase[t]) /\ phase[t] < MaxPhase
  /\ phase' = [phase EXCEPT ![t] = @ + 1]
  /\ UNCHANGED <<entries, opening, draining, writes, lock, conn, op, held, created, known, stopping, closed>>
Notified(k) ==
  /\ conn[k].st = "open" /\ conn[k].reg /\ conn[k].told < phase[conn[k].t]
  /\ conn' = [conn EXCEPT ![k].told = @ + 1]
  /\ UNCHANGED <<entries, opening, draining, writes, lock, op, held, phase, created, known, stopping, closed>>
Lost(k) ==
  /\ conn[k].st = "open"
  /\ CloseConn(k)
  /\ UNCHANGED <<entries, opening, draining, writes, lock, op, held, phase, created, known, stopping, closed>>
ClosedHandler(k) ==
  /\ conn[k].st = "closed" /\ conn[k].reg
  /\ conn' = [conn EXCEPT ![k].st = "gone"]
  /\ entries' = IF entries[conn[k].t] = k THEN [entries EXCEPT ![conn[k].t] = None] ELSE entries
  /\ UNCHANGED <<opening, draining, writes, lock, op, held, phase, created, known, stopping, closed>>

-----------------------------------------------------------------------------
(* PrepareShutdown(): fence, refuse over pending mutations, verify the      *)
(* auxiliary native host, then Close, or lift the fence again.              *)
NothingPending == writes = 0
PrepareShutdown ==
  /\ stopping = "no" /\ ~draining
  /\ NothingPending
  /\ draining' = TRUE /\ stopping' = "verify"
  /\ UNCHANGED <<entries, opening, writes, lock, conn, op, held, phase, created, known, closed>>
NotIdle ==
  /\ stopping = "verify"
  /\ stopping' = "no" /\ draining' = FALSE
  /\ UNCHANGED <<entries, opening, writes, lock, conn, op, held, phase, created, known, closed>>

(* Close(): empty the table, close the factory and every connection of it.  *)
(* It waits for nobody: a signal, or the end of the native connection,      *)
(* closes the helper also while a PrepareShutdown verifies.                 *)
CloseAll ==
  /\ draining' = TRUE /\ closed' = TRUE
  /\ entries' = [t \in Tasks |-> None]
  /\ conn' = [k \in Conns |-> IF conn[k].st = "open" /\ \E t \in Tasks : entries[t] = k
                              THEN [conn[k] EXCEPT !.st = "closed"] ELSE conn[k]]
  /\ UNCHANGED <<opening, writes, lock, op, held, phase, created, known>>
VerifiedIdle == stopping = "verify" /\ stopping' = "prepared" /\ CloseAll
OuterClose == ~closed /\ CloseAll /\ UNCHANGED stopping

ClientStep(c) ==
  \/ Acquire(c) \/ Factory(c) \/ Opened(c) \/ Attach(c) \/ Publish(c) \/ FinishOpening(c) \/ Returns(c)
  \/ StartTask(c) \/ Provenance(c) \/ DraftRefused(c) \/ Uses(c) \/ Access(c) \/ ReadEpoch(c) \/ ReadState(c) \/ Recheck(c)
  \/ Run(c) \/ Send(c)
Next ==
  \/ \E c \in Clients : Begin(c) \/ ClientStep(c)
  \/ \E t \in Tasks : TurnEnds(t)
  \/ \E k \in Conns : Notified(k) \/ Lost(k) \/ ClosedHandler(k)
  \/ PrepareShutdown \/ NotIdle \/ VerifiedIdle \/ OuterClose

Spec == Init /\ [][Next /\ UNCHANGED calling]_<<vars, calling>>

-----------------------------------------------------------------------------
Turns == 0..MaxPhase
Bindings == [k : Conns \cup {None}, epoch : Turns, seen : Turns]
(* Types of the table, the connections and the requests.                    *)
TypeOK ==
  /\ entries \in [Tasks -> Conns \cup {None}] /\ opening \in [Tasks -> Clients \cup {None}]
  /\ draining \in BOOLEAN /\ closed \in BOOLEAN
  /\ writes = Cardinality({c \in Clients : op[c].pc # "idle" /\ op[c].kind \in Mutations})
  /\ lock \in [Conns -> Clients \cup {None}]
  /\ conn \in [Conns -> [st : {"free", "open", "closed", "gone"}, t : Tasks \cup {None},
                         reg : BOOLEAN, told : Turns]]
  /\ \A c \in Clients : op[c].kind \in Kinds /\ op[c].bind \in Bindings /\ op[c].turn \in Turns
  /\ held \in [Clients -> Bindings] /\ phase \in [Tasks -> Turns]
  /\ known \subseteq created /\ created \subseteq Tasks
  /\ stopping \in {"no", "verify", "prepared"}

(* "requires every in-flight native operation to have finished": once       *)
(* PrepareShutdown has succeeded no mutation is anywhere between its        *)
(* admission and its last native request.                                   *)
ShutdownQuiet == stopping = "prepared" => \A c \in Clients : op[c].pc # "idle" => op[c].kind \notin Mutations

(* "a shutdown can never leave a half-admitted connection in the entry      *)
(* table": after Close nothing is published, although reads that were       *)
(* opening when the helper stopped finish later.  A PrepareShutdown that    *)
(* fails after a Close lifts the fence of that Close and breaks it.         *)
NothingPublishedAfterClose == closed => \A t \in Tasks : entries[t] = None

(* The fence of a Close stands: it has run, nobody has lifted its fence,    *)
(* and no PrepareShutdown is under way that still could.                    *)
FenceStands == closed /\ draining /\ stopping # "verify"

(* Nothing is published then, and "Close ... ends every admitted            *)
(* connection": when every call has returned none is left open.             *)
FencedIsFinal ==
  FenceStands =>
    /\ \A t \in Tasks : entries[t] = None
    /\ (\A c \in Clients : op[c].pc = "idle") => \A k \in Conns : conn[k].st # "open"

(* A shutdown is final: nothing pending when it is prepared, nothing        *)
(* published and nothing left open while a fence of Close stands, whichever *)
(* openings, creations, reads and earlier closes were under way             *)
(* (newtasksessions.go:548 and :741).                                       *)
ShutdownFinal == TypeOK /\ ShutdownQuiet /\ FencedIsFinal

(* A mutation that carries an access binding reaches only the connection    *)
(* the binding was given for, and only what that access allowed: the turn   *)
(* it showed is steered or stopped, and a turn starts only if it was idle.  *)
BoundDispatch ==
  \A c \in Clients : op[c].pc = "send" /\ op[c].bind # NoBinding =>
    /\ op[c].k = op[c].bind.k
    /\ op[c].method \in {"turn/steer", "turn/interrupt"} => op[c].turn = op[c].bind.seen
    /\ op[c].method = "turn/start" => ~Active(op[c].bind.seen)

(* Nobody waits for a caller that is gone: a shared attempt belongs to a    *)
(* caller that is still opening that task, its followers wait for that very *)
(* attempt, and an entry's operation lock is held by an operation on it.    *)
WaitsOnTheLiving ==
  /\ \A t \in Tasks : opening[t] # None =>
       op[opening[t]].t = t /\ op[opening[t]].pc \in {"factory", "opened", "attach", "publish", "finish"}
  /\ \A c \in Clients : op[c].pc = "wait" => opening[op[c].t] = op[c].lead /\ op[c].lead # None
  /\ \A k \in Conns : lock[k] # None =>
       op[lock[k]].k = k /\ op[lock[k]].pc \in {"run", "epoch", "snapshot", "recheck", "send"}

(* "a lost connection drops the entry ... instead of reusing the closed     *)
(* connection": the table holds no connection whose close it has handled.   *)
LostEntryForgotten == \A t \in Tasks, k \in Conns : entries[t] = k => conn[k].st # "gone"
==============================================================================
