------------------------------ MODULE Executors ------------------------------
(***************************************************************************)
(* The processes behind Filo-owned Codex tasks and the files that tie them *)
(* together (internal/service): the factory of a user helper               *)
(* (taskexecutorfactory.go), one detached keeper process per executor      *)
(* directory (taskexecutorprocess.go), its native app server, and the      *)
(* guardian that outlives the keeper (nativeguardian.go, guardianwatch.go).*)
(*                                                                         *)
(* Processes die at any step; only files survive: the state record of an   *)
(* executor and the origin, current and recovered references of a task     *)
(* (executorstate.go, taskrecoveryscope.go).  A step is one file write,    *)
(* one process start or end, or one decision taken on what was read.  The  *)
(* fencing and the idle check inside Retire are those of TaskExecutor.     *)
(***************************************************************************)
EXTENDS Naturals, FiniteSets

CONSTANTS
  Execs,      \* executor directories (each is allocated once)
  Tasks,      \* native tasks
  Callers,    \* callers of the factory
  Capacity,   \* TaskExecutorFactoryOptions.Capacity
  MaxFaults,  \* bound on deaths, failed writes, failed launches and lost connections
  None

ASSUME ExecutorsAssumption ==
  /\ IsFiniteSet(Execs) /\ IsFiniteSet(Tasks)
  /\ Capacity \in Nat \ {0} /\ MaxFaults \in Nat
  /\ None \notin Execs \cup Tasks

VARIABLES
  \* files
  rec,        \* state.json of an executor
  origin, current, recovered,   \* references of a task
  \* the helper that runs the factory
  gen,        \* its incarnation: its process id
  caller,     \* calls in progress and the connections they joined
  \* per executor
  keeper,     \* where the keeper process stands
  mem,        \* its lifecycle record in memory
  snap,       \* records snapshotted and not yet written
  recording,  \* RecordTask's progress, in a request goroutine of the keeper
  linked,     \* the keeper's native connection is up and its endpoint serves
  retiring,   \* lifecycle.retiring
  native,     \* the native app server: alive, loaded task, turn running
  guardian,   \* the lifetime monitor: where it stands and the task it is bound to
  \* history
  begun,      \* tasks that have had a turn
  harmed,     \* Filo ended a native process whose turn ran
  faults

files   == <<rec, origin, current, recovered>>
procs   == <<keeper, mem, snap, recording, linked, retiring>>
history == <<begun, harmed>>
vars == <<files, gen, caller, procs, native, guardian, history, faults>>

Record(p, o, n, g, u, t) == [phase |-> p, owner |-> o, native |-> n, guardian |-> g, url |-> u, task |-> t]
NoRecord == Record("none", 0, FALSE, FALSE, FALSE, None)   \* owner 0 is the keeper itself
NoCall == [pc |-> "idle", kind |-> "open", task |-> None, idle |-> FALSE, e |-> None]

Init ==
  /\ rec = [e \in Execs |-> NoRecord]
  /\ origin = [t \in Tasks |-> None] /\ current = [t \in Tasks |-> None]
  /\ recovered = [t \in Tasks |-> None]
  /\ gen = 1 /\ caller = [c \in Callers |-> NoCall]
  /\ keeper = [e \in Execs |-> "none"] /\ mem = [e \in Execs |-> NoRecord]
  /\ snap = [e \in Execs |-> [request |-> NoRecord, loop |-> NoRecord]]
  /\ recording = [e \in Execs |-> "no"]
  /\ linked = [e \in Execs |-> FALSE] /\ retiring = [e \in Execs |-> FALSE]
  /\ native = [e \in Execs |-> [alive |-> FALSE, task |-> None, turn |-> FALSE]]
  /\ guardian = [e \in Execs |-> [pc |-> "none", task |-> None]]
  /\ begun \in SUBSET Tasks      \* tasks of the original Desktop, with history
  /\ harmed = FALSE /\ faults = 0

Fault == faults < MaxFaults /\ faults' = faults + 1
KeeperAlive(e) == keeper[e] \notin {"none", "dead"}

-----------------------------------------------------------------------------
(* Filo ends the native child of e.                                         *)
EndNative(e) ==
  /\ native' = [native EXCEPT ![e].alive = FALSE, ![e].turn = FALSE]
  /\ harmed' = (harmed \/ (native[e].alive /\ native[e].turn))

(* The native history that TaskSessions.open checks again before an idle    *)
(* recovery: the task exists there and no turn of it runs (external).       *)
HistoryIdle(t) == t \in begun /\ \A e \in Execs : native[e].task = t => ~native[e].turn

(* Open() and Follow(): calls for the same task share one attempt.          *)
Opening(c) == caller[c].pc \notin {"idle", "joined"}
Open(c) ==
  /\ caller[c].pc = "idle"
  /\ \/ caller' = [caller EXCEPT ![c] = [NoCall EXCEPT !.pc = "allocate", !.kind = "create"]]
     \/ \E t \in Tasks, k \in {"open", "follow"}, i \in BOOLEAN :
          /\ i => k = "open" /\ HistoryIdle(t)
          /\ k = "open" => \A d \in Callers : Opening(d) /\ caller[d].kind = "open" => caller[d].task # t
          /\ caller' = [caller EXCEPT ![c] = [NoCall EXCEPT !.pc = "existing", !.kind = k, !.task = t, !.idle = i]]
  /\ UNCHANGED <<files, gen, procs, native, guardian, history, faults>>

(* executorWriterEnded(): a published writer whose process is gone, and its *)
(* guardian with it.                                                        *)
WriterEndedUnlessReady(e) ==                                 \* mutant: a lost keeper is an ended writer
  rec[e].phase \in {"ready", "disconnected"} /\ ~KeeperAlive(e)
WriterEnded(e) ==
  /\ rec[e].phase \in {"ready", "disconnected"}
  /\ rec[e].native /\ ~native[e].alive
  /\ ~rec[e].guardian \/ guardian[e].pc \in {"none", "dead"}

(* existingFor(): from the task's references to an executor, to a           *)
(* replacement, or to a refusal.                                            *)
Reference(t) == IF current[t] # None THEN current[t]
                ELSE IF origin[t] # None THEN origin[t] ELSE recovered[t]
Existing(c) ==
  LET t == caller[c].task
      created == origin[t] # None
      owned == created \/ recovered[t] # None
      mayAllocate == caller[c].kind = "open" /\ (created \/ caller[c].idle)
      e == Reference(t)
      ended == rec[e].phase \in {"retired", "exited"} \/ (WriterEnded(e) /\ caller[c].idle)
      replaces == IF owned THEN rec[e].phase # "none" /\ rec[e].task = t /\ ended ELSE TRUE IN
  /\ caller[c].pc = "existing"
  /\ caller' = [caller EXCEPT ![c] =
       IF replaces
       THEN IF mayAllocate THEN [@ EXCEPT !.pc = "allocate"] ELSE NoCall
       ELSE IF rec[e].task = t THEN [@ EXCEPT !.pc = "connect", !.e = e] ELSE NoCall]
  /\ UNCHANGED <<files, gen, procs, native, guardian, history, faults>>

-----------------------------------------------------------------------------
(* allocate(), under the admission lock: count the live executors, then     *)
(* write the directory's files one by one and launch the keeper.            *)
Allocating == {"state", "current", "recover", "launch"}
OwnerAlive(e) == IF rec[e].owner = 0 THEN KeeperAlive(e) ELSE rec[e].owner = gen
Active(e) ==
  /\ rec[e].phase \notin {"none", "retired", "exited"}
  /\ OwnerAlive(e) \/ (rec[e].native /\ native[e].alive)
Fresh(e) == rec[e].phase = "none" /\ \A c \in Callers : caller[c].e # e

Allocate(c) ==
  /\ caller[c].pc = "allocate"
  /\ \A d \in Callers : caller[d].pc \notin Allocating
  /\ \/ /\ Cardinality({e \in Execs : Active(e)}) >= Capacity
        /\ caller' = [caller EXCEPT ![c] = NoCall]
     \/ /\ Cardinality({e \in Execs : Active(e)}) < Capacity
        /\ \E e \in Execs : Fresh(e) /\ caller' = [caller EXCEPT ![c].pc = "state", ![c].e = e]
  /\ UNCHANGED <<files, gen, procs, native, guardian, history, faults>>

SaveStarting(c) ==
  /\ caller[c].pc = "state"
  /\ rec' = [rec EXCEPT ![caller[c].e] = Record("starting", gen, FALSE, FALSE, FALSE, caller[c].task)]
  /\ caller' = [caller EXCEPT ![c].pc = IF caller[c].task = None THEN "launch" ELSE "current"]
  /\ UNCHANGED <<origin, current, recovered, gen, procs, native, guardian, history, faults>>

SaveCurrent(c) ==
  /\ caller[c].pc = "current"
  /\ current' = [current EXCEPT ![caller[c].task] = caller[c].e]
  /\ caller' = [caller EXCEPT ![c].pc = IF origin[caller[c].task] # None THEN "launch" ELSE "recover"]
  /\ UNCHANGED <<rec, origin, recovered, gen, procs, native, guardian, history, faults>>

SaveRecovered(c) ==
  /\ caller[c].pc = "recover"
  /\ recovered' = [recovered EXCEPT ![caller[c].task] = caller[c].e]
  /\ caller' = [caller EXCEPT ![c].pc = "launch"]
  /\ UNCHANGED <<rec, origin, current, gen, procs, native, guardian, history, faults>>

(* A failed write leaves the files as they are; a failed launch records it. *)
AllocationFails(c) ==
  /\ caller[c].pc \in Allocating /\ Fault
  /\ rec' = IF caller[c].pc = "launch"
            THEN [rec EXCEPT ![caller[c].e] = Record("exited", gen, FALSE, FALSE, FALSE, caller[c].task)]
            ELSE rec
  /\ caller' = [caller EXCEPT ![c] = NoCall]
  /\ UNCHANGED <<origin, current, recovered, gen, procs, native, guardian, history>>

Launch(c) ==
  /\ caller[c].pc = "launch"
  /\ keeper' = [keeper EXCEPT ![caller[c].e] = "launched"]
  /\ caller' = [caller EXCEPT ![c].pc = "connect"]
  /\ UNCHANGED <<files, gen, mem, snap, recording, linked, retiring, native, guardian, history, faults>>

(* connect(): joins a published endpoint of the expected task, or gives up: *)
(* on an ended record, a dead keeper or its deadline.                       *)
Connect(c) ==
  LET e == caller[c].e IN
  /\ caller[c].pc = "connect"
  /\ \/ /\ rec[e].phase = "ready" /\ rec[e].url /\ KeeperAlive(e) /\ linked[e]
        /\ caller[c].task \in {None, rec[e].task}
        /\ caller' = [caller EXCEPT ![c].pc = "joined"]
     \/ caller' = [caller EXCEPT ![c] = NoCall]
  /\ UNCHANGED <<files, gen, procs, native, guardian, history, faults>>

Leave(c) ==
  /\ caller[c].pc = "joined"
  /\ caller' = [caller EXCEPT ![c] = NoCall]
  /\ UNCHANGED <<files, gen, procs, native, guardian, history, faults>>

(* The helper dies, or is replaced, with every call and connection it has.  *)
HelperDies ==
  /\ Fault
  /\ gen' = gen + 1
  /\ caller' = [c \in Callers |-> NoCall]
  /\ UNCHANGED <<files, procs, native, guardian, history>>

-----------------------------------------------------------------------------
(* RunTaskExecutorWith(): claim, record, native child, its identity, its    *)
(* guardian, and only then the endpoint.                                    *)
Save(e, r) == rec' = [rec EXCEPT ![e] = r]
KeeperDies(e) == keeper' = [keeper EXCEPT ![e] = "dead"]

KeeperClaims(e) ==
  /\ keeper[e] = "launched"
  /\ mem' = [mem EXCEPT ![e] = Record("starting", 0, FALSE, FALSE, FALSE, rec[e].task)]
  /\ Save(e, mem'[e])
  /\ keeper' = [keeper EXCEPT ![e] = "claimed"]
  /\ UNCHANGED <<origin, current, recovered, gen, caller, snap, recording, linked, retiring, native,
                 guardian, history, faults>>

KeeperSpawns(e) ==
  /\ keeper[e] = "claimed"
  /\ native' = [native EXCEPT ![e].alive = TRUE]
  /\ keeper' = [keeper EXCEPT ![e] = "spawned"]
  /\ UNCHANGED <<files, gen, caller, mem, snap, recording, linked, retiring, guardian, history, faults>>

KeeperRecordsNative(e) ==
  /\ keeper[e] = "spawned"
  /\ mem' = [mem EXCEPT ![e].native = TRUE]
  /\ \/ /\ Save(e, mem'[e]) /\ keeper' = [keeper EXCEPT ![e] = "recorded"]
        /\ UNCHANGED <<native, harmed, faults>>
     \/ Fault /\ EndNative(e) /\ KeeperDies(e) /\ UNCHANGED rec
  /\ UNCHANGED <<origin, current, recovered, gen, caller, snap, recording, linked, retiring,
                 guardian, begun>>

(* StartNativeGuardian() returns when the guardian watches; it is bound at  *)
(* once to a task the record already names.                                 *)
StartNativeGuardian(e) ==
  /\ native[e].alive
  /\ guardian' = [guardian EXCEPT ![e] = [pc |-> "watching", task |-> rec[e].task]]
KeeperGuards(e) ==
  /\ keeper[e] = "recorded"
  /\ \/ /\ StartNativeGuardian(e)
        /\ mem' = [mem EXCEPT ![e].guardian = TRUE]
        /\ Save(e, mem'[e])
        /\ keeper' = [keeper EXCEPT ![e] = "attempt"]
        /\ UNCHANGED <<native, harmed, faults>>
     \/ /\ IF native[e].alive THEN Fault ELSE UNCHANGED faults
        /\ EndNative(e) /\ KeeperDies(e)
        /\ mem' = [mem EXCEPT ![e].phase = "exited"]
        /\ Save(e, mem'[e])
        /\ UNCHANGED guardian
  /\ UNCHANGED <<origin, current, recovered, gen, caller, snap, recording, linked, retiring, begun>>

(* attempt(): publish the endpoint of a connected executor; on failure mark *)
(* the record and try again, until the startup deadline.                    *)
Publish(e) ==
  /\ keeper[e] = "attempt" /\ native[e].alive
  /\ linked' = [linked EXCEPT ![e] = TRUE]
  /\ mem' = [mem EXCEPT ![e].phase = "ready", ![e].url = TRUE]
  /\ Save(e, mem'[e])
  /\ keeper' = [keeper EXCEPT ![e] = "serving"]
  /\ UNCHANGED <<origin, current, recovered, gen, caller, snap, recording, retiring, native, guardian,
                 history, faults>>

AttemptFails(e) ==
  /\ keeper[e] = "attempt" /\ native[e].alive /\ Fault
  /\ \/ /\ mem' = [mem EXCEPT ![e].phase = "disconnected", ![e].url = FALSE]
        /\ Save(e, mem'[e])
        /\ UNCHANGED <<keeper, native, harmed>>
     \/ EndNative(e) /\ KeeperDies(e) /\ UNCHANGED <<rec, mem>>
  /\ UNCHANGED <<origin, current, recovered, gen, caller, snap, recording, linked, retiring, guardian, begun>>

(* Rpc.SetClosedHandler() has one slot: attempt() installs the handler that *)
(* makes it return, then NewTaskExecutor() installs Disconnect over it.     *)
SetClosedHandler(slot, handler) == handler
ClosedHandler == SetClosedHandler(SetClosedHandler("none", "attempt"), "Disconnect")

(* The connection to the native process breaks.  Disconnect closes the      *)
(* endpoint and its clients.  Only attempt's own handler would make it      *)
(* return and mark the record before the next attempt.                      *)
LinkBreaks(e) ==
  /\ linked[e] /\ KeeperAlive(e) /\ Fault
  /\ linked' = [linked EXCEPT ![e] = FALSE]
  /\ caller' = [c \in Callers |-> IF caller[c].e = e /\ caller[c].pc = "joined" THEN NoCall ELSE caller[c]]
  /\ IF ClosedHandler = "attempt" /\ native[e].alive /\ keeper[e] = "serving"
     THEN /\ mem' = [mem EXCEPT ![e].phase = "disconnected", ![e].url = FALSE]
          /\ Save(e, mem'[e]) /\ keeper' = [keeper EXCEPT ![e] = "attempt"]
     ELSE UNCHANGED <<rec, mem, keeper>>
  /\ UNCHANGED <<origin, current, recovered, gen, snap, recording, retiring, native, guardian, history>>

(* The retirement of TaskExecutor: no request in flight, verified idle.     *)
Retire(e) ==
  /\ keeper[e] = "serving" /\ linked[e] /\ ~retiring[e]
  /\ recording[e] = "no" /\ ~native[e].turn
  /\ retiring' = [retiring EXCEPT ![e] = TRUE]
  /\ linked' = [linked EXCEPT ![e] = FALSE]
  /\ caller' = [c \in Callers |-> IF caller[c].e = e /\ caller[c].pc = "joined" THEN NoCall ELSE caller[c]]
  /\ UNCHANGED <<files, gen, keeper, mem, snap, recording, native, guardian, history, faults>>

KeeperReleases(e) ==
  /\ keeper[e] = "serving" /\ retiring[e] /\ native[e].alive
  /\ EndNative(e)
  /\ UNCHANGED <<files, gen, caller, procs, guardian, begun, faults>>

(* The native child is gone: the final record is snapshotted, written, and  *)
(* the keeper process ends.                                                 *)
KeeperEndsUnwaited(e) ==                                     \* mutant: a retired child is not waited for
  /\ keeper[e] \in {"attempt", "serving"} /\ (retiring[e] \/ ~native[e].alive)
  /\ mem' = [mem EXCEPT ![e].phase = IF retiring[e] THEN "retired" ELSE "exited", ![e].url = FALSE]
  /\ snap' = [snap EXCEPT ![e].loop = mem'[e]]
  /\ keeper' = [keeper EXCEPT ![e] = "ending"]
  /\ UNCHANGED <<files, gen, caller, recording, linked, retiring, native, guardian, history, faults>>
KeeperEnds(e) ==
  /\ keeper[e] \in {"attempt", "serving"} /\ ~native[e].alive
  /\ mem' = [mem EXCEPT ![e].phase = IF retiring[e] THEN "retired" ELSE "exited", ![e].url = FALSE]
  /\ snap' = [snap EXCEPT ![e].loop = mem'[e]]
  /\ keeper' = [keeper EXCEPT ![e] = "ending"]
  /\ UNCHANGED <<files, gen, caller, recording, linked, retiring, native, guardian, history, faults>>

KeeperSavesEnd(e) ==
  /\ keeper[e] = "ending"
  /\ Save(e, snap[e].loop)
  /\ keeper' = [keeper EXCEPT ![e] = "ended"]
  /\ UNCHANGED <<origin, current, recovered, gen, caller, mem, snap, recording, linked, retiring, native,
                 guardian, history, faults>>

KeeperExits(e) ==
  /\ \/ keeper[e] = "ended" /\ UNCHANGED faults
     \/ KeeperAlive(e) /\ Fault   \* it is killed, or cannot go on
  /\ KeeperDies(e)
  /\ linked' = [linked EXCEPT ![e] = FALSE]
  /\ recording' = [recording EXCEPT ![e] = "no"]
  /\ caller' = [c \in Callers |-> IF caller[c].e = e /\ caller[c].pc = "joined" THEN NoCall ELSE caller[c]]
  /\ UNCHANGED <<files, gen, mem, snap, retiring, native, guardian, history>>

-----------------------------------------------------------------------------
(* What a joined client does through the executor.  Create: thread/start    *)
(* loads a new task and RecordTask makes it durable, in a request goroutine *)
(* of the keeper.                                                           *)
CreateTask(c) ==
  LET e == caller[c].e IN
  /\ caller[c].pc = "joined" /\ caller[c].kind = "create" /\ linked[e] /\ ~retiring[e]
  /\ native[e].alive /\ native[e].task = None /\ recording[e] = "no" /\ mem[e].task = None
  /\ \E t \in Tasks \ begun :
       /\ \A f \in Execs : native[f].task # t /\ mem[f].task # t
       /\ native' = [native EXCEPT ![e].task = t]
  /\ recording' = [recording EXCEPT ![e] = "mutate"]
  /\ UNCHANGED <<files, gen, caller, keeper, mem, snap, linked, retiring, guardian, history, faults>>

(* RecordTask: the record in memory and on disk, the origin of the task,    *)
(* the guardian's binding.                                                  *)
RecordMutates(e) ==
  /\ recording[e] = "mutate"
  /\ mem' = [mem EXCEPT ![e].task = native[e].task]
  /\ snap' = [snap EXCEPT ![e].request = mem'[e]]
  /\ recording' = [recording EXCEPT ![e] = "save"]
  /\ UNCHANGED <<files, gen, caller, keeper, linked, retiring, native, guardian, history, faults>>
RecordSaves(e) ==
  /\ recording[e] = "save"
  /\ Save(e, snap[e].request)
  /\ recording' = [recording EXCEPT ![e] = "origin"]
  /\ UNCHANGED <<origin, current, recovered, gen, caller, keeper, mem, snap, linked, retiring, native,
                 guardian, history, faults>>
RecordOrigin(e) ==
  /\ recording[e] = "origin"
  /\ origin' = [origin EXCEPT ![native[e].task] = e]
  /\ recording' = [recording EXCEPT ![e] = "bind"]
  /\ UNCHANGED <<rec, current, recovered, gen, caller, keeper, mem, snap, linked, retiring, native,
                 guardian, history, faults>>
RecordBinds(e) ==
  /\ recording[e] = "bind" /\ guardian[e] = [pc |-> "watching", task |-> native[e].task]
  /\ recording' = [recording EXCEPT ![e] = "no"]
  /\ UNCHANGED <<files, gen, caller, keeper, mem, snap, linked, retiring, native, guardian, history, faults>>
(* A write or the binding fails: the client is told and leaves.             *)
RecordFails(e) ==
  /\ recording[e] # "no" /\ Fault
  /\ recording' = [recording EXCEPT ![e] = "no"]
  /\ caller' = [c \in Callers |->
       IF caller[c].e = e /\ caller[c].pc = "joined" /\ caller[c].kind = "create" THEN NoCall ELSE caller[c]]
  /\ UNCHANGED <<files, gen, keeper, mem, snap, linked, retiring, native, guardian, history>>

(* A turn: the executor refuses it without a live guardian, and a follower  *)
(* never sends one.  Resuming an admitted task loads it.                    *)
StartTurn(c) ==
  LET e == caller[c].e IN
  /\ caller[c].pc = "joined" /\ caller[c].kind \in {"create", "open"}
  /\ caller[c].kind = "create" => recording[e] = "no"
  /\ linked[e] /\ ~retiring[e] /\ native[e].alive /\ ~native[e].turn
  /\ guardian[e].pc = "watching"
  /\ \E t \in Tasks :
       /\ t = mem[e].task
       /\ native' = [native EXCEPT ![e].task = t, ![e].turn = TRUE]
       /\ begun' = begun \cup {t}
  /\ UNCHANGED <<files, gen, caller, procs, guardian, harmed, faults>>

(* The native process (external): its turn ends, or it goes away by itself. *)
TurnEnds(e) ==
  /\ native[e].turn
  /\ native' = [native EXCEPT ![e].turn = FALSE]
  /\ UNCHANGED <<files, gen, caller, procs, guardian, history, faults>>
NativeDies(e) ==
  /\ native[e].alive /\ Fault
  /\ native' = [native EXCEPT ![e].alive = FALSE, ![e].turn = FALSE]
  /\ UNCHANGED <<files, gen, caller, procs, guardian, history>>

-----------------------------------------------------------------------------
(* guardianWatch.step(): bind to the recorded task while the keeper lives,  *)
(* to the loaded one after it died; read the task's status; release the     *)
(* native process only then, and record it.                                 *)
GuardianBindsRecorded(e) ==                                  \* mutant: knows only a recorded task
  /\ guardian[e].pc = "watching" /\ native[e].alive /\ guardian[e].task = None
  /\ guardian' = [guardian EXCEPT ![e].task = rec[e].task]
  /\ guardian'[e].task # None
  /\ UNCHANGED <<files, gen, caller, procs, native, history, faults>>
GuardianBinds(e) ==
  /\ guardian[e].pc = "watching" /\ native[e].alive /\ guardian[e].task = None
  /\ guardian' = [guardian EXCEPT ![e].task = IF KeeperAlive(e) THEN rec[e].task ELSE native[e].task]
  /\ guardian'[e].task # None
  /\ UNCHANGED <<files, gen, caller, procs, native, history, faults>>
MayReleaseUnread(e) == ~KeeperAlive(e)                       \* mutant: does not read the task's status
MayRelease(e) == ~KeeperAlive(e) /\ ~native[e].turn
GuardianReads(e) ==
  /\ guardian[e].pc = "watching" /\ native[e].alive
  /\ guardian[e].task = native[e].task \/ native[e].task = None
  /\ MayRelease(e)
  /\ guardian' = [guardian EXCEPT ![e].pc = "releasing"]
  /\ UNCHANGED <<files, gen, caller, procs, native, history, faults>>
GuardianReleases(e) ==
  /\ guardian[e].pc = "releasing"
  /\ EndNative(e)
  /\ guardian' = [guardian EXCEPT ![e].pc = "saving"]
  /\ UNCHANGED <<files, gen, caller, procs, begun, faults>>
GuardianSaves(e) ==
  /\ guardian[e].pc = "saving"
  /\ Save(e, Record("retired", 0, TRUE, FALSE, FALSE, guardian[e].task))
  /\ guardian' = [guardian EXCEPT ![e].pc = "dead"]
  /\ UNCHANGED <<origin, current, recovered, gen, caller, procs, native, history, faults>>
GuardianExits(e) ==
  /\ \/ guardian[e].pc = "watching" /\ ~native[e].alive /\ UNCHANGED faults
     \/ guardian[e].pc \notin {"none", "dead"} /\ Fault
  /\ guardian' = [guardian EXCEPT ![e].pc = "dead"]
  /\ UNCHANGED <<files, gen, caller, procs, native, history>>

-----------------------------------------------------------------------------
FactoryStep(c) ==
  \/ Existing(c) \/ Allocate(c) \/ SaveStarting(c) \/ SaveCurrent(c) \/ SaveRecovered(c) \/ Launch(c)
  \/ Connect(c)
KeeperStep(e) ==
  \/ KeeperClaims(e) \/ KeeperSpawns(e) \/ KeeperRecordsNative(e) \/ KeeperGuards(e) \/ Publish(e)
  \/ KeeperReleases(e) \/ KeeperEnds(e) \/ KeeperSavesEnd(e) \/ (keeper[e] = "ended" /\ KeeperExits(e))
RecordStep(e) == RecordMutates(e) \/ RecordSaves(e) \/ RecordOrigin(e) \/ RecordBinds(e)
GuardianStep(e) ==
  \/ GuardianBinds(e) \/ GuardianReads(e) \/ GuardianReleases(e) \/ GuardianSaves(e)
  \/ (guardian[e].pc = "watching" /\ ~native[e].alive /\ GuardianExits(e))

Next ==
  \/ \E c \in Callers : \/ Open(c) \/ FactoryStep(c) \/ AllocationFails(c) \/ Leave(c)
                        \/ CreateTask(c) \/ StartTurn(c)
  \/ HelperDies
  \/ \E e \in Execs : \/ KeeperStep(e) \/ KeeperExits(e) \/ AttemptFails(e) \/ LinkBreaks(e) \/ Retire(e)
                      \/ RecordStep(e) \/ RecordFails(e) \/ TurnEnds(e) \/ NativeDies(e)
                      \/ GuardianStep(e) \/ GuardianExits(e)

Spec == Init /\ [][Next]_vars

(* Started processes run and turns end.  Nothing obliges a client to call   *)
(* or a fault to happen.                                                    *)
Fairness ==
  /\ \A c \in Callers : WF_vars(FactoryStep(c))
  /\ \A e \in Execs : /\ WF_vars(KeeperStep(e)) /\ WF_vars(RecordStep(e))
                      /\ WF_vars(GuardianStep(e)) /\ WF_vars(TurnEnds(e))
FairSpec == Spec /\ Fairness

-----------------------------------------------------------------------------
Phases == {"none", "starting", "ready", "disconnected", "retired", "exited"}
Records == [phase : Phases, owner : Nat, native : BOOLEAN, guardian : BOOLEAN, url : BOOLEAN,
            task : Tasks \cup {None}]
FilesTyped ==
  /\ rec \in [Execs -> Records]
  /\ origin \in [Tasks -> Execs \cup {None}] /\ current \in [Tasks -> Execs \cup {None}]
  /\ recovered \in [Tasks -> Execs \cup {None}]
CallersTyped ==
  /\ gen \in Nat /\ faults \in 0..MaxFaults /\ begun \subseteq Tasks /\ harmed \in BOOLEAN
  /\ caller \in [Callers -> [pc : {"idle", "existing", "allocate", "connect", "joined"} \cup Allocating,
                             kind : {"create", "open", "follow"}, task : Tasks \cup {None},
                             idle : BOOLEAN, e : Execs \cup {None}]]
KeepersTyped ==
  /\ keeper \in [Execs -> {"none", "launched", "claimed", "spawned", "recorded", "attempt", "serving",
                           "ending", "ended", "dead"}]
  /\ mem \in [Execs -> Records] /\ snap \in [Execs -> [request : Records, loop : Records]]
  /\ recording \in [Execs -> {"no", "mutate", "save", "origin", "bind"}]
  /\ linked \in [Execs -> BOOLEAN] /\ retiring \in [Execs -> BOOLEAN]
NativesTyped ==
  /\ native \in [Execs -> [alive : BOOLEAN, task : Tasks \cup {None}, turn : BOOLEAN]]
  /\ guardian \in [Execs -> [pc : {"none", "watching", "releasing", "saving", "dead"},
                             task : Tasks \cup {None}]]
(* Types of the records, the processes and the callers; a published record  *)
(* is complete (ParseExecutorState).                                        *)
TypeOK ==
  /\ FilesTyped /\ CallersTyped /\ KeepersTyped /\ NativesTyped
  /\ \A e \in Execs : rec[e].phase = "ready" => rec[e].url /\ rec[e].native

(* No task ever has two native writers: an executor that could still write  *)
(* a task is never replaced, whatever died, was lost, or failed to be       *)
(* written on the way.                                                      *)
Writes(e, t) == native[e].alive /\ native[e].task = t
SingleWriter == \A t \in Tasks, e, f \in Execs : Writes(e, t) /\ Writes(f, t) => e = f

(* A record that says an executor ended is true: its native process is gone *)
(* and no keeper will start another.                                        *)
EndedRecordTrue ==
  \A e \in Execs : rec[e].phase \in {"retired", "exited"} =>
    ~native[e].alive /\ keeper[e] \notin {"launched", "claimed"}

(* "step never releases a process while the keeper is alive, native state   *)
(* is unknown, or a native turn remains active": Filo ends no native        *)
(* process whose turn runs, from the startup failures to the guardian.      *)
NoTurnKilled == ~harmed

(* A task that took a turn in one of Filo's executors is found again: the   *)
(* references existingFor() follows lead to a record that names it, however *)
(* the request goroutine of RecordTask, the keeper's loop and the guardian  *)
(* order their writes of that record, and whichever of them dies.           *)
TurnTaskFound ==
  \A t \in Tasks, e \in Execs :
    Reference(t) = e /\ t \in begun /\ (\E f \in Execs : native[f].task = t) => rec[e].task = t

(* The durable records can be relied on after any death: an ended record    *)
(* means that nothing runs, and the record a task's references lead to      *)
(* names the task (taskexecutorfactory.go:330 and :409).                    *)
RecordsTrue == TypeOK /\ EndedRecordTrue /\ TurnTaskFound

(* A native process whose keeper is gone is released once its turn is over, *)
(* by the guardian that watches it, even when the keeper died before it had *)
(* recorded the task that the process had loaded.                           *)
OrphanReleased ==
  \A e \in Execs : keeper[e] = "dead" /\ guardian[e].pc = "watching" ~> ~native[e].alive \/ guardian[e].pc = "dead"
==============================================================================
