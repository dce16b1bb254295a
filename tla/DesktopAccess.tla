---------------------------- MODULE DesktopAccess ----------------------------
(***************************************************************************)
(* Desktop task access and control (internal/sessions): how a read, a      *)
(* status, a send, a stop, a settings change or an archive of one task     *)
(* finds out who may serve it - the Desktop client that owns the task, the *)
(* scope of created and recovered tasks, or only its history - and how a   *)
(* mutation carries the binding its client was offered to the dispatch.    *)
(*                                                                         *)
(* A request is a goroutine: every owner discovery, account check, history *)
(* read, native call and critical section of Followers.mu is one step, and *)
(* the owner, the account, the connection, the native turn, the history    *)
(* and the private executor change between them.  Module Followers has the *)
(* detail of acquiring an entry; here readState() and state() are one step.*)
(***************************************************************************)
EXTENDS Naturals, Sequences

CONSTANTS
  Requesters, \* requests
  Owners,     \* Desktop clients
  Accounts,   \* native account scopes
  Efforts,    \* values of the one setting modelled, with its fallback field
  MaxGen,     \* bound: entries created in a behaviour
  Scenarios   \* what a behaviour is about (see Scenario)

Nobody == "none"
Ops == {"access", "send", "stop", "settings", "read", "status", "archive", "rename"}
Statuses == {"active", "idle", "terminal", "unknown"}   \* terminal: notLoaded with its last turn
Changes == {"moves", "losses", "turns", "writes", "accounts", "history", "executor"}

(* jobs: <<operation, scoped>> per caller; the first owner, setting, record, *)
(* executor and history; how often each thing outside may change.           *)
Scenario == [jobs : [Requesters -> SUBSET (Ops \X BOOLEAN)], owner : Owners \cup {Nobody},
             efforts : SUBSET (Efforts \cup {Nobody}), record : {"none", "created", "recovered"},
             live : BOOLEAN, hist : SUBSET Statuses, budget : [Changes -> Nat]]
ASSUME AccessAssumption == Scenarios \subseteq Scenario

VARIABLES
  cur,      \* Followers.entries[id]: the generation of the entry, 0 when absent
  ent,      \* the followed values created so far, by generation
  seen,     \* Followers.seen[id]
  conn,     \* the IPC connection generation, 0 while disconnected
  conns,    \* connections opened so far
  lost,     \* the Disconnected callback of a lost connection has not run
  owner,    \* the Desktop client that owns the task
  log,      \* what each native revision shows and what it wrote
  account,  \* the selected native account scope
  record,   \* what the durable scope knows of the task
  exec,     \* the private executor: generation, live, in a turn
  hist,     \* the runtime that history shows, and its version
  loads,    \* persisted history reads: entry, exclusion key, state
  caller,   \* the requests
  changes   \* the jobs, and the changes left by kind

followers == <<cur, ent, seen>>
link      == <<conn, conns, lost>>
native    == <<owner, log>>
outside   == <<account, record, exec, hist>>
accessVars == <<followers, link, native, outside, loads, caller, changes>>

Default == CHOOSE e \in Efforts : TRUE
Last == Len(log)
Identity(r) == <<log[r].turn, log[r].active>>
Effective(r) == IF log[r].effort # Nobody THEN log[r].effort ELSE log[r].fallback

(* snaps: the revisions of the full snapshots received (history).           *)
NoEntry == [owner |-> Nobody, conn |-> 0, epoch |-> 0, rev |-> 0, evidence |-> 0, load |-> 0,
            snaps |-> {}]

(* desktopAccess: what was resolved, the fields sealed into its binding, and *)
(* the operations its capabilities allow.                                   *)
NoAccess == [kind |-> Nobody, scope |-> Nobody, owner |-> Nobody, g |-> 0, epoch |-> 0, conn |-> 0,
             nat |-> 0, hist |-> 0, recovery |-> FALSE, may |-> {}]

(* sealAccess(): bindings are equal when the fields under the seal are.     *)
Binding(a) == <<a.kind, a.scope, a.owner, a.g, a.epoch, a.conn, a.nat, a.hist, a.recovery>>

(* seenAt, checkedAt: the follower's revisions when the client was offered  *)
(* its binding and when the dispatch was checked; quiet: since the evidence *)
(* for the created scope was read, no Desktop client owned the task at some *)
(* moment (all three are history).                                          *)
Idle == [pc |-> "idle", op |-> Nobody, scoped |-> FALSE, ret |-> Nobody, acc |-> NoAccess,
         adm |-> NoAccess, want |-> << >>, owner |-> Nobody, g |-> 0, turn |-> 0, kind |-> Nobody,
         base |-> 0, value |-> Nobody, recovery |-> FALSE, key |-> 0, load |-> 0,
         seenAt |-> 0, checkedAt |-> 0, quiet |-> FALSE]

AccessInit ==
  \E s \in Scenarios :
    /\ cur = 0 /\ ent = << >> /\ seen = FALSE
    /\ conn = 1 /\ conns = 1 /\ lost = FALSE
    /\ owner = s.owner
    /\ \E e \in s.efforts, a \in BOOLEAN :
         log = <<[owner |-> s.owner, turn |-> 1, active |-> a /\ s.owner # Nobody, effort |-> e,
                  fallback |-> Default, wrote |-> "all"]>>
    /\ account = (CHOOSE x \in Accounts : TRUE) /\ record = s.record
    /\ exec = [gen |-> 1, live |-> s.live, active |-> FALSE]
    /\ \E h \in s.hist : hist = [status |-> h, n |-> 1]
    /\ loads = << >>
    /\ caller = [p \in Requesters |-> Idle]
    /\ changes = [jobs |-> s.jobs, left |-> s.budget]

-----------------------------------------------------------------------------
Set(p, c) == caller' = [caller EXCEPT ![p] = c]
Go(p, next) == Set(p, [caller[p] EXCEPT !.pc = next])
Fail(p) == Set(p, [Idle EXCEPT !.pc = "failed"])
GoOrFail(p, ok, next) == IF ok THEN Go(p, next) ELSE Fail(p)
At(p, at) == caller[p].pc = at
Working == \E p \in Requesters : caller[p].pc \notin {"idle", "ok", "failed"}

(* Followers.owner(): the discovery reconnects if it must; an answer that   *)
(* is not the owner of the entry ends the entry's access epoch.             *)
AskOwner ==
  /\ IF conn = 0 THEN conn' = conns + 1 /\ conns' = conns + 1 ELSE UNCHANGED <<conn, conns>>
  /\ ent' = IF cur # 0 /\ ent[cur].owner # owner THEN [ent EXCEPT ![cur].epoch = @ + 1] ELSE ent
  /\ seen' = (seen \/ owner # Nobody)
  /\ UNCHANGED <<cur, lost, native, outside, loads, changes>>

(* A remote call of the request fails, or its context ends.                 *)
Fails(p) ==
  /\ caller[p].pc \notin {"idle", "ok", "failed"} /\ Fail(p)
  /\ UNCHANGED <<followers, link, native, outside, loads, changes>>

(* DesktopSessions.created(): a task once seen on Desktop is followed in    *)
(* the scope only if it was recovered there.                                *)
Created == IF seen THEN record = "recovered" ELSE record # "none"

Recoverable(h) == h.status \in {"idle", "terminal"}

(* A request begins.  A scoped mutation is preceded by the Access() that    *)
(* offered its binding; metadata operations use the catalog binding.        *)
BeginRequest(p) ==
  \E j \in changes.jobs[p], v \in Efforts :
    /\ At(p, "idle")
    /\ j[1] # "settings" => v = Default
    /\ Set(p, [caller[p] EXCEPT !.op = j[1], !.scoped = j[2], !.value = v, !.turn = log[Last].turn,
                                !.acc = [NoAccess EXCEPT !.scope = account], !.ret = "offer",
                                !.pc = CASE j[1] \in {"read", "status"} -> "discover"
                                         [] j[1] \in {"archive", "rename"} -> "metadata"
                                         [] j[2] -> "scope"
                                         [] OTHER -> "destination"])
    /\ UNCHANGED <<followers, link, native, outside, loads, changes>>

(* readState() and Followers.state(): the entry of this owner and           *)
(* connection is shared, another one is replaced once the owner sends its   *)
(* snapshot; without one the request has no entry.                          *)
Shared(o) == cur # 0 /\ ent[cur].owner = o /\ ent[cur].conn = conn

Follow(p, o, next, without) ==
  /\ \/ Shared(o) /\ Set(p, [caller[p] EXCEPT !.pc = next, !.g = cur]) /\ UNCHANGED <<cur, ent>>
     \/ /\ ~Shared(o) /\ conn # 0 /\ owner = o /\ Len(ent) < MaxGen
        /\ ent' = Append(ent, [NoEntry EXCEPT !.owner = o, !.conn = conn, !.rev = Last,
                                              !.evidence = Last, !.snaps = {Last}])
        /\ cur' = Len(ent) + 1 /\ Set(p, [caller[p] EXCEPT !.pc = next, !.g = Len(ent) + 1])
     \/ Go(p, without) /\ UNCHANGED <<cur, ent>>
  /\ UNCHANGED <<seen, link, native, outside, loads, changes>>

-----------------------------------------------------------------------------
(* currentAccess(): the account, the owner, then one of three offers, and   *)
(* the account again.                                                       *)
ReadScope(p) ==
  /\ At(p, "scope")
  /\ Set(p, [caller[p] EXCEPT !.pc = "resolve", !.acc = [NoAccess EXCEPT !.scope = account]])
  /\ UNCHANGED <<followers, link, native, outside, loads, changes>>

Resolve(p) ==
  /\ At(p, "resolve")
  /\ Set(p, [caller[p] EXCEPT !.pc = IF owner # Nobody THEN "follow" ELSE "created",
                              !.acc = [caller[p].acc EXCEPT !.owner = owner,
                                       !.kind = IF owner # Nobody THEN "unconfirmed" ELSE "history"]])
  /\ AskOwner

FollowForAccess(p) == At(p, "follow") /\ Follow(p, caller[p].acc.owner, "entry", "confirm")

(* resolveAccess(): the entry's state, generation, epoch and connection are *)
(* read in one critical section; a connection that is no longer the current *)
(* one keeps the offer read-only.                                           *)
ProjectAccess(p) ==
  LET e == ent[caller[p].g] IN
  /\ At(p, "entry")
  /\ IF cur # caller[p].g THEN Fail(p)
     ELSE Set(p, [caller[p] EXCEPT !.pc = "confirm",
                                   !.seenAt = IF caller[p].ret = "offer" THEN e.rev ELSE caller[p].seenAt,
                                   !.acc = [caller[p].acc EXCEPT !.kind = "desktop", !.g = cur, !.epoch = e.epoch,
                                            !.conn = e.conn,
                                            !.may = IF conn # e.conn THEN {}
                                                    ELSE {"send", "settings"} \cup (IF log[e.rev].active THEN {"stop"} ELSE {})]])
  /\ UNCHANGED <<followers, link, native, outside, loads, changes>>

(* scopeAccess(): the created scope's own access, then no owner may appear. *)
CreatedAccess(p) ==
  /\ At(p, "created") /\ Go(p, IF Created THEN "native" ELSE "history")
  /\ UNCHANGED <<followers, link, native, outside, loads, changes>>

NativeAccess(p) ==
  /\ At(p, "native")
  /\ Set(p, [caller[p] EXCEPT !.pc = "recheck", !.quiet = (owner = Nobody),
                              !.acc = [caller[p].acc EXCEPT !.kind = "scope", !.nat = exec.gen,
                                       !.may = IF ~exec.live THEN {}
                                               ELSE {"send", "settings"} \cup (IF exec.active THEN {"stop"} ELSE {})]])
  /\ UNCHANGED <<followers, link, native, outside, loads, changes>>

Recheck(p) ==
  /\ At(p, "recheck")
  /\ GoOrFail(p, owner = Nobody, IF caller[p].acc.may # {} THEN "confirm" ELSE "history")
  /\ AskOwner

(* idleRecoveryAccess(): positive evidence that the task is idle, and again *)
(* no owner.                                                                *)
ReadHistory(p) ==
  /\ At(p, "history")
  /\ IF ~Recoverable(hist) THEN Go(p, "confirm")
     ELSE Set(p, [caller[p] EXCEPT !.pc = "recheck idle", !.quiet = (owner = Nobody),
                                   !.acc = [caller[p].acc EXCEPT !.hist = hist.n]])
  /\ UNCHANGED <<followers, link, native, outside, loads, changes>>

RecheckIdle(p) ==
  /\ At(p, "recheck idle")
  /\ IF owner # Nobody THEN Fail(p)
     ELSE Set(p, [caller[p] EXCEPT !.pc = "confirm",
                                   !.acc = [caller[p].acc EXCEPT !.recovery = TRUE, !.may = {"send", "settings"}]])
  /\ AskOwner

(* The resolved access is sealed and returned to what asked for it: the     *)
(* client (offer), admitAccess(), scopedDestination() and, for the created  *)
(* scope, scopedMutationContext().                                          *)
Admitted(p) == Binding(caller[p].acc) = caller[p].want
Reachable(a) == a.owner # Nobody \/ a.nat # 0 \/ a.recovery

ConfirmScope(p) ==
  LET c == caller[p] IN
  /\ At(p, "confirm")
  /\ \/ account # c.acc.scope /\ Fail(p)
     \/ /\ account = c.acc.scope /\ c.ret = "offer"
        /\ IF c.op = "access" THEN Go(p, "ok")
           ELSE Set(p, [caller[p] EXCEPT !.pc = "scope", !.ret = "admit", !.want = Binding(c.acc)])
     \/ /\ account = c.acc.scope /\ c.ret = "admit"
        /\ IF Admitted(p) THEN Set(p, [caller[p] EXCEPT !.pc = "scope", !.ret = "destination", !.adm = c.acc]) ELSE Fail(p)
     \/ /\ account = c.acc.scope /\ c.ret = "destination"
        /\ IF ~(Admitted(p) /\ Reachable(c.adm) /\ c.op \in c.adm.may) THEN Fail(p)
           ELSE IF c.adm.owner # Nobody THEN Set(p, [caller[p] EXCEPT !.pc = "control", !.owner = c.adm.owner])
           ELSE Set(p, [caller[p] EXCEPT !.pc = "scope", !.ret = "context"])
     \/ /\ account = c.acc.scope /\ c.ret = "context"
        /\ IF Admitted(p) THEN Set(p, [caller[p] EXCEPT !.pc = "created op", !.recovery = c.adm.recovery]) ELSE Fail(p)
  /\ UNCHANGED <<followers, link, native, outside, loads, changes>>

-----------------------------------------------------------------------------
(* destination() and mutationDestination() of a mutation without a binding. *)
Destination(p) ==
  /\ At(p, "destination")
  /\ Set(p, [caller[p] EXCEPT !.owner = owner,
                              !.pc = IF owner # Nobody THEN "control" ELSE IF caller[p].op = "stop" THEN "owned" ELSE "evidence"])
  /\ AskOwner

StopOwned(p) ==
  /\ At(p, "owned")
  /\ IF Created THEN Set(p, [caller[p] EXCEPT !.pc = "recheck created", !.quiet = (owner = Nobody)]) ELSE Fail(p)
  /\ UNCHANGED <<followers, link, native, outside, loads, changes>>

(* A task of the scope is read through its executor, any other in history.  *)
Runtime == IF record # "none" /\ exec.live
           THEN [status |-> IF exec.active THEN "active" ELSE "idle", n |-> 0] ELSE hist

Evidence(p) ==
  LET active == record # "none" /\ Runtime.status = "active" IN
  /\ At(p, "evidence")
  /\ IF active \/ Recoverable(Runtime)
     THEN Set(p, [caller[p] EXCEPT !.pc = "recheck created", !.recovery = ~active, !.quiet = (owner = Nobody)]) ELSE Fail(p)
  /\ UNCHANGED <<followers, link, native, outside, loads, changes>>

RecheckNever(p) == At(p, "recheck created") /\ Go(p, "created op") /\ AskOwner
RecheckCreated(p) ==
  At(p, "recheck created") /\ GoOrFail(p, owner = Nobody, "created op") /\ AskOwner

(* The mutation is handed to the created scope, which may open a writer.    *)
CreatedOp(p) ==
  /\ At(p, "created op") /\ Go(p, "ok")
  /\ record' = IF caller[p].recovery /\ record = "none" THEN "recovered" ELSE record
  /\ UNCHANGED <<followers, link, native, account, exec, hist, loads, changes>>

-----------------------------------------------------------------------------
(* controlState(): the snapshot a control mutation is based on; Send starts *)
(* or steers, Stop refuses another turn.                                    *)
Control(p) == At(p, "control") /\ Follow(p, caller[p].owner, "controlled", "failed")

Controlled(p) ==
  LET r == ent[caller[p].g].rev IN
  /\ At(p, "controlled")
  /\ IF cur # caller[p].g THEN Fail(p)
     ELSE CASE caller[p].op = "send" ->
                 Set(p, [caller[p] EXCEPT !.pc = "op owner", !.kind = IF log[r].active THEN "steer" ELSE "start"])
            [] caller[p].op = "stop" -> GoOrFail(p, Identity(r) = <<caller[p].turn, TRUE>>, "op owner")
            [] OTHER -> Go(p, "base")
  /\ UNCHANGED <<followers, link, native, outside, loads, changes>>

(* UpdateSettings() reads the revision its confirmation must be newer than. *)
Base(p) ==
  /\ At(p, "base")
  /\ IF cur = 0 \/ (cur # 0 /\ ent[cur].owner # caller[p].owner) THEN Fail(p)
     ELSE Set(p, [caller[p] EXCEPT !.pc = "op owner", !.g = cur, !.base = ent[cur].rev])
  /\ UNCHANGED <<followers, link, native, outside, loads, changes>>

(* operation() and requestOperation(): the owner, the connection, the       *)
(* account and the entry are checked one after another.                     *)
OpOwner(p) ==
  /\ At(p, "op owner")
  /\ GoOrFail(p, owner = caller[p].owner, IF caller[p].scoped THEN "op connection" ELSE "op send")
  /\ AskOwner

OpConnection(p) ==
  /\ At(p, "op connection")
  /\ GoOrFail(p, caller[p].adm.g # 0 /\ conn = caller[p].adm.conn, "op scope")
  /\ UNCHANGED <<followers, link, native, outside, loads, changes>>

OpScope(p) ==
  /\ At(p, "op scope") /\ GoOrFail(p, account = caller[p].adm.scope, "op entry")
  /\ UNCHANGED <<followers, link, native, outside, loads, changes>>

OpEntry(p) ==
  LET a == caller[p].adm IN
  /\ At(p, "op entry")
  /\ IF cur = a.g /\ ent[a.g].epoch = a.epoch THEN Set(p, [caller[p] EXCEPT !.pc = "op send", !.checkedAt = ent[a.g].rev])
     ELSE Fail(p)
  /\ UNCHANGED <<followers, link, native, outside, loads, changes>>

(* The owner handles the request (external) and answers, or the answer is   *)
(* lost.  A scoped request is sent on the connection of its binding only.   *)
Writes(new) == log' = Append(log, new)

OpSend(p) ==
  LET c == caller[p]
      settled == IF c.op = "settings" THEN "wait" ELSE "ok" IN
  /\ At(p, "op send")
  /\ \/ (owner # c.owner \/ conn = 0 \/ (c.scoped /\ conn # c.adm.conn)) /\ Fail(p) /\ UNCHANGED log
     \/ /\ owner = c.owner /\ conn # 0 /\ (c.scoped => conn = c.adm.conn)
        /\ \/ /\ c.op = "send" /\ c.kind = "start" /\ ~log[Last].active
              /\ Writes([log[Last] EXCEPT !.turn = @ + 1, !.active = TRUE, !.wrote = "nothing"])
           \/ c.op = "send" /\ c.kind = "steer" /\ log[Last].active /\ UNCHANGED log
           \/ c.op = "stop" /\ Identity(Last) = <<c.turn, TRUE>> /\ Writes([log[Last] EXCEPT !.active = FALSE, !.wrote = "nothing"])
           \/ c.op = "settings" /\ Writes([log[Last] EXCEPT !.effort = c.value, !.wrote = "effort"])
           \/ c.op = "settings" /\ log[Last].effort = c.value /\ UNCHANGED log
        /\ \/ Go(p, settled)
           \/ Fail(p)
  /\ UNCHANGED <<followers, link, owner, outside, loads, changes>>

(* waitSettings(): the same entry shows the value at a newer revision that  *)
(* carried it, and the owner is still the owner of the entry.               *)
WaitSettings(p) ==
  LET e == ent[caller[p].g] IN
  /\ At(p, "wait")
  /\ \/ cur # caller[p].g /\ Fail(p)
     \/ /\ cur = caller[p].g /\ e.rev > caller[p].base /\ e.evidence > caller[p].base
        /\ Effective(e.rev) = caller[p].value /\ Go(p, "wait owner")
  /\ UNCHANGED <<followers, link, native, outside, loads, changes>>

WaitOwner(p) ==
  At(p, "wait owner") /\ GoOrFail(p, owner = ent[caller[p].g].owner, "ok") /\ AskOwner

-----------------------------------------------------------------------------
(* Read() and rowStatus(): the owner's entry, or the created scope, or      *)
(* history (the last two end the request here).                             *)
Discover(p) ==
  /\ At(p, "discover")
  /\ Set(p, [caller[p] EXCEPT !.owner = owner, !.pc = IF owner # Nobody THEN "read" ELSE "ok"])
  /\ AskOwner

FollowForRead(p) ==
  At(p, "read") /\ Follow(p, caller[p].owner, IF caller[p].op = "read" THEN "live" ELSE "status", "ok")

RowStatus(p) ==
  /\ At(p, "status") /\ GoOrFail(p, cur = caller[p].g, "ok")
  /\ UNCHANGED <<followers, link, native, outside, loads, changes>>

(* The live turns of the snapshot are the key persisted() excludes.         *)
Live(p) ==
  /\ At(p, "live")
  /\ IF cur # caller[p].g THEN Fail(p)
     ELSE Set(p, [caller[p] EXCEPT !.pc = "persisted", !.key = log[ent[cur].rev].turn])
  /\ UNCHANGED <<followers, link, native, outside, loads, changes>>

MustWaitNever(l, key) == FALSE
MustWait(l, key) == loads[l].key # key /\ loads[l].st = "running"

(* persisted(): one history read per entry, shared by the readers of the    *)
(* same key; a reader of another key waits for the running one.             *)
Persisted(p) ==
  LET l == ent[caller[p].g].load IN
  /\ At(p, "persisted")
  /\ \/ cur # caller[p].g /\ Fail(p) /\ UNCHANGED <<ent, loads>>
     \/ /\ cur = caller[p].g /\ l # 0 /\ loads[l].key = caller[p].key
        /\ Set(p, [caller[p] EXCEPT !.pc = "load", !.load = l]) /\ UNCHANGED <<ent, loads>>
     \/ /\ cur = caller[p].g /\ l # 0 /\ MustWait(l, caller[p].key)
        /\ Set(p, [caller[p] EXCEPT !.pc = "previous", !.load = l]) /\ UNCHANGED <<ent, loads>>
     \/ /\ cur = caller[p].g
        /\ l = 0 \/ (l # 0 /\ loads[l].key # caller[p].key /\ ~MustWait(l, caller[p].key))
        /\ loads' = Append(loads, [g |-> cur, key |-> caller[p].key, st |-> "running"])
        /\ ent' = [ent EXCEPT ![cur].load = Len(loads) + 1]
        /\ Set(p, [caller[p] EXCEPT !.pc = "load", !.load = Len(loads) + 1])
  /\ UNCHANGED <<cur, seen, link, native, outside, changes>>

Previous(p) ==
  /\ At(p, "previous") /\ loads[caller[p].load].st # "running" /\ Go(p, "persisted")
  /\ UNCHANGED <<followers, link, native, outside, loads, changes>>

Loaded(p) ==
  /\ At(p, "load") /\ loads[caller[p].load].st # "running"
  /\ GoOrFail(p, loads[caller[p].load].st = "done", "merge")
  /\ UNCHANGED <<followers, link, native, outside, loads, changes>>

Merge(p) ==
  /\ At(p, "merge") /\ GoOrFail(p, cur = caller[p].g, "ok")
  /\ UNCHANGED <<followers, link, native, outside, loads, changes>>

(* The goroutine of a persisted read ends; a failed one is forgotten.       *)
LoadEnds(l, st) ==
  LET g == loads[l].g IN
  /\ loads[l].st = "running"
  /\ loads' = [loads EXCEPT ![l].st = st]
  /\ ent' = IF st = "failed" /\ ent[g].load = l THEN [ent EXCEPT ![g].load = 0] ELSE ent
  /\ UNCHANGED <<cur, seen, link, native, outside, caller, changes>>

-----------------------------------------------------------------------------
(* Archive() and Rename(): the catalog binding is the account's; the native *)
(* catalog acts, and an archive is then published and forgotten.            *)
Metadata(p) ==
  /\ At(p, "metadata")
  /\ GoOrFail(p, account = caller[p].acc.scope, IF caller[p].op = "archive" THEN "publish" ELSE "ok")
  /\ UNCHANGED <<followers, link, native, outside, loads, changes>>

PublishChange(p) ==
  /\ At(p, "publish")
  /\ \/ conn = 0 /\ Fail(p) /\ UNCHANGED <<cur, seen>>
     \/ conn # 0 /\ Go(p, "ok") /\ cur' = 0 /\ seen' = FALSE
  /\ UNCHANGED <<ent, link, native, outside, loads, changes>>

-----------------------------------------------------------------------------
(* Receive(): the next patch, or a snapshot, of the entry's own owner.  A   *)
(* turn that changes ends the access epoch; the evidence for the setting is *)
(* a snapshot, or a patch of the field its value is taken from.             *)
TurnEpochKept(e, r) == e.epoch
TurnEpoch(e, r) == IF Identity(r) # Identity(e.rev) THEN e.epoch + 1 ELSE e.epoch
CarriesEither(r) == log[r].wrote \in {"effort", "fallback"}
Carries(r) == log[r].wrote = IF log[r].effort # Nobody THEN "effort" ELSE "fallback"

Receive ==
  LET e == ent[cur] IN
  /\ Working /\ cur # 0 /\ e.conn = conn
  /\ \E r \in e.rev + 1 .. Last :
       /\ log[r].owner = e.owner
       /\ \/ /\ r = e.rev + 1
             /\ ent' = [ent EXCEPT ![cur] = [e EXCEPT !.rev = r, !.epoch = TurnEpoch(e, r),
                                             !.evidence = IF Carries(r) THEN r ELSE @]]
          \/ ent' = [ent EXCEPT ![cur] = [e EXCEPT !.rev = r, !.epoch = TurnEpoch(e, r), !.evidence = r,
                                             !.snaps = @ \cup {r}]]
  /\ UNCHANGED <<cur, seen, link, native, outside, loads, caller, changes>>

Disconnected ==
  /\ lost /\ lost' = FALSE /\ cur' = 0
  /\ UNCHANGED <<ent, seen, conn, conns, native, outside, loads, caller, changes>>

(* What changes outside (external) while a request runs, each as often as   *)
(* the scenario allows.                                                     *)
Spend(c) == Working /\ changes.left[c] > 0 /\ changes' = [changes EXCEPT !.left[c] = @ - 1]

OwnerMoves ==
  /\ Spend("moves")
  /\ \E o \in (Owners \cup {Nobody}) \ {owner} :
       /\ owner' = o
       /\ log' = IF o = Nobody THEN log ELSE Append(log, [log[Last] EXCEPT !.owner = o, !.wrote = "all"])
       /\ caller' = [p \in Requesters |-> [caller[p] EXCEPT !.quiet = @ \/ o = Nobody]]
  /\ UNCHANGED <<followers, link, outside, loads>>

Loses ==
  /\ Spend("losses") /\ conn # 0 /\ ~lost /\ conn' = 0 /\ lost' = TRUE
  /\ UNCHANGED <<followers, conns, native, outside, loads, caller>>

TurnChanges ==
  /\ Spend("turns") /\ owner # Nobody
  /\ IF log[Last].active THEN Writes([log[Last] EXCEPT !.active = FALSE, !.wrote = "nothing"])
     ELSE Writes([log[Last] EXCEPT !.turn = @ + 1, !.active = TRUE, !.wrote = "nothing"])
  /\ UNCHANGED <<followers, link, owner, outside, loads, caller>>

NativeWrites ==
  /\ Spend("writes") /\ owner # Nobody
  /\ \/ \E e \in Efforts \cup {Nobody} : Writes([log[Last] EXCEPT !.effort = e, !.wrote = "effort"])
     \/ \E f \in Efforts : Writes([log[Last] EXCEPT !.fallback = f, !.wrote = "fallback"])
     \/ Writes([log[Last] EXCEPT !.wrote = "message"])
  /\ UNCHANGED <<followers, link, owner, outside, loads, caller>>

AccountChanges ==
  /\ Spend("accounts") /\ \E a \in Accounts \ {account} : account' = a
  /\ UNCHANGED <<followers, link, native, record, exec, hist, loads, caller>>

HistoryChanges ==
  /\ Spend("history")
  /\ \E h \in Statuses \ {hist.status} : hist' = [status |-> h, n |-> hist.n + 1]
  /\ UNCHANGED <<followers, link, native, account, record, exec, loads, caller>>

ExecutorChanges ==
  /\ Spend("executor")
  /\ \/ exec.live /\ exec' = [exec EXCEPT !.active = ~@]
     \/ exec.live /\ exec' = [exec EXCEPT !.live = FALSE, !.active = FALSE, !.gen = @ + 1]
     \/ ~exec.live /\ exec' = [exec EXCEPT !.live = TRUE, !.gen = @ + 1]
  /\ UNCHANGED <<followers, link, native, account, record, hist, loads, caller>>

RequestStep(p) ==
  \/ BeginRequest(p) \/ Fails(p)
  \/ ReadScope(p) \/ Resolve(p) \/ FollowForAccess(p) \/ ProjectAccess(p) \/ CreatedAccess(p)
  \/ NativeAccess(p) \/ Recheck(p) \/ ReadHistory(p) \/ RecheckIdle(p) \/ ConfirmScope(p)
  \/ Destination(p) \/ StopOwned(p) \/ Evidence(p) \/ RecheckCreated(p) \/ CreatedOp(p)
  \/ Control(p) \/ Controlled(p) \/ Base(p) \/ OpOwner(p) \/ OpConnection(p) \/ OpScope(p)
  \/ OpEntry(p) \/ OpSend(p) \/ WaitSettings(p) \/ WaitOwner(p)
  \/ Discover(p) \/ FollowForRead(p) \/ RowStatus(p) \/ Live(p) \/ Persisted(p) \/ Previous(p)
  \/ Loaded(p) \/ Merge(p) \/ Metadata(p) \/ PublishChange(p)

AccessNext ==
  \/ \E p \in Requesters : RequestStep(p)
  \/ \E l \in DOMAIN loads, st \in {"done", "failed"} : LoadEnds(l, st)
  \/ Receive \/ Disconnected
  \/ OwnerMoves \/ Loses \/ TurnChanges \/ NativeWrites \/ AccountChanges \/ HistoryChanges
  \/ ExecutorChanges

AccessSpec == AccessInit /\ [][AccessNext]_accessVars

-----------------------------------------------------------------------------
(* A scoped mutation goes out only if the follower still shows the turn the *)
(* client was shown with its binding - through every owner, connection,     *)
(* account and entry change in between - and a send was chosen to start or  *)
(* to steer for exactly that turn (resolveAccess, requestOperation).        *)
DispatchedAsSeen ==
  \A p \in Requesters : caller[p].scoped /\ At(p, "op send") =>
    /\ Identity(caller[p].checkedAt) = Identity(caller[p].seenAt)
    /\ caller[p].op = "send" => (caller[p].kind = "steer") = log[caller[p].checkedAt].active

(* The native revision r reports the effective setting itself.              *)
Reports(r, e) == r \in e.snaps \/ log[r].wrote = "effort" \/ (log[r].wrote = "fallback" /\ log[r].effort = Nobody)

(* A settings change reported as applied was: after the revision read       *)
(* before the request, the same owner reported the effective setting itself *)
(* with the requested value, not an unrelated patch over a cached one       *)
(* (UpdateSettings, recordSettingsEvidence, waitSettings).                  *)
SettingsTrue ==
  \A p \in Requesters : caller[p].op = "settings" /\ At(p, "ok") /\ caller[p].owner # Nobody =>
    \E r \in caller[p].base + 1 .. Last :
      Reports(r, ent[caller[p].g]) /\ Effective(r) = caller[p].value /\ log[r].owner = caller[p].owner

(* Nothing is handed to the created scope for a task that a Desktop client  *)
(* has owned ever since the evidence for it was read, and a stop never      *)
(* carries the permission to recover (scopeAccess, idleRecoveryAccess,      *)
(* destination, mutationDestination).                                       *)
NoSecondWriter ==
  \A p \in Requesters : At(p, "created op") =>
    caller[p].quiet /\ (caller[p].op = "stop" => ~caller[p].recovery)

(* The readers of one entry share one running history read, and a reader    *)
(* merges only a page read with the exclusions of its own snapshot.         *)
OneSharedLoad ==
  /\ \A k, l \in DOMAIN loads : loads[k].g = loads[l].g /\ loads[k].st = "running" /\ loads[l].st = "running" => k = l
  /\ \A p \in Requesters : At(p, "merge") => loads[caller[p].load].key = caller[p].key
==============================================================================
