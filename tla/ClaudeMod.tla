------------------------------ MODULE ClaudeMod ------------------------------
(***************************************************************************)
(* The Claude Mod (internal/claude/mod/hooks) composed with the helper it  *)
(* reports to (module ClaudeBridge): the pump that registers, pulls one    *)
(* command, carries it out in the native session and pushes the events it  *)
(* observed; the hooks of the native session; and the one HTTP exchange    *)
(* the Mod keeps, which can be abandoned, fail, or be answered late.       *)
(*                                                                         *)
(* clearLocal() counts a generation and the turn hooks count a revision,   *)
(* only to discard what was begun before: here the pending observations    *)
(* are dropped and a running pump is marked stale at that moment.          *)
(***************************************************************************)
EXTENDS ClaudeBridge, TLC

CONSTANTS
  MaxEvents,   \* MAX_EVENTS: events the Mod queues
  MaxBatch     \* events in one push

Kinds == {"pump", "fault", "repeat", "life", "expire", "turn", "typed", "step", "block", "bad",
          "title", "sync", "scope", "context", "late"}

(* jobs: what each caller asks for; left: how often each thing may happen.  *)
Ops == {"none", "send", "stop", "settings", "rename"}
Scenario == [jobs : [Callers -> [op : Ops, client : Clients]], left : [Kinds -> Nat]]

ASSUME ClaudeModAssumption ==
  /\ MaxEvents \in Nat /\ MaxBatch \in Nat \ {0} /\ Scenarios \subseteq Scenario

VARIABLES
  mod,      \* the Mod's state record, and where its pump is
  obs,      \* observations begun by hooks that have not finished
  wire,     \* the physical HTTP exchange
  native,   \* the native session
  reader,   \* refreshTitle(): the title read from the native store
  left      \* what may still happen, by kind

vars == <<scn, bridge, scope, mapping, mod, obs, wire, native, reader, left>>
outside == <<scn, scope, mapping, reader>>

NoWire == [kind |-> "none", nonce |-> 0, stage |-> "none", to |-> "nobody", body |-> 0, seq |-> 0, reply |-> 0]
No == -1
NoNext == [cmd |-> 0, after |-> 0]

(* start: nativeStart; early: pendingStart; mark: commandID; watch:         *)
(* inputObservation; next: nextSettings.  minted and lost count the events  *)
(* of this binding (history).                                               *)
Unbound == [nonce |-> 0, seq |-> 0, queue |-> <<>>, inflight |-> 0, dropped |-> FALSE, turn |-> 0,
            start |-> 0, early |-> 0, mark |-> 0, watch |-> 0, next |-> NoNext, block |-> 0,
            minted |-> 0, lost |-> {}]

(* taken: commands carried out, with the turn; ran: requests, with the      *)
(* settings command in force and the effort; store: the title on disk.      *)
Session == [turn |-> 0, turns |-> 0, ended |-> {}, aborted |-> {}, waiting |-> <<>>, ran |-> {},
            title |-> 0, store |-> 0]

Init ==
  /\ scn \in Scenarios
  /\ BridgeInit
  /\ mod = [inst |-> 1, pc |-> "idle", stale |-> FALSE, cmd |-> 0, ended |-> FALSE] @@ Unbound
  /\ obs = {} /\ wire = NoWire /\ native = Session
  /\ reader = [pc |-> "idle", nonce |-> 0, val |-> 0]
  /\ left = scn.left

Spend(k) == left[k] > 0 /\ left' = [left EXCEPT ![k] = @ - 1]

Set(m, f) == f @@ m

(* clearLocal(): everything of this binding goes, and what was begun under  *)
(* it finds a later generation.                                             *)
Clear(m) == Set(m, Unbound)
ClearRunning(m) == Set(Clear(m), [stale |-> m.pc # "idle"])
Stopped(m) == Set(m, [pc |-> "idle", stale |-> FALSE, cmd |-> 0, inflight |-> 0])

(* pump()'s catch: only if nobody else cleared since.                       *)
Throw(m) == IF m.stale THEN Stopped(m) ELSE Stopped(Clear(m))

-----------------------------------------------------------------------------
(* Events.                                                                  *)

Event(k, f) == f @@ [k |-> k, turn |-> 0, cmd |-> 0, text |-> "none", val |-> 0, effort |-> "none",
                     fault |-> "none", id |-> 0]

(* Mutant: also an event of the batch being sent is replaced.               *)
CoalescedAnywhere(m, e) ==
  IF e.k = "block" THEN {i \in DOMAIN m.queue : m.queue[i].k = "block" /\ m.queue[i].turn = e.turn} ELSE {}

(* A block replaces the queued state of the same block, unless that one is  *)
(* in the batch being sent.                                                 *)
Coalesced(m, e) ==
  LET same == {i \in DOMAIN m.queue : i > m.inflight /\ m.queue[i].k = "block" /\ m.queue[i].turn = e.turn}
  IN IF e.k = "block" THEN same ELSE {}

Enqueue(m, e) ==
  LET at == Coalesced(m, e)
      n == m.minted + 1 IN
  IF m.nonce = 0 THEN m
  ELSE IF at # {} THEN
    LET i == CHOOSE j \in at : \A k \in at : k <= j IN
      Set(m, [queue |-> [m.queue EXCEPT ![i] = [e EXCEPT !.id = m.queue[i].id]]])
  ELSE IF Len(m.queue) >= MaxEvents THEN Set(m, [minted |-> n, dropped |-> TRUE, lost |-> m.lost \cup {n}])
  ELSE Set(m, [minted |-> n, queue |-> Append(m.queue, [e EXCEPT !.id = n])])

(* observedInput(): the first native text equal to the input's is taken for it. *)
Labelled(m, e) ==
  IF m.watch # 0 /\ e.text = "input" THEN [e EXCEPT !.cmd = m.watch] ELSE e
EnqueueInput(m, e) ==
  Set(Enqueue(m, Labelled(m, e)), [watch |-> IF Labelled(m, e).cmd # 0 THEN 0 ELSE m.watch])

-----------------------------------------------------------------------------
(* The exchange.  post() refuses a second one while one is alive.           *)

Post(m, kind, nonce, body, seq, pc) ==
  IF wire.stage # "none"
  THEN mod' = Throw(m) /\ UNCHANGED wire
  ELSE /\ wire' = [NoWire EXCEPT !.kind = kind, !.nonce = nonce, !.stage = "sent", !.to = "pump",
                                 !.body = body, !.seq = seq]
       /\ mod' = Set(m, [pc |-> pc])

Answer(r) == wire' = [wire EXCEPT !.stage = "answered", !.reply = r]
Sent(kind) == wire.kind = kind /\ wire.stage = "sent"
Answered(kind) == wire.kind = kind /\ wire.stage = "answered" /\ wire.to = "pump"
Known == reg.nonce # 0 /\ reg.nonce = wire.nonce

(* The helper serves the request; No is any status but 200.                 *)
ServeRegister ==
  /\ Sent("register")
  /\ IF MayRegister(wire.body)
     THEN LET n == wire.seq IN Register(n, wire.body) /\ Answer(n)
     ELSE Answer(No) /\ UNCHANGED <<reg, cmds>>
  /\ UNCHANGED <<caller, mod, obs, native, left, outside>>

ServePull ==
  /\ Sent("pull")
  /\ IF Known THEN wire' = [wire EXCEPT !.stage = "validating", !.body = reg.pend, !.reply = IF scope THEN 0 ELSE No]
     ELSE Answer(No)
  /\ UNCHANGED <<bridge, mod, obs, native, left, outside>>

ServeCommand ==
  LET c == wire.body IN
  /\ wire.kind = "pull" /\ wire.stage = "validating"
  /\ IF ~Known THEN Answer(No) /\ UNCHANGED cmds
     ELSE IF Deliverable(c, wire.reply # No)
     THEN Answer(c) /\ cmds' = [cmds EXCEPT ![c].given = Given(c)]
     ELSE Answer(0) /\ UNCHANGED cmds
  /\ UNCHANGED <<reg, caller, mod, obs, native, left, outside>>

ServeResult ==
  /\ Sent("result")
  /\ IF Known /\ MatchesCommand(wire.body.cmd, wire.body.res)
     THEN CommandResult(wire.body.cmd, wire.body.res, wire.body.title) /\ Answer(0)
     ELSE Answer(No) /\ UNCHANGED <<reg, cmds>>
  /\ UNCHANGED <<caller, mod, obs, native, left, outside>>

ServePush ==
  /\ Sent("push")
  /\ IF Known /\ PushVerdict(wire.body, wire.seq) # "refused"
     THEN Push(wire.body, wire.seq) /\ Answer(0)
     ELSE Answer(No) /\ UNCHANGED <<reg, cmds>>
  /\ UNCHANGED <<caller, mod, obs, native, left, outside>>

ServeRevoke ==
  /\ Sent("revoke")
  /\ IF Known THEN Forget ELSE UNCHANGED <<reg, cmds>>
  /\ Answer(0)
  /\ UNCHANGED <<caller, mod, obs, native, left, outside>>

(* The transport repeats a push whose answer it did not see.                *)
Repeat ==
  /\ wire.kind = "push" /\ wire.stage = "answered" /\ Spend("repeat")
  /\ wire' = [wire EXCEPT !.stage = "sent"]
  /\ UNCHANGED <<bridge, mod, obs, native, outside>>

(* BRIDGE_TIMEOUT_MS: the pump goes on, the physical exchange does not end. *)
Timeout ==
  /\ wire.to = "pump" /\ Spend("fault")
  /\ wire' = [wire EXCEPT !.to = "nobody"]
  /\ mod' = Throw(mod) /\ obs' = IF mod.stale THEN obs ELSE {}
  /\ UNCHANGED <<bridge, native, outside>>

(* The exchange fails before the helper has it, or after.                   *)
WireFails ==
  /\ wire.stage # "none" /\ Spend("fault")
  /\ wire' = NoWire
  /\ IF wire.to = "pump" THEN mod' = Throw(mod) /\ obs' = IF mod.stale THEN obs ELSE {}
     ELSE UNCHANGED <<mod, obs>>
  /\ UNCHANGED <<bridge, native, outside>>

LateAnswer ==
  /\ wire.stage = "answered" /\ wire.to = "nobody"
  /\ wire' = NoWire
  /\ UNCHANGED <<bridge, mod, obs, native, left, outside>>

-----------------------------------------------------------------------------
(* The pump.                                                                *)

(* The nonce the helper will mint is fixed by the request (wire.seq).       *)
PumpRegister ==
  /\ mod.pc = "idle" /\ mod.nonce = 0 /\ ~mod.ended /\ Spend("pump")
  /\ Post(mod, "register", 0, mod.inst, scn.left["pump"] - left["pump"] + 1, "registering")
  /\ obs' = IF wire.stage # "none" THEN {} ELSE obs
  /\ UNCHANGED <<bridge, native, outside>>

(* registerSession(): a registration nobody wants any more is revoked.      *)
Registered ==
  LET bound == Set(mod, [nonce |-> wire.reply, seq |-> 0, turn |-> mod.early, early |-> 0, pc |-> "ready"])
      first == Enqueue(bound, Event("busy", <<>>)) IN
  /\ Answered("register")
  /\ IF wire.reply = No THEN mod' = Throw(mod) /\ wire' = NoWire /\ obs' = IF mod.stale THEN obs ELSE {}
     ELSE IF mod.stale
     THEN /\ wire' = [NoWire EXCEPT !.kind = "revoke", !.nonce = wire.reply, !.stage = "sent", !.to = "nobody"]
          /\ mod' = Stopped(mod) /\ UNCHANGED obs
     ELSE /\ wire' = NoWire /\ UNCHANGED obs
          /\ mod' = IF mod.early # 0 THEN Enqueue(first, Event("start", [turn |-> mod.early])) ELSE first
  /\ UNCHANGED <<bridge, native, left, outside>>

PumpPull ==
  /\ \/ mod.pc = "ready" /\ UNCHANGED left
     \/ mod.pc = "idle" /\ mod.nonce # 0 /\ Spend("pump")
  /\ IF mod.stale THEN mod' = Stopped(mod) /\ UNCHANGED wire
     ELSE Post(mod, "pull", mod.nonce, 0, 0, "pulling")
  /\ UNCHANGED <<bridge, obs, native, outside>>

(* executeControl(): marked before it is carried out.                       *)
Runnable(c) == cmds[c].op = "send" => cmds[c].turn = mod.turn
Begun(c) ==
  Set(mod, [mark |-> c, cmd |-> c, pc |-> "executing",
            watch |-> IF cmds[c].op = "send" THEN c ELSE mod.watch,
            next |-> IF cmds[c].op # "settings" THEN mod.next
                     ELSE [cmd |-> c, after |-> IF mod.start # 0 THEN mod.start ELSE mod.turn]])

Pulled ==
  LET c == wire.reply IN
  /\ Answered("pull")
  /\ wire' = NoWire
  /\ \/ /\ mod.stale /\ mod' = Stopped(mod) /\ UNCHANGED obs
     \/ /\ ~mod.stale /\ c = No /\ mod' = Throw(mod) /\ obs' = {}
     \/ /\ ~mod.stale /\ c # No /\ (c = 0 \/ c = mod.mark)
        /\ mod' = Set(mod, [pc |-> "flush"]) /\ UNCHANGED obs
     \/ /\ ~mod.stale /\ c \notin {No, 0, mod.mark}
        /\ IF Runnable(c) THEN mod' = Begun(c) /\ UNCHANGED obs ELSE mod' = Throw(mod) /\ obs' = {}
  /\ UNCHANGED <<bridge, native, left, outside>>

(* What the native session may answer: a stop of the Mod's active turn only, *)
(* an input appended to the running turn or submitted for the next one, and  *)
(* a title the user consents to.                                             *)
Outcomes(c) ==
  CASE cmds[c].op = "settings" -> {"ok"}
    [] cmds[c].op = "stop" -> IF mod.turn = cmds[c].turn /\ native.turn = mod.turn THEN {"ok", "refused"} ELSE {"refused"}
    [] cmds[c].op = "send" -> IF mod.turn # 0 /\ native.turn = 0 THEN {"refused"} ELSE {"ok", "refused"}
    [] OTHER -> {"ok", "refused"}

Carried(c) ==
  CASE cmds[c].op = "stop" -> [native EXCEPT !.aborted = @ \cup {native.turn}]
    [] cmds[c].op = "send" /\ mod.turn = 0 -> [native EXCEPT !.waiting = Append(@, c)]
    [] cmds[c].op = "rename" -> [native EXCEPT !.title = @ + 1]
    [] OTHER -> native

(* The native call returns; a lifecycle change meanwhile ends the pump.     *)
Execute(res) ==
  LET c == mod.cmd
      row == Event("row", [text |-> "input"])
      seen == IF cmds[c].op # "send" THEN mod
              ELSE IF res = "refused" THEN Set(mod, [watch |-> 0])
              ELSE IF mod.turn # 0 THEN EnqueueInput(mod, row) ELSE mod IN
  /\ mod.pc = "executing" /\ res \in Outcomes(c)
  /\ native' = IF res = "ok" THEN Carried(c) ELSE native
  /\ cmds' = IF res = "ok" THEN [cmds EXCEPT ![c].took = @ + 1] ELSE cmds
  /\ IF mod.stale THEN mod' = Stopped(mod) /\ UNCHANGED <<wire, obs>>
     ELSE /\ Post(seen, "result", mod.nonce,
                  [cmd |-> c, res |-> res, title |-> native'.title], 0, "resulting")
          /\ obs' = IF wire.stage # "none" THEN {} ELSE obs
  /\ UNCHANGED <<reg, caller, left, outside>>

Resulted ==
  /\ Answered("result")
  /\ wire' = NoWire
  /\ IF mod.stale THEN mod' = Stopped(mod) /\ UNCHANGED obs
     ELSE IF wire.reply = No THEN mod' = Throw(mod) /\ obs' = {}
     ELSE mod' = Set(mod, [pc |-> "flush"]) /\ UNCHANGED obs
  /\ UNCHANGED <<bridge, native, left, outside>>

(* observeRuntime(), the gap marker, and the first events of the queue.     *)
WithRuntime(m) == Enqueue(m, Event("snapshot", <<>>))
Disclosed(m) ==
  IF m.dropped /\ Len(m.queue) < MaxEvents THEN Set(Enqueue(m, Event("gap", <<>>)), [dropped |-> FALSE]) ELSE m

Flush ==
  LET m == Disclosed(WithRuntime(mod))
      n == IF Len(m.queue) < MaxBatch THEN Len(m.queue) ELSE MaxBatch IN
  /\ mod.pc = "flush"
  /\ IF mod.stale THEN mod' = Stopped(mod) /\ UNCHANGED wire
     ELSE Post(Set(m, [inflight |-> n]), "push", m.nonce, SubSeq(m.queue, 1, n), m.seq + 1, "pushing")
  /\ UNCHANGED <<bridge, obs, native, left, outside>>

Pushed ==
  /\ Answered("push")
  /\ wire' = NoWire
  /\ IF mod.stale THEN mod' = Stopped(mod) /\ UNCHANGED obs
     ELSE IF wire.reply = No THEN mod' = Throw(mod) /\ obs' = {}
     ELSE /\ mod' = Stopped(Set(mod, [seq |-> mod.seq + 1,
                                      queue |-> SubSeq(mod.queue, mod.inflight + 1, Len(mod.queue))]))
          /\ UNCHANGED obs
  /\ UNCHANGED <<bridge, native, left, outside>>

Pump ==
  \/ PumpRegister \/ Registered \/ PumpPull \/ Pulled
  \/ \E res \in {"ok", "refused"} : Execute(res)
  \/ Resulted \/ Flush \/ Pushed

-----------------------------------------------------------------------------
(* The native session and its hooks.  A turn hook supersedes the turn       *)
(* observations begun before it (turnRevision).                             *)

TurnStart(typed) ==
  LET t == native.turns + 1
      own == ~typed /\ native.waiting # <<>>
      text == IF typed \/ own THEN "input" ELSE "other" IN
  /\ native.turn = 0 /\ Spend("turn") /\ (typed => left["typed"] > 0)
  /\ native' = [native EXCEPT !.turn = t, !.turns = t, !.waiting = IF own THEN Tail(@) ELSE @]
  /\ mod' = Set(mod, [start |-> t])
  /\ obs' = {[k |-> "start", turn |-> t, text |-> text, cmd |-> 0, effort |-> "none"]}
  /\ UNCHANGED <<bridge, wire, outside>>

TurnEnd ==
  LET t == native.turn IN
  /\ t # 0
  /\ native' = [native EXCEPT !.turn = 0, !.ended = @ \cup {t}]
  /\ mod' = IF mod.start = t THEN Set(mod, [start |-> 0]) ELSE mod
  /\ obs' = {[k |-> "complete", turn |-> t, text |-> "none", cmd |-> 0, effort |-> "none"]}
  /\ UNCHANGED <<bridge, wire, left, outside>>

(* turn.step: the selected settings are proposed to the engine, which ran   *)
(* the request with them or with what another Mod made of it.               *)
Step(effort) ==
  LET t == native.turn
      mine == mod.nonce # 0 /\ (IF mod.start # 0 THEN mod.start ELSE mod.turn) = t
      on == mine /\ mod.next.cmd # 0 /\ mod.next.after # t IN
  /\ t # 0 /\ Spend("step") /\ (~on => effort = "low")
  /\ native' = [native EXCEPT !.ran = @ \cup {[turn |-> t, cmd |-> IF on THEN mod.next.cmd ELSE 0, effort |-> effort]}]
  /\ obs' = IF mod.nonce = 0 THEN obs
            ELSE obs \cup {[k |-> "request", turn |-> t, text |-> "none", cmd |-> mod.next.cmd, effort |-> effort]}
  /\ UNCHANGED <<bridge, mod, wire, outside>>

(* observeStart(), observeComplete() and observeStep() after their awaits.  *)
SeeStart(m, o) ==
  IF m.nonce = 0 THEN Set(m, [early |-> o.turn])
  ELSE EnqueueInput(Set(m, [turn |-> o.turn]), Event("start", [turn |-> o.turn, text |-> o.text]))

SeeComplete(m, o) ==
  Enqueue(Set(m, [early |-> IF m.early = o.turn THEN 0 ELSE m.early, turn |-> IF m.turn = o.turn THEN 0 ELSE m.turn]),
          Event("complete", [turn |-> o.turn]))

SeeRequest(m, o) ==
  LET chosen == o.cmd = m.next.cmd /\ o.turn # m.next.after IN
  IF m.nonce = 0 \/ m.turn # o.turn THEN m
  ELSE Enqueue(m, Event("request", [turn |-> o.turn, effort |-> o.effort, cmd |-> IF chosen THEN o.cmd ELSE 0]))

Observed(o) ==
  /\ obs' = obs \ {o}
  /\ mod' = CASE o.k = "start" -> SeeStart(mod, o)
              [] o.k = "complete" -> SeeComplete(mod, o)
              [] OTHER -> SeeRequest(mod, o)
  /\ UNCHANGED <<bridge, wire, native, left, outside>>

(* observeChunk() and tool.call: a block of the active turn changes.        *)
Block ==
  /\ mod.nonce # 0 /\ native.turn # 0 /\ mod.turn = native.turn /\ Spend("block")
  /\ mod' = Enqueue(Set(mod, [block |-> mod.block + 1]),
                    Event("block", [turn |-> mod.turn, val |-> mod.block + 1]))
  /\ UNCHANGED <<bridge, obs, wire, native, outside>>

(* observeAppend() of a row the helper refuses: its shape, or an identity   *)
(* it already has with another content.                                     *)
BadRow ==
  /\ mod.nonce # 0 /\ Spend("bad")
  /\ \E f \in {"malformed", "moved"} : mod' = Enqueue(mod, Event("row", [fault |-> f]))
  /\ UNCHANGED <<bridge, obs, wire, native, outside>>

(* observeNativeTitle(): the title a lifecycle hook reported.               *)
TitleHook ==
  /\ mod.nonce # 0 /\ Spend("title")
  /\ mod' = Enqueue(mod, Event("title", [val |-> native.title]))
  /\ UNCHANGED <<bridge, obs, wire, native, outside>>

(* session.end: local authority goes at once; the revocation is best effort. *)
SessionEnd ==
  /\ ~mod.ended /\ Spend("life")
  /\ mod' = Set(ClearRunning(mod), [ended |-> TRUE]) /\ obs' = {}
  /\ wire' = IF mod.nonce # 0 /\ wire.stage = "none"
             THEN [NoWire EXCEPT !.kind = "revoke", !.nonce = mod.nonce, !.stage = "sent"] ELSE wire
  /\ UNCHANGED <<bridge, native, outside>>

SessionStart ==
  /\ mod.ended
  /\ mod' = Set(ClearRunning(mod), [ended |-> FALSE, inst |-> mod.inst + 1]) /\ obs' = {}
  /\ UNCHANGED <<bridge, wire, native, left, outside>>

NativeStep ==
  \/ \E typed \in BOOLEAN : TurnStart(typed)
  \/ TurnEnd
  \/ \E effort \in {"low", "high"} : Step(effort)
  \/ \E o \in obs : Observed(o)
  \/ Block \/ BadRow \/ TitleHook \/ SessionEnd \/ SessionStart

-----------------------------------------------------------------------------
(* What else happens in the helper.                                         *)

(* pruneLocked(): no pull and no push renewed the lease.                    *)
Expire ==
  /\ reg.nonce # 0 /\ Spend("expire") /\ Forget
  /\ UNCHANGED <<caller, mod, obs, wire, native, outside>>

(* refreshTitle(): the store is read without the lock, and may lag behind   *)
(* the title a rename read back.                                            *)
ReadTitle ==
  /\ reader.pc = "idle" /\ reg.nonce # 0 /\ Spend("sync")
  /\ reader' = [pc |-> "read", nonce |-> reg.nonce, val |-> native.store]
  /\ UNCHANGED <<scn, scope, mapping, bridge, mod, obs, wire, native>>

RefreshTitle ==
  /\ reader.pc = "read"
  /\ reader' = [reader EXCEPT !.pc = "idle"]
  /\ reg' = IF reg.nonce = reader.nonce /\ reg.back \in {0, reader.val}
            THEN [reg EXCEPT !.title = reader.val, !.back = 0] ELSE reg
  /\ UNCHANGED <<scn, scope, mapping, cmds, caller, mod, obs, wire, native, left>>

StoreTitle ==
  /\ native.store # native.title
  /\ native' = [native EXCEPT !.store = native.title]
  /\ UNCHANGED <<bridge, mod, obs, wire, left, outside>>

(* The user's scope or the native mapping changes, or a request ends.       *)
Change ==
  /\ \/ scope /\ Spend("scope") /\ scope' = FALSE /\ UNCHANGED <<cmds, mapping>>
     \/ mapping # 0 /\ Spend("scope") /\ mapping' = 0 /\ UNCHANGED <<cmds, scope>>
     \/ Spend("context") /\ (\E p \in Callers : ContextEnds(p)) /\ UNCHANGED <<scope, mapping>>
  /\ UNCHANGED <<scn, reg, caller, mod, obs, wire, native, reader>>

HelperStep ==
  \/ /\ \E p \in Callers : CallerStep(p)
     /\ UNCHANGED <<mod, obs, wire, native, left, outside>>
  \/ /\ ReadLate /\ Spend("late")
     /\ UNCHANGED <<mod, obs, wire, native, outside>>
  \/ Expire \/ ReadTitle \/ RefreshTitle \/ StoreTitle \/ Change

Next ==
  \/ ServeRegister \/ ServePull \/ ServeCommand \/ ServeResult \/ ServePush \/ ServeRevoke
  \/ Repeat \/ Timeout \/ WireFails \/ LateAnswer
  \/ Pump \/ NativeStep \/ HelperStep

Spec == Init /\ [][Next]_vars

-----------------------------------------------------------------------------
(* No command is carried out twice, no client's input is taken twice under   *)
(* one registration, and an input is handed to the Mod only when the fate of *)
(* every earlier one is known (mod_controls.go: "Commands are delivered      *)
(* once"; queueMutation's resend block).                                     *)
NoReplay ==
  \A c \in DOMAIN cmds :
    /\ cmds[c].took <= 1
    /\ \A d \in 1..(c - 1) :
         (cmds[c].op = "send" /\ cmds[d].op = "send" /\ cmds[c].nonce = cmds[d].nonce /\ cmds[c].given # "no") =>
           /\ cmds[c].client # cmds[d].client
           /\ reg.nonce = cmds[d].nonce => \A i \in InputsOf(d) : reg.inputs[i].state \in {"observed", "rejected"}

(* A command handed to the Mod still has its caller: a request that was      *)
(* answered "unconfirmed" is not carried out afterwards by a pull that read  *)
(* it before the answer (pull() validates the scope between two locks).      *)
OnlyWhileWanted == \A c \in DOMAIN cmds : cmds[c].given # "late"

(* A mutation is carried out once, and only for a caller that still waits   *)
(* for it (mod_controls.go:143, mod_mutations.go:118).                      *)
OnceWhileWanted == NoReplay /\ OnlyWhileWanted

(* A caller that waits has nothing to see: its registration stands, and no   *)
(* outcome was recorded without waking it (notifyModCommand in register,     *)
(* revoke, pruneLocked, commandResultLocked and pushLocked).                 *)
NoLostWakeup ==
  \A p \in Callers :
    caller[p].pc = "wait" /\ ~cmds[caller[p].cmd].token => Outcome(p) \in {"none", "failed"}

(* What a caller or a reader is told is what the native session did, and no  *)
(* waiting caller misses it: a stopped turn has ended and was aborted, an    *)
(* input said to be observed or submitted was taken and a refused one was    *)
(* not, settings are confirmed by a request that ran with them on a later    *)
(* turn, a published title was set (bridge.go:214, mod_controls.go:119).     *)
OutcomeTrue ==
  /\ NoLostWakeup
  /\ \A p \in Callers : LET c == cmds[caller[p].cmd] IN
       caller[p].cmd # 0 =>
       CASE scn.jobs[p].op = "stop" -> caller[p].out = "ok" => c.turn \in native.ended \cap native.aborted
         [] scn.jobs[p].op = "send" ->
              /\ caller[p].out \in {"observed", "submitted"} => c.took = 1
              /\ caller[p].out = "refused" => c.took = 0
         [] OTHER -> caller[p].out = "ok" => c.took = 1
  /\ \A i \in DOMAIN reg.inputs : LET in == reg.inputs[i] IN
       /\ in.state \in {"observed", "submitted"} => cmds[in.cmd].took = 1
       /\ in.state = "rejected" => cmds[in.cmd].took = 0
  /\ reg.change.state = "confirmed" =>
       [turn |-> reg.change.turn, cmd |-> reg.change.cmd, effort |-> "high"] \in native.ran

(* Every event the Mod queued for this registration is applied once, in      *)
(* order, with its whole batch; a block shows its last state once it left    *)
(* the queue, although a later state replaces a queued one; and what a full  *)
(* queue dropped is disclosed as a gap (enqueue, pump and pushLocked).       *)
EventsOnce ==
  reg.nonce # 0 /\ reg.nonce = mod.nonce =>
    LET queued == {mod.queue[i].id : i \in DOMAIN mod.queue}
        applied == {reg.applied[i] : i \in DOMAIN reg.applied}
        sent == {mod.queue[i].id : i \in 1..mod.inflight} IN
    /\ \A i \in 1..(Len(reg.applied) - 1) : reg.applied[i] < reg.applied[i + 1]
    /\ applied \cup queued \cup mod.lost = 1..mod.minted
    /\ applied \cap queued \in {{}, sent} /\ (applied \cup queued) \cap mod.lost = {}
    /\ mod.lost = {} /\ (\A i \in DOMAIN mod.queue : mod.queue[i].k # "block") => reg.block = mod.block
    /\ mod.lost # {} =>
         mod.dropped \/ reg.dropped \/ \E i \in DOMAIN mod.queue : mod.queue[i].k = "gap"
=============================================================================
