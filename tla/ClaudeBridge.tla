---------------------------- MODULE ClaudeBridge ----------------------------
(***************************************************************************)
(* The helper's side of the Claude Mod bridge (internal/claude) for one    *)
(* native session: its registration, the one native command that may be    *)
(* pending on it, and the sends, stops, settings changes and renames that  *)
(* wait for that command's outcome.  Every critical section of Adapter.mu  *)
(* is one step.  The requests of the Mod are operators here; module        *)
(* ClaudeMod has the Mod that sends them, the exchange they travel in and  *)
(* the native session.                                                     *)
(***************************************************************************)
EXTENDS Integers, Sequences, FiniteSets, SequencesExt

CONSTANTS
  Callers,     \* requests of Filo's clients
  Clients,     \* client identities of inputs
  MaxInputs,   \* maxRows: inputs a registration remembers
  Scenarios    \* what a behaviour is about (see Scenario in ClaudeMod)

ASSUME ClaudeBridgeAssumption == MaxInputs \in Nat \ {0}

VARIABLES
  scn,      \* the scenario of the behaviour
  reg,      \* Adapter.registrations[id]
  cmds,     \* every pendingModCommand, by number
  caller,   \* the requests
  scope,    \* protocol.ValidateScope: the user's source scope still holds
  mapping   \* the native record that maps the host session to the engine

bridge == <<reg, cmds, caller>>

NoChange == [cmd |-> 0, state |-> "none", after |-> 0, turn |-> 0]

(* nonce 0: no registration.  A nonce is also the identity of the object.   *)
(* last: the batch lastDigest stands for; applied: ids of the events applied *)
(* (history); back: renameReadback; titles are versions of the native title. *)
NoReg == [nonce |-> 0, inst |-> 0, seq |-> 0, last |-> <<>>, applied |-> <<>>, status |-> "unknown",
          turn |-> 0, done |-> 0, can |-> FALSE, inputs |-> <<>>, change |-> NoChange, block |-> 0,
          title |-> 0, back |-> 0, pend |-> 0, dropped |-> FALSE]

NewReg(n, inst) == [NoReg EXCEPT !.nonce = n, !.inst = inst]

(* given: "no" before its delivery, then whether its caller still wanted it; *)
(* took: how often the native session carried it out (history).             *)
NewCmd(p, turn) ==
  [op |-> scn.jobs[p].op, client |-> scn.jobs[p].client, by |-> p, nonce |-> reg.nonce, turn |-> turn,
   map |-> mapping, alive |-> TRUE, given |-> "no", completed |-> FALSE, result |-> "none", title |-> 0,
   token |-> FALSE, took |-> 0]

Idle == [pc |-> "idle", bind |-> 0, turn |-> 0, cmd |-> 0, out |-> "none"]

BridgeInit ==
  /\ reg = NoReg /\ cmds = <<>> /\ caller = [p \in Callers |-> Idle]
  /\ scope = TRUE /\ mapping = 1

Goto(p, pc) == caller' = [caller EXCEPT ![p].pc = pc]
Returns(p, out) == caller' = [caller EXCEPT ![p].pc = "release", ![p].out = out]
Fails(p) == caller' = [caller EXCEPT ![p].pc = "done", ![p].out = "failed"]

(* notifyModCommand(): a full channel keeps its one token.                  *)
Notify(cs, r) == IF r.pend = 0 THEN cs ELSE [cs EXCEPT ![r.pend].token = TRUE]

(* desktopIdentity.unchanged(): the record still maps host and engine.      *)
Unmoved(c) == mapping = cmds[c].map

InputsOf(c) == {i \in DOMAIN reg.inputs : reg.inputs[i].cmd = c}

-----------------------------------------------------------------------------
(* Queueing a command.                                                      *)

(* Access() or List() offered the binding, and Read() showed the turn.      *)
Bind(p) ==
  /\ caller[p].pc = "idle" /\ scn.jobs[p].op # "none"
  /\ reg.nonce # 0
  /\ scn.jobs[p].op = "stop" => reg.turn # 0
  /\ caller' = [caller EXCEPT ![p].pc = "bound", ![p].bind = reg.nonce, ![p].turn = reg.turn]
  /\ UNCHANGED <<reg, cmds>>

(* queueMutation(): the same client, or an input whose fate is not known.   *)
ResendBlocked(client) ==
  \E i \in DOMAIN reg.inputs :
     \/ reg.inputs[i].client = client
     \/ reg.inputs[i].state \notin {"observed", "rejected"}

MayStop(turn) == reg.can /\ reg.status = "active" /\ turn # 0 /\ reg.turn = turn

Admits(p) ==
  /\ scope
  /\ reg.nonce = caller[p].bind /\ reg.pend = 0
  /\ CASE scn.jobs[p].op = "stop" -> MayStop(caller[p].turn)
       [] scn.jobs[p].op = "send" -> reg.can /\ ~ResendBlocked(scn.jobs[p].client)
       [] OTHER -> reg.can

WithInput(r, p, c) ==
  LET all == Append(r.inputs, [client |-> scn.jobs[p].client, cmd |-> c, after |-> r.seq,
                               state |-> "unconfirmed", matched |-> FALSE, accepted |-> FALSE, turn |-> 0])
  IN [r EXCEPT !.pend = c,
               !.inputs = SubSeq(all, IF Len(all) > MaxInputs THEN Len(all) - MaxInputs + 1 ELSE 1, Len(all))]

Queued(p, c) ==
  CASE scn.jobs[p].op = "send" -> WithInput(reg, p, c)
    [] scn.jobs[p].op = "settings" ->
         [reg EXCEPT !.pend = c, !.change = [cmd |-> c, state |-> "pending", after |-> reg.turn, turn |-> 0]]
    [] OTHER -> [reg EXCEPT !.pend = c]

Accept(p, turn) ==
  LET c == Len(cmds) + 1 IN
    /\ cmds' = Append(cmds, NewCmd(p, turn))
    /\ reg' = Queued(p, c)
    /\ caller' = [caller EXCEPT ![p].pc = "check", ![p].cmd = c]

(* stopNative() and queueMutation().                                        *)
Queue(p) ==
  /\ caller[p].pc = "bound" /\ scn.jobs[p].op # "rename"
  /\ IF Admits(p)
     THEN Accept(p, IF scn.jobs[p].op = "stop" THEN caller[p].turn ELSE reg.turn)
     ELSE Fails(p) /\ UNCHANGED <<reg, cmds>>

(* executeDesktopDiagnostic(): checked, then the native mapping is resolved *)
(* without the lock, then everything is checked again.                      *)
Diagnose(p) ==
  /\ caller[p].pc = "bound" /\ scn.jobs[p].op = "rename"
  /\ IF scope /\ reg.nonce = caller[p].bind /\ reg.pend = 0 THEN Goto(p, "resolving") ELSE Fails(p)
  /\ UNCHANGED <<reg, cmds>>

QueueDiagnostic(p) ==
  /\ caller[p].pc = "resolving"
  /\ IF scope /\ reg.nonce = caller[p].bind /\ reg.pend = 0 /\ mapping # 0
     THEN Accept(p, 0)
     ELSE Fails(p) /\ UNCHANGED <<reg, cmds>>

-----------------------------------------------------------------------------
(* Waiting for the outcome.                                                 *)

Same(p) == reg.nonce = caller[p].bind
Holds(p) == Same(p) /\ reg.pend = caller[p].cmd

(* The bodies of the four loops: the outcome the state shows, or "none".    *)
SendOutcome(p) ==
  LET c == caller[p].cmd IN
  IF ~Same(p) \/ InputsOf(c) = {} THEN "unconfirmed"
  ELSE LET i == reg.inputs[CHOOSE j \in InputsOf(c) : TRUE] IN
       IF cmds[c].result = "refused" THEN "refused"
       ELSE IF i.state \in {"observed", "submitted"} THEN i.state ELSE "none"

(* Mutant: the accepted abort is taken for the end of the turn.             *)
StopOutcomeEarly(p) ==
  IF ~Holds(p) THEN "unknown" ELSE cmds[caller[p].cmd].result

StopOutcome(p) ==
  LET c == cmds[caller[p].cmd] IN
  IF ~Holds(p) THEN "unknown"
  ELSE IF c.result = "refused" THEN "refused"
  ELSE IF c.result = "ok" /\ c.completed THEN "ok" ELSE "none"

SettingsOutcome(p) ==
  LET c == cmds[caller[p].cmd] IN IF ~Same(p) THEN "unconfirmed" ELSE c.result

RenameOutcome(p) ==
  LET c == cmds[caller[p].cmd] IN
  IF ~scope /\ c.alive THEN "failed"
  ELSE IF ~Holds(p) THEN "unknown"
  ELSE IF c.result # "none" /\ c.alive THEN "readback" ELSE "none"

Outcome(p) ==
  CASE scn.jobs[p].op = "send" -> SendOutcome(p)
    [] scn.jobs[p].op = "stop" -> StopOutcome(p)
    [] scn.jobs[p].op = "settings" -> SettingsOutcome(p)
    [] OTHER -> RenameOutcome(p)

Check(p) ==
  /\ caller[p].pc = "check"
  /\ CASE Outcome(p) = "none" -> Goto(p, "wait")
       [] Outcome(p) = "readback" -> Goto(p, "readback")
       [] OTHER -> Returns(p, Outcome(p))
  /\ UNCHANGED <<reg, cmds>>

Wake(p) ==
  /\ caller[p].pc = "wait" /\ cmds[caller[p].cmd].token
  /\ cmds' = [cmds EXCEPT ![caller[p].cmd].token = FALSE]
  /\ Goto(p, "check")
  /\ UNCHANGED reg

(* The request is cancelled, or the deadline set on its context passes.     *)
ContextEnds(p) ==
  /\ caller[p].pc \in {"check", "wait", "readback"} /\ cmds[caller[p].cmd].alive
  /\ cmds' = [cmds EXCEPT ![caller[p].cmd].alive = FALSE]
  /\ UNCHANGED <<reg, caller>>

(* unknownInput(): an observation that came in time still counts.           *)
UnknownInput(p) ==
  LET own == IF Same(p) THEN InputsOf(caller[p].cmd) ELSE {} IN
    /\ reg' = [reg EXCEPT !.inputs = [i \in DOMAIN @ |->
                 IF i \in own /\ @[i].state # "observed" THEN [@[i] EXCEPT !.state = "unconfirmed"] ELSE @[i]]]
    /\ Returns(p, IF \E i \in own : reg.inputs[i].state = "observed" THEN "observed" ELSE "unconfirmed")

(* The context or the ten second timer of a send or settings change ends the *)
(* wait; a stop and a rename wait for their context.                        *)
GiveUp(p) ==
  /\ caller[p].pc = "wait"
  /\ scn.jobs[p].op \in {"stop", "rename"} => ~cmds[caller[p].cmd].alive
  /\ IF scn.jobs[p].op = "send" THEN UnknownInput(p) ELSE Returns(p, "unconfirmed") /\ UNCHANGED reg
  /\ UNCHANGED cmds

(* A rename is published only if nothing changed while its scope was        *)
(* validated without the lock.                                              *)
Publish(p) ==
  LET c == cmds[caller[p].cmd]
      current == scope /\ Holds(p) /\ c.alive
      applied == current /\ c.result = "ok" /\ Unmoved(caller[p].cmd) IN
  /\ caller[p].pc = "readback"
  /\ Returns(p, IF applied THEN "ok" ELSE IF current /\ c.result = "refused" THEN "refused" ELSE "unknown")
  /\ reg' = IF applied THEN [reg EXCEPT !.title = c.title, !.back = c.title] ELSE reg
  /\ UNCHANGED cmds

(* releaseMutation(), deferred by every caller.                             *)
Release(p) ==
  /\ caller[p].pc = "release"
  /\ Goto(p, "done")
  /\ reg' = IF Holds(p) THEN [reg EXCEPT !.pend = 0] ELSE reg
  /\ UNCHANGED cmds

(* Read(): a submitted input that was not observed within twenty seconds.   *)
ReadLate ==
  /\ \E i \in DOMAIN reg.inputs :
       /\ reg.inputs[i].state = "submitted"
       /\ reg' = [reg EXCEPT !.inputs[i].state = "unconfirmed"]
  /\ UNCHANGED <<cmds, caller>>

CallerStep(p) ==
  \/ Bind(p) \/ Queue(p) \/ Diagnose(p) \/ QueueDiagnostic(p)
  \/ Check(p) \/ Wake(p) \/ GiveUp(p) \/ Publish(p) \/ Release(p)

-----------------------------------------------------------------------------
(* The requests of the Mod, each one critical section.                      *)

(* register(): a live registration of another instance is a conflict; any   *)
(* other one is replaced, and who waits on it is woken.                     *)
MayRegister(inst) == reg.nonce = 0 \/ reg.inst = inst
Register(n, inst) == reg' = NewReg(n, inst) /\ cmds' = Notify(cmds, reg)

(* A revocation, or the lease ending in pruneLocked().                      *)
Forget == reg' = NoReg /\ cmds' = Notify(cmds, reg)

(* Mutant: the command read by the first critical section is trusted.       *)
DeliverableCaptured(c, ok) == c # 0 /\ cmds[c].given = "no" /\ ok /\ cmds[c].alive

(* pull(), second critical section: c was pending in the first one and ok   *)
(* says that its scope was valid in between.                                *)
Deliverable(c, ok) ==
  /\ c # 0 /\ reg.pend = c
  /\ cmds[c].given = "no" /\ ok /\ cmds[c].alive
  /\ CASE cmds[c].op = "stop" -> MayStop(cmds[c].turn)
       [] cmds[c].op = "send" -> reg.can /\ reg.turn = cmds[c].turn
       [] cmds[c].op = "settings" -> reg.can
       [] OTHER -> Unmoved(c)

Given(c) == IF caller[cmds[c].by].cmd = c /\ caller[cmds[c].by].pc # "done" THEN "wanted" ELSE "late"

(* validateRenameResult(): a readback of the host session it was sent to.   *)
ReadbackMatches(c) == cmds[c].op = "rename" => Unmoved(c)

(* commandResultLocked(): the result of the delivered command only, and not *)
(* a different one than before.                                             *)
MatchesCommand(c, res) ==
  /\ c # 0 /\ reg.pend = c /\ cmds[c].given # "no"
  /\ cmds[c].result \in {"none", res}
  /\ ReadbackMatches(c)

ResultState(i, res) ==
  IF res = "refused" THEN "rejected"
  ELSE IF i.matched THEN "observed"
  ELSE IF i.state # "observed" THEN "submitted" ELSE i.state

CommandResult(c, res, title) ==
  /\ reg' = [reg EXCEPT
       !.inputs = [i \in DOMAIN @ |->
          IF i \in InputsOf(c) THEN [@[i] EXCEPT !.accepted = (res = "ok"), !.state = ResultState(reg.inputs[i], res)]
          ELSE @[i]],
       !.change = IF cmds[c].op = "settings" /\ res = "refused" THEN [@ EXCEPT !.state = "failed"] ELSE @]
  /\ cmds' = Notify([cmds EXCEPT ![c].result = res, ![c].title = title], reg)

(* pushLocked(): a settings change is confirmed by the first native request *)
(* of a later turn that names it.                                           *)
Confirm(ch, e) ==
  IF ch.state = "pending" /\ ch.cmd = e.cmd /\ e.turn # ch.after
  THEN [ch EXCEPT !.turn = e.turn, !.state = IF e.effort = "high" THEN "confirmed" ELSE "failed"]
  ELSE ch

(* The input an event proves to have been taken.                            *)
Observe(i, e, seq) ==
  IF e.cmd = i.cmd /\ i.after < seq /\ e.text = "input" /\ e.k \in {"row", "start"}
  THEN [i EXCEPT !.matched = TRUE, !.turn = e.turn,
                 !.state = IF i.state = "submitted" \/ (i.accepted /\ i.state = "unconfirmed")
                           THEN "observed" ELSE i.state]
  ELSE i

ApplyKind(r, e) ==
  CASE e.k = "snapshot" -> [r EXCEPT !.can = TRUE]
    [] e.k = "request" -> IF r.turn = e.turn THEN [r EXCEPT !.change = Confirm(@, e)] ELSE r
    [] e.k = "block" -> [r EXCEPT !.block = e.val]
    [] e.k = "title" -> [r EXCEPT !.title = e.val, !.back = 0]
    [] e.k = "start" -> [r EXCEPT !.turn = e.turn, !.status = "active"]
    [] e.k = "complete" ->
         IF r.turn = e.turn THEN [r EXCEPT !.turn = 0, !.done = e.turn, !.status = "idle"] ELSE r
    [] e.k = "gap" -> [r EXCEPT !.dropped = TRUE, !.status = "unknown"]
    [] e.k = "busy" -> [r EXCEPT !.status = "unknown"]
    [] OTHER -> r

(* A request of a turn that is not the active one skips the rest ("continue"). *)
Apply(r, e, seq) ==
  LET s == ApplyKind(r, e) IN
    [s EXCEPT !.applied = Append(@, e.id),
              !.inputs = IF e.k = "request" /\ r.turn # e.turn THEN @
                         ELSE [i \in DOMAIN @ |-> Observe(@[i], e, seq)]]

(* validateEvent(); and the identity a row or a block must keep.            *)
Valid(e) == e.fault # "malformed"
KeepsIdentity(e) == e.fault # "moved"

ApplyBatch(batch, seq) == FoldLeft(LAMBDA r, e : Apply(r, e, seq), reg, batch)

(* The whole batch or nothing: "repeat", "refused" or "applied".            *)
PushVerdict(batch, seq) ==
  IF seq = reg.seq /\ seq # 0 /\ batch = reg.last THEN "repeat"
  ELSE IF seq # reg.seq + 1 \/ \E i \in DOMAIN batch : ~(Valid(batch[i]) /\ KeepsIdentity(batch[i])) THEN "refused"
  ELSE "applied"

Completes(batch) ==
  /\ reg.pend # 0 /\ cmds[reg.pend].given # "no"
  /\ \E i \in DOMAIN batch : batch[i].k = "complete" /\ batch[i].turn = cmds[reg.pend].turn

Push(batch, seq) ==
  IF PushVerdict(batch, seq) = "applied"
  THEN /\ reg' = [ApplyBatch(batch, seq) EXCEPT !.seq = seq, !.last = batch]
       /\ cmds' = Notify(IF Completes(batch) THEN [cmds EXCEPT ![reg.pend].completed = TRUE] ELSE cmds, reg)
  ELSE UNCHANGED <<reg, cmds>>
=============================================================================
