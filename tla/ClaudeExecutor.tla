--------------------------- MODULE ClaudeExecutor ---------------------------
(***************************************************************************)
(* The Claude broker (internal/service/claudeexecutorbroker.go) and the    *)
(* stream-json sessions it owns (internal/claude/native*.go).  A request   *)
(* is a goroutine of the broker: every critical section of claudeBroker.mu *)
(* or NativeSession.mu, every write to a native pipe and every wait is one *)
(* step.  The native process takes lines from its stdin, writes events to  *)
(* its stdout, and may exit, override a setting or write an event that     *)
(* does not fit at any time; a request's context may end at any time.      *)
(***************************************************************************)
EXTENDS Naturals, Sequences, FiniteSets

CONSTANTS
  Requests,        \* requests to the broker
  Inputs,          \* client identities of inputs
  None,            \* no client
  MaxSessions,     \* bound: processes started in a behaviour
  MaxControls,     \* control requests a session may have open
  MaxCreations,    \* creations a broker remembers
  MaxLive,         \* live executors
  Stories          \* what a behaviour is about (see Story)

(* jobs: what each request asks for; left: how often each trouble may happen. *)
BrokerOps == {"none", "create", "send", "stop", "model", "effort", "rename"}
Troubles == {"exit", "garble", "ask", "early", "context", "override", "finish"}
Story == [jobs : [Requests -> [op : BrokerOps, client : Inputs, effort : BOOLEAN]], left : [Troubles -> Nat]]

(* A client makes a new identity for each input.  An input of one session is *)
(* not sent to another one; it may be repeated, to the session it creates or *)
(* to the only one there is.                                                 *)
ForOneTask(jobs) ==
  LET created == {jobs[p].client : p \in {q \in Requests : jobs[q].op = "create"}} IN
  \A p, q \in Requests :
    p # q /\ jobs[p].op = "send" /\ jobs[q].op \in {"create", "send"} /\ jobs[p].client = jobs[q].client =>
      \A c, d \in created : c = d

ASSUME BrokerAssumption ==
  /\ MaxLive \in Nat /\ None \notin Inputs /\ IsFiniteSet(Inputs) /\ IsFiniteSet(Requests)
  /\ Stories \subseteq Story
ASSUME InputsAssumption == \A st \in Stories : ForOneTask(st.jobs)

VARIABLES
  story,           \* what the behaviour is about
  asking,          \* the requests
  creating,        \* claudeBroker.creating, by client
  sess,            \* every NativeSession; listed: it is in claudeBroker.sessions
  proc,            \* the native process of each session
  troubles         \* what may still go wrong, by kind

brokerVars == <<story, asking, creating, sess, proc, troubles>>

IdleRequest == [pc |-> "idle", s |-> 0, ctl |-> 0, turn |-> None, then |-> "end", out |-> "none"]

NoCreation == [known |-> FALSE, s |-> 0, done |-> FALSE, err |-> FALSE]

(* done and terminal are the channels of nativeInput.                       *)
NoInput == [in |-> FALSE, uuid |-> FALSE, done |-> "open", terminal |-> FALSE]

NewSession == [id |-> FALSE, listed |-> FALSE, exited |-> FALSE, fenced |-> FALSE, drain |-> FALSE,
               controlling |-> FALSE, active |-> None, inputs |-> [c \in Inputs |-> NoInput],
               effort |-> "unknown", title |-> FALSE, ctrls |-> {}, answers |-> {}, count |-> 0]

(* open: the stdin; took: inputs taken; hits: the turn an interrupt was     *)
(* meant for and the one it met (history).                                  *)
NewProcess == [alive |-> TRUE, open |-> TRUE, in |-> <<>>, out |-> <<>>, turn |-> None, effort |-> "low",
               took |-> [c \in Inputs |-> 0], hits |-> {}]

BrokerInit ==
  /\ story \in Stories
  /\ asking = [p \in Requests |-> IdleRequest]
  /\ creating = [c \in Inputs |-> NoCreation]
  /\ sess = <<>> /\ proc = <<>>
  /\ troubles = story.left

Strikes(k) == troubles[k] > 0 /\ troubles' = [troubles EXCEPT ![k] = @ - 1]
Job(p) == story.jobs[p]
S(p) == sess[asking[p].s]
Go(p, pc) == asking' = [asking EXCEPT ![p].pc = pc]

(* A step of the operation returned; a creation goes on with its next one.  *)
Ok(p) == asking' = [asking EXCEPT ![p].pc = asking[p].then, ![p].out = "ok"]
Err(p) == asking' = [asking EXCEPT ![p].pc = IF asking[p].then = "end" THEN "end" ELSE "failed", ![p].out = "error"]

-----------------------------------------------------------------------------
(* NativeSession: what every operation shares.                              *)

Available(s) == ~sess[s].exited /\ ~sess[s].fenced   \* checkLocked(), Alive()

Fence(s) == [sess EXCEPT ![s].fenced = TRUE]

(* control(): registered under the lock, then written.  A control that      *)
(* cannot be written, or whose caller gives up, fences the session.         *)
Control(p, msg, wait) ==
  LET s == asking[p].s
      n == sess[s].count + 1 IN
  IF ~Available(s) \/ Cardinality(sess[s].ctrls) >= MaxControls
  THEN /\ Err(p) /\ sess' = [sess EXCEPT ![s].controlling = FALSE] /\ UNCHANGED proc
  ELSE IF ~proc[s].open \/ ~proc[s].alive
  THEN /\ Err(p) /\ sess' = [sess EXCEPT ![s].controlling = FALSE, ![s].fenced = TRUE,
                                         ![s].ctrls = @ \cup {n}, ![s].count = n]
       /\ UNCHANGED proc
  ELSE /\ sess' = [sess EXCEPT ![s].ctrls = @ \cup {n}, ![s].count = n]
       /\ proc' = [proc EXCEPT ![s].in = Append(@, [msg EXCEPT !.ctl = n])]
       /\ asking' = [asking EXCEPT ![p].pc = wait, ![p].ctl = n]

Line(k, c) == [k |-> k, ctl |-> 0, client |-> c]

AnswerTo(p) == {a \in S(p).answers : a.ctl = asking[p].ctl}

(* <-c.done: the answer, or the end of the connection.                      *)
AnsweredBy(p, wait, res) ==
  /\ asking[p].pc = wait
  /\ \E a \in AnswerTo(p) : a.res = res
Refused(p, wait) ==
  /\ \/ AnsweredBy(p, wait, "rejected") \/ AnsweredBy(p, wait, "ended")
  /\ Err(p) /\ sess' = [sess EXCEPT ![asking[p].s].controlling = FALSE]
  /\ UNCHANGED proc

-----------------------------------------------------------------------------
(* Send(), Stop(), SetEffort() and Rename() of one session.                 *)

(* Mutant: a control does not keep inputs out.                              *)
BusyTurnOnly(s) == sess[s].active # None

Busy(s) == sess[s].active # None \/ sess[s].controlling

Send(p) ==
  LET s == asking[p].s
      c == Job(p).client IN
  /\ asking[p].pc = "send"
  /\ IF ~Available(s) THEN Err(p) /\ UNCHANGED sess
     ELSE IF sess[s].inputs[c].in THEN Go(p, "receipt") /\ UNCHANGED sess
     ELSE IF Busy(s) THEN Err(p) /\ UNCHANGED sess
     ELSE /\ sess' = [sess EXCEPT ![s].inputs[c].in = TRUE, ![s].active = c]
          /\ Go(p, "write")
  /\ UNCHANGED proc

WriteInput(p) ==
  LET s == asking[p].s IN
  /\ asking[p].pc = "write"
  /\ IF proc[s].open /\ proc[s].alive
     THEN /\ proc' = [proc EXCEPT ![s].in = Append(@, Line("input", Job(p).client))]
          /\ Go(p, "receipt") /\ UNCHANGED sess
     ELSE Err(p) /\ sess' = Fence(s) /\ UNCHANGED proc

(* waitNativeInput().                                                       *)
Receipt(p) ==
  LET d == S(p).inputs[Job(p).client].done IN
  /\ asking[p].pc = "receipt" /\ d # "open"
  /\ IF d = "ok" THEN Ok(p) ELSE Err(p)
  /\ UNCHANGED <<sess, proc>>

(* Stop(): the interrupt of the turn the client was shown.                  *)
Stop(p) ==
  LET s == asking[p].s
      t == asking[p].turn IN
  /\ asking[p].pc = "stop"
  /\ IF ~Available(s) \/ t = None \/ sess[s].active # t \/ ~sess[s].inputs[t].uuid \/ sess[s].controlling
     THEN Err(p) /\ UNCHANGED sess
     ELSE sess' = [sess EXCEPT ![s].controlling = TRUE] /\ Go(p, "interrupt")
  /\ UNCHANGED proc

Interrupt(p) ==
  /\ asking[p].pc = "interrupt"
  /\ Control(p, Line("interrupt", asking[p].turn), "interrupting")

Interrupted(p) ==
  \/ AnsweredBy(p, "interrupting", "ok") /\ Go(p, "terminal") /\ UNCHANGED <<sess, proc>>
  \/ Refused(p, "interrupting")

StopEnds(p) ==
  /\ asking[p].pc = "terminal" /\ S(p).inputs[asking[p].turn].terminal
  /\ Ok(p) /\ sess' = [sess EXCEPT ![asking[p].s].controlling = FALSE]
  /\ UNCHANGED proc

SetEffort(p) ==
  LET s == asking[p].s IN
  /\ asking[p].pc = "effort"
  /\ IF ~Available(s) \/ Busy(s) THEN Err(p) /\ UNCHANGED sess
     ELSE sess' = [sess EXCEPT ![s].controlling = TRUE, ![s].effort = "unknown"] /\ Go(p, "apply")
  /\ UNCHANGED proc

ApplyEffort(p) ==
  \/ asking[p].pc = "apply" /\ Control(p, Line("apply", None), "applying")
  \/ AnsweredBy(p, "applying", "ok") /\ Go(p, "readback") /\ UNCHANGED <<sess, proc>>
  \/ Refused(p, "applying")

(* The readback must show the effort that was asked for.                    *)
Matches(a) == a.effort = "high"

Readback(p) ==
  \/ asking[p].pc = "readback" /\ Control(p, Line("get", None), "reading")
  \/ /\ AnsweredBy(p, "reading", "ok")
     /\ LET yes == \A a \in AnswerTo(p) : Matches(a) IN
          /\ IF yes THEN Ok(p) ELSE Err(p)
          /\ sess' = [sess EXCEPT ![asking[p].s].controlling = FALSE,
                                  ![asking[p].s].effort = IF yes THEN "high" ELSE @]
     /\ UNCHANGED proc
  \/ Refused(p, "reading")

(* SetModel(): acknowledged only; the model in use is reported later.       *)
SetModel(p) ==
  LET s == asking[p].s IN
  \/ /\ asking[p].pc = "model"
     /\ IF ~Available(s) \/ Busy(s) THEN Err(p) /\ UNCHANGED sess
        ELSE sess' = [sess EXCEPT ![s].controlling = TRUE] /\ Go(p, "choose")
     /\ UNCHANGED proc
  \/ asking[p].pc = "choose" /\ Control(p, Line("model", None), "choosing")
  \/ /\ AnsweredBy(p, "choosing", "ok")
     /\ Ok(p) /\ sess' = [sess EXCEPT ![s].controlling = FALSE] /\ UNCHANGED proc
  \/ Refused(p, "choosing")

Rename(p) ==
  LET s == asking[p].s IN
  \/ /\ asking[p].pc = "rename"
     /\ IF ~Available(s) \/ sess[s].controlling THEN Err(p) /\ UNCHANGED sess
        ELSE sess' = [sess EXCEPT ![s].controlling = TRUE] /\ Go(p, "name")
     /\ UNCHANGED proc
  \/ asking[p].pc = "name" /\ Control(p, Line("title", None), "naming")
  \/ /\ AnsweredBy(p, "naming", "ok")
     /\ Ok(p) /\ sess' = [sess EXCEPT ![s].controlling = FALSE, ![s].title = TRUE] /\ UNCHANGED proc
  \/ Refused(p, "naming")

(* The request's context ends: a control is given up with its session.      *)
Cancelled(p) ==
  LET s == asking[p].s IN
  /\ asking[p].pc \in {"receipt", "terminal", "created", "interrupting", "applying", "reading", "choosing", "naming", "starting"}
  /\ asking[p].pc = "created" => ~creating[Job(p).client].done
  /\ Strikes("context")
  /\ Err(p)
  /\ sess' = CASE asking[p].pc \in {"receipt", "created"} -> sess
               [] asking[p].pc = "terminal" -> [sess EXCEPT ![s].controlling = FALSE]
               [] OTHER -> [sess EXCEPT ![s].controlling = FALSE, ![s].fenced = TRUE]
  /\ proc' = IF asking[p].pc = "starting" THEN [proc EXCEPT ![s].open = FALSE] ELSE proc
  /\ UNCHANGED <<story, creating>>

-----------------------------------------------------------------------------
(* claudeBroker.create().                                                   *)

(* Mutant: an executor that is still being started is not counted.          *)
CountedStarted(c) == creating[c].known /\ creating[c].s # 0 /\ Available(creating[c].s)

Counted(c) ==
  creating[c].known /\ IF creating[c].s = 0 THEN ~creating[c].err ELSE Available(creating[c].s)

(* Mutant: a creation that failed may be tried again.                       *)
SeenSucceeded(c) == creating[c].known /\ ~creating[c].err

Seen(c) == creating[c].known

Create(p) ==
  LET c == Job(p).client IN
  /\ asking[p].pc = "idle" /\ Job(p).op = "create"
  /\ IF Seen(c) THEN asking' = [asking EXCEPT ![p].pc = "created"] /\ UNCHANGED <<creating, sess, proc>>
     ELSE IF \/ Cardinality({d \in Inputs : creating[d].known}) >= MaxCreations
             \/ Cardinality({d \in Inputs : Counted(d)}) >= MaxLive
     THEN Err(p) /\ UNCHANGED <<creating, sess, proc>>
     ELSE /\ creating' = [creating EXCEPT ![c] = [NoCreation EXCEPT !.known = TRUE]]
          /\ Go(p, "start") /\ UNCHANGED <<sess, proc>>

(* StartNative(): the process and its "initialize".                         *)
Start(p) ==
  LET s == Len(sess) + 1 IN
  /\ asking[p].pc = "start" /\ s <= MaxSessions
  /\ sess' = Append(sess, [NewSession EXCEPT !.ctrls = {1}, !.count = 1])
  /\ proc' = Append(proc, [NewProcess EXCEPT !.in = <<[k |-> "initialize", ctl |-> 1, client |-> None]>>])
  /\ asking' = [asking EXCEPT ![p].pc = "starting", ![p].s = s, ![p].ctl = 1,
                              ![p].then = IF Job(p).effort THEN "effort" ELSE "send"]
  /\ UNCHANGED creating

Started(p) ==
  LET s == asking[p].s IN
  \/ /\ AnsweredBy(p, "starting", "ok")
     /\ creating' = [creating EXCEPT ![Job(p).client].s = s]
     /\ asking' = [asking EXCEPT ![p].pc = asking[p].then, ![p].then = IF Job(p).effort THEN "send" ELSE "made"]
     /\ UNCHANGED <<sess, proc>>
  \/ /\ AnsweredBy(p, "starting", "rejected") \/ AnsweredBy(p, "starting", "ended")
     /\ Err(p) /\ proc' = [proc EXCEPT ![s].open = FALSE] /\ UNCHANGED <<sess, creating>>

(* The settings are in; the input is the last step.                         *)
NextStep(p) ==
  /\ asking[p].pc = "send" /\ asking[p].then = "send"
  /\ asking' = [asking EXCEPT ![p].then = "made"]
  /\ UNCHANGED <<creating, sess, proc>>

(* The outcome of the creation is published, whatever it is.                *)
Made(p) ==
  LET c == Job(p).client
      s == asking[p].s
      bad == asking[p].pc = "failed"
      known == IF creating[c].s = 0 THEN 0 ELSE s IN
  /\ asking[p].pc \in {"made", "failed"}
  /\ creating' = [creating EXCEPT ![c].err = bad, ![c].done = TRUE]
  /\ sess' = IF known # 0 /\ sess[s].id THEN [sess EXCEPT ![s].listed = TRUE] ELSE sess
  /\ asking' = [asking EXCEPT ![p].pc = IF bad /\ known # 0 THEN "closing" ELSE "created"]
  /\ UNCHANGED proc

(* CloseIdle(): the inputs are counted under the lock, the pipe is closed   *)
(* after it.                                                                *)
CloseIdle(p) ==
  LET s == asking[p].s
      idle == \A c \in Inputs : ~sess[s].inputs[c].in IN
  /\ asking[p].pc = "closing"
  /\ Go(p, IF idle THEN "close" ELSE "created")
  /\ UNCHANGED <<creating, sess, proc>>

CloseInput(p) ==
  /\ asking[p].pc = "close"
  /\ proc' = [proc EXCEPT ![asking[p].s].open = FALSE]
  /\ Go(p, "created") /\ UNCHANGED <<creating, sess>>

(* Who waited for the creation, and who made it, ask for the receipt.       *)
Created(p) ==
  LET c == Job(p).client IN
  /\ asking[p].pc = "created" /\ creating[c].done
  /\ asking' = IF creating[c].err THEN [asking EXCEPT ![p].pc = "end", ![p].out = "error"]
               ELSE [asking EXCEPT ![p].pc = "send", ![p].s = creating[c].s, ![p].then = "end"]
  /\ UNCHANGED <<creating, sess, proc>>

(* claudeBroker.call(): an operation on a listed session; a stop names the  *)
(* turn that Read() showed.                                                 *)
Call(p) ==
  /\ asking[p].pc = "idle" /\ Job(p).op \in {"send", "stop", "model", "effort", "rename"}
  /\ \E s \in DOMAIN sess :
       /\ sess[s].listed
       /\ Job(p).op = "stop" => sess[s].active # None
       /\ asking' = [asking EXCEPT ![p].pc = Job(p).op, ![p].s = s, ![p].turn = sess[s].active]
  /\ UNCHANGED <<creating, sess, proc>>

SessionOp(p) ==
  /\ \/ Send(p) \/ WriteInput(p) \/ Receipt(p)
     \/ Stop(p) \/ Interrupt(p) \/ Interrupted(p) \/ StopEnds(p)
     \/ SetEffort(p) \/ ApplyEffort(p) \/ Readback(p) \/ SetModel(p) \/ Rename(p)
  /\ asking[p].pc = "send" => asking[p].then # "send"
  /\ UNCHANGED creating

Request(p) ==
  /\ \/ SessionOp(p) \/ Create(p) \/ Start(p) \/ Started(p) \/ NextStep(p) \/ Made(p)
     \/ CloseIdle(p) \/ CloseInput(p) \/ Created(p) \/ Call(p)
  /\ UNCHANGED <<story, troubles>>

-----------------------------------------------------------------------------
(* consume(), handle(): one event of the native process; an approval it    *)
(* asks for is denied.                                                      *)

Resolve(s, a) == [sess[s] EXCEPT !.ctrls = @ \ {a.ctl}, !.answers = @ \cup {a}]

(* "Unexpected Claude input replay" and the other events that do not fit.   *)
Fits(s, e) ==
  CASE e.k = "replay" -> sess[s].active = e.client /\ ~sess[s].inputs[e.client].uuid
    [] e.k = "result" -> sess[s].active # None /\ sess[s].inputs[sess[s].active].uuid
    [] e.k = "garbled" -> FALSE
    [] e.k = "approval" -> proc[s].open /\ proc[s].alive
    [] OTHER -> TRUE

Handled(s, e) ==
  CASE e.k = "answer" ->
         IF e.a.ctl \in sess[s].ctrls THEN Resolve(s, e.a) ELSE sess[s]
    [] e.k = "approval" -> sess[s]
    [] e.k = "system" -> [sess[s] EXCEPT !.id = TRUE]
    [] e.k = "replay" ->
         [sess[s] EXCEPT !.id = TRUE, !.inputs[e.client] = [@ EXCEPT !.uuid = TRUE, !.done = "ok"]]
    [] OTHER ->
         [sess[s] EXCEPT !.active = None, !.inputs[sess[s].active].terminal = TRUE]

Consume(s) ==
  LET e == Head(proc[s].out) IN
  /\ proc[s].out # <<>>
  /\ proc' = [proc EXCEPT ![s].out = Tail(@),
                          ![s].in = IF e.k = "approval" /\ Fits(s, e) /\ ~sess[s].drain THEN Append(@, Line("deny", None)) ELSE @]
  /\ sess' = [sess EXCEPT ![s] = IF sess[s].drain THEN sess[s]
                                 ELSE IF Fits(s, e) THEN Handled(s, e)
                                 ELSE [sess[s] EXCEPT !.fenced = TRUE, !.drain = TRUE]]
  /\ UNCHANGED <<story, asking, creating, troubles>>

(* Mutant: only the control requests are told.                              *)
ExitedControls(r) ==
  [r EXCEPT !.exited = TRUE, !.ctrls = {},
            !.answers = @ \cup {[ctl |-> n, res |-> "ended", effort |-> "unknown"] : n \in r.ctrls}]

(* The stdout ended: whoever waits for an answer or a replay is told.       *)
Exited(r) ==
  [r EXCEPT !.exited = TRUE, !.ctrls = {},
            !.answers = @ \cup {[ctl |-> n, res |-> "ended", effort |-> "unknown"] : n \in r.ctrls},
            !.inputs = [c \in Inputs |-> IF c = r.active /\ ~r.inputs[c].uuid
                                          THEN [r.inputs[c] EXCEPT !.done = "failed"] ELSE r.inputs[c]]]

EndOfOutput(s) ==
  /\ ~proc[s].alive /\ proc[s].out = <<>> /\ ~sess[s].exited
  /\ sess' = [sess EXCEPT ![s] = Exited(sess[s])]
  /\ proc' = [proc EXCEPT ![s].open = FALSE]
  /\ UNCHANGED <<story, asking, creating, troubles>>

(* notify(): OnChange lists the session once its creation knows it.         *)
ListSession(s) ==
  /\ sess[s].id /\ ~sess[s].listed /\ \E c \in Inputs : creating[c].s = s
  /\ sess' = [sess EXCEPT ![s].listed = TRUE]
  /\ UNCHANGED <<story, asking, creating, proc, troubles>>

-----------------------------------------------------------------------------
(* The native process (external).                                           *)

Says(r, e) == [r EXCEPT !.out = Append(@, e)]
Reply(r, m, res) == Says(r, [k |-> "answer", a |-> [ctl |-> m.ctl, res |-> res, effort |-> r.effort]])
Emitted(k, c) == [k |-> k, client |-> c]

Take(s) ==
  LET r == proc[s]
      m == Head(r.in)
      rest == [r EXCEPT !.in = Tail(@)] IN
  /\ r.alive /\ r.in # <<>>
  /\ \/ /\ m.k = "input" /\ r.turn = None
        /\ proc' = [proc EXCEPT ![s] = Says([rest EXCEPT !.turn = m.client, !.took[m.client] = @ + 1],
                                            Emitted("replay", m.client))]
        /\ UNCHANGED troubles
     \/ /\ m.k = "interrupt"
        /\ LET hit == [Reply(rest, m, "ok") EXCEPT !.hits = @ \cup {<<m.client, r.turn>>}, !.turn = None] IN
             proc' = [proc EXCEPT ![s] = IF r.turn = None THEN hit ELSE Says(hit, Emitted("result", r.turn))]
        /\ UNCHANGED troubles
     \/ /\ m.k = "apply"
        /\ \/ proc' = [proc EXCEPT ![s] = Reply([rest EXCEPT !.effort = "high"], m, "ok")] /\ UNCHANGED troubles
           \/ proc' = [proc EXCEPT ![s] = Reply(rest, m, "ok")] /\ Strikes("override")
     \/ /\ m.k \in {"initialize", "get", "model", "title"}
        /\ proc' = [proc EXCEPT ![s] = Reply(rest, m, "ok")] /\ UNCHANGED troubles
     \/ /\ m.k = "deny"
        /\ proc' = [proc EXCEPT ![s] = rest] /\ UNCHANGED troubles
     \/ /\ m.k \notin {"input", "deny"} /\ Strikes("override")
        /\ proc' = [proc EXCEPT ![s] = Reply(rest, m, "rejected")]
  /\ UNCHANGED <<story, asking, creating, sess>>

Finish(s) ==
  /\ proc[s].alive /\ proc[s].turn # None /\ Strikes("finish")
  /\ proc' = [proc EXCEPT ![s] = Says([@ EXCEPT !.turn = None], Emitted("result", proc[s].turn))]
  /\ UNCHANGED <<story, asking, creating, sess>>

Trouble(s) ==
  /\ proc[s].alive
  /\ \/ Strikes("garble") /\ proc' = [proc EXCEPT ![s] = Says(@, Emitted("garbled", None))]
     \/ Strikes("ask") /\ proc' = [proc EXCEPT ![s] = Says(@, Emitted("approval", None))]
     \/ Strikes("early") /\ proc' = [proc EXCEPT ![s] = Says(@, Emitted("system", None))]
     \/ Strikes("exit") /\ proc' = [proc EXCEPT ![s].alive = FALSE, ![s].turn = None]
     \/ ~proc[s].open /\ proc[s].in = <<>> /\ proc[s].turn = None
        /\ proc' = [proc EXCEPT ![s].alive = FALSE] /\ UNCHANGED troubles
  /\ UNCHANGED <<story, asking, creating, sess>>

BrokerNext ==
  \/ \E p \in Requests : Request(p) \/ Cancelled(p)
  \/ \E s \in DOMAIN sess : Consume(s) \/ EndOfOutput(s) \/ ListSession(s) \/ Take(s) \/ Finish(s) \/ Trouble(s)

BrokerSpec == BrokerInit /\ [][BrokerNext]_brokerVars

-----------------------------------------------------------------------------
(* However often a client repeats a create or a send, its input reaches a   *)
(* native process at most once: "do not replay it" (Send, create).          *)
InputOnce ==
  \A c \in Inputs :
    /\ \A s \in DOMAIN proc : proc[s].took[c] <= 1
    /\ Cardinality({s \in DOMAIN proc : proc[s].took[c] > 0}) <= 1

(* Success is what the process did, once: a receipt for an input it took, a  *)
(* stop of a turn that was interrupted or had ended, an effort it really has *)
(* (native_controls.go:40).                                                  *)
AnsweredTruly ==
  /\ InputOnce
  /\ \A p \in Requests : asking[p].pc = "end" /\ asking[p].out = "ok" =>
       LET r == proc[asking[p].s] IN
       CASE Job(p).op \in {"create", "send"} -> r.took[Job(p).client] = 1
         [] Job(p).op = "stop" -> r.turn # asking[p].turn /\ \E h \in r.hits : h[1] = asking[p].turn
         [] OTHER -> TRUE
  /\ \A s \in DOMAIN sess : sess[s].effort # "unknown" => proc[s].effort = sess[s].effort

(* An interrupt never meets another turn than the one its client meant,      *)
(* although it is written after the check (Stop holds "controlling").        *)
StopHitsItsTurn == \A s \in DOMAIN proc : \A h \in proc[s].hits : h[2] \in {None, h[1]}

(* At most MaxLive executors work at a time, those being started included.   *)
Capacity ==
  Cardinality({s \in DOMAIN sess : Available(s) /\ proc[s].open}) +
  Cardinality({p \in Requests : asking[p].pc = "start"}) <= MaxLive

(* Once a process is gone nobody waits for its answer or its replay.         *)
NobodyWaitsOnTheDead ==
  \A p \in Requests : asking[p].s # 0 /\ S(p).exited =>
    /\ asking[p].pc \in {"starting", "interrupting", "applying", "reading", "choosing", "naming"} => AnswerTo(p) # {}
    /\ asking[p].pc = "receipt" => S(p).inputs[Job(p).client].done # "open"
=============================================================================
