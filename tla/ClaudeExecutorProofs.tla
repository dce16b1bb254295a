------------------------ MODULE ClaudeExecutorProofs ------------------------
(***************************************************************************)
(* Proofs about ClaudeExecutor, for any requests, inputs, stories and      *)
(* limits: success is what the process did, an interrupt meets no other    *)
(* turn, the executors stay within their limit and nobody waits for a      *)
(* process that is gone.                                                   *)
(***************************************************************************)
EXTENDS ClaudeExecutor, FiniteSetTheorems, FunctionTheorems, SequenceTheorems, TLAPS

Pcs == {"idle", "start", "starting", "made", "failed", "closing", "close", "created", "end",
        "send", "write", "receipt", "stop", "interrupt", "interrupting", "terminal",
        "effort", "apply", "applying", "readback", "reading", "model", "choose", "choosing",
        "rename", "name", "naming"}
Waiting == {"starting", "interrupting", "applying", "reading", "choosing", "naming"}
Stopping == {"interrupt", "interrupting", "terminal"}
Holding == Stopping \cup {"apply", "applying", "readback", "reading", "choose", "choosing", "name", "naming"}
Setting == {"effort", "apply", "applying", "readback", "reading"}
Turns == Inputs \cup {None}
Asking == [pc : Pcs, s : Nat, ctl : Nat, turn : Turns, then : {"end", "effort", "send", "made"},
           out : {"none", "ok", "error"}]
Creation == [known : BOOLEAN, s : Nat, done : BOOLEAN, err : BOOLEAN]
InputRecord == [in : BOOLEAN, uuid : BOOLEAN, done : {"open", "ok", "failed"}, terminal : BOOLEAN]
AnswerRecord == [ctl : Nat, res : {"ok", "rejected", "ended"}, effort : {"unknown", "low", "high"}]
Session == [id : BOOLEAN, listed : BOOLEAN, exited : BOOLEAN, fenced : BOOLEAN, drain : BOOLEAN,
            controlling : BOOLEAN, active : Turns, inputs : [Inputs -> InputRecord],
            effort : {"unknown", "high"}, title : BOOLEAN, ctrls : SUBSET Nat,
            answers : SUBSET AnswerRecord, count : Nat]
Lines == [k : {"initialize", "input", "interrupt", "apply", "get", "model", "title", "deny"}, ctl : Nat, client : Turns]
Events == [k : {"answer"}, a : AnswerRecord] \cup [k : {"replay", "result"}, client : Inputs]
          \cup [k : {"garbled", "approval", "system"}, client : {None}]
Process == [alive : BOOLEAN, open : BOOLEAN, in : Seq(Lines), out : Seq(Events), turn : Turns,
            effort : {"low", "high"}, took : [Inputs -> Nat], hits : SUBSET (Inputs \X Turns)]

Types ==
  /\ story \in Story /\ ForOneTask(story.jobs)
  /\ asking \in [Requests -> Asking] /\ creating \in [Inputs -> Creation]
  /\ sess \in Seq(Session) /\ proc \in Seq(Process) /\ Len(sess) = Len(proc)
  /\ \A p \in Requests : asking[p].s <= Len(sess)
  /\ \A c \in Inputs : creating[c].s <= Len(sess)
  /\ troubles \in [Troubles -> Nat]

(* Where a request can be.                                                  *)
Path(op) ==
  CASE op = "none" -> {"idle"}
    [] op = "send" -> {"idle", "send", "write", "receipt", "end"}
    [] op = "stop" -> {"idle", "stop", "end"} \cup Stopping
    [] op = "model" -> {"idle", "model", "choose", "choosing", "end"}
    [] op = "effort" -> {"idle", "end"} \cup Setting
    [] op = "rename" -> {"idle", "rename", "name", "naming", "end"}
    [] OTHER -> {"idle", "start", "starting", "send", "write", "receipt", "made", "failed", "closing", "close", "created", "end"}
                \cup Setting

Placed(c, j) ==
  /\ c.pc \in Path(j.op)
  /\ c.pc \notin {"idle", "start", "created", "end"} => c.s # 0
  /\ c.pc \in {"idle", "start"} => c = [IdleRequest EXCEPT !.pc = c.pc]
  /\ c.then # "end" => j.op = "create" /\ c.s # 0
  /\ c.pc = "starting" => c.then = IF j.effort THEN "effort" ELSE "send"
  /\ j.op = "create" /\ c.pc \in Setting => c.then = "send"
  /\ c.pc \in {"write", "receipt"} => c.then \in {"end", "made"}
  /\ c.pc \in {"made", "failed"} => c.then # "end"
  /\ c.pc = "send" => c.then # "effort"
  /\ c.pc = "end" /\ c.out = "ok" => c.s # 0

-----------------------------------------------------------------------------
(* What is on its way to and from the native process of a session.          *)
NoLine(q, k) == \A i \in 1..Len(q.in) : q.in[i].k # k
NoResult(q) == \A i \in 1..Len(q.out) : q.out[i].k # "result"
Hit(q, t) == \E h \in q.hits : h[1] = t
High(q, e) == e = "high" => q.effort = "high"
Closed(r) == r.fenced \/ r.exited

(* An input is taken once, for the turn that is active.                     *)
Expected(r, q, c) ==
  /\ c \in Inputs /\ r.inputs[c].in /\ r.active = c /\ ~r.inputs[c].uuid /\ q.took[c] = 0
  /\ NoResult(q) /\ NoLine(q, "interrupt")
InputLines(r, q) == \A i \in 1..Len(q.in) : q.in[i].k = "input" =>
  /\ Expected(r, q, q.in[i].client)
  /\ \A j \in 1..Len(q.in) : q.in[j].k = "input" => i = j
InterruptLines(r, q) == \A i \in 1..Len(q.in) : q.in[i].k = "interrupt" =>
  /\ q.in[i].client \in Inputs /\ q.turn \in {None, q.in[i].client}
  /\ r.controlling \/ Closed(r)
Turn(r, q) == q.turn # None => r.active = q.turn /\ q.took[q.turn] = 1 /\ NoResult(q)
Said(r, q) == \A i \in 1..Len(q.out) :
  /\ q.out[i].k = "replay" => q.took[q.out[i].client] = 1
  /\ q.out[i].k = "result" => /\ r.active = q.out[i].client /\ q.took[q.out[i].client] = 1
                              /\ \A j \in 1..Len(q.out) : q.out[j].k = "result" => i = j
  /\ q.out[i].k = "answer" => q.out[i].a.ctl <= r.count /\ High(q, q.out[i].a.effort) /\ q.out[i].a.res # "ended"
Taken(r, q) == \A c \in Inputs :
  /\ q.took[c] <= 1 /\ (q.took[c] = 1 => r.inputs[c].in)
  /\ r.inputs[c].uuid <=> r.inputs[c].done = "ok"
  /\ r.inputs[c].uuid => q.took[c] = 1
  /\ r.inputs[c].terminal => r.inputs[c].uuid /\ r.active # c
  /\ r.active = c => r.inputs[c].in
  /\ r.inputs[c].in /\ r.inputs[c].done = "open" => r.active = c /\ ~r.exited

(* A control is answered once, after the process took it.                   *)
Unanswered(r, q, n) ==
  /\ \A a \in r.answers : a.ctl = n => a.res = "ended"
  /\ \A i \in 1..Len(q.out) : q.out[i].k = "answer" => q.out[i].a.ctl # n
Controls(r, q) ==
  /\ \A i \in 1..Len(q.in) : LET n == q.in[i].ctl IN
       /\ n <= r.count /\ (n = 0 <=> q.in[i].k \in {"input", "deny"})
       /\ n # 0 => Unanswered(r, q, n) /\ \A j \in 1..Len(q.in) : q.in[j].ctl = n => i = j
  /\ \A n \in r.ctrls : n \in 1..r.count
  /\ \A a \in r.answers : a.ctl <= r.count /\ High(q, a.effort) /\ (a.res = "ended" => r.exited)
  /\ r.exited => r.ctrls = {}
  /\ High(q, r.effort)

Sound(r, q) == InputLines(r, q) /\ InterruptLines(r, q) /\ Turn(r, q) /\ Said(r, q) /\ Taken(r, q) /\ Controls(r, q)

-----------------------------------------------------------------------------
(* What a request can rely on in its session.                               *)
Truly(c, q) ==
  /\ \A i \in 1..Len(q.in) : q.in[i].ctl = c.ctl => q.in[i].k = "interrupt" /\ q.in[i].client = c.turn
  /\ \A i \in 1..Len(q.out) : q.out[i].k = "answer" /\ q.out[i].a.ctl = c.ctl /\ q.out[i].a.res = "ok" => Hit(q, c.turn)

Sends(c, j, r, q) ==
  /\ c.pc = "write" => Expected(r, q, j.client) /\ NoLine(q, "input")
  /\ c.pc = "receipt" => r.inputs[j.client].in
Waits(c, r) ==
  c.pc \in Waiting => c.ctl \in 1..r.count /\ (c.ctl \in r.ctrls \/ \E a \in r.answers : a.ctl = c.ctl)
Controlling(c, r, q) ==
  c.pc \in Holding =>
    /\ r.controlling
    /\ \A i \in 1..Len(q.in) : q.in[i].k = "interrupt" => Closed(r) \/ (c.pc = "interrupting" /\ q.in[i].ctl = c.ctl)
Stops(c, r, q) ==
  /\ c.pc \in Stopping => c.turn \in Inputs /\ r.inputs[c.turn].uuid
  /\ c.pc = "interrupt" => NoLine(q, "input") /\ q.turn \in {None, c.turn}
  /\ c.pc = "interrupting" =>
       /\ Truly(c, q)
       /\ \A a \in r.answers : a.ctl = c.ctl /\ a.res = "ok" => Hit(q, c.turn)
  /\ c.pc = "terminal" => Hit(q, c.turn)
Ends(c, j, r, q) ==
  c.pc = "end" /\ c.out = "ok" =>
    /\ j.op \in {"create", "send"} => q.took[j.client] = 1
    /\ j.op = "stop" => c.turn \in Inputs /\ r.inputs[c.turn].terminal /\ Hit(q, c.turn)

Served(c, j, r, q) == Sends(c, j, r, q) /\ Waits(c, r) /\ Controlling(c, r, q) /\ Stops(c, r, q) /\ Ends(c, j, r, q)

(* Two requests of one session.                                             *)
Together(c, d) ==
  /\ ~(c.pc \in Holding /\ d.pc \in Holding)
  /\ ~(c.pc = "write" /\ d.pc = "write")
  /\ ~(c.pc = "interrupt" /\ d.pc = "write")
  /\ c.pc # "starting"
Apart == \A p, o \in Requests : p # o /\ asking[p].s = asking[o].s /\ asking[p].s # 0 => Together(asking[p], asking[o])

Flow ==
  /\ \A s \in 1..Len(sess) : Sound(sess[s], proc[s])
  /\ \A p \in Requests : asking[p].s # 0 => Served(asking[p], Job(p), sess[asking[p].s], proc[asking[p].s])
  /\ Apart

-----------------------------------------------------------------------------
(* The creations, and who makes them.                                       *)
Making(c) == c.pc = "start" \/ (c.then # "end" /\ c.pc \notin {"closing", "close", "created", "end"})
Creates(p) == Job(p).op = "create"
Of(p) == creating[Job(p).client]

Recorded == \A c \in Inputs :
  /\ ~creating[c].known => creating[c] = NoCreation
  /\ creating[c].done /\ ~creating[c].err => creating[c].s # 0
  /\ creating[c].err => creating[c].done
Makes(p) ==
  /\ Making(asking[p]) => Of(p).known /\ ~Of(p).done
  /\ asking[p].then # "end" /\ ~Making(asking[p]) => Of(p).done
  /\ asking[p].pc \in {"start", "starting"} => Of(p).s = 0
  /\ asking[p].pc = "starting" => ~sess[asking[p].s].listed /\ \A c \in Inputs : creating[c].s # asking[p].s
  /\ asking[p].s # 0 => Of(p).known /\ Of(p).s \in {0, asking[p].s}
  /\ asking[p].s # 0 /\ Of(p).s = 0 => asking[p].pc = "starting" \/ ~proc[asking[p].s].open
  /\ asking[p].pc \in Setting \cup {"send", "write", "receipt", "made"} => Of(p).s = asking[p].s
Rivals(p, o) ==
  Job(p).client = Job(o).client =>
    /\ ~(Making(asking[p]) /\ Making(asking[o]))
    /\ asking[p].s # 0 => asking[o].pc # "start" /\ asking[o].s \in {0, asking[p].s}
Makers ==
  /\ Recorded
  /\ \A p \in Requests : Creates(p) => Makes(p)
  /\ \A p, o \in Requests : p # o /\ Creates(p) /\ Creates(o) => Rivals(p, o)
  /\ \A s \in 1..Len(sess) : \E p \in Requests : Creates(p) /\ asking[p].s = s
  /\ \A s \in 1..Len(sess) : sess[s].listed => \E c \in Inputs : creating[c].s = s
Homes == \A s \in 1..Len(sess), c \in Inputs : sess[s].inputs[c].in =>
  \/ creating[c].s = s /\ \E p \in Requests : Creates(p) /\ Job(p).client = c
  \/ \E p \in Requests : Job(p).op = "send" /\ Job(p).client = c /\ asking[p].s = s
Limit == Cardinality({c \in Inputs : Counted(c)}) <= MaxLive

Inv == Types /\ (\A p \in Requests : Placed(asking[p], Job(p))) /\ Flow /\ Makers /\ Homes /\ Limit

-----------------------------------------------------------------------------
(* Sequences that lost at most their head, or got one element more.         *)
Jobs == [op : BrokerOps, client : Inputs, effort : BOOLEAN]
Within(x, y) ==
  \E k \in {0, 1} : /\ Len(x) = Len(y) - k
                    /\ \A i \in 1..Len(x) : i + k \in 1..Len(y) /\ x[i] = y[i + k]
Longer(x, y, e) ==
  /\ Len(x) = Len(y) + 1 /\ Len(y) \in Nat /\ x[Len(y) + 1] = e
  /\ \A i \in 1..Len(y) : x[i] = y[i]
  /\ \A i \in 1..Len(x) : i \in 1..Len(y) \/ i = Len(y) + 1

LEMMA TailWithin ==
  ASSUME NEW T, NEW x \in Seq(T), x # << >>
  PROVE  /\ Within(Tail(x), x) /\ Tail(x) \in Seq(T) /\ Head(x) = x[1] /\ 1 \in 1..Len(x) /\ Head(x) \in T
         /\ Len(Tail(x)) = Len(x) - 1
         /\ \A i \in 1..Len(Tail(x)) : i + 1 \in 1..Len(x) /\ Tail(x)[i] = x[i + 1]
<1>1. /\ Tail(x) \in Seq(T) /\ Len(Tail(x)) = Len(x) - 1 /\ Len(x) \in Nat \ {0}
      /\ \A i \in 1..Len(Tail(x)) : Tail(x)[i] = x[i + 1]
      /\ Head(x) = x[1] /\ Head(x) \in T
  OBVIOUS
<1>2. \A i \in 1..Len(Tail(x)) : i + 1 \in 1..Len(x)
  BY <1>1
<1>3. Within(Tail(x), x)
  <2> SUFFICES \E k \in {0, 1} : /\ Len(Tail(x)) = Len(x) - k
                                  /\ \A i \in 1..Len(Tail(x)) : i + k \in 1..Len(x) /\ Tail(x)[i] = x[i + k]
    BY DEF Within
  <2> WITNESS 1 \in {0, 1}
  <2> QED BY <1>1, <1>2
<1> QED BY <1>1, <1>2, <1>3

LEMMA SameWithin == ASSUME NEW T, NEW x \in Seq(T) PROVE Within(x, x)
<1>1. Len(x) \in Nat
  OBVIOUS
<1> QED BY <1>1 DEF Within

LEMMA AppendLonger ==
  ASSUME NEW T, NEW x \in Seq(T), NEW e \in T
  PROVE  Longer(Append(x, e), x, e) /\ Append(x, e) \in Seq(T)
<1>1. /\ Append(x, e) \in Seq(T) /\ Len(Append(x, e)) = Len(x) + 1 /\ Len(x) \in Nat
      /\ Append(x, e)[Len(x) + 1] = e
      /\ \A i \in 1..Len(x) : Append(x, e)[i] = x[i]
  OBVIOUS
<1>2. \A i \in 1..Len(x) + 1 : i \in 1..Len(x) \/ i = Len(x) + 1
  BY <1>1
<1> QED BY <1>1, <1>2 DEF Longer

(* Everything that is said of a process holds of one with less on its way.  *)
LEMMA Less ==
  ASSUME NEW r \in Session, NEW q \in Process, NEW w \in Process, Sound(r, q),
         Within(w.in, q.in), Within(w.out, q.out), w.turn \in {q.turn, None}, w.took = q.took,
         q.hits \subseteq w.hits, w.effort \in {q.effort, "high"}
  PROVE  /\ Sound(r, w)
         /\ \A d \in Asking, j \in Jobs : Served(d, j, r, q) => Served(d, j, r, w)
<1>1. PICK k \in {0, 1} : /\ Len(w.in) = Len(q.in) - k
                          /\ \A i \in 1..Len(w.in) : i + k \in 1..Len(q.in) /\ w.in[i] = q.in[i + k]
  BY DEF Within
<1>2. PICK l \in {0, 1} : /\ Len(w.out) = Len(q.out) - l
                          /\ \A i \in 1..Len(w.out) : i + l \in 1..Len(q.out) /\ w.out[i] = q.out[i + l]
  BY DEF Within
<1>3. /\ \A x : NoLine(q, x) => NoLine(w, x)
      /\ NoResult(q) => NoResult(w)
      /\ \A x : High(q, x) => High(w, x)
      /\ \A t : Hit(q, t) => Hit(w, t)
      /\ \A n : Unanswered(r, q, n) => Unanswered(r, w, n)
      /\ \A c : Expected(r, q, c) => Expected(r, w, c)
  BY <1>1, <1>2, ZenonT(40) DEF NoLine, NoResult, High, Hit, Unanswered, Expected
<1>4. InputLines(r, w)
  <2> SUFFICES ASSUME NEW i \in 1..Len(w.in), w.in[i].k = "input"
               PROVE  /\ Expected(r, w, w.in[i].client)
                      /\ \A j \in 1..Len(w.in) : w.in[j].k = "input" => i = j
    BY DEF InputLines
  <2>1. i + k \in 1..Len(q.in) /\ q.in[i + k] = w.in[i]
    BY <1>1
  <2>2. /\ Expected(r, q, w.in[i].client)
        /\ \A j \in 1..Len(q.in) : q.in[j].k = "input" => i + k = j
    BY <2>1 DEF Sound, InputLines
  <2>3. Expected(r, w, w.in[i].client)
    BY <1>3, <2>2
  <2>4. \A j \in 1..Len(w.in) : w.in[j].k = "input" => i = j
    BY <1>1, <2>1, <2>2, SMTT(40)
  <2> QED BY <2>3, <2>4
<1>5. InterruptLines(r, w)
  BY <1>1 DEF Sound, InterruptLines
<1>6. Turn(r, w) /\ Taken(r, w)
  BY <1>3 DEF Sound, Turn, Taken
<1>7. Said(r, w)
  <2> SUFFICES ASSUME NEW i \in 1..Len(w.out) PROVE
        /\ w.out[i].k = "replay" => w.took[w.out[i].client] = 1
        /\ w.out[i].k = "result" => /\ r.active = w.out[i].client /\ w.took[w.out[i].client] = 1
                                    /\ \A j \in 1..Len(w.out) : w.out[j].k = "result" => i = j
        /\ w.out[i].k = "answer" => w.out[i].a.ctl <= r.count /\ High(w, w.out[i].a.effort) /\ w.out[i].a.res # "ended"
    BY DEF Said
  <2>1. i + l \in 1..Len(q.out) /\ w.out[i] = q.out[i + l]
    BY <1>2
  <2>2. /\ q.out[i + l].k = "result" => \A j \in 1..Len(q.out) : q.out[j].k = "result" => i + l = j
        /\ q.out[i + l].k = "replay" => q.took[q.out[i + l].client] = 1
        /\ q.out[i + l].k = "result" => r.active = q.out[i + l].client /\ q.took[q.out[i + l].client] = 1
        /\ q.out[i + l].k = "answer" => q.out[i + l].a.ctl <= r.count /\ High(q, q.out[i + l].a.effort) /\ q.out[i + l].a.res # "ended"
    BY <2>1 DEF Sound, Said
  <2>3. w.out[i].k = "result" => \A j \in 1..Len(w.out) : w.out[j].k = "result" => i = j
    BY <1>2, <2>1, <2>2
  <2> QED BY <1>3, <2>1, <2>2, <2>3
<1>8. Controls(r, w)
  <2>1. ASSUME NEW i \in 1..Len(w.in) PROVE
          LET n == w.in[i].ctl IN
          /\ n <= r.count /\ (n = 0 <=> w.in[i].k \in {"input", "deny"})
          /\ n # 0 => Unanswered(r, w, n) /\ \A j \in 1..Len(w.in) : w.in[j].ctl = n => i = j
    <3> DEFINE n == w.in[i].ctl
    <3>1. i + k \in 1..Len(q.in) /\ q.in[i + k] = w.in[i]
      BY <1>1
    <3>2. /\ n <= r.count /\ (n = 0 <=> w.in[i].k \in {"input", "deny"})
          /\ n # 0 => Unanswered(r, q, n) /\ \A j \in 1..Len(q.in) : q.in[j].ctl = n => i + k = j
      BY <3>1 DEF Sound, Controls
    <3>3. n # 0 => \A j \in 1..Len(w.in) : w.in[j].ctl = n => i = j
      BY <1>1, <3>2
    <3> QED BY <1>3, <3>2, <3>3
  <2> QED BY <1>3, <2>1 DEF Sound, Controls
<1>9. ASSUME NEW d \in Asking, NEW j \in Jobs, Served(d, j, r, q) PROVE Served(d, j, r, w)
  <2>1. Sends(d, j, r, w) /\ Ends(d, j, r, w) /\ Waits(d, r)
    BY <1>3, <1>9 DEF Served, Sends, Ends
  <2>2. Controlling(d, r, w)
    BY <1>1, <1>9 DEF Served, Controlling
  <2>3. Truly(d, q) => Truly(d, w)
    BY <1>1, <1>2, <1>3, ZenonT(40) DEF Truly
  <2>4. Stops(d, r, w)
    BY <1>3, <1>9, <2>3 DEF Served, Stops
  <2> QED BY <2>1, <2>2, <2>4 DEF Served
<1> QED BY <1>4, <1>5, <1>6, <1>7, <1>8, <1>9 DEF Sound

-----------------------------------------------------------------------------
(* What the process writes, and what is written to it.                      *)
LEMMA SaysMore ==
  ASSUME NEW r \in Session, NEW q \in Process, NEW w \in Process, NEW e \in Events, Sound(r, q),
         Longer(w.out, q.out, e), w.in = q.in, w.turn = q.turn, w.took = q.took, w.hits = q.hits, w.effort = q.effort,
         e.k = "replay" => q.took[e.client] = 1,
         e.k = "result" => r.active = e.client /\ q.took[e.client] = 1 /\ q.turn = None /\ NoResult(q) /\ NoLine(q, "input"),
         e.k = "answer" => /\ e.a.ctl <= r.count /\ High(q, e.a.effort) /\ e.a.res # "ended"
                           /\ \A i \in 1..Len(q.in) : q.in[i].ctl # 0 => q.in[i].ctl # e.a.ctl
  PROVE  /\ Sound(r, w)
         /\ \A d \in Asking, j \in Jobs :
              Served(d, j, r, q) /\ (e.k = "result" => d.pc # "write")
                /\ (e.k = "answer" /\ e.a.res = "ok" /\ d.pc = "interrupting" /\ d.ctl = e.a.ctl => Hit(q, d.turn))
              => Served(d, j, r, w)
<1>1. /\ Len(w.out) = Len(q.out) + 1 /\ Len(q.out) \in Nat /\ w.out[Len(q.out) + 1] = e
      /\ \A i \in 1..Len(q.out) : w.out[i] = q.out[i]
      /\ \A i \in 1..Len(w.out) : i \in 1..Len(q.out) \/ i = Len(q.out) + 1
  BY DEF Longer
<1>2. /\ \A x : NoLine(q, x) <=> NoLine(w, x)
      /\ NoResult(q) /\ e.k # "result" => NoResult(w)
      /\ \A x : High(q, x) <=> High(w, x)
      /\ \A t : Hit(q, t) <=> Hit(w, t)
  BY <1>1 DEF NoLine, NoResult, High, Hit
<1>3. \A c : Expected(r, q, c) /\ e.k # "result" => Expected(r, w, c)
  BY <1>2 DEF Expected
<1>4. InputLines(r, w)
  BY <1>3 DEF Sound, InputLines, NoLine
<1>5. InterruptLines(r, w)
  BY DEF Sound, InterruptLines
<1>6. Turn(r, w) /\ Taken(r, w)
  BY <1>2 DEF Sound, Turn, Taken
<1>7. Said(r, w)
  <2>1. ASSUME NEW i \in 1..Len(w.out), w.out[i].k = "replay" PROVE w.took[w.out[i].client] = 1
    BY <1>1, <2>1 DEF Sound, Said
  <2>2. ASSUME NEW i \in 1..Len(w.out), w.out[i].k = "result"
        PROVE  /\ r.active = w.out[i].client /\ w.took[w.out[i].client] = 1
               /\ \A j \in 1..Len(w.out) : w.out[j].k = "result" => i = j
    <3>1. CASE e.k = "result"
      <4>1. \A j \in 1..Len(w.out) : w.out[j].k = "result" => j = Len(q.out) + 1
        BY <1>1, <3>1 DEF NoResult
      <4> QED BY <1>1, <2>2, <3>1, <4>1
    <3>2. CASE e.k # "result"
      <4>1. \A j \in 1..Len(w.out) : w.out[j].k = "result" => j \in 1..Len(q.out) /\ w.out[j] = q.out[j]
        BY <1>1, <3>2
      <4>2. i \in 1..Len(q.out) /\ w.out[i] = q.out[i] /\ q.out[i].k = "result"
        BY <2>2, <4>1
      <4>3. /\ r.active = q.out[i].client /\ q.took[q.out[i].client] = 1
            /\ \A j \in 1..Len(q.out) : q.out[j].k = "result" => i = j
        BY <4>2 DEF Sound, Said
      <4> QED BY <4>1, <4>2, <4>3
    <3> QED BY <3>1, <3>2
  <2>3. ASSUME NEW i \in 1..Len(w.out), w.out[i].k = "answer"
        PROVE  w.out[i].a.ctl <= r.count /\ High(w, w.out[i].a.effort) /\ w.out[i].a.res # "ended"
    BY <1>1, <1>2, <2>3, ZenonT(40) DEF Sound, Said
  <2> QED BY <2>1, <2>2, <2>3 DEF Said
<1>8. Controls(r, w)
  <2>1. ASSUME NEW i \in 1..Len(w.in) PROVE
          LET n == w.in[i].ctl IN
          /\ n <= r.count /\ (n = 0 <=> w.in[i].k \in {"input", "deny"})
          /\ n # 0 => Unanswered(r, w, n) /\ \A j \in 1..Len(w.in) : w.in[j].ctl = n => i = j
    <3> DEFINE n == w.in[i].ctl
    <3>1. /\ n <= r.count /\ (n = 0 <=> w.in[i].k \in {"input", "deny"})
          /\ n # 0 => Unanswered(r, q, n) /\ \A j \in 1..Len(q.in) : q.in[j].ctl = n => i = j
      BY DEF Sound, Controls
    <3>2. n # 0 => Unanswered(r, w, n)
      BY <1>1, <3>1, SMTT(40) DEF Unanswered
    <3> QED BY <3>1, <3>2
  <2> QED BY <1>2, <2>1 DEF Sound, Controls
<1>9. ASSUME NEW d \in Asking, NEW j \in Jobs, Served(d, j, r, q), e.k = "result" => d.pc # "write",
             e.k = "answer" /\ e.a.res = "ok" /\ d.pc = "interrupting" /\ d.ctl = e.a.ctl => Hit(q, d.turn)
      PROVE  Served(d, j, r, w)
  <2>1. Sends(d, j, r, w) /\ Ends(d, j, r, w) /\ Waits(d, r)
    BY <1>2, <1>3, <1>9 DEF Served, Sends, Ends
  <2>2. Controlling(d, r, w)
    BY <1>9 DEF Served, Controlling
  <2>3. d.pc = "interrupting" /\ Truly(d, q) => Truly(d, w)
    BY <1>1, <1>2, <1>9, SMTT(40) DEF Truly
  <2>4. Stops(d, r, w)
    BY <1>2, <1>9, <2>3 DEF Served, Stops
  <2> QED BY <2>1, <2>2, <2>4 DEF Served
<1> QED BY <1>4, <1>5, <1>6, <1>7, <1>8, <1>9 DEF Sound

LEMMA GetsMore ==
  ASSUME NEW r \in Session, NEW q \in Process, NEW w \in Process, NEW m \in Lines, Sound(r, q),
         Longer(w.in, q.in, m), w.out = q.out, w.turn = q.turn, w.took = q.took, w.hits = q.hits, w.effort = q.effort,
         m.k = "input" => Expected(r, q, m.client) /\ NoLine(q, "input"),
         m.k = "interrupt" => m.client \in Inputs /\ q.turn \in {None, m.client} /\ (r.controlling \/ Closed(r)) /\ NoLine(q, "input"),
         m.ctl <= r.count, m.ctl = 0 <=> m.k \in {"input", "deny"},
         m.ctl # 0 => Unanswered(r, q, m.ctl) /\ \A i \in 1..Len(q.in) : q.in[i].ctl # m.ctl
  PROVE  /\ Sound(r, w)
         /\ \A d \in Asking, j \in Jobs :
              /\ Served(d, j, r, q)
              /\ m.k = "input" => d.pc # "write" /\ d.pc # "interrupt"
              /\ m.k = "interrupt" => d.pc # "write" /\ (d.pc \in Holding => d.pc = "interrupting" /\ m.ctl = d.ctl)
              /\ d.pc = "interrupting" /\ d.ctl = m.ctl => m.k = "interrupt" /\ m.client = d.turn
              => Served(d, j, r, w)
<1>1. /\ Len(w.in) = Len(q.in) + 1 /\ Len(q.in) \in Nat /\ w.in[Len(q.in) + 1] = m
      /\ \A i \in 1..Len(q.in) : w.in[i] = q.in[i]
      /\ \A i \in 1..Len(w.in) : i \in 1..Len(q.in) \/ i = Len(q.in) + 1
  BY DEF Longer
<1>2. /\ \A x : NoLine(q, x) /\ m.k # x => NoLine(w, x)
      /\ NoResult(q) <=> NoResult(w)
      /\ \A x : High(q, x) <=> High(w, x)
      /\ \A t : Hit(q, t) <=> Hit(w, t)
      /\ \A n : Unanswered(r, q, n) <=> Unanswered(r, w, n)
  BY <1>1 DEF NoLine, NoResult, High, Hit, Unanswered
<1>3. \A c : Expected(r, q, c) /\ m.k # "interrupt" => Expected(r, w, c)
  BY <1>2 DEF Expected
<1>4. InputLines(r, w)
  <2> SUFFICES ASSUME NEW i \in 1..Len(w.in), w.in[i].k = "input"
               PROVE  /\ Expected(r, w, w.in[i].client)
                      /\ \A j \in 1..Len(w.in) : w.in[j].k = "input" => i = j
    BY DEF InputLines
  <2>1. CASE m.k = "input"
    <3>1. \A j \in 1..Len(w.in) : w.in[j].k = "input" => j = Len(q.in) + 1
      BY <1>1, <2>1 DEF NoLine
    <3> QED BY <1>1, <1>3, <2>1, <3>1
  <2>2. CASE m.k # "input"
    <3>1. \A j \in 1..Len(w.in) : w.in[j].k = "input" => j \in 1..Len(q.in) /\ w.in[j] = q.in[j]
      BY <1>1, <2>2
    <3>2. /\ Expected(r, q, q.in[i].client)
          /\ \A j \in 1..Len(q.in) : q.in[j].k = "input" => i = j
      BY <3>1 DEF Sound, InputLines
    <3>3. m.k # "interrupt"
      BY <3>1 DEF NoLine
    <3> QED BY <1>3, <3>1, <3>2, <3>3
  <2> QED BY <2>1, <2>2
<1>5. InterruptLines(r, w)
  BY <1>1 DEF Sound, InterruptLines
<1>6. Turn(r, w) /\ Taken(r, w) /\ Said(r, w)
  BY <1>2 DEF Sound, Turn, Taken, Said
<1>8. Controls(r, w)
  <2>1. ASSUME NEW i \in 1..Len(w.in) PROVE
          LET n == w.in[i].ctl IN
          /\ n <= r.count /\ (n = 0 <=> w.in[i].k \in {"input", "deny"})
          /\ n # 0 => Unanswered(r, w, n) /\ \A j \in 1..Len(w.in) : w.in[j].ctl = n => i = j
    <3> DEFINE n == w.in[i].ctl
    <3>1. CASE i = Len(q.in) + 1
      <4>1. n = m.ctl /\ w.in[i] = m
        BY <1>1, <3>1
      <4>2. n # 0 => \A j \in 1..Len(w.in) : w.in[j].ctl = n => i = j
        BY <1>1, <3>1, <4>1
      <4> QED BY <1>2, <4>1, <4>2
    <3>2. CASE i \in 1..Len(q.in)
      <4>1. n = q.in[i].ctl /\ w.in[i] = q.in[i]
        BY <1>1, <3>2
      <4>2. /\ n <= r.count /\ (n = 0 <=> w.in[i].k \in {"input", "deny"})
            /\ n # 0 => Unanswered(r, q, n) /\ \A j \in 1..Len(q.in) : q.in[j].ctl = n => i = j
        BY <3>2, <4>1 DEF Sound, Controls
      <4>3. n # 0 => \A j \in 1..Len(w.in) : w.in[j].ctl = n => i = j
        BY <1>1, <3>2, <4>1, <4>2
      <4> QED BY <1>2, <4>2, <4>3
    <3> QED BY <1>1, <3>1, <3>2
  <2> QED BY <1>2, <2>1 DEF Sound, Controls
<1>9. ASSUME NEW d \in Asking, NEW j \in Jobs, Served(d, j, r, q),
             m.k = "input" => d.pc # "write" /\ d.pc # "interrupt",
             m.k = "interrupt" => d.pc # "write" /\ (d.pc \in Holding => d.pc = "interrupting" /\ m.ctl = d.ctl),
             d.pc = "interrupting" /\ d.ctl = m.ctl => m.k = "interrupt" /\ m.client = d.turn
      PROVE  Served(d, j, r, w)
  <2>1. Sends(d, j, r, w)
    BY <1>2, <1>3, <1>9 DEF Served, Sends
  <2>2. Ends(d, j, r, w) /\ Waits(d, r)
    BY <1>2, <1>9 DEF Served, Ends
  <2>3. Controlling(d, r, w)
    BY <1>1, <1>9 DEF Served, Controlling
  <2>4. d.pc = "interrupting" /\ Truly(d, q) => Truly(d, w)
    BY <1>1, <1>2, <1>9, SMTT(40) DEF Truly
  <2>5. Stops(d, r, w)
    BY <1>2, <1>9, <2>4 DEF Served, Stops
  <2> QED BY <2>1, <2>2, <2>3, <2>5 DEF Served
<1> QED BY <1>4, <1>5, <1>6, <1>8, <1>9 DEF Sound

-----------------------------------------------------------------------------
(* What changes in the session record.                                      *)
LEMMA Flags ==
  ASSUME NEW r \in Session, NEW q \in Process, NEW w \in Session, Sound(r, q),
         w.inputs = r.inputs, w.active = r.active, w.answers = r.answers, w.ctrls = r.ctrls, w.count = r.count,
         w.exited = r.exited, r.fenced => w.fenced, High(q, w.effort),
         r.controlling => w.controlling \/ Closed(w) \/ NoLine(q, "interrupt")
  PROVE  /\ Sound(w, q)
         /\ \A d \in Asking, j \in Jobs : Served(d, j, r, q) /\ (d.pc \in Holding => w.controlling) => Served(d, j, w, q)
<1>1. /\ \A c : Expected(r, q, c) <=> Expected(w, q, c)
      /\ \A n : Unanswered(r, q, n) <=> Unanswered(w, q, n)
      /\ Closed(r) => Closed(w)
  BY DEF Expected, Unanswered, Closed
<1>2. InputLines(w, q)
  BY <1>1 DEF Sound, InputLines
<1>3. InterruptLines(w, q)
  BY <1>1 DEF Sound, InterruptLines, NoLine
<1>4. Turn(w, q) /\ Said(w, q) /\ Taken(w, q)
  BY DEF Sound, Turn, Said, Taken
<1>5. Controls(w, q)
  BY <1>1 DEF Sound, Controls
<1>6. ASSUME NEW d \in Asking, NEW j \in Jobs, Served(d, j, r, q), d.pc \in Holding => w.controlling PROVE Served(d, j, w, q)
  <2>1. Sends(d, j, w, q) /\ Ends(d, j, w, q) /\ Waits(d, w)
    BY <1>1, <1>6 DEF Served, Sends, Ends, Waits
  <2>2. Controlling(d, w, q)
    BY <1>1, <1>6 DEF Served, Controlling
  <2>3. Stops(d, w, q)
    BY <1>6 DEF Served, Stops
  <2> QED BY <2>1, <2>2, <2>3 DEF Served
<1> QED BY <1>2, <1>3, <1>4, <1>5, <1>6 DEF Sound

(* A control is numbered and registered.                                    *)
LEMMA Registers ==
  ASSUME NEW r \in Session, NEW q \in Process, NEW w \in Session, Sound(r, q), ~r.exited,
         w.inputs = r.inputs, w.active = r.active, w.answers = r.answers, w.exited = r.exited, w.fenced = r.fenced,
         w.effort = r.effort, w.controlling = r.controlling,
         w.count = r.count + 1, w.ctrls = r.ctrls \cup {w.count}
  PROVE  /\ Sound(w, q) /\ Unanswered(w, q, w.count) /\ \A i \in 1..Len(q.in) : q.in[i].ctl # w.count
         /\ \A d \in Asking, j \in Jobs : Served(d, j, r, q) => Served(d, j, w, q)
<1>0. r.count \in Nat /\ w.count \in Nat /\ \A a \in r.answers : a.ctl \in Nat
  BY DEF Session, AnswerRecord
<1>1. /\ \A c : Expected(r, q, c) <=> Expected(w, q, c)
      /\ \A n : Unanswered(r, q, n) <=> Unanswered(w, q, n)
      /\ Closed(r) <=> Closed(w)
  BY DEF Expected, Unanswered, Closed
<1>2. InputLines(w, q)
  BY <1>1 DEF Sound, InputLines
<1>3. InterruptLines(w, q)
  BY <1>1 DEF Sound, InterruptLines, NoLine
<1>4. Turn(w, q) /\ Taken(w, q)
  BY DEF Sound, Turn, Taken
<1>5. \A i \in 1..Len(q.out) : q.out[i].k = "answer" => q.out[i].a.ctl <= r.count /\ q.out[i].a.ctl \in Nat
  <2> SUFFICES ASSUME NEW i \in 1..Len(q.out), q.out[i].k = "answer" PROVE q.out[i].a.ctl <= r.count /\ q.out[i].a.ctl \in Nat
    OBVIOUS
  <2>1. q.out[i] \in Events
    BY DEF Process
  <2>2. q.out[i].a \in AnswerRecord
    BY <2>1 DEF Events
  <2> QED BY <2>2 DEF Sound, Said, AnswerRecord
<1>6. \A i \in 1..Len(q.in) : q.in[i].ctl <= r.count /\ q.in[i].ctl \in Nat
  <2> SUFFICES ASSUME NEW i \in 1..Len(q.in) PROVE q.in[i].ctl <= r.count /\ q.in[i].ctl \in Nat
    OBVIOUS
  <2>1. q.in[i] \in Lines
    BY DEF Process
  <2> QED BY <2>1 DEF Sound, Controls, Lines
<1>7. Said(w, q)
  BY <1>0, <1>5 DEF Sound, Said
<1>8. Controls(w, q)
  <2>1. \A i \in 1..Len(q.in) : q.in[i].ctl <= w.count
    BY <1>0, <1>6
  <2>2. \A n \in w.ctrls : n \in 1..w.count
    BY <1>0 DEF Sound, Controls
  <2>3. \A a \in w.answers : a.ctl <= w.count
    BY <1>0 DEF Sound, Controls
  <2> QED BY <1>1, <2>1, <2>2, <2>3 DEF Sound, Controls
<1>9. Unanswered(w, q, w.count) /\ \A i \in 1..Len(q.in) : q.in[i].ctl # w.count
  <2>1. \A a \in r.answers : a.ctl # w.count
    BY <1>0 DEF Sound, Controls
  <2>2. \A i \in 1..Len(q.out) : q.out[i].k = "answer" => q.out[i].a.ctl # w.count
    BY <1>0, <1>5
  <2> QED BY <1>0, <1>6, <2>1, <2>2 DEF Unanswered
<1>10. ASSUME NEW d \in Asking, NEW j \in Jobs, Served(d, j, r, q) PROVE Served(d, j, w, q)
  <2>1. Sends(d, j, w, q) /\ Ends(d, j, w, q)
    BY <1>1, <1>10 DEF Served, Sends, Ends
  <2>2. Waits(d, w)
    BY <1>0, <1>10 DEF Served, Waits
  <2>3. Controlling(d, w, q)
    BY <1>1, <1>10 DEF Served, Controlling
  <2>4. Stops(d, w, q)
    BY <1>10 DEF Served, Stops
  <2> QED BY <2>1, <2>2, <2>3, <2>4 DEF Served
<1> QED BY <1>2, <1>3, <1>4, <1>7, <1>8, <1>9, <1>10 DEF Sound

(* An answer that the process wrote reaches its control.                    *)
LEMMA Resolves ==
  ASSUME NEW r \in Session, NEW q \in Process, NEW w \in Session, Sound(r, q), NEW i \in 1..Len(q.out), NEW a \in AnswerRecord,
         q.out[i].k = "answer", q.out[i].a = a, a.ctl \in r.ctrls,
         w.inputs = r.inputs, w.active = r.active, w.exited = r.exited, w.fenced = r.fenced,
         w.effort = r.effort, w.controlling = r.controlling, w.count = r.count,
         w.ctrls = r.ctrls \ {a.ctl}, w.answers = r.answers \cup {a}
  PROVE  /\ Sound(w, q)
         /\ \A d \in Asking, j \in Jobs : Served(d, j, r, q) => Served(d, j, w, q)
<1>0. /\ a.ctl \in 1..r.count /\ High(q, a.effort) /\ a.res # "ended"
      /\ \A k \in 1..Len(q.in) : q.in[k].ctl # a.ctl
  <2>1. a.ctl \in 1..r.count /\ High(q, a.effort) /\ a.res # "ended"
    BY DEF Sound, Said, Controls
  <2>2. ASSUME NEW k \in 1..Len(q.in), q.in[k].ctl = a.ctl PROVE FALSE
    <3>1. a.ctl # 0
      BY <2>1
    <3> QED BY <2>2, <3>1 DEF Sound, Controls, Unanswered
  <2> QED BY <2>1, <2>2
<1>1. /\ \A c : Expected(r, q, c) <=> Expected(w, q, c)
      /\ \A n : Unanswered(r, q, n) /\ n # a.ctl => Unanswered(w, q, n)
      /\ Closed(r) <=> Closed(w)
  BY DEF Expected, Unanswered, Closed
<1>2. InputLines(w, q)
  BY <1>1 DEF Sound, InputLines
<1>3. InterruptLines(w, q)
  BY <1>1 DEF Sound, InterruptLines
<1>4. Turn(w, q) /\ Taken(w, q) /\ Said(w, q)
  BY DEF Sound, Turn, Taken, Said
<1>5. Controls(w, q)
  BY <1>0, <1>1 DEF Sound, Controls
<1>6. ASSUME NEW d \in Asking, NEW j \in Jobs, Served(d, j, r, q) PROVE Served(d, j, w, q)
  <2>1. Sends(d, j, w, q) /\ Ends(d, j, w, q)
    BY <1>1, <1>6 DEF Served, Sends, Ends
  <2>2. Waits(d, w)
    BY <1>6 DEF Served, Waits
  <2>3. Controlling(d, w, q)
    BY <1>1, <1>6 DEF Served, Controlling
  <2>4. Stops(d, w, q)
    BY <1>6 DEF Served, Stops, Truly
  <2> QED BY <2>1, <2>2, <2>3, <2>4 DEF Served
<1> QED BY <1>2, <1>3, <1>4, <1>5, <1>6 DEF Sound

(* The replay of an input is its receipt.                                   *)
LEMMA Replays ==
  ASSUME NEW r \in Session, NEW q \in Process, NEW w \in Session, Sound(r, q), NEW c \in Inputs, q.took[c] = 1,
         r.active = c, ~r.inputs[c].uuid,
         w.active = r.active, w.answers = r.answers, w.ctrls = r.ctrls, w.count = r.count,
         w.exited = r.exited, w.fenced = r.fenced, w.effort = r.effort, w.controlling = r.controlling,
         w.inputs[c].in = r.inputs[c].in, w.inputs[c].uuid, w.inputs[c].done = "ok", w.inputs[c].terminal = r.inputs[c].terminal,
         \A x \in Inputs : x # c => w.inputs[x] = r.inputs[x]
  PROVE  /\ Sound(w, q)
         /\ \A d \in Asking, j \in Jobs : Served(d, j, r, q) => Served(d, j, w, q)
<1>1. /\ \A x : Expected(r, q, x) => Expected(w, q, x)
      /\ \A n : Unanswered(r, q, n) <=> Unanswered(w, q, n)
      /\ Closed(r) <=> Closed(w)
  BY DEF Expected, Unanswered, Closed
<1>2. InputLines(w, q)
  BY <1>1 DEF Sound, InputLines
<1>3. InterruptLines(w, q)
  BY <1>1 DEF Sound, InterruptLines
<1>4. Turn(w, q) /\ Said(w, q)
  BY DEF Sound, Turn, Said
<1>5. Taken(w, q)
  BY DEF Sound, Taken, Session, InputRecord
<1>6. Controls(w, q)
  BY <1>1 DEF Sound, Controls
<1>7. ASSUME NEW d \in Asking, NEW j \in Jobs, Served(d, j, r, q) PROVE Served(d, j, w, q)
  <2>0. \A x \in Inputs : /\ w.inputs[x].in = r.inputs[x].in /\ w.inputs[x].terminal = r.inputs[x].terminal
                          /\ r.inputs[x].uuid => w.inputs[x].uuid
    OBVIOUS
  <2>1. Sends(d, j, w, q) /\ Ends(d, j, w, q)
    BY <1>1, <1>7, <2>0 DEF Served, Sends, Ends, Jobs
  <2>2. Waits(d, w)
    BY <1>7 DEF Served, Waits
  <2>3. Controlling(d, w, q)
    BY <1>1, <1>7 DEF Served, Controlling
  <2>4. Stops(d, w, q)
    BY <1>7, <2>0 DEF Served, Stops
  <2> QED BY <2>1, <2>2, <2>3, <2>4 DEF Served
<1> QED BY <1>2, <1>3, <1>4, <1>5, <1>6, <1>7 DEF Sound

(* The result of a turn ends it.                                            *)
LEMMA Results ==
  ASSUME NEW r \in Session, NEW q \in Process, NEW w \in Session, Sound(r, q), NEW c \in Inputs, r.active = c, r.inputs[c].uuid,
         q.turn = None, NoResult(q),
         w.active = None, w.answers = r.answers, w.ctrls = r.ctrls, w.count = r.count,
         w.exited = r.exited, w.fenced = r.fenced, w.effort = r.effort, w.controlling = r.controlling,
         w.inputs[c].in = r.inputs[c].in, w.inputs[c].uuid, w.inputs[c].done = r.inputs[c].done, w.inputs[c].terminal,
         \A x \in Inputs : x # c => w.inputs[x] = r.inputs[x]
  PROVE  /\ Sound(w, q)
         /\ \A d \in Asking, j \in Jobs : Served(d, j, r, q) => Served(d, j, w, q)
<1>0. None \notin Inputs
  BY BrokerAssumption
<1>1. /\ \A x : ~Expected(r, q, x)
      /\ \A n : Unanswered(r, q, n) <=> Unanswered(w, q, n)
      /\ Closed(r) <=> Closed(w)
  BY DEF Expected, Unanswered, Closed
<1>2. InputLines(w, q)
  BY <1>1 DEF Sound, InputLines
<1>3. InterruptLines(w, q)
  BY <1>1 DEF Sound, InterruptLines
<1>4. Turn(w, q) /\ Said(w, q)
  BY DEF Sound, Turn, Said, NoResult
<1>5. Taken(w, q)
  BY <1>0 DEF Sound, Taken, Session, InputRecord
<1>6. Controls(w, q)
  BY <1>1 DEF Sound, Controls
<1>7. ASSUME NEW d \in Asking, NEW j \in Jobs, Served(d, j, r, q) PROVE Served(d, j, w, q)
  <2>0. \A x \in Inputs : /\ w.inputs[x].in = r.inputs[x].in /\ (r.inputs[x].terminal => w.inputs[x].terminal)
                          /\ r.inputs[x].uuid => w.inputs[x].uuid
    OBVIOUS
  <2>1. Sends(d, j, w, q) /\ Ends(d, j, w, q)
    BY <1>1, <1>7, <2>0 DEF Served, Sends, Ends, Jobs
  <2>2. Waits(d, w)
    BY <1>7 DEF Served, Waits
  <2>3. Controlling(d, w, q)
    BY <1>1, <1>7 DEF Served, Controlling
  <2>4. Stops(d, w, q)
    BY <1>7, <2>0 DEF Served, Stops
  <2> QED BY <2>1, <2>2, <2>3, <2>4 DEF Served
<1> QED BY <1>2, <1>3, <1>4, <1>5, <1>6, <1>7 DEF Sound

(* The end of the output answers every control and the input that waits.    *)
LEMMA Exits ==
  ASSUME NEW r \in Session, NEW q \in Process, NEW w \in Session, Sound(r, q),
         w.exited, w.ctrls = {}, w.count = r.count, w.active = r.active, w.fenced = r.fenced,
         w.effort = r.effort, w.controlling = r.controlling,
         w.answers = r.answers \cup {[ctl |-> n, res |-> "ended", effort |-> "unknown"] : n \in r.ctrls},
         \A x \in Inputs : w.inputs[x] = IF x = r.active /\ ~r.inputs[x].uuid
                                         THEN [r.inputs[x] EXCEPT !.done = "failed"] ELSE r.inputs[x]
  PROVE  /\ Sound(w, q)
         /\ \A d \in Asking, j \in Jobs : Served(d, j, r, q) => Served(d, j, w, q)
<1>1. \A x \in Inputs : /\ w.inputs[x].in = r.inputs[x].in /\ w.inputs[x].uuid = r.inputs[x].uuid
                        /\ w.inputs[x].terminal = r.inputs[x].terminal
                        /\ w.inputs[x].done = IF x = r.active /\ ~r.inputs[x].uuid THEN "failed" ELSE r.inputs[x].done
                        /\ r.inputs[x].done \in {"open", "ok", "failed"}
  <2> TAKE x \in Inputs
  <2>1. r.inputs[x] \in InputRecord
    BY DEF Session
  <2>2. w.inputs[x] = IF x = r.active /\ ~r.inputs[x].uuid THEN [r.inputs[x] EXCEPT !.done = "failed"] ELSE r.inputs[x]
    OBVIOUS
  <2>3. CASE x = r.active /\ ~r.inputs[x].uuid
    <3>1. w.inputs[x] = [r.inputs[x] EXCEPT !.done = "failed"]
      BY <2>2, <2>3
    <3> QED BY <2>1, <2>3, <3>1 DEF InputRecord
  <2>4. CASE ~(x = r.active /\ ~r.inputs[x].uuid)
    <3>1. w.inputs[x] = r.inputs[x]
      BY <2>2, <2>4
    <3> QED BY <2>1, <2>4, <3>1 DEF InputRecord
  <2> QED BY <2>3, <2>4
<1>2. /\ \A a \in w.answers : a \in r.answers \/ (a.res = "ended" /\ a.effort = "unknown" /\ a.ctl \in r.ctrls)
      /\ \A n \in r.ctrls : \E a \in w.answers : a.ctl = n
      /\ r.answers \subseteq w.answers
  <2>1. \A n \in r.ctrls : [ctl |-> n, res |-> "ended", effort |-> "unknown"] \in w.answers
    BY ZenonT(40)
  <2>2. \A n \in r.ctrls : \E a \in w.answers : a.ctl = n
    BY <2>1
  <2>3. ASSUME NEW a \in w.answers, a \notin r.answers PROVE a.res = "ended" /\ a.effort = "unknown" /\ a.ctl \in r.ctrls
    <3>1. PICK n \in r.ctrls : a = [ctl |-> n, res |-> "ended", effort |-> "unknown"]
      BY <2>3
    <3> QED BY <3>1
  <2>4. r.answers \subseteq w.answers
    OBVIOUS
  <2> QED BY <2>2, <2>3, <2>4
<1>3. /\ \A c : Expected(r, q, c) => Expected(w, q, c)
      /\ \A n : Unanswered(r, q, n) => Unanswered(w, q, n)
      /\ Closed(w)
  BY <1>1, <1>2 DEF Expected, Unanswered, Closed
<1>4. InputLines(w, q)
  BY <1>3 DEF Sound, InputLines
<1>5. InterruptLines(w, q)
  BY <1>3 DEF Sound, InterruptLines
<1>6. Turn(w, q) /\ Said(w, q)
  BY DEF Sound, Turn, Said
<1>7. Taken(w, q)
  <2> SUFFICES ASSUME NEW c \in Inputs
               PROVE  /\ q.took[c] <= 1 /\ (q.took[c] = 1 => w.inputs[c].in)
                      /\ w.inputs[c].uuid <=> w.inputs[c].done = "ok"
                      /\ w.inputs[c].uuid => q.took[c] = 1
                      /\ w.inputs[c].terminal => w.inputs[c].uuid /\ w.active # c
                      /\ w.active = c => w.inputs[c].in
                      /\ w.inputs[c].in /\ w.inputs[c].done = "open" => w.active = c /\ ~w.exited
    BY DEF Taken
  <2> QED BY <1>1 DEF Sound, Taken
<1>8. Controls(w, q)
  <2>1. \A a \in w.answers : a.ctl <= w.count /\ High(q, a.effort) /\ (a.res = "ended" => w.exited)
    BY <1>2 DEF Sound, Controls, High
  <2> QED BY <1>3, <2>1 DEF Sound, Controls
<1>9. ASSUME NEW d \in Asking, NEW j \in Jobs, Served(d, j, r, q) PROVE Served(d, j, w, q)
  <2>1. Sends(d, j, w, q) /\ Ends(d, j, w, q)
    BY <1>1, <1>3, <1>9 DEF Served, Sends, Ends, Jobs
  <2>2. Waits(d, w)
    BY <1>2, <1>9 DEF Served, Waits
  <2>3. Controlling(d, w, q)
    BY <1>3, <1>9 DEF Served, Controlling
  <2>4. Stops(d, w, q)
    BY <1>1, <1>2, <1>9 DEF Served, Stops
  <2> QED BY <2>1, <2>2, <2>3, <2>4 DEF Served
<1> QED BY <1>4, <1>5, <1>6, <1>7, <1>8, <1>9 DEF Sound

(* An input is admitted while nothing is active and no control holds it     *)
(* out.                                                                     *)
LEMMA Admits ==
  ASSUME NEW r \in Session, NEW q \in Process, NEW w \in Session, Sound(r, q), NEW c \in Inputs,
         r.active = None, ~r.controlling, ~Closed(r), ~r.inputs[c].in,
         w.active = c, w.answers = r.answers, w.ctrls = r.ctrls, w.count = r.count,
         w.exited = r.exited, w.fenced = r.fenced, w.effort = r.effort, w.controlling = r.controlling,
         w.inputs[c].in, w.inputs[c].uuid = r.inputs[c].uuid, w.inputs[c].done = r.inputs[c].done, w.inputs[c].terminal = r.inputs[c].terminal,
         \A x \in Inputs : x # c => w.inputs[x] = r.inputs[x]
  PROVE  /\ Sound(w, q) /\ Expected(w, q, c) /\ NoLine(q, "input")
         /\ \A d \in Asking, j \in Jobs : Served(d, j, r, q) => Served(d, j, w, q)
<1>0. /\ None \notin Inputs /\ q.took[c] \in Nat
      /\ \A i \in 1..Len(q.out) : q.out[i] \in Events
  BY BrokerAssumption DEF Process
<1>1. /\ \A x : ~Expected(r, q, x)
      /\ \A n : Unanswered(r, q, n) <=> Unanswered(w, q, n)
      /\ ~Closed(w)
  BY <1>0 DEF Expected, Unanswered, Closed
<1>2. NoLine(q, "input") /\ NoLine(q, "interrupt") /\ q.turn = None
  BY <1>0, <1>1 DEF Sound, InputLines, InterruptLines, NoLine, Turn, Process, Turns
<1>3. NoResult(q)
  <2> SUFFICES ASSUME NEW i \in 1..Len(q.out), q.out[i].k = "result" PROVE FALSE
    BY DEF NoResult
  <2>1. q.out[i].client \in Inputs
    BY <1>0 DEF Events
  <2> QED BY <1>0, <2>1 DEF Sound, Said
<1>4. InputLines(w, q) /\ InterruptLines(w, q) /\ Turn(w, q)
  BY <1>2 DEF InputLines, InterruptLines, NoLine, Turn
<1>5. Said(w, q)
  BY <1>3 DEF Sound, Said, NoResult
<1>6. ~r.inputs[c].uuid /\ ~r.inputs[c].terminal /\ q.took[c] = 0
  BY <1>0 DEF Sound, Taken
<1>7. Taken(w, q)
  BY <1>0, <1>6 DEF Sound, Taken, Session, InputRecord, Closed
<1>8. Controls(w, q)
  BY <1>1 DEF Sound, Controls
<1>9. ASSUME NEW d \in Asking, NEW j \in Jobs, Served(d, j, r, q) PROVE Served(d, j, w, q)
  <2>0. \A x \in Inputs : /\ (r.inputs[x].in => w.inputs[x].in) /\ w.inputs[x].terminal = r.inputs[x].terminal
                          /\ w.inputs[x].uuid = r.inputs[x].uuid
    OBVIOUS
  <2>1. Sends(d, j, w, q) /\ Ends(d, j, w, q)
    BY <1>1, <1>9, <2>0 DEF Served, Sends, Ends, Jobs
  <2>2. Waits(d, w)
    BY <1>9 DEF Served, Waits
  <2>3. Controlling(d, w, q)
    BY <1>9 DEF Served, Controlling
  <2>4. Stops(d, w, q)
    BY <1>9, <2>0 DEF Served, Stops
  <2> QED BY <2>1, <2>2, <2>3, <2>4 DEF Served
<1> QED BY <1>2, <1>3, <1>4, <1>5, <1>6, <1>7, <1>8, <1>9 DEF Sound, Expected

(* The process takes an input, of which nothing else is on its way.         *)
LEMMA Takes ==
  ASSUME NEW r \in Session, NEW q \in Process, NEW w \in Process, Sound(r, q), NEW c \in Inputs,
         Expected(r, q, c), NoLine(q, "input"), q.turn = None,
         w.in = q.in, w.out = q.out, w.turn = c, w.took[c] = 1, \A x \in Inputs : x # c => w.took[x] = q.took[x],
         w.hits = q.hits, w.effort = q.effort
  PROVE  /\ Sound(r, w)
         /\ \A d \in Asking, j \in Jobs : Served(d, j, r, q) /\ d.pc \notin {"write", "interrupt"} => Served(d, j, r, w)
<1>0. \A x \in Inputs : q.took[x] = 1 => w.took[x] = 1
  BY DEF Expected
<1>1. /\ \A x : NoLine(q, x) <=> NoLine(w, x)
      /\ NoResult(w)
      /\ \A x : High(q, x) <=> High(w, x)
      /\ \A t : Hit(q, t) <=> Hit(w, t)
      /\ \A n : Unanswered(r, q, n) <=> Unanswered(r, w, n)
  BY DEF NoLine, NoResult, High, Hit, Unanswered, Expected
<1>2. InputLines(r, w) /\ InterruptLines(r, w)
  BY <1>1 DEF InputLines, InterruptLines, NoLine, Expected
<1>3. Turn(r, w)
  BY <1>1 DEF Turn, Expected
<1>4. Said(r, w)
  <2> SUFFICES ASSUME NEW i \in 1..Len(q.out)
               PROVE  /\ q.out[i].k = "replay" => w.took[q.out[i].client] = 1
                      /\ q.out[i].k # "result"
                      /\ q.out[i].k = "answer" => q.out[i].a.ctl <= r.count /\ High(w, q.out[i].a.effort) /\ q.out[i].a.res # "ended"
    BY DEF Said
  <2>0. q.out[i] \in Events
    BY DEF Process
  <2>1. q.out[i].k = "replay" => q.out[i].client \in Inputs
    BY <2>0 DEF Events
  <2> QED BY <1>0, <1>1, <2>1 DEF Sound, Said, NoResult
<1>5. Taken(r, w)
  BY <1>0 DEF Sound, Taken, Expected
<1>6. Controls(r, w)
  BY <1>1 DEF Sound, Controls
<1>7. ASSUME NEW d \in Asking, NEW j \in Jobs, Served(d, j, r, q), d.pc \notin {"write", "interrupt"} PROVE Served(d, j, r, w)
  <2>1. Sends(d, j, r, w) /\ Ends(d, j, r, w)
    BY <1>0, <1>1, <1>7 DEF Served, Sends, Ends, Jobs
  <2>2. Controlling(d, r, w)
    BY <1>7 DEF Served, Controlling
  <2>3. Stops(d, r, w)
    BY <1>1, <1>7 DEF Served, Stops, Truly
  <2> QED BY <1>7, <2>1, <2>2, <2>3 DEF Served
<1> QED BY <1>2, <1>3, <1>4, <1>5, <1>6, <1>7 DEF Sound

-----------------------------------------------------------------------------
(* A step in one session, of at most one request.                           *)
LEMMA Typed ==
  ASSUME Inv
  PROVE  /\ DOMAIN sess = 1..Len(sess) /\ DOMAIN proc = 1..Len(sess) /\ Len(sess) \in Nat
         /\ \A s \in 1..Len(sess) : sess[s] \in Session /\ proc[s] \in Process /\ Sound(sess[s], proc[s])
         /\ \A p \in Requests : /\ asking[p] \in Asking /\ Job(p) \in Jobs /\ Placed(asking[p], Job(p))
                                /\ asking[p].s # 0 => asking[p].s \in 1..Len(sess)
                                /\ asking[p].s \in Nat /\ Job(p).client \in Inputs
         /\ \A c \in Inputs : creating[c] \in Creation
<1>1. DOMAIN sess = 1..Len(sess) /\ DOMAIN proc = 1..Len(sess) /\ Len(sess) \in Nat
  BY DEF Inv, Types
<1>2. \A s \in 1..Len(sess) : sess[s] \in Session /\ proc[s] \in Process /\ Sound(sess[s], proc[s])
  BY DEF Inv, Types, Flow
<1>3. ASSUME NEW p \in Requests
      PROVE  /\ asking[p] \in Asking /\ Job(p) \in Jobs /\ Placed(asking[p], Job(p))
             /\ asking[p].s # 0 => asking[p].s \in 1..Len(sess)
             /\ asking[p].s \in Nat /\ Job(p).client \in Inputs
  <2>1. asking[p] \in Asking /\ asking[p].s \in Nat /\ asking[p].s <= Len(sess)
    BY DEF Inv, Types, Asking
  <2>2. Job(p) \in Jobs /\ Job(p).client \in Inputs
    BY DEF Inv, Types, Job, Jobs, Story
  <2> QED BY <1>1, <2>1, <2>2 DEF Inv
<1>4. \A c \in Inputs : creating[c] \in Creation
  BY DEF Inv, Types
<1> QED BY <1>1, <1>2, <1>3, <1>4

Keeps(s, r, q) ==
  /\ r.listed => sess[s].listed \/ \E c \in Inputs : creating[c].s = s
  /\ q.open => proc[s].open
  /\ Closed(sess[s]) => Closed(r)
Served0 == Setting \cup {"send", "write", "receipt", "made"}
Continues(p, d, q) ==
  /\ d.pc # "start" /\ (d.pc = "starting" => asking[p].pc = "starting")
  /\ asking[p].s = d.s \/ Of(p).s = d.s
  /\ Making(d) => Making(asking[p])
  /\ d.pc \in Served0 => Of(p).s = d.s
  /\ asking[p].pc = "starting" => d.pc = "starting" \/ ~q.open
  /\ d.then # "end" /\ ~Making(d) => Of(p).done

(* What is left alone of the creations.                                     *)
LEMMA Kept ==
  ASSUME Inv, NEW p \in Requests, NEW s \in 1..Len(sess), NEW r \in Session, NEW q \in Process, NEW d \in Asking,
         sess' = [sess EXCEPT ![s] = r], proc' = [proc EXCEPT ![s] = q], asking' = [asking EXCEPT ![p] = d],
         story' = story, creating' = creating,
         Keeps(s, r, q), d.s = s, asking[p].s \in {0, s}, Creates(p) => Continues(p, d, q)
  PROVE  Makers' /\ Limit'
<1>0. /\ \A o \in Requests : (Creates(o))' <=> Creates(o)
      /\ \A o \in Requests : Job(o)' = Job(o) /\ Of(o)' = Of(o)
      /\ \A o \in Requests : asking'[o] = IF o = p THEN d ELSE asking[o]
      /\ DOMAIN sess' = DOMAIN sess /\ Len(sess') = Len(sess)
      /\ \A t \in 1..Len(sess) : sess'[t] = IF t = s THEN r ELSE sess[t]
      /\ \A t \in 1..Len(sess) : proc'[t] = IF t = s THEN q ELSE proc[t]
  BY Typed DEF Inv, Types, Creates, Of, Job
<1>1. Recorded'
  BY DEF Inv, Makers, Recorded
<1>2. \A t \in 1..Len(sess) : /\ sess'[t].listed => sess[t].listed \/ \E c \in Inputs : creating[c].s = t
                              /\ proc'[t].open => proc[t].open
                              /\ Closed(sess[t]) => Closed(sess'[t])
  BY <1>0 DEF Keeps
<1>3. ASSUME NEW o \in Requests, (Creates(o))' PROVE Makes(o)'
  <2>0. Creates(o) /\ Makes(o)
    BY <1>0, <1>3 DEF Inv, Makers
  <2>1. CASE o # p
    <3>1. asking'[o] = asking[o]
      BY <1>0, <2>1
    <3>2. asking[o].s # 0 => asking[o].s \in 1..Len(sess)
      BY Typed
    <3> QED BY <1>0, <1>2, <2>0, <3>1, <3>2, Typed DEF Makes, Making, Placed
  <2>2. CASE o = p
    <3>1. asking'[o] = d /\ Continues(p, d, q)
      BY <1>0, <2>0, <2>2
    <3>2. /\ Making(d) => Of(p).known /\ ~Of(p).done
          /\ d.then # "end" /\ ~Making(d) => Of(p).done
      BY <2>0, <2>2, <3>1 DEF Makes, Continues
    <3>3. d.pc = "starting" => asking[p].pc = "starting" /\ asking[p].s = s
      BY <3>1, Typed DEF Continues, Placed
    <3>4. d.pc \in {"start", "starting"} => Of(p).s = 0
      BY <2>0, <2>2, <3>1, <3>3 DEF Makes, Continues
    <3>5. d.pc = "starting" => ~sess'[d.s].listed /\ \A c \in Inputs : creating[c].s # d.s
      BY <1>2, <2>0, <2>2, <3>3 DEF Makes
    <3>6. Of(p).known /\ Of(p).s \in {0, d.s}
      <4>1. CASE asking[p].s = d.s
        BY <2>0, <2>2, <4>1, Typed DEF Makes
      <4>2. CASE Of(p).s = d.s
        <5>1. Of(p).s # 0 /\ Job(p).client \in Inputs
          BY <4>2, Typed
        <5>2. Of(p).known
          BY <5>1 DEF Inv, Makers, Recorded, Of, NoCreation
        <5> QED BY <4>2, <5>2
      <4> QED BY <3>1, <4>1, <4>2 DEF Continues
    <3>7. Of(p).s = 0 => d.pc = "starting" \/ ~proc'[d.s].open
      <4>1. SUFFICES ASSUME Of(p).s = 0 PROVE d.pc = "starting" \/ ~proc'[d.s].open
        OBVIOUS
      <4>2. asking[p].s = d.s /\ asking[p].s # 0
        BY <3>1, <4>1, Typed DEF Continues
      <4>3. asking[p].pc = "starting" \/ ~proc[d.s].open
        BY <2>0, <2>2, <4>1, <4>2 DEF Makes
      <4> QED BY <1>0, <1>2, <3>1, <4>3 DEF Continues
    <3>8. d.pc \in Served0 => Of(p).s = d.s
      BY <3>1 DEF Continues
    <3> QED BY <1>0, <2>2, <3>1, <3>2, <3>4, <3>5, <3>6, <3>7, <3>8 DEF Makes, Served0
  <2> QED BY <2>1, <2>2
<1>4. ASSUME NEW o \in Requests, NEW t \in Requests, o # t, (Creates(o))', (Creates(t))' PROVE Rivals(o, t)'
  <2>1. Creates(o) /\ Creates(t) /\ Rivals(o, t) /\ Rivals(t, o) /\ Makes(o) /\ Makes(t)
    BY <1>0, <1>4 DEF Inv, Makers
  <2>2. SUFFICES ASSUME Job(o).client = Job(t).client
                 PROVE  /\ ~(Making(asking'[o]) /\ Making(asking'[t]))
                        /\ asking'[o].s # 0 => asking'[t].pc # "start" /\ asking'[t].s \in {0, asking'[o].s}
    BY <1>0 DEF Rivals, Making
  <2>3. Of(o) = Of(t)
    BY <2>2 DEF Of
  <2>4. CASE o = p
    <3>1. asking'[o] = d /\ asking'[t] = asking[t] /\ Continues(p, d, q)
      BY <1>0, <1>4, <2>1, <2>4
    <3>2. ~(Making(d) /\ Making(asking[t]))
      BY <2>1, <2>2, <2>4, <3>1 DEF Rivals, Continues
    <3>3. asking[t].pc # "start" /\ asking[t].s \in {0, s}
      <4>1. CASE asking[p].s = d.s
        BY <2>1, <2>2, <2>4, <4>1, Typed DEF Rivals
      <4>2. CASE Of(p).s = d.s
        BY <2>1, <2>3, <2>4, <4>2, Typed DEF Makes
      <4> QED BY <3>1, <4>1, <4>2 DEF Continues
    <3> QED BY <3>1, <3>2, <3>3
  <2>5. CASE t = p
    <3>1. asking'[t] = d /\ asking'[o] = asking[o] /\ Continues(p, d, q)
      BY <1>0, <1>4, <2>1, <2>5
    <3>2. ~(Making(d) /\ Making(asking[o]))
      BY <2>1, <2>2, <2>5, <3>1 DEF Rivals, Continues
    <3>3. asking[o].s \in {0, s}
      <4>1. CASE asking[p].s = d.s
        BY <2>1, <2>2, <2>5, <4>1, Typed DEF Rivals
      <4>2. CASE Of(p).s = d.s
        BY <2>1, <2>3, <2>5, <4>2, Typed DEF Makes
      <4> QED BY <3>1, <4>1, <4>2 DEF Continues
    <3> QED BY <3>1, <3>2, <3>3 DEF Continues
  <2>6. CASE o # p /\ t # p
    BY <1>0, <2>1, <2>2, <2>6 DEF Rivals
  <2> QED BY <2>4, <2>5, <2>6
<1>5. \A t \in 1..Len(sess) : \E o \in Requests : Creates(o) /\ asking'[o].s = t
  BY <1>0, Typed DEF Inv, Makers
<1>6. \A t \in 1..Len(sess) : sess'[t].listed => \E c \in Inputs : creating[c].s = t
  BY <1>2 DEF Inv, Makers
<1>7. Makers'
  BY <1>0, <1>1, <1>3, <1>4, <1>5, <1>6 DEF Makers
<1>8. Limit'
  <2>1. \A c \in Inputs : (Counted(c))' => Counted(c)
    <3> SUFFICES ASSUME NEW c \in Inputs, (Counted(c))' PROVE Counted(c)
      OBVIOUS
    <3>1. creating[c].s # 0 => creating[c].s \in 1..Len(sess)
      BY Typed DEF Inv, Types, Creation
    <3> QED BY <1>2, <3>1 DEF Counted, Available, Closed
  <2>2. {c \in Inputs : (Counted(c))'} \subseteq {c \in Inputs : Counted(c)}
    BY <2>1
  <2>3. IsFiniteSet({c \in Inputs : Counted(c)})
    BY BrokerAssumption, FS_Subset
  <2>4. /\ Cardinality({c \in Inputs : (Counted(c))'}) \in Nat /\ Cardinality({c \in Inputs : Counted(c)}) \in Nat
        /\ Cardinality({c \in Inputs : (Counted(c))'}) <= Cardinality({c \in Inputs : Counted(c)})
    BY <2>2, <2>3, FS_Subset, FS_CardinalityType
  <2> QED BY <2>4, BrokerAssumption DEF Inv, Limit
<1> QED BY <1>7, <1>8

Evolves(p, s, r, q, d) ==
  /\ Keeps(s, r, q) /\ d.s = s /\ asking[p].s \in {0, s} /\ (Creates(p) => Continues(p, d, q))
  /\ Placed(d, Job(p)) /\ Sound(r, q) /\ Served(d, Job(p), r, q)
  /\ \A o \in Requests : o # p /\ asking[o].s = s =>
       Served(asking[o], Job(o), r, q) /\ Together(d, asking[o]) /\ Together(asking[o], d)
  /\ \A c \in Inputs : r.inputs[c].in =>
       sess[s].inputs[c].in \/ (c = Job(p).client /\ (Job(p).op = "send" \/ (Creates(p) /\ creating[c].s = s)))

(* The requests and the sessions.                                           *)
Flows(p, s, r, q, d) ==
  /\ d.s = s /\ Placed(d, Job(p)) /\ Sound(r, q) /\ Served(d, Job(p), r, q)
  /\ \A o \in Requests : o # p /\ asking[o].s = s =>
       Served(asking[o], Job(o), r, q) /\ Together(d, asking[o]) /\ Together(asking[o], d)

LEMMA FlowKept ==
  ASSUME Inv, NEW p \in Requests, NEW s \in 1..Len(sess), NEW r \in Session, NEW q \in Process, NEW d \in Asking,
         sess' = [sess EXCEPT ![s] = r], proc' = [proc EXCEPT ![s] = q], asking' = [asking EXCEPT ![p] = d],
         story' = story, creating' \in [Inputs -> Creation], \A c \in Inputs : creating'[c].s <= Len(sess),
         troubles' \in [Troubles -> Nat], Flows(p, s, r, q, d)
  PROVE  Types' /\ (\A o \in Requests : Placed(asking'[o], Job(o)')) /\ Flow'
<1>0. /\ \A o \in Requests : (Creates(o))' <=> Creates(o)
      /\ \A o \in Requests : Job(o)' = Job(o)
      /\ \A o \in Requests : asking'[o] = IF o = p THEN d ELSE asking[o]
      /\ DOMAIN sess' = DOMAIN sess /\ Len(sess') = Len(sess)
      /\ \A t \in 1..Len(sess) : sess'[t] = IF t = s THEN r ELSE sess[t]
      /\ \A t \in 1..Len(sess) : proc'[t] = IF t = s THEN q ELSE proc[t]
  BY Typed DEF Inv, Types, Creates, Job
<1>1. Types'
  <2>1. sess' \in Seq(Session) /\ proc' \in Seq(Process) /\ Len(sess') = Len(proc') /\ asking' \in [Requests -> Asking]
    BY DEF Inv, Types
  <2>2. \A o \in Requests : asking'[o].s <= Len(sess')
    BY <1>0 DEF Inv, Types, Flows
  <2>3. \A c \in Inputs : creating'[c].s <= Len(sess')
    BY <1>0
  <2> QED BY <2>1, <2>2, <2>3 DEF Inv, Types
<1>2. \A o \in Requests : Placed(asking'[o], Job(o)')
  BY <1>0 DEF Inv, Flows
<1>3. \A t \in 1..Len(sess') : Sound(sess'[t], proc'[t])
  BY <1>0 DEF Inv, Flow, Flows
<1>4. \A o \in Requests : asking'[o].s # 0 => Served(asking'[o], Job(o)', sess'[asking'[o].s], proc'[asking'[o].s])
  <2> SUFFICES ASSUME NEW o \in Requests, asking'[o].s # 0
               PROVE  Served(asking'[o], Job(o)', sess'[asking'[o].s], proc'[asking'[o].s])
    OBVIOUS
  <2>1. CASE o = p
    BY <1>0, <2>1 DEF Flows
  <2>2. CASE o # p /\ asking[o].s = s
    BY <1>0, <2>2 DEF Flows
  <2>3. CASE o # p /\ asking[o].s # s
    <3>1. asking'[o] = asking[o] /\ asking[o].s \in 1..Len(sess)
      BY <1>0, <2>3, Typed
    <3> QED BY <1>0, <2>3, <3>1 DEF Inv, Flow
  <2> QED BY <2>1, <2>2, <2>3
<1>5. Apart'
  <2> SUFFICES ASSUME NEW o \in Requests, NEW t \in Requests, o # t, asking'[o].s = asking'[t].s, asking'[o].s # 0
               PROVE  Together(asking'[o], asking'[t])
    BY DEF Apart
  <2> QED BY <1>0 DEF Inv, Flow, Apart, Flows
<1> QED BY <1>1, <1>2, <1>3, <1>4, <1>5 DEF Flow

LEMMA Local ==
  ASSUME Inv, NEW p \in Requests, NEW s \in 1..Len(sess), NEW r \in Session, NEW q \in Process, NEW d \in Asking,
         sess' = [sess EXCEPT ![s] = r], proc' = [proc EXCEPT ![s] = q], asking' = [asking EXCEPT ![p] = d],
         story' = story, creating' = creating, troubles' \in [Troubles -> Nat], Evolves(p, s, r, q, d)
  PROVE  Inv'
<1>0. /\ \A o \in Requests : (Creates(o))' <=> Creates(o)
      /\ \A o \in Requests : Job(o)' = Job(o)
      /\ \A o \in Requests : asking'[o] = IF o = p THEN d ELSE asking[o]
      /\ DOMAIN sess' = DOMAIN sess /\ Len(sess') = Len(sess)
      /\ \A t \in 1..Len(sess) : sess'[t] = IF t = s THEN r ELSE sess[t]
      /\ \A t \in 1..Len(sess) : proc'[t] = IF t = s THEN q ELSE proc[t]
  BY Typed DEF Inv, Types, Creates, Job
<1>1. Types' /\ (\A o \in Requests : Placed(asking'[o], Job(o)')) /\ Flow'
  <2>1. Flows(p, s, r, q, d)
    BY DEF Evolves, Flows
  <2>2. creating' \in [Inputs -> Creation] /\ \A c \in Inputs : creating'[c].s <= Len(sess)
    BY DEF Inv, Types
  <2> QED BY <2>1, <2>2, FlowKept
<1>2. Makers' /\ Limit'
  BY Kept DEF Evolves
<1>3. Homes'
  <2> SUFFICES ASSUME NEW t \in 1..Len(sess), NEW c \in Inputs, sess'[t].inputs[c].in
               PROVE  \/ creating[c].s = t /\ \E o \in Requests : Creates(o) /\ Job(o).client = c
                      \/ \E o \in Requests : Job(o).op = "send" /\ Job(o).client = c /\ asking'[o].s = t
    BY <1>0 DEF Homes
  <2>1. CASE sess[t].inputs[c].in
    <3>1. \/ creating[c].s = t /\ \E o \in Requests : Creates(o) /\ Job(o).client = c
          \/ \E o \in Requests : Job(o).op = "send" /\ Job(o).client = c /\ asking[o].s = t
      BY <2>1 DEF Inv, Homes
    <3> QED BY <1>0, <3>1 DEF Evolves
  <2>2. CASE ~sess[t].inputs[c].in
    <3>1. t = s /\ c = Job(p).client /\ (Job(p).op = "send" \/ (Creates(p) /\ creating[c].s = s))
      BY <1>0, <2>2 DEF Evolves
    <3> QED BY <1>0, <3>1 DEF Evolves
  <2> QED BY <2>1, <2>2
<1> QED BY <1>1, <1>2, <1>3 DEF Inv

(* A step of the native process or of the reader of its output.             *)
LEMMA InSession ==
  ASSUME Inv, NEW s \in 1..Len(sess), NEW r \in Session, NEW q \in Process,
         sess' = [sess EXCEPT ![s] = r], proc' = [proc EXCEPT ![s] = q],
         UNCHANGED <<story, asking, creating>>, troubles' \in [Troubles -> Nat],
         Keeps(s, r, q), Sound(r, q),
         \A o \in Requests : asking[o].s = s => Served(asking[o], Job(o), r, q),
         \A c \in Inputs : r.inputs[c].in => sess[s].inputs[c].in
  PROVE  Inv'
<1>1. PICK p \in Requests : Creates(p) /\ asking[p].s = s
  BY DEF Inv, Makers
<1>2. asking[p] \in Asking /\ Placed(asking[p], Job(p)) /\ asking' = [asking EXCEPT ![p] = asking[p]]
  BY Typed DEF Inv, Types
<1>3. Makes(p) /\ s # 0
  BY <1>1 DEF Inv, Makers
<1>4. Continues(p, asking[p], q)
  <2>1. asking[p].pc # "start"
    BY <1>1, <1>2, <1>3 DEF Placed, IdleRequest
  <2> QED BY <1>1, <1>2, <1>3, <2>1 DEF Continues, Makes, Served0
<1>5. \A o \in Requests : o # p /\ asking[o].s = s => Together(asking[p], asking[o]) /\ Together(asking[o], asking[p])
  BY <1>1, <1>3 DEF Inv, Flow, Apart
<1>6. Evolves(p, s, r, q, asking[p])
  BY <1>1, <1>2, <1>4, <1>5 DEF Evolves
<1> QED BY <1>2, <1>6, Local

-----------------------------------------------------------------------------
(* The reader of the output, and the native process.                        *)
Fine(P, s, r, q) ==
  /\ r \in Session /\ q \in Process /\ Sound(r, q)
  /\ \A o \in P : asking[o].s = s => Served(asking[o], Job(o), r, q)

LEMMA FineNow ==
  ASSUME Inv, NEW s \in 1..Len(sess) PROVE Fine(Requests, s, sess[s], proc[s])
<1>1. s # 0
  BY Typed
<1> QED BY <1>1, Typed DEF Fine, Inv, Flow

LEMMA FineLess ==
  ASSUME Inv, NEW P, P \subseteq Requests, NEW s, NEW r, NEW q, Fine(P, s, r, q), NEW w \in Process,
         Within(w.in, q.in), Within(w.out, q.out), w.turn \in {q.turn, None}, w.took = q.took,
         q.hits \subseteq w.hits, w.effort \in {q.effort, "high"}
  PROVE  Fine(P, s, r, w)
<1>1. r \in Session /\ q \in Process /\ Sound(r, q)
  BY DEF Fine
<1>2. Sound(r, w) /\ \A d \in Asking, j \in Jobs : Served(d, j, r, q) => Served(d, j, r, w)
  BY <1>1, Less
<1> QED BY <1>1, <1>2, Typed DEF Fine

LEMMA Reads ==
  ASSUME Inv, NEW s \in 1..Len(sess), NEW r, NEW q, Fine(Requests, s, r, q), q.out # << >>
  PROVE  Fine(Requests, s, r, [q EXCEPT !.out = Tail(@)])
<1> DEFINE w == [q EXCEPT !.out = Tail(@)]
<1>1. q \in Process /\ q.out \in Seq(Events) /\ q.in \in Seq(Lines)
  BY DEF Fine, Process
<1>2. Within(Tail(q.out), q.out) /\ Tail(q.out) \in Seq(Events) /\ Within(q.in, q.in)
  BY <1>1, TailWithin, SameWithin
<1>3. w \in Process
  BY <1>1, <1>2 DEF Process
<1>4. w.in = q.in /\ w.out = Tail(q.out) /\ w.turn = q.turn /\ w.took = q.took /\ w.hits = q.hits /\ w.effort = q.effort
  BY <1>1 DEF Process
<1> HIDE DEF w
<1> QED BY <1>2, <1>3, <1>4, FineLess DEF w

LEMMA ConsumeInv == ASSUME Inv, NEW s \in 1..Len(sess), Consume(s) PROVE Inv'
<1> DEFINE r == sess[s]
           q == proc[s]
           e == Head(q.out)
           w == [q EXCEPT !.out = Tail(@)]
<1>0. r \in Session /\ q \in Process /\ Fine(Requests, s, r, q) /\ q.out # << >>
  BY Typed, FineNow DEF Consume
<1>1. /\ e \in Events /\ 1 \in 1..Len(q.out) /\ e = q.out[1] /\ Len(Tail(q.out)) = Len(q.out) - 1
      /\ \A i \in 1..Len(Tail(q.out)) : i + 1 \in 1..Len(q.out) /\ Tail(q.out)[i] = q.out[i + 1]
      /\ q.out \in Seq(Events) /\ q.in \in Seq(Lines) /\ Tail(q.out) \in Seq(Events)
  <2>1. q.out \in Seq(Events) /\ q.in \in Seq(Lines)
    BY <1>0 DEF Process
  <2> QED BY <1>0, <2>1, TailWithin
<1>2. w \in Process /\ w.in = q.in /\ w.out = Tail(q.out) /\ w.turn = q.turn /\ w.took = q.took /\ w.open = q.open
  BY <1>0, <1>1 DEF Process
<1>3. /\ UNCHANGED <<story, asking, creating>> /\ troubles' \in [Troubles -> Nat]
      /\ sess' = [sess EXCEPT ![s] = sess'[s]]
      /\ proc' = [proc EXCEPT ![s] = proc'[s]]
  BY Typed DEF Consume, Inv, Types
<1>4. SUFFICES /\ Fine(Requests, s, sess'[s], proc'[s]) /\ Keeps(s, sess'[s], proc'[s])
               /\ \A c \in Inputs : sess'[s].inputs[c].in => r.inputs[c].in
  BY <1>3, InSession DEF Fine
<1>5. /\ proc'[s] = [q EXCEPT !.out = Tail(@), !.in = IF e.k = "approval" /\ Fits(s, e) /\ ~r.drain THEN Append(@, Line("deny", None)) ELSE @]
      /\ sess'[s] = IF r.drain THEN r ELSE IF Fits(s, e) THEN Handled(s, e) ELSE [r EXCEPT !.fenced = TRUE, !.drain = TRUE]
  BY Typed DEF Consume
<1>6. Fine(Requests, s, r, w)
  BY <1>0, Reads
<1>7. ~(e.k = "approval" /\ Fits(s, e) /\ ~r.drain) => proc'[s] = w
  BY <1>2, <1>5, ZenonT(40) DEF Process
<1>a. r = sess[s] /\ q = proc[s] /\ w = [q EXCEPT !.out = Tail(@)]
  OBVIOUS
<1> HIDE DEF r, q, e, w
<1>8. CASE r.drain
  BY <1>a, <1>2, <1>5, <1>6, <1>7, <1>8 DEF Keeps
<1>9. CASE ~r.drain /\ ~Fits(s, e)
  <2> DEFINE z == [r EXCEPT !.fenced = TRUE, !.drain = TRUE]
  <2>1. sess'[s] = z /\ proc'[s] = w
    BY <1>5, <1>7, <1>9
  <2>2. /\ z \in Session
        /\ z.inputs = r.inputs /\ z.active = r.active /\ z.answers = r.answers /\ z.ctrls = r.ctrls /\ z.count = r.count
        /\ z.exited = r.exited /\ z.fenced /\ z.effort = r.effort /\ z.controlling = r.controlling /\ z.listed = r.listed
    BY <1>0 DEF Session
  <2>3. High(w, z.effort)
    BY <1>6, <2>2 DEF Fine, Sound, Controls
  <2> HIDE DEF z
  <2>4. Sound(z, w) /\ \A d \in Asking, j \in Jobs : Served(d, j, r, w) /\ (d.pc \in Holding => z.controlling) => Served(d, j, z, w)
    BY <1>0, <1>2, <1>6, <2>2, <2>3, Flags DEF Fine, Closed
  <2>5. Fine(Requests, s, z, w)
    BY <1>2, <1>6, <2>2, <2>4, Typed DEF Fine, Served, Controlling
  <2> QED BY <1>a, <1>2, <2>1, <2>2, <2>5 DEF Keeps, Closed
<1>10. CASE ~r.drain /\ Fits(s, e) /\ e.k = "answer"
  <2>1. proc'[s] = w /\ sess'[s] = (IF e.a.ctl \in r.ctrls THEN Resolve(s, e.a) ELSE r) /\ e.a \in AnswerRecord
    BY <1>a, <1>1, <1>5, <1>7, <1>10 DEF Handled, Events
  <2>2. CASE e.a.ctl \in r.ctrls
    <3> DEFINE z == Resolve(s, e.a)
    <3>1. sess'[s] = z
      BY <2>1, <2>2
    <3>2. /\ z \in Session
          /\ z.inputs = r.inputs /\ z.active = r.active /\ z.answers = r.answers \cup {e.a} /\ z.ctrls = r.ctrls \ {e.a.ctl}
          /\ z.count = r.count /\ z.exited = r.exited /\ z.fenced = r.fenced /\ z.effort = r.effort
          /\ z.controlling = r.controlling /\ z.listed = r.listed
      BY <1>a, <1>0, <2>1 DEF Session, Resolve
    <3> HIDE DEF z
    <3>3. Sound(z, q) /\ \A d \in Asking, j \in Jobs : Served(d, j, r, q) => Served(d, j, z, q)
      BY <1>0, <1>1, <1>10, <2>1, <2>2, <3>2, Resolves DEF Fine
    <3>4. Fine(Requests, s, z, q)
      BY <1>0, <3>2, <3>3, Typed DEF Fine
    <3>5. Fine(Requests, s, z, w)
      BY <1>a, <1>0, <3>4, Reads
    <3> QED BY <1>a, <1>2, <2>1, <3>1, <3>2, <3>5 DEF Keeps, Closed
  <2>3. CASE e.a.ctl \notin r.ctrls
    BY <1>a, <1>2, <1>6, <2>1, <2>3 DEF Keeps
  <2> QED BY <2>2, <2>3
<1>11. CASE ~r.drain /\ Fits(s, e) /\ e.k = "approval"
  <2> DEFINE m == Line("deny", None)
             z == [w EXCEPT !.in = Append(@, m)]
  <2>1. proc'[s] = z /\ sess'[s] = r
    BY <1>a, <1>1, <1>2, <1>5, <1>11 DEF Handled, Process
  <2>2. m \in Lines /\ m.k = "deny" /\ m.ctl = 0
    BY DEF Line, Lines, Turns
  <2>3. Append(w.in, m) \in Seq(Lines) /\ Longer(Append(w.in, m), w.in, m)
    BY <1>1, <1>2, <2>2, AppendLonger
  <2>4. /\ z \in Process /\ z.in = Append(w.in, m) /\ z.out = w.out /\ z.turn = w.turn /\ z.took = w.took
        /\ z.hits = w.hits /\ z.effort = w.effort /\ z.open = w.open
    BY <1>2, <2>3 DEF Process
  <2> HIDE DEF z, m
  <2>5. r.count \in Nat
    BY <1>0 DEF Session
  <2>6. \A d \in Asking : d.pc = "interrupting" /\ d.ctl = 0 => ~Waits(d, r)
    BY <2>5 DEF Waits, Waiting
  <2>7. Sound(r, z) /\ \A d \in Asking, j \in Jobs : Served(d, j, r, w) => Served(d, j, r, z)
    <3>1. /\ Sound(r, z)
          /\ \A d \in Asking, j \in Jobs :
              /\ Served(d, j, r, w)
              /\ m.k = "input" => d.pc # "write" /\ d.pc # "interrupt"
              /\ m.k = "interrupt" => d.pc # "write" /\ (d.pc \in Holding => d.pc = "interrupting" /\ m.ctl = d.ctl)
              /\ d.pc = "interrupting" /\ d.ctl = m.ctl => m.k = "interrupt" /\ m.client = d.turn
              => Served(d, j, r, z)
      <4>1. /\ Sound(r, w) /\ r \in Session /\ w \in Process /\ z \in Process /\ m \in Lines /\ Longer(z.in, w.in, m)
            /\ z.out = w.out /\ z.turn = w.turn /\ z.took = w.took /\ z.hits = w.hits /\ z.effort = w.effort
            /\ m.k # "input" /\ m.k # "interrupt" /\ m.ctl <= r.count /\ m.ctl = 0 /\ m.k \in {"input", "deny"}
        BY <1>0, <1>2, <1>6, <2>2, <2>3, <2>4, <2>5 DEF Fine
      <4> QED BY <4>1, GetsMore
    <3> QED BY <2>2, <2>6, <3>1 DEF Served
  <2>8. Fine(Requests, s, r, z)
    BY <1>6, <2>4, <2>7, Typed DEF Fine
  <2> QED BY <1>a, <1>2, <2>1, <2>4, <2>8 DEF Keeps
<1>12. CASE ~r.drain /\ Fits(s, e) /\ e.k = "system"
  <2> DEFINE z == [r EXCEPT !.id = TRUE]
  <2>1. sess'[s] = z /\ proc'[s] = w
    BY <1>a, <1>5, <1>7, <1>12 DEF Handled
  <2>2. /\ z \in Session
        /\ z.inputs = r.inputs /\ z.active = r.active /\ z.answers = r.answers /\ z.ctrls = r.ctrls /\ z.count = r.count
        /\ z.exited = r.exited /\ z.fenced = r.fenced /\ z.effort = r.effort /\ z.controlling = r.controlling /\ z.listed = r.listed
    BY <1>0 DEF Session
  <2>3. High(w, z.effort)
    BY <1>6, <2>2 DEF Fine, Sound, Controls
  <2> HIDE DEF z
  <2>4. Sound(z, w) /\ \A d \in Asking, j \in Jobs : Served(d, j, r, w) /\ (d.pc \in Holding => z.controlling) => Served(d, j, z, w)
    BY <1>0, <1>2, <1>6, <2>2, <2>3, Flags DEF Fine
  <2>5. Fine(Requests, s, z, w)
    BY <1>2, <1>6, <2>2, <2>4, Typed DEF Fine, Served, Controlling
  <2> QED BY <1>a, <1>2, <2>1, <2>2, <2>5 DEF Keeps, Closed
<1>13. CASE ~r.drain /\ Fits(s, e) /\ e.k = "replay"
  <2> DEFINE c == e.client
             z == [r EXCEPT !.id = TRUE, !.inputs[c] = [@ EXCEPT !.uuid = TRUE, !.done = "ok"]]
  <2>1. c \in Inputs /\ r.active = c /\ ~r.inputs[c].uuid /\ q.took[c] = 1
    BY <1>a, <1>0, <1>1, <1>13 DEF Fits, Events, Fine, Sound, Said
  <2>2. sess'[s] = z /\ proc'[s] = w
    BY <1>a, <1>5, <1>7, <1>13 DEF Handled
  <2>3. r.inputs \in [Inputs -> InputRecord] /\ r.inputs[c] \in InputRecord
    BY <1>0, <2>1 DEF Session
  <2>4. /\ [r.inputs[c] EXCEPT !.uuid = TRUE, !.done = "ok"] \in InputRecord
        /\ [r.inputs[c] EXCEPT !.uuid = TRUE, !.done = "ok"].in = r.inputs[c].in
        /\ [r.inputs[c] EXCEPT !.uuid = TRUE, !.done = "ok"].terminal = r.inputs[c].terminal
        /\ [r.inputs[c] EXCEPT !.uuid = TRUE, !.done = "ok"].uuid
        /\ [r.inputs[c] EXCEPT !.uuid = TRUE, !.done = "ok"].done = "ok"
    BY <2>3 DEF InputRecord
  <2>5. /\ z \in Session
        /\ z.active = r.active /\ z.answers = r.answers /\ z.ctrls = r.ctrls /\ z.count = r.count
        /\ z.exited = r.exited /\ z.fenced = r.fenced /\ z.effort = r.effort /\ z.controlling = r.controlling /\ z.listed = r.listed
        /\ z.inputs = [r.inputs EXCEPT ![c] = [@ EXCEPT !.uuid = TRUE, !.done = "ok"]]
    BY <1>0, <2>1, <2>3, <2>4 DEF Session
  <2> HIDE DEF z
  <2>6. z.inputs[c] = [r.inputs[c] EXCEPT !.uuid = TRUE, !.done = "ok"] /\ \A x \in Inputs : x # c => z.inputs[x] = r.inputs[x]
    BY <2>1, <2>3, <2>5
  <2>7. Sound(z, q) /\ \A d \in Asking, j \in Jobs : Served(d, j, r, q) => Served(d, j, z, q)
    <3>1. /\ z.inputs[c].in = r.inputs[c].in /\ z.inputs[c].uuid /\ z.inputs[c].done = "ok"
          /\ z.inputs[c].terminal = r.inputs[c].terminal
      BY <2>4, <2>6
    <3>2. Sound(r, q)
      BY <1>0 DEF Fine
    <3> HIDE DEF c
    <3>3. /\ z \in Session /\ z.active = r.active /\ z.answers = r.answers /\ z.ctrls = r.ctrls /\ z.count = r.count
          /\ z.exited = r.exited /\ z.fenced = r.fenced /\ z.effort = r.effort /\ z.controlling = r.controlling
          /\ \A x \in Inputs : x # c => z.inputs[x] = r.inputs[x]
      BY <2>5, <2>6
    <3>4. r \in Session /\ q \in Process
      BY <1>0
    <3> QED BY <2>1, <3>1, <3>2, <3>3, <3>4, Replays
  <2>8. Fine(Requests, s, z, q)
    BY <1>0, <2>5, <2>7, Typed, SMTT(40) DEF Fine
  <2>9. Fine(Requests, s, z, w)
    BY <1>a, <1>0, <2>8, Reads
  <2> QED BY <1>a, <1>2, <2>1, <2>2, <2>4, <2>5, <2>6, <2>9, SMTT(40) DEF Keeps, Closed
<1>14. CASE ~r.drain /\ Fits(s, e) /\ e.k \notin {"answer", "approval", "system", "replay"}
  <2> DEFINE c == r.active
             z == [r EXCEPT !.active = None, !.inputs[c].terminal = TRUE]
  <2>1. e.k = "result" /\ c # None /\ r.inputs[c].uuid /\ c \in Inputs
    BY <1>a, <1>0, <1>1, <1>14 DEF Fits, Events, Session, Turns
  <2>2. sess'[s] = z /\ proc'[s] = w
    BY <1>a, <1>5, <1>7, <1>14 DEF Handled
  <2>3. r.inputs \in [Inputs -> InputRecord] /\ r.inputs[c] \in InputRecord
    BY <1>0, <2>1 DEF Session
  <2>4. /\ [r.inputs[c] EXCEPT !.terminal = TRUE] \in InputRecord
        /\ [r.inputs[c] EXCEPT !.terminal = TRUE].in = r.inputs[c].in
        /\ [r.inputs[c] EXCEPT !.terminal = TRUE].uuid = r.inputs[c].uuid
        /\ [r.inputs[c] EXCEPT !.terminal = TRUE].done = r.inputs[c].done
        /\ [r.inputs[c] EXCEPT !.terminal = TRUE].terminal
    BY <2>3 DEF InputRecord
  <2>5. /\ z \in Session
        /\ z.active = None /\ z.answers = r.answers /\ z.ctrls = r.ctrls /\ z.count = r.count
        /\ z.exited = r.exited /\ z.fenced = r.fenced /\ z.effort = r.effort /\ z.controlling = r.controlling /\ z.listed = r.listed
        /\ z.inputs = [r.inputs EXCEPT ![c] = [@ EXCEPT !.terminal = TRUE]]
    BY <1>0, <2>1, <2>3, <2>4 DEF Session, Turns
  <2> HIDE DEF z
  <2>6. z.inputs[c] = [r.inputs[c] EXCEPT !.terminal = TRUE] /\ \A x \in Inputs : x # c => z.inputs[x] = r.inputs[x]
    BY <2>1, <2>3, <2>5
  <2>7. NoResult(w) /\ w.turn = None
    <3>1. \A j \in 1..Len(q.out) : q.out[j].k = "result" => 1 = j
      BY <1>0, <1>1, <2>1 DEF Fine, Sound, Said
    <3>2. NoResult(w)
      BY <1>1, <1>2, <3>1 DEF NoResult
    <3>3. q.turn = None
      BY <1>0, <1>1, <2>1 DEF Fine, Sound, Turn, NoResult
    <3> QED BY <1>2, <3>2, <3>3
  <2>8. Sound(z, w) /\ \A d \in Asking, j \in Jobs : Served(d, j, r, w) => Served(d, j, z, w)
    <3>1. /\ z.inputs[c].in = r.inputs[c].in /\ z.inputs[c].uuid /\ z.inputs[c].done = r.inputs[c].done
          /\ z.inputs[c].terminal /\ r.active = c
      BY <2>1, <2>4, <2>6
    <3>2. Sound(r, w)
      BY <1>6 DEF Fine
    <3> HIDE DEF c
    <3> QED BY <1>0, <1>2, <2>1, <2>5, <2>6, <2>7, <3>1, <3>2, Results, ZenonT(40)
  <2>9. Fine(Requests, s, z, w)
    BY <1>2, <1>6, <2>5, <2>8, Typed DEF Fine
  <2> QED BY <1>a, <1>2, <2>1, <2>2, <2>4, <2>5, <2>6, <2>9 DEF Keeps, Closed
<1> QED BY <1>8, <1>9, <1>10, <1>11, <1>12, <1>13, <1>14

LEMMA Struck == ASSUME Inv, NEW k \in Troubles, Strikes(k) PROVE troubles' \in [Troubles -> Nat]
<1>1. troubles \in [Troubles -> Nat]
  BY DEF Inv, Types
<1> QED BY <1>1 DEF Strikes

LEMMA EndInv == ASSUME Inv, NEW s \in 1..Len(sess), EndOfOutput(s) PROVE Inv'
<1> DEFINE r == sess[s]
           q == proc[s]
           w == [q EXCEPT !.open = FALSE]
           z == Exited(r)
<1>0. r \in Session /\ q \in Process /\ Fine(Requests, s, r, q)
  BY Typed, FineNow
<1>1. /\ UNCHANGED <<story, asking, creating>> /\ troubles' \in [Troubles -> Nat]
      /\ sess' = [sess EXCEPT ![s] = z] /\ proc' = [proc EXCEPT ![s] = w]
  BY Typed DEF EndOfOutput, Inv, Types
<1>2. /\ w \in Process /\ w.in = q.in /\ w.out = q.out /\ w.turn = q.turn /\ w.took = q.took
      /\ w.hits = q.hits /\ w.effort = q.effort /\ ~w.open
  BY <1>0 DEF Process
<1>3. /\ z.exited /\ z.ctrls = {} /\ z.count = r.count /\ z.active = r.active /\ z.fenced = r.fenced
      /\ z.effort = r.effort /\ z.controlling = r.controlling /\ z.listed = r.listed
      /\ z.id = r.id /\ z.drain = r.drain /\ z.title = r.title
      /\ z.answers = r.answers \cup {[ctl |-> n, res |-> "ended", effort |-> "unknown"] : n \in r.ctrls}
      /\ z.inputs = [x \in Inputs |-> IF x = r.active /\ ~r.inputs[x].uuid
                                      THEN [r.inputs[x] EXCEPT !.done = "failed"] ELSE r.inputs[x]]
      /\ DOMAIN z = DOMAIN r
      /\ z = [r EXCEPT !.exited = z.exited, !.ctrls = z.ctrls, !.answers = z.answers, !.inputs = z.inputs]
  BY <1>0 DEF Session, Exited
<1>4. z.answers \in SUBSET AnswerRecord
  <2>1. r.ctrls \in SUBSET Nat /\ r.answers \in SUBSET AnswerRecord
    BY <1>0 DEF Session
  <2>2. \A n \in r.ctrls : [ctl |-> n, res |-> "ended", effort |-> "unknown"] \in AnswerRecord
    BY <2>1 DEF AnswerRecord
  <2> QED BY <1>3, <2>1, <2>2
<1>5. z.inputs \in [Inputs -> InputRecord]
  <2>1. \A x \in Inputs : r.inputs[x] \in InputRecord
    BY <1>0 DEF Session
  <2>2. \A x \in Inputs : [r.inputs[x] EXCEPT !.done = "failed"] \in InputRecord
    BY <2>1 DEF InputRecord
  <2> QED BY <1>3, <2>1, <2>2
<1>6. \A x \in Inputs : z.inputs[x].in => r.inputs[x].in
  <2> TAKE x \in Inputs
  <2>1. r.inputs[x] \in InputRecord
    BY <1>0, ZenonT(40) DEF Session
  <2>2. [r.inputs[x] EXCEPT !.done = "failed"].in = r.inputs[x].in
    BY <2>1, ZenonT(40) DEF InputRecord
  <2> QED BY <1>3, <2>2
<1> HIDE DEF w, z
<1>7. z \in Session
  BY <1>0, <1>3, <1>4, <1>5, ZenonT(40) DEF Session
<1>8. Fine(Requests, s, r, w)
  <2>1. Within(q.in, q.in) /\ Within(q.out, q.out)
    BY <1>0, SameWithin DEF Process
  <2> QED BY <1>0, <1>2, <2>1, FineLess
<1>9. Sound(z, w) /\ \A d \in Asking, j \in Jobs : Served(d, j, r, w) => Served(d, j, z, w)
  <2>1. Sound(r, w)
    BY <1>8 DEF Fine
  <2>2. \A x \in Inputs : z.inputs[x] = IF x = r.active /\ ~r.inputs[x].uuid
                                        THEN [r.inputs[x] EXCEPT !.done = "failed"] ELSE r.inputs[x]
    <3>1. z.inputs = [x \in Inputs |-> IF x = r.active /\ ~r.inputs[x].uuid
                                        THEN [r.inputs[x] EXCEPT !.done = "failed"] ELSE r.inputs[x]]
      BY <1>3, ZenonT(40)
    <3> HIDE DEF r
    <3> QED BY <3>1, ZenonT(40)
  <2> HIDE DEF r
  <2> QED BY <1>0, <1>2, <1>3, <1>7, <2>1, <2>2, Exits, ZenonT(40)
<1>10. \A o \in Requests : asking[o].s = s => Served(asking[o], Job(o), z, w)
  BY <1>8, <1>9, Typed DEF Fine
<1> QED BY <1>1, <1>2, <1>3, <1>6, <1>7, <1>9, <1>10, InSession, ZenonT(40) DEF Keeps, Closed

(* What the process says of itself.                                         *)
Sayable(P, s, r, q, e) ==
  /\ e.k = "replay" => q.took[e.client] = 1
  /\ e.k = "result" => r.active = e.client /\ q.took[e.client] = 1 /\ q.turn = None /\ NoResult(q) /\ NoLine(q, "input")
  /\ e.k = "answer" => /\ e.a.ctl <= r.count /\ High(q, e.a.effort) /\ e.a.res # "ended"
                       /\ \A i \in 1..Len(q.in) : q.in[i].ctl # 0 => q.in[i].ctl # e.a.ctl
  /\ \A o \in P : asking[o].s = s =>
       /\ e.k = "result" => asking[o].pc # "write"
       /\ e.k = "answer" /\ e.a.res = "ok" /\ asking[o].pc = "interrupting" /\ asking[o].ctl = e.a.ctl => Hit(q, asking[o].turn)

LEMMA SaysFields ==
  ASSUME NEW q \in Process, NEW e
  PROVE  /\ Says(q, e).in = q.in /\ Says(q, e).turn = q.turn /\ Says(q, e).took = q.took /\ Says(q, e).hits = q.hits
         /\ Says(q, e).effort = q.effort /\ Says(q, e).open = q.open /\ Says(q, e).out = Append(q.out, e)
BY DEF Process, Says

LEMMA SaysEvent ==
  ASSUME Inv, NEW P, P \subseteq Requests, NEW s, NEW r, NEW q, Fine(P, s, r, q), NEW e \in Events, Sayable(P, s, r, q, e)
  PROVE  Fine(P, s, r, Says(q, e))
<1> DEFINE w == Says(q, e)
<1>1. r \in Session /\ q \in Process /\ Sound(r, q)
  BY DEF Fine
<1>2. Append(q.out, e) \in Seq(Events) /\ Longer(Append(q.out, e), q.out, e)
  BY <1>1, AppendLonger DEF Process
<1>3. /\ w \in Process /\ w.in = q.in /\ w.turn = q.turn /\ w.took = q.took /\ w.hits = q.hits /\ w.effort = q.effort
      /\ w.out = Append(q.out, e)
  BY <1>1, <1>2, SaysFields DEF Process, Says
<1> HIDE DEF w
<1>4. /\ Sound(r, w)
      /\ \A d \in Asking, j \in Jobs :
              Served(d, j, r, q) /\ (e.k = "result" => d.pc # "write")
                /\ (e.k = "answer" /\ e.a.res = "ok" /\ d.pc = "interrupting" /\ d.ctl = e.a.ctl => Hit(q, d.turn))
              => Served(d, j, r, w)
  <2>1. Longer(w.out, q.out, e)
    BY <1>2, <1>3
  <2> QED BY <1>1, <1>3, <2>1, SaysMore DEF Sayable
<1>5. Fine(P, s, r, w)
  BY <1>1, <1>3, <1>4, Typed DEF Fine, Sayable
<1> QED BY <1>5 DEF w

LEMMA TroubleInv == ASSUME Inv, NEW s \in 1..Len(sess), Trouble(s) PROVE Inv'
<1> DEFINE r == sess[s]
           q == proc[s]
<1>0. r \in Session /\ q \in Process /\ Fine(Requests, s, r, q)
  BY Typed, FineNow
<1>1. /\ UNCHANGED <<story, asking, creating>> /\ troubles' \in [Troubles -> Nat]
      /\ sess' = [sess EXCEPT ![s] = r]
  <2>1. UNCHANGED <<story, asking, creating>> /\ sess' = [sess EXCEPT ![s] = r]
    BY Typed DEF Trouble, Inv, Types
  <2>2. (\E k \in Troubles : Strikes(k)) \/ troubles' = troubles
    BY DEF Trouble, Troubles
  <2> QED BY <2>1, <2>2, Struck DEF Inv, Types
<1>2. SUFFICES /\ Fine(Requests, s, r, proc'[s]) /\ proc' = [proc EXCEPT ![s] = proc'[s]] /\ (proc'[s].open => q.open)
  BY <1>0, <1>1, InSession DEF Fine, Keeps
<1>3. ASSUME NEW k \in {"garbled", "approval", "system"}, proc' = [proc EXCEPT ![s] = Says(@, Emitted(k, None))]
      PROVE  Fine(Requests, s, r, proc'[s]) /\ proc' = [proc EXCEPT ![s] = proc'[s]] /\ (proc'[s].open => q.open)
  <2>1. proc'[s] = Says(q, Emitted(k, None)) /\ proc' = [proc EXCEPT ![s] = proc'[s]]
    BY <1>3, Typed
  <2>2. Emitted(k, None) \in Events /\ Emitted(k, None).k = k
    BY <1>3 DEF Emitted, Events
  <2>3. Fine(Requests, s, r, Says(q, Emitted(k, None)))
    <3> DEFINE e == Emitted(k, None)
    <3>1. e \in Events /\ e.k \notin {"replay", "result", "answer"}
      BY <2>2
    <3> HIDE DEF e, r, q
    <3>2. Fine(Requests, s, r, Says(q, e))
      <4>1. Sayable(Requests, s, r, q, e)
        BY <3>1 DEF Sayable
      <4> QED BY <1>0, <3>1, <4>1, SaysEvent
    <3> QED BY <3>2 DEF e
  <2> QED BY <1>0, <2>1, <2>3, SaysFields
<1>4. ASSUME NEW w, proc' = [proc EXCEPT ![s] = w], w \in {[q EXCEPT !.alive = FALSE, !.turn = None], [q EXCEPT !.alive = FALSE]}
      PROVE  Fine(Requests, s, r, proc'[s]) /\ proc' = [proc EXCEPT ![s] = proc'[s]] /\ (proc'[s].open => q.open)
  <2>1. proc'[s] = w
    BY <1>4, Typed
  <2>2. /\ w \in Process /\ w.in = q.in /\ w.out = q.out /\ w.turn \in {q.turn, None} /\ w.took = q.took
        /\ w.hits = q.hits /\ w.effort = q.effort /\ w.open = q.open
    BY <1>0, <1>4 DEF Process, Turns
  <2>3. Within(q.in, q.in) /\ Within(q.out, q.out)
    BY <1>0, SameWithin DEF Process
  <2>4. Fine(Requests, s, r, w)
    BY <1>0, <2>2, <2>3, FineLess
  <2> QED BY <1>4, <2>1, <2>2, <2>4
<1>5. \/ \E k \in {"garbled", "approval", "system"} : proc' = [proc EXCEPT ![s] = Says(@, Emitted(k, None))]
      \/ proc' = [proc EXCEPT ![s] = [q EXCEPT !.alive = FALSE, !.turn = None]]
      \/ proc' = [proc EXCEPT ![s] = [q EXCEPT !.alive = FALSE]]
  BY Typed DEF Trouble
<1> QED BY <1>3, <1>4, <1>5

LEMMA FinishInv == ASSUME Inv, NEW s \in 1..Len(sess), Finish(s) PROVE Inv'
<1> DEFINE r == sess[s]
           q == proc[s]
           w == [q EXCEPT !.turn = None]
           e == Emitted("result", q.turn)
<1>0. r \in Session /\ q \in Process /\ Fine(Requests, s, r, q) /\ q.turn \in Inputs
  BY Typed, FineNow DEF Finish, Process, Turns
<1>1. /\ UNCHANGED <<story, asking, creating>> /\ troubles' \in [Troubles -> Nat]
      /\ sess' = [sess EXCEPT ![s] = r] /\ proc' = [proc EXCEPT ![s] = Says(w, e)]
  BY Typed DEF Finish, Strikes, Inv, Types, Troubles
<1>2. /\ w \in Process /\ w.in = q.in /\ w.out = q.out /\ w.turn = None /\ w.took = q.took
      /\ w.hits = q.hits /\ w.effort = q.effort /\ w.open = q.open
  BY <1>0 DEF Process, Turns
<1>3. Fine(Requests, s, r, w)
  <2>1. Within(q.in, q.in) /\ Within(q.out, q.out)
    BY <1>0, SameWithin DEF Process
  <2> QED BY <1>0, <1>2, <2>1, FineLess
<1>4. e \in Events /\ e.k = "result" /\ e.client = q.turn
  BY <1>0 DEF Emitted, Events
<1>5. r.active = q.turn /\ q.took[q.turn] = 1 /\ NoResult(w) /\ NoLine(w, "input")
  <2>0. None \notin Inputs
    BY BrokerAssumption
  <2>1. r.active = q.turn /\ q.took[q.turn] = 1 /\ NoResult(q)
    BY <1>0, <2>0 DEF Fine, Sound, Turn
  <2>2. \A c : ~Expected(r, q, c)
    BY <1>0, <2>1 DEF Expected
  <2>3. NoLine(q, "input")
    BY <1>0, <2>2 DEF Fine, Sound, InputLines, NoLine
  <2> QED BY <1>2, <2>1, <2>3 DEF NoResult, NoLine
<1>6. \A o \in Requests : asking[o].s = s => asking[o].pc # "write"
  BY <1>0, <1>5 DEF Fine, Served, Sends, Expected
<1> HIDE DEF w, e, r, q
<1>7. Fine(Requests, s, r, Says(w, e))
  <2>1. Sayable(Requests, s, r, w, e)
    BY <1>2, <1>4, <1>5, <1>6 DEF Sayable
  <2> QED BY <1>3, <1>4, <2>1, SaysEvent
<1>8. Keeps(s, r, Says(w, e))
  BY <1>2, SaysFields DEF Keeps, r, q
<1>9. \A c \in Inputs : r.inputs[c].in => sess[s].inputs[c].in
  BY DEF r
<1> QED BY <1>1, <1>7, <1>8, <1>9, InSession DEF Fine

(* The process takes the next line.                                         *)
Fresh(q, n) == \A i \in 1..Len(q.in) : q.in[i].ctl # n

LEMMA NextLine ==
  ASSUME Inv, NEW s \in 1..Len(sess), proc[s].in # << >>, NEW q, q = proc[s], NEW m, m = Head(q.in),
         NEW w, w = [q EXCEPT !.in = Tail(@)]
  PROVE  /\ m \in Lines /\ m.ctl \in Nat /\ m.ctl <= sess[s].count /\ (m.ctl = 0 <=> m.k \in {"input", "deny"})
         /\ 1 \in 1..Len(q.in) /\ q.in[1] = m /\ q.in \in Seq(Lines) /\ q.out \in Seq(Events)
         /\ \A i \in 1..Len(w.in) : i + 1 \in 1..Len(q.in) /\ w.in[i] = q.in[i + 1]
         /\ m.ctl # 0 => Unanswered(sess[s], q, m.ctl) /\ Fresh(w, m.ctl)
         /\ w \in Process /\ w.in = Tail(q.in) /\ w.out = q.out /\ w.turn = q.turn /\ w.took = q.took /\ w.hits = q.hits
         /\ w.effort = q.effort /\ w.open = q.open
         /\ Fine(Requests, s, sess[s], w)
<1>0. sess[s] \in Session /\ q \in Process /\ Fine(Requests, s, sess[s], q)
  BY Typed, FineNow
<1>1. q.in \in Seq(Lines) /\ q.out \in Seq(Events)
  BY <1>0 DEF Process
<1>2. /\ Within(Tail(q.in), q.in) /\ Tail(q.in) \in Seq(Lines) /\ m = q.in[1] /\ 1 \in 1..Len(q.in) /\ m \in Lines
      /\ Len(Tail(q.in)) = Len(q.in) - 1
      /\ \A i \in 1..Len(Tail(q.in)) : i + 1 \in 1..Len(q.in) /\ Tail(q.in)[i] = q.in[i + 1]
  BY <1>1, TailWithin
<1>3. /\ w \in Process /\ w.in = Tail(q.in) /\ w.out = q.out /\ w.turn = q.turn /\ w.took = q.took /\ w.hits = q.hits
      /\ w.effort = q.effort /\ w.open = q.open
  BY <1>0, <1>2 DEF Process
<1>4. /\ m.ctl \in Nat /\ m.ctl <= sess[s].count /\ (m.ctl = 0 <=> m.k \in {"input", "deny"})
      /\ m.ctl # 0 => Unanswered(sess[s], q, m.ctl) /\ \A j \in 1..Len(q.in) : q.in[j].ctl = m.ctl => 1 = j
  <2>1. m.ctl \in Nat
    BY <1>2 DEF Lines
  <2>2. Controls(sess[s], q)
    BY <1>0 DEF Fine, Sound
  <2> QED BY <1>2, <2>1, <2>2 DEF Controls
<1>5. m.ctl # 0 => Fresh(w, m.ctl)
  BY <1>2, <1>3, <1>4 DEF Fresh
<1>6. Fine(Requests, s, sess[s], w)
  <2>1. Within(w.in, q.in) /\ Within(w.out, q.out)
    BY <1>1, <1>2, <1>3, SameWithin
  <2> QED BY <1>0, <1>3, <2>1, FineLess
<1> QED BY <1>1, <1>2, <1>3, <1>4, <1>5, <1>6

(* It answers a control.                                                    *)
LEMMA Answers ==
  ASSUME Inv, NEW s \in 1..Len(sess), proc[s].in # << >>, NEW w, Fine(Requests, s, sess[s], w),
         w.in = Tail(proc[s].in), w.out = proc[s].out, w.effort \in {proc[s].effort, "high"},
         NEW m, m = Head(proc[s].in), m.k \notin {"input", "deny"}, NEW res \in {"ok", "rejected"},
         res = "ok" => \A o \in Requests : asking[o].s = s /\ asking[o].pc = "interrupting" /\ asking[o].ctl = m.ctl => Hit(w, asking[o].turn)
  PROVE  /\ Fine(Requests, s, sess[s], Reply(w, m, res)) /\ Reply(w, m, res).in = w.in /\ Reply(w, m, res).turn = w.turn
         /\ Reply(w, m, res).took = w.took /\ Reply(w, m, res).hits = w.hits /\ Reply(w, m, res).effort = w.effort
         /\ Reply(w, m, res).open = w.open
         /\ \E e \in Events : e.k = "answer" /\ Reply(w, m, res).out = Append(w.out, e)
<1> DEFINE a == [ctl |-> m.ctl, res |-> res, effort |-> w.effort]
           e == [k |-> "answer", a |-> a]
<1>0. w \in Process /\ sess[s] \in Session
  BY DEF Fine
<1>1. /\ m.ctl \in Nat /\ m.ctl # 0 /\ m.ctl <= sess[s].count
      /\ \A i \in 1..Len(w.in) : w.in[i].ctl # m.ctl
  <2> DEFINE z == [proc[s] EXCEPT !.in = Tail(@)]
  <2>0. z = [proc[s] EXCEPT !.in = Tail(@)] /\ z.in = Tail(proc[s].in)
    BY Typed DEF Process
  <2> HIDE DEF z
  <2> DEFINE q == proc[s]
  <2>1. q.in # << >> /\ m = Head(q.in) /\ z = [q EXCEPT !.in = Tail(@)] /\ q = proc[s]
    BY <2>0
  <2> HIDE DEF q
  <2>2. m.ctl \in Nat /\ m.ctl <= sess[s].count
    BY <2>1, NextLine
  <2>3. m.ctl # 0
    BY <2>1, NextLine
  <2>4. Fresh(z, m.ctl)
    BY <2>1, <2>3, NextLine
  <2> QED BY <2>0, <2>2, <2>3, <2>4 DEF Fresh
<1>2. a \in AnswerRecord /\ High(w, a.effort)
  BY <1>0, <1>1 DEF AnswerRecord, Process, High
<1>3. e \in Events /\ e.k = "answer" /\ e.a = a /\ a.ctl = m.ctl /\ a.res = res
  BY <1>2 DEF Events
<1>4. Reply(w, m, res) = Says(w, e)
  BY DEF Reply
<1> HIDE DEF e, a
<1>5. Sayable(Requests, s, sess[s], w, e)
  BY <1>1, <1>2, <1>3 DEF Sayable
<1>6. Fine(Requests, s, sess[s], Says(w, e))
  BY <1>3, <1>5, SaysEvent
<1> QED BY <1>0, <1>3, <1>4, <1>6, SaysFields

LEMMA TakeInv == ASSUME Inv, NEW s \in 1..Len(sess), Take(s) PROVE Inv'
<1> DEFINE r == sess[s]
           q == proc[s]
           m == Head(q.in)
           w == [q EXCEPT !.in = Tail(@)]
<1>0. /\ q.in # << >> /\ r \in Session /\ q \in Process /\ Fine(Requests, s, r, q)
      /\ q = proc[s] /\ r = sess[s] /\ m = Head(q.in) /\ w = [q EXCEPT !.in = Tail(@)]
      /\ proc[s].in # << >>
  BY Typed, FineNow DEF Take
<1>1. /\ UNCHANGED <<story, asking, creating>> /\ troubles' \in [Troubles -> Nat]
      /\ sess' = [sess EXCEPT ![s] = r]
  <2>1. UNCHANGED <<story, asking, creating>> /\ sess' = [sess EXCEPT ![s] = r]
    BY Typed DEF Take, Inv, Types
  <2>2. (\E k \in Troubles : Strikes(k)) \/ troubles' = troubles
    BY DEF Take, Troubles
  <2> QED BY <2>1, <2>2, Struck DEF Inv, Types
<1>2. ASSUME NEW z, proc' = [proc EXCEPT ![s] = z], Fine(Requests, s, r, z), z.open = q.open PROVE Inv'
  <2>1. Keeps(s, r, z)
    BY <1>2 DEF Keeps
  <2> QED BY <1>1, <1>2, <2>1, InSession DEF Fine
<1>3. \/ /\ m.k = "input" /\ q.turn = None
         /\ proc' = [proc EXCEPT ![s] = Says([w EXCEPT !.turn = m.client, !.took[m.client] = @ + 1], Emitted("replay", m.client))]
      \/ /\ m.k = "interrupt"
         /\ LET hit == [Reply(w, m, "ok") EXCEPT !.hits = @ \cup {<<m.client, q.turn>>}, !.turn = None] IN
             proc' = [proc EXCEPT ![s] = IF q.turn = None THEN hit ELSE Says(hit, Emitted("result", q.turn))]
      \/ /\ m.k = "apply"
         /\ \/ proc' = [proc EXCEPT ![s] = Reply([w EXCEPT !.effort = "high"], m, "ok")]
            \/ proc' = [proc EXCEPT ![s] = Reply(w, m, "ok")]
      \/ m.k \in {"initialize", "get", "model", "title"} /\ proc' = [proc EXCEPT ![s] = Reply(w, m, "ok")]
      \/ m.k = "deny" /\ proc' = [proc EXCEPT ![s] = w]
      \/ m.k \notin {"input", "deny"} /\ proc' = [proc EXCEPT ![s] = Reply(w, m, "rejected")]
  BY DEF Take
<1> HIDE DEF r, q, m, w
<1>4. /\ m \in Lines /\ 1 \in 1..Len(q.in) /\ q.in[1] = m
      /\ \A i \in 1..Len(w.in) : i + 1 \in 1..Len(q.in) /\ w.in[i] = q.in[i + 1]
      /\ w \in Process /\ w.in = Tail(q.in) /\ w.out = q.out /\ w.turn = q.turn /\ w.took = q.took /\ w.hits = q.hits
      /\ w.effort = q.effort /\ w.open = q.open
  BY <1>0, NextLine
<1>5. Fine(Requests, s, r, w)
  BY <1>0, NextLine
<1>6. \A o \in Requests : asking[o].s = s => Served(asking[o], Job(o), r, q)
  BY <1>0 DEF Fine
<1>7. ASSUME NEW res \in {"ok", "rejected"}, NEW z, Fine(Requests, s, r, z), z.in = w.in, z.out = w.out, z.open = w.open,
             z.effort \in {q.effort, "high"}, m.k \notin {"input", "deny"}, m.k = "interrupt" => res = "rejected" \/ Hit(z, m.client)
      PROVE  Fine(Requests, s, r, Reply(z, m, res)) /\ Reply(z, m, res).open = q.open
  <2>1. ASSUME NEW o \in Requests, asking[o].s = s, asking[o].pc = "interrupting", asking[o].ctl = m.ctl, res = "ok"
        PROVE  Hit(z, asking[o].turn)
    <3>1. Truly(asking[o], q)
      BY <1>6, <2>1 DEF Served, Stops
    <3>2. m.k = "interrupt" /\ m.client = asking[o].turn
      BY <1>4, <2>1, <3>1 DEF Truly
    <3> QED BY <1>7, <2>1, <3>2
  <2>2. Fine(Requests, s, r, Reply(z, m, res))
    BY <1>0, <1>4, <1>7, <2>1, Answers
  <2>3. Reply(z, m, res).open = z.open
    BY <1>7, SaysFields DEF Fine, Reply
  <2> QED BY <1>4, <1>7, <2>2, <2>3
<1>8. CASE m.k = "input" /\ q.turn = None /\ proc' = [proc EXCEPT ![s] = Says([w EXCEPT !.turn = m.client, !.took[m.client] = @ + 1], Emitted("replay", m.client))]
  <2> DEFINE c == m.client
             z == [w EXCEPT !.turn = c, !.took[c] = @ + 1]
             e == Emitted("replay", c)
  <2>1. Expected(r, q, c) /\ \A j \in 1..Len(q.in) : q.in[j].k = "input" => 1 = j
    BY <1>0, <1>4, <1>8 DEF Fine, Sound, InputLines
  <2>2. Expected(r, w, c) /\ NoLine(w, "input") /\ c \in Inputs /\ w.took[c] = 0 /\ w.turn = None
    BY <1>4, <1>8, <2>1 DEF Expected, NoResult, NoLine
  <2>3. /\ z \in Process /\ z.in = w.in /\ z.out = w.out /\ z.turn = c /\ z.took[c] = 1
        /\ \A x \in Inputs : x # c => z.took[x] = w.took[x]
        /\ z.hits = w.hits /\ z.effort = w.effort /\ z.open = w.open
    <3> DEFINE t == [w.took EXCEPT ![c] = @ + 1]
    <3>1. t \in [Inputs -> Nat] /\ t[c] = 1 /\ \A x \in Inputs : x # c => t[x] = w.took[x]
      BY <1>4, <2>2 DEF Process
    <3>2. z = [w EXCEPT !.turn = c, !.took = t]
      BY <1>4 DEF Process
    <3> HIDE DEF t, z
    <3>3. c \in Turns
      BY <2>2 DEF Turns
    <3> HIDE DEF c
    <3> QED BY <1>4, <3>1, <3>2, <3>3 DEF Process
  <2>4. e \in Events /\ e.k = "replay" /\ e.client = c
    BY <2>2 DEF Emitted, Events
  <2>5. proc' = [proc EXCEPT ![s] = Says(z, e)]
    BY <1>8
  <2> HIDE DEF z, e, c
  <2>6. Sound(r, z) /\ \A d \in Asking, j \in Jobs : Served(d, j, r, w) /\ d.pc \notin {"write", "interrupt"} => Served(d, j, r, z)
    <3>1. Sound(r, w)
      BY <1>5 DEF Fine
    <3>2. r \in Session /\ w \in Process /\ z \in Process /\ c \in Inputs /\ Expected(r, w, c) /\ NoLine(w, "input") /\ w.turn = None
      BY <1>0, <1>4, <2>2, <2>3
    <3> QED BY <2>3, <3>1, <3>2, Takes
  <2>7. \A o \in Requests : asking[o].s = s => asking[o].pc \notin {"write", "interrupt"}
    BY <1>4, <1>6, <1>8 DEF Served, Sends, Stops, NoLine
  <2>8. Fine(Requests, s, r, z)
    BY <1>0, <1>5, <2>3, <2>6, <2>7, Typed DEF Fine
  <2>9. Sayable(Requests, s, r, z, e)
    BY <2>3, <2>4 DEF Sayable
  <2>10. Fine(Requests, s, r, Says(z, e)) /\ Says(z, e).open = q.open
    <3>1. Fine(Requests, s, r, Says(z, e))
      BY <2>4, <2>8, <2>9, SaysEvent
    <3> QED BY <1>4, <2>3, <3>1, SaysFields
  <2> QED BY <1>2, <2>5, <2>10
<1>9. ASSUME m.k = "interrupt", NEW hit, hit = [Reply(w, m, "ok") EXCEPT !.hits = @ \cup {<<m.client, q.turn>>}, !.turn = None],
             proc' = [proc EXCEPT ![s] = IF q.turn = None THEN hit ELSE Says(hit, Emitted("result", q.turn))]
      PROVE  Inv'
  <2> DEFINE z == [w EXCEPT !.hits = @ \cup {<<m.client, q.turn>>}, !.turn = None]
             e == Emitted("result", q.turn)
  <2>0. None \notin Inputs
    BY BrokerAssumption
  <2>1. m.client \in Inputs /\ q.turn \in Turns
    BY <1>0, <1>4, <1>9, ZenonT(40) DEF Fine, Sound, InterruptLines, Process
  <2>2. /\ z \in Process /\ z.in = w.in /\ z.out = w.out /\ z.turn = None /\ z.took = w.took /\ z.effort = w.effort /\ z.open = w.open
        /\ w.hits \subseteq z.hits /\ <<m.client, q.turn>> \in z.hits
    <3> DEFINE h == w.hits \cup {<<m.client, q.turn>>}
    <3>1. h \in SUBSET (Inputs \X Turns) /\ w.hits \subseteq h /\ <<m.client, q.turn>> \in h
      BY <1>4, <2>1 DEF Process
    <3>2. z = [w EXCEPT !.hits = h, !.turn = None] /\ None \in Turns
      BY DEF Turns
    <3> HIDE DEF h, z
    <3> QED BY <1>4, <3>1, <3>2 DEF Process
  <2>3. hit = Reply(z, m, "ok")
    <3>1. Append(w.out, [k |-> "answer", a |-> [ctl |-> m.ctl, res |-> "ok", effort |-> w.effort]]) =
          Append(z.out, [k |-> "answer", a |-> [ctl |-> m.ctl, res |-> "ok", effort |-> z.effort]])
      BY <2>2
    <3> DEFINE x == Append(w.out, [k |-> "answer", a |-> [ctl |-> m.ctl, res |-> "ok", effort |-> w.effort]])
    <3>2. Reply(w, m, "ok") = [w EXCEPT !.out = x] /\ Reply(z, m, "ok") = [z EXCEPT !.out = x]
      BY <3>1 DEF Reply, Says
    <3> HIDE DEF x
    <3>3. [[w EXCEPT !.out = x] EXCEPT !.hits = @ \cup {<<m.client, q.turn>>}, !.turn = None] = [z EXCEPT !.out = x]
      BY <1>4 DEF Process
    <3> QED BY <1>9, <3>2, <3>3
  <2> HIDE DEF z
  <2>4. Fine(Requests, s, r, z)
    <3>1. Within(z.in, w.in) /\ Within(z.out, w.out)
      BY <1>4, <2>2, SameWithin DEF Process
    <3> QED BY <1>5, <2>2, <3>1, FineLess
  <2>5. Fine(Requests, s, r, hit) /\ hit.open = q.open
    <3>1. Hit(z, m.client)
      BY <2>2 DEF Hit
    <3>2. z.effort \in {q.effort, "high"}
      BY <1>4, <2>2
    <3>3. z.in = w.in /\ z.out = w.out /\ z.open = w.open /\ m.k \notin {"input", "deny"} /\ "ok" \in {"ok", "rejected"}
      BY <1>9, <2>2
    <3>4. Fine(Requests, s, r, Reply(z, m, "ok")) /\ Reply(z, m, "ok").open = q.open
      BY <1>7, <2>4, <3>1, <3>2, <3>3
    <3> QED BY <2>3, <3>4
  <2>6. CASE q.turn = None
    BY <1>2, <1>9, <2>5, <2>6
  <2>7. CASE q.turn # None
    <3>1. q.turn \in Inputs
      BY <2>1, <2>7 DEF Turns
    <3>2. r.active = q.turn /\ q.took[q.turn] = 1 /\ NoResult(q)
      BY <1>0, <2>7 DEF Fine, Sound, Turn
    <3>3. \A c : ~Expected(r, q, c)
      BY <2>0, <3>1, <3>2 DEF Expected
    <3>4. NoLine(q, "input")
      BY <1>0, <3>3 DEF Fine, Sound, InputLines, NoLine
    <3>5. /\ hit.in = z.in /\ hit.turn = z.turn /\ hit.took = z.took
          /\ hit.out = Append(z.out, [k |-> "answer", a |-> [ctl |-> m.ctl, res |-> "ok", effort |-> z.effort]])
      BY <2>2, <2>3, SaysFields DEF Reply
    <3>6. NoLine(hit, "input")
      BY <1>4, <2>2, <3>4, <3>5 DEF NoLine
    <3>7. NoResult(hit)
      <4> DEFINE a == [k |-> "answer", a |-> [ctl |-> m.ctl, res |-> "ok", effort |-> z.effort]]
      <4>1. a.k = "answer" /\ z.out = q.out /\ q.out \in Seq(Events) /\ hit.out = Append(q.out, a)
        BY <1>0, <1>4, <2>2, <3>5 DEF Process
      <4> HIDE DEF a
      <4>2. \A i \in 1..Len(hit.out) : hit.out[i] = a \/ (i \in 1..Len(q.out) /\ hit.out[i] = q.out[i])
        BY <4>1
      <4> QED BY <3>2, <4>1, <4>2 DEF NoResult
    <3>8. e \in Events /\ e.k = "result" /\ e.client = q.turn
      BY <3>1 DEF Emitted, Events
    <3>9. \A o \in Requests : asking[o].s = s => asking[o].pc # "write"
      BY <1>6, <3>3 DEF Served, Sends
    <3> HIDE DEF e
    <3>10. Sayable(Requests, s, r, hit, e)
      BY <1>4, <2>2, <3>2, <3>5, <3>6, <3>7, <3>8, <3>9 DEF Sayable
    <3>11. Fine(Requests, s, r, Says(hit, e))
      BY <2>5, <3>8, <3>10, SaysEvent
    <3>12. Says(hit, e).open = q.open
      BY <2>5, SaysFields DEF Fine
    <3>13. proc' = [proc EXCEPT ![s] = Says(hit, e)]
      BY <1>9, <2>7 DEF e
    <3> QED BY <1>2, <3>11, <3>12, <3>13
  <2> QED BY <2>6, <2>7
<1>10. CASE m.k = "apply" /\ proc' = [proc EXCEPT ![s] = Reply([w EXCEPT !.effort = "high"], m, "ok")]
  <2> DEFINE z == [w EXCEPT !.effort = "high"]
  <2>1. /\ z \in Process /\ z.in = w.in /\ z.out = w.out /\ z.turn = w.turn /\ z.took = w.took /\ z.effort = "high" /\ z.open = w.open
        /\ z.hits = w.hits
    BY <1>4 DEF Process
  <2> HIDE DEF z
  <2>2. Fine(Requests, s, r, z)
    <3>1. Within(z.in, w.in) /\ Within(z.out, w.out)
      BY <1>4, <2>1, SameWithin DEF Process
    <3> QED BY <1>5, <2>1, <3>1, FineLess
  <2>3. Fine(Requests, s, r, Reply(z, m, "ok")) /\ Reply(z, m, "ok").open = q.open
    BY <1>7, <1>10, <2>1, <2>2
  <2> QED BY <1>2, <1>10, <2>3 DEF z
<1>11. ASSUME NEW res \in {"ok", "rejected"}, m.k \notin {"input", "deny"}, res = "ok" => m.k # "interrupt",
              proc' = [proc EXCEPT ![s] = Reply(w, m, res)]
       PROVE  Inv'
  <2>1. Fine(Requests, s, r, Reply(w, m, res)) /\ Reply(w, m, res).open = q.open
    BY <1>4, <1>5, <1>7, <1>11
  <2> QED BY <1>2, <1>11, <2>1
<1>12. CASE proc' = [proc EXCEPT ![s] = w]
  BY <1>2, <1>4, <1>5, <1>12
<1> QED BY <1>3, <1>8, <1>9, <1>10, <1>11, <1>12

LEMMA ListInv == ASSUME Inv, NEW s \in 1..Len(sess), ListSession(s) PROVE Inv'
<1> DEFINE r == sess[s]
           q == proc[s]
           z == [r EXCEPT !.listed = TRUE]
<1>0. r \in Session /\ q \in Process /\ Fine(Requests, s, r, q)
  BY Typed, FineNow
<1>1. /\ UNCHANGED <<story, asking, creating>> /\ troubles' \in [Troubles -> Nat]
      /\ sess' = [sess EXCEPT ![s] = z] /\ proc' = [proc EXCEPT ![s] = q]
      /\ \E c \in Inputs : creating[c].s = s
  BY Typed DEF ListSession, Inv, Types
<1>2. /\ z \in Session
      /\ z.inputs = r.inputs /\ z.active = r.active /\ z.answers = r.answers /\ z.ctrls = r.ctrls /\ z.count = r.count
      /\ z.exited = r.exited /\ z.fenced = r.fenced /\ z.effort = r.effort /\ z.controlling = r.controlling
  BY <1>0 DEF Session
<1>3. High(q, z.effort)
  BY <1>0, <1>2 DEF Fine, Sound, Controls
<1> HIDE DEF z
<1>4. Sound(z, q) /\ \A d \in Asking, j \in Jobs : Served(d, j, r, q) /\ (d.pc \in Holding => z.controlling) => Served(d, j, z, q)
  BY <1>0, <1>2, <1>3, Flags DEF Fine
<1>5. Fine(Requests, s, z, q)
  BY <1>0, <1>2, <1>4, Typed DEF Fine, Served, Controlling
<1>6. Keeps(s, z, q)
  BY <1>1, <1>2 DEF Keeps, Closed
<1>7. \A c \in Inputs : z.inputs[c].in => sess[s].inputs[c].in
  BY <1>2
<1> QED BY <1>0, <1>1, <1>5, <1>6, <1>7, InSession DEF Fine

-----------------------------------------------------------------------------
(* The steps of a request in its session.                                   *)
Running == {"starting", "send", "write", "receipt", "stop", "model", "choose", "choosing", "rename", "name", "naming"}
           \cup Stopping \cup Setting
Others(p) == Requests \ {p}

LEMMA OthersNow ==
  ASSUME Inv, NEW p \in Requests, NEW s \in 1..Len(sess)
  PROVE  Fine(Others(p), s, sess[s], proc[s])
BY FineNow DEF Fine, Others

LEMMA Own ==
  ASSUME Inv, NEW p \in Requests, NEW s \in 1..Len(sess), asking[p].s = s
  PROVE  /\ Served(asking[p], Job(p), sess[s], proc[s])
         /\ \A o \in Requests : o # p /\ asking[o].s = s => Together(asking[p], asking[o]) /\ Together(asking[o], asking[p])
<1>1. s # 0
  BY Typed
<1> QED BY <1>1 DEF Inv, Flow, Apart

Gives(p, s, r, q) ==
  /\ asking[p].s = s /\ asking[p].pc \in Running /\ Fine(Others(p), s, r, q) /\ Keeps(s, r, q)
  /\ asking[p].pc = "starting" => ~q.open
  /\ \A c \in Inputs : r.inputs[c].in => sess[s].inputs[c].in

LEMMA Giving ==
  ASSUME Inv, NEW p \in Requests, NEW s \in 1..Len(sess), NEW r, NEW q, Gives(p, s, r, q),
         Err(p), sess' = [sess EXCEPT ![s] = r], proc' = [proc EXCEPT ![s] = q],
         story' = story, creating' = creating, troubles' \in [Troubles -> Nat]
  PROVE  Inv'
<1> DEFINE c == asking[p]
           d == [c EXCEPT !.pc = IF c.then = "end" THEN "end" ELSE "failed", !.out = "error"]
<1>0. c \in Asking /\ Job(p) \in Jobs /\ Placed(c, Job(p)) /\ c.s = s
  BY Typed DEF Gives
<1>1. /\ d \in Asking /\ d.pc = (IF c.then = "end" THEN "end" ELSE "failed") /\ d.out = "error" /\ d.s = s
      /\ d.then = c.then
      /\ asking' = [asking EXCEPT ![p] = d]
  BY <1>0 DEF Err, Asking, Pcs, Inv, Types
<1> HIDE DEF d, c
<1>2. Placed(d, Job(p))
  <2>1. d.pc \in Path(Job(p).op)
    <3>1. c.pc # "idle" /\ Job(p).op \in BrokerOps /\ c.pc \in Path(Job(p).op)
      BY <1>0 DEF Gives, Placed, Running, Stopping, Setting, Jobs, c
    <3>2. Job(p).op # "none" /\ "end" \in Path(Job(p).op)
      BY <3>1 DEF Path, BrokerOps
    <3>3. c.then # "end" => Job(p).op = "create" /\ "failed" \in Path("create")
      BY <1>0 DEF Placed, Path
    <3> QED BY <1>1, <3>2, <3>3
  <2>2. s # 0
    BY Typed
  <2> QED BY <1>0, <1>1, <2>1, <2>2 DEF Placed, Setting
<1>3. Served(d, Job(p), r, q)
  BY <1>1 DEF Served, Sends, Waits, Controlling, Stops, Ends, Waiting, Stopping, Holding
<1>4. \A o \in Requests : o # p /\ asking[o].s = s => Together(d, asking[o]) /\ Together(asking[o], d)
  BY <1>0, <1>1, Own DEF Gives, Together, Holding, Stopping
<1>5. ASSUME Creates(p) PROVE Continues(p, d, q)
  BY <1>1 DEF Gives, Continues, Making, Running, Served0, Setting, Stopping, c
<1>6. /\ r \in Session /\ q \in Process /\ Sound(r, q) /\ asking[p].s \in {0, s}
      /\ \A o \in Requests : o # p /\ asking[o].s = s => Served(asking[o], Job(o), r, q) /\ Together(d, asking[o]) /\ Together(asking[o], d)
  BY <1>4 DEF Gives, Fine, Others
<1>7. \A x \in Inputs : r.inputs[x].in => sess[s].inputs[x].in \/ (x = Job(p).client /\ (Job(p).op = "send" \/ (Creates(p) /\ creating[x].s = s)))
  BY DEF Gives
<1>8. Evolves(p, s, r, q, d)
  BY <1>1, <1>2, <1>3, <1>5, <1>6, <1>7 DEF Gives, Evolves
<1> QED BY <1>1, <1>6, <1>8, Local

Moving(p, s, r, q, d) ==
  /\ asking[p].s = s /\ asking[p].pc \in Running \ {"starting"}
  /\ d.s = s /\ d.then = asking[p].then /\ d.pc \in (Running \ {"starting"}) \cup {"made", "end"}
  /\ d.pc = "end" => d.then = "end"
  /\ Placed(d, Job(p)) /\ Fine(Others(p), s, r, q) /\ Keeps(s, r, q) /\ Served(d, Job(p), r, q)
  /\ \A o \in Requests : o # p /\ asking[o].s = s =>
       /\ d.pc \in Holding => asking[o].pc \notin Holding
       /\ d.pc \in {"write", "interrupt"} => asking[o].pc # "write"
       /\ d.pc = "write" => asking[o].pc # "interrupt"
  /\ \A c \in Inputs : r.inputs[c].in => sess[s].inputs[c].in \/ (c = Job(p).client /\ asking[p].pc = "send")

LEMMA Moves ==
  ASSUME Inv, NEW p \in Requests, NEW s \in 1..Len(sess), NEW r, NEW q, NEW d \in Asking, Moving(p, s, r, q, d),
         asking' = [asking EXCEPT ![p] = d], sess' = [sess EXCEPT ![s] = r], proc' = [proc EXCEPT ![s] = q],
         story' = story, creating' = creating, troubles' = troubles
  PROVE  Inv'
<1>0. asking[p] \in Asking /\ Job(p) \in Jobs /\ Placed(asking[p], Job(p)) /\ asking[p].s \in {0, s} /\ s # 0
  BY Typed DEF Moving
<1>1. \A o \in Requests : o # p /\ asking[o].s = s => Together(d, asking[o]) /\ Together(asking[o], d)
  BY Own DEF Moving, Together, Running, Stopping, Setting
<1>2. ASSUME Creates(p) PROVE Of(p).s = s
  <2>1. asking[p].pc \in Setting \cup {"send", "write", "receipt", "made"}
    <3>1. asking[p].pc \in Path("create") /\ asking[p].pc \in Running \ {"starting"}
      BY <1>0, <1>2 DEF Moving, Creates, Placed
    <3> QED BY <3>1 DEF Path, Running, Stopping
  <2> QED BY <1>2, <2>1 DEF Inv, Makers, Makes, Moving
<1>3. ASSUME Creates(p) PROVE Continues(p, d, q)
  BY <1>2, <1>3 DEF Moving, Continues, Making, Running, Stopping, Setting
<1>4. ASSUME asking[p].pc = "send" PROVE Job(p).op = "send" \/ Creates(p)
  <2>1. Job(p).op \in BrokerOps /\ "send" \in Path(Job(p).op)
    BY <1>0, <1>4 DEF Placed, Jobs
  <2> QED BY <2>1 DEF Creates, Path, Stopping, Setting, BrokerOps
<1>5. \A x \in Inputs : r.inputs[x].in => sess[s].inputs[x].in \/ (x = Job(p).client /\ (Job(p).op = "send" \/ (Creates(p) /\ creating[x].s = s)))
  BY <1>2, <1>4 DEF Moving, Of
<1>6. /\ r \in Session /\ q \in Process /\ Sound(r, q) /\ troubles' \in [Troubles -> Nat]
      /\ \A o \in Requests : o # p /\ asking[o].s = s => Served(asking[o], Job(o), r, q) /\ Together(d, asking[o]) /\ Together(asking[o], d)
  BY <1>1 DEF Moving, Fine, Others, Inv, Types
<1>7. Evolves(p, s, r, q, d)
  BY <1>0, <1>3, <1>5, <1>6 DEF Moving, Evolves
<1> QED BY <1>6, <1>7, Local

(* Where the request goes next.                                             *)
Nexts == {<<"send", "write">>, <<"send", "receipt">>, <<"write", "receipt">>,
          <<"stop", "interrupt">>, <<"interrupt", "interrupting">>, <<"interrupting", "terminal">>,
          <<"effort", "apply">>, <<"apply", "applying">>, <<"applying", "readback">>, <<"readback", "reading">>,
          <<"model", "choose">>, <<"choose", "choosing">>, <<"rename", "name">>, <<"name", "naming">>}

LEMMA GoesNext ==
  ASSUME NEW c \in Asking, NEW j \in Jobs, Placed(c, j), c.s # 0, NEW d \in Asking,
         d.s = c.s, d.then = c.then, <<c.pc, d.pc>> \in Nexts, c.pc = "send" => c.then # "send"
  PROVE  Placed(d, j) /\ c.pc \in Running \ {"starting"} /\ d.pc \in Running \ {"starting"}
<1>1. c.pc \in Running \ {"starting"} /\ d.pc \in Running \ {"starting"}
  BY DEF Nexts, Running, Stopping, Setting
<1>2. j.op \in BrokerOps /\ c.pc \in Path(j.op)
  BY DEF Placed, Jobs
<1>3. d.pc \in Path(j.op)
  <2>1. CASE j.op = "none" \/ j.op = "send"
    BY <1>2, <2>1 DEF Path, Nexts
  <2>2. CASE j.op = "stop" \/ j.op = "model"
    BY <1>2, <2>2 DEF Path, Nexts, Stopping
  <2>3. CASE j.op = "effort" \/ j.op = "rename"
    BY <1>2, <2>3 DEF Path, Nexts, Setting
  <2>4. CASE j.op = "create"
    BY <1>2, <2>4 DEF Path, Nexts, Setting
  <2> QED BY <1>2, <2>1, <2>2, <2>3, <2>4 DEF BrokerOps
<1>4. c.pc \in Setting <=> d.pc \in Setting
  BY DEF Nexts, Setting
<1>5. d.pc \notin {"idle", "start", "starting", "created", "end", "made", "failed", "send"}
  BY DEF Nexts
<1>6. d.pc \in {"write", "receipt"} => c.pc \in {"send", "write"}
  BY DEF Nexts
<1>7. c.then \in {"end", "effort", "send", "made"}
  BY DEF Asking
<1> QED BY <1>1, <1>3, <1>4, <1>5, <1>6, <1>7 DEF Placed

LEMMA GoFields ==
  ASSUME Inv, NEW p \in Requests, NEW x \in Pcs, Go(p, x)
  PROVE  \E d \in Asking : /\ asking' = [asking EXCEPT ![p] = d]
                           /\ d.pc = x /\ d.s = asking[p].s /\ d.ctl = asking[p].ctl /\ d.turn = asking[p].turn
                           /\ d.then = asking[p].then /\ d.out = asking[p].out
<1>1. asking[p] \in Asking /\ [asking[p] EXCEPT !.pc = x] \in Asking
  BY Typed DEF Asking
<1>2. asking' = [asking EXCEPT ![p] = [asking[p] EXCEPT !.pc = x]]
  BY DEF Go, Inv, Types
<1> QED BY <1>1, <1>2 DEF Asking

LEMMA OkFields ==
  ASSUME Inv, NEW p \in Requests, Ok(p), asking[p].pc \in {"receipt", "terminal", "reading", "choosing", "naming"}
  PROVE  /\ \E d \in Asking : /\ asking' = [asking EXCEPT ![p] = d]
                              /\ d.pc = asking[p].then /\ d.s = asking[p].s /\ d.ctl = asking[p].ctl
                              /\ d.turn = asking[p].turn /\ d.then = asking[p].then /\ d.out = "ok"
                              /\ Placed(d, Job(p))
                              /\ d.pc \in {"made", "end"} \/ (d.pc = "send" /\ asking[p].pc = "reading")
         /\ asking[p].pc # "receipt" => asking[p].then = "end" \/ Creates(p)
<1> DEFINE c == asking[p]
           d == [c EXCEPT !.pc = c.then, !.out = "ok"]
<1>1. c \in Asking /\ Job(p) \in Jobs /\ Placed(c, Job(p))
  BY Typed
<1>2. /\ d \in Asking /\ d.pc = c.then /\ d.s = c.s /\ d.ctl = c.ctl /\ d.turn = c.turn /\ d.then = c.then /\ d.out = "ok"
      /\ asking' = [asking EXCEPT ![p] = d]
  BY <1>1 DEF Ok, Asking, Pcs, Inv, Types
<1>3. c.pc \in {"receipt", "terminal", "reading", "choosing", "naming"}
  OBVIOUS
<1> HIDE DEF c, d
<1>4. Job(p).op \in BrokerOps /\ c.pc \in Path(Job(p).op) /\ c.s # 0
  BY <1>1, <1>3 DEF Placed, Jobs
<1>5. Job(p).op = "create" => c.pc \in {"receipt", "reading"}
  BY <1>3, <1>4 DEF Path, Setting
<1>6. /\ c.then \in {"made", "end"} \/ (c.then = "send" /\ c.pc = "reading")
      /\ c.then # "end" => Job(p).op = "create"
  BY <1>1, <1>3, <1>5 DEF Placed, Setting, Asking
<1>7. c.then \in Path(Job(p).op)
  <2>1. CASE Job(p).op = "create"
    BY <1>6, <2>1 DEF Path
  <2>2. CASE Job(p).op # "create"
    <3>1. c.then = "end"
      BY <1>6, <2>2
    <3>2. Job(p).op # "none"
      BY <1>3, <1>4 DEF Path
    <3> QED BY <1>4, <2>2, <3>1, <3>2 DEF Path, BrokerOps
  <2> QED BY <2>1, <2>2
<1>8. Placed(d, Job(p))
  BY <1>1, <1>2, <1>4, <1>6, <1>7 DEF Placed, Setting
<1>9. c.pc # "receipt" => c.then = "end" \/ Creates(p)
  BY <1>6 DEF Creates
<1> QED BY <1>2, <1>6, <1>8, <1>9 DEF c

LEMMA Here ==
  ASSUME Inv, NEW p \in Requests, asking[p].pc \in Running
  PROVE  LET s == asking[p].s IN
         /\ s \in 1..Len(sess) /\ s # 0 /\ sess[s] \in Session /\ proc[s] \in Process /\ Sound(sess[s], proc[s])
         /\ Fine(Others(p), s, sess[s], proc[s]) /\ Served(asking[p], Job(p), sess[s], proc[s])
         /\ sess = [sess EXCEPT ![s] = sess[s]] /\ proc = [proc EXCEPT ![s] = proc[s]]
         /\ asking[p] \in Asking /\ Job(p) \in Jobs /\ Placed(asking[p], Job(p)) /\ troubles \in [Troubles -> Nat]
<1>1. asking[p].s # 0
  BY Typed DEF Placed, Running, Stopping, Setting
<1>2. asking[p].s \in 1..Len(sess)
  BY <1>1, Typed
<1> QED BY <1>1, <1>2, Typed, Own, OthersNow DEF Inv, Types

LEMMA GivesUp ==
  ASSUME Inv, NEW p \in Requests, asking[p].pc \in Running \ {"starting"}, Err(p),
         UNCHANGED <<story, creating, sess, proc>>, troubles' \in [Troubles -> Nat]
  PROVE  Inv'
<1> DEFINE s == asking[p].s
<1>1. s \in 1..Len(sess) /\ Fine(Others(p), s, sess[s], proc[s]) /\ sess' = [sess EXCEPT ![s] = sess[s]] /\ proc' = [proc EXCEPT ![s] = proc[s]]
  BY Here
<1>2. Gives(p, s, sess[s], proc[s])
  BY <1>1 DEF Gives, Keeps
<1> QED BY <1>1, <1>2, Giving

(* A control that is given back.                                            *)
LEMMA Settled ==
  ASSUME Inv, NEW p \in Requests, asking[p].pc \in Holding, asking[p].pc = "interrupting" => AnswerTo(p) # {}
  PROVE  Closed(sess[asking[p].s]) \/ NoLine(proc[asking[p].s], "interrupt")
<1> DEFINE c == asking[p]
           r == sess[c.s]
           q == proc[c.s]
<1>0. r \in Session /\ q \in Process /\ Controls(r, q) /\ Controlling(c, r, q)
  <2>1. c.pc \in Running
    BY DEF Holding, Running, Setting
  <2> QED BY <2>1, Here DEF Sound, Served
<1>1. AnswerTo(p) = {a \in r.answers : a.ctl = c.ctl}
  BY DEF AnswerTo, S
<1>2. /\ c.pc \in Holding
      /\ c.pc = "interrupting" => \E a \in r.answers : a.ctl = c.ctl
  BY <1>1
<1> HIDE DEF c, r, q
<1>3. ASSUME ~Closed(r), NEW i \in 1..Len(q.in), q.in[i].k = "interrupt" PROVE FALSE
  <2>1. c.pc = "interrupting" /\ q.in[i].ctl = c.ctl
    BY <1>0, <1>2, <1>3 DEF Controlling
  <2>2. PICK a \in r.answers : a.ctl = c.ctl
    BY <1>2, <2>1
  <2>3. q.in[i].ctl # 0 /\ Unanswered(r, q, q.in[i].ctl)
    BY <1>0, <1>3 DEF Controls
  <2>4. r.exited
    BY <1>0, <2>1, <2>2, <2>3 DEF Controls, Unanswered
  <2> QED BY <1>3, <2>4 DEF Closed
<1> QED BY <1>3 DEF NoLine, c, r, q

LEMMA Releases ==
  ASSUME Inv, NEW p \in Requests, asking[p].pc \in Holding, NEW s, s = asking[p].s, NEW z \in Session, NEW q \in Process,
         z.inputs = sess[s].inputs, z.active = sess[s].active, z.answers = sess[s].answers, z.ctrls = sess[s].ctrls,
         z.count = sess[s].count, z.exited = sess[s].exited, sess[s].fenced => z.fenced, High(q, z.effort),
         Closed(z) \/ NoLine(q, "interrupt"), Fine(Others(p), s, sess[s], q)
  PROVE  Fine(Others(p), s, z, q)
<1> DEFINE r == sess[s]
<1>0. asking[p].pc \in Running
  BY DEF Holding, Running, Setting
<1>1. s \in 1..Len(sess) /\ r \in Session /\ Sound(r, q) /\ s # 0
  BY <1>0, Here DEF Fine
<1>2. /\ Sound(z, q)
      /\ \A d \in Asking, j \in Jobs : Served(d, j, r, q) /\ (d.pc \in Holding => z.controlling) => Served(d, j, z, q)
  <2> HIDE DEF r
  <2>1. /\ z.inputs = r.inputs /\ z.active = r.active /\ z.answers = r.answers /\ z.ctrls = r.ctrls
        /\ z.count = r.count /\ z.exited = r.exited /\ (r.fenced => z.fenced)
    BY DEF r
  <2> QED BY <1>1, <2>1, Flags
<1>3. \A o \in Others(p) : asking[o].s = s => asking[o].pc \notin Holding
  BY <1>1, Own DEF Others, Together
<1> QED BY <1>1, <1>2, <1>3, Typed DEF Fine, Others

(* The request fails, and gives back the control it may hold.               *)
LEMMA GivesBack ==
  ASSUME Inv, NEW p \in Requests, asking[p].pc \in Holding, NEW s, s = asking[p].s, NEW z \in Session, Err(p),
         z.inputs = sess[s].inputs, z.active = sess[s].active, z.answers = sess[s].answers, z.ctrls = sess[s].ctrls,
         z.count = sess[s].count, z.exited = sess[s].exited, sess[s].fenced => z.fenced, z.effort = sess[s].effort,
         z.listed = sess[s].listed,
         z.fenced \/ (asking[p].pc = "interrupting" => AnswerTo(p) # {}),
         sess' = [sess EXCEPT ![s] = z], UNCHANGED <<story, creating, proc>>, troubles' \in [Troubles -> Nat]
  PROVE  Inv'
<1> DEFINE r == sess[s]
           q == proc[s]
<1>0. asking[p].pc \in Running /\ asking[p].pc # "starting"
  BY DEF Holding, Running, Setting, Stopping
<1>1. s \in 1..Len(sess) /\ Fine(Others(p), s, r, q) /\ proc' = [proc EXCEPT ![s] = q] /\ q \in Process /\ Sound(r, q)
  BY <1>0, Here
<1>2. Closed(z) \/ NoLine(q, "interrupt")
  BY Settled, ZenonT(40) DEF Closed
<1>3. High(q, z.effort)
  BY <1>1, ZenonT(40) DEF Sound, Controls
<1>4. Fine(Others(p), s, z, q)
  BY <1>1, <1>2, <1>3, Releases
<1>5. Gives(p, s, z, q)
  BY <1>0, <1>4 DEF Gives, Keeps, Closed
<1> QED BY <1>1, <1>5, Giving

LEMMA RefusedInv ==
  ASSUME Inv, NEW p \in Requests, NEW x \in Holding, Refused(p, x), UNCHANGED <<story, creating, troubles>>
  PROVE  Inv'
<1> DEFINE s == asking[p].s
           z == [sess[s] EXCEPT !.controlling = FALSE]
<1>1. asking[p].pc = x /\ AnswerTo(p) # {} /\ Err(p) /\ sess' = [sess EXCEPT ![s].controlling = FALSE] /\ proc' = proc
  BY DEF Refused, AnsweredBy
<1>2. asking[p].pc \in Holding /\ asking[p].pc \in Running
  BY <1>1 DEF Holding, Running, Setting
<1>3. s \in 1..Len(sess) /\ sess[s] \in Session /\ sess' = [sess EXCEPT ![s] = z]
  BY <1>1, <1>2, Here
<1>4. /\ z \in Session /\ z.inputs = sess[s].inputs /\ z.active = sess[s].active /\ z.answers = sess[s].answers
      /\ z.ctrls = sess[s].ctrls /\ z.count = sess[s].count /\ z.exited = sess[s].exited /\ z.fenced = sess[s].fenced
      /\ z.effort = sess[s].effort /\ z.listed = sess[s].listed
  BY <1>3 DEF Session
<1> HIDE DEF z
<1> QED BY <1>1, <1>2, <1>3, <1>4, GivesBack DEF Inv, Types

(* A control is registered and written.                                     *)
LEMMA ControlInv ==
  ASSUME Inv, NEW p \in Requests, NEW k \in {"interrupt", "apply", "get", "model", "title"}, NEW x, NEW wait \in Pcs,
         asking[p].pc = x, <<x, wait, k>> \in {<<"interrupt", "interrupting", "interrupt">>, <<"apply", "applying", "apply">>,
                                              <<"readback", "reading", "get">>, <<"choose", "choosing", "model">>,
                                              <<"name", "naming", "title">>},
         NEW t \in Turns, k = "interrupt" => t = asking[p].turn,
         Control(p, Line(k, t), wait), UNCHANGED <<story, creating, troubles>>
  PROVE  Inv'
<1> DEFINE s == asking[p].s
           c == asking[p]
           r == sess[s]
           q == proc[s]
           n == r.count + 1
           m == [Line(k, t) EXCEPT !.ctl = n]
           y == [r EXCEPT !.ctrls = @ \cup {n}, !.count = n]
           z == [r EXCEPT !.controlling = FALSE, !.fenced = TRUE, !.ctrls = @ \cup {n}, !.count = n]
           u == [r EXCEPT !.controlling = FALSE]
           w == [q EXCEPT !.in = Append(@, m)]
<1>0. /\ x \in Holding /\ x \in Running /\ x \notin {"interrupting", "starting", "write", "receipt", "terminal", "end"}
      /\ wait \in Waiting /\ wait # "starting" /\ <<x, wait>> \in Nexts /\ x # "send"
      /\ (x = "interrupt" <=> k = "interrupt") /\ (wait = "interrupting" <=> k = "interrupt") /\ wait \in Holding
      /\ wait \notin {"write", "receipt", "interrupt", "terminal", "end"}
  BY DEF Holding, Running, Setting, Stopping, Waiting, Nexts
<1>1. /\ s \in 1..Len(sess) /\ s # 0 /\ r \in Session /\ q \in Process /\ Sound(r, q) /\ Fine(Others(p), s, r, q)
      /\ Served(c, Job(p), r, q) /\ sess = [sess EXCEPT ![s] = r] /\ proc = [proc EXCEPT ![s] = q]
      /\ c \in Asking /\ Job(p) \in Jobs /\ Placed(c, Job(p)) /\ troubles \in [Troubles -> Nat]
  BY <1>0, Here
<1>2. /\ n \in Nat /\ n # 0 /\ r.count \in Nat /\ n = r.count + 1
      /\ m \in Lines /\ m.k = k /\ m.ctl = n /\ m.client = t
  BY <1>1, SMTT(40) DEF Session, Line, Lines
<1>3. /\ y \in Session /\ y.inputs = r.inputs /\ y.active = r.active /\ y.answers = r.answers /\ y.exited = r.exited
      /\ y.fenced = r.fenced /\ y.effort = r.effort /\ y.controlling = r.controlling /\ y.listed = r.listed
      /\ y.count = n /\ y.ctrls = r.ctrls \cup {n}
  BY <1>1, <1>2 DEF Session
<1>4. /\ z \in Session /\ z.inputs = r.inputs /\ z.active = r.active /\ z.answers = r.answers /\ z.exited = r.exited
      /\ z.fenced /\ z.effort = r.effort /\ z.listed = r.listed /\ z.count = n /\ z.ctrls = r.ctrls \cup {n}
  BY <1>1, <1>2 DEF Session
<1>5. /\ u \in Session /\ u.inputs = r.inputs /\ u.active = r.active /\ u.answers = r.answers /\ u.exited = r.exited
      /\ u.fenced = r.fenced /\ u.effort = r.effort /\ u.listed = r.listed /\ u.count = r.count /\ u.ctrls = r.ctrls
  BY <1>1, ZenonT(40) DEF Session
<1>6. \/ Err(p) /\ sess' = [sess EXCEPT ![s] = u] /\ proc' = proc
      \/ ~r.exited /\ ~r.fenced /\ Err(p) /\ sess' = [sess EXCEPT ![s] = z] /\ proc' = proc
      \/ /\ ~r.exited /\ ~r.fenced
         /\ sess' = [sess EXCEPT ![s] = y] /\ proc' = [proc EXCEPT ![s] = w]
         /\ asking' = [asking EXCEPT ![p].pc = wait, ![p].ctl = n]
  <2>1. /\ [sess EXCEPT ![s].controlling = FALSE] = [sess EXCEPT ![s] = u]
        /\ [sess EXCEPT ![s].controlling = FALSE, ![s].fenced = TRUE, ![s].ctrls = @ \cup {n}, ![s].count = n] = [sess EXCEPT ![s] = z]
        /\ [sess EXCEPT ![s].ctrls = @ \cup {n}, ![s].count = n] = [sess EXCEPT ![s] = y]
    BY <1>1, Typed, ZenonT(40) DEF Session
  <2>2. [proc EXCEPT ![s].in = Append(@, m)] = [proc EXCEPT ![s] = w]
    BY <1>1, Typed, ZenonT(40)
  <2>3. /\ \/ Err(p) /\ sess' = [sess EXCEPT ![s].controlling = FALSE] /\ proc' = proc
           \/ /\ ~r.exited /\ ~r.fenced /\ Err(p) /\ proc' = proc
              /\ sess' = [sess EXCEPT ![s].controlling = FALSE, ![s].fenced = TRUE, ![s].ctrls = @ \cup {n}, ![s].count = n]
           \/ /\ ~r.exited /\ ~r.fenced
              /\ sess' = [sess EXCEPT ![s].ctrls = @ \cup {n}, ![s].count = n]
              /\ proc' = [proc EXCEPT ![s].in = Append(@, m)]
              /\ asking' = [asking EXCEPT ![p].pc = wait, ![p].ctl = n]
    BY ZenonT(40) DEF Control, Available
  <2> QED BY <2>1, <2>2, <2>3, ZenonT(40)
<1>7. r = sess[s] /\ s = asking[p].s /\ q = proc[s] /\ c = asking[p]
  OBVIOUS
<1>8. ASSUME ~r.exited
      PROVE  /\ Sound(y, q) /\ Unanswered(y, q, n) /\ \A i \in 1..Len(q.in) : q.in[i].ctl # n
             /\ \A d \in Asking, j \in Jobs : Served(d, j, r, q) => Served(d, j, y, q)
  <2> HIDE DEF s, c, r, q, n, m, y, z, u, w
  <2> QED BY <1>1, <1>2, <1>3, <1>8, Registers
<1>9. CASE Err(p) /\ sess' = [sess EXCEPT ![s] = u] /\ proc' = proc
  <2> HIDE DEF u
  <2> QED BY <1>0, <1>1, <1>5, <1>7, <1>9, GivesBack
<1>10. CASE ~r.exited /\ ~r.fenced /\ Err(p) /\ sess' = [sess EXCEPT ![s] = z] /\ proc' = proc
  <2> HIDE DEF r, q, z, n, y, u, w, m
  <2>1. High(q, z.effort) /\ Closed(z)
    BY <1>1, <1>4 DEF Sound, Controls, Closed
  <2>2. Sound(z, q) /\ \A d \in Asking, j \in Jobs : Served(d, j, y, q) /\ (d.pc \in Holding => z.controlling) => Served(d, j, z, q)
    BY <1>1, <1>3, <1>4, <1>8, <1>10, <2>1, Flags
  <2>3. \A o \in Others(p) : asking[o].s = s => asking[o].pc \notin Holding
    BY <1>0, <1>1, Own DEF Others, Together
  <2>4. Fine(Others(p), s, z, q)
    BY <1>1, <1>4, <1>8, <1>10, <2>2, <2>3, Typed DEF Fine, Others
  <2>5. Gives(p, s, z, q)
    BY <1>0, <1>4, <1>7, <2>1, <2>4 DEF Gives, Keeps
  <2> QED BY <1>1, <1>10, <2>5, Giving
<1>11. CASE /\ ~r.exited /\ ~r.fenced
            /\ sess' = [sess EXCEPT ![s] = y] /\ proc' = [proc EXCEPT ![s] = w]
            /\ asking' = [asking EXCEPT ![p].pc = wait, ![p].ctl = n]
  <2> DEFINE d == [c EXCEPT !.pc = wait, !.ctl = n]
  <2>1. /\ d \in Asking /\ d.pc = wait /\ d.ctl = n /\ d.s = s /\ d.turn = c.turn /\ d.then = c.then
        /\ asking' = [asking EXCEPT ![p] = d]
    BY <1>1, <1>2, <1>11 DEF Asking, Inv, Types
  <2>2. Append(q.in, m) \in Seq(Lines) /\ Longer(Append(q.in, m), q.in, m)
    BY <1>1, <1>2, AppendLonger DEF Process
  <2>3. /\ w \in Process /\ w.in = Append(q.in, m) /\ w.out = q.out /\ w.turn = q.turn /\ w.took = q.took
        /\ w.hits = q.hits /\ w.effort = q.effort /\ w.open = q.open
    BY <1>1, <2>2, ZenonT(40) DEF Process
  <2> HIDE DEF s, c, r, q, n, m, y, z, u, w, d
  <2>4. m.k = "interrupt" => /\ m.client \in Inputs /\ m.client = c.turn /\ q.turn \in {None, m.client} /\ y.controlling
                             /\ NoLine(q, "input") /\ y.inputs[c.turn].uuid
    BY <1>0, <1>1, <1>2, <1>3, <1>7, ZenonT(40) DEF Served, Stops, Stopping, Controlling
  <2>5. /\ Sound(y, w)
        /\ \A e \in Asking, j \in Jobs :
              /\ Served(e, j, y, q)
              /\ m.k = "input" => e.pc # "write" /\ e.pc # "interrupt"
              /\ m.k = "interrupt" => e.pc # "write" /\ (e.pc \in Holding => e.pc = "interrupting" /\ m.ctl = e.ctl)
              /\ e.pc = "interrupting" /\ e.ctl = m.ctl => m.k = "interrupt" /\ m.client = e.turn
              => Served(e, j, y, w)
    <3>1. Longer(w.in, q.in, m) /\ m.ctl <= y.count /\ m.ctl # 0 /\ m.k \notin {"input", "deny"}
      BY <1>2, <1>3, <2>2, <2>3
    <3>2. Unanswered(y, q, m.ctl) /\ \A i \in 1..Len(q.in) : q.in[i].ctl # m.ctl
      BY <1>2, <1>8, <1>11
    <3>3. y \in Session /\ q \in Process /\ w \in Process /\ m \in Lines /\ Sound(y, q)
      BY <1>1, <1>2, <1>3, <1>8, <1>11, <2>3
    <3> QED BY <2>3, <2>4, <3>1, <3>2, <3>3, GetsMore, ZenonT(40)
  <2>6. \A o \in Requests : o # p /\ asking[o].s = s => asking[o].pc \notin Holding /\ (x = "interrupt" => asking[o].pc # "write")
    BY <1>0, <1>1, <1>7, Own DEF Together
  <2>7. Fine(Others(p), s, y, w)
    <3>1. ASSUME NEW o \in Requests, o # p, asking[o].s = s PROVE Served(asking[o], Job(o), y, w)
      <4>1. Served(asking[o], Job(o), y, q) /\ asking[o] \in Asking /\ Job(o) \in Jobs
        BY <1>1, <1>8, <1>11, <3>1, Typed DEF Fine, Others
      <4>2. asking[o].pc # "interrupting"
        BY <2>6, <3>1 DEF Holding, Stopping
      <4> QED BY <1>0, <1>2, <2>5, <2>6, <3>1, <4>1, <4>2
    <3> QED BY <1>3, <2>3, <2>5, <3>1 DEF Fine, Others
  <2>8. Served(d, Job(p), y, w)
    <3>0. Len(q.in) \in Nat /\ \A i \in 1..Len(w.in) : w.in[i] = m \/ (i \in 1..Len(q.in) /\ w.in[i] = q.in[i])
      BY <2>2, <2>3 DEF Longer
    <3>1. Sends(d, Job(p), y, w) /\ Ends(d, Job(p), y, w)
      BY <1>0, <2>1 DEF Sends, Ends
    <3>2. Waits(d, y)
      BY <1>2, <1>3, <2>1 DEF Waits
    <3>3. Controlling(d, y, w)
      <4>1. y.controlling
        BY <1>0, <1>1, <1>3, <1>7 DEF Served, Controlling
      <4>2. ASSUME NEW i \in 1..Len(w.in), w.in[i].k = "interrupt"
            PROVE  Closed(y) \/ (d.pc = "interrupting" /\ w.in[i].ctl = d.ctl)
        <5>1. CASE w.in[i] = m
          BY <1>0, <1>2, <2>1, <4>2, <5>1
        <5>2. CASE i \in 1..Len(q.in) /\ w.in[i] = q.in[i]
          <6>1. Closed(r)
            BY <1>0, <1>1, <1>7, <4>2, <5>2 DEF Served, Controlling
          <6> QED BY <1>3, <6>1, SMTT(40) DEF Closed
        <5> QED BY <3>0, <5>1, <5>2
      <4> QED BY <4>1, <4>2, SMTT(40) DEF Controlling
    <3>4. Stops(d, y, w)
      <4>1. CASE k # "interrupt"
        BY <1>0, <2>1, <4>1 DEF Stops, Stopping
      <4>2. CASE k = "interrupt"
        <5>1. d.turn \in Inputs /\ y.inputs[d.turn].uuid
          BY <1>2, <2>1, <2>4, <4>2
        <5>2. \A i \in 1..Len(w.in) : w.in[i].ctl = n => w.in[i].k = "interrupt" /\ w.in[i].client = d.turn
          BY <1>2, <1>8, <1>11, <2>1, <2>4, <3>0, <4>2
        <5>3. \A i \in 1..Len(w.out) : w.out[i].k = "answer" => w.out[i].a.ctl # n
          BY <1>8, <1>11, <2>3 DEF Unanswered
        <5>4. \A a \in y.answers : a.ctl = n => a.res = "ended"
          BY <1>8, <1>11 DEF Unanswered
        <5> QED BY <1>0, <2>1, <4>2, <5>1, <5>2, <5>3, <5>4 DEF Stops, Truly
      <4> QED BY <4>1, <4>2
    <3> QED BY <3>1, <3>2, <3>3, <3>4 DEF Served
  <2>9. Placed(d, Job(p)) /\ d.pc \in Running \ {"starting"}
    BY <1>0, <1>1, <1>7, <2>1, GoesNext
  <2>10. Moving(p, s, y, w, d)
    <3>1. d.pc # "end" /\ d.pc \notin {"write", "interrupt"}
      BY <1>0, <2>1
    <3>2. \A o \in Requests : o # p /\ asking[o].s = s => asking[o].pc \notin Holding
      BY <2>6
    <3>3. Keeps(s, y, w)
      BY <1>3, <1>7, <2>3 DEF Keeps, Closed
    <3>4. \A v \in Inputs : y.inputs[v].in => sess[s].inputs[v].in
      BY <1>3, <1>7
    <3> QED BY <1>0, <1>7, <2>1, <2>7, <2>8, <2>9, <3>1, <3>2, <3>3, <3>4 DEF Moving
  <2> QED BY <1>1, <1>3, <1>11, <2>1, <2>3, <2>10, Moves
<1> QED BY <1>6, <1>9, <1>10, <1>11

(* The request goes on, or has its answer.                                  *)
Alone(p, s, x) ==
  \A o \in Requests : o # p /\ asking[o].s = s =>
       /\ x \in Holding => asking[o].pc \notin Holding
       /\ x \in {"write", "interrupt"} => asking[o].pc # "write"
       /\ x = "write" => asking[o].pc # "interrupt"
Lasting(p, s, r, q) == Fine(Others(p), s, r, q) /\ Keeps(s, r, q)
Going(p, s, r, q, x) ==
  /\ <<asking[p].pc, x>> \in Nexts /\ (asking[p].pc = "send" => asking[p].then # "send")
  /\ Lasting(p, s, r, q) /\ Alone(p, s, x)
  /\ \A d \in Asking : d = [asking[p] EXCEPT !.pc = x] => Served(d, Job(p), r, q)
  /\ \A c \in Inputs : r.inputs[c].in => sess[s].inputs[c].in \/ (c = Job(p).client /\ asking[p].pc = "send")

LEMMA Goes ==
  ASSUME Inv, NEW p \in Requests, NEW s \in 1..Len(sess), s = asking[p].s, NEW r, NEW q, NEW x, Going(p, s, r, q, x),
         Go(p, x), sess' = [sess EXCEPT ![s] = r], proc' = [proc EXCEPT ![s] = q], UNCHANGED <<story, creating, troubles>>
  PROVE  Inv'
<1> DEFINE d == [asking[p] EXCEPT !.pc = x]
<1>0. asking[p] \in Asking /\ Job(p) \in Jobs /\ Placed(asking[p], Job(p)) /\ s # 0
  BY Typed
<1>1. x \in Pcs
  BY DEF Going, Nexts, Pcs
<1>2. /\ d \in Asking /\ d.pc = x /\ d.s = s /\ d.then = asking[p].then
      /\ asking' = [asking EXCEPT ![p] = d]
  BY <1>0, <1>1 DEF Asking, Go, Inv, Types
<1>3. Served(d, Job(p), r, q)
  BY <1>2 DEF Going
<1> HIDE DEF d
<1>4. Placed(d, Job(p)) /\ asking[p].pc \in Running \ {"starting"} /\ d.pc \in Running \ {"starting"}
  BY <1>0, <1>2, GoesNext DEF Going
<1>5. d.pc # "end"
  BY <1>4 DEF Running, Stopping, Setting
<1>6. Moving(p, s, r, q, d)
  BY <1>2, <1>3, <1>4, <1>5 DEF Going, Lasting, Alone, Moving
<1>7. story' = story /\ creating' = creating /\ troubles' = troubles
  OBVIOUS
<1> QED BY <1>2, <1>6, <1>7, Moves

LEMMA Succeeds ==
  ASSUME Inv, NEW p \in Requests, NEW s \in 1..Len(sess), s = asking[p].s, NEW r, NEW q, Lasting(p, s, r, q),
         asking[p].pc \in {"receipt", "terminal", "reading", "choosing", "naming"},
         asking[p].pc = "receipt" => q.took[Job(p).client] = 1,
         asking[p].pc = "terminal" => r.inputs[asking[p].turn].terminal /\ Stops(asking[p], r, q),
         \A c \in Inputs : r.inputs[c].in => sess[s].inputs[c].in,
         Ok(p), sess' = [sess EXCEPT ![s] = r], proc' = [proc EXCEPT ![s] = q], UNCHANGED <<story, creating, troubles>>
  PROVE  Inv'
<1>0. /\ asking[p].pc \in Running /\ asking[p].pc # "starting"
      /\ asking[p].pc \in {"terminal", "reading", "choosing", "naming"} => asking[p].pc \in Holding
  BY DEF Running, Setting, Stopping, Holding
<1>1. asking[p] \in Asking /\ Job(p) \in Jobs /\ Placed(asking[p], Job(p)) /\ s # 0
  BY Typed
<1>2. PICK d \in Asking : /\ asking' = [asking EXCEPT ![p] = d]
                          /\ d.pc = asking[p].then /\ d.s = s /\ d.ctl = asking[p].ctl
                          /\ d.turn = asking[p].turn /\ d.then = asking[p].then /\ d.out = "ok"
                          /\ Placed(d, Job(p))
                          /\ d.pc \in {"made", "end"} \/ (d.pc = "send" /\ asking[p].pc = "reading")
  BY OkFields
<1>3. Job(p).op \in BrokerOps /\ asking[p].pc \in Path(Job(p).op)
  BY <1>1 DEF Jobs, Placed
<1>4. Ends(d, Job(p), r, q)
  <2>1. CASE asking[p].pc = "receipt"
    <3>1. Job(p).op # "stop"
      BY <1>3, <2>1 DEF Path, Stopping
    <3> QED BY <2>1, <3>1 DEF Ends
  <2>2. CASE asking[p].pc = "terminal"
    <3>1. Job(p).op = "stop"
      BY <1>3, <2>2 DEF Path, BrokerOps, Setting
    <3>2. d.turn \in Inputs /\ r.inputs[d.turn].terminal /\ Hit(q, d.turn)
      BY <1>2, <2>2 DEF Stops, Stopping
    <3> QED BY <3>1, <3>2 DEF Ends
  <2>3. CASE asking[p].pc \in {"reading", "choosing", "naming"}
    <3>1. Job(p).op \notin {"send", "stop"}
      BY <1>3, <2>3 DEF Path, Stopping
    <3>2. Job(p).op = "create" => asking[p].pc \in Setting
      BY <1>3, <2>3 DEF Path, Setting
    <3>3. Job(p).op = "create" => d.pc # "end"
      BY <1>1, <1>2, <3>2 DEF Placed
    <3> QED BY <3>1, <3>3 DEF Ends
  <2> QED BY <1>2, <2>1, <2>2, <2>3
<1>5. Served(d, Job(p), r, q)
  <2>1. d.pc \in {"made", "end", "send"}
    BY <1>2
  <2> QED BY <1>4, <2>1 DEF Served, Sends, Waits, Controlling, Stops, Waiting, Holding, Stopping
<1>6. d.pc = "end" => d.then = "end"
  BY <1>2
<1>7. d.pc \in (Running \ {"starting"}) \cup {"made", "end"} /\ d.pc \notin {"write", "interrupt"} \cup Holding
  BY <1>2 DEF Running, Holding, Stopping
<1>8. Moving(p, s, r, q, d)
  BY <1>0, <1>2, <1>5, <1>6, <1>7, ZenonT(40) DEF Lasting, Moving
<1>9. story' = story /\ creating' = creating /\ troubles' = troubles
  BY ZenonT(40)
<1> QED BY <1>2, <1>8, <1>9, Moves

-----------------------------------------------------------------------------
(* Send().                                                                  *)
LEMMA SendInv ==
  ASSUME Inv, NEW p \in Requests, Send(p), asking[p].then # "send", UNCHANGED <<story, creating, troubles>>
  PROVE  Inv'
<1> DEFINE s == asking[p].s
           c == asking[p]
           r == sess[s]
           q == proc[s]
           x == Job(p).client
           y == [r EXCEPT !.inputs[x].in = TRUE, !.active = x]
<1>0. asking[p].pc = "send" /\ asking[p].pc \in Running /\ proc' = proc
  BY DEF Send, Running
<1>1. /\ s \in 1..Len(sess) /\ s # 0 /\ r \in Session /\ q \in Process /\ Sound(r, q) /\ Fine(Others(p), s, r, q)
      /\ Served(c, Job(p), r, q) /\ sess = [sess EXCEPT ![s] = r] /\ proc = [proc EXCEPT ![s] = q]
      /\ c \in Asking /\ Job(p) \in Jobs /\ Placed(c, Job(p)) /\ troubles \in [Troubles -> Nat] /\ x \in Inputs
      /\ r = sess[s] /\ s = asking[p].s /\ q = proc[s] /\ c = asking[p] /\ x = Job(p).client
  BY <1>0, Here, Typed
<1>2. \/ Err(p) /\ sess' = sess
      \/ r.inputs[x].in /\ Go(p, "receipt") /\ sess' = sess
      \/ /\ ~Closed(r) /\ ~r.inputs[x].in /\ r.active = None /\ ~r.controlling /\ Go(p, "write")
         /\ sess' = [sess EXCEPT ![s].inputs[x].in = TRUE, ![s].active = x]
  BY ZenonT(40) DEF Send, Available, Busy, Closed
<1>3. [sess EXCEPT ![s].inputs[x].in = TRUE, ![s].active = x] = [sess EXCEPT ![s] = y]
  BY <1>1, Typed, ZenonT(40)
<1>4. CASE Err(p) /\ sess' = sess
  BY <1>0, <1>1, <1>4, GivesUp
<1>5. CASE r.inputs[x].in /\ Go(p, "receipt") /\ sess' = sess
  <2>1. Going(p, s, r, q, "receipt")
    <3> HIDE DEF r, q, x, s
    <3>1. \A d \in Asking : d.pc = "receipt" => Served(d, Job(p), r, q)
      BY <1>1, <1>5 DEF Served, Sends, Waits, Controlling, Stops, Ends, Waiting, Stopping, Holding
    <3>2. \A d : d = [asking[p] EXCEPT !.pc = "receipt"] => d.pc = "receipt"
      BY <1>1 DEF Asking
    <3>3. Lasting(p, s, r, q) /\ Alone(p, s, "receipt")
      BY <1>1 DEF Lasting, Keeps, Alone, Holding, Stopping
    <3> QED BY <1>0, <1>1, <3>1, <3>2, <3>3 DEF Going, Nexts
  <2>2. sess' = [sess EXCEPT ![s] = r] /\ proc' = [proc EXCEPT ![s] = q]
    BY <1>0, <1>1, <1>5, ZenonT(40)
  <2> QED BY <1>1, <1>5, <2>1, <2>2, Goes
<1>6. CASE /\ ~Closed(r) /\ ~r.inputs[x].in /\ r.active = None /\ ~r.controlling /\ Go(p, "write")
           /\ sess' = [sess EXCEPT ![s].inputs[x].in = TRUE, ![s].active = x]
  <2>2. sess' = [sess EXCEPT ![s] = y] /\ y = [r EXCEPT !.inputs[x].in = TRUE, !.active = x]
    BY <1>3, <1>6, ZenonT(40)
  <2>1. proc' = [proc EXCEPT ![s] = q]
    BY <1>0, <1>1
  <2> HIDE DEF s, c, r, q, x, y
  <2>3. r.inputs \in [Inputs -> InputRecord] /\ r.inputs[x] \in InputRecord /\ x \in Turns
    BY <1>1, ZenonT(40) DEF Session, Turns
  <2>4. /\ [r.inputs[x] EXCEPT !.in = TRUE] \in InputRecord
        /\ [r.inputs[x] EXCEPT !.in = TRUE].in
        /\ [r.inputs[x] EXCEPT !.in = TRUE].uuid = r.inputs[x].uuid
        /\ [r.inputs[x] EXCEPT !.in = TRUE].done = r.inputs[x].done
        /\ [r.inputs[x] EXCEPT !.in = TRUE].terminal = r.inputs[x].terminal
    BY <2>3, ZenonT(40) DEF InputRecord
  <2>5. /\ y \in Session /\ y.active = x /\ y.answers = r.answers /\ y.ctrls = r.ctrls /\ y.count = r.count
        /\ y.exited = r.exited /\ y.fenced = r.fenced /\ y.effort = r.effort /\ y.controlling = r.controlling /\ y.listed = r.listed
        /\ y.inputs = [r.inputs EXCEPT ![x] = [@ EXCEPT !.in = TRUE]]
    BY <1>1, <2>2, <2>3, <2>4, ZenonT(40) DEF Session
  <2>6. /\ y.inputs[x].in /\ y.inputs[x].uuid = r.inputs[x].uuid /\ y.inputs[x].done = r.inputs[x].done
        /\ y.inputs[x].terminal = r.inputs[x].terminal /\ \A v \in Inputs : v # x => y.inputs[v] = r.inputs[v]
    BY <1>1, <2>3, <2>4, <2>5, ZenonT(40)
  <2>7. /\ Sound(y, q) /\ Expected(y, q, x) /\ NoLine(q, "input")
        /\ \A e \in Asking, j \in Jobs : Served(e, j, r, q) => Served(e, j, y, q)
    <3>1. r \in Session /\ y \in Session /\ q \in Process /\ Sound(r, q) /\ x \in Inputs
      BY <1>1, <2>5
    <3>2. ~r.exited /\ ~r.fenced /\ r.active = None /\ ~r.controlling /\ ~r.inputs[x].in
      BY <1>6 DEF Closed
    <3>3. ~Closed(r)
      BY <1>6, ZenonT(40)
    <3> QED BY <2>5, <2>6, <3>1, <3>2, <3>3, Admits, ZenonT(40)
  <2>8. Fine(Others(p), s, y, q)
    BY <1>1, <2>5, <2>7, Typed, ZenonT(40) DEF Fine, Others
  <2>9. Keeps(s, y, q)
    BY <1>1, <2>5 DEF Keeps, Closed
  <2>10. \A d \in Asking : d = [c EXCEPT !.pc = "write"] => Served(d, Job(p), y, q)
    <3>1. \A d : d = [c EXCEPT !.pc = "write"] => d.pc = "write"
      BY <1>1, ZenonT(40) DEF Asking
    <3>2. \A d \in Asking : d.pc = "write" => Served(d, Job(p), y, q)
      BY <1>1, <2>7, ZenonT(40) DEF Served, Sends, Waits, Controlling, Stops, Ends, Waiting, Stopping, Holding
    <3> QED BY <3>1, <3>2
  <2>11. Alone(p, s, "write")
    <3> SUFFICES ASSUME NEW o \in Requests, o # p, asking[o].s = s PROVE asking[o].pc \notin {"write", "interrupt"}
      BY DEF Alone, Holding, Stopping
    <3>1. Served(asking[o], Job(o), r, q)
      BY <1>1 DEF Fine, Others
    <3>2. \A v : ~Expected(r, q, v)
      BY <1>6, BrokerAssumption DEF Expected
    <3> QED BY <1>6, <3>1, <3>2 DEF Served, Sends, Controlling, Holding, Stopping
  <2>12. \A v \in Inputs : y.inputs[v].in => r.inputs[v].in \/ v = x
    BY <2>6
  <2>13. Going(p, s, y, q, "write")
    BY <1>0, <1>1, <2>8, <2>9, <2>10, <2>11, <2>12, ZenonT(40) DEF Going, Lasting, Nexts
  <2>14. s \in 1..Len(sess) /\ s = asking[p].s /\ Go(p, "write")
    BY <1>1, <1>6, ZenonT(40)
  <2> QED BY <2>1, <2>2, <2>13, <2>14, Goes, ZenonT(40)
<1> QED BY <1>2, <1>4, <1>5, <1>6, ZenonT(40)

LEMMA WriteInputInv ==
  ASSUME Inv, NEW p \in Requests, WriteInput(p), UNCHANGED <<story, creating, troubles>>
  PROVE  Inv'
<1> DEFINE s == asking[p].s
           c == asking[p]
           r == sess[s]
           q == proc[s]
           x == Job(p).client
           m == Line("input", x)
           w == [q EXCEPT !.in = Append(@, m)]
           z == [r EXCEPT !.fenced = TRUE]
<1>0. asking[p].pc = "write" /\ asking[p].pc \in Running
  BY DEF WriteInput, Running
<1>1. /\ s \in 1..Len(sess) /\ s # 0 /\ r \in Session /\ q \in Process /\ Sound(r, q) /\ Fine(Others(p), s, r, q)
      /\ Served(c, Job(p), r, q) /\ sess = [sess EXCEPT ![s] = r] /\ proc = [proc EXCEPT ![s] = q]
      /\ c \in Asking /\ Job(p) \in Jobs /\ Placed(c, Job(p)) /\ troubles \in [Troubles -> Nat] /\ x \in Inputs
      /\ r = sess[s] /\ s = asking[p].s /\ q = proc[s] /\ c = asking[p] /\ x = Job(p).client
  BY <1>0, Here, Typed
<1>2. \/ Go(p, "receipt") /\ sess' = sess /\ proc' = [proc EXCEPT ![s].in = Append(@, m)]
      \/ Err(p) /\ proc' = proc /\ sess' = [sess EXCEPT ![s].fenced = TRUE]
  BY DEF WriteInput, Fence
<1>3. /\ [sess EXCEPT ![s].fenced = TRUE] = [sess EXCEPT ![s] = z]
      /\ [proc EXCEPT ![s].in = Append(@, m)] = [proc EXCEPT ![s] = w]
  BY <1>1, Typed
<1>4. m \in Lines /\ m.k = "input" /\ m.ctl = 0 /\ m.client = x /\ r.count \in Nat
  BY <1>1 DEF Line, Lines, Turns, Session
<1>5. Expected(r, q, x) /\ NoLine(q, "input")
  BY <1>0, <1>1 DEF Served, Sends
<1>6. CASE Go(p, "receipt") /\ sess' = sess /\ proc' = [proc EXCEPT ![s].in = Append(@, m)]
  <2>2. Append(q.in, m) \in Seq(Lines) /\ Longer(Append(q.in, m), q.in, m)
    BY <1>1, <1>4, AppendLonger, ZenonT(40) DEF Process
  <2>3. /\ w \in Process /\ w.in = Append(q.in, m) /\ w.out = q.out /\ w.turn = q.turn /\ w.took = q.took
        /\ w.hits = q.hits /\ w.effort = q.effort /\ w.open = q.open
    BY <1>1, <2>2, ZenonT(40) DEF Process
  <2>4. proc' = [proc EXCEPT ![s] = w]
    BY <1>3, <1>6
  <2> HIDE DEF s, c, r, q, x, m, w
  <2>5. Longer(w.in, q.in, m) /\ m.ctl <= r.count
    BY <1>4, <2>2, <2>3
  <2>6. /\ Sound(r, w)
        /\ \A e \in Asking, j \in Jobs :
              /\ Served(e, j, r, q)
              /\ m.k = "input" => e.pc # "write" /\ e.pc # "interrupt"
              /\ m.k = "interrupt" => e.pc # "write" /\ (e.pc \in Holding => e.pc = "interrupting" /\ m.ctl = e.ctl)
              /\ e.pc = "interrupting" /\ e.ctl = m.ctl => m.k = "interrupt" /\ m.client = e.turn
              => Served(e, j, r, w)
    <3>1. m.k = "input" => Expected(r, q, m.client) /\ NoLine(q, "input")
      BY <1>4, <1>5
    <3> QED BY <1>1, <1>4, <2>3, <2>5, <3>1, GetsMore
  <2>7. Fine(Others(p), s, r, w)
    <3>1. ASSUME NEW o \in Requests, o # p, asking[o].s = s PROVE Served(asking[o], Job(o), r, w)
      <4>1. Served(asking[o], Job(o), r, q) /\ asking[o] \in Asking /\ Job(o) \in Jobs
        BY <1>1, <3>1, Typed DEF Fine, Others
      <4>2. asking[o].pc \notin {"write", "interrupt"}
        BY <1>0, <1>1, <3>1, Own DEF Together
      <4>3. asking[o].pc = "interrupting" => asking[o].ctl # 0
        BY <1>4, <4>1 DEF Served, Waits, Waiting
      <4> QED BY <1>4, <2>6, <4>1, <4>2, <4>3
    <3> QED BY <1>1, <2>3, <2>6, <3>1 DEF Fine, Others
  <2>8. \A d \in Asking : d = [c EXCEPT !.pc = "receipt"] => Served(d, Job(p), r, w)
    <3>1. \A d : d = [c EXCEPT !.pc = "receipt"] => d.pc = "receipt"
      BY <1>1, ZenonT(40) DEF Asking
    <3>2. \A d \in Asking : d.pc = "receipt" => Served(d, Job(p), r, w)
      BY <1>1, <1>5, ZenonT(40) DEF Served, Sends, Waits, Controlling, Stops, Ends, Waiting, Stopping, Holding, Expected
    <3> QED BY <3>1, <3>2
  <2>9. Keeps(s, r, w) /\ Alone(p, s, "receipt")
    BY <1>1, <2>3 DEF Keeps, Alone, Holding, Stopping
  <2>10. Going(p, s, r, w, "receipt")
    BY <1>0, <1>1, <2>7, <2>8, <2>9 DEF Going, Lasting, Nexts
  <2>11. sess' = [sess EXCEPT ![s] = r]
    BY <1>1, <1>6
  <2>12. s \in 1..Len(sess) /\ s = asking[p].s /\ Go(p, "receipt")
    BY <1>1, <1>6
  <2> QED BY <2>4, <2>10, <2>11, <2>12, Goes
<1>7. CASE Err(p) /\ proc' = proc /\ sess' = [sess EXCEPT ![s].fenced = TRUE]
  <2>1. /\ z \in Session /\ z.inputs = r.inputs /\ z.active = r.active /\ z.answers = r.answers /\ z.ctrls = r.ctrls /\ z.count = r.count
        /\ z.exited = r.exited /\ z.fenced /\ z.effort = r.effort /\ z.controlling = r.controlling /\ z.listed = r.listed
    BY <1>1 DEF Session
  <2>2. sess' = [sess EXCEPT ![s] = z]
    BY <1>3, <1>7
  <2> HIDE DEF s, c, r, q, z
  <2>3. High(q, z.effort)
    BY <1>1, <2>1, ZenonT(40) DEF Sound, Controls
  <2>4. Sound(z, q) /\ \A e \in Asking, j \in Jobs : Served(e, j, r, q) /\ (e.pc \in Holding => z.controlling) => Served(e, j, z, q)
    BY <1>1, <2>1, <2>3, Flags, ZenonT(40)
  <2>5. Fine(Others(p), s, z, q)
    BY <1>1, <2>1, <2>4, Typed, ZenonT(40) DEF Fine, Others, Served, Controlling
  <2>6. Gives(p, s, z, q)
    BY <1>0, <1>1, <2>1, <2>5 DEF Gives, Keeps, Closed
  <2> QED BY <1>1, <1>7, <2>2, <2>6, Giving, ZenonT(40)
<1> QED BY <1>2, <1>6, <1>7

LEMMA ReceiptInv ==
  ASSUME Inv, NEW p \in Requests, Receipt(p), UNCHANGED <<story, creating, troubles>>
  PROVE  Inv'
<1> DEFINE s == asking[p].s
           c == asking[p]
           r == sess[s]
           q == proc[s]
           x == Job(p).client
<1>0. asking[p].pc = "receipt" /\ asking[p].pc \in Running /\ proc' = proc /\ sess' = sess
  BY DEF Receipt, Running
<1>1. /\ s \in 1..Len(sess) /\ s # 0 /\ r \in Session /\ q \in Process /\ Sound(r, q) /\ Fine(Others(p), s, r, q)
      /\ Served(c, Job(p), r, q) /\ sess = [sess EXCEPT ![s] = r] /\ proc = [proc EXCEPT ![s] = q]
      /\ c \in Asking /\ Job(p) \in Jobs /\ Placed(c, Job(p)) /\ troubles \in [Troubles -> Nat] /\ x \in Inputs
      /\ r = sess[s] /\ s = asking[p].s /\ q = proc[s] /\ c = asking[p] /\ x = Job(p).client
  BY <1>0, Here, Typed
<1>2. Err(p) \/ (Ok(p) /\ r.inputs[x].done = "ok")
  BY DEF Receipt, S
<1>3. CASE Err(p)
  BY <1>0, <1>1, <1>3, GivesUp
<1>4. CASE Ok(p) /\ r.inputs[x].done = "ok"
  <2>1. q.took[x] = 1
    BY <1>1, <1>4, ZenonT(40) DEF Sound, Taken
  <2>2. Lasting(p, s, r, q)
    BY <1>1 DEF Lasting, Keeps
  <2>3. sess' = [sess EXCEPT ![s] = r] /\ proc' = [proc EXCEPT ![s] = q]
    BY <1>0, <1>1
  <2>4. s \in 1..Len(sess) /\ s = asking[p].s /\ \A v \in Inputs : r.inputs[v].in => sess[s].inputs[v].in
    BY <1>1
  <2>5. asking[p].pc = "receipt" /\ q.took[Job(p).client] = 1 /\ Ok(p)
    BY <1>0, <1>4, <2>1
  <2> QED BY <2>2, <2>3, <2>4, <2>5, Succeeds, ZenonT(40)
<1> QED BY <1>2, <1>3, <1>4

-----------------------------------------------------------------------------
(* Stop(), SetEffort(), SetModel() and Rename().                            *)
Grabs == {<<"stop", "interrupt">>, <<"effort", "apply">>, <<"model", "choose">>, <<"rename", "name">>}

LEMMA GrabInv ==
  ASSUME Inv, NEW p \in Requests, NEW s \in 1..Len(sess), s = asking[p].s, NEW x, <<asking[p].pc, x>> \in Grabs,
         ~Closed(sess[s]), ~sess[s].controlling,
         x = "interrupt" => /\ asking[p].turn \in Inputs /\ sess[s].active = asking[p].turn
                            /\ sess[s].inputs[asking[p].turn].uuid,
         NEW z \in Session, z.inputs = sess[s].inputs, z.active = sess[s].active, z.answers = sess[s].answers,
         z.ctrls = sess[s].ctrls, z.count = sess[s].count, z.exited = sess[s].exited, z.fenced = sess[s].fenced,
         z.listed = sess[s].listed, z.effort \in {sess[s].effort, "unknown"}, z.controlling,
         Go(p, x), sess' = [sess EXCEPT ![s] = z], proc' = proc, UNCHANGED <<story, creating, troubles>>
  PROVE  Inv'
<1> DEFINE r == sess[s]
           q == proc[s]
           c == asking[p]
<1>0. /\ c.pc \in Running /\ c.pc # "send" /\ <<c.pc, x>> \in Nexts /\ x \in Holding
      /\ x \in {"interrupt", "apply", "choose", "name"}
  BY DEF Grabs, Nexts, Running, Holding, Stopping, Setting
<1>1. /\ s # 0 /\ r \in Session /\ q \in Process /\ Sound(r, q) /\ Fine(Others(p), s, r, q)
      /\ c \in Asking /\ Job(p) \in Jobs /\ Placed(c, Job(p)) /\ proc' = [proc EXCEPT ![s] = q]
      /\ r = sess[s] /\ q = proc[s] /\ c = asking[p]
  BY <1>0, Here, ZenonT(40)
<1>2. /\ NoLine(q, "interrupt") /\ ~r.controlling /\ ~Closed(r)
      /\ \A o \in Others(p) : asking[o].s = s => asking[o].pc \notin Holding
  BY <1>1, ZenonT(40) DEF Fine, Sound, InterruptLines, NoLine, Served, Controlling
<1>3. High(q, z.effort)
  BY <1>1, ZenonT(40) DEF Sound, Controls, High
<1> HIDE DEF r, q, c
<1>4. Sound(z, q) /\ \A d \in Asking, j \in Jobs : Served(d, j, r, q) /\ (d.pc \in Holding => z.controlling) => Served(d, j, z, q)
  BY <1>1, <1>2, <1>3, Flags, ZenonT(40)
<1>5. Fine(Others(p), s, z, q) /\ Keeps(s, z, q)
  BY <1>1, <1>4, Typed, ZenonT(40) DEF Fine, Others, Keeps, Closed
<1>6. ASSUME x = "interrupt"
      PROVE  /\ c.turn \in Inputs /\ z.inputs[c.turn].uuid /\ NoLine(q, "input") /\ q.turn \in {None, c.turn}
             /\ \A o \in Requests : o # p /\ asking[o].s = s => asking[o].pc # "write"
  <2>1. r.active = c.turn /\ c.turn \in Inputs /\ r.inputs[c.turn].uuid
    BY <1>1, <1>6
  <2>2. \A v : ~Expected(r, q, v)
    BY <2>1, ZenonT(40) DEF Expected
  <2>3. NoLine(q, "input") /\ q.turn \in {None, c.turn}
    BY <1>1, <2>1, <2>2, ZenonT(40) DEF Sound, InputLines, NoLine, Turn
  <2>4. \A o \in Requests : o # p /\ asking[o].s = s => asking[o].pc # "write"
    BY <1>1, <2>2, ZenonT(40) DEF Fine, Others, Served, Sends
  <2> QED BY <1>1, <2>1, <2>3, <2>4
<1>7. Alone(p, s, x)
  BY <1>0, <1>2, <1>6 DEF Alone, Others
<1>8. \A d \in Asking : d = [c EXCEPT !.pc = x] => Served(d, Job(p), z, q)
  <2>1. \A d : d = [c EXCEPT !.pc = x] => d.pc = x /\ d.turn = c.turn
    BY <1>1, SMTT(40) DEF Asking
  <2>2. \A d \in Asking : d.pc = x /\ d.turn = c.turn => Served(d, Job(p), z, q)
    BY <1>0, <1>2, <1>6 DEF Served, Sends, Waits, Controlling, NoLine, Stops, Ends, Waiting, Stopping
  <2> QED BY <2>1, <2>2
<1>9. \A v \in Inputs : z.inputs[v].in => sess[s].inputs[v].in
  BY ZenonT(40)
<1>10. Going(p, s, z, q, x)
  BY <1>0, <1>1, <1>5, <1>7, <1>8, <1>9, ZenonT(40) DEF Going, Lasting
<1>11. proc' = [proc EXCEPT ![s] = q]
  BY <1>1
<1> QED BY <1>10, <1>11, Goes

LEMMA StopInv ==
  ASSUME Inv, NEW p \in Requests, Stop(p), UNCHANGED <<story, creating, troubles>>
  PROVE  Inv'
<1> DEFINE s == asking[p].s
           t == asking[p].turn
           z == [sess[s] EXCEPT !.controlling = TRUE]
<1>0. asking[p].pc = "stop" /\ asking[p].pc \in Running /\ proc' = proc
  BY DEF Stop, Running
<1>1. s \in 1..Len(sess) /\ sess[s] \in Session /\ asking[p] \in Asking /\ troubles \in [Troubles -> Nat]
  BY <1>0, Here
<1>2. CASE Err(p) /\ sess' = sess
  BY <1>0, <1>1, <1>2, GivesUp, SMTT(40)
<1>3. CASE /\ ~Closed(sess[s]) /\ t # None /\ sess[s].active = t /\ sess[s].inputs[t].uuid /\ ~sess[s].controlling
           /\ sess' = [sess EXCEPT ![s].controlling = TRUE] /\ Go(p, "interrupt")
  <2>1. sess' = [sess EXCEPT ![s] = z]
    BY <1>1, <1>3, Typed
  <2>2. t \in Inputs
    BY <1>1, <1>3 DEF Asking, Turns
  <2>3. /\ z \in Session /\ z.inputs = sess[s].inputs /\ z.active = sess[s].active /\ z.answers = sess[s].answers
        /\ z.ctrls = sess[s].ctrls /\ z.count = sess[s].count /\ z.exited = sess[s].exited /\ z.fenced = sess[s].fenced
        /\ z.listed = sess[s].listed /\ z.effort = sess[s].effort /\ z.controlling
    BY <1>1 DEF Session
  <2>4. <<asking[p].pc, "interrupt">> \in Grabs
    BY <1>0 DEF Grabs
  <2> HIDE DEF z
  <2> QED BY <1>0, <1>1, <1>3, <2>1, <2>2, <2>3, <2>4, GrabInv
<1> QED BY <1>2, <1>3 DEF Stop, Available, Closed

LEMMA TakesControl ==
  ASSUME Inv, NEW p \in Requests, UNCHANGED <<story, creating, troubles>>, proc' = proc,
         NEW s, s = asking[p].s, NEW x, <<asking[p].pc, x>> \in Grabs, x # "interrupt",
         \/ Err(p) /\ sess' = sess
         \/ /\ ~Closed(sess[s]) /\ ~sess[s].controlling /\ Go(p, x)
            /\ \/ sess' = [sess EXCEPT ![s].controlling = TRUE]
               \/ sess' = [sess EXCEPT ![s].controlling = TRUE, ![s].effort = "unknown"]
  PROVE  Inv'
<1> DEFINE z == [sess[s] EXCEPT !.controlling = TRUE]
           y == [sess[s] EXCEPT !.controlling = TRUE, !.effort = "unknown"]
<1>0. asking[p].pc \in Running /\ asking[p].pc # "starting"
  BY DEF Grabs, Running, Setting
<1>1. s \in 1..Len(sess) /\ sess[s] \in Session /\ troubles \in [Troubles -> Nat]
  BY <1>0, Here
<1>2. CASE Err(p) /\ sess' = sess
  BY <1>0, <1>1, <1>2, GivesUp, SMTT(40)
<1>3. CASE ~Closed(sess[s]) /\ ~sess[s].controlling /\ Go(p, x) /\ sess' = [sess EXCEPT ![s].controlling = TRUE]
  <2>1. sess' = [sess EXCEPT ![s] = z]
    BY <1>1, <1>3, Typed
  <2>2. /\ z \in Session /\ z.inputs = sess[s].inputs /\ z.active = sess[s].active /\ z.answers = sess[s].answers
        /\ z.ctrls = sess[s].ctrls /\ z.count = sess[s].count /\ z.exited = sess[s].exited /\ z.fenced = sess[s].fenced
        /\ z.listed = sess[s].listed /\ z.effort = sess[s].effort /\ z.controlling
    BY <1>1, ZenonT(40) DEF Session
  <2> HIDE DEF z
  <2> QED BY <1>1, <1>3, <2>1, <2>2, GrabInv
<1>4. CASE ~Closed(sess[s]) /\ ~sess[s].controlling /\ Go(p, x) /\ sess' = [sess EXCEPT ![s].controlling = TRUE, ![s].effort = "unknown"]
  <2>1. sess' = [sess EXCEPT ![s] = y]
    BY <1>1, <1>4, Typed
  <2>2. /\ y \in Session /\ y.inputs = sess[s].inputs /\ y.active = sess[s].active /\ y.answers = sess[s].answers
        /\ y.ctrls = sess[s].ctrls /\ y.count = sess[s].count /\ y.exited = sess[s].exited /\ y.fenced = sess[s].fenced
        /\ y.listed = sess[s].listed /\ y.effort = "unknown" /\ y.controlling
    BY <1>1 DEF Session
  <2> HIDE DEF y
  <2> QED BY <1>1, <1>4, <2>1, <2>2, GrabInv, ZenonT(40)
<1> QED BY <1>2, <1>3, <1>4

(* A control is answered.                                                   *)
LEMMA GoesOn ==
  ASSUME Inv, NEW p \in Requests, NEW x,
         <<asking[p].pc, x>> \in {<<"interrupting", "terminal">>, <<"applying", "readback">>},
         AnswerTo(p) # {}, \E a \in AnswerTo(p) : a.res = "ok",
         Go(p, x), UNCHANGED <<sess, proc>>, UNCHANGED <<story, creating, troubles>>
  PROVE  Inv'
<1> DEFINE s == asking[p].s
           r == sess[s]
           q == proc[s]
           c == asking[p]
<1>0. /\ c.pc \in Running /\ c.pc # "send" /\ <<c.pc, x>> \in Nexts /\ x \in Holding /\ c.pc \in Holding
      /\ x \in {"terminal", "readback"}
  BY DEF Nexts, Running, Holding, Stopping, Setting
<1>1. /\ s \in 1..Len(sess) /\ s # 0 /\ r \in Session /\ q \in Process /\ Sound(r, q) /\ Fine(Others(p), s, r, q)
      /\ Served(c, Job(p), r, q) /\ sess = [sess EXCEPT ![s] = r] /\ proc = [proc EXCEPT ![s] = q]
      /\ c \in Asking /\ Job(p) \in Jobs /\ Placed(c, Job(p)) /\ r = sess[s] /\ s = asking[p].s /\ q = proc[s] /\ c = asking[p]
  BY <1>0, Here
<1>2. Closed(r) \/ NoLine(q, "interrupt")
  BY <1>0, Settled
<1>3. sess' = [sess EXCEPT ![s] = r] /\ proc' = [proc EXCEPT ![s] = q]
  BY <1>1, SMTT(40)
<1>4. x = "terminal" => Hit(q, c.turn) /\ c.turn \in Inputs /\ r.inputs[c.turn].uuid
  <2>1. SUFFICES ASSUME x = "terminal" PROVE Hit(q, c.turn) /\ c.turn \in Inputs /\ r.inputs[c.turn].uuid
    OBVIOUS
  <2>2. PICK a \in r.answers : a.ctl = c.ctl /\ a.res = "ok"
    BY DEF AnswerTo, S
  <2>3. c.pc = "interrupting"
    BY <2>1
  <2> QED BY <1>1, <2>2, <2>3 DEF Served, Stops, Stopping
<1> HIDE DEF s, r, q, c
<1>5. \A d \in Asking : d = [c EXCEPT !.pc = x] => Served(d, Job(p), r, q)
  <2>1. \A d : d = [c EXCEPT !.pc = x] => d.pc = x /\ d.turn = c.turn
    BY <1>1 DEF Asking
  <2>2. r.controlling
    BY <1>0, <1>1 DEF Served, Controlling
  <2>3. \A d \in Asking : d.pc = x /\ d.turn = c.turn => Served(d, Job(p), r, q)
    BY <1>0, <1>2, <1>4, <2>2 DEF Served, Sends, Waits, Controlling, NoLine, Stops, Ends, Waiting, Stopping
  <2> QED BY <2>1, <2>3
<1>6. Lasting(p, s, r, q)
  BY <1>1 DEF Lasting, Keeps
<1>7. Alone(p, s, x)
  <2>1. \A o \in Requests : o # p /\ asking[o].s = s => asking[o].pc \notin Holding
    BY <1>0, <1>1, Own DEF Together
  <2> QED BY <1>0, <2>1 DEF Alone
<1>8. \A v \in Inputs : r.inputs[v].in => sess[s].inputs[v].in
  BY <1>1, SMTT(40)
<1>9. Going(p, s, r, q, x)
  BY <1>0, <1>1, <1>5, <1>6, <1>7, <1>8 DEF Going
<1>10. s \in 1..Len(sess) /\ s = asking[p].s
  BY <1>1, ZenonT(40)
<1>11. Inv /\ p \in Requests /\ Go(p, x) /\ UNCHANGED <<story, creating, troubles>>
  BY ZenonT(40)
<1> QED BY ONLY <1>3, <1>9, <1>10, <1>11, Goes

LEMMA Returns ==
  ASSUME Inv, NEW p \in Requests, asking[p].pc \in {"terminal", "reading", "choosing", "naming"}, NEW s, s = asking[p].s,
         asking[p].pc = "terminal" => sess[s].inputs[asking[p].turn].terminal,
         NEW z \in Session, z.inputs = sess[s].inputs, z.active = sess[s].active, z.answers = sess[s].answers,
         z.ctrls = sess[s].ctrls, z.count = sess[s].count, z.exited = sess[s].exited, z.fenced = sess[s].fenced,
         z.listed = sess[s].listed, High(proc[s], z.effort),
         Ok(p), sess' = [sess EXCEPT ![s] = z], proc' = proc, UNCHANGED <<story, creating, troubles>>
  PROVE  Inv'
<1> DEFINE r == sess[s]
           q == proc[s]
<1>0. asking[p].pc \in Running /\ asking[p].pc \in Holding /\ asking[p].pc \notin {"interrupting", "starting"}
  BY DEF Running, Setting, Holding, Stopping
<1>1. /\ s \in 1..Len(sess) /\ s # 0 /\ q \in Process /\ Fine(Others(p), s, r, q)
      /\ Served(asking[p], Job(p), r, q) /\ proc = [proc EXCEPT ![s] = q]
  BY <1>0, Here
<1>2. Closed(z) \/ NoLine(q, "interrupt")
  BY <1>0, Settled DEF Closed
<1>3. Fine(Others(p), s, z, q)
  BY <1>0, <1>1, <1>2, Releases
<1>4. Lasting(p, s, z, q)
  BY <1>3 DEF Lasting, Keeps, Closed
<1>5. asking[p].pc = "terminal" => z.inputs[asking[p].turn].terminal /\ Stops(asking[p], z, q)
  <2>1. asking[p].pc = "terminal" => Stops(asking[p], r, q)
    BY <1>1, SMTT(40) DEF Served
  <2> QED BY <2>1 DEF Stops, Stopping
<1>6. proc' = [proc EXCEPT ![s] = q] /\ asking[p].pc # "receipt" /\ \A c \in Inputs : z.inputs[c].in => sess[s].inputs[c].in
  BY <1>0, <1>1
<1>7. s \in 1..Len(sess)
  BY <1>1
<1> QED BY <1>4, <1>5, <1>6, <1>7, Succeeds, ZenonT(40)

LEMMA InterruptedInv ==
  ASSUME Inv, NEW p \in Requests, Interrupted(p), UNCHANGED <<story, creating, troubles>>
  PROVE  Inv'
<1>1. CASE AnsweredBy(p, "interrupting", "ok") /\ Go(p, "terminal") /\ UNCHANGED <<sess, proc>>
  <2>1. asking[p].pc = "interrupting" /\ AnswerTo(p) # {} /\ \E a \in AnswerTo(p) : a.res = "ok"
    BY <1>1 DEF AnsweredBy
  <2> QED BY <1>1, <2>1, GoesOn
<1>2. CASE Refused(p, "interrupting")
  <2>1. "interrupting" \in Holding
    BY SMTT(40) DEF Holding, Stopping
  <2> QED BY <1>2, <2>1, RefusedInv
<1> QED BY <1>1, <1>2 DEF Interrupted

LEMMA StopEndsInv ==
  ASSUME Inv, NEW p \in Requests, StopEnds(p), UNCHANGED <<story, creating, troubles>>
  PROVE  Inv'
<1> DEFINE s == asking[p].s
           z == [sess[s] EXCEPT !.controlling = FALSE]
<1>0. asking[p].pc = "terminal" /\ asking[p].pc \in Running /\ proc' = proc /\ sess[s].inputs[asking[p].turn].terminal /\ Ok(p)
  BY DEF StopEnds, Running, Stopping, S
<1>1. s \in 1..Len(sess) /\ sess[s] \in Session /\ Sound(sess[s], proc[s])
  BY <1>0, Here
<1>2. sess' = [sess EXCEPT ![s] = z]
  BY <1>1, Typed DEF StopEnds
<1>3. /\ z \in Session /\ z.inputs = sess[s].inputs /\ z.active = sess[s].active /\ z.answers = sess[s].answers
      /\ z.ctrls = sess[s].ctrls /\ z.count = sess[s].count /\ z.exited = sess[s].exited /\ z.fenced = sess[s].fenced
      /\ z.listed = sess[s].listed /\ z.effort = sess[s].effort
  BY <1>1, ZenonT(40) DEF Session
<1>4. High(proc[s], z.effort)
  BY <1>1, <1>3, ZenonT(40) DEF Sound, Controls
<1> HIDE DEF z
<1> QED BY <1>0, <1>2, <1>3, <1>4, Returns

LEMMA SetEffortInv ==
  ASSUME Inv, NEW p \in Requests, SetEffort(p), UNCHANGED <<story, creating, troubles>>
  PROVE  Inv'
<1> DEFINE s == asking[p].s
<1>1. proc' = proc /\ <<asking[p].pc, "apply">> \in Grabs
  BY DEF SetEffort, Grabs
<1>2. \/ Err(p) /\ sess' = sess
      \/ /\ ~Closed(sess[s]) /\ ~sess[s].controlling /\ Go(p, "apply")
         /\ \/ sess' = [sess EXCEPT ![s].controlling = TRUE]
            \/ sess' = [sess EXCEPT ![s].controlling = TRUE, ![s].effort = "unknown"]
  BY DEF SetEffort, Available, Busy, Closed
<1> QED BY <1>1, <1>2, TakesControl

LEMMA ApplyEffortInv ==
  ASSUME Inv, NEW p \in Requests, ApplyEffort(p), UNCHANGED <<story, creating, troubles>>
  PROVE  Inv'
<1>1. CASE asking[p].pc = "apply" /\ Control(p, Line("apply", None), "applying")
  <2>1. "applying" \in Pcs /\ None \in Turns
    BY DEF Pcs, Turns
  <2> QED BY <1>1, <2>1, ControlInv
<1>2. CASE AnsweredBy(p, "applying", "ok") /\ Go(p, "readback") /\ UNCHANGED <<sess, proc>>
  <2>1. asking[p].pc = "applying" /\ AnswerTo(p) # {} /\ \E a \in AnswerTo(p) : a.res = "ok"
    BY <1>2 DEF AnsweredBy
  <2> QED BY <1>2, <2>1, GoesOn
<1>3. CASE Refused(p, "applying")
  <2>1. "applying" \in Holding
    BY DEF Holding
  <2> QED BY <1>3, <2>1, RefusedInv
<1> QED BY <1>1, <1>2, <1>3 DEF ApplyEffort

LEMMA ReadbackInv ==
  ASSUME Inv, NEW p \in Requests, Readback(p), UNCHANGED <<story, creating, troubles>>
  PROVE  Inv'
<1>1. CASE asking[p].pc = "readback" /\ Control(p, Line("get", None), "reading")
  <2>1. "reading" \in Pcs /\ None \in Turns
    BY DEF Pcs, Turns
  <2> QED BY <1>1, <2>1, ControlInv
<1>2. CASE /\ AnsweredBy(p, "reading", "ok") /\ proc' = proc
           /\ LET yes == \A a \in AnswerTo(p) : Matches(a) IN
                /\ IF yes THEN Ok(p) ELSE Err(p)
                /\ sess' = [sess EXCEPT ![asking[p].s].controlling = FALSE,
                                        ![asking[p].s].effort = IF yes THEN "high" ELSE @]
  <2> DEFINE s == asking[p].s
             z == [sess[s] EXCEPT !.controlling = FALSE]
             y == [sess[s] EXCEPT !.controlling = FALSE, !.effort = "high"]
  <2>0. asking[p].pc = "reading" /\ asking[p].pc \in Running /\ asking[p].pc \in Holding /\ \E a \in AnswerTo(p) : a.res = "ok"
    BY <1>2 DEF AnsweredBy, Running, Setting, Holding
  <2>1. s \in 1..Len(sess) /\ sess[s] \in Session /\ Sound(sess[s], proc[s]) /\ troubles \in [Troubles -> Nat]
    BY <2>0, Here
  <2>2. \/ /\ Err(p) /\ sess' = [sess EXCEPT ![s] = z]
        \/ /\ Ok(p) /\ sess' = [sess EXCEPT ![s] = y] /\ \A a \in AnswerTo(p) : Matches(a)
    <3>1. /\ [sess EXCEPT ![s].controlling = FALSE, ![s].effort = "high"] = [sess EXCEPT ![s] = y]
          /\ [sess EXCEPT ![s].controlling = FALSE, ![s].effort = @] = [sess EXCEPT ![s] = z]
      BY <2>1, Typed DEF Session
    <3>2. CASE \A a \in AnswerTo(p) : Matches(a)
      BY <1>2, <3>1, <3>2
    <3>3. CASE ~\A a \in AnswerTo(p) : Matches(a)
      BY <1>2, <3>1, <3>3
    <3> QED BY <3>2, <3>3
  <2>3. /\ z \in Session /\ z.inputs = sess[s].inputs /\ z.active = sess[s].active /\ z.answers = sess[s].answers
        /\ z.ctrls = sess[s].ctrls /\ z.count = sess[s].count /\ z.exited = sess[s].exited /\ z.fenced = sess[s].fenced
        /\ z.listed = sess[s].listed /\ z.effort = sess[s].effort
    BY <2>1 DEF Session
  <2>4. /\ y \in Session /\ y.inputs = sess[s].inputs /\ y.active = sess[s].active /\ y.answers = sess[s].answers
        /\ y.ctrls = sess[s].ctrls /\ y.count = sess[s].count /\ y.exited = sess[s].exited /\ y.fenced = sess[s].fenced
        /\ y.listed = sess[s].listed /\ y.effort = "high"
    BY <2>1 DEF Session
  <2> HIDE DEF z, y
  <2>5. CASE Err(p) /\ sess' = [sess EXCEPT ![s] = z]
    <3>1. asking[p].pc # "interrupting" /\ UNCHANGED <<story, creating, proc>> /\ troubles' \in [Troubles -> Nat]
      BY <1>2, <2>0, <2>1
    <3>2. z.fenced \/ (asking[p].pc = "interrupting" => AnswerTo(p) # {})
      BY <3>1
    <3>3. sess[s].fenced => z.fenced
      BY <2>3
    <3> QED BY <2>0, <2>3, <2>5, <3>1, <3>2, <3>3, GivesBack
  <2>6. CASE Ok(p) /\ sess' = [sess EXCEPT ![s] = y] /\ \A a \in AnswerTo(p) : Matches(a)
    <3>1. High(proc[s], y.effort)
      <4>1. PICK a \in sess[s].answers : a.effort = "high"
        BY <2>0, <2>6 DEF AnswerTo, S, Matches
      <4> QED BY <2>1, <2>4, <4>1, ZenonT(40) DEF Sound, Controls, High
    <3>2. asking[p].pc \in {"terminal", "reading", "choosing", "naming"} /\ asking[p].pc # "terminal"
      BY <2>0
    <3>3. Ok(p) /\ sess' = [sess EXCEPT ![s] = y] /\ proc' = proc /\ UNCHANGED <<story, creating, troubles>>
      BY <1>2, <2>6
    <3> QED BY <2>4, <3>1, <3>2, <3>3, Returns
  <2> QED BY <2>2, <2>5, <2>6
<1>3. CASE Refused(p, "reading")
  <2>1. "reading" \in Holding
    BY DEF Holding
  <2> QED BY <1>3, <2>1, RefusedInv
<1> QED BY <1>1, <1>2, <1>3 DEF Readback

LEMMA SetModelInv ==
  ASSUME Inv, NEW p \in Requests, SetModel(p), UNCHANGED <<story, creating, troubles>>
  PROVE  Inv'
<1> DEFINE s == asking[p].s
           z == [sess[s] EXCEPT !.controlling = FALSE]
<1>1. CASE /\ asking[p].pc = "model" /\ proc' = proc
           /\ \/ Err(p) /\ sess' = sess
              \/ /\ ~Closed(sess[s]) /\ ~sess[s].controlling /\ Go(p, "choose")
                 /\ sess' = [sess EXCEPT ![s].controlling = TRUE]
  <2>1. <<asking[p].pc, "choose">> \in Grabs /\ proc' = proc
    BY <1>1 DEF Grabs
  <2>2. \/ Err(p) /\ sess' = sess
        \/ /\ ~Closed(sess[s]) /\ ~sess[s].controlling /\ Go(p, "choose")
           /\ \/ sess' = [sess EXCEPT ![s].controlling = TRUE]
              \/ sess' = [sess EXCEPT ![s].controlling = TRUE, ![s].effort = "unknown"]
    BY <1>1
  <2> QED BY <2>1, <2>2, TakesControl
<1>2. CASE asking[p].pc = "choose" /\ Control(p, Line("model", None), "choosing")
  <2>1. "choosing" \in Pcs /\ None \in Turns
    BY SMTT(40) DEF Pcs, Turns
  <2> QED BY <1>2, <2>1, ControlInv
<1>3. CASE AnsweredBy(p, "choosing", "ok") /\ Ok(p) /\ sess' = [sess EXCEPT ![s].controlling = FALSE] /\ proc' = proc
  <2>0. asking[p].pc = "choosing" /\ asking[p].pc \in Running
    BY <1>3 DEF AnsweredBy, Running
  <2>1. s \in 1..Len(sess) /\ sess[s] \in Session /\ Sound(sess[s], proc[s])
    BY <2>0, Here
  <2>2. sess' = [sess EXCEPT ![s] = z]
    BY <1>3, <2>1, Typed
  <2>3. /\ z \in Session /\ z.inputs = sess[s].inputs /\ z.active = sess[s].active /\ z.answers = sess[s].answers
        /\ z.ctrls = sess[s].ctrls /\ z.count = sess[s].count /\ z.exited = sess[s].exited /\ z.fenced = sess[s].fenced
        /\ z.listed = sess[s].listed /\ z.effort = sess[s].effort
    BY <2>1, ZenonT(40) DEF Session
  <2>4. High(proc[s], z.effort)
    BY <2>1, <2>3 DEF Sound, Controls
  <2> HIDE DEF z
  <2> QED BY <1>3, <2>0, <2>2, <2>3, <2>4, Returns
<1>4. CASE Refused(p, "choosing")
  <2>1. "choosing" \in Holding
    BY DEF Holding
  <2> QED BY <1>4, <2>1, RefusedInv
<1> QED BY <1>1, <1>2, <1>3, <1>4 DEF SetModel, Available, Busy, Closed

LEMMA RenameInv ==
  ASSUME Inv, NEW p \in Requests, Rename(p), UNCHANGED <<story, creating, troubles>>
  PROVE  Inv'
<1> DEFINE s == asking[p].s
           z == [sess[s] EXCEPT !.controlling = FALSE, !.title = TRUE]
<1>1. CASE /\ asking[p].pc = "rename" /\ proc' = proc
           /\ \/ Err(p) /\ sess' = sess
              \/ /\ ~Closed(sess[s]) /\ ~sess[s].controlling /\ Go(p, "name")
                 /\ sess' = [sess EXCEPT ![s].controlling = TRUE]
  <2>1. <<asking[p].pc, "name">> \in Grabs /\ proc' = proc
    BY <1>1 DEF Grabs
  <2>2. \/ Err(p) /\ sess' = sess
        \/ /\ ~Closed(sess[s]) /\ ~sess[s].controlling /\ Go(p, "name")
           /\ \/ sess' = [sess EXCEPT ![s].controlling = TRUE]
              \/ sess' = [sess EXCEPT ![s].controlling = TRUE, ![s].effort = "unknown"]
    BY <1>1
  <2> QED BY <2>1, <2>2, TakesControl
<1>2. CASE asking[p].pc = "name" /\ Control(p, Line("title", None), "naming")
  <2>1. "naming" \in Pcs /\ None \in Turns
    BY ZenonT(40) DEF Pcs, Turns
  <2> QED BY <1>2, <2>1, ControlInv
<1>3. CASE AnsweredBy(p, "naming", "ok") /\ Ok(p) /\ sess' = [sess EXCEPT ![s].controlling = FALSE, ![s].title = TRUE] /\ proc' = proc
  <2>0. asking[p].pc = "naming" /\ asking[p].pc \in Running
    BY <1>3 DEF AnsweredBy, Running
  <2>1. s \in 1..Len(sess) /\ sess[s] \in Session /\ Sound(sess[s], proc[s])
    BY <2>0, Here
  <2>2. sess' = [sess EXCEPT ![s] = z]
    BY <1>3, <2>1, Typed
  <2>3. /\ z \in Session /\ z.inputs = sess[s].inputs /\ z.active = sess[s].active /\ z.answers = sess[s].answers
        /\ z.ctrls = sess[s].ctrls /\ z.count = sess[s].count /\ z.exited = sess[s].exited /\ z.fenced = sess[s].fenced
        /\ z.listed = sess[s].listed /\ z.effort = sess[s].effort
    BY <2>1, ZenonT(40) DEF Session
  <2>4. High(proc[s], z.effort)
    BY <2>1, <2>3, ZenonT(40) DEF Sound, Controls
  <2> HIDE DEF z
  <2> QED BY <1>3, <2>0, <2>2, <2>3, <2>4, Returns, ZenonT(40)
<1>4. CASE Refused(p, "naming")
  <2>1. "naming" \in Holding
    BY DEF Holding
  <2> QED BY <1>4, <2>1, RefusedInv
<1> QED BY <1>1, <1>2, <1>3, <1>4 DEF Rename, Available, Closed

LEMMA InterruptInv ==
  ASSUME Inv, NEW p \in Requests, Interrupt(p), UNCHANGED <<story, creating, troubles>>
  PROVE  Inv'
<1>1. asking[p].pc = "interrupt" /\ Control(p, Line("interrupt", asking[p].turn), "interrupting")
  BY DEF Interrupt
<1>2. "interrupting" \in Pcs /\ asking[p].turn \in Turns
  BY Typed DEF Pcs, Asking
<1> QED BY <1>1, <1>2, ControlInv

LEMMA SessionOpInv ==
  ASSUME Inv, NEW p \in Requests, SessionOp(p), UNCHANGED <<story, troubles>>
  PROVE  Inv'
<1>1. UNCHANGED <<story, creating, troubles>> /\ (Send(p) => asking[p].then # "send")
  BY ZenonT(40) DEF SessionOp, Send
<1> QED BY <1>1, SendInv, WriteInputInv, ReceiptInv, StopInv, InterruptInv, InterruptedInv, StopEndsInv,
           SetEffortInv, ApplyEffortInv, ReadbackInv, SetModelInv, RenameInv DEF SessionOp

-----------------------------------------------------------------------------
(* A request that is not in a session, or is done with it.                  *)
Aside(p, d) ==
  /\ asking[p].pc \in {"idle", "created"} /\ d.pc \in {"created", "end"} /\ Placed(d, Job(p))
  /\ d.s = asking[p].s /\ d.then = asking[p].then /\ (d.pc = "end" => d.out # "ok")

LEMMA AsideInv ==
  ASSUME Inv, NEW p \in Requests, NEW d \in Asking, Aside(p, d), asking' = [asking EXCEPT ![p] = d],
         UNCHANGED <<story, creating, sess, proc>>, troubles' \in [Troubles -> Nat]
  PROVE  Inv'
<1>0. /\ \A o \in Requests : (Creates(o))' <=> Creates(o)
      /\ \A o \in Requests : Job(o)' = Job(o) /\ Of(o)' = Of(o)
      /\ \A o \in Requests : asking'[o] = IF o = p THEN d ELSE asking[o]
      /\ \A o \in Requests : asking'[o].s = asking[o].s
  BY DEF Aside, Creates, Job, Of, Inv, Types
<1>1. Types'
  <2>1. asking' \in [Requests -> Asking] /\ \A o \in Requests : asking'[o].s <= Len(sess)
    BY <1>0 DEF Inv, Types
  <2> QED BY <2>1 DEF Inv, Types
<1>2. \A o \in Requests : Placed(asking'[o], Job(o)')
  BY <1>0 DEF Inv, Aside
<1>3. Flow'
  <2>1. \A t \in 1..Len(sess') : Sound(sess'[t], proc'[t])
    BY DEF Inv, Flow
  <2>2. \A r, q : Served(d, Job(p), r, q)
    BY DEF Aside, Served, Sends, Waits, Controlling, Stops, Ends, Waiting, Holding, Stopping
  <2>3. \A o \in Requests : asking'[o].s # 0 => Served(asking'[o], Job(o)', sess'[asking'[o].s], proc'[asking'[o].s])
    BY <1>0, <2>2 DEF Inv, Flow
  <2>4. Apart'
    <3> SUFFICES ASSUME NEW o \in Requests, NEW t \in Requests, o # t, asking'[o].s = asking'[t].s, asking'[o].s # 0
                 PROVE  Together(asking'[o], asking'[t])
      BY DEF Apart
    <3>1. Together(asking[o], asking[t]) /\ Together(asking[t], asking[o])
      BY <1>0 DEF Inv, Flow, Apart
    <3> QED BY <1>0, <3>1 DEF Aside, Together, Holding, Stopping
  <2> QED BY <2>1, <2>3, <2>4 DEF Flow
<1>4. Recorded'
  BY DEF Inv, Makers, Recorded
<1>5. ASSUME NEW o \in Requests, (Creates(o))' PROVE Makes(o)'
  <2>1. Creates(o) /\ Makes(o)
    BY <1>0, <1>5 DEF Inv, Makers
  <2>2. CASE o # p
    BY <1>0, <2>1, <2>2 DEF Makes, Making
  <2>3. CASE o = p
    <3>1. asking[p].then # "end" => ~Making(asking[p]) /\ Of(p).done
      <4>1. asking[p].pc = "idle" => asking[p].then = "end"
        BY Typed DEF Placed, IdleRequest
      <4> QED BY <2>1, <2>3, <4>1 DEF Aside, Makes, Making
    <3>2. asking'[o] = d /\ ~Making(d)
      BY <1>0, <2>3 DEF Aside, Making
    <3>3. d.pc \notin Setting \cup {"send", "write", "receipt", "made", "start", "starting"} /\ asking[p].pc # "starting"
      BY DEF Aside, Setting
    <3>4. ~(Making(asking'[o]))
      BY <3>2
    <3> QED BY <1>0, <2>1, <2>3, <3>1, <3>2, <3>3, <3>4 DEF Makes, Aside
  <2> QED BY <2>2, <2>3
<1>6. ASSUME NEW o \in Requests, NEW t \in Requests, o # t, (Creates(o))', (Creates(t))' PROVE Rivals(o, t)'
  <2>1. Rivals(o, t)
    BY <1>0, <1>6 DEF Inv, Makers
  <2> QED BY <1>0, <2>1 DEF Rivals, Aside, Making
<1>7. /\ \A t \in 1..Len(sess) : \E o \in Requests : Creates(o) /\ asking'[o].s = t
      /\ \A t \in 1..Len(sess) : sess[t].listed => \E c \in Inputs : creating[c].s = t
  BY <1>0 DEF Inv, Makers
<1>8. Makers'
  BY <1>0, <1>4, <1>5, <1>6, <1>7 DEF Makers
<1>9. Homes'
  <2> SUFFICES ASSUME NEW t \in 1..Len(sess), NEW c \in Inputs, sess[t].inputs[c].in
               PROVE  \/ creating[c].s = t /\ \E o \in Requests : Creates(o) /\ Job(o).client = c
                      \/ \E o \in Requests : Job(o).op = "send" /\ Job(o).client = c /\ asking'[o].s = t
    BY <1>0 DEF Homes
  <2>1. \/ creating[c].s = t /\ \E o \in Requests : Creates(o) /\ Job(o).client = c
        \/ \E o \in Requests : Job(o).op = "send" /\ Job(o).client = c /\ asking[o].s = t
    BY DEF Inv, Homes
  <2> QED BY <1>0, <2>1
<1>10. Limit'
  BY DEF Inv, Limit, Counted, Available
<1> QED BY <1>1, <1>2, <1>3, <1>8, <1>9, <1>10 DEF Inv

-----------------------------------------------------------------------------
(* The maker of a session says what became of it.                           *)
Records(p, s, r, q, d, k) ==
  /\ Creates(p) /\ asking[p].s = s /\ Making(asking[p])
  /\ Fine(Others(p), s, r, q)
  /\ r.listed => sess[s].listed \/ k.s = s
  /\ q.open => proc[s].open
  /\ Closed(sess[s]) => Closed(r)
  /\ \A c \in Inputs : r.inputs[c].in => sess[s].inputs[c].in
  /\ k.known /\ k.s \in {0, s} /\ (Of(p).s # 0 => k.s = s) /\ (k.done /\ ~k.err => k.s # 0) /\ (k.err => k.done)
  /\ Placed(d, Job(p)) /\ Served(d, Job(p), r, q) /\ d.s = s
  /\ d.pc \notin {"start", "starting", "write"} \cup Holding
  /\ Making(d) => ~k.done
  /\ d.then # "end" /\ ~Making(d) => k.done
  /\ k.s = 0 => ~q.open
  /\ d.pc \in Served0 => k.s = s

LEMMA RecordsKept ==
  ASSUME Inv, NEW p \in Requests, NEW s \in 1..Len(sess), NEW r \in Session, NEW q \in Process, NEW d \in Asking, NEW k \in Creation,
         sess' = [sess EXCEPT ![s] = r], proc' = [proc EXCEPT ![s] = q], asking' = [asking EXCEPT ![p] = d],
         creating' = [creating EXCEPT ![Job(p).client] = k],
         story' = story, troubles' = troubles, Records(p, s, r, q, d, k)
  PROVE  Makers'
<1> DEFINE x == Job(p).client
<1>0. /\ \A o \in Requests : (Creates(o))' <=> Creates(o)
      /\ \A o \in Requests : Job(o)' = Job(o) /\ Of(o)' = IF Job(o).client = x THEN k ELSE Of(o)
      /\ \A o \in Requests : asking'[o] = IF o = p THEN d ELSE asking[o]
      /\ DOMAIN sess' = DOMAIN sess /\ Len(sess') = Len(sess)
      /\ \A t \in 1..Len(sess) : sess'[t] = IF t = s THEN r ELSE sess[t]
      /\ \A t \in 1..Len(sess) : proc'[t] = IF t = s THEN q ELSE proc[t]
      /\ \A c \in Inputs : creating'[c] = IF c = x THEN k ELSE creating[c]
  BY Typed DEF Inv, Types, Creates, Of, Job
<1>1. /\ Creates(p) /\ Makes(p) /\ s # 0 /\ Of(p) = creating[x] /\ x \in Inputs /\ Of(p).s \in {0, s}
      /\ Of(p).known /\ ~Of(p).done
  BY Typed DEF Records, Inv, Makers, Makes, Of
<1>2. Recorded'
  BY <1>0 DEF Inv, Makers, Recorded, Records
<1>3. \A t \in 1..Len(sess) : /\ proc'[t].open => proc[t].open
                              /\ sess'[t].listed => sess[t].listed \/ (t = s /\ k.s = s)
  BY <1>0 DEF Records
<1>4. \A o \in Requests : o # p /\ asking[o].s = s => asking[o].pc # "starting"
  BY <1>1, Own DEF Records, Together
<1>5. ASSUME NEW o \in Requests, (Creates(o))' PROVE Makes(o)'
  <2>0. Creates(o) /\ Makes(o) /\ Placed(asking[o], Job(o)) /\ (asking[o].s # 0 => asking[o].s \in 1..Len(sess))
    BY <1>0, <1>5, Typed DEF Inv, Makers
  <2>1. CASE o = p
    <3>1. asking'[o] = d /\ Of(o)' = k /\ d.s = s
      BY <1>0, <2>1 DEF Records
    <3>2. Making(d) <=> Making(asking'[o])
      BY <3>1
    <3> QED BY <1>0, <1>1, <3>1, <3>2 DEF Makes, Records, Served0
  <2>2. CASE o # p /\ Job(o).client = x
    <3>1. asking'[o] = asking[o] /\ Of(o)' = k /\ Of(o) = Of(p)
      BY <1>0, <2>2 DEF Of
    <3>2. Rivals(p, o)
      BY <1>1, <2>0, <2>2 DEF Inv, Makers
    <3>3. ~Making(asking[o]) /\ asking[o].pc # "start" /\ asking[o].s \in {0, s}
      BY <1>1, <2>2, <3>2 DEF Rivals, Records
    <3>4. asking[o].then = "end"
      BY <1>1, <2>0, <3>1, <3>3 DEF Makes
    <3>5. asking[o].pc # "starting"
      BY <2>0, <3>4 DEF Placed
    <3>6. asking[o].s # 0 /\ k.s = 0 => ~proc'[asking[o].s].open
      BY <1>0, <3>3 DEF Records
    <3>7. asking[o].pc \in Setting \cup {"send", "write", "receipt", "made"} => k.s = asking[o].s
      <4>1. SUFFICES ASSUME asking[o].pc \in Setting \cup {"send", "write", "receipt", "made"} PROVE k.s = asking[o].s
        OBVIOUS
      <4>2. asking[o].s # 0
        BY <2>0, <4>1 DEF Placed, Setting
      <4>3. Of(p).s = asking[o].s
        BY <2>0, <3>1, <4>1 DEF Makes
      <4> QED BY <3>3, <4>2, <4>3 DEF Records
    <3>8. k.known /\ k.s \in {0, s}
      BY DEF Records
    <3> QED BY <3>1, <3>3, <3>4, <3>5, <3>6, <3>7, <3>8 DEF Makes, Making
  <2>3. CASE o # p /\ Job(o).client # x
    <3>1. asking'[o] = asking[o] /\ Of(o)' = Of(o)
      BY <1>0, <2>3
    <3>2. asking[o].pc = "starting" => asking[o].s # s /\ asking[o].s # 0
      BY <1>4, <2>0, <2>3 DEF Placed
    <3>3. asking[o].pc = "starting" => ~sess'[asking[o].s].listed /\ \A c \in Inputs : creating'[c].s # asking[o].s
      BY <1>0, <1>3, <2>0, <3>2 DEF Makes, Records
    <3>4. asking[o].s # 0 => (proc'[asking[o].s].open => proc[asking[o].s].open)
      BY <1>3, <2>0
    <3> QED BY <2>0, <3>1, <3>3, <3>4 DEF Makes, Making
  <2> QED BY <2>1, <2>2, <2>3
<1>6. ASSUME NEW o \in Requests, NEW t \in Requests, o # t, (Creates(o))', (Creates(t))' PROVE Rivals(o, t)'
  <2>1. Rivals(o, t)
    BY <1>0, <1>6 DEF Inv, Makers
  <2>2. SUFFICES ASSUME Job(o).client = Job(t).client
                 PROVE  /\ ~(Making(asking'[o]) /\ Making(asking'[t]))
                        /\ asking'[o].s # 0 => asking'[t].pc # "start" /\ asking'[t].s \in {0, asking'[o].s}
    BY <1>0 DEF Rivals, Making
  <2>3. \A u \in Requests : /\ asking'[u].s = asking[u].s
                            /\ Making(asking'[u]) => Making(asking[u])
                            /\ asking'[u].pc = "start" => asking[u].pc = "start"
    BY <1>0 DEF Records
  <2> QED BY <2>1, <2>2, <2>3 DEF Rivals
<1>7. \A t \in 1..Len(sess) : \E o \in Requests : Creates(o) /\ asking'[o].s = t
  BY <1>0 DEF Inv, Makers, Records
<1>8. \A t \in 1..Len(sess) : sess'[t].listed => \E c \in Inputs : creating'[c].s = t
  <2> SUFFICES ASSUME NEW t \in 1..Len(sess), sess'[t].listed PROVE \E c \in Inputs : creating'[c].s = t
    OBVIOUS
  <2>1. CASE t = s /\ k.s = s
    BY <1>0, <1>1, <2>1
  <2>2. CASE sess[t].listed
    <3>1. PICK c \in Inputs : creating[c].s = t
      BY <2>2 DEF Inv, Makers
    <3>2. creating'[c].s = t
      BY <1>0, <1>1, <3>1 DEF Records
    <3> QED BY <3>2
  <2> QED BY <1>3, <2>1, <2>2
<1> QED BY <1>0, <1>2, <1>5, <1>6, <1>7, <1>8 DEF Makers

LEMMA RecordsInv ==
  ASSUME Inv, NEW p \in Requests, NEW s \in 1..Len(sess), NEW r \in Session, NEW q \in Process, NEW d \in Asking, NEW k \in Creation,
         sess' = [sess EXCEPT ![s] = r], proc' = [proc EXCEPT ![s] = q], asking' = [asking EXCEPT ![p] = d],
         creating' = [creating EXCEPT ![Job(p).client] = k],
         story' = story, troubles' = troubles, Records(p, s, r, q, d, k)
  PROVE  Inv'
<1> DEFINE x == Job(p).client
<1>0. /\ \A o \in Requests : (Creates(o))' <=> Creates(o)
      /\ \A o \in Requests : Job(o)' = Job(o)
      /\ \A o \in Requests : asking'[o].s = asking[o].s
      /\ DOMAIN sess' = DOMAIN sess /\ Len(sess') = Len(sess)
      /\ \A t \in 1..Len(sess) : sess'[t] = IF t = s THEN r ELSE sess[t]
      /\ \A c \in Inputs : creating'[c] = IF c = x THEN k ELSE creating[c]
  BY Typed DEF Inv, Types, Creates, Job, Records
<1>1. /\ Creates(p) /\ Makes(p) /\ s # 0 /\ Of(p) = creating[x] /\ x \in Inputs /\ Of(p).s \in {0, s}
      /\ Of(p).known /\ ~Of(p).done /\ ~Of(p).err
  BY Typed DEF Records, Inv, Makers, Makes, Of, Recorded
<1>2. Types' /\ (\A o \in Requests : Placed(asking'[o], Job(o)')) /\ Flow'
  <2>1. creating' \in [Inputs -> Creation] /\ \A c \in Inputs : creating'[c].s <= Len(sess)
    <3>1. creating' \in [Inputs -> Creation]
      BY DEF Inv, Types
    <3>2. k.s <= Len(sess)
      BY Typed DEF Records
    <3>3. \A c \in Inputs : creating[c].s <= Len(sess)
      BY DEF Inv, Types
    <3> QED BY <1>0, <3>1, <3>2, <3>3
  <2>2. \A o \in Requests : o # p /\ asking[o].s = s =>
          Served(asking[o], Job(o), r, q) /\ Together(d, asking[o]) /\ Together(asking[o], d)
    BY Own DEF Records, Fine, Others, Together, Holding, Stopping
  <2>3. Flows(p, s, r, q, d)
    BY <2>2 DEF Flows, Records, Fine
  <2>4. troubles' \in [Troubles -> Nat]
    BY DEF Inv, Types
  <2> QED BY <2>1, <2>3, <2>4, FlowKept
<1>3. Makers'
  BY RecordsKept
<1>4. \A c \in Inputs : creating[c].s # 0 => creating'[c].s = creating[c].s
  BY <1>0, <1>1 DEF Records
<1>5. Homes'
  <2> SUFFICES ASSUME NEW t \in 1..Len(sess), NEW c \in Inputs, sess'[t].inputs[c].in
               PROVE  \/ creating'[c].s = t /\ \E o \in Requests : Creates(o) /\ Job(o).client = c
                      \/ \E o \in Requests : Job(o).op = "send" /\ Job(o).client = c /\ asking'[o].s = t
    BY <1>0 DEF Homes
  <2>1. sess[t].inputs[c].in
    BY <1>0 DEF Records
  <2>2. \/ creating[c].s = t /\ \E o \in Requests : Creates(o) /\ Job(o).client = c
        \/ \E o \in Requests : Job(o).op = "send" /\ Job(o).client = c /\ asking[o].s = t
    BY <2>1 DEF Inv, Homes
  <2> QED BY <1>0, <1>4, <2>2
<1>6. Limit'
  <2>1. \A c \in Inputs : (Counted(c))' => Counted(c)
    <3> SUFFICES ASSUME NEW c \in Inputs, (Counted(c))' PROVE Counted(c)
      OBVIOUS
    <3>1. creating[c].s # 0 => creating[c].s \in 1..Len(sess)
      BY Typed DEF Inv, Types, Creation
    <3>2. CASE creating[c].s = 0
      <4>1. c = x \/ creating'[c] = creating[c]
        BY <1>0
      <4> QED BY <1>1, <3>2, <4>1 DEF Counted
    <3>3. CASE creating[c].s # 0
      <4>1. creating'[c].s = creating[c].s /\ creating[c].known
        BY <1>4, <3>3 DEF Inv, Makers, Recorded, NoCreation
      <4>2. Closed(sess[creating[c].s]) => Closed(sess'[creating[c].s])
        BY <1>0, <3>1, <3>3 DEF Records
      <4> QED BY <3>3, <4>1, <4>2 DEF Counted, Available, Closed
    <3> QED BY <3>2, <3>3
  <2>2. {c \in Inputs : (Counted(c))'} \subseteq {c \in Inputs : Counted(c)}
    BY <2>1
  <2>3. IsFiniteSet({c \in Inputs : Counted(c)})
    BY BrokerAssumption, FS_Subset
  <2>4. /\ Cardinality({c \in Inputs : (Counted(c))'}) \in Nat /\ Cardinality({c \in Inputs : Counted(c)}) \in Nat
        /\ Cardinality({c \in Inputs : (Counted(c))'}) <= Cardinality({c \in Inputs : Counted(c)})
    BY <2>2, <2>3, FS_Subset, FS_CardinalityType
  <2> QED BY <2>4, BrokerAssumption DEF Inv, Limit
<1> QED BY <1>2, <1>3, <1>5, <1>6 DEF Inv

LEMMA StartedInv ==
  ASSUME Inv, NEW p \in Requests, Started(p), UNCHANGED <<story, troubles>>
  PROVE  Inv'
<1> DEFINE s == asking[p].s
           c == asking[p]
           r == sess[s]
           q == proc[s]
           x == Job(p).client
<1>0. asking[p].pc = "starting" /\ asking[p].pc \in Running
  BY DEF Started, AnsweredBy, Running
<1>1. /\ s \in 1..Len(sess) /\ s # 0 /\ r \in Session /\ q \in Process /\ Sound(r, q) /\ Fine(Others(p), s, r, q)
      /\ sess = [sess EXCEPT ![s] = r] /\ proc = [proc EXCEPT ![s] = q]
      /\ c \in Asking /\ Job(p) \in Jobs /\ Placed(c, Job(p)) /\ troubles \in [Troubles -> Nat] /\ x \in Inputs
      /\ r = sess[s] /\ s = asking[p].s /\ q = proc[s] /\ c = asking[p] /\ x = Job(p).client
  BY <1>0, Here, Typed
<1>2. /\ Job(p).op = "create" /\ Creates(p) /\ Makes(p) /\ Making(c)
      /\ c.then \in {"effort", "send"} /\ (c.then = "effort" => Job(p).effort)
  <2>1. c.then \in {"effort", "send"} /\ (c.then = "effort" => Job(p).effort) /\ Job(p).op = "create"
    BY <1>0, <1>1 DEF Placed
  <2> QED BY <1>0, <2>1 DEF Creates, Inv, Makers, Making
<1>3. CASE /\ creating' = [creating EXCEPT ![x].s = s] /\ UNCHANGED <<sess, proc>>
           /\ asking' = [asking EXCEPT ![p].pc = asking[p].then, ![p].then = IF Job(p).effort THEN "send" ELSE "made"]
  <2> DEFINE d == [c EXCEPT !.pc = c.then, !.then = IF Job(p).effort THEN "send" ELSE "made"]
             k == [creating[x] EXCEPT !.s = s]
  <2>1. /\ d \in Asking /\ d.pc = c.then /\ d.s = s /\ d.then = (IF Job(p).effort THEN "send" ELSE "made") /\ d.out = c.out
        /\ asking' = [asking EXCEPT ![p] = d]
    BY <1>1, <1>2, <1>3 DEF Asking, Pcs, Inv, Types
  <2>2. creating[x] \in Creation /\ Of(p) = creating[x]
    BY <1>1, Typed DEF Of
  <2>3. /\ k \in Creation /\ k.known = Of(p).known /\ k.s = s /\ k.done = Of(p).done /\ k.err = Of(p).err
        /\ creating' = [creating EXCEPT ![x] = k]
    <3>1. creating' = [creating EXCEPT ![x] = k]
      BY <1>1, <1>3 DEF Inv, Types
    <3>2. s \in Nat
      BY <1>1
    <3> QED BY <2>2, <3>1, <3>2 DEF Creation
  <2> HIDE DEF s, r, q, d, k, c
  <2>4. Of(p).known /\ ~Of(p).done /\ ~Of(p).err /\ Of(p).s = 0
    BY <1>0, <1>1, <1>2, <2>2 DEF Makes, Making, Inv, Makers, Recorded
  <2>5. Placed(d, Job(p))
    <3>0. c.then # "end"
      BY <1>2
    <3>1. d.pc \in {"effort", "send"} /\ d.pc \in Path("create") /\ d.then \in {"send", "made"}
      BY <1>2, <2>1 DEF Path, Setting
    <3>2. d.pc = "effort" => d.then = "send"
      BY <1>2, <2>1
    <3> QED BY <1>1, <1>2, <2>1, <3>1, <3>2 DEF Placed, Setting
  <2>6. Served(d, Job(p), r, q)
    BY <1>2, <2>1 DEF Served, Sends, Waits, Controlling, Stops, Ends, Waiting, Stopping, Holding
  <2>7. Records(p, s, r, q, d, k)
    <3>1. d.pc \notin {"start", "starting", "write"} \cup Holding /\ d.then # "end" /\ Making(d) /\ Making(asking[p])
      BY <1>1, <1>2, <2>1 DEF Holding, Stopping, Making
    <3> QED BY <1>1, <1>2, <2>1, <2>3, <2>4, <2>5, <2>6, <3>1 DEF Records
  <2>8. sess' = [sess EXCEPT ![s] = r] /\ proc' = [proc EXCEPT ![s] = q]
    BY <1>1, <1>3
  <2>9. s \in 1..Len(sess) /\ r \in Session /\ q \in Process /\ creating' = [creating EXCEPT ![Job(p).client] = k]
    BY <1>1, <2>3
  <2> QED BY <2>1, <2>3, <2>7, <2>8, <2>9, RecordsInv
<1>4. CASE Err(p) /\ proc' = [proc EXCEPT ![s].open = FALSE] /\ UNCHANGED <<sess, creating>>
  <2> DEFINE w == [q EXCEPT !.open = FALSE]
  <2>1. /\ proc' = [proc EXCEPT ![s] = w] /\ sess' = [sess EXCEPT ![s] = r]
    BY <1>1, <1>4, Typed
  <2>2. /\ w \in Process /\ w.in = q.in /\ w.out = q.out /\ w.turn = q.turn /\ w.took = q.took
        /\ w.hits = q.hits /\ w.effort = q.effort /\ ~w.open /\ q.in \in Seq(Lines) /\ q.out \in Seq(Events)
    BY <1>1 DEF Process
  <2> HIDE DEF s, r, q, c, x, w
  <2>3. Within(w.in, q.in) /\ Within(w.out, q.out)
    BY <2>2, SameWithin
  <2>4. Others(p) \subseteq Requests
    BY DEF Others
  <2>5. Fine(Others(p), s, r, w)
    BY <1>1, <2>2, <2>3, <2>4, FineLess
  <2>6. Gives(p, s, r, w)
    BY <1>0, <1>1, <2>2, <2>5 DEF Gives, Keeps
  <2>7. troubles' \in [Troubles -> Nat] /\ s \in 1..Len(sess)
    BY <1>1
  <2> QED BY <1>4, <2>1, <2>6, <2>7, Giving
<1> QED BY <1>3, <1>4 DEF Started

LEMMA MadeInv ==
  ASSUME Inv, NEW p \in Requests, Made(p), UNCHANGED <<story, troubles>>
  PROVE  Inv'
<1> DEFINE s == asking[p].s
           c == asking[p]
           r == sess[s]
           q == proc[s]
           x == Job(p).client
           bad == c.pc = "failed"
           k == [creating[x] EXCEPT !.err = bad, !.done = TRUE]
           d == [c EXCEPT !.pc = IF bad /\ creating[x].s # 0 THEN "closing" ELSE "created"]
           z == IF creating[x].s # 0 /\ r.id THEN [r EXCEPT !.listed = TRUE] ELSE r
<1>0. c.pc \in {"made", "failed"} /\ proc' = proc
  BY DEF Made
<1>1. /\ c \in Asking /\ Job(p) \in Jobs /\ Placed(c, Job(p)) /\ x \in Inputs /\ creating[x] \in Creation
      /\ s \in 1..Len(sess) /\ s # 0 /\ Of(p) = creating[x] /\ c = asking[p] /\ s = c.s /\ r = sess[s] /\ q = proc[s]
  BY <1>0, Typed DEF Placed, Of
<1>2. r \in Session /\ q \in Process /\ Sound(r, q) /\ Fine(Others(p), s, r, q) /\ proc' = [proc EXCEPT ![s] = q]
  BY <1>0, <1>1, Typed, OthersNow DEF Inv, Types
<1>3. Job(p).op = "create" /\ Creates(p) /\ Makes(p) /\ Making(c) /\ c.then # "end"
  <2>1. c.then # "end" /\ Job(p).op = "create"
    BY <1>0, <1>1 DEF Placed
  <2> QED BY <1>0, <2>1 DEF Creates, Inv, Makers, Making
<1>4. /\ k \in Creation /\ k.known = Of(p).known /\ k.s = Of(p).s /\ k.done /\ k.err = bad
      /\ creating' = [creating EXCEPT ![x] = k]
  <2>1. creating' = [creating EXCEPT ![x] = k]
    BY <1>1 DEF Made, Inv, Types
  <2> QED BY <1>1, <2>1 DEF Creation
<1>5. /\ d \in Asking /\ d.pc \in {"closing", "created"} /\ d.s = s /\ d.then = c.then
      /\ asking' = [asking EXCEPT ![p] = d]
  <2>1. (IF (IF creating[x].s = 0 THEN 0 ELSE s) # 0 THEN TRUE ELSE FALSE) <=> creating[x].s # 0
    BY <1>1
  <2>2. asking' = [asking EXCEPT ![p].pc = IF bad /\ creating[x].s # 0 THEN "closing" ELSE "created"]
    BY <1>1, <2>1 DEF Made
  <2> QED BY <1>1, <2>2 DEF Asking, Pcs, Inv, Types
<1>6. sess' = [sess EXCEPT ![s] = z]
  <2>1. sess' = IF creating[x].s # 0 /\ r.id THEN [sess EXCEPT ![s].listed = TRUE] ELSE sess
    BY <1>1 DEF Made
  <2>2. [sess EXCEPT ![s].listed = TRUE] = [sess EXCEPT ![s] = [r EXCEPT !.listed = TRUE]]
    BY <1>1, Typed
  <2>3. sess = [sess EXCEPT ![s] = r]
    BY <1>1, Typed DEF Inv, Types
  <2>4. CASE creating[x].s # 0 /\ r.id
    BY <2>1, <2>2, <2>4
  <2>5. CASE ~(creating[x].s # 0 /\ r.id)
    BY <2>1, <2>3, <2>5
  <2> QED BY <2>4, <2>5
<1>7. /\ z \in Session /\ z.inputs = r.inputs /\ z.active = r.active /\ z.answers = r.answers /\ z.ctrls = r.ctrls /\ z.count = r.count
      /\ z.exited = r.exited /\ z.fenced = r.fenced /\ z.effort = r.effort /\ z.controlling = r.controlling
      /\ z.listed => r.listed \/ creating[x].s # 0
  BY <1>2 DEF Session
<1> HIDE DEF s, c, r, q, x, k, d, z
<1>8. High(q, z.effort)
  BY <1>2, <1>7 DEF Sound, Controls
<1>9. Sound(z, q) /\ \A e \in Asking, j \in Jobs : Served(e, j, r, q) /\ (e.pc \in Holding => z.controlling) => Served(e, j, z, q)
  BY <1>2, <1>7, <1>8, Flags
<1>10. Fine(Others(p), s, z, q)
  BY <1>2, <1>7, <1>9, Typed DEF Fine, Others, Served, Controlling
<1>11. /\ Of(p).known /\ Of(p).s \in {0, s} /\ (Of(p).s = 0 => ~q.open) /\ (~bad => Of(p).s # 0)
  <2>1. Of(p).known /\ Of(p).s \in {0, s}
    BY <1>1, <1>3 DEF Makes
  <2>2. Of(p).s = 0 => ~q.open
    BY <1>0, <1>1, <1>3 DEF Makes
  <2>3. ~bad => Of(p).s # 0
    BY <1>0, <1>1, <1>3 DEF Makes
  <2> QED BY <2>1, <2>2, <2>3
<1>12. Placed(d, Job(p)) /\ Served(d, Job(p), z, q)
  <2>1. Served(d, Job(p), z, q)
    BY <1>5 DEF Served, Sends, Waits, Controlling, Stops, Ends, Waiting, Stopping, Holding
  <2>2. d.pc \in Path("create")
    BY <1>5, SMTT(40) DEF Path
  <2> QED BY <1>1, <1>3, <1>5, <2>1, <2>2 DEF Placed, Setting
<1>13. Records(p, s, z, q, d, k)
  <2>1. d.pc \notin {"start", "starting", "write"} \cup Holding /\ ~Making(d) /\ Making(asking[p]) /\ d.pc \notin Served0
    BY <1>1, <1>3, <1>5 DEF Holding, Stopping, Making, Served0, Setting
  <2>2. Closed(sess[s]) => Closed(z)
    BY <1>1, <1>7 DEF Closed
  <2>3. z.listed => sess[s].listed \/ k.s = s
    BY <1>1, <1>4, <1>7, <1>11
  <2> QED BY <1>1, <1>3, <1>4, <1>5, <1>7, <1>10, <1>11, <1>12, <2>1, <2>2, <2>3 DEF Records
<1>14. s \in 1..Len(sess) /\ q \in Process /\ z \in Session /\ d \in Asking /\ k \in Creation /\ proc' = [proc EXCEPT ![s] = q]
  BY <1>1, <1>2, <1>4, <1>5, <1>7
<1>15. asking' = [asking EXCEPT ![p] = d] /\ creating' = [creating EXCEPT ![Job(p).client] = k]
  BY <1>4, <1>5 DEF x
<1> QED BY <1>6, <1>13, <1>14, <1>15, RecordsInv

(* A request goes on, with nothing to do for anyone.                        *)
LEMMA Quiet ==
  ASSUME Inv, NEW p \in Requests, NEW s \in 1..Len(sess), NEW d \in Asking, asking' = [asking EXCEPT ![p] = d],
         NEW q \in Process, q.in = proc[s].in, q.out = proc[s].out, q.turn = proc[s].turn, q.took = proc[s].took,
         q.hits = proc[s].hits, q.effort = proc[s].effort, q.open => proc[s].open,
         proc' = [proc EXCEPT ![s] = q], UNCHANGED <<story, creating, sess>>, troubles' \in [Troubles -> Nat],
         d.s = s, asking[p].s \in {0, s}, Placed(d, Job(p)),
         d.pc \in {"send", "stop", "model", "effort", "rename", "close", "created"},
         \A o \in Requests : o # p /\ asking[o].s = s => asking[o].pc # "starting",
         Creates(p) => Continues(p, d, q)
  PROVE  Inv'
<1> DEFINE r == sess[s]
<1>0. r \in Session /\ proc[s] \in Process /\ Sound(r, proc[s]) /\ Fine(Requests, s, r, proc[s])
  BY Typed, FineNow
<1>1. sess' = [sess EXCEPT ![s] = r]
  BY DEF Inv, Types
<1>2. Within(q.in, proc[s].in) /\ Within(q.out, proc[s].out)
  <2>1. proc[s].in \in Seq(Lines) /\ proc[s].out \in Seq(Events)
    BY <1>0 DEF Process
  <2> QED BY <2>1, SameWithin
<1>3. Fine(Requests, s, r, q)
  BY <1>0, <1>2, FineLess
<1>4. Served(d, Job(p), r, q)
  BY DEF Served, Sends, Waits, Controlling, Stops, Ends, Waiting, Stopping, Holding
<1>5. \A o \in Requests : o # p /\ asking[o].s = s => Together(d, asking[o]) /\ Together(asking[o], d)
  BY DEF Together, Holding, Stopping
<1>6. Evolves(p, s, r, q, d)
  BY <1>3, <1>4, <1>5 DEF Evolves, Fine, Keeps
<1>7. story' = story /\ creating' = creating
  OBVIOUS
<1> QED BY <1>0, <1>1, <1>6, <1>7, Local

LEMMA OnlyStarting ==
  ASSUME Inv, NEW o \in Requests, asking[o].pc = "starting"
  PROVE  /\ asking[o].s # 0 /\ ~sess[asking[o].s].listed /\ \A c \in Inputs : creating[c].s # asking[o].s
         /\ \A p \in Requests : p # o => asking[p].s # asking[o].s
<1>1. Placed(asking[o], Job(o)) /\ asking[o].s # 0
  BY Typed DEF Placed
<1>2. Creates(o)
  BY <1>1 DEF Placed, Creates
<1>3. Makes(o)
  BY <1>2 DEF Inv, Makers
<1> QED BY <1>1, <1>3 DEF Makes, Inv, Flow, Apart, Together

LEMMA NextStepInv ==
  ASSUME Inv, NEW p \in Requests, NextStep(p), UNCHANGED <<story, troubles>>
  PROVE  Inv'
<1> DEFINE s == asking[p].s
           d == [asking[p] EXCEPT !.then = "made"]
<1>0. asking[p].pc = "send" /\ asking[p].then = "send"
  BY DEF NextStep
<1>1. asking[p] \in Asking /\ Placed(asking[p], Job(p)) /\ s # 0 /\ s \in 1..Len(sess) /\ proc[s] \in Process
  BY <1>0, Typed DEF Placed
<1>2. d \in Asking /\ d.pc = "send" /\ d.s = s /\ d.then = "made" /\ asking' = [asking EXCEPT ![p] = d]
  BY <1>0, <1>1 DEF Asking, NextStep, Inv, Types
<1>3. Job(p).op = "create" /\ Creates(p) /\ Makes(p)
  BY <1>0, <1>1 DEF Placed, Creates, Inv, Makers
<1> HIDE DEF d
<1>4. Placed(d, Job(p))
  BY <1>0, <1>1, <1>2, <1>3 DEF Placed, Setting
<1>5. Continues(p, d, proc[s])
  BY <1>0, <1>2, <1>3 DEF Continues, Making, Makes, Served0
<1>6. \A o \in Requests : o # p /\ asking[o].s = s => asking[o].pc # "starting"
  BY OnlyStarting
<1>7. UNCHANGED <<story, creating, sess>> /\ proc' = [proc EXCEPT ![s] = proc[s]] /\ troubles' \in [Troubles -> Nat]
  BY DEF NextStep, Inv, Types
<1> QED BY <1>1, <1>2, <1>4, <1>5, <1>6, <1>7, Quiet

LEMMA CloseIdleInv ==
  ASSUME Inv, NEW p \in Requests, CloseIdle(p), UNCHANGED <<story, troubles>>
  PROVE  Inv'
<1> DEFINE s == asking[p].s
<1>0. asking[p].pc = "closing"
  BY DEF CloseIdle
<1>1. asking[p] \in Asking /\ Placed(asking[p], Job(p)) /\ s # 0 /\ s \in 1..Len(sess) /\ proc[s] \in Process
  BY <1>0, Typed DEF Placed
<1>2. PICK d \in Asking : /\ asking' = [asking EXCEPT ![p] = d] /\ d.pc \in {"close", "created"} /\ d.s = s /\ d.then = asking[p].then
  <2>1. PICK y \in {"close", "created"} : Go(p, y)
    BY DEF CloseIdle
  <2>2. y \in Pcs
    BY DEF Pcs
  <2> QED BY <2>1, <2>2, GoFields
<1>3. Job(p).op = "create" /\ Creates(p) /\ Makes(p)
  <2>1. Job(p).op \in BrokerOps /\ "closing" \in Path(Job(p).op)
    BY <1>0, <1>1, Typed DEF Placed, Jobs
  <2>2. Job(p).op = "create"
    BY <2>1 DEF Path, BrokerOps, Stopping, Setting
  <2> QED BY <2>2 DEF Creates, Inv, Makers
<1>4. Placed(d, Job(p))
  <2>1. d.pc \in Path("create")
    BY <1>2 DEF Path
  <2> QED BY <1>1, <1>2, <1>3, <2>1 DEF Placed, Setting
<1>5. Continues(p, d, proc[s])
  BY <1>0, <1>2, <1>3 DEF Continues, Making, Makes, Served0, Setting
<1>6. \A o \in Requests : o # p /\ asking[o].s = s => asking[o].pc # "starting"
  BY OnlyStarting
<1>7. UNCHANGED <<story, creating, sess>> /\ proc' = [proc EXCEPT ![s] = proc[s]] /\ troubles' \in [Troubles -> Nat]
  BY DEF CloseIdle, Inv, Types
<1>8. d.pc \in {"send", "stop", "model", "effort", "rename", "close", "created"} /\ s \in 1..Len(sess) /\ asking[p].s \in {0, s}
  BY <1>1, <1>2
<1>9. proc[s] \in Process
  BY <1>1
<1> QED BY <1>2, <1>4, <1>5, <1>6, <1>7, <1>8, <1>9, Quiet

LEMMA CloseInputInv ==
  ASSUME Inv, NEW p \in Requests, CloseInput(p), UNCHANGED <<story, troubles>>
  PROVE  Inv'
<1> DEFINE s == asking[p].s
           q == [proc[s] EXCEPT !.open = FALSE]
<1>0. asking[p].pc = "close"
  BY DEF CloseInput
<1>1. asking[p] \in Asking /\ Placed(asking[p], Job(p)) /\ s # 0 /\ s \in 1..Len(sess) /\ proc[s] \in Process
  BY <1>0, Typed DEF Placed
<1>2. PICK d \in Asking : /\ asking' = [asking EXCEPT ![p] = d] /\ d.pc = "created" /\ d.s = s /\ d.then = asking[p].then
  <2>1. Go(p, "created")
    BY DEF CloseInput
  <2>2. "created" \in Pcs
    BY DEF Pcs
  <2> QED BY <2>1, <2>2, GoFields
<1>3. Job(p).op = "create" /\ Creates(p) /\ Makes(p)
  <2>1. Job(p).op \in BrokerOps /\ "close" \in Path(Job(p).op)
    BY <1>0, <1>1, Typed DEF Placed, Jobs
  <2>2. Job(p).op = "create"
    BY <2>1 DEF Path, BrokerOps, Stopping, Setting
  <2> QED BY <2>2 DEF Creates, Inv, Makers
<1>4. Placed(d, Job(p))
  <2>1. d.pc \in Path("create")
    BY <1>2 DEF Path
  <2> QED BY <1>1, <1>2, <1>3, <2>1 DEF Placed, Setting
<1>5. Continues(p, d, q)
  BY <1>0, <1>2, <1>3 DEF Continues, Making, Makes, Served0, Setting
<1>6. \A o \in Requests : o # p /\ asking[o].s = s => asking[o].pc # "starting"
  BY OnlyStarting
<1>7. /\ q \in Process /\ q.in = proc[s].in /\ q.out = proc[s].out /\ q.turn = proc[s].turn /\ q.took = proc[s].took
      /\ q.hits = proc[s].hits /\ q.effort = proc[s].effort /\ ~q.open
  BY <1>1 DEF Process
<1>8. UNCHANGED <<story, creating, sess>> /\ troubles' \in [Troubles -> Nat]
  BY DEF CloseInput, Inv, Types
<1>9. proc' = [proc EXCEPT ![s] = q]
  BY <1>1, Typed DEF CloseInput
<1> HIDE DEF q
<1> QED BY <1>1, <1>2, <1>4, <1>5, <1>6, <1>7, <1>8, <1>9, Quiet

LEMMA CreatedInv ==
  ASSUME Inv, NEW p \in Requests, Created(p), UNCHANGED <<story, troubles>>
  PROVE  Inv'
<1> DEFINE x == Job(p).client
           s == creating[x].s
           c == asking[p]
<1>0. c.pc = "created" /\ creating[x].done
  BY DEF Created
<1>1. c \in Asking /\ Job(p) \in Jobs /\ Placed(c, Job(p)) /\ x \in Inputs /\ creating[x] \in Creation /\ Of(p) = creating[x]
  BY Typed DEF Of
<1>2. Job(p).op = "create" /\ Creates(p) /\ Makes(p)
  <2>1. Job(p).op \in BrokerOps /\ "created" \in Path(Job(p).op)
    BY <1>0, <1>1 DEF Placed, Jobs
  <2>2. Job(p).op = "create"
    BY <2>1 DEF Path, BrokerOps, Stopping, Setting
  <2> QED BY <2>2 DEF Creates, Inv, Makers
<1>3. UNCHANGED <<story, creating, sess, proc>> /\ troubles' \in [Troubles -> Nat]
  BY DEF Created, Inv, Types
<1>4. CASE creating[x].err
  <2> DEFINE d == [c EXCEPT !.pc = "end", !.out = "error"]
  <2>1. /\ d \in Asking /\ d.pc = "end" /\ d.out = "error" /\ d.s = c.s /\ d.then = c.then
        /\ asking' = [asking EXCEPT ![p] = d]
    BY <1>1, <1>4 DEF Created, Asking, Pcs, Inv, Types
  <2> HIDE DEF d
  <2>2. "end" \in Path("create")
    BY DEF Path
  <2>3. Placed(d, Job(p))
    BY <1>1, <1>2, <2>1, <2>2 DEF Placed, Setting
  <2>4. Aside(p, d)
    BY <1>0, <2>1, <2>3 DEF Aside
  <2> QED BY <1>3, <2>1, <2>4, AsideInv
<1>5. CASE ~creating[x].err
  <2> DEFINE d == [c EXCEPT !.pc = "send", !.s = s, !.then = "end"]
  <2>1. s # 0 /\ s \in 1..Len(sess) /\ s \in Nat
    <3>1. s # 0
      BY <1>0, <1>1, <1>5 DEF Inv, Makers, Recorded
    <3>2. s <= Len(sess) /\ s \in Nat
      BY <1>1 DEF Inv, Types, Creation
    <3> QED BY <3>1, <3>2, Typed
  <2>2. /\ d \in Asking /\ d.pc = "send" /\ d.s = s /\ d.then = "end"
        /\ asking' = [asking EXCEPT ![p] = d]
    BY <1>1, <1>5, <2>1 DEF Created, Asking, Pcs, Inv, Types
  <2> HIDE DEF d, s
  <2>3. "send" \in Path("create")
    BY DEF Path
  <2>4. Placed(d, Job(p))
    BY <1>2, <2>1, <2>2, <2>3 DEF Placed, Setting
  <2>5. c.s \in {0, s} /\ Of(p).s = s
    BY <1>1, <1>2, <2>1 DEF Makes, s
  <2>6. Continues(p, d, proc[s])
    BY <1>0, <2>2, <2>5 DEF Continues, Making
  <2>7. \A o \in Requests : o # p /\ asking[o].s = s => asking[o].pc # "starting"
    BY <1>1, OnlyStarting DEF s
  <2>8. proc' = [proc EXCEPT ![s] = proc[s]] /\ proc[s] \in Process
    BY <1>3, <2>1, Typed DEF Inv, Types
  <2>9. d.pc \in {"send", "stop", "model", "effort", "rename", "close", "created"} /\ asking[p].s \in {0, s}
    BY <2>2, <2>5
  <2>10. UNCHANGED <<story, creating, sess>>
    BY <1>3
  <2>11. s \in 1..Len(sess) /\ troubles' \in [Troubles -> Nat]
    BY <1>3, <2>1
  <2> QED BY <2>2, <2>4, <2>6, <2>7, <2>8, <2>9, <2>10, <2>11, Quiet, ZenonT(40)
<1> QED BY <1>4, <1>5

LEMMA CallInv ==
  ASSUME Inv, NEW p \in Requests, Call(p), UNCHANGED <<story, troubles>>
  PROVE  Inv'
<1> DEFINE c == asking[p]
<1>0. /\ c.pc = "idle" /\ Job(p).op \in {"send", "stop", "model", "effort", "rename"}
      /\ UNCHANGED <<story, creating, sess, proc>> /\ troubles' \in [Troubles -> Nat]
  BY DEF Call, Inv, Types
<1>1. PICK s \in 1..Len(sess) : sess[s].listed /\ asking' = [asking EXCEPT ![p].pc = Job(p).op, ![p].s = s, ![p].turn = sess[s].active]
  BY Typed, ZenonT(40) DEF Call
<1>2. c \in Asking /\ Placed(c, Job(p)) /\ c = [IdleRequest EXCEPT !.pc = "idle"] /\ sess[s] \in Session /\ s \in Nat /\ s # 0
  BY <1>0, <1>1, Typed DEF Placed
<1>3. c.s = 0 /\ c.then = "end" /\ sess[s].active \in Turns
  BY <1>2 DEF IdleRequest, Session
<1> DEFINE d == [c EXCEPT !.pc = Job(p).op, !.s = s, !.turn = sess[s].active]
<1>4. d \in Asking /\ d.pc = Job(p).op /\ d.s = s /\ d.then = "end" /\ asking' = [asking EXCEPT ![p] = d]
  BY <1>0, <1>1, <1>2, <1>3 DEF Asking, Pcs, Inv, Types
<1> HIDE DEF d, c
<1>5. Placed(d, Job(p)) /\ ~Creates(p)
  <2>1. d.pc \in Path(Job(p).op)
    BY <1>0, <1>4 DEF Path, Setting
  <2> QED BY <1>0, <1>2, <1>4, <2>1 DEF Placed, Creates, Setting
<1>6. \A o \in Requests : o # p /\ asking[o].s = s => asking[o].pc # "starting"
  BY <1>1, OnlyStarting
<1>7. proc' = [proc EXCEPT ![s] = proc[s]] /\ proc[s] \in Process
  BY <1>0, Typed DEF Inv, Types
<1>8. d.pc \in {"send", "stop", "model", "effort", "rename", "close", "created"} /\ asking[p].s \in {0, s}
  BY <1>0, <1>3, <1>4 DEF c
<1>9. UNCHANGED <<story, creating, sess>>
  BY <1>0
<1>10. s \in 1..Len(sess) /\ troubles' \in [Troubles -> Nat] /\ (Creates(p) => Continues(p, d, proc[s]))
  BY <1>0, <1>5
<1>11. Placed(d, Job(p))
  BY <1>5
<1> QED BY <1>4, <1>6, <1>7, <1>8, <1>9, <1>10, <1>11, Quiet, ZenonT(40)

(* The request's context ends.                                              *)
LEMMA CancelledInv ==
  ASSUME Inv, NEW p \in Requests, Cancelled(p)
  PROVE  Inv'
<1> DEFINE s == asking[p].s
           c == asking[p]
           r == sess[s]
           q == proc[s]
           z == [r EXCEPT !.controlling = FALSE]
           y == [r EXCEPT !.controlling = FALSE, !.fenced = TRUE]
           w == [q EXCEPT !.open = FALSE]
<1>0. /\ c.pc \in {"receipt", "terminal", "created", "interrupting", "applying", "reading", "choosing", "naming", "starting"}
      /\ Err(p) /\ story' = story /\ creating' = creating
      /\ c.pc = "created" => ~creating[Job(p).client].done
  BY DEF Cancelled
<1>1. troubles' \in [Troubles -> Nat]
  <2>1. troubles \in [Troubles -> Nat] /\ "context" \in Troubles
    BY DEF Inv, Types, Troubles
  <2>2. troubles["context"] \in Nat /\ troubles["context"] > 0 /\ troubles' = [troubles EXCEPT !["context"] = @ - 1]
    BY <2>1 DEF Cancelled, Strikes
  <2> QED BY <2>1, <2>2
<1>2. c \in Asking /\ Job(p) \in Jobs /\ Placed(c, Job(p))
  BY Typed
<1>3. CASE c.pc = "created"
  <2> DEFINE d == [c EXCEPT !.pc = IF c.then = "end" THEN "end" ELSE "failed", !.out = "error"]
  <2>1. Job(p).op = "create" /\ Creates(p) /\ Makes(p)
    <3>1. Job(p).op \in BrokerOps /\ "created" \in Path(Job(p).op)
      BY <1>2, <1>3 DEF Placed, Jobs
    <3>2. Job(p).op = "create"
      BY <3>1 DEF Path, BrokerOps, Stopping, Setting
    <3> QED BY <3>2 DEF Creates, Inv, Makers
  <2>2. c.then = "end"
    BY <1>0, <1>3, <2>1 DEF Makes, Making, Of
  <2>3. /\ d \in Asking /\ d.pc = "end" /\ d.out = "error" /\ d.s = c.s /\ d.then = c.then
        /\ asking' = [asking EXCEPT ![p] = d]
    BY <1>0, <1>2, <2>2 DEF Err, Asking, Pcs, Inv, Types
  <2>4. sess' = sess /\ proc' = proc
    BY <1>3 DEF Cancelled
  <2> HIDE DEF d
  <2>5. "end" \in Path("create")
    BY DEF Path
  <2>6. Placed(d, Job(p))
    BY <1>2, <2>1, <2>2, <2>3, <2>5 DEF Placed, Setting
  <2>7. Aside(p, d)
    BY <1>3, <2>3, <2>6 DEF Aside
  <2>8. UNCHANGED <<story, creating, sess, proc>>
    BY <1>0, <2>4
  <2> QED BY <1>1, <2>3, <2>7, <2>8, AsideInv
<1>4. CASE c.pc = "receipt"
  <2>1. sess' = sess /\ proc' = proc
    BY <1>4 DEF Cancelled
  <2>2. c.pc \in Running \ {"starting"}
    BY <1>4 DEF Running
  <2>3. UNCHANGED <<story, creating, sess, proc>>
    BY <1>0, <2>1
  <2> QED BY <1>0, <1>1, <2>2, <2>3, GivesUp
<1>5. CASE c.pc \in {"terminal", "interrupting", "applying", "reading", "choosing", "naming"}
  <2>1. proc' = proc /\ sess' = IF c.pc = "terminal" THEN [sess EXCEPT ![s].controlling = FALSE]
                                ELSE [sess EXCEPT ![s].controlling = FALSE, ![s].fenced = TRUE]
    BY <1>5 DEF Cancelled
  <2>2. c.pc \in Holding /\ c.pc \in Running
    BY <1>5 DEF Holding, Stopping, Running, Setting
  <2>3. s \in 1..Len(sess) /\ r \in Session
    BY <2>2, Here
  <2>4. /\ z \in Session /\ z.inputs = r.inputs /\ z.active = r.active /\ z.answers = r.answers /\ z.ctrls = r.ctrls
        /\ z.count = r.count /\ z.exited = r.exited /\ z.fenced = r.fenced /\ z.effort = r.effort /\ z.listed = r.listed
    BY <2>3 DEF Session
  <2>5. /\ y \in Session /\ y.inputs = r.inputs /\ y.active = r.active /\ y.answers = r.answers /\ y.ctrls = r.ctrls
        /\ y.count = r.count /\ y.exited = r.exited /\ y.fenced /\ y.effort = r.effort /\ y.listed = r.listed
    BY <2>3 DEF Session
  <2>6. UNCHANGED <<story, creating, proc>>
    BY <1>0, <2>1
  <2>7. CASE c.pc = "terminal"
    <3>1. sess' = [sess EXCEPT ![s] = z]
      BY <2>1, <2>3, <2>7, Typed
    <3> HIDE DEF z
    <3>2. z.fenced \/ (asking[p].pc = "interrupting" => AnswerTo(p) # {})
      BY <2>7
    <3>3. sess[s].fenced => z.fenced
      BY <2>4
    <3> QED BY <1>0, <1>1, <2>2, <2>4, <2>6, <3>1, <3>2, <3>3, GivesBack
  <2>8. CASE c.pc # "terminal"
    <3>1. sess' = [sess EXCEPT ![s] = y]
      BY <2>1, <2>3, <2>8, Typed
    <3> HIDE DEF y
    <3> QED BY <1>0, <1>1, <2>2, <2>5, <2>6, <3>1, GivesBack
  <2> QED BY <2>7, <2>8
<1>6. CASE c.pc = "starting"
  <2>1. sess' = [sess EXCEPT ![s].controlling = FALSE, ![s].fenced = TRUE] /\ proc' = [proc EXCEPT ![s].open = FALSE]
    BY <1>6 DEF Cancelled
  <2>2. c.pc \in Running
    BY <1>6 DEF Running
  <2>3. s \in 1..Len(sess) /\ r \in Session /\ q \in Process /\ Sound(r, q) /\ s = c.s
    BY <2>2, Here
  <2>4. sess' = [sess EXCEPT ![s] = y] /\ proc' = [proc EXCEPT ![s] = w]
    BY <2>1, <2>3, Typed
  <2>5. /\ y \in Session /\ y.inputs = r.inputs /\ y.active = r.active /\ y.answers = r.answers /\ y.ctrls = r.ctrls
        /\ y.count = r.count /\ y.exited = r.exited /\ y.fenced /\ y.effort = r.effort /\ y.listed = r.listed
    BY <2>3 DEF Session
  <2>6. /\ w \in Process /\ w.in = q.in /\ w.out = q.out /\ w.turn = q.turn /\ w.took = q.took
        /\ w.hits = q.hits /\ w.effort = q.effort /\ ~w.open /\ q.in \in Seq(Lines) /\ q.out \in Seq(Events)
    BY <2>3 DEF Process
  <2> HIDE DEF y, w, r, q
  <2>7. Within(w.in, q.in) /\ Within(w.out, q.out)
    BY <2>6, SameWithin
  <2>8. High(q, y.effort) /\ Closed(y)
    BY <2>3, <2>5 DEF Sound, Controls, Closed
  <2>9. Sound(y, q)
    BY <2>3, <2>5, <2>8, Flags
  <2>10. Sound(y, w)
    BY <2>3, <2>5, <2>6, <2>7, <2>9, Less
  <2>11. \A o \in Others(p) : asking[o].s # s
    BY <1>6, <2>3, OnlyStarting DEF Others
  <2>12. Fine(Others(p), s, y, w)
    BY <2>5, <2>6, <2>10, <2>11, SMTT(40) DEF Fine
  <2>13. Gives(p, s, y, w)
    BY <2>2, <2>3, <2>5, <2>6, <2>8, <2>12 DEF Gives, Keeps, r, q
  <2> QED BY <1>0, <1>1, <2>3, <2>4, <2>13, Giving
<1> QED BY <1>0, <1>3, <1>4, <1>5, <1>6

(* A new creation, and a new process.                                       *)
LEMMA CreateInv ==
  ASSUME Inv, NEW p \in Requests, Create(p), UNCHANGED <<story, troubles>>
  PROVE  Inv'
<1> DEFINE x == Job(p).client
           c == asking[p]
           k == [NoCreation EXCEPT !.known = TRUE]
<1>0. c.pc = "idle" /\ Job(p).op = "create" /\ Creates(p) /\ UNCHANGED <<story, sess, proc, troubles>>
  BY DEF Create, Creates
<1>1. c \in Asking /\ Job(p) \in Jobs /\ Placed(c, Job(p)) /\ x \in Inputs /\ Makes(p) /\ Of(p) = creating[x]
  BY <1>0, Typed DEF Inv, Makers, Of
<1>2. c.s = 0 /\ c.then = "end" /\ c.out = "none" /\ c = IdleRequest
  <2>1. c = [IdleRequest EXCEPT !.pc = "idle"]
    BY <1>0, <1>1 DEF Placed
  <2> QED BY <2>1 DEF IdleRequest
<1>3. troubles' \in [Troubles -> Nat]
  BY DEF Inv, Types
<1>4. CASE asking' = [asking EXCEPT ![p].pc = "created"] /\ creating' = creating
  <2> DEFINE d == [c EXCEPT !.pc = "created"]
  <2>1. d \in Asking /\ d.pc = "created" /\ d.s = c.s /\ d.then = c.then /\ asking' = [asking EXCEPT ![p] = d]
    BY <1>1, <1>4 DEF Asking, Pcs, Inv, Types
  <2> HIDE DEF d
  <2>2. "created" \in Path("create")
    BY DEF Path
  <2>3. Placed(d, Job(p))
    BY <1>0, <1>2, <2>1, <2>2 DEF Placed, Setting
  <2>4. Aside(p, d)
    BY <1>0, <2>1, <2>3 DEF Aside
  <2>5. UNCHANGED <<story, creating, sess, proc>>
    BY <1>0, <1>4
  <2> QED BY <1>3, <2>1, <2>4, <2>5, AsideInv
<1>5. CASE Err(p) /\ creating' = creating
  <2> DEFINE d == [c EXCEPT !.pc = "end", !.out = "error"]
  <2>1. /\ d \in Asking /\ d.pc = "end" /\ d.out = "error" /\ d.s = c.s /\ d.then = c.then
        /\ asking' = [asking EXCEPT ![p] = d]
    BY <1>1, <1>2, <1>5 DEF Err, Asking, Pcs, Inv, Types
  <2> HIDE DEF d
  <2>2. "end" \in Path("create")
    BY DEF Path
  <2>3. Placed(d, Job(p))
    BY <1>0, <1>2, <2>1, <2>2 DEF Placed, Setting
  <2>4. Aside(p, d)
    BY <1>0, <2>1, <2>3 DEF Aside
  <2>5. UNCHANGED <<story, creating, sess, proc>>
    BY <1>0, <1>5
  <2> QED BY <1>3, <2>1, <2>4, <2>5, AsideInv
<1>6. CASE /\ ~creating[x].known /\ ~(Cardinality({e \in Inputs : Counted(e)}) >= MaxLive)
           /\ creating' = [creating EXCEPT ![x] = k] /\ Go(p, "start")
  <2> DEFINE d == [c EXCEPT !.pc = "start"]
  <2>1. /\ d \in Asking /\ d.pc = "start" /\ d.s = 0 /\ d.then = "end" /\ d = [IdleRequest EXCEPT !.pc = "start"]
        /\ asking' = [asking EXCEPT ![p] = d]
    BY <1>1, <1>2, <1>6 DEF Asking, Pcs, Go, Inv, Types
  <2>2. k \in Creation /\ k.known /\ k.s = 0 /\ ~k.done /\ ~k.err
    BY DEF NoCreation, Creation
  <2>3. creating[x] = NoCreation /\ creating[x].s = 0 /\ ~creating[x].known /\ Of(p) = creating[x]
    BY <1>1, <1>6 DEF Inv, Makers, Recorded, NoCreation
  <2> HIDE DEF d, k
  <2>4. /\ \A o \in Requests : (Creates(o))' <=> Creates(o)
        /\ \A o \in Requests : Job(o)' = Job(o) /\ Of(o)' = IF Job(o).client = x THEN k ELSE Of(o)
        /\ \A o \in Requests : asking'[o] = IF o = p THEN d ELSE asking[o]
        /\ \A o \in Requests : asking'[o].s = asking[o].s
        /\ \A e \in Inputs : creating'[e] = IF e = x THEN k ELSE creating[e]
        /\ \A e \in Inputs : creating'[e].s = creating[e].s
        /\ sess' = sess /\ proc' = proc
    BY <1>0, <1>1, <1>2, <1>6, <2>1, <2>2, <2>3, Typed DEF Inv, Types, Creates, Of, Job
  <2>5. Types'
    <3>1. asking' \in [Requests -> Asking] /\ creating' \in [Inputs -> Creation]
      BY <1>6, <2>1, <2>2 DEF Inv, Types
    <3> QED BY <1>0, <2>4, <3>1 DEF Inv, Types
  <2>6. \A o \in Requests : Placed(asking'[o], Job(o)')
    <3>1. "start" \in Path("create")
      BY DEF Path
    <3>2. Placed(d, Job(p))
      BY <1>0, <2>1, <3>1 DEF Placed, Setting
    <3> QED BY <2>4, <3>2, Typed
  <2>7. Flow'
    <3>1. \A t \in 1..Len(sess') : Sound(sess'[t], proc'[t])
      BY <2>4 DEF Inv, Flow
    <3>2. \A o \in Requests : asking'[o].s # 0 => Served(asking'[o], Job(o)', sess'[asking'[o].s], proc'[asking'[o].s])
      BY <2>1, <2>4 DEF Inv, Flow
    <3>3. Apart'
      BY <2>1, <2>4 DEF Inv, Flow, Apart
    <3> QED BY <3>1, <3>2, <3>3 DEF Flow
  <2>8. ASSUME NEW o \in Requests, Creates(o), o # p, Job(o).client = x
        PROVE  /\ ~Making(asking[o]) /\ asking[o].then = "end" /\ asking[o].s = 0
               /\ asking[o].pc \notin {"start", "starting"} \cup Setting \cup {"send", "write", "receipt", "made"}
    <3>1. Makes(o) /\ Placed(asking[o], Job(o)) /\ Of(o) = creating[x]
      BY <2>8, Typed DEF Inv, Makers, Of
    <3>2. ~Making(asking[o]) /\ asking[o].s = 0
      BY <2>3, <3>1 DEF Makes
    <3> QED BY <3>1, <3>2 DEF Placed, Making, Setting
  <2>9. Recorded'
    BY <2>2, <2>4 DEF Inv, Makers, Recorded
  <2>10. ASSUME NEW o \in Requests, (Creates(o))' PROVE Makes(o)'
    <3>0. Creates(o) /\ Makes(o)
      BY <2>4, <2>10 DEF Inv, Makers
    <3>1. CASE o = p
      <4>1. asking'[o] = d /\ Of(o)' = k
        BY <2>4, <3>1
      <4> QED BY <2>1, <2>2, <4>1 DEF Makes, Setting
    <3>2. CASE o # p /\ Job(o).client = x
      <4>1. asking'[o] = asking[o] /\ Of(o)' = k
        BY <2>4, <3>2
      <4> QED BY <2>8, <3>0, <3>2, <4>1 DEF Makes, Making
    <3>3. CASE o # p /\ Job(o).client # x
      <4>1. asking'[o] = asking[o] /\ Of(o)' = Of(o)
        BY <2>4, <3>3
      <4> QED BY <2>4, <3>0, <4>1 DEF Makes, Making
    <3> QED BY <3>1, <3>2, <3>3
  <2>11. ASSUME NEW o \in Requests, NEW t \in Requests, o # t, (Creates(o))', (Creates(t))' PROVE Rivals(o, t)'
    <3>1. Rivals(o, t) /\ Creates(o) /\ Creates(t)
      BY <2>4, <2>11 DEF Inv, Makers
    <3>2. SUFFICES ASSUME Job(o).client = Job(t).client
                   PROVE  /\ ~(Making(asking'[o]) /\ Making(asking'[t]))
                          /\ asking'[o].s # 0 => asking'[t].pc # "start" /\ asking'[t].s \in {0, asking'[o].s}
      BY <2>4 DEF Rivals, Making
    <3>3. CASE o = p
      BY <2>1, <2>4, <2>8, <2>11, <3>1, <3>2, <3>3
    <3>4. CASE t = p
      BY <2>1, <2>4, <2>8, <2>11, <3>1, <3>2, <3>4
    <3>5. CASE o # p /\ t # p
      BY <2>4, <3>1, <3>2, <3>5 DEF Rivals
    <3> QED BY <3>3, <3>4, <3>5
  <2>12. Makers'
    <3>1. /\ \A t \in 1..Len(sess) : \E o \in Requests : Creates(o) /\ asking'[o].s = t
          /\ \A t \in 1..Len(sess) : sess[t].listed => \E e \in Inputs : creating'[e].s = t
      BY <2>4 DEF Inv, Makers
    <3> QED BY <2>4, <2>9, <2>10, <2>11, <3>1 DEF Makers
  <2>13. Homes'
    <3> SUFFICES ASSUME NEW t \in 1..Len(sess), NEW e \in Inputs, sess[t].inputs[e].in
                 PROVE  \/ creating'[e].s = t /\ \E o \in Requests : Creates(o) /\ Job(o).client = e
                        \/ \E o \in Requests : Job(o).op = "send" /\ Job(o).client = e /\ asking'[o].s = t
      BY <2>4 DEF Homes
    <3>1. \/ creating[e].s = t /\ \E o \in Requests : Creates(o) /\ Job(o).client = e
          \/ \E o \in Requests : Job(o).op = "send" /\ Job(o).client = e /\ asking[o].s = t
      BY DEF Inv, Homes
    <3> QED BY <2>4, <3>1
  <2>14. Limit'
    <3> DEFINE A == {e \in Inputs : Counted(e)}
               B == {e \in Inputs : (Counted(e))'}
    <3>1. B \subseteq A \cup {x}
      <4> SUFFICES ASSUME NEW e \in Inputs, e # x, (Counted(e))' PROVE Counted(e)
        OBVIOUS
      <4>1. creating'[e] = creating[e] /\ sess' = sess
        BY <2>4
      <4> QED BY <4>1 DEF Counted, Available
    <3>2. IsFiniteSet(A) /\ IsFiniteSet(A \cup {x}) /\ Cardinality(A) \in Nat /\ Cardinality(A \cup {x}) <= Cardinality(A) + 1
      <4>1. IsFiniteSet(A)
        BY BrokerAssumption, FS_Subset
      <4>2. Cardinality(A) \in Nat
        BY <4>1, FS_CardinalityType
      <4>3. IsFiniteSet(A \cup {x}) /\ Cardinality(A \cup {x}) = IF x \in A THEN Cardinality(A) ELSE Cardinality(A) + 1
        BY <4>1, FS_AddElement
      <4> QED BY <4>1, <4>2, <4>3
    <3>3. IsFiniteSet(B) /\ Cardinality(B) <= Cardinality(A \cup {x}) /\ Cardinality(B) \in Nat /\ Cardinality(A \cup {x}) \in Nat
      <4>1. IsFiniteSet(B) /\ Cardinality(B) <= Cardinality(A \cup {x})
        BY <3>1, <3>2, FS_Subset
      <4> QED BY <3>2, <4>1, FS_CardinalityType
    <3>4. Cardinality(A) < MaxLive /\ MaxLive \in Nat
      BY <1>6, <3>2, BrokerAssumption
    <3>5. Cardinality(B) <= MaxLive
      BY <3>2, <3>3, <3>4
    <3> QED BY <3>5 DEF Limit
  <2> QED BY <2>5, <2>6, <2>7, <2>12, <2>13, <2>14 DEF Inv
<1> QED BY <1>4, <1>5, <1>6 DEF Create, Seen

LEMMA StartInv ==
  ASSUME Inv, NEW p \in Requests, Start(p), UNCHANGED <<story, troubles>>
  PROVE  Inv'
<1> DEFINE n == Len(sess) + 1
           c == asking[p]
           x == Job(p).client
           r == [NewSession EXCEPT !.ctrls = {1}, !.count = 1]
           m == [k |-> "initialize", ctl |-> 1, client |-> None]
           q == [NewProcess EXCEPT !.in = <<m>>]
           d == [c EXCEPT !.pc = "starting", !.s = n, !.ctl = 1, !.then = IF Job(p).effort THEN "effort" ELSE "send"]
<1>0. /\ c.pc = "start" /\ sess' = Append(sess, r) /\ proc' = Append(proc, q) /\ creating' = creating
      /\ story' = story /\ troubles' = troubles
  BY DEF Start
<1>1. c \in Asking /\ Job(p) \in Jobs /\ Placed(c, Job(p)) /\ x \in Inputs /\ Len(sess) \in Nat /\ Len(sess) = Len(proc)
  BY Typed DEF Inv, Types
<1>2. c.s = 0 /\ c.turn = None /\ c.then = "end" /\ c.out = "none"
  <2>1. c = [IdleRequest EXCEPT !.pc = "start"]
    BY <1>0, <1>1 DEF Placed
  <2> QED BY <2>1 DEF IdleRequest
<1>3. Job(p).op = "create" /\ Creates(p) /\ Makes(p) /\ Of(p) = creating[x] /\ Of(p).known /\ ~Of(p).done /\ Of(p).s = 0
  <2>1. Job(p).op \in BrokerOps /\ "start" \in Path(Job(p).op)
    BY <1>0, <1>1 DEF Placed, Jobs
  <2>2. Job(p).op = "create"
    BY <2>1 DEF Path, BrokerOps, Stopping, Setting
  <2>3. Creates(p) /\ Makes(p)
    BY <2>2 DEF Creates, Inv, Makers
  <2> QED BY <1>0, <2>2, <2>3 DEF Of, Makes, Making
<1>4. /\ d \in Asking /\ d.pc = "starting" /\ d.s = n /\ d.ctl = 1 /\ d.then = (IF Job(p).effort THEN "effort" ELSE "send")
      /\ d.out = "none" /\ d.turn = None
      /\ asking' = [asking EXCEPT ![p] = d]
  <2>1. asking' = [asking EXCEPT ![p] = d]
    BY <1>1 DEF Start, Inv, Types
  <2>2. n \in Nat /\ (IF Job(p).effort THEN "effort" ELSE "send") \in {"end", "effort", "send", "made"}
    BY <1>1
  <2> QED BY <1>1, <1>2, <2>1, <2>2 DEF Asking, Pcs
<1>5. /\ r \in Session /\ r.ctrls = {1} /\ r.count = 1 /\ ~r.listed /\ ~r.exited /\ ~r.fenced /\ ~r.controlling /\ r.active = None
      /\ r.answers = {} /\ r.effort = "unknown" /\ \A e \in Inputs : r.inputs[e] = NoInput
  <2>1. NewSession \in Session
    BY DEF NewSession, Session, NoInput, InputRecord, Turns
  <2>2. {1} \in SUBSET Nat /\ 1 \in Nat
    OBVIOUS
  <2>3. r \in Session
    BY <2>1, <2>2 DEF Session
  <2> QED BY <2>3 DEF NewSession
<1>6. /\ q \in Process /\ q.in = <<m>> /\ q.out = << >> /\ q.turn = None /\ (\A e \in Inputs : q.took[e] = 0)
      /\ m \in Lines /\ m.k = "initialize" /\ m.ctl = 1
  <2>1. m \in Lines
    BY DEF Lines, Turns
  <2>2. <<m>> \in Seq(Lines) /\ << >> \in Seq(Lines) /\ << >> \in Seq(Events)
    BY <2>1
  <2>3. NewProcess \in Process
    BY <2>2 DEF NewProcess, Process, Turns
  <2> QED BY <2>1, <2>2, <2>3 DEF NewProcess, Process
<1> HIDE DEF r, q, m, d
<1>7. Len(q.in) = 1 /\ q.in[1] = m /\ Len(q.out) = 0
  BY <1>6
<1>8. Sound(r, q)
  <2>1. InputLines(r, q) /\ InterruptLines(r, q)
    BY <1>6, <1>7 DEF InputLines, InterruptLines
  <2>2. Turn(r, q) /\ Said(r, q)
    BY <1>6, <1>7 DEF Turn, Said
  <2>3. Taken(r, q)
    BY <1>5, <1>6, BrokerAssumption DEF Taken, NoInput
  <2>4. Controls(r, q)
    BY <1>5, <1>6, <1>7 DEF Controls, Unanswered, High
  <2> QED BY <2>1, <2>2, <2>3, <2>4 DEF Sound
<1>9. Placed(d, Job(p)) /\ Served(d, Job(p), r, q)
  <2>1. "starting" \in Path("create")
    BY DEF Path
  <2>2. d.s # 0
    BY <1>1, <1>4
  <2>3. Placed(d, Job(p))
    BY <1>3, <1>4, <2>1, <2>2 DEF Placed, Setting
  <2>4. Waits(d, r)
    BY <1>4, <1>5 DEF Waits
  <2> QED BY <1>4, <2>3, <2>4 DEF Served, Sends, Controlling, Stops, Ends, Stopping, Holding
<1>10. /\ \A o \in Requests : (Creates(o))' <=> Creates(o)
       /\ \A o \in Requests : Job(o)' = Job(o) /\ Of(o)' = Of(o)
       /\ \A o \in Requests : asking'[o] = IF o = p THEN d ELSE asking[o]
       /\ Len(sess') = n /\ Len(proc') = n
       /\ sess'[n] = r /\ proc'[n] = q
       /\ \A t \in 1..Len(sess) : sess'[t] = sess[t] /\ proc'[t] = proc[t]
       /\ \A t \in 1..n : t = n \/ t \in 1..Len(sess)
  <2>1. sess \in Seq(Session) /\ proc \in Seq(Process)
    BY DEF Inv, Types
  <2>2. Len(sess') = n /\ sess'[n] = r /\ \A t \in 1..Len(sess) : sess'[t] = sess[t]
    BY <1>0, <1>5, <2>1
  <2>3. Len(proc') = n /\ proc'[n] = q /\ \A t \in 1..Len(sess) : proc'[t] = proc[t]
    BY <1>0, <1>1, <1>6, <2>1
  <2>4. \A t \in 1..n : t = n \/ t \in 1..Len(sess)
    BY <1>1
  <2> QED BY <1>0, <1>4, <2>2, <2>3, <2>4 DEF Inv, Types, Creates, Of, Job
<1>11. \A o \in Requests : /\ asking[o].s # n /\ asking[o].s \in Nat /\ asking[o].s <= Len(sess)
                           /\ asking[o].s # 0 => asking[o].s \in 1..Len(sess)
  BY <1>1, Typed DEF Inv, Types
<1>12. \A e \in Inputs : creating[e].s # n /\ creating[e].s <= Len(sess)
  BY <1>1, Typed DEF Inv, Types, Creation
<1>13. Types'
  <2>1. sess' \in Seq(Session) /\ proc' \in Seq(Process) /\ asking' \in [Requests -> Asking]
    BY <1>0, <1>4, <1>5, <1>6 DEF Inv, Types
  <2>2. \A o \in Requests : asking'[o].s <= Len(sess')
    BY <1>1, <1>4, <1>10, <1>11
  <2>3. \A e \in Inputs : creating'[e].s <= Len(sess')
    <3>1. \A e \in Inputs : creating[e].s \in Nat
      BY Typed DEF Creation
    <3> QED BY <1>0, <1>1, <1>10, <1>12, <3>1
  <2> QED BY <1>0, <1>10, <2>1, <2>2, <2>3 DEF Inv, Types
<1>14. \A o \in Requests : Placed(asking'[o], Job(o)')
  BY <1>9, <1>10, Typed
<1>15. Flow'
  <2>1. \A t \in 1..Len(sess') : Sound(sess'[t], proc'[t])
    BY <1>8, <1>10 DEF Inv, Flow
  <2>2. ASSUME NEW o \in Requests, asking'[o].s # 0 PROVE Served(asking'[o], Job(o)', sess'[asking'[o].s], proc'[asking'[o].s])
    <3>1. CASE o = p
      BY <1>4, <1>9, <1>10, <3>1
    <3>2. CASE o # p
      BY <1>10, <1>11, <2>2, <3>2 DEF Inv, Flow
    <3> QED BY <3>1, <3>2
  <2>3. Apart'
    BY <1>4, <1>10, <1>11 DEF Inv, Flow, Apart
  <2> QED BY <2>1, <2>2, <2>3 DEF Flow
<1>16. ASSUME NEW o \in Requests, Creates(o), o # p, Job(o).client = x PROVE ~Making(asking[o]) /\ asking[o].s = 0
  <2>1. Rivals(o, p) /\ Rivals(p, o) /\ Making(asking[p])
    BY <1>0, <1>3, <1>16 DEF Inv, Makers, Making
  <2> QED BY <1>0, <1>16, <2>1 DEF Rivals
<1>17. ASSUME NEW o \in Requests, (Creates(o))' PROVE Makes(o)'
  <2>0. Creates(o) /\ Makes(o) /\ Of(o)' = Of(o)
    BY <1>10, <1>17 DEF Inv, Makers
  <2>1. CASE o = p
    <3>1. asking'[o] = d /\ sess'[d.s] = r
      BY <1>4, <1>10, <2>1
    <3>2. \A e \in Inputs : creating'[e].s # d.s
      BY <1>0, <1>4, <1>12
    <3> QED BY <1>3, <1>4, <1>5, <2>0, <2>1, <3>1, <3>2 DEF Makes, Making, Setting
  <2>2. CASE o # p
    <3>1. asking'[o] = asking[o]
      BY <1>10, <2>2
    <3>2. asking[o].s # 0 => sess'[asking[o].s] = sess[asking[o].s] /\ proc'[asking[o].s] = proc[asking[o].s]
      BY <1>10, <1>11
    <3>3. asking[o].pc = "starting" => asking[o].s # 0
      BY Typed DEF Placed
    <3> QED BY <1>0, <2>0, <3>1, <3>2, <3>3 DEF Makes, Making
  <2> QED BY <2>1, <2>2
<1>18. ASSUME NEW o \in Requests, NEW t \in Requests, o # t, (Creates(o))', (Creates(t))' PROVE Rivals(o, t)'
  <2>1. Rivals(o, t) /\ Creates(o) /\ Creates(t)
    BY <1>10, <1>18 DEF Inv, Makers
  <2>2. SUFFICES ASSUME Job(o).client = Job(t).client
                 PROVE  /\ ~(Making(asking'[o]) /\ Making(asking'[t]))
                        /\ asking'[o].s # 0 => asking'[t].pc # "start" /\ asking'[t].s \in {0, asking'[o].s}
    BY <1>10 DEF Rivals, Making
  <2>3. CASE o = p
    <3>1. asking'[t] = asking[t] /\ ~Making(asking[t]) /\ asking[t].s = 0
      BY <1>10, <1>16, <1>18, <2>1, <2>2, <2>3
    <3> QED BY <3>1 DEF Making
  <2>4. CASE t = p
    <3>1. asking'[o] = asking[o] /\ ~Making(asking[o]) /\ asking[o].s = 0
      BY <1>10, <1>16, <1>18, <2>1, <2>2, <2>4
    <3> QED BY <3>1
  <2>5. CASE o # p /\ t # p
    BY <1>10, <2>1, <2>2, <2>5 DEF Rivals
  <2> QED BY <2>3, <2>4, <2>5
<1>19. Makers'
  <2>1. Recorded'
    BY <1>0 DEF Inv, Makers, Recorded
  <2>2. ASSUME NEW t \in 1..n PROVE \E o \in Requests : Creates(o) /\ asking'[o].s = t
    <3>1. CASE t = n
      BY <1>3, <1>4, <1>10, <3>1
    <3>2. CASE t \in 1..Len(sess)
      <4>1. PICK o \in Requests : Creates(o) /\ asking[o].s = t
        BY <3>2 DEF Inv, Makers
      <4>2. o # p
        BY <1>2, <3>2, <4>1
      <4> QED BY <1>10, <4>1, <4>2
    <3> QED BY <1>10, <3>1, <3>2
  <2>3. ASSUME NEW t \in 1..n, sess'[t].listed PROVE \E e \in Inputs : creating[e].s = t
    <3>1. t \in 1..Len(sess) /\ sess[t].listed
      BY <1>5, <1>10, <2>3
    <3> QED BY <3>1 DEF Inv, Makers
  <2> QED BY <1>0, <1>10, <1>17, <1>18, <2>1, <2>2, <2>3 DEF Makers
<1>20. Homes'
  <2> SUFFICES ASSUME NEW t \in 1..n, NEW e \in Inputs, sess'[t].inputs[e].in
               PROVE  \/ creating[e].s = t /\ \E o \in Requests : Creates(o) /\ Job(o).client = e
                      \/ \E o \in Requests : Job(o).op = "send" /\ Job(o).client = e /\ asking'[o].s = t
    BY <1>0, <1>10 DEF Homes
  <2>1. t \in 1..Len(sess) /\ sess[t].inputs[e].in
    BY <1>5, <1>10 DEF NoInput
  <2>2. \/ creating[e].s = t /\ \E o \in Requests : Creates(o) /\ Job(o).client = e
        \/ \E o \in Requests : Job(o).op = "send" /\ Job(o).client = e /\ asking[o].s = t
    BY <2>1 DEF Inv, Homes
  <2> QED BY <1>3, <1>10, <2>2
<1>21. Limit'
  <2>1. \A e \in Inputs : (Counted(e))' <=> Counted(e)
    <3> SUFFICES ASSUME NEW e \in Inputs PROVE (Counted(e))' <=> Counted(e)
      OBVIOUS
    <3>1. creating[e].s # 0 => creating[e].s \in 1..Len(sess)
      BY <1>1, <1>12, Typed DEF Creation
    <3> QED BY <1>0, <1>10, <3>1 DEF Counted, Available
  <2>2. {e \in Inputs : (Counted(e))'} = {e \in Inputs : Counted(e)}
    BY <2>1
  <2> QED BY <2>2 DEF Inv, Limit
<1> QED BY <1>13, <1>14, <1>15, <1>19, <1>20, <1>21 DEF Inv

-----------------------------------------------------------------------------
LEMMA InitInv == BrokerInit => Inv
<1> SUFFICES ASSUME BrokerInit PROVE Inv
  OBVIOUS
<1>0. /\ \A p \in Requests : asking[p] = IdleRequest
      /\ \A c \in Inputs : creating[c] = NoCreation
      /\ sess = << >> /\ proc = << >> /\ Len(sess) = 0 /\ Len(proc) = 0
  BY DEF BrokerInit
<1>1. Types
  <2>1. IdleRequest \in Asking /\ NoCreation \in Creation
    BY DEF IdleRequest, Asking, Pcs, Turns, NoCreation, Creation
  <2>2. story \in Story /\ ForOneTask(story.jobs)
    BY BrokerAssumption, InputsAssumption DEF BrokerInit
  <2>3. troubles \in [Troubles -> Nat]
    BY <2>2 DEF BrokerInit, Story
  <2>4. sess \in Seq(Session) /\ proc \in Seq(Process)
    BY <1>0
  <2> QED BY <1>0, <2>1, <2>2, <2>3, <2>4 DEF BrokerInit, Types, IdleRequest, NoCreation
<1>2. \A p \in Requests : Placed(asking[p], Job(p))
  <2> SUFFICES ASSUME NEW p \in Requests PROVE Placed(IdleRequest, Job(p))
    BY <1>0
  <2>1. Job(p).op \in BrokerOps
    BY <1>1 DEF Types, Story, Job
  <2>2. "idle" \in Path(Job(p).op)
    BY <2>1 DEF Path, BrokerOps
  <2> QED BY <2>2 DEF Placed, IdleRequest, Setting
<1>3. Flow
  BY <1>0 DEF Flow, Apart, IdleRequest
<1>4. Makers
  <2>1. Recorded
    BY <1>0 DEF Recorded, NoCreation
  <2>2. \A p \in Requests : Makes(p)
    BY <1>0 DEF Makes, Making, IdleRequest, Setting
  <2>3. \A p, o \in Requests : Rivals(p, o)
    BY <1>0 DEF Rivals, Making, IdleRequest
  <2> QED BY <1>0, <2>1, <2>2, <2>3 DEF Makers
<1>5. Homes
  BY <1>0 DEF Homes
<1>6. Limit
  <2>1. {c \in Inputs : Counted(c)} = {}
    BY <1>0 DEF Counted, NoCreation
  <2> QED BY <2>1, FS_EmptySet, BrokerAssumption DEF Limit
<1> QED BY <1>1, <1>2, <1>3, <1>4, <1>5, <1>6 DEF Inv

LEMMA NextInv == ASSUME Inv, [BrokerNext]_brokerVars PROVE Inv'
<1>1. ASSUME NEW p \in Requests, Request(p) PROVE Inv'
  <2>1. UNCHANGED <<story, troubles>>
    BY <1>1 DEF Request
  <2> QED BY <1>1, <2>1, SessionOpInv, CreateInv, StartInv, StartedInv, NextStepInv, MadeInv, CloseIdleInv, CloseInputInv,
             CreatedInv, CallInv DEF Request
<1>2. ASSUME NEW s \in DOMAIN sess, Consume(s) \/ EndOfOutput(s) \/ ListSession(s) \/ Take(s) \/ Finish(s) \/ Trouble(s) PROVE Inv'
  <2>1. s \in 1..Len(sess)
    BY Typed, SMTT(40)
  <2> QED BY <1>2, <2>1, ConsumeInv, EndInv, ListInv, TakeInv, FinishInv, TroubleInv
<1>3. CASE UNCHANGED brokerVars
  <2>1. /\ UNCHANGED <<story, asking, creating, sess, proc, troubles>>
    BY <1>3 DEF brokerVars
  <2> QED BY <2>1, SMTT(40) DEF Inv, Types, Flow, Apart, Makers, Recorded, Makes, Rivals, Creates, Of, Homes, Limit, Counted, Available, Job
<1> QED BY <1>1, <1>2, <1>3, CancelledInv DEF BrokerNext

(* Inv is an invariant of the broker.                                       *)
LEMMA BrokerInv == BrokerSpec => []Inv
<1>1. Inv /\ [BrokerNext]_brokerVars => Inv'
  BY NextInv
<1> QED BY <1>1, InitInv, PTL DEF BrokerSpec

-----------------------------------------------------------------------------
(* The process meets an interrupt in the turn that was active when the      *)
(* control was taken, or in none.                                           *)
SameHits == DOMAIN proc' = DOMAIN proc /\ \A t \in DOMAIN proc : proc'[t].hits = proc[t].hits

LEMMA TakeHits == ASSUME Inv, StopHitsItsTurn, NEW s \in 1..Len(sess), Take(s) PROVE StopHitsItsTurn'
<1> DEFINE q == proc[s]
           m == Head(q.in)
           w == [q EXCEPT !.in = Tail(@)]
<1>0. q.in # << >> /\ q = proc[s] /\ m = Head(q.in) /\ w = [q EXCEPT !.in = Tail(@)] /\ proc[s].in # << >> /\ Sound(sess[s], q)
  BY Typed DEF Take
<1>1. \/ m.k = "input" /\ proc' = [proc EXCEPT ![s] = Says([w EXCEPT !.turn = m.client, !.took[m.client] = @ + 1], Emitted("replay", m.client))]
      \/ /\ m.k = "interrupt"
         /\ LET hit == [Reply(w, m, "ok") EXCEPT !.hits = @ \cup {<<m.client, q.turn>>}, !.turn = None] IN
             proc' = [proc EXCEPT ![s] = IF q.turn = None THEN hit ELSE Says(hit, Emitted("result", q.turn))]
      \/ proc' = [proc EXCEPT ![s] = Reply([w EXCEPT !.effort = "high"], m, "ok")]
      \/ \E x \in {"ok", "rejected"} : proc' = [proc EXCEPT ![s] = Reply(w, m, x)]
      \/ proc' = [proc EXCEPT ![s] = w]
  BY DEF Take
<1> HIDE DEF q, m, w
<1>2. m \in Lines /\ 1 \in 1..Len(q.in) /\ q.in[1] = m /\ w \in Process /\ w.hits = q.hits /\ w.turn = q.turn
  BY <1>0, NextLine
<1>3. m.k = "interrupt" => q.turn \in {None, m.client}
  BY <1>0, <1>2 DEF Sound, InterruptLines
<1>4. ASSUME NEW z, proc' = [proc EXCEPT ![s] = z], \A h \in z.hits : h \in q.hits \/ h[2] \in {None, h[1]}
      PROVE  StopHitsItsTurn'
  <2>1. s \in DOMAIN proc /\ DOMAIN proc' = DOMAIN proc /\ \A t \in DOMAIN proc : proc'[t] = IF t = s THEN z ELSE proc[t]
    BY <1>4, Typed
  <2> QED BY <1>0, <1>4, <2>1 DEF StopHitsItsTurn
<1>5. ASSUME NEW x PROVE Reply(w, m, x).hits = q.hits
  BY <1>2, SaysFields DEF Reply
<1>6. CASE m.k = "input" /\ proc' = [proc EXCEPT ![s] = Says([w EXCEPT !.turn = m.client, !.took[m.client] = @ + 1], Emitted("replay", m.client))]
  <2>1. Says([w EXCEPT !.turn = m.client, !.took[m.client] = @ + 1], Emitted("replay", m.client)).hits = q.hits
    BY <1>2 DEF Process, Says
  <2> QED BY <1>4, <1>6, <2>1
<1>7. CASE /\ m.k = "interrupt"
           /\ LET hit == [Reply(w, m, "ok") EXCEPT !.hits = @ \cup {<<m.client, q.turn>>}, !.turn = None] IN
               proc' = [proc EXCEPT ![s] = IF q.turn = None THEN hit ELSE Says(hit, Emitted("result", q.turn))]
  <2> DEFINE v == Reply(w, m, "ok")
             hit == [v EXCEPT !.hits = @ \cup {<<m.client, q.turn>>}, !.turn = None]
             z == IF q.turn = None THEN hit ELSE Says(hit, Emitted("result", q.turn))
  <2>1. hit.hits = q.hits \cup {<<m.client, q.turn>>} /\ Says(hit, Emitted("result", q.turn)).hits = hit.hits
    BY <1>2 DEF Reply, Says, Process
  <2>2. z.hits = q.hits \cup {<<m.client, q.turn>>}
    BY <2>1
  <2>3. proc' = [proc EXCEPT ![s] = z]
    BY <1>7
  <2> HIDE DEF z
  <2>4. \A h \in z.hits : h \in q.hits \/ h[2] \in {None, h[1]}
    BY <1>3, <1>7, <2>2
  <2> QED BY <1>4, <2>3, <2>4
<1>8. CASE proc' = [proc EXCEPT ![s] = Reply([w EXCEPT !.effort = "high"], m, "ok")]
  <2>1. Reply([w EXCEPT !.effort = "high"], m, "ok").hits = q.hits
    BY <1>2 DEF Process, Reply, Says
  <2> QED BY <1>4, <1>8, <2>1
<1>9. CASE \E x \in {"ok", "rejected"} : proc' = [proc EXCEPT ![s] = Reply(w, m, x)]
  BY <1>4, <1>5, <1>9
<1>10. CASE proc' = [proc EXCEPT ![s] = w]
  BY <1>2, <1>4, <1>10
<1> QED BY <1>1, <1>6, <1>7, <1>8, <1>9, <1>10

(* Every other step leaves what the processes have met alone.               *)
LEMMA HitsKept == ASSUME StopHitsItsTurn, SameHits PROVE StopHitsItsTurn'
BY DEF StopHitsItsTurn, SameHits

LEMMA OneHits ==
  ASSUME Inv, NEW s \in 1..Len(sess), NEW z, proc' = [proc EXCEPT ![s] = z], z.hits = proc[s].hits
  PROVE  SameHits
BY Typed DEF SameHits

LEMMA ProcessHits ==
  ASSUME Inv, NEW s \in 1..Len(sess), Consume(s) \/ EndOfOutput(s) \/ ListSession(s) \/ Finish(s) \/ Trouble(s)
  PROVE  SameHits
<1>1. s \in DOMAIN proc /\ proc[s] \in Process
  BY Typed
<1>2. CASE Consume(s)
  <2>1. PICK i : proc' = [proc EXCEPT ![s].out = Tail(@), ![s].in = i]
    BY <1>2 DEF Consume
  <2>2. proc' = [proc EXCEPT ![s] = [proc[s] EXCEPT !.out = Tail(@), !.in = i]]
    BY <1>1, <2>1
  <2>3. [proc[s] EXCEPT !.out = Tail(@), !.in = i].hits = proc[s].hits
    BY <1>1 DEF Process
  <2> QED BY <2>2, <2>3, OneHits
<1>3. CASE EndOfOutput(s)
  <2>1. proc' = [proc EXCEPT ![s] = [proc[s] EXCEPT !.open = FALSE]]
    BY <1>1, <1>3 DEF EndOfOutput
  <2>2. [proc[s] EXCEPT !.open = FALSE].hits = proc[s].hits
    BY <1>1 DEF Process
  <2> QED BY <2>1, <2>2, OneHits
<1>4. CASE ListSession(s)
  BY <1>4 DEF ListSession, SameHits
<1>5. CASE Finish(s)
  <2> DEFINE w == [proc[s] EXCEPT !.turn = None]
             e == Emitted("result", proc[s].turn)
  <2>1. proc' = [proc EXCEPT ![s] = Says(w, e)]
    BY <1>1, <1>5 DEF Finish
  <2>2. Says(w, e).hits = proc[s].hits
    BY <1>1 DEF Process, Says
  <2> QED BY <2>1, <2>2, OneHits
<1>6. CASE Trouble(s)
  <2>1. \/ \E e : proc' = [proc EXCEPT ![s] = Says(@, e)]
        \/ proc' = [proc EXCEPT ![s].alive = FALSE, ![s].turn = None]
        \/ proc' = [proc EXCEPT ![s].alive = FALSE]
    BY <1>6 DEF Trouble
  <2>2. \E z : z.hits = proc[s].hits /\ proc' = [proc EXCEPT ![s] = z]
    <3>1. ASSUME NEW e, proc' = [proc EXCEPT ![s] = Says(@, e)] PROVE proc' = [proc EXCEPT ![s] = Says(proc[s], e)] /\ Says(proc[s], e).hits = proc[s].hits
      BY <1>1, <3>1, SaysFields
    <3>2. ASSUME proc' = [proc EXCEPT ![s].alive = FALSE, ![s].turn = None]
          PROVE  proc' = [proc EXCEPT ![s] = [proc[s] EXCEPT !.alive = FALSE, !.turn = None]] /\ [proc[s] EXCEPT !.alive = FALSE, !.turn = None].hits = proc[s].hits
      BY <1>1, <3>2 DEF Process
    <3>3. ASSUME proc' = [proc EXCEPT ![s].alive = FALSE]
          PROVE  proc' = [proc EXCEPT ![s] = [proc[s] EXCEPT !.alive = FALSE]] /\ [proc[s] EXCEPT !.alive = FALSE].hits = proc[s].hits
      BY <1>1, <3>3 DEF Process
    <3> QED BY <2>1, <3>1, <3>2, <3>3
  <2> QED BY <2>2, OneHits
<1> QED BY <1>2, <1>3, <1>4, <1>5, <1>6

LEMMA RequestHits ==
  ASSUME Inv, StopHitsItsTurn, NEW p \in Requests, Request(p) \/ Cancelled(p)
  PROVE  StopHitsItsTurn'
<1> DEFINE s == asking[p].s
<1>1. CASE Start(p)
  <2> DEFINE z == [NewProcess EXCEPT !.in = <<[k |-> "initialize", ctl |-> 1, client |-> None]>>]
  <2>1. z.hits = {}
    BY DEF NewProcess
  <2>2. proc' = Append(proc, z) /\ proc \in Seq(Process)
    BY <1>1 DEF Start, Inv, Types
  <2> HIDE DEF z
  <2>3. DOMAIN proc' = 1..Len(proc) + 1 /\ proc'[Len(proc) + 1] = z /\ \A t \in 1..Len(proc) : proc'[t] = proc[t]
    BY <2>2
  <2>4. DOMAIN proc = 1..Len(proc) /\ Len(proc) \in Nat
    BY <2>2
  <2>5. ASSUME NEW t \in DOMAIN proc', NEW h \in proc'[t].hits PROVE h[2] \in {None, h[1]}
    <3>1. t = Len(proc) + 1 \/ t \in DOMAIN proc
      BY <2>3, <2>4
    <3>2. t \in DOMAIN proc
      BY <2>1, <2>3, <2>5, <3>1
    <3> QED BY <2>3, <2>4, <2>5, <3>2 DEF StopHitsItsTurn
  <2> QED BY <2>5 DEF StopHitsItsTurn
<1>2. ASSUME ~Start(p)
      PROVE  \/ proc' = proc
             \/ proc' = [proc EXCEPT ![s].open = FALSE]
             \/ \E m : proc' = [proc EXCEPT ![s].in = Append(@, m)]
  <2>1. ASSUME NEW m, NEW wait, Control(p, m, wait) PROVE proc' = proc \/ \E x : proc' = [proc EXCEPT ![s].in = Append(@, x)]
    BY <2>1, ZenonT(40) DEF Control
  <2>2. ASSUME NEW wait, Refused(p, wait) PROVE proc' = proc
    BY <2>2, ZenonT(40) DEF Refused
  <2>3. CASE Send(p) \/ WriteInput(p) \/ Receipt(p) \/ Stop(p) \/ StopEnds(p) \/ SetEffort(p)
    BY <2>3, ZenonT(40) DEF Send, WriteInput, Receipt, Stop, StopEnds, SetEffort
  <2>4. CASE Interrupt(p) \/ Interrupted(p) \/ ApplyEffort(p)
    BY <2>1, <2>2, <2>4 DEF Interrupt, Interrupted, ApplyEffort
  <2>5. CASE Readback(p) \/ SetModel(p) \/ Rename(p)
    BY <2>1, <2>2, <2>5, ZenonT(40) DEF Readback, SetModel, Rename
  <2>6. CASE Create(p) \/ Started(p) \/ NextStep(p) \/ Made(p) \/ CloseIdle(p)
    BY <2>6, ZenonT(40) DEF Create, Started, NextStep, Made, CloseIdle
  <2>7. CASE CloseInput(p) \/ Created(p) \/ Call(p) \/ Cancelled(p)
    BY <2>7, ZenonT(40) DEF CloseInput, Created, Call, Cancelled
  <2> QED BY <1>2, <2>3, <2>4, <2>5, <2>6, <2>7, ZenonT(40) DEF Request, SessionOp
<1>3. CASE ~Start(p)
  <2>1. CASE proc' = proc
    BY <2>1, HitsKept DEF SameHits
  <2>2. CASE s \notin DOMAIN proc
    <3>1. DOMAIN proc' = DOMAIN proc /\ \A t \in DOMAIN proc : proc'[t] = proc[t]
      BY <1>2, <1>3, <2>2
    <3> QED BY <3>1, HitsKept DEF SameHits
  <2>3. CASE s \in DOMAIN proc /\ proc' # proc
    <3>1. s \in 1..Len(sess) /\ proc[s] \in Process
      BY <2>3, Typed
    <3>2. \/ proc' = [proc EXCEPT ![s] = [proc[s] EXCEPT !.open = FALSE]]
          \/ \E m : proc' = [proc EXCEPT ![s] = [proc[s] EXCEPT !.in = Append(@, m)]]
      BY <1>2, <1>3, <2>3, <3>1
    <3>3. /\ [proc[s] EXCEPT !.open = FALSE].hits = proc[s].hits
          /\ \A m : [proc[s] EXCEPT !.in = Append(@, m)].hits = proc[s].hits
      BY <3>1 DEF Process
    <3> QED BY <3>1, <3>2, <3>3, OneHits, HitsKept
  <2> QED BY <2>1, <2>2, <2>3
<1> QED BY <1>1, <1>3

(* An interrupt meets the turn that its client was shown, or none, although *)
(* it is written after the lock is released (Stop): while a control is held *)
(* no input is admitted and no other interrupt is written.                  *)
THEOREM StopsHit == BrokerSpec => []StopHitsItsTurn
<1>1. BrokerInit => StopHitsItsTurn
  BY DEF BrokerInit, StopHitsItsTurn
<1>2. ASSUME Inv, StopHitsItsTurn, [BrokerNext]_brokerVars PROVE StopHitsItsTurn'
  <2>1. ASSUME NEW p \in Requests, Request(p) \/ Cancelled(p) PROVE StopHitsItsTurn'
    BY <1>2, <2>1, RequestHits
  <2>2. ASSUME NEW s \in DOMAIN sess, Consume(s) \/ EndOfOutput(s) \/ ListSession(s) \/ Take(s) \/ Finish(s) \/ Trouble(s)
        PROVE  StopHitsItsTurn'
    <3>1. s \in 1..Len(sess)
      BY <1>2, Typed
    <3> QED BY <1>2, <2>2, <3>1, TakeHits, ProcessHits, HitsKept
  <2>3. CASE UNCHANGED brokerVars
    BY <1>2, <2>3, HitsKept DEF SameHits, brokerVars
  <2> QED BY <1>2, <2>1, <2>2, <2>3 DEF BrokerNext
<1> QED BY <1>1, <1>2, BrokerInv, PTL DEF BrokerSpec

-----------------------------------------------------------------------------
LEMMA Creator ==
  ASSUME Inv, NEW s \in 1..Len(sess)
  PROVE  \E p \in Requests : /\ Creates(p) /\ asking[p].s = s /\ s # 0 /\ Job(p).client \in Inputs /\ Makes(p)
                             /\ Placed(asking[p], Job(p)) /\ Of(p) = creating[Job(p).client]
BY Typed DEF Inv, Makers, Of

(* An input is in one session.                                              *)
LEMMA OneHome ==
  ASSUME Inv, NEW c \in Inputs, NEW s \in 1..Len(sess), NEW t \in 1..Len(sess), sess[s].inputs[c].in, sess[t].inputs[c].in
  PROVE  s = t
<1> DEFINE MadeIn(u) == creating[c].s = u /\ \E p \in Requests : Creates(p) /\ Job(p).client = c
           SentTo(u) == \E p \in Requests : Job(p).op = "send" /\ Job(p).client = c /\ asking[p].s = u
<1>1. (MadeIn(s) \/ SentTo(s)) /\ (MadeIn(t) \/ SentTo(t))
  BY DEF Inv, Homes
<1>2. ASSUME NEW p \in Requests, NEW q \in Requests, p # q, Job(p).op = "send", Job(q).op \in {"create", "send"},
             Job(p).client = Job(q).client, NEW o \in Requests, NEW w \in Requests, Creates(o), Creates(w)
      PROVE  Job(o).client = Job(w).client
  <2>1. ForOneTask(story.jobs)
    BY DEF Inv, Types
  <2> QED BY <1>2, <2>1 DEF ForOneTask, Creates, Job
<1>3. ASSUME NEW u \in 1..Len(sess), NEW v \in 1..Len(sess), MadeIn(u), SentTo(v) PROVE u = v
  <2>1. PICK p \in Requests : Creates(p) /\ Job(p).client = c
    BY <1>3
  <2>2. PICK q \in Requests : Job(q).op = "send" /\ Job(q).client = c
    BY <1>3
  <2>3. PICK o \in Requests : Creates(o) /\ asking[o].s = v /\ v # 0 /\ Makes(o) /\ Of(o) = creating[Job(o).client]
    BY Creator
  <2>4. Job(o).client = Job(p).client
    BY <1>2, <2>1, <2>2, <2>3 DEF Creates
  <2> QED BY <1>3, <2>1, <2>3, <2>4, Typed DEF Makes
<1>4. ASSUME SentTo(s), SentTo(t) PROVE s = t
  <2>1. PICK p \in Requests : Job(p).op = "send" /\ Job(p).client = c /\ asking[p].s = s
    BY <1>4
  <2>2. PICK q \in Requests : Job(q).op = "send" /\ Job(q).client = c /\ asking[q].s = t
    BY <1>4
  <2>3. PICK o \in Requests : Creates(o) /\ asking[o].s = s /\ s # 0
    BY Creator
  <2>4. PICK w \in Requests : Creates(w) /\ asking[w].s = t /\ t # 0
    BY Creator
  <2>5. CASE p # q /\ o # w
    <3>1. Job(o).client = Job(w).client
      BY <1>2, <2>1, <2>2, <2>3, <2>4, <2>5
    <3>2. Rivals(o, w)
      BY <2>3, <2>4, <2>5 DEF Inv, Makers
    <3> QED BY <2>3, <2>4, <3>1, <3>2 DEF Rivals
  <2> QED BY <2>1, <2>2, <2>3, <2>4, <2>5
<1>5. ASSUME MadeIn(s), MadeIn(t) PROVE s = t
  BY <1>5
<1> HIDE DEF MadeIn, SentTo
<1> QED BY <1>1, <1>3, <1>4, <1>5

LEMMA AtMostOne ==
  ASSUME NEW A, IsFiniteSet(A), \A x, y \in A : x = y
  PROVE  Cardinality(A) <= 1
<1>1. CASE A = {}
  BY <1>1, FS_EmptySet
<1>2. CASE A # {}
  <2>1. PICK x \in A : TRUE
    BY <1>2
  <2>2. A = {x}
    BY <2>1
  <2> QED BY <2>2, FS_Singleton
<1> QED BY <1>1, <1>2

LEMMA TakenOnce == ASSUME Inv PROVE InputOnce
<1> SUFFICES ASSUME NEW c \in Inputs
             PROVE  /\ \A s \in DOMAIN proc : proc[s].took[c] <= 1
                    /\ Cardinality({s \in DOMAIN proc : proc[s].took[c] > 0}) <= 1
  BY DEF InputOnce
<1>1. ASSUME NEW s \in DOMAIN proc PROVE proc[s].took[c] <= 1 /\ proc[s].took[c] \in Nat /\ (proc[s].took[c] = 1 => sess[s].inputs[c].in)
  <2>1. s \in 1..Len(sess) /\ proc[s] \in Process /\ Taken(sess[s], proc[s])
    BY <1>1, Typed DEF Sound
  <2> QED BY <2>1 DEF Process, Taken
<1> DEFINE A == {s \in DOMAIN proc : proc[s].took[c] > 0}
<1>2. \A s \in A : s \in 1..Len(sess) /\ sess[s].inputs[c].in
  BY <1>1, Typed
<1>3. \A s, t \in A : s = t
  BY <1>2, OneHome
<1>4. IsFiniteSet(A)
  <2>1. DOMAIN proc = 1..Len(sess) /\ Len(sess) \in Nat
    BY Typed
  <2>2. IsFiniteSet(1..Len(sess))
    BY <2>1, FS_Interval
  <2> QED BY <2>1, <2>2, FS_Subset
<1> HIDE DEF A
<1>5. Cardinality(A) <= 1
  BY <1>3, <1>4, AtMostOne
<1> QED BY <1>1, <1>5 DEF A

(* Success is what the process did: however often a create or a send is     *)
(* repeated, its input was taken once; a stopped turn was interrupted and   *)
(* is over; the effort a session shows is the effort its process has (Send, *)
(* Stop, SetEffort and create of the broker).                               *)
THEOREM AnswersTruly == BrokerSpec => []AnsweredTruly
<1>1. ASSUME Inv PROVE AnsweredTruly
  <2>1. InputOnce
    BY <1>1, TakenOnce
  <2>2. ASSUME NEW p \in Requests, asking[p].pc = "end", asking[p].out = "ok"
        PROVE  LET r == proc[asking[p].s] IN
               CASE Job(p).op \in {"create", "send"} -> r.took[Job(p).client] = 1
                 [] Job(p).op = "stop" -> r.turn # asking[p].turn /\ \E h \in r.hits : h[1] = asking[p].turn
                 [] OTHER -> TRUE
    <3> DEFINE c == asking[p]
               r == sess[c.s]
               q == proc[c.s]
    <3>1. c.s # 0 /\ c.s \in 1..Len(sess)
      BY <1>1, <2>2, Typed DEF Placed
    <3>2. Ends(c, Job(p), r, q) /\ Taken(r, q) /\ Turn(r, q)
      BY <1>1, <3>1, Typed DEF Inv, Flow, Served, Sound
    <3>3. /\ Job(p).op \in {"create", "send"} => q.took[Job(p).client] = 1
          /\ Job(p).op = "stop" => c.turn \in Inputs /\ r.inputs[c.turn].terminal /\ Hit(q, c.turn)
      BY <2>2, <3>2, SMTT(40) DEF Ends
    <3>4. Job(p).op = "stop" => q.turn # c.turn
      BY <3>2, <3>3, BrokerAssumption DEF Taken, Turn
    <3> HIDE DEF c, q
    <3>5. CASE Job(p).op \in {"create", "send"}
      BY <3>3, <3>5 DEF c, q
    <3>6. CASE Job(p).op = "stop"
      BY <3>3, <3>4, <3>6 DEF c, q, Hit
    <3>7. CASE Job(p).op \notin {"create", "send", "stop"}
      BY <3>7
    <3> QED BY <3>5, <3>6, <3>7
  <2>3. ASSUME NEW s \in DOMAIN sess, sess[s].effort # "unknown" PROVE proc[s].effort = sess[s].effort
    <3>1. sess[s] \in Session /\ Controls(sess[s], proc[s])
      BY <1>1, Typed DEF Sound
    <3> QED BY <2>3, <3>1 DEF Session, Controls, High
  <2> QED BY <2>1, <2>2, <2>3 DEF AnsweredTruly
<1> QED BY <1>1, BrokerInv, PTL

(* Once the output of a process has ended, whoever waited for an answer or  *)
(* for the receipt of an input has it (consume).                            *)
THEOREM NobodyWaits == BrokerSpec => []NobodyWaitsOnTheDead
<1>1. ASSUME Inv PROVE NobodyWaitsOnTheDead
  <2> SUFFICES ASSUME NEW p \in Requests, asking[p].s # 0, S(p).exited
               PROVE  /\ asking[p].pc \in Waiting => AnswerTo(p) # {}
                      /\ asking[p].pc = "receipt" => S(p).inputs[Job(p).client].done # "open"
    BY DEF NobodyWaitsOnTheDead, Waiting
  <2> DEFINE c == asking[p]
             r == sess[c.s]
             q == proc[c.s]
  <2>1. c.s \in 1..Len(sess) /\ r.exited /\ S(p) = r /\ Job(p).client \in Inputs
    BY <1>1, Typed DEF S
  <2>2. Sends(c, Job(p), r, q) /\ Waits(c, r) /\ Taken(r, q) /\ Controls(r, q)
    BY <1>1, <2>1, Typed, SMTT(40) DEF Inv, Flow, Served, Sound
  <2>3. c.pc \in Waiting => AnswerTo(p) # {}
    BY <2>1, <2>2, SMTT(40) DEF Waits, Controls, AnswerTo
  <2>4. c.pc = "receipt" => S(p).inputs[Job(p).client].done # "open"
    BY <2>1, <2>2 DEF Sends, Taken
  <2> QED BY <2>3, <2>4
<1> QED BY <1>1, BrokerInv, PTL

-----------------------------------------------------------------------------
LEMMA OneToOne ==
  ASSUME NEW A, NEW C, NEW f \in [A -> C], \A x, y \in A : f[x] = f[y] => x = y, IsFiniteSet(C)
  PROVE  LET F == {f[x] : x \in A} IN
         F \subseteq C /\ IsFiniteSet(F) /\ IsFiniteSet(A) /\ Cardinality(A) <= Cardinality(F)
<1> DEFINE F == {f[x] : x \in A}
<1>1. F \subseteq C /\ IsFiniteSet(F)
  BY FS_Subset
<1>2. f \in [A -> F]
  OBVIOUS
<1>3. f \in Injection(A, F)
  BY <1>2, Fun_IsInj
<1> HIDE DEF F
<1>4. IsFiniteSet(A) /\ Cardinality(A) <= Cardinality(F)
  BY <1>1, <1>3, FS_Injection
<1> QED BY <1>1, <1>4 DEF F

(* Two sets that map one to one to separate parts of a third.               *)
LEMMA TwoInto ==
  ASSUME NEW A, NEW B, NEW C, IsFiniteSet(C), NEW f \in [A -> C], NEW g \in [B -> C],
         \A x, y \in A : f[x] = f[y] => x = y, \A x, y \in B : g[x] = g[y] => x = y,
         \A x \in A, y \in B : f[x] # g[y]
  PROVE  /\ Cardinality(A) \in Nat /\ Cardinality(B) \in Nat /\ Cardinality(C) \in Nat
         /\ Cardinality(A) + Cardinality(B) <= Cardinality(C)
<1> DEFINE F == {f[x] : x \in A}
           G == {g[x] : x \in B}
<1>1. F \subseteq C /\ IsFiniteSet(F) /\ IsFiniteSet(A) /\ Cardinality(A) <= Cardinality(F)
  BY OneToOne, SMTT(40)
<1>2. G \subseteq C /\ IsFiniteSet(G) /\ IsFiniteSet(B) /\ Cardinality(B) <= Cardinality(G)
  BY OneToOne
<1>3. F \cap G = {}
  OBVIOUS
<1> HIDE DEF F, G
<1>4. Cardinality(F \cup G) = Cardinality(F) + Cardinality(G)
  <2>1. Cardinality(F \cup G) = Cardinality(F) + Cardinality(G) - Cardinality(F \cap G)
    BY <1>1, <1>2, FS_Union
  <2>2. Cardinality(F \cap G) = 0
    BY <1>3, FS_EmptySet
  <2>3. Cardinality(F) \in Nat /\ Cardinality(G) \in Nat
    BY <1>1, <1>2, FS_CardinalityType
  <2> QED BY <2>1, <2>2, <2>3
<1>5. Cardinality(F \cup G) <= Cardinality(C)
  <2>1. F \cup G \in SUBSET C
    BY <1>1, <1>2
  <2> QED BY <2>1, FS_Subset
<1>6. /\ Cardinality(A) \in Nat /\ Cardinality(B) \in Nat /\ Cardinality(C) \in Nat
      /\ Cardinality(F) \in Nat /\ Cardinality(G) \in Nat
  BY <1>1, <1>2, FS_CardinalityType
<1> QED BY <1>1, <1>2, <1>4, <1>5, <1>6

(* The executors that work are counted, those being started included.       *)
LEMMA AllCounted ==
  ASSUME Inv
  PROVE  /\ \A p \in Requests : /\ Creates(p) /\ asking[p].s # 0 /\ Available(asking[p].s) /\ proc[asking[p].s].open
                                => Counted(Job(p).client)
         /\ \A p \in Requests : asking[p].pc = "start" => Creates(p) /\ asking[p].s = 0 /\ Making(asking[p]) /\ Counted(Job(p).client)
<1>0. ASSUME NEW p \in Requests, Creates(p), Making(asking[p]), Of(p).s = 0 PROVE Counted(Job(p).client)
  <2>1. Of(p).known /\ ~Of(p).done
    BY <1>0 DEF Inv, Makers, Makes
  <2>2. ~Of(p).err
    BY <2>1, Typed DEF Inv, Makers, Recorded, Of
  <2> QED BY <1>0, <2>1, <2>2 DEF Counted, Of
<1>1. ASSUME NEW p \in Requests, Creates(p), asking[p].s # 0, Available(asking[p].s), proc[asking[p].s].open
      PROVE  Counted(Job(p).client)
  <2>1. Makes(p) /\ Placed(asking[p], Job(p))
    BY <1>1, Typed DEF Inv, Makers
  <2>2. CASE Of(p).s = asking[p].s
    BY <1>1, <2>1, <2>2 DEF Makes, Counted, Of
  <2>3. CASE Of(p).s = 0
    <3>1. asking[p].pc = "starting"
      BY <1>1, <2>1, <2>3 DEF Makes
    <3>2. Making(asking[p])
      BY <2>1, <3>1 DEF Placed, Making
    <3> QED BY <1>0, <1>1, <2>3, <3>2
  <2> QED BY <1>1, <2>1, <2>2, <2>3 DEF Makes
<1>2. ASSUME NEW p \in Requests, asking[p].pc = "start"
      PROVE  Creates(p) /\ asking[p].s = 0 /\ Making(asking[p]) /\ Counted(Job(p).client)
  <2>1. Placed(asking[p], Job(p)) /\ Job(p).op \in BrokerOps
    BY Typed DEF Jobs
  <2>2. Job(p).op = "create"
    BY <1>2, <2>1 DEF Placed, Path, BrokerOps, Stopping, Setting
  <2>3. asking[p].s = 0
    BY <1>2, <2>1 DEF Placed, IdleRequest
  <2>4. Creates(p) /\ Making(asking[p])
    BY <1>2, <2>2 DEF Creates, Making
  <2>5. Of(p).s = 0
    BY <1>2, <2>4 DEF Inv, Makers, Makes
  <2> QED BY <1>0, <2>3, <2>4, <2>5
<1> QED BY <1>1, <1>2

(* At most MaxLive executors work, those being started included: each has   *)
(* its own entry among the creations that create counts.                    *)
THEOREM WithinLimit == BrokerSpec => []Capacity
<1>1. ASSUME Inv PROVE Capacity
  <2> DEFINE A == {s \in DOMAIN sess : Available(s) /\ proc[s].open}
             B == {p \in Requests : asking[p].pc = "start"}
             C == {c \in Inputs : Counted(c)}
             Maker(s) == CHOOSE p \in Requests : Creates(p) /\ asking[p].s = s
             f == [s \in A |-> Job(Maker(s)).client]
             g == [p \in B |-> Job(p).client]
  <2>1. IsFiniteSet(C)
    BY BrokerAssumption, FS_Subset
  <2>2. ASSUME NEW s \in A PROVE Maker(s) \in Requests /\ Creates(Maker(s)) /\ asking[Maker(s)].s = s /\ s # 0 /\ Job(Maker(s)).client \in C
    <3>1. s \in 1..Len(sess)
      BY <1>1, Typed
    <3>2. \E p \in Requests : Creates(p) /\ asking[p].s = s
      BY <1>1, <3>1, Creator
    <3>3. Maker(s) \in Requests /\ Creates(Maker(s)) /\ asking[Maker(s)].s = s /\ s # 0
      BY <3>1, <3>2
    <3> HIDE DEF Maker
    <3>4. Counted(Job(Maker(s)).client) /\ Job(Maker(s)).client \in Inputs
      BY <1>1, <2>2, <3>3, AllCounted, Typed
    <3> QED BY <3>3, <3>4
  <2>3. ASSUME NEW p \in B PROVE p \in Requests /\ Creates(p) /\ asking[p].s = 0 /\ Making(asking[p]) /\ asking[p].pc = "start" /\ Job(p).client \in C
    BY <1>1, <2>3, AllCounted, Typed
  <2> HIDE DEF Maker, C
  <2>4. f \in [A -> C] /\ g \in [B -> C]
    BY <2>2, <2>3
  <2>5. ASSUME NEW s \in A, NEW t \in A, f[s] = f[t] PROVE s = t
    <3>1. Maker(s) # Maker(t) => Rivals(Maker(s), Maker(t))
      BY <1>1, <2>2 DEF Inv, Makers
    <3>2. Job(Maker(s)).client = Job(Maker(t)).client
      BY <2>5
    <3> QED BY <2>2, <3>1, <3>2 DEF Rivals
  <2>6. ASSUME NEW p \in B, NEW o \in B, g[p] = g[o] PROVE p = o
    <3>1. p # o => Rivals(p, o)
      BY <1>1, <2>3 DEF Inv, Makers
    <3>2. Job(p).client = Job(o).client
      BY <2>6
    <3> QED BY <2>3, <3>1, <3>2 DEF Rivals
  <2>7. ASSUME NEW s \in A, NEW p \in B PROVE f[s] # g[p]
    <3>1. Maker(s) # p
      BY <2>2, <2>3
    <3>2. Rivals(Maker(s), p)
      BY <1>1, <2>2, <2>3, <3>1 DEF Inv, Makers
    <3>3. Job(Maker(s)).client # Job(p).client
      BY <2>2, <2>3, <3>2 DEF Rivals
    <3> QED BY <3>3
  <2> HIDE DEF f, g, A, B
  <2>8. /\ Cardinality(A) \in Nat /\ Cardinality(B) \in Nat /\ Cardinality(C) \in Nat
        /\ Cardinality(A) + Cardinality(B) <= Cardinality(C)
    BY <2>1, <2>4, <2>5, <2>6, <2>7, TwoInto
  <2>9. Cardinality(C) <= MaxLive /\ MaxLive \in Nat
    BY <1>1, BrokerAssumption DEF Inv, Limit, C
  <2>10. Cardinality(A) + Cardinality(B) <= MaxLive
    BY <2>8, <2>9
  <2> QED BY <2>10 DEF Capacity, A, B
<1> QED BY <1>1, BrokerInv, PTL
==============================================================================
