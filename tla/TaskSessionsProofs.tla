-------------------------- MODULE TaskSessionsProofs --------------------------
(***************************************************************************)
(* Proofs about TaskSessions, for any tasks, connections, clients and      *)
(* calls: bound mutations reach only what their access showed, nobody      *)
(* waits for a caller that is gone, and a shutdown is final.               *)
(***************************************************************************)
EXTENDS TaskSessions, FiniteSetTheorems, TLAPS

(* One operation, by itself.                                                *)
Steps == {"idle", "acquire", "wait", "factory", "opened", "attach", "publish", "finish", "failed", "none",
          "provenance", "got", "run", "access", "epoch", "snapshot", "recheck", "send"}
Methods == {"none", "turn/start", "turn/steer", "turn/interrupt", "thread/settings/update"}
Nexts == {"none", "entry", "nil", "error", "bind", "access", "dispatch"}
Operations ==
  [kind : Kinds, pc : Steps, t : Tasks \cup {None}, k : Conns \cup {None}, bind : Bindings,
   lead : Clients \cup {None}, epoch : Turns, seen : Turns, turn : Turns, method : Methods, next : Nexts]
OpeningSteps == {"factory", "opened", "attach", "publish", "finish"}
Connected == {"opened", "attach", "provenance", "publish", "got", "run", "epoch", "snapshot", "recheck", "send"}
Admitting == {"opened", "attach", "provenance", "publish"}
Locking == {"run", "epoch", "snapshot", "recheck", "send"}
Creates(o) == o.kind = "create"
Dispatches(o) ==
  o.pc = "send" /\ o.bind # NoBinding =>
    /\ o.k = o.bind.k
    /\ o.method \in {"turn/steer", "turn/interrupt"} => o.turn = o.bind.seen
    /\ o.method = "turn/start" => ~Active(o.bind.seen)
Proper(o) ==
  /\ o \in Operations
  /\ o.pc # "idle" /\ ~Creates(o) => o.t \in Tasks
  /\ Creates(o) => /\ o.pc \in {"factory", "opened", "provenance", "publish", "send"} /\ o.bind = NoBinding
                   /\ o.pc \in {"factory", "opened"} => o.t = None
                   /\ o.pc \in {"provenance", "publish", "send"} => o.t \in Tasks
  /\ o.pc = "provenance" => Creates(o)
  /\ o.pc = "idle" => o.kind = "read" /\ o.t = None
  /\ o.pc \in Connected => o.k \in Conns
  /\ o.pc = "finish" => o.next \in {"entry", "nil", "error"} /\ (o.next = "entry" => o.k \in Conns)
  /\ o.pc \in {"epoch", "snapshot", "recheck"} => o.next \in {"bind", "access", "dispatch"}
  /\ o.lead # None <=> o.pc = "wait"
  /\ Dispatches(o)
Operating == op \in [Clients -> Operations] /\ \A c \in Clients : Proper(op[c])

(* The operations among themselves: the shared attempts and the locks.      *)
Opens(c) == op[c].pc \in OpeningSteps /\ ~Creates(op[c])
Openers == \A t \in Tasks : opening[t] # None => Opens(opening[t]) /\ op[opening[t]].t = t
Leaders == \A c \in Clients : Opens(c) => opening[op[c].t] = c
Waiters == \A c \in Clients : op[c].pc = "wait" => opening[op[c].t] = op[c].lead
Lockers == \A k \in Conns : lock[k] # None => op[lock[k]].k = k /\ op[lock[k]].pc \in Locking
Table ==
  /\ entries \in [Tasks -> Conns \cup {None}] /\ opening \in [Tasks -> Clients \cup {None}]
  /\ lock \in [Conns -> Clients \cup {None}]
  /\ conn \in [Conns -> [st : {"free", "open", "closed", "gone"}, t : Tasks \cup {None}, reg : BOOLEAN, told : Turns]]
  /\ \A k \in Conns : conn[k].reg => conn[k].t \in Tasks /\ conn[k].st # "free"
Natively ==
  /\ held \in [Clients -> Bindings] /\ phase \in [Tasks -> Turns]
  /\ known \subseteq created /\ created \subseteq Tasks
  /\ \A c \in Clients : op[c].t \in created \cup {None}
  /\ calling \in [Clients -> SUBSET Kinds]
Pending == {c \in Clients : op[c].pc # "idle" /\ op[c].kind \in Mutations}
Counted == writes = Cardinality(Pending)
(* From the fence on nothing is pending that could still change a task.     *)
Fenced ==
  /\ draining \in BOOLEAN /\ closed \in BOOLEAN /\ stopping \in {"no", "verify", "prepared"}
  /\ stopping # "no" => draining /\ Pending = {}
(* A connection that is being admitted is one the factory gave.            *)
Taken == \A c \in Clients : op[c].pc \in Admitting => conn[op[c].k].st # "free"
Inv == Operating /\ Taken /\ Openers /\ Leaders /\ Waiters /\ Lockers /\ Table /\ Natively /\ Counted /\ Fenced

(* What a helper whose fence stands leaves behind, when no task is asked    *)
(* for before its creation returned.                                        *)
Closing == FenceStands => \A t \in Tasks : entries[t] = None
(* Nobody but its creator knows a task that is being created ...            *)
Known ==
  /\ \A c \in Clients : op[c].t # None => IF Creates(op[c]) THEN op[c].t \notin known ELSE op[c].t \in known
  /\ \A c, d \in Clients : (Creates(op[c]) /\ Creates(op[d]) /\ op[c].t = op[d].t /\ op[c].t # None) => c = d
  /\ \A t \in Tasks : entries[t] # None => t \in created
(* ... so the entry that is published replaces no other.                    *)
Vacant ==
  \A c \in Clients :
    ((Opens(c) /\ op[c].pc # "finish") \/ op[c].pc \in {"provenance", "publish"}) => entries[op[c].t] = None
(* An open connection is published, or on its way there.                    *)
Owners ==
  \A k \in Conns : conn[k].st = "open" =>
    \/ \E t \in Tasks : entries[t] = k
    \/ \E c \in Clients : op[c].k = k /\ op[c].pc \in Admitting
Final == Closing /\ Known /\ Vacant /\ Owners

-----------------------------------------------------------------------------
LEMMA Distinct == None \notin Tasks /\ None \notin Conns /\ None \notin Clients
  BY TaskSessionsAssumption

LEMMA NoBindingTyped == NoBinding \in Bindings /\ 0 \in Turns
  BY TaskSessionsAssumption DEF NoBinding, Binding, Bindings, Turns

LEMMA IdleIs ==
  /\ Idle \in Operations /\ Proper(Idle) /\ Idle.pc = "idle" /\ Idle.kind = "read" /\ Idle.t = None /\ Idle.k = None
  /\ Idle.lead = None
<1>1. Idle \in Operations
  BY NoBindingTyped DEF Idle, Operations, Kinds, Steps, Methods, Nexts
<1>2. Idle.pc = "idle" /\ Idle.kind = "read" /\ Idle.t = None /\ Idle.k = None /\ Idle.lead = None
  BY DEF Idle
<1> QED BY <1>1, <1>2 DEF Proper, Creates, Connected, Dispatches

-----------------------------------------------------------------------------
(* One client moves on inside its operation.                                *)
Moves(c) ==
  /\ op' = [op EXCEPT ![c] = op'[c]] /\ Proper(op'[c]) /\ op[c].pc # "idle" /\ op'[c].pc # "idle"
  /\ op'[c].kind = op[c].kind /\ writes' = writes
Shared == Operating /\ Openers /\ Leaders /\ Waiters /\ Lockers /\ Counted

LEMMA MovesCount ==
  ASSUME Operating, NEW c \in Clients, Moves(c), Counted
  PROVE  Operating' /\ Pending' = Pending /\ Counted'
<1>1. Operating'
  BY DEF Moves, Operating, Proper
<1>2. Pending' = Pending
  BY DEF Moves, Pending, Operating
<1> QED BY <1>1, <1>2 DEF Counted, Moves

LEMMA ClientMoves ==
  ASSUME Inv, NEW c \in Clients, Moves(c), op'[c].pc # "wait", UNCHANGED opening,
         Opens(c)' <=> Opens(c), Opens(c) => op'[c].t = op[c].t,
         \/ lock' = lock /\ (op[c].pc \in Locking => op'[c].pc \in Locking /\ op'[c].k = op[c].k)
         \/ \E k \in Conns : /\ lock' = [lock EXCEPT ![k] = c] /\ op[c].pc \notin Locking
                             /\ op'[c].pc \in Locking /\ op'[c].k = k
  PROVE  Shared' /\ Pending' = Pending
<1> USE Distinct
<1>1. Operating' /\ Pending' = Pending /\ Counted'
  BY MovesCount DEF Inv
<1>2. \A d \in Clients : d # c => op'[d] = op[d]
  BY DEF Moves, Inv, Operating
<1>3. \A d \in Clients : Opens(d)' <=> Opens(d)
  BY <1>2 DEF Opens
<1>4. Openers' /\ Leaders'
  <2>1. \A d \in Clients : Opens(d) => op'[d].t = op[d].t
    BY <1>2
  <2>2. \A t \in Tasks : opening[t] # None => opening[t] \in Clients
    BY DEF Inv, Table
  <2> QED BY <1>3, <2>1, <2>2 DEF Inv, Openers, Leaders
<1>5. Waiters'
  BY <1>2 DEF Inv, Waiters
<1>6. Lockers'
  <2> SUFFICES ASSUME NEW k \in Conns, lock'[k] # None
               PROVE  op'[lock'[k]].k = k /\ op'[lock'[k]].pc \in Locking
    BY DEF Lockers
  <2>1. lock[k] \in Clients \cup {None} /\ (lock[k] # None => op[lock[k]].k = k /\ op[lock[k]].pc \in Locking)
    BY DEF Inv, Table, Lockers
  <2>2. CASE lock' = lock /\ (op[c].pc \in Locking => op'[c].pc \in Locking /\ op'[c].k = op[c].k)
    BY <1>2, <2>1, <2>2
  <2>3. CASE \E j \in Conns : /\ lock' = [lock EXCEPT ![j] = c] /\ op[c].pc \notin Locking
                              /\ op'[c].pc \in Locking /\ op'[c].k = j
    <3>1. PICK j \in Conns : /\ lock' = [lock EXCEPT ![j] = c] /\ op[c].pc \notin Locking
                             /\ op'[c].pc \in Locking /\ op'[c].k = j
      BY <2>3
    <3>2. lock'[k] = IF k = j THEN c ELSE lock[k]
      BY <3>1 DEF Inv, Table
    <3> QED BY <1>2, <2>1, <3>1, <3>2
  <2> QED BY <2>2, <2>3
<1> QED BY <1>1, <1>4, <1>5, <1>6 DEF Shared

LEMMA LeaveIs ==
  ASSUME Inv, NEW c \in Clients, Leave(c)
  PROVE  /\ op'[c] = Idle /\ op' = [op EXCEPT ![c] = Idle] /\ \A d \in Clients : d # c => op'[d] = op[d]
         /\ \A k \in Conns : lock'[k] = IF lock[k] = c THEN None ELSE lock[k]
         /\ lock' \in [Conns -> Clients \cup {None}]
         /\ known \subseteq known' /\ (~Creates(op[c]) \/ op[c].t = None => known' = known)
         /\ Creates(op[c]) /\ op[c].t # None => known' = known \cup {op[c].t}
  BY DEF Leave, Inv, Operating, Table, Creates

LEMMA ClientLeaves ==
  ASSUME Inv, NEW c \in Clients, Leave(c), op[c].pc # "idle", ~Opens(c), UNCHANGED opening
  PROVE  Shared' /\ Pending' \subseteq Pending
<1> USE Distinct, IdleIs, LeaveIs
<1>1. Operating'
  BY DEF Inv, Operating
<1>2. Pending' = Pending \ {c}
  BY DEF Pending
<1>3. Counted'
  <2>1. IsFiniteSet(Pending)
    BY FS_Subset, TaskSessionsAssumption DEF Pending
  <2>2. CASE op[c].kind \in Mutations
    <3>1. c \in Pending /\ writes' = writes - 1
      BY <2>2 DEF Pending, Leave
    <3>2. Cardinality(Pending \ {c}) = Cardinality(Pending) - 1
      BY <2>1, <3>1, FS_RemoveElement
    <3> QED BY <1>2, <3>1, <3>2 DEF Counted, Inv
  <2>3. CASE op[c].kind \notin Mutations
    <3>1. Pending' = Pending /\ writes' = writes
      BY <1>2, <2>3 DEF Pending, Leave
    <3> QED BY <3>1 DEF Counted, Inv
  <2> QED BY <2>2, <2>3
<1>4. \A d \in Clients : Opens(d)' <=> Opens(d) /\ d # c
  BY DEF Opens, OpeningSteps
<1>5. Openers' /\ Leaders'
  <2>1. \A t \in Tasks : opening[t] # None => opening[t] \in Clients
    BY DEF Inv, Table
  <2> QED BY <1>4, <2>1 DEF Inv, Openers, Leaders
<1>6. Waiters'
  BY DEF Inv, Waiters
<1>7. Lockers'
  BY DEF Inv, Lockers, Table
<1> QED BY <1>1, <1>2, <1>3, <1>5, <1>6, <1>7 DEF Shared

(* A failed operation leaves, unless others share its attempt.              *)
LEMMA ClientFails ==
  ASSUME Inv, NEW c \in Clients, Fail(c), op[c].pc # "idle", UNCHANGED opening, op[c].pc # "finish",
         op[c].pc \notin Locking
  PROVE  /\ Shared' /\ Pending' \subseteq Pending
         /\ lock' \in [Conns -> Clients \cup {None}] /\ \A d \in Clients : d # c => op'[d] = op[d]
         /\ \/ Leave(c) /\ ~Opens(c)
            \/ /\ Opens(c) /\ op'[c].pc = "finish" /\ op'[c].t = op[c].t /\ op'[c].kind = op[c].kind /\ op'[c].k = None
               /\ UNCHANGED <<writes, lock, known>>
<1> USE Distinct
<1>0. Proper(op[c]) /\ op[c] \in Operations /\ op \in [Clients -> Operations]
  BY DEF Inv, Operating
<1>1. CASE Opens(c)
  <2>1. op' = [op EXCEPT ![c].pc = "finish", ![c].k = None, ![c].next = "error"] /\ UNCHANGED <<writes, lock, known>>
    BY <1>1 DEF Fail, Opens, OpeningSteps, Creates
  <2>2. op'[c] = [op[c] EXCEPT !.pc = "finish", !.k = None, !.next = "error"]
    BY <1>0, <2>1
  <2>3. op'[c] \in Operations
    <3>1. "finish" \in Steps /\ "error" \in Nexts
      BY DEF Steps, Nexts
    <3> QED BY <1>0, <2>2, <3>1 DEF Operations
  <2>4. /\ op'[c].pc = "finish" /\ op'[c].next = "error" /\ op'[c].t = op[c].t /\ op'[c].kind = op[c].kind
        /\ op'[c].bind = op[c].bind /\ op'[c].lead = op[c].lead /\ op'[c].k = None
    BY <1>0, <2>2 DEF Operations
  <2>5. Proper(op'[c])
    BY <1>0, <1>1, <2>3, <2>4 DEF Proper, Creates, Connected, Dispatches, Opens, OpeningSteps
  <2>6. op' = [op EXCEPT ![c] = op'[c]] /\ \A d \in Clients : d # c => op'[d] = op[d]
    BY <1>0, <2>1, <2>2
  <2>7. Moves(c) /\ op'[c].pc # "wait"
    BY <2>1, <2>4, <2>5, <2>6 DEF Moves
  <2>8. Opens(c)'
    BY <1>1, <2>4 DEF Opens, OpeningSteps, Creates
  <2>9. Shared' /\ Pending' = Pending
    BY <1>1, <2>1, <2>4, <2>7, <2>8, ClientMoves
  <2> QED BY <1>1, <2>1, <2>4, <2>6, <2>9 DEF Inv, Table
<1>2. CASE ~Opens(c)
  <2>1. Leave(c)
    BY <1>2 DEF Fail, Opens, OpeningSteps, Creates
  <2> QED BY <1>2, <2>1, ClientLeaves, LeaveIs
<1> QED BY <1>1, <1>2

-----------------------------------------------------------------------------
(* What a client's step may do to the table and the connections without     *)
(* anything new being published.                                            *)
Narrows ==
  /\ \A t \in Tasks : entries'[t] = entries[t] \/ (entries'[t] = None /\ conn'[entries[t]].st # "open")
  /\ \A k \in Conns : (conn'[k].st = "open" => conn[k].st = "open") /\ (conn[k].st # "free" => conn'[k].st # "free")
Tracked(c) == (Opens(c) /\ op[c].pc # "finish") \/ op[c].pc \in {"provenance", "publish"}
Stored == held' \in [Clients -> Bindings] /\ phase' \in [Tasks -> Turns]

LEMMA FinalClient ==
  ASSUME Inv, Final, NEW c \in Clients, \A d \in Clients : d # c => op'[d] = op[d],
         UNCHANGED <<draining, stopping, closed>>, Narrows, Known',
         op[c].pc \in Admitting => conn'[op[c].k].st # "open" \/ (op'[c].pc \in Admitting /\ op'[c].k = op[c].k),
         Tracked(c)' => entries[op'[c].t] = None /\ op'[c].t \in Tasks
  PROVE  Final'
<1> USE Distinct
<1>1. Closing'
  BY DEF Final, Closing, FenceStands, Narrows
<1>2. \A d \in Clients : d # c => (Tracked(d)' <=> Tracked(d))
  BY DEF Tracked, Opens
<1>3. \A d \in Clients : Tracked(d) => entries[op[d].t] = None /\ op[d].t \in Tasks
  BY DEF Final, Vacant, Tracked, Inv, Operating, Proper, Opens, Creates, OpeningSteps
<1>4. \A d \in Clients : Tracked(d)' => entries'[op'[d].t] = None
  BY <1>2, <1>3 DEF Narrows
<1>5. Vacant'
  BY <1>4 DEF Vacant, Tracked
<1>6. Owners'
  <2> SUFFICES ASSUME NEW k \in Conns, conn'[k].st = "open"
               PROVE  \/ \E t \in Tasks : entries'[t] = k
                      \/ \E d \in Clients : op'[d].k = k /\ op'[d].pc \in Admitting
    BY DEF Owners
  <2>1. conn[k].st = "open"
    BY DEF Narrows
  <2>2. ASSUME NEW t \in Tasks, entries[t] = k PROVE entries'[t] = k
    BY <2>2 DEF Narrows
  <2>3. ASSUME NEW d \in Clients, op[d].k = k, op[d].pc \in Admitting
        PROVE  op'[d].k = k /\ op'[d].pc \in Admitting
    BY <2>3
  <2> QED BY <2>1, <2>2, <2>3 DEF Final, Owners
<1> QED BY <1>1, <1>5, <1>6 DEF Final

LEMMA KnownKept ==
  ASSUME Known, \A d \in Clients : op'[d].t = op[d].t /\ op'[d].kind = op[d].kind,
         UNCHANGED <<known, created>>, \A t \in Tasks : entries'[t] # None => entries[t] # None
  PROVE  Known'
  BY DEF Known, Creates

LEMMA KnownLeaves ==
  ASSUME Inv, Known, NEW c \in Clients, Leave(c), UNCHANGED created,
         \A t \in Tasks : entries'[t] # None => entries[t] # None
  PROVE  Known'
<1> USE Distinct
<1>1. /\ op'[c].t = None /\ \A d \in Clients : d # c => op'[d] = op[d]
      /\ known \subseteq known' /\ known' \subseteq known \cup {op[c].t}
      /\ ~Creates(op[c]) => known' = known
  BY LeaveIs, IdleIs
<1>2. ASSUME NEW d \in Clients, op'[d].t # None
      PROVE  IF Creates(op'[d]) THEN op'[d].t \notin known' ELSE op'[d].t \in known'
  <2>1. d # c /\ op'[d] = op[d]
    BY <1>1, <1>2
  <2>2. CASE Creates(op[d])
    <3>1. op[d].t \notin known
      BY <1>2, <2>1, <2>2 DEF Known
    <3>2. Creates(op[c]) => op[c].t # op[d].t
      BY <1>2, <2>1, <2>2 DEF Known
    <3> QED BY <1>1, <2>1, <2>2, <3>1, <3>2
  <2>3. CASE ~Creates(op[d])
    BY <1>1, <1>2, <2>1, <2>3 DEF Known
  <2> QED BY <2>2, <2>3, <2>1
<1>3. ASSUME NEW d \in Clients, NEW e \in Clients, Creates(op'[d]), Creates(op'[e]), op'[d].t = op'[e].t, op'[d].t # None
      PROVE  d = e
  BY <1>1, <1>3 DEF Known
<1> QED BY <1>2, <1>3 DEF Known, Creates

LEMMA NativelyKept ==
  ASSUME Inv, NEW c \in Clients, \A d \in Clients : d # c => op'[d] = op[d], op'[c].t \in {None, op[c].t},
         UNCHANGED <<created, calling>>, Stored, known' \subseteq known \cup ({op[c].t} \ {None})
  PROVE  Natively'
<1>1. \A d \in Clients : op[d].t \in created \cup {None}
  BY DEF Inv, Natively
<1>2. known \subseteq created /\ created \subseteq Tasks /\ calling \in [Clients -> SUBSET Kinds]
  BY DEF Inv, Natively
<1>3. \A d \in Clients : op'[d].t \in created' \cup {None}
  BY <1>1
<1> QED BY <1>1, <1>2, <1>3 DEF Natively, Stored

LEMMA FencedKept ==
  ASSUME Inv, UNCHANGED <<draining, stopping, closed>>, Pending' \subseteq Pending
  PROVE  Fenced'
  BY DEF Inv, Fenced

LEMMA TakenKept ==
  ASSUME Inv, NEW c \in Clients, \A d \in Clients : d # c => op'[d] = op[d], Narrows,
         op'[c].pc \in Admitting => op[c].pc \in Admitting /\ op'[c].k = op[c].k
  PROVE  Taken'
<1>1. \A d \in Clients : op[d].pc \in Admitting => op[d].k \in Conns /\ conn[op[d].k].st # "free"
  BY DEF Inv, Taken, Operating, Proper, Admitting, Connected
<1> QED BY <1>1 DEF Taken, Narrows

LEMMA MoveKeeps ==
  ASSUME Inv, NEW c \in Clients, Moves(c), op'[c].pc # "wait", op'[c].t = op[c].t,
         UNCHANGED <<opening, draining, stopping, closed, calling, created, known>>, Opens(c)' <=> Opens(c),
         \/ lock' = lock /\ (op[c].pc \in Locking => op'[c].pc \in Locking /\ op'[c].k = op[c].k)
         \/ \E k \in Conns : /\ lock' = [lock EXCEPT ![k] = c] /\ op[c].pc \notin Locking
                             /\ op'[c].pc \in Locking /\ op'[c].k = k,
         Table', Stored, Narrows, Tracked(c)' => Tracked(c),
         op[c].pc \in Admitting => conn'[op[c].k].st # "open" \/ (op'[c].pc \in Admitting /\ op'[c].k = op[c].k),
         op'[c].pc \in Admitting => op[c].pc \in Admitting /\ op'[c].k = op[c].k
  PROVE  Inv' /\ (Final => Final')
<1>1. Shared' /\ Pending' = Pending
  BY ClientMoves
<1>2. \A d \in Clients : d # c => op'[d] = op[d]
  BY DEF Moves, Inv, Operating
<1>3. Natively'
  BY <1>2, NativelyKept
<1>4. Fenced'
  BY <1>1, FencedKept
<1>5. ASSUME Final PROVE Final'
  <2>1. Known'
    BY <1>2, <1>5, KnownKept DEF Final, Narrows, Moves
  <2>2. Tracked(c)' => entries[op'[c].t] = None /\ op'[c].t \in Tasks
    BY <1>5 DEF Final, Vacant, Tracked, Inv, Operating, Proper, Opens, OpeningSteps, Creates
  <2> QED BY <1>2, <1>5, <2>1, <2>2, FinalClient
<1>6. Taken'
  BY <1>2, TakenKept
<1> QED BY <1>1, <1>3, <1>4, <1>5, <1>6 DEF Inv, Shared

LEMMA LeaveKeeps ==
  ASSUME Inv, NEW c \in Clients, Leave(c), op[c].pc # "idle", ~Opens(c),
         UNCHANGED <<opening, draining, stopping, closed, calling, created>>, Table', Stored, Narrows,
         op[c].pc \in Admitting => conn'[op[c].k].st # "open"
  PROVE  Inv' /\ (Final => Final')
<1> USE Distinct
<1>1. Shared' /\ Pending' \subseteq Pending
  BY ClientLeaves
<1>2. /\ op'[c].t = None /\ op'[c].pc = "idle" /\ \A d \in Clients : d # c => op'[d] = op[d]
      /\ known' \subseteq known \cup ({op[c].t} \ {None})
  BY LeaveIs, IdleIs
<1>3. Natively'
  BY <1>2, NativelyKept
<1>4. Fenced'
  BY <1>1, FencedKept
<1>5. ASSUME Final PROVE Final'
  <2>1. Known'
    BY <1>5, KnownLeaves DEF Final, Narrows
  <2>2. ~Tracked(c)'
    BY <1>2 DEF Tracked, Opens, OpeningSteps
  <2> QED BY <1>2, <1>5, <2>1, <2>2, FinalClient
<1>6. Taken'
  BY <1>2, TakenKept DEF Admitting
<1> QED BY <1>1, <1>3, <1>4, <1>5, <1>6 DEF Inv, Shared

LEMMA FailKeeps ==
  ASSUME Inv, NEW c \in Clients, Fail(c), op[c].pc \notin {"idle", "finish"} \cup Locking,
         UNCHANGED <<opening, draining, stopping, closed, calling, created>>, Table', Stored, Narrows,
         op[c].pc \in Admitting => conn'[op[c].k].st # "open"
  PROVE  Inv' /\ (Final => Final')
<1>1. CASE Leave(c) /\ ~Opens(c)
  BY <1>1, LeaveKeeps
<1>2. CASE /\ Opens(c) /\ op'[c].pc = "finish" /\ op'[c].t = op[c].t /\ op'[c].kind = op[c].kind /\ op'[c].k = None
           /\ UNCHANGED <<writes, lock, known>>
  <2>1. Shared' /\ Pending' \subseteq Pending /\ \A d \in Clients : d # c => op'[d] = op[d]
    BY ClientFails
  <2>2. Natively'
    BY <1>2, <2>1, NativelyKept
  <2>3. Fenced'
    BY <2>1, FencedKept
  <2>4. ASSUME Final PROVE Final'
    <3>1. Known'
      BY <1>2, <2>1, <2>4, KnownKept DEF Final, Narrows
    <3>2. ~Tracked(c)'
      BY <1>2 DEF Tracked
    <3> QED BY <2>1, <2>4, <3>1, <3>2, FinalClient
  <2>5. Taken'
    BY <1>2, <2>1, TakenKept DEF Admitting
  <2> QED BY <2>1, <2>2, <2>3, <2>4, <2>5 DEF Inv, Shared
<1> QED BY <1>1, <1>2, ClientFails

(* The table, when it stays as it is, when a connection is closed, and when *)
(* one is given its handlers.                                               *)
LEMMA TableStill ==
  ASSUME Inv, UNCHANGED <<entries, opening, conn>>, lock' \in [Conns -> Clients \cup {None}]
  PROVE  Table' /\ Narrows
  BY DEF Inv, Table, Narrows

LEMMA CloseIs ==
  ASSUME Inv, NEW k \in Conns, CloseConn(k), UNCHANGED entries
  PROVE  /\ conn'[k].st # "open" /\ Narrows
         /\ (opening' \in [Tasks -> Clients \cup {None}] /\ lock' \in [Conns -> Clients \cup {None}]) => Table'
<1>1. conn \in [Conns -> [st : {"free", "open", "closed", "gone"}, t : Tasks \cup {None}, reg : BOOLEAN, told : Turns]]
  BY DEF Inv, Table
<1>2. /\ conn'[k].st # "open" /\ (conn[k].st # "free" => conn'[k].st # "free")
      /\ conn'[k].t = conn[k].t /\ (conn'[k].reg <=> conn[k].reg)
      /\ \A j \in Conns : j # k => conn'[j] = conn[j]
  BY <1>1 DEF CloseConn
<1>3. conn' \in [Conns -> [st : {"free", "open", "closed", "gone"}, t : Tasks \cup {None}, reg : BOOLEAN, told : Turns]]
  BY <1>1 DEF CloseConn
<1> QED BY <1>2, <1>3 DEF Inv, Table, Narrows


LEMMA RegisterIs ==
  ASSUME Inv, NEW c \in Clients, Register(c), op[c].k \in Conns, conn[op[c].k].st # "free",
         op[c].t \in Tasks, UNCHANGED <<opening, lock>>
  PROVE  Table' /\ Narrows
<1> USE Distinct
<1> DEFINE k == op[c].k
           t == op[c].t
<1>1. conn \in [Conns -> [st : {"free", "open", "closed", "gone"}, t : Tasks \cup {None}, reg : BOOLEAN, told : Turns]]
  BY DEF Inv, Table
<1>2. phase[t] \in Turns /\ entries \in [Tasks -> Conns \cup {None}]
  BY DEF Inv, Natively, Table
<1>3. conn' = [conn EXCEPT ![k].t = t, ![k].reg = TRUE, ![k].told = phase[t],
                           ![k].st = IF @ = "closed" THEN "gone" ELSE @]
  BY DEF Register
<1>a. /\ conn'[k] = [conn[k] EXCEPT !.t = t, !.reg = TRUE, !.told = phase[t],
                                   !.st = IF conn[k].st = "closed" THEN "gone" ELSE conn[k].st]
      /\ conn' = [conn EXCEPT ![k] = conn'[k]]
  BY <1>1, <1>3
<1>b. conn'[k] \in [st : {"free", "open", "closed", "gone"}, t : Tasks \cup {None}, reg : BOOLEAN, told : Turns]
  <2> DEFINE st == IF conn[k].st = "closed" THEN "gone" ELSE conn[k].st
  <2>1. conn[k] \in [st : {"free", "open", "closed", "gone"}, t : Tasks \cup {None}, reg : BOOLEAN, told : Turns]
    BY <1>1
  <2>2. st \in {"free", "open", "closed", "gone"} /\ t \in Tasks \cup {None} /\ TRUE \in BOOLEAN
    BY <2>1
  <2>3. conn'[k] = [conn[k] EXCEPT !.t = t, !.reg = TRUE, !.told = phase[t], !.st = st]
    BY <1>a
  <2> HIDE DEF st
  <2> QED BY <1>2, <2>1, <2>2, <2>3
<1>4. conn' \in [Conns -> [st : {"free", "open", "closed", "gone"}, t : Tasks \cup {None}, reg : BOOLEAN, told : Turns]]
  BY <1>1, <1>a, <1>b
<1>5. /\ conn'[k].t = t /\ conn'[k].st = (IF conn[k].st = "closed" THEN "gone" ELSE conn[k].st)
      /\ \A j \in Conns : j # k => conn'[j] = conn[j]
  BY <1>1, <1>3
<1>6. entries' = IF conn[k].st = "closed" /\ entries[t] = k THEN [entries EXCEPT ![t] = None] ELSE entries
  BY DEF Register
<1>7. entries' \in [Tasks -> Conns \cup {None}]
  BY <1>2, <1>6
<1>8. \A j \in Conns : conn'[j].reg => conn'[j].t \in Tasks /\ conn'[j].st # "free"
  BY <1>5 DEF Inv, Table
<1>9. Narrows
  <2>1. ASSUME NEW u \in Tasks PROVE entries'[u] = entries[u] \/ (entries'[u] = None /\ conn'[entries[u]].st # "open")
    BY <1>2, <1>5, <1>6
  <2>2. \A j \in Conns : (conn'[j].st = "open" => conn[j].st = "open") /\ (conn[j].st # "free" => conn'[j].st # "free")
    BY <1>5
  <2> QED BY <2>1, <2>2 DEF Narrows
<1> QED BY <1>4, <1>7, <1>8, <1>9 DEF Inv, Table

-----------------------------------------------------------------------------
(* The steps of a client, one by one.                                       *)
LEMMA OpIs ==
  ASSUME Inv, NEW c \in Clients
  PROVE  Proper(op[c]) /\ op[c] \in Operations /\ op \in [Clients -> Operations]
  BY DEF Inv, Operating

LEMMA StillStored ==
  ASSUME Inv, UNCHANGED <<held, phase>>
  PROVE  Stored
  BY DEF Inv, Natively, Stored

LEMMA GotoIs ==
  ASSUME Inv, NEW c \in Clients, NEW pc \in Steps, Goto(c, pc)
  PROVE  /\ op'[c] \in Operations /\ op' = [op EXCEPT ![c] = op'[c]] /\ UNCHANGED <<writes, lock, known>>
         /\ op'[c].pc = pc /\ op'[c].kind = op[c].kind /\ op'[c].t = op[c].t /\ op'[c].k = op[c].k
         /\ op'[c].bind = op[c].bind /\ op'[c].lead = op[c].lead /\ op'[c].next = op[c].next
<1>1. op' = [op EXCEPT ![c].pc = pc] /\ UNCHANGED <<writes, lock, known>>
  BY DEF Goto
<1>2. op'[c] = [op[c] EXCEPT !.pc = pc]
  BY <1>1, OpIs
<1>3. op'[c] \in Operations
  BY <1>2, OpIs DEF Operations
<1>4. op' = [op EXCEPT ![c] = op'[c]]
  BY <1>1, <1>2, OpIs
<1> QED BY <1>1, <1>2, <1>3, <1>4, OpIs DEF Operations

(* A step that leaves while nothing else changes.                           *)
LEMMA JustLeaves ==
  ASSUME Inv, NEW c \in Clients, Leave(c), op[c].pc \in {"got", "access", "failed", "none"} \cup Locking,
         UNCHANGED <<entries, opening, draining, conn, created, stopping, closed, calling>>, Stored
  PROVE  Inv' /\ (Final => Final')
<1>2. ~Opens(c) /\ op[c].pc # "idle" /\ op[c].pc \notin Admitting
  BY DEF Opens, OpeningSteps, Admitting, Locking
<1>3. Table' /\ Narrows
  BY LeaveIs, TableStill
<1> QED BY <1>2, <1>3, LeaveKeeps

LEMMA ReturnsKeeps ==
  ASSUME Inv, NEW c \in Clients, Returns(c), UNCHANGED calling
  PROVE  Inv' /\ (Final => Final')
  BY JustLeaves, StillStored DEF Returns

LEMMA OpenedKeeps ==
  ASSUME Inv, NEW c \in Clients, Opened(c), UNCHANGED calling
  PROVE  Inv' /\ (Final => Final')
<1>1. /\ op[c].pc = "opened" /\ ~Creates(op[c])
      /\ UNCHANGED <<opening, draining, held, phase, created, stopping, closed>>
  BY DEF Opened, Creates
<1>2. op[c].k \in Conns /\ op[c].t \in Tasks /\ Opens(c) /\ Tracked(c)
  BY <1>1, OpIs DEF Proper, Connected, Opens, OpeningSteps, Tracked
<1>3. CASE draining
  <2>1. CloseConn(op[c].k) /\ Fail(c) /\ UNCHANGED entries
    BY <1>3 DEF Opened
  <2>2. op[c].pc \notin {"idle", "finish"} \cup Locking
    BY <1>1 DEF Locking
  <2>3. lock' \in [Conns -> Clients \cup {None}] /\ opening' \in [Tasks -> Clients \cup {None}]
    BY <1>1, <2>1, <2>2, ClientFails DEF Inv, Table
  <2>4. Table' /\ Narrows /\ conn'[op[c].k].st # "open" /\ Stored
    BY <1>1, <1>2, <2>1, <2>3, CloseIs, StillStored
  <2> QED BY <1>1, <2>1, <2>2, <2>4, FailKeeps
<1>4. CASE ~draining
  <2>1. Register(c) /\ Goto(c, "attach")
    BY <1>4 DEF Opened
  <2>2. "attach" \in Steps
    BY DEF Steps
  <2>3. /\ op'[c] \in Operations /\ op' = [op EXCEPT ![c] = op'[c]] /\ UNCHANGED <<writes, lock, known>>
        /\ op'[c].pc = "attach" /\ op'[c].kind = op[c].kind /\ op'[c].t = op[c].t /\ op'[c].k = op[c].k
        /\ op'[c].bind = op[c].bind /\ op'[c].lead = op[c].lead
    BY <2>1, <2>2, GotoIs
  <2>4. Proper(op'[c])
    BY <1>1, <1>2, <2>3, OpIs DEF Proper, Creates, Connected, Dispatches
  <2>5. Moves(c) /\ op'[c].pc # "wait"
    BY <1>1, <2>3, <2>4 DEF Moves
  <2>6. Opens(c)' /\ op'[c].pc \in Admitting /\ op[c].pc \in Admitting /\ op[c].pc \notin Locking
    BY <1>1, <2>3 DEF Opens, OpeningSteps, Admitting, Creates, Locking
  <2>7. Table' /\ Narrows /\ Stored
    BY <1>1, <1>2, <2>1, <2>3, <2>6, RegisterIs, StillStored DEF Inv, Taken
  <2> QED BY <1>1, <1>2, <2>3, <2>5, <2>6, <2>7, MoveKeeps
<1> QED BY <1>3, <1>4

LEMMA AttachKeeps ==
  ASSUME Inv, NEW c \in Clients, Attach(c), UNCHANGED calling
  PROVE  Inv' /\ (Final => Final')
<1>1. /\ op[c].pc = "attach"
      /\ UNCHANGED <<entries, opening, draining, held, phase, created, stopping, closed>>
  BY DEF Attach
<1>2. op[c].k \in Conns /\ op[c].t \in Tasks /\ Opens(c) /\ Tracked(c) /\ ~Creates(op[c])
  BY <1>1, OpIs DEF Proper, Connected, Opens, OpeningSteps, Tracked
<1>3. CASE conn[op[c].k].st # "open"
  <2>1. CloseConn(op[c].k) /\ Fail(c)
    BY <1>3 DEF Attach
  <2>2. op[c].pc \notin {"idle", "finish"} \cup Locking
    BY <1>1 DEF Locking
  <2>3. lock' \in [Conns -> Clients \cup {None}] /\ opening' \in [Tasks -> Clients \cup {None}]
    BY <1>1, <2>1, <2>2, ClientFails DEF Inv, Table
  <2>4. Table' /\ Narrows /\ conn'[op[c].k].st # "open" /\ Stored
    BY <1>1, <1>2, <2>1, <2>3, CloseIs, StillStored
  <2> QED BY <1>1, <2>1, <2>2, <2>4, FailKeeps
<1>4. CASE conn[op[c].k].st = "open"
  <2>1. UNCHANGED conn /\ Goto(c, "publish")
    BY <1>4 DEF Attach
  <2>2. "publish" \in Steps
    BY DEF Steps
  <2>3. /\ op'[c] \in Operations /\ op' = [op EXCEPT ![c] = op'[c]] /\ UNCHANGED <<writes, lock, known>>
        /\ op'[c].pc = "publish" /\ op'[c].kind = op[c].kind /\ op'[c].t = op[c].t /\ op'[c].k = op[c].k
        /\ op'[c].bind = op[c].bind /\ op'[c].lead = op[c].lead
    BY <2>1, <2>2, GotoIs
  <2>4. Proper(op'[c])
    BY <1>1, <1>2, <2>3, OpIs DEF Proper, Creates, Connected, Dispatches
  <2>5. Moves(c) /\ op'[c].pc # "wait"
    BY <1>1, <2>3, <2>4 DEF Moves
  <2>6. Opens(c)' /\ op'[c].pc \in Admitting /\ op[c].pc \in Admitting /\ op[c].pc \notin Locking
    BY <1>1, <1>2, <2>3 DEF Opens, OpeningSteps, Admitting, Creates, Locking
  <2>7. Table' /\ Narrows /\ Stored
    BY <1>1, <2>1, <2>3, TableStill, StillStored DEF Inv, Table
  <2> QED BY <1>1, <1>2, <2>3, <2>5, <2>6, <2>7, MoveKeeps
<1> QED BY <1>3, <1>4

LEMMA ProvenanceKeeps ==
  ASSUME Inv, NEW c \in Clients, Provenance(c), UNCHANGED calling
  PROVE  Inv' /\ (Final => Final')
<1>1. /\ op[c].pc = "provenance"
      /\ UNCHANGED <<opening, draining, held, phase, created, stopping, closed>>
  BY DEF Provenance
<1>2. op[c].k \in Conns /\ op[c].t \in Tasks /\ ~Opens(c) /\ Tracked(c) /\ Creates(op[c])
  BY <1>1, OpIs DEF Proper, Connected, Opens, OpeningSteps, Tracked
<1>3. CASE CloseConn(op[c].k) /\ Leave(c) /\ UNCHANGED entries
  <2>1. lock' \in [Conns -> Clients \cup {None}] /\ opening' \in [Tasks -> Clients \cup {None}]
    BY <1>1, <1>3, LeaveIs DEF Inv, Table
  <2>2. Table' /\ Narrows /\ conn'[op[c].k].st # "open" /\ Stored
    BY <1>1, <1>2, <1>3, <2>1, CloseIs, StillStored
  <2> QED BY <1>1, <1>2, <1>3, <2>2, LeaveKeeps
<1>4. CASE Register(c) /\ Goto(c, "publish")
  <2>2. "publish" \in Steps
    BY DEF Steps
  <2>3. /\ op'[c] \in Operations /\ op' = [op EXCEPT ![c] = op'[c]] /\ UNCHANGED <<writes, lock, known>>
        /\ op'[c].pc = "publish" /\ op'[c].kind = op[c].kind /\ op'[c].t = op[c].t /\ op'[c].k = op[c].k
        /\ op'[c].bind = op[c].bind /\ op'[c].lead = op[c].lead
    BY <1>4, <2>2, GotoIs
  <2>4. Proper(op'[c])
    BY <1>1, <1>2, <2>3, OpIs DEF Proper, Creates, Connected, Dispatches
  <2>5. Moves(c) /\ op'[c].pc # "wait"
    BY <1>1, <2>3, <2>4 DEF Moves
  <2>6. ~Opens(c)' /\ op'[c].pc \in Admitting /\ op[c].pc \in Admitting /\ op[c].pc \notin Locking
    BY <1>1, <1>2, <2>3 DEF Opens, OpeningSteps, Admitting, Creates, Locking
  <2>7. Table' /\ Narrows /\ Stored
    BY <1>1, <1>2, <1>4, <2>3, <2>6, RegisterIs, StillStored DEF Inv, Taken
  <2> QED BY <1>1, <1>2, <2>3, <2>5, <2>6, <2>7, MoveKeeps
<1> QED BY <1>3, <1>4 DEF Provenance

LEMMA DraftRefusedKeeps ==
  ASSUME Inv, NEW c \in Clients, DraftRefused(c), UNCHANGED calling
  PROVE  Inv' /\ (Final => Final')
<1>1. /\ op[c].pc = "send" /\ CloseConn(op[c].k) /\ Leave(c)
      /\ UNCHANGED <<entries, opening, draining, held, phase, created, stopping, closed>>
  BY DEF DraftRefused
<1>2. op[c].k \in Conns /\ ~Opens(c) /\ op[c].pc # "idle" /\ op[c].pc \notin Admitting
  BY <1>1, OpIs DEF Proper, Connected, Opens, OpeningSteps, Admitting
<1>3. lock' \in [Conns -> Clients \cup {None}] /\ opening' \in [Tasks -> Clients \cup {None}]
  BY <1>1, LeaveIs DEF Inv, Table
<1>4. Table' /\ Narrows /\ Stored
  BY <1>1, <1>2, <1>3, CloseIs, StillStored
<1> QED BY <1>1, <1>2, <1>4, LeaveKeeps

-----------------------------------------------------------------------------
(* A client with a connection that is admitted moves on while the table     *)
(* stays as it is.                                                          *)
LEMMA JustMoves ==
  ASSUME Inv, NEW c \in Clients, Moves(c), op'[c].t = op[c].t, Stored,
         op[c].pc \in {"acquire", "got", "access"} \cup Locking, op'[c].pc \in {"got"} \cup Locking,
         UNCHANGED <<entries, opening, draining, conn, created, known, stopping, closed, calling>>,
         \/ lock' = lock /\ (op[c].pc \in Locking => op'[c].pc \in Locking /\ op'[c].k = op[c].k)
         \/ \E k \in Conns : /\ lock' = [lock EXCEPT ![k] = c] /\ op[c].pc \notin Locking
                             /\ op'[c].pc \in Locking /\ op'[c].k = k
  PROVE  Inv' /\ (Final => Final')
<1>1. /\ ~Opens(c) /\ ~Opens(c)' /\ op'[c].pc # "wait" /\ ~Tracked(c)' /\ op[c].pc \notin Admitting
      /\ op'[c].pc \notin Admitting
  BY DEF Opens, OpeningSteps, Tracked, Locking, Admitting
<1>2. lock' \in [Conns -> Clients \cup {None}]
  BY DEF Inv, Table
<1>3. Table' /\ Narrows
  BY <1>2, TableStill
<1> QED BY <1>1, <1>3, MoveKeeps

LEMMA UsesKeeps ==
  ASSUME Inv, NEW c \in Clients, Uses(c), UNCHANGED calling
  PROVE  Inv' /\ (Final => Final')
<1>1. /\ op[c].pc = "got"
      /\ UNCHANGED <<entries, opening, draining, conn, held, phase, created, stopping, closed>>
  BY DEF Uses
<1>2. Stored /\ op[c].k \in Conns
  BY <1>1, StillStored, OpIs DEF Proper, Connected
<1>3. CASE op[c].kind \in {"read", "archive"}
  BY <1>1, <1>2, <1>3, JustLeaves DEF Uses
<1>4. CASE op[c].kind \notin {"read", "archive"}
  <2> DEFINE pc == IF op[c].bind = NoBinding THEN "run" ELSE "epoch"
  <2>1. /\ lock' = [lock EXCEPT ![op[c].k] = c] /\ UNCHANGED <<writes, known>>
        /\ op' = [op EXCEPT ![c].pc = pc, ![c].next = "bind"]
    BY <1>4 DEF Uses
  <2>2. op'[c] = [op[c] EXCEPT !.pc = pc, !.next = "bind"]
    BY <2>1, OpIs
  <2>3. pc \in Steps /\ "bind" \in Nexts /\ pc \in Locking /\ pc \in {"run", "epoch"}
    BY DEF Steps, Nexts, Locking
  <2>4. op'[c] \in Operations
    BY <2>2, <2>3, OpIs DEF Operations
  <2>5. /\ op'[c].pc \in {"run", "epoch"} /\ op'[c].pc \in Locking /\ op'[c].next = "bind" /\ op'[c].t = op[c].t
        /\ op'[c].k = op[c].k /\ op'[c].kind = op[c].kind /\ op'[c].bind = op[c].bind /\ op'[c].lead = op[c].lead
    BY <2>2, <2>3, OpIs DEF Operations
  <2>6. Proper(op'[c])
    BY <1>1, <2>4, <2>5, OpIs DEF Proper, Creates, Connected, Dispatches
  <2>7. op' = [op EXCEPT ![c] = op'[c]]
    BY <2>1, <2>2, OpIs
  <2>8. Moves(c)
    BY <1>1, <2>1, <2>5, <2>6, <2>7 DEF Moves
  <2>9. op[c].pc \notin Locking
    BY <1>1 DEF Locking
  <2> QED BY <1>1, <1>2, <2>1, <2>5, <2>8, <2>9, JustMoves
<1> QED BY <1>3, <1>4

LEMMA EntriesAre ==
  ASSUME Inv, NEW t \in Tasks, entries[t] # None
  PROVE  entries[t] \in Conns
  BY DEF Inv, Table

LEMMA AccessKeeps ==
  ASSUME Inv, NEW c \in Clients, Access(c), UNCHANGED calling
  PROVE  Inv' /\ (Final => Final')
<1>1. /\ op[c].pc = "access"
      /\ UNCHANGED <<entries, opening, draining, conn, held, phase, created, stopping, closed>>
  BY DEF Access
<1>2. Stored /\ op[c].t \in Tasks
  BY <1>1, StillStored, OpIs DEF Proper
<1>3. CASE draining \/ entries[op[c].t] = None
  BY <1>1, <1>2, <1>3, JustLeaves DEF Access
<1>4. CASE ~(draining \/ entries[op[c].t] = None)
  <2> DEFINE k == entries[op[c].t]
  <2>1. op' = [op EXCEPT ![c].pc = "epoch", ![c].k = k, ![c].next = "access"] /\ UNCHANGED <<writes, lock, known>>
    BY <1>4 DEF Access
  <2>2. op'[c] = [op[c] EXCEPT !.pc = "epoch", !.k = k, !.next = "access"]
    BY <2>1, OpIs
  <2>3. "epoch" \in Steps /\ "access" \in Nexts /\ "epoch" \in Locking /\ k \in Conns
    BY <1>2, <1>4, EntriesAre DEF Steps, Nexts, Locking
  <2>4. op'[c] \in Operations
    BY <2>2, <2>3, OpIs DEF Operations
  <2>5. /\ op'[c].pc = "epoch" /\ op'[c].next = "access" /\ op'[c].t = op[c].t
        /\ op'[c].k \in Conns /\ op'[c].kind = op[c].kind /\ op'[c].bind = op[c].bind /\ op'[c].lead = op[c].lead
    BY <2>2, <2>3, OpIs DEF Operations
  <2>6. Proper(op'[c])
    BY <1>1, <2>4, <2>5, OpIs DEF Proper, Creates, Connected, Dispatches
  <2>7. op' = [op EXCEPT ![c] = op'[c]]
    BY <2>1, <2>2, OpIs
  <2>8. Moves(c)
    BY <1>1, <2>1, <2>5, <2>6, <2>7 DEF Moves
  <2>9. op[c].pc \notin Locking
    BY <1>1 DEF Locking
  <2> QED BY <1>1, <1>2, <2>1, <2>3, <2>5, <2>8, <2>9, JustMoves
<1> QED BY <1>3, <1>4

LEMMA ReadEpochKeeps ==
  ASSUME Inv, NEW c \in Clients, ReadEpoch(c), UNCHANGED calling
  PROVE  Inv' /\ (Final => Final')
<1>1. /\ op[c].pc = "epoch" /\ op[c].pc \in Locking
      /\ UNCHANGED <<entries, opening, draining, conn, held, phase, created, stopping, closed>>
  BY DEF ReadEpoch, Locking
<1>2. Stored /\ op[c].k \in Conns
  BY <1>1, StillStored, OpIs DEF Proper, Connected
<1>3. CASE ~Valid(c)
  BY <1>1, <1>2, <1>3, JustLeaves DEF ReadEpoch
<1>4. CASE Valid(c)
  <2> DEFINE n == conn[op[c].k].told
  <2>1. op' = [op EXCEPT ![c].pc = "snapshot", ![c].epoch = n] /\ UNCHANGED <<writes, lock, known>>
    BY <1>4 DEF ReadEpoch
  <2>2. op'[c] = [op[c] EXCEPT !.pc = "snapshot", !.epoch = n]
    BY <2>1, OpIs
  <2>3. "snapshot" \in Steps /\ "snapshot" \in Locking /\ n \in Turns
    BY <1>2 DEF Steps, Locking, Inv, Table
  <2>4. op'[c] \in Operations
    BY <2>2, <2>3, OpIs DEF Operations
  <2>5. /\ op'[c].pc = "snapshot" /\ op'[c].next = op[c].next /\ op'[c].t = op[c].t /\ op'[c].k = op[c].k
        /\ op'[c].kind = op[c].kind /\ op'[c].bind = op[c].bind /\ op'[c].lead = op[c].lead
    BY <2>2, <2>3, OpIs DEF Operations
  <2>6. Proper(op'[c])
    BY <1>1, <2>4, <2>5, OpIs DEF Proper, Creates, Connected, Dispatches
  <2>7. op' = [op EXCEPT ![c] = op'[c]]
    BY <2>1, <2>2, OpIs
  <2>8. Moves(c)
    BY <1>1, <2>1, <2>5, <2>6, <2>7 DEF Moves
  <2> QED BY <1>1, <1>2, <2>1, <2>3, <2>5, <2>8, JustMoves
<1> QED BY <1>3, <1>4

LEMMA ReadStateKeeps ==
  ASSUME Inv, NEW c \in Clients, ReadState(c), UNCHANGED calling
  PROVE  Inv' /\ (Final => Final')
<1>1. /\ op[c].pc = "snapshot" /\ op[c].pc \in Locking
      /\ UNCHANGED <<entries, opening, draining, conn, held, phase, created, stopping, closed>>
  BY DEF ReadState, Locking
<1>2. Stored /\ op[c].t \in Tasks
  BY <1>1, StillStored, OpIs DEF Proper, Creates
<1>3. CASE conn[op[c].k].st # "open"
  BY <1>1, <1>2, <1>3, JustLeaves DEF ReadState
<1>4. CASE conn[op[c].k].st = "open"
  <2> DEFINE n == phase[op[c].t]
  <2>1. op' = [op EXCEPT ![c].pc = "recheck", ![c].seen = n] /\ UNCHANGED <<writes, lock, known>>
    BY <1>4 DEF ReadState
  <2>2. op'[c] = [op[c] EXCEPT !.pc = "recheck", !.seen = n]
    BY <2>1, OpIs
  <2>3. "recheck" \in Steps /\ "recheck" \in Locking /\ n \in Turns
    BY <1>2 DEF Steps, Locking, Inv, Natively
  <2>4. op'[c] \in Operations
    BY <2>2, <2>3, OpIs DEF Operations
  <2>5. /\ op'[c].pc = "recheck" /\ op'[c].next = op[c].next /\ op'[c].t = op[c].t /\ op'[c].k = op[c].k
        /\ op'[c].kind = op[c].kind /\ op'[c].bind = op[c].bind /\ op'[c].lead = op[c].lead
    BY <2>2, <2>3, OpIs DEF Operations
  <2>6. Proper(op'[c])
    BY <1>1, <2>4, <2>5, OpIs DEF Proper, Creates, Connected, Dispatches
  <2>7. op' = [op EXCEPT ![c] = op'[c]]
    BY <2>1, <2>2, OpIs
  <2>8. Moves(c)
    BY <1>1, <2>1, <2>5, <2>6, <2>7 DEF Moves
  <2> QED BY <1>1, <1>2, <2>1, <2>3, <2>5, <2>8, JustMoves
<1> QED BY <1>3, <1>4

(* The binding is compared with what was read, under an unchanged epoch.    *)
LEMMA RecheckKeeps ==
  ASSUME Inv, NEW c \in Clients, Recheck(c), UNCHANGED calling
  PROVE  Inv' /\ (Final => Final')
<1> DEFINE valid == Valid(c) /\ conn[op[c].k].told = op[c].epoch
           b == Binding(op[c].k, op[c].epoch, op[c].seen)
           pass == valid /\ SameBinding(c) /\ (op[c].next = "dispatch" => Allowed(c))
<1>1. /\ op[c].pc = "recheck" /\ op[c].pc \in Locking
      /\ UNCHANGED <<entries, opening, draining, conn, phase, created, stopping, closed>>
  BY DEF Recheck, Locking
<1>2. op[c].k \in Conns /\ op[c].next \in {"bind", "access", "dispatch"}
  BY <1>1, OpIs DEF Proper, Connected
<1>3. CASE valid /\ op[c].next = "access"
  <2>1. held' = [held EXCEPT ![c] = b] /\ Leave(c)
    BY <1>3 DEF Recheck
  <2>2. b \in Bindings
    BY <1>2, OpIs DEF Binding, Bindings, Operations
  <2>3. Stored
    BY <1>1, <2>1, <2>2 DEF Stored, Inv, Natively
  <2> QED BY <1>1, <2>1, <2>3, JustLeaves
<1>4. CASE ~(valid /\ op[c].next = "access") /\ ~pass
  <2>1. Leave(c) /\ UNCHANGED held
    BY <1>4 DEF Recheck
  <2> QED BY <1>1, <2>1, StillStored, JustLeaves
<1>5. CASE ~(valid /\ op[c].next = "access") /\ pass
  <2> DEFINE pc == IF op[c].next = "bind" THEN "run" ELSE "send"
  <2>1. /\ op' = [op EXCEPT ![c].pc = pc, ![c].epoch = 0, ![c].seen = 0] /\ UNCHANGED <<writes, lock, known>>
        /\ UNCHANGED held
    BY <1>5 DEF Recheck
  <2>2. op'[c] = [op[c] EXCEPT !.pc = pc, !.epoch = 0, !.seen = 0]
    BY <2>1, OpIs
  <2>3. pc \in Steps /\ pc \in Locking
    BY DEF Steps, Locking
  <2>4. op'[c] \in Operations
    BY <2>2, <2>3, OpIs, NoBindingTyped DEF Operations
  <2>5. /\ op'[c].pc = pc /\ op'[c].next = op[c].next /\ op'[c].t = op[c].t /\ op'[c].k = op[c].k
        /\ op'[c].kind = op[c].kind /\ op'[c].bind = op[c].bind /\ op'[c].lead = op[c].lead
        /\ op'[c].method = op[c].method /\ op'[c].turn = op[c].turn
    BY <2>2, OpIs DEF Operations
  <2>6. Dispatches(op'[c])
    <3>1. SUFFICES ASSUME op'[c].pc = "send" PROVE Dispatches(op'[c])
      BY DEF Dispatches
    <3>2. op[c].next = "dispatch" /\ Allowed(c)
      BY <1>2, <1>5, <2>5, <3>1
    <3>3. op[c].bind.k = op[c].k /\ op[c].bind.seen = op[c].seen
      BY <1>5 DEF SameBinding, Binding
    <3>4. /\ op[c].method \in {"turn/steer", "turn/interrupt"} => op[c].turn = op[c].seen
          /\ op[c].method = "turn/start" => ~Active(op[c].seen)
      BY <3>2 DEF Allowed
    <3> QED BY <2>5, <3>3, <3>4 DEF Dispatches
  <2>7. Proper(op'[c])
    BY <1>1, <1>2, <2>4, <2>5, <2>6, OpIs DEF Proper, Creates, Connected
  <2>8. op' = [op EXCEPT ![c] = op'[c]]
    BY <2>1, <2>2, OpIs
  <2>9. Moves(c)
    BY <1>1, <2>1, <2>5, <2>7, <2>8 DEF Moves
  <2> HIDE DEF pc
  <2> QED BY <1>1, <2>1, <2>3, <2>5, <2>9, JustMoves, StillStored
<1> QED BY <1>3, <1>4, <1>5

LEMMA RunKeeps ==
  ASSUME Inv, NEW c \in Clients, Run(c), UNCHANGED calling
  PROVE  Inv' /\ (Final => Final')
<1> DEFINE n == phase[op[c].t]
           goes == conn[op[c].k].st = "open" /\ (op[c].kind = "stop" => op[c].turn = n)
<1>1. /\ op[c].pc = "run" /\ op[c].pc \in Locking
      /\ UNCHANGED <<entries, opening, draining, conn, held, phase, created, stopping, closed>>
  BY DEF Run, Locking
<1>2. Stored /\ op[c].t \in Tasks
  BY <1>1, StillStored, OpIs DEF Proper, Creates
<1>3. CASE ~goes
  BY <1>1, <1>2, <1>3, JustLeaves DEF Run
<1>4. CASE goes
  <2> DEFINE method == IF op[c].kind = "settings" THEN "thread/settings/update"
                       ELSE IF op[c].kind = "stop" THEN "turn/interrupt"
                       ELSE IF Active(n) THEN "turn/steer" ELSE "turn/start"
             turn == IF op[c].kind = "stop" THEN op[c].turn ELSE n
             pc == IF op[c].bind = NoBinding THEN "send" ELSE "epoch"
  <2>1. /\ op' = [op EXCEPT ![c].method = method, ![c].turn = IF op[c].kind = "stop" THEN @ ELSE n,
                            ![c].next = "dispatch", ![c].pc = pc]
        /\ UNCHANGED <<writes, lock, known>>
    BY <1>4 DEF Run
  <2>2. op'[c] = [op[c] EXCEPT !.method = method, !.turn = turn, !.next = "dispatch", !.pc = pc]
    BY <2>1, OpIs
  <2>3. pc \in Steps /\ pc \in Locking /\ n \in Turns /\ method \in Methods /\ "dispatch" \in Nexts
    BY <1>2 DEF Steps, Locking, Methods, Nexts, Inv, Natively
  <2>4. turn \in Turns
    BY <2>3, OpIs DEF Operations
  <2>5. op'[c] \in Operations
    <3> HIDE DEF method, turn, pc
    <3> QED BY <2>2, <2>3, <2>4, OpIs DEF Operations
  <2>6. /\ op'[c].pc = pc /\ op'[c].next = "dispatch" /\ op'[c].t = op[c].t /\ op'[c].k = op[c].k
        /\ op'[c].kind = op[c].kind /\ op'[c].bind = op[c].bind /\ op'[c].lead = op[c].lead
    <3> HIDE DEF method, turn, pc
    <3> QED BY <2>2, OpIs DEF Operations
  <2>7. Proper(op'[c])
    BY <1>1, <2>5, <2>6, OpIs DEF Proper, Creates, Connected, Dispatches
  <2>8. op' = [op EXCEPT ![c] = op'[c]]
    BY <2>1, <2>2, OpIs
  <2>9. Moves(c)
    BY <1>1, <2>1, <2>6, <2>7, <2>8 DEF Moves
  <2> HIDE DEF method, turn, pc
  <2> QED BY <1>1, <1>2, <2>1, <2>3, <2>6, <2>9, JustMoves
<1> QED BY <1>3, <1>4

LEMMA SendKeeps ==
  ASSUME Inv, NEW c \in Clients, Send(c), UNCHANGED calling
  PROVE  Inv' /\ (Final => Final')
<1>1. /\ op[c].pc = "send" /\ op[c].pc \in Locking /\ Leave(c)
      /\ UNCHANGED <<entries, opening, draining, conn, held, created, stopping, closed>>
  BY DEF Send, Locking
<1>2. op[c].t \in Tasks
  BY <1>1, OpIs DEF Proper
<1>3. phase' \in [Tasks -> Turns]
  <2>1. phase \in [Tasks -> Turns] /\ MaxPhase \in Nat
    BY TaskSessionsAssumption DEF Inv, Natively
  <2>2. CASE phase' = phase
    BY <2>1, <2>2
  <2>3. CASE phase' = [phase EXCEPT ![op[c].t] = @ + 1] /\ phase[op[c].t] < MaxPhase
    <3>1. phase[op[c].t] + 1 \in Turns
      BY <1>2, <2>1, <2>3 DEF Turns
    <3> QED BY <2>1, <2>3, <3>1
  <2> QED BY <2>2, <2>3 DEF Send
<1>4. Stored
  BY <1>1, <1>3 DEF Stored, Inv, Natively
<1> QED BY <1>1, <1>4, JustLeaves

-----------------------------------------------------------------------------
(* A step of a client that is not one of the above, by its parts.           *)
LEMMA Together ==
  ASSUME Shared', Natively', Fenced', Table', Taken', Final => Final'
  PROVE  Inv' /\ (Final => Final')
  BY DEF Inv, Shared

LEMMA AcquireKeeps ==
  ASSUME Inv, NEW c \in Clients, Acquire(c), UNCHANGED calling
  PROVE  Inv' /\ (Final => Final')
<1> USE Distinct
<1> DEFINE t == op[c].t
<1>1. /\ op[c].pc = "acquire"
      /\ UNCHANGED <<entries, draining, conn, held, phase, created, stopping, closed>>
  BY DEF Acquire
<1>2. Stored /\ t \in Tasks /\ ~Creates(op[c]) /\ ~Opens(c) /\ op[c].pc \notin Locking /\ op[c].pc \notin Admitting
      /\ op[c].lead = None
  BY <1>1, StillStored, OpIs DEF Proper, Creates, Opens, OpeningSteps, Locking, Admitting
<1>3. CASE Fail(c) /\ UNCHANGED opening
  <2>1. Leave(c)
    BY <1>1, <1>3 DEF Fail
  <2>2. Table' /\ Narrows
    BY <1>1, <1>3, <2>1, LeaveIs, TableStill
  <2> QED BY <1>1, <1>2, <1>3, <2>1, <2>2, LeaveKeeps
<1>4. CASE /\ op' = [op EXCEPT ![c].pc = "got", ![c].k = entries[t]] /\ UNCHANGED <<opening, writes, lock, known>>
           /\ entries[t] # None
  <2>1. op'[c] = [op[c] EXCEPT !.pc = "got", !.k = entries[t]] /\ op' = [op EXCEPT ![c] = op'[c]]
    BY <1>4, OpIs
  <2>2. "got" \in Steps /\ entries[t] \in Conns
    BY <1>2, <1>4, EntriesAre DEF Steps
  <2>3. op'[c] \in Operations
    BY <2>1, <2>2, OpIs DEF Operations
  <2>4. /\ op'[c].pc = "got" /\ op'[c].k \in Conns /\ op'[c].t = op[c].t /\ op'[c].kind = op[c].kind
        /\ op'[c].bind = op[c].bind /\ op'[c].lead = op[c].lead
    BY <2>1, <2>2, OpIs DEF Operations
  <2>5. Proper(op'[c])
    BY <1>1, <1>2, <2>3, <2>4, OpIs DEF Proper, Creates, Connected, Dispatches
  <2>6. Moves(c)
    BY <1>1, <1>4, <2>1, <2>4, <2>5 DEF Moves
  <2> QED BY <1>1, <1>2, <1>4, <2>4, <2>6, JustMoves
<1>5. CASE /\ op' = [op EXCEPT ![c].pc = "wait", ![c].lead = opening[t]] /\ UNCHANGED <<opening, writes, lock, known>>
           /\ opening[t] # None
  <2>1. op'[c] = [op[c] EXCEPT !.pc = "wait", !.lead = opening[t]] /\ op' = [op EXCEPT ![c] = op'[c]]
    BY <1>5, OpIs
  <2>2. "wait" \in Steps /\ opening[t] \in Clients
    BY <1>2, <1>5 DEF Steps, Inv, Table
  <2>3. op'[c] \in Operations
    BY <2>1, <2>2, OpIs DEF Operations
  <2>4. /\ op'[c].pc = "wait" /\ op'[c].lead = opening[t] /\ op'[c].t = t /\ op'[c].kind = op[c].kind
        /\ op'[c].bind = op[c].bind
    BY <2>1, <2>2, OpIs DEF Operations
  <2>5. Proper(op'[c])
    BY <1>1, <1>2, <1>5, <2>3, <2>4, OpIs DEF Proper, Creates, Connected, Dispatches
  <2>6. Moves(c)
    BY <1>1, <1>5, <2>1, <2>4, <2>5 DEF Moves
  <2>7. Operating' /\ Pending' = Pending /\ Counted'
    BY <2>6, MovesCount DEF Inv
  <2>8. \A d \in Clients : d # c => op'[d] = op[d]
    BY <2>1 DEF Inv, Operating
  <2>9. \A d \in Clients : Opens(d)' <=> (Opens(d) /\ d # c)
    BY <1>2, <2>4, <2>8 DEF Opens, OpeningSteps
  <2>10. Openers' /\ Leaders'
    <3>1. \A u \in Tasks : opening[u] # None => opening[u] \in Clients
      BY DEF Inv, Table
    <3>2. UNCHANGED opening
      BY <1>5
    <3>3. Openers'
      BY <1>2, <2>8, <2>9, <3>1, <3>2 DEF Inv, Openers
    <3> QED BY <2>8, <2>9, <3>2, <3>3 DEF Inv, Leaders
  <2>11. Waiters'
    BY <1>5, <2>4, <2>8 DEF Inv, Waiters
  <2>12. Lockers'
    <3>1. \A k \in Conns : lock[k] # None => lock[k] \in Clients /\ lock[k] # c
      BY <1>2 DEF Inv, Table, Lockers
    <3>2. UNCHANGED lock
      BY <1>5
    <3> QED BY <2>8, <3>1, <3>2 DEF Inv, Lockers
  <2>13. Table' /\ Narrows
    BY <1>1, <1>5, TableStill DEF Inv, Table
  <2>14. Natively' /\ Fenced'
    BY <1>1, <1>2, <1>5, <2>4, <2>7, <2>8, NativelyKept, FencedKept
  <2>15. Taken'
    BY <2>4, <2>8, <2>13, TakenKept DEF Admitting
  <2>16. ASSUME Final PROVE Final'
    <3>1. Known'
      BY <1>1, <1>5, <2>4, <2>8, <2>16, KnownKept DEF Final
    <3>2. ~Tracked(c)'
      BY <2>4 DEF Tracked, Opens, OpeningSteps
    <3> QED BY <1>1, <1>2, <2>8, <2>13, <2>16, <3>1, <3>2, FinalClient
  <2> QED BY <2>7, <2>10, <2>11, <2>12, <2>13, <2>14, <2>15, <2>16, Together DEF Shared
<1>6. CASE opening' = [opening EXCEPT ![t] = c] /\ Goto(c, "factory") /\ opening[t] = None /\ entries[t] = None
  <2>1. "factory" \in Steps
    BY DEF Steps
  <2>2. /\ op'[c] \in Operations /\ op' = [op EXCEPT ![c] = op'[c]] /\ UNCHANGED <<writes, lock, known>>
        /\ op'[c].pc = "factory" /\ op'[c].kind = op[c].kind /\ op'[c].t = t
        /\ op'[c].bind = op[c].bind /\ op'[c].lead = op[c].lead
    BY <1>6, <2>1, GotoIs
  <2>3. Proper(op'[c])
    BY <1>1, <1>2, <2>2, OpIs DEF Proper, Creates, Connected, Dispatches
  <2>4. Moves(c)
    BY <1>1, <2>2, <2>3 DEF Moves
  <2>5. Operating' /\ Pending' = Pending /\ Counted'
    BY <2>4, MovesCount DEF Inv
  <2>6. \A d \in Clients : d # c => op'[d] = op[d]
    BY <2>2 DEF Inv, Operating
  <2>7. \A d \in Clients : Opens(d)' <=> (Opens(d) \/ d = c)
    BY <1>2, <2>2, <2>6 DEF Opens, OpeningSteps, Creates
  <2>8. opening' \in [Tasks -> Clients \cup {None}] /\ \A u \in Tasks : opening'[u] = IF u = t THEN c ELSE opening[u]
    BY <1>2, <1>6 DEF Inv, Table
  <2>9. \A u \in Tasks : opening[u] # None => opening[u] \in Clients
    BY DEF Inv, Table
  <2>10. Openers'
    BY <1>2, <2>2, <2>6, <2>7, <2>8, <2>9 DEF Inv, Openers
  <2>11. Leaders'
    <3> SUFFICES ASSUME NEW d \in Clients, Opens(d)' PROVE opening'[op'[d].t] = d
      BY DEF Leaders
    <3>1. CASE d = c
      BY <1>2, <2>2, <2>8, <3>1
    <3>2. CASE d # c
      <4>1. Opens(d) /\ opening[op[d].t] = d
        BY <2>7, <3>2 DEF Inv, Leaders
      <4>2. op[d].t \in Tasks
        BY <4>1, OpIs DEF Proper, Opens, OpeningSteps
      <4> QED BY <1>6, <2>6, <2>8, <3>2, <4>1, <4>2
    <3> QED BY <3>1, <3>2
  <2>12. Waiters'
    <3> SUFFICES ASSUME NEW d \in Clients, op'[d].pc = "wait" PROVE opening'[op'[d].t] = op'[d].lead
      BY DEF Waiters
    <3>1. d # c /\ op'[d] = op[d] /\ opening[op[d].t] = op[d].lead /\ op[d].lead # None /\ op[d].t \in Tasks
      BY <2>2, <2>6, OpIs DEF Inv, Waiters, Proper, Creates
    <3> QED BY <1>6, <2>8, <3>1
  <2>13. Lockers'
    <3>1. \A k \in Conns : lock[k] # None => lock[k] \in Clients /\ lock[k] # c
      BY <1>2 DEF Inv, Table, Lockers
    <3> QED BY <2>2, <2>6, <3>1 DEF Inv, Lockers
  <2>14. Table' /\ Narrows
    BY <1>1, <2>2, <2>8 DEF Inv, Table, Narrows
  <2>15. Natively' /\ Fenced'
    BY <1>1, <1>2, <2>2, <2>5, <2>6, NativelyKept, FencedKept
  <2>16. Taken'
    BY <2>2, <2>6, <2>14, TakenKept DEF Admitting
  <2>17. ASSUME Final PROVE Final'
    <3>1. Known'
      BY <1>1, <2>2, <2>6, <2>17, KnownKept DEF Final
    <3> QED BY <1>1, <1>2, <1>6, <2>2, <2>6, <2>14, <2>17, <3>1, FinalClient
  <2> QED BY <2>5, <2>10, <2>11, <2>12, <2>13, <2>14, <2>15, <2>16, <2>17, Together DEF Shared
<1> QED BY <1>3, <1>4, <1>5, <1>6 DEF Acquire

LEMMA FactoryKeeps ==
  ASSUME Inv, NEW c \in Clients, Factory(c), UNCHANGED calling
  PROVE  Inv' /\ (Final => Final')
<1> USE Distinct
<1>1. /\ op[c].pc = "factory"
      /\ UNCHANGED <<entries, opening, draining, held, phase, created, stopping, closed>>
  BY DEF Factory
<1>2. /\ Stored /\ op[c].pc \notin Locking /\ op[c].pc \notin Admitting /\ op[c].t \in Tasks \cup {None}
      /\ ~Creates(op[c]) => op[c].t \in Tasks
      /\ op[c].lead = None
  BY <1>1, StillStored, OpIs DEF Proper, Locking, Admitting, Operations
<1>3. Opens(c) <=> ~Creates(op[c])
  BY <1>1 DEF Opens, OpeningSteps
<1>4. CASE Fail(c) /\ UNCHANGED conn
  <2>1. op[c].pc \notin {"idle", "finish"} \cup Locking
    BY <1>1, <1>2
  <2>2. Table' /\ Narrows
    BY <1>1, <1>4, <2>1, ClientFails, TableStill
  <2> QED BY <1>1, <1>2, <1>4, <2>1, <2>2, FailKeeps
<1>5. CASE /\ ~Creates(op[c]) /\ op' = [op EXCEPT ![c].pc = "finish", ![c].next = "nil"]
           /\ UNCHANGED conn /\ UNCHANGED <<writes, lock, known>>
  <2>1. op'[c] = [op[c] EXCEPT !.pc = "finish", !.next = "nil"] /\ op' = [op EXCEPT ![c] = op'[c]]
    BY <1>5, OpIs
  <2>2. "finish" \in Steps /\ "nil" \in Nexts
    BY DEF Steps, Nexts
  <2>3. op'[c] \in Operations
    BY <2>1, <2>2, OpIs DEF Operations
  <2>4. /\ op'[c].pc = "finish" /\ op'[c].next = "nil" /\ op'[c].t = op[c].t /\ op'[c].kind = op[c].kind
        /\ op'[c].bind = op[c].bind /\ op'[c].lead = op[c].lead
    BY <2>1, <2>2, OpIs DEF Operations
  <2>5. Proper(op'[c])
    BY <1>1, <1>2, <1>5, <2>3, <2>4, OpIs DEF Proper, Creates, Connected, Dispatches
  <2>6. Moves(c)
    BY <1>1, <1>5, <2>1, <2>4, <2>5 DEF Moves
  <2>7. Opens(c)' /\ ~Tracked(c)' /\ op'[c].pc \notin Admitting
    BY <1>5, <2>4 DEF Opens, OpeningSteps, Tracked, Creates, Admitting
  <2>8. Table' /\ Narrows
    BY <1>1, <1>5, TableStill DEF Inv, Table
  <2> QED BY <1>1, <1>2, <1>3, <1>5, <2>4, <2>6, <2>7, <2>8, MoveKeeps
<1>6. ASSUME NEW k \in Conns, ~closed, conn[k].st = "free", conn' = [conn EXCEPT ![k].st = "open", ![k].t = op[c].t],
             op' = [op EXCEPT ![c].pc = "opened", ![c].k = k], UNCHANGED <<writes, lock, known>>
      PROVE  Inv' /\ (Final => Final')
  <2>1. op'[c] = [op[c] EXCEPT !.pc = "opened", !.k = k] /\ op' = [op EXCEPT ![c] = op'[c]]
    BY <1>6, OpIs
  <2>2. "opened" \in Steps
    BY DEF Steps
  <2>3. op'[c] \in Operations
    BY <2>1, <2>2, OpIs DEF Operations
  <2>4. /\ op'[c].pc = "opened" /\ op'[c].k = k /\ op'[c].t = op[c].t /\ op'[c].kind = op[c].kind
        /\ op'[c].bind = op[c].bind /\ op'[c].lead = op[c].lead
    BY <2>1, <2>2, OpIs DEF Operations
  <2>5. Proper(op'[c])
    BY <1>1, <1>2, <2>3, <2>4, OpIs DEF Proper, Creates, Connected, Dispatches
  <2>6. Moves(c) /\ op'[c].pc # "wait"
    BY <1>1, <1>6, <2>1, <2>4, <2>5 DEF Moves
  <2>7. Opens(c)' <=> Opens(c)
    BY <1>3, <2>4 DEF Opens, OpeningSteps, Creates
  <2>8. Shared' /\ Pending' = Pending
    BY <1>1, <1>2, <1>6, <2>4, <2>6, <2>7, ClientMoves
  <2>9. \A d \in Clients : d # c => op'[d] = op[d]
    BY <2>1 DEF Inv, Operating
  <2>10. Natively' /\ Fenced'
    BY <1>1, <1>2, <1>6, <2>4, <2>8, <2>9, NativelyKept, FencedKept
  <2>11. /\ conn'[k].st = "open" /\ conn'[k].t = op[c].t /\ (conn'[k].reg <=> conn[k].reg)
         /\ \A j \in Conns : j # k => conn'[j] = conn[j]
    BY <1>6 DEF Inv, Table
  <2>12. Table'
    <3>1. conn \in [Conns -> [st : {"free", "open", "closed", "gone"},
                              t : Tasks \cup {None}, reg : BOOLEAN, told : Turns]]
      BY DEF Inv, Table
    <3>2. conn' \in [Conns -> [st : {"free", "open", "closed", "gone"},
                               t : Tasks \cup {None}, reg : BOOLEAN, told : Turns]]
      <4>1. conn'[k] = [conn[k] EXCEPT !.st = "open", !.t = op[c].t] /\ conn' = [conn EXCEPT ![k] = conn'[k]]
        BY <1>6, <3>1
      <4>2. conn'[k] \in [st : {"free", "open", "closed", "gone"}, t : Tasks \cup {None}, reg : BOOLEAN, told : Turns]
        BY <1>2, <3>1, <4>1
      <4> QED BY <3>1, <4>1, <4>2
    <3>3. ~conn[k].reg
      BY <1>6 DEF Inv, Table
    <3>4. \A j \in Conns : conn'[j].reg => conn'[j].t \in Tasks /\ conn'[j].st # "free"
      BY <2>11, <3>3 DEF Inv, Table
    <3> QED BY <1>1, <1>6, <3>2, <3>4 DEF Inv, Table
  <2>13. Taken'
    <3>1. \A d \in Clients : op[d].pc \in Admitting => op[d].k \in Conns /\ conn[op[d].k].st # "free"
      BY DEF Inv, Taken, Operating, Proper, Admitting, Connected
    <3> QED BY <2>4, <2>9, <2>11, <3>1 DEF Taken
  <2>14. ASSUME Final PROVE Final'
    <3>1. Closing'
      BY <1>1, <2>14 DEF Final, Closing, FenceStands
    <3>2. Known'
      BY <1>1, <1>6, <2>4, <2>9, <2>14, KnownKept DEF Final
    <3>3. Vacant'
      <4> SUFFICES ASSUME NEW d \in Clients, Tracked(d)' PROVE entries'[op'[d].t] = None
        BY DEF Vacant, Tracked
      <4>1. Tracked(d)
        BY <1>1, <1>3, <2>4, <2>7, <2>9 DEF Tracked, Opens
      <4> QED BY <1>1, <2>4, <2>9, <2>14, <4>1 DEF Final, Vacant, Tracked
    <3>4. Owners'
      <4> SUFFICES ASSUME NEW j \in Conns, conn'[j].st = "open"
                   PROVE  \/ \E t \in Tasks : entries'[t] = j
                          \/ \E d \in Clients : op'[d].k = j /\ op'[d].pc \in Admitting
        BY DEF Owners
      <4>1. CASE j = k
        BY <2>4, <4>1 DEF Admitting
      <4>2. CASE j # k
        <5>1. conn[j].st = "open"
          BY <2>11, <4>2
        <5>2. \A d \in Clients : op[d].pc \in Admitting => op'[d] = op[d]
          BY <1>2, <2>9
        <5> QED BY <1>1, <2>14, <5>1, <5>2 DEF Final, Owners
      <4> QED BY <4>1, <4>2
    <3> QED BY <3>1, <3>2, <3>3, <3>4 DEF Final
  <2> QED BY <2>8, <2>10, <2>12, <2>13, <2>14, Together
<1>7. \/ Fail(c) /\ UNCHANGED conn
      \/ /\ ~Creates(op[c]) /\ op' = [op EXCEPT ![c].pc = "finish", ![c].next = "nil"]
         /\ UNCHANGED conn /\ UNCHANGED <<writes, lock, known>>
      \/ \E k \in Conns : /\ ~closed /\ conn[k].st = "free" /\ conn' = [conn EXCEPT ![k].st = "open", ![k].t = op[c].t]
                          /\ op' = [op EXCEPT ![c].pc = "opened", ![c].k = k] /\ UNCHANGED <<writes, lock, known>>
  BY DEF Factory, Creates
<1> QED BY <1>4, <1>5, <1>6, <1>7

(* Nobody else is about to publish an entry of the same task.               *)
LEMMA OneTracks ==
  ASSUME Inv, Final, NEW c \in Clients, NEW d \in Clients, Tracked(c), Tracked(d), op[c].t = op[d].t
  PROVE  c = d
<1> USE Distinct
<1>1. \A e \in Clients : Tracked(e) => Opens(e) \/ Creates(op[e])
  BY DEF Tracked, Opens, OpeningSteps, Inv, Operating, Proper
<1>2. \A e \in Clients : Tracked(e) => op[e].t \in Tasks
  BY OpIs DEF Tracked, Opens, OpeningSteps, Proper
<1>3. CASE Opens(c) /\ Opens(d)
  BY <1>3 DEF Inv, Leaders
<1>4. CASE Creates(op[c]) /\ Creates(op[d])
  BY <1>2, <1>4 DEF Final, Known
<1>5. CASE ~(Creates(op[c]) <=> Creates(op[d]))
  BY <1>2, <1>5 DEF Final, Known
<1> QED BY <1>1, <1>3, <1>4, <1>5 DEF Opens

LEMMA PublishKeeps ==
  ASSUME Inv, NEW c \in Clients, Publish(c), UNCHANGED calling
  PROVE  Inv' /\ (Final => Final')
<1> USE Distinct
<1> DEFINE t == op[c].t
           k == op[c].k
<1>1. /\ op[c].pc = "publish"
      /\ UNCHANGED <<opening, draining, held, phase, created, stopping, closed>>
  BY DEF Publish
<1>2. /\ Stored /\ k \in Conns /\ t \in Tasks /\ op[c].pc \notin Locking /\ op[c].pc \in Admitting /\ Tracked(c)
      /\ op[c].lead = None
  BY <1>1, StillStored, OpIs DEF Proper, Connected, Locking, Admitting, Tracked
<1>3. Opens(c) <=> ~Creates(op[c])
  BY <1>1 DEF Opens, OpeningSteps
<1>4. CASE draining
  <2>1. CloseConn(k) /\ Fail(c) /\ UNCHANGED entries
    BY <1>4 DEF Publish, MayPublish
  <2>2. op[c].pc \notin {"idle", "finish"} \cup Locking
    BY <1>1, <1>2
  <2>3. lock' \in [Conns -> Clients \cup {None}] /\ opening' \in [Tasks -> Clients \cup {None}]
    BY <1>1, <2>1, <2>2, ClientFails DEF Inv, Table
  <2>4. Table' /\ Narrows /\ conn'[k].st # "open"
    BY <1>1, <1>2, <2>1, <2>3, CloseIs
  <2> QED BY <1>1, <1>2, <2>1, <2>2, <2>4, FailKeeps
<1>5. CASE ~draining
  <2> DEFINE pc == IF op[c].kind = "create" THEN "send" ELSE "finish"
  <2>1. entries' = [entries EXCEPT ![t] = k] /\ UNCHANGED <<conn, writes, known>>
    BY <1>5 DEF Publish, MayPublish
  <2>2. /\ op'[c] \in Operations /\ op' = [op EXCEPT ![c] = op'[c]]
        /\ op'[c].pc = pc /\ op'[c].t = t /\ op'[c].kind = op[c].kind /\ op'[c].k = k
        /\ op'[c].bind = op[c].bind /\ op'[c].lead = op[c].lead /\ (pc = "finish" => op'[c].next = "entry")
    <3>1. CASE op[c].kind = "create"
      <4>1. op' = [op EXCEPT ![c].pc = "send", ![c].method = "turn/start"]
        BY <1>5, <3>1 DEF Publish, MayPublish
      <4>2. op'[c] = [op[c] EXCEPT !.pc = "send", !.method = "turn/start"] /\ op' = [op EXCEPT ![c] = op'[c]]
        BY <4>1, OpIs
      <4>3. "send" \in Steps /\ "turn/start" \in Methods
        BY DEF Steps, Methods
      <4>4. op'[c] \in Operations
        BY <4>2, <4>3, OpIs DEF Operations
      <4>5. /\ op'[c].pc = "send" /\ op'[c].t = t /\ op'[c].kind = op[c].kind /\ op'[c].k = k
            /\ op'[c].bind = op[c].bind /\ op'[c].lead = op[c].lead
        BY <4>2, OpIs DEF Operations
      <4> QED BY <3>1, <4>2, <4>4, <4>5
    <3>2. CASE op[c].kind # "create"
      <4>1. op' = [op EXCEPT ![c].pc = "finish", ![c].next = "entry"]
        BY <1>5, <3>2 DEF Publish, MayPublish
      <4>2. op'[c] = [op[c] EXCEPT !.pc = "finish", !.next = "entry"] /\ op' = [op EXCEPT ![c] = op'[c]]
        BY <4>1, OpIs
      <4>3. "finish" \in Steps /\ "entry" \in Nexts
        BY DEF Steps, Nexts
      <4>4. op'[c] \in Operations
        BY <4>2, <4>3, OpIs DEF Operations
      <4>5. /\ op'[c].pc = "finish" /\ op'[c].t = t /\ op'[c].kind = op[c].kind /\ op'[c].k = k
            /\ op'[c].bind = op[c].bind /\ op'[c].lead = op[c].lead /\ op'[c].next = "entry"
        BY <4>2, OpIs DEF Operations
      <4> QED BY <3>2, <4>2, <4>4, <4>5
    <3> QED BY <3>1, <3>2
  <2>3. Proper(op'[c])
    BY <1>1, <1>2, <2>2, OpIs DEF Proper, Creates, Connected, Dispatches
  <2>4. Moves(c) /\ op'[c].pc # "wait"
    BY <1>1, <2>1, <2>2, <2>3 DEF Moves
  <2>5. Opens(c)' <=> Opens(c)
    BY <1>3, <2>2 DEF Opens, OpeningSteps, Creates
  <2>6. \/ lock' = lock
        \/ lock' = [lock EXCEPT ![k] = c] /\ op'[c].pc \in Locking
    BY <1>5, <2>2 DEF Publish, MayPublish, Locking
  <2>7. Shared' /\ Pending' = Pending
    BY <1>1, <1>2, <2>2, <2>4, <2>5, <2>6, ClientMoves
  <2>8. \A d \in Clients : d # c => op'[d] = op[d]
    BY <2>2 DEF Inv, Operating
  <2>9. Natively' /\ Fenced'
    BY <1>1, <1>2, <2>1, <2>2, <2>7, <2>8, NativelyKept, FencedKept
  <2>10. \A u \in Tasks : entries'[u] = IF u = t THEN k ELSE entries[u]
    BY <1>2, <2>1 DEF Inv, Table
  <2>11. Table'
    <3>1. lock' \in [Conns -> Clients \cup {None}] /\ entries' \in [Tasks -> Conns \cup {None}]
      BY <1>2, <2>1, <2>6 DEF Inv, Table
    <3> QED BY <1>1, <2>1, <3>1 DEF Inv, Table
  <2>12. op'[c].pc \notin Admitting /\ ~Tracked(c)'
    BY <2>2 DEF Admitting, Tracked, Opens, Creates
  <2>13. Taken'
    <3>1. UNCHANGED conn
      BY <2>1
    <3> QED BY <2>8, <2>12, <3>1 DEF Inv, Taken
  <2>14. ASSUME Final PROVE Final'
    <3>0. UNCHANGED <<conn, known>>
      BY <2>1
    <3>1. Closing'
      BY <1>1, <1>5, <2>14 DEF Final, Closing, FenceStands
    <3>2. Known'
      <4>1. t \in created
        BY <1>2 DEF Inv, Natively
      <4>2. \A u \in Tasks : entries'[u] # None => u \in created'
        BY <1>1, <2>10, <2>14, <4>1 DEF Final, Known
      <4>3. \A d \in Clients : op'[d].t = op[d].t /\ op'[d].kind = op[d].kind
        BY <2>2, <2>8
      <4> QED BY <2>14, <3>0, <4>2, <4>3 DEF Final, Known, Creates
    <3>3. Vacant'
      <4> SUFFICES ASSUME NEW d \in Clients, Tracked(d)' PROVE entries'[op'[d].t] = None
        BY DEF Vacant, Tracked
      <4>1. d # c /\ op'[d] = op[d] /\ Tracked(d)
        BY <2>8, <2>12 DEF Tracked, Opens
      <4>2. op[d].t # t
        BY <1>2, <2>14, <4>1, OneTracks
      <4>3. op[d].t \in Tasks
        BY <4>1, OpIs DEF Tracked, Opens, OpeningSteps, Proper
      <4>4. entries[op[d].t] = None
        BY <2>14, <4>1 DEF Final, Vacant, Tracked
      <4> QED BY <2>10, <4>1, <4>2, <4>3, <4>4
    <3>4. Owners'
      <4> SUFFICES ASSUME NEW j \in Conns, conn'[j].st = "open"
                   PROVE  \/ \E u \in Tasks : entries'[u] = j
                          \/ \E d \in Clients : op'[d].k = j /\ op'[d].pc \in Admitting
        BY DEF Owners
      <4>1. CASE j = k
        BY <1>2, <2>10, <4>1
      <4>2. CASE j # k
        <5>1. conn[j].st = "open"
          BY <3>0
        <5>2. entries[t] = None
          BY <1>2, <2>14 DEF Final, Vacant, Tracked
        <5>3. \A u \in Tasks : entries[u] = j => entries'[u] = j
          BY <2>10, <5>2
        <5>4. \A d \in Clients : op[d].k = j => op'[d] = op[d]
          BY <2>8, <4>2
        <5> QED BY <2>14, <5>1, <5>3, <5>4 DEF Final, Owners
      <4> QED BY <4>1, <4>2
    <3> QED BY <3>1, <3>2, <3>3, <3>4 DEF Final
  <2> QED BY <2>7, <2>9, <2>11, <2>13, <2>14, Together
<1> QED BY <1>4, <1>5

LEMMA StartTaskKeeps ==
  ASSUME Inv, NEW c \in Clients, StartTask(c), UNCHANGED calling
  PROVE  Inv' /\ (Final => Final')
<1> USE Distinct
<1> DEFINE k == op[c].k
<1>1. /\ op[c].pc = "opened" /\ Creates(op[c])
      /\ UNCHANGED <<entries, opening, draining, held, phase, stopping, closed>>
  BY DEF StartTask, Creates
<1>2. /\ Stored /\ k \in Conns /\ op[c].t = None /\ op[c].pc \notin Locking /\ op[c].pc \in Admitting /\ ~Opens(c)
      /\ op[c].lead = None
  BY <1>1, StillStored, OpIs DEF Proper, Connected, Locking, Admitting, Opens
<1>3. CASE CloseConn(k) /\ Fail(c) /\ UNCHANGED created
  <2>1. op[c].pc \notin {"idle", "finish"} \cup Locking
    BY <1>1, <1>2
  <2>2. lock' \in [Conns -> Clients \cup {None}] /\ opening' \in [Tasks -> Clients \cup {None}]
    BY <1>1, <1>3, <2>1, ClientFails DEF Inv, Table
  <2>3. Table' /\ Narrows /\ conn'[k].st # "open"
    BY <1>1, <1>2, <1>3, <2>2, CloseIs
  <2> QED BY <1>1, <1>2, <1>3, <2>1, <2>3, FailKeeps
<1>4. ASSUME NEW t \in Tasks \ created, created' = created \cup {t},
             op' = [op EXCEPT ![c].pc = "provenance", ![c].t = t],
             conn' = [conn EXCEPT ![k].t = t], UNCHANGED <<writes, lock, known>>
      PROVE  Inv' /\ (Final => Final')
  <2>0. UNCHANGED <<writes, lock, known>>
    BY <1>4
  <2>1. op'[c] = [op[c] EXCEPT !.pc = "provenance", !.t = t] /\ op' = [op EXCEPT ![c] = op'[c]]
    BY <1>4, OpIs
  <2>2. "provenance" \in Steps
    BY DEF Steps
  <2>3. op'[c] \in Operations
    BY <2>1, <2>2, OpIs DEF Operations
  <2>4. /\ op'[c].pc = "provenance" /\ op'[c].k = k /\ op'[c].t = t /\ op'[c].kind = op[c].kind
        /\ op'[c].bind = op[c].bind /\ op'[c].lead = op[c].lead
    BY <2>1, <2>2, OpIs DEF Operations
  <2>5. Proper(op'[c])
    BY <1>1, <1>2, <2>3, <2>4, OpIs DEF Proper, Creates, Connected, Dispatches
  <2>6. Moves(c) /\ op'[c].pc # "wait" /\ op'[c].pc \in Admitting
    BY <1>1, <2>0, <2>1, <2>4, <2>5 DEF Moves, Admitting
  <2>7. ~Opens(c)'
    BY <1>1, <2>4 DEF Opens, Creates
  <2>8. Shared' /\ Pending' = Pending
    BY <1>1, <1>2, <2>0, <2>4, <2>6, <2>7, ClientMoves
  <2>9. \A d \in Clients : d # c => op'[d] = op[d]
    BY <2>1 DEF Inv, Operating
  <2>10. Fenced'
    BY <1>1, <2>8, FencedKept
  <2>11. Natively'
    <3>1. known' \subseteq created' /\ created' \subseteq Tasks
      BY <1>4 DEF Inv, Natively
    <3>2. \A d \in Clients : op'[d].t \in created' \cup {None}
      <4>1. \A d \in Clients : op[d].t \in created \cup {None}
        BY DEF Inv, Natively
      <4>2. created' = created \cup {t}
        BY <1>4
      <4> QED BY <2>4, <2>9, <4>1, <4>2
    <3>3. calling' \in [Clients -> SUBSET Kinds]
      BY DEF Inv, Natively
    <3> QED BY <1>2, <3>1, <3>2, <3>3 DEF Natively, Stored
  <2>12. /\ conn'[k].st = conn[k].st /\ conn'[k].t = t /\ (conn'[k].reg <=> conn[k].reg)
         /\ \A j \in Conns : j # k => conn'[j] = conn[j]
    BY <1>2, <1>4 DEF Inv, Table
  <2>13. Table'
    <3>1. conn \in [Conns -> [st : {"free", "open", "closed", "gone"},
                              t : Tasks \cup {None}, reg : BOOLEAN, told : Turns]]
      BY DEF Inv, Table
    <3>2. conn' \in [Conns -> [st : {"free", "open", "closed", "gone"},
                               t : Tasks \cup {None}, reg : BOOLEAN, told : Turns]]
      <4>1. conn'[k] = [conn[k] EXCEPT !.t = t] /\ conn' = [conn EXCEPT ![k] = conn'[k]]
        BY <1>2, <1>4, <3>1
      <4>2. conn'[k] \in [st : {"free", "open", "closed", "gone"}, t : Tasks \cup {None}, reg : BOOLEAN, told : Turns]
        BY <1>2, <1>4, <3>1, <4>1
      <4> QED BY <3>1, <4>1, <4>2
    <3>3. \A j \in Conns : conn'[j].reg => conn'[j].t \in Tasks /\ conn'[j].st # "free"
      BY <1>4, <2>12 DEF Inv, Table
    <3> QED BY <1>1, <2>0, <3>2, <3>3 DEF Inv, Table
  <2>14. Narrows
    BY <1>1, <2>12 DEF Narrows
  <2>15. Taken'
    BY <1>2, <2>4, <2>9, <2>14, TakenKept
  <2>16. ASSUME Final PROVE Final'
    <3>1. \A d \in Clients : d # c => op[d].t # t
      BY <1>4 DEF Inv, Natively
    <3>2. t \notin known
      BY <1>4 DEF Inv, Natively
    <3>3. Known'
      <4>1. \A d \in Clients : op'[d].t # None => IF Creates(op'[d]) THEN op'[d].t \notin known' ELSE op'[d].t \in known'
        BY <1>1, <2>0, <2>4, <2>9, <2>16, <3>2 DEF Final, Known, Creates
      <4>2. \A d, e \in Clients :
              (Creates(op'[d]) /\ Creates(op'[e]) /\ op'[d].t = op'[e].t /\ op'[d].t # None) => d = e
        BY <2>4, <2>9, <2>16, <3>1 DEF Final, Known
      <4>3. \A u \in Tasks : entries'[u] # None => u \in created'
        BY <1>1, <1>4, <2>16 DEF Final, Known
      <4> QED BY <4>1, <4>2, <4>3 DEF Known, Creates
    <3>4. entries[op'[c].t] = None /\ op'[c].t \in Tasks
      BY <1>4, <2>4, <2>16 DEF Final, Known
    <3> QED BY <1>1, <2>4, <2>6, <2>9, <2>14, <2>16, <3>3, <3>4, FinalClient
  <2> QED BY <2>8, <2>10, <2>11, <2>13, <2>15, <2>16, Together
<1>5. \/ CloseConn(k) /\ Fail(c) /\ UNCHANGED created
      \/ \E t \in Tasks \ created :
           /\ created' = created \cup {t} /\ op' = [op EXCEPT ![c].pc = "provenance", ![c].t = t]
           /\ conn' = [conn EXCEPT ![k].t = t] /\ UNCHANGED <<writes, lock, known>>
  BY DEF StartTask
<1> QED BY <1>3, <1>4, <1>5

(* The end of a shared attempt: it is forgotten, and nobody still waits for *)
(* it.                                                                      *)
LEMMA FinishOpeningKeeps ==
  ASSUME Inv, NEW c \in Clients, FinishOpening(c), UNCHANGED calling
  PROVE  Inv' /\ (Final => Final')
<1> USE Distinct
<1> DEFINE t == op[c].t
           Over(d) == d = c \/ op[d].lead = c
<1>1. /\ op[c].pc = "finish"
      /\ UNCHANGED <<entries, draining, writes, lock, conn, held, phase, created, known, stopping, closed>>
  BY DEF FinishOpening
<1>2. /\ t \in Tasks /\ Opens(c) /\ op[c].next \in {"entry", "nil", "error"}
      /\ op[c].next = "entry" => op[c].k \in Conns
  BY <1>1, OpIs DEF Proper, Creates, Opens, OpeningSteps
<1>3. opening[t] = c
  BY <1>2 DEF Inv, Leaders
<1>4. opening' \in [Tasks -> Clients \cup {None}] /\ \A u \in Tasks : opening'[u] = IF u = t THEN None ELSE opening[u]
  BY <1>2, <1>3 DEF FinishOpening, Inv, Table
<1>5. /\ op' = [d \in Clients |-> IF Over(d) THEN Outcome(d, op[c].next, op[c].k) ELSE op[d]]
      /\ \A d \in Clients : op'[d] = IF Over(d) THEN Outcome(d, op[c].next, op[c].k) ELSE op[d]
  BY DEF FinishOpening
<1>6. \A d \in Clients : Over(d) => op[d].pc \in {"wait", "finish"} /\ op[d].t \in Tasks /\ ~Creates(op[d])
  BY <1>1, OpIs DEF Proper, Creates
<1>7. ASSUME NEW d \in Clients, Over(d)
      PROVE  /\ op'[d] \in Operations /\ op'[d].pc \in {"got", "acquire", "none", "failed"} /\ op'[d].lead = None
             /\ op'[d].pc = "got" => op'[d].k \in Conns
             /\ op'[d].t = op[d].t /\ op'[d].kind = op[d].kind /\ op'[d].bind = op[d].bind
  <2>1. op[d] \in Operations /\ op'[d] = Outcome(d, op[c].next, op[c].k)
    BY <1>5, <1>7, OpIs
  <2>2. "got" \in Steps /\ "acquire" \in Steps /\ "none" \in Steps /\ "failed" \in Steps
    BY DEF Steps
  <2>3. CASE op[c].next = "entry"
    <3>1. op'[d] = [op[d] EXCEPT !.pc = "got", !.k = op[c].k, !.lead = None] /\ op[c].k \in Conns
      BY <1>2, <2>1, <2>3 DEF Outcome
    <3>2. op'[d] \in Operations
      BY <2>1, <2>2, <3>1 DEF Operations
    <3> QED BY <2>1, <3>1, <3>2 DEF Operations
  <2>4. CASE op[c].next = "nil" /\ Writes(d) /\ op[d].lead # None
    <3>1. op'[d] = [op[d] EXCEPT !.pc = "acquire", !.lead = None]
      BY <2>1, <2>4 DEF Outcome
    <3>2. op'[d] \in Operations
      BY <2>1, <2>2, <3>1 DEF Operations
    <3> QED BY <2>1, <3>1, <3>2 DEF Operations
  <2>5. CASE op[c].next # "entry" /\ ~(op[c].next = "nil" /\ Writes(d) /\ op[d].lead # None)
    <3> DEFINE pc == IF op[c].next = "nil" THEN "none" ELSE "failed"
    <3>1. op'[d] = [op[d] EXCEPT !.pc = pc, !.k = None, !.lead = None]
      BY <2>1, <2>5 DEF Outcome
    <3>2. pc \in Steps /\ pc \in {"none", "failed"}
      BY <2>2
    <3> HIDE DEF pc
    <3>3. op'[d] \in Operations
      BY <2>1, <3>1, <3>2 DEF Operations
    <3> QED BY <2>1, <3>1, <3>2, <3>3 DEF Operations
  <2> QED BY <2>3, <2>4, <2>5
<1>8. \A d \in Clients : ~Over(d) => op'[d] = op[d]
  BY <1>5
<1>9. \A d \in Clients : op'[d].t = op[d].t /\ op'[d].kind = op[d].kind /\ (op'[d].pc = "idle" <=> op[d].pc = "idle")
  BY <1>6, <1>7, <1>8
<1>10. Operating'
  <2>1. \A d \in Clients : Over(d) => Proper(op'[d])
    BY <1>6, <1>7 DEF Proper, Creates, Connected, Dispatches
  <2>2. \A d \in Clients : Proper(op'[d])
    BY <1>8, <2>1, OpIs
  <2>3. op' \in [Clients -> Operations]
    <3>1. \A d \in Clients : op'[d] \in Operations
      BY <2>2 DEF Proper
    <3> HIDE DEF Over
    <3> QED BY <1>5, <3>1
  <2> QED BY <2>2, <2>3 DEF Operating
<1>11. Pending' = Pending
  BY <1>9 DEF Pending
<1>12. Counted' /\ Fenced'
  BY <1>1, <1>11, FencedKept DEF Counted, Inv
<1>13. \A d \in Clients : Over(d) => ~Opens(d)' /\ ~Tracked(d)' /\ op'[d].pc \notin Admitting
  BY <1>7 DEF Opens, OpeningSteps, Tracked, Admitting
<1>14. Openers'
  <2> SUFFICES ASSUME NEW u \in Tasks, opening'[u] # None
               PROVE  /\ op'[opening'[u]].pc \in OpeningSteps /\ ~Creates(op'[opening'[u]])
                      /\ op'[opening'[u]].t = u
    BY DEF Openers, Opens
  <2>1. u # t /\ opening'[u] = opening[u] /\ opening[u] \in Clients /\ Opens(opening[u]) /\ op[opening[u]].t = u
    BY <1>4 DEF Inv, Openers, Table
  <2>2. ~Over(opening[u])
    BY <2>1, OpIs DEF Proper, Opens, OpeningSteps
  <2>3. op'[opening[u]] = op[opening[u]]
    BY <1>8, <2>1, <2>2
  <2> QED BY <2>1, <2>3 DEF Opens
<1>15. Leaders'
  <2> SUFFICES ASSUME NEW d \in Clients, Opens(d)' PROVE opening'[op'[d].t] = d
    BY DEF Leaders
  <2>1. ~Over(d) /\ op'[d] = op[d]
    BY <1>8, <1>13
  <2>2. Opens(d) /\ d # c
    BY <2>1 DEF Opens
  <2>3. opening[op[d].t] = d /\ op[d].t \in Tasks
    BY <2>2, OpIs DEF Inv, Leaders, Proper, Opens, OpeningSteps
  <2> QED BY <1>3, <1>4, <2>1, <2>2, <2>3
<1>16. Waiters'
  <2> SUFFICES ASSUME NEW d \in Clients, op'[d].pc = "wait" PROVE opening'[op'[d].t] = op'[d].lead
    BY DEF Waiters
  <2>1. ~Over(d) /\ op'[d] = op[d]
    BY <1>7, <1>8
  <2>2. opening[op[d].t] = op[d].lead /\ op[d].lead # c /\ op[d].t \in Tasks
    BY <2>1, OpIs DEF Inv, Waiters, Proper, Creates
  <2> QED BY <1>3, <1>4, <2>1, <2>2
<1>17. Lockers'
  <2>1. \A k \in Conns : lock[k] # None => lock[k] \in Clients /\ ~Over(lock[k])
    BY <1>6 DEF Inv, Table, Lockers, Locking
  <2> QED BY <1>1, <1>8, <2>1 DEF Inv, Lockers
<1>18. Table' /\ Taken'
  <2>1. Table'
    BY <1>1, <1>4 DEF Inv, Table
  <2> QED BY <1>1, <1>8, <1>13, <2>1 DEF Inv, Taken
<1>19. Natively'
  BY <1>1, <1>9 DEF Inv, Natively
<1>20. ASSUME Final PROVE Final'
  <2>1. Closing'
    BY <1>1, <1>20 DEF Final, Closing, FenceStands
  <2>2. Known'
    BY <1>1, <1>9, <1>20, KnownKept DEF Final
  <2>3. Vacant'
    <3>1. \A d \in Clients : Tracked(d)' => Tracked(d) /\ op'[d] = op[d]
      BY <1>8, <1>13 DEF Tracked, Opens
    <3> QED BY <1>1, <1>20, <3>1 DEF Final, Vacant, Tracked
  <2>4. Owners'
    <3>1. \A d \in Clients : op[d].pc \in Admitting => op'[d] = op[d]
      BY <1>6, <1>8 DEF Admitting
    <3> QED BY <1>1, <1>20, <3>1 DEF Final, Owners
  <2> QED BY <2>1, <2>2, <2>3, <2>4 DEF Final
<1> QED BY <1>10, <1>12, <1>14, <1>15, <1>16, <1>17, <1>18, <1>19, <1>20, Together DEF Shared

(* A client begins an operation.                                            *)
LEMMA Joins ==
  ASSUME Inv, NEW c \in Clients, op[c].pc = "idle", op' = [op EXCEPT ![c] = op'[c]], Proper(op'[c]),
         op'[c].pc \in {"factory", "acquire", "access"}, op'[c].pc = "factory" => Creates(op'[c]),
         op'[c].t \in created \cup {None}, Creates(op'[c]) => op'[c].t = None,
         op'[c].kind \in Mutations => ~draining /\ writes' = writes + 1,
         op'[c].kind \notin Mutations => writes' = writes,
         UNCHANGED <<entries, opening, draining, lock, conn, held, phase, created, known, stopping, closed, calling>>
  PROVE  Inv' /\ (Final /\ op'[c].t \in known \cup {None} => Final')
<1> USE Distinct
<1>1. \A d \in Clients : d # c => op'[d] = op[d]
  BY DEF Inv, Operating
<1>2. /\ ~Opens(c) /\ ~Opens(c)' /\ ~Tracked(c)' /\ op'[c].pc \notin Admitting /\ op[c].pc \notin Admitting
      /\ op[c].pc \notin Locking /\ op'[c].pc # "idle" /\ op'[c].pc # "wait"
  BY DEF Opens, OpeningSteps, Tracked, Admitting, Locking, Creates
<1>3. Operating'
  BY DEF Inv, Operating, Proper
<1>4. /\ op'[c].kind \in Mutations => Pending' = Pending \cup {c}
      /\ op'[c].kind \notin Mutations => Pending' = Pending
  BY <1>1, <1>2 DEF Pending
<1>5. Counted'
  <2>1. IsFiniteSet(Pending) /\ c \notin Pending
    BY FS_Subset, TaskSessionsAssumption DEF Pending
  <2>2. Cardinality(Pending \cup {c}) = Cardinality(Pending) + 1
    BY <2>1, FS_AddElement
  <2>3. writes = Cardinality(Pending)
    BY DEF Inv, Counted
  <2> QED BY <1>4, <2>2, <2>3 DEF Counted
<1>6. Fenced'
  BY <1>4 DEF Inv, Fenced
<1>7. \A d \in Clients : Opens(d)' <=> Opens(d)
  BY <1>1, <1>2 DEF Opens
<1>8. Openers' /\ Leaders'
  <2>1. \A u \in Tasks : opening[u] # None => opening[u] \in Clients
    BY DEF Inv, Table
  <2>2. \A d \in Clients : Opens(d) => op'[d] = op[d]
    BY <1>1, <1>2
  <2> QED BY <1>7, <2>1, <2>2 DEF Inv, Openers, Leaders
<1>9. Waiters'
  BY <1>1, <1>2 DEF Inv, Waiters
<1>10. Lockers'
  <2>1. \A k \in Conns : lock[k] # None => lock[k] \in Clients /\ lock[k] # c
    BY <1>2 DEF Inv, Table, Lockers
  <2> QED BY <1>1, <2>1 DEF Inv, Lockers
<1>11. Table' /\ Narrows
  BY TableStill DEF Inv, Table
<1>12. Natively'
  BY <1>1 DEF Inv, Natively
<1>13. Taken'
  BY <1>1, <1>2, <1>11, TakenKept
<1>14. ASSUME Final, op'[c].t \in known \cup {None} PROVE Final'
  <2>1. Known'
    <3>1. \A d \in Clients : op'[d].t # None => IF Creates(op'[d]) THEN op'[d].t \notin known' ELSE op'[d].t \in known'
      BY <1>1, <1>14 DEF Final, Known
    <3>2. \A d, e \in Clients :
            (Creates(op'[d]) /\ Creates(op'[e]) /\ op'[d].t = op'[e].t /\ op'[d].t # None) => d = e
      BY <1>1, <1>14 DEF Final, Known
    <3>3. \A u \in Tasks : entries'[u] # None => u \in created'
      BY <1>14 DEF Final, Known
    <3> QED BY <3>1, <3>2, <3>3 DEF Known, Creates
  <2> QED BY <1>1, <1>2, <1>11, <1>14, <2>1, FinalClient
<1> QED BY <1>3, <1>5, <1>6, <1>8, <1>9, <1>10, <1>11, <1>12, <1>13, <1>14 DEF Inv

LEMMA BeginKeeps ==
  ASSUME Inv, NEW c \in Clients, Begin(c), UNCHANGED calling
  PROVE  Inv' /\ (Final /\ ~EarlyReads => Final')
<1> USE Distinct
<1>1. /\ op[c].pc = "idle"
      /\ UNCHANGED <<entries, opening, draining, lock, conn, held, phase, created, known, stopping, closed>>
  BY DEF Begin
<1>2. held[c] \in Bindings /\ NoBinding \in Bindings /\ calling[c] \subseteq Kinds /\ 0 \in Turns
  BY NoBindingTyped DEF Inv, Natively
<1>3. "factory" \in Steps /\ "acquire" \in Steps /\ "access" \in Steps
  BY DEF Steps
<1>4. CASE /\ "create" \in calling[c] /\ ~draining /\ writes' = writes + 1
           /\ op' = [op EXCEPT ![c] = [Idle EXCEPT !.kind = "create", !.pc = "factory"]]
  <2>1. op'[c] = [Idle EXCEPT !.kind = "create", !.pc = "factory"] /\ op' = [op EXCEPT ![c] = op'[c]]
    BY <1>4, OpIs
  <2>2. "create" \in Kinds /\ "create" \in Mutations
    BY DEF Kinds, Mutations
  <2>3. op'[c] \in Operations
    BY <1>3, <2>1, <2>2, IdleIs DEF Operations
  <2>4. /\ op'[c].kind = "create" /\ op'[c].pc = "factory" /\ op'[c].t = None /\ op'[c].lead = None
        /\ op'[c].bind = NoBinding
    BY <2>1 DEF Idle
  <2>5. Proper(op'[c])
    BY <2>3, <2>4 DEF Proper, Creates, Connected, Dispatches
  <2> QED BY <1>1, <1>4, <2>1, <2>2, <2>4, <2>5, Joins DEF Creates
<1>5. ASSUME NEW kind \in calling[c], NEW b \in {NoBinding, held[c]},
             NEW t \in known \cup (IF EarlyReads THEN created ELSE {}), kind # "create", kind \in Mutations => ~draining,
             op' = [op EXCEPT ![c] = [Idle EXCEPT !.kind = kind, !.t = t, !.bind = b,
                                        !.turn = IF kind = "stop" THEN phase[t] ELSE 0,
                                        !.pc = IF kind = "access" THEN "access" ELSE "acquire"]],
             writes' = IF kind \in Mutations THEN writes + 1 ELSE writes
      PROVE  Inv' /\ (Final /\ ~EarlyReads => Final')
  <2> DEFINE turn == IF kind = "stop" THEN phase[t] ELSE 0
             pc == IF kind = "access" THEN "access" ELSE "acquire"
  <2>1. /\ op'[c] = [Idle EXCEPT !.kind = kind, !.t = t, !.bind = b, !.turn = turn, !.pc = pc]
        /\ op' = [op EXCEPT ![c] = op'[c]]
    BY <1>5, OpIs
  <2>2. t \in created /\ t \in Tasks /\ (~EarlyReads => t \in known)
    BY DEF Inv, Natively
  <2>3. turn \in Turns /\ pc \in Steps /\ pc \in {"access", "acquire"}
    BY <1>2, <1>3, <2>2 DEF Inv, Natively
  <2>4. kind \in Kinds /\ b \in Bindings
    BY <1>2
  <2> HIDE DEF turn, pc
  <2>5. op'[c] \in Operations
    BY <2>1, <2>2, <2>3, <2>4, IdleIs DEF Operations
  <2>6. op'[c].kind = kind /\ op'[c].pc = pc /\ op'[c].t = t /\ op'[c].lead = None
    BY <2>1 DEF Idle
  <2>7. Proper(op'[c])
    BY <1>5, <2>2, <2>3, <2>5, <2>6 DEF Proper, Creates, Connected, Dispatches
  <2>8. /\ op'[c].kind \in Mutations => ~draining /\ writes' = writes + 1
        /\ op'[c].kind \notin Mutations => writes' = writes
        /\ ~Creates(op'[c]) /\ op'[c].pc \in {"factory", "acquire", "access"} /\ op'[c].pc # "factory"
    BY <1>5, <2>3, <2>6 DEF Creates
  <2>9. op' = [op EXCEPT ![c] = op'[c]] /\ op'[c].t \in created \cup {None}
    BY <2>1, <2>2, <2>6
  <2>10. Inv' /\ (Final /\ op'[c].t \in known \cup {None} => Final')
    BY <1>1, <2>7, <2>8, <2>9, Joins
  <2> QED BY <2>2, <2>6, <2>10
<1>6. \/ /\ "create" \in calling[c] /\ ~draining /\ writes' = writes + 1
         /\ op' = [op EXCEPT ![c] = [Idle EXCEPT !.kind = "create", !.pc = "factory"]]
      \/ \E kind \in calling[c], b \in {NoBinding, held[c]} : \E t \in known \cup (IF EarlyReads THEN created ELSE {}) :
           /\ kind # "create" /\ (kind \in Mutations => ~draining)
           /\ op' = [op EXCEPT ![c] = [Idle EXCEPT !.kind = kind, !.t = t, !.bind = b,
                                        !.turn = IF kind = "stop" THEN phase[t] ELSE 0,
                                        !.pc = IF kind = "access" THEN "access" ELSE "acquire"]]
           /\ writes' = IF kind \in Mutations THEN writes + 1 ELSE writes
  BY DEF Begin, MayStart
<1> QED BY <1>4, <1>5, <1>6

-----------------------------------------------------------------------------
(* Steps of the connections and of the helper, which leave every operation  *)
(* as it is.                                                                *)
Bystanders == UNCHANGED <<opening, writes, lock, op, created, known, calling>>

LEMMA OthersKeep ==
  ASSUME Inv, Bystanders, Table', Taken', Stored, Fenced'
  PROVE  Inv'
<1>1. UNCHANGED <<opening, writes, lock, op, created, known, calling>>
  BY DEF Bystanders
<1>2. Operating' /\ Counted'
  BY <1>1 DEF Inv, Operating, Counted, Pending
<1>3. Openers' /\ Leaders' /\ Waiters' /\ Lockers'
  BY <1>1 DEF Inv, Openers, Leaders, Waiters, Lockers, Opens
<1>4. Natively'
  BY <1>1 DEF Inv, Natively, Stored
<1> QED BY <1>2, <1>3, <1>4 DEF Inv

LEMMA NarrowsKeeps ==
  ASSUME Inv, Bystanders, Narrows, UNCHANGED <<draining, stopping, closed>>, Final
  PROVE  Final'
<1>1. UNCHANGED <<op, created, known>>
  BY DEF Bystanders
<1>2. Closing'
  BY DEF Final, Closing, FenceStands, Narrows
<1>3. Known'
  BY <1>1, KnownKept DEF Final, Narrows
<1>4. Vacant'
  <2>1. \A c \in Clients : Tracked(c) => op[c].t \in Tasks
    BY OpIs DEF Tracked, Opens, OpeningSteps, Proper
  <2> QED BY <1>1, <2>1 DEF Final, Vacant, Tracked, Opens, Narrows
<1>5. Owners'
  <2>1. \A k \in Conns, t \in Tasks : (conn'[k].st = "open" /\ entries[t] = k) => entries'[t] = k
    BY DEF Narrows
  <2> QED BY <1>1, <2>1 DEF Final, Owners, Narrows
<1> QED BY <1>2, <1>3, <1>4, <1>5 DEF Final

LEMMA NarrowsTaken ==
  ASSUME Inv, Narrows, UNCHANGED op
  PROVE  Taken'
<1>1. \A d \in Clients : op[d].pc \in Admitting => op[d].k \in Conns /\ conn[op[d].k].st # "free"
  BY DEF Inv, Taken, Operating, Proper, Admitting, Connected
<1> QED BY <1>1 DEF Taken, Narrows

LEMMA TurnEndsKeeps ==
  ASSUME Inv, NEW t \in Tasks, TurnEnds(t), UNCHANGED calling
  PROVE  Inv' /\ (Final => Final')
<1>1. /\ Bystanders /\ phase[t] < MaxPhase /\ phase' = [phase EXCEPT ![t] = @ + 1]
      /\ UNCHANGED <<entries, draining, conn, held, stopping, closed>>
  BY DEF TurnEnds, Bystanders
<1>2. Stored
  <2>1. phase \in [Tasks -> Turns] /\ MaxPhase \in Nat
    BY TaskSessionsAssumption DEF Inv, Natively
  <2>2. phase[t] + 1 \in Turns
    BY <1>1, <2>1 DEF Turns
  <2> QED BY <1>1, <2>1, <2>2 DEF Stored, Inv, Natively
<1>3. Table' /\ Narrows
  BY <1>1, TableStill DEF Bystanders, Inv, Table
<1>4. Taken' /\ Fenced'
  BY <1>1, <1>3, NarrowsTaken DEF Bystanders, Inv, Fenced, Pending
<1> QED BY <1>1, <1>2, <1>3, <1>4, OthersKeep, NarrowsKeeps

(* One connection changes, without being opened or freed.                   *)
LEMMA ConnKeeps ==
  ASSUME Inv, NEW k \in Conns,
         NEW r \in [st : {"free", "open", "closed", "gone"}, t : Tasks \cup {None}, reg : BOOLEAN, told : Turns],
         conn' = [conn EXCEPT ![k] = r], conn[k].st # "free", r.st # "free", r.st = "open" => conn[k].st = "open",
         r.t = conn[k].t, r.reg <=> conn[k].reg,
         \/ entries' = entries
         \/ \E t \in Tasks : entries[t] = k /\ entries' = [entries EXCEPT ![t] = None] /\ r.st # "open",
         Bystanders, UNCHANGED <<draining, held, phase, stopping, closed>>
  PROVE  Inv' /\ (Final => Final')
<1> USE Distinct
<1>1. UNCHANGED <<opening, lock, op>>
  BY DEF Bystanders
<1>2. conn'[k] = r /\ \A j \in Conns : j # k => conn'[j] = conn[j]
  BY DEF Inv, Table
<1>3. \A j \in Conns : conn'[j].reg => conn'[j].t \in Tasks /\ conn'[j].st # "free"
  BY <1>2 DEF Inv, Table
<1>4. Table'
  BY <1>1, <1>3 DEF Inv, Table
<1>5. Narrows
  <2>1. \A t \in Tasks : entries'[t] = entries[t] \/ (entries'[t] = None /\ conn'[entries[t]].st # "open")
    BY <1>2 DEF Inv, Table
  <2>2. \A j \in Conns : (conn'[j].st = "open" => conn[j].st = "open") /\ (conn[j].st # "free" => conn'[j].st # "free")
    BY <1>2
  <2> QED BY <2>1, <2>2 DEF Narrows
<1>6. Taken' /\ Fenced'
  BY <1>1, <1>5, NarrowsTaken DEF Inv, Fenced, Pending
<1> QED BY <1>4, <1>5, <1>6, StillStored, OthersKeep, NarrowsKeeps

LEMMA ConnIs ==
  ASSUME Inv, NEW k \in Conns
  PROVE  /\ conn[k] \in [st : {"free", "open", "closed", "gone"}, t : Tasks \cup {None}, reg : BOOLEAN, told : Turns]
         /\ conn \in [Conns -> [st : {"free", "open", "closed", "gone"},
                                t : Tasks \cup {None}, reg : BOOLEAN, told : Turns]]
         /\ conn[k].reg => conn[k].t \in Tasks
  BY DEF Inv, Table

LEMMA NotifiedKeeps ==
  ASSUME Inv, NEW k \in Conns, Notified(k), UNCHANGED calling
  PROVE  Inv' /\ (Final => Final')
<1> DEFINE n == conn[k].told + 1
           r == [conn[k] EXCEPT !.told = n]
<1>1. /\ Bystanders /\ conn[k].st = "open" /\ conn[k].reg /\ conn[k].told < phase[conn[k].t]
      /\ conn' = [conn EXCEPT ![k].told = @ + 1]
      /\ UNCHANGED <<entries, draining, held, phase, stopping, closed>>
  BY DEF Notified, Bystanders
<1>2. n \in Turns
  <2>1. conn[k].told \in Turns /\ phase[conn[k].t] \in Turns
    BY <1>1, ConnIs DEF Inv, Natively
  <2> QED BY <1>1, <2>1, TaskSessionsAssumption DEF Turns
<1>3. conn' = [conn EXCEPT ![k] = r]
  BY <1>1, ConnIs
<1>4. r \in [st : {"free", "open", "closed", "gone"}, t : Tasks \cup {None}, reg : BOOLEAN, told : Turns]
  <2> HIDE DEF n
  <2> QED BY <1>2, ConnIs
<1>5. r.st = conn[k].st /\ r.t = conn[k].t /\ (r.reg <=> conn[k].reg)
  BY ConnIs
<1> HIDE DEF r
<1> QED BY <1>1, <1>3, <1>4, <1>5, ConnKeeps

LEMMA EndKeeps ==
  ASSUME Inv, NEW k \in Conns, NEW st \in {"closed", "gone"}, conn[k].st \in {"open", "closed"},
         conn' = [conn EXCEPT ![k].st = st],
         \/ entries' = entries
         \/ \E t \in Tasks : entries[t] = k /\ entries' = [entries EXCEPT ![t] = None],
         Bystanders, UNCHANGED <<draining, held, phase, stopping, closed>>
  PROVE  Inv' /\ (Final => Final')
<1> DEFINE r == [conn[k] EXCEPT !.st = st]
<1>1. conn' = [conn EXCEPT ![k] = r]
  BY ConnIs
<1>2. r \in [st : {"free", "open", "closed", "gone"}, t : Tasks \cup {None}, reg : BOOLEAN, told : Turns]
  BY ConnIs
<1>3. r.st = st /\ r.t = conn[k].t /\ (r.reg <=> conn[k].reg)
  BY ConnIs
<1> HIDE DEF r
<1> QED BY <1>1, <1>2, <1>3, ConnKeeps

LEMMA LostKeeps ==
  ASSUME Inv, NEW k \in Conns, Lost(k), UNCHANGED calling
  PROVE  Inv' /\ (Final => Final')
  BY EndKeeps DEF Lost, CloseConn, Bystanders

LEMMA ClosedHandlerKeeps ==
  ASSUME Inv, NEW k \in Conns, ClosedHandler(k), UNCHANGED calling
  PROVE  Inv' /\ (Final => Final')
<1>1. /\ Bystanders /\ conn[k].st = "closed" /\ conn[k].t \in Tasks /\ conn' = [conn EXCEPT ![k].st = "gone"]
      /\ UNCHANGED <<draining, held, phase, stopping, closed>>
  BY ConnIs DEF ClosedHandler, Bystanders
<1>2. \/ entries' = entries
      \/ \E t \in Tasks : entries[t] = k /\ entries' = [entries EXCEPT ![t] = None]
  BY <1>1 DEF ClosedHandler
<1> QED BY <1>1, <1>2, EndKeeps

(* The fence and its end.                                                   *)
LEMMA FenceKeeps ==
  ASSUME Inv, PrepareShutdown \/ NotIdle, UNCHANGED calling
  PROVE  Inv' /\ (Final => Final')
<1>1. /\ Bystanders /\ UNCHANGED <<entries, conn, held, phase, closed>>
  BY DEF PrepareShutdown, NotIdle, Bystanders
<1>2. Table' /\ Narrows /\ Taken' /\ Stored
  BY <1>1, TableStill, NarrowsTaken, StillStored DEF Bystanders, Inv, Table
<1>3. Fenced'
  <2>1. CASE PrepareShutdown
    <3>1. Cardinality(Pending) = 0 /\ draining' = TRUE /\ stopping' = "verify"
      BY <2>1 DEF PrepareShutdown, NothingPending, Inv, Counted
    <3>2. Pending = {}
      BY <3>1, FS_Subset, FS_EmptySet, TaskSessionsAssumption DEF Pending
    <3>3. Pending' = {}
      BY <1>1, <3>2 DEF Pending, Bystanders
    <3> QED BY <1>1, <3>1, <3>3 DEF Inv, Fenced
  <2>2. CASE NotIdle
    BY <1>1, <2>2 DEF NotIdle, Inv, Fenced
  <2> QED BY <2>1, <2>2
<1>4. ASSUME Final PROVE Final'
  <2>1. Closing'
    <3>1. ~FenceStands'
      BY DEF PrepareShutdown, NotIdle, FenceStands
    <3> QED BY <3>1 DEF Closing
  <2>2. Known' /\ Vacant' /\ Owners'
    BY <1>1, <1>4 DEF Final, Known, Vacant, Owners, Opens, Bystanders
  <2> QED BY <2>1, <2>2 DEF Final
<1> QED BY <1>1, <1>2, <1>3, <1>4, OthersKeep

(* Close empties the table, and ends every connection of it.                *)
LEMMA CloseAllKeeps ==
  ASSUME Inv, CloseAll, UNCHANGED calling, stopping' = stopping \/ (stopping = "verify" /\ stopping' = "prepared")
  PROVE  Inv' /\ (Final => Final')
<1> USE Distinct
<1>1. Bystanders /\ UNCHANGED <<held, phase>> /\ draining' = TRUE /\ closed' = TRUE
  BY DEF CloseAll, Bystanders
<1>2. entries' = [t \in Tasks |-> None]
  BY DEF CloseAll
<1>3. \A k \in Conns : conn'[k] = IF conn[k].st = "open" /\ \E t \in Tasks : entries[t] = k
                                  THEN [conn[k] EXCEPT !.st = "closed"] ELSE conn[k]
  BY DEF CloseAll
<1>4. ASSUME NEW k \in Conns
      PROVE  /\ conn'[k] \in [st : {"free", "open", "closed", "gone"}, t : Tasks \cup {None}, reg : BOOLEAN, told : Turns]
             /\ conn'[k].t = conn[k].t /\ (conn'[k].reg <=> conn[k].reg) /\ (conn[k].st # "free" => conn'[k].st # "free")
             /\ conn'[k].st = "open" => conn[k].st = "open" /\ ~\E t \in Tasks : entries[t] = k
  <2>1. conn[k] \in [st : {"free", "open", "closed", "gone"}, t : Tasks \cup {None}, reg : BOOLEAN, told : Turns]
    BY ConnIs
  <2>2. CASE conn[k].st = "open" /\ \E t \in Tasks : entries[t] = k
    <3>1. conn'[k] = [conn[k] EXCEPT !.st = "closed"]
      BY <1>3, <2>2
    <3> QED BY <2>1, <2>2, <3>1
  <2>3. CASE ~(conn[k].st = "open" /\ \E t \in Tasks : entries[t] = k)
    <3>1. conn'[k] = conn[k]
      BY <1>3, <2>3
    <3> QED BY <2>1, <2>3, <3>1
  <2> QED BY <2>2, <2>3
<1>5. conn' \in [Conns -> [st : {"free", "open", "closed", "gone"}, t : Tasks \cup {None}, reg : BOOLEAN, told : Turns]]
  <2>1. conn' = [k \in Conns |-> conn'[k]]
    BY DEF CloseAll
  <2> QED BY <1>4, <2>1
<1>6. Table'
  <2>1. \A k \in Conns : conn'[k].reg => conn'[k].t \in Tasks /\ conn'[k].st # "free"
    BY <1>4 DEF Inv, Table
  <2>2. entries' \in [Tasks -> Conns \cup {None}]
    BY <1>2
  <2> QED BY <1>1, <1>5, <2>1, <2>2 DEF Inv, Table, Bystanders
<1>7. Taken'
  <2>1. \A d \in Clients : op[d].pc \in Admitting => op[d].k \in Conns /\ conn[op[d].k].st # "free"
    BY DEF Inv, Taken, Operating, Proper, Admitting, Connected
  <2> QED BY <1>1, <1>4, <2>1 DEF Taken, Bystanders
<1>8. Fenced'
  <2>1. Pending' = Pending
    BY <1>1 DEF Pending, Bystanders
  <2> QED BY <1>1, <2>1 DEF Inv, Fenced
<1>9. ASSUME Final PROVE Final'
  <2>1. UNCHANGED <<op, created, known>>
    BY <1>1 DEF Bystanders
  <2>2. \A t \in Tasks : entries'[t] = None
    BY <1>2
  <2>3. Closing'
    BY <2>2 DEF Closing
  <2>4. Known'
    BY <1>9, <2>1, <2>2, KnownKept DEF Final
  <2>5. Vacant'
    <3>1. \A c \in Clients : Tracked(c) => op[c].t \in Tasks
      BY OpIs DEF Tracked, Opens, OpeningSteps, Proper
    <3> QED BY <2>1, <2>2, <3>1 DEF Vacant, Tracked, Opens
  <2>6. Owners'
    BY <1>4, <1>9, <2>1 DEF Final, Owners
  <2> QED BY <2>3, <2>4, <2>5, <2>6 DEF Final
<1> QED BY <1>1, <1>6, <1>7, <1>8, <1>9, StillStored, OthersKeep

-----------------------------------------------------------------------------
(* Every step keeps the invariant; unless it is an early read, it keeps     *)
(* what a standing fence leaves behind.                                     *)
LEMMA ClientStepKeeps ==
  ASSUME Inv, NEW c \in Clients, ClientStep(c), UNCHANGED calling
  PROVE  Inv' /\ (Final => Final')
  BY AcquireKeeps, FactoryKeeps, OpenedKeeps, AttachKeeps, PublishKeeps, FinishOpeningKeeps, ReturnsKeeps,
     StartTaskKeeps, ProvenanceKeeps, DraftRefusedKeeps, UsesKeeps, AccessKeeps, ReadEpochKeeps, ReadStateKeeps,
     RecheckKeeps, RunKeeps, SendKeeps
  DEF ClientStep

LEMMA StepKeeps ==
  ASSUME Inv, [Next /\ UNCHANGED calling]_<<vars, calling>>
  PROVE  Inv' /\ (Final /\ ~EarlyReads => Final')
<1>1. CASE UNCHANGED <<vars, calling>>
  <2>1. Bystanders /\ UNCHANGED <<entries, conn, held, phase, draining, stopping, closed>>
    BY <1>1 DEF vars, Bystanders
  <2>2. Table' /\ Narrows /\ Taken' /\ Stored /\ Fenced'
    BY <2>1, TableStill, NarrowsTaken, StillStored DEF Bystanders, Inv, Table, Fenced, Pending
  <2> QED BY <2>1, <2>2, OthersKeep, NarrowsKeeps
<1>2. CASE Next /\ UNCHANGED calling
  <2>0. UNCHANGED calling
    BY <1>2
  <2>1. ASSUME NEW c \in Clients, Begin(c) PROVE Inv' /\ (Final /\ ~EarlyReads => Final')
    BY <2>0, <2>1, BeginKeeps
  <2>2. ASSUME NEW c \in Clients, ClientStep(c) PROVE Inv' /\ (Final => Final')
    BY <2>0, <2>2, ClientStepKeeps
  <2>3. ASSUME NEW t \in Tasks, TurnEnds(t) PROVE Inv' /\ (Final => Final')
    BY <2>0, <2>3, TurnEndsKeeps
  <2>4. ASSUME NEW k \in Conns, Notified(k) \/ Lost(k) \/ ClosedHandler(k) PROVE Inv' /\ (Final => Final')
    BY <2>0, <2>4, NotifiedKeeps, LostKeeps, ClosedHandlerKeeps
  <2>5. CASE PrepareShutdown \/ NotIdle
    BY <2>0, <2>5, FenceKeeps
  <2>6. CASE VerifiedIdle
    BY <2>0, <2>6, CloseAllKeeps DEF VerifiedIdle
  <2>7. CASE OuterClose
    BY <2>0, <2>7, CloseAllKeeps DEF OuterClose
  <2> QED BY <1>2, <2>1, <2>2, <2>3, <2>4, <2>5, <2>6, <2>7 DEF Next
<1> QED BY <1>1, <1>2

LEMMA InitHolds ==
  ASSUME Init
  PROVE  Inv /\ Final
<1> USE Distinct
<1>1. \A c \in Clients : op[c] = Idle
  BY DEF Init
<1>2. /\ entries = [t \in Tasks |-> None] /\ opening = [t \in Tasks |-> None] /\ lock = [k \in Conns |-> None]
      /\ conn = [k \in Conns |-> [st |-> "free", t |-> None, reg |-> FALSE, told |-> 0]]
      /\ draining = FALSE /\ writes = 0 /\ stopping = "no" /\ closed = FALSE /\ known = created /\ created \subseteq Tasks
  BY DEF Init
<1>3. Operating
  BY <1>1, IdleIs DEF Init, Operating
<1>4. \A c \in Clients : ~Opens(c) /\ op[c].pc = "idle" /\ op[c].t = None
  BY <1>1, IdleIs DEF Opens, OpeningSteps
<1>5. Openers /\ Leaders /\ Waiters /\ Lockers /\ Taken
  BY <1>2, <1>4 DEF Openers, Leaders, Waiters, Lockers, Taken, Admitting
<1>6. Table
  BY <1>2, NoBindingTyped DEF Table
<1>7. Natively
  <2>1. held \in [Clients -> Bindings] /\ phase \in [Tasks -> Turns] /\ calling \in [Clients -> SUBSET Kinds]
    BY NoBindingTyped, CallingsAssumption DEF Init
  <2> QED BY <1>2, <1>4, <2>1 DEF Natively
<1>8. Pending = {}
  BY <1>4 DEF Pending
<1>9. Counted /\ Fenced
  BY <1>2, <1>8, FS_EmptySet DEF Counted, Fenced
<1>10. Closing /\ Known /\ Vacant /\ Owners
  BY <1>2, <1>4 DEF Closing, Known, Vacant, Owners
<1> QED BY <1>3, <1>5, <1>6, <1>7, <1>9, <1>10 DEF Inv, Final

LEMMA InvHolds == Spec => []Inv
<1>1. Init => Inv
  BY InitHolds
<1>2. Inv /\ [Next /\ UNCHANGED calling]_<<vars, calling>> => Inv'
  BY StepKeeps
<1> QED BY <1>1, <1>2, PTL DEF Spec

(* Who waits, waits for an operation that is still under way: a shared      *)
(* attempt (newtasksessions.go: acquire and its finish) belongs to a caller *)
(* that opens that task, and an entry's operation lock to an operation on   *)
(* it.                                                                      *)
THEOREM NobodyWaitsOnTheDead == Spec => []WaitsOnTheLiving
<1>1. Inv => WaitsOnTheLiving
  <2> SUFFICES ASSUME Inv PROVE WaitsOnTheLiving
    OBVIOUS
  <2>1. \A c \in Clients : op[c].pc = "wait" => opening[op[c].t] = op[c].lead /\ op[c].lead # None
    BY OpIs DEF Inv, Waiters, Proper
  <2>2. \A t \in Tasks : opening[t] # None =>
          op[opening[t]].t = t /\ op[opening[t]].pc \in {"factory", "opened", "attach", "publish", "finish"}
    BY DEF Inv, Openers, Opens, OpeningSteps
  <2>3. \A k \in Conns : lock[k] # None =>
          op[lock[k]].k = k /\ op[lock[k]].pc \in {"run", "epoch", "snapshot", "recheck", "send"}
    BY DEF Inv, Lockers, Locking
  <2> QED BY <2>1, <2>2, <2>3 DEF WaitsOnTheLiving
<1> QED BY <1>1, InvHolds, PTL

(* A bound mutation reaches only what its access showed (taskaccess.go:     *)
(* validate, checked under the entry's lock and again before the request).  *)
THEOREM BoundMutationsReachWhatTheySaw == Spec => []BoundDispatch
<1>1. Inv => BoundDispatch
  BY DEF Inv, Operating, Proper, Dispatches, BoundDispatch
<1> QED BY <1>1, InvHolds, PTL

LEMMA TypesHold ==
  ASSUME Inv
  PROVE  TypeOK
<1>1. \A c \in Clients : op[c].kind \in Kinds /\ op[c].bind \in Bindings /\ op[c].turn \in Turns
  BY OpIs DEF Operations
<1> QED BY <1>1 DEF TypeOK, Inv, Table, Natively, Fenced, Counted, Pending

(* PrepareShutdown (newtasksessions.go) succeeds only over finished         *)
(* mutations, and none begins afterwards: whatever is asked for early and   *)
(* whenever Close is called.                                                *)
THEOREM PreparedMeansQuiet == Spec => [](TypeOK /\ ShutdownQuiet)
<1>1. Inv => TypeOK /\ ShutdownQuiet
  BY TypesHold DEF ShutdownQuiet, Inv, Fenced, Pending
<1> QED BY <1>1, InvHolds, PTL

(* A shutdown is final (newtasksessions.go: PrepareShutdown and Close),     *)
(* when a task is asked for only after its creation returned, and whenever  *)
(* Close is called: nothing was pending when it was prepared, and while the *)
(* fence of a Close stands nothing is published and no connection is open   *)
(* when the last call has returned.                                         *)
THEOREM ShutdownsAreFinal ==
  ASSUME ~EarlyReads
  PROVE  Spec => []ShutdownFinal
<1>1. Init => Inv /\ Final
  BY InitHolds
<1>2. Inv /\ Final /\ [Next /\ UNCHANGED calling]_<<vars, calling>> => Inv' /\ Final'
  BY StepKeeps
<1>3. Inv /\ Final => ShutdownFinal
  <2> SUFFICES ASSUME Inv, Final PROVE ShutdownFinal
    OBVIOUS
  <2>2. TypeOK
    BY TypesHold
  <2>3. ShutdownQuiet
    BY DEF ShutdownQuiet, Inv, Fenced, Pending
  <2>4. ASSUME FenceStands, \A c \in Clients : op[c].pc = "idle", NEW k \in Conns, conn[k].st = "open" PROVE FALSE
    <3>1. \A t \in Tasks : entries[t] # k
      BY <2>4, Distinct DEF Final, Closing
    <3>2. \A c \in Clients : op[c].pc \notin Admitting
      BY <2>4 DEF Admitting
    <3> QED BY <2>4, <3>1, <3>2 DEF Final, Owners
  <2>5. FencedIsFinal
    BY <2>4 DEF FencedIsFinal, Final, Closing
  <2> QED BY <2>2, <2>3, <2>4, <2>5 DEF ShutdownFinal
<1> QED BY <1>1, <1>2, <1>3, PTL DEF Spec
==============================================================================
