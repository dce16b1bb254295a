--------------------------- MODULE ExecutorsProofs ---------------------------
(***************************************************************************)
(* Proofs about Executors, for any executor directories, tasks, callers,   *)
(* capacity and number of faults: a task never has two native writers, the *)
(* durable records can be relied on, and no running turn is killed.        *)
(***************************************************************************)
EXTENDS Executors, TLAPS

(* The task of an executor: the one its native process has loaded, or the   *)
(* one it was allocated for.  It never changes.                             *)
TaskOf(e) == IF native[e].task # None THEN native[e].task ELSE rec[e].task
Owned(t) == origin[t] # None \/ recovered[t] # None
Ended == {"retired", "exited"}

(* The life of a keeper, its native process and its guardian.               *)
Unborn(e) ==
  keeper[e] \in {"none", "launched"} =>
    /\ mem[e].phase = "none" /\ mem[e].task = None /\ guardian[e].pc = "none"
    /\ native[e].task = None /\ rec[e].phase \in {"none", "starting", "exited"}
    /\ keeper[e] = "launched" => rec[e].phase = "starting"
Starting(e) ==
  keeper[e] \in {"claimed", "spawned", "recorded", "attempt"} =>
    /\ mem[e].phase \in {"starting", "disconnected"} /\ rec[e].phase = mem[e].phase
    /\ native[e].task = None
    /\ keeper[e] # "attempt" => mem[e].phase = "starting" /\ guardian[e].pc = "none"
    /\ keeper[e] \in {"recorded", "attempt"} => mem[e].native
Serving(e) == keeper[e] = "serving" => mem[e].phase = "ready"
Ending(e) ==
  keeper[e] \in {"ending", "ended"} =>
    mem[e].phase \in Ended /\ (keeper[e] = "ending" => snap[e].loop.phase \in Ended)
Gone(e) == keeper[e] = "dead" => ~linked[e] /\ recording[e] = "no"
Working(e) ==
  /\ recording[e] # "no" => keeper[e] \in {"serving", "ending", "ended"} /\ native[e].task # None
  /\ recording[e] = "save" => snap[e].request.phase \in {"ready"} \cup Ended
  /\ linked[e] => keeper[e] \in {"serving", "ending", "ended"}
  /\ retiring[e] => keeper[e] \in {"serving", "ending", "ended", "dead"} /\ ~native[e].turn
  /\ native[e].alive => keeper[e] \in {"spawned", "recorded", "attempt", "serving", "dead"}
  /\ native[e].turn => native[e].alive /\ keeper[e] \in {"serving", "dead"}
Guarding(e) ==
  guardian[e].pc \in {"releasing", "saving"} =>
    /\ keeper[e] = "dead" /\ ~native[e].turn /\ guardian[e].task = TaskOf(e)
    /\ guardian[e].pc = "saving" => ~native[e].alive
Published(r) == r.phase = "ready" => r.url /\ r.native
Phased(e) ==
  /\ keeper[e] # "none" => rec[e].phase # "none"
  /\ rec[e].phase \in Ended => ~native[e].alive /\ keeper[e] \notin {"launched", "claimed"}
  /\ rec[e].phase \in {"ready", "disconnected"} => keeper[e] \notin {"none", "launched", "claimed"}
  /\ mem[e].phase \in Ended => ~native[e].alive /\ keeper[e] \in {"ending", "ended", "dead"}
  /\ recording[e] = "save" /\ snap[e].request.phase \in Ended => ~native[e].alive
  /\ Published(rec[e]) /\ Published(mem[e]) /\ (recording[e] = "save" => Published(snap[e].request))
Life(e) ==
  /\ Unborn(e) /\ Starting(e) /\ Serving(e) /\ Ending(e) /\ Gone(e) /\ Working(e) /\ Guarding(e) /\ Phased(e)
Lives == \A e \in Execs : Life(e)

(* Nobody who writes down a task of an executor names another one.          *)
Naming(e) ==
  /\ {rec[e].task, mem[e].task, guardian[e].task} \subseteq {None, TaskOf(e)}
  /\ recording[e] = "save" => snap[e].request.task = TaskOf(e)
  /\ keeper[e] = "ending" => snap[e].loop.task \in {None, TaskOf(e)}
  /\ recording[e] \in {"save", "origin", "bind"} => mem[e].task = TaskOf(e)
Untouched(e) ==
  native[e].task = None =>
    /\ mem[e].phase # "none" => mem[e].task = rec[e].task
    /\ guardian[e].pc # "none" => guardian[e].task = rec[e].task
    /\ keeper[e] = "ending" => snap[e].loop.task = rec[e].task
Name(e) == Naming(e) /\ Untouched(e) /\ (recording[e] = "mutate" => mem[e].task = None)
Names == \A e \in Execs : Name(e)

(* An executor that can never write again.                                  *)
Over(e) ==
  /\ rec[e].phase # "none" /\ ~native[e].alive /\ keeper[e] \notin {"launched", "claimed"}
  /\ \A c \in Callers : caller[c].pc \in Allocating => caller[c].e # e

Allocation(c) == caller[c].pc \in {"allocate"} \cup Allocating
(* The calls of the factory.                                                *)
Calling(c) ==
  LET k == caller[c] IN
  /\ k.pc \in Allocating \cup {"connect", "joined"} => k.e \in Execs
  /\ k.pc \in {"idle", "existing", "allocate"} => k.e = None
  /\ k.pc # "idle" => (k.kind = "create" <=> k.task = None)
  /\ k.pc = "existing" => k.kind # "create"
  /\ Allocation(c) => k.kind \in {"create", "open"}
  /\ k.idle => k.task \in begun
  /\ Allocation(c) /\ k.kind = "open" => origin[k.task] # None \/ k.task \in begun
  /\ k.pc \in Allocating => keeper[k.e] = "none" /\ ~native[k.e].alive
  /\ k.pc = "state" => rec[k.e].phase = "none"
  /\ k.pc \in {"current", "recover", "launch"} => rec[k.e].phase = "starting" /\ rec[k.e].task = k.task
  /\ k.pc \in {"current", "recover"} => k.task # None
  /\ k.pc = "recover" => current[k.task] = k.e
  /\ k.pc = "launch" /\ k.task # None => current[k.task] = k.e /\ Owned(k.task)
  /\ k.pc \in {"connect", "joined"} => rec[k.e].phase # "none"
  /\ k.pc \in {"connect", "joined"} /\ k.task # None => TaskOf(k.e) = k.task /\ Owned(k.task)
  /\ k.pc = "connect" /\ k.kind = "create" => TaskOf(k.e) = None
  /\ k.pc = "joined" => linked[k.e]
  /\ k.pc = "joined" /\ k.kind = "create" /\ mem[k.e].task # None /\ recording[k.e] = "no"
       => origin[mem[k.e].task] = k.e
Opens(c) == Opening(c) /\ caller[c].kind = "open"
Calls ==
  /\ \A c \in Callers : Calling(c)
  /\ \A c, d \in Callers : caller[c].pc \in Allocating /\ caller[d].pc \in Allocating => c = d
  /\ \A c, d \in Callers : Opens(c) /\ Opens(d) /\ caller[c].task = caller[d].task => c = d
  /\ \A c, d \in Callers : caller[c].kind = "create" /\ caller[d].kind = "create" /\ caller[c].e # None
                           /\ caller[c].e = caller[d].e => c = d

(* A new task is known to nobody but the executor that has loaded it.       *)
New(e, t) ==
  /\ native[e].task = t /\ ~Owned(t) /\ current[t] = None /\ t \notin begun
  /\ \A f \in Execs : native[f].task = t => f = e
Allocates(c, e, t) == caller[c].pc \in Allocating /\ caller[c].e = e /\ caller[c].task = t
(* Whoever can still write a task is the executor its references lead to,   *)
(* or has just created it, or is about to be launched for it.               *)
Writers ==
  \A e \in Execs, t \in Tasks : TaskOf(e) = t /\ ~Over(e) =>
    \/ Reference(t) = e /\ Owned(t)
    \/ New(e, t)
    \/ \E c \in Callers : Allocates(c, e, t)
(* While a task is given a new executor all the others have ended.          *)
Replacing ==
  \A c \in Callers, e \in Execs :
    (Allocation(c) /\ caller[c].kind = "open" /\ TaskOf(e) = caller[c].task /\ e # caller[c].e) => Over(e)

(* What is written down about a task says so.                               *)
Given(e, t) ==
  /\ rec[e].task = t /\ (mem[e].phase # "none" => mem[e].task = t)
  /\ keeper[e] = "ending" => snap[e].loop.task = t
References ==
  /\ \A e \in Execs : rec[e].phase = "none" =>
        /\ keeper[e] = "none" /\ native[e].task = None /\ rec[e].task = None
        /\ \A t \in Tasks : e \notin {origin[t], current[t], recovered[t]}
  /\ \A t \in Tasks : /\ recovered[t] # None => current[t] # None /\ (t \in begun \/ origin[t] # None)
                      /\ current[t] # None => Given(current[t], t) /\ (t \in begun \/ origin[t] # None)
                      /\ recovered[t] # None => Given(recovered[t], t)
                      /\ origin[t] # None => native[origin[t]].task = t
                      /\ current[t] = None /\ origin[t] # None /\ t \in begun => Given(origin[t], t)
                      /\ origin[t] # None /\ keeper[origin[t]] = "serving" => Given(origin[t], t)
  /\ \A e \in Execs : /\ recording[e] \in {"mutate", "save", "origin"} => New(e, native[e].task)
                      /\ recording[e] = "origin" /\ keeper[e] = "serving" => rec[e].task = native[e].task
                      /\ recording[e] = "bind" => origin[native[e].task] = e

Inv == TypeOK /\ Lives /\ Names /\ Calls /\ Writers /\ Replacing /\ References /\ ~harmed

-----------------------------------------------------------------------------
(* A step of one executor leaves the others alone ...                       *)
Rests(f) ==
  /\ rec'[f] = rec[f] /\ keeper'[f] = keeper[f] /\ mem'[f] = mem[f] /\ snap'[f] = snap[f]
  /\ recording'[f] = recording[f] /\ linked'[f] = linked[f] /\ retiring'[f] = retiring[f]
  /\ native'[f] = native[f] /\ guardian'[f] = guardian[f]
Others(e) == \A f \in Execs : f # e => Rests(f)
(* ... and its own task and its end untouched, ...                          *)
Steady(e) ==
  /\ keeper[e] # "none" /\ keeper'[e] # "none" /\ rec[e].phase # "none" /\ rec'[e].phase # "none"
  /\ native'[e].task = native[e].task /\ (native[e].task = None => rec'[e].task = rec[e].task)
  /\ keeper'[e] \in {"launched", "claimed"} => keeper[e] \in {"launched", "claimed"}
  /\ native'[e].alive => native[e].alive \/ keeper[e] = "claimed"
  /\ \A t \in Tasks : Given(e, t) => Given(e, t)'
  /\ keeper'[e] = "serving" => keeper[e] = "serving" \/ native[e].task = None
  /\ recording'[e] \in {"mutate", "save", "origin"} => recording[e] \in {"mutate", "save", "origin"}
  /\ recording'[e] = "origin" /\ keeper'[e] = "serving" =>
       rec'[e].task = native[e].task \/ (recording[e] = "origin" /\ keeper[e] = "serving" /\ rec'[e].task = rec[e].task)
  /\ recording'[e] = "bind" => recording[e] = "bind"
(* ... and a client stays joined only to an executor that serves it.        *)
Joins(e) ==
  /\ \A c \in Callers : caller'[c] = caller[c] \/ (caller[c].pc = "joined" /\ caller'[c] = NoCall)
  /\ \A c \in Callers : caller'[c].pc = "joined" /\ caller'[c].e = e =>
       /\ linked[e] => linked'[e]
       /\ caller'[c].kind = "create" /\ mem'[e].task # None /\ recording'[e] = "no" =>
            \/ mem'[e].task = mem[e].task /\ recording[e] = "no"
            \/ recording[e] = "bind" /\ mem'[e].task = native[e].task
            \/ ~linked[e]
Lawful(e) == Others(e) /\ Life(e)' /\ Name(e)' /\ Steady(e) /\ Joins(e) /\ harmed' = harmed

LEMMA NoneIsNoTask == None \notin Tasks /\ None \notin Execs
  BY ExecutorsAssumption

LEMMA TypedAt ==
  ASSUME TypeOK, NEW e \in Execs
  PROVE  /\ rec[e] \in Records /\ mem[e] \in Records
         /\ native[e] \in [alive : BOOLEAN, task : Tasks \cup {None}, turn : BOOLEAN]
         /\ guardian[e] \in [pc : {"none", "watching", "releasing", "saving", "dead"}, task : Tasks \cup {None}]
         /\ snap[e] \in [request : Records, loop : Records]
         /\ keeper[e] \in {"none", "launched", "claimed", "spawned", "recorded", "attempt", "serving",
                           "ending", "ended", "dead"}
         /\ recording[e] \in {"no", "mutate", "save", "origin", "bind"}
         /\ linked[e] \in BOOLEAN /\ retiring[e] \in BOOLEAN
  BY DEF TypeOK, FilesTyped, KeepersTyped, NativesTyped

LEMMA KeeperClaimsLawful == ASSUME Inv, NEW e \in Execs, KeeperClaims(e) PROVE Lawful(e)
<1> TypeOK /\ Life(e) /\ Name(e)
  BY DEF Inv, Lives, Names
<1> USE NoneIsNoTask, TypedAt
<1>1. /\ keeper[e] = "launched"
      /\ rec'[e] = mem'[e]
      /\ keeper'[e] = "claimed"
      /\ mem'[e].phase = "starting" /\ mem'[e].task = rec[e].task /\ ~mem'[e].url /\ ~mem'[e].native
      /\ snap'[e] = snap[e] /\ recording'[e] = recording[e] /\ linked'[e] = linked[e] /\ retiring'[e] = retiring[e]
      /\ native'[e] = native[e] /\ guardian'[e] = guardian[e]
  BY DEF KeeperClaims, Save, Record, files, procs, history, TypeOK, FilesTyped, KeepersTyped, NativesTyped, Records
<1>2. Others(e)
  BY
      DEF KeeperClaims, Save, Record, files, procs, history, Others, Rests, TypeOK, FilesTyped, KeepersTyped,
          NativesTyped
<1>3. Life(e)'
  BY <1>1
      DEF Life, Unborn, Starting, Serving, Ending, Gone, Working, Guarding, Phased, Published, Ended, TaskOf,
          Naming, Untouched, Name, Records
<1>4. Name(e)'
  BY <1>1
      DEF Life, Unborn, Starting, Serving, Ending, Gone, Working, Guarding, Phased, Published, Ended, TaskOf,
          Naming, Untouched, Name, Records
<1>5. Steady(e)
  BY <1>1
      DEF Steady, Given, Life, Unborn, Starting, Serving, Ending, Gone, Working, Guarding, Phased, Published,
          Ended, TaskOf, Naming, Untouched, Name, Records
<1>6. caller' = caller
  BY DEF KeeperClaims
<1>7. Joins(e)
  BY <1>1, <1>6
      DEF Joins, Life, Unborn, Starting, Serving, Ending, Gone, Working, Guarding, Phased, Published, Ended,
          TaskOf, Naming, Name
<1>8. harmed' = harmed
  BY DEF KeeperClaims, history
<1> QED BY <1>2, <1>3, <1>4, <1>5, <1>7, <1>8 DEF Lawful

LEMMA KeeperSpawnsLawful == ASSUME Inv, NEW e \in Execs, KeeperSpawns(e) PROVE Lawful(e)
<1> TypeOK /\ Life(e) /\ Name(e)
  BY DEF Inv, Lives, Names
<1> USE NoneIsNoTask, TypedAt
<1>1. /\ keeper[e] = "claimed"
      /\ keeper'[e] = "spawned"
      /\ native'[e].alive /\ native'[e].task = native[e].task /\ (native'[e].turn <=> native[e].turn)
      /\ rec'[e] = rec[e] /\ mem'[e] = mem[e] /\ snap'[e] = snap[e] /\ recording'[e] = recording[e]
      /\ linked'[e] = linked[e] /\ retiring'[e] = retiring[e] /\ guardian'[e] = guardian[e]
  BY DEF KeeperSpawns, files, procs, history, TypeOK, FilesTyped, KeepersTyped, NativesTyped, Records
<1>2. Others(e)
  BY DEF KeeperSpawns, files, procs, history, Others, Rests, TypeOK, FilesTyped, KeepersTyped, NativesTyped
<1>3. Life(e)'
  BY <1>1
      DEF Life, Unborn, Starting, Serving, Ending, Gone, Working, Guarding, Phased, Published, Ended, TaskOf,
          Naming, Untouched, Name, Records
<1>4. Name(e)'
  BY <1>1
      DEF Life, Unborn, Starting, Serving, Ending, Gone, Working, Guarding, Phased, Published, Ended, TaskOf,
          Naming, Untouched, Name, Records
<1>5. Steady(e)
  BY <1>1
      DEF Steady, Given, Life, Unborn, Starting, Serving, Ending, Gone, Working, Guarding, Phased, Published,
          Ended, TaskOf, Naming, Untouched, Name, Records
<1>6. caller' = caller
  BY DEF KeeperSpawns
<1>7. Joins(e)
  BY <1>1, <1>6
      DEF Joins, Life, Unborn, Starting, Serving, Ending, Gone, Working, Guarding, Phased, Published, Ended,
          TaskOf, Naming, Name
<1>8. harmed' = harmed
  BY DEF KeeperSpawns, history
<1> QED BY <1>2, <1>3, <1>4, <1>5, <1>7, <1>8 DEF Lawful

LEMMA KeeperRecordsNativeLawful == ASSUME Inv, NEW e \in Execs, KeeperRecordsNative(e) PROVE Lawful(e)
<1> TypeOK /\ Life(e) /\ Name(e)
  BY DEF Inv, Lives, Names
<1> USE NoneIsNoTask, TypedAt
<1>1. /\ keeper[e] = "spawned"
      /\ mem'[e].phase = mem[e].phase /\ mem'[e].task = mem[e].task /\ (mem'[e].url <=> mem[e].url) /\ mem'[e].native
      /\ snap'[e] = snap[e]
      /\ recording'[e] = recording[e]
      /\ linked'[e] = linked[e]
      /\ retiring'[e] = retiring[e]
      /\ guardian'[e] = guardian[e]
  BY
      DEF KeeperRecordsNative, Save, EndNative, KeeperDies, files, procs, history, TypeOK, FilesTyped,
          KeepersTyped, NativesTyped, Records
<1>2. \/ /\ rec'[e] = mem'[e]
         /\ keeper'[e] = "recorded"
         /\ native'[e] = native[e]
      \/ /\ rec'[e] = rec[e]
         /\ keeper'[e] = "dead"
         /\ ~native'[e].alive /\ native'[e].task = native[e].task /\ ~native'[e].turn
  <2>1. CASE Save(e, mem'[e]) /\ keeper' = [keeper EXCEPT ![e] = "recorded"] /\ UNCHANGED native
    BY <2>1
        DEF Save, EndNative, KeeperDies, StartNativeGuardian, TypeOK, FilesTyped, KeepersTyped, NativesTyped,
            Records
  <2>2. CASE EndNative(e) /\ KeeperDies(e) /\ UNCHANGED rec
    BY <2>2
        DEF Save, EndNative, KeeperDies, StartNativeGuardian, TypeOK, FilesTyped, KeepersTyped, NativesTyped,
            Records
  <2> QED BY <2>1, <2>2 DEF KeeperRecordsNative
<1>3. Others(e)
  BY
      DEF KeeperRecordsNative, Save, EndNative, KeeperDies, files, procs, history, Others, Rests, TypeOK,
          FilesTyped, KeepersTyped, NativesTyped
<1>4. Life(e)'
  BY <1>1, <1>2
      DEF Life, Unborn, Starting, Serving, Ending, Gone, Working, Guarding, Phased, Published, Ended, TaskOf,
          Naming, Untouched, Name, Records
<1>5. Name(e)'
  BY <1>1, <1>2
      DEF Life, Unborn, Starting, Serving, Ending, Gone, Working, Guarding, Phased, Published, Ended, TaskOf,
          Naming, Untouched, Name, Records
<1>6. Steady(e)
  BY <1>1, <1>2
      DEF Steady, Given, Life, Unborn, Starting, Serving, Ending, Gone, Working, Guarding, Phased, Published,
          Ended, TaskOf, Naming, Untouched, Name, Records
<1>7. caller' = caller
  BY DEF KeeperRecordsNative
<1>8. Joins(e)
  BY <1>1, <1>2, <1>7
      DEF Joins, Life, Unborn, Starting, Serving, Ending, Gone, Working, Guarding, Phased, Published, Ended,
          TaskOf, Naming, Name
<1>9. ~native[e].turn
  BY <1>1, <1>2
      DEF Life, Unborn, Starting, Serving, Ending, Gone, Working, Guarding, Phased, Published, Ended, TaskOf
<1>10. harmed' = harmed
  BY <1>9 DEF KeeperRecordsNative, EndNative, TypeOK, CallersTyped
<1> QED BY <1>3, <1>4, <1>5, <1>6, <1>8, <1>10 DEF Lawful

LEMMA KeeperGuardsLawful == ASSUME Inv, NEW e \in Execs, KeeperGuards(e) PROVE Lawful(e)
<1> TypeOK /\ Life(e) /\ Name(e)
  BY DEF Inv, Lives, Names
<1> USE NoneIsNoTask, TypedAt
<1>1. /\ keeper[e] = "recorded"
      /\ rec'[e] = mem'[e]
      /\ snap'[e] = snap[e]
      /\ recording'[e] = recording[e]
      /\ linked'[e] = linked[e]
      /\ retiring'[e] = retiring[e]
  BY
      DEF KeeperGuards, Save, EndNative, KeeperDies, StartNativeGuardian, files, procs, history, TypeOK,
          FilesTyped, KeepersTyped, NativesTyped, Records
<1>2. \/ /\ keeper'[e] = "attempt"
         /\ mem'[e].phase = mem[e].phase /\ mem'[e].task = mem[e].task /\ (mem'[e].url <=> mem[e].url) /\ (mem'[e].native <=> mem[e].native)
         /\ native'[e] = native[e]
         /\ guardian'[e].pc = "watching" /\ guardian'[e].task = rec[e].task
      \/ /\ keeper'[e] = "dead"
         /\ mem'[e].phase = "exited" /\ mem'[e].task = mem[e].task /\ (mem'[e].url <=> mem[e].url) /\ (mem'[e].native <=> mem[e].native)
         /\ ~native'[e].alive /\ native'[e].task = native[e].task /\ ~native'[e].turn
         /\ guardian'[e] = guardian[e]
  <2>1. CASE StartNativeGuardian(e) /\ Save(e, mem'[e]) /\ mem' = [mem EXCEPT ![e].guardian = TRUE]
           /\ keeper' = [keeper EXCEPT ![e] = "attempt"] /\ UNCHANGED native
    BY <2>1
        DEF Save, EndNative, KeeperDies, StartNativeGuardian, TypeOK, FilesTyped, KeepersTyped, NativesTyped,
            Records
  <2>2. CASE EndNative(e) /\ KeeperDies(e) /\ mem' = [mem EXCEPT ![e].phase = "exited"] /\ Save(e, mem'[e])
           /\ UNCHANGED guardian
    BY <2>2
        DEF Save, EndNative, KeeperDies, StartNativeGuardian, TypeOK, FilesTyped, KeepersTyped, NativesTyped,
            Records
  <2> QED BY <2>1, <2>2 DEF KeeperGuards
<1>3. Others(e)
  BY
      DEF KeeperGuards, Save, EndNative, KeeperDies, StartNativeGuardian, files, procs, history, Others, Rests,
          TypeOK, FilesTyped, KeepersTyped, NativesTyped
<1>4. Life(e)'
  BY <1>1, <1>2
      DEF Life, Unborn, Starting, Serving, Ending, Gone, Working, Guarding, Phased, Published, Ended, TaskOf,
          Naming, Untouched, Name, Records
<1>5. Name(e)'
  BY <1>1, <1>2
      DEF Life, Unborn, Starting, Serving, Ending, Gone, Working, Guarding, Phased, Published, Ended, TaskOf,
          Naming, Untouched, Name, Records
<1>6. Steady(e)
  BY <1>1, <1>2
      DEF Steady, Given, Life, Unborn, Starting, Serving, Ending, Gone, Working, Guarding, Phased, Published,
          Ended, TaskOf, Naming, Untouched, Name, Records
<1>7. caller' = caller
  BY DEF KeeperGuards
<1>8. Joins(e)
  BY <1>1, <1>2, <1>7
      DEF Joins, Life, Unborn, Starting, Serving, Ending, Gone, Working, Guarding, Phased, Published, Ended,
          TaskOf, Naming, Name
<1>9. ~native[e].turn
  BY <1>1, <1>2
      DEF Life, Unborn, Starting, Serving, Ending, Gone, Working, Guarding, Phased, Published, Ended, TaskOf
<1>10. harmed' = harmed
  BY <1>9 DEF KeeperGuards, EndNative, TypeOK, CallersTyped
<1> QED BY <1>3, <1>4, <1>5, <1>6, <1>8, <1>10 DEF Lawful

LEMMA PublishLawful == ASSUME Inv, NEW e \in Execs, Publish(e) PROVE Lawful(e)
<1> TypeOK /\ Life(e) /\ Name(e)
  BY DEF Inv, Lives, Names
<1> USE NoneIsNoTask, TypedAt
<1>1. /\ keeper[e] = "attempt" /\ native[e].alive
      /\ rec'[e] = mem'[e]
      /\ keeper'[e] = "serving"
      /\ mem'[e].phase = "ready" /\ mem'[e].task = mem[e].task /\ mem'[e].url /\ (mem'[e].native <=> mem[e].native)
      /\ linked'[e]
      /\ snap'[e] = snap[e] /\ recording'[e] = recording[e] /\ retiring'[e] = retiring[e] /\ native'[e] = native[e]
      /\ guardian'[e] = guardian[e]
  BY DEF Publish, Save, files, procs, history, TypeOK, FilesTyped, KeepersTyped, NativesTyped, Records
<1>2. Others(e)
  BY DEF Publish, Save, files, procs, history, Others, Rests, TypeOK, FilesTyped, KeepersTyped, NativesTyped
<1>3. Life(e)'
  BY <1>1
      DEF Life, Unborn, Starting, Serving, Ending, Gone, Working, Guarding, Phased, Published, Ended, TaskOf,
          Naming, Untouched, Name, Records
<1>4. Name(e)'
  BY <1>1
      DEF Life, Unborn, Starting, Serving, Ending, Gone, Working, Guarding, Phased, Published, Ended, TaskOf,
          Naming, Untouched, Name, Records
<1>5. Steady(e)
  BY <1>1
      DEF Steady, Given, Life, Unborn, Starting, Serving, Ending, Gone, Working, Guarding, Phased, Published,
          Ended, TaskOf, Naming, Untouched, Name, Records
<1>6. caller' = caller
  BY DEF Publish
<1>7. Joins(e)
  BY <1>1, <1>6
      DEF Joins, Life, Unborn, Starting, Serving, Ending, Gone, Working, Guarding, Phased, Published, Ended,
          TaskOf, Naming, Name
<1>8. harmed' = harmed
  BY DEF Publish, history
<1> QED BY <1>2, <1>3, <1>4, <1>5, <1>7, <1>8 DEF Lawful

LEMMA AttemptFailsLawful == ASSUME Inv, NEW e \in Execs, AttemptFails(e) PROVE Lawful(e)
<1> TypeOK /\ Life(e) /\ Name(e)
  BY DEF Inv, Lives, Names
<1> USE NoneIsNoTask, TypedAt
<1>1. /\ keeper[e] = "attempt" /\ native[e].alive
      /\ snap'[e] = snap[e]
      /\ recording'[e] = recording[e]
      /\ linked'[e] = linked[e]
      /\ retiring'[e] = retiring[e]
      /\ guardian'[e] = guardian[e]
  BY
      DEF AttemptFails, Save, EndNative, KeeperDies, files, procs, history, TypeOK, FilesTyped, KeepersTyped,
          NativesTyped, Records
<1>2. \/ /\ rec'[e] = mem'[e]
         /\ keeper'[e] = keeper[e]
         /\ mem'[e].phase = "disconnected" /\ mem'[e].task = mem[e].task /\ ~mem'[e].url /\ (mem'[e].native <=> mem[e].native)
         /\ native'[e] = native[e]
      \/ /\ rec'[e] = rec[e]
         /\ keeper'[e] = "dead"
         /\ mem'[e] = mem[e]
         /\ ~native'[e].alive /\ native'[e].task = native[e].task /\ ~native'[e].turn
  <2>1. CASE mem' = [mem EXCEPT ![e].phase = "disconnected", ![e].url = FALSE] /\ Save(e, mem'[e])
           /\ UNCHANGED <<keeper, native>>
    BY <2>1
        DEF Save, EndNative, KeeperDies, StartNativeGuardian, TypeOK, FilesTyped, KeepersTyped, NativesTyped,
            Records
  <2>2. CASE EndNative(e) /\ KeeperDies(e) /\ UNCHANGED <<rec, mem>>
    BY <2>2
        DEF Save, EndNative, KeeperDies, StartNativeGuardian, TypeOK, FilesTyped, KeepersTyped, NativesTyped,
            Records
  <2> QED BY <2>1, <2>2 DEF AttemptFails
<1>3. Others(e)
  BY
      DEF AttemptFails, Save, EndNative, KeeperDies, files, procs, history, Others, Rests, TypeOK, FilesTyped,
          KeepersTyped, NativesTyped
<1>4. Life(e)'
  BY <1>1, <1>2
      DEF Life, Unborn, Starting, Serving, Ending, Gone, Working, Guarding, Phased, Published, Ended, TaskOf,
          Naming, Untouched, Name, Records
<1>5. Name(e)'
  BY <1>1, <1>2
      DEF Life, Unborn, Starting, Serving, Ending, Gone, Working, Guarding, Phased, Published, Ended, TaskOf,
          Naming, Untouched, Name, Records
<1>6. Steady(e)
  BY <1>1, <1>2
      DEF Steady, Given, Life, Unborn, Starting, Serving, Ending, Gone, Working, Guarding, Phased, Published,
          Ended, TaskOf, Naming, Untouched, Name, Records
<1>7. caller' = caller
  BY DEF AttemptFails
<1>8. Joins(e)
  BY <1>1, <1>2, <1>7
      DEF Joins, Life, Unborn, Starting, Serving, Ending, Gone, Working, Guarding, Phased, Published, Ended,
          TaskOf, Naming, Name
<1>9. ~native[e].turn
  BY <1>1, <1>2
      DEF Life, Unborn, Starting, Serving, Ending, Gone, Working, Guarding, Phased, Published, Ended, TaskOf
<1>10. harmed' = harmed
  BY <1>9 DEF AttemptFails, EndNative, TypeOK, CallersTyped
<1> QED BY <1>3, <1>4, <1>5, <1>6, <1>8, <1>10 DEF Lawful

LEMMA LinkBreaksLawful == ASSUME Inv, NEW e \in Execs, LinkBreaks(e) PROVE Lawful(e)
<1> TypeOK /\ Life(e) /\ Name(e)
  BY DEF Inv, Lives, Names
<1> USE NoneIsNoTask, TypedAt
<1>1. /\ linked[e]
      /\ ~linked'[e]
      /\ rec'[e] = rec[e] /\ keeper'[e] = keeper[e] /\ mem'[e] = mem[e] /\ snap'[e] = snap[e]
      /\ recording'[e] = recording[e] /\ retiring'[e] = retiring[e] /\ native'[e] = native[e] /\ guardian'[e] = guardian[e]
  BY
      DEF LinkBreaks, Save, ClosedHandler, SetClosedHandler, files, procs, history, TypeOK, FilesTyped,
          KeepersTyped, NativesTyped, Records
<1>2. Others(e)
  BY
      DEF LinkBreaks, Save, ClosedHandler, SetClosedHandler, files, procs, history, Others, Rests, TypeOK,
          FilesTyped, KeepersTyped, NativesTyped
<1>3. Life(e)'
  BY <1>1
      DEF Life, Unborn, Starting, Serving, Ending, Gone, Working, Guarding, Phased, Published, Ended, TaskOf,
          Naming, Untouched, Name, Records
<1>4. Name(e)'
  BY <1>1
      DEF Life, Unborn, Starting, Serving, Ending, Gone, Working, Guarding, Phased, Published, Ended, TaskOf,
          Naming, Untouched, Name, Records
<1>5. Steady(e)
  BY <1>1
      DEF Steady, Given, Life, Unborn, Starting, Serving, Ending, Gone, Working, Guarding, Phased, Published,
          Ended, TaskOf, Naming, Untouched, Name, Records
<1>6. Joins(e)
  BY <1>1
      DEF LinkBreaks, Joins, NoCall, TypeOK, CallersTyped, Life, Unborn, Starting, Serving, Ending, Gone, Working,
          Guarding, Phased, Published, Ended, TaskOf, Naming, Name
<1>7. harmed' = harmed
  BY DEF LinkBreaks, history
<1> QED BY <1>2, <1>3, <1>4, <1>5, <1>6, <1>7 DEF Lawful

LEMMA RetireLawful == ASSUME Inv, NEW e \in Execs, Retire(e) PROVE Lawful(e)
<1> TypeOK /\ Life(e) /\ Name(e)
  BY DEF Inv, Lives, Names
<1> USE NoneIsNoTask, TypedAt
<1>1. /\ keeper[e] = "serving" /\ linked[e] /\ recording[e] = "no" /\ ~native[e].turn
      /\ ~linked'[e]
      /\ retiring'[e]
      /\ rec'[e] = rec[e] /\ keeper'[e] = keeper[e] /\ mem'[e] = mem[e] /\ snap'[e] = snap[e]
      /\ recording'[e] = recording[e] /\ native'[e] = native[e] /\ guardian'[e] = guardian[e]
  BY DEF Retire, files, procs, history, TypeOK, FilesTyped, KeepersTyped, NativesTyped, Records
<1>2. Others(e)
  BY DEF Retire, files, procs, history, Others, Rests, TypeOK, FilesTyped, KeepersTyped, NativesTyped
<1>3. Life(e)'
  BY <1>1
      DEF Life, Unborn, Starting, Serving, Ending, Gone, Working, Guarding, Phased, Published, Ended, TaskOf,
          Naming, Untouched, Name, Records
<1>4. Name(e)'
  BY <1>1
      DEF Life, Unborn, Starting, Serving, Ending, Gone, Working, Guarding, Phased, Published, Ended, TaskOf,
          Naming, Untouched, Name, Records
<1>5. Steady(e)
  BY <1>1
      DEF Steady, Given, Life, Unborn, Starting, Serving, Ending, Gone, Working, Guarding, Phased, Published,
          Ended, TaskOf, Naming, Untouched, Name, Records
<1>6. Joins(e)
  BY <1>1
      DEF Retire, Joins, NoCall, TypeOK, CallersTyped, Life, Unborn, Starting, Serving, Ending, Gone, Working,
          Guarding, Phased, Published, Ended, TaskOf, Naming, Name
<1>7. harmed' = harmed
  BY DEF Retire, history
<1> QED BY <1>2, <1>3, <1>4, <1>5, <1>6, <1>7 DEF Lawful

LEMMA KeeperReleasesLawful == ASSUME Inv, NEW e \in Execs, KeeperReleases(e) PROVE Lawful(e)
<1> TypeOK /\ Life(e) /\ Name(e)
  BY DEF Inv, Lives, Names
<1> USE NoneIsNoTask, TypedAt
<1>1. /\ keeper[e] = "serving" /\ retiring[e]
      /\ ~native'[e].alive /\ native'[e].task = native[e].task /\ ~native'[e].turn
      /\ rec'[e] = rec[e] /\ keeper'[e] = keeper[e] /\ mem'[e] = mem[e] /\ snap'[e] = snap[e]
      /\ recording'[e] = recording[e] /\ linked'[e] = linked[e] /\ retiring'[e] = retiring[e] /\ guardian'[e] = guardian[e]
  BY DEF KeeperReleases, EndNative, files, procs, history, TypeOK, FilesTyped, KeepersTyped, NativesTyped, Records
<1>2. Others(e)
  BY
      DEF KeeperReleases, EndNative, files, procs, history, Others, Rests, TypeOK, FilesTyped, KeepersTyped,
          NativesTyped
<1>3. Life(e)'
  BY <1>1
      DEF Life, Unborn, Starting, Serving, Ending, Gone, Working, Guarding, Phased, Published, Ended, TaskOf,
          Naming, Untouched, Name, Records
<1>4. Name(e)'
  BY <1>1
      DEF Life, Unborn, Starting, Serving, Ending, Gone, Working, Guarding, Phased, Published, Ended, TaskOf,
          Naming, Untouched, Name, Records
<1>5. Steady(e)
  BY <1>1
      DEF Steady, Given, Life, Unborn, Starting, Serving, Ending, Gone, Working, Guarding, Phased, Published,
          Ended, TaskOf, Naming, Untouched, Name, Records
<1>6. caller' = caller
  BY DEF KeeperReleases
<1>7. Joins(e)
  BY <1>1, <1>6
      DEF Joins, Life, Unborn, Starting, Serving, Ending, Gone, Working, Guarding, Phased, Published, Ended,
          TaskOf, Naming, Name
<1>8. ~native[e].turn
  BY <1>1 DEF Life, Unborn, Starting, Serving, Ending, Gone, Working, Guarding, Phased, Published, Ended, TaskOf
<1>9. harmed' = harmed
  BY <1>8 DEF KeeperReleases, EndNative, TypeOK, CallersTyped
<1> QED BY <1>2, <1>3, <1>4, <1>5, <1>7, <1>9 DEF Lawful

LEMMA KeeperEndsLawful == ASSUME Inv, NEW e \in Execs, KeeperEnds(e) PROVE Lawful(e)
<1> TypeOK /\ Life(e) /\ Name(e)
  BY DEF Inv, Lives, Names
<1> USE NoneIsNoTask, TypedAt
<1>1. /\ keeper[e] \in {"attempt", "serving"} /\ ~native[e].alive
      /\ keeper'[e] = "ending"
      /\ mem'[e].phase \in Ended /\ mem'[e].task = mem[e].task /\ ~mem'[e].url /\ (mem'[e].native <=> mem[e].native)
      /\ snap'[e].loop = mem'[e] /\ snap'[e].request = snap[e].request
      /\ rec'[e] = rec[e] /\ recording'[e] = recording[e] /\ linked'[e] = linked[e] /\ retiring'[e] = retiring[e]
      /\ native'[e] = native[e] /\ guardian'[e] = guardian[e]
  BY DEF KeeperEnds, Ended, files, procs, history, TypeOK, FilesTyped, KeepersTyped, NativesTyped, Records
<1>2. Others(e)
  BY DEF KeeperEnds, Ended, files, procs, history, Others, Rests, TypeOK, FilesTyped, KeepersTyped, NativesTyped
<1>3. Life(e)'
  BY <1>1
      DEF Life, Unborn, Starting, Serving, Ending, Gone, Working, Guarding, Phased, Published, Ended, TaskOf,
          Naming, Untouched, Name, Records
<1>4. Name(e)'
  BY <1>1
      DEF Life, Unborn, Starting, Serving, Ending, Gone, Working, Guarding, Phased, Published, Ended, TaskOf,
          Naming, Untouched, Name, Records
<1>5. Steady(e)
  BY <1>1
      DEF Steady, Given, Life, Unborn, Starting, Serving, Ending, Gone, Working, Guarding, Phased, Published,
          Ended, TaskOf, Naming, Untouched, Name, Records
<1>6. caller' = caller
  BY DEF KeeperEnds
<1>7. Joins(e)
  BY <1>1, <1>6
      DEF Joins, Life, Unborn, Starting, Serving, Ending, Gone, Working, Guarding, Phased, Published, Ended,
          TaskOf, Naming, Name
<1>8. harmed' = harmed
  BY DEF KeeperEnds, history
<1> QED BY <1>2, <1>3, <1>4, <1>5, <1>7, <1>8 DEF Lawful

LEMMA KeeperSavesEndLawful == ASSUME Inv, NEW e \in Execs, KeeperSavesEnd(e) PROVE Lawful(e)
<1> TypeOK /\ Life(e) /\ Name(e)
  BY DEF Inv, Lives, Names
<1> USE NoneIsNoTask, TypedAt
<1>1. /\ keeper[e] = "ending"
      /\ rec'[e] = snap[e].loop
      /\ keeper'[e] = "ended"
      /\ mem'[e] = mem[e] /\ snap'[e] = snap[e] /\ recording'[e] = recording[e] /\ linked'[e] = linked[e]
      /\ retiring'[e] = retiring[e] /\ native'[e] = native[e] /\ guardian'[e] = guardian[e]
  BY DEF KeeperSavesEnd, Save, files, procs, history, TypeOK, FilesTyped, KeepersTyped, NativesTyped, Records
<1>2. Others(e)
  BY DEF KeeperSavesEnd, Save, files, procs, history, Others, Rests, TypeOK, FilesTyped, KeepersTyped, NativesTyped
<1>3. Life(e)'
  BY <1>1
      DEF Life, Unborn, Starting, Serving, Ending, Gone, Working, Guarding, Phased, Published, Ended, TaskOf,
          Naming, Untouched, Name, Records
<1>4. Name(e)'
  BY <1>1
      DEF Life, Unborn, Starting, Serving, Ending, Gone, Working, Guarding, Phased, Published, Ended, TaskOf,
          Naming, Untouched, Name, Records
<1>5. Steady(e)
  BY <1>1
      DEF Steady, Given, Life, Unborn, Starting, Serving, Ending, Gone, Working, Guarding, Phased, Published,
          Ended, TaskOf, Naming, Untouched, Name, Records
<1>6. caller' = caller
  BY DEF KeeperSavesEnd
<1>7. Joins(e)
  BY <1>1, <1>6
      DEF Joins, Life, Unborn, Starting, Serving, Ending, Gone, Working, Guarding, Phased, Published, Ended,
          TaskOf, Naming, Name
<1>8. harmed' = harmed
  BY DEF KeeperSavesEnd, history
<1> QED BY <1>2, <1>3, <1>4, <1>5, <1>7, <1>8 DEF Lawful

LEMMA KeeperExitsLawful == ASSUME Inv, NEW e \in Execs, KeeperExits(e) PROVE Lawful(e)
<1> TypeOK /\ Life(e) /\ Name(e)
  BY DEF Inv, Lives, Names
<1> USE NoneIsNoTask, TypedAt
<1>1. /\ keeper[e] \notin {"none", "dead"}
      /\ keeper'[e] = "dead"
      /\ recording'[e] = "no"
      /\ ~linked'[e]
      /\ rec'[e] = rec[e] /\ mem'[e] = mem[e] /\ snap'[e] = snap[e] /\ retiring'[e] = retiring[e]
      /\ native'[e] = native[e] /\ guardian'[e] = guardian[e]
  BY
      DEF KeeperExits, KeeperAlive, KeeperDies, files, procs, history, TypeOK, FilesTyped, KeepersTyped,
          NativesTyped, Records
<1>2. Others(e)
  BY
      DEF KeeperExits, KeeperAlive, KeeperDies, files, procs, history, Others, Rests, TypeOK, FilesTyped,
          KeepersTyped, NativesTyped
<1>3. Life(e)'
  BY <1>1
      DEF Life, Unborn, Starting, Serving, Ending, Gone, Working, Guarding, Phased, Published, Ended, TaskOf,
          Naming, Untouched, Name, Records
<1>4. Name(e)'
  BY <1>1
      DEF Life, Unborn, Starting, Serving, Ending, Gone, Working, Guarding, Phased, Published, Ended, TaskOf,
          Naming, Untouched, Name, Records
<1>5. Steady(e)
  BY <1>1
      DEF Steady, Given, Life, Unborn, Starting, Serving, Ending, Gone, Working, Guarding, Phased, Published,
          Ended, TaskOf, Naming, Untouched, Name, Records
<1>6. Joins(e)
  BY <1>1
      DEF KeeperExits, Joins, NoCall, TypeOK, CallersTyped, Life, Unborn, Starting, Serving, Ending, Gone, Working,
          Guarding, Phased, Published, Ended, TaskOf, Naming, Name
<1>7. harmed' = harmed
  BY DEF KeeperExits, history
<1> QED BY <1>2, <1>3, <1>4, <1>5, <1>6, <1>7 DEF Lawful

LEMMA RecordMutatesLawful == ASSUME Inv, NEW e \in Execs, RecordMutates(e) PROVE Lawful(e)
<1> TypeOK /\ Life(e) /\ Name(e)
  BY DEF Inv, Lives, Names
<1> USE NoneIsNoTask, TypedAt
<1>1. /\ recording[e] = "mutate"
      /\ mem'[e].phase = mem[e].phase /\ mem'[e].task = native[e].task /\ (mem'[e].url <=> mem[e].url) /\ (mem'[e].native <=> mem[e].native)
      /\ snap'[e].request = mem'[e] /\ snap'[e].loop = snap[e].loop
      /\ recording'[e] = "save"
      /\ rec'[e] = rec[e] /\ keeper'[e] = keeper[e] /\ linked'[e] = linked[e] /\ retiring'[e] = retiring[e]
      /\ native'[e] = native[e] /\ guardian'[e] = guardian[e]
  BY DEF RecordMutates, files, procs, history, TypeOK, FilesTyped, KeepersTyped, NativesTyped, Records
<1>2. Others(e)
  BY DEF RecordMutates, files, procs, history, Others, Rests, TypeOK, FilesTyped, KeepersTyped, NativesTyped
<1>3. Life(e)'
  BY <1>1
      DEF Life, Unborn, Starting, Serving, Ending, Gone, Working, Guarding, Phased, Published, Ended, TaskOf,
          Naming, Untouched, Name, Records
<1>4. Name(e)'
  BY <1>1
      DEF Life, Unborn, Starting, Serving, Ending, Gone, Working, Guarding, Phased, Published, Ended, TaskOf,
          Naming, Untouched, Name, Records
<1>5. Steady(e)
  BY <1>1
      DEF Steady, Given, Life, Unborn, Starting, Serving, Ending, Gone, Working, Guarding, Phased, Published,
          Ended, TaskOf, Naming, Untouched, Name, Records
<1>6. caller' = caller
  BY DEF RecordMutates
<1>7. Joins(e)
  BY <1>1, <1>6
      DEF Joins, Life, Unborn, Starting, Serving, Ending, Gone, Working, Guarding, Phased, Published, Ended,
          TaskOf, Naming, Name
<1>8. harmed' = harmed
  BY DEF RecordMutates, history
<1> QED BY <1>2, <1>3, <1>4, <1>5, <1>7, <1>8 DEF Lawful

LEMMA RecordSavesLawful == ASSUME Inv, NEW e \in Execs, RecordSaves(e) PROVE Lawful(e)
<1> TypeOK /\ Life(e) /\ Name(e)
  BY DEF Inv, Lives, Names
<1> USE NoneIsNoTask, TypedAt
<1>1. /\ recording[e] = "save"
      /\ rec'[e] = snap[e].request
      /\ recording'[e] = "origin"
      /\ keeper'[e] = keeper[e] /\ mem'[e] = mem[e] /\ snap'[e] = snap[e] /\ linked'[e] = linked[e]
      /\ retiring'[e] = retiring[e] /\ native'[e] = native[e] /\ guardian'[e] = guardian[e]
  BY DEF RecordSaves, Save, files, procs, history, TypeOK, FilesTyped, KeepersTyped, NativesTyped, Records
<1>2. Others(e)
  BY DEF RecordSaves, Save, files, procs, history, Others, Rests, TypeOK, FilesTyped, KeepersTyped, NativesTyped
<1>3. Life(e)'
  BY <1>1
      DEF Life, Unborn, Starting, Serving, Ending, Gone, Working, Guarding, Phased, Published, Ended, TaskOf,
          Naming, Untouched, Name, Records
<1>4. Name(e)'
  BY <1>1
      DEF Life, Unborn, Starting, Serving, Ending, Gone, Working, Guarding, Phased, Published, Ended, TaskOf,
          Naming, Untouched, Name, Records
<1>5. Steady(e)
  BY <1>1
      DEF Steady, Given, Life, Unborn, Starting, Serving, Ending, Gone, Working, Guarding, Phased, Published,
          Ended, TaskOf, Naming, Untouched, Name, Records
<1>6. caller' = caller
  BY DEF RecordSaves
<1>7. Joins(e)
  BY <1>1, <1>6
      DEF Joins, Life, Unborn, Starting, Serving, Ending, Gone, Working, Guarding, Phased, Published, Ended,
          TaskOf, Naming, Name
<1>8. harmed' = harmed
  BY DEF RecordSaves, history
<1> QED BY <1>2, <1>3, <1>4, <1>5, <1>7, <1>8 DEF Lawful

LEMMA RecordBindsLawful == ASSUME Inv, NEW e \in Execs, RecordBinds(e) PROVE Lawful(e)
<1> TypeOK /\ Life(e) /\ Name(e)
  BY DEF Inv, Lives, Names
<1> USE NoneIsNoTask, TypedAt
<1>1. /\ recording[e] = "bind"
      /\ recording'[e] = "no"
      /\ rec'[e] = rec[e] /\ keeper'[e] = keeper[e] /\ mem'[e] = mem[e] /\ snap'[e] = snap[e]
      /\ linked'[e] = linked[e] /\ retiring'[e] = retiring[e] /\ native'[e] = native[e] /\ guardian'[e] = guardian[e]
  BY DEF RecordBinds, files, procs, history, TypeOK, FilesTyped, KeepersTyped, NativesTyped, Records
<1>2. Others(e)
  BY DEF RecordBinds, files, procs, history, Others, Rests, TypeOK, FilesTyped, KeepersTyped, NativesTyped
<1>3. Life(e)'
  BY <1>1
      DEF Life, Unborn, Starting, Serving, Ending, Gone, Working, Guarding, Phased, Published, Ended, TaskOf,
          Naming, Untouched, Name, Records
<1>4. Name(e)'
  BY <1>1
      DEF Life, Unborn, Starting, Serving, Ending, Gone, Working, Guarding, Phased, Published, Ended, TaskOf,
          Naming, Untouched, Name, Records
<1>5. Steady(e)
  BY <1>1
      DEF Steady, Given, Life, Unborn, Starting, Serving, Ending, Gone, Working, Guarding, Phased, Published,
          Ended, TaskOf, Naming, Untouched, Name, Records
<1>6. caller' = caller
  BY DEF RecordBinds
<1>7. Joins(e)
  BY <1>1, <1>6
      DEF Joins, Life, Unborn, Starting, Serving, Ending, Gone, Working, Guarding, Phased, Published, Ended,
          TaskOf, Naming, Name
<1>8. harmed' = harmed
  BY DEF RecordBinds, history
<1> QED BY <1>2, <1>3, <1>4, <1>5, <1>7, <1>8 DEF Lawful

LEMMA RecordFailsLawful == ASSUME Inv, NEW e \in Execs, RecordFails(e) PROVE Lawful(e)
<1> TypeOK /\ Life(e) /\ Name(e)
  BY DEF Inv, Lives, Names
<1> USE NoneIsNoTask, TypedAt
<1>1. /\ recording[e] # "no"
      /\ recording'[e] = "no"
      /\ rec'[e] = rec[e] /\ keeper'[e] = keeper[e] /\ mem'[e] = mem[e] /\ snap'[e] = snap[e]
      /\ linked'[e] = linked[e] /\ retiring'[e] = retiring[e] /\ native'[e] = native[e] /\ guardian'[e] = guardian[e]
  BY DEF RecordFails, files, procs, history, TypeOK, FilesTyped, KeepersTyped, NativesTyped, Records
<1>2. Others(e)
  BY DEF RecordFails, files, procs, history, Others, Rests, TypeOK, FilesTyped, KeepersTyped, NativesTyped
<1>3. Life(e)'
  BY <1>1
      DEF Life, Unborn, Starting, Serving, Ending, Gone, Working, Guarding, Phased, Published, Ended, TaskOf,
          Naming, Untouched, Name, Records
<1>4. Name(e)'
  BY <1>1
      DEF Life, Unborn, Starting, Serving, Ending, Gone, Working, Guarding, Phased, Published, Ended, TaskOf,
          Naming, Untouched, Name, Records
<1>5. Steady(e)
  BY <1>1
      DEF Steady, Given, Life, Unborn, Starting, Serving, Ending, Gone, Working, Guarding, Phased, Published,
          Ended, TaskOf, Naming, Untouched, Name, Records
<1>6. Joins(e)
  BY <1>1
      DEF RecordFails, Joins, NoCall, TypeOK, CallersTyped, Life, Unborn, Starting, Serving, Ending, Gone, Working,
          Guarding, Phased, Published, Ended, TaskOf, Naming, Name
<1>7. harmed' = harmed
  BY DEF RecordFails, history
<1> QED BY <1>2, <1>3, <1>4, <1>5, <1>6, <1>7 DEF Lawful

LEMMA TurnEndsLawful == ASSUME Inv, NEW e \in Execs, TurnEnds(e) PROVE Lawful(e)
<1> TypeOK /\ Life(e) /\ Name(e)
  BY DEF Inv, Lives, Names
<1> USE NoneIsNoTask, TypedAt
<1>1. /\ native[e].turn
      /\ (native'[e].alive <=> native[e].alive) /\ native'[e].task = native[e].task /\ ~native'[e].turn
      /\ rec'[e] = rec[e] /\ keeper'[e] = keeper[e] /\ mem'[e] = mem[e] /\ snap'[e] = snap[e]
      /\ recording'[e] = recording[e] /\ linked'[e] = linked[e] /\ retiring'[e] = retiring[e] /\ guardian'[e] = guardian[e]
  BY DEF TurnEnds, files, procs, history, TypeOK, FilesTyped, KeepersTyped, NativesTyped, Records
<1>2. Others(e)
  BY DEF TurnEnds, files, procs, history, Others, Rests, TypeOK, FilesTyped, KeepersTyped, NativesTyped
<1>3. Life(e)'
  BY <1>1
      DEF Life, Unborn, Starting, Serving, Ending, Gone, Working, Guarding, Phased, Published, Ended, TaskOf,
          Naming, Untouched, Name, Records
<1>4. Name(e)'
  BY <1>1
      DEF Life, Unborn, Starting, Serving, Ending, Gone, Working, Guarding, Phased, Published, Ended, TaskOf,
          Naming, Untouched, Name, Records
<1>5. Steady(e)
  BY <1>1
      DEF Steady, Given, Life, Unborn, Starting, Serving, Ending, Gone, Working, Guarding, Phased, Published,
          Ended, TaskOf, Naming, Untouched, Name, Records
<1>6. caller' = caller
  BY DEF TurnEnds
<1>7. Joins(e)
  BY <1>1, <1>6
      DEF Joins, Life, Unborn, Starting, Serving, Ending, Gone, Working, Guarding, Phased, Published, Ended,
          TaskOf, Naming, Name
<1>8. harmed' = harmed
  BY DEF TurnEnds, history
<1> QED BY <1>2, <1>3, <1>4, <1>5, <1>7, <1>8 DEF Lawful

LEMMA NativeDiesLawful == ASSUME Inv, NEW e \in Execs, NativeDies(e) PROVE Lawful(e)
<1> TypeOK /\ Life(e) /\ Name(e)
  BY DEF Inv, Lives, Names
<1> USE NoneIsNoTask, TypedAt
<1>1. /\ native[e].alive
      /\ ~native'[e].alive /\ native'[e].task = native[e].task /\ ~native'[e].turn
      /\ rec'[e] = rec[e] /\ keeper'[e] = keeper[e] /\ mem'[e] = mem[e] /\ snap'[e] = snap[e]
      /\ recording'[e] = recording[e] /\ linked'[e] = linked[e] /\ retiring'[e] = retiring[e] /\ guardian'[e] = guardian[e]
  BY DEF NativeDies, files, procs, history, TypeOK, FilesTyped, KeepersTyped, NativesTyped, Records
<1>2. Others(e)
  BY DEF NativeDies, files, procs, history, Others, Rests, TypeOK, FilesTyped, KeepersTyped, NativesTyped
<1>3. Life(e)'
  BY <1>1
      DEF Life, Unborn, Starting, Serving, Ending, Gone, Working, Guarding, Phased, Published, Ended, TaskOf,
          Naming, Untouched, Name, Records
<1>4. Name(e)'
  BY <1>1
      DEF Life, Unborn, Starting, Serving, Ending, Gone, Working, Guarding, Phased, Published, Ended, TaskOf,
          Naming, Untouched, Name, Records
<1>5. Steady(e)
  BY <1>1
      DEF Steady, Given, Life, Unborn, Starting, Serving, Ending, Gone, Working, Guarding, Phased, Published,
          Ended, TaskOf, Naming, Untouched, Name, Records
<1>6. caller' = caller
  BY DEF NativeDies
<1>7. Joins(e)
  BY <1>1, <1>6
      DEF Joins, Life, Unborn, Starting, Serving, Ending, Gone, Working, Guarding, Phased, Published, Ended,
          TaskOf, Naming, Name
<1>8. harmed' = harmed
  BY DEF NativeDies, history
<1> QED BY <1>2, <1>3, <1>4, <1>5, <1>7, <1>8 DEF Lawful

LEMMA GuardianBindsLawful == ASSUME Inv, NEW e \in Execs, GuardianBinds(e) PROVE Lawful(e)
<1> TypeOK /\ Life(e) /\ Name(e)
  BY DEF Inv, Lives, Names
<1> USE NoneIsNoTask, TypedAt
<1>1. /\ guardian[e].pc = "watching" /\ native[e].alive
      /\ guardian'[e].pc = "watching" /\ guardian'[e].task \in {rec[e].task, native[e].task} \ {None}
      /\ rec'[e] = rec[e] /\ keeper'[e] = keeper[e] /\ mem'[e] = mem[e] /\ snap'[e] = snap[e]
      /\ recording'[e] = recording[e] /\ linked'[e] = linked[e] /\ retiring'[e] = retiring[e] /\ native'[e] = native[e]
  BY DEF GuardianBinds, files, procs, history, TypeOK, FilesTyped, KeepersTyped, NativesTyped, Records
<1>2. Others(e)
  BY DEF GuardianBinds, files, procs, history, Others, Rests, TypeOK, FilesTyped, KeepersTyped, NativesTyped
<1>3. Life(e)'
  BY <1>1
      DEF Life, Unborn, Starting, Serving, Ending, Gone, Working, Guarding, Phased, Published, Ended, TaskOf,
          Naming, Untouched, Name, Records
<1>4. Name(e)'
  BY <1>1
      DEF Life, Unborn, Starting, Serving, Ending, Gone, Working, Guarding, Phased, Published, Ended, TaskOf,
          Naming, Untouched, Name, Records
<1>5. Steady(e)
  BY <1>1
      DEF Steady, Given, Life, Unborn, Starting, Serving, Ending, Gone, Working, Guarding, Phased, Published,
          Ended, TaskOf, Naming, Untouched, Name, Records
<1>6. caller' = caller
  BY DEF GuardianBinds
<1>7. Joins(e)
  BY <1>1, <1>6
      DEF Joins, Life, Unborn, Starting, Serving, Ending, Gone, Working, Guarding, Phased, Published, Ended,
          TaskOf, Naming, Name
<1>8. harmed' = harmed
  BY DEF GuardianBinds, history
<1> QED BY <1>2, <1>3, <1>4, <1>5, <1>7, <1>8 DEF Lawful

LEMMA GuardianReadsLawful == ASSUME Inv, NEW e \in Execs, GuardianReads(e) PROVE Lawful(e)
<1> TypeOK /\ Life(e) /\ Name(e)
  BY DEF Inv, Lives, Names
<1> USE NoneIsNoTask, TypedAt
<1>1. /\ guardian[e].pc = "watching" /\ keeper[e] \in {"none", "dead"} /\ ~native[e].turn /\ (guardian[e].task = native[e].task \/ native[e].task = None)
      /\ guardian'[e].pc = "releasing" /\ guardian'[e].task = guardian[e].task
      /\ rec'[e] = rec[e] /\ keeper'[e] = keeper[e] /\ mem'[e] = mem[e] /\ snap'[e] = snap[e]
      /\ recording'[e] = recording[e] /\ linked'[e] = linked[e] /\ retiring'[e] = retiring[e] /\ native'[e] = native[e]
  BY
      DEF GuardianReads, procs, MayRelease, KeeperAlive, files, procs, history, TypeOK, FilesTyped, KeepersTyped,
          NativesTyped, Records
<1>2. Others(e)
  BY
      DEF GuardianReads, procs, MayRelease, KeeperAlive, files, procs, history, Others, Rests, TypeOK, FilesTyped,
          KeepersTyped, NativesTyped
<1>3. Life(e)'
  BY <1>1
      DEF Life, Unborn, Starting, Serving, Ending, Gone, Working, Guarding, Phased, Published, Ended, TaskOf,
          Naming, Untouched, Name, Records
<1>4. Name(e)'
  BY <1>1
      DEF Life, Unborn, Starting, Serving, Ending, Gone, Working, Guarding, Phased, Published, Ended, TaskOf,
          Naming, Untouched, Name, Records
<1>5. Steady(e)
  BY <1>1
      DEF Steady, Given, Life, Unborn, Starting, Serving, Ending, Gone, Working, Guarding, Phased, Published,
          Ended, TaskOf, Naming, Untouched, Name, Records
<1>6. caller' = caller
  BY DEF GuardianReads
<1>7. Joins(e)
  BY <1>1, <1>6
      DEF Joins, Life, Unborn, Starting, Serving, Ending, Gone, Working, Guarding, Phased, Published, Ended,
          TaskOf, Naming, Name
<1>8. harmed' = harmed
  BY DEF GuardianReads, history
<1> QED BY <1>2, <1>3, <1>4, <1>5, <1>7, <1>8 DEF Lawful

LEMMA GuardianReleasesLawful == ASSUME Inv, NEW e \in Execs, GuardianReleases(e) PROVE Lawful(e)
<1> TypeOK /\ Life(e) /\ Name(e)
  BY DEF Inv, Lives, Names
<1> USE NoneIsNoTask, TypedAt
<1>1. /\ guardian[e].pc = "releasing"
      /\ ~native'[e].alive /\ native'[e].task = native[e].task /\ ~native'[e].turn
      /\ guardian'[e].pc = "saving" /\ guardian'[e].task = guardian[e].task
      /\ rec'[e] = rec[e] /\ keeper'[e] = keeper[e] /\ mem'[e] = mem[e] /\ snap'[e] = snap[e]
      /\ recording'[e] = recording[e] /\ linked'[e] = linked[e] /\ retiring'[e] = retiring[e]
  BY
      DEF GuardianReleases, procs, EndNative, files, procs, history, TypeOK, FilesTyped, KeepersTyped,
          NativesTyped, Records
<1>2. Others(e)
  BY
      DEF GuardianReleases, procs, EndNative, files, procs, history, Others, Rests, TypeOK, FilesTyped,
          KeepersTyped, NativesTyped
<1>3. Life(e)'
  BY <1>1
      DEF Life, Unborn, Starting, Serving, Ending, Gone, Working, Guarding, Phased, Published, Ended, TaskOf,
          Naming, Untouched, Name, Records
<1>4. Name(e)'
  BY <1>1
      DEF Life, Unborn, Starting, Serving, Ending, Gone, Working, Guarding, Phased, Published, Ended, TaskOf,
          Naming, Untouched, Name, Records
<1>5. Steady(e)
  BY <1>1
      DEF Steady, Given, Life, Unborn, Starting, Serving, Ending, Gone, Working, Guarding, Phased, Published,
          Ended, TaskOf, Naming, Untouched, Name, Records
<1>6. caller' = caller
  BY DEF GuardianReleases
<1>7. Joins(e)
  BY <1>1, <1>6
      DEF Joins, Life, Unborn, Starting, Serving, Ending, Gone, Working, Guarding, Phased, Published, Ended,
          TaskOf, Naming, Name
<1>8. ~native[e].turn
  BY <1>1 DEF Life, Unborn, Starting, Serving, Ending, Gone, Working, Guarding, Phased, Published, Ended, TaskOf
<1>9. harmed' = harmed
  BY <1>8 DEF GuardianReleases, EndNative, TypeOK, CallersTyped
<1> QED BY <1>2, <1>3, <1>4, <1>5, <1>7, <1>9 DEF Lawful

LEMMA GuardianSavesLawful == ASSUME Inv, NEW e \in Execs, GuardianSaves(e) PROVE Lawful(e)
<1> TypeOK /\ Life(e) /\ Name(e)
  BY DEF Inv, Lives, Names
<1> USE NoneIsNoTask, TypedAt
<1>1. /\ guardian[e].pc = "saving"
      /\ rec'[e].phase = "retired" /\ rec'[e].task = guardian[e].task
      /\ guardian'[e].pc = "dead" /\ guardian'[e].task = guardian[e].task
      /\ keeper'[e] = keeper[e] /\ mem'[e] = mem[e] /\ snap'[e] = snap[e] /\ recording'[e] = recording[e]
      /\ linked'[e] = linked[e] /\ retiring'[e] = retiring[e] /\ native'[e] = native[e]
  BY
      DEF GuardianSaves, procs, Save, Record, files, procs, history, TypeOK, FilesTyped, KeepersTyped,
          NativesTyped, Records
<1>2. Others(e)
  BY
      DEF GuardianSaves, procs, Save, Record, files, procs, history, Others, Rests, TypeOK, FilesTyped,
          KeepersTyped, NativesTyped
<1>3. Life(e)'
  BY <1>1
      DEF Life, Unborn, Starting, Serving, Ending, Gone, Working, Guarding, Phased, Published, Ended, TaskOf,
          Naming, Untouched, Name, Records
<1>4. Name(e)'
  BY <1>1
      DEF Life, Unborn, Starting, Serving, Ending, Gone, Working, Guarding, Phased, Published, Ended, TaskOf,
          Naming, Untouched, Name, Records
<1>5. Steady(e)
  BY <1>1
      DEF Steady, Given, Life, Unborn, Starting, Serving, Ending, Gone, Working, Guarding, Phased, Published,
          Ended, TaskOf, Naming, Untouched, Name, Records
<1>6. caller' = caller
  BY DEF GuardianSaves
<1>7. Joins(e)
  BY <1>1, <1>6
      DEF Joins, Life, Unborn, Starting, Serving, Ending, Gone, Working, Guarding, Phased, Published, Ended,
          TaskOf, Naming, Name
<1>8. harmed' = harmed
  BY DEF GuardianSaves, history
<1> QED BY <1>2, <1>3, <1>4, <1>5, <1>7, <1>8 DEF Lawful

LEMMA GuardianExitsLawful == ASSUME Inv, NEW e \in Execs, GuardianExits(e) PROVE Lawful(e)
<1> TypeOK /\ Life(e) /\ Name(e)
  BY DEF Inv, Lives, Names
<1> USE NoneIsNoTask, TypedAt
<1>1. /\ guardian[e].pc \notin {"none", "dead"}
      /\ guardian'[e].pc = "dead" /\ guardian'[e].task = guardian[e].task
      /\ rec'[e] = rec[e] /\ keeper'[e] = keeper[e] /\ mem'[e] = mem[e] /\ snap'[e] = snap[e]
      /\ recording'[e] = recording[e] /\ linked'[e] = linked[e] /\ retiring'[e] = retiring[e] /\ native'[e] = native[e]
  BY DEF GuardianExits, files, procs, history, TypeOK, FilesTyped, KeepersTyped, NativesTyped, Records
<1>2. Others(e)
  BY DEF GuardianExits, files, procs, history, Others, Rests, TypeOK, FilesTyped, KeepersTyped, NativesTyped
<1>3. Life(e)'
  BY <1>1
      DEF Life, Unborn, Starting, Serving, Ending, Gone, Working, Guarding, Phased, Published, Ended, TaskOf,
          Naming, Untouched, Name, Records
<1>4. Name(e)'
  BY <1>1
      DEF Life, Unborn, Starting, Serving, Ending, Gone, Working, Guarding, Phased, Published, Ended, TaskOf,
          Naming, Untouched, Name, Records
<1>5. Steady(e)
  BY <1>1
      DEF Steady, Given, Life, Unborn, Starting, Serving, Ending, Gone, Working, Guarding, Phased, Published,
          Ended, TaskOf, Naming, Untouched, Name, Records
<1>6. caller' = caller
  BY DEF GuardianExits
<1>7. Joins(e)
  BY <1>1, <1>6
      DEF Joins, Life, Unborn, Starting, Serving, Ending, Gone, Working, Guarding, Phased, Published, Ended,
          TaskOf, Naming, Name
<1>8. harmed' = harmed
  BY DEF GuardianExits, history
<1> QED BY <1>2, <1>3, <1>4, <1>5, <1>7, <1>8 DEF Lawful

-----------------------------------------------------------------------------
LEMMA NoCallIs ==
  /\ NoCall.pc = "idle" /\ NoCall.kind = "open" /\ NoCall.task = None /\ NoCall.e = None /\ ~NoCall.idle
  BY DEF NoCall

(* What rests keeps its properties.                                         *)
LEMMA RestsKeeps ==
  ASSUME NEW f \in Execs, Life(f), Name(f), Rests(f)
  PROVE  /\ Life(f)' /\ Name(f)' /\ TaskOf(f)' = TaskOf(f) /\ native'[f].task = native[f].task
         /\ \A t \in Tasks : Given(f, t) => Given(f, t)'
<1>1. TaskOf(f)' = TaskOf(f) /\ native'[f].task = native[f].task
  BY DEF Rests, TaskOf
<1>2. Unborn(f)' /\ Starting(f)' /\ Serving(f)' /\ Ending(f)' /\ Gone(f)' /\ Working(f)'
  BY DEF Rests, Life, Unborn, Starting, Serving, Ending, Gone, Working
<1>3. Guarding(f)' /\ Phased(f)'
  BY <1>1 DEF Rests, Life, Guarding, Phased, Published
<1>4. Name(f)'
  BY <1>1 DEF Rests, Name, Naming, Untouched
<1>5. \A t \in Tasks : Given(f, t) => Given(f, t)'
  BY DEF Rests, Given
<1> QED BY <1>1, <1>2, <1>3, <1>4, <1>5 DEF Life

(* A lawful step of one executor, seen from the others and from the calls.  *)
LEMMA LawfulStep ==
  ASSUME Inv, NEW e \in Execs, Lawful(e), UNCHANGED <<origin, current, recovered, begun>>
  PROVE  /\ Lives' /\ Names' /\ Calls' /\ Writers' /\ Replacing' /\ References' /\ ~harmed'
<1> /\ TypeOK /\ Lives /\ Names /\ Calls /\ Writers /\ Replacing /\ References /\ ~harmed
  BY DEF Inv
<1> USE NoneIsNoTask
<1>1. ASSUME NEW f \in Execs PROVE Life(f)' /\ Name(f)' /\ TaskOf(f)' = TaskOf(f) /\ native'[f].task = native[f].task
  <2>1. CASE f = e
    BY <2>1 DEF Lawful, Steady, TaskOf
  <2>2. CASE f # e
    BY <2>2, RestsKeeps DEF Lawful, Others, Lives, Names
  <2> QED BY <2>1, <2>2
<1>2. \A c \in Callers : \/ caller'[c] = caller[c]
                         \/ caller[c].pc = "joined" /\ caller'[c].pc = "idle" /\ caller'[c] = NoCall
  BY NoCallIs DEF Lawful, Joins
<1>3. \A c \in Callers : caller'[c].pc # "idle" => caller'[c] = caller[c]
  BY <1>2
<1>4. \A f \in Execs : (keeper[f] = "none" => Rests(f)) /\ (rec'[f].phase = "none" <=> rec[f].phase = "none")
  BY DEF Lawful, Steady, Others, Rests
<1>5. ASSUME NEW f \in Execs, Over(f) PROVE Over(f)'
  <2>1. ~native'[f].alive /\ keeper'[f] \notin {"launched", "claimed"} /\ rec'[f].phase # "none"
    BY <1>4, <1>5 DEF Over, Lawful, Steady, Others, Rests
  <2>2. \A c \in Callers : caller'[c].pc \in Allocating => caller'[c].e # f
    BY <1>3, <1>5 DEF Over, Allocating
  <2> QED BY <2>1, <2>2 DEF Over
<1>6. \A t \in Tasks : (Owned(t)' <=> Owned(t)) /\ Reference(t)' = Reference(t)
  BY DEF Owned, Reference
<1>7. \A f \in Execs, t \in Tasks : New(f, t) => New(f, t)'
  BY <1>1, <1>6 DEF New
<1>8. \A c \in Callers, f \in Execs, t \in Tasks : Allocates(c, f, t) => Allocates(c, f, t)'
  BY <1>2 DEF Allocates, Allocating
<1>9. Writers'
  <2> SUFFICES ASSUME NEW f \in Execs, NEW t \in Tasks, TaskOf(f)' = t, ~Over(f)'
               PROVE  \/ Reference(t)' = f /\ Owned(t)'
                      \/ New(f, t)'
                      \/ \E c \in Callers : Allocates(c, f, t)'
    BY DEF Writers
  <2>1. TaskOf(f) = t /\ ~Over(f)
    BY <1>1, <1>5
  <2> QED BY <1>6, <1>7, <1>8, <2>1 DEF Writers
<1>10. Replacing'
  BY <1>1, <1>3, <1>5 DEF Replacing, Allocation, Allocating
<1>11. ASSUME NEW c \in Callers PROVE Calling(c)'
  <2>1. CASE caller'[c].pc = "idle"
    <3>1. caller'[c].e = None /\ (caller'[c].idle => caller'[c].task \in begun)
      BY <1>2, <2>1, NoCallIs DEF Calls, Calling
    <3> QED BY <2>1, <3>1 DEF Calling, Allocation, Allocating
  <2>2. CASE caller'[c].pc # "idle"
    <3>0. PICK k : k = caller[c]
      OBVIOUS
    <3>1. caller'[c] = k /\ Calling(c) /\ k.pc # "idle"
      BY <1>3, <2>2, <3>0 DEF Calls
    <3>2. k.e \in Execs => TaskOf(k.e)' = TaskOf(k.e)
      BY <1>1
    <3>3. k.pc \in Allocating =>
            k.e \in Execs /\ keeper'[k.e] = keeper[k.e] /\ native'[k.e] = native[k.e] /\ rec'[k.e] = rec[k.e]
      BY <1>4, <3>0, <3>1 DEF Calling, Rests
    <3>4. k.pc \in {"connect", "joined"} => k.e \in Execs /\ rec'[k.e].phase # "none"
      BY <1>4, <3>0, <3>1 DEF Calling
    <3>5. k.pc = "joined" => /\ linked'[k.e]
                             /\ k.kind = "create" /\ mem'[k.e].task # None /\ recording'[k.e] = "no"
                                  => origin[mem'[k.e].task] = k.e
      <4> SUFFICES ASSUME k.pc = "joined"
                   PROVE  /\ linked'[k.e]
                          /\ k.kind = "create" /\ mem'[k.e].task # None /\ recording'[k.e] = "no"
                               => origin[mem'[k.e].task] = k.e
        OBVIOUS
      <4>1. linked[k.e] /\ k.e \in Execs
        BY <3>0, <3>1 DEF Calling
      <4>2. CASE k.e = e
        BY <3>0, <3>1, <4>1, <4>2 DEF Calling, Lawful, Joins, References
      <4>3. CASE k.e # e
        BY <3>0, <3>1, <4>1, <4>3 DEF Calling, Lawful, Others, Rests
      <4> QED BY <4>2, <4>3
    <3>6. /\ k.task \in Tasks => (Owned(k.task)' <=> Owned(k.task))
          /\ k.task \in Tasks \cup {None} /\ k.pc \in {"idle", "existing", "allocate", "connect", "joined"} \cup Allocating
      BY <1>6, <3>0 DEF TypeOK, CallersTyped
    <3> QED BY <3>0, <3>1, <3>2, <3>3, <3>4, <3>5, <3>6 DEF Calling, Allocation, Allocating
  <2> QED BY <2>1, <2>2
<1>12. Calls'
  <2>1. ASSUME NEW c \in Callers, NEW d \in Callers
        PROVE  /\ caller'[c].pc \in Allocating /\ caller'[d].pc \in Allocating => c = d
               /\ Opens(c)' /\ Opens(d)' /\ caller'[c].task = caller'[d].task => c = d
               /\ caller'[c].kind = "create" /\ caller'[d].kind = "create" /\ caller'[c].e # None
                    /\ caller'[c].e = caller'[d].e => c = d
    <3>1. caller'[c] = caller[c] \/ (caller'[c].pc = "idle" /\ caller'[c].kind = "open")
      BY <1>2, NoCallIs
    <3>2. caller'[d] = caller[d] \/ (caller'[d].pc = "idle" /\ caller'[d].kind = "open")
      BY <1>2, NoCallIs
    <3> QED BY <3>1, <3>2 DEF Calls, Opens, Opening, Allocating
  <2> QED BY <1>11, <2>1 DEF Calls
<1>13. References'
  <2>1. ASSUME NEW f \in Execs, rec'[f].phase = "none"
        PROVE  /\ keeper'[f] = "none" /\ native'[f].task = None /\ rec'[f].task = None
               /\ \A t \in Tasks : f \notin {origin'[t], current'[t], recovered'[t]}
    BY <1>4, <2>1 DEF References, Rests
  <2>2. ASSUME NEW f \in Execs, NEW t \in Tasks, Given(f, t) PROVE Given(f, t)'
    BY <2>2, RestsKeeps DEF Lawful, Steady, Others, Lives, Names
  <2>3. ASSUME NEW t \in Tasks
        PROVE  /\ recovered'[t] # None => current'[t] # None /\ (t \in begun' \/ origin'[t] # None)
               /\ current'[t] # None => Given(current[t], t)' /\ (t \in begun' \/ origin'[t] # None)
               /\ recovered'[t] # None => Given(recovered[t], t)'
               /\ origin'[t] # None => native'[origin'[t]].task = t
               /\ current'[t] = None /\ origin'[t] # None /\ t \in begun' => Given(origin[t], t)'
               /\ origin'[t] # None /\ keeper'[origin'[t]] = "serving" => Given(origin[t], t)'
    <3>1. origin[t] \in Execs \cup {None} /\ current[t] \in Execs \cup {None} /\ recovered[t] \in Execs \cup {None}
      BY DEF TypeOK, FilesTyped
    <3>2. origin[t] # None => native'[origin[t]].task = t
      BY <1>1, <3>1 DEF References
    <3>3. origin[t] # None /\ keeper'[origin[t]] = "serving" => keeper[origin[t]] = "serving"
      BY <3>1 DEF References, Lawful, Steady, Others, Rests
    <3> QED BY <2>2, <3>1, <3>2, <3>3 DEF References
  <2>4. ASSUME NEW f \in Execs
        PROVE  /\ recording'[f] \in {"mutate", "save", "origin"} => New(f, native[f].task)'
               /\ recording'[f] = "origin" /\ keeper'[f] = "serving" => rec'[f].task = native'[f].task
               /\ recording'[f] = "bind" => origin'[native'[f].task] = f
    <3>1. recording'[f] \in {"mutate", "save", "origin"} => recording[f] \in {"mutate", "save", "origin"}
      BY DEF Lawful, Steady, Others, Rests
    <3>2. recording[f] \in {"mutate", "save", "origin"} => native[f].task \in Tasks
      BY TypedAt DEF Lives, Life, Working
    <3>3. recording'[f] = "origin" /\ keeper'[f] = "serving" => rec'[f].task = native[f].task
      BY DEF References, Lawful, Steady, Others, Rests
    <3>4. recording'[f] = "bind" => recording[f] = "bind"
      BY DEF Lawful, Steady, Others, Rests
    <3> QED BY <1>1, <1>7, <3>1, <3>2, <3>3, <3>4 DEF References, New
  <2> QED BY <2>1, <2>3, <2>4 DEF References
<1>14. ~harmed'
  BY DEF Lawful
<1> QED BY <1>1, <1>9, <1>10, <1>12, <1>13, <1>14 DEF Lives, Names

-----------------------------------------------------------------------------
(* A call that nothing disturbs.                                            *)
LEMMA CallingKept ==
  ASSUME TypeOK, NEW c \in Callers, NEW k, k = caller[c], caller'[c] = k, Calling(c), begun \subseteq begun',
         \A t \in Tasks : (origin[t] # None => origin'[t] # None) /\ (Owned(t) => Owned(t)'),
         k.pc \in Allocating => keeper'[k.e] = keeper[k.e] /\ native'[k.e] = native[k.e] /\ rec'[k.e] = rec[k.e],
         k.pc \in {"recover", "launch"} /\ k.task # None => current'[k.task] = current[k.task],
         k.pc \in {"connect", "joined"} =>
           /\ rec'[k.e].phase # "none"
           /\ k.task # None \/ k.pc = "connect" => TaskOf(k.e)' = TaskOf(k.e)
           /\ linked[k.e] => linked'[k.e],
         k.pc = "joined" /\ k.kind = "create" /\ mem'[k.e].task # None /\ recording'[k.e] = "no" =>
           origin'[mem'[k.e].task] = k.e
  PROVE  Calling(c)'
<1>1. k.task \in Tasks \cup {None} /\ k.pc \in {"idle", "existing", "allocate", "connect", "joined"} \cup Allocating
  BY DEF TypeOK, CallersTyped
<1>2. Owned(k.task) /\ k.task # None => Owned(k.task)'
  BY <1>1
<1>3. k.pc \in Allocating \cup {"connect", "joined"} => k.e \in Execs
  BY DEF Calling
<1>4. \/ k.pc \in {"idle", "existing", "allocate"} \/ k.pc \in Allocating \/ k.pc = "connect" \/ k.pc = "joined"
  BY <1>1
<1>5. CASE k.pc \in {"idle", "existing", "allocate"}
  BY <1>1, <1>5 DEF Calling, Allocation, Allocating
<1>6. CASE k.pc \in Allocating
  BY <1>1, <1>2, <1>6 DEF Calling, Allocation, Allocating
<1>7. CASE k.pc = "connect"
  BY <1>1, <1>2, <1>7 DEF Calling, Allocation, Allocating
<1>8. CASE k.pc = "joined"
  BY <1>1, <1>2, <1>8 DEF Calling, Allocation, Allocating
<1> QED BY <1>4, <1>5, <1>6, <1>7, <1>8

(* Steps that concern the calls only.                                       *)
Idle == UNCHANGED <<files, procs, native, guardian, history>>
LEMMA IdleStep ==
  ASSUME Inv, Idle
  PROVE  /\ Lives' /\ Names' /\ References' /\ ~harmed'
         /\ \A f \in Execs : TaskOf(f)' = TaskOf(f)
         /\ \A t \in Tasks : Owned(t)' = Owned(t) /\ Reference(t)' = Reference(t)
         /\ \A f \in Execs, t \in Tasks : New(f, t) => New(f, t)'
<1> USE DEF Idle, files, procs, history
<1>1. \A f \in Execs : Rests(f)
  BY DEF Rests
<1>2. Lives' /\ Names' /\ \A f \in Execs : TaskOf(f)' = TaskOf(f)
  BY <1>1, RestsKeeps DEF Inv, Lives, Names
<1>3. \A f, t : Given(f, t)' = Given(f, t) /\ New(f, t)' = New(f, t)
  BY DEF Given, New, Owned
<1>4. References'
  BY <1>3 DEF Inv, References
<1> QED BY <1>2, <1>3, <1>4 DEF Inv, Owned, Reference

(* What the factory's lock, its shared attempts and its fresh directories   *)
(* ask of a call that moves on.                                             *)
Admissible(c, k) ==
  /\ caller[c].pc \notin Allocating
  /\ k.pc \in Allocating => rec[k.e].phase = "none" /\ \A d \in Callers : caller[d].pc \notin Allocating
  /\ k.pc \notin {"idle", "joined"} /\ k.kind = "open" =>
       \/ Opens(c) /\ caller[c].task = k.task
       \/ \A d \in Callers : Opens(d) => caller[d].task # k.task
  /\ k.kind = "create" /\ k.e # None =>
       \/ caller[c].kind = "create" /\ caller[c].e = k.e
       \/ \A d \in Callers : caller[d].e # k.e
  /\ k.pc \in {"allocate"} \cup Allocating /\ k.kind = "open" =>
       \A f \in Execs : TaskOf(f) = k.task => Over(f)
LEMMA CallMoves ==
  ASSUME Inv, Idle, NEW c \in Callers, NEW k, caller'[c] = k, \A d \in Callers : d # c => caller'[d] = caller[d],
         Admissible(c, k), Calling(c)'
  PROVE  Calls' /\ Writers' /\ Replacing'
<1> /\ TypeOK /\ Lives /\ Names /\ Calls /\ Writers /\ Replacing /\ References
  BY DEF Inv
<1> /\ \A f \in Execs : TaskOf(f)' = TaskOf(f)
    /\ \A t \in Tasks : Owned(t)' = Owned(t) /\ Reference(t)' = Reference(t)
    /\ \A f \in Execs, t \in Tasks : New(f, t) => New(f, t)'
  BY IdleStep
<1>1. UNCHANGED <<rec, origin, current, recovered, keeper, mem, snap, recording, linked, retiring, native, begun>>
  BY DEF Idle, files, procs, history
<1>2. ASSUME NEW f \in Execs, Over(f) PROVE Over(f)'
  BY <1>1, <1>2 DEF Over, Admissible
<1>3. ASSUME NEW d \in Callers, d # c PROVE Calling(d)'
  <2>1. caller'[d] = caller[d] /\ Calling(d)
    BY <1>3 DEF Calls
  <2>2. caller[d].pc \in Allocating \cup {"connect", "joined"} => caller[d].e \in Execs
    BY <2>1 DEF Calling
  <2>3. PICK k2 : k2 = caller[d]
    OBVIOUS
  <2>4. k2.e \in Execs => TaskOf(k2.e)' = TaskOf(k2.e)
    OBVIOUS
  <2> QED BY <1>1, <2>1, <2>2, <2>3, <2>4, CallingKept DEF Calling
<1>4. Calls'
  <2>1. ASSUME NEW a \in Callers, NEW b \in Callers
        PROVE  /\ caller'[a].pc \in Allocating /\ caller'[b].pc \in Allocating => a = b
               /\ Opens(a)' /\ Opens(b)' /\ caller'[a].task = caller'[b].task => a = b
               /\ caller'[a].kind = "create" /\ caller'[b].kind = "create" /\ caller'[a].e # None
                    /\ caller'[a].e = caller'[b].e => a = b
    BY DEF Calls, Opens, Opening, Admissible
  <2>2. \A a \in Callers : Calling(a)'
    BY <1>3
  <2> QED BY <2>1, <2>2 DEF Calls
<1>5. Writers'
  <2> SUFFICES ASSUME NEW f \in Execs, NEW t \in Tasks, TaskOf(f)' = t, ~Over(f)'
               PROVE  \/ Reference(t)' = f /\ Owned(t)'
                      \/ New(f, t)'
                      \/ \E d \in Callers : Allocates(d, f, t)'
    BY DEF Writers
  <2>1. TaskOf(f) = t /\ ~Over(f)
    BY <1>2
  <2>2. \A d \in Callers : Allocates(d, f, t) => Allocates(d, f, t)'
    BY DEF Allocates, Admissible
  <2> QED BY <2>1, <2>2 DEF Writers
<1>6. Replacing'
  <2> SUFFICES ASSUME NEW d \in Callers, NEW f \in Execs, Allocation(d)', caller'[d].kind = "open",
                      TaskOf(f)' = caller'[d].task, f # caller'[d].e
               PROVE  Over(f)'
    BY DEF Replacing
  <2>1. CASE d = c
    BY <1>2, <2>1 DEF Admissible, Allocation
  <2>2. CASE d # c
    BY <1>2, <2>2 DEF Replacing, Allocation
  <2> QED BY <2>1, <2>2
<1> QED BY <1>4, <1>5, <1>6

-----------------------------------------------------------------------------
(* The calls.                                                               *)
Orderly == Lives /\ Names /\ Calls /\ Writers /\ Replacing /\ References /\ ~harmed

LEMMA CallMovesOrderly ==
  ASSUME Inv, Idle, NEW c \in Callers, NEW k, caller'[c] = k, \A d \in Callers : d # c => caller'[d] = caller[d],
         Admissible(c, k), Calling(c)'
  PROVE  Orderly'
  BY IdleStep, CallMoves DEF Orderly

LEMMA CallEnds ==
  ASSUME Inv, Idle, NEW c \in Callers, caller[c].pc \notin Allocating, caller'[c] = NoCall,
         \A d \in Callers : d # c => caller'[d] = caller[d]
  PROVE  Orderly'
<1>1. Calling(c)'
  BY NoCallIs DEF Calling, Allocation, Allocating
<1>2. Admissible(c, NoCall)
  BY NoCallIs DEF Admissible, Allocating
<1> QED BY <1>1, <1>2, CallMovesOrderly

LEMMA OpenOrderly ==
  ASSUME Inv, NEW c \in Callers, Open(c)
  PROVE  Orderly'
<1> USE NoneIsNoTask
<1>1. Idle /\ caller[c].pc = "idle" /\ \A d \in Callers : d # c => caller'[d] = caller[d]
  BY DEF Open, Idle, Inv, TypeOK, CallersTyped
<1>2. PICK k : k = caller'[c]
  OBVIOUS
<1>3. CASE k = [NoCall EXCEPT !.pc = "allocate", !.kind = "create"]
  <2>1. k.pc = "allocate" /\ k.kind = "create" /\ k.task = None /\ ~k.idle /\ k.e = None
    BY <1>3 DEF NoCall
  <2>2. Calling(c)'
    BY <1>2, <2>1 DEF Calling, Allocation, Allocating
  <2>3. Admissible(c, k)
    BY <1>1, <2>1 DEF Admissible, Allocating
  <2> QED BY <1>1, <1>2, <2>2, <2>3, CallMovesOrderly
<1>4. ASSUME NEW t \in Tasks, NEW x \in {"open", "follow"}, NEW i \in BOOLEAN, i => x = "open" /\ HistoryIdle(t),
             x = "open" => \A d \in Callers : Opening(d) /\ caller[d].kind = "open" => caller[d].task # t,
             k = [NoCall EXCEPT !.pc = "existing", !.kind = x, !.task = t, !.idle = i]
      PROVE  Orderly'
  <2>1. k.pc = "existing" /\ k.kind = x /\ k.task = t /\ (k.idle <=> i) /\ k.e = None
    BY <1>4 DEF NoCall
  <2>2. k.idle => t \in begun'
    BY <1>1, <1>4, <2>1 DEF HistoryIdle, Idle, history
  <2>3. Calling(c)'
    BY <1>2, <2>1, <2>2 DEF Calling, Allocation, Allocating
  <2>4. Admissible(c, k)
    BY <1>1, <1>4, <2>1 DEF Admissible, Allocating, Opens
  <2> QED BY <1>1, <1>2, <2>3, <2>4, CallMovesOrderly
<1> QED
  <2>1. caller \in [Callers -> {caller[d] : d \in Callers}]
    BY DEF Inv, TypeOK, CallersTyped
  <2>2. CASE caller' = [caller EXCEPT ![c] = [NoCall EXCEPT !.pc = "allocate", !.kind = "create"]]
    BY <1>2, <1>3, <2>1, <2>2
  <2>3. CASE \E t \in Tasks, x \in {"open", "follow"}, i \in BOOLEAN :
               /\ i => x = "open" /\ HistoryIdle(t)
               /\ x = "open" => \A d \in Callers : Opening(d) /\ caller[d].kind = "open" => caller[d].task # t
               /\ caller' = [caller EXCEPT ![c] = [NoCall EXCEPT !.pc = "existing", !.kind = x, !.task = t, !.idle = i]]
    <3>1. PICK t \in Tasks, x \in {"open", "follow"}, i \in BOOLEAN :
               /\ i => x = "open" /\ HistoryIdle(t)
               /\ x = "open" => \A d \in Callers : Opening(d) /\ caller[d].kind = "open" => caller[d].task # t
               /\ caller' = [caller EXCEPT ![c] = [NoCall EXCEPT !.pc = "existing", !.kind = x, !.task = t, !.idle = i]]
      BY <2>3
    <3>2. k = [NoCall EXCEPT !.pc = "existing", !.kind = x, !.task = t, !.idle = i]
      BY <1>2, <2>1, <3>1
    <3> QED BY <1>4, <3>1, <3>2
  <2> QED BY <2>2, <2>3 DEF Open

(* A call that may replace the executor of its task finds all of them ended. *)
LEMMA ReplacesEnded ==
  ASSUME Inv, NEW c \in Callers, NEW t \in Tasks, caller[c].pc = "existing", caller[c].kind = "open", caller[c].task = t,
         origin[t] # None \/ caller[c].idle,
         Owned(t) => LET e == Reference(t) IN
           rec[e].phase \in {"retired", "exited"} \/ (WriterEnded(e) /\ caller[c].idle)
  PROVE  \A f \in Execs : TaskOf(f) = t => Over(f)
<1> SUFFICES ASSUME NEW f \in Execs, TaskOf(f) = t, ~Over(f)
             PROVE  FALSE
  OBVIOUS
<1> TypeOK /\ Life(f) /\ Calls /\ Writers
  BY DEF Inv, Lives
<1> USE NoneIsNoTask
<1>1. CASE Reference(t) = f /\ Owned(t)
  <2>1. rec[f].phase \in {"retired", "exited", "ready", "disconnected"} /\ ~native[f].alive
    BY <1>1 DEF WriterEnded, Life, Phased, Ended
  <2>2. keeper[f] \notin {"launched", "claimed"}
    BY <2>1 DEF Life, Phased, Ended
  <2>3. \A d \in Callers : caller[d].pc \in Allocating => caller[d].e # f
    BY <2>1 DEF Calls, Calling, Allocating
  <2> QED BY <2>1, <2>2, <2>3 DEF Over
<1>2. CASE New(f, t)
  BY <1>2 DEF New, Owned, Calls, Calling
<1>3. ASSUME NEW d \in Callers, Allocates(d, f, t) PROVE FALSE
  <2>1. caller[d].pc \in Allocating /\ caller[d].task = t /\ caller[d].kind = "open" /\ d # c
    BY <1>3 DEF Allocates, Calls, Calling, Allocation, Allocating
  <2>2. Opens(d) /\ Opens(c)
    BY <2>1 DEF Opens, Opening, Allocating
  <2> QED BY <2>1, <2>2 DEF Calls
<1> QED BY <1>1, <1>2, <1>3 DEF Writers

LEMMA ExistingOrderly ==
  ASSUME Inv, NEW c \in Callers, Existing(c)
  PROVE  Orderly'
<1> TypeOK /\ Lives /\ Names /\ Calls /\ References
  BY DEF Inv
<1> USE NoneIsNoTask
<1>1. Idle /\ caller[c].pc = "existing" /\ \A d \in Callers : d # c => caller'[d] = caller[d]
  BY DEF Existing, Idle, TypeOK, CallersTyped
<1>2. PICK t : t = caller[c].task
  OBVIOUS
<1>3. t \in Tasks /\ caller[c].kind \in {"open", "follow"} /\ caller[c].e = None /\ (caller[c].idle => t \in begun)
  BY <1>1, <1>2 DEF Calls, Calling, TypeOK, CallersTyped
<1>4. PICK k : k = caller'[c]
  OBVIOUS
<1>5. PICK e : e = Reference(t)
  OBVIOUS
<1>6. \/ k = NoCall
      \/ /\ k = [caller[c] EXCEPT !.pc = "allocate"] /\ caller[c].kind = "open" /\ (origin[t] # None \/ caller[c].idle)
         /\ Owned(t) => rec[e].phase \in {"retired", "exited"} \/ (WriterEnded(e) /\ caller[c].idle)
      \/ /\ k = [caller[c] EXCEPT !.pc = "connect", !.e = e] /\ Owned(t) /\ rec[e].task = t
  <2>1. caller \in [Callers -> {caller[d] : d \in Callers}]
    BY DEF TypeOK, CallersTyped
  <2> QED BY <1>2, <1>4, <1>5, <2>1 DEF Existing, Owned
<1>7. CASE k = NoCall
  BY <1>1, <1>4, <1>7, CallEnds DEF Allocating
<1>8. CASE /\ k = [caller[c] EXCEPT !.pc = "allocate"] /\ caller[c].kind = "open" /\ (origin[t] # None \/ caller[c].idle)
           /\ Owned(t) => rec[e].phase \in {"retired", "exited"} \/ (WriterEnded(e) /\ caller[c].idle)
  <2>1. \A f \in Execs : TaskOf(f) = t => Over(f)
    BY <1>1, <1>2, <1>3, <1>5, <1>8, ReplacesEnded
  <2>2. /\ k.pc = "allocate" /\ k.kind = "open" /\ k.task = t /\ (k.idle <=> caller[c].idle) /\ k.e = None
        /\ Opens(c) /\ caller[c].task = k.task
    BY <1>1, <1>2, <1>3, <1>8 DEF TypeOK, CallersTyped, Opens, Opening
  <2>3. origin' = origin /\ begun' = begun
    BY <1>1 DEF Idle, files, history
  <2>4. Calling(c)'
    BY <1>3, <1>4, <1>8, <2>2, <2>3 DEF Calling, Allocation, Allocating
  <2>5. Admissible(c, k)
    BY <1>1, <2>1, <2>2 DEF Admissible, Allocating
  <2> QED BY <1>1, <1>4, <2>4, <2>5, CallMovesOrderly
<1>9. CASE k = [caller[c] EXCEPT !.pc = "connect", !.e = e] /\ Owned(t) /\ rec[e].task = t
  <2>1. e \in {origin[t], current[t], recovered[t]} /\ e \in Execs
    BY <1>3, <1>5, <1>9 DEF Owned, Reference, TypeOK, FilesTyped
  <2>2. rec[e].phase # "none" /\ TaskOf(e) = t
    BY <1>3, <1>9, <2>1 DEF References, Names, Name, Naming
  <2>3. k.pc = "connect" /\ k.kind = caller[c].kind /\ k.task = t /\ (k.idle <=> caller[c].idle) /\ k.e = e
    BY <1>2, <1>9 DEF TypeOK, CallersTyped
  <2>4. TaskOf(e)' = t /\ Owned(t)' /\ rec' = rec /\ begun' = begun
    BY <1>1, <1>3, <1>9, <2>1, <2>2, IdleStep DEF Idle, files, history
  <2>5. Calling(c)'
    BY <1>3, <1>4, <2>1, <2>2, <2>3, <2>4 DEF Calling, Allocation, Allocating
  <2>6. Admissible(c, k)
    BY <1>1, <1>2, <1>3, <2>3 DEF Admissible, Allocating, Opens, Opening
  <2> QED BY <1>1, <1>4, <2>5, <2>6, CallMovesOrderly
<1> QED BY <1>6, <1>7, <1>8, <1>9

LEMMA AllocateOrderly ==
  ASSUME Inv, NEW c \in Callers, Allocate(c)
  PROVE  Orderly'
<1> TypeOK /\ Lives /\ Calls /\ Replacing /\ References
  BY DEF Inv
<1> USE NoneIsNoTask
<1>1. Idle /\ caller[c].pc = "allocate" /\ \A d \in Callers : d # c => caller'[d] = caller[d]
  BY DEF Allocate, Idle, TypeOK, CallersTyped
<1>2. CASE caller' = [caller EXCEPT ![c] = NoCall]
  BY <1>1, <1>2, CallEnds DEF Allocating, TypeOK, CallersTyped
<1>3. ASSUME NEW e \in Execs, Fresh(e), caller' = [caller EXCEPT ![c].pc = "state", ![c].e = e]
      PROVE  Orderly'
  <2>1. PICK k : k = caller'[c]
    OBVIOUS
  <2>2. /\ k.pc = "state" /\ k.kind = caller[c].kind /\ k.task = caller[c].task /\ (k.idle <=> caller[c].idle)
        /\ k.e = e
    BY <1>3, <2>1 DEF TypeOK, CallersTyped
  <2>3. rec[e].phase = "none" /\ keeper[e] = "none" /\ ~native[e].alive
    BY <1>3 DEF Fresh, References, Lives, Life, Working
  <2>4. UNCHANGED <<rec, keeper, native, origin, begun>>
    BY <1>1 DEF Idle, files, procs, history
  <2>5. Calling(c)'
    BY <1>1, <2>1, <2>2, <2>3, <2>4 DEF Calls, Calling, Allocation, Allocating
  <2>6. caller[c].kind = "open" => \A f \in Execs : TaskOf(f) = caller[c].task => Over(f)
    BY <1>1 DEF Replacing, Allocation, Calls, Calling
  <2>7. \A d \in Callers : caller[d].pc \notin Allocating
    BY DEF Allocate
  <2>8. Opens(c) <=> caller[c].kind = "open"
    BY <1>1 DEF Opens, Opening
  <2>9. Admissible(c, k)
    BY <1>3, <2>2, <2>3, <2>6, <2>7, <2>8 DEF Admissible, Allocating, Fresh
  <2> QED BY <1>1, <2>1, <2>5, <2>9, CallMovesOrderly
<1> QED BY <1>2, <1>3 DEF Allocate

LEMMA ConnectOrderly ==
  ASSUME Inv, NEW c \in Callers, Connect(c)
  PROVE  Orderly'
<1> TypeOK /\ Names /\ Calls
  BY DEF Inv
<1> USE NoneIsNoTask
<1>1. Idle /\ caller[c].pc = "connect" /\ \A d \in Callers : d # c => caller'[d] = caller[d]
  BY DEF Connect, Idle, TypeOK, CallersTyped
<1>2. CASE caller' = [caller EXCEPT ![c] = NoCall]
  BY <1>1, <1>2, CallEnds DEF Allocating, TypeOK, CallersTyped
<1>3. CASE linked[caller[c].e] /\ caller' = [caller EXCEPT ![c].pc = "joined"]
  <2>1. PICK k : k = caller'[c]
    OBVIOUS
  <2>2. PICK e : e = caller[c].e
    OBVIOUS
  <2>3. /\ k.pc = "joined" /\ k.kind = caller[c].kind /\ k.task = caller[c].task /\ (k.idle <=> caller[c].idle)
        /\ k.e = e
    BY <1>3, <2>1, <2>2 DEF TypeOK, CallersTyped
  <2>4. /\ e \in Execs /\ linked[e] /\ rec[e].phase # "none" /\ (k.kind = "create" => TaskOf(e) = None)
        /\ k.task # None => TaskOf(e) = k.task /\ Owned(k.task)
    BY <1>1, <1>3, <2>2, <2>3 DEF Calls, Calling
  <2>5. k.kind = "create" => mem[e].task = None
    BY <2>4 DEF Names, Name, Naming
  <2>6. UNCHANGED <<rec, linked, mem, begun>> /\ TaskOf(e)' = TaskOf(e) /\ (k.task # None => Owned(k.task)')
    BY <1>1, <2>3, <2>4, IdleStep DEF Idle, files, procs, history, TypeOK, CallersTyped
  <2>7. Calling(c)'
    BY <1>1, <2>1, <2>2, <2>3, <2>4, <2>5, <2>6 DEF Calls, Calling, Allocation, Allocating
  <2>8. Admissible(c, k)
    BY <1>1, <2>2, <2>3 DEF Admissible, Allocating
  <2> QED BY <1>1, <2>1, <2>7, <2>8, CallMovesOrderly
<1> QED BY <1>2, <1>3 DEF Connect

LEMMA LeaveOrderly ==
  ASSUME Inv, NEW c \in Callers, Leave(c)
  PROVE  Orderly'
<1>1. /\ Idle /\ caller[c].pc \notin Allocating /\ caller'[c] = NoCall
      /\ \A d \in Callers : d # c => caller'[d] = caller[d]
  BY DEF Leave, Idle, Allocating, Inv, TypeOK, CallersTyped
<1> QED BY <1>1, CallEnds

(* An allocation that ends without a launch leaves an executor that is over. *)
LEMMA HelperDiesOrderly ==
  ASSUME Inv, HelperDies
  PROVE  Orderly'
<1> TypeOK /\ Lives /\ Calls /\ Writers /\ References
  BY DEF Inv
<1> USE NoneIsNoTask
<1>1. Idle /\ \A d \in Callers : caller'[d] = NoCall
  BY DEF HelperDies, Idle
<1>2. UNCHANGED <<rec, origin, current, recovered, keeper, mem, snap, recording, linked, retiring, native, begun>>
  BY <1>1 DEF Idle, files, procs, history
<1>3. Calls'
  BY <1>1, NoCallIs DEF Calls, Calling, Allocation, Allocating, Opens, Opening
<1>4. Replacing'
  BY <1>1, NoCallIs DEF Replacing, Allocation, Allocating
<1>5. Writers'
  <2> SUFFICES ASSUME NEW f \in Execs, NEW t \in Tasks, TaskOf(f)' = t, ~Over(f)'
               PROVE  (Reference(t)' = f /\ Owned(t)') \/ New(f, t)'
    BY DEF Writers
  <2>1. TaskOf(f) = t /\ ~Over(f)
    BY <1>1, <1>2, IdleStep, NoCallIs DEF Over, Allocating
  <2>2. ASSUME NEW d \in Callers, Allocates(d, f, t) PROVE FALSE
    <3>1. keeper[f] = "none" /\ ~native[f].alive
      BY <2>2 DEF Allocates, Calls, Calling
    <3>2. rec[f].phase # "none"
      BY <2>1 DEF References, TaskOf
    <3> QED BY <1>1, <1>2, <3>1, <3>2, NoCallIs DEF Over, Allocating
  <2> QED BY <1>1, <2>1, <2>2, IdleStep DEF Writers
<1> QED BY <1>1, <1>3, <1>4, <1>5, IdleStep DEF Orderly

-----------------------------------------------------------------------------
(* The steps of an allocation, of RecordTask and of a turn.                 *)
LEMMA PairsKept ==
  ASSUME Calls, \A d \in Callers : Calling(d)',
         \A d \in Callers : \/ caller'[d] = NoCall
                            \/ /\ caller'[d].kind = caller[d].kind /\ caller'[d].task = caller[d].task
                               /\ caller'[d].e = caller[d].e /\ (Opening(d)' => Opening(d))
                               /\ caller'[d].pc \in Allocating => caller[d].pc \in Allocating
  PROVE  Calls'
<1>1. ASSUME NEW c \in Callers, NEW d \in Callers
      PROVE  /\ caller'[c].pc \in Allocating /\ caller'[d].pc \in Allocating => c = d
             /\ Opens(c)' /\ Opens(d)' /\ caller'[c].task = caller'[d].task => c = d
             /\ caller'[c].kind = "create" /\ caller'[d].kind = "create" /\ caller'[c].e # None
                  /\ caller'[c].e = caller'[d].e => c = d
  <2>1. ASSUME NEW x \in Callers, caller'[x] = NoCall
        PROVE  caller'[x].pc \notin Allocating /\ ~Opens(x)' /\ caller'[x].kind # "create"
    BY <2>1, NoCallIs DEF Allocating, Opens, Opening
  <2> QED BY <2>1 DEF Calls, Opens
<1> QED BY <1>1 DEF Calls

(* The step of one call of an allocation, before it is launched.            *)
LEMMA MovesAt ==
  ASSUME Inv, NEW c \in Callers, caller[c].pc \in Allocating
  PROVE  /\ caller[c].e \in Execs /\ keeper[caller[c].e] = "none" /\ ~native[caller[c].e].alive
         /\ native[caller[c].e].task = None /\ mem[caller[c].e].phase = "none"
         /\ recording[caller[c].e] = "no" /\ guardian[caller[c].e].pc = "none"
         /\ caller[c].task \in Tasks \cup {None} /\ (caller[c].task # None => caller[c].kind = "open")
         /\ caller[c].kind \in {"create", "open"} /\ (caller[c].kind = "create" <=> caller[c].task = None)
         /\ \A d \in Callers : caller[d].pc \in Allocating => d = c
         /\ caller[c].pc # "state" => rec[caller[c].e].phase = "starting" /\ rec[caller[c].e].task = caller[c].task
<1>1. caller[c].e \in Execs /\ keeper[caller[c].e] = "none"
  BY DEF Inv, Calls, Calling
<1>2. Life(caller[c].e)
  BY <1>1 DEF Inv, Lives
<1>3. caller[c].task \in Tasks \cup {None} /\ caller[c].pc \in Allocating
  BY DEF Inv, TypeOK, CallersTyped
<1>4. \A d \in Callers : caller[d].pc \in Allocating => d = c
  BY DEF Inv, Calls
<1>5. /\ ~native[caller[c].e].alive /\ (caller[c].kind = "create" <=> caller[c].task = None)
      /\ caller[c].kind \in {"create", "open"}
      /\ caller[c].pc # "state" => rec[caller[c].e].phase = "starting" /\ rec[caller[c].e].task = caller[c].task
  BY DEF Inv, Calls, Calling, Allocation, Allocating
<1> QED BY <1>1, <1>2, <1>3, <1>4, <1>5 DEF Life, Unborn, Working

LEMMA SaveStartingOrderly ==
  ASSUME Inv, NEW c \in Callers, SaveStarting(c)
  PROVE  Orderly'
<1> /\ TypeOK /\ Lives /\ Names /\ Calls /\ Writers /\ Replacing /\ References /\ ~harmed
  BY DEF Inv
<1> USE NoneIsNoTask
<1>1. PICK e, T, k : e = caller[c].e /\ T = caller[c].task /\ k = caller'[c]
  OBVIOUS
<1>2. /\ caller[c].pc = "state" /\ rec[e].phase = "none"
      /\ UNCHANGED <<origin, current, recovered, keeper, mem, snap, recording, linked, retiring, native, guardian>>
      /\ UNCHANGED <<begun, harmed>>
  BY <1>1 DEF SaveStarting, procs, history, Calls, Calling
<1>3. /\ e \in Execs /\ keeper[e] = "none" /\ ~native[e].alive /\ native[e].task = None /\ mem[e].phase = "none"
      /\ recording[e] = "no" /\ guardian[e].pc = "none" /\ T \in Tasks \cup {None} /\ (T # None => caller[c].kind = "open")
      /\ caller[c].kind \in {"create", "open"} /\ (caller[c].kind = "create" <=> T = None)
      /\ \A d \in Callers : caller[d].pc \in Allocating => d = c
  BY <1>1, <1>2, MovesAt DEF Allocating
<1>4. rec'[e].phase = "starting" /\ rec'[e].task = T /\ \A f \in Execs : f # e => rec'[f] = rec[f]
  BY <1>1, <1>3 DEF SaveStarting, Record, TypeOK, FilesTyped
<1>5. /\ k.pc \in {"launch", "current"} /\ (k.pc = "launch" <=> T = None) /\ k.kind = caller[c].kind /\ k.task = T
      /\ k.e = e /\ (k.idle <=> caller[c].idle) /\ \A d \in Callers : d # c => caller'[d] = caller[d]
  BY <1>1 DEF SaveStarting, TypeOK, CallersTyped
<1>6. rec[e].task = None /\ TaskOf(e) = None /\ TaskOf(e)' = T /\ mem[e].task = None /\ guardian[e].task = None
  <2>1. rec[e].task = None
    BY <1>2, <1>3 DEF References
  <2> QED BY <1>2, <1>3, <1>4, <2>1 DEF TaskOf, Names, Name, Naming
<1>7. ASSUME NEW f \in Execs, f # e
      PROVE  Life(f)' /\ Name(f)' /\ TaskOf(f)' = TaskOf(f) /\ \A t \in Tasks : Given(f, t) => Given(f, t)'
  <2>1. Rests(f)
    BY <1>2, <1>4, <1>7 DEF Rests
  <2> QED BY <2>1, RestsKeeps DEF Lives, Names
<1>8. Life(e)' /\ Name(e)'
  <2>1. Life(e)
    BY <1>3 DEF Lives
  <2>2. Life(e)'
    BY <1>2, <1>3, <1>4, <1>6, <2>1
      DEF Life, Unborn, Starting, Serving, Ending, Gone, Working, Guarding, Phased, Published, Ended
  <2>3. Name(e)'
    BY <1>2, <1>3, <1>4, <1>6 DEF Name, Naming, Untouched
  <2> QED BY <2>2, <2>3
<1>9. Lives' /\ Names'
  BY <1>7, <1>8 DEF Lives, Names
<1>10. \A d \in Callers : caller'[d].pc \in Allocating <=> caller[d].pc \in Allocating
  BY <1>1, <1>2, <1>5 DEF Allocating
<1>11. ASSUME NEW f \in Execs, Over(f) PROVE Over(f)'
  <2>1. f # e
    BY <1>2, <1>11 DEF Over
  <2> QED BY <1>1, <1>2, <1>4, <1>5, <1>10, <1>11, <2>1 DEF Over
<1>12. Calling(c)'
  <2>1. /\ k.idle => T \in begun
        /\ k.kind = "open" => origin[T] # None \/ T \in begun
    BY <1>1, <1>2, <1>5 DEF Calls, Calling, Allocation, Allocating
  <2> QED BY <1>1, <1>2, <1>3, <1>4, <1>5, <2>1 DEF Calling, Allocation, Allocating
<1>13. ASSUME NEW d \in Callers, d # c PROVE Calling(d)'
  <2>1. PICK x : x = caller[d]
    OBVIOUS
  <2>2. caller'[d] = x /\ Calling(d) /\ x.pc \notin Allocating
    BY <1>3, <1>5, <1>13, <2>1 DEF Calls
  <2>3. x.pc \in {"connect", "joined"} => x.e \in Execs /\ rec[x.e].phase # "none" /\ x.e # e
    BY <1>2, <2>1, <2>2 DEF Calling
  <2>4. x.pc \in {"connect", "joined"} => rec'[x.e].phase # "none" /\ TaskOf(x.e)' = TaskOf(x.e)
    BY <1>4, <1>7, <2>3
  <2>5. \A t \in Tasks : Owned(t) => Owned(t)'
    BY <1>2 DEF Owned
  <2> QED BY <1>2, <2>1, <2>2, <2>4, <2>5, CallingKept DEF Calling
<1>14. Calls'
  <2>1. \A d \in Callers : Calling(d)'
    BY <1>12, <1>13
  <2>2. \A d \in Callers : /\ caller'[d].kind = caller[d].kind /\ caller'[d].task = caller[d].task
                           /\ caller'[d].e = caller[d].e /\ (Opening(d)' => Opening(d))
    BY <1>1, <1>2, <1>5 DEF Opening
  <2> QED BY <1>10, <2>1, <2>2, PairsKept
<1>15. Writers'
  <2> SUFFICES ASSUME NEW f \in Execs, NEW t \in Tasks, TaskOf(f)' = t, ~Over(f)'
               PROVE  \/ Reference(t)' = f /\ Owned(t)'
                      \/ New(f, t)'
                      \/ \E d \in Callers : Allocates(d, f, t)'
    BY DEF Writers
  <2>1. CASE f = e
    <3>1. Allocates(c, f, t)'
      BY <1>1, <1>5, <1>6, <2>1 DEF Allocates, Allocating
    <3> QED BY <3>1
  <2>2. CASE f # e
    <3>1. TaskOf(f) = t /\ ~Over(f)
      BY <1>7, <1>11, <2>2
    <3>2. (Reference(t) = f /\ Owned(t) => Reference(t)' = f /\ Owned(t)') /\ (New(f, t) => New(f, t)')
      BY <1>2 DEF Reference, Owned, New
    <3>3. \A d \in Callers : Allocates(d, f, t) => Allocates(d, f, t)'
      BY <1>1, <1>5, <1>10, <2>2 DEF Allocates
    <3> QED BY <3>1, <3>2, <3>3 DEF Writers
  <2> QED BY <2>1, <2>2
<1>16. Replacing'
  <2> SUFFICES ASSUME NEW d \in Callers, NEW f \in Execs, Allocation(d)', caller'[d].kind = "open",
                      TaskOf(f)' = caller'[d].task, f # caller'[d].e
               PROVE  Over(f)'
    BY DEF Replacing
  <2>1. Allocation(d) /\ caller[d].kind = "open" /\ caller'[d].task = caller[d].task /\ caller'[d].e = caller[d].e
    BY <1>1, <1>2, <1>5 DEF Allocation, Allocating
  <2>2. CASE f # e
    BY <1>7, <1>11, <2>1, <2>2 DEF Replacing
  <2>3. CASE f = e
    <3>1. d # c /\ caller[d].task = T
      BY <1>1, <1>5, <1>6, <2>1, <2>3
    <3>2. Opens(d) /\ caller[d].task # None
      BY <2>1 DEF Opens, Opening, Allocation, Allocating, Calls, Calling
    <3>3. Opens(c)
      BY <1>2, <1>3, <3>1, <3>2 DEF Opens, Opening
    <3> QED BY <1>1, <3>1, <3>2, <3>3 DEF Calls
  <2> QED BY <2>2, <2>3
<1>17. References'
  <2>1. ASSUME NEW f \in Execs, rec'[f].phase = "none"
        PROVE  /\ keeper'[f] = "none" /\ native'[f].task = None /\ rec'[f].task = None
               /\ \A t \in Tasks : f \notin {origin'[t], current'[t], recovered'[t]}
    BY <1>2, <1>4, <2>1 DEF References
  <2>2. ASSUME NEW t \in Tasks
        PROVE  /\ recovered'[t] # None => current'[t] # None /\ (t \in begun' \/ origin'[t] # None)
               /\ current'[t] # None => Given(current[t], t)' /\ (t \in begun' \/ origin'[t] # None)
               /\ recovered'[t] # None => Given(recovered[t], t)'
               /\ origin'[t] # None => native'[origin'[t]].task = t
               /\ current'[t] = None /\ origin'[t] # None /\ t \in begun' => Given(origin[t], t)'
               /\ origin'[t] # None /\ keeper'[origin'[t]] = "serving" => Given(origin[t], t)'
    <3>1. origin[t] \in Execs \cup {None} /\ current[t] \in Execs \cup {None} /\ recovered[t] \in Execs \cup {None}
      BY DEF TypeOK, FilesTyped
    <3>2. origin[t] # e /\ current[t] # e /\ recovered[t] # e
      BY <1>2, <1>3 DEF References
    <3>3. /\ current[t] # None /\ Given(current[t], t) => Given(current[t], t)'
          /\ origin[t] # None /\ Given(origin[t], t) => Given(origin[t], t)'
          /\ recovered[t] # None /\ Given(recovered[t], t) => Given(recovered[t], t)'
      BY <1>2, <1>7, <3>1, <3>2
    <3> QED BY <1>2, <3>3 DEF References
  <2>3. ASSUME NEW f \in Execs
        PROVE  /\ recording'[f] \in {"mutate", "save", "origin"} => New(f, native[f].task)'
               /\ recording'[f] = "origin" /\ keeper'[f] = "serving" => rec'[f].task = native'[f].task
               /\ recording'[f] = "bind" => origin'[native'[f].task] = f
    BY <1>2, <1>3, <1>4 DEF References, New, Owned
  <2> QED BY <2>1, <2>2, <2>3 DEF References
<1> QED BY <1>2, <1>9, <1>14, <1>15, <1>16, <1>17 DEF Orderly

(* The files and the processes of all executors stay as they are.           *)
Still == UNCHANGED <<rec, keeper, mem, snap, recording, linked, retiring, native, guardian, begun, harmed>>
LEMMA StillStep ==
  ASSUME Inv, Still
  PROVE  /\ Lives' /\ Names' /\ ~harmed'
         /\ \A f \in Execs : TaskOf(f)' = TaskOf(f) /\ \A t \in Tasks : Given(f, t) => Given(f, t)'
<1>1. \A f \in Execs : Rests(f)
  BY DEF Still, Rests
<1> QED BY <1>1, RestsKeeps DEF Inv, Lives, Names, Still

LEMMA SaveCurrentOrderly ==
  ASSUME Inv, NEW c \in Callers, SaveCurrent(c)
  PROVE  Orderly'
<1> /\ TypeOK /\ Lives /\ Names /\ Calls /\ Writers /\ Replacing /\ References /\ ~harmed
  BY DEF Inv
<1> USE NoneIsNoTask
<1>1. PICK e, t, k : e = caller[c].e /\ t = caller[c].task /\ k = caller'[c]
  OBVIOUS
<1>2. caller[c].pc = "current" /\ Still /\ UNCHANGED <<origin, recovered>>
  BY DEF SaveCurrent, procs, history, Still
<1>3. /\ e \in Execs /\ keeper[e] = "none" /\ mem[e].phase = "none" /\ t \in Tasks /\ caller[c].kind = "open"
      /\ rec[e].phase = "starting" /\ rec[e].task = t /\ native[e].task = None /\ ~native[e].alive
      /\ \A d \in Callers : caller[d].pc \in Allocating => d = c
  BY <1>1, <1>2, MovesAt DEF Allocating, Calls, Calling
<1>4. current'[t] = e /\ \A u \in Tasks : u # t => current'[u] = current[u]
  BY <1>1, <1>3 DEF SaveCurrent, TypeOK, FilesTyped
<1>5. /\ k.pc \in {"launch", "recover"} /\ (k.pc = "launch" <=> origin[t] # None) /\ k.kind = "open" /\ k.task = t
      /\ k.e = e /\ (k.idle <=> caller[c].idle) /\ \A d \in Callers : d # c => caller'[d] = caller[d]
  BY <1>1, <1>3 DEF SaveCurrent, TypeOK, CallersTyped
<1>6. (origin[t] # None \/ t \in begun) /\ (k.idle => t \in begun)
  BY <1>1, <1>2, <1>3, <1>5 DEF Calls, Calling, Allocation, Allocating
<1>7. \A d \in Callers : caller'[d].pc \in Allocating <=> caller[d].pc \in Allocating
  BY <1>1, <1>2, <1>5 DEF Allocating
<1>8. \A f \in Execs : Over(f)' <=> Over(f)
  BY <1>1, <1>2, <1>5, <1>7 DEF Over, Still
<1>9. /\ \A f \in Execs : TaskOf(f)' = TaskOf(f) /\ \A u \in Tasks : Given(f, u) => Given(f, u)'
      /\ Lives' /\ Names' /\ ~harmed'
  BY <1>2, StillStep
<1>10. \A u \in Tasks : (Owned(u)' <=> Owned(u)) /\ (u # t => Reference(u)' = Reference(u))
  BY <1>2, <1>4 DEF Owned, Reference
<1>11. \A f \in Execs, u \in Tasks : New(f, u) => u # t /\ New(f, u)'
  BY <1>2, <1>4, <1>6 DEF New, Owned, Still
<1>12. Calling(c)'
  BY <1>1, <1>2, <1>3, <1>4, <1>5, <1>6 DEF Calling, Allocation, Allocating, Still, Owned
<1>13. ASSUME NEW d \in Callers, d # c PROVE Calling(d)'
  <2>1. PICK x : x = caller[d]
    OBVIOUS
  <2>2. caller'[d] = x /\ Calling(d) /\ x.pc \notin Allocating
    BY <1>3, <1>5, <1>13, <2>1 DEF Calls
  <2>3. x.pc \in {"connect", "joined"} => x.e \in Execs /\ rec'[x.e].phase # "none" /\ TaskOf(x.e)' = TaskOf(x.e)
    BY <1>2, <1>9, <2>1, <2>2 DEF Calling, Still
  <2> QED BY <1>2, <1>10, <2>1, <2>2, <2>3, CallingKept DEF Calling, Still, Allocating
<1>14. Calls'
  <2>1. \A d \in Callers : Calling(d)'
    BY <1>12, <1>13
  <2>2. \A d \in Callers : /\ caller'[d].kind = caller[d].kind /\ caller'[d].task = caller[d].task
                           /\ caller'[d].e = caller[d].e /\ (Opening(d)' => Opening(d))
    BY <1>1, <1>2, <1>3, <1>5 DEF Opening
  <2> QED BY <1>7, <2>1, <2>2, PairsKept
<1>15. Writers'
  <2> SUFFICES ASSUME NEW f \in Execs, NEW u \in Tasks, TaskOf(f)' = u, ~Over(f)'
               PROVE  \/ Reference(u)' = f /\ Owned(u)'
                      \/ New(f, u)'
                      \/ \E d \in Callers : Allocates(d, f, u)'
    BY DEF Writers
  <2>1. TaskOf(f) = u /\ ~Over(f)
    BY <1>8, <1>9
  <2>2. CASE u = t
    <3>1. f = e
      BY <1>1, <1>2, <1>3, <2>1, <2>2 DEF Replacing, Allocation, Allocating
    <3>2. Allocates(c, f, u)'
      BY <1>1, <1>5, <2>2, <3>1 DEF Allocates, Allocating
    <3> QED BY <3>2
  <2>3. CASE u # t
    <3>1. \A d \in Callers : Allocates(d, f, u) => Allocates(d, f, u)'
      BY <1>1, <1>5, <2>3 DEF Allocates
    <3> QED BY <1>10, <1>11, <2>1, <2>3, <3>1 DEF Writers
  <2> QED BY <2>2, <2>3
<1>16. Replacing'
  BY <1>1, <1>2, <1>3, <1>5, <1>8, <1>9 DEF Replacing, Allocation, Allocating
<1>17. References'
  <2>1. ASSUME NEW f \in Execs, rec'[f].phase = "none"
        PROVE  /\ keeper'[f] = "none" /\ native'[f].task = None /\ rec'[f].task = None
               /\ \A u \in Tasks : f \notin {origin'[u], current'[u], recovered'[u]}
    BY <1>2, <1>3, <1>4, <2>1 DEF References, Still
  <2>2. ASSUME NEW u \in Tasks
        PROVE  /\ recovered'[u] # None => current'[u] # None /\ (u \in begun' \/ origin'[u] # None)
               /\ current'[u] # None => Given(current[u], u)' /\ (u \in begun' \/ origin'[u] # None)
               /\ recovered'[u] # None => Given(recovered[u], u)'
               /\ origin'[u] # None => native'[origin'[u]].task = u
               /\ current'[u] = None /\ origin'[u] # None /\ u \in begun' => Given(origin[u], u)'
               /\ origin'[u] # None /\ keeper'[origin'[u]] = "serving" => Given(origin[u], u)'
    <3>1. origin[u] \in Execs \cup {None} /\ current[u] \in Execs \cup {None} /\ recovered[u] \in Execs \cup {None}
      BY DEF TypeOK, FilesTyped
    <3>2. /\ current[u] # None /\ Given(current[u], u) /\ u # t => Given(current[u], u)'
          /\ origin[u] # None /\ Given(origin[u], u) => Given(origin[u], u)'
          /\ recovered[u] # None /\ Given(recovered[u], u) => Given(recovered[u], u)'
      BY <1>2, <1>4, <1>9, <3>1 DEF Given, Still
    <3>3. u = t => Given(current[u], u)'
      BY <1>2, <1>3, <1>4 DEF Given, Still
    <3> QED BY <1>2, <1>3, <1>4, <1>6, <3>1, <3>2, <3>3 DEF References, Still
  <2>3. ASSUME NEW f \in Execs
        PROVE  /\ recording'[f] \in {"mutate", "save", "origin"} => New(f, native[f].task)'
               /\ recording'[f] = "origin" /\ keeper'[f] = "serving" => rec'[f].task = native'[f].task
               /\ recording'[f] = "bind" => origin'[native'[f].task] = f
    <3>1. recording[f] \in {"mutate", "save", "origin"} => native[f].task \in Tasks
      BY TypedAt DEF Lives, Life, Working
    <3>2. recording[f] \in {"mutate", "save", "origin"} => New(f, native[f].task)'
      BY <1>11, <1>2, <3>1 DEF References, New, Still
    <3> QED BY <1>2, <3>2 DEF References, Still
  <2> QED BY <2>1, <2>2, <2>3 DEF References
<1> QED BY <1>9, <1>14, <1>15, <1>16, <1>17 DEF Orderly

LEMMA SaveRecoveredOrderly ==
  ASSUME Inv, NEW c \in Callers, SaveRecovered(c)
  PROVE  Orderly'
<1> /\ TypeOK /\ Lives /\ Names /\ Calls /\ Writers /\ Replacing /\ References /\ ~harmed
  BY DEF Inv
<1> USE NoneIsNoTask
<1>1. PICK e, t, k : e = caller[c].e /\ t = caller[c].task /\ k = caller'[c]
  OBVIOUS
<1>2. caller[c].pc = "recover" /\ Still /\ UNCHANGED <<origin, current>>
  BY DEF SaveRecovered, procs, history, Still
<1>3. /\ e \in Execs /\ t \in Tasks /\ caller[c].kind = "open" /\ rec[e].phase = "starting" /\ rec[e].task = t
      /\ native[e].task = None /\ current[t] = e /\ keeper[e] = "none" /\ ~native[e].alive
      /\ \A d \in Callers : caller[d].pc \in Allocating => d = c
  BY <1>1, <1>2, MovesAt DEF Allocating, Calls, Calling
<1>4. recovered'[t] = e /\ \A u \in Tasks : u # t => recovered'[u] = recovered[u]
  BY <1>1, <1>3 DEF SaveRecovered, TypeOK, FilesTyped
<1>5. /\ k.pc = "launch" /\ k.kind = "open" /\ k.task = t
      /\ k.e = e /\ (k.idle <=> caller[c].idle) /\ \A d \in Callers : d # c => caller'[d] = caller[d]
  BY <1>1, <1>3 DEF SaveRecovered, TypeOK, CallersTyped
<1>6. (origin[t] # None \/ t \in begun) /\ (k.idle => t \in begun)
  BY <1>1, <1>2, <1>3, <1>5 DEF Calls, Calling, Allocation, Allocating
<1>7. \A d \in Callers : caller'[d].pc \in Allocating <=> caller[d].pc \in Allocating
  BY <1>1, <1>2, <1>5 DEF Allocating
<1>8. \A f \in Execs : Over(f)' <=> Over(f)
  BY <1>1, <1>2, <1>5, <1>7 DEF Over, Still
<1>9. /\ \A f \in Execs : TaskOf(f)' = TaskOf(f) /\ \A u \in Tasks : Given(f, u) => Given(f, u)'
      /\ Lives' /\ Names' /\ ~harmed'
  BY <1>2, StillStep
<1>10. Owned(t)' /\ \A u \in Tasks : Reference(u)' = Reference(u) /\ (Owned(u) => Owned(u)')
  BY <1>2, <1>3, <1>4 DEF Owned, Reference
<1>11. \A f \in Execs, u \in Tasks : New(f, u) => u # t /\ New(f, u)'
  BY <1>2, <1>3, <1>4, <1>6 DEF New, Owned, Still
<1>12. Calling(c)'
  BY <1>1, <1>2, <1>3, <1>4, <1>5, <1>6, <1>10 DEF Calling, Allocation, Allocating, Still
<1>13. ASSUME NEW d \in Callers, d # c PROVE Calling(d)'
  <2>1. PICK x : x = caller[d]
    OBVIOUS
  <2>2. caller'[d] = x /\ Calling(d) /\ x.pc \notin Allocating
    BY <1>3, <1>5, <1>13, <2>1 DEF Calls
  <2>3. x.pc \in {"connect", "joined"} => x.e \in Execs /\ rec'[x.e].phase # "none" /\ TaskOf(x.e)' = TaskOf(x.e)
    BY <1>2, <1>9, <2>1, <2>2 DEF Calling, Still
  <2> QED BY <1>2, <1>10, <2>1, <2>2, <2>3, CallingKept DEF Calling, Still
<1>14. Calls'
  <2>1. \A d \in Callers : Calling(d)'
    BY <1>12, <1>13
  <2>2. \A d \in Callers : /\ caller'[d].kind = caller[d].kind /\ caller'[d].task = caller[d].task
                           /\ caller'[d].e = caller[d].e /\ (Opening(d)' => Opening(d))
    BY <1>1, <1>2, <1>3, <1>5 DEF Opening
  <2> QED BY <1>7, <2>1, <2>2, PairsKept
<1>15. Writers'
  <2> SUFFICES ASSUME NEW f \in Execs, NEW u \in Tasks, TaskOf(f)' = u, ~Over(f)'
               PROVE  \/ Reference(u)' = f /\ Owned(u)'
                      \/ New(f, u)'
                      \/ \E d \in Callers : Allocates(d, f, u)'
    BY DEF Writers
  <2>1. TaskOf(f) = u /\ ~Over(f)
    BY <1>8, <1>9
  <2>2. \A d \in Callers : Allocates(d, f, u) => Allocates(d, f, u)'
    BY <1>1, <1>3, <1>5, <1>7 DEF Allocates
  <2> QED BY <1>10, <1>11, <2>1, <2>2 DEF Writers
<1>16. Replacing'
  BY <1>1, <1>2, <1>3, <1>5, <1>8, <1>9 DEF Replacing, Allocation, Allocating
<1>17. References'
  <2>1. ASSUME NEW f \in Execs, rec'[f].phase = "none"
        PROVE  /\ keeper'[f] = "none" /\ native'[f].task = None /\ rec'[f].task = None
               /\ \A u \in Tasks : f \notin {origin'[u], current'[u], recovered'[u]}
    BY <1>2, <1>3, <1>4, <2>1 DEF References, Still
  <2>2. ASSUME NEW u \in Tasks
        PROVE  /\ recovered'[u] # None => current'[u] # None /\ (u \in begun' \/ origin'[u] # None)
               /\ current'[u] # None => Given(current[u], u)' /\ (u \in begun' \/ origin'[u] # None)
               /\ recovered'[u] # None => Given(recovered[u], u)'
               /\ origin'[u] # None => native'[origin'[u]].task = u
               /\ current'[u] = None /\ origin'[u] # None /\ u \in begun' => Given(origin[u], u)'
               /\ origin'[u] # None /\ keeper'[origin'[u]] = "serving" => Given(origin[u], u)'
    <3>1. origin[u] \in Execs \cup {None} /\ current[u] \in Execs \cup {None} /\ recovered[u] \in Execs \cup {None}
      BY DEF TypeOK, FilesTyped
    <3>2. /\ current[u] # None /\ Given(current[u], u) => Given(current[u], u)'
          /\ origin[u] # None /\ Given(origin[u], u) => Given(origin[u], u)'
          /\ recovered[u] # None /\ Given(recovered[u], u) /\ u # t => Given(recovered[u], u)'
      BY <1>2, <1>4, <1>9, <3>1 DEF Given, Still
    <3>3. u = t => Given(recovered[u], u)'
      BY <1>2, <1>3, <1>4 DEF Given, Still, References
    <3> QED BY <1>2, <1>3, <1>4, <1>6, <3>1, <3>2, <3>3 DEF References, Still
  <2>3. ASSUME NEW f \in Execs
        PROVE  /\ recording'[f] \in {"mutate", "save", "origin"} => New(f, native[f].task)'
               /\ recording'[f] = "origin" /\ keeper'[f] = "serving" => rec'[f].task = native'[f].task
               /\ recording'[f] = "bind" => origin'[native'[f].task] = f
    <3>1. recording[f] \in {"mutate", "save", "origin"} => native[f].task \in Tasks
      BY TypedAt DEF Lives, Life, Working
    <3>2. recording[f] \in {"mutate", "save", "origin"} => New(f, native[f].task)'
      BY <1>11, <1>2, <3>1 DEF References, New, Still
    <3> QED BY <1>2, <3>2 DEF References, Still
  <2> QED BY <2>1, <2>2, <2>3 DEF References
<1> QED BY <1>9, <1>14, <1>15, <1>16, <1>17 DEF Orderly

LEMMA AllocationFailsOrderly ==
  ASSUME Inv, NEW c \in Callers, AllocationFails(c)
  PROVE  Orderly'
<1> /\ TypeOK /\ Lives /\ Names /\ Calls /\ Writers /\ Replacing /\ References /\ ~harmed
  BY DEF Inv
<1> USE NoneIsNoTask
<1>1. PICK e : e = caller[c].e
  OBVIOUS
<1>2. /\ caller[c].pc \in Allocating
      /\ UNCHANGED <<origin, current, recovered, keeper, mem, snap, recording, linked, retiring, native, guardian>>
      /\ UNCHANGED <<begun, harmed>>
  BY DEF AllocationFails, procs, history
<1>3. /\ e \in Execs /\ keeper[e] = "none" /\ ~native[e].alive /\ native[e].task = None /\ mem[e].phase = "none"
      /\ recording[e] = "no" /\ guardian[e].pc = "none"
      /\ \A d \in Callers : caller[d].pc \in Allocating => d = c
  BY <1>1, <1>2, MovesAt
<1>4. /\ rec'[e].task = rec[e].task /\ (rec'[e].phase = "none" <=> rec[e].phase = "none")
      /\ rec'[e] = rec[e] \/ rec'[e].phase = "exited"
      /\ \A f \in Execs : f # e => rec'[f] = rec[f]
  <2>1. CASE caller[c].pc = "launch"
    <3>1. rec[e].phase = "starting" /\ rec[e].task = caller[c].task
      BY <1>1, <1>2, <2>1, MovesAt
    <3> QED BY <1>1, <1>3, <2>1, <3>1 DEF AllocationFails, Record, TypeOK, FilesTyped
  <2>2. CASE caller[c].pc # "launch"
    BY <2>2 DEF AllocationFails
  <2> QED BY <2>1, <2>2
<1>5. caller'[c] = NoCall /\ \A d \in Callers : d # c => caller'[d] = caller[d]
  BY DEF AllocationFails, TypeOK, CallersTyped
<1>6. TaskOf(e)' = TaskOf(e)
  BY <1>2, <1>4 DEF TaskOf
<1>7. ASSUME NEW f \in Execs
      PROVE  Life(f)' /\ Name(f)' /\ TaskOf(f)' = TaskOf(f) /\ \A t \in Tasks : Given(f, t) => Given(f, t)'
  <2>1. CASE rec'[f] = rec[f]
    <3>1. Rests(f)
      BY <1>2, <2>1 DEF Rests
    <3> QED BY <3>1, RestsKeeps DEF Lives, Names
  <2>2. CASE f = e /\ rec'[f].phase = "exited"
    <3>1. Life(e) /\ Name(e)
      BY <1>3 DEF Lives, Names
    <3>2. Life(e)'
      BY <1>2, <1>3, <1>4, <2>2, <3>1
        DEF Life, Unborn, Starting, Serving, Ending, Gone, Working, Guarding, Phased, Published, Ended
    <3>3. Name(e)'
      BY <1>2, <1>3, <1>4, <1>6, <3>1 DEF Name, Naming, Untouched
    <3> QED BY <1>2, <1>4, <1>6, <2>2, <3>2, <3>3 DEF Given
  <2> QED BY <1>4, <2>1, <2>2
<1>8. Lives' /\ Names'
  BY <1>7 DEF Lives, Names
<1>9. \A d \in Callers : caller'[d].pc \notin Allocating
  BY <1>2, <1>3, <1>5, NoCallIs DEF Allocating
<1>10. \A f \in Execs : rec'[f].phase = "none" <=> rec[f].phase = "none"
  BY <1>4
<1>11. ASSUME NEW f \in Execs, Over(f) PROVE Over(f)'
  BY <1>2, <1>9, <1>10, <1>11 DEF Over
<1>12. ASSUME NEW d \in Callers PROVE Calling(d)'
  <2>1. CASE d = c
    BY <1>5, <2>1, NoCallIs DEF Calling, Allocation, Allocating
  <2>2. CASE d # c
    <3>1. PICK x : x = caller[d]
      OBVIOUS
    <3>2. caller'[d] = x /\ Calling(d) /\ x.pc \notin Allocating
      BY <1>3, <1>5, <2>2, <3>1 DEF Calls
    <3>3. x.pc \in {"connect", "joined"} => x.e \in Execs /\ rec[x.e].phase # "none"
      BY <3>1, <3>2 DEF Calling
    <3>4. x.pc \in {"connect", "joined"} => rec'[x.e].phase # "none" /\ TaskOf(x.e)' = TaskOf(x.e)
      BY <1>7, <1>10, <3>3
    <3>5. \A t \in Tasks : Owned(t) => Owned(t)'
      BY <1>2 DEF Owned
    <3> QED BY <1>2, <3>1, <3>2, <3>4, <3>5, CallingKept DEF Calling
  <2> QED BY <2>1, <2>2
<1>13. Calls'
  <2>1. \A d \in Callers : \/ caller'[d] = NoCall
                           \/ caller'[d] = caller[d] /\ (Opening(d)' => Opening(d))
    BY <1>5 DEF Opening
  <2> QED BY <1>9, <1>12, <2>1, PairsKept
<1>14. Writers'
  <2> SUFFICES ASSUME NEW f \in Execs, NEW t \in Tasks, TaskOf(f)' = t, ~Over(f)'
               PROVE  (Reference(t)' = f /\ Owned(t)') \/ New(f, t)'
    BY DEF Writers
  <2>1. TaskOf(f) = t /\ ~Over(f)
    BY <1>7, <1>11
  <2>2. (Reference(t) = f /\ Owned(t) => Reference(t)' = f /\ Owned(t)') /\ (New(f, t) => New(f, t)')
    BY <1>2 DEF Reference, Owned, New
  <2>3. ASSUME NEW d \in Callers, Allocates(d, f, t) PROVE FALSE
    <3>1. f = e
      BY <1>1, <1>3, <2>3 DEF Allocates
    <3>2. rec[f].phase # "none"
      BY <2>1 DEF References, TaskOf
    <3> QED BY <1>2, <1>3, <1>9, <1>10, <3>1, <3>2 DEF Over
  <2> QED BY <2>1, <2>2, <2>3 DEF Writers
<1>15. Replacing'
  <2> SUFFICES ASSUME NEW d \in Callers, NEW f \in Execs, Allocation(d)', caller'[d].kind = "open",
                      TaskOf(f)' = caller'[d].task, f # caller'[d].e
               PROVE  Over(f)'
    BY DEF Replacing
  <2>1. caller'[d] = caller[d]
    BY <1>5, NoCallIs DEF Allocation, Allocating
  <2> QED BY <1>7, <1>11, <2>1 DEF Replacing, Allocation
<1>16. References'
  <2>1. ASSUME NEW f \in Execs, rec'[f].phase = "none"
        PROVE  /\ keeper'[f] = "none" /\ native'[f].task = None /\ rec'[f].task = None
               /\ \A t \in Tasks : f \notin {origin'[t], current'[t], recovered'[t]}
    BY <1>2, <1>4, <2>1 DEF References
  <2>2. ASSUME NEW t \in Tasks
        PROVE  /\ recovered'[t] # None => current'[t] # None /\ (t \in begun' \/ origin'[t] # None)
               /\ current'[t] # None => Given(current[t], t)' /\ (t \in begun' \/ origin'[t] # None)
               /\ recovered'[t] # None => Given(recovered[t], t)'
               /\ origin'[t] # None => native'[origin'[t]].task = t
               /\ current'[t] = None /\ origin'[t] # None /\ t \in begun' => Given(origin[t], t)'
               /\ origin'[t] # None /\ keeper'[origin'[t]] = "serving" => Given(origin[t], t)'
    <3>1. origin[t] \in Execs \cup {None} /\ current[t] \in Execs \cup {None} /\ recovered[t] \in Execs \cup {None}
      BY DEF TypeOK, FilesTyped
    <3>2. /\ current[t] # None /\ Given(current[t], t) => Given(current[t], t)'
          /\ origin[t] # None /\ Given(origin[t], t) => Given(origin[t], t)'
          /\ recovered[t] # None /\ Given(recovered[t], t) => Given(recovered[t], t)'
      BY <1>2, <1>7, <3>1
    <3> QED BY <1>2, <3>2 DEF References
  <2>3. ASSUME NEW f \in Execs
        PROVE  /\ recording'[f] \in {"mutate", "save", "origin"} => New(f, native[f].task)'
               /\ recording'[f] = "origin" /\ keeper'[f] = "serving" => rec'[f].task = native'[f].task
               /\ recording'[f] = "bind" => origin'[native'[f].task] = f
    BY <1>2, <1>3, <1>4 DEF References, New, Owned
  <2> QED BY <2>1, <2>2, <2>3 DEF References
<1> QED BY <1>2, <1>8, <1>13, <1>14, <1>15, <1>16 DEF Orderly

LEMMA LaunchOrderly ==
  ASSUME Inv, NEW c \in Callers, Launch(c)
  PROVE  Orderly'
<1> /\ TypeOK /\ Lives /\ Names /\ Calls /\ Writers /\ Replacing /\ References /\ ~harmed
  BY DEF Inv
<1> USE NoneIsNoTask
<1>1. PICK e, T, k : e = caller[c].e /\ T = caller[c].task /\ k = caller'[c]
  OBVIOUS
<1>2. /\ caller[c].pc = "launch"
      /\ UNCHANGED <<rec, origin, current, recovered, mem, snap, recording, linked, retiring, native, guardian>>
      /\ UNCHANGED <<begun, harmed>>
  BY DEF Launch, files, history
<1>3. /\ e \in Execs /\ keeper[e] = "none" /\ ~native[e].alive /\ native[e].task = None /\ mem[e].phase = "none"
      /\ recording[e] = "no" /\ guardian[e].pc = "none" /\ T \in Tasks \cup {None}
      /\ caller[c].kind \in {"create", "open"} /\ (caller[c].kind = "create" <=> T = None)
      /\ \A d \in Callers : caller[d].pc \in Allocating => d = c
      /\ rec[e].phase = "starting" /\ rec[e].task = T
  BY <1>1, <1>2, MovesAt DEF Allocating
<1>4. keeper'[e] = "launched" /\ \A f \in Execs : f # e => keeper'[f] = keeper[f]
  BY <1>1, <1>3 DEF Launch, TypeOK, KeepersTyped
<1>5. /\ k.pc = "connect" /\ k.kind = caller[c].kind /\ k.task = T
      /\ k.e = e /\ (k.idle <=> caller[c].idle) /\ \A d \in Callers : d # c => caller'[d] = caller[d]
  BY <1>1 DEF Launch, TypeOK, CallersTyped
<1>6. /\ \A f \in Execs : TaskOf(f)' = TaskOf(f)
      /\ TaskOf(e) = T /\ \A t \in Tasks : (Owned(t)' <=> Owned(t)) /\ Reference(t)' = Reference(t)
  BY <1>2, <1>3 DEF TaskOf, Owned, Reference
<1>7. ASSUME NEW f \in Execs
      PROVE  Life(f)' /\ Name(f)' /\ \A t \in Tasks : Given(f, t) => Given(f, t)'
  <2>1. CASE f # e
    <3>1. Rests(f)
      BY <1>2, <1>4, <2>1 DEF Rests
    <3> QED BY <3>1, RestsKeeps DEF Lives, Names
  <2>2. CASE f = e
    <3>1. Life(e) /\ Name(e)
      BY <1>3 DEF Lives, Names
    <3>2. Life(e)'
      BY <1>2, <1>3, <1>4, <3>1
        DEF Life, Unborn, Starting, Serving, Ending, Gone, Working, Guarding, Phased, Published, Ended
    <3>3. Name(e)'
      BY <1>2, <1>3, <1>4, <1>6, <3>1 DEF Name, Naming, Untouched
    <3> QED BY <1>2, <1>4, <2>2, <3>2, <3>3 DEF Given
  <2> QED BY <2>1, <2>2
<1>8. Lives' /\ Names'
  BY <1>7 DEF Lives, Names
<1>9. \A d \in Callers : caller'[d].pc \notin Allocating
  BY <1>1, <1>3, <1>5 DEF Allocating
<1>10. ~Over(e) /\ \A f \in Execs : Over(f) => Over(f)'
  <2>1. ~Over(e)
    BY <1>1, <1>2 DEF Over, Allocating
  <2> QED BY <1>2, <1>4, <1>9, <2>1 DEF Over
<1>11. /\ k.idle => T \in begun
       /\ T # None => current[T] = e /\ Owned(T)
  BY <1>1, <1>2, <1>5 DEF Calls, Calling
<1>12. Calling(c)'
  <2>2. T # None => Owned(T)'
    BY <1>3, <1>6, <1>11
  <2> QED BY <1>1, <1>2, <1>3, <1>5, <1>6, <1>11, <2>2 DEF Calling, Allocation, Allocating
<1>13. ASSUME NEW d \in Callers, d # c PROVE Calling(d)'
  <2>1. PICK x : x = caller[d]
    OBVIOUS
  <2>2. caller'[d] = x /\ Calling(d) /\ x.pc \notin Allocating
    BY <1>3, <1>5, <1>13, <2>1 DEF Calls
  <2>3. x.pc \in {"connect", "joined"} => x.e \in Execs /\ rec'[x.e].phase # "none" /\ TaskOf(x.e)' = TaskOf(x.e)
    BY <1>2, <1>6, <2>1, <2>2 DEF Calling
  <2> QED BY <1>2, <1>6, <2>1, <2>2, <2>3, CallingKept DEF Calling
<1>14. Calls'
  <2>1. \A d \in Callers : Calling(d)'
    BY <1>12, <1>13
  <2>2. \A d \in Callers : /\ caller'[d].kind = caller[d].kind /\ caller'[d].task = caller[d].task
                           /\ caller'[d].e = caller[d].e /\ (Opening(d)' => Opening(d))
    BY <1>1, <1>2, <1>5 DEF Opening
  <2> QED BY <1>9, <2>1, <2>2, PairsKept
<1>15. Writers'
  <2> SUFFICES ASSUME NEW f \in Execs, NEW t \in Tasks, TaskOf(f)' = t, ~Over(f)'
               PROVE  (Reference(t)' = f /\ Owned(t)') \/ New(f, t)'
    BY DEF Writers
  <2>1. TaskOf(f) = t /\ ~Over(f)
    BY <1>6, <1>10
  <2>2. New(f, t) => New(f, t)'
    BY <1>2 DEF Owned, New
  <2>3. ASSUME NEW d \in Callers, Allocates(d, f, t) PROVE Reference(t) = f /\ Owned(t)
    <3>1. d = c /\ f = e /\ T = t
      BY <1>1, <1>3, <2>3 DEF Allocates
    <3>2. current[t] = e /\ Owned(t)
      BY <1>11, <3>1
    <3> QED BY <1>3, <3>1, <3>2 DEF Reference
  <2> QED BY <1>6, <2>1, <2>2, <2>3 DEF Writers
<1>16. Replacing'
  <2> SUFFICES ASSUME NEW d \in Callers, NEW f \in Execs, Allocation(d)', caller'[d].kind = "open",
                      TaskOf(f)' = caller'[d].task, f # caller'[d].e
               PROVE  Over(f)'
    BY DEF Replacing
  <2>1. caller'[d] = caller[d]
    BY <1>1, <1>5 DEF Allocation, Allocating
  <2> QED BY <1>6, <1>10, <2>1 DEF Replacing, Allocation
<1>17. References'
  <2>1. ASSUME NEW f \in Execs, rec'[f].phase = "none"
        PROVE  /\ keeper'[f] = "none" /\ native'[f].task = None /\ rec'[f].task = None
               /\ \A t \in Tasks : f \notin {origin'[t], current'[t], recovered'[t]}
    BY <1>2, <1>3, <1>4, <2>1 DEF References
  <2>2. ASSUME NEW t \in Tasks
        PROVE  /\ recovered'[t] # None => current'[t] # None /\ (t \in begun' \/ origin'[t] # None)
               /\ current'[t] # None => Given(current[t], t)' /\ (t \in begun' \/ origin'[t] # None)
               /\ recovered'[t] # None => Given(recovered[t], t)'
               /\ origin'[t] # None => native'[origin'[t]].task = t
               /\ current'[t] = None /\ origin'[t] # None /\ t \in begun' => Given(origin[t], t)'
               /\ origin'[t] # None /\ keeper'[origin'[t]] = "serving" => Given(origin[t], t)'
    <3>1. origin[t] \in Execs \cup {None} /\ current[t] \in Execs \cup {None} /\ recovered[t] \in Execs \cup {None}
      BY DEF TypeOK, FilesTyped
    <3>2. /\ current[t] # None /\ Given(current[t], t) => Given(current[t], t)'
          /\ origin[t] # None /\ Given(origin[t], t) => Given(origin[t], t)'
          /\ recovered[t] # None /\ Given(recovered[t], t) => Given(recovered[t], t)'
      BY <1>2, <1>7, <3>1
    <3>3. origin[t] # None /\ keeper'[origin[t]] = "serving" => keeper[origin[t]] = "serving"
      BY <1>4, <3>1
    <3> QED BY <1>2, <3>2, <3>3 DEF References
  <2>3. ASSUME NEW f \in Execs
        PROVE  /\ recording'[f] \in {"mutate", "save", "origin"} => New(f, native[f].task)'
               /\ recording'[f] = "origin" /\ keeper'[f] = "serving" => rec'[f].task = native'[f].task
               /\ recording'[f] = "bind" => origin'[native'[f].task] = f
    BY <1>2, <1>3, <1>4 DEF References, New, Owned
  <2> QED BY <2>1, <2>2, <2>3 DEF References
<1> QED BY <1>2, <1>8, <1>14, <1>15, <1>16, <1>17 DEF Orderly

LEMMA CreateTaskOrderly ==
  ASSUME Inv, NEW c \in Callers, CreateTask(c)
  PROVE  Orderly'
<1> /\ TypeOK /\ Lives /\ Names /\ Calls /\ Writers /\ Replacing /\ References /\ ~harmed
  BY DEF Inv
<1> USE NoneIsNoTask
<1>1. PICK e : e = caller[c].e
  OBVIOUS
<1>2. /\ caller[c].pc = "joined" /\ caller[c].kind = "create" /\ linked[e] /\ native[e].alive
      /\ native[e].task = None /\ recording[e] = "no" /\ mem[e].task = None
      /\ UNCHANGED <<rec, origin, current, recovered, caller, keeper, mem, snap, linked, retiring, guardian>>
      /\ UNCHANGED <<begun, harmed>>
  BY <1>1 DEF CreateTask, files, history
<1>3. PICK t \in Tasks \ begun : /\ \A f \in Execs : native[f].task # t /\ mem[f].task # t
                                 /\ native' = [native EXCEPT ![e].task = t]
  BY <1>1 DEF CreateTask
<1>4. e \in Execs /\ Life(e) /\ Name(e) /\ Calling(c)
  BY <1>1, <1>2 DEF Calls, Calling, Lives, Names
<1>5. keeper[e] = "serving" /\ mem[e].phase = "ready" /\ guardian[e].pc \notin {"releasing", "saving"}
  BY <1>2, <1>4, TypedAt DEF Life, Working, Serving, Guarding
<1>6. rec[e].task = None /\ TaskOf(e) = None /\ guardian[e].task = None /\ rec[e].phase # "none"
  BY <1>2, <1>4, <1>5 DEF Name, Naming, Untouched, TaskOf, Life, Phased
<1>7. /\ native'[e].task = t /\ native'[e].alive /\ (native'[e].turn <=> native[e].turn)
      /\ \A f \in Execs : f # e => native'[f] = native[f]
      /\ recording'[e] = "mutate" /\ \A f \in Execs : f # e => recording'[f] = recording[f]
  BY <1>1, <1>2, <1>3, <1>4 DEF CreateTask, TypeOK, NativesTyped, KeepersTyped
<1>8. TaskOf(e)' = t
  BY <1>7 DEF TaskOf
<1>9. origin[t] = None /\ recovered[t] = None /\ current[t] = None
  BY <1>3 DEF References, TypeOK, FilesTyped
<1>10. ASSUME NEW f \in Execs, f # e
       PROVE  Life(f)' /\ Name(f)' /\ TaskOf(f)' = TaskOf(f)
  <2>1. Rests(f)
    BY <1>2, <1>7, <1>10 DEF Rests
  <2> QED BY <2>1, RestsKeeps DEF Lives, Names
<1>11. Life(e)'
  BY <1>2, <1>4, <1>5, <1>6, <1>7, TypedAt
    DEF Life, Unborn, Starting, Serving, Ending, Gone, Working, Guarding, Phased, Published, Ended
<1>12. Name(e)'
  BY <1>2, <1>4, <1>5, <1>6, <1>7, <1>8 DEF Name, Naming, Untouched
<1>13. Lives' /\ Names'
  BY <1>10, <1>11, <1>12 DEF Lives, Names
<1>14. \A f \in Execs : Over(f)' <=> Over(f)
  <2>1. ~Over(e)' /\ ~Over(e)
    BY <1>2, <1>7 DEF Over
  <2> QED BY <1>2, <1>7, <2>1 DEF Over
<1>15. New(e, t)'
  BY <1>2, <1>3, <1>7, <1>9 DEF New, Owned
<1>16. ASSUME NEW f \in Execs, NEW u \in Tasks, New(f, u) PROVE New(f, u)'
  BY <1>2, <1>3, <1>7, <1>16 DEF New, Owned
<1>17. ASSUME NEW d \in Callers PROVE Calling(d)'
  <2>1. PICK x : x = caller[d]
    OBVIOUS
  <2>2. caller'[d] = x /\ Calling(d)
    BY <1>2, <2>1 DEF Calls
  <2>3. x.pc \in Allocating => /\ x.e \in Execs /\ x.e # e
                               /\ keeper'[x.e] = keeper[x.e] /\ native'[x.e] = native[x.e] /\ rec'[x.e] = rec[x.e]
    BY <1>2, <1>5, <1>7, <2>1, <2>2 DEF Calling
  <2>4. x.pc \in {"connect", "joined"} => x.e \in Execs /\ rec[x.e].phase # "none" /\ rec'[x.e].phase # "none"
    BY <1>2, <2>1, <2>2 DEF Calling
  <2>5. x.pc \in {"connect", "joined"} /\ x.task # None => TaskOf(x.e)' = TaskOf(x.e)
    BY <1>6, <1>10, <2>1, <2>2, <2>4 DEF Calling
  <2>6. x.pc \in {"connect", "joined"} /\ x.task = None => x.kind = "create"
    BY <2>1, <2>2 DEF Calling
  <2>7. x.pc = "connect" => TaskOf(x.e)' = TaskOf(x.e)
    <3>1. x.pc = "connect" /\ x.task = None => d # c /\ x.e # e
      BY <1>1, <1>2, <2>1, <2>6, <1>4 DEF Calls
    <3> QED BY <1>10, <2>4, <2>5, <3>1
  <2>8. x.pc = "joined" /\ x.kind = "create" /\ mem'[x.e].task # None /\ recording'[x.e] = "no" =>
          origin'[mem'[x.e].task] = x.e
    BY <1>2, <1>7, <2>1, <2>2, <2>4 DEF Calling
  <2>9. \A u \in Tasks : (origin[u] # None => origin'[u] # None) /\ (Owned(u) => Owned(u)')
    BY <1>2 DEF Owned
  <2>10. x.pc \in {"connect", "joined"} =>
           /\ rec'[x.e].phase # "none"
           /\ x.task # None \/ x.pc = "connect" => TaskOf(x.e)' = TaskOf(x.e)
           /\ linked[x.e] => linked'[x.e]
    BY <1>2, <2>4, <2>5, <2>7
  <2> QED BY <1>2, <2>1, <2>2, <2>3, <2>8, <2>9, <2>10, CallingKept
<1>18. Calls'
  <2>1. \A d \in Callers : caller'[d] = caller[d] /\ (Opening(d)' => Opening(d))
    BY <1>2 DEF Opening
  <2> QED BY <1>17, <2>1, PairsKept
<1>19. Writers'
  <2> SUFFICES ASSUME NEW f \in Execs, NEW u \in Tasks, TaskOf(f)' = u, ~Over(f)'
               PROVE  \/ Reference(u)' = f /\ Owned(u)'
                      \/ New(f, u)'
                      \/ \E d \in Callers : Allocates(d, f, u)'
    BY DEF Writers
  <2>1. CASE f = e
    BY <1>8, <1>15, <2>1
  <2>2. CASE f # e
    <3>1. TaskOf(f) = u /\ ~Over(f)
      BY <1>10, <1>14, <2>2
    <3>2. Reference(u) = f /\ Owned(u) => Reference(u)' = f /\ Owned(u)'
      BY <1>2 DEF Reference, Owned
    <3>3. \A d \in Callers : Allocates(d, f, u) => Allocates(d, f, u)'
      BY <1>2 DEF Allocates
    <3> QED BY <1>16, <3>1, <3>2, <3>3 DEF Writers
  <2> QED BY <2>1, <2>2
<1>20. Replacing'
  <2> SUFFICES ASSUME NEW d \in Callers, NEW f \in Execs, Allocation(d), caller[d].kind = "open",
                      TaskOf(f)' = caller[d].task, f # caller[d].e
               PROVE  Over(f)'
    BY <1>2 DEF Replacing, Allocation
  <2>1. caller[d].task # t
    BY <1>3, <1>9 DEF Calls, Calling
  <2>2. f # e
    BY <1>8, <2>1
  <2> QED BY <1>10, <1>14, <2>2 DEF Replacing
<1>21. References'
  <2>1. ASSUME NEW f \in Execs, rec'[f].phase = "none"
        PROVE  /\ keeper'[f] = "none" /\ native'[f].task = None /\ rec'[f].task = None
               /\ \A u \in Tasks : f \notin {origin'[u], current'[u], recovered'[u]}
    BY <1>2, <1>6, <1>7, <2>1 DEF References
  <2>2. ASSUME NEW u \in Tasks
        PROVE  /\ recovered'[u] # None => current'[u] # None /\ (u \in begun' \/ origin'[u] # None)
               /\ current'[u] # None => Given(current[u], u)' /\ (u \in begun' \/ origin'[u] # None)
               /\ recovered'[u] # None => Given(recovered[u], u)'
               /\ origin'[u] # None => native'[origin'[u]].task = u
               /\ current'[u] = None /\ origin'[u] # None /\ u \in begun' => Given(origin[u], u)'
               /\ origin'[u] # None /\ keeper'[origin'[u]] = "serving" => Given(origin[u], u)'
    <3>1. origin[u] \in Execs \cup {None}
      BY DEF TypeOK, FilesTyped
    <3>2. \A f : Given(f, u)' <=> Given(f, u)
      BY <1>2 DEF Given
    <3>3. origin[u] # None => native'[origin[u]].task = u
      BY <1>2, <1>7, <3>1 DEF References
    <3> QED BY <1>2, <3>2, <3>3 DEF References
  <2>3. ASSUME NEW f \in Execs
        PROVE  /\ recording'[f] \in {"mutate", "save", "origin"} => New(f, native[f].task)'
               /\ recording'[f] = "origin" /\ keeper'[f] = "serving" => rec'[f].task = native'[f].task
               /\ recording'[f] = "bind" => origin'[native'[f].task] = f
    <3>1. CASE f = e
      BY <1>7, <1>15, <3>1 DEF New
    <3>2. CASE f # e
      <4>1. recording'[f] = recording[f] /\ native'[f] = native[f]
        BY <1>7, <3>2
      <4>2. recording[f] \in {"mutate", "save", "origin"} => native[f].task \in Tasks
        BY TypedAt DEF Lives, Life, Working
      <4>3. recording[f] \in {"mutate", "save", "origin"} => New(f, native[f].task)'
        BY <1>16, <4>1, <4>2 DEF References, New
      <4> QED BY <1>2, <4>1, <4>3 DEF References
    <3> QED BY <3>1, <3>2
  <2> QED BY <2>1, <2>2, <2>3 DEF References
<1> QED BY <1>2, <1>13, <1>18, <1>19, <1>20, <1>21 DEF Orderly

LEMMA RecordOriginOrderly ==
  ASSUME Inv, NEW e \in Execs, RecordOrigin(e)
  PROVE  Orderly'
<1> /\ TypeOK /\ Lives /\ Names /\ Calls /\ Writers /\ Replacing /\ References /\ ~harmed
  BY DEF Inv
<1> USE NoneIsNoTask
<1>1. PICK t : t = native[e].task
  OBVIOUS
<1>2. /\ recording[e] = "origin"
      /\ UNCHANGED <<rec, current, recovered, caller, keeper, mem, snap, linked, retiring, native, guardian>>
      /\ UNCHANGED <<begun, harmed>>
  BY DEF RecordOrigin, history
<1>3. Life(e) /\ Name(e) /\ t \in Tasks /\ New(e, t) /\ TaskOf(e) = t
  BY <1>1, <1>2, TypedAt DEF Lives, Names, References, Life, Working, TaskOf
<1>4. /\ origin[t] = None /\ recovered[t] = None /\ current[t] = None /\ t \notin begun
      /\ \A f \in Execs : native[f].task = t => f = e
  BY <1>3 DEF New, Owned
<1>5. origin'[t] = e /\ \A u \in Tasks : u # t => origin'[u] = origin[u]
  BY <1>1, <1>3 DEF RecordOrigin, TypeOK, FilesTyped
<1>6. recording'[e] = "bind" /\ \A f \in Execs : f # e => recording'[f] = recording[f]
  BY DEF RecordOrigin, TypeOK, KeepersTyped
<1>7. \A f \in Execs : TaskOf(f)' = TaskOf(f)
  BY <1>2 DEF TaskOf
<1>8. ASSUME NEW f \in Execs
      PROVE  Life(f)' /\ Name(f)'
  <2>1. CASE f # e
    <3>1. Rests(f)
      BY <1>2, <1>6, <2>1 DEF Rests
    <3> QED BY <3>1, RestsKeeps DEF Lives, Names
  <2>2. CASE f = e
    <3>1. Life(e)'
      BY <1>2, <1>3, <1>6, <1>7
        DEF Life, Unborn, Starting, Serving, Ending, Gone, Working, Guarding, Phased, Published, Ended
    <3>2. Name(e)'
      BY <1>2, <1>3, <1>6, <1>7 DEF Name, Naming, Untouched
    <3> QED BY <2>2, <3>1, <3>2
  <2> QED BY <2>1, <2>2
<1>9. Lives' /\ Names'
  BY <1>8 DEF Lives, Names
<1>10. /\ \A f \in Execs : Over(f)' <=> Over(f)
       /\ \A c \in Callers, f \in Execs, u \in Tasks : Allocates(c, f, u)' <=> Allocates(c, f, u)
       /\ \A c \in Callers : Allocation(c)' <=> Allocation(c)
  BY <1>2 DEF Over, Allocates, Allocation
<1>11. /\ Reference(t)' = e /\ Owned(t)' /\ \A u \in Tasks : Owned(u) => Owned(u)'
       /\ \A u \in Tasks : u # t => Reference(u)' = Reference(u) /\ (Owned(u)' <=> Owned(u))
  BY <1>2, <1>4, <1>5 DEF Reference, Owned
<1>12. ASSUME NEW f \in Execs, NEW u \in Tasks, New(f, u), f # e PROVE New(f, u)'
  <2>1. u # t
    BY <1>4, <1>12 DEF New
  <2> QED BY <1>2, <1>11, <1>12, <2>1 DEF New
<1>13. ASSUME NEW c \in Callers PROVE Calling(c)'
  <2>1. PICK x : x = caller[c]
    OBVIOUS
  <2>2. caller'[c] = x /\ Calling(c)
    BY <1>2, <2>1 DEF Calls
  <2>3. x.pc \in {"connect", "joined"} => x.e \in Execs /\ rec'[x.e].phase # "none" /\ TaskOf(x.e)' = TaskOf(x.e)
    BY <1>2, <1>7, <2>1, <2>2 DEF Calling
  <2>4. x.pc = "joined" /\ x.kind = "create" /\ mem'[x.e].task # None /\ recording'[x.e] = "no" =>
          origin'[mem'[x.e].task] = x.e
    <3> SUFFICES ASSUME x.pc = "joined", x.kind = "create", mem[x.e].task # None, recording'[x.e] = "no"
                 PROVE  origin'[mem[x.e].task] = x.e
      BY <1>2
    <3>1. x.e \in Execs /\ x.e # e
      BY <1>6, <2>3
    <3>2. origin[mem[x.e].task] = x.e
      BY <1>6, <2>1, <2>2, <3>1 DEF Calling
    <3>3. mem[x.e].task \in Tasks
      BY <3>1, TypedAt DEF Records
    <3> QED BY <1>4, <1>5, <3>1, <3>2, <3>3
  <2>5. \A u \in Tasks : (origin[u] # None => origin'[u] # None)
    BY <1>5
  <2> QED BY <1>2, <1>11, <2>1, <2>2, <2>3, <2>4, <2>5, CallingKept
<1>14. Calls'
  <2>1. \A d \in Callers : caller'[d] = caller[d] /\ (Opening(d)' => Opening(d))
    BY <1>2 DEF Opening
  <2> QED BY <1>13, <2>1, PairsKept
<1>15. Writers'
  <2> SUFFICES ASSUME NEW f \in Execs, NEW u \in Tasks, TaskOf(f)' = u, ~Over(f)'
               PROVE  \/ Reference(u)' = f /\ Owned(u)'
                      \/ New(f, u)'
                      \/ \E d \in Callers : Allocates(d, f, u)'
    BY DEF Writers
  <2>1. TaskOf(f) = u /\ ~Over(f)
    BY <1>7, <1>10
  <2>2. CASE f = e
    BY <1>3, <1>11, <2>1, <2>2
  <2>3. CASE f # e
    <3>1. Reference(u) = f /\ Owned(u) => u # t
      BY <1>4 DEF Owned
    <3>2. Reference(u) = f /\ Owned(u) => Reference(u)' = f /\ Owned(u)'
      BY <1>11, <3>1
    <3>3. New(f, u) => New(f, u)'
      BY <1>12, <2>3
    <3>4. \A d \in Callers : Allocates(d, f, u) => Allocates(d, f, u)'
      BY <1>10
    <3> QED BY <2>1, <3>2, <3>3, <3>4 DEF Writers
  <2> QED BY <2>2, <2>3
<1>16. Replacing'
  <2> SUFFICES ASSUME NEW d \in Callers, NEW f \in Execs, Allocation(d)', caller'[d].kind = "open",
                      TaskOf(f)' = caller'[d].task, f # caller'[d].e
               PROVE  Over(f)'
    BY DEF Replacing
  <2>1. caller'[d] = caller[d] /\ Allocation(d) /\ TaskOf(f) = caller[d].task
    BY <1>2, <1>7, <1>10
  <2> QED BY <1>10, <2>1 DEF Replacing
<1>17. References'
  <2>1. ASSUME NEW f \in Execs, rec'[f].phase = "none"
        PROVE  /\ keeper'[f] = "none" /\ native'[f].task = None /\ rec'[f].task = None
               /\ \A u \in Tasks : f \notin {origin'[u], current'[u], recovered'[u]}
    <3>1. f # e
      BY <1>1, <1>2, <1>3, <2>1 DEF References
    <3> QED BY <1>2, <1>5, <2>1, <3>1 DEF References
  <2>2. ASSUME NEW u \in Tasks
        PROVE  /\ recovered'[u] # None => current'[u] # None /\ (u \in begun' \/ origin'[u] # None)
               /\ current'[u] # None => Given(current[u], u)' /\ (u \in begun' \/ origin'[u] # None)
               /\ recovered'[u] # None => Given(recovered[u], u)'
               /\ origin'[u] # None => native'[origin'[u]].task = u
               /\ current'[u] = None /\ origin'[u] # None /\ u \in begun' => Given(origin[u], u)'
               /\ origin'[u] # None /\ keeper'[origin'[u]] = "serving" => Given(origin[u], u)'
    <3>1. \A f : Given(f, u)' <=> Given(f, u)
      BY <1>2 DEF Given
    <3>2. CASE u # t
      BY <1>2, <1>5, <3>1, <3>2 DEF References
    <3>3. CASE u = t
      <4>1. keeper[e] = "serving" => Given(e, t)
        BY <1>1, <1>2, <1>3 DEF References, Given, Name, Naming
      <4> QED BY <1>1, <1>2, <1>4, <1>5, <3>1, <3>3, <4>1
    <3> QED BY <3>2, <3>3
  <2>3. ASSUME NEW f \in Execs
        PROVE  /\ recording'[f] \in {"mutate", "save", "origin"} => New(f, native[f].task)'
               /\ recording'[f] = "origin" /\ keeper'[f] = "serving" => rec'[f].task = native'[f].task
               /\ recording'[f] = "bind" => origin'[native'[f].task] = f
    <3>1. CASE f = e
      BY <1>1, <1>2, <1>5, <1>6, <3>1
    <3>2. CASE f # e
      <4>1. recording'[f] = recording[f] /\ native'[f] = native[f] /\ native[f].task # t
        BY <1>2, <1>4, <1>6, <3>2
      <4>2. recording[f] # "no" => native[f].task \in Tasks
        BY TypedAt DEF Lives, Life, Working
      <4>3. recording[f] \in {"mutate", "save", "origin"} => New(f, native[f].task)'
        BY <1>12, <3>2, <4>1, <4>2 DEF References, New
      <4> QED BY <1>2, <1>5, <4>1, <4>2, <4>3 DEF References
    <3> QED BY <3>1, <3>2
  <2> QED BY <2>1, <2>2, <2>3 DEF References
<1> QED BY <1>2, <1>9, <1>14, <1>15, <1>16, <1>17 DEF Orderly

LEMMA StartTurnOrderly ==
  ASSUME Inv, NEW c \in Callers, StartTurn(c)
  PROVE  Orderly'
<1> /\ TypeOK /\ Lives /\ Names /\ Calls /\ Writers /\ Replacing /\ References /\ ~harmed
  BY DEF Inv
<1> USE NoneIsNoTask
<1>1. PICK e, t : e = caller[c].e /\ t = mem[e].task
  OBVIOUS
<1>2. /\ caller[c].pc = "joined" /\ caller[c].kind \in {"create", "open"} /\ linked[e] /\ ~retiring[e] /\ native[e].alive
      /\ caller[c].kind = "create" => recording[e] = "no"
      /\ guardian[e].pc = "watching" /\ t \in Tasks
      /\ UNCHANGED <<rec, origin, current, recovered, caller, keeper, mem, snap, recording, linked, retiring, guardian>>
      /\ UNCHANGED harmed /\ begun' = begun \cup {t}
  BY <1>1 DEF StartTurn, files, procs
<1>3. native' = [native EXCEPT ![e].task = t, ![e].turn = TRUE]
  BY <1>1 DEF StartTurn
<1>4. e \in Execs /\ Life(e) /\ Name(e) /\ Calling(c)
  BY <1>1, <1>2 DEF Calls, Calling, Lives, Names
<1>5. keeper[e] = "serving" /\ mem[e].phase = "ready"
  BY <1>2, <1>4, TypedAt DEF Life, Working, Serving
<1>6. TaskOf(e) = t /\ rec[e].phase # "none"
  BY <1>1, <1>2, <1>4, <1>5 DEF Name, Naming, Life, Phased
<1>7. Owned(t)
  <2>1. CASE caller[c].kind = "open"
    <3>1. caller[c].task # None
      BY <1>2, <1>4, <2>1 DEF Calling
    <3> QED BY <1>1, <1>2, <1>4, <1>6, <3>1 DEF Calling
  <2>2. CASE caller[c].kind = "create"
    <3>1. origin[t] = e
      BY <1>1, <1>2, <1>4, <2>2 DEF Calling
    <3> QED BY <1>4, <3>1 DEF Owned
  <2> QED BY <1>2, <2>1, <2>2
<1>8. /\ native'[e].task = t /\ native'[e].alive /\ native'[e].turn /\ \A f \in Execs : f # e => native'[f] = native[f]
      /\ native[e].task \in {None, t}
  BY <1>2, <1>3, <1>4, <1>6 DEF TypeOK, NativesTyped, TaskOf
<1>9. \A f \in Execs, u \in Tasks : New(f, u) => u # t /\ native[f].task # t
  BY <1>7 DEF New
<1>10. recording[e] \notin {"mutate", "save", "origin"}
  BY <1>2, <1>4, <1>7, <1>8 DEF References, New, Life, Working
<1>11. ASSUME NEW f \in Execs
       PROVE  Life(f)' /\ Name(f)' /\ TaskOf(f)' = TaskOf(f)
  <2>1. CASE f # e
    <3>1. Rests(f)
      BY <1>2, <1>8, <2>1 DEF Rests
    <3> QED BY <3>1, RestsKeeps DEF Lives, Names
  <2>2. CASE f = e
    <3>1. TaskOf(e)' = TaskOf(e)
      BY <1>2, <1>6, <1>8 DEF TaskOf
    <3>2. Life(e)'
      BY <1>2, <1>4, <1>5, <1>6, <1>8
        DEF Life, Unborn, Starting, Serving, Ending, Gone, Working, Guarding, Phased, Published, Ended
    <3>3. Name(e)'
      BY <1>2, <1>4, <1>8, <1>10, <3>1 DEF Name, Naming, Untouched
    <3> QED BY <2>2, <3>1, <3>2, <3>3
  <2> QED BY <2>1, <2>2
<1>12. Lives' /\ Names'
  BY <1>11 DEF Lives, Names
<1>13. /\ \A f \in Execs : Over(f)' <=> Over(f)
       /\ \A d \in Callers, f \in Execs, u \in Tasks : Allocates(d, f, u)' <=> Allocates(d, f, u)
       /\ \A d \in Callers : Allocation(d)' <=> Allocation(d)
  <2>1. ~Over(e)' /\ ~Over(e)
    BY <1>2, <1>8 DEF Over
  <2> QED BY <1>2, <1>8, <2>1 DEF Over, Allocates, Allocation
<1>14. \A u \in Tasks : Reference(u)' = Reference(u) /\ (Owned(u)' <=> Owned(u))
  BY <1>2 DEF Reference, Owned
<1>15. ASSUME NEW f \in Execs, NEW u \in Tasks, New(f, u) PROVE New(f, u)'
  BY <1>2, <1>8, <1>9, <1>14, <1>15 DEF New
<1>16. Reference(t) = e
  <2>1. ~Over(e)
    BY <1>2 DEF Over
  <2>2. \A d \in Callers : ~Allocates(d, e, t)
    BY <1>5 DEF Allocates, Calls, Calling
  <2> QED BY <1>2, <1>4, <1>6, <1>9, <2>1, <2>2 DEF Writers
<1>17. ASSUME NEW d \in Callers PROVE Calling(d)'
  <2>1. PICK x : x = caller[d]
    OBVIOUS
  <2>2. caller'[d] = x /\ Calling(d)
    BY <1>2, <2>1 DEF Calls
  <2>3. x.pc \in {"connect", "joined"} => x.e \in Execs /\ rec'[x.e].phase # "none" /\ TaskOf(x.e)' = TaskOf(x.e)
    BY <1>2, <1>11, <2>1, <2>2 DEF Calling
  <2>4. x.pc \in Allocating => x.e \in Execs /\ x.e # e
    BY <1>5, <2>1, <2>2 DEF Calling
  <2>5. x.pc = "joined" /\ x.kind = "create" /\ mem'[x.e].task # None /\ recording'[x.e] = "no" =>
          origin'[mem'[x.e].task] = x.e
    BY <1>2, <2>1, <2>2 DEF Calling
  <2> QED BY <1>2, <1>8, <1>14, <2>1, <2>2, <2>3, <2>4, <2>5, CallingKept
<1>18. Calls'
  <2>1. \A d \in Callers : caller'[d] = caller[d] /\ (Opening(d)' => Opening(d))
    BY <1>2 DEF Opening
  <2> QED BY <1>17, <2>1, PairsKept
<1>19. Writers'
  <2> SUFFICES ASSUME NEW f \in Execs, NEW u \in Tasks, TaskOf(f)' = u, ~Over(f)'
               PROVE  \/ Reference(u)' = f /\ Owned(u)'
                      \/ New(f, u)'
                      \/ \E d \in Callers : Allocates(d, f, u)'
    BY DEF Writers
  <2> QED BY <1>11, <1>13, <1>14, <1>15 DEF Writers
<1>20. Replacing'
  BY <1>2, <1>11, <1>13 DEF Replacing
<1>21. References'
  <2>1. ASSUME NEW f \in Execs, rec'[f].phase = "none"
        PROVE  /\ keeper'[f] = "none" /\ native'[f].task = None /\ rec'[f].task = None
               /\ \A u \in Tasks : f \notin {origin'[u], current'[u], recovered'[u]}
    BY <1>2, <1>6, <1>8, <2>1 DEF References
  <2>2. ASSUME NEW u \in Tasks
        PROVE  /\ recovered'[u] # None => current'[u] # None /\ (u \in begun' \/ origin'[u] # None)
               /\ current'[u] # None => Given(current[u], u)' /\ (u \in begun' \/ origin'[u] # None)
               /\ recovered'[u] # None => Given(recovered[u], u)'
               /\ origin'[u] # None => native'[origin'[u]].task = u
               /\ current'[u] = None /\ origin'[u] # None /\ u \in begun' => Given(origin[u], u)'
               /\ origin'[u] # None /\ keeper'[origin'[u]] = "serving" => Given(origin[u], u)'
    <3>1. \A f : Given(f, u)' <=> Given(f, u)
      BY <1>2 DEF Given
    <3>2. origin[u] \in Execs \cup {None}
      BY DEF TypeOK, FilesTyped
    <3>3. origin[u] # None => native'[origin[u]].task = u
      BY <1>8, <3>2 DEF References
    <3>4. current[t] = None /\ origin[t] # None => Given(origin[t], t)
      BY <1>2, <1>4, <1>5, <1>16 DEF Reference, References
    <3> QED BY <1>2, <3>1, <3>3, <3>4 DEF References
  <2>3. ASSUME NEW f \in Execs
        PROVE  /\ recording'[f] \in {"mutate", "save", "origin"} => New(f, native[f].task)'
               /\ recording'[f] = "origin" /\ keeper'[f] = "serving" => rec'[f].task = native'[f].task
               /\ recording'[f] = "bind" => origin'[native'[f].task] = f
    <3>1. CASE f = e
      <4>1. recording[e] = "bind" => native[e].task = t
        BY <1>4, <1>8 DEF Life, Working
      <4> QED BY <1>1, <1>2, <1>4, <1>8, <1>10, <3>1, <4>1 DEF References
    <3>2. CASE f # e
      <4>1. recording'[f] = recording[f] /\ native'[f] = native[f]
        BY <1>2, <1>8, <3>2
      <4>2. recording[f] # "no" => native[f].task \in Tasks
        BY TypedAt DEF Lives, Life, Working
      <4>3. recording[f] \in {"mutate", "save", "origin"} => New(f, native[f].task)'
        BY <1>15, <4>1, <4>2 DEF References, New
      <4> QED BY <1>2, <4>1, <4>3 DEF References
    <3> QED BY <3>1, <3>2
  <2> QED BY <2>1, <2>2, <2>3 DEF References
<1> QED BY <1>2, <1>12, <1>18, <1>19, <1>20, <1>21 DEF Orderly

-----------------------------------------------------------------------------
(* Types.                                                                   *)
Typed == FilesTyped /\ CallersTyped /\ KeepersTyped /\ NativesTyped

LEMMA RecordsTyped ==
  ASSUME NEW m \in [Execs -> Records], NEW e \in Execs
  PROVE  /\ [m EXCEPT ![e].native = TRUE] \in [Execs -> Records]
         /\ [m EXCEPT ![e].guardian = TRUE] \in [Execs -> Records]
         /\ \A p \in Phases : [m EXCEPT ![e].phase = p] \in [Execs -> Records]
         /\ \A p \in Phases, u \in BOOLEAN : [m EXCEPT ![e].phase = p, ![e].url = u] \in [Execs -> Records]
         /\ \A t \in Tasks \cup {None} : [m EXCEPT ![e].task = t] \in [Execs -> Records]
         /\ \A r \in Records : [m EXCEPT ![e] = r] \in [Execs -> Records]
<1>1. [m EXCEPT ![e].native = TRUE] \in [Execs -> Records] /\ [m EXCEPT ![e].guardian = TRUE] \in [Execs -> Records]
  BY DEF Records
<1>2. \A p \in Phases : [m EXCEPT ![e].phase = p] \in [Execs -> Records]
  BY DEF Records
<1>3. \A p \in Phases, u \in BOOLEAN : [m EXCEPT ![e].phase = p, ![e].url = u] \in [Execs -> Records]
  BY DEF Records
<1>4. \A t \in Tasks \cup {None} : [m EXCEPT ![e].task = t] \in [Execs -> Records]
  BY DEF Records
<1> QED BY <1>1, <1>2, <1>3, <1>4

Natives == [alive : BOOLEAN, task : Tasks \cup {None}, turn : BOOLEAN]
LEMMA NativeTyped ==
  ASSUME NEW n \in [Execs -> Natives], NEW e \in Execs
  PROVE  /\ [n EXCEPT ![e].alive = TRUE] \in [Execs -> Natives]
         /\ [n EXCEPT ![e].alive = FALSE, ![e].turn = FALSE] \in [Execs -> Natives]
         /\ [n EXCEPT ![e].turn = FALSE] \in [Execs -> Natives]
         /\ \A t \in Tasks : [n EXCEPT ![e].task = t] \in [Execs -> Natives]
         /\ \A t \in Tasks : [n EXCEPT ![e].task = t, ![e].turn = TRUE] \in [Execs -> Natives]
<1>1. [n EXCEPT ![e].alive = TRUE] \in [Execs -> Natives] /\ [n EXCEPT ![e].turn = FALSE] \in [Execs -> Natives]
  BY DEF Natives
<1>2. [n EXCEPT ![e].alive = FALSE, ![e].turn = FALSE] \in [Execs -> Natives]
  BY DEF Natives
<1>3. \A t \in Tasks : [n EXCEPT ![e].task = t] \in [Execs -> Natives]
  BY DEF Natives
<1>4. \A t \in Tasks : [n EXCEPT ![e].task = t, ![e].turn = TRUE] \in [Execs -> Natives]
  BY DEF Natives
<1> QED BY <1>1, <1>2, <1>3, <1>4

CallRecords ==
  [pc : {"idle", "existing", "allocate", "connect", "joined"} \cup Allocating, kind : {"create", "open", "follow"},
   task : Tasks \cup {None}, idle : BOOLEAN, e : Execs \cup {None}]
LEMMA CallTyped ==
  ASSUME NEW k \in [Callers -> CallRecords], NEW c \in Callers
  PROVE  /\ NoCall \in CallRecords
         /\ \A p \in {"allocate", "connect", "joined"} \cup Allocating : [k EXCEPT ![c].pc = p] \in [Callers -> CallRecords]
         /\ \A p \in {"allocate", "connect", "joined"} \cup Allocating, e \in Execs \cup {None} :
              [k EXCEPT ![c].pc = p, ![c].e = e] \in [Callers -> CallRecords]
         /\ \A r \in CallRecords : [k EXCEPT ![c] = r] \in [Callers -> CallRecords]
<1>1. NoCall \in CallRecords
  BY DEF NoCall, CallRecords
<1>2. \A p \in {"allocate", "connect", "joined"} \cup Allocating : [k EXCEPT ![c].pc = p] \in [Callers -> CallRecords]
  BY DEF CallRecords
<1>3. \A p \in {"allocate", "connect", "joined"} \cup Allocating, e \in Execs \cup {None} :
        [k EXCEPT ![c].pc = p, ![c].e = e] \in [Callers -> CallRecords]
  BY DEF CallRecords
<1> QED BY <1>1, <1>2, <1>3

LEMMA OpenTyped == ASSUME Inv, NEW c \in Callers, Open(c) PROVE Typed'
<1> USE NoneIsNoTask
<1> TypeOK
  BY DEF Inv
<1>1. KeepersTyped'
  BY DEF Open, NoCall, procs, KeepersTyped, TypeOK
<1>2. NativesTyped'
  BY DEF Open, NoCall, NativesTyped, TypeOK
<1>3. FilesTyped'
  BY DEF Open, NoCall, files, FilesTyped, TypeOK
<1>4. caller \in [Callers -> CallRecords]
  BY DEF TypeOK, CallersTyped, CallRecords
<1>5. caller' \in [Callers -> CallRecords]
  <2>1. /\ [NoCall EXCEPT !.pc = "allocate", !.kind = "create"] \in CallRecords
        /\ \A t \in Tasks, x \in {"open", "follow"}, i \in BOOLEAN :
             [NoCall EXCEPT !.pc = "existing", !.kind = x, !.task = t, !.idle = i] \in CallRecords
    BY DEF NoCall, CallRecords
  <2>2. \E r \in CallRecords : caller' = [caller EXCEPT ![c] = r]
    BY <2>1 DEF Open
  <2> QED BY <1>4, <2>2, CallTyped
<1>6. CallersTyped'
  BY <1>5 DEF Open, history, CallersTyped, TypeOK, CallRecords
<1> QED BY <1>1, <1>2, <1>3, <1>6 DEF Typed

LEMMA ExistingTyped == ASSUME Inv, NEW c \in Callers, Existing(c) PROVE Typed'
<1> USE NoneIsNoTask
<1> TypeOK
  BY DEF Inv
<1>1. KeepersTyped'
  BY DEF Existing, NoCall, procs, KeepersTyped, TypeOK
<1>2. NativesTyped'
  BY DEF Existing, NoCall, NativesTyped, TypeOK
<1>3. FilesTyped'
  BY DEF Existing, NoCall, files, FilesTyped, TypeOK
<1>4. CallersTyped'
  <2>1. caller[c].task \in Tasks
    BY DEF Existing, Inv, Calls, Calling, TypeOK, CallersTyped
  <2>2. PICK e : e = Reference(caller[c].task)
    OBVIOUS
  <2>3. e \in Execs \cup {None}
    BY <2>1, <2>2 DEF Reference, TypeOK, FilesTyped
  <2>6. caller \in [Callers -> CallRecords]
    BY DEF TypeOK, CallersTyped, CallRecords
  <2>7. caller' \in [Callers -> CallRecords]
    <3>1. CASE caller' = [caller EXCEPT ![c] = NoCall]
      BY <2>6, <3>1, CallTyped
    <3>2. CASE caller' = [caller EXCEPT ![c] = [@ EXCEPT !.pc = "allocate"]]
      BY <2>6, <3>2, CallTyped
    <3>3. CASE caller' = [caller EXCEPT ![c] = [@ EXCEPT !.pc = "connect", !.e = e]]
      <4>1. [caller[c] EXCEPT !.pc = "connect", !.e = e] \in CallRecords
        BY <2>3, <2>6 DEF CallRecords
      <4> QED BY <2>6, <3>3, <4>1, CallTyped
    <3> QED BY <2>2, <3>1, <3>2, <3>3 DEF Existing
  <2>5. UNCHANGED <<gen, faults, begun, harmed>>
    BY DEF Existing, history
  <2> QED BY <2>5, <2>7 DEF CallersTyped, CallRecords, TypeOK
<1> QED BY <1>1, <1>2, <1>3, <1>4 DEF Typed

LEMMA AllocateTyped == ASSUME Inv, NEW c \in Callers, Allocate(c) PROVE Typed'
<1> USE NoneIsNoTask
<1> TypeOK
  BY DEF Inv
<1>1. KeepersTyped'
  BY DEF Allocate, NoCall, procs, KeepersTyped, TypeOK
<1>2. NativesTyped'
  BY DEF Allocate, NoCall, NativesTyped, TypeOK
<1>3. FilesTyped'
  BY DEF Allocate, NoCall, files, FilesTyped, TypeOK
<1>4. caller \in [Callers -> CallRecords]
  BY DEF TypeOK, CallersTyped, CallRecords
<1>5. caller' \in [Callers -> CallRecords]
  <2>1. CASE caller' = [caller EXCEPT ![c] = NoCall]
    BY <1>4, <2>1, CallTyped
  <2>2. ASSUME NEW e \in Execs, caller' = [caller EXCEPT ![c].pc = "state", ![c].e = e]
        PROVE  caller' \in [Callers -> CallRecords]
    BY <1>4, <2>2, CallTyped DEF Allocating
  <2> QED BY <2>1, <2>2 DEF Allocate
<1>6. CallersTyped'
  BY <1>5 DEF Allocate, history, CallersTyped, TypeOK, CallRecords
<1> QED BY <1>1, <1>2, <1>3, <1>6 DEF Typed

LEMMA SaveStartingTyped == ASSUME Inv, NEW c \in Callers, SaveStarting(c) PROVE Typed'
<1> USE NoneIsNoTask
<1> TypeOK
  BY DEF Inv
<1>1. KeepersTyped'
  BY DEF SaveStarting, Record, procs, KeepersTyped, TypeOK
<1>2. NativesTyped'
  BY DEF SaveStarting, Record, NativesTyped, TypeOK
<1>3. FilesTyped'
  BY DEF SaveStarting, Record, files, FilesTyped, TypeOK, KeepersTyped, CallersTyped, NativesTyped, Records, Phases
<1>4. caller \in [Callers -> CallRecords]
  BY DEF TypeOK, CallersTyped, CallRecords
<1>5. caller' \in [Callers -> CallRecords]
  BY <1>4, CallTyped DEF SaveStarting, Allocating
<1>6. CallersTyped'
  BY <1>5 DEF SaveStarting, Record, history, CallersTyped, TypeOK, CallRecords
<1> QED BY <1>1, <1>2, <1>3, <1>6 DEF Typed

LEMMA SaveCurrentTyped == ASSUME Inv, NEW c \in Callers, SaveCurrent(c) PROVE Typed'
<1> USE NoneIsNoTask
<1> TypeOK
  BY DEF Inv
<1>1. KeepersTyped'
  BY DEF SaveCurrent, procs, KeepersTyped, TypeOK
<1>2. NativesTyped'
  BY DEF SaveCurrent, NativesTyped, TypeOK
<1>3. FilesTyped'
  BY DEF SaveCurrent, files, FilesTyped, TypeOK, KeepersTyped, CallersTyped, NativesTyped, Records, Phases
<1>4. caller \in [Callers -> CallRecords]
  BY DEF TypeOK, CallersTyped, CallRecords
<1>5. caller' \in [Callers -> CallRecords]
  BY <1>4, CallTyped DEF SaveCurrent, Allocating
<1>6. CallersTyped'
  BY <1>5 DEF SaveCurrent, history, CallersTyped, TypeOK, CallRecords
<1> QED BY <1>1, <1>2, <1>3, <1>6 DEF Typed

LEMMA SaveRecoveredTyped == ASSUME Inv, NEW c \in Callers, SaveRecovered(c) PROVE Typed'
<1> USE NoneIsNoTask
<1> TypeOK
  BY DEF Inv
<1>1. KeepersTyped'
  BY DEF SaveRecovered, procs, KeepersTyped, TypeOK
<1>2. NativesTyped'
  BY DEF SaveRecovered, NativesTyped, TypeOK
<1>3. FilesTyped'
  BY DEF SaveRecovered, files, FilesTyped, TypeOK, KeepersTyped, CallersTyped, NativesTyped, Records, Phases
<1>4. caller \in [Callers -> CallRecords]
  BY DEF TypeOK, CallersTyped, CallRecords
<1>5. caller' \in [Callers -> CallRecords]
  BY <1>4, CallTyped DEF SaveRecovered, Allocating
<1>6. CallersTyped'
  BY <1>5 DEF SaveRecovered, history, CallersTyped, TypeOK, CallRecords
<1> QED BY <1>1, <1>2, <1>3, <1>6 DEF Typed

LEMMA AllocationFailsTyped == ASSUME Inv, NEW c \in Callers, AllocationFails(c) PROVE Typed'
<1> USE NoneIsNoTask
<1> TypeOK
  BY DEF Inv
<1>1. KeepersTyped'
  BY DEF AllocationFails, Record, NoCall, Fault, procs, KeepersTyped, TypeOK
<1>2. NativesTyped'
  BY DEF AllocationFails, Record, NoCall, Fault, NativesTyped, TypeOK
<1>3. FilesTyped'
  BY
      DEF AllocationFails, Record, NoCall, Fault, files, FilesTyped, TypeOK, KeepersTyped, CallersTyped,
          NativesTyped, Records, Phases
<1>4. caller \in [Callers -> CallRecords]
  BY DEF TypeOK, CallersTyped, CallRecords
<1>5. caller' \in [Callers -> CallRecords]
  BY <1>4, CallTyped DEF AllocationFails, Allocating
<1>6. CallersTyped'
  BY <1>5, ExecutorsAssumption DEF AllocationFails, Record, Fault, history, CallersTyped, TypeOK, CallRecords
<1> QED BY <1>1, <1>2, <1>3, <1>6 DEF Typed

LEMMA LaunchTyped == ASSUME Inv, NEW c \in Callers, Launch(c) PROVE Typed'
<1> USE NoneIsNoTask
<1> TypeOK
  BY DEF Inv
<1>1. KeepersTyped'
  BY DEF Launch, procs, KeepersTyped, TypeOK
<1>2. NativesTyped'
  BY DEF Launch, NativesTyped, TypeOK
<1>3. FilesTyped'
  BY DEF Launch, files, FilesTyped, TypeOK
<1>4. caller \in [Callers -> CallRecords]
  BY DEF TypeOK, CallersTyped, CallRecords
<1>5. caller' \in [Callers -> CallRecords]
  BY <1>4, CallTyped DEF Launch, Allocating
<1>6. CallersTyped'
  BY <1>5 DEF Launch, history, CallersTyped, TypeOK, CallRecords
<1> QED BY <1>1, <1>2, <1>3, <1>6 DEF Typed

LEMMA ConnectTyped == ASSUME Inv, NEW c \in Callers, Connect(c) PROVE Typed'
<1> USE NoneIsNoTask
<1> TypeOK
  BY DEF Inv
<1>1. KeepersTyped'
  BY DEF Connect, NoCall, procs, KeepersTyped, TypeOK
<1>2. NativesTyped'
  BY DEF Connect, NoCall, NativesTyped, TypeOK
<1>3. FilesTyped'
  BY DEF Connect, NoCall, files, FilesTyped, TypeOK
<1>4. caller \in [Callers -> CallRecords]
  BY DEF TypeOK, CallersTyped, CallRecords
<1>5. caller' \in [Callers -> CallRecords]
  <2>0. caller \in [Callers -> CallRecords]
    BY DEF TypeOK, KeepersTyped, NativesTyped, CallersTyped, Natives, CallRecords
  <2>1. \/ caller' = [caller EXCEPT ![c] = NoCall]
        \/ caller' = [caller EXCEPT ![c].pc = "joined"]
    BY DEF Connect
  <2>2. CASE caller' = [caller EXCEPT ![c] = NoCall]
    BY <2>0, <2>2, CallTyped DEF Phases, Allocating
  <2>3. CASE caller' = [caller EXCEPT ![c].pc = "joined"]
    BY <2>0, <2>3, CallTyped DEF Phases, Allocating
  <2> QED BY <2>1, <2>2, <2>3
<1>6. CallersTyped'
  BY <1>5 DEF Connect, history, CallersTyped, TypeOK, CallRecords
<1> QED BY <1>1, <1>2, <1>3, <1>6 DEF Typed

LEMMA LeaveTyped == ASSUME Inv, NEW c \in Callers, Leave(c) PROVE Typed'
<1> USE NoneIsNoTask
<1> TypeOK
  BY DEF Inv
<1>1. KeepersTyped'
  BY DEF Leave, NoCall, procs, KeepersTyped, TypeOK
<1>2. NativesTyped'
  BY DEF Leave, NoCall, NativesTyped, TypeOK
<1>3. FilesTyped'
  BY DEF Leave, NoCall, files, FilesTyped, TypeOK
<1>4. caller \in [Callers -> CallRecords]
  BY DEF TypeOK, CallersTyped, CallRecords
<1>5. caller' \in [Callers -> CallRecords]
  BY <1>4, CallTyped DEF Leave, Allocating
<1>6. CallersTyped'
  BY <1>5 DEF Leave, history, CallersTyped, TypeOK, CallRecords
<1> QED BY <1>1, <1>2, <1>3, <1>6 DEF Typed

LEMMA CreateTaskTyped == ASSUME Inv, NEW c \in Callers, CreateTask(c) PROVE Typed'
<1> USE NoneIsNoTask
<1> TypeOK
  BY DEF Inv
<1>1. KeepersTyped'
  BY DEF CreateTask, procs, KeepersTyped, TypeOK
<1>2. native \in [Execs -> Natives] /\ caller[c].e \in Execs
  BY DEF TypeOK, NativesTyped, Natives, CreateTask, Inv, Calls, Calling
<1>3. PICK t \in Tasks : native' = [native EXCEPT ![caller[c].e].task = t]
  BY DEF CreateTask
<1>4. native' \in [Execs -> Natives]
  BY <1>2, <1>3, NativeTyped
<1>5. NativesTyped'
  BY <1>4 DEF CreateTask, NativesTyped, TypeOK, Natives
<1>6. FilesTyped'
  BY DEF CreateTask, files, FilesTyped, TypeOK
<1>7. CallersTyped'
  BY DEF CreateTask, history, CallersTyped, TypeOK, Allocating
<1> QED BY <1>1, <1>5, <1>6, <1>7 DEF Typed

LEMMA StartTurnTyped == ASSUME Inv, NEW c \in Callers, StartTurn(c) PROVE Typed'
<1> USE NoneIsNoTask
<1> TypeOK
  BY DEF Inv
<1>1. KeepersTyped'
  BY DEF StartTurn, procs, KeepersTyped, TypeOK
<1>2. native \in [Execs -> Natives] /\ caller[c].e \in Execs
  BY DEF TypeOK, NativesTyped, Natives, StartTurn, Inv, Calls, Calling
<1>3. PICK t \in Tasks : native' = [native EXCEPT ![caller[c].e].task = t, ![caller[c].e].turn = TRUE]
  BY DEF StartTurn
<1>4. native' \in [Execs -> Natives]
  BY <1>2, <1>3, NativeTyped
<1>5. NativesTyped'
  BY <1>4 DEF StartTurn, NativesTyped, TypeOK, Natives
<1>6. FilesTyped'
  BY DEF StartTurn, files, FilesTyped, TypeOK
<1>7. CallersTyped'
  BY DEF StartTurn, history, CallersTyped, TypeOK, Allocating, KeepersTyped, Records
<1> QED BY <1>1, <1>5, <1>6, <1>7 DEF Typed

LEMMA KeeperClaimsTyped == ASSUME Inv, NEW e \in Execs, KeeperClaims(e) PROVE Typed'
<1> USE NoneIsNoTask
<1> TypeOK
  BY DEF Inv
<1>1. mem' \in [Execs -> Records]
  BY RecordsTyped DEF KeeperClaims, Record, Save, TypeOK, KeepersTyped, Phases, FilesTyped, NativesTyped, Records
<1>2. KeepersTyped'
  BY <1>1 DEF KeeperClaims, Record, Save, procs, KeepersTyped, TypeOK
<1>3. NativesTyped'
  BY DEF KeeperClaims, Record, Save, NativesTyped, TypeOK
<1>4. FilesTyped'
  BY <1>1 DEF KeeperClaims, Record, Save, files, FilesTyped, TypeOK
<1>5. CallersTyped'
  BY DEF KeeperClaims, Record, Save, history, CallersTyped, TypeOK
<1> QED BY <1>2, <1>3, <1>4, <1>5 DEF Typed

LEMMA KeeperSpawnsTyped == ASSUME Inv, NEW e \in Execs, KeeperSpawns(e) PROVE Typed'
<1> USE NoneIsNoTask
<1> TypeOK
  BY DEF Inv
<1>1. KeepersTyped'
  BY DEF KeeperSpawns, procs, KeepersTyped, TypeOK
<1>2. NativesTyped'
  BY NativeTyped DEF KeeperSpawns, NativesTyped, TypeOK, Natives
<1>3. FilesTyped'
  BY DEF KeeperSpawns, files, FilesTyped, TypeOK
<1>4. CallersTyped'
  BY DEF KeeperSpawns, history, CallersTyped, TypeOK
<1> QED BY <1>1, <1>2, <1>3, <1>4 DEF Typed

LEMMA KeeperRecordsNativeTyped == ASSUME Inv, NEW e \in Execs, KeeperRecordsNative(e) PROVE Typed'
<1> USE NoneIsNoTask
<1> TypeOK
  BY DEF Inv
<1>1. mem' \in [Execs -> Records]
  BY RecordsTyped DEF KeeperRecordsNative, Fault, Save, KeeperDies, EndNative, TypeOK, KeepersTyped, Phases
<1>2. KeepersTyped'
  BY <1>1 DEF KeeperRecordsNative, Fault, Save, KeeperDies, EndNative, procs, KeepersTyped, TypeOK
<1>3. native' \in [Execs -> Natives]
  <2>0. native \in [Execs -> Natives]
    BY DEF TypeOK, KeepersTyped, NativesTyped, CallersTyped, Natives, CallRecords
  <2>1. \/ native' = native
        \/ native' = [native EXCEPT ![e].alive = FALSE, ![e].turn = FALSE]
    BY DEF KeeperRecordsNative, Fault, Save, KeeperDies, EndNative
  <2>2. CASE native' = native
    BY <2>0, <2>2
  <2>3. CASE native' = [native EXCEPT ![e].alive = FALSE, ![e].turn = FALSE]
    BY <2>0, <2>3, NativeTyped DEF Phases, Allocating
  <2> QED BY <2>1, <2>2, <2>3
<1>4. guardian' \in [Execs -> [pc : {"none", "watching", "releasing", "saving", "dead"}, task : Tasks \cup {None}]]
  BY DEF KeeperRecordsNative, TypeOK, NativesTyped
<1>5. NativesTyped'
  BY <1>3, <1>4 DEF NativesTyped, Natives
<1>6. FilesTyped'
  BY <1>1 DEF KeeperRecordsNative, Fault, Save, KeeperDies, EndNative, files, FilesTyped, TypeOK
<1>7. CallersTyped'
  BY ExecutorsAssumption
      DEF KeeperRecordsNative, Fault, Save, KeeperDies, EndNative, history, CallersTyped, TypeOK, NativesTyped
<1> QED BY <1>2, <1>5, <1>6, <1>7 DEF Typed

LEMMA KeeperGuardsTyped == ASSUME Inv, NEW e \in Execs, KeeperGuards(e) PROVE Typed'
<1> USE NoneIsNoTask
<1> TypeOK
  BY DEF Inv
<1>1. mem' \in [Execs -> Records]
  <2>0. mem \in [Execs -> Records]
    BY DEF TypeOK, KeepersTyped, NativesTyped, CallersTyped, Natives, CallRecords
  <2>1. \/ mem' = [mem EXCEPT ![e].guardian = TRUE]
        \/ mem' = [mem EXCEPT ![e].phase = "exited"]
    BY DEF KeeperGuards, Fault, Save, KeeperDies, EndNative, StartNativeGuardian
  <2>2. CASE mem' = [mem EXCEPT ![e].guardian = TRUE]
    BY <2>0, <2>2, RecordsTyped DEF Phases, Allocating
  <2>3. CASE mem' = [mem EXCEPT ![e].phase = "exited"]
    BY <2>0, <2>3, RecordsTyped DEF Phases, Allocating
  <2> QED BY <2>1, <2>2, <2>3
<1>2. KeepersTyped'
  BY <1>1 DEF KeeperGuards, Fault, Save, KeeperDies, EndNative, StartNativeGuardian, procs, KeepersTyped, TypeOK
<1>3. native' \in [Execs -> Natives]
  <2>0. native \in [Execs -> Natives]
    BY DEF TypeOK, KeepersTyped, NativesTyped, CallersTyped, Natives, CallRecords
  <2>1. \/ native' = native
        \/ native' = [native EXCEPT ![e].alive = FALSE, ![e].turn = FALSE]
    BY DEF KeeperGuards, Fault, Save, KeeperDies, EndNative, StartNativeGuardian
  <2>2. CASE native' = native
    BY <2>0, <2>2
  <2>3. CASE native' = [native EXCEPT ![e].alive = FALSE, ![e].turn = FALSE]
    BY <2>0, <2>3, NativeTyped DEF Phases, Allocating
  <2> QED BY <2>1, <2>2, <2>3
<1>4. guardian' \in [Execs -> [pc : {"none", "watching", "releasing", "saving", "dead"}, task : Tasks \cup {None}]]
  <2>1. CASE StartNativeGuardian(e)
    BY <2>1 DEF StartNativeGuardian, TypeOK, NativesTyped, FilesTyped, Records
  <2>2. CASE UNCHANGED guardian
    BY <2>2 DEF TypeOK, NativesTyped
  <2> QED BY <2>1, <2>2 DEF KeeperGuards
<1>5. NativesTyped'
  BY <1>3, <1>4 DEF NativesTyped, Natives
<1>6. FilesTyped'
  BY <1>1 DEF KeeperGuards, Fault, Save, KeeperDies, EndNative, StartNativeGuardian, files, FilesTyped, TypeOK
<1>7. CallersTyped'
  BY ExecutorsAssumption
      DEF KeeperGuards, Fault, Save, KeeperDies, EndNative, StartNativeGuardian, history, CallersTyped, TypeOK,
          NativesTyped
<1> QED BY <1>2, <1>5, <1>6, <1>7 DEF Typed

LEMMA PublishTyped == ASSUME Inv, NEW e \in Execs, Publish(e) PROVE Typed'
<1> USE NoneIsNoTask
<1> TypeOK
  BY DEF Inv
<1>1. mem' \in [Execs -> Records]
  BY RecordsTyped DEF Publish, Save, TypeOK, KeepersTyped, Phases
<1>2. KeepersTyped'
  BY <1>1 DEF Publish, Save, procs, KeepersTyped, TypeOK
<1>3. NativesTyped'
  BY DEF Publish, Save, NativesTyped, TypeOK
<1>4. FilesTyped'
  BY <1>1 DEF Publish, Save, files, FilesTyped, TypeOK
<1>5. CallersTyped'
  BY DEF Publish, Save, history, CallersTyped, TypeOK
<1> QED BY <1>2, <1>3, <1>4, <1>5 DEF Typed

LEMMA AttemptFailsTyped == ASSUME Inv, NEW e \in Execs, AttemptFails(e) PROVE Typed'
<1> USE NoneIsNoTask
<1> TypeOK
  BY DEF Inv
<1>1. mem' \in [Execs -> Records]
  <2>0. mem \in [Execs -> Records]
    BY DEF TypeOK, KeepersTyped, NativesTyped, CallersTyped, Natives, CallRecords
  <2>1. \/ mem' = mem
        \/ mem' = [mem EXCEPT ![e].phase = "disconnected", ![e].url = FALSE]
    BY DEF AttemptFails, Fault, Save, KeeperDies, EndNative
  <2>2. CASE mem' = mem
    BY <2>0, <2>2
  <2>3. CASE mem' = [mem EXCEPT ![e].phase = "disconnected", ![e].url = FALSE]
    BY <2>0, <2>3, RecordsTyped DEF Phases, Allocating
  <2> QED BY <2>1, <2>2, <2>3
<1>2. KeepersTyped'
  BY <1>1 DEF AttemptFails, Fault, Save, KeeperDies, EndNative, procs, KeepersTyped, TypeOK
<1>3. native' \in [Execs -> Natives]
  <2>0. native \in [Execs -> Natives]
    BY DEF TypeOK, KeepersTyped, NativesTyped, CallersTyped, Natives, CallRecords
  <2>1. \/ native' = native
        \/ native' = [native EXCEPT ![e].alive = FALSE, ![e].turn = FALSE]
    BY DEF AttemptFails, Fault, Save, KeeperDies, EndNative
  <2>2. CASE native' = native
    BY <2>0, <2>2
  <2>3. CASE native' = [native EXCEPT ![e].alive = FALSE, ![e].turn = FALSE]
    BY <2>0, <2>3, NativeTyped DEF Phases, Allocating
  <2> QED BY <2>1, <2>2, <2>3
<1>4. guardian' \in [Execs -> [pc : {"none", "watching", "releasing", "saving", "dead"}, task : Tasks \cup {None}]]
  BY DEF AttemptFails, TypeOK, NativesTyped
<1>5. NativesTyped'
  BY <1>3, <1>4 DEF NativesTyped, Natives
<1>6. FilesTyped'
  BY <1>1 DEF AttemptFails, Fault, Save, KeeperDies, EndNative, files, FilesTyped, TypeOK
<1>7. CallersTyped'
  BY ExecutorsAssumption
      DEF AttemptFails, Fault, Save, KeeperDies, EndNative, history, CallersTyped, TypeOK, NativesTyped
<1> QED BY <1>2, <1>5, <1>6, <1>7 DEF Typed

LEMMA LinkBreaksTyped == ASSUME Inv, NEW e \in Execs, LinkBreaks(e) PROVE Typed'
<1> USE NoneIsNoTask
<1> TypeOK
  BY DEF Inv
<1>1. mem' \in [Execs -> Records]
  <2>0. mem \in [Execs -> Records]
    BY DEF TypeOK, KeepersTyped, NativesTyped, CallersTyped, Natives, CallRecords
  <2>1. mem' = mem
    BY DEF LinkBreaks, NoCall, Fault, Save, ClosedHandler, SetClosedHandler
  <2> QED BY <2>0, <2>1, RecordsTyped
<1>2. KeepersTyped'
  BY <1>1 DEF LinkBreaks, NoCall, Fault, Save, ClosedHandler, SetClosedHandler, procs, KeepersTyped, TypeOK
<1>3. NativesTyped'
  BY DEF LinkBreaks, NoCall, Fault, Save, ClosedHandler, SetClosedHandler, NativesTyped, TypeOK
<1>4. FilesTyped'
  BY <1>1 DEF LinkBreaks, NoCall, Fault, Save, ClosedHandler, SetClosedHandler, files, FilesTyped, TypeOK
<1>5. CallersTyped'
  BY ExecutorsAssumption
      DEF LinkBreaks, NoCall, Fault, Save, ClosedHandler, SetClosedHandler, history, CallersTyped, TypeOK
<1> QED BY <1>2, <1>3, <1>4, <1>5 DEF Typed

LEMMA RetireTyped == ASSUME Inv, NEW e \in Execs, Retire(e) PROVE Typed'
<1> USE NoneIsNoTask
<1> TypeOK
  BY DEF Inv
<1>1. KeepersTyped'
  BY DEF Retire, NoCall, procs, KeepersTyped, TypeOK
<1>2. NativesTyped'
  BY DEF Retire, NoCall, NativesTyped, TypeOK
<1>3. FilesTyped'
  BY DEF Retire, NoCall, files, FilesTyped, TypeOK
<1>4. CallersTyped'
  BY DEF Retire, NoCall, history, CallersTyped, TypeOK
<1> QED BY <1>1, <1>2, <1>3, <1>4 DEF Typed

LEMMA KeeperReleasesTyped == ASSUME Inv, NEW e \in Execs, KeeperReleases(e) PROVE Typed'
<1> USE NoneIsNoTask
<1> TypeOK
  BY DEF Inv
<1>1. KeepersTyped'
  BY DEF KeeperReleases, EndNative, procs, KeepersTyped, TypeOK
<1>2. NativesTyped'
  BY NativeTyped DEF KeeperReleases, EndNative, NativesTyped, TypeOK, Natives
<1>3. FilesTyped'
  BY DEF KeeperReleases, EndNative, files, FilesTyped, TypeOK
<1>4. CallersTyped'
  BY DEF KeeperReleases, EndNative, history, CallersTyped, TypeOK, NativesTyped
<1> QED BY <1>1, <1>2, <1>3, <1>4 DEF Typed

LEMMA KeeperEndsTyped == ASSUME Inv, NEW e \in Execs, KeeperEnds(e) PROVE Typed'
<1> USE NoneIsNoTask
<1> TypeOK
  BY DEF Inv
<1>1. mem' \in [Execs -> Records]
  BY RecordsTyped DEF KeeperEnds, TypeOK, KeepersTyped, Phases
<1>2. KeepersTyped'
  BY <1>1 DEF KeeperEnds, procs, KeepersTyped, TypeOK
<1>3. NativesTyped'
  BY DEF KeeperEnds, NativesTyped, TypeOK
<1>4. FilesTyped'
  BY DEF KeeperEnds, files, FilesTyped, TypeOK
<1>5. CallersTyped'
  BY DEF KeeperEnds, history, CallersTyped, TypeOK
<1> QED BY <1>2, <1>3, <1>4, <1>5 DEF Typed

LEMMA KeeperSavesEndTyped == ASSUME Inv, NEW e \in Execs, KeeperSavesEnd(e) PROVE Typed'
<1> USE NoneIsNoTask
<1> TypeOK
  BY DEF Inv
<1>1. KeepersTyped'
  BY DEF KeeperSavesEnd, Save, procs, KeepersTyped, TypeOK
<1>2. NativesTyped'
  BY DEF KeeperSavesEnd, Save, NativesTyped, TypeOK
<1>3. FilesTyped'
  BY DEF KeeperSavesEnd, Save, files, FilesTyped, TypeOK, KeepersTyped, CallersTyped, NativesTyped, Records, Phases
<1>4. CallersTyped'
  BY DEF KeeperSavesEnd, Save, history, CallersTyped, TypeOK
<1> QED BY <1>1, <1>2, <1>3, <1>4 DEF Typed

LEMMA KeeperExitsTyped == ASSUME Inv, NEW e \in Execs, KeeperExits(e) PROVE Typed'
<1> USE NoneIsNoTask
<1> TypeOK
  BY DEF Inv
<1>1. KeepersTyped'
  BY DEF KeeperExits, NoCall, Fault, KeeperDies, procs, KeepersTyped, TypeOK
<1>2. NativesTyped'
  BY DEF KeeperExits, NoCall, Fault, KeeperDies, NativesTyped, TypeOK
<1>3. FilesTyped'
  BY DEF KeeperExits, NoCall, Fault, KeeperDies, files, FilesTyped, TypeOK
<1>4. CallersTyped'
  BY ExecutorsAssumption DEF KeeperExits, NoCall, Fault, KeeperDies, history, CallersTyped, TypeOK
<1> QED BY <1>1, <1>2, <1>3, <1>4 DEF Typed

LEMMA RecordMutatesTyped == ASSUME Inv, NEW e \in Execs, RecordMutates(e) PROVE Typed'
<1> USE NoneIsNoTask
<1> TypeOK
  BY DEF Inv
<1>1. mem' \in [Execs -> Records]
  BY RecordsTyped DEF RecordMutates, TypeOK, KeepersTyped, Phases, FilesTyped, NativesTyped, Records
<1>2. KeepersTyped'
  BY <1>1 DEF RecordMutates, procs, KeepersTyped, TypeOK
<1>3. NativesTyped'
  BY DEF RecordMutates, NativesTyped, TypeOK
<1>4. FilesTyped'
  BY DEF RecordMutates, files, FilesTyped, TypeOK
<1>5. CallersTyped'
  BY DEF RecordMutates, history, CallersTyped, TypeOK
<1> QED BY <1>2, <1>3, <1>4, <1>5 DEF Typed

LEMMA RecordSavesTyped == ASSUME Inv, NEW e \in Execs, RecordSaves(e) PROVE Typed'
<1> USE NoneIsNoTask
<1> TypeOK
  BY DEF Inv
<1>1. KeepersTyped'
  BY DEF RecordSaves, Save, procs, KeepersTyped, TypeOK
<1>2. NativesTyped'
  BY DEF RecordSaves, Save, NativesTyped, TypeOK
<1>3. FilesTyped'
  BY DEF RecordSaves, Save, files, FilesTyped, TypeOK, KeepersTyped, CallersTyped, NativesTyped, Records, Phases
<1>4. CallersTyped'
  BY DEF RecordSaves, Save, history, CallersTyped, TypeOK
<1> QED BY <1>1, <1>2, <1>3, <1>4 DEF Typed

LEMMA RecordBindsTyped == ASSUME Inv, NEW e \in Execs, RecordBinds(e) PROVE Typed'
<1> USE NoneIsNoTask
<1> TypeOK
  BY DEF Inv
<1>1. KeepersTyped'
  BY DEF RecordBinds, procs, KeepersTyped, TypeOK
<1>2. NativesTyped'
  BY DEF RecordBinds, NativesTyped, TypeOK
<1>3. FilesTyped'
  BY DEF RecordBinds, files, FilesTyped, TypeOK
<1>4. CallersTyped'
  BY DEF RecordBinds, history, CallersTyped, TypeOK
<1> QED BY <1>1, <1>2, <1>3, <1>4 DEF Typed

LEMMA RecordFailsTyped == ASSUME Inv, NEW e \in Execs, RecordFails(e) PROVE Typed'
<1> USE NoneIsNoTask
<1> TypeOK
  BY DEF Inv
<1>1. KeepersTyped'
  BY DEF RecordFails, NoCall, Fault, procs, KeepersTyped, TypeOK
<1>2. NativesTyped'
  BY DEF RecordFails, NoCall, Fault, NativesTyped, TypeOK
<1>3. FilesTyped'
  BY DEF RecordFails, NoCall, Fault, files, FilesTyped, TypeOK
<1>4. CallersTyped'
  BY ExecutorsAssumption DEF RecordFails, NoCall, Fault, history, CallersTyped, TypeOK
<1> QED BY <1>1, <1>2, <1>3, <1>4 DEF Typed

LEMMA TurnEndsTyped == ASSUME Inv, NEW e \in Execs, TurnEnds(e) PROVE Typed'
<1> USE NoneIsNoTask
<1> TypeOK
  BY DEF Inv
<1>1. KeepersTyped'
  BY DEF TurnEnds, procs, KeepersTyped, TypeOK
<1>2. NativesTyped'
  BY NativeTyped DEF TurnEnds, NativesTyped, TypeOK, Natives
<1>3. FilesTyped'
  BY DEF TurnEnds, files, FilesTyped, TypeOK
<1>4. CallersTyped'
  BY DEF TurnEnds, history, CallersTyped, TypeOK
<1> QED BY <1>1, <1>2, <1>3, <1>4 DEF Typed

LEMMA NativeDiesTyped == ASSUME Inv, NEW e \in Execs, NativeDies(e) PROVE Typed'
<1> USE NoneIsNoTask
<1> TypeOK
  BY DEF Inv
<1>1. KeepersTyped'
  BY DEF NativeDies, Fault, procs, KeepersTyped, TypeOK
<1>2. NativesTyped'
  BY NativeTyped DEF NativeDies, Fault, NativesTyped, TypeOK, Natives
<1>3. FilesTyped'
  BY DEF NativeDies, Fault, files, FilesTyped, TypeOK
<1>4. CallersTyped'
  BY ExecutorsAssumption DEF NativeDies, Fault, history, CallersTyped, TypeOK
<1> QED BY <1>1, <1>2, <1>3, <1>4 DEF Typed

LEMMA GuardianBindsTyped == ASSUME Inv, NEW e \in Execs, GuardianBinds(e) PROVE Typed'
<1> USE NoneIsNoTask
<1> TypeOK
  BY DEF Inv
<1>1. KeepersTyped'
  BY DEF GuardianBinds, procs, KeepersTyped, TypeOK
<1>2. NativesTyped'
  BY DEF GuardianBinds, NativesTyped, TypeOK, FilesTyped, KeepersTyped, Records
<1>3. FilesTyped'
  BY DEF GuardianBinds, files, FilesTyped, TypeOK
<1>4. CallersTyped'
  BY DEF GuardianBinds, history, CallersTyped, TypeOK
<1> QED BY <1>1, <1>2, <1>3, <1>4 DEF Typed

LEMMA GuardianReadsTyped == ASSUME Inv, NEW e \in Execs, GuardianReads(e) PROVE Typed'
<1> USE NoneIsNoTask
<1> TypeOK
  BY DEF Inv
<1>1. KeepersTyped'
  BY DEF GuardianReads, procs, KeepersTyped, TypeOK
<1>2. NativesTyped'
  BY DEF GuardianReads, NativesTyped, TypeOK, FilesTyped, KeepersTyped, Records
<1>3. FilesTyped'
  BY DEF GuardianReads, files, FilesTyped, TypeOK
<1>4. CallersTyped'
  BY DEF GuardianReads, history, CallersTyped, TypeOK
<1> QED BY <1>1, <1>2, <1>3, <1>4 DEF Typed

LEMMA GuardianReleasesTyped == ASSUME Inv, NEW e \in Execs, GuardianReleases(e) PROVE Typed'
<1> USE NoneIsNoTask
<1> TypeOK
  BY DEF Inv
<1>1. KeepersTyped'
  BY DEF GuardianReleases, EndNative, procs, KeepersTyped, TypeOK
<1>2. native' \in [Execs -> Natives]
  <2>0. native \in [Execs -> Natives]
    BY DEF TypeOK, KeepersTyped, NativesTyped, CallersTyped, Natives, CallRecords
  <2>1. native' = [native EXCEPT ![e].alive = FALSE, ![e].turn = FALSE]
    BY DEF GuardianReleases, EndNative
  <2> QED BY <2>0, <2>1, NativeTyped
<1>3. guardian' \in [Execs -> [pc : {"none", "watching", "releasing", "saving", "dead"}, task : Tasks \cup {None}]]
  BY DEF GuardianReleases, TypeOK, NativesTyped
<1>4. NativesTyped'
  BY <1>2, <1>3 DEF NativesTyped, Natives
<1>5. FilesTyped'
  BY DEF GuardianReleases, EndNative, files, FilesTyped, TypeOK
<1>6. CallersTyped'
  BY DEF GuardianReleases, EndNative, history, CallersTyped, TypeOK, NativesTyped
<1> QED BY <1>1, <1>4, <1>5, <1>6 DEF Typed

LEMMA GuardianSavesTyped == ASSUME Inv, NEW e \in Execs, GuardianSaves(e) PROVE Typed'
<1> USE NoneIsNoTask
<1> TypeOK
  BY DEF Inv
<1>1. KeepersTyped'
  BY DEF GuardianSaves, Record, Save, procs, KeepersTyped, TypeOK
<1>2. NativesTyped'
  BY DEF GuardianSaves, Record, Save, NativesTyped, TypeOK, FilesTyped, KeepersTyped, Records
<1>3. FilesTyped'
  BY
      DEF GuardianSaves, Record, Save, files, FilesTyped, TypeOK, KeepersTyped, CallersTyped, NativesTyped,
          Records, Phases
<1>4. CallersTyped'
  BY DEF GuardianSaves, Record, Save, history, CallersTyped, TypeOK
<1> QED BY <1>1, <1>2, <1>3, <1>4 DEF Typed

LEMMA GuardianExitsTyped == ASSUME Inv, NEW e \in Execs, GuardianExits(e) PROVE Typed'
<1> USE NoneIsNoTask
<1> TypeOK
  BY DEF Inv
<1>1. KeepersTyped'
  BY DEF GuardianExits, Fault, procs, KeepersTyped, TypeOK
<1>2. NativesTyped'
  BY DEF GuardianExits, Fault, NativesTyped, TypeOK, FilesTyped, KeepersTyped, Records
<1>3. FilesTyped'
  BY DEF GuardianExits, Fault, files, FilesTyped, TypeOK
<1>4. CallersTyped'
  BY ExecutorsAssumption DEF GuardianExits, Fault, history, CallersTyped, TypeOK
<1> QED BY <1>1, <1>2, <1>3, <1>4 DEF Typed

LEMMA RecordOriginTyped == ASSUME Inv, NEW e \in Execs, RecordOrigin(e) PROVE Typed'
<1> USE NoneIsNoTask
<1> TypeOK
  BY DEF Inv
<1>1. KeepersTyped'
  BY DEF RecordOrigin, procs, KeepersTyped, TypeOK
<1>2. NativesTyped'
  BY DEF RecordOrigin, NativesTyped, TypeOK
<1>3. FilesTyped'
  BY DEF RecordOrigin, files, FilesTyped, TypeOK, KeepersTyped, CallersTyped, NativesTyped, Records, Phases
<1>4. CallersTyped'
  BY DEF RecordOrigin, history, CallersTyped, TypeOK
<1> QED BY <1>1, <1>2, <1>3, <1>4 DEF Typed

LEMMA HelperDiesTyped == ASSUME Inv, HelperDies PROVE Typed'
<1> USE NoneIsNoTask
<1> TypeOK
  BY DEF Inv
<1>1. KeepersTyped'
  BY DEF HelperDies, NoCall, Fault, procs, KeepersTyped, TypeOK
<1>2. NativesTyped'
  BY DEF HelperDies, NoCall, Fault, NativesTyped, TypeOK
<1>3. FilesTyped'
  BY DEF HelperDies, NoCall, Fault, files, FilesTyped, TypeOK
<1>4. CallersTyped'
  BY ExecutorsAssumption DEF HelperDies, NoCall, Fault, history, CallersTyped, TypeOK
<1> QED BY <1>1, <1>2, <1>3, <1>4 DEF Typed

-----------------------------------------------------------------------------
LEMMA InitInv == Init => Inv
<1> SUFFICES ASSUME Init PROVE Inv
  OBVIOUS
<1> USE NoneIsNoTask
<1>1. NoRecord \in Records /\ NoRecord.phase = "none" /\ NoRecord.task = None
  BY DEF NoRecord, Record, Records, Phases
<1>2. /\ \A e \in Execs : /\ rec[e] = NoRecord /\ mem[e] = NoRecord /\ keeper[e] = "none" /\ recording[e] = "no"
                          /\ ~linked[e] /\ ~retiring[e] /\ ~native[e].alive /\ native[e].task = None /\ ~native[e].turn
                          /\ guardian[e].pc = "none" /\ guardian[e].task = None
      /\ \A t \in Tasks : origin[t] = None /\ current[t] = None /\ recovered[t] = None
      /\ \A c \in Callers : caller[c] = NoCall
      /\ begun \subseteq Tasks /\ ~harmed
  BY DEF Init
<1>3. FilesTyped /\ KeepersTyped
  BY <1>1 DEF Init, FilesTyped, KeepersTyped
<1>4. NativesTyped
  BY DEF Init, NativesTyped
<1>5. CallersTyped
  <2>1. NoCall \in CallRecords
    BY DEF NoCall, CallRecords
  <2>2. caller \in [Callers -> CallRecords]
    BY <2>1 DEF Init
  <2>3. gen \in Nat /\ faults \in 0..MaxFaults /\ begun \subseteq Tasks
    BY ExecutorsAssumption DEF Init
  <2>4. harmed \in BOOLEAN
    BY Zenon DEF Init
  <2> QED BY <2>2, <2>3, <2>4 DEF CallersTyped, CallRecords
<1>6. TypeOK
  BY <1>1, <1>2, <1>3, <1>4, <1>5 DEF TypeOK
<1>7. Lives
  BY <1>1, <1>2 DEF Lives, Life, Unborn, Starting, Serving, Ending, Gone, Working, Guarding, Phased, Published, Ended
<1>8. Names
  BY <1>1, <1>2 DEF Names, Name, Naming, Untouched, TaskOf
<1>9. Calls
  BY <1>2, NoCallIs DEF Calls, Calling, Allocation, Allocating, Opens, Opening
<1>10. \A e \in Execs : TaskOf(e) = None
  BY <1>1, <1>2 DEF TaskOf
<1>11. Writers
  BY <1>10 DEF Writers
<1>12. Replacing
  BY <1>2, NoCallIs DEF Replacing, Allocation, Allocating
<1>13. References
  BY <1>1, <1>2 DEF References
<1> QED BY <1>2, <1>6, <1>7, <1>8, <1>9, <1>11, <1>12, <1>13 DEF Inv

LEMMA TypedStep == ASSUME Orderly', Typed' PROVE Inv'
<1>1. \A e \in Execs : rec'[e].phase = "ready" => rec'[e].url /\ rec'[e].native
  BY DEF Orderly, Lives, Life, Phased, Published
<1> QED BY <1>1 DEF Inv, Orderly, Typed, TypeOK

LEMMA CallerStep ==
  ASSUME Inv, NEW c \in Callers,
         Open(c) \/ FactoryStep(c) \/ AllocationFails(c) \/ Leave(c) \/ CreateTask(c) \/ StartTurn(c)
  PROVE  Inv'
<1>1. CASE Open(c)
  BY <1>1, OpenOrderly, OpenTyped, TypedStep
<1>2. CASE Existing(c)
  BY <1>2, ExistingOrderly, ExistingTyped, TypedStep
<1>3. CASE Allocate(c)
  BY <1>3, AllocateOrderly, AllocateTyped, TypedStep
<1>4. CASE SaveStarting(c)
  BY <1>4, SaveStartingOrderly, SaveStartingTyped, TypedStep
<1>5. CASE SaveCurrent(c)
  BY <1>5, SaveCurrentOrderly, SaveCurrentTyped, TypedStep
<1>6. CASE SaveRecovered(c)
  BY <1>6, SaveRecoveredOrderly, SaveRecoveredTyped, TypedStep
<1>7. CASE AllocationFails(c)
  BY <1>7, AllocationFailsOrderly, AllocationFailsTyped, TypedStep
<1>8. CASE Launch(c)
  BY <1>8, LaunchOrderly, LaunchTyped, TypedStep
<1>9. CASE Connect(c)
  BY <1>9, ConnectOrderly, ConnectTyped, TypedStep
<1>10. CASE Leave(c)
  BY <1>10, LeaveOrderly, LeaveTyped, TypedStep
<1>11. CASE CreateTask(c)
  BY <1>11, CreateTaskOrderly, CreateTaskTyped, TypedStep
<1>12. CASE StartTurn(c)
  BY <1>12, StartTurnOrderly, StartTurnTyped, TypedStep
<1> QED BY <1>1, <1>2, <1>3, <1>4, <1>5, <1>6, <1>7, <1>8, <1>9, <1>10, <1>11, <1>12 DEF FactoryStep

LEMMA ExecutorStep ==
  ASSUME Inv, NEW e \in Execs,
         \/ KeeperStep(e) \/ KeeperExits(e) \/ AttemptFails(e) \/ LinkBreaks(e) \/ Retire(e) \/ RecordStep(e)
         \/ RecordFails(e) \/ TurnEnds(e) \/ NativeDies(e) \/ GuardianStep(e) \/ GuardianExits(e)
  PROVE  Inv'
<1>1. ASSUME Lawful(e), UNCHANGED <<origin, current, recovered, begun>>, Typed' PROVE Inv'
  <2>1. Orderly'
    BY <1>1, LawfulStep DEF Orderly
  <2> QED BY <1>1, <2>1, TypedStep
<1>2. CASE KeeperClaims(e)
  <2>1. UNCHANGED <<origin, current, recovered, begun>>
    BY <1>2 DEF KeeperClaims, files, history
  <2> QED BY <1>1, <1>2, <2>1, KeeperClaimsLawful, KeeperClaimsTyped
<1>3. CASE KeeperSpawns(e)
  <2>1. UNCHANGED <<origin, current, recovered, begun>>
    BY <1>3 DEF KeeperSpawns, files, history
  <2> QED BY <1>1, <1>3, <2>1, KeeperSpawnsLawful, KeeperSpawnsTyped
<1>4. CASE KeeperRecordsNative(e)
  <2>1. UNCHANGED <<origin, current, recovered, begun>>
    BY <1>4 DEF KeeperRecordsNative, files, history
  <2> QED BY <1>1, <1>4, <2>1, KeeperRecordsNativeLawful, KeeperRecordsNativeTyped
<1>5. CASE KeeperGuards(e)
  <2>1. UNCHANGED <<origin, current, recovered, begun>>
    BY <1>5 DEF KeeperGuards, files, history
  <2> QED BY <1>1, <1>5, <2>1, KeeperGuardsLawful, KeeperGuardsTyped
<1>6. CASE Publish(e)
  <2>1. UNCHANGED <<origin, current, recovered, begun>>
    BY <1>6 DEF Publish, files, history
  <2> QED BY <1>1, <1>6, <2>1, PublishLawful, PublishTyped
<1>7. CASE AttemptFails(e)
  <2>1. UNCHANGED <<origin, current, recovered, begun>>
    BY <1>7 DEF AttemptFails, files, history
  <2> QED BY <1>1, <1>7, <2>1, AttemptFailsLawful, AttemptFailsTyped
<1>8. CASE LinkBreaks(e)
  <2>1. UNCHANGED <<origin, current, recovered, begun>>
    BY <1>8 DEF LinkBreaks, files, history
  <2> QED BY <1>1, <1>8, <2>1, LinkBreaksLawful, LinkBreaksTyped
<1>9. CASE Retire(e)
  <2>1. UNCHANGED <<origin, current, recovered, begun>>
    BY <1>9 DEF Retire, files, history
  <2> QED BY <1>1, <1>9, <2>1, RetireLawful, RetireTyped
<1>10. CASE KeeperReleases(e)
  <2>1. UNCHANGED <<origin, current, recovered, begun>>
    BY <1>10 DEF KeeperReleases, files, history
  <2> QED BY <1>1, <1>10, <2>1, KeeperReleasesLawful, KeeperReleasesTyped
<1>11. CASE KeeperEnds(e)
  <2>1. UNCHANGED <<origin, current, recovered, begun>>
    BY <1>11 DEF KeeperEnds, files, history
  <2> QED BY <1>1, <1>11, <2>1, KeeperEndsLawful, KeeperEndsTyped
<1>12. CASE KeeperSavesEnd(e)
  <2>1. UNCHANGED <<origin, current, recovered, begun>>
    BY <1>12 DEF KeeperSavesEnd, files, history
  <2> QED BY <1>1, <1>12, <2>1, KeeperSavesEndLawful, KeeperSavesEndTyped
<1>13. CASE KeeperExits(e)
  <2>1. UNCHANGED <<origin, current, recovered, begun>>
    BY <1>13 DEF KeeperExits, files, history
  <2> QED BY <1>1, <1>13, <2>1, KeeperExitsLawful, KeeperExitsTyped
<1>14. CASE RecordMutates(e)
  <2>1. UNCHANGED <<origin, current, recovered, begun>>
    BY <1>14 DEF RecordMutates, files, history
  <2> QED BY <1>1, <1>14, <2>1, RecordMutatesLawful, RecordMutatesTyped
<1>15. CASE RecordSaves(e)
  <2>1. UNCHANGED <<origin, current, recovered, begun>>
    BY <1>15 DEF RecordSaves, files, history
  <2> QED BY <1>1, <1>15, <2>1, RecordSavesLawful, RecordSavesTyped
<1>16. CASE RecordBinds(e)
  <2>1. UNCHANGED <<origin, current, recovered, begun>>
    BY <1>16 DEF RecordBinds, files, history
  <2> QED BY <1>1, <1>16, <2>1, RecordBindsLawful, RecordBindsTyped
<1>17. CASE RecordFails(e)
  <2>1. UNCHANGED <<origin, current, recovered, begun>>
    BY <1>17 DEF RecordFails, files, history
  <2> QED BY <1>1, <1>17, <2>1, RecordFailsLawful, RecordFailsTyped
<1>18. CASE TurnEnds(e)
  <2>1. UNCHANGED <<origin, current, recovered, begun>>
    BY <1>18 DEF TurnEnds, files, history
  <2> QED BY <1>1, <1>18, <2>1, TurnEndsLawful, TurnEndsTyped
<1>19. CASE NativeDies(e)
  <2>1. UNCHANGED <<origin, current, recovered, begun>>
    BY <1>19 DEF NativeDies, files, history
  <2> QED BY <1>1, <1>19, <2>1, NativeDiesLawful, NativeDiesTyped
<1>20. CASE GuardianBinds(e)
  <2>1. UNCHANGED <<origin, current, recovered, begun>>
    BY <1>20 DEF GuardianBinds, files, history
  <2> QED BY <1>1, <1>20, <2>1, GuardianBindsLawful, GuardianBindsTyped
<1>21. CASE GuardianReads(e)
  <2>1. UNCHANGED <<origin, current, recovered, begun>>
    BY <1>21 DEF GuardianReads, files, history
  <2> QED BY <1>1, <1>21, <2>1, GuardianReadsLawful, GuardianReadsTyped
<1>22. CASE GuardianReleases(e)
  <2>1. UNCHANGED <<origin, current, recovered, begun>>
    BY <1>22 DEF GuardianReleases, files, history
  <2> QED BY <1>1, <1>22, <2>1, GuardianReleasesLawful, GuardianReleasesTyped
<1>23. CASE GuardianSaves(e)
  <2>1. UNCHANGED <<origin, current, recovered, begun>>
    BY <1>23 DEF GuardianSaves, files, history
  <2> QED BY <1>1, <1>23, <2>1, GuardianSavesLawful, GuardianSavesTyped
<1>24. CASE GuardianExits(e)
  <2>1. UNCHANGED <<origin, current, recovered, begun>>
    BY <1>24 DEF GuardianExits, files, history
  <2> QED BY <1>1, <1>24, <2>1, GuardianExitsLawful, GuardianExitsTyped
<1>25. CASE RecordOrigin(e)
  BY <1>25, RecordOriginOrderly, RecordOriginTyped, TypedStep
<1> QED BY <1>2, <1>3, <1>4, <1>5, <1>6, <1>7, <1>8, <1>9, <1>10, <1>11, <1>12, <1>13, <1>14, <1>15, <1>16, <1>17,
    <1>18, <1>19, <1>20, <1>21, <1>22, <1>23, <1>24, <1>25
    DEF KeeperStep, RecordStep, GuardianStep

LEMMA StillInv == ASSUME Inv, UNCHANGED vars PROVE Inv'
<1> USE DEF vars, files, procs, history
<1>1. Typed'
  BY DEF Inv, TypeOK, Typed, FilesTyped, CallersTyped, KeepersTyped, NativesTyped
<1>2. Idle
  BY DEF Idle
<1>3. Lives' /\ Names' /\ References' /\ ~harmed'
  BY <1>2, IdleStep
<1>4. Calls'
  BY DEF Inv, Calls, Calling, Allocation, Opens, Opening, Owned, TaskOf
<1>5. \A e : (Over(e)' <=> Over(e)) /\ TaskOf(e)' = TaskOf(e)
  BY DEF Over, TaskOf
<1>6. Writers'
  BY <1>5 DEF Inv, Writers, Reference, Owned, New, Allocates
<1>7. Replacing'
  BY <1>5 DEF Inv, Replacing, Allocation
<1> QED BY <1>1, <1>3, <1>4, <1>6, <1>7, TypedStep DEF Orderly

LEMMA StepInv == Inv /\ [Next]_vars => Inv'
<1> SUFFICES ASSUME Inv, [Next]_vars PROVE Inv'
  OBVIOUS
<1>1. CASE HelperDies
  BY <1>1, HelperDiesOrderly, HelperDiesTyped, TypedStep
<1>2. CASE UNCHANGED vars
  BY <1>2, StillInv
<1> QED BY <1>1, <1>2, CallerStep, ExecutorStep DEF Next

LEMMA InvHolds == Spec => []Inv
  BY InitInv, StepInv, PTL DEF Spec

-----------------------------------------------------------------------------
(* Two executors that can both write a task are the same: the references    *)
(* lead to one executor, a new task is known to one, and nobody is launched *)
(* for a task before the executors that could write it have ended           *)
(* (executorWriterEnded, existingFor and allocate in                        *)
(* taskexecutorfactory.go, RecordTask in taskexecutorprocess.go).           *)
THEOREM OneWriterPerTask == Spec => []SingleWriter
<1>1. Inv => SingleWriter
  <2> SUFFICES ASSUME Inv, NEW t \in Tasks, NEW e \in Execs, NEW f \in Execs, Writes(e, t), Writes(f, t)
               PROVE  e = f
    BY DEF SingleWriter
  <2> USE NoneIsNoTask
  <2>1. ASSUME NEW g \in Execs, Writes(g, t)
        PROVE  (Reference(t) = g /\ Owned(t)) \/ New(g, t)
    <3>1. TaskOf(g) = t /\ ~Over(g)
      BY <2>1 DEF Writes, TaskOf, Over
    <3>2. \A c \in Callers : ~Allocates(c, g, t)
      BY <2>1 DEF Writes, Allocates, Inv, Calls, Calling
    <3> QED BY <3>1, <3>2 DEF Inv, Writers
  <2>2. native[e].task = t /\ native[f].task = t
    BY DEF Writes
  <2> QED BY <2>1, <2>2 DEF New
<1> QED BY <1>1, InvHolds, PTL

(* What the records of the executors say can be relied on after any death:  *)
(* an ended record means that no native process runs and none will be       *)
(* started, and the record that a task's references lead to names the task  *)
(* (taskexecutorfactory.go:330 and :409, executorstate.go).                 *)
THEOREM RecordsCanBeReliedOn == Spec => []RecordsTrue
<1>1. Inv => RecordsTrue
  <2> SUFFICES ASSUME Inv PROVE RecordsTrue
    OBVIOUS
  <2> USE NoneIsNoTask
  <2>1. EndedRecordTrue
    BY DEF Inv, EndedRecordTrue, Lives, Life, Phased, Ended
  <2>2. TurnTaskFound
    <3> SUFFICES ASSUME NEW t \in Tasks, NEW e \in Execs, Reference(t) = e, t \in begun
                 PROVE  rec[e].task = t
      BY DEF TurnTaskFound
    <3> QED BY DEF Inv, References, Reference, Given, TypeOK, FilesTyped
  <2> QED BY <2>1, <2>2 DEF Inv, RecordsTrue
<1> QED BY <1>1, InvHolds, PTL

(* Filo never ends a native process whose turn runs: neither the keeper, on *)
(* a failed start or on retirement, nor the guardian after the keeper died  *)
(* (taskexecutorprocess.go, nativeguardian.go).                             *)
THEOREM NoRunningTurnKilled == Spec => []NoTurnKilled
<1>1. Inv => NoTurnKilled
  BY DEF Inv, NoTurnKilled
<1> QED BY <1>1, InvHolds, PTL

==============================================================================
