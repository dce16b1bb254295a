------------------------- MODULE TaskExecutorProofs -------------------------
(***************************************************************************)
(* Proofs about one private task executor, for any number of clients,      *)
(* native threads, turns and faults: retirement is fenced, and the native  *)
(* writer is released only when the native task is quiet; and it           *)
(* implements the lifetime of a native writer, step by step.               *)
(***************************************************************************)
EXTENDS TaskExecutor, SequenceTheorems, TLAPS

-----------------------------------------------------------------------------
(* The inductive invariant.                                                 *)

(* e.pending counts every request past receive()'s admission.               *)
InFlightCounted == \A r \in Requests : req[r].ph \notin {"new", "done"} => r \in pending

ReleasedAtEnd == released => retire = "done"

(* Before a task is owned nothing can have been sent to one.                *)
NoTaskQuiet == id = 0 => Quiet

(* Past the first native read the task is quiet, and stays quiet because    *)
(* nothing is in flight behind the fence.                                   *)
VerifiedQuiet == retire \in {"listing", "verified", "done"} => Quiet

(* At most one exchange of the retirement is outstanding, and only while    *)
(* verifyIdle waits for it.                                                 *)
Waiting == Verifying \/ RpcClosed
VerifyOnce ==
  /\ \A i \in 1..Len(toNative) : toNative[i].of = Verify =>
       /\ Waiting /\ toNative[i].m # "turn/start" /\ toNative[i].m # "thread/archive"
       /\ \A j \in 1..Len(toNative) : toNative[j].of = Verify => j = i
       /\ \A a \in owed : a.of # Verify
       /\ \A j \in 1..Len(fromNative) : fromNative[j].of # Verify
  /\ \A a \in owed : a.of = Verify =>
       /\ Waiting
       /\ \A b \in owed : b.of = Verify => b = a
       /\ \A j \in 1..Len(fromNative) : fromNative[j].of # Verify
  /\ \A i \in 1..Len(fromNative) : fromNative[i].of = Verify =>
       /\ Waiting
       /\ \A j \in 1..Len(fromNative) : fromNative[j].of = Verify => j = i

(* The read is behind every turn/start that was written before the fence,   *)
(* so that a status other than active means that the task is quiet.         *)
ReadOrdered ==
  retire = "reading" =>
    /\ \A i, j \in 1..Len(toNative) : i < j /\ toNative[i].of = Verify => toNative[j].m # "turn/start"
    /\ \A a \in owed : a.of = Verify /\ a.res.status # "active" => Quiet
    /\ \A i \in 1..Len(fromNative) :
         fromNative[i].of = Verify /\ fromNative[i].res.status # "active" => Quiet

-----------------------------------------------------------------------------
LEMMA Nulls == NoTurn \in Turns /\ NoRes \in Results
  BY ExecutorAssumption DEF NoTurn, NoRes, Turns, Results

LEMMA InitType == Init => TypeOK
<1> SUFFICES ASSUME Init PROVE TypeOK
  OBVIOUS
<1> USE ExecutorAssumption DEF Init
<1>1. NoTurn \in Turns /\ NoRes \in Results
  BY Nulls
<1>2. TaskType /\ LifeType /\ RetireType
  BY <1>1 DEF TaskType, LifeType, RetireType
<1>3. ChannelType
  BY DEF ChannelType
<1>4. NativeType
  <2>1. nturn \in NativeTurns
    BY DEF NativeTurns, Terminal
  <2> QED BY <2>1 DEF NativeType
<1>5. RestType
  <2>1. [ph |-> "new", m |-> "filo/task/state", th |-> 0, res |-> NoRes] \in Reqs
    BY <1>1 DEF Reqs, AllMethods
  <2>2. req \in [Requests -> Reqs]
    BY <2>1
  <2>3. faults \in 0..MaxFaults /\ rpc = "open"
    OBVIOUS
  <2> QED BY <2>2, <2>3 DEF RestType
<1> QED BY <1>2, <1>3, <1>4, <1>5 DEF TypeOK

LEMMA NotifiesType == ASSUME TypeOK, NativeNotifies PROVE TypeOK'
<1> USE ExecutorAssumption
<1>1. UNCHANGED <<task, life, retired, toNative, owed, nthreads, narchived, req, rpc, faults>>
  BY DEF NativeNotifies
<1>2. TaskType' /\ LifeType' /\ RetireType' /\ RestType'
  BY <1>1 DEF TypeOK, TaskType, LifeType, RetireType, RestType, task, life, retired
<1>3. NativeTurn \in Turns /\ nturn.th \in 0..MaxThreads /\ NoRes \in Results
  BY DEF TypeOK, NativeType, NativeTurns, NativeTurn, Turns, NoTurn, NoRes, Results
<1>4. NativeType'
  BY <1>1 DEF TypeOK, NativeType, NativeTurns, NativeNotifies, Terminal
<1>5. nturn.id \in 0..MaxTurns /\ \A s \in Terminal : [id |-> nturn.id, status |-> s] \in Turns
  BY DEF TypeOK, NativeType, NativeTurns, Turns
<1>6. \A k \in {"turn/started", "item/started", "turn/completed"}, t \in Turns :
        Note(k, nturn.th, t) \in Packets
  BY <1>3 DEF Note, Packets
<1>7. \E m \in Packets : fromNative' = Append(fromNative, m)
  BY <1>3, <1>5, <1>6 DEF NativeNotifies
<1>8. ChannelType'
  BY <1>1, <1>7 DEF TypeOK, ChannelType
<1> QED BY <1>2, <1>4, <1>8 DEF TypeOK

LEMMA AnswersType == ASSUME TypeOK, NativeAnswers PROVE TypeOK'
<1> USE ExecutorAssumption
<1>1. UNCHANGED <<task, life, retired, toNative, nthreads, nturn, narchived, req, rpc, faults>>
  BY DEF NativeAnswers
<1>2. TaskType' /\ LifeType' /\ RetireType' /\ RestType' /\ NativeType'
  BY <1>1 DEF TypeOK, TaskType, LifeType, RetireType, RestType, NativeType, task, life, retired
<1>3. PICK a \in owed : owed' = owed \ {a} /\ fromNative' = Append(fromNative, Answer(a.of, a.res))
  BY DEF NativeAnswers
<1>4. a \in Answers
  BY DEF TypeOK, ChannelType
<1>5. Answer(a.of, a.res) \in Packets
  BY <1>4, Nulls DEF Answer, Answers, Packets
<1>6. ChannelType'
  BY <1>1, <1>3, <1>5 DEF TypeOK, ChannelType
<1> QED BY <1>2, <1>6 DEF TypeOK

LEMMA HandlesType == ASSUME TypeOK, NativeHandles PROVE TypeOK'
<1> USE ExecutorAssumption
<1> DEFINE c == Head(toNative)
           answer(ok, th, t) == [of |-> c.of, m |-> c.m,
                                 res |-> [ok |-> ok, th |-> th, turn |-> t, status |-> ThreadStatus]]
<1>1. /\ UNCHANGED <<task, life, retired, req, rpc, faults>>
      /\ toNative # << >> /\ toNative' = Tail(toNative)
  BY DEF NativeHandles
<1>2. TaskType' /\ LifeType' /\ RetireType' /\ RestType'
  BY <1>1 DEF TypeOK, TaskType, LifeType, RetireType, RestType, task, life, retired
<1>3. c \in Calls /\ toNative' \in Seq(Calls)
  BY <1>1 DEF TypeOK, ChannelType
<1>4. NativeTurn \in Turns /\ NoTurn \in Turns /\ nturn.id \in 0..MaxTurns /\ nthreads \in 0..MaxThreads
  BY Nulls DEF TypeOK, NativeType, NativeTurns, NativeTurn, Turns
<1>5. ThreadStatus \in {"none", "active", "idle", "notLoaded", "systemError"}
  BY DEF ThreadStatus
<1>6. \A ok \in BOOLEAN, th \in 0..MaxThreads, t \in Turns : answer(ok, th, t) \in Answers
  BY <1>3, <1>5 DEF Answers, Calls, Results
<1>7. c.th \in 0..MaxThreads /\ InProgress \in BOOLEAN
  BY <1>3 DEF Calls, InProgress
<1> HIDE DEF c, answer
<1>8. CASE /\ nthreads < MaxThreads /\ nthreads' = nthreads + 1
           /\ owed' = owed \cup {answer(TRUE, nthreads + 1, NoTurn)}
           /\ UNCHANGED <<nturn, narchived, fromNative>>
  <2>1. nthreads + 1 \in 0..MaxThreads
    BY <1>4, <1>8
  <2>2. answer(TRUE, nthreads + 1, NoTurn) \in Answers
    BY <1>4, <1>6, <2>1
  <2> QED BY <1>1, <1>2, <1>3, <1>8, <2>1, <2>2 DEF TypeOK, ChannelType, NativeType
<1>9. CASE /\ UNCHANGED <<nthreads, nturn, narchived, fromNative>>
           /\ \E ok \in BOOLEAN, th \in 0..MaxThreads, t \in Turns : owed' = owed \cup {answer(ok, th, t)}
  BY <1>1, <1>2, <1>3, <1>6, <1>9 DEF TypeOK, ChannelType, NativeType
<1>10. CASE /\ nturn.id < MaxTurns
            /\ nturn' = [id |-> nturn.id + 1, status |-> "inProgress", th |-> c.th,
                         announced |-> FALSE, item |-> FALSE]
            /\ owed' = owed \cup {answer(TRUE, c.th, [id |-> nturn.id + 1, status |-> "inProgress"])}
            /\ UNCHANGED <<nthreads, narchived, fromNative>>
  <2>1. nturn' \in NativeTurns /\ [id |-> nturn.id + 1, status |-> "inProgress"] \in Turns
    BY <1>4, <1>7, <1>10 DEF NativeTurns, Turns
  <2> QED BY <1>1, <1>2, <1>3, <1>6, <1>7, <1>10, <2>1 DEF TypeOK, ChannelType, NativeType
<1>11. CASE /\ narchived' = TRUE /\ UNCHANGED nthreads
            /\ nturn' = IF InProgress THEN [nturn EXCEPT !.status = "interrupted"] ELSE nturn
            /\ fromNative' = Append(fromNative, Note("thread/archived", c.th, NativeTurn))
            /\ owed' = owed \cup {answer(TRUE, c.th, NoTurn)}
  <2>1. nturn' \in NativeTurns
    BY <1>11 DEF TypeOK, NativeType, NativeTurns, Terminal
  <2>2. Note("thread/archived", c.th, NativeTurn) \in Packets
    BY <1>4, <1>7, Nulls DEF Note, Packets
  <2>3. answer(TRUE, c.th, NoTurn) \in Answers
    BY <1>4, <1>6, <1>7
  <2>4. ChannelType'
    <3>1. owed' \in SUBSET Answers
      BY <1>11, <2>3 DEF TypeOK, ChannelType
    <3>2. fromNative' \in Seq(Packets)
      BY <1>11, <2>2 DEF TypeOK, ChannelType
    <3> QED BY <1>3, <3>1, <3>2 DEF ChannelType
  <2> QED BY <1>2, <1>11, <2>1, <2>4 DEF TypeOK, NativeType
<1>12. CASE c.m = "thread/start"
  <2>1. /\ \/ /\ nthreads < MaxThreads /\ nthreads' = nthreads + 1
              /\ owed' = owed \cup {answer(TRUE, nthreads + 1, NoTurn)}
           \/ UNCHANGED nthreads /\ \E ok \in BOOLEAN : owed' = owed \cup {answer(ok, 0, NoTurn)}
        /\ UNCHANGED <<nturn, narchived, fromNative>>
    BY <1>12, Zenon DEF NativeHandles, c, answer
  <2>2. 0 \in 0..MaxThreads
    OBVIOUS
  <2> QED BY <1>4, <1>8, <1>9, <2>1, <2>2
<1>13. CASE c.m = "turn/start"
  BY <1>4, <1>7, <1>9, <1>10, <1>13 DEF NativeHandles, c, answer
<1>14. CASE c.m = "thread/archive"
  BY <1>11, <1>14 DEF NativeHandles, c, answer
<1>15. CASE c.m \notin {"thread/start", "turn/start", "thread/archive"}
  BY <1>4, <1>7, <1>9, <1>15 DEF NativeHandles, c, answer
<1> QED BY <1>12, <1>13, <1>14, <1>15

LEMMA ClientType == ASSUME TypeOK, NEW r \in Requests, ClientStep(r) PROVE TypeOK'
<1> USE ExecutorAssumption
<1>1. req[r] \in Reqs /\ req \in [Requests -> Reqs]
  BY DEF TypeOK, RestType
<1>2. \A x \in {"checked", "sent", "done"} : [req EXCEPT ![r].ph = x] \in [Requests -> Reqs]
  BY <1>1 DEF Reqs
<1>3. ASSUME Finish(r), active' \in BOOLEAN, UNCHANGED <<settled, nativeClosed, retiring>>
      PROVE LifeType'
  BY <1>3 DEF TypeOK, LifeType, Finish, Scheduled
<1>4. CASE Local(r)
  <2>1. UNCHANGED <<task, native, retired, rpc, faults, settled, nativeClosed, retiring, active>> /\ Finish(r)
    BY <1>4 DEF Local
  <2>2. TaskType' /\ RetireType' /\ NativeType' /\ ChannelType'
    BY <2>1 DEF TypeOK, TaskType, RetireType, NativeType, ChannelType, task, retired, native
  <2>3. RestType'
    BY <1>2, <2>1 DEF TypeOK, RestType, Finish
  <2>4. LifeType'
    BY <1>3, <2>1 DEF TypeOK, LifeType
  <2> QED BY <2>2, <2>3, <2>4 DEF TypeOK
<1>5. CASE StartChecked(r)
  <2>1. UNCHANGED <<task, life, native, retired, rpc, faults>> /\ req' = [req EXCEPT ![r].ph = "checked"]
    BY <1>5 DEF StartChecked
  <2>2. TaskType' /\ LifeType' /\ RetireType' /\ NativeType' /\ ChannelType'
    BY <2>1 DEF TypeOK, TaskType, LifeType, RetireType, NativeType, ChannelType, task, life, retired, native
  <2>3. RestType'
    BY <1>2, <2>1 DEF TypeOK, RestType
  <2> QED BY <2>2, <2>3 DEF TypeOK
<1>6. CASE StartOpening(r) \/ Forward(r)
  <2>1. /\ UNCHANGED <<id, turn, hasUser, materialized, life, owed, fromNative, nthreads, nturn, narchived,
                       retired, rpc, faults>>
        /\ req' = [req EXCEPT ![r].ph = "sent"]
        /\ opening' = TRUE \/ opening' = opening
    BY <1>6 DEF StartOpening, Forward, task
  <2>2. TaskType' /\ RetireType' /\ NativeType'
    BY <2>1 DEF TypeOK, TaskType, RetireType, NativeType, retired
  <2>3. RestType'
    BY <1>2, <2>1 DEF TypeOK, RestType
  <2>4. Call(r, "thread/start", 0) \in Calls /\ Call(r, req[r].m, req[r].th) \in Calls
    BY <1>1 DEF Call, Calls, Reqs, AllMethods
  <2>5. \E c \in Calls : toNative' = Append(toNative, c)
    BY <1>6, <2>4 DEF StartOpening, Forward
  <2>6. ChannelType'
    BY <2>1, <2>5 DEF TypeOK, ChannelType
  <2>7. LifeType'
    BY <2>1 DEF TypeOK, LifeType, life
  <2> QED BY <2>2, <2>3, <2>6, <2>7 DEF TypeOK
<1>7. CASE Fail(r)
  <2>1. UNCHANGED <<id, turn, hasUser, materialized, native, retired, rpc, faults, settled, nativeClosed,
                    retiring, active>> /\ Finish(r)
    BY <1>7 DEF Fail
  <2>5. opening' \in BOOLEAN
    BY <1>7, Zenon DEF Fail
  <2>2. TaskType' /\ RetireType' /\ NativeType' /\ ChannelType'
    BY <2>1, <2>5 DEF TypeOK, TaskType, RetireType, NativeType, ChannelType, retired, native
  <2>3. RestType'
    BY <1>2, <2>1 DEF TypeOK, RestType, Finish
  <2>4. LifeType'
    BY <1>3, <2>1 DEF TypeOK, LifeType
  <2> QED BY <2>2, <2>3, <2>4 DEF TypeOK
<1>8. CASE Started(r)
  <2>1. /\ UNCHANGED <<turn, hasUser, materialized, native, retired, rpc, faults, settled, nativeClosed,
                       retiring, active>>
        /\ Finish(r) /\ opening' = FALSE /\ id' = req[r].res.th
    BY <1>8 DEF Started
  <2>2. id' \in 0..MaxThreads
    BY <1>1, <2>1 DEF Reqs, Results
  <2>3. TaskType' /\ RetireType' /\ NativeType' /\ ChannelType'
    BY <2>1, <2>2 DEF TypeOK, TaskType, RetireType, NativeType, ChannelType, retired, native
  <2>4. RestType'
    BY <1>2, <2>1 DEF TypeOK, RestType, Finish
  <2>5. LifeType'
    BY <1>3, <2>1 DEF TypeOK, LifeType
  <2> QED BY <2>3, <2>4, <2>5 DEF TypeOK
<1>9. CASE Applied(r)
  <2>1. /\ UNCHANGED <<id, opening, hasUser, native, retired, rpc, faults, nativeClosed, retiring>>
        /\ Finish(r) /\ turn' \in {turn, req[r].res.turn}
        /\ settled' = (settled \/ req[r].m = "thread/archive")
        /\ materialized' = (materialized \/ req[r].m = "turn/start")
    BY <1>9 DEF Applied
  <2>2. turn' \in Turns
    BY <1>1, <2>1 DEF Reqs, Results, TypeOK, TaskType
  <2>3. active' \in BOOLEAN
    BY <1>9 DEF Applied, ActiveAfterAnswer, TypeOK, LifeType
  <2>4. TaskType' /\ RetireType' /\ NativeType' /\ ChannelType'
    BY <2>1, <2>2 DEF TypeOK, TaskType, RetireType, NativeType, ChannelType, retired, native
  <2>5. RestType'
    BY <1>2, <2>1 DEF TypeOK, RestType, Finish
  <2>6. LifeType'
    BY <2>1, <2>3 DEF TypeOK, LifeType, Finish, Scheduled
  <2> QED BY <2>4, <2>5, <2>6 DEF TypeOK
<1> QED BY <1>4, <1>5, <1>6, <1>7, <1>8, <1>9 DEF ClientStep

LEMMA PacketType == ASSUME TypeOK, ReadPacket PROVE TypeOK'
<1> USE ExecutorAssumption
<1> DEFINE p == Head(fromNative)
<1>1. /\ p \in Packets /\ fromNative' \in Seq(Packets)
      /\ UNCHANGED <<owed, nthreads, nturn, narchived, rpc, faults>>
  BY DEF ReadPacket, TypeOK, ChannelType
<1>2. NativeType'
  BY <1>1 DEF TypeOK, NativeType
<1> HIDE DEF p
<1>3. CASE Deliver(p) /\ UNCHANGED toNative
  <2>1. UNCHANGED <<task, life, retired>>
    BY <1>3 DEF Deliver
  <2>2. TaskType' /\ LifeType' /\ RetireType'
    BY <2>1 DEF TypeOK, TaskType, LifeType, RetireType, task, life, retired
  <2>3. ChannelType'
    BY <1>1, <1>3 DEF TypeOK, ChannelType
  <2>4. p.res \in Results
    BY <1>1 DEF Packets
  <2>5. req' \in [Requests -> Reqs]
    <3>1. req \in [Requests -> Reqs]
      BY DEF TypeOK, RestType
    <3>2. \A r \in Requests, x \in {"answered", "failed"} :
            [req[r] EXCEPT !.ph = x, !.res = p.res] \in Reqs
      BY <2>4, <3>1 DEF Reqs
    <3> QED BY <1>3, <3>1, <3>2 DEF Deliver
  <2> QED BY <1>1, <1>2, <2>1, <2>2, <2>3, <2>5 DEF TypeOK, RestType
<1>4. CASE HandleNotification(p) /\ UNCHANGED toNative
  <2>1. UNCHANGED <<id, opening, pending, retiring, retired, req>>
    BY <1>4 DEF HandleNotification
  <2>2. p.turn \in Turns /\ InferredTurn(p) \in Turns /\ p.turn.id \in 0..MaxTurns
    BY <1>1 DEF Packets, InferredTurn, Turns
  <2>3. turn' \in Turns
    BY <1>4, <2>2 DEF HandleNotification, TypeOK, TaskType
  <2>5. hasUser' \in BOOLEAN /\ materialized' \in BOOLEAN
    BY <1>4 DEF HandleNotification, TypeOK, TaskType
  <2>6. /\ active' \in BOOLEAN /\ settled' \in BOOLEAN /\ nativeClosed' \in BOOLEAN
        /\ timer' \in BOOLEAN
    BY <1>4 DEF HandleNotification, Scheduled, TypeOK, LifeType
  <2>7. TaskType' /\ LifeType'
    BY <2>1, <2>3, <2>5, <2>6 DEF TypeOK, TaskType, LifeType
  <2>8. RetireType'
    BY <2>1 DEF TypeOK, RetireType, retired
  <2>9. ChannelType'
    BY <1>1, <1>4 DEF TypeOK, ChannelType
  <2> QED BY <1>1, <1>2, <2>1, <2>7, <2>8, <2>9 DEF TypeOK, RestType
<1>5. CASE VerifyAnswered(p)
  <2>1. UNCHANGED <<task, life, fired, retireTurn, rearm, released, req>>
    BY <1>5 DEF VerifyAnswered
  <2>2. TaskType' /\ LifeType'
    BY <2>1 DEF TypeOK, TaskType, LifeType, task, life
  <2>3. RetireType'
    BY <1>5, <2>1 DEF VerifyAnswered, TypeOK, RetireType
  <2>4. Call(Verify, "thread/turns/list", id) \in Calls
    BY DEF Call, Calls, TypeOK, TaskType
  <2>5. toNative' \in Seq(Calls)
    BY <1>5, <2>4 DEF VerifyAnswered, TypeOK, ChannelType
  <2>6. ChannelType'
    BY <1>1, <2>5 DEF TypeOK, ChannelType
  <2> QED BY <1>1, <1>2, <2>1, <2>2, <2>3, <2>6 DEF TypeOK, RestType
<1> QED BY <1>3, <1>4, <1>5 DEF ReadPacket, p

LEMMA RetireTypeStep ==
  ASSUME TypeOK, Retire \/ TimerFires \/ Release \/ ReleaseFails \/ RetryRetirement \/ Rearm PROVE TypeOK'
<1> USE ExecutorAssumption
<1>1. /\ UNCHANGED <<task, pending, active, settled, nativeClosed, owed, fromNative, nthreads, nturn, narchived,
                      req, rpc>>
      /\ retireTurn' \in {turn, retireTurn} /\ faults' \in {faults, faults + 1}
      /\ faults' # faults => faults < MaxFaults
  BY DEF Retire, TimerFires, Release, ReleaseFails, RetryRetirement, Rearm, task, life, native
<1>2. TaskType' /\ NativeType' /\ RestType'
  BY <1>1 DEF TypeOK, TaskType, NativeType, RestType, task
<1>3. retiring' \in BOOLEAN /\ timer' \in BOOLEAN
  BY DEF Retire, TimerFires, Release, ReleaseFails, RetryRetirement, Rearm, life, TypeOK, LifeType
<1>4. fired' \in BOOLEAN /\ rearm' \in BOOLEAN /\ released' \in BOOLEAN
  BY DEF Retire, TimerFires, Release, ReleaseFails, RetryRetirement, Rearm, TypeOK, RetireType
<1>5. retire' \in {"off", "reading", "listing", "verified", "failed", "done"}
  BY DEF Retire, TimerFires, Release, ReleaseFails, RetryRetirement, Rearm, TypeOK, RetireType
<1>6. LifeType' /\ RetireType'
  BY <1>1, <1>3, <1>4, <1>5 DEF TypeOK, LifeType, RetireType, TaskType
<1>7. Call(Verify, "thread/read", id) \in Calls
  BY DEF Call, Calls, AllMethods, TypeOK, TaskType
<1>8. toNative' = toNative \/ toNative' = Append(toNative, Call(Verify, "thread/read", id))
  BY DEF Retire, TimerFires, Release, ReleaseFails, RetryRetirement, Rearm, native
<1>9. ChannelType'
  BY <1>1, <1>7, <1>8 DEF TypeOK, ChannelType
<1> QED BY <1>2, <1>6, <1>9 DEF TypeOK

LEMMA FaultType ==
  ASSUME TypeOK, VerifyTimeout \/ RpcCloses \/ Disconnect \/ \E r \in Requests : RequestTimeout(r) PROVE TypeOK'
<1> USE ExecutorAssumption
<1>1. CASE VerifyTimeout
  <2>1. UNCHANGED <<task, life, nthreads, nturn, narchived, fired, retireTurn, rearm, released, req, rpc>>
    BY <1>1 DEF VerifyTimeout
  <2>2. TaskType' /\ LifeType' /\ NativeType'
    BY <2>1 DEF TypeOK, TaskType, LifeType, NativeType, task, life
  <2>3. RetireType' /\ RestType'
    BY <1>1, <2>1 DEF VerifyTimeout, TypeOK, RetireType, RestType
  <2>4. /\ \A c \in Calls : Abandon(c) \in Calls
        /\ \A a \in Answers : Abandon(a) \in Answers
        /\ \A m \in Packets : Abandon(m) \in Packets
    BY DEF Abandon, Calls, Answers, Packets
  <2>5. toNative' \in Seq(Calls)
    <3>1. toNative \in Seq(Calls) /\ Len(toNative) \in Nat /\ DOMAIN toNative = 1..Len(toNative)
      BY DEF TypeOK, ChannelType
    <3>2. \A i \in 1..Len(toNative) : toNative[i] \in Calls
      BY <3>1
    <3>3. toNative' = [i \in 1..Len(toNative) |-> Abandon(toNative[i])]
      BY <1>1, <3>1 DEF VerifyTimeout
    <3>4. toNative' \in [1..Len(toNative) -> Calls]
      BY <2>4, <3>2, <3>3
    <3> QED BY <3>1, <3>4, SeqDef
  <2>6. fromNative' \in Seq(Packets)
    <3>1. fromNative \in Seq(Packets) /\ Len(fromNative) \in Nat /\ DOMAIN fromNative = 1..Len(fromNative)
      BY DEF TypeOK, ChannelType
    <3>2. \A i \in 1..Len(fromNative) : fromNative[i] \in Packets
      BY <3>1
    <3>3. fromNative' = [i \in 1..Len(fromNative) |-> Abandon(fromNative[i])]
      BY <1>1, <3>1 DEF VerifyTimeout
    <3>4. fromNative' \in [1..Len(fromNative) -> Packets]
      BY <2>4, <3>2, <3>3
    <3> QED BY <3>1, <3>4, SeqDef
  <2>7. owed' \in SUBSET Answers
    BY <1>1, <2>4 DEF VerifyTimeout, TypeOK, ChannelType
  <2> QED BY <2>2, <2>3, <2>5, <2>6, <2>7 DEF TypeOK, ChannelType
<1>2. ASSUME NEW r \in Requests, RequestTimeout(r) PROVE TypeOK'
  <2>1. UNCHANGED <<task, life, native, retired, rpc>>
    BY <1>2 DEF RequestTimeout
  <2>2. TaskType' /\ LifeType' /\ NativeType' /\ RetireType' /\ ChannelType'
    BY <2>1 DEF TypeOK, TaskType, LifeType, NativeType, RetireType, ChannelType, task, life, native, retired
  <2>3. RestType'
    BY <1>2, <2>1 DEF RequestTimeout, TypeOK, RestType, Reqs
  <2> QED BY <2>2, <2>3 DEF TypeOK
<1>3. CASE RpcCloses
  <2>1. UNCHANGED <<task, life, native, fired, retireTurn, rearm, released>>
    BY <1>3 DEF RpcCloses
  <2>2. TaskType' /\ LifeType' /\ NativeType' /\ ChannelType'
    BY <2>1 DEF TypeOK, TaskType, LifeType, NativeType, ChannelType, task, life, native
  <2>3. RetireType'
    BY <1>3, <2>1 DEF RpcCloses, TypeOK, RetireType
  <2>4. RestType'
    BY <1>3, <2>1 DEF RpcCloses, TypeOK, RestType, Reqs
  <2> QED BY <2>2, <2>3, <2>4 DEF TypeOK
<1>4. CASE Disconnect
  <2>1. /\ UNCHANGED <<task, pending, active, settled, nativeClosed, native, retired, req, faults>>
        /\ rpc' = "closed" /\ retiring' = TRUE /\ timer' = FALSE
    BY <1>4 DEF Disconnect
  <2>2. TaskType' /\ NativeType' /\ ChannelType'
    BY <2>1 DEF TypeOK, TaskType, NativeType, ChannelType, task, native
  <2>3. LifeType' /\ RetireType' /\ RestType'
    BY <2>1 DEF TypeOK, LifeType, RetireType, RestType, retired
  <2> QED BY <2>2, <2>3 DEF TypeOK
<1> QED BY <1>1, <1>2, <1>3, <1>4

LEMMA ReceiveType == ASSUME TypeOK, NEW r \in Requests, Receive(r) PROVE TypeOK'
<1>1. UNCHANGED <<task, active, settled, nativeClosed, retiring, native, retired, rpc, faults>>
  BY DEF Receive
<1>2. TaskType' /\ NativeType' /\ ChannelType' /\ RetireType'
  BY <1>1 DEF TypeOK, TaskType, NativeType, ChannelType, RetireType, task, native, retired
<1>3. /\ pending' = pending \/ pending' = pending \cup {r}
      /\ timer' = timer \/ timer' = FALSE
  BY DEF Receive
<1>4. LifeType'
  BY <1>1, <1>3 DEF TypeOK, LifeType
<1>5. req \in [Requests -> Reqs] /\ req[r] \in Reqs
  BY DEF TypeOK, RestType
<1>6. \A m \in Methods, th \in 0..MaxThreads :
        [req EXCEPT ![r] = [@ EXCEPT !.ph = "admitted", !.m = m, !.th = th]] \in [Requests -> Reqs]
  BY <1>5, ExecutorAssumption DEF Reqs
<1>7. [req EXCEPT ![r].ph = "done"] \in [Requests -> Reqs]
  BY <1>5 DEF Reqs
<1>8. req' \in [Requests -> Reqs]
  <2>1. PICK m \in Methods, th \in 0..MaxThreads :
          \/ req' = [req EXCEPT ![r].ph = "done"]
          \/ req' = [req EXCEPT ![r] = [@ EXCEPT !.ph = "admitted", !.m = m, !.th = th]]
    BY Zenon DEF Receive
  <2>2. CASE req' = [req EXCEPT ![r].ph = "done"]
    BY <1>7, <2>2
  <2>3. CASE req' = [req EXCEPT ![r] = [@ EXCEPT !.ph = "admitted", !.m = m, !.th = th]]
    <3>1. [req EXCEPT ![r] = [@ EXCEPT !.ph = "admitted", !.m = m, !.th = th]] \in [Requests -> Reqs]
      BY <1>6
    <3> QED BY <2>3, <3>1
  <2> QED BY <2>1, <2>2, <2>3
<1> QED BY <1>1, <1>2, <1>4, <1>8 DEF TypeOK, RestType

LEMMA StutterType == ASSUME TypeOK, UNCHANGED vars PROVE TypeOK'
  BY DEF TypeOK, TaskType, LifeType, RetireType, ChannelType, NativeType, RestType,
         vars, task, life, native, retired

LEMMA TypeStep == TypeOK /\ [Next]_vars => TypeOK'
  BY ReceiveType, ClientType, FaultType, PacketType, RetireTypeStep, HandlesType, AnswersType, NotifiesType,
     StutterType DEF Next, Stopped

(* Every variable of the executor and of its native channels keeps its type, *)
(* for any number of clients, threads, turns and faults.                    *)
THEOREM TypeCorrect == Spec => []TypeOK
<1>1. Init => TypeOK
  BY InitType
<1>2. TypeOK /\ [Next]_vars => TypeOK'
  BY TypeStep
<1> QED BY <1>1, <1>2, PTL DEF Spec

-----------------------------------------------------------------------------
Fence == InFlightCounted /\ RetirementFenced /\ ReleasedAtEnd

LEMMA InitFence == Init => Fence
  BY DEF Init, Fence, InFlightCounted, RetirementFenced, ReleasedAtEnd

(* Admission is refused behind the fence, and only the retirement that set  *)
(* the fence, or a closed transport, moves it.                              *)
LEMMA FenceStep == TypeOK /\ Fence /\ [Next]_vars => Fence'
<1> SUFFICES ASSUME TypeOK, Fence, [Next]_vars PROVE Fence'
  OBVIOUS
<1> USE DEF Fence, InFlightCounted, RetirementFenced, ReleasedAtEnd
<1>0. req \in [Requests -> Reqs] /\ pending \in SUBSET Requests /\ \A r \in Requests : req[r] \in Reqs
  BY DEF TypeOK, RestType, LifeType
<1>1. ASSUME NEW r \in Requests, Receive(r) PROVE Fence'
  <2>1. UNCHANGED <<retiring, retired>>
    BY <1>1 DEF Receive
  <2>2. CASE retiring \/ Cardinality(pending) >= MaxPending
    BY <1>0, <1>1, <2>1, <2>2 DEF Receive, retired, Reqs
  <2>3. CASE ~(retiring \/ Cardinality(pending) >= MaxPending)
    BY <1>0, <1>1, <2>1, <2>3 DEF Receive, retired, Reqs
  <2> QED BY <2>2, <2>3
<1>2. ASSUME NEW r \in Requests, ClientStep(r) PROVE Fence'
  <2>1. UNCHANGED <<retiring, retired>>
    BY <1>2 DEF ClientStep, Local, StartChecked, StartOpening, Forward, Fail, Started, Applied, life
  <2>2. CASE StartChecked(r) \/ StartOpening(r) \/ Forward(r)
    <3>1. pending' = pending /\ req[r].ph \notin {"new", "done"} /\ \E x \in {"checked", "sent"} : req' = [req EXCEPT ![r].ph = x]
      BY <2>2 DEF StartChecked, StartOpening, Forward, life
    <3> QED BY <1>0, <2>1, <3>1 DEF retired
  <2>3. CASE Finish(r)
    BY <1>0, <2>1, <2>3 DEF Finish, retired, Reqs
  <2> QED BY <1>2, <2>2, <2>3 DEF ClientStep, Local, Fail, Started, Applied
<1>3. ASSUME NEW r \in Requests, RequestTimeout(r) PROVE Fence'
  BY <1>0, <1>3 DEF RequestTimeout, life, retired
<1>4. CASE ReadPacket
  <2> DEFINE p == Head(fromNative)
  <2> HIDE DEF p
  <2>1. CASE Deliver(p)
    <3>1. UNCHANGED <<life, retired>>
      BY <2>1 DEF Deliver
    <3>2. InFlightCounted'
      BY <1>0, <2>1, <3>1 DEF Deliver, life, Reqs
    <3> QED BY <3>1, <3>2 DEF life, retired
  <2>2. CASE HandleNotification(p)
    BY <2>2 DEF HandleNotification, retired
  <2>3. CASE VerifyAnswered(p)
    <3>1. UNCHANGED <<life, released, req>>
      BY <2>3 DEF VerifyAnswered
    <3>2. released => retire' = "done"
      BY <2>3 DEF VerifyAnswered, Verifying
    <3> QED BY <2>3, <3>1, <3>2 DEF VerifyAnswered, Verifying, life
  <2> QED BY <1>4, <2>1, <2>2, <2>3 DEF ReadPacket, p
<1>5. CASE Retire
  <2>1. UNCHANGED <<pending, released, req>>
    BY <1>5 DEF Retire
  <2>2. CASE RetireBlocked
    BY <1>5, <2>1, <2>2 DEF Retire
  <2>3. CASE ~RetireBlocked
    BY <1>5, <2>1, <2>3 DEF Retire, RetireBlocked
  <2> QED BY <2>2, <2>3
<1>6. CASE TimerFires \/ Release \/ ReleaseFails \/ RetryRetirement \/ Rearm
  BY <1>6 DEF TimerFires, Release, ReleaseFails, RetryRetirement, Rearm, life
<1>7. CASE VerifyTimeout
  BY <1>7 DEF VerifyTimeout, Verifying, life
<1>8. CASE RpcCloses
  BY <1>0, <1>8 DEF RpcCloses, life
<1>9. CASE Disconnect
  BY <1>9 DEF Disconnect, retired
<1>10. CASE NativeHandles \/ NativeAnswers \/ NativeNotifies
  <2>1. UNCHANGED <<life, retired, req>>
    BY <1>10 DEF NativeHandles, NativeAnswers, NativeNotifies
  <2> QED BY <2>1 DEF life, retired
<1>11. CASE UNCHANGED vars
  BY <1>11 DEF vars, life, retired
<1> QED BY <1>1, <1>2, <1>3, <1>4, <1>5, <1>6, <1>7, <1>8, <1>9, <1>10, <1>11 DEF Next, Stopped

(* RetirementFenced: from Retire's guard to the release no client request   *)
(* is in flight and none can be admitted, whatever the timers, answers and  *)
(* transport failures do.                                                   *)
THEOREM RetirementIsFenced == Spec => []RetirementFenced
<1>1. Init => TypeOK /\ Fence
  BY InitType, InitFence
<1>2. TypeOK /\ Fence /\ [Next]_vars => TypeOK' /\ Fence'
  BY TypeStep, FenceStep
<1>3. Fence => RetirementFenced
  BY DEF Fence
<1> QED BY <1>1, <1>2, <1>3, PTL DEF Spec

-----------------------------------------------------------------------------
LEMMA AppendElements ==
  ASSUME NEW S, NEW s \in Seq(S), NEW c \in S
  PROVE  /\ Append(s, c) \in Seq(S) /\ Len(Append(s, c)) = Len(s) + 1 /\ Len(s) \in Nat
         /\ \A i \in 1..Len(s) : Append(s, c)[i] = s[i]
         /\ Append(s, c)[Len(s) + 1] = c
  OBVIOUS

LEMMA TailElements ==
  ASSUME NEW S, NEW s \in Seq(S), s # << >>
  PROVE  /\ Len(Tail(s)) = Len(s) - 1 /\ Len(s) \in Nat \ {0} /\ Head(s) = s[1]
         /\ \A i \in 1..Len(Tail(s)) : Tail(s)[i] = s[i + 1]
  OBVIOUS

LEMMA AbandonElements ==
  ASSUME NEW S, NEW s \in Seq(S)
  PROVE  LET a == [i \in DOMAIN s |-> Abandon(s[i])] IN
           Len(a) = Len(s) /\ \A i \in 1..Len(s) : a[i] = Abandon(s[i])
<1> DEFINE a == [i \in DOMAIN s |-> Abandon(s[i])]
<1>1. Len(s) \in Nat /\ DOMAIN s = 1..Len(s)
  OBVIOUS
<1>2. DOMAIN a = 1..Len(s) /\ \A i \in 1..Len(s) : a[i] = Abandon(s[i])
  BY <1>1
<1>3. a \in Seq({Abandon(s[i]) : i \in 1..Len(s)})
  BY <1>1, SeqDef
<1>4. Len(a) = Len(s)
  BY <1>1, <1>2, <1>3, LenProperties
<1> QED BY <1>2, <1>4

LEMMA AbandonFields ==
  /\ \A c \in Calls : Abandon(c).m = c.m /\ Abandon(c).of # Verify
  /\ \A a \in Answers : Abandon(a).of # Verify
  /\ \A m \in Packets : Abandon(m).of # Verify
<1>1. Verify # Abandoned
  BY DEF Verify, Abandoned
<1>2. \A c \in Calls : Abandon(c).m = c.m /\ Abandon(c).of # Verify
  BY <1>1 DEF Abandon, Calls
<1>3. \A a \in Answers : Abandon(a).of # Verify
  BY <1>1 DEF Abandon, Answers
<1>4. \A m \in Packets : Abandon(m).of # Verify
  BY <1>1 DEF Abandon, Packets
<1> QED BY <1>2, <1>3, <1>4

(* Appending any other call leaves no turn/start in a queue without one.    *)
LEMMA AppendNoStart ==
  ASSUME NEW s \in Seq(Calls), NEW c \in Calls, c.m # "turn/start", \A i \in 1..Len(s) : s[i].m # "turn/start"
  PROVE  \A i \in 1..Len(Append(s, c)) : Append(s, c)[i].m # "turn/start"
<1>1. /\ Len(Append(s, c)) = Len(s) + 1 /\ Len(s) \in Nat
      /\ \A i \in 1..Len(s) : Append(s, c)[i] = s[i]
      /\ Append(s, c)[Len(s) + 1] = c
  BY AppendElements
<1> SUFFICES ASSUME NEW i \in 1..Len(Append(s, c)) PROVE Append(s, c)[i].m # "turn/start"
  OBVIOUS
<1>2. CASE i \in 1..Len(s)
  BY <1>1, <1>2
<1>3. CASE i = Len(s) + 1
  BY <1>1, <1>3
<1> QED BY <1>1, <1>2, <1>3

(* Nothing but a client's turn/start can end the quiet.                     *)
LEMMA OnlyForwardBegins ==
  ASSUME TypeOK, [Next]_vars, Quiet, \A r \in Requests : ~(Forward(r) /\ req[r].m = "turn/start") PROVE Quiet'
<1> USE DEF Quiet, InProgress
<1>0. toNative \in Seq(Calls) /\ fromNative \in Seq(Packets) /\ req \in [Requests -> Reqs]
  BY DEF TypeOK, ChannelType, RestType
<1>1. ASSUME NEW r \in Requests, ClientStep(r) PROVE Quiet'
  <2>1. CASE Local(r) \/ StartChecked(r) \/ Fail(r) \/ Started(r) \/ Applied(r)
    BY <2>1 DEF Local, StartChecked, Fail, Started, Applied, native
  <2>2. CASE StartOpening(r)
    BY <1>0, <2>2 DEF StartOpening, Call
  <2>3. CASE Forward(r)
    <3>1. nturn' = nturn /\ toNative' = Append(toNative, Call(r, req[r].m, req[r].th)) /\ req[r].m # "turn/start"
      BY <2>3 DEF Forward
    <3>2. Call(r, req[r].m, req[r].th) \in Calls /\ Call(r, req[r].m, req[r].th).m # "turn/start"
      BY <1>0, <3>1 DEF Call, Calls, Reqs
    <3>3. \A i \in 1..Len(toNative') : toNative'[i].m # "turn/start"
      BY <1>0, <3>1, <3>2, AppendNoStart
    <3> QED BY <3>1, <3>3
  <2> QED BY <1>1, <2>1, <2>2, <2>3 DEF ClientStep
<1>2. ASSUME NEW r \in Requests, Receive(r) \/ RequestTimeout(r) PROVE Quiet'
  BY <1>2 DEF Receive, RequestTimeout, native
<1>3. CASE ReadPacket
  <2>1. nturn' = nturn /\ (toNative' = toNative \/ toNative' = Append(toNative, Call(Verify, "thread/turns/list", id)))
    BY <1>3 DEF ReadPacket, VerifyAnswered
  <2>2. Call(Verify, "thread/turns/list", id) \in Calls /\ Call(Verify, "thread/turns/list", id).m # "turn/start"
    BY DEF Call, Calls, TypeOK, TaskType
  <2>3. CASE toNative' = toNative
    BY <2>1, <2>3
  <2>4. CASE toNative' # toNative
    <3>1. \A i \in 1..Len(toNative') : toNative'[i].m # "turn/start"
      BY <1>0, <2>1, <2>2, <2>4, AppendNoStart
    <3> QED BY <2>1, <3>1
  <2> QED BY <2>3, <2>4
<1>4. CASE Retire
  <2>1. nturn' = nturn /\ (toNative' = toNative \/ toNative' = Append(toNative, Call(Verify, "thread/read", id)))
    BY <1>4 DEF Retire
  <2>2. Call(Verify, "thread/read", id) \in Calls /\ Call(Verify, "thread/read", id).m # "turn/start"
    BY DEF Call, Calls, AllMethods, TypeOK, TaskType
  <2>3. CASE toNative' = toNative
    BY <2>1, <2>3
  <2>4. CASE toNative' # toNative
    <3>1. \A i \in 1..Len(toNative') : toNative'[i].m # "turn/start"
      BY <1>0, <2>1, <2>2, <2>4, AppendNoStart
    <3> QED BY <2>1, <3>1
  <2> QED BY <2>3, <2>4
<1>5. CASE TimerFires \/ Release \/ ReleaseFails \/ RetryRetirement \/ Rearm \/ RpcCloses \/ Disconnect
  BY <1>5 DEF TimerFires, Release, ReleaseFails, RetryRetirement, Rearm, RpcCloses, Disconnect, native
<1>6. CASE VerifyTimeout
  <2>1. nturn' = nturn /\ toNative' = [i \in DOMAIN toNative |-> Abandon(toNative[i])]
    BY <1>6 DEF VerifyTimeout
  <2>2. \A i \in 1..Len(toNative) : toNative[i] \in Calls
    BY <1>0
  <2>3. Len(toNative') = Len(toNative) /\ \A i \in 1..Len(toNative) : toNative'[i] = Abandon(toNative[i])
    BY <1>0, <2>1, AbandonElements
  <2> QED BY <2>1, <2>2, <2>3, AbandonFields
<1>7. CASE NativeHandles
  <2>1. toNative # << >> /\ toNative' = Tail(toNative) /\ Head(toNative).m # "turn/start"
    BY <1>0, <1>7 DEF NativeHandles
  <2>2. nturn'.status # "inProgress"
    BY <1>7, <2>1 DEF NativeHandles, TypeOK, NativeType, NativeTurns
  <2>3. Len(toNative') = Len(toNative) - 1 /\ \A i \in 1..Len(toNative') : toNative'[i] = toNative[i + 1]
    BY <1>0, <2>1
  <2> QED BY <1>0, <2>2, <2>3
<1>8. CASE NativeAnswers \/ NativeNotifies
  BY <1>8 DEF NativeAnswers, NativeNotifies
<1>9. CASE UNCHANGED vars
  BY <1>9 DEF vars, native
<1> QED BY <1>1, <1>2, <1>3, <1>4, <1>5, <1>6, <1>7, <1>8, <1>9 DEF Next, Stopped

(* ... and that takes an owned task and a request in flight.                *)
LEMMA QuietKept ==
  ASSUME TypeOK, Fence, [Next]_vars, Quiet, pending = {} \/ id = 0 PROVE Quiet'
<1>1. ASSUME NEW r \in Requests, Forward(r), req[r].m = "turn/start" PROVE FALSE
  <2>1. req[r].ph = "admitted" /\ ~Refused(r)
    BY <1>1 DEF Forward
  <2>2. r \in pending
    BY <2>1 DEF Fence, InFlightCounted
  <2> QED BY <1>1, <2>1, <2>2 DEF Refused, InScope
<1> QED BY <1>1, OnlyForwardBegins

-----------------------------------------------------------------------------
LEMMA ChannelTypes ==
  ASSUME TypeOK
  PROVE  /\ toNative \in Seq(Calls) /\ fromNative \in Seq(Packets) /\ owed \in SUBSET Answers
         /\ Len(toNative) \in Nat /\ Len(fromNative) \in Nat
         /\ \A r \in Requests : \A m, th : Call(r, m, th).of # Verify
         /\ \A k, th, x : Note(k, th, x).of # Verify
<1>1. toNative \in Seq(Calls) /\ fromNative \in Seq(Packets) /\ owed \in SUBSET Answers
  BY DEF TypeOK, ChannelType
<1>2. \A r \in Requests : \A m, th : Call(r, m, th).of # Verify
  BY ExecutorAssumption DEF Call
<1>3. \A k, th, x : Note(k, th, x).of # Verify
  BY DEF Note, Verify
<1> QED BY <1>1, <1>2, <1>3

(* What a step that adds nothing of the retirement to the channels, and     *)
(* keeps the retirement waiting, leaves intact.                             *)
LEMMA OnceStep == TypeOK /\ Fence /\ VerifyOnce /\ [Next]_vars => VerifyOnce'
<1> SUFFICES ASSUME TypeOK, Fence, VerifyOnce, [Next]_vars PROVE VerifyOnce'
  OBVIOUS
<1>0. /\ toNative \in Seq(Calls) /\ fromNative \in Seq(Packets) /\ owed \in SUBSET Answers
      /\ Len(toNative) \in Nat /\ Len(fromNative) \in Nat
  BY ChannelTypes
<1>1. ASSUME UNCHANGED <<toNative, owed, fromNative>>, Waiting => Waiting' PROVE VerifyOnce'
  BY <1>1 DEF VerifyOnce
<1>2. ASSUME NEW r \in Requests, ClientStep(r) PROVE VerifyOnce'
  <2>1. UNCHANGED <<retire, rpc>>
    BY <1>2 DEF ClientStep, Local, StartChecked, StartOpening, Forward, Fail, Started, Applied, retired
  <2>2. CASE Local(r) \/ StartChecked(r) \/ Fail(r) \/ Started(r) \/ Applied(r)
    <3>1. UNCHANGED <<toNative, owed, fromNative>>
      BY <2>2 DEF Local, StartChecked, Fail, Started, Applied, native
    <3> QED BY <1>1, <2>1, <3>1 DEF Waiting, Verifying, RpcClosed
  <2>3. CASE StartOpening(r) \/ Forward(r)
    <3>1. UNCHANGED <<owed, fromNative>>
      BY <2>3 DEF StartOpening, Forward
    <3>2. PICK c \in Calls : c.of # Verify /\ toNative' = Append(toNative, c)
      <4>1. Call(r, "thread/start", 0) \in Calls /\ Call(r, req[r].m, req[r].th) \in Calls
        BY ExecutorAssumption DEF TypeOK, RestType, Reqs, Call, Calls, AllMethods
      <4> QED BY <2>3, <4>1, ChannelTypes DEF StartOpening, Forward
    <3>3. /\ Len(toNative') = Len(toNative) + 1 /\ toNative'[Len(toNative) + 1].of # Verify
          /\ \A i \in 1..Len(toNative) : toNative'[i] = toNative[i]
      BY <1>0, <3>2, AppendElements
    <3> QED BY <1>0, <2>1, <3>1, <3>3 DEF VerifyOnce, Waiting, Verifying, RpcClosed
  <2> QED BY <1>2, <2>2, <2>3 DEF ClientStep
<1>3. ASSUME NEW r \in Requests, Receive(r) \/ RequestTimeout(r) PROVE VerifyOnce'
  <2>1. UNCHANGED <<toNative, owed, fromNative, retire, rpc>>
    BY <1>3 DEF Receive, RequestTimeout, native, retired
  <2> QED BY <1>1, <2>1 DEF Waiting, Verifying, RpcClosed
<1>4. CASE TimerFires \/ Release \/ ReleaseFails \/ RetryRetirement \/ Rearm \/ RpcCloses \/ Disconnect
  <2>1. UNCHANGED <<toNative, owed, fromNative>>
    BY <1>4 DEF TimerFires, Release, ReleaseFails, RetryRetirement, Rearm, RpcCloses, Disconnect, native
  <2>2. Waiting => Waiting'
    BY <1>4 DEF TimerFires, Release, ReleaseFails, RetryRetirement, Rearm, RpcCloses, Disconnect, retired,
       Waiting, Verifying, RpcClosed
  <2> QED BY <1>1, <2>1, <2>2
<1>5. CASE VerifyTimeout
  <2>1. /\ Len(toNative') = Len(toNative) /\ \A i \in 1..Len(toNative) : toNative'[i] = Abandon(toNative[i])
        /\ Len(fromNative') = Len(fromNative) /\ \A i \in 1..Len(fromNative) : fromNative'[i] = Abandon(fromNative[i])
        /\ owed' = {Abandon(a) : a \in owed}
    BY <1>0, <1>5, AbandonElements DEF VerifyTimeout
  <2>2. /\ \A i \in 1..Len(toNative') : toNative'[i].of # Verify
        /\ \A i \in 1..Len(fromNative') : fromNative'[i].of # Verify
        /\ \A a \in owed' : a.of # Verify
    BY <1>0, <2>1, AbandonFields
  <2> QED BY <2>2 DEF VerifyOnce
<1>6. CASE Retire
  <2>1. UNCHANGED <<owed, fromNative, rpc>>
    BY <1>6 DEF Retire
  <2>2. CASE RetireBlocked
    BY <1>1, <1>6, <2>1, <2>2 DEF Retire, Waiting, Verifying, RpcClosed
  <2>3. CASE ~RetireBlocked
    <3>1. ~Verifying
      BY <2>3 DEF RetireBlocked, Fence, RetirementFenced, Verifying
    <3>2. CASE retire' = "reading"
      <4>1. ~RpcClosed /\ toNative' = Append(toNative, Call(Verify, "thread/read", id))
        BY <1>6, <2>3, <3>2 DEF Retire
      <4>2. ~Waiting
        BY <3>1, <4>1 DEF Waiting
      <4>3. /\ \A i \in 1..Len(toNative) : toNative[i].of # Verify
            /\ \A i \in 1..Len(fromNative) : fromNative[i].of # Verify
            /\ \A a \in owed : a.of # Verify
        BY <4>2 DEF VerifyOnce
      <4>4. Call(Verify, "thread/read", id) \in Calls /\ Call(Verify, "thread/read", id).m = "thread/read"
        BY ExecutorAssumption DEF Call, Calls, AllMethods, TypeOK, TaskType
      <4>5. /\ Len(toNative') = Len(toNative) + 1 /\ toNative'[Len(toNative) + 1].m = "thread/read"
            /\ \A i \in 1..Len(toNative) : toNative'[i] = toNative[i]
        BY <1>0, <4>1, <4>4, AppendElements
      <4>6. \A i \in 1..Len(toNative') : toNative'[i].of = Verify => i = Len(toNative) + 1
        BY <1>0, <4>3, <4>5
      <4>7. Waiting'
        BY <3>2 DEF Waiting, Verifying
      <4> QED BY <2>1, <4>3, <4>5, <4>6, <4>7 DEF VerifyOnce
    <3>3. CASE retire' # "reading"
      <4>1. toNative' = toNative
        BY <1>6, <2>3, <3>3 DEF Retire
      <4> QED BY <1>1, <2>1, <3>1, <4>1 DEF Waiting, RpcClosed
    <3> QED BY <3>2, <3>3
  <2> QED BY <2>2, <2>3
<1>7. CASE ReadPacket
  <2> DEFINE p == Head(fromNative)
  <2>1. /\ UNCHANGED <<owed, rpc>> /\ fromNative # << >> /\ p = fromNative[1]
        /\ Len(fromNative') = Len(fromNative) - 1
        /\ \A i \in 1..Len(fromNative') : fromNative'[i] = fromNative[i + 1]
    BY <1>0, <1>7, TailElements DEF ReadPacket
  <2> HIDE DEF p
  <2>2. CASE (Deliver(p) \/ HandleNotification(p)) /\ UNCHANGED toNative
    <3>1. UNCHANGED <<retire, toNative>>
      BY <2>2 DEF Deliver, HandleNotification, retired
    <3>2. \A i \in 1..Len(fromNative') : i + 1 \in 1..Len(fromNative)
      BY <1>0, <2>1
    <3>3. Waiting' = Waiting
      BY <2>1, <3>1 DEF Waiting, Verifying, RpcClosed
    <3>4. \A j \in 1..Len(fromNative') : fromNative'[j].of = Verify => fromNative[j + 1].of = Verify
      BY <2>1
    <3>5. \A i, j \in 1..Len(fromNative') :
            fromNative'[i].of = Verify /\ fromNative'[j].of = Verify => Waiting /\ j = i
      <4> SUFFICES ASSUME NEW i \in 1..Len(fromNative'), NEW j \in 1..Len(fromNative'),
                          fromNative'[i].of = Verify, fromNative'[j].of = Verify
                   PROVE Waiting /\ j = i
        OBVIOUS
      <4>1. Waiting /\ j + 1 = i + 1
        BY <3>2, <3>4 DEF VerifyOnce
      <4> QED BY <1>0, <4>1
    <3>6. (\A j \in 1..Len(fromNative) : fromNative[j].of # Verify) => \A j \in 1..Len(fromNative') : fromNative'[j].of # Verify
      BY <3>2, <3>4
    <3> QED BY <2>1, <3>1, <3>3, <3>5, <3>6 DEF VerifyOnce
  <2>3. CASE VerifyAnswered(p)
    <3>1. p.of = Verify
      BY <2>3 DEF VerifyAnswered
    <3>2. /\ \A i \in 1..Len(toNative) : toNative[i].of # Verify
          /\ \A i \in 2..Len(fromNative) : fromNative[i].of # Verify
          /\ \A a \in owed : a.of # Verify
      BY <1>0, <2>1, <3>1 DEF VerifyOnce
    <3>3. \A i \in 1..Len(fromNative') : fromNative'[i].of # Verify
      BY <1>0, <2>1, <3>2
    <3>4. CASE retire' = "listing"
      <4>1. toNative' = Append(toNative, Call(Verify, "thread/turns/list", id))
        BY <2>3, <3>4 DEF VerifyAnswered
      <4>2. Call(Verify, "thread/turns/list", id) \in Calls /\ Call(Verify, "thread/turns/list", id).m = "thread/turns/list"
        BY ExecutorAssumption DEF Call, Calls, TypeOK, TaskType
      <4>3. /\ Len(toNative') = Len(toNative) + 1 /\ toNative'[Len(toNative) + 1].m = "thread/turns/list"
            /\ \A i \in 1..Len(toNative) : toNative'[i] = toNative[i]
        BY <1>0, <4>1, <4>2, AppendElements
      <4>4. \A i \in 1..Len(toNative') : toNative'[i].of = Verify => i = Len(toNative) + 1
        BY <1>0, <3>2, <4>3
      <4>5. Waiting'
        BY <3>4 DEF Waiting, Verifying
      <4> QED BY <2>1, <3>2, <3>3, <4>3, <4>4, <4>5 DEF VerifyOnce
    <3>5. CASE retire' # "listing"
      <4>1. toNative' = toNative
        BY <2>3, <3>5 DEF VerifyAnswered
      <4> QED BY <2>1, <3>2, <3>3, <4>1 DEF VerifyOnce
    <3> QED BY <3>4, <3>5
  <2> QED BY <1>7, <2>2, <2>3 DEF ReadPacket, p
<1>8. CASE NativeHandles
  <2> DEFINE c == Head(toNative)
  <2>1. /\ UNCHANGED <<retire, rpc>> /\ toNative # << >> /\ toNative' = Tail(toNative)
    BY <1>8 DEF NativeHandles, retired
  <2>2. /\ c = toNative[1] /\ Len(toNative') = Len(toNative) - 1
        /\ \A i \in 1..Len(toNative') : toNative'[i] = toNative[i + 1]
    BY <1>0, <2>1, TailElements
  <2>3. \E a : a.of = c.of /\ owed' = owed \cup {a}
    BY <1>8 DEF NativeHandles
  <2>4. fromNative' = fromNative \/ \E m \in Packets : m.of # Verify /\ fromNative' = Append(fromNative, m)
    <3>1. fromNative' = fromNative \/ (c.m = "thread/archive" /\ fromNative' = Append(fromNative, Note("thread/archived", c.th, NativeTurn)))
      BY <1>8 DEF NativeHandles
    <3>2. Note("thread/archived", c.th, NativeTurn) \in Packets
      <4>1. c \in Calls
        BY <1>0, <2>1
      <4>2. NativeTurn \in Turns
        BY Nulls DEF TypeOK, NativeType, NativeTurns, NativeTurn, Turns
      <4> QED BY <4>1, <4>2, Nulls DEF Note, Packets, Calls
    <3> QED BY <3>1, <3>2, ChannelTypes
  <2> HIDE DEF c
  <2>5. /\ Len(fromNative') \in Nat /\ Len(fromNative') >= Len(fromNative)
        /\ \A i \in 1..Len(fromNative) : fromNative'[i] = fromNative[i]
        /\ \A i \in 1..Len(fromNative') : fromNative'[i].of = Verify => i \in 1..Len(fromNative)
    BY <1>0, <2>4, AppendElements
  <2>6. PICK a : a.of = c.of /\ owed' = owed \cup {a}
    BY <2>3
  <2>7. CASE c.of = Verify
    <3>1. /\ Waiting
          /\ \A i \in 2..Len(toNative) : toNative[i].of # Verify
          /\ \A b \in owed : b.of # Verify
          /\ \A j \in 1..Len(fromNative) : fromNative[j].of # Verify
      BY <1>0, <2>1, <2>2, <2>7, TailElements DEF VerifyOnce
    <3>2. /\ \A i \in 1..Len(toNative') : toNative'[i].of # Verify
          /\ \A j \in 1..Len(fromNative') : fromNative'[j].of # Verify
          /\ \A b \in owed' : b.of = Verify => b = a
      <4>1. \A i \in 1..Len(toNative') : i + 1 \in 2..Len(toNative)
        BY <1>0, <2>2
      <4>2. \A i \in 1..Len(toNative') : toNative'[i].of # Verify
        BY <2>2, <3>1, <4>1
      <4>3. \A j \in 1..Len(fromNative') : fromNative'[j].of # Verify
        BY <2>5, <3>1
      <4>4. \A b \in owed' : b.of = Verify => b = a
        BY <2>6, <3>1
      <4> QED BY <4>2, <4>3, <4>4
    <3>3. Waiting'
      BY <2>1, <3>1 DEF Waiting, Verifying, RpcClosed
    <3> QED BY <3>2, <3>3 DEF VerifyOnce
  <2>8. CASE c.of # Verify
    <3>1. \A b \in owed' : b.of = Verify => b \in owed
      BY <2>6, <2>8
    <3>2. \A i \in 1..Len(toNative') : i + 1 \in 1..Len(toNative)
      BY <1>0, <2>2
    <3>3. Waiting => Waiting'
      BY <2>1 DEF Waiting, Verifying, RpcClosed
    <3>4. \A i \in 1..Len(toNative') : toNative'[i].of = Verify =>
            /\ Waiting' /\ toNative'[i].m # "turn/start" /\ toNative'[i].m # "thread/archive"
            /\ \A b \in owed' : b.of # Verify
            /\ \A j \in 1..Len(fromNative') : fromNative'[j].of # Verify
      BY <2>2, <2>5, <3>1, <3>2, <3>3 DEF VerifyOnce
    <3>5. \A i, j \in 1..Len(toNative') : toNative'[i].of = Verify /\ toNative'[j].of = Verify => j = i
      <4> SUFFICES ASSUME NEW i \in 1..Len(toNative'), NEW j \in 1..Len(toNative'),
                          toNative'[i].of = Verify, toNative'[j].of = Verify
                   PROVE j = i
        OBVIOUS
      <4>1. toNative[i + 1].of = Verify /\ toNative[j + 1].of = Verify
        BY <2>2
      <4>2. j + 1 = i + 1
        BY <3>2, <4>1 DEF VerifyOnce
      <4> QED BY <1>0, <4>2
    <3>6. \A b \in owed' : b.of = Verify =>
            /\ Waiting'
            /\ \A d \in owed' : d.of = Verify => d = b
            /\ \A j \in 1..Len(fromNative') : fromNative'[j].of # Verify
      BY <2>5, <3>1, <3>3 DEF VerifyOnce
    <3>7. \A i \in 1..Len(fromNative') : fromNative'[i].of = Verify =>
            Waiting' /\ \A j \in 1..Len(fromNative') : fromNative'[j].of = Verify => j = i
      BY <2>5, <3>3 DEF VerifyOnce
    <3> QED BY <3>4, <3>5, <3>6, <3>7 DEF VerifyOnce
  <2> QED BY <2>7, <2>8
<1>9. CASE NativeAnswers
  <2>1. UNCHANGED <<retire, rpc, toNative>>
    BY <1>9 DEF NativeAnswers, retired
  <2>2. PICK a \in owed : owed' = owed \ {a} /\ fromNative' = Append(fromNative, Answer(a.of, a.res))
    BY <1>9 DEF NativeAnswers
  <2>3. Answer(a.of, a.res) \in Packets /\ Answer(a.of, a.res).of = a.of
    BY <1>0, Nulls, ExecutorAssumption DEF Answer, Answers, Packets
  <2>4. /\ Len(fromNative') = Len(fromNative) + 1 /\ fromNative'[Len(fromNative) + 1].of = a.of
        /\ \A i \in 1..Len(fromNative) : fromNative'[i] = fromNative[i]
    BY <1>0, <2>2, <2>3, AppendElements
  <2>5. Waiting => Waiting'
    BY <2>1 DEF Waiting, Verifying, RpcClosed
  <2>6. CASE a.of = Verify
    <3>1. /\ Waiting /\ \A b \in owed : b.of = Verify => b = a
          /\ \A j \in 1..Len(fromNative) : fromNative[j].of # Verify
          /\ \A j \in 1..Len(toNative) : toNative[j].of # Verify
      BY <2>6 DEF VerifyOnce
    <3>2. \A j \in 1..Len(fromNative') : fromNative'[j].of = Verify => j = Len(fromNative) + 1
      BY <1>0, <2>4, <3>1
    <3> QED BY <2>1, <2>2, <2>5, <3>1, <3>2 DEF VerifyOnce
  <2>7. CASE a.of # Verify
    <3>1. \A j \in 1..Len(fromNative') : fromNative'[j].of = Verify => j \in 1..Len(fromNative)
      BY <1>0, <2>4, <2>7
    <3> QED BY <2>1, <2>2, <2>4, <2>5, <3>1 DEF VerifyOnce
  <2> QED BY <2>6, <2>7
<1>10. CASE NativeNotifies
  <2>1. UNCHANGED <<retire, rpc, toNative, owed>>
    BY <1>10 DEF NativeNotifies, retired
  <2>2. PICK k \in {"turn/started", "item/started", "turn/completed"}, x \in Turns : fromNative' = Append(fromNative, Note(k, nturn.th, x))
    <3>1. NativeTurn \in Turns /\ \A s \in Terminal : [id |-> nturn.id, status |-> s] \in Turns
      BY Nulls DEF TypeOK, NativeType, NativeTurns, NativeTurn, Turns
    <3> QED BY <1>10, <3>1 DEF NativeNotifies
  <2>3. Note(k, nturn.th, x) \in Packets
    BY Nulls DEF Note, Packets, TypeOK, NativeType, NativeTurns
  <2>4. /\ Len(fromNative') = Len(fromNative) + 1 /\ fromNative'[Len(fromNative) + 1].of # Verify
        /\ \A i \in 1..Len(fromNative) : fromNative'[i] = fromNative[i]
    BY <1>0, <2>2, <2>3, AppendElements, ChannelTypes
  <2>5. \A j \in 1..Len(fromNative') : fromNative'[j].of = Verify => j \in 1..Len(fromNative)
    BY <1>0, <2>4
  <2>6. Waiting => Waiting'
    BY <2>1 DEF Waiting, Verifying, RpcClosed
  <2> QED BY <2>1, <2>4, <2>5, <2>6 DEF VerifyOnce
<1>11. CASE UNCHANGED vars
  BY <1>1, <1>11 DEF vars, native, retired, Waiting, Verifying, RpcClosed
<1> QED BY <1>2, <1>3, <1>4, <1>5, <1>6, <1>7, <1>8, <1>9, <1>10, <1>11 DEF Next, Stopped

(* The order of the read and what its answer means are kept while           *)
(* verifyIdle waits for it: behind the fence no client step is left.        *)
LEMMA OrderedStep == TypeOK /\ Fence /\ VerifyOnce /\ ReadOrdered /\ [Next]_vars => ReadOrdered'
<1> SUFFICES ASSUME TypeOK, Fence, VerifyOnce, ReadOrdered, [Next]_vars, retire' = "reading"
             PROVE  ReadOrdered'
  BY DEF ReadOrdered
<1>0. /\ toNative \in Seq(Calls) /\ fromNative \in Seq(Packets) /\ owed \in SUBSET Answers
      /\ Len(toNative) \in Nat /\ Len(fromNative) \in Nat
  BY ChannelTypes
<1>1. CASE Retire /\ retire # "reading"
  <2>1. ~RetireBlocked /\ ~RpcClosed /\ toNative' = Append(toNative, Call(Verify, "thread/read", id))
        /\ UNCHANGED <<owed, fromNative>>
    BY <1>1 DEF Retire
  <2>2. ~Waiting
    BY <2>1 DEF RetireBlocked, Fence, RetirementFenced, Waiting, Verifying
  <2>3. /\ \A i \in 1..Len(toNative) : toNative[i].of # Verify
        /\ \A i \in 1..Len(fromNative) : fromNative[i].of # Verify
        /\ \A a \in owed : a.of # Verify
    BY <2>2 DEF VerifyOnce
  <2>4. Call(Verify, "thread/read", id) \in Calls
    BY ExecutorAssumption DEF Call, Calls, AllMethods, TypeOK, TaskType
  <2>5. /\ Len(toNative') = Len(toNative) + 1
        /\ \A i \in 1..Len(toNative) : toNative'[i] = toNative[i]
    BY <1>0, <2>1, <2>4, AppendElements
  <2>6. \A i \in 1..Len(toNative') : toNative'[i].of = Verify => i = Len(toNative')
    BY <1>0, <2>3, <2>5
  <2>7. \A i, j \in 1..Len(toNative') : i < j => toNative'[i].of # Verify
    BY <1>0, <2>5, <2>6
  <2> QED BY <2>1, <2>3, <2>7 DEF ReadOrdered
<1>2. CASE retire = "reading"
  <2>0. retiring /\ pending = {} /\ Verifying
    BY <1>2 DEF Fence, RetirementFenced, Verifying
  <2>1. Quiet => Quiet'
    BY <2>0, QuietKept
  <2>2. ASSUME UNCHANGED <<toNative, owed, fromNative>> PROVE ReadOrdered'
    BY <1>2, <2>1, <2>2 DEF ReadOrdered
  <2>3. ASSUME NEW r \in Requests, ClientStep(r) PROVE FALSE
    <3>1. req[r].ph \notin {"new", "done"}
      BY <2>3 DEF ClientStep, Local, StartChecked, StartOpening, Forward, Fail, Started, Applied
    <3> QED BY <2>0, <3>1 DEF Fence, InFlightCounted
  <2>4. ASSUME NEW r \in Requests, Receive(r) \/ RequestTimeout(r) PROVE ReadOrdered'
    BY <2>2, <2>4 DEF Receive, RequestTimeout, native
  <2>5. CASE TimerFires \/ Release \/ ReleaseFails \/ RetryRetirement \/ Rearm \/ RpcCloses \/ Disconnect
    BY <2>2, <2>5 DEF TimerFires, Release, ReleaseFails, RetryRetirement, Rearm, RpcCloses, Disconnect, native
  <2>6. CASE VerifyTimeout
    BY <2>6 DEF VerifyTimeout
  <2>7. CASE Retire
    BY <2>0, <2>2, <2>7 DEF Retire, RetireBlocked
  <2>8. CASE ReadPacket
    <3>1. UNCHANGED toNative
      BY <2>8 DEF ReadPacket, VerifyAnswered
    <3>2. /\ UNCHANGED owed /\ Len(fromNative') = Len(fromNative) - 1
          /\ \A i \in 1..Len(fromNative') : fromNative'[i] = fromNative[i + 1]
      BY <1>0, <2>8, TailElements DEF ReadPacket
    <3>3. \A i \in 1..Len(fromNative') : i + 1 \in 1..Len(fromNative)
      BY <1>0, <3>2
    <3> QED BY <1>2, <2>1, <3>1, <3>2, <3>3 DEF ReadOrdered
  <2>9. CASE NativeHandles
    <3> DEFINE c == Head(toNative)
    <3>1. /\ toNative # << >> /\ toNative' = Tail(toNative)
      BY <2>9 DEF NativeHandles
    <3>2. /\ c = toNative[1] /\ Len(toNative') = Len(toNative) - 1 /\ Len(toNative) \in Nat \ {0}
          /\ \A i \in 1..Len(toNative') : toNative'[i] = toNative[i + 1]
      BY <1>0, <3>1, TailElements
    <3>3. \E ok, th, x : owed' = owed \cup {[of |-> c.of, m |-> c.m,
                                          res |-> [ok |-> ok, th |-> th, turn |-> x, status |-> ThreadStatus]]}
      BY <2>9 DEF NativeHandles
    <3>4. c.m # "thread/archive" => fromNative' = fromNative
      BY <2>9 DEF NativeHandles
    <3>5. c.m # "turn/start" /\ c.m # "thread/archive" => nturn' = nturn
      BY <2>9 DEF NativeHandles
    <3>6. fromNative' = fromNative \/ fromNative' = Append(fromNative, Note("thread/archived", c.th, NativeTurn))
      BY <2>9 DEF NativeHandles
    <3>7. c \in Calls
      BY <1>0, <3>1
    <3> HIDE DEF c
    <3>8. PICK a : owed' = owed \cup {a} /\ a.of = c.of /\ a.res.status = ThreadStatus
      <4>1. PICK ok, th, x : owed' = owed \cup {[of |-> c.of, m |-> c.m,
                                          res |-> [ok |-> ok, th |-> th, turn |-> x, status |-> ThreadStatus]]}
        BY <3>3
      <4> DEFINE a == [of |-> c.of, m |-> c.m,
                       res |-> [ok |-> ok, th |-> th, turn |-> x, status |-> ThreadStatus]]
      <4>2. a.of = c.of /\ a.res.status = ThreadStatus
        OBVIOUS
      <4>3. owed' = owed \cup {a}
        BY <4>1
      <4> HIDE DEF a
      <4> QED BY <4>2, <4>3
    <3>9. c.of = Verify /\ ThreadStatus # "active" => Quiet'
      <4> SUFFICES ASSUME c.of = Verify, ThreadStatus # "active" PROVE Quiet'
        OBVIOUS
      <4>1. c.m # "turn/start" /\ c.m # "thread/archive"
        BY <3>2 DEF VerifyOnce
      <4>2. ~InProgress'
        <5>1. ~InProgress
          BY DEF ThreadStatus
        <5>2. nturn' = nturn
          BY <3>5, <4>1
        <5> QED BY <5>1, <5>2 DEF InProgress
      <4>3. \A j \in 2..Len(toNative) : toNative[j].m # "turn/start"
        BY <1>0, <1>2, <3>2 DEF ReadOrdered
      <4>4. \A i \in 1..Len(toNative') : i + 1 \in 2..Len(toNative)
        BY <3>2
      <4> QED BY <3>2, <4>2, <4>3, <4>4 DEF Quiet
    <3>10. \A b \in owed' : b.of = Verify /\ b.res.status # "active" => Quiet'
      BY <1>2, <2>1, <3>8, <3>9 DEF ReadOrdered
    <3>11. \A i, j \in 1..Len(toNative') : i < j /\ toNative'[i].of = Verify => toNative'[j].m # "turn/start"
      <4>1. \A i \in 1..Len(toNative') : i + 1 \in 1..Len(toNative)
        BY <3>2
      <4>2. \A i, j \in 1..Len(toNative') : i < j => i + 1 < j + 1
        BY <3>2
      <4> QED BY <1>2, <3>2, <4>1, <4>2 DEF ReadOrdered
    <3>12. \A i \in 1..Len(fromNative') : fromNative'[i].of = Verify /\ fromNative'[i].res.status # "active" => Quiet'
      <4>1. CASE fromNative' = fromNative
        BY <1>2, <2>1, <4>1 DEF ReadOrdered
      <4>2. CASE fromNative' = Append(fromNative, Note("thread/archived", c.th, NativeTurn))
        <5>1. NativeTurn \in Turns
          BY Nulls DEF TypeOK, NativeType, NativeTurns, NativeTurn, Turns
        <5>2. Note("thread/archived", c.th, NativeTurn) \in Packets
          BY <3>7, <5>1, Nulls DEF Note, Packets, Calls
        <5>3. /\ Len(fromNative') = Len(fromNative) + 1 /\ fromNative'[Len(fromNative) + 1].of # Verify
              /\ \A i \in 1..Len(fromNative) : fromNative'[i] = fromNative[i]
          BY <1>0, <4>2, <5>2, AppendElements, ChannelTypes
        <5>4. \A j \in 1..Len(fromNative') : fromNative'[j].of = Verify => j \in 1..Len(fromNative)
          BY <1>0, <5>3
        <5> QED BY <1>2, <2>1, <5>3, <5>4 DEF ReadOrdered
      <4> QED BY <3>6, <4>1, <4>2
    <3> QED BY <3>10, <3>11, <3>12 DEF ReadOrdered
  <2>10. CASE NativeAnswers
    <3>1. UNCHANGED toNative
      BY <2>10 DEF NativeAnswers
    <3>2. PICK a \in owed : owed' = owed \ {a} /\ fromNative' = Append(fromNative, Answer(a.of, a.res))
      BY <2>10 DEF NativeAnswers
    <3>3. Answer(a.of, a.res) \in Packets /\ Answer(a.of, a.res).of = a.of /\ Answer(a.of, a.res).res = a.res
      BY <1>0, Nulls, ExecutorAssumption DEF Answer, Answers, Packets
    <3>4. /\ Len(fromNative') = Len(fromNative) + 1
          /\ fromNative'[Len(fromNative) + 1].of = a.of /\ fromNative'[Len(fromNative) + 1].res = a.res
          /\ \A i \in 1..Len(fromNative) : fromNative'[i] = fromNative[i]
      BY <1>0, <3>2, <3>3, AppendElements
    <3>5. \A i \in 1..Len(fromNative') : fromNative'[i].of = Verify /\ fromNative'[i].res.status # "active" => Quiet'
      <4>1. \A i \in 1..Len(fromNative') : i \in 1..Len(fromNative) \/ i = Len(fromNative) + 1
        BY <1>0, <3>4
      <4> QED BY <1>2, <2>1, <3>4, <4>1 DEF ReadOrdered
    <3> QED BY <1>2, <2>1, <3>1, <3>2, <3>5 DEF ReadOrdered
  <2>11. CASE NativeNotifies
    <3>1. UNCHANGED <<toNative, owed>>
      BY <2>11 DEF NativeNotifies
    <3>2. \E m \in Packets : m.of # Verify /\ fromNative' = Append(fromNative, m)
      <4>1. NativeTurn \in Turns /\ \A s \in Terminal : [id |-> nturn.id, status |-> s] \in Turns
        BY Nulls DEF TypeOK, NativeType, NativeTurns, NativeTurn, Turns
      <4>2. \A k \in {"turn/started", "item/started", "turn/completed"}, x \in Turns : Note(k, nturn.th, x) \in Packets
        BY Nulls DEF Note, Packets, TypeOK, NativeType, NativeTurns
      <4> QED BY <2>11, <4>1, <4>2, ChannelTypes DEF NativeNotifies
    <3>3. PICK m \in Packets : m.of # Verify /\ fromNative' = Append(fromNative, m)
      BY <3>2
    <3>4. /\ Len(fromNative') = Len(fromNative) + 1 /\ fromNative'[Len(fromNative) + 1].of # Verify
          /\ \A i \in 1..Len(fromNative) : fromNative'[i] = fromNative[i]
      BY <1>0, <3>3, AppendElements
    <3>5. \A j \in 1..Len(fromNative') : fromNative'[j].of = Verify => j \in 1..Len(fromNative)
      BY <1>0, <3>4
    <3> QED BY <1>2, <2>1, <3>1, <3>4, <3>5 DEF ReadOrdered
  <2>12. CASE UNCHANGED vars
    BY <2>2, <2>12 DEF vars, native
  <2> QED BY <2>3, <2>4, <2>5, <2>6, <2>7, <2>8, <2>9, <2>10, <2>11, <2>12 DEF Next, Stopped
<1>3. ASSUME retire # "reading" PROVE Retire
  <2>1. ASSUME NEW r \in Requests, ClientStep(r) \/ Receive(r) \/ RequestTimeout(r) PROVE FALSE
    BY <1>3, <2>1 DEF Receive, RequestTimeout, ClientStep, Local, StartChecked, StartOpening, Forward, Fail,
       Started, Applied, retired
  <2>2. ~ReadPacket
    BY <1>3 DEF ReadPacket, Deliver, HandleNotification, VerifyAnswered, retired
  <2>3. ~(TimerFires \/ Release \/ ReleaseFails \/ RetryRetirement \/ Rearm \/ RpcCloses \/ Disconnect \/ VerifyTimeout)
    BY <1>3 DEF TimerFires, Release, ReleaseFails, RetryRetirement, Rearm, RpcCloses, Disconnect, VerifyTimeout, retired
  <2>4. ~(NativeHandles \/ NativeAnswers \/ NativeNotifies \/ UNCHANGED vars)
    BY <1>3 DEF NativeHandles, NativeAnswers, NativeNotifies, vars, retired
  <2> QED BY <2>1, <2>2, <2>3, <2>4 DEF Next, Stopped
<1> QED BY <1>1, <1>2, <1>3

LEMMA QuietStep ==
  TypeOK /\ Fence /\ ReadOrdered /\ NoTaskQuiet /\ VerifiedQuiet /\ [Next]_vars => NoTaskQuiet' /\ VerifiedQuiet'
<1> SUFFICES ASSUME TypeOK, Fence, ReadOrdered, NoTaskQuiet, VerifiedQuiet, [Next]_vars
             PROVE  NoTaskQuiet' /\ VerifiedQuiet'
  OBVIOUS
<1>1. NoTaskQuiet'
  <2> SUFFICES ASSUME id' = 0 PROVE Quiet'
    BY DEF NoTaskQuiet
  <2>1. id = 0
    BY DEF Next, Stopped, vars, task, Receive, ClientStep, Local, StartChecked, StartOpening, Forward, Fail, Started,
       Applied, RequestTimeout, ReadPacket, Deliver, HandleNotification, VerifyAnswered, TimerFires, Retire, Release,
       ReleaseFails, VerifyTimeout, RetryRetirement, Rearm, RpcCloses, Disconnect, NativeHandles, NativeAnswers,
       NativeNotifies
  <2> QED BY <2>1, QuietKept DEF NoTaskQuiet
<1>2. VerifiedQuiet'
  <2> SUFFICES ASSUME retire' \in {"listing", "verified", "done"} PROVE Quiet'
    BY DEF VerifiedQuiet
  <2>1. CASE retire \in {"listing", "verified", "done"}
    BY <2>1, QuietKept DEF VerifiedQuiet, Fence, RetirementFenced
  <2>2. CASE retire \notin {"listing", "verified", "done"}
    <3>1. Retire \/ (ReadPacket /\ VerifyAnswered(Head(fromNative)))
      BY <2>2 DEF Next, Stopped, vars, retired, Receive, ClientStep, Local, StartChecked, StartOpening, Forward, Fail,
         Started, Applied, RequestTimeout, ReadPacket, Deliver, HandleNotification, TimerFires, Release, ReleaseFails,
         VerifyTimeout, RetryRetirement, Rearm, RpcCloses, Disconnect, NativeHandles, NativeAnswers, NativeNotifies
    <3>2. CASE Retire
      <4>1. id = 0
        BY <2>2, <3>2 DEF Retire
      <4> QED BY <4>1, QuietKept DEF NoTaskQuiet
    <3>3. CASE ReadPacket /\ VerifyAnswered(Head(fromNative))
      <4>1. /\ retire = "reading" /\ Head(fromNative).of = Verify
            /\ Head(fromNative).res.status # "active"
        BY <2>2, <3>3 DEF VerifyAnswered, Verifying, Inactive
      <4>2. Head(fromNative) = fromNative[1] /\ 1 \in 1..Len(fromNative)
        <5>1. fromNative # << >> /\ fromNative \in Seq(Packets)
          BY <3>3 DEF ReadPacket, TypeOK, ChannelType
        <5> QED BY <5>1, TailElements
      <4>3. Quiet
        BY <4>1, <4>2 DEF ReadOrdered
      <4>4. pending = {}
        BY <4>1 DEF Fence, RetirementFenced
      <4> QED BY <4>3, <4>4, QuietKept
    <3> QED BY <3>1, <3>2, <3>3
  <2> QED BY <2>1, <2>2
<1> QED BY <1>1, <1>2

(* Fence, order of the retirement's one exchange and quiet are inductive    *)
(* together.                                                                *)
Inv == TypeOK /\ Fence /\ NoTaskQuiet /\ VerifiedQuiet /\ VerifyOnce /\ ReadOrdered

LEMMA Invariance == Spec => []Inv
<1>1. Init => Inv
  <2> SUFFICES ASSUME Init PROVE NoTaskQuiet /\ VerifiedQuiet /\ VerifyOnce /\ ReadOrdered
    BY InitType, InitFence DEF Inv
  <2>1. toNative = << >> /\ fromNative = << >> /\ owed = {} /\ nturn.status = "none" /\ retire = "off"
    BY DEF Init
  <2>2. Len(toNative) = 0 /\ Len(fromNative) = 0
    BY <2>1
  <2> QED BY <2>1, <2>2 DEF NoTaskQuiet, VerifiedQuiet, VerifyOnce, ReadOrdered, Quiet, InProgress
<1>2. Inv /\ [Next]_vars => Inv'
  BY TypeStep, FenceStep, OnceStep, OrderedStep, QuietStep DEF Inv
<1> QED BY <1>1, <1>2, PTL DEF Spec

(* ReleasedOnlyIdle: releaseNative succeeds only when the native task has    *)
(* no turn in progress and no turn/start is left for it to run.             *)
THEOREM ReleasedWhenIdle == Spec => []ReleasedOnlyIdle
<1>1. Inv => ReleasedOnlyIdle
  BY DEF Inv, Fence, ReleasedAtEnd, VerifiedQuiet, ReleasedOnlyIdle
<1> QED BY <1>1, Invariance, PTL

-----------------------------------------------------------------------------
(* The executor, with its clients, timers, faults and native process,       *)
(* implements the lifetime of a native writer (module WriterLifetime): its  *)
(* steps are sorted by what they can change of the abstract state, and the  *)
(* invariant is the one that shows ReleasedOnlyIdle.                        *)
Fenced == retire \in {"reading", "listing", "verified", "done"}

(* Whoever waits for an answer is in front of the fence.                    *)
LEMMA Serving == ASSUME Fence, pending # {} PROVE Phase = "serving"
<1>1. ~Fenced /\ ~released
  BY DEF Fence, RetirementFenced, ReleasedAtEnd, Fenced
<1> QED BY <1>1 DEF Phase, Fenced

(* A client is admitted in front of the fence, or refused.                  *)
LEMMA ReceiveAdmits ==
  ASSUME Inv, NEW r \in Requests, Receive(r) PROVE Lifetime!Admit(r) \/ UNCHANGED Lifetime!vars
<1>1. UNCHANGED <<native, retired>>
  BY DEF Receive
<1>2. UNCHANGED <<Quiet, Phase>>
  BY <1>1 DEF native, retired, Quiet, InProgress, Phase
<1>3. pending' = pending \/ (~retiring /\ pending' = pending \cup {r})
  BY DEF Receive
<1>4. ~retiring => Phase = "serving"
  BY DEF Inv, Fence, RetirementFenced, ReleasedAtEnd, Phase
<1> QED BY <1>2, <1>3, <1>4 DEF Lifetime!Admit, Lifetime!vars

(* A client's step answers it, begins work for it, or is not visible.       *)
LEMMA ClientAnswers ==
  ASSUME Inv, NEW r \in Requests, ClientStep(r)
  PROVE  Lifetime!Answer(r) \/ Lifetime!BeginWork \/ UNCHANGED Lifetime!vars
<1>1. UNCHANGED retired
  BY DEF ClientStep, Local, StartChecked, StartOpening, Forward, Fail, Started, Applied
<1>2. UNCHANGED Phase
  BY <1>1 DEF retired, Phase
<1>3. r \in pending /\ Phase = "serving"
  <2>1. req[r].ph \notin {"new", "done"}
    BY DEF ClientStep, Local, StartChecked, StartOpening, Forward, Fail, Started, Applied
  <2>2. r \in pending
    BY <2>1 DEF Inv, Fence, InFlightCounted
  <2> QED BY <2>2, Serving DEF Inv
<1>4. CASE Local(r) \/ Fail(r) \/ Started(r) \/ Applied(r)
  <2>1. UNCHANGED native /\ pending' = pending \ {r}
    BY <1>4 DEF Local, Fail, Started, Applied, Finish
  <2>2. UNCHANGED Quiet
    BY <2>1 DEF native, Quiet, InProgress
  <2> QED BY <1>2, <1>3, <2>1, <2>2 DEF Lifetime!Answer
<1>5. CASE StartChecked(r)
  BY <1>2, <1>5 DEF StartChecked, life, native, Quiet, InProgress, Lifetime!vars
<1>6. CASE StartOpening(r) \/ Forward(r)
  <2>1. UNCHANGED <<life, nturn>> /\ \E m \in AllMethods, th \in 0..MaxThreads : toNative' = Append(toNative, Call(r, m, th))
    <3>1. req[r] \in Reqs
      BY DEF Inv, TypeOK, RestType
    <3>2. 0 \in 0..MaxThreads
      BY ExecutorAssumption
    <3> QED BY <1>6, <3>1, <3>2 DEF StartOpening, Forward, Reqs, AllMethods
  <2>2. ~Quiet => ~Quiet'
    <3> SUFFICES ASSUME ~Quiet PROVE ~Quiet'
      OBVIOUS
    <3>1. PICK m \in AllMethods, th \in 0..MaxThreads : toNative' = Append(toNative, Call(r, m, th))
      BY <2>1
    <3>2. Call(r, m, th) \in Calls
      BY DEF Call, Calls
    <3>3. toNative \in Seq(Calls)
      BY DEF Inv, TypeOK, ChannelType
    <3> QED BY <2>1, <3>1, <3>2, <3>3, AppendElements DEF Quiet, InProgress
  <2>3. UNCHANGED pending
    BY <2>1 DEF life
  <2>4. CASE Quiet /\ ~Quiet'
    BY <1>2, <1>3, <2>3, <2>4 DEF Lifetime!BeginWork
  <2>5. CASE UNCHANGED Quiet
    BY <1>2, <2>3, <2>5 DEF Lifetime!vars
  <2>6. Quiet \in BOOLEAN /\ Quiet' \in BOOLEAN
    BY DEF Quiet
  <2> QED BY <2>2, <2>4, <2>5, <2>6
<1> QED BY <1>4, <1>5, <1>6 DEF ClientStep

(* The native process ends work, and begins none on its own.                *)
LEMMA NativeEnds ==
  ASSUME Inv, NativeHandles \/ NativeAnswers \/ NativeNotifies
  PROVE  Lifetime!EndWork \/ UNCHANGED Lifetime!vars
<1>1. UNCHANGED <<life, retired>>
  BY DEF NativeHandles, NativeAnswers, NativeNotifies
<1>2. UNCHANGED <<pending, Phase>>
  BY <1>1 DEF life, retired, Phase
<1>3. Quiet => Quiet'
  <2> SUFFICES ASSUME Quiet PROVE Quiet'
    OBVIOUS
  <2>1. [Next]_vars
    BY DEF Next
  <2>2. \A r \in Requests : ~Forward(r)
    <3> SUFFICES ASSUME NEW r \in Requests, Forward(r) PROVE FALSE
      OBVIOUS
    <3>1. req' = [req EXCEPT ![r].ph = "sent"] /\ req[r].ph = "admitted" /\ req \in [Requests -> Reqs]
      BY DEF Forward, Inv, TypeOK, RestType
    <3>2. req' = req
      BY DEF NativeHandles, NativeAnswers, NativeNotifies
    <3> QED BY <3>1, <3>2 DEF Reqs
  <2> QED BY <2>1, <2>2, OnlyForwardBegins DEF Inv
<1>4. released => Quiet
  BY DEF Inv, Fence, ReleasedAtEnd, VerifiedQuiet
<1>5. CASE ~Quiet /\ Quiet'
  <2>1. Phase # "released"
    BY <1>4, <1>5 DEF Phase
  <2> QED BY <1>2, <1>5, <2>1 DEF Lifetime!EndWork
<1>6. CASE UNCHANGED Quiet
  BY <1>2, <1>6 DEF Lifetime!vars
<1>7. Quiet \in BOOLEAN /\ Quiet' \in BOOLEAN
  BY DEF Quiet
<1> QED BY <1>3, <1>5, <1>6, <1>7

(* Appending a request of the retirement is not work.                       *)
LEMMA ReadIsNoWork ==
  ASSUME Inv, nturn' = nturn, NEW m \in {"thread/read", "thread/turns/list"},
         toNative' = toNative \/ toNative' = Append(toNative, Call(Verify, m, id))
  PROVE  UNCHANGED Quiet
<1>1. Call(Verify, m, id) \in Calls /\ Call(Verify, m, id).m # "turn/start"
  BY DEF Inv, TypeOK, TaskType, Call, Calls, AllMethods
<1>2. toNative \in Seq(Calls)
  BY DEF Inv, TypeOK, ChannelType
<1>3. CASE toNative' = toNative
  BY <1>3 DEF Quiet, InProgress
<1>4. CASE toNative' = Append(toNative, Call(Verify, m, id))
  <2>1. /\ Len(toNative') = Len(toNative) + 1 /\ Len(toNative) \in Nat
        /\ \A i \in 1..Len(toNative) : toNative'[i] = toNative[i]
        /\ toNative'[Len(toNative) + 1] = Call(Verify, m, id)
    BY <1>1, <1>2, <1>4, AppendElements
  <2>2. (\A i \in 1..Len(toNative') : toNative'[i].m # "turn/start")
          <=> (\A i \in 1..Len(toNative) : toNative[i].m # "turn/start")
    BY <1>1, <2>1
  <2> QED BY <2>2 DEF Quiet, InProgress
<1> QED BY <1>3, <1>4

(* A packet can only lift the fence, when the retirement gets its answer.   *)
LEMMA PacketLifts ==
  ASSUME Inv, ReadPacket PROVE Lifetime!LiftFence \/ UNCHANGED Lifetime!vars
<1> DEFINE p == Head(fromNative)
<1> HIDE DEF p
<1>1. UNCHANGED pending
  BY DEF ReadPacket, Deliver, HandleNotification, VerifyAnswered, life
<1>2. UNCHANGED Quiet
  <2>1. nturn' = nturn /\ (toNative' = toNative \/ toNative' = Append(toNative, Call(Verify, "thread/turns/list", id)))
    BY DEF ReadPacket, VerifyAnswered
  <2> QED BY <2>1, ReadIsNoWork
<1>3. UNCHANGED <<retire, released>> \/ (Verifying /\ UNCHANGED released /\ retire' \in {"verified", "listing", "failed"})
  <2>1. CASE Deliver(p)
    BY <2>1 DEF Deliver, retired
  <2>2. CASE HandleNotification(p)
    BY <2>2 DEF HandleNotification, retired
  <2>3. CASE VerifyAnswered(p)
    BY <2>3 DEF VerifyAnswered
  <2> QED BY <2>1, <2>2, <2>3 DEF ReadPacket, p
<1>4. CASE UNCHANGED <<retire, released>>
  BY <1>1, <1>2, <1>4 DEF Phase, Lifetime!vars
<1>5. CASE Verifying /\ UNCHANGED released /\ retire' \in {"verified", "listing", "failed"}
  <2>1. Phase = "fenced" /\ Phase' \in {"fenced", "serving"}
    BY <1>5 DEF Inv, Fence, ReleasedAtEnd, Verifying, Phase
  <2> QED BY <1>1, <1>2, <2>1 DEF Lifetime!LiftFence, Lifetime!vars
<1> QED BY <1>3, <1>4, <1>5

(* Retire() fences the writer off, with nobody waiting for an answer.       *)
LEMMA RetireFences ==
  ASSUME Inv, Retire PROVE Lifetime!Fence \/ UNCHANGED Lifetime!vars
<1>1. UNCHANGED <<pending, released>>
  BY DEF Retire
<1>2. UNCHANGED Quiet
  <2>1. nturn' = nturn /\ (toNative' = toNative \/ toNative' = Append(toNative, Call(Verify, "thread/read", id)))
    BY DEF Retire
  <2> QED BY <2>1, ReadIsNoWork
<1>3. CASE RetireBlocked
  <2>1. UNCHANGED retire
    BY <1>3 DEF Retire
  <2> QED BY <1>1, <1>2, <2>1 DEF Phase, Lifetime!vars
<1>4. CASE ~RetireBlocked
  <2>1. ~retiring /\ pending = {}
    BY <1>4 DEF RetireBlocked
  <2>2. Phase = "serving"
    BY <2>1 DEF Inv, Fence, RetirementFenced, ReleasedAtEnd, Phase
  <2>3. Phase' \in {"fenced", "serving"}
    BY <1>1, <2>2 DEF Phase
  <2> QED BY <1>1, <1>2, <2>1, <2>2, <2>3 DEF Lifetime!Fence, Lifetime!vars
<1> QED BY <1>3, <1>4

(* The writer is released behind the fence, with nothing to do.             *)
LEMMA ReleaseReleases == ASSUME Inv, Release PROVE Lifetime!Release
<1>1. UNCHANGED <<pending, native>> /\ retire = "verified" /\ released'
  BY DEF Release
<1>2. UNCHANGED Quiet
  BY <1>1 DEF native, Quiet, InProgress
<1>3. Quiet
  BY <1>1 DEF Inv, VerifiedQuiet
<1>4. Phase = "fenced" /\ Phase' = "released"
  BY <1>1 DEF Inv, Fence, ReleasedAtEnd, Phase
<1> QED BY <1>1, <1>2, <1>3, <1>4 DEF Lifetime!Release

(* A failed release, a timeout and a lost transport lift the fence at most; *)
(* timers and retries are not visible.                                      *)
LEMMA FaultLifts ==
  ASSUME Inv, \/ ReleaseFails \/ VerifyTimeout \/ RpcCloses \/ RetryRetirement \/ Rearm \/ TimerFires \/ Disconnect
              \/ \E r \in Requests : RequestTimeout(r)
  PROVE  Lifetime!LiftFence \/ UNCHANGED Lifetime!vars
<1>1. UNCHANGED <<pending, nturn, released>>
  BY DEF ReleaseFails, VerifyTimeout, RpcCloses, RetryRetirement, Rearm, TimerFires, Disconnect, RequestTimeout,
         life, native, retired
<1>2. UNCHANGED Quiet
  <2>1. CASE UNCHANGED toNative
    BY <1>1, <2>1 DEF Quiet, InProgress
  <2>2. CASE VerifyTimeout
    <3>1. toNative' = [i \in DOMAIN toNative |-> Abandon(toNative[i])] /\ toNative \in Seq(Calls)
      BY <2>2 DEF VerifyTimeout, Inv, TypeOK, ChannelType
    <3>2. Len(toNative') = Len(toNative) /\ \A i \in 1..Len(toNative) : toNative'[i] = Abandon(toNative[i])
      BY <3>1, AbandonElements
    <3>3. \A i \in 1..Len(toNative) : toNative[i] \in Calls
      BY <3>1
    <3>4. \A i \in 1..Len(toNative) : toNative'[i].m = toNative[i].m
      BY <3>2, <3>3, AbandonFields
    <3> QED BY <1>1, <3>2, <3>4 DEF Quiet, InProgress
  <2> QED BY <2>1, <2>2 DEF ReleaseFails, RpcCloses, RetryRetirement, Rearm, TimerFires, Disconnect, RequestTimeout, native
<1>3. \/ UNCHANGED retire
      \/ retire \in {"reading", "listing", "verified"} /\ retire' = "failed"
      \/ retire = "failed" /\ retire' = "off"
  BY DEF ReleaseFails, VerifyTimeout, RpcCloses, RetryRetirement, Rearm, TimerFires, Disconnect, RequestTimeout,
         Verifying, retired
<1>4. CASE UNCHANGED retire
  BY <1>1, <1>2, <1>4 DEF Phase, Lifetime!vars
<1>5. CASE retire \in {"reading", "listing", "verified"} /\ retire' = "failed"
  <2>1. Phase = "fenced" /\ Phase' = "serving"
    BY <1>1, <1>5 DEF Inv, Fence, ReleasedAtEnd, Phase
  <2> QED BY <1>1, <1>2, <2>1 DEF Lifetime!LiftFence
<1>6. CASE retire = "failed" /\ retire' = "off"
  BY <1>1, <1>2, <1>6 DEF Phase, Lifetime!vars
<1> QED BY <1>3, <1>4, <1>5, <1>6

(* ImplementsLifetime: every step of the executor, its clients, its timers  *)
(* and the native process is a step of WriterLifetime or leaves its state   *)
(* alone: work begins only for an admitted client, the fence comes after    *)
(* the last answer, and the one release behind it finds nothing to do.      *)
THEOREM ExecutorImplementsLifetime == Spec => ImplementsLifetime
<1>1. Init => Lifetime!Init
  <2> SUFFICES ASSUME Init PROVE Lifetime!Init
    OBVIOUS
  <2>1. Len(toNative) = 0 /\ nturn.status = "none" /\ pending = {} /\ retire = "off" /\ released = FALSE
    BY DEF Init
  <2>2. Quiet
    BY <2>1 DEF Quiet, InProgress
  <2>3. Phase = "serving"
    BY <2>1 DEF Phase
  <2> QED BY <2>1, <2>2, <2>3 DEF Lifetime!Init
<1>2. Inv /\ [Next]_vars => [Lifetime!Next]_(Lifetime!vars)
  <2> SUFFICES ASSUME Inv, [Next]_vars PROVE Lifetime!Next \/ UNCHANGED Lifetime!vars
    OBVIOUS
  <2>1. ASSUME NEW r \in Requests, Receive(r) \/ ClientStep(r) PROVE Lifetime!Next \/ UNCHANGED Lifetime!vars
    BY <2>1, ReceiveAdmits, ClientAnswers DEF Lifetime!Next
  <2>2. CASE ReadPacket \/ Retire \/ Release
    BY <2>2, PacketLifts, RetireFences, ReleaseReleases DEF Lifetime!Next
  <2>3. CASE \/ ReleaseFails \/ VerifyTimeout \/ RpcCloses \/ RetryRetirement \/ Rearm \/ TimerFires \/ Disconnect
             \/ \E r \in Requests : RequestTimeout(r)
    BY <2>3, FaultLifts DEF Lifetime!Next
  <2>4. CASE NativeHandles \/ NativeAnswers \/ NativeNotifies
    BY <2>4, NativeEnds DEF Lifetime!Next
  <2>5. CASE UNCHANGED vars
    BY <2>5 DEF vars, life, native, retired, Quiet, InProgress, Phase, Lifetime!vars
  <2> QED BY <2>1, <2>2, <2>3, <2>4, <2>5 DEF Next, Stopped
<1> QED BY <1>1, <1>2, Invariance, PTL DEF Spec, ImplementsLifetime, Lifetime!Spec
=============================================================================
