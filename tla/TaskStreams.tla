----------------------------- MODULE TaskStreams -----------------------------
(***************************************************************************)
(* How a change of a Filo-created task reaches the clients that watch it:  *)
(* one event stream per task from the user's helper                        *)
(* (internal/service/createdtaskclient.go, taskeventstream.go), the hub    *)
(* that fans changes out (events.go) and the loop that serves one client   *)
(* (stream.go).                                                            *)
(*                                                                         *)
(* A conversation is abstracted to the version of the native task it       *)
(* shows.  A subscription is named by the number of its opening; its       *)
(* reference count belongs to the first subscription of its chain of       *)
(* replacements.  The helper is external: it answers a read with the       *)
(* present version, sends a page when its task has changed, and fails at   *)
(* most MaxFaults times.                                                   *)
(***************************************************************************)
EXTENDS Integers, FiniteSets

CONSTANTS
  Tasks,
  Views,           \* requests for an event stream, each made once
  MaxSubscribers,  \* maxEventSubscribers (64)
  MaxStreams,      \* taskClientSubscriptions (4)
  MaxVersion,      \* bound: versions of a native task
  MaxFaults,       \* bound: refused or broken streams and failed reads
  Scenarios        \* bounds of a behaviour: the tasks and views that take part, the last
                   \* version, the faults, and whether the hub and the client may end

ASSUME StreamsAssumption ==
  /\ IsFiniteSet(Views) /\ IsFiniteSet(Tasks) /\ "none" \notin Tasks
  /\ {MaxSubscribers, MaxStreams, MaxVersion, MaxFaults} \subseteq Nat
  /\ \A s \in Scenarios : /\ s.tasks \subseteq Tasks /\ s.views \subseteq Views
                          /\ s.version \in 1..MaxVersion /\ s.faults \in 0..MaxFaults
                          /\ s.ends \in BOOLEAN

None == "none"
NoPage == 0
Subs == 1..(Cardinality(Views) + MaxFaults)    \* a replacement follows a failure

VARIABLES
  scenario,        \* the bounds of this behaviour, never changed
  native,          \* version of each task (external)
  faults,
  closed,          \* CreatedTaskClient.closed
  table,           \* c.subscriptions; 0 is absent
  opened,          \* number of subscriptions so far
  of, refs,        \* task and reference counter of a subscription
  count,           \* taskSubscriptionRefs.count
  cancelled,       \* subscriptions whose context is cancelled
  dropped,         \* removed from the table, their cancel() still to come
  ready,           \* what closing subscription.ready has published
  err, page,       \* subscription.err # nil, subscription.page
  spc, hand,       \* the goroutine of a subscription, the version it has last read
  hubClosed, subscribers,
  ended, signal,   \* Closed() and Signal() of a view
  vpc, watches,    \* the goroutine of stream(), its task
  my,              \* the subscription it waits for
  shown            \* the page it has sent last

world  == <<native, faults>>
client == <<closed, table, opened, of, refs, count, dropped>>
stream == <<cancelled, ready, err, page, spc, hand>>
hub    == <<hubClosed, subscribers, ended, signal>>
view   == <<vpc, watches, my, shown>>
vars   == <<scenario, world, client, stream, hub, view>>

Init ==
  /\ scenario \in Scenarios
  /\ native = [t \in Tasks |-> 1] /\ faults = 0
  /\ closed = FALSE /\ table = [t \in Tasks |-> 0] /\ opened = 0
  /\ of = [n \in Subs |-> None] /\ refs = [n \in Subs |-> 0] /\ count = [n \in Subs |-> 0]
  /\ cancelled = {} /\ dropped = {}
  /\ ready = [n \in Subs |-> None] /\ err = {} /\ page = [n \in Subs |-> NoPage]
  /\ spc = [n \in Subs |-> "off"] /\ hand = [n \in Subs |-> NoPage]
  /\ hubClosed = FALSE /\ subscribers = {} /\ ended = {} /\ signal = {}
  /\ vpc = [v \in Views |-> "idle"] /\ watches = [v \in Views |-> None]
  /\ my = [v \in Views |-> 0] /\ shown = [v \in Views |-> NoPage]

Goto(v, l) == vpc' = [vpc EXCEPT ![v] = l]
Fault == faults < scenario.faults /\ faults' = faults + 1

-----------------------------------------------------------------------------
(* replaceTaskSubscription(), with the lock held.                           *)
Replace(t, r) ==
  LET n == opened + 1 IN
  /\ opened' = n
  /\ of' = [of EXCEPT ![n] = t] /\ refs' = [refs EXCEPT ![n] = IF r = 0 THEN n ELSE r]
  /\ table' = [table EXCEPT ![t] = n]
  /\ spc' = [spc EXCEPT ![n] = "opening"]
  /\ cancelled' = IF table[t] = 0 THEN cancelled ELSE cancelled \cup {table[t]}

(* releaseTaskReference() under the lock; r = 0 stands for nil.             *)
Release(t, r) ==
  LET n == table[t] IN
  IF n # 0 /\ r \in {0, refs[n]}
  THEN /\ count' = [count EXCEPT ![refs[n]] = @ - 1]
       /\ IF count[refs[n]] <= 1
          THEN table' = [table EXCEPT ![t] = 0] /\ dropped' = dropped \cup {n}
          ELSE UNCHANGED <<table, dropped>>
  ELSE UNCHANGED <<table, dropped, count>>

(* ... and after it.                                                        *)
Cancel(n) ==
  /\ n \in dropped
  /\ dropped' = dropped \ {n} /\ cancelled' = cancelled \cup {n}
  /\ UNCHANGED <<world, closed, table, opened, of, refs, count, ready, err, page, spc, hand, hub, view>>

-----------------------------------------------------------------------------
(* stream(): a bounded subscription to the hub comes before the lease.      *)
Subscribe(v, t) ==
  /\ vpc[v] = "idle"
  /\ IF hubClosed \/ Cardinality(subscribers) >= MaxSubscribers
     THEN Goto(v, "done") /\ UNCHANGED <<subscribers, watches>>
     ELSE /\ Goto(v, "attach") /\ watches' = [watches EXCEPT ![v] = t]
          /\ subscribers' = subscribers \cup {v}
  /\ UNCHANGED <<world, client, stream, hubClosed, ended, signal, my, shown>>

(* Attach() under the lock.                                                 *)
Streams == {t \in Tasks : table[t] # 0}
Attach(v) ==
  LET t == watches[v]  n == table[t] IN
  /\ vpc[v] = "attach"
  /\ \/ /\ v \in ended \/ closed \/ (n = 0 /\ Cardinality(Streams) >= MaxStreams)
        /\ Goto(v, "unsubscribe") /\ UNCHANGED <<table, opened, of, refs, count, spc, cancelled, my>>
     \/ /\ ~closed /\ n # 0 /\ n \notin err
        /\ count' = [count EXCEPT ![refs[n]] = @ + 1]
        /\ Goto(v, "ready") /\ my' = [my EXCEPT ![v] = n]
        /\ UNCHANGED <<table, opened, of, refs, spc, cancelled>>
     \/ /\ ~closed /\ n \in err
        /\ Replace(t, refs[n]) /\ count' = [count EXCEPT ![refs[n]] = @ + 1]
        /\ Goto(v, "ready") /\ my' = [my EXCEPT ![v] = opened + 1]
     \/ /\ ~closed /\ n = 0 /\ Cardinality(Streams) < MaxStreams
        /\ Replace(t, 0) /\ count' = [count EXCEPT ![opened + 1] = 1]
        /\ Goto(v, "ready") /\ my' = [my EXCEPT ![v] = opened + 1]
  /\ UNCHANGED <<world, closed, dropped, ready, err, page, hand, hub, watches, shown>>

(* awaitTaskReady(); the request may also be given up.                      *)
AttachReady(v) ==
  /\ vpc[v] = "ready"
  /\ \/ ready[my[v]] = "ok" /\ Goto(v, "refresh")
     \/ ready[my[v]] = "error" /\ Goto(v, "unref")
  /\ UNCHANGED <<world, client, stream, hub, watches, my, shown>>

Unref(v) ==
  /\ vpc[v] = "unref"
  /\ Release(watches[v], refs[my[v]])
  /\ Goto(v, "unsubscribe")
  /\ UNCHANGED <<world, closed, opened, of, refs, stream, hub, watches, my, shown>>

(* Read() of the first page with its activity, under the lock: a failed     *)
(* stream is replaced, a live one answers from its page.                    *)
RefreshFresh(v) ==                                           \* mutant: recovery starts a count of its own
  LET t == watches[v]  n == table[t] IN
  /\ vpc[v] = "refresh"
  /\ \/ closed /\ Goto(v, "detach") /\ UNCHANGED <<table, opened, of, refs, count, spc, cancelled, my, shown>>
     \/ /\ ~closed /\ n \in err /\ Replace(t, 0) /\ count' = [count EXCEPT ![opened + 1] = 1]
        /\ Goto(v, "recover") /\ my' = [my EXCEPT ![v] = opened + 1] /\ UNCHANGED shown
     \/ /\ ~closed /\ n \notin err
        /\ IF n # 0 /\ page[n] # NoPage
           THEN Goto(v, "wait") /\ shown' = [shown EXCEPT ![v] = page[n]]
           ELSE Goto(v, "fetch") /\ UNCHANGED shown
        /\ UNCHANGED <<table, opened, of, refs, count, spc, cancelled, my>>
  /\ UNCHANGED <<world, closed, dropped, ready, err, page, hand, hub, watches>>
Refresh(v) ==
  LET t == watches[v]  n == table[t] IN
  /\ vpc[v] = "refresh"
  /\ \/ closed /\ Goto(v, "detach") /\ UNCHANGED <<table, opened, of, refs, spc, cancelled, my, shown>>
     \/ /\ ~closed /\ n \in err /\ Replace(t, refs[n])
        /\ Goto(v, "recover") /\ my' = [my EXCEPT ![v] = opened + 1] /\ UNCHANGED shown
     \/ /\ ~closed /\ n \notin err
        /\ IF n # 0 /\ page[n] # NoPage
           THEN Goto(v, "wait") /\ shown' = [shown EXCEPT ![v] = page[n]]
           ELSE Goto(v, "fetch") /\ UNCHANGED shown
        /\ UNCHANGED <<table, opened, of, refs, spc, cancelled, my>>
  /\ UNCHANGED <<world, closed, count, dropped, ready, err, page, hand, hub, watches>>

Recover(v) ==
  /\ vpc[v] = "recover"
  /\ \/ ready[my[v]] = "ok" /\ Goto(v, "fetch")
     \/ ready[my[v]] = "error" /\ Goto(v, "detach")
  /\ UNCHANGED <<world, client, stream, hub, watches, my, shown>>

(* The call to the helper; a page is sent if it differs from the last one.  *)
Fetch(v) ==
  /\ vpc[v] = "fetch"
  /\ shown' = [shown EXCEPT ![v] = native[watches[v]]] /\ Goto(v, "wait")
  /\ UNCHANGED <<world, client, stream, hub, watches, my>>
FetchFails(v) ==
  /\ vpc[v] = "fetch" /\ Fault /\ Goto(v, "detach")
  /\ UNCHANGED <<native, client, stream, hub, watches, my, shown>>

Signalled(v) ==
  /\ vpc[v] = "wait" /\ v \in signal
  /\ signal' = signal \ {v} /\ Goto(v, "refresh")
  /\ UNCHANGED <<world, client, stream, hubClosed, subscribers, ended, watches, my, shown>>
Tick(v) ==
  /\ vpc[v] = "wait" /\ Goto(v, "refresh")
  /\ UNCHANGED <<world, client, stream, hub, watches, my, shown>>
Ended(v) ==
  /\ vpc[v] = "wait" /\ v \in ended /\ Goto(v, "detach")
  /\ UNCHANGED <<world, client, stream, hub, watches, my, shown>>

(* The client goes away, or a write to it fails.                            *)
Leaves(v) ==
  /\ \/ vpc[v] \in {"wait", "recover", "fetch"} /\ Goto(v, "detach")
     \/ vpc[v] = "ready" /\ Goto(v, "unref")
  /\ UNCHANGED <<world, client, stream, hub, watches, my, shown>>

(* The deferred calls: Detach(), then Subscription.Close(), after which     *)
(* nothing of the view is left.                                             *)
Detach(v) ==
  /\ vpc[v] = "detach"
  /\ Release(watches[v], 0)
  /\ Goto(v, "unsubscribe")
  /\ UNCHANGED <<world, closed, opened, of, refs, stream, hub, watches, my, shown>>
Unsubscribe(v) ==
  /\ vpc[v] = "unsubscribe" /\ Goto(v, "done")
  /\ subscribers' = subscribers \ {v} /\ ended' = ended \ {v} /\ signal' = signal \ {v}
  /\ watches' = [watches EXCEPT ![v] = None]
  /\ my' = [my EXCEPT ![v] = 0] /\ shown' = [shown EXCEPT ![v] = NoPage]
  /\ UNCHANGED <<world, client, stream, hubClosed>>

-----------------------------------------------------------------------------
(* Hub.Changed().                                                           *)
Notify(t) ==
  signal' = IF hubClosed THEN signal ELSE signal \cup {v \in subscribers : watches[v] = t}

(* Hub.Reset() and Hub.Close(): every subscription is taken out and closed.  *)
HubEnds(terminal) ==
  /\ ~hubClosed
  /\ hubClosed' = terminal
  /\ ended' = ended \cup subscribers /\ subscribers' = {}
  /\ UNCHANGED <<world, client, stream, signal, view>>

(* CreatedTaskClient.Close().                                               *)
Close ==
  /\ ~closed /\ closed' = TRUE
  /\ dropped' = dropped \cup ({table[t] : t \in Tasks} \ {0})
  /\ table' = [t \in Tasks |-> 0]
  /\ UNCHANGED <<world, opened, of, refs, count, stream, hub, view>>

-----------------------------------------------------------------------------
(* openTaskSubscription(): openStream() returns a stream unless it is       *)
(* refused, its ten seconds are over or its context is cancelled.           *)
StepTo(n, l) == spc' = [spc EXCEPT ![n] = l]
Open(n) ==
  /\ spc[n] = "opening" /\ n \notin cancelled /\ StepTo(n, "opened")
  /\ UNCHANGED <<world, client, cancelled, ready, err, page, hand, hub, view>>
OpenFails(n) ==
  /\ spc[n] = "opening" /\ StepTo(n, "refused")
  /\ IF n \in cancelled THEN UNCHANGED faults ELSE Fault
  /\ UNCHANGED <<native, client, cancelled, ready, err, page, hand, hub, view>>

(* The failure is recorded under the lock, then published.                  *)
Refused(n) ==
  /\ spc[n] = "refused" /\ StepTo(n, "announce") /\ err' = err \cup {n}
  /\ UNCHANGED <<world, client, cancelled, ready, page, hand, hub, view>>
Announce(n) ==
  /\ spc[n] = "announce" /\ StepTo(n, "done")
  /\ cancelled' = cancelled \cup {n} /\ ready' = [ready EXCEPT ![n] = "error"]
  /\ UNCHANGED <<world, client, err, page, hand, hub, view>>

(* Only a subscription that is still in the table reads its stream.         *)
Current(n) == ~closed /\ table[of[n]] = n /\ n \notin cancelled
Admit(n) ==
  /\ spc[n] = "opened"
  /\ IF Current(n)
     THEN StepTo(n, "admitted") /\ UNCHANGED ready
     ELSE StepTo(n, "done") /\ ready' = [ready EXCEPT ![n] = "error"]
  /\ UNCHANGED <<world, client, cancelled, err, page, hand, hub, view>>
Ready(n) ==
  /\ spc[n] = "admitted" /\ StepTo(n, "reading")
  /\ ready' = [ready EXCEPT ![n] = "ok"]
  /\ UNCHANGED <<world, client, cancelled, err, page, hand, hub, view>>

(* ReadTaskEvents(): a page of the present version arrives ...              *)
Receive(n) ==
  /\ spc[n] = "reading" /\ n \notin cancelled /\ hand[n] # native[of[n]]
  /\ hand' = [hand EXCEPT ![n] = native[of[n]]] /\ StepTo(n, "page")
  /\ UNCHANGED <<world, client, cancelled, ready, err, page, hub, view>>

(* ... is kept if the subscription is current, and reported.  The page of a *)
(* superseded one is nobody's.                                              *)
PublishQuietly(n) ==                                         \* mutant: kept but not reported
  /\ spc[n] = "page" /\ StepTo(n, "reading")
  /\ page' = [page EXCEPT ![n] = hand[n]]
  /\ UNCHANGED <<world, client, cancelled, ready, err, hand, hub, view>>
Publish(n) ==
  /\ spc[n] = "page"
  /\ IF Current(n)
     THEN StepTo(n, "notify") /\ page' = [page EXCEPT ![n] = hand[n]]
     ELSE StepTo(n, "done") /\ page' = [page EXCEPT ![n] = NoPage]
  /\ UNCHANGED <<world, client, cancelled, ready, err, hand, hub, view>>
NotifyView(n) ==
  /\ spc[n] \in {"notify", "notifyEnd"}
  /\ StepTo(n, IF spc[n] = "notify" THEN "reading" ELSE "done")
  /\ Notify(of[n])
  /\ UNCHANGED <<world, client, cancelled, ready, err, page, hand, hubClosed, subscribers, ended, view>>

(* The stream ends, fails, carries an error or an invalid page; or its      *)
(* cancelled context closes the body.                                       *)
Break(n) ==
  /\ spc[n] = "reading" /\ StepTo(n, "broken")
  /\ IF n \in cancelled THEN UNCHANGED faults ELSE Fault
  /\ UNCHANGED <<native, client, cancelled, ready, err, page, hand, hub, view>>

(* A current subscription records the failure.  Its page is forgotten; that *)
(* of another one is nobody's.                                              *)
BrokenSilently(n) ==                                         \* mutant: the failure is not recorded
  /\ spc[n] = "broken" /\ StepTo(n, "done")
  /\ UNCHANGED <<world, client, cancelled, ready, err, page, hand, hub, view>>
Broken(n) ==
  /\ spc[n] = "broken"
  /\ IF Current(n)
     THEN StepTo(n, "notifyEnd") /\ err' = err \cup {n}
     ELSE StepTo(n, "done") /\ UNCHANGED err
  /\ page' = [page EXCEPT ![n] = NoPage] /\ hand' = [hand EXCEPT ![n] = NoPage]
  /\ UNCHANGED <<world, client, cancelled, ready, hub, view>>

(* The native task changes (external).                                      *)
NativeChanges(t) ==
  /\ native[t] < scenario.version /\ native' = [native EXCEPT ![t] = @ + 1]
  /\ UNCHANGED <<faults, client, stream, hub, view>>

-----------------------------------------------------------------------------
ViewStep(v) ==
  \/ Attach(v) \/ AttachReady(v) \/ Unref(v) \/ Refresh(v) \/ Recover(v) \/ Fetch(v)
  \/ Signalled(v) \/ Tick(v) \/ Ended(v) \/ Detach(v) \/ Unsubscribe(v)
StreamStep(n) ==
  \/ Cancel(n) \/ Open(n) \/ OpenFails(n) \/ Refused(n) \/ Announce(n) \/ Admit(n) \/ Ready(n)
  \/ Receive(n) \/ Publish(n) \/ NotifyView(n) \/ Broken(n)

Step ==
  \/ \E v \in scenario.views : \/ \E t \in scenario.tasks : Subscribe(v, t)
                               \/ ViewStep(v) \/ FetchFails(v) \/ Leaves(v)
  \/ \E n \in Subs : StreamStep(n) \/ Break(n)
  \/ \E t \in scenario.tasks : NativeChanges(t)
  \/ scenario.ends /\ \E terminal \in BOOLEAN : HubEnds(terminal)
  \/ scenario.ends /\ Close
Next == Step /\ UNCHANGED scenario

Spec == Init /\ [][Next]_vars

(* Goroutines and the heartbeat run, an opening ends within its ten         *)
(* seconds, the helper sends the page of a changed task, and a cancelled    *)
(* body ends its reader.  Nobody has to leave and nothing has to fail.  The *)
(* streams make finitely many steps, so one condition serves them all.      *)
StreamsStep == \E n \in Subs : StreamStep(n) \/ (n \in cancelled /\ Break(n))
Fairness ==
  /\ \A v \in Views : WF_vars(ViewStep(v) /\ UNCHANGED scenario)
  /\ WF_vars(StreamsStep /\ UNCHANGED scenario)
FairSpec == Spec /\ Fairness

-----------------------------------------------------------------------------
(* Types of the subscriptions, the hub and the views.                       *)
TypeOK ==
  /\ scenario \in Scenarios /\ native \in [Tasks -> 1..MaxVersion] /\ faults \in 0..MaxFaults
  /\ closed \in BOOLEAN /\ table \in [Tasks -> 0..opened] /\ opened \in {0} \cup Subs
  /\ of \in [Subs -> Tasks \cup {None}] /\ refs \in [Subs -> 0..opened]
  /\ count \in [Subs -> 0..Cardinality(Views)]
  /\ {cancelled, dropped, err} \subseteq SUBSET Subs
  /\ ready \in [Subs -> {None, "ok", "error"}]
  /\ page \in [Subs -> 0..MaxVersion] /\ hand \in [Subs -> 0..MaxVersion]
  /\ spc \in [Subs -> {"off", "opening", "refused", "announce", "opened", "admitted", "reading", "page",
                       "notify", "notifyEnd", "broken", "done"}]
  /\ hubClosed \in BOOLEAN /\ {subscribers, ended, signal} \subseteq SUBSET Views
  /\ vpc \in [Views -> {"idle", "attach", "ready", "unref", "refresh", "recover", "fetch", "wait",
                        "detach", "unsubscribe", "done"}]
  /\ watches \in [Views -> Tasks \cup {None}] /\ my \in [Views -> 0..opened]
  /\ shown \in [Views -> 0..MaxVersion]

(* References survive the replacement of a failed stream: until Close() a   *)
(* task's count is the number of views that hold or await it, and a task    *)
(* with a holder keeps its subscription.                                    *)
Holders(t) == {v \in Views : watches[v] = t /\
                 vpc[v] \in {"ready", "unref", "refresh", "recover", "fetch", "wait", "detach"}}
RefsExact ==
  ~closed => \A t \in Tasks :
    Cardinality(Holders(t)) = IF table[t] = 0 THEN 0 ELSE count[refs[table[t]]]

(* At most the subscription in the table keeps a stream to the helper; every *)
(* other one is cancelled or about to be.                                   *)
NoOrphanStream ==
  \A n \in 1..opened : spc[n] \in {"opening", "opened", "admitted", "reading", "page", "notify"} =>
    table[of[n]] = n \/ n \in cancelled \cup dropped

(* "a later read reports it instead of serving a stale page": when the      *)
(* reader of the present subscription has ended, the failure is recorded    *)
(* and the next read or attach replaces the stream.                         *)
DeadStreamReported ==
  \A t \in Tasks : table[t] # 0 /\ spc[table[t]] = "done" => table[t] \in err

(* Every stream has its holders, and every holder its stream or the news    *)
(* that it failed (createdtaskclient.go:200, :248 and :327).                *)
StreamsOwned == TypeOK /\ RefsExact /\ NoOrphanStream /\ DeadStreamReported

(* Bursts collapse into one signal but the last change is never lost: a     *)
(* view that sleeps without a signal shows the page its stream has kept and *)
(* need not wait for the heartbeat.                                         *)
NoLostChange ==
  \A v \in subscribers \ signal : vpc[v] = "wait" =>
    LET n == table[watches[v]] IN
    n # 0 /\ spc[n] # "notify" => shown[v] >= page[n]

(* A view that stays comes to show the final state of its task, through     *)
(* refused openings, broken streams and recoveries, or its stream ends.     *)
Fresh ==
  (\A t \in scenario.tasks : native[t] = scenario.version) ~>
  (\A v \in scenario.views : vpc[v] \in {"idle", "done"} \/ shown[v] = scenario.version)
==============================================================================
