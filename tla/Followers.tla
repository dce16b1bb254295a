------------------------------ MODULE Followers ------------------------------
(***************************************************************************)
(* The followers of original Desktop owners (internal/sessions): the       *)
(* shared table of followed tasks, the leases readers hold on its entries, *)
(* the broadcasts that open and close a native subscription, and the       *)
(* snapshots and patches the owner streams back.                           *)
(*                                                                         *)
(* Every caller, the native reader, the watch and sweep timers and the     *)
(* clean-up after a dropped entry run concurrently; a step is one critical *)
(* section of Followers.mu or one broadcast under sendMu.  An entry is     *)
(* named by its generation, which stands for the *followed pointer.        *)
(***************************************************************************)
EXTENDS Naturals, Sequences, FiniteSets

CONSTANTS
  Ids,         \* conversations
  Owners,      \* Desktop clients that can own a conversation
  Callers,     \* requests that read or control a followed task (each is used once)
  Scenarios,   \* what may happen in a behaviour, and how often (see Scenario)
  MaxEntries,  \* the bound on concurrent subscriptions (4 in acquire)
  MaxGen,      \* bound: entries created in a behaviour
  MaxRev,      \* bound: native revisions of one conversation
  MaxStream    \* bound: native messages not yet received

None == "none"
AllKinds == {"control", "read", "status", "attach"}   \* state(), readState(false or true), Attach
AllEvents == {"archive", "close", "status request"}

(* The kinds of the requests, the other events, and the bounds on native    *)
(* revisions, lost connections and changes of owner.                        *)
Scenario == [kinds : SUBSET AllKinds, events : SUBSET AllEvents, rev : 1..MaxRev, losses : Nat, moves : Nat]

ASSUME FollowersAssumption ==
  /\ None \notin Owners
  /\ MaxEntries \in Nat \ {0} /\ MaxGen \in Nat /\ MaxRev \in Nat \ {0}
  /\ MaxStream \in Nat
  /\ IsFiniteSet(Callers) /\ Scenarios \subseteq Scenario

Gens == 1..MaxGen

VARIABLES
  entries,     \* Followers.entries: id -> generation, 0 when absent
  ent,         \* the *followed values ever created
  generation,  \* nextGeneration
  retry,       \* ids in read back-off
  stopped,
  caller,      \* the goroutines of the callers
  watching,    \* entries whose watch goroutine waits
  cleanup,     \* dropped entries whose follow(entry, false) is still to be sent
  asked,       \* the reader goroutine is answering a status request for this entry
  conn,        \* the IPC connection generation, 0 while disconnected
  conns,       \* connections opened so far
  lost,        \* Disconnected callbacks that have not run yet
  nowner,      \* the native owner of each conversation
  nrev,        \* the native revision of each conversation
  following,   \* <<id, owner>> pairs whose owner streams to this client
  stream,      \* native messages not yet received
  moves,
  scenario     \* the element of Scenarios this behaviour is about

table   == <<entries, ent, generation, retry, stopped>>
workers == <<watching, cleanup, asked>>
link    == <<conn, conns, lost>>
nat     == <<nowner, nrev, following, stream, moves>>
vars    == <<table, caller, workers, link, nat>>

(* released marks an entry dropped by a reader's own release (history);      *)
(* content is the revision the projected conversation really shows: a patch *)
(* adds the difference between its revision and its base.                   *)
NoEntry == [id |-> None, owner |-> None, conn |-> 0, rev |-> 0, content |-> 0,
            settled |-> FALSE, err |-> FALSE, refs |-> 0, readRequested |-> FALSE,
            released |-> FALSE]
Idle == [pc |-> "idle", id |-> None, owner |-> None, conn |-> 0, g |-> 0, old |-> 0,
         kind |-> "control"]
Done == [Idle EXCEPT !.pc = "done"]
Message(i, o, kind, rev, base) == [id |-> i, owner |-> o, kind |-> kind, rev |-> rev, base |-> base]

Init ==
  /\ entries = [i \in Ids |-> 0] /\ ent = [g \in Gens |-> NoEntry] /\ generation = 0
  /\ retry = {} /\ stopped = FALSE
  /\ caller = [p \in Callers |-> Idle]
  /\ watching = {} /\ cleanup = {} /\ asked = 0
  /\ conn = 1 /\ conns = 1 /\ lost = 0
  /\ nowner \in [Ids -> Owners] /\ nrev = [i \in Ids |-> 1]
  /\ following = {} /\ stream = << >> /\ moves = 0
  /\ scenario \in Scenarios

Current(g) == g # 0 /\ \E i \in Ids : entries[i] = g
Live == {i \in Ids : entries[i] # 0}

(* dropLocked(): an entry still in the table leaves it, and every waiter is *)
(* released with the error.  A set, for Disconnected and Close.             *)
Drop(D) ==
  /\ entries' = [i \in Ids |-> IF entries[i] \in D THEN 0 ELSE entries[i]]
  /\ ent' = [g \in Gens |-> IF g \in D /\ Current(g)
                            THEN [ent[g] EXCEPT !.err = TRUE, !.settled = TRUE] ELSE ent[g]]

(* Broadcast of thread-stream-following-changed (external: the owner).  The *)
(* first subscription of an owner is answered by a full snapshot.           *)
Broadcast(g, on) ==
  LET i == ent[g].id
      o == ent[g].owner IN
  IF conn # 0 /\ nowner[i] = o
  THEN /\ following' = IF on THEN following \cup {<<i, o>>} ELSE following \ {<<i, o>>}
       /\ stream' = IF on THEN Append(stream, Message(i, o, "snapshot", nrev[i], 0)) ELSE stream
  ELSE UNCHANGED <<following, stream>>

-----------------------------------------------------------------------------
(* owner(): thread-owner-discovery answers with the present owner.          *)
Discover(p) ==
  /\ caller[p].pc = "idle" /\ conn # 0 /\ ~stopped
  /\ \E i \in Ids, k \in scenario.kinds :
       /\ nowner[i] # None
       /\ caller' = [caller EXCEPT ![p] = [Idle EXCEPT !.pc = "owned", !.id = i, !.owner = nowner[i], !.kind = k]]
  /\ UNCHANGED <<table, workers, link, nat>>

(* acquire() reads the connection generation before it takes the lock.      *)
ReadConnection(p) ==
  /\ caller[p].pc = "owned"
  /\ caller' = [caller EXCEPT ![p].pc = "connected", ![p].conn = conn]
  /\ UNCHANGED <<table, workers, link, nat>>

(* The locked part of acquire().  Readers retain a reference; an entry of   *)
(* another owner or connection is replaced, and the creator of an entry is  *)
(* the one that opens its subscription.                                     *)
ReadOnly(p) == caller[p].kind # "control"
Refs(p) == IF ReadOnly(p) THEN 1 ELSE 0
Replaces(p) ==
  LET g == entries[caller[p].id] IN
    g # 0 /\ (ent[g].owner # caller[p].owner \/ ent[g].conn # caller[p].conn)

AcquireRefused(p) ==
  /\ caller[p].pc = "connected"
  /\ \/ stopped
     \/ ReadOnly(p) /\ caller[p].id \in retry
     \/ Replaces(p) /\ ent[entries[caller[p].id]].content = 0
     \/ entries[caller[p].id] = 0 /\ Cardinality(Live) >= MaxEntries
  /\ caller' = [caller EXCEPT ![p] = Done]
  /\ UNCHANGED <<table, workers, link, nat>>

AcquireShared(p) ==
  LET i == caller[p].id
      g == entries[i] IN
  /\ caller[p].pc = "connected" /\ ~stopped /\ ~(ReadOnly(p) /\ i \in retry)
  /\ g # 0 /\ ~Replaces(p)
  /\ ent' = [ent EXCEPT ![g].refs = @ + Refs(p), ![g].readRequested = @ \/ ReadOnly(p)]
  /\ caller' = [caller EXCEPT ![p].pc = "wait", ![p].g = g]
  /\ UNCHANGED <<entries, generation, retry, stopped, workers, link, nat>>

AcquireCreated(p) ==
  LET i == caller[p].id
      old == entries[i]
      g == generation + 1 IN
  /\ caller[p].pc = "connected" /\ ~stopped /\ ~(ReadOnly(p) /\ i \in retry)
  /\ generation < MaxGen
  /\ \/ old = 0 /\ Cardinality(Live) < MaxEntries
     \/ Replaces(p) /\ ent[old].content # 0
  /\ generation' = g
  /\ entries' = [entries EXCEPT ![i] = g]
  /\ ent' = [h \in Gens |->
       CASE h = g -> [NoEntry EXCEPT !.id = i, !.owner = caller[p].owner, !.conn = caller[p].conn,
                                     !.refs = Refs(p), !.readRequested = ReadOnly(p)]
         [] h = old -> [ent[h] EXCEPT !.err = TRUE, !.settled = TRUE]
         [] OTHER -> ent[h]]
  /\ caller' = [caller EXCEPT ![p] = [@ EXCEPT !.pc = IF old = 0 THEN "follow" ELSE "unfollow",
                                               !.g = g, !.old = old]]
  /\ UNCHANGED <<retry, stopped, workers, link, nat>>

(* acquire() first closes the replaced subscription, then opens its own.    *)
UnfollowReplaced(p) ==
  /\ caller[p].pc = "unfollow"
  /\ Broadcast(caller[p].old, FALSE)
  /\ caller' = [caller EXCEPT ![p].pc = "follow", ![p].old = 0]
  /\ UNCHANGED <<table, workers, link, nowner, nrev, moves>>

(* follow(entry, true): the validity check and the broadcast happen under   *)
(* sendMu.  A failed broadcast drops the entry; a dropped entry is refused. *)
Follow(p) ==
  LET g == caller[p].g IN
  /\ caller[p].pc = "follow"
  /\ IF Current(g) /\ ~stopped /\ conn # 0
     THEN /\ Broadcast(g, TRUE)
          /\ watching' = watching \cup {g}
          /\ caller' = [caller EXCEPT ![p].pc = "wait"]
          /\ UNCHANGED <<entries, ent>>
     ELSE /\ Drop({g})
          /\ caller' = [caller EXCEPT ![p] = Done]
          /\ UNCHANGED <<following, stream, watching>>
  /\ UNCHANGED <<generation, retry, stopped, cleanup, asked, link, nowner, nrev, moves>>

-----------------------------------------------------------------------------
(* release(): only the current entry counts, the count stops at zero, and   *)
(* an immediate release of the last lease drops the entry.                  *)
ReleaseOfAnyEntry(g) == g # 0                                \* mutant: no identity check
Releasable(g) == Current(g)
ReleaseEntry(g, i, immediate) ==
  LET n == IF ent[g].refs = 0 THEN 0 ELSE ent[g].refs - 1 IN
  IF immediate /\ n = 0
  THEN /\ entries' = [entries EXCEPT ![i] = 0]
       /\ ent' = [ent EXCEPT ![g] = [@ EXCEPT !.refs = 0, !.err = TRUE, !.settled = TRUE, !.released = TRUE]]
       /\ cleanup' = cleanup \cup {g}
  ELSE /\ ent' = [ent EXCEPT ![g].refs = n] /\ UNCHANGED <<entries, cleanup>>

Release(p, immediate) ==
  LET g == entries[caller[p].id] IN
  /\ IF Releasable(caller[p].g) /\ g # 0
     THEN ReleaseEntry(g, caller[p].id, immediate)
     ELSE UNCHANGED <<entries, ent, cleanup>>
  /\ caller' = [caller EXCEPT ![p] = Done]
  /\ UNCHANGED <<generation, retry, stopped, watching, asked, link, nat>>

(* waitState(): ready and still current; readers then hold the lease, a     *)
(* control request uses the snapshot at once.                               *)
Ready(p) ==
  /\ caller[p].pc = "wait" /\ ent[caller[p].g].settled
  /\ ~ent[caller[p].g].err /\ Current(caller[p].g) /\ ~stopped
  /\ caller' = [caller EXCEPT ![p] = IF ReadOnly(p) THEN [@ EXCEPT !.pc = "hold"] ELSE Done]
  /\ UNCHANGED <<table, workers, link, nat>>

(* The entry was dropped while the caller waited: its error is returned, or *)
(* a reader falls back to persisted history.                                *)
WaitFailed(p) ==
  /\ caller[p].pc = "wait" /\ ent[caller[p].g].settled
  /\ ent[caller[p].g].err \/ ~Current(caller[p].g) \/ stopped
  /\ Release(p, FALSE)

(* The two second read timeout or a cancelled caller: readState releases    *)
(* either way, Attach keeps its lease after a timeout, and a control request *)
(* has neither a timeout nor a lease.                                       *)
WaitAbandoned(p) ==
  /\ caller[p].pc = "wait"
  /\ \/ ReadOnly(p) /\ Release(p, FALSE)
     \/ /\ caller[p].kind \in {"attach", "control"}
        /\ caller' = [caller EXCEPT ![p] = IF ReadOnly(p) THEN [@ EXCEPT !.pc = "hold"] ELSE Done]
        /\ UNCHANGED <<table, workers, link, nat>>

(* The once-only release of a lease; a status read releases immediately.    *)
EndLease(p) ==
  /\ caller[p].pc = "hold"
  /\ Release(p, caller[p].kind = "status")

(* sweep(): an entry nobody holds expires; a read back-off ends.            *)
Sweep ==
  \/ /\ \E i \in Live :
          /\ ent[entries[i]].refs = 0
          /\ Drop({entries[i]}) /\ cleanup' = cleanup \cup {entries[i]}
     /\ UNCHANGED <<generation, retry, stopped, caller, watching, asked, link, nat>>
  \/ /\ \E i \in retry : retry' = retry \ {i}
     /\ UNCHANGED <<entries, ent, generation, stopped, caller, workers, link, nat>>

(* watch(): fifteen seconds without a snapshot drop the entry and start the *)
(* read back-off; a settled entry or Close ends the watch.                  *)
BackOff(g) == ent[g].id
WatchKeepsEntry(g) == FALSE                                  \* mutant: the timer is ignored
WatchExpires(g) == Current(g) /\ ~ent[g].settled
Watch(g) ==
  /\ g \in watching /\ watching' = watching \ {g}
  /\ IF WatchExpires(g)
     THEN /\ Drop({g}) /\ cleanup' = cleanup \cup {g}
          /\ retry' = IF ent[g].readRequested THEN retry \cup {BackOff(g)} ELSE retry
     ELSE UNCHANGED <<entries, ent, cleanup, retry>>
  /\ UNCHANGED <<generation, stopped, caller, asked, link, nat>>

(* follow(entry, false) after a drop: sent outside the lock, later.         *)
CleanUp(g) ==
  /\ g \in cleanup /\ cleanup' = cleanup \ {g}
  /\ Broadcast(g, FALSE)
  /\ UNCHANGED <<table, caller, watching, asked, link, nowner, nrev, moves>>

(* forget(): archiving drops the entry.                                     *)
Forget ==
  /\ "archive" \in scenario.events
  /\ \E i \in Live : Drop({entries[i]}) /\ cleanup' = cleanup \cup {entries[i]}
  /\ UNCHANGED <<generation, retry, stopped, caller, watching, asked, link, nat>>

-----------------------------------------------------------------------------
(* Receive() of one state change.  Old revisions are ignored; a patch must  *)
(* start at the revision the entry has; anything else drops the entry.      *)
PatchApplies(e, m) == m.base = e.rev /\ e.content # 0
ContentAfter(e, m) == IF m.kind = "snapshot" THEN m.rev ELSE e.content + (m.rev - m.base)

Receive ==
  LET m == Head(stream)
      g == entries[m.id]
      e == ent[g] IN
  /\ stream # << >> /\ asked = 0 /\ conn # 0
  /\ stream' = Tail(stream)
  /\ \/ /\ g # 0 => stopped \/ (m.kind # "status" /\ (e.owner # m.owner \/ m.rev <= e.rev))
        /\ UNCHANGED <<entries, ent, retry, cleanup, asked>>
     \/ /\ g # 0 /\ ~stopped /\ m.kind = "status"
        /\ asked' = g
        /\ UNCHANGED <<entries, ent, retry, cleanup>>
     \/ /\ g # 0 /\ ~stopped /\ m.kind # "status" /\ e.owner = m.owner /\ m.rev > e.rev
        /\ IF m.kind = "snapshot" \/ PatchApplies(e, m)
           THEN /\ ent' = [ent EXCEPT ![g] = [e EXCEPT !.rev = m.rev, !.content = ContentAfter(e, m),
                                                       !.settled = TRUE, !.err = FALSE]]
                /\ retry' = retry \ {m.id}
                /\ UNCHANGED <<entries, cleanup>>
           ELSE /\ Drop({g}) /\ cleanup' = cleanup \cup {g}
                /\ UNCHANGED retry
        /\ UNCHANGED asked
  /\ UNCHANGED <<generation, stopped, caller, watching, link, nowner, nrev, following, moves>>

(* A status request is answered by following again; failing that the entry  *)
(* is dropped.                                                              *)
AnswerStatus ==
  /\ asked # 0 /\ asked' = 0
  /\ IF Current(asked) /\ ~stopped /\ conn # 0
     THEN Broadcast(asked, TRUE) /\ UNCHANGED <<entries, ent, cleanup>>
     ELSE /\ Drop({asked})
          /\ cleanup' = cleanup \cup {g \in {asked} : Current(g)}
          /\ UNCHANGED <<following, stream>>
  /\ UNCHANGED <<generation, retry, stopped, caller, watching, link, nowner, nrev, moves>>

(* Disconnected() runs after the connection is gone, and possibly after the *)
(* next one has opened; it drops every entry without a broadcast.           *)
Disconnected ==
  /\ lost > 0 /\ lost' = lost - 1
  /\ IF stopped THEN UNCHANGED <<entries, ent>> ELSE Drop({entries[i] : i \in Live})
  /\ UNCHANGED <<generation, retry, stopped, caller, workers, conn, conns, nat>>

(* Close(): everything is dropped, then unfollowed.                         *)
Close ==
  /\ "close" \in scenario.events
  /\ ~stopped /\ stopped' = TRUE
  /\ Drop({entries[i] : i \in Live}) /\ cleanup' = cleanup \cup {entries[i] : i \in Live}
  /\ retry' = {} /\ watching' = {}
  /\ UNCHANGED <<generation, caller, asked, link, nat>>

-----------------------------------------------------------------------------
(* The Desktop side (external).                                             *)
ConnectionLost ==
  /\ conn # 0 /\ conns <= scenario.losses
  /\ conn' = 0 /\ lost' = lost + 1
  /\ following' = {} /\ stream' = << >>
  /\ UNCHANGED <<table, caller, workers, conns, nowner, nrev, moves>>

Reconnected ==
  /\ conn = 0 /\ ~stopped
  /\ conn' = conns + 1 /\ conns' = conns + 1
  /\ UNCHANGED <<table, caller, workers, lost, nat>>

OwnerMoves ==
  /\ moves < scenario.moves /\ moves' = moves + 1
  /\ \E i \in Ids, o \in Owners \cup {None} :
       /\ o # nowner[i]
       /\ nowner' = [nowner EXCEPT ![i] = o]
       /\ following' = {f \in following : f[1] # i}
  /\ UNCHANGED <<table, caller, workers, link, nrev, stream>>

OwnerUpdates ==
  /\ conn # 0
  /\ \E i \in Ids :
       /\ nowner[i] # None /\ nrev[i] < scenario.rev /\ Len(stream) < MaxStream
       /\ nrev' = [nrev EXCEPT ![i] = @ + 1]
       /\ stream' = IF <<i, nowner[i]>> \in following
                    THEN Append(stream, Message(i, nowner[i], "patches", nrev[i] + 1, nrev[i]))
                    ELSE stream
  /\ UNCHANGED <<table, caller, workers, link, nowner, following, moves>>

OwnerAsks ==
  /\ "status request" \in scenario.events
  /\ conn # 0 /\ stream = << >>
  /\ \E i \in Ids : nowner[i] # None /\ stream' = << Message(i, nowner[i], "status", 0, 0) >>
  /\ UNCHANGED <<table, caller, workers, link, nowner, nrev, following, moves>>

-----------------------------------------------------------------------------
CallerStep(p) ==
  \/ ReadConnection(p) \/ AcquireRefused(p) \/ AcquireShared(p) \/ AcquireCreated(p)
  \/ UnfollowReplaced(p) \/ Follow(p) \/ Ready(p) \/ WaitFailed(p)

Next ==
  \/ \E p \in Callers : Discover(p) \/ CallerStep(p) \/ WaitAbandoned(p) \/ EndLease(p)
  \/ \E g \in Gens : Watch(g) \/ CleanUp(g)
  \/ Sweep \/ Forget \/ Receive \/ AnswerStatus \/ Disconnected \/ Close
  \/ ConnectionLost \/ Reconnected \/ OwnerMoves \/ OwnerUpdates \/ OwnerAsks

Spec == Init /\ [][Next /\ UNCHANGED scenario]_<<vars, scenario>>

(* Filo's own goroutines and timers run; the Desktop side owes nothing.     *)
Fairness ==
  /\ \A p \in Callers : WF_vars(CallerStep(p))
  /\ \A g \in Gens : WF_vars(Watch(g)) /\ WF_vars(CleanUp(g))
  /\ WF_vars(AnswerStatus) /\ WF_vars(Disconnected)

FairSpec == Spec /\ Fairness

-----------------------------------------------------------------------------
Entry == [id : Ids \cup {None}, owner : Owners \cup {None}, conn : Nat, rev : 0..MaxRev, content : Nat,
          settled : BOOLEAN, err : BOOLEAN, refs : Nat, readRequested : BOOLEAN, released : BOOLEAN]

(* Types of the entries, the readers and the messages.                      *)
TypeOK ==
  /\ entries \in [Ids -> 0..MaxGen] /\ ent \in [Gens -> Entry] /\ generation \in 0..MaxGen
  /\ retry \subseteq Ids /\ stopped \in BOOLEAN
  /\ caller \in [Callers -> [pc : {"idle", "owned", "connected", "unfollow", "follow", "wait", "hold", "done"},
                             id : Ids \cup {None}, owner : Owners \cup {None}, conn : Nat,
                             g : 0..MaxGen, old : 0..MaxGen, kind : AllKinds]]
  /\ watching \subseteq Gens /\ cleanup \subseteq Gens /\ asked \in 0..MaxGen
  /\ conn \in Nat /\ conns \in Nat /\ lost \in Nat
  /\ nowner \in [Ids -> Owners \cup {None}] /\ nrev \in [Ids -> 1..MaxRev]
  /\ following \subseteq (Ids \X Owners) /\ moves \in Nat
  /\ stream \in Seq([id : Ids, owner : Owners, kind : {"snapshot", "patches", "status"},
                     rev : 0..MaxRev, base : 0..MaxRev])

(* The reference count of a current entry is exactly the number of readers  *)
(* between their acquire and their release: no release is lost, counted on  *)
(* a replacement entry or counted twice, so neither sweep nor an immediate  *)
(* release of one reader drops an entry another reader holds.               *)
Holders(g) == {p \in Callers : ReadOnly(p) /\ caller[p].g = g
                                /\ caller[p].pc \in {"unfollow", "follow", "wait", "hold"}}
RefsExact == \A g \in Gens : Current(g) => ent[g].refs = Cardinality(Holders(g))

(* A conversation state is exactly the native state of its revision, across *)
(* re-subscriptions, replaced owners and messages of an older subscription. *)
StateExact == \A g \in Gens : ent[g].content = ent[g].rev

(* An entry is what it says it is: its holders and its state are exact      *)
(* (followers.go:137, receive.go:94).                                       *)
EntriesExact == TypeOK /\ RefsExact /\ StateExact

(* A caller that waits for a first snapshot is always released, even a      *)
(* control request without a read timeout: by the snapshot, the watch, a    *)
(* drop or Close.                                                           *)
WaitsEnd == \A p \in Callers : caller[p].pc = "wait" ~> caller[p].pc # "wait"
=============================================================================
