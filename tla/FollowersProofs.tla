---------------------------- MODULE FollowersProofs ----------------------------
(***************************************************************************)
(* Proofs about Followers, for any conversations, owners, callers and      *)
(* bounds: the reference count of a followed entry is the number of its    *)
(* readers, and its conversation is the native one of its revision.        *)
(***************************************************************************)
EXTENDS Followers, FiniteSetTheorems, TLAPS

(* What the callers, the entries and the native messages are.               *)
CallerSteps == {"idle", "owned", "connected", "unfollow", "follow", "wait", "hold", "done"}
Bound == {"unfollow", "follow", "wait", "hold"}
CallerStates == [pc : CallerSteps, id : Ids \cup {None}, owner : Owners \cup {None}, conn : Nat,
                 g : 0..MaxGen, old : 0..MaxGen, kind : AllKinds]
Messages == [id : Ids, owner : Owners, kind : {"snapshot", "patches", "status"}, rev : 0..MaxRev, base : 0..MaxRev]
Made == 1..generation

Tables == entries \in [Ids -> 0..MaxGen] /\ ent \in [Gens -> Entry] /\ generation \in 0..MaxGen
Links == conn \in Nat /\ conns \in Nat /\ lost \in Nat
Natives ==
  /\ nowner \in [Ids -> Owners \cup {None}] /\ nrev \in [Ids -> 1..MaxRev]
  /\ following \subseteq (Ids \X Owners) /\ moves \in Nat /\ stream \in Seq(Messages)
(* The workers hold entries that exist.                                     *)
Workers == watching \subseteq Made /\ cleanup \subseteq Made /\ asked \in Made \cup {0}
Modes == retry \subseteq Ids /\ stopped \in BOOLEAN /\ scenario \in Scenario

(* An entry belongs to one conversation for good ...                        *)
Belongs == \A g \in Made : ent[g].id \in Ids /\ ent[g].owner \in Owners
(* ... the table holds only entries that were not dropped, each under its   *)
(* conversation, and none once Close has run ...                            *)
Tabled ==
  /\ \A i \in Ids : entries[i] # 0 => entries[i] \in Made /\ ent[entries[i]].id = i /\ ~ent[entries[i]].err
  /\ stopped => \A i \in Ids : entries[i] = 0
(* ... and a caller that acquired an entry did so for its conversation.     *)
Proper(c) ==
  /\ c \in CallerStates
  /\ c.pc \notin {"idle", "done"} => c.id \in Ids /\ c.owner \in Owners
  /\ c.pc \in Bound => c.g \in Made /\ ent[c.g].id = c.id
  /\ c.pc = "unfollow" => c.old \in Made
  /\ c.pc = "hold" => c.kind # "control"
Calls == caller \in [Callers -> CallerStates] /\ \A p \in Callers : Proper(caller[p])
Core == Tables /\ Belongs /\ Tabled /\ Calls /\ RefsExact /\ StateExact
Inv == Core /\ Links /\ Natives /\ Workers /\ Modes

-----------------------------------------------------------------------------
(* A caller that holds a reference to the entry g.                          *)
Holds(c, g) == c.kind # "control" /\ c.g = g /\ c.pc \in Bound

LEMMA HoldersAre ==
  ASSUME NEW g \in Gens
  PROVE  Holders(g) = {p \in Callers : Holds(caller[p], g)} /\ IsFiniteSet(Holders(g))
<1>1. Holders(g) = {p \in Callers : Holds(caller[p], g)}
  BY DEF Holders, Holds, ReadOnly, Bound
<1>2. Holders(g) \subseteq Callers
  BY DEF Holders
<1> QED BY <1>1, <1>2, FS_Subset, FollowersAssumption

LEMMA MadeAre ==
  ASSUME Tables
  PROVE  Made \subseteq Gens /\ 0 \notin Gens /\ Gens \subseteq 0..MaxGen /\ 0 \in 0..MaxGen
  BY FollowersAssumption DEF Tables, Made, Gens

(* Which callers hold an entry after one caller's state was replaced.       *)
LEMMA HoldersMove ==
  ASSUME Calls, NEW p \in Callers, caller' = [caller EXCEPT ![p] = caller'[p]], NEW g \in Gens
  PROVE  /\ Holds(caller'[p], g) => Holders(g)' = Holders(g) \cup {p}
         /\ ~Holds(caller'[p], g) => Holders(g)' = Holders(g) \ {p}
<1>1. \A q \in Callers : q # p => caller'[q] = caller[q]
  BY DEF Calls
<1>2. Holders(g) = {q \in Callers : Holds(caller[q], g)}
  BY HoldersAre
<1>3. Holders(g)' = {q \in Callers : Holds(caller'[q], g)}
  BY DEF Holders, Holds, ReadOnly, Bound
<1>4. \A q \in Callers : q # p => (Holds(caller'[q], g) <=> Holds(caller[q], g))
  BY <1>1
<1> QED BY <1>2, <1>3, <1>4

LEMMA HoldersStay ==
  ASSUME Calls, NEW p \in Callers, caller' = [caller EXCEPT ![p] = caller'[p]], NEW g \in Gens,
         Holds(caller'[p], g) <=> Holds(caller[p], g)
  PROVE  Holders(g)' = Holders(g)
<1>1. Holds(caller[p], g) <=> p \in Holders(g)
  BY HoldersAre
<1> QED BY <1>1, HoldersMove

LEMMA HoldersSame ==
  ASSUME UNCHANGED caller, NEW g \in Gens
  PROVE  Holders(g)' = Holders(g)
  BY DEF Holders, ReadOnly

(* The entries change without a new one and without a lease given or taken: *)
(* some are dropped, some show a newer state.                               *)
Shrinks ==
  /\ entries' \in [Ids -> 0..MaxGen] /\ ent' \in [Gens -> Entry] /\ generation' = generation
  /\ \A i \in Ids : entries'[i] \in {0, entries[i]}
  /\ \A g \in Gens : ent'[g].id = ent[g].id /\ ent'[g].owner = ent[g].owner /\ ent'[g].content = ent'[g].rev
  /\ \A i \in Ids : entries'[i] # 0 => ~ent'[entries[i]].err /\ ent'[entries[i]].refs = ent[entries[i]].refs
  /\ stopped' => stopped \/ \A i \in Ids : entries'[i] = 0

LEMMA TableShrinks ==
  ASSUME Core, Shrinks, Calls', \A g \in Gens : Current(g)' => Holders(g)' = Holders(g)
  PROVE  Core'
<1>1. generation' = generation /\ Made' = Made /\ Made \subseteq Gens
  BY MadeAre DEF Shrinks, Made, Core
<1>2. Tables'
  BY <1>1 DEF Shrinks, Tables, Core
<1>3. Belongs'
  BY <1>1 DEF Belongs, Core, Shrinks
<1>4. Tabled'
  <2>1. \A i \in Ids : entries'[i] # 0 => entries'[i] = entries[i] /\ entries[i] \in Made /\ ent[entries[i]].id = i
    BY DEF Shrinks, Core, Tabled
  <2>2. \A i \in Ids : entries'[i] # 0 => entries'[i] \in Made' /\ ent'[entries'[i]].id = i /\ ~ent'[entries'[i]].err
    BY <1>1, <2>1 DEF Shrinks
  <2>3. stopped' => \A i \in Ids : entries'[i] = 0
    BY DEF Shrinks, Core, Tabled
  <2> QED BY <2>2, <2>3 DEF Tabled
<1>5. RefsExact'
  <2> SUFFICES ASSUME NEW g \in Gens, Current(g)' PROVE ent'[g].refs = Cardinality(Holders(g)')
    BY DEF RefsExact
  <2>1. PICK i \in Ids : entries'[i] = g /\ g # 0
    BY DEF Current
  <2>2. entries[i] = g /\ ent'[g].refs = ent[g].refs
    BY <2>1 DEF Shrinks
  <2>3. Current(g)
    BY <2>1, <2>2 DEF Current
  <2> QED BY <2>2, <2>3 DEF Core, RefsExact
<1>6. StateExact'
  BY DEF Shrinks, StateExact
<1> QED BY <1>2, <1>3, <1>4, <1>5, <1>6 DEF Core

LEMMA StillShrinks ==
  ASSUME Core, UNCHANGED <<entries, ent, generation, stopped>>
  PROVE  Shrinks
  BY DEF Shrinks, Core, Tables, Tabled, StateExact

(* The callers' states stay proper while the entries keep their             *)
(* conversations.                                                           *)
LEMMA CallsStay ==
  ASSUME Core, \A g \in Gens : ent'[g].id = ent[g].id, generation' = generation, UNCHANGED caller
  PROVE  Calls'
<1>1. Made' = Made /\ Made \subseteq Gens
  BY MadeAre DEF Made, Core
<1>2. \A p \in Callers : Proper(caller[p]) => Proper(caller[p])'
  BY <1>1 DEF Proper
<1> QED BY <1>2 DEF Core, Calls

LEMMA CallsMove ==
  ASSUME Core, \A g \in Gens : ent'[g].id = ent[g].id, generation' = generation,
         NEW p \in Callers, caller' = [caller EXCEPT ![p] = caller'[p]], Proper(caller'[p])
  PROVE  Calls'
<1>1. Made' = Made /\ Made \subseteq Gens
  BY MadeAre DEF Made, Core
<1>2. \A q \in Callers : q # p => caller'[q] = caller[q]
  BY DEF Core, Calls
<1>3. \A q \in Callers : Proper(caller[q])
  BY DEF Core, Calls
<1>4. \A q \in Callers : Proper(caller'[q])
  BY <1>2, <1>3
<1>5. \A q \in Callers : Proper(caller[q])'
  BY <1>1, <1>4 DEF Proper
<1>6. caller' \in [Callers -> CallerStates]
  BY DEF Core, Calls, Proper
<1> QED BY <1>5, <1>6 DEF Calls

LEMMA DropIs ==
  ASSUME Core, NEW D, Drop(D), generation' = generation,
         stopped' => stopped \/ {entries[i] : i \in Live} \subseteq D
  PROVE  /\ Shrinks
         /\ \A g \in Gens : g \in D => ~Current(g)'
<1>0. MaxGen \in Nat /\ 0 \in 0..MaxGen
  BY FollowersAssumption
<1>1. /\ \A i \in Ids : entries'[i] = IF entries[i] \in D THEN 0 ELSE entries[i]
      /\ entries' \in [Ids -> 0..MaxGen]
  BY <1>0 DEF Drop, Core, Tables
<1>2. ASSUME NEW g \in Gens
      PROVE  /\ ent'[g] \in Entry /\ ent'[g].id = ent[g].id /\ ent'[g].owner = ent[g].owner
             /\ ent'[g].content = ent'[g].rev /\ ent'[g].refs = ent[g].refs
             /\ ~(g \in D /\ Current(g)) => ent'[g] = ent[g]
  <2>1. ent[g] \in Entry /\ ent[g].content = ent[g].rev
    BY DEF Core, Tables, StateExact
  <2>2. CASE g \in D /\ Current(g)
    <3>1. ent'[g] = [ent[g] EXCEPT !.err = TRUE, !.settled = TRUE]
      BY <2>2 DEF Drop
    <3> QED BY <2>1, <2>2, <3>1 DEF Entry
  <2>3. CASE ~(g \in D /\ Current(g))
    <3>1. ent'[g] = ent[g]
      BY <2>3 DEF Drop
    <3> QED BY <2>1, <2>3, <3>1
  <2> QED BY <2>2, <2>3
<1>3. ent' \in [Gens -> Entry]
  <2>1. ent' = [g \in Gens |-> ent'[g]]
    BY DEF Drop
  <2> QED BY <1>2, <2>1
<1>4. ASSUME NEW i \in Ids, entries'[i] # 0
      PROVE  ~ent'[entries[i]].err /\ ent'[entries[i]].refs = ent[entries[i]].refs
  <2>1. entries[i] # 0 /\ entries[i] \notin D
    BY <1>1, <1>4
  <2>2. entries[i] \in Gens /\ ~ent[entries[i]].err
    BY <2>1, MadeAre DEF Core, Tabled
  <2> QED BY <1>2, <2>1, <2>2
<1>5. stopped' => stopped \/ \A i \in Ids : entries'[i] = 0
  BY <1>1 DEF Live
<1>6. \A g \in Gens : g \in D => ~Current(g)'
  BY <1>1 DEF Current
<1> QED BY <1>1, <1>2, <1>3, <1>4, <1>5, <1>6 DEF Shrinks

-----------------------------------------------------------------------------
LEMMA BroadcastIs ==
  ASSUME Inv, NEW g \in Made, NEW on \in BOOLEAN, Broadcast(g, on), UNCHANGED <<nowner, nrev, moves>>
  PROVE  Natives'
<1> DEFINE i == ent[g].id
           o == ent[g].owner
           m == Message(i, o, "snapshot", nrev[i], 0)
<1>1. i \in Ids /\ o \in Owners
  BY DEF Inv, Core, Belongs
<1>2. following \subseteq (Ids \X Owners) /\ stream \in Seq(Messages) /\ nrev[i] \in 1..MaxRev /\ MaxRev \in Nat
  BY <1>1, FollowersAssumption DEF Inv, Natives
<1>3. m \in Messages
  BY <1>1, <1>2 DEF Messages, Message
<1>4. /\ following' \in {following, following \cup {<<i, o>>}, following \ {<<i, o>>}}
      /\ stream' \in {stream, Append(stream, m)}
  BY DEF Broadcast
<1>5. following' \subseteq (Ids \X Owners)
  BY <1>1, <1>2, <1>4
<1>6. stream' \in Seq(Messages)
  <2> HIDE DEF m
  <2> QED BY <1>2, <1>3, <1>4
<1> QED BY <1>5, <1>6 DEF Inv, Natives

LEMMA NativesStay ==
  ASSUME Inv, UNCHANGED nat
  PROVE  Natives'
  BY DEF Inv, Natives, nat

LEMMA LinksStay ==
  ASSUME Inv, UNCHANGED link
  PROVE  Links'
  BY DEF Inv, Links, link

LEMMA ModesStay ==
  ASSUME Inv, UNCHANGED <<retry, stopped, scenario>>
  PROVE  Modes'
  BY DEF Inv, Modes

LEMMA WorkersStay ==
  ASSUME Inv, UNCHANGED workers, generation' = generation
  PROVE  Workers'
  BY DEF Inv, Workers, Made, workers

(* The table and the callers stay as they are.                              *)
LEMMA CoreStays ==
  ASSUME Inv, UNCHANGED <<entries, ent, generation, stopped, caller>>
  PROVE  Core'
<1>1. Calls'
  BY CallsStay DEF Inv
<1>2. Shrinks
  BY StillShrinks DEF Inv
<1>3. \A g \in Gens : Holders(g)' = Holders(g)
  BY HoldersSame
<1> QED BY <1>1, <1>2, <1>3, TableShrinks DEF Inv

(* One caller moves on, and keeps or does not hold a reference.             *)
LEMMA CallerMoves ==
  ASSUME Inv, UNCHANGED <<entries, ent, generation, stopped>>, NEW p \in Callers,
         caller' = [caller EXCEPT ![p] = caller'[p]], Proper(caller'[p]),
         \A g \in Gens : Holds(caller'[p], g) <=> Holds(caller[p], g)
  PROVE  Core'
<1>1. Calls'
  BY CallsMove DEF Inv
<1>2. Shrinks
  BY StillShrinks DEF Inv
<1>3. \A g \in Gens : Holders(g)' = Holders(g)
  BY HoldersStay DEF Inv, Core
<1> QED BY <1>1, <1>2, <1>3, TableShrinks DEF Inv

(* Entries are dropped while the callers stay where they are.               *)
LEMMA DropKeeps ==
  ASSUME Inv, NEW D, Drop(D), generation' = generation, UNCHANGED caller,
         stopped' => stopped \/ {entries[i] : i \in Live} \subseteq D
  PROVE  Core'
<1>1. Shrinks
  BY DropIs DEF Inv
<1>2. Calls'
  BY <1>1, CallsStay DEF Inv, Shrinks
<1>3. \A g \in Gens : Holders(g)' = Holders(g)
  BY HoldersSame
<1> QED BY <1>1, <1>2, <1>3, TableShrinks DEF Inv

LEMMA CallerIs ==
  ASSUME Inv, NEW p \in Callers
  PROVE  Proper(caller[p]) /\ caller[p] \in CallerStates /\ caller \in [Callers -> CallerStates]
  BY DEF Inv, Core, Calls, Proper

LEMMA IdleIs ==
  /\ Idle \in CallerStates /\ Done \in CallerStates /\ Done.pc = "done"
  /\ Proper(Done) /\ \A g : ~Holds(Done, g)
<1>1. MaxGen \in Nat
  BY FollowersAssumption
<1>2. Idle \in CallerStates
  BY <1>1 DEF Idle, CallerStates, CallerSteps, AllKinds
<1>3. Done \in CallerStates /\ Done.pc = "done"
  BY <1>1 DEF Done, Idle, CallerStates, CallerSteps, AllKinds
<1> QED BY <1>2, <1>3 DEF Proper, Bound, Holds

LEMMA CurrentIs ==
  ASSUME Inv, NEW g \in Gens
  PROVE  Current(g) <=> \E i \in Ids : entries[i] = g
  BY MadeAre DEF Current, Inv, Core

(* An entry in the table is that of its conversation, and is not stale.     *)
LEMMA CurrentEntry ==
  ASSUME Inv, NEW g \in Gens, Current(g)
  PROVE  g \in Made /\ ent[g].id \in Ids /\ entries[ent[g].id] = g /\ ~ent[g].err /\ ~stopped
  BY CurrentIs, MadeAre DEF Inv, Core, Tabled

-----------------------------------------------------------------------------
(* The steps, one by one.                                                   *)
Rest == UNCHANGED <<retry, stopped, scenario, link, nat>> /\ UNCHANGED workers

LEMMA RestStays ==
  ASSUME Inv, Rest, generation' = generation, Core'
  PROVE  Inv'
<1>1. UNCHANGED <<retry, stopped, scenario, link, nat>> /\ UNCHANGED workers
  BY DEF Rest
<1> QED BY <1>1, NativesStay, LinksStay, ModesStay, WorkersStay DEF Inv

LEMMA DiscoverKeeps ==
  ASSUME Inv, NEW p \in Callers, Discover(p), UNCHANGED scenario
  PROVE  Inv'
<1>1. caller[p].pc = "idle" /\ UNCHANGED table /\ Rest
  BY DEF Discover, Rest, table
<1>2. PICK i \in Ids, k \in scenario.kinds :
        /\ nowner[i] # None
        /\ caller' = [caller EXCEPT ![p] = [Idle EXCEPT !.pc = "owned", !.id = i, !.owner = nowner[i], !.kind = k]]
  BY DEF Discover
<1>3. k \in AllKinds /\ nowner[i] \in Owners
  BY <1>2 DEF Inv, Modes, Scenario, Natives
<1>4. /\ caller'[p] = [Idle EXCEPT !.pc = "owned", !.id = i, !.owner = nowner[i], !.kind = k]
      /\ caller' = [caller EXCEPT ![p] = caller'[p]]
  BY <1>2, CallerIs
<1>5. caller'[p] \in CallerStates /\ caller'[p].pc = "owned" /\ caller'[p].id \in Ids /\ caller'[p].owner \in Owners
  <2>1. "owned" \in CallerSteps
    BY DEF CallerSteps
  <2> QED BY <1>3, <1>4, <2>1, IdleIs DEF CallerStates
<1>6. Proper(caller'[p]) /\ \A g \in Gens : ~Holds(caller'[p], g) /\ ~Holds(caller[p], g)
  BY <1>1, <1>5 DEF Proper, Holds, Bound
<1>7. Core'
  BY <1>1, <1>4, <1>6, CallerMoves DEF table
<1> QED BY <1>1, <1>7, RestStays DEF table

LEMMA ReadConnectionKeeps ==
  ASSUME Inv, NEW p \in Callers, ReadConnection(p), UNCHANGED scenario
  PROVE  Inv'
<1>1. caller[p].pc = "owned" /\ UNCHANGED table /\ Rest /\ caller' = [caller EXCEPT ![p].pc = "connected", ![p].conn = conn]
  BY DEF ReadConnection, Rest, table
<1>2. caller'[p] = [caller[p] EXCEPT !.pc = "connected", !.conn = conn] /\ caller' = [caller EXCEPT ![p] = caller'[p]]
  BY <1>1, CallerIs
<1>3. /\ caller'[p] \in CallerStates /\ caller'[p].pc = "connected" /\ caller'[p].id = caller[p].id
      /\ caller'[p].owner = caller[p].owner
  <2>1. "connected" \in CallerSteps /\ conn \in Nat
    BY DEF CallerSteps, Inv, Links
  <2> QED BY <1>2, <2>1, CallerIs DEF CallerStates
<1>4. Proper(caller'[p]) /\ \A g \in Gens : ~Holds(caller'[p], g) /\ ~Holds(caller[p], g)
  BY <1>1, <1>3, CallerIs DEF Proper, Holds, Bound
<1>5. Core'
  BY <1>1, <1>2, <1>4, CallerMoves DEF table
<1> QED BY <1>1, <1>5, RestStays DEF table

LEMMA AcquireRefusedKeeps ==
  ASSUME Inv, NEW p \in Callers, AcquireRefused(p), UNCHANGED scenario
  PROVE  Inv'
<1>1. caller[p].pc = "connected" /\ UNCHANGED table /\ Rest /\ caller' = [caller EXCEPT ![p] = Done]
  BY DEF AcquireRefused, Rest, table
<1>2. caller'[p] = Done /\ caller' = [caller EXCEPT ![p] = caller'[p]]
  BY <1>1, CallerIs
<1>3. Proper(caller'[p]) /\ \A g \in Gens : ~Holds(caller'[p], g) /\ ~Holds(caller[p], g)
  BY <1>1, <1>2, IdleIs DEF Holds, Bound
<1>4. Core'
  BY <1>1, <1>2, <1>3, CallerMoves DEF table
<1> QED BY <1>1, <1>4, RestStays DEF table

LEMMA UnfollowReplacedKeeps ==
  ASSUME Inv, NEW p \in Callers, UnfollowReplaced(p), UNCHANGED scenario
  PROVE  Inv'
<1>1. /\ caller[p].pc = "unfollow" /\ UNCHANGED <<table, workers, link, nowner, nrev, moves>>
      /\ caller' = [caller EXCEPT ![p].pc = "follow", ![p].old = 0] /\ Broadcast(caller[p].old, FALSE)
  BY DEF UnfollowReplaced
<1>2. caller'[p] = [caller[p] EXCEPT !.pc = "follow", !.old = 0] /\ caller' = [caller EXCEPT ![p] = caller'[p]]
  BY <1>1, CallerIs
<1>3. /\ caller'[p] \in CallerStates /\ caller'[p].pc = "follow" /\ caller'[p].id = caller[p].id
      /\ caller'[p].owner = caller[p].owner /\ caller'[p].g = caller[p].g /\ caller'[p].kind = caller[p].kind
  <2>1. "follow" \in CallerSteps /\ 0 \in 0..MaxGen
    BY FollowersAssumption DEF CallerSteps
  <2> QED BY <1>2, <2>1, CallerIs DEF CallerStates
<1>4. Proper(caller'[p]) /\ caller[p].old \in Made /\ \A g \in Gens : Holds(caller'[p], g) <=> Holds(caller[p], g)
  BY <1>1, <1>3, CallerIs DEF Proper, Holds, Bound
<1>5. Core'
  BY <1>1, <1>2, <1>4, CallerMoves DEF table
<1>6. Natives'
  BY <1>1, <1>4, BroadcastIs
<1> QED BY <1>1, <1>5, <1>6, LinksStay, ModesStay, WorkersStay DEF Inv, table

(* The subscription is opened for a current entry, or the entry is dropped. *)
LEMMA FollowKeeps ==
  ASSUME Inv, NEW p \in Callers, Follow(p), UNCHANGED scenario
  PROVE  Inv'
<1> DEFINE g == caller[p].g
<1>1. /\ caller[p].pc = "follow" /\ UNCHANGED <<generation, retry, stopped, cleanup, asked, link, nowner, nrev, moves>>
  BY DEF Follow
<1>2. g \in Made /\ g \in Gens /\ ent[g].id = caller[p].id
  BY <1>1, CallerIs, MadeAre DEF Proper, Bound, Inv, Core
<1>3. CASE Current(g) /\ ~stopped /\ conn # 0
  <2>1. /\ Broadcast(g, TRUE) /\ watching' = watching \cup {g} /\ caller' = [caller EXCEPT ![p].pc = "wait"]
        /\ UNCHANGED <<entries, ent>>
    BY <1>3 DEF Follow
  <2>2. caller'[p] = [caller[p] EXCEPT !.pc = "wait"] /\ caller' = [caller EXCEPT ![p] = caller'[p]]
    BY <2>1, CallerIs
  <2>3. /\ caller'[p] \in CallerStates /\ caller'[p].pc = "wait" /\ caller'[p].id = caller[p].id
        /\ caller'[p].owner = caller[p].owner /\ caller'[p].g = g /\ caller'[p].kind = caller[p].kind
    <3>1. "wait" \in CallerSteps
      BY DEF CallerSteps
    <3> QED BY <2>2, <3>1, CallerIs DEF CallerStates
  <2>4. Proper(caller'[p]) /\ \A h \in Gens : Holds(caller'[p], h) <=> Holds(caller[p], h)
    BY <1>1, <2>3, CallerIs DEF Proper, Holds, Bound
  <2>5. Core'
    BY <1>1, <2>1, <2>2, <2>4, CallerMoves
  <2>6. Natives'
    BY <1>1, <1>2, <2>1, BroadcastIs
  <2>7. Workers'
    BY <1>1, <1>2, <2>1 DEF Inv, Workers, Made
  <2> QED BY <1>1, <2>5, <2>6, <2>7, LinksStay, ModesStay DEF Inv
<1>4. CASE ~(Current(g) /\ ~stopped /\ conn # 0)
  <2>1. /\ Drop({g}) /\ caller' = [caller EXCEPT ![p] = Done] /\ UNCHANGED <<following, stream, watching>>
    BY <1>4 DEF Follow
  <2>2. caller'[p] = Done /\ caller' = [caller EXCEPT ![p] = caller'[p]]
    BY <2>1, CallerIs
  <2>3. Shrinks /\ \A h \in Gens : h \in {g} => ~Current(h)'
    BY <1>1, <2>1, DropIs DEF Inv
  <2>4. Calls'
    BY <1>1, <2>2, <2>3, CallsMove, IdleIs DEF Inv, Shrinks
  <2>5. ASSUME NEW h \in Gens, Current(h)' PROVE Holders(h)' = Holders(h)
    <3>1. h # g
      BY <2>3, <2>5
    <3>2. ~Holds(caller[p], h) /\ ~Holds(caller'[p], h)
      BY <2>2, <3>1, IdleIs DEF Holds
    <3> QED BY <2>2, <3>2, HoldersStay DEF Inv, Core
  <2>6. Core'
    BY <2>3, <2>4, <2>5, TableShrinks DEF Inv
  <2>7. Natives' /\ Workers'
    BY <1>1, <2>1, NativesStay, WorkersStay DEF nat, workers
  <2> QED BY <1>1, <2>6, <2>7, LinksStay, ModesStay DEF Inv
<1> QED BY <1>3, <1>4

(* A caller joins an entry: one more reference, for a reader.               *)
LEMMA AcquireSharedKeeps ==
  ASSUME Inv, NEW p \in Callers, AcquireShared(p), UNCHANGED scenario
  PROVE  Inv'
<1> DEFINE i == caller[p].id
           g == entries[i]
           n == ent[g].refs + Refs(p)
           r == [ent[g] EXCEPT !.refs = n, !.readRequested = ent[g].readRequested \/ ReadOnly(p)]
<1>1. /\ caller[p].pc = "connected" /\ g # 0 /\ Rest /\ UNCHANGED <<entries, generation, stopped>>
      /\ ent' = [ent EXCEPT ![g].refs = @ + Refs(p), ![g].readRequested = @ \/ ReadOnly(p)]
      /\ caller' = [caller EXCEPT ![p].pc = "wait", ![p].g = g]
  BY DEF AcquireShared, Rest
<1>2. i \in Ids /\ caller[p].owner \in Owners /\ g \in Made /\ g \in Gens /\ ent[g].id = i /\ ent[g] \in Entry
      /\ ~ent[g].err
  <2>1. i \in Ids /\ caller[p].owner \in Owners
    BY <1>1, CallerIs DEF Proper
  <2>2. g \in Made /\ ent[g].id = i /\ ~ent[g].err
    BY <1>1, <2>1 DEF Inv, Core, Tabled
  <2> QED BY <2>1, <2>2, MadeAre DEF Inv, Core, Tables
<1>3. /\ caller'[p] = [caller[p] EXCEPT !.pc = "wait", !.g = g] /\ caller' = [caller EXCEPT ![p] = caller'[p]]
  BY <1>1, CallerIs
<1>4. /\ caller'[p] \in CallerStates /\ caller'[p].pc = "wait" /\ caller'[p].id = i
      /\ caller'[p].owner = caller[p].owner /\ caller'[p].g = g /\ caller'[p].kind = caller[p].kind
  <2>1. "wait" \in CallerSteps /\ g \in 0..MaxGen
    BY <1>2, MadeAre DEF CallerSteps, Inv, Core
  <2> HIDE DEF g
  <2> QED BY <1>3, <2>1, CallerIs DEF CallerStates
<1>5. Proper(caller'[p])
  BY <1>2, <1>4 DEF Proper, Bound
<1>6. n \in Nat
  <2>1. ent[g].refs \in Nat
    BY <1>2 DEF Entry
  <2> QED BY <2>1 DEF Refs
<1>7. ent' = [ent EXCEPT ![g] = r]
  BY <1>1, <1>2 DEF Inv, Core, Tables
<1>8. r \in Entry
  <2>1. (ent[g].readRequested \/ ReadOnly(p)) \in BOOLEAN
    BY Zenon
  <2> HIDE DEF n
  <2> QED BY <1>2, <1>6, <2>1 DEF Entry
<1>9. r.id = ent[g].id /\ r.owner = ent[g].owner /\ r.rev = ent[g].rev /\ r.content = ent[g].content /\ r.refs = n /\ (r.err <=> ent[g].err)
  BY <1>2 DEF Entry
<1> HIDE DEF r, n
<1>10. /\ ent' \in [Gens -> Entry] /\ ent'[g] = r /\ \A h \in Gens : h # g => ent'[h] = ent[h]
  BY <1>2, <1>7, <1>8 DEF Inv, Core, Tables
<1>11. Tables' /\ Belongs' /\ StateExact' /\ Made' = Made
  <2>1. Made' = Made /\ Made \subseteq Gens
    BY <1>1, MadeAre DEF Made, Inv, Core
  <2>2. Tables'
    BY <1>1, <1>10 DEF Inv, Core, Tables
  <2>3. Belongs'
    BY <1>9, <1>10, <2>1 DEF Inv, Core, Belongs
  <2>4. StateExact'
    BY <1>9, <1>10 DEF Inv, Core, StateExact
  <2> QED BY <2>1, <2>2, <2>3, <2>4
<1>12. Calls'
  BY <1>1, <1>3, <1>5, <1>9, <1>10, CallsMove DEF Inv
<1>13. Tabled'
  <2>1. \A j \in Ids : entries[j] # 0 => entries[j] \in Gens
    BY MadeAre DEF Inv, Core, Tabled
  <2>2. \A h \in Gens : ent'[h].id = ent[h].id /\ (ent'[h].err <=> ent[h].err)
    BY <1>9, <1>10
  <2>3. UNCHANGED <<entries, stopped>>
    BY <1>1
  <2> QED BY <1>11, <2>1, <2>2, <2>3 DEF Inv, Core, Tabled
<1>14. RefsExact'
  <2> SUFFICES ASSUME NEW h \in Gens, Current(h)' PROVE ent'[h].refs = Cardinality(Holders(h)')
    BY DEF RefsExact
  <2>1. Current(h)
    BY <1>1 DEF Current
  <2>2. ent[h].refs = Cardinality(Holders(h)) /\ IsFiniteSet(Holders(h)) /\ p \notin Holders(h)
    BY <1>1, <2>1, HoldersAre DEF Inv, Core, RefsExact, Holds, Bound
  <2>3. CASE h # g
    <3>1. ~Holds(caller'[p], h) /\ ~Holds(caller[p], h)
      BY <1>1, <1>4, <2>3 DEF Holds, Bound
    <3> QED BY <1>3, <1>10, <2>2, <2>3, <3>1, HoldersStay DEF Inv, Core
  <2>4. CASE h = g /\ ReadOnly(p)
    <3>1. Holds(caller'[p], h)
      BY <1>4, <2>4 DEF Holds, Bound, ReadOnly
    <3>2. Holders(h)' = Holders(h) \cup {p}
      BY <1>3, <3>1, HoldersMove DEF Inv, Core
    <3>3. Cardinality(Holders(h) \cup {p}) = Cardinality(Holders(h)) + 1
      BY <2>2, FS_AddElement
    <3>4. ent'[h].refs = ent[h].refs + 1
      BY <1>9, <1>10, <2>4 DEF n, Refs
    <3> QED BY <2>2, <3>2, <3>3, <3>4
  <2>5. CASE h = g /\ ~ReadOnly(p)
    <3>1. ~Holds(caller'[p], h) /\ ~Holds(caller[p], h)
      BY <1>1, <1>4, <2>5 DEF Holds, Bound, ReadOnly
    <3>2. Holders(h)' = Holders(h)
      BY <1>3, <3>1, HoldersStay DEF Inv, Core
    <3>3. ent'[h].refs = ent[h].refs
      BY <1>2, <1>9, <1>10, <2>5 DEF n, Refs, Entry
    <3> QED BY <2>2, <3>2, <3>3
  <2> QED BY <2>3, <2>4, <2>5
<1>15. Core'
  BY <1>11, <1>12, <1>13, <1>14 DEF Core
<1> QED BY <1>1, <1>15, RestStays

(* A caller makes an entry, in the place of none or of an outdated one.     *)
LEMMA AcquireCreatedKeeps ==
  ASSUME Inv, NEW p \in Callers, AcquireCreated(p), UNCHANGED scenario
  PROVE  Inv'
<1> DEFINE i == caller[p].id
           old == entries[i]
           g == generation + 1
           r == [NoEntry EXCEPT !.id = i, !.owner = caller[p].owner, !.conn = caller[p].conn,
                                !.refs = Refs(p), !.readRequested = ReadOnly(p)]
           pc == IF old = 0 THEN "follow" ELSE "unfollow"
           New(h) == CASE h = g -> r [] h = old -> [ent[h] EXCEPT !.err = TRUE, !.settled = TRUE] [] OTHER -> ent[h]
<1>1. /\ caller[p].pc = "connected" /\ ~stopped /\ generation < MaxGen /\ generation' = g
      /\ entries' = [entries EXCEPT ![i] = g]
      /\ caller' = [caller EXCEPT ![p] = [@ EXCEPT !.pc = pc, !.g = g, !.old = old]]
      /\ UNCHANGED <<retry, stopped, workers, link, nat>>
  BY DEF AcquireCreated
<1>2. i \in Ids /\ caller[p].owner \in Owners /\ caller[p].conn \in Nat
  BY <1>1, CallerIs DEF Proper, CallerStates
<1>3. /\ generation \in Nat /\ MaxGen \in Nat /\ g \in Gens /\ g \notin Made /\ Made' = Made \cup {g} /\ g \in 0..MaxGen
      /\ Made \subseteq Gens /\ g # 0
  BY <1>1, FollowersAssumption DEF Inv, Core, Tables, Made, Gens
<1>4. old \in Made \cup {0} /\ old \in 0..MaxGen
  BY <1>2 DEF Inv, Core, Tabled, Tables
<1>5. ent' = [h \in Gens |-> New(h)]
  BY DEF AcquireCreated
<1>6. /\ ent'[g] = r
      /\ \A h \in Gens : h # g => ent'[h] = IF h = old THEN [ent[h] EXCEPT !.err = TRUE, !.settled = TRUE] ELSE ent[h]
  <2> HIDE DEF r
  <2>0. g # old
    BY <1>3, <1>4
  <2>1. New(g) = r
    BY <2>0
  <2>2. \A h \in Gens : h # g => New(h) = IF h = old THEN [ent[h] EXCEPT !.err = TRUE, !.settled = TRUE] ELSE ent[h]
    <3>1. \A h \in Gens : (h # g /\ h = old) => New(h) = [ent[h] EXCEPT !.err = TRUE, !.settled = TRUE]
      OBVIOUS
    <3>2. \A h \in Gens : (h # g /\ h # old) => New(h) = ent[h]
      OBVIOUS
    <3> HIDE DEF New
    <3> QED BY <3>1, <3>2
  <2> HIDE DEF New
  <2> QED BY <1>3, <1>5, <2>1, <2>2
<1>7. r \in Entry /\ r.id = i /\ r.owner = caller[p].owner /\ r.err = FALSE /\ r.refs = Refs(p) /\ r.content = r.rev
  <2>1. Refs(p) \in Nat /\ ReadOnly(p) \in BOOLEAN /\ 0 \in 0..MaxRev /\ 0 \in Nat
    BY FollowersAssumption DEF Refs, ReadOnly
  <2> QED BY <1>2, <2>1 DEF NoEntry, Entry
<1>8. ASSUME NEW h \in Gens, h # g
      PROVE  /\ ent'[h] \in Entry /\ ent'[h].id = ent[h].id /\ ent'[h].owner = ent[h].owner /\ ent'[h].content = ent'[h].rev
             /\ ent'[h].refs = ent[h].refs /\ (h # old => ent'[h] = ent[h])
  <2>1. ent[h] \in Entry /\ ent[h].content = ent[h].rev
    BY DEF Inv, Core, Tables, StateExact
  <2>2. CASE h = old
    <3>1. ent'[h] = [ent[h] EXCEPT !.err = TRUE, !.settled = TRUE]
      BY <1>6, <1>8, <2>2
    <3> QED BY <2>1, <2>2, <3>1 DEF Entry
  <2>3. CASE h # old
    BY <1>6, <1>8, <2>1, <2>3
  <2> QED BY <2>2, <2>3
<1> HIDE DEF r, pc, New
<1>9. ent' \in [Gens -> Entry]
  <2>1. \A h \in Gens : ent'[h] \in Entry
    BY <1>6, <1>7, <1>8
  <2>2. ent' = [h \in Gens |-> ent'[h]]
    BY <1>5
  <2> QED BY <2>1, <2>2
<1>10. /\ caller'[p] = [caller[p] EXCEPT !.pc = pc, !.g = g, !.old = old] /\ caller' = [caller EXCEPT ![p] = caller'[p]]
  BY <1>1, CallerIs
<1>11. /\ caller'[p] \in CallerStates /\ caller'[p].pc = pc /\ caller'[p].id = i /\ caller'[p].owner = caller[p].owner
       /\ caller'[p].g = g /\ caller'[p].old = old /\ caller'[p].kind = caller[p].kind
  <2>1. pc \in CallerSteps
    BY DEF CallerSteps, pc
  <2> HIDE DEF g, old
  <2> QED BY <1>3, <1>4, <1>10, <2>1, CallerIs DEF CallerStates
<1>12. entries' \in [Ids -> 0..MaxGen] /\ \A j \in Ids : entries'[j] = IF j = i THEN g ELSE entries[j]
  <2> HIDE DEF g
  <2> QED BY <1>1, <1>2, <1>3 DEF Inv, Core, Tables
<1>13. Tables' /\ Belongs' /\ StateExact'
  <2>1. Tables'
    BY <1>1, <1>3, <1>9, <1>12 DEF Tables
  <2>2. Belongs'
    BY <1>2, <1>3, <1>6, <1>7, <1>8 DEF Inv, Core, Belongs
  <2>3. StateExact'
    BY <1>3, <1>6, <1>7, <1>8 DEF StateExact
  <2> QED BY <2>1, <2>2, <2>3
<1>14. Tabled'
  <2>1. ASSUME NEW j \in Ids, j # i, entries[j] # 0
        PROVE  entries[j] \in Made /\ entries[j] # old /\ entries[j] # g /\ ent[entries[j]].id = j /\ ~ent[entries[j]].err
    <3>1. entries[j] \in Made /\ ent[entries[j]].id = j /\ ~ent[entries[j]].err
      BY <2>1 DEF Inv, Core, Tabled
    <3>2. old # 0 => ent[old].id = i
      BY <1>2 DEF Inv, Core, Tabled
    <3> QED BY <1>3, <2>1, <3>1, <3>2
  <2>2. \A j \in Ids : entries'[j] # 0 =>
          entries'[j] \in Made' /\ ent'[entries'[j]].id = j /\ ~ent'[entries'[j]].err
    <3> SUFFICES ASSUME NEW j \in Ids, entries'[j] # 0
                 PROVE  entries'[j] \in Made' /\ ent'[entries'[j]].id = j /\ ~ent'[entries'[j]].err
      OBVIOUS
    <3>1. CASE j = i
      <4>1. entries'[j] = g /\ ent'[g] = r
        BY <1>6, <1>12, <3>1
      <4> HIDE DEF g
      <4> QED BY <1>3, <1>7, <3>1, <4>1
    <3>2. CASE j # i
      <4>1. entries'[j] = entries[j] /\ entries[j] # 0
        BY <1>12, <3>2
      <4>2. entries[j] \in Made /\ entries[j] # old /\ entries[j] # g /\ ent[entries[j]].id = j /\ ~ent[entries[j]].err
        BY <2>1, <3>2, <4>1
      <4>3. ent'[entries[j]] = ent[entries[j]]
        BY <1>3, <1>8, <4>2
      <4> QED BY <1>3, <4>1, <4>2, <4>3
    <3> QED BY <3>1, <3>2
  <2> QED BY <1>1, <2>2 DEF Tabled
<1>15. Calls'
  <2>1. \A q \in Callers : q # p => caller'[q] = caller[q]
    BY <1>10, CallerIs
  <2>2. ASSUME NEW q \in Callers PROVE Proper(caller[q])'
    <3>1. CASE q = p
      <4>1. caller'[p].pc \in {"follow", "unfollow"} /\ (caller'[p].pc = "unfollow" => old \in Made)
        BY <1>4, <1>11 DEF pc
      <4> QED BY <1>2, <1>3, <1>6, <1>7, <1>11, <3>1, <4>1 DEF Proper, Bound
    <3>2. CASE q # p
      <4>1. Proper(caller[q]) /\ caller'[q] = caller[q]
        BY <2>1, <3>2, CallerIs
      <4>2. \A h \in Made : h \in Gens /\ h # g /\ ent'[h].id = ent[h].id
        BY <1>3, <1>8
      <4> QED BY <1>3, <4>1, <4>2 DEF Proper
    <3> QED BY <3>1, <3>2
  <2>3. caller' \in [Callers -> CallerStates]
    BY <1>10, <1>11, CallerIs
  <2> QED BY <2>2, <2>3 DEF Calls
<1>16. RefsExact'
  <2> SUFFICES ASSUME NEW h \in Gens, Current(h)' PROVE ent'[h].refs = Cardinality(Holders(h)')
    BY DEF RefsExact
  <2>1. IsFiniteSet(Holders(h)) /\ ~Holds(caller[p], h) /\ p \notin Holders(h)
    BY <1>1, HoldersAre DEF Holds, Bound
  <2>2. CASE h = g
    <3>1. Holders(h) = {}
      <4>1. \A q \in Callers : caller[q].pc \in Bound => caller[q].g # g
        BY <1>3, CallerIs DEF Proper
      <4> QED BY <2>2, <4>1, HoldersAre DEF Holds
    <3>2. CASE ReadOnly(p)
      <4>1. Holds(caller'[p], h)
        BY <1>11, <2>2, <3>2 DEF Holds, Bound, ReadOnly, pc
      <4>2. Holders(h)' = {p}
        BY <1>10, <3>1, <4>1, HoldersMove DEF Inv, Core
      <4>3. Cardinality({p}) = 1
        BY FS_Singleton
      <4>4. ent'[h].refs = 1
        BY <1>6, <1>7, <2>2, <3>2 DEF Refs
      <4> QED BY <4>2, <4>3, <4>4
    <3>3. CASE ~ReadOnly(p)
      <4>1. ~Holds(caller'[p], h)
        BY <1>11, <3>3 DEF Holds, ReadOnly
      <4>2. Holders(h)' = {}
        BY <1>10, <3>1, <4>1, HoldersMove DEF Inv, Core
      <4> QED BY <1>6, <1>7, <2>2, <3>3, <4>2, FS_EmptySet DEF Refs
    <3> QED BY <3>2, <3>3
  <2>3. CASE h # g
    <3>1. Current(h)
      BY <1>12, <2>3 DEF Current
    <3>2. ~Holds(caller'[p], h)
      BY <1>11, <2>3 DEF Holds
    <3>3. Holders(h)' = Holders(h)
      BY <1>10, <2>1, <3>2, HoldersStay DEF Inv, Core
    <3> QED BY <1>8, <2>3, <3>1, <3>3 DEF Inv, Core, RefsExact
  <2> QED BY <2>2, <2>3
<1>17. Core'
  BY <1>13, <1>14, <1>15, <1>16 DEF Core
<1>18. Workers'
  BY <1>1, <1>3 DEF Inv, Workers, workers
<1> QED BY <1>1, <1>17, <1>18, NativesStay, LinksStay, ModesStay DEF Inv

(* The end of a lease takes one reference of the current entry, or nothing  *)
(* of an entry that has been replaced.                                      *)
LEMMA ReleaseKeeps ==
  ASSUME Inv, NEW p \in Callers, NEW immediate \in BOOLEAN, Release(p, immediate), UNCHANGED scenario,
         caller[p].pc \in Bound, Current(caller[p].g) => ReadOnly(p)
  PROVE  Inv'
<1> DEFINE i == caller[p].id
<1>0. PICK g : g = caller[p].g
  OBVIOUS
<1>1. /\ caller' = [caller EXCEPT ![p] = Done]
      /\ UNCHANGED <<generation, retry, stopped, watching, asked, link, nat>>
  BY DEF Release
<1>2. g \in Made /\ g \in Gens /\ ent[g].id = i /\ i \in Ids /\ Made \subseteq Gens /\ Made' = Made /\ g # 0
  <2>1. g \in Made /\ ent[g].id = i /\ i \in Ids
    BY <1>0, CallerIs DEF Proper, Bound
  <2> QED BY <1>1, <2>1, MadeAre DEF Inv, Core, Made
<1>3. caller'[p] = Done /\ caller' = [caller EXCEPT ![p] = caller'[p]] /\ Proper(caller'[p])
  BY <1>1, CallerIs, IdleIs
<1>4. \A h \in Gens : ~Holds(caller'[p], h) /\ (Holds(caller[p], h) => h = g)
  BY <1>0, <1>3, IdleIs DEF Holds
<1>5. \A h \in Gens : h # g => Holders(h)' = Holders(h)
  BY <1>3, <1>4, HoldersStay DEF Inv, Core
<1>6. Natives' /\ Links' /\ Modes'
  BY <1>1, NativesStay, LinksStay, ModesStay
<1>7. CASE ~Current(g)
  <2>1. UNCHANGED <<entries, ent, cleanup>>
    BY <1>0, <1>7 DEF Release, Releasable
  <2>2. Shrinks
    BY <1>1, <2>1, StillShrinks DEF Inv
  <2>3. Calls'
    BY <1>1, <1>3, <2>1, CallsMove DEF Inv
  <2>4. \A h \in Gens : Current(h)' => h # g
    BY <1>7, <2>1 DEF Current
  <2>5. Core'
    BY <1>5, <2>2, <2>3, <2>4, TableShrinks DEF Inv
  <2>6. Workers'
    BY <1>1, <2>1, WorkersStay DEF workers
  <2> QED BY <1>6, <2>5, <2>6 DEF Inv
<1>8. CASE Current(g)
  <2> DEFINE n == IF ent[g].refs = 0 THEN 0 ELSE ent[g].refs - 1
  <2>1. entries[i] = g /\ ReleaseEntry(g, i, immediate)
    <3>1. entries[i] = g
      BY <1>2, <1>8, CurrentEntry
    <3> QED BY <1>0, <1>2, <1>8, <3>1 DEF Release, Releasable
  <2>2. /\ p \in Holders(g) /\ IsFiniteSet(Holders(g)) /\ ent[g].refs = Cardinality(Holders(g))
        /\ Holders(g)' = Holders(g) \ {p}
    <3>1. Holds(caller[p], g)
      BY <1>0, <1>8 DEF Holds, ReadOnly
    <3>2. p \in Holders(g) /\ IsFiniteSet(Holders(g))
      BY <1>2, <3>1, HoldersAre
    <3>3. ent[g].refs = Cardinality(Holders(g))
      BY <1>2, <1>8 DEF Inv, Core, RefsExact
    <3>4. Holders(g)' = Holders(g) \ {p}
      BY <1>2, <1>3, <1>4, HoldersMove DEF Inv, Core
    <3> QED BY <3>2, <3>3, <3>4
  <2>3. n \in Nat /\ n = Cardinality(Holders(g) \ {p})
    <3>1. Cardinality(Holders(g) \ {p}) = Cardinality(Holders(g)) - 1
      BY <2>2, FS_RemoveElement
    <3>2. Cardinality(Holders(g) \ {p}) \in Nat /\ Cardinality(Holders(g)) \in Nat
      BY <2>2, FS_CardinalityType, FS_RemoveElement
    <3> QED BY <2>2, <3>1, <3>2
  <2>4. ent[g] \in Entry /\ ent[g].content = ent[g].rev /\ ~ent[g].err /\ ~stopped
    BY <1>2, <1>8, CurrentEntry DEF Inv, Core, Tables, StateExact
  <2>5. \A j \in Ids : entries[j] # 0 => entries[j] \in Gens /\ ~ent[entries[j]].err /\ (j # i => entries[j] # g)
    BY <1>2 DEF Inv, Core, Tabled
  <2>6. CASE immediate /\ n = 0
    <3> DEFINE r == [ent[g] EXCEPT !.refs = 0, !.err = TRUE, !.settled = TRUE, !.released = TRUE]
    <3>1. entries' = [entries EXCEPT ![i] = 0] /\ ent' = [ent EXCEPT ![g] = r] /\ cleanup' = cleanup \cup {g}
      BY <2>1, <2>6 DEF ReleaseEntry
    <3>2. r \in Entry /\ r.id = ent[g].id /\ r.owner = ent[g].owner /\ r.content = r.rev
      BY <2>4 DEF Entry
    <3> HIDE DEF r
    <3>3. /\ ent' \in [Gens -> Entry] /\ ent'[g] = r /\ \A h \in Gens : h # g => ent'[h] = ent[h]
      BY <1>2, <3>1, <3>2 DEF Inv, Core, Tables
    <3>4. /\ entries' \in [Ids -> 0..MaxGen] /\ \A j \in Ids : entries'[j] = IF j = i THEN 0 ELSE entries[j]
      BY <1>2, <3>1, MadeAre DEF Inv, Core, Tables
    <3>5. \A h \in Gens : ent'[h].id = ent[h].id /\ ent'[h].owner = ent[h].owner /\ ent'[h].content = ent'[h].rev
      BY <3>2, <3>3 DEF Inv, Core, StateExact
    <3>6. \A j \in Ids : entries'[j] # 0 => entries'[j] = entries[j] /\ entries[j] # g /\ ent'[entries[j]] = ent[entries[j]]
      BY <2>5, <3>3, <3>4
    <3>7. Shrinks
      <4>1. \A j \in Ids : entries'[j] # 0 => ~ent'[entries[j]].err /\ ent'[entries[j]].refs = ent[entries[j]].refs
        BY <2>5, <3>6
      <4>2. UNCHANGED <<generation, stopped>>
        BY <1>1
      <4> QED BY <3>3, <3>4, <3>5, <4>1, <4>2 DEF Shrinks
    <3>8. Calls'
      BY <1>1, <1>3, <3>5, CallsMove DEF Inv
    <3>9. \A h \in Gens : Current(h)' => h # g
      BY <3>6 DEF Current
    <3>10. Core'
      BY <1>5, <3>7, <3>8, <3>9, TableShrinks DEF Inv
    <3>11. Workers'
      BY <1>1, <1>2, <3>1 DEF Inv, Workers
    <3> QED BY <1>6, <3>10, <3>11 DEF Inv
  <2>7. CASE ~(immediate /\ n = 0)
    <3> DEFINE r == [ent[g] EXCEPT !.refs = n]
    <3>1. ent' = [ent EXCEPT ![g].refs = n] /\ UNCHANGED <<entries, cleanup>>
      BY <2>1, <2>7 DEF ReleaseEntry
    <3> HIDE DEF n
    <3>2. ent' = [ent EXCEPT ![g] = r]
      BY <1>2, <3>1 DEF Inv, Core, Tables
    <3>3. r \in Entry /\ r.id = ent[g].id /\ r.owner = ent[g].owner /\ r.content = r.rev /\ r.refs = n /\ ~r.err
      BY <2>3, <2>4 DEF Entry
    <3> HIDE DEF r
    <3>4. /\ ent' \in [Gens -> Entry] /\ ent'[g] = r /\ \A h \in Gens : h # g => ent'[h] = ent[h]
      BY <1>2, <3>2, <3>3 DEF Inv, Core, Tables
    <3>5. \A h \in Gens : ent'[h].id = ent[h].id /\ ent'[h].owner = ent[h].owner /\ ent'[h].content = ent'[h].rev
      BY <3>3, <3>4 DEF Inv, Core, StateExact
    <3>6. UNCHANGED <<entries, generation, stopped>>
      BY <1>1, <3>1
    <3>7. Tables' /\ Belongs' /\ StateExact'
      BY <1>2, <3>4, <3>5, <3>6 DEF Inv, Core, Tables, Belongs, StateExact
    <3>8. Tabled'
      <4>1. \A j \in Ids : entries[j] # 0 => ent'[entries[j]].id = j /\ ~ent'[entries[j]].err
        BY <2>5, <3>3, <3>4, <3>5 DEF Inv, Core, Tabled
      <4> QED BY <1>2, <3>6, <4>1 DEF Inv, Core, Tabled
    <3>9. Calls'
      BY <1>3, <3>5, <3>6, CallsMove DEF Inv
    <3>10. RefsExact'
      <4> SUFFICES ASSUME NEW h \in Gens, Current(h)' PROVE ent'[h].refs = Cardinality(Holders(h)')
        BY DEF RefsExact
      <4>1. CASE h = g
        BY <2>2, <2>3, <3>3, <3>4, <4>1
      <4>2. CASE h # g
        <5>1. Current(h)
          BY <3>6 DEF Current
        <5> QED BY <1>5, <3>4, <4>2, <5>1 DEF Inv, Core, RefsExact
      <4> QED BY <4>1, <4>2
    <3>11. Core'
      BY <3>7, <3>8, <3>9, <3>10 DEF Core
    <3>12. Workers'
      BY <1>1, <3>1, WorkersStay DEF workers
    <3> QED BY <1>6, <3>11, <3>12 DEF Inv
  <2> QED BY <2>6, <2>7
<1> QED BY <1>7, <1>8

(* A caller with a snapshot holds its lease, or is done.                    *)
LEMMA StopsWaiting ==
  ASSUME Inv, NEW p \in Callers, caller[p].pc = "wait", Rest, UNCHANGED table,
         caller' = [caller EXCEPT ![p] = IF ReadOnly(p) THEN [@ EXCEPT !.pc = "hold"] ELSE Done]
  PROVE  Inv'
<1>1. CASE ReadOnly(p)
  <2>1. caller'[p] = [caller[p] EXCEPT !.pc = "hold"] /\ caller' = [caller EXCEPT ![p] = caller'[p]]
    BY <1>1, CallerIs
  <2>2. /\ caller'[p] \in CallerStates /\ caller'[p].pc = "hold" /\ caller'[p].id = caller[p].id
        /\ caller'[p].owner = caller[p].owner /\ caller'[p].g = caller[p].g /\ caller'[p].kind = caller[p].kind
    <3>1. "hold" \in CallerSteps
      BY DEF CallerSteps
    <3> QED BY <2>1, <3>1, CallerIs DEF CallerStates
  <2>3. Proper(caller'[p]) /\ \A h \in Gens : Holds(caller'[p], h) <=> Holds(caller[p], h)
    BY <1>1, <2>2, CallerIs DEF Proper, Holds, Bound, ReadOnly
  <2>4. Core'
    BY <2>1, <2>3, CallerMoves DEF table
  <2> QED BY <2>4, RestStays DEF table
<1>2. CASE ~ReadOnly(p)
  <2>1. caller'[p] = Done /\ caller' = [caller EXCEPT ![p] = caller'[p]]
    BY <1>2, CallerIs
  <2>2. Proper(caller'[p]) /\ \A h \in Gens : ~Holds(caller'[p], h) /\ ~Holds(caller[p], h)
    BY <1>2, <2>1, IdleIs DEF Holds, ReadOnly
  <2>3. Core'
    BY <2>1, <2>2, CallerMoves DEF table
  <2> QED BY <2>3, RestStays DEF table
<1> QED BY <1>1, <1>2

LEMMA ReadyKeeps ==
  ASSUME Inv, NEW p \in Callers, Ready(p), UNCHANGED scenario
  PROVE  Inv'
  BY StopsWaiting DEF Ready, Rest, table

(* Who is told that its entry failed holds no current entry.                *)
LEMMA WaitFailedKeeps ==
  ASSUME Inv, NEW p \in Callers, WaitFailed(p), UNCHANGED scenario
  PROVE  Inv'
<1>1. caller[p].pc = "wait" /\ caller[p].pc \in Bound /\ Release(p, FALSE)
      /\ (ent[caller[p].g].err \/ ~Current(caller[p].g) \/ stopped)
  BY DEF WaitFailed, Bound
<1>2. caller[p].g \in Gens
  BY <1>1, CallerIs, MadeAre DEF Proper, Inv, Core
<1>3. ~Current(caller[p].g)
  BY <1>1, <1>2, CurrentEntry
<1> QED BY <1>1, <1>3, ReleaseKeeps

LEMMA WaitAbandonedKeeps ==
  ASSUME Inv, NEW p \in Callers, WaitAbandoned(p), UNCHANGED scenario
  PROVE  Inv'
<1>1. caller[p].pc = "wait" /\ caller[p].pc \in Bound
  BY DEF WaitAbandoned, Bound
<1>2. CASE ReadOnly(p) /\ Release(p, FALSE)
  BY <1>1, <1>2, ReleaseKeeps
<1>3. CASE /\ caller' = [caller EXCEPT ![p] = IF ReadOnly(p) THEN [@ EXCEPT !.pc = "hold"] ELSE Done]
           /\ UNCHANGED <<table, workers, link, nat>>
  BY <1>1, <1>3, StopsWaiting DEF Rest, table
<1> QED BY <1>2, <1>3 DEF WaitAbandoned

LEMMA EndLeaseKeeps ==
  ASSUME Inv, NEW p \in Callers, EndLease(p), UNCHANGED scenario
  PROVE  Inv'
<1>1. caller[p].pc = "hold" /\ caller[p].pc \in Bound /\ Release(p, caller[p].kind = "status")
  BY DEF EndLease, Bound
<1>2. ReadOnly(p) /\ (caller[p].kind = "status") \in BOOLEAN
  BY <1>1, CallerIs DEF Proper, ReadOnly
<1> QED BY <1>1, <1>2, ReleaseKeeps

-----------------------------------------------------------------------------
(* The timers, the native reader and the callbacks.                         *)
LEMMA EntryMade ==
  ASSUME Inv, NEW i \in Live
  PROVE  entries[i] \in Made /\ entries[i] \in Gens /\ i \in Ids
<1>1. i \in Ids /\ entries[i] # 0
  BY DEF Live
<1>2. entries[i] \in Made
  BY <1>1 DEF Inv, Core, Tabled
<1> QED BY <1>1, <1>2, MadeAre DEF Inv, Core

(* Entries are dropped, and their subscriptions are left to close.          *)
LEMMA DropsAndCleans ==
  ASSUME Inv, NEW D, Drop(D), D \subseteq Made, cleanup' = cleanup \cup D, watching' \subseteq watching,
         UNCHANGED <<generation, stopped, caller, asked, link, nat>>, UNCHANGED scenario, retry' \subseteq Ids
  PROVE  Inv'
<1>1. Core'
  BY DropKeeps
<1>2. Natives' /\ Links'
  BY NativesStay, LinksStay
<1>3. Workers'
  BY DEF Inv, Workers, Made
<1>4. Modes'
  BY DEF Inv, Modes
<1> QED BY <1>1, <1>2, <1>3, <1>4 DEF Inv

LEMMA SweepKeeps ==
  ASSUME Inv, Sweep, UNCHANGED scenario
  PROVE  Inv'
<1>1. CASE /\ \E i \in Live :
                 /\ ent[entries[i]].refs = 0
                 /\ Drop({entries[i]}) /\ cleanup' = cleanup \cup {entries[i]}
           /\ UNCHANGED <<generation, retry, stopped, caller, watching, asked, link, nat>>
  <2>1. PICK i \in Live : Drop({entries[i]}) /\ cleanup' = cleanup \cup {entries[i]}
    BY <1>1
  <2>2. {entries[i]} \subseteq Made
    BY EntryMade
  <2>3. retry' \subseteq Ids /\ watching' \subseteq watching
    BY <1>1 DEF Inv, Modes
  <2> QED BY <1>1, <2>1, <2>2, <2>3, DropsAndCleans
<1>2. CASE /\ \E i \in retry : retry' = retry \ {i}
           /\ UNCHANGED <<entries, ent, generation, stopped, caller, workers, link, nat>>
  <2>1. Modes'
    BY <1>2 DEF Inv, Modes
  <2> QED BY <1>2, <2>1, CoreStays, NativesStay, LinksStay, WorkersStay DEF Inv
<1> QED BY <1>1, <1>2 DEF Sweep

LEMMA WatchKeeps ==
  ASSUME Inv, NEW g \in Gens, Watch(g), UNCHANGED scenario
  PROVE  Inv'
<1>1. /\ g \in watching /\ watching' = watching \ {g}
      /\ UNCHANGED <<generation, stopped, caller, asked, link, nat>>
  BY DEF Watch
<1>2. g \in Made
  BY <1>1 DEF Inv, Workers
<1>3. CASE WatchExpires(g)
  <2>1. /\ Drop({g}) /\ cleanup' = cleanup \cup {g}
        /\ retry' = IF ent[g].readRequested THEN retry \cup {BackOff(g)} ELSE retry
    BY <1>3 DEF Watch
  <2>2. retry' \subseteq Ids
    BY <1>2, <2>1 DEF BackOff, Inv, Core, Belongs, Modes
  <2> QED BY <1>1, <1>2, <2>1, <2>2, DropsAndCleans
<1>4. CASE ~WatchExpires(g)
  <2>1. UNCHANGED <<entries, ent, cleanup, retry>>
    BY <1>4 DEF Watch
  <2>2. Workers'
    BY <1>1, <2>1 DEF Inv, Workers, Made
  <2> QED BY <1>1, <2>1, <2>2, CoreStays, NativesStay, LinksStay, ModesStay DEF Inv
<1> QED BY <1>3, <1>4

LEMMA CleanUpKeeps ==
  ASSUME Inv, NEW g \in Gens, CleanUp(g), UNCHANGED scenario
  PROVE  Inv'
<1>1. /\ g \in cleanup /\ cleanup' = cleanup \ {g} /\ Broadcast(g, FALSE)
      /\ UNCHANGED <<table, caller, watching, asked, link, nowner, nrev, moves>>
  BY DEF CleanUp
<1>2. Natives'
  BY <1>1, BroadcastIs DEF Inv, Workers
<1>3. Workers'
  BY <1>1 DEF Inv, Workers, Made, table
<1> QED BY <1>1, <1>2, <1>3, CoreStays, LinksStay, ModesStay DEF Inv, table

LEMMA ForgetKeeps ==
  ASSUME Inv, Forget, UNCHANGED scenario
  PROVE  Inv'
<1>1. UNCHANGED <<generation, retry, stopped, caller, watching, asked, link, nat>>
  BY DEF Forget
<1>2. PICK i \in Live : Drop({entries[i]}) /\ cleanup' = cleanup \cup {entries[i]}
  BY DEF Forget
<1>3. {entries[i]} \subseteq Made
  BY EntryMade
<1>4. retry' \subseteq Ids /\ watching' \subseteq watching
  BY <1>1 DEF Inv, Modes
<1> QED BY <1>1, <1>2, <1>3, <1>4, DropsAndCleans

LEMMA CloseKeeps ==
  ASSUME Inv, Close, UNCHANGED scenario
  PROVE  Inv'
<1> DEFINE D == {entries[i] : i \in Live}
<1>1. /\ stopped' = TRUE /\ Drop(D) /\ cleanup' = cleanup \cup D /\ retry' = {} /\ watching' = {}
      /\ UNCHANGED <<generation, caller, asked, link, nat>>
  BY DEF Close
<1>2. D \subseteq Made
  BY EntryMade
<1>3. Core'
  BY <1>1, DropKeeps
<1>4. Workers'
  BY <1>1, <1>2 DEF Inv, Workers, Made
<1>5. Modes'
  BY <1>1 DEF Inv, Modes
<1> QED BY <1>1, <1>3, <1>4, <1>5, NativesStay, LinksStay DEF Inv

LEMMA DisconnectedKeeps ==
  ASSUME Inv, Disconnected, UNCHANGED scenario
  PROVE  Inv'
<1>1. /\ lost > 0 /\ lost' = lost - 1
      /\ UNCHANGED <<generation, retry, stopped, caller, workers, conn, conns, nat>>
  BY DEF Disconnected
<1>2. Links'
  BY <1>1 DEF Inv, Links
<1>3. Core'
  <2>1. CASE stopped
    BY <1>1, <2>1, CoreStays DEF Disconnected
  <2>2. CASE ~stopped
    BY <1>1, <2>2, DropKeeps DEF Disconnected
  <2> QED BY <2>1, <2>2
<1> QED BY <1>1, <1>2, <1>3, NativesStay, ModesStay, WorkersStay DEF Inv

LEMMA AnswerStatusKeeps ==
  ASSUME Inv, AnswerStatus, UNCHANGED scenario
  PROVE  Inv'
<1>0. PICK g : g = asked
  OBVIOUS
<1>1. /\ g # 0 /\ asked' = 0 /\ UNCHANGED <<generation, retry, stopped, caller, watching, link, nowner, nrev, moves>>
  BY <1>0 DEF AnswerStatus
<1>2. g \in Made
  BY <1>0, <1>1 DEF Inv, Workers
<1>3. CASE Current(asked) /\ ~stopped /\ conn # 0
  <2>1. Broadcast(g, TRUE) /\ UNCHANGED <<entries, ent, cleanup>>
    BY <1>0, <1>3 DEF AnswerStatus
  <2>2. Natives'
    BY <1>1, <1>2, <2>1, BroadcastIs
  <2>3. Workers'
    BY <1>1, <2>1 DEF Inv, Workers, Made
  <2> QED BY <1>1, <2>1, <2>2, <2>3, CoreStays, LinksStay, ModesStay DEF Inv
<1>4. CASE ~(Current(asked) /\ ~stopped /\ conn # 0)
  <2>1. /\ Drop({g}) /\ cleanup' = cleanup \cup {h \in {g} : Current(h)} /\ UNCHANGED <<following, stream>>
    BY <1>0, <1>4 DEF AnswerStatus
  <2>2. Core'
    BY <1>1, <2>1, DropKeeps
  <2>3. Workers'
    BY <1>1, <1>2, <2>1 DEF Inv, Workers, Made
  <2>4. UNCHANGED nat
    BY <1>1, <2>1 DEF nat
  <2> QED BY <1>1, <2>2, <2>3, <2>4, NativesStay, LinksStay, ModesStay DEF Inv
<1> QED BY <1>3, <1>4

(* A state change gives the entry the revision of its message and exactly   *)
(* that content: a snapshot outright, a patch because it starts where the   *)
(* entry is.                                                                *)
LEMMA AppliedExactly ==
  ASSUME NEW e \in Entry, NEW m \in Messages, e.content = e.rev, m.kind = "snapshot" \/ PatchApplies(e, m)
  PROVE  ContentAfter(e, m) = m.rev
<1>1. e.rev \in Nat /\ e.content \in Nat /\ m.rev \in Nat /\ m.base \in Nat
  BY FollowersAssumption DEF Entry, Messages
<1> QED BY <1>1 DEF ContentAfter, PatchApplies

LEMMA ReceiveKeeps ==
  ASSUME Inv, Receive, UNCHANGED scenario
  PROVE  Inv'
<1>0. PICK m : m = Head(stream)
  OBVIOUS
<1>g. PICK g : g = entries[m.id]
  OBVIOUS
<1>1. /\ stream # << >> /\ stream' = Tail(stream)
      /\ UNCHANGED <<generation, stopped, caller, watching, link, nowner, nrev, following, moves>>
  BY DEF Receive
<1>2. m \in Messages /\ m.id \in Ids /\ Tail(stream) \in Seq(Messages)
  <2>1. stream \in Seq(Messages)
    BY DEF Inv, Natives
  <2>2. m \in Messages /\ Tail(stream) \in Seq(Messages)
    BY <1>0, <1>1, <2>1
  <2> QED BY <2>2 DEF Messages
<1>3. Natives'
  BY <1>1, <1>2 DEF Inv, Natives
<1>4. g # 0 => g \in Made /\ g \in Gens /\ ent[g].id = m.id /\ ~ent[g].err /\ ent[g] \in Entry /\ ent[g].content = ent[g].rev
  <2>1. g # 0 => g \in Made /\ ent[g].id = m.id /\ ~ent[g].err
    BY <1>g, <1>2 DEF Inv, Core, Tabled
  <2>2. Made \subseteq Gens
    BY MadeAre DEF Inv, Core
  <2> QED BY <2>1, <2>2 DEF Inv, Core, Tables, StateExact
<1>5. CASE UNCHANGED <<entries, ent, retry, cleanup, asked>>
  BY <1>1, <1>3, <1>5, CoreStays, LinksStay, ModesStay, WorkersStay DEF Inv, workers
<1>6. CASE g # 0 /\ asked' = g /\ UNCHANGED <<entries, ent, retry, cleanup>>
  <2>1. Workers'
    BY <1>1, <1>4, <1>6 DEF Inv, Workers, Made
  <2> QED BY <1>1, <1>3, <1>6, <2>1, CoreStays, LinksStay, ModesStay DEF Inv
<1>7. CASE /\ g # 0 /\ (m.kind = "snapshot" \/ PatchApplies(ent[g], m))
           /\ ent' = [ent EXCEPT ![g] = [ent[g] EXCEPT !.rev = m.rev, !.content = ContentAfter(ent[g], m),
                                                       !.settled = TRUE, !.err = FALSE]]
           /\ retry' = retry \ {m.id} /\ UNCHANGED <<entries, cleanup, asked>>
  <2> DEFINE r == [ent[g] EXCEPT !.rev = m.rev, !.content = m.rev, !.settled = TRUE, !.err = FALSE]
  <2>1. ent' = [ent EXCEPT ![g] = r]
    BY <1>2, <1>4, <1>7, AppliedExactly
  <2>2. /\ r \in Entry /\ r.id = ent[g].id /\ r.owner = ent[g].owner /\ r.content = r.rev /\ ~r.err
        /\ r.refs = ent[g].refs
    <3>1. m.rev \in 0..MaxRev /\ m.rev \in Nat
      BY <1>2, FollowersAssumption DEF Messages
    <3> QED BY <1>4, <1>7, <3>1 DEF Entry
  <2> HIDE DEF r
  <2>3. ent' \in [Gens -> Entry] /\ ent'[g] = r /\ \A h \in Gens : h # g => ent'[h] = ent[h]
    BY <1>4, <1>7, <2>1, <2>2 DEF Inv, Core, Tables
  <2>4. \A h \in Gens : ent'[h].id = ent[h].id /\ ent'[h].owner = ent[h].owner /\ ent'[h].content = ent'[h].rev
                        /\ ent'[h].refs = ent[h].refs /\ (ent'[h].err => ent[h].err)
    BY <2>2, <2>3 DEF Inv, Core, StateExact
  <2>5. \A i \in Ids : entries[i] # 0 => entries[i] \in Gens /\ ~ent[entries[i]].err
    BY MadeAre DEF Inv, Core, Tabled
  <2>6. UNCHANGED <<entries, generation, stopped, caller>>
    BY <1>1, <1>7
  <2>7. Shrinks
    <3>1. entries' \in [Ids -> 0..MaxGen] /\ \A i \in Ids : entries'[i] = entries[i]
      BY <2>6 DEF Inv, Core, Tables
    <3> QED BY <2>3, <2>4, <2>5, <2>6, <3>1 DEF Shrinks
  <2>8. Calls'
    BY <2>4, <2>6, CallsStay DEF Inv
  <2>9. \A h \in Gens : Holders(h)' = Holders(h)
    BY <2>6, HoldersSame
  <2>10. Core'
    BY <2>7, <2>8, <2>9, TableShrinks DEF Inv
  <2>11. Workers' /\ Modes'
    BY <1>1, <1>7 DEF Inv, Workers, Modes, Made
  <2> QED BY <1>1, <1>3, <2>10, <2>11, LinksStay DEF Inv
<1>8. CASE g # 0 /\ Drop({g}) /\ cleanup' = cleanup \cup {g} /\ UNCHANGED <<retry, asked>>
  <2>1. Core'
    BY <1>1, <1>8, DropKeeps
  <2>2. Workers'
    BY <1>1, <1>4, <1>8 DEF Inv, Workers, Made
  <2> QED BY <1>1, <1>3, <1>8, <2>1, <2>2, LinksStay, ModesStay DEF Inv
<1> QED BY <1>0, <1>g, <1>5, <1>6, <1>7, <1>8 DEF Receive

-----------------------------------------------------------------------------
(* The Desktop side.                                                        *)
LEMMA ConnectionsKeep ==
  ASSUME Inv, ConnectionLost \/ Reconnected, UNCHANGED scenario
  PROVE  Inv'
<1>1. UNCHANGED <<table, caller, workers, nowner, nrev, moves>>
  BY DEF ConnectionLost, Reconnected, nat
<1>2. Links'
  BY DEF ConnectionLost, Reconnected, Inv, Links
<1>3. Natives'
  <2>1. /\ following' \in {following, {}} /\ stream' \in {stream, << >>}
    BY DEF ConnectionLost, Reconnected, nat
  <2>2. following' \subseteq (Ids \X Owners)
    BY <2>1 DEF Inv, Natives
  <2>3. << >> \in Seq(Messages) /\ stream \in Seq(Messages)
    BY DEF Inv, Natives
  <2>4. stream' \in Seq(Messages)
    BY <2>1, <2>3
  <2> QED BY <1>1, <2>2, <2>4 DEF Inv, Natives
<1> QED BY <1>1, <1>2, <1>3, CoreStays, ModesStay, WorkersStay DEF Inv, table

LEMMA OwnerMovesKeeps ==
  ASSUME Inv, OwnerMoves, UNCHANGED scenario
  PROVE  Inv'
<1>1. moves' = moves + 1 /\ UNCHANGED <<table, caller, workers, link, nrev, stream>>
  BY DEF OwnerMoves
<1>2. PICK i \in Ids, o \in Owners \cup {None} :
        nowner' = [nowner EXCEPT ![i] = o] /\ following' = {f \in following : f[1] # i}
  BY DEF OwnerMoves
<1>3. Natives'
  BY <1>1, <1>2 DEF Inv, Natives
<1> QED BY <1>1, <1>3, CoreStays, LinksStay, ModesStay, WorkersStay DEF Inv, table

LEMMA OwnerSpeaksKeeps ==
  ASSUME Inv, OwnerUpdates \/ OwnerAsks, UNCHANGED scenario
  PROVE  Inv'
<1>1. UNCHANGED <<table, caller, workers, link, nowner, following, moves>>
  BY DEF OwnerUpdates, OwnerAsks
<1>2. MaxRev \in Nat \ {0} /\ stream \in Seq(Messages)
  BY FollowersAssumption DEF Inv, Natives
<1>3. CASE OwnerUpdates
  <2>1. PICK i \in Ids :
          /\ nowner[i] # None /\ nrev[i] < scenario.rev /\ nrev' = [nrev EXCEPT ![i] = @ + 1]
          /\ stream' = IF <<i, nowner[i]>> \in following
                       THEN Append(stream, Message(i, nowner[i], "patches", nrev[i] + 1, nrev[i]))
                       ELSE stream
    BY <1>3 DEF OwnerUpdates
  <2>2. nowner[i] \in Owners /\ nrev[i] \in 1..MaxRev /\ scenario.rev \in 1..MaxRev
    BY <2>1 DEF Inv, Natives, Modes, Scenario
  <2>3. nrev[i] + 1 \in 1..MaxRev /\ nrev[i] \in 0..MaxRev /\ nrev[i] + 1 \in 0..MaxRev
    BY <1>2, <2>1, <2>2
  <2>4. nrev' \in [Ids -> 1..MaxRev]
    BY <2>1, <2>3 DEF Inv, Natives
  <2>5. Message(i, nowner[i], "patches", nrev[i] + 1, nrev[i]) \in Messages
    BY <2>2, <2>3 DEF Message, Messages
  <2>6. stream' \in Seq(Messages)
    BY <1>2, <2>1, <2>5
  <2>7. Natives'
    BY <1>1, <2>4, <2>6 DEF Inv, Natives
  <2> QED BY <1>1, <2>7, CoreStays, LinksStay, ModesStay, WorkersStay DEF Inv, table
<1>4. CASE OwnerAsks
  <2>1. PICK i \in Ids : nowner[i] # None /\ stream' = << Message(i, nowner[i], "status", 0, 0) >>
    BY <1>4 DEF OwnerAsks
  <2>2. Message(i, nowner[i], "status", 0, 0) \in Messages
    BY <1>2, <2>1 DEF Message, Messages, Inv, Natives
  <2>3. stream' \in Seq(Messages)
    BY <2>1, <2>2
  <2>4. UNCHANGED nrev
    BY <1>4 DEF OwnerAsks
  <2>5. Natives'
    BY <1>1, <2>3, <2>4 DEF Inv, Natives
  <2> QED BY <1>1, <2>5, CoreStays, LinksStay, ModesStay, WorkersStay DEF Inv, table
<1> QED BY <1>3, <1>4

-----------------------------------------------------------------------------
LEMMA InitInv ==
  ASSUME Init
  PROVE  Inv
<1>1. MaxGen \in Nat /\ MaxRev \in Nat \ {0} /\ Scenarios \subseteq Scenario
  BY FollowersAssumption
<1>2. NoEntry \in Entry /\ NoEntry.content = NoEntry.rev
  BY <1>1 DEF NoEntry, Entry
<1>3. Tables /\ Belongs /\ Tabled /\ StateExact
  BY <1>1, <1>2 DEF Init, Tables, Belongs, Tabled, StateExact, Made
<1>4. Calls
  <2>1. Idle.pc = "idle"
    BY DEF Idle
  <2>2. Proper(Idle)
    BY <2>1, IdleIs DEF Proper, Bound
  <2> QED BY <2>2, IdleIs DEF Init, Calls
<1>5. RefsExact
  BY DEF RefsExact, Current, Init, Gens
<1>6. Links /\ Workers /\ Modes
  BY <1>1 DEF Init, Links, Workers, Modes
<1>7. Natives
  BY <1>1 DEF Init, Natives
<1> QED BY <1>3, <1>4, <1>5, <1>6, <1>7 DEF Inv, Core

LEMMA StepInv ==
  ASSUME Inv, [Next /\ UNCHANGED scenario]_<<vars, scenario>>
  PROVE  Inv'
<1>1. CASE UNCHANGED <<vars, scenario>>
  <2>1. Rest /\ UNCHANGED table /\ UNCHANGED caller
    BY <1>1 DEF vars, Rest, table, workers, link, nat
  <2> QED BY <2>1, CoreStays, RestStays DEF table
<1>2. CASE Next /\ UNCHANGED scenario
  <2>1. ASSUME NEW p \in Callers, Discover(p) \/ CallerStep(p) \/ WaitAbandoned(p) \/ EndLease(p)
        PROVE  Inv'
    BY <1>2, <2>1, DiscoverKeeps, ReadConnectionKeeps, AcquireRefusedKeeps, AcquireSharedKeeps, AcquireCreatedKeeps,
       UnfollowReplacedKeeps, FollowKeeps, ReadyKeeps, WaitFailedKeeps, WaitAbandonedKeeps, EndLeaseKeeps
       DEF CallerStep
  <2>2. ASSUME NEW g \in Gens, Watch(g) \/ CleanUp(g)
        PROVE  Inv'
    BY <1>2, <2>2, WatchKeeps, CleanUpKeeps
  <2>3. CASE Sweep \/ Forget \/ Receive \/ AnswerStatus \/ Disconnected \/ Close
    BY <1>2, <2>3, SweepKeeps, ForgetKeeps, ReceiveKeeps, AnswerStatusKeeps, DisconnectedKeeps, CloseKeeps
  <2>4. CASE ConnectionLost \/ Reconnected \/ OwnerMoves \/ OwnerUpdates \/ OwnerAsks
    BY <1>2, <2>4, ConnectionsKeep, OwnerMovesKeeps, OwnerSpeaksKeeps
  <2> QED BY <1>2, <2>1, <2>2, <2>3, <2>4 DEF Next
<1> QED BY <1>1, <1>2

LEMMA InvHolds == Spec => []Inv
<1>1. Init => Inv
  BY InitInv
<1>2. Inv /\ [Next /\ UNCHANGED scenario]_<<vars, scenario>> => Inv'
  BY StepInv
<1> QED BY <1>1, <1>2, PTL DEF Spec

(* The entries of the followed tasks are exact (followers.go acquire and    *)
(* release, receive.go Receive): the reference count of an entry in the     *)
(* table is the number of readers between their acquire and their release,  *)
(* however owners move, connections drop and entries are replaced, and the  *)
(* conversation an entry shows is the native one of its revision.           *)
THEOREM FollowedEntriesAreExact == Spec => []EntriesExact
<1>1. Inv => EntriesExact
  <2> SUFFICES ASSUME Inv PROVE EntriesExact
    OBVIOUS
  <2>1. Made \subseteq Gens /\ Made \cup {0} \subseteq 0..MaxGen
    BY MadeAre DEF Inv, Core
  <2>2. TypeOK
    BY <2>1 DEF TypeOK, Inv, Core, Tables, Calls, CallerStates, CallerSteps, Workers, Links, Modes, Natives, Messages
  <2> QED BY <2>2 DEF EntriesExact, Inv, Core
<1> QED BY <1>1, InvHolds, PTL
==============================================================================
