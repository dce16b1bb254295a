--------------------------- MODULE TaskStreamsProofs ---------------------------
(***************************************************************************)
(* Proofs about TaskStreams, for any tasks, views and bounds: every stream *)
(* of the helper has its holders, every holder its stream or the news of   *)
(* its failure, and no sleeping view misses a page.                        *)
(***************************************************************************)
EXTENDS TaskStreams, FiniteSetTheorems, TLAPS

(* Where views and subscriptions are.                                       *)
ViewSteps == {"idle", "attach", "ready", "unref", "refresh", "recover", "fetch", "wait",
              "detach", "unsubscribe", "done"}
StreamSteps == {"off", "opening", "refused", "announce", "opened", "admitted", "reading", "page",
                "notify", "notifyEnd", "broken", "done"}
Holding == {"ready", "unref", "refresh", "recover", "fetch", "wait", "detach"}
Streaming == {"opening", "opened", "admitted", "reading", "page", "notify"}
Opened == 1..opened

Worlds ==
  /\ scenario \in Scenarios /\ native \in [Tasks -> 1..MaxVersion] /\ faults \in 0..scenario.faults
Clients ==
  /\ closed \in BOOLEAN /\ opened \in Nat /\ Opened \subseteq Subs
  /\ table \in [Tasks -> {0} \cup Opened] /\ of \in [Subs -> Tasks \cup {None}]
  /\ refs \in [Subs -> {0} \cup Opened] /\ count \in [Subs -> 0..Cardinality(Views)]
  /\ dropped \subseteq Subs
StreamTypes ==
  /\ cancelled \subseteq Subs /\ err \subseteq Subs /\ ready \in [Subs -> {None, "ok", "error"}]
  /\ page \in [Subs -> 0..MaxVersion] /\ hand \in [Subs -> 0..MaxVersion] /\ spc \in [Subs -> StreamSteps]
Hubs == hubClosed \in BOOLEAN /\ subscribers \subseteq Views /\ ended \subseteq Views /\ signal \subseteq Views
ViewTypes ==
  /\ vpc \in [Views -> ViewSteps] /\ watches \in [Views -> Tasks \cup {None}]
  /\ my \in [Views -> {0} \cup Opened] /\ shown \in [Views -> 0..MaxVersion]
Types == Worlds /\ Clients /\ StreamTypes /\ Hubs /\ ViewTypes

(* A subscription belongs to one task and to one chain of replacements,     *)
(* named by the first subscription of the chain.                            *)
Chained == \A n \in Opened : /\ of[n] \in Tasks /\ refs[n] \in Opened
                             /\ refs[refs[n]] = refs[n] /\ of[refs[n]] = of[n]
(* The table holds subscriptions of its tasks, and none once closed.        *)
Tabled == /\ \A t \in Tasks : table[t] # 0 => of[table[t]] = t /\ table[t] \notin dropped
          /\ closed => \A t \in Tasks : table[t] = 0
(* A subscription that is not open yet has no state ...                     *)
Blank == \A n \in Subs \ Opened :
           spc[n] = "off" /\ n \notin cancelled \cup dropped \cup err /\ page[n] = NoPage /\ hand[n] = NoPage
(* ... an open one keeps its stream only while it is in the table, fails    *)
(* only on the way out, and reads no page that its task never had ...       *)
Live(n) ==
  /\ spc[n] # "off"
  /\ spc[n] \in Streaming => table[of[n]] = n \/ n \in cancelled \cup dropped
  /\ n \in err => spc[n] \in {"announce", "notifyEnd", "done"}
  /\ spc[n] \in {"announce", "notifyEnd"} => n \in err
  /\ page[n] <= native[of[n]] /\ hand[n] <= native[of[n]]
Lives == \A n \in Opened : Live(n)
(* ... and while it is in the table a cancelled or ended one has failed.    *)
Sound == \A t \in Tasks : table[t] # 0 =>
           (table[t] \in cancelled \/ spc[table[t]] = "done" => table[t] \in err)

(* A view that holds a reference knows a subscription of the chain that     *)
(* counts it.                                                               *)
Viewing ==
  \A v \in Views :
    /\ vpc[v] \notin {"idle", "done"} => watches[v] \in Tasks
    /\ vpc[v] \in Holding =>
         /\ my[v] \in Opened /\ of[my[v]] = watches[v]
         /\ ~closed /\ table[watches[v]] # 0 => refs[my[v]] = refs[table[watches[v]]]
(* A hub that was closed has no subscribers; a subscriber is at work.       *)
Subscribed == (hubClosed => subscribers = {}) /\ \A v \in subscribers : vpc[v] \notin {"idle", "done"}

(* A chain begins with a view that attaches, a replacement with a failure.  *)
Begun == {v \in Views : vpc[v] \notin {"idle", "attach"}}
Roots == {n \in Opened : refs[n] = n}
Replacements == {n \in Opened : refs[n] # n}
Failed(n) == n \in err \/ spc[n] \in {"refused", "broken"}
Failing == {t \in Tasks : table[t] # 0 /\ Failed(table[t])}
Bounded ==
  /\ Cardinality(Roots) <= Cardinality(Begun)
  /\ Cardinality(Replacements) + Cardinality(Failing) <= faults

Inv == Types /\ Chained /\ Tabled /\ Blank /\ Lives /\ Sound /\ Viewing /\ RefsExact
       /\ Subscribed /\ NoLostChange /\ Bounded

-----------------------------------------------------------------------------
LEMMA SizesAre ==
  /\ IsFiniteSet(Views) /\ IsFiniteSet(Tasks) /\ Cardinality(Views) \in Nat
  /\ MaxVersion \in Nat /\ MaxFaults \in Nat /\ 0 \notin Subs
  BY StreamsAssumption, FS_CardinalityType DEF Subs

LEMMA ScenarioIs ==
  ASSUME NEW s \in Scenarios
  PROVE  /\ s.tasks \subseteq Tasks /\ s.views \subseteq Views
         /\ s.version \in 1..MaxVersion /\ s.faults \in 0..MaxFaults
  BY StreamsAssumption

LEMMA HoldersAre ==
  ASSUME NEW t \in Tasks
  PROVE  /\ Holders(t) = {v \in Views : watches[v] = t /\ vpc[v] \in Holding}
         /\ Holders(t) \subseteq Views /\ IsFiniteSet(Holders(t))
         /\ Cardinality(Holders(t)) \in 0..Cardinality(Views)
<1>1. Holders(t) = {v \in Views : watches[v] = t /\ vpc[v] \in Holding} /\ Holders(t) \subseteq Views
  BY DEF Holders, Holding
<1>2. IsFiniteSet(Holders(t)) /\ Cardinality(Holders(t)) <= Cardinality(Views)
  BY <1>1, SizesAre, FS_Subset
<1>3. Cardinality(Holders(t)) \in Nat
  BY <1>2, FS_CardinalityType
<1> QED BY <1>1, <1>2, <1>3, SizesAre

(* Who holds a task after one view has moved.                               *)
OneView(v) ==
  /\ v \in Views /\ ViewTypes'
  /\ \A w \in Views : w # v => vpc'[w] = vpc[w] /\ watches'[w] = watches[w] /\ my'[w] = my[w] /\ shown'[w] = shown[w]

LEMMA HoldersMove ==
  ASSUME NEW v \in Views, OneView(v), NEW t \in Tasks
  PROVE  /\ watches'[v] = t /\ vpc'[v] \in Holding => Holders(t)' = Holders(t) \cup {v}
         /\ ~(watches'[v] = t /\ vpc'[v] \in Holding) => Holders(t)' = Holders(t) \ {v}
<1>1. Holders(t) = {w \in Views : watches[w] = t /\ vpc[w] \in Holding}
  BY DEF Holders, Holding
<1>2. Holders(t)' = {w \in Views : watches'[w] = t /\ vpc'[w] \in Holding}
  BY DEF Holders, Holding
<1>3. \A w \in Views : w # v => (watches'[w] = t /\ vpc'[w] \in Holding <=> watches[w] = t /\ vpc[w] \in Holding)
  BY DEF OneView
<1> QED BY <1>1, <1>2, <1>3

LEMMA HoldersStay ==
  ASSUME NEW v \in Views, OneView(v), NEW t \in Tasks,
         watches'[v] = t /\ vpc'[v] \in Holding <=> watches[v] = t /\ vpc[v] \in Holding
  PROVE  Holders(t)' = Holders(t)
<1>1. v \in Holders(t) <=> watches[v] = t /\ vpc[v] \in Holding
  BY HoldersAre
<1> QED BY <1>1, HoldersMove

LEMMA BegunAre ==
  ASSUME Inv
  PROVE  /\ IsFiniteSet(Begun) /\ Cardinality(Begun) \in Nat /\ Begun \subseteq Views
         /\ IsFiniteSet(Failing) /\ Cardinality(Failing) \in Nat /\ Failing \subseteq Tasks
         /\ IsFiniteSet(Roots) /\ Cardinality(Roots) \in Nat
         /\ IsFiniteSet(Replacements) /\ Cardinality(Replacements) \in Nat
         /\ Cardinality(Roots) + Cardinality(Replacements) = opened
         /\ Cardinality(Roots) <= Cardinality(Begun) /\ Cardinality(Replacements) + Cardinality(Failing) <= faults
<1>1. Begun \subseteq Views /\ Failing \subseteq Tasks
  BY DEF Begun, Failing
<1>2. opened \in Nat /\ IsFiniteSet(Opened) /\ Cardinality(Opened) = opened
  <2>1. opened \in Nat
    BY DEF Inv, Types, Clients
  <2>2. opened < 1 => Opened = {} /\ opened = 0
    BY <2>1 DEF Opened
  <2>3. IsFiniteSet(Opened) /\ Cardinality(Opened) = IF 1 > opened THEN 0 ELSE opened - 1 + 1
    BY <2>1, FS_Interval DEF Opened
  <2> QED BY <2>1, <2>3
<1>3. Roots \subseteq Opened /\ Replacements \subseteq Opened /\ Roots \cup Replacements = Opened
      /\ Roots \cap Replacements = {}
  BY DEF Roots, Replacements
<1>4. IsFiniteSet(Begun) /\ IsFiniteSet(Failing) /\ IsFiniteSet(Roots) /\ IsFiniteSet(Replacements)
  BY <1>1, <1>2, <1>3, SizesAre, FS_Subset
<1>5. Cardinality(Begun) \in Nat /\ Cardinality(Failing) \in Nat /\ Cardinality(Roots) \in Nat
      /\ Cardinality(Replacements) \in Nat
  BY <1>4, FS_CardinalityType
<1>6. Cardinality(Roots \cup Replacements) =
        Cardinality(Roots) + Cardinality(Replacements) - Cardinality(Roots \cap Replacements)
  BY <1>4, FS_Union
<1>7. Cardinality({}) = 0
  BY FS_EmptySet
<1>8. Cardinality(Roots) + Cardinality(Replacements) = opened
  <2>1. Cardinality(Roots \cup Replacements) = opened /\ Cardinality(Roots \cap Replacements) = 0
    BY <1>2, <1>3, <1>7, Zenon
  <2> QED BY <1>2, <1>5, <1>6, <2>1
<1> QED BY <1>1, <1>4, <1>5, <1>8 DEF Inv, Bounded

(* The next subscription is within the bound on subscriptions: a chain      *)
(* begins with a view that had not attached, a replacement with a fault.    *)
LEMMA RoomToOpen ==
  ASSUME Inv, \/ \E v \in Views : vpc[v] = "attach"
              \/ \E t \in Tasks : table[t] \in err
  PROVE  opened + 1 \in Subs /\ opened + 1 \notin Opened /\ opened \in Nat
<1>1. opened \in Nat /\ faults \in 0..MaxFaults /\ faults \in Nat /\ MaxFaults \in Nat /\ Cardinality(Views) \in Nat
  BY SizesAre, ScenarioIs DEF Inv, Types, Clients, Worlds
<1>2. CASE \E v \in Views : vpc[v] = "attach"
  <2>1. PICK v \in Views : vpc[v] = "attach"
    BY <1>2
  <2>2. v \notin Begun /\ Begun \subseteq Views \ {v}
    BY <2>1 DEF Begun
  <2>3. IsFiniteSet(Views \ {v}) /\ Cardinality(Views \ {v}) = Cardinality(Views) - 1
    BY <2>1, SizesAre, FS_RemoveElement
  <2>4. Cardinality(Begun) <= Cardinality(Views \ {v})
    BY <2>2, <2>3, FS_Subset
  <2>5. opened + 1 <= Cardinality(Views) + MaxFaults
    BY <1>1, <2>3, <2>4, BegunAre
  <2> QED BY <1>1, <2>5 DEF Subs, Opened
<1>3. CASE \E t \in Tasks : table[t] \in err
  <2>1. PICK t \in Tasks : table[t] \in err
    BY <1>3
  <2>2. table[t] # 0
    BY <2>1, SizesAre DEF Inv, Types, StreamTypes
  <2>3. t \in Failing
    BY <2>1, <2>2 DEF Failing, Failed
  <2>4. Cardinality(Failing) >= 1
    BY <2>3, BegunAre, FS_EmptySet
  <2>5. Cardinality(Begun) <= Cardinality(Views)
    BY BegunAre, SizesAre, FS_Subset
  <2>6. opened + 1 <= Cardinality(Views) + MaxFaults
    BY <1>1, <2>4, <2>5, BegunAre
  <2> QED BY <1>1, <2>6 DEF Subs, Opened
<1> QED BY <1>2, <1>3

(* Tasks have chains of their own.                                          *)
LEMMA ChainsDiffer ==
  ASSUME Inv, NEW t \in Tasks, NEW u \in Tasks, t # u, table[t] # 0, table[u] # 0
  PROVE  refs[table[t]] # refs[table[u]]
  BY DEF Inv, Chained, Tabled, Types, Clients

(* The subscription in the table.                                           *)
LEMMA InTable ==
  ASSUME Inv, NEW t \in Tasks, table[t] # 0
  PROVE  /\ table[t] \in Opened /\ table[t] \in Subs /\ of[table[t]] = t /\ refs[table[t]] \in Opened
         /\ refs[table[t]] \in Subs /\ of[refs[table[t]]] = t /\ ~closed /\ table[t] \notin dropped
         /\ Cardinality(Holders(t)) = count[refs[table[t]]]
<1>1. table[t] \in Opened /\ Opened \subseteq Subs /\ of[table[t]] = t /\ ~closed /\ table[t] \notin dropped
  BY DEF Inv, Types, Clients, Tabled
<1>2. refs[table[t]] \in Opened /\ of[refs[table[t]]] = t
  BY <1>1 DEF Inv, Chained
<1> QED BY <1>1, <1>2 DEF Inv, RefsExact

-----------------------------------------------------------------------------
(* The goroutine of one subscription moves, or its context is cancelled,    *)
(* and everything else stays: what has to be shown of such a step.          *)
Moves(n) ==
  /\ n \in Opened
  /\ UNCHANGED <<scenario, native, closed, table, opened, of, refs, count>>
  /\ UNCHANGED <<hubClosed, subscribers, ended, view>>
  /\ StreamTypes' /\ dropped' \subseteq Subs /\ signal' \subseteq Views /\ signal \subseteq signal'
  /\ faults' \in 0..scenario.faults /\ faults <= faults'
  /\ \A m \in Subs : m # n =>
       /\ spc'[m] = spc[m] /\ page'[m] = page[m] /\ hand'[m] = hand[m]
       /\ m \in err' <=> m \in err
       /\ m \in cancelled' <=> m \in cancelled
       /\ m \in dropped' <=> m \in dropped
  /\ Live(n)'
  /\ table[of[n]] = n =>
       /\ n \notin dropped'
       /\ n \in cancelled' \/ spc'[n] = "done" => n \in err'
       /\ Failed(n)' => Failed(n) \/ faults < faults'
  /\ \A v \in subscribers \ signal' :
       vpc[v] = "wait" /\ table[watches[v]] = n /\ spc'[n] # "notify" => shown[v] >= page'[n]

LEMMA StreamMoves ==
  ASSUME Inv, NEW n \in Subs, Moves(n)
  PROVE  Inv'
<1>1. /\ n \in Opened /\ UNCHANGED <<scenario, native, closed, table, opened, of, refs, count>>
      /\ UNCHANGED <<hubClosed, subscribers, ended, vpc, watches, my, shown>>
  BY DEF Moves, view
<1>2. Opened' = Opened /\ Opened \subseteq Subs
  BY <1>1 DEF Opened, Inv, Types, Clients
<1>3. \A m \in Subs : m # n =>
       /\ spc'[m] = spc[m] /\ page'[m] = page[m] /\ hand'[m] = hand[m]
       /\ (m \in err' <=> m \in err) /\ (m \in cancelled' <=> m \in cancelled) /\ (m \in dropped' <=> m \in dropped)
  BY DEF Moves
<1>4. /\ table[of[n]] = n => /\ n \notin dropped'
                             /\ n \in cancelled' \/ spc'[n] = "done" => n \in err'
      /\ Live(n)'
  BY DEF Moves
<1>5. \A t \in Tasks : table[t] # 0 => table[t] \in Opened /\ of[table[t]] = t /\ table[t] \notin dropped
                                       /\ (table[t] = n => t = of[n])
  BY InTable
<1>6. Types'
  <2>1. Worlds'
    BY <1>1 DEF Moves, Inv, Types, Worlds
  <2>2. Clients'
    BY <1>1, <1>2 DEF Moves, Inv, Types, Clients
  <2>3. Hubs' /\ StreamTypes'
    BY <1>1 DEF Moves, Inv, Types, Hubs
  <2>4. ViewTypes'
    BY <1>1, <1>2 DEF Inv, Types, ViewTypes
  <2> QED BY <2>1, <2>2, <2>3, <2>4 DEF Types
<1>7. Chained'
  BY <1>1, <1>2 DEF Inv, Chained
<1>8. Tabled'
  BY <1>1, <1>2, <1>3, <1>4, <1>5 DEF Inv, Tabled
<1>9. Blank'
  BY <1>1, <1>2, <1>3 DEF Inv, Blank
<1>10. Lives'
  <2> SUFFICES ASSUME NEW m \in Opened PROVE Live(m)'
    BY <1>2 DEF Lives
  <2>1. CASE m = n
    BY <1>4, <2>1
  <2>2. CASE m # n
    <3>1. Live(m)
      BY DEF Inv, Lives
    <3> QED BY <1>1, <1>2, <1>3, <2>2, <3>1 DEF Live
  <2> QED BY <2>1, <2>2
<1>11. Sound'
  BY <1>1, <1>2, <1>3, <1>4, <1>5 DEF Inv, Sound
<1>12. Viewing' /\ Subscribed'
  BY <1>1, <1>2 DEF Inv, Viewing, Subscribed
<1>13. RefsExact'
  <2>1. \A t \in Tasks : Holders(t)' = Holders(t)
    BY <1>1 DEF Holders
  <2> QED BY <1>1, <2>1 DEF Inv, RefsExact
<1>14. NoLostChange'
  <2> SUFFICES ASSUME NEW v \in subscribers \ signal', vpc[v] = "wait", table[watches[v]] # 0,
                      spc'[table[watches[v]]] # "notify"
               PROVE  shown[v] >= page'[table[watches[v]]]
    BY <1>1 DEF NoLostChange
  <2>1. v \in subscribers \ signal /\ v \in Views
    BY DEF Moves, Inv, Types, Hubs
  <2>2. watches[v] \in Tasks
    BY <2>1 DEF Inv, Viewing
  <2>3. CASE table[watches[v]] = n
    BY <2>3 DEF Moves
  <2>4. CASE table[watches[v]] # n
    <3>1. table[watches[v]] \in Subs
      BY <1>2, <1>5, <2>2
    <3> QED BY <1>3, <2>1, <2>4, <3>1 DEF Inv, NoLostChange
  <2> QED BY <2>3, <2>4
<1>15. Bounded'
  <2>1. Roots' = Roots /\ Replacements' = Replacements /\ Begun' = Begun
    BY <1>1, <1>2 DEF Roots, Replacements, Begun
  <2>2. faults \in Nat /\ faults' \in Nat /\ faults <= faults'
    <3>1. scenario.faults \in Nat
      BY ScenarioIs, SizesAre DEF Inv, Types, Worlds
    <3> QED BY <3>1 DEF Moves, Inv, Types, Worlds
  <2>3. of[n] \in Tasks
    BY <1>1 DEF Inv, Chained
  <2>4. \A t \in Tasks : t # of[n] => (t \in Failing' <=> t \in Failing)
    <3>1. \A t \in Tasks : t # of[n] => (Failed(table[t])' <=> Failed(table[t])) \/ table[t] = 0
      BY <1>1, <1>2, <1>3, <1>5 DEF Failed
    <3> QED BY <1>1, <3>1 DEF Failing
  <2>5. Failing' \subseteq Tasks /\ Failing' \subseteq Failing \cup {of[n]}
    BY <2>4 DEF Failing
  <2>6. of[n] \in Failing' /\ of[n] \notin Failing => faults < faults'
    <3>1. CASE table[of[n]] = n
      BY <1>1, <3>1 DEF Failing, Failed, Moves
    <3>2. CASE table[of[n]] # n
      <4>1. table[of[n]] # 0 => (Failed(table[of[n]])' <=> Failed(table[of[n]]))
        BY <1>1, <1>2, <1>3, <1>5, <2>3, <3>2 DEF Failed
      <4> QED BY <1>1, <4>1 DEF Failing
    <3> QED BY <3>1, <3>2
  <2>7. Cardinality(Replacements) + Cardinality(Failing') <= faults'
    <3>1. CASE Failing' \subseteq Failing
      <4>1. Cardinality(Failing') <= Cardinality(Failing) /\ Cardinality(Failing') \in Nat
        BY <3>1, BegunAre, FS_Subset, FS_CardinalityType
      <4> QED BY <2>2, <4>1, BegunAre
    <3>2. CASE ~(Failing' \subseteq Failing)
      <4>1. faults < faults' /\ of[n] \notin Failing
        BY <2>5, <2>6, <3>2
      <4>2. IsFiniteSet(Failing \cup {of[n]}) /\ Cardinality(Failing \cup {of[n]}) = Cardinality(Failing) + 1
        BY <4>1, BegunAre, FS_AddElement
      <4>3. Cardinality(Failing') <= Cardinality(Failing) + 1 /\ Cardinality(Failing') \in Nat
        BY <2>5, <4>2, FS_Subset, FS_CardinalityType
      <4> QED BY <2>2, <4>1, <4>3, BegunAre
    <3> QED BY <3>1, <3>2
  <2> QED BY <2>1, <2>7, BegunAre DEF Bounded
<1> QED BY <1>6, <1>7, <1>8, <1>9, <1>10, <1>11, <1>12, <1>13, <1>14, <1>15 DEF Inv

-----------------------------------------------------------------------------
(* One view moves without taking or giving a reference.                     *)
Walks(v) ==
  /\ OneView(v)
  /\ UNCHANGED <<scenario, native, client, stream, hubClosed>>
  /\ faults' \in 0..scenario.faults /\ faults <= faults'
  /\ subscribers' \subseteq Views /\ ended' \subseteq Views /\ signal' \subseteq Views
  /\ \A w \in Views : w # v => /\ w \in subscribers' <=> w \in subscribers
                               /\ w \in signal' <=> w \in signal
  /\ vpc'[v] \in Holding <=> vpc[v] \in Holding
  /\ vpc'[v] \in Holding => watches'[v] = watches[v] /\ my'[v] = my[v]
  /\ vpc'[v] \notin {"idle", "done"} => watches'[v] \in Tasks
  /\ vpc'[v] \in {"idle", "attach"} => vpc[v] \in {"idle", "attach"}
  /\ v \in subscribers' => vpc'[v] \notin {"idle", "done"} /\ ~hubClosed
  /\ vpc'[v] = "wait" /\ table[watches[v]] # 0 => shown'[v] >= page[table[watches[v]]]

LEMMA ViewWalks ==
  ASSUME Inv, NEW v \in Views, Walks(v)
  PROVE  Inv'
<1>1. UNCHANGED <<scenario, native, closed, table, opened, of, refs, count, dropped, cancelled, ready, err, page,
                  spc, hand, hubClosed>>
  BY DEF Walks, client, stream
<1>2. Opened' = Opened
  BY <1>1 DEF Opened
<1>3. \A w \in Views : w # v => vpc'[w] = vpc[w] /\ watches'[w] = watches[w] /\ my'[w] = my[w] /\ shown'[w] = shown[w]
  BY DEF Walks, OneView
<1>4. /\ vpc'[v] \in Holding <=> vpc[v] \in Holding
      /\ vpc'[v] \in Holding => watches'[v] = watches[v] /\ my'[v] = my[v]
      /\ vpc'[v] \notin {"idle", "done"} => watches'[v] \in Tasks
  BY DEF Walks
<1>5. Types'
  <2>1. Worlds' /\ Clients' /\ StreamTypes'
    BY <1>1, <1>2 DEF Walks, Inv, Types, Worlds, Clients, StreamTypes
  <2>2. Hubs' /\ ViewTypes'
    BY <1>1 DEF Walks, OneView, Inv, Types, Hubs
  <2> QED BY <2>1, <2>2 DEF Types
<1>6. Chained' /\ Tabled' /\ Blank' /\ Sound'
  BY <1>1, <1>2 DEF Inv, Chained, Tabled, Blank, Sound
<1>7. Lives'
  BY <1>1, <1>2 DEF Inv, Lives, Live
<1>8. Viewing'
  <2> SUFFICES ASSUME NEW w \in Views
               PROVE  /\ vpc'[w] \notin {"idle", "done"} => watches'[w] \in Tasks
                      /\ vpc'[w] \in Holding =>
                           /\ my'[w] \in Opened /\ of[my'[w]] = watches'[w]
                           /\ ~closed /\ table[watches'[w]] # 0 => refs[my'[w]] = refs[table[watches'[w]]]
    BY <1>1, <1>2 DEF Viewing
  <2>1. /\ vpc[w] \notin {"idle", "done"} => watches[w] \in Tasks
        /\ vpc[w] \in Holding =>
             /\ my[w] \in Opened /\ of[my[w]] = watches[w]
             /\ ~closed /\ table[watches[w]] # 0 => refs[my[w]] = refs[table[watches[w]]]
    BY DEF Inv, Viewing
  <2>2. CASE w = v
    BY <1>4, <2>1, <2>2
  <2>3. CASE w # v
    BY <1>3, <2>1, <2>3
  <2> QED BY <2>2, <2>3
<1>9. Subscribed'
  <2>1. hubClosed => subscribers' = {}
    BY DEF Walks, Inv, Subscribed
  <2>2. \A w \in subscribers' : vpc'[w] \notin {"idle", "done"}
    BY <1>3 DEF Walks, Inv, Subscribed
  <2> QED BY <1>1, <2>1, <2>2 DEF Subscribed
<1>10. RefsExact'
  <2>1. \A t \in Tasks : Holders(t)' = Holders(t)
    BY <1>4, HoldersStay DEF Walks
  <2> QED BY <1>1, <2>1 DEF Inv, RefsExact
<1>11. NoLostChange'
  <2> SUFFICES ASSUME NEW w \in subscribers' \ signal', vpc'[w] = "wait", table[watches'[w]] # 0,
                      spc[table[watches'[w]]] # "notify"
               PROVE  shown'[w] >= page[table[watches'[w]]]
    BY <1>1 DEF NoLostChange
  <2>1. w \in Views
    BY DEF Walks
  <2>2. CASE w = v
    BY <1>4, <2>2 DEF Walks, Holding
  <2>3. CASE w # v
    <3>1. w \in subscribers \ signal
      BY <2>1, <2>3 DEF Walks
    <3> QED BY <1>3, <2>1, <2>3, <3>1 DEF Inv, NoLostChange
  <2> QED BY <2>2, <2>3
<1>12. Bounded'
  <2>1. Roots' = Roots /\ Replacements' = Replacements /\ Failing' = Failing
    BY <1>1, <1>2 DEF Roots, Replacements, Failing, Failed
  <2>2. Begun \subseteq Begun' /\ Begun' \subseteq Views
    BY <1>3 DEF Walks, Begun
  <2>3. Cardinality(Begun) <= Cardinality(Begun') /\ Cardinality(Begun') \in Nat
    BY <2>2, SizesAre, FS_Subset, FS_CardinalityType
  <2>4. faults \in Nat /\ faults' \in Nat /\ faults <= faults'
    <3>1. scenario.faults \in Nat
      BY ScenarioIs, SizesAre DEF Inv, Types, Worlds
    <3> QED BY <3>1 DEF Walks, Inv, Types, Worlds
  <2> QED BY <2>1, <2>3, <2>4, BegunAre DEF Bounded
<1> QED BY <1>5, <1>6, <1>7, <1>8, <1>9, <1>10, <1>11, <1>12 DEF Inv

-----------------------------------------------------------------------------
(* What is known of a subscription that has been opened.                    *)
LEMMA StreamIs ==
  ASSUME Inv, NEW n \in Subs, spc[n] # "off" \/ n \in dropped
  PROVE  /\ n \in Opened /\ n # 0 /\ of[n] \in Tasks /\ Live(n) /\ native[of[n]] \in 1..MaxVersion
         /\ native[of[n]] \in 0..MaxVersion
         /\ table[of[n]] = n => n \notin dropped /\ ~closed /\ (n \in cancelled \/ spc[n] = "done" => n \in err)
         /\ spc[n] # "notify" =>
              \A v \in subscribers \ signal : vpc[v] = "wait" /\ table[watches[v]] = n => shown[v] >= page[n]
         /\ \A v \in Views : shown[v] \in Nat /\ shown[v] >= NoPage
<1>1. n \in Opened /\ n # 0
  BY SizesAre DEF Inv, Blank
<1>2. of[n] \in Tasks /\ Live(n)
  BY <1>1 DEF Inv, Chained, Lives
<1>3. native[of[n]] \in 1..MaxVersion /\ native[of[n]] \in 0..MaxVersion
  BY <1>2, SizesAre DEF Inv, Types, Worlds
<1>4. table[of[n]] = n => n \notin dropped /\ ~closed /\ (n \in cancelled \/ spc[n] = "done" => n \in err)
  BY <1>1, <1>2 DEF Inv, Tabled, Sound
<1>5. spc[n] # "notify" =>
        \A v \in subscribers \ signal : vpc[v] = "wait" /\ table[watches[v]] = n => shown[v] >= page[n]
  BY <1>1 DEF Inv, NoLostChange
<1>6. \A v \in Views : shown[v] \in Nat /\ shown[v] >= NoPage
  BY SizesAre DEF Inv, Types, ViewTypes, NoPage
<1> QED BY <1>1, <1>2, <1>3, <1>4, <1>5, <1>6

(* What a step of one goroutine leaves alone.                               *)
Others(n) ==
  /\ UNCHANGED <<scenario, native, closed, table, opened, of, refs, count>>
  /\ UNCHANGED <<hubClosed, subscribers, ended, view>>

LEMMA FaultsStay ==
  ASSUME Inv
  PROVE  /\ faults \in 0..scenario.faults /\ faults \in Nat
         /\ UNCHANGED <<faults, scenario>> => faults' \in 0..scenario.faults /\ faults <= faults'
         /\ Fault /\ UNCHANGED scenario => faults' \in 0..scenario.faults /\ faults < faults' /\ faults <= faults'
<1>1. scenario.faults \in Nat /\ faults \in 0..scenario.faults
  BY ScenarioIs, SizesAre DEF Inv, Types, Worlds
<1> QED BY <1>1 DEF Fault

LEMMA CancelKeeps ==
  ASSUME Inv, NEW n \in Subs, Cancel(n), UNCHANGED scenario
  PROVE  Inv'
<1>1. /\ n \in dropped /\ dropped' = dropped \ {n} /\ cancelled' = cancelled \cup {n} /\ Others(n)
      /\ UNCHANGED <<faults, ready, err, page, spc, hand, signal>>
  BY DEF Cancel, Others, world, hub
<1>2. n \in Opened /\ Live(n) /\ table[of[n]] # n
  BY <1>1, StreamIs
<1>3. Live(n)'
  BY <1>1, <1>2 DEF Live, Others
<1>4. StreamTypes' /\ dropped' \subseteq Subs /\ signal' \subseteq Views
  BY <1>1 DEF Inv, Types, StreamTypes, Clients, Hubs
<1>5. \A v \in subscribers \ signal' : vpc[v] = "wait" /\ table[watches[v]] = n /\ spc'[n] # "notify" => shown[v] >= page'[n]
  BY <1>1, StreamIs
<1>6. Moves(n)
  BY <1>1, <1>2, <1>3, <1>4, <1>5, FaultsStay DEF Moves, Others
<1> QED BY <1>6, StreamMoves

(* A step that changes only where a goroutine is, what it has published     *)
(* and whether it has failed.                                               *)
LEMMA GoroutineSteps ==
  ASSUME Inv, NEW n \in Subs, NEW l \in StreamSteps \ {"off"}, spc[n] \notin {"off", "notify"}, StepTo(n, l), Others(n),
         UNCHANGED <<dropped, page, hand, signal>>, ready' \in [Subs -> {None, "ok", "error"}],
         faults' \in 0..scenario.faults, faults <= faults',
         err' \in {err, err \cup {n}}, cancelled' \in {cancelled, cancelled \cup {n}},
         n \in err' => l \in {"announce", "notifyEnd", "done"}, l \in {"announce", "notifyEnd"} => n \in err',
         l \in Streaming => spc[n] \in Streaming,
         table[of[n]] = n =>
           /\ n \in cancelled' \/ l = "done" => n \in err'
           /\ n \in err' \/ l \in {"refused", "broken"} => Failed(n) \/ faults < faults'
  PROVE  Inv'
<1>1. n \in Opened /\ Live(n)
  BY StreamIs
<1>2. spc'[n] = l /\ spc' \in [Subs -> StreamSteps] /\ \A m \in Subs : m # n => spc'[m] = spc[m]
  BY DEF StepTo, Inv, Types, StreamTypes
<1>3. StreamTypes' /\ signal' \subseteq Views /\ dropped' \subseteq Subs
  BY <1>2 DEF Inv, Types, StreamTypes, Hubs, Clients
<1>4. \A m \in Subs : m # n => (m \in err' <=> m \in err) /\ (m \in cancelled' <=> m \in cancelled)
  OBVIOUS
<1>5. cancelled \subseteq cancelled' /\ UNCHANGED <<native, table, of>>
  BY DEF Others
<1>6. Live(n)'
  BY <1>1, <1>2, <1>5 DEF Live
<1>7. Failed(n)' <=> n \in err' \/ l \in {"refused", "broken"}
  BY <1>2 DEF Failed
<1>8. \A v \in subscribers \ signal' : vpc[v] = "wait" /\ table[watches[v]] = n /\ spc'[n] # "notify" => shown[v] >= page'[n]
  BY StreamIs
<1>9. table[of[n]] = n =>
       /\ n \notin dropped'
       /\ n \in cancelled' \/ spc'[n] = "done" => n \in err'
       /\ Failed(n)' => Failed(n) \/ faults < faults'
  BY <1>2, <1>7, StreamIs
<1>10. Moves(n)
  BY <1>1, <1>2, <1>3, <1>4, <1>6, <1>8, <1>9 DEF Moves, Others
<1> QED BY <1>10, StreamMoves

LEMMA OpenKeeps ==
  ASSUME Inv, NEW n \in Subs, Open(n), UNCHANGED scenario
  PROVE  Inv'
<1>1. /\ spc[n] = "opening" /\ n \notin cancelled /\ StepTo(n, "opened") /\ Others(n)
      /\ UNCHANGED <<faults, dropped, cancelled, ready, err, page, hand, signal>>
  BY DEF Open, Others, world, client, hub
<1>2. n \notin err
  BY <1>1, StreamIs DEF Live
<1>3. ready' \in [Subs -> {None, "ok", "error"}]
  BY <1>1 DEF Inv, Types, StreamTypes
<1>4. "opened" \in StreamSteps \ {"off"} /\ "opening" \in Streaming
  BY DEF StreamSteps, Streaming
<1> QED BY <1>1, <1>2, <1>3, <1>4, GoroutineSteps, FaultsStay

LEMMA OpenFailsKeeps ==
  ASSUME Inv, NEW n \in Subs, OpenFails(n), UNCHANGED scenario
  PROVE  Inv'
<1>1. /\ spc[n] = "opening" /\ StepTo(n, "refused") /\ Others(n)
      /\ UNCHANGED <<dropped, cancelled, ready, err, page, hand, signal>>
      /\ IF n \in cancelled THEN UNCHANGED faults ELSE Fault
  BY DEF OpenFails, Others, client, hub
<1>2. n \notin err /\ (table[of[n]] = n => n \notin cancelled)
  BY <1>1, StreamIs DEF Live
<1>3. ready' \in [Subs -> {None, "ok", "error"}]
  BY <1>1 DEF Inv, Types, StreamTypes
<1>4. "refused" \in StreamSteps \ {"off"} /\ "refused" \notin Streaming
  BY DEF StreamSteps, Streaming
<1>5. faults' \in 0..scenario.faults /\ faults <= faults' /\ (n \notin cancelled => faults < faults')
  BY <1>1, FaultsStay
<1> QED BY <1>1, <1>2, <1>3, <1>4, <1>5, GoroutineSteps

LEMMA RefusedKeeps ==
  ASSUME Inv, NEW n \in Subs, Refused(n), UNCHANGED scenario
  PROVE  Inv'
<1>1. /\ spc[n] = "refused" /\ StepTo(n, "announce") /\ err' = err \cup {n} /\ Others(n)
      /\ UNCHANGED <<faults, dropped, cancelled, ready, page, hand, signal>>
  BY DEF Refused, Others, world, client, hub
<1>2. ready' \in [Subs -> {None, "ok", "error"}]
  BY <1>1 DEF Inv, Types, StreamTypes
<1>3. "announce" \in StreamSteps \ {"off"} /\ "announce" \notin Streaming /\ Failed(n)
  BY <1>1 DEF StreamSteps, Streaming, Failed
<1> QED BY <1>1, <1>2, <1>3, GoroutineSteps, FaultsStay

LEMMA AnnounceKeeps ==
  ASSUME Inv, NEW n \in Subs, Announce(n), UNCHANGED scenario
  PROVE  Inv'
<1>1. /\ spc[n] = "announce" /\ StepTo(n, "done") /\ cancelled' = cancelled \cup {n} /\ Others(n)
      /\ ready' = [ready EXCEPT ![n] = "error"]
      /\ UNCHANGED <<faults, dropped, err, page, hand, signal>>
  BY DEF Announce, Others, world, client, hub
<1>2. ready' \in [Subs -> {None, "ok", "error"}]
  BY <1>1 DEF Inv, Types, StreamTypes
<1>3. "done" \in StreamSteps \ {"off"} /\ "done" \notin Streaming /\ (n \in err => Failed(n))
  BY DEF StreamSteps, Streaming, Failed
<1>4. n \in err
  BY <1>1, StreamIs DEF Live
<1> QED BY <1>1, <1>2, <1>3, <1>4, GoroutineSteps, FaultsStay

LEMMA AdmitKeeps ==
  ASSUME Inv, NEW n \in Subs, Admit(n), UNCHANGED scenario
  PROVE  Inv'
<1>1. /\ spc[n] = "opened" /\ Others(n) /\ UNCHANGED <<faults, dropped, cancelled, err, page, hand, signal>>
  BY DEF Admit, Others, world, client, hub
<1>2. n \notin err /\ (table[of[n]] = n => Current(n))
  BY <1>1, StreamIs DEF Live, Current
<1>3. "admitted" \in StreamSteps \ {"off"} /\ "done" \in StreamSteps \ {"off"} /\ "done" \notin Streaming
      /\ "opened" \in Streaming
  BY DEF StreamSteps, Streaming
<1>4. CASE Current(n)
  <2>1. StepTo(n, "admitted") /\ UNCHANGED ready
    BY <1>4 DEF Admit
  <2>2. ready' \in [Subs -> {None, "ok", "error"}]
    BY <2>1 DEF Inv, Types, StreamTypes
  <2>3. n \notin cancelled
    BY <1>4 DEF Current
  <2> QED BY <1>1, <1>2, <1>3, <2>1, <2>2, <2>3, GoroutineSteps, FaultsStay
<1>5. CASE ~Current(n)
  <2>1. StepTo(n, "done") /\ ready' = [ready EXCEPT ![n] = "error"]
    BY <1>5 DEF Admit
  <2>2. ready' \in [Subs -> {None, "ok", "error"}]
    BY <2>1 DEF Inv, Types, StreamTypes
  <2> QED BY <1>1, <1>2, <1>3, <1>5, <2>1, <2>2, GoroutineSteps, FaultsStay
<1> QED BY <1>4, <1>5

LEMMA ReadyKeeps ==
  ASSUME Inv, NEW n \in Subs, Ready(n), UNCHANGED scenario
  PROVE  Inv'
<1>1. /\ spc[n] = "admitted" /\ StepTo(n, "reading") /\ ready' = [ready EXCEPT ![n] = "ok"] /\ Others(n)
      /\ UNCHANGED <<faults, dropped, cancelled, err, page, hand, signal>>
  BY DEF Ready, Others, world, client, hub
<1>2. n \notin err /\ (table[of[n]] = n => n \notin cancelled)
  BY <1>1, StreamIs DEF Live
<1>3. ready' \in [Subs -> {None, "ok", "error"}]
  BY <1>1 DEF Inv, Types, StreamTypes
<1>4. "reading" \in StreamSteps \ {"off"} /\ "admitted" \in Streaming
  BY DEF StreamSteps, Streaming
<1> QED BY <1>1, <1>2, <1>3, <1>4, GoroutineSteps, FaultsStay

LEMMA BreakKeeps ==
  ASSUME Inv, NEW n \in Subs, Break(n), UNCHANGED scenario
  PROVE  Inv'
<1>1. /\ spc[n] = "reading" /\ StepTo(n, "broken") /\ Others(n)
      /\ UNCHANGED <<dropped, cancelled, ready, err, page, hand, signal>>
      /\ IF n \in cancelled THEN UNCHANGED faults ELSE Fault
  BY DEF Break, Others, client, hub
<1>2. n \notin err /\ (table[of[n]] = n => n \notin cancelled)
  BY <1>1, StreamIs DEF Live
<1>3. ready' \in [Subs -> {None, "ok", "error"}]
  BY <1>1 DEF Inv, Types, StreamTypes
<1>4. "broken" \in StreamSteps \ {"off"} /\ "broken" \notin Streaming
  BY DEF StreamSteps, Streaming
<1>5. faults' \in 0..scenario.faults /\ faults <= faults' /\ (n \notin cancelled => faults < faults')
  BY <1>1, FaultsStay
<1> QED BY <1>1, <1>2, <1>3, <1>4, <1>5, GoroutineSteps

LEMMA ReceiveKeeps ==
  ASSUME Inv, NEW n \in Subs, Receive(n), UNCHANGED scenario
  PROVE  Inv'
<1>1. /\ spc[n] = "reading" /\ n \notin cancelled /\ Others(n)
      /\ hand' = [hand EXCEPT ![n] = native[of[n]]] /\ spc' = [spc EXCEPT ![n] = "page"]
      /\ UNCHANGED <<faults, dropped, cancelled, ready, err, page, signal>>
  BY DEF Receive, StepTo, Others, world, client, hub
<1>2. n \in Opened /\ of[n] \in Tasks /\ Live(n) /\ native[of[n]] \in 0..MaxVersion
  BY <1>1, StreamIs
<1>3. /\ spc'[n] = "page" /\ hand'[n] = native[of[n]] /\ \A m \in Subs : m # n => spc'[m] = spc[m] /\ hand'[m] = hand[m]
      /\ StreamTypes'
  BY <1>1, <1>2 DEF Inv, Types, StreamTypes, StreamSteps
<1>4. Live(n)'
  <2>1. n \notin err /\ native[of[n]] <= native[of[n]]
    BY <1>1, <1>2, SizesAre DEF Live
  <2> QED BY <1>1, <1>2, <1>3, <2>1 DEF Live, Others, Streaming
<1>5. signal' \subseteq Views /\ dropped' \subseteq Subs
  BY <1>1 DEF Inv, Types, Hubs, Clients
<1>6. \A v \in subscribers \ signal' : vpc[v] = "wait" /\ table[watches[v]] = n /\ spc'[n] # "notify" => shown[v] >= page'[n]
  BY <1>1, StreamIs
<1>7. table[of[n]] = n =>
       /\ n \notin dropped'
       /\ n \in cancelled' \/ spc'[n] = "done" => n \in err'
       /\ Failed(n)' => Failed(n) \/ faults < faults'
  BY <1>1, <1>3, StreamIs DEF Failed
<1>8. Moves(n)
  BY <1>1, <1>2, <1>3, <1>4, <1>5, <1>6, <1>7, FaultsStay DEF Moves, Others
<1> QED BY <1>8, StreamMoves

(* A page is kept by the subscription in the table alone, and whoever       *)
(* sleeps is signalled next.                                                *)
LEMMA PublishKeeps ==
  ASSUME Inv, NEW n \in Subs, Publish(n), UNCHANGED scenario
  PROVE  Inv'
<1>0. PICK l, h : /\ l = (IF Current(n) THEN "notify" ELSE "done")
                  /\ h = (IF Current(n) THEN hand[n] ELSE NoPage)
  OBVIOUS
<1>1. /\ spc[n] = "page" /\ Others(n)
      /\ page' = [page EXCEPT ![n] = h] /\ spc' = [spc EXCEPT ![n] = l]
      /\ UNCHANGED <<faults, dropped, cancelled, ready, err, hand, signal>>
  BY <1>0 DEF Publish, StepTo, Others, world, client, hub
<1>2. n \in Opened /\ of[n] \in Tasks /\ Live(n) /\ native[of[n]] \in Nat /\ h \in 0..MaxVersion /\ h <= native[of[n]]
  <2>1. n \in Opened /\ of[n] \in Tasks /\ Live(n) /\ native[of[n]] \in 1..MaxVersion
    BY <1>1, StreamIs
  <2>2. hand[n] \in 0..MaxVersion /\ hand[n] <= native[of[n]]
    BY <2>1 DEF Inv, Types, StreamTypes, Live
  <2> QED BY <1>0, <2>1, <2>2, SizesAre DEF NoPage
<1>3. l \in {"notify", "done"} /\ l \in StreamSteps /\ (l = "done" => h = NoPage /\ table[of[n]] # n)
      /\ n \notin err
  <2>1. n \notin err /\ (table[of[n]] = n => Current(n))
    BY <1>1, StreamIs DEF Live, Current
  <2> QED BY <1>0, <2>1 DEF StreamSteps
<1>4. /\ spc'[n] = l /\ page'[n] = h /\ \A m \in Subs : m # n => spc'[m] = spc[m] /\ page'[m] = page[m]
      /\ StreamTypes'
  BY <1>1, <1>2, <1>3 DEF Inv, Types, StreamTypes
<1>5. Live(n)'
  BY <1>1, <1>2, <1>3, <1>4 DEF Live, Others, Streaming
<1>6. signal' \subseteq Views /\ dropped' \subseteq Subs
  BY <1>1 DEF Inv, Types, Hubs, Clients
<1>7. \A v \in subscribers \ signal' : vpc[v] = "wait" /\ table[watches[v]] = n /\ spc'[n] # "notify" => shown[v] >= page'[n]
  <2>1. \A v \in subscribers : v \in Views /\ shown[v] >= NoPage
    BY <1>1, StreamIs DEF Inv, Types, Hubs
  <2> QED BY <1>3, <1>4, <2>1
<1>8. table[of[n]] = n =>
       /\ n \notin dropped'
       /\ n \in cancelled' \/ spc'[n] = "done" => n \in err'
       /\ Failed(n)' => Failed(n) \/ faults < faults'
  BY <1>1, <1>3, <1>4, StreamIs DEF Failed
<1>9. Moves(n)
  BY <1>1, <1>2, <1>4, <1>5, <1>6, <1>7, <1>8, FaultsStay DEF Moves, Others
<1> QED BY <1>9, StreamMoves

LEMMA NotifyViewKeeps ==
  ASSUME Inv, NEW n \in Subs, NotifyView(n), UNCHANGED scenario
  PROVE  Inv'
<1>0. PICK l : l = (IF spc[n] = "notify" THEN "reading" ELSE "done")
  OBVIOUS
<1>1. /\ spc[n] \in {"notify", "notifyEnd"} /\ Others(n) /\ spc' = [spc EXCEPT ![n] = l]
      /\ signal' = (IF hubClosed THEN signal ELSE signal \cup {v \in subscribers : watches[v] = of[n]})
      /\ UNCHANGED <<faults, dropped, cancelled, ready, err, page, hand>>
  BY <1>0 DEF NotifyView, Notify, StepTo, Others, world, client, hub
<1>2. n \in Opened /\ of[n] \in Tasks /\ Live(n) /\ n # 0
  BY <1>1, StreamIs
<1>3. l \in StreamSteps /\ l \in {"reading", "done"} /\ (l = "reading" <=> spc[n] = "notify")
  BY <1>0 DEF StreamSteps
<1>4. spc'[n] = l /\ StreamTypes' /\ \A m \in Subs : m # n => spc'[m] = spc[m]
  BY <1>1, <1>3 DEF Inv, Types, StreamTypes
<1>5. Live(n)'
  BY <1>1, <1>2, <1>3, <1>4 DEF Live, Others, Streaming
<1>6. signal' \subseteq Views /\ signal \subseteq signal' /\ dropped' \subseteq Subs
  BY <1>1 DEF Inv, Types, Hubs, Clients
<1>7. \A v \in subscribers \ signal' : vpc[v] = "wait" => table[watches[v]] # n
  <2> SUFFICES ASSUME NEW v \in subscribers \ signal', vpc[v] = "wait", table[watches[v]] = n PROVE FALSE
    OBVIOUS
  <2>1. ~hubClosed /\ v \in Views
    BY DEF Inv, Subscribed, Types, Hubs
  <2>2. watches[v] \in Tasks
    BY <2>1 DEF Inv, Viewing
  <2>3. of[n] = watches[v]
    BY <1>2, <2>2, InTable
  <2> QED BY <1>1, <2>1, <2>3
<1>8. table[of[n]] = n =>
       /\ n \notin dropped'
       /\ n \in cancelled' \/ spc'[n] = "done" => n \in err'
       /\ Failed(n)' => Failed(n) \/ faults < faults'
  <2>1. Live(n) /\ (table[of[n]] = n => n \notin dropped /\ (n \in cancelled => n \in err))
    BY <1>1, StreamIs
  <2> QED BY <1>1, <1>3, <1>4, <2>1 DEF Failed, Live
<1>9. Moves(n)
  BY <1>1, <1>2, <1>4, <1>5, <1>6, <1>7, <1>8, FaultsStay DEF Moves, Others
<1> QED BY <1>9, StreamMoves

(* The reader of the subscription in the table records its failure.         *)
LEMMA BrokenKeeps ==
  ASSUME Inv, NEW n \in Subs, Broken(n), UNCHANGED scenario
  PROVE  Inv'
<1>0. PICK l : l = (IF Current(n) THEN "notifyEnd" ELSE "done")
  OBVIOUS
<1>1. /\ spc[n] = "broken" /\ Others(n) /\ spc' = [spc EXCEPT ![n] = l]
      /\ page' = [page EXCEPT ![n] = NoPage] /\ hand' = [hand EXCEPT ![n] = NoPage]
      /\ err' = (IF Current(n) THEN err \cup {n} ELSE err)
      /\ UNCHANGED <<faults, dropped, cancelled, ready, signal>>
  BY <1>0 DEF Broken, StepTo, Others, world, client, hub
<1>2. /\ n \in Opened /\ of[n] \in Tasks /\ Live(n) /\ native[of[n]] \in Nat /\ NoPage \in 0..MaxVersion
      /\ NoPage <= native[of[n]]
  <2>1. n \in Opened /\ of[n] \in Tasks /\ Live(n) /\ native[of[n]] \in 1..MaxVersion
    BY <1>1, StreamIs
  <2> QED BY <2>1, SizesAre DEF NoPage
<1>3. l \in StreamSteps /\ l \in {"notifyEnd", "done"} /\ (n \in err' <=> l = "notifyEnd")
      /\ (table[of[n]] = n => n \in err')
  <2>1. n \notin err /\ (table[of[n]] = n => Current(n))
    BY <1>1, StreamIs DEF Live, Current
  <2> QED BY <1>0, <1>1, <2>1 DEF StreamSteps
<1>4. /\ spc'[n] = l /\ page'[n] = NoPage /\ hand'[n] = NoPage
      /\ \A m \in Subs : m # n => spc'[m] = spc[m] /\ page'[m] = page[m] /\ hand'[m] = hand[m]
      /\ StreamTypes'
  BY <1>1, <1>2, <1>3 DEF Inv, Types, StreamTypes
<1>5. Live(n)'
  BY <1>1, <1>2, <1>3, <1>4 DEF Live, Others, Streaming
<1>6. signal' \subseteq Views /\ dropped' \subseteq Subs
  BY <1>1 DEF Inv, Types, Hubs, Clients
<1>7. \A v \in subscribers \ signal' : vpc[v] = "wait" /\ table[watches[v]] = n /\ spc'[n] # "notify" => shown[v] >= page'[n]
  <2>1. \A v \in subscribers : v \in Views /\ shown[v] >= NoPage
    BY <1>1, StreamIs DEF Inv, Types, Hubs
  <2> QED BY <1>4, <2>1
<1>8. table[of[n]] = n =>
       /\ n \notin dropped'
       /\ n \in cancelled' \/ spc'[n] = "done" => n \in err'
       /\ Failed(n)' => Failed(n) \/ faults < faults'
  BY <1>1, <1>3, StreamIs DEF Failed
<1>9. \A m \in Subs : m # n => (m \in err' <=> m \in err)
  BY <1>1
<1>10. Moves(n)
  BY <1>1, <1>2, <1>4, <1>5, <1>6, <1>7, <1>8, <1>9, FaultsStay DEF Moves, Others
<1> QED BY <1>10, StreamMoves

-----------------------------------------------------------------------------
(* A view goes on without taking or giving a reference.                     *)
LEMMA ViewTurns ==
  ASSUME Inv, NEW v \in Views, NEW l \in ViewSteps \ {"idle", "attach", "done"}, vpc[v] \notin {"idle", "done"}, Goto(v, l),
         l \in Holding <=> vpc[v] \in Holding,
         UNCHANGED <<scenario, native, client, stream, hubClosed, subscribers, ended, watches, my>>,
         faults' \in 0..scenario.faults, faults <= faults', signal' \in {signal, signal \ {v}},
         shown' \in [Views -> 0..MaxVersion], \A w \in Views : w # v => shown'[w] = shown[w],
         l = "wait" => (table[watches[v]] # 0 => shown'[v] >= page[table[watches[v]]])
  PROVE  Inv'
<1>1. vpc'[v] = l /\ vpc' \in [Views -> ViewSteps] /\ \A w \in Views : w # v => vpc'[w] = vpc[w]
  BY DEF Goto, Inv, Types, ViewTypes
<1>2. opened' = opened /\ Opened' = Opened
  BY DEF client, Opened
<1>3. OneView(v)
  BY <1>1, <1>2 DEF OneView, Inv, Types, ViewTypes
<1>4. subscribers' \subseteq Views /\ ended' \subseteq Views /\ signal' \subseteq Views
  BY DEF Inv, Types, Hubs
<1>5. watches[v] \in Tasks
  BY DEF Inv, Viewing
<1>6. v \in subscribers' => ~hubClosed
  BY DEF Inv, Subscribed
<1>7. \A w \in Views : w # v => (w \in subscribers' <=> w \in subscribers) /\ (w \in signal' <=> w \in signal)
  OBVIOUS
<1>8. Walks(v)
  BY <1>1, <1>3, <1>4, <1>5, <1>6, <1>7 DEF Walks
<1> QED BY <1>8, ViewWalks

LEMMA ViewIs ==
  ASSUME Inv, NEW v \in Views
  PROVE  /\ shown \in [Views -> 0..MaxVersion]
         /\ vpc[v] \notin {"idle", "done"} => watches[v] \in Tasks
         /\ {"ready", "unref", "refresh", "recover", "fetch", "wait", "detach"} \subseteq ViewSteps \ {"idle", "attach", "done"}
         /\ "unsubscribe" \in ViewSteps \ {"idle", "attach", "done"}
         /\ {"ready", "unref", "refresh", "recover", "fetch", "wait", "detach"} = Holding
<1>1. shown \in [Views -> 0..MaxVersion] /\ (vpc[v] \notin {"idle", "done"} => watches[v] \in Tasks)
  BY DEF Inv, Types, ViewTypes, Viewing
<1> QED BY <1>1 DEF ViewSteps, Holding

LEMMA SubscribeKeeps ==
  ASSUME Inv, NEW v \in Views, NEW t \in Tasks, Subscribe(v, t), UNCHANGED scenario
  PROVE  Inv'
<1>1. /\ vpc[v] = "idle" /\ UNCHANGED <<scenario, native, faults, client, stream, hubClosed, ended, signal, my, shown>>
  BY DEF Subscribe, world
<1>2. v \notin subscribers /\ Opened' = Opened /\ UNCHANGED opened
  BY <1>1 DEF Inv, Subscribed, Opened, client
<1>3. \/ Goto(v, "done") /\ UNCHANGED <<subscribers, watches>>
      \/ Goto(v, "attach") /\ watches' = [watches EXCEPT ![v] = t] /\ subscribers' = subscribers \cup {v} /\ ~hubClosed
  BY DEF Subscribe
<1>4. \/ vpc'[v] = "done" /\ subscribers' = subscribers
      \/ vpc'[v] = "attach" /\ watches'[v] = t /\ subscribers' = subscribers \cup {v} /\ ~hubClosed
  BY <1>3 DEF Goto, Inv, Types, ViewTypes
<1>5. \A w \in Views : w # v => vpc'[w] = vpc[w] /\ watches'[w] = watches[w]
  BY <1>3 DEF Goto, Inv, Types, ViewTypes
<1>6. vpc' \in [Views -> ViewSteps] /\ watches' \in [Views -> Tasks \cup {None}]
  BY <1>3 DEF Goto, Inv, Types, ViewTypes, ViewSteps
<1>7. OneView(v)
  BY <1>1, <1>2, <1>5, <1>6 DEF OneView, Inv, Types, ViewTypes
<1>8. vpc'[v] \notin Holding /\ vpc[v] \notin Holding /\ vpc'[v] # "wait"
  BY <1>1, <1>4 DEF Holding
<1>9. subscribers' \subseteq Views /\ ended' \subseteq Views /\ signal' \subseteq Views
  BY <1>1, <1>4 DEF Inv, Types, Hubs
<1>10. \A w \in Views : w # v => (w \in subscribers' <=> w \in subscribers) /\ (w \in signal' <=> w \in signal)
  BY <1>1, <1>4
<1>11. Walks(v)
  BY <1>1, <1>2, <1>4, <1>7, <1>8, <1>9, <1>10, FaultsStay DEF Walks
<1> QED BY <1>11, ViewWalks

LEMMA UnsubscribeKeeps ==
  ASSUME Inv, NEW v \in Views, Unsubscribe(v), UNCHANGED scenario
  PROVE  Inv'
<1>1. /\ vpc[v] = "unsubscribe" /\ UNCHANGED <<scenario, native, faults, client, stream, hubClosed>>
      /\ subscribers' = subscribers \ {v} /\ ended' = ended \ {v} /\ signal' = signal \ {v}
  BY DEF Unsubscribe, world
<1>2. /\ vpc' = [vpc EXCEPT ![v] = "done"] /\ watches' = [watches EXCEPT ![v] = None]
      /\ my' = [my EXCEPT ![v] = 0] /\ shown' = [shown EXCEPT ![v] = NoPage]
  BY DEF Unsubscribe, Goto
<1>3. Opened' = Opened /\ UNCHANGED opened
  BY <1>1 DEF Opened, client
<1>4. vpc'[v] = "done" /\ OneView(v)
  BY <1>2, <1>3, SizesAre DEF OneView, Inv, Types, ViewTypes, ViewSteps, NoPage
<1>5. vpc'[v] \notin Holding /\ vpc[v] \notin Holding /\ vpc'[v] # "wait"
  BY <1>1, <1>4 DEF Holding
<1>6. subscribers' \subseteq Views /\ ended' \subseteq Views /\ signal' \subseteq Views
  BY <1>1 DEF Inv, Types, Hubs
<1>7. \A w \in Views : w # v => (w \in subscribers' <=> w \in subscribers) /\ (w \in signal' <=> w \in signal)
  BY <1>1
<1>8. v \notin subscribers'
  BY <1>1
<1>9. Walks(v)
  BY <1>1, <1>4, <1>5, <1>6, <1>7, <1>8, FaultsStay DEF Walks
<1> QED BY <1>9, ViewWalks

(* The steps that only move a view on.                                      *)
LEMMA ViewMovesOn ==
  ASSUME Inv, NEW v \in Views, UNCHANGED scenario,
         AttachReady(v) \/ Recover(v) \/ FetchFails(v) \/ Signalled(v) \/ Tick(v) \/ Ended(v) \/ Leaves(v)
  PROVE  Inv'
<1>1. PICK l \in {"unref", "refresh", "fetch", "detach"} : Goto(v, l)
  BY DEF AttachReady, Recover, FetchFails, Signalled, Tick, Ended, Leaves
<1>2. /\ vpc[v] \in Holding /\ vpc[v] \notin {"idle", "done"}
      /\ UNCHANGED <<scenario, native, client, stream, hubClosed, subscribers, ended, watches, my, shown>>
      /\ signal' \in {signal, signal \ {v}} /\ (UNCHANGED faults \/ Fault)
  BY DEF AttachReady, Recover, FetchFails, Signalled, Tick, Ended, Leaves, world, hub, Holding
<1>3. faults' \in 0..scenario.faults /\ faults <= faults'
  BY <1>2, FaultsStay
<1> QED BY <1>1, <1>2, <1>3, ViewTurns, ViewIs

(* A fetched page is at least as new as what the stream has kept.           *)
LEMMA FetchKeeps ==
  ASSUME Inv, NEW v \in Views, Fetch(v), UNCHANGED scenario
  PROVE  Inv'
<1>1. /\ vpc[v] = "fetch" /\ Goto(v, "wait") /\ shown' = [shown EXCEPT ![v] = native[watches[v]]]
      /\ UNCHANGED <<scenario, native, faults, client, stream, hubClosed, subscribers, ended, signal, watches, my>>
  BY DEF Fetch, world, hub
<1>2. watches[v] \in Tasks /\ native[watches[v]] \in 0..MaxVersion /\ native[watches[v]] \in Nat
  <2>1. watches[v] \in Tasks
    BY <1>1, ViewIs
  <2> QED BY <2>1, SizesAre DEF Inv, Types, Worlds
<1>3. shown' \in [Views -> 0..MaxVersion] /\ shown'[v] = native[watches[v]] /\ \A w \in Views : w # v => shown'[w] = shown[w]
  BY <1>1, <1>2, ViewIs
<1>4. table[watches[v]] # 0 => native[watches[v]] >= page[table[watches[v]]]
  <2> SUFFICES ASSUME table[watches[v]] # 0 PROVE native[watches[v]] >= page[table[watches[v]]]
    OBVIOUS
  <2>1. table[watches[v]] \in Opened /\ table[watches[v]] \in Subs /\ of[table[watches[v]]] = watches[v]
    BY <1>2, InTable
  <2>2. page[table[watches[v]]] <= native[watches[v]] /\ page[table[watches[v]]] \in Nat
    BY <2>1, SizesAre DEF Inv, Lives, Live, Types, StreamTypes
  <2> QED BY <1>2, <2>2
<1> QED BY <1>1, <1>3, <1>4, ViewTurns, ViewIs, FaultsStay

LEMMA AttachRefused ==
  ASSUME Inv, NEW v \in Views, vpc[v] = "attach", Goto(v, "unsubscribe"),
         UNCHANGED <<scenario, world, client, stream, hub, watches, my, shown>>
  PROVE  Inv'
<1>1. UNCHANGED <<scenario, native, faults, hubClosed, subscribers, ended, signal>>
  BY DEF world, hub
<1>2. "unsubscribe" \notin Holding /\ vpc[v] \notin Holding
  BY DEF Holding
<1> QED BY <1>1, <1>2, ViewTurns, ViewIs, FaultsStay

-----------------------------------------------------------------------------
(* A view gives its reference back to the chain that counts it; the last    *)
(* one takes the stream out of the table.                                   *)
LEMMA ReleaseKeeps ==
  ASSUME Inv, NEW v \in Views, vpc[v] \in {"unref", "detach"}, NEW r, Release(watches[v], r),
         r \in {0, refs[my[v]]}, Goto(v, "unsubscribe"),
         UNCHANGED <<scenario, world, closed, opened, of, refs, stream, hub, watches, my, shown>>
  PROVE  Inv'
<1>0. PICK t : t = watches[v]
  OBVIOUS
<1>1. UNCHANGED <<scenario, native, faults, closed, opened, of, refs, cancelled, ready, err, page, spc, hand,
                  hubClosed, subscribers, ended, signal, watches, my, shown>>
  BY DEF world, stream, hub
<1>2. t \in Tasks /\ v \in Holders(t) /\ Opened' = Opened
  BY <1>0, <1>1, ViewIs, HoldersAre DEF Holding, Opened
<1>3. /\ vpc'[v] = "unsubscribe" /\ vpc' \in [Views -> ViewSteps] /\ \A w \in Views : w # v => vpc'[w] = vpc[w]
  BY DEF Goto, Inv, Types, ViewTypes, ViewSteps
<1>4. OneView(v) /\ ViewTypes'
  BY <1>1, <1>2, <1>3 DEF OneView, Inv, Types, ViewTypes
<1>5. Holders(t)' = Holders(t) \ {v} /\ \A u \in Tasks : u # t => Holders(u)' = Holders(u)
  <2>1. vpc'[v] \notin Holding
    BY <1>3 DEF Holding
  <2> QED BY <1>0, <1>2, <1>4, <2>1, HoldersMove, HoldersStay
<1>6. /\ IsFiniteSet(Holders(t)) /\ Cardinality(Holders(t)) \in Nat /\ Cardinality(Holders(t)) >= 1
      /\ Cardinality(Holders(t)') = Cardinality(Holders(t)) - 1
  <2>1. IsFiniteSet(Holders(t)) /\ Cardinality(Holders(t)) \in Nat
    BY <1>2, HoldersAre, FS_CardinalityType
  <2>2. Cardinality(Holders(t)) # 0
    BY <1>2, <2>1, FS_EmptySet
  <2>3. Cardinality(Holders(t) \ {v}) = Cardinality(Holders(t)) - 1
    BY <1>2, <2>1, FS_RemoveElement
  <2> QED BY <1>5, <2>1, <2>2, <2>3
(* What the release makes of the table and of the counts.                   *)
<1>7. /\ table' \in [Tasks -> {0} \cup Opened] /\ count' \in [Subs -> 0..Cardinality(Views)] /\ dropped' \subseteq Subs
      /\ \A u \in Tasks : table'[u] \in {0, table[u]} /\ (u # t => table'[u] = table[u])
      /\ table'[t] # table[t] => table[t] \in dropped'
      /\ dropped \subseteq dropped' /\ \A m \in dropped' \ dropped : m = table[t] /\ m # 0 /\ table'[t] = 0
      /\ RefsExact'
  <2>1. CASE table[t] = 0
    <3>1. closed
      BY <1>2, <1>6, <2>1 DEF Inv, RefsExact
    <3>2. UNCHANGED <<table, dropped, count>>
      BY <1>0, <2>1 DEF Release
    <3> QED BY <1>1, <3>1, <3>2 DEF Inv, Types, Clients, RefsExact
  <2>2. CASE table[t] # 0
    <3>0. PICK n, q : n = table[t] /\ q = refs[n]
      OBVIOUS
    <3>1. /\ n \in Opened /\ n \in Subs /\ q \in Subs /\ ~closed /\ n \notin dropped
          /\ count[q] = Cardinality(Holders(t))
      BY <1>2, <2>2, <3>0, InTable
    <3>2. refs[my[v]] = q
      BY <1>0, <2>2, <3>0, <3>1 DEF Inv, Viewing, Holding
    <3>3. /\ count' = [count EXCEPT ![q] = @ - 1]
          /\ IF count[q] <= 1
             THEN table' = [table EXCEPT ![t] = 0] /\ dropped' = dropped \cup {n}
             ELSE UNCHANGED <<table, dropped>>
      BY <1>0, <2>2, <3>0, <3>2 DEF Release
    <3>4. /\ count'[q] = Cardinality(Holders(t)') /\ \A m \in Subs : m # q => count'[m] = count[m]
          /\ count' \in [Subs -> 0..Cardinality(Views)]
      <4>1. count[q] - 1 \in 0..Cardinality(Views)
        BY <1>2, <1>6, <3>1, HoldersAre, SizesAre
      <4> QED BY <1>6, <3>1, <3>3, <4>1 DEF Inv, Types, Clients
    <3>5. /\ table' \in [Tasks -> {0} \cup Opened] /\ dropped' \subseteq Subs
          /\ \A u \in Tasks : u # t => table'[u] = table[u]
          /\ \/ table'[t] = 0 /\ count[q] <= 1 /\ dropped' = dropped \cup {n}
             \/ table'[t] = n /\ UNCHANGED dropped
      BY <1>2, <3>0, <3>1, <3>3 DEF Inv, Types, Clients
    <3>6. RefsExact'
      <4> SUFFICES ASSUME NEW u \in Tasks
                   PROVE  Cardinality(Holders(u)') = IF table'[u] = 0 THEN 0 ELSE count'[refs[table'[u]]]
        BY <1>1 DEF RefsExact
      <4>1. CASE u = t
        <5>1. CASE table'[t] = 0
          BY <1>6, <3>1, <3>5, <4>1, <5>1, SizesAre
        <5>2. CASE table'[t] # 0
          BY <3>0, <3>4, <3>5, <4>1, <5>2
        <5> QED BY <5>1, <5>2
      <4>2. CASE u # t
        <5>1. Cardinality(Holders(u)) = IF table[u] = 0 THEN 0 ELSE count[refs[table[u]]]
          BY <3>1 DEF Inv, RefsExact
        <5>2. table[u] # 0 => refs[table[u]] \in Subs /\ refs[table[u]] # q
          BY <1>2, <2>2, <3>0, <4>2, InTable, ChainsDiffer
        <5>3. table'[u] = table[u] /\ Holders(u)' = Holders(u)
          BY <1>5, <3>5, <4>2
        <5> QED BY <3>4, <5>1, <5>2, <5>3
      <4> QED BY <4>1, <4>2
    <3>7. \A u \in Tasks : table'[u] \in {0, table[u]}
      BY <3>0, <3>5
    <3> QED BY <2>2, <3>0, <3>4, <3>5, <3>6, <3>7
  <2> QED BY <2>1, <2>2
<1>8. Types'
  <2>1. Worlds' /\ StreamTypes' /\ Hubs'
    BY <1>1 DEF Inv, Types, Worlds, StreamTypes, Hubs
  <2>2. Clients'
    BY <1>1, <1>2, <1>7 DEF Inv, Types, Clients
  <2> QED BY <1>4, <2>1, <2>2 DEF Types
<1>9. \A u \in Tasks : table'[u] # 0 => table'[u] = table[u] /\ table[u] # 0
  BY <1>7
<1>10. \A u \in Tasks : table[u] # 0 => table[u] \in Opened /\ of[table[u]] = u /\ table[u] \notin dropped
  BY InTable
<1>11. Chained' /\ Sound'
  BY <1>1, <1>2, <1>9 DEF Inv, Chained, Sound
<1>12. Tabled'
  <2>1. \A u \in Tasks : table'[u] # 0 => table'[u] \notin dropped'
    BY <1>2, <1>7, <1>9, <1>10
  <2>2. closed => \A u \in Tasks : table'[u] = 0
    BY <1>9 DEF Inv, Tabled
  <2> QED BY <1>1, <1>9, <1>10, <2>1, <2>2 DEF Tabled
<1>13. Blank'
  BY <1>1, <1>2, <1>7, <1>10 DEF Inv, Blank
<1>14. Lives'
  <2> SUFFICES ASSUME NEW m \in Opened PROVE Live(m)'
    BY <1>2 DEF Lives
  <2>1. Live(m) /\ of[m] \in Tasks
    BY DEF Inv, Lives, Chained
  <2>2. table[of[m]] = m => table'[of[m]] = m \/ m \in dropped'
    BY <1>7, <2>1
  <2> QED BY <1>1, <1>7, <2>1, <2>2 DEF Live
<1>15. Viewing'
  <2> SUFFICES ASSUME NEW w \in Views
               PROVE  /\ vpc'[w] \notin {"idle", "done"} => watches[w] \in Tasks
                      /\ vpc'[w] \in Holding =>
                           /\ my[w] \in Opened /\ of[my[w]] = watches[w]
                           /\ ~closed /\ table'[watches[w]] # 0 => refs[my[w]] = refs[table'[watches[w]]]
    BY <1>1, <1>2 DEF Viewing
  <2>1. /\ vpc[w] \notin {"idle", "done"} => watches[w] \in Tasks
        /\ vpc[w] \in Holding =>
             /\ my[w] \in Opened /\ of[my[w]] = watches[w]
             /\ ~closed /\ table[watches[w]] # 0 => refs[my[w]] = refs[table[watches[w]]]
    BY DEF Inv, Viewing
  <2>2. CASE w = v
    BY <1>0, <1>2, <1>3, <2>2 DEF Holding
  <2>3. CASE w # v
    <3>1. vpc[w] \in Holding => watches[w] \in Tasks
      BY <2>1 DEF Holding
    <3> QED BY <1>3, <1>9, <2>1, <2>3, <3>1
  <2> QED BY <2>2, <2>3
<1>16. Subscribed'
  BY <1>1, <1>3 DEF Inv, Subscribed, Types, Hubs
<1>17. NoLostChange'
  <2> SUFFICES ASSUME NEW w \in subscribers \ signal, vpc'[w] = "wait", table'[watches[w]] # 0,
                      spc[table'[watches[w]]] # "notify"
               PROVE  shown[w] >= page[table'[watches[w]]]
    BY <1>1 DEF NoLostChange
  <2>1. w \in Views /\ w # v /\ vpc[w] = "wait"
    BY <1>3 DEF Inv, Types, Hubs
  <2>2. watches[w] \in Tasks
    BY <2>1, ViewIs
  <2> QED BY <1>9, <2>1, <2>2 DEF Inv, NoLostChange
<1>18. Bounded'
  <2>1. Roots' = Roots /\ Replacements' = Replacements
    BY <1>1, <1>2 DEF Roots, Replacements
  <2>2. Failing' \subseteq Failing
    BY <1>1, <1>9 DEF Failing, Failed
  <2>3. Begun' = Begun
    BY <1>3 DEF Begun
  <2>4. Cardinality(Failing') <= Cardinality(Failing) /\ Cardinality(Failing') \in Nat
    BY <2>2, BegunAre, FS_Subset, FS_CardinalityType
  <2>5. faults \in Nat /\ faults' = faults
    BY <1>1, FaultsStay
  <2> QED BY <2>1, <2>3, <2>4, <2>5, BegunAre DEF Bounded
<1> QED BY <1>7, <1>8, <1>11, <1>12, <1>13, <1>14, <1>15, <1>16, <1>17, <1>18 DEF Inv

LEMMA UnrefKeeps ==
  ASSUME Inv, NEW v \in Views, Unref(v), UNCHANGED scenario
  PROVE  Inv'
  BY ReleaseKeeps DEF Unref

LEMMA DetachKeeps ==
  ASSUME Inv, NEW v \in Views, Detach(v), UNCHANGED scenario
  PROVE  Inv'
  BY ReleaseKeeps DEF Detach

-----------------------------------------------------------------------------
(* A view joins the stream of its task.                                     *)
LEMMA AttachJoins ==
  ASSUME Inv, NEW v \in Views, vpc[v] = "attach", table[watches[v]] # 0,
         count' = [count EXCEPT ![refs[table[watches[v]]]] = @ + 1],
         Goto(v, "ready"), my' = [my EXCEPT ![v] = table[watches[v]]],
         UNCHANGED <<scenario, world, closed, dropped, table, opened, of, refs, stream, hub, watches, shown>>
  PROVE  Inv'
<1>0. PICK t, n, q : t = watches[v] /\ n = table[t] /\ q = refs[n]
  OBVIOUS
<1>1. UNCHANGED <<scenario, native, faults, closed, dropped, table, opened, of, refs, cancelled, ready, err, page, spc,
                  hand, hubClosed, subscribers, ended, signal, watches, shown>>
  BY DEF world, stream, hub
<1>2. t \in Tasks /\ v \notin Holders(t) /\ Opened' = Opened
  BY <1>0, <1>1, ViewIs, HoldersAre DEF Holding, Opened
<1>3. n \in Opened /\ n \in Subs /\ q \in Subs /\ ~closed /\ of[n] = t /\ count[q] = Cardinality(Holders(t))
  BY <1>0, <1>2, InTable
<1>4. /\ vpc'[v] = "ready" /\ vpc' \in [Views -> ViewSteps] /\ \A w \in Views : w # v => vpc'[w] = vpc[w]
      /\ my'[v] = n /\ my' \in [Views -> {0} \cup Opened] /\ \A w \in Views : w # v => my'[w] = my[w]
  BY <1>0, <1>3 DEF Goto, Inv, Types, ViewTypes, ViewSteps
<1>5. OneView(v) /\ ViewTypes'
  BY <1>1, <1>2, <1>4 DEF OneView, Inv, Types, ViewTypes
<1>6. Holders(t)' = Holders(t) \cup {v} /\ \A u \in Tasks : u # t => Holders(u)' = Holders(u)
  <2>1. vpc'[v] \in Holding /\ watches'[v] = t
    BY <1>0, <1>1, <1>4 DEF Holding
  <2> QED BY <1>0, <1>2, <1>5, <2>1, HoldersMove, HoldersStay
<1>7. Cardinality(Holders(t)') = Cardinality(Holders(t)) + 1 /\ Cardinality(Holders(t)') \in 0..Cardinality(Views)
  <2>1. Cardinality(Holders(t) \cup {v}) = Cardinality(Holders(t)) + 1
    BY <1>2, HoldersAre, FS_AddElement
  <2>2. Holders(t)' \subseteq Views
    BY <1>2, <1>6, HoldersAre
  <2>3. Cardinality(Holders(t)') <= Cardinality(Views) /\ Cardinality(Holders(t)') \in Nat
    BY <2>2, SizesAre, FS_Subset, FS_CardinalityType
  <2> QED BY <1>6, <2>1, <2>3, SizesAre
<1>8. /\ count'[q] = Cardinality(Holders(t)') /\ \A m \in Subs : m # q => count'[m] = count[m]
      /\ count' \in [Subs -> 0..Cardinality(Views)]
  <2>1. count[q] + 1 \in 0..Cardinality(Views)
    BY <1>3, <1>7
  <2>2. count' = [count EXCEPT ![q] = @ + 1]
    BY <1>0
  <2> QED BY <1>3, <1>7, <2>1, <2>2 DEF Inv, Types, Clients
<1>9. RefsExact'
  <2> SUFFICES ASSUME NEW u \in Tasks
               PROVE  Cardinality(Holders(u)') = IF table[u] = 0 THEN 0 ELSE count'[refs[table[u]]]
    BY <1>1 DEF RefsExact
  <2>1. CASE u = t
    BY <1>0, <1>8, <2>1
  <2>2. CASE u # t
    <3>1. Cardinality(Holders(u)) = IF table[u] = 0 THEN 0 ELSE count[refs[table[u]]]
      BY <1>3 DEF Inv, RefsExact
    <3>2. table[u] # 0 => refs[table[u]] \in Subs /\ refs[table[u]] # q
      BY <1>0, <1>2, <2>2, InTable, ChainsDiffer
    <3> QED BY <1>6, <1>8, <2>2, <3>1, <3>2
  <2> QED BY <2>1, <2>2
<1>10. Types'
  <2>1. Worlds' /\ StreamTypes' /\ Hubs'
    BY <1>1 DEF Inv, Types, Worlds, StreamTypes, Hubs
  <2>2. Clients'
    BY <1>1, <1>2, <1>8 DEF Inv, Types, Clients
  <2> QED BY <1>5, <2>1, <2>2 DEF Types
<1>11. Chained' /\ Tabled' /\ Blank' /\ Sound'
  BY <1>1, <1>2 DEF Inv, Chained, Tabled, Blank, Sound
<1>12. Lives'
  BY <1>1, <1>2 DEF Inv, Lives, Live
<1>13. Viewing'
  <2> SUFFICES ASSUME NEW w \in Views
               PROVE  /\ vpc'[w] \notin {"idle", "done"} => watches[w] \in Tasks
                      /\ vpc'[w] \in Holding =>
                           /\ my'[w] \in Opened /\ of[my'[w]] = watches[w]
                           /\ ~closed /\ table[watches[w]] # 0 => refs[my'[w]] = refs[table[watches[w]]]
    BY <1>1, <1>2 DEF Viewing
  <2>1. CASE w = v
    BY <1>0, <1>2, <1>3, <1>4, <2>1
  <2>2. CASE w # v
    BY <1>4, <2>2 DEF Inv, Viewing
  <2> QED BY <2>1, <2>2
<1>14. Subscribed'
  BY <1>1, <1>4 DEF Inv, Subscribed, Types, Hubs
<1>15. NoLostChange'
  <2> SUFFICES ASSUME NEW w \in subscribers \ signal, vpc'[w] = "wait", table[watches[w]] # 0,
                      spc[table[watches[w]]] # "notify"
               PROVE  shown[w] >= page[table[watches[w]]]
    BY <1>1 DEF NoLostChange
  <2>1. w \in Views /\ w # v /\ vpc[w] = "wait"
    BY <1>4 DEF Inv, Types, Hubs
  <2> QED BY <2>1 DEF Inv, NoLostChange
<1>16. Bounded'
  <2>1. Roots' = Roots /\ Replacements' = Replacements /\ Failing' = Failing /\ faults' = faults
    BY <1>1, <1>2 DEF Roots, Replacements, Failing, Failed
  <2>2. Begun \subseteq Begun' /\ Begun' \subseteq Views
    BY <1>4 DEF Begun
  <2>3. Cardinality(Begun) <= Cardinality(Begun') /\ Cardinality(Begun') \in Nat
    BY <2>2, SizesAre, FS_Subset, FS_CardinalityType
  <2> QED BY <2>1, <2>3, BegunAre, FaultsStay DEF Bounded
<1> QED BY <1>9, <1>10, <1>11, <1>12, <1>13, <1>14, <1>15, <1>16 DEF Inv

(* A subscription is opened: the first of its task's chain by a view that   *)
(* attaches, or the replacement of a failed one by a view that attaches or  *)
(* reads, counted by the chain it continues.                                *)
Opens(v, t, r) ==
  /\ watches[v] = t /\ ~closed /\ Replace(t, r)
  /\ \/ r = 0 /\ table[t] = 0 /\ vpc[v] = "attach"
     \/ table[t] \in err /\ r = refs[table[t]] /\ vpc[v] \in {"attach", "refresh"}
  /\ vpc[v] = "attach" =>
       /\ count' = [count EXCEPT ![IF r = 0 THEN opened + 1 ELSE r] = IF r = 0 THEN 1 ELSE @ + 1]
       /\ Goto(v, "ready")
  /\ vpc[v] = "refresh" => UNCHANGED count /\ Goto(v, "recover")
  /\ my' = [my EXCEPT ![v] = opened + 1]
  /\ UNCHANGED <<scenario, world, closed, dropped, ready, err, page, hand, hub, watches, shown>>

LEMMA OpensKeeps ==
  ASSUME Inv, NEW v \in Views, NEW t \in Tasks, NEW r, Opens(v, t, r)
  PROVE  Inv'
<1>0. PICK n, q, old, l : /\ n = opened + 1 /\ q = (IF r = 0 THEN n ELSE r) /\ old = table[t]
                          /\ l = (IF vpc[v] = "attach" THEN "ready" ELSE "recover")
  OBVIOUS
<1>1. UNCHANGED <<scenario, native, faults, closed, dropped, ready, err, page, hand, hubClosed, subscribers, ended,
                  signal, watches, shown>>
  BY DEF Opens, world, hub
<1>2. /\ ~closed /\ watches[v] = t /\ vpc[v] \in {"attach", "refresh"}
      /\ \/ r = 0 /\ old = 0 /\ vpc[v] = "attach"
         \/ r # 0 /\ old # 0 /\ old \in err /\ r = refs[old]
  <2>1. 0 \notin err /\ \A u \in Tasks : table[u] # 0 => refs[table[u]] # 0
    BY SizesAre, InTable DEF Inv, Types, StreamTypes
  <2> QED BY <1>0, <2>1 DEF Opens
<1>3. n \in Subs /\ n \notin Opened /\ opened \in Nat /\ Opened \subseteq Subs
  <2>1. (\E w \in Views : vpc[w] = "attach") \/ (\E u \in Tasks : table[u] \in err)
    BY <1>0, <1>2
  <2>2. Opened \subseteq Subs
    BY DEF Inv, Types, Clients
  <2> QED BY <1>0, <2>1, <2>2, RoomToOpen
<1>4. opened' = n /\ Opened' = Opened \cup {n}
  BY <1>0, <1>3 DEF Opens, Replace, Opened
<1>5. /\ of' = [of EXCEPT ![n] = t] /\ refs' = [refs EXCEPT ![n] = q] /\ table' = [table EXCEPT ![t] = n]
      /\ spc' = [spc EXCEPT ![n] = "opening"] /\ cancelled' = (IF old = 0 THEN cancelled ELSE cancelled \cup {old})
  BY <1>0 DEF Opens, Replace
<1>6. q \in Opened \cup {n} /\ (r # 0 => q \in Opened /\ q # n /\ of[q] = t /\ refs[q] = q /\ old \in Opened /\ of[old] = t)
  <2>1. r # 0 => refs[old] \in Opened /\ of[refs[old]] = t /\ old \in Opened /\ of[old] = t
    BY <1>0, <1>2, InTable
  <2>2. r # 0 => refs[refs[old]] = refs[old]
    BY <2>1 DEF Inv, Chained
  <2> QED BY <1>0, <1>2, <1>3, <2>1, <2>2
<1>7. /\ of'[n] = t /\ refs'[n] = q /\ spc'[n] = "opening"
      /\ \A m \in Subs : m # n => of'[m] = of[m] /\ refs'[m] = refs[m] /\ spc'[m] = spc[m]
      /\ of' \in [Subs -> Tasks \cup {None}] /\ refs' \in [Subs -> {0} \cup Opened'] /\ spc' \in [Subs -> StreamSteps]
  BY <1>3, <1>4, <1>5, <1>6 DEF Inv, Types, Clients, StreamTypes, StreamSteps
<1>8. table'[t] = n /\ table' \in [Tasks -> {0} \cup Opened'] /\ \A u \in Tasks : u # t => table'[u] = table[u]
  BY <1>4, <1>5 DEF Inv, Types, Clients
<1>9. /\ cancelled' \subseteq Subs /\ cancelled \subseteq cancelled' /\ \A m \in cancelled' : m \in cancelled \/ (m = old /\ old # 0)
      /\ old # 0 => old \in cancelled'
  <2>1. cancelled \subseteq Subs /\ (old # 0 => old \in Subs)
    BY <1>2, <1>3, <1>6 DEF Inv, Types, StreamTypes
  <2>2. CASE old = 0
    BY <1>5, <2>1, <2>2
  <2>3. CASE old # 0
    BY <1>5, <2>1, <2>3
  <2> QED BY <2>2, <2>3
<1>10. /\ vpc'[v] = l /\ vpc' \in [Views -> ViewSteps] /\ \A w \in Views : w # v => vpc'[w] = vpc[w]
       /\ my'[v] = n /\ my' \in [Views -> {0} \cup Opened'] /\ \A w \in Views : w # v => my'[w] = my[w]
       /\ l \in Holding
  <2>1. Goto(v, l) /\ my' = [my EXCEPT ![v] = n]
    BY <1>0, <1>2 DEF Opens
  <2>2. l \in Holding /\ l \in ViewSteps
    BY <1>0 DEF Holding, ViewSteps
  <2> QED BY <1>4, <2>1, <2>2 DEF Goto, Inv, Types, ViewTypes
<1>11. OneView(v) /\ ViewTypes'
  BY <1>1, <1>10 DEF OneView, Inv, Types, ViewTypes
<1>12. \A u \in Tasks : table[u] # 0 => table[u] \in Opened /\ of[table[u]] = u /\ table[u] # n
  BY <1>3, InTable
<1>13. n \notin cancelled /\ n \notin dropped /\ n \notin err /\ page[n] = NoPage /\ hand[n] = NoPage
  BY <1>3 DEF Inv, Blank
(* The chains, the table and the streams.                                   *)
<1>14. Chained'
  <2> SUFFICES ASSUME NEW m \in Opened \cup {n}
               PROVE  /\ of'[m] \in Tasks /\ refs'[m] \in Opened \cup {n}
                      /\ refs'[refs'[m]] = refs'[m] /\ of'[refs'[m]] = of'[m]
    BY <1>4 DEF Chained
  <2>1. CASE m = n
    <3>1. CASE r = 0
      BY <1>0, <1>7, <2>1, <3>1
    <3>2. CASE r # 0
      <4>1. q \in Opened /\ q # n /\ of[q] = t /\ refs[q] = q /\ q \in Subs
        BY <1>3, <1>6, <3>2
      <4> QED BY <1>7, <2>1, <4>1
    <3> QED BY <3>1, <3>2
  <2>2. CASE m # n
    <3>1. of[m] \in Tasks /\ refs[m] \in Opened /\ refs[refs[m]] = refs[m] /\ of[refs[m]] = of[m] /\ m \in Subs
      BY <1>3, <2>2 DEF Inv, Chained
    <3>2. refs[m] # n /\ refs[m] \in Subs
      BY <1>3, <3>1
    <3> QED BY <1>7, <2>2, <3>1, <3>2
  <2> QED BY <2>1, <2>2
<1>15. Tabled'
  <2>1. \A u \in Tasks : table'[u] # 0 => of'[table'[u]] = u /\ table'[u] \notin dropped
    <3> SUFFICES ASSUME NEW u \in Tasks, table'[u] # 0 PROVE of'[table'[u]] = u /\ table'[u] \notin dropped
      OBVIOUS
    <3>1. CASE u = t
      BY <1>7, <1>8, <1>13, <3>1
    <3>2. CASE u # t
      <4>1. table'[u] = table[u] /\ table[u] # 0
        BY <1>8, <3>2
      <4> QED BY <1>3, <1>7, <1>12, <4>1, InTable
    <3> QED BY <3>1, <3>2
  <2> QED BY <1>1, <1>2, <2>1 DEF Tabled
<1>16. Blank'
  <2> SUFFICES ASSUME NEW m \in Subs \ Opened'
               PROVE  spc'[m] = "off" /\ m \notin cancelled' \cup dropped \cup err /\ page[m] = NoPage /\ hand[m] = NoPage
    BY <1>1 DEF Blank
  <2>1. m \in Subs \ Opened /\ m # n
    BY <1>4
  <2>2. spc[m] = "off" /\ m \notin cancelled \cup dropped \cup err /\ page[m] = NoPage /\ hand[m] = NoPage
    BY <2>1 DEF Inv, Blank
  <2>3. m \notin cancelled'
    BY <1>2, <1>6, <1>9, <2>1, <2>2
  <2> QED BY <1>7, <2>1, <2>2, <2>3
<1>17. Lives'
  <2> SUFFICES ASSUME NEW m \in Opened \cup {n} PROVE Live(m)'
    BY <1>4 DEF Lives
  <2>1. CASE m = n
    <3>1. native[t] \in Nat /\ NoPage <= native[t]
      BY SizesAre DEF Inv, Types, Worlds, NoPage
    <3> QED BY <1>1, <1>7, <1>8, <1>13, <2>1, <3>1 DEF Live
  <2>2. CASE m # n
    <3>1. Live(m) /\ of[m] \in Tasks /\ m \in Subs
      BY <1>3, <2>2 DEF Inv, Lives, Chained
    <3>2. of'[m] = of[m] /\ spc'[m] = spc[m]
      BY <1>7, <2>2, <3>1
    <3>3. m # 0
      BY <3>1, SizesAre
    <3>4. table[of[m]] = m => table'[of[m]] = m \/ m \in cancelled'
      BY <1>0, <1>8, <1>9, <3>1, <3>3
    <3> QED BY <1>1, <1>9, <3>1, <3>2, <3>4 DEF Live
  <2> QED BY <2>1, <2>2
<1>18. Sound'
  <2> SUFFICES ASSUME NEW u \in Tasks, table'[u] # 0
               PROVE  table'[u] \in cancelled' \/ spc'[table'[u]] = "done" => table'[u] \in err
    BY <1>1 DEF Sound
  <2>1. CASE u = t
    <3>1. n \notin cancelled'
      BY <1>2, <1>3, <1>6, <1>9, <1>13
    <3> QED BY <1>7, <1>8, <2>1, <3>1
  <2>2. CASE u # t
    <3>1. table'[u] = table[u] /\ table[u] # 0 /\ table[u] \in Subs /\ table[u] # n /\ of[table[u]] = u
      BY <1>3, <1>8, <1>12, <2>2
    <3>2. table[u] # old \/ old = 0
      BY <1>0, <1>12, <2>2, <3>1
    <3> QED BY <1>7, <1>9, <3>1, <3>2 DEF Inv, Sound
  <2> QED BY <2>1, <2>2
(* The holders and their count.                                             *)
<1>19. /\ r = 0 => Holders(t) = {}
       /\ \A u \in Tasks : u # t => Holders(u)' = Holders(u)
       /\ vpc[v] = "attach" => Holders(t)' = Holders(t) \cup {v} /\ v \notin Holders(t)
       /\ vpc[v] = "refresh" => Holders(t)' = Holders(t)
  <2>1. r = 0 => Cardinality(Holders(t)) = 0
    BY <1>0, <1>2 DEF Inv, RefsExact
  <2>2. r = 0 => Holders(t) = {}
    BY <2>1, HoldersAre, FS_EmptySet
  <2>3. watches'[v] = t
    BY <1>1, <1>2
  <2>4. v \in Holders(t) <=> vpc[v] \in Holding
    BY <1>2, HoldersAre
  <2>5. vpc[v] = "refresh" <=> vpc[v] \in Holding
    BY <1>2 DEF Holding
  <2> QED BY <1>2, <1>10, <1>11, <2>2, <2>3, <2>4, <2>5, HoldersMove, HoldersStay
<1>20. /\ count' \in [Subs -> 0..Cardinality(Views)] /\ \A m \in Subs : m # q => count'[m] = count[m]
       /\ count'[q] = Cardinality(Holders(t)')
  <2>1. q \in Subs /\ count \in [Subs -> 0..Cardinality(Views)]
    BY <1>3, <1>6 DEF Inv, Types, Clients
  <2>2. r # 0 => count[q] = Cardinality(Holders(t))
    BY <1>0, <1>2, InTable
  <2>3. CASE vpc[v] = "attach"
    <3>1. count' = [count EXCEPT ![q] = IF r = 0 THEN 1 ELSE @ + 1]
      BY <1>0, <2>3 DEF Opens
    <3>2. Cardinality(Holders(t) \cup {v}) = Cardinality(Holders(t)) + 1 /\ Cardinality(Holders(t)) \in Nat
      BY <1>19, <2>3, HoldersAre, FS_AddElement, FS_CardinalityType
    <3>3. Cardinality(Holders(t) \cup {v}) <= Cardinality(Views)
      <4>1. Holders(t) \cup {v} \subseteq Views
        BY HoldersAre
      <4> QED BY <4>1, SizesAre, FS_Subset
    <3>4. r = 0 => Cardinality(Holders(t)) = 0
      BY <1>19, FS_EmptySet
    <3>5. PICK c : c = (IF r = 0 THEN 1 ELSE count[q] + 1)
      OBVIOUS
    <3>6. c = Cardinality(Holders(t) \cup {v}) /\ c \in 0..Cardinality(Views)
      BY <2>2, <3>2, <3>3, <3>4, <3>5, SizesAre
    <3>7. count' = [count EXCEPT ![q] = c]
      BY <2>1, <3>1, <3>5
    <3>8. Holders(t)' = Holders(t) \cup {v}
      BY <1>19, <2>3
    <3> QED BY <2>1, <3>6, <3>7, <3>8
  <2>4. CASE vpc[v] = "refresh"
    <3>1. UNCHANGED count /\ r # 0 /\ Holders(t)' = Holders(t)
      BY <1>2, <1>19, <2>4 DEF Opens
    <3> QED BY <2>1, <2>2, <3>1
  <2> QED BY <1>2, <2>3, <2>4
<1>21. RefsExact'
  <2> SUFFICES ASSUME NEW u \in Tasks
               PROVE  Cardinality(Holders(u)') = IF table'[u] = 0 THEN 0 ELSE count'[refs'[table'[u]]]
    BY DEF RefsExact
  <2>1. CASE u = t
    <3>1. n # 0
      BY <1>3, SizesAre
    <3> QED BY <1>7, <1>8, <1>20, <2>1, <3>1
  <2>2. CASE u # t
    <3>1. Cardinality(Holders(u)) = IF table[u] = 0 THEN 0 ELSE count[refs[table[u]]]
      BY <1>2 DEF Inv, RefsExact
    <3>2. table'[u] = table[u] /\ Holders(u)' = Holders(u)
      BY <1>8, <1>19, <2>2
    <3>3. table[u] # 0 => refs'[table[u]] = refs[table[u]] /\ refs[table[u]] \in Subs /\ refs[table[u]] # q
      <4> SUFFICES ASSUME table[u] # 0
                   PROVE  refs'[table[u]] = refs[table[u]] /\ refs[table[u]] \in Subs /\ refs[table[u]] # q
        OBVIOUS
      <4>1. table[u] \in Opened /\ table[u] \in Subs /\ refs[table[u]] \in Opened /\ of[refs[table[u]]] = u
        BY InTable
      <4>2. q = n \/ of[q] = t
        BY <1>0, <1>6
      <4> QED BY <1>3, <1>7, <1>12, <2>2, <4>1, <4>2
    <3> QED BY <1>20, <3>1, <3>2, <3>3
  <2> QED BY <2>1, <2>2
<1>22. Viewing'
  <2> SUFFICES ASSUME NEW w \in Views
               PROVE  /\ vpc'[w] \notin {"idle", "done"} => watches[w] \in Tasks
                      /\ vpc'[w] \in Holding =>
                           /\ my'[w] \in Opened \cup {n} /\ of'[my'[w]] = watches[w]
                           /\ ~closed /\ table'[watches[w]] # 0 => refs'[my'[w]] = refs'[table'[watches[w]]]
    BY <1>1, <1>4 DEF Viewing
  <2>1. CASE w = v
    BY <1>2, <1>7, <1>8, <1>10, <2>1
  <2>2. CASE w # v
    <3>1. vpc'[w] = vpc[w] /\ my'[w] = my[w]
      BY <1>10, <2>2
    <3>2. vpc[w] \notin {"idle", "done"} => watches[w] \in Tasks
      BY DEF Inv, Viewing
    <3>3. ASSUME vpc[w] \in Holding
          PROVE  my[w] \in Opened /\ of'[my[w]] = watches[w]
                 /\ (table'[watches[w]] # 0 => refs'[my[w]] = refs'[table'[watches[w]]])
      <4>1. /\ my[w] \in Opened /\ of[my[w]] = watches[w] /\ watches[w] \in Tasks
            /\ table[watches[w]] # 0 => refs[my[w]] = refs[table[watches[w]]]
        BY <1>2, <3>2, <3>3 DEF Inv, Viewing, Holding
      <4>2. my[w] \in Subs /\ my[w] # n
        BY <1>3, <4>1
      <4>3. of'[my[w]] = of[my[w]] /\ refs'[my[w]] = refs[my[w]]
        BY <1>7, <4>2
      <4>4. CASE watches[w] = t
        <5>1. w \in Holders(t)
          BY <3>3, <4>4, HoldersAre
        <5>2. r # 0
          BY <1>19, <5>1
        <5>3. refs[my[w]] = q
          BY <1>0, <1>2, <4>1, <4>4, <5>2
        <5> QED BY <1>7, <1>8, <4>1, <4>3, <4>4, <5>3
      <4>5. CASE watches[w] # t
        <5>1. table'[watches[w]] = table[watches[w]]
          BY <1>8, <4>1, <4>5
        <5>2. table[watches[w]] # 0 => refs'[table[watches[w]]] = refs[table[watches[w]]]
          BY <1>3, <1>7, <1>12, <4>1
        <5> QED BY <4>1, <4>3, <5>1, <5>2
      <4> QED BY <4>4, <4>5
    <3> QED BY <3>1, <3>2, <3>3
  <2> QED BY <2>1, <2>2
<1>23. Subscribed'
  <2>1. l \notin {"idle", "done"}
    BY <1>0
  <2> QED BY <1>1, <1>10, <2>1 DEF Inv, Subscribed, Types, Hubs
<1>24. NoLostChange'
  <2> SUFFICES ASSUME NEW w \in subscribers \ signal, vpc'[w] = "wait", table'[watches[w]] # 0,
                      spc'[table'[watches[w]]] # "notify"
               PROVE  shown[w] >= page[table'[watches[w]]]
    BY <1>1 DEF NoLostChange
  <2>1. w \in Views /\ w # v /\ vpc[w] = "wait"
    BY <1>0, <1>10 DEF Inv, Types, Hubs
  <2>2. watches[w] \in Tasks /\ shown[w] \in Nat
    BY <2>1, ViewIs, SizesAre
  <2>3. CASE watches[w] = t
    BY <1>8, <1>13, <2>2, <2>3 DEF NoPage
  <2>4. CASE watches[w] # t
    <3>1. table'[watches[w]] = table[watches[w]] /\ table[watches[w]] # 0
      BY <1>8, <2>2, <2>4
    <3>2. spc'[table[watches[w]]] = spc[table[watches[w]]]
      BY <1>3, <1>7, <1>12, <2>2, <3>1
    <3> QED BY <2>1, <3>1, <3>2 DEF Inv, NoLostChange
  <2> QED BY <2>3, <2>4
<1>25. Bounded'
  <2>1. \A m \in Opened : m \in Subs /\ m # n /\ refs'[m] = refs[m]
    BY <1>3, <1>7
  <2>2. \A u \in Tasks : u # t => (u \in Failing' <=> u \in Failing)
    <3> SUFFICES ASSUME NEW u \in Tasks, u # t PROVE u \in Failing' <=> u \in Failing
      OBVIOUS
    <3>1. table'[u] = table[u]
      BY <1>8
    <3>2. table[u] # 0 => spc'[table[u]] = spc[table[u]]
      BY <1>3, <1>7, <1>12
    <3> QED BY <1>1, <3>1, <3>2 DEF Failing, Failed
  <2>3. t \notin Failing'
    BY <1>1, <1>7, <1>8, <1>13 DEF Failing, Failed
  <2>4. Failing' = Failing \ {t}
    BY <2>2, <2>3 DEF Failing
  <2>5. faults' = faults /\ faults \in Nat
    BY <1>1, FaultsStay
  <2>6. CASE r = 0
    <3>1. q = n /\ vpc[v] = "attach"
      BY <1>0, <1>2, <2>6
    <3>2. Roots' = Roots \cup {n} /\ n \notin Roots /\ Replacements' = Replacements
      BY <1>3, <1>4, <1>7, <2>1, <3>1 DEF Roots, Replacements
    <3>3. Begun' = Begun \cup {v} /\ v \notin Begun
      BY <1>0, <1>10, <3>1 DEF Begun
    <3>4. Cardinality(Roots') = Cardinality(Roots) + 1 /\ Cardinality(Begun') = Cardinality(Begun) + 1
      BY <3>2, <3>3, BegunAre, FS_AddElement
    <3>5. Cardinality(Failing') <= Cardinality(Failing) /\ Cardinality(Failing') \in Nat
      BY <2>4, BegunAre, FS_Subset, FS_CardinalityType
    <3> QED BY <2>5, <3>2, <3>4, <3>5, BegunAre DEF Bounded
  <2>7. CASE r # 0
    <3>1. t \in Failing
      BY <1>0, <1>2, <2>7 DEF Failing, Failed
    <3>2. Replacements' = Replacements \cup {n} /\ n \notin Replacements /\ Roots' = Roots
      BY <1>3, <1>4, <1>6, <1>7, <2>1, <2>7 DEF Roots, Replacements
    <3>3. Cardinality(Replacements') = Cardinality(Replacements) + 1
      BY <3>2, BegunAre, FS_AddElement
    <3>4. Cardinality(Failing') = Cardinality(Failing) - 1
      BY <2>4, <3>1, BegunAre, FS_RemoveElement
    <3>5. Begun \subseteq Begun' /\ Begun' \subseteq Views
      BY <1>0, <1>10 DEF Begun
    <3>6. Cardinality(Begun) <= Cardinality(Begun') /\ Cardinality(Begun') \in Nat
      BY <3>5, SizesAre, FS_Subset, FS_CardinalityType
    <3> QED BY <2>5, <3>2, <3>3, <3>4, <3>6, BegunAre DEF Bounded
  <2> QED BY <2>6, <2>7
<1>26. Types'
  <2>1. Worlds' /\ Hubs'
    BY <1>1 DEF Inv, Types, Worlds, Hubs
  <2>2. StreamTypes'
    BY <1>1, <1>7, <1>9 DEF Inv, Types, StreamTypes
  <2>3. Clients'
    <3>1. opened' \in Nat /\ Opened' \subseteq Subs
      BY <1>0, <1>3, <1>4
    <3> QED BY <1>1, <1>7, <1>8, <1>20, <3>1 DEF Inv, Types, Clients
  <2> QED BY <1>11, <2>1, <2>2, <2>3 DEF Types
<1> QED BY <1>14, <1>15, <1>16, <1>17, <1>18, <1>21, <1>22, <1>23, <1>24, <1>25, <1>26 DEF Inv

LEMMA AttachKeeps ==
  ASSUME Inv, NEW v \in Views, Attach(v), UNCHANGED scenario
  PROVE  Inv'
<1>0. PICK t, n : t = watches[v] /\ n = table[t]
  OBVIOUS
<1>1. vpc[v] = "attach" /\ UNCHANGED <<scenario, world, closed, dropped, ready, err, page, hand, hub, watches, shown>>
  BY DEF Attach
<1>2. t \in Tasks
  BY <1>0, <1>1, ViewIs
<1>3. CASE Goto(v, "unsubscribe") /\ UNCHANGED <<table, opened, of, refs, count, spc, cancelled, my>>
  BY <1>1, <1>3, AttachRefused DEF client, stream
<1>4. CASE /\ ~closed /\ n # 0 /\ n \notin err /\ count' = [count EXCEPT ![refs[n]] = @ + 1]
           /\ Goto(v, "ready") /\ my' = [my EXCEPT ![v] = n]
           /\ UNCHANGED <<table, opened, of, refs, spc, cancelled>>
  BY <1>0, <1>1, <1>4, AttachJoins DEF stream
<1>5. CASE /\ ~closed /\ n \in err /\ Replace(t, refs[n]) /\ count' = [count EXCEPT ![refs[n]] = @ + 1]
           /\ Goto(v, "ready") /\ my' = [my EXCEPT ![v] = opened + 1]
  <2>1. refs[n] # 0
    BY <1>0, <1>2, <1>5, SizesAre, InTable DEF Inv, Types, StreamTypes
  <2>2. Opens(v, t, refs[n])
    BY <1>0, <1>1, <1>5, <2>1 DEF Opens
  <2> QED BY <1>2, <2>2, OpensKeeps
<1>6. CASE /\ ~closed /\ n = 0 /\ Replace(t, 0) /\ count' = [count EXCEPT ![opened + 1] = 1]
           /\ Goto(v, "ready") /\ my' = [my EXCEPT ![v] = opened + 1]
  <2>1. Opens(v, t, 0)
    BY <1>0, <1>1, <1>6 DEF Opens
  <2> QED BY <1>2, <2>1, OpensKeeps
<1> QED BY <1>0, <1>3, <1>4, <1>5, <1>6 DEF Attach

LEMMA RefreshKeeps ==
  ASSUME Inv, NEW v \in Views, Refresh(v), UNCHANGED scenario
  PROVE  Inv'
<1>0. PICK t, n : t = watches[v] /\ n = table[t]
  OBVIOUS
<1>1. vpc[v] = "refresh" /\ UNCHANGED <<scenario, world, closed, count, dropped, ready, err, page, hand, hub, watches>>
  BY DEF Refresh
<1>2. t \in Tasks
  BY <1>0, <1>1, ViewIs
<1>3. CASE /\ Goto(v, "detach") \/ Goto(v, "fetch")
           /\ UNCHANGED <<table, opened, of, refs, spc, cancelled, my, shown>>
  <2>1. PICK l \in {"detach", "fetch"} : Goto(v, l)
    BY <1>3
  <2>2. UNCHANGED <<scenario, native, faults, client, stream, hubClosed, subscribers, ended, signal, watches, my, shown>>
    BY <1>1, <1>3 DEF world, client, stream, hub
  <2> QED BY <1>1, <2>1, <2>2, ViewTurns, ViewIs, FaultsStay
<1>4. CASE /\ ~closed /\ n \in err /\ Replace(t, refs[n])
           /\ Goto(v, "recover") /\ my' = [my EXCEPT ![v] = opened + 1] /\ UNCHANGED shown
  <2>1. Opens(v, t, refs[n])
    BY <1>0, <1>1, <1>4 DEF Opens
  <2> QED BY <1>2, <2>1, OpensKeeps
<1>5. CASE /\ n # 0 /\ Goto(v, "wait") /\ shown' = [shown EXCEPT ![v] = page[n]]
           /\ UNCHANGED <<table, opened, of, refs, spc, cancelled, my>>
  <2>1. UNCHANGED <<scenario, native, faults, client, stream, hubClosed, subscribers, ended, signal, watches, my>>
    BY <1>1, <1>5 DEF world, client, stream, hub
  <2>2. page[n] \in 0..MaxVersion /\ page[n] \in Nat
    BY <1>0, <1>2, <1>5, InTable, SizesAre DEF Inv, Types, StreamTypes
  <2>3. shown' \in [Views -> 0..MaxVersion] /\ shown'[v] = page[n] /\ \A w \in Views : w # v => shown'[w] = shown[w]
    BY <1>5, <2>2, ViewIs
  <2>4. shown'[v] >= page[table[watches[v]]]
    BY <1>0, <2>2, <2>3
  <2> QED BY <1>1, <1>5, <2>1, <2>3, <2>4, ViewTurns, ViewIs, FaultsStay
<1> QED BY <1>0, <1>3, <1>4, <1>5 DEF Refresh

-----------------------------------------------------------------------------
(* The native task, the hub and the client as a whole.                      *)
LEMMA NativeChangesKeeps ==
  ASSUME Inv, NEW t \in Tasks, NativeChanges(t), UNCHANGED scenario
  PROVE  Inv'
<1>1. /\ native[t] < scenario.version /\ native' = [native EXCEPT ![t] = @ + 1]
      /\ UNCHANGED <<scenario, faults, closed, table, opened, of, refs, count, dropped>>
      /\ UNCHANGED <<cancelled, ready, err, page, spc, hand, hubClosed, subscribers, ended, signal>>
      /\ UNCHANGED <<vpc, watches, my, shown>>
  BY DEF NativeChanges, client, stream, hub, view
<1>2. scenario.version \in 1..MaxVersion /\ native \in [Tasks -> 1..MaxVersion] /\ MaxVersion \in Nat
  BY ScenarioIs, SizesAre DEF Inv, Types, Worlds
<1>3. native' \in [Tasks -> 1..MaxVersion] /\ \A u \in Tasks : native[u] <= native'[u] /\ native[u] \in Nat /\ native'[u] \in Nat
  BY <1>1, <1>2
<1>4. Opened' = Opened
  BY <1>1 DEF Opened
<1>5. Types'
  <2>1. Worlds' /\ StreamTypes' /\ Hubs'
    BY <1>1, <1>3 DEF Inv, Types, Worlds, StreamTypes, Hubs
  <2>2. Clients' /\ ViewTypes'
    BY <1>1, <1>4 DEF Inv, Types, Clients, ViewTypes
  <2> QED BY <2>1, <2>2 DEF Types
<1>6. Lives'
  <2> SUFFICES ASSUME NEW n \in Opened PROVE Live(n)'
    BY <1>4 DEF Lives
  <2>1. Live(n) /\ of[n] \in Tasks /\ page[n] \in Nat /\ hand[n] \in Nat
    BY <1>2 DEF Inv, Lives, Chained, Types, Clients, StreamTypes
  <2>2. page[n] <= native'[of[n]] /\ hand[n] <= native'[of[n]]
    BY <1>3, <2>1 DEF Live
  <2> QED BY <1>1, <2>1, <2>2 DEF Live
<1>7. Chained' /\ Tabled' /\ Blank' /\ Sound' /\ Viewing' /\ Subscribed'
  BY <1>1, <1>4 DEF Inv, Chained, Tabled, Blank, Sound, Viewing, Subscribed
<1>8. RefsExact' /\ NoLostChange'
  BY <1>1 DEF Inv, RefsExact, Holders, NoLostChange
<1>9. Bounded'
  BY <1>1, <1>4 DEF Inv, Bounded, Roots, Replacements, Begun, Failing, Failed
<1> QED BY <1>5, <1>6, <1>7, <1>8, <1>9 DEF Inv

LEMMA HubEndsKeeps ==
  ASSUME Inv, NEW terminal \in BOOLEAN, HubEnds(terminal), UNCHANGED scenario
  PROVE  Inv'
<1>1. /\ hubClosed' = terminal /\ ended' = ended \cup subscribers /\ subscribers' = {}
      /\ UNCHANGED <<scenario, native, faults, closed, table, opened, of, refs, count, dropped>>
      /\ UNCHANGED <<cancelled, ready, err, page, spc, hand, signal, vpc, watches, my, shown>>
  BY DEF HubEnds, world, client, stream, view
<1>2. Opened' = Opened
  BY <1>1 DEF Opened
<1>3. Types'
  <2>1. Worlds' /\ StreamTypes' /\ Hubs'
    BY <1>1 DEF Inv, Types, Worlds, StreamTypes, Hubs
  <2>2. Clients' /\ ViewTypes'
    BY <1>1, <1>2 DEF Inv, Types, Clients, ViewTypes
  <2> QED BY <2>1, <2>2 DEF Types
<1>4. Chained' /\ Tabled' /\ Blank' /\ Sound' /\ Viewing' /\ Subscribed'
  BY <1>1, <1>2 DEF Inv, Chained, Tabled, Blank, Sound, Viewing, Subscribed
<1>5. Lives'
  BY <1>1, <1>2 DEF Inv, Lives, Live
<1>6. RefsExact' /\ NoLostChange'
  BY <1>1 DEF Inv, RefsExact, Holders, NoLostChange
<1>7. Bounded'
  BY <1>1, <1>2 DEF Inv, Bounded, Roots, Replacements, Begun, Failing, Failed
<1> QED BY <1>3, <1>4, <1>5, <1>6, <1>7 DEF Inv

LEMMA CloseKeeps ==
  ASSUME Inv, Close, UNCHANGED scenario
  PROVE  Inv'
<1>1. /\ closed' = TRUE /\ table' = [t \in Tasks |-> 0] /\ dropped' = dropped \cup ({table[t] : t \in Tasks} \ {0})
      /\ UNCHANGED <<scenario, native, faults, opened, of, refs, count, hubClosed, subscribers, ended, signal>>
      /\ UNCHANGED <<cancelled, ready, err, page, spc, hand, vpc, watches, my, shown>>
  BY DEF Close, world, stream, hub, view
<1>2. Opened' = Opened
  BY <1>1 DEF Opened
<1>3. \A t \in Tasks : table'[t] = 0
  BY <1>1
<1>4. dropped' \subseteq dropped \cup Opened /\ Opened \subseteq Subs /\ dropped \subseteq Subs
  BY <1>1 DEF Inv, Types, Clients
<1>5. Types'
  <2>1. Worlds' /\ StreamTypes' /\ Hubs'
    BY <1>1 DEF Inv, Types, Worlds, StreamTypes, Hubs
  <2>2. ViewTypes'
    BY <1>1, <1>2 DEF Inv, Types, ViewTypes
  <2>3. Clients'
    BY <1>1, <1>2, <1>4 DEF Inv, Types, Clients
  <2> QED BY <2>1, <2>2, <2>3 DEF Types
<1>6. Chained' /\ Tabled' /\ Sound' /\ Viewing' /\ Subscribed'
  BY <1>1, <1>2, <1>3 DEF Inv, Chained, Tabled, Sound, Viewing, Subscribed
<1>7. Blank'
  BY <1>1, <1>2, <1>4 DEF Inv, Blank
<1>8. Lives'
  <2> SUFFICES ASSUME NEW n \in Opened PROVE Live(n)'
    BY <1>2 DEF Lives
  <2>1. Live(n) /\ of[n] \in Tasks /\ n # 0
    BY <1>4, SizesAre DEF Inv, Lives, Chained
  <2>2. table[of[n]] = n => n \in dropped'
    BY <1>1, <2>1
  <2> QED BY <1>1, <2>1, <2>2 DEF Live
<1>9. RefsExact'
  BY <1>1 DEF RefsExact
<1>10. NoLostChange'
  <2>1. \A v \in subscribers : watches[v] \in Tasks
    BY DEF Inv, Subscribed, Viewing, Types, Hubs
  <2> QED BY <1>1, <1>3, <2>1 DEF NoLostChange
<1>11. Bounded'
  <2>1. Roots' = Roots /\ Replacements' = Replacements /\ Begun' = Begun /\ faults' = faults
    BY <1>1, <1>2 DEF Roots, Replacements, Begun
  <2>2. Failing' = {}
    BY <1>3 DEF Failing
  <2>3. Cardinality(Failing') = 0
    BY <2>2, FS_EmptySet
  <2> QED BY <2>1, <2>3, BegunAre, FaultsStay DEF Bounded
<1> QED BY <1>5, <1>6, <1>7, <1>8, <1>9, <1>10, <1>11 DEF Inv

-----------------------------------------------------------------------------
LEMMA InitInv ==
  ASSUME Init
  PROVE  Inv
<1>1. /\ scenario \in Scenarios /\ scenario.version \in 1..MaxVersion /\ scenario.faults \in 0..MaxFaults
      /\ MaxVersion \in Nat /\ MaxFaults \in Nat /\ Cardinality(Views) \in Nat
  BY ScenarioIs, SizesAre DEF Init
<1>2. Opened = {}
  BY DEF Init, Opened
<1>3. Types
  <2>0. 1 \in 1..MaxVersion /\ 0 \in 0..scenario.faults /\ 0 \in 0..MaxVersion /\ 0 \in 0..Cardinality(Views)
        /\ 0 \in Nat
    BY <1>1
  <2>1. Worlds /\ Hubs
    <3>1. native = [t \in Tasks |-> 1] /\ faults = 0
      BY DEF Init
    <3>2. Hubs
      BY DEF Init, Hubs
    <3> QED BY <1>1, <2>0, <3>1, <3>2 DEF Worlds
  <2>2. Clients /\ ViewTypes
    <3>1. Clients
      <4>1. opened = 0 /\ closed = FALSE /\ Opened \subseteq Subs /\ dropped \subseteq Subs
        BY <1>2 DEF Init
      <4>2. /\ table = [t \in Tasks |-> 0] /\ of = [n \in Subs |-> None] /\ refs = [n \in Subs |-> 0]
            /\ count = [n \in Subs |-> 0]
        BY DEF Init
      <4> QED BY <2>0, <4>1, <4>2 DEF Clients
    <3>2. ViewTypes
      BY <2>0 DEF Init, ViewTypes, ViewSteps, NoPage
    <3> QED BY <3>1, <3>2
  <2>3. StreamTypes
    BY <1>1 DEF Init, StreamTypes, StreamSteps, NoPage
  <2> QED BY <2>1, <2>2, <2>3 DEF Types
<1>4. Chained /\ Tabled /\ Blank /\ Lives /\ Sound
  BY <1>2 DEF Init, Chained, Tabled, Blank, Lives, Sound
<1>5. Viewing /\ Subscribed /\ NoLostChange
  BY DEF Init, Viewing, Subscribed, NoLostChange, Holding
<1>6. RefsExact
  <2>1. \A t \in Tasks : Holders(t) = {}
    BY DEF Init, Holders
  <2> QED BY <2>1, FS_EmptySet DEF Init, RefsExact
<1>7. Bounded
  <2>1. Roots = {} /\ Replacements = {} /\ Begun = {} /\ Failing = {}
    BY <1>2 DEF Init, Roots, Replacements, Begun, Failing
  <2>2. Cardinality({}) = 0
    BY FS_EmptySet
  <2>3. faults = 0
    BY DEF Init
  <2> QED BY <2>1, <2>2, <2>3 DEF Bounded
<1> QED BY <1>3, <1>4, <1>5, <1>6, <1>7 DEF Inv

LEMMA Stutters ==
  ASSUME Inv, UNCHANGED vars
  PROVE  Inv'
<1>1. /\ UNCHANGED <<scenario, native, faults, closed, table, opened, of, refs, count, dropped>>
      /\ UNCHANGED <<cancelled, ready, err, page, spc, hand, hubClosed, subscribers, ended, signal>>
      /\ UNCHANGED <<vpc, watches, my, shown>>
  BY DEF vars, world, client, stream, hub, view
<1>2. Opened' = Opened
  BY <1>1 DEF Opened
<1>3. Types'
  <2>1. Worlds' /\ StreamTypes' /\ Hubs'
    BY <1>1 DEF Inv, Types, Worlds, StreamTypes, Hubs
  <2>2. Clients' /\ ViewTypes'
    BY <1>1, <1>2 DEF Inv, Types, Clients, ViewTypes
  <2> QED BY <2>1, <2>2 DEF Types
<1>4. Chained' /\ Tabled' /\ Blank' /\ Sound' /\ Viewing' /\ Subscribed'
  BY <1>1, <1>2 DEF Inv, Chained, Tabled, Blank, Sound, Viewing, Subscribed
<1>5. Lives'
  BY <1>1, <1>2 DEF Inv, Lives, Live
<1>6. RefsExact' /\ NoLostChange'
  BY <1>1 DEF Inv, RefsExact, Holders, NoLostChange
<1>7. Bounded'
  BY <1>1, <1>2 DEF Inv, Bounded, Roots, Replacements, Begun, Failing, Failed
<1> QED BY <1>3, <1>4, <1>5, <1>6, <1>7 DEF Inv

LEMMA StepInv ==
  ASSUME Inv, [Next]_vars
  PROVE  Inv'
<1>1. CASE UNCHANGED vars
  BY <1>1, Stutters
<1>2. CASE Step /\ UNCHANGED scenario
  <2>0. scenario.views \subseteq Views /\ scenario.tasks \subseteq Tasks
    BY ScenarioIs DEF Inv, Types, Worlds
  <2>1. ASSUME NEW v \in Views, ViewStep(v) \/ FetchFails(v) \/ Leaves(v)
        PROVE  Inv'
    BY <1>2, <2>1, AttachKeeps, UnrefKeeps, RefreshKeeps, FetchKeeps, DetachKeeps, UnsubscribeKeeps, ViewMovesOn
       DEF ViewStep
  <2>2. ASSUME NEW v \in Views, NEW t \in Tasks, Subscribe(v, t)
        PROVE  Inv'
    BY <1>2, <2>2, SubscribeKeeps
  <2>3. ASSUME NEW n \in Subs, StreamStep(n) \/ Break(n)
        PROVE  Inv'
    BY <1>2, <2>3, CancelKeeps, OpenKeeps, OpenFailsKeeps, RefusedKeeps, AnnounceKeeps, AdmitKeeps, ReadyKeeps,
       ReceiveKeeps, PublishKeeps, NotifyViewKeeps, BrokenKeeps, BreakKeeps
       DEF StreamStep
  <2>4. CASE \/ \E t \in Tasks : NativeChanges(t)
             \/ \E terminal \in BOOLEAN : HubEnds(terminal)
             \/ Close
    BY <1>2, <2>4, NativeChangesKeeps, HubEndsKeeps, CloseKeeps
  <2> QED BY <1>2, <2>0, <2>1, <2>2, <2>3, <2>4 DEF Step
<1> QED BY <1>1, <1>2 DEF Next

LEMMA InvHolds == Spec => []Inv
<1>1. Init => Inv
  BY InitInv
<1>2. Inv /\ [Next]_vars => Inv'
  BY StepInv
<1> QED BY <1>1, <1>2, PTL DEF Spec

(* Every stream has its holders and every holder its stream                 *)
(* (createdtaskclient.go Attach, Read, releaseTaskReference): until the     *)
(* client is closed the count of a task is the number of views that hold or *)
(* await it, through any replacements of failed streams; only the           *)
(* subscription in the table keeps a stream that is not being cancelled;    *)
(* and a stream that ended in the table has recorded its failure.           *)
THEOREM StreamsHaveTheirHolders == Spec => []StreamsOwned
<1>1. Inv => StreamsOwned
  <2> SUFFICES ASSUME Inv PROVE StreamsOwned
    OBVIOUS
  <2>1. Opened \subseteq Subs /\ opened \in Nat /\ {0} \cup Opened = 0..opened
    BY DEF Inv, Types, Clients, Opened
  <2>2. TypeOK
    <3>1. opened \in {0} \cup Subs
      BY <2>1 DEF Opened
    <3>2. scenario.faults \in 0..MaxFaults
      BY ScenarioIs DEF Inv, Types, Worlds
    <3>3. faults \in 0..MaxFaults
      BY <3>2, SizesAre DEF Inv, Types, Worlds
    <3>4. scenario \in Scenarios /\ native \in [Tasks -> 1..MaxVersion]
      BY DEF Inv, Types, Worlds
    <3>5. /\ closed \in BOOLEAN /\ table \in [Tasks -> 0..opened] /\ of \in [Subs -> Tasks \cup {None}]
          /\ refs \in [Subs -> 0..opened] /\ count \in [Subs -> 0..Cardinality(Views)] /\ dropped \subseteq Subs
      BY <2>1, Zenon DEF Inv, Types, Clients
    <3>6. /\ cancelled \subseteq Subs /\ err \subseteq Subs /\ ready \in [Subs -> {None, "ok", "error"}]
          /\ page \in [Subs -> 0..MaxVersion] /\ hand \in [Subs -> 0..MaxVersion] /\ spc \in [Subs -> StreamSteps]
      BY DEF Inv, Types, StreamTypes
    <3>7. hubClosed \in BOOLEAN /\ subscribers \subseteq Views /\ ended \subseteq Views /\ signal \subseteq Views
      BY DEF Inv, Types, Hubs
    <3>8. /\ vpc \in [Views -> ViewSteps] /\ watches \in [Views -> Tasks \cup {None}]
          /\ my \in [Views -> 0..opened] /\ shown \in [Views -> 0..MaxVersion]
      BY <2>1, Zenon DEF Inv, Types, ViewTypes
    <3> QED BY <3>1, <3>3, <3>4, <3>5, <3>6, <3>7, <3>8 DEF TypeOK, StreamSteps, ViewSteps
  <2>3. NoOrphanStream
    BY DEF NoOrphanStream, Inv, Lives, Live, Streaming, Opened
  <2>4. DeadStreamReported
    BY DEF DeadStreamReported, Inv, Sound
  <2> QED BY <2>2, <2>3, <2>4 DEF StreamsOwned, Inv
<1> QED BY <1>1, InvHolds, PTL

(* No sleeping view misses a page (events.go Changed, stream.go): whoever   *)
(* waits without a signal has been shown at least the page its stream has   *)
(* kept, unless the stream is about to signal it.                           *)
THEOREM SleepersMissNothing == Spec => []NoLostChange
<1>1. Inv => NoLostChange
  BY DEF Inv
<1> QED BY <1>1, InvHolds, PTL
==============================================================================
