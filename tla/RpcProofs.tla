------------------------------ MODULE RpcProofs ------------------------------
(***************************************************************************)
(* Proofs about Rpc, for any calls, sizes and bounds: no call is lost      *)
(* track of (RequestsAccounted), and no expired input is written.          *)
(***************************************************************************)
EXTENDS Rpc, FiniteSetTheorems, SequenceTheorems, TLAPS

(* A call that may still be answered has an empty reply channel: it is      *)
(* registered, or the reader has just taken it.                             *)
OneReply ==
  /\ \A c \in Procs : c \in pending \/ current[Reader] = c => reply[c] = << >>
  /\ current[Reader] \notin pending

(* A write is accounted for until its outcome is published.                 *)
OneResult ==
  \A c \in Procs : /\ c \in writes <=> state[c] \in {"queued", "writing"}
                   /\ c \in writes \/ state[c] = None => result[c] = << >>

(* Who is registered or queued still waits, and a queued request is         *)
(* registered.                                                              *)
StillWaits ==
  /\ \A c \in pending : pc[c] \in {"wait", "expire"}
  /\ \A c \in Procs : state[c] = "queued" => pc[c] \in {"wait", "expire"} /\ (c \in Requests => c \in pending)
  /\ \A c \in Procs : pc[c] = "idle" => state[c] = None /\ reply[c] = << >>
  /\ \A c \in received : state[c] \notin {None, "queued"}

(* What the loops have in hand.                                             *)
Hands ==
  /\ pc[Writer] \in {"expire", "write", "written"} => current[Writer] \in Procs
  /\ pc[Writer] \in {"loop", "sleep"} => current[Writer] = None
  /\ current[Writer] \in Procs => state[current[Writer]] # None
  /\ current[Writer] \in Procs /\ pc[Writer] # "expire" => state[current[Writer]] # "queued"
  /\ IF pc[Reader] = "deliver" THEN current[Reader] \in received ELSE current[Reader] = None

QueueDistinct == \A i, j \in 1..Len(queue) : queue[i] = queue[j] => i = j

(* One closer, and one run of the closed handler.                           *)
OneClose ==
  /\ ~closed => called = 0 /\ \A a \in Actors : pc[a] # "closing"
  /\ \A a, b \in Actors : pc[a] = "closing" /\ pc[b] = "closing" => a = b
  /\ captured => handler
  /\ called = 1 => handler
  /\ captured /\ called = 1 => \A a \in Actors : pc[a] # "closing"

UncertainCloses == \A c \in uncertain : pc[c] = "close" \/ closed

Finite == IsFiniteSet(writes) /\ IsFiniteSet(pending)

Inv == /\ TypeOK /\ OneReply /\ OneResult /\ StillWaits /\ Hands /\ QueueDistinct /\ QueueTrue
       /\ OneClose /\ UncertainCloses /\ NoLostWakeup /\ Finite /\ Balanced

-----------------------------------------------------------------------------
LEMMA Distinct ==
  /\ \A c \in Procs : c \in Actors /\ c # Writer /\ c # Reader /\ c # Owner /\ c # None
  /\ Writer \in Actors /\ Reader \in Actors /\ Owner \in Actors
  /\ Writer # Reader /\ Writer # Owner /\ Reader # Owner
  /\ \A c \in Requests : c \in Procs
  /\ None \notin {"queued", "writing", "written", "cancelled"}
  BY RpcAssumption DEF Actors, Procs, Writer, Reader, Owner, None

-----------------------------------------------------------------------------
(* The queue as a set of distinct writes.                                   *)
InQueue(q, c) == \E i \in 1..Len(q) : q[i] = c
DistinctIn(q) == \A i, j \in 1..Len(q) : q[i] = q[j] => i = j

LEMMA QueueAppend ==
  ASSUME NEW q \in Seq(Procs), NEW c \in Procs, DistinctIn(q), ~InQueue(q, c)
  PROVE  /\ Append(q, c) \in Seq(Procs) /\ DistinctIn(Append(q, c))
         /\ \A d \in Procs : InQueue(Append(q, c), d) <=> d = c \/ InQueue(q, d)
<1> DEFINE r == Append(q, c)
<1>1. /\ r \in Seq(Procs) /\ Len(q) \in Nat /\ Len(r) = Len(q) + 1
      /\ \A i \in 1..Len(q) : r[i] = q[i]
      /\ r[Len(q) + 1] = c
  BY AppendProperties
<1> HIDE DEF r
<1>2. DistinctIn(r)
  BY <1>1 DEF DistinctIn, InQueue
<1>3. ASSUME NEW d \in Procs PROVE InQueue(r, d) <=> d = c \/ InQueue(q, d)
  <2>1. ASSUME InQueue(r, d), d # c PROVE InQueue(q, d)
    BY <1>1, <2>1 DEF InQueue
  <2>2. ASSUME InQueue(q, d) PROVE InQueue(r, d)
    <3>1. PICK i \in 1..Len(q) : q[i] = d
      BY <2>2 DEF InQueue
    <3>2. i \in 1..Len(r) /\ r[i] = d
      BY <1>1, <3>1
    <3> QED BY <3>2 DEF InQueue
  <2>3. Len(r) \in 1..Len(r) /\ r[Len(r)] = c
    BY <1>1
  <2> QED BY <2>1, <2>2, <2>3 DEF InQueue
<1> QED BY <1>1, <1>2, <1>3 DEF r

LEMMA QueueTail ==
  ASSUME NEW q \in Seq(Procs), DistinctIn(q), q # << >>
  PROVE  /\ Head(q) \in Procs /\ Tail(q) \in Seq(Procs) /\ DistinctIn(Tail(q))
         /\ InQueue(q, Head(q))
         /\ \A d \in Procs : InQueue(Tail(q), d) <=> d # Head(q) /\ InQueue(q, d)
<1> DEFINE r == Tail(q)
<1>1. /\ r \in Seq(Procs) /\ Len(q) \in Nat \ {0} /\ Len(r) = Len(q) - 1 /\ Head(q) = q[1] /\ Head(q) \in Procs
      /\ \A i \in 1..Len(r) : r[i] = q[i + 1]
  OBVIOUS
<1> HIDE DEF r
<1>2. DistinctIn(r)
  BY <1>1 DEF DistinctIn
<1>3. ASSUME NEW d \in Procs PROVE InQueue(r, d) <=> d # Head(q) /\ InQueue(q, d)
  <2>1. ASSUME InQueue(r, d) PROVE d # Head(q) /\ InQueue(q, d)
    <3>1. PICK i \in 1..Len(r) : r[i] = d
      BY <2>1 DEF InQueue
    <3>2. i + 1 \in 1..Len(q) /\ q[i + 1] = d /\ i + 1 # 1 /\ 1 \in 1..Len(q)
      BY <1>1, <3>1
    <3> QED BY <1>1, <3>2 DEF InQueue, DistinctIn
  <2>2. ASSUME d # Head(q), InQueue(q, d) PROVE InQueue(r, d)
    <3>1. PICK i \in 1..Len(q) : q[i] = d
      BY <2>2 DEF InQueue
    <3>2. i - 1 \in 1..Len(r) /\ r[i - 1] = d
      BY <1>1, <2>2, <3>1
    <3> QED BY <3>2 DEF InQueue
  <2> QED BY <2>1, <2>2
<1>4. InQueue(q, Head(q))
  BY <1>1 DEF InQueue
<1> QED BY <1>1, <1>2, <1>3, <1>4 DEF r

LEMMA QueueRemove ==
  ASSUME NEW c \in Procs, queue \in Seq(Procs), DistinctIn(queue), LeavesQueue(c)
  PROVE  /\ queue' \in Seq(Procs) /\ DistinctIn(queue')
         /\ \A d \in Procs : InQueue(queue', d) <=> d # c /\ InQueue(queue, d)
<1>1. CASE (\A i \in 1..Len(queue) : queue[i] # c) /\ UNCHANGED queue
  BY <1>1 DEF InQueue, DistinctIn
<1>2. ASSUME NEW k \in 1..Len(queue), queue[k] = c,
             queue' = SubSeq(queue, 1, k - 1) \o SubSeq(queue, k + 1, Len(queue))
      PROVE  /\ queue' \in Seq(Procs) /\ DistinctIn(queue')
             /\ \A d \in Procs : InQueue(queue', d) <=> d # c /\ InQueue(queue, d)
  <2> DEFINE q == queue
             r == queue'
             s == SubSeq(q, 1, k - 1)
             t == SubSeq(q, k + 1, Len(q))
  <2>1. Len(q) \in Nat /\ k \in Nat /\ k >= 1 /\ k <= Len(q) /\ \A i \in 1..Len(q) : q[i] \in Procs
    OBVIOUS
  <2>2. s \in Seq(Procs) /\ Len(s) = k - 1 /\ \A i \in 1..(k - 1) : s[i] = q[i]
    BY <2>1, SubSeqProperties
  <2>3. t \in Seq(Procs) /\ Len(t) = Len(q) - k /\ \A i \in 1..(Len(q) - k) : t[i] = q[k + i]
    BY <2>1, SubSeqProperties
  <2>4. r \in Seq(Procs) /\ Len(r) = Len(q) - 1
    <3> HIDE DEF s, t
    <3>1. r = s \o t
      BY <1>2 DEF s, t
    <3>2. r \in Seq(Procs) /\ Len(r) = Len(s) + Len(t)
      BY <2>2, <2>3, <3>1, ConcatProperties
    <3> QED BY <2>1, <2>2, <2>3, <3>2
  <2>5. \A i \in 1..Len(r) : r[i] = IF i < k THEN q[i] ELSE q[i + 1]
    <3> HIDE DEF s, t
    <3>1. r = s \o t
      BY <1>2 DEF s, t
    <3>2. \A i \in 1..(Len(s) + Len(t)) : r[i] = IF i <= Len(s) THEN s[i] ELSE t[i - Len(s)]
      BY <2>2, <2>3, <3>1, ConcatProperties
    <3> HIDE DEF r
    <3> SUFFICES ASSUME NEW i \in 1..Len(r) PROVE r[i] = IF i < k THEN q[i] ELSE q[i + 1]
      OBVIOUS
    <3>3. i \in 1..(Len(s) + Len(t)) /\ Len(s) = k - 1 /\ k \in Nat /\ i \in Nat
      BY <2>1, <2>2, <2>3, <2>4
    <3>4. CASE i < k
      <4>1. i \in 1..(k - 1) /\ i <= Len(s)
        BY <3>3, <3>4
      <4> QED BY <2>2, <3>2, <3>3, <3>4, <4>1
    <3>5. CASE ~(i < k)
      <4>1. ~(i <= Len(s)) /\ i - Len(s) \in 1..(Len(q) - k) /\ k + (i - Len(s)) = i + 1
        BY <2>1, <2>4, <3>3, <3>5
      <4> QED BY <2>3, <3>2, <3>3, <3>5, <4>1
    <3> QED BY <3>4, <3>5
  <2> HIDE DEF s, t, r
  <2>6. DistinctIn(r)
    <3> DEFINE up(x) == IF x < k THEN x ELSE x + 1
    <3> SUFFICES ASSUME NEW i \in 1..Len(r), NEW j \in 1..Len(r), r[i] = r[j] PROVE i = j
      BY DEF DistinctIn
    <3>1. up(i) \in 1..Len(q) /\ up(j) \in 1..Len(q)
      BY <2>1, <2>4
    <3>2. r[i] = q[up(i)] /\ r[j] = q[up(j)]
      BY <2>5
    <3>3. up(i) = up(j)
      BY <3>1, <3>2 DEF DistinctIn
    <3> QED BY <2>1, <2>4, <3>3
  <2>7. ASSUME NEW d \in Procs PROVE InQueue(r, d) <=> d # c /\ InQueue(q, d)
    <3>1. ASSUME InQueue(r, d) PROVE d # c /\ InQueue(q, d)
      <4>1. PICK i \in 1..Len(r) : r[i] = d
        BY <3>1 DEF InQueue
      <4>2. CASE i < k
        BY <1>2, <2>1, <2>4, <2>5, <4>1, <4>2 DEF InQueue, DistinctIn
      <4>3. CASE ~(i < k)
        <5>1. i + 1 \in 1..Len(q) /\ q[i + 1] = d /\ i + 1 # k
          BY <2>1, <2>4, <2>5, <4>1, <4>3
        <5> QED BY <1>2, <5>1 DEF InQueue, DistinctIn
      <4> QED BY <4>2, <4>3
    <3>2. ASSUME d # c, InQueue(q, d) PROVE InQueue(r, d)
      <4>1. PICK i \in 1..Len(q) : q[i] = d
        BY <3>2 DEF InQueue
      <4>2. CASE i < k
        BY <2>1, <2>4, <2>5, <4>1, <4>2 DEF InQueue
      <4>3. CASE ~(i < k)
        <5>1. i # k
          BY <1>2, <3>2, <4>1
        <5>2. i - 1 \in 1..Len(r) /\ r[i - 1] = d
          BY <2>1, <2>4, <2>5, <4>1, <4>3, <5>1
        <5> QED BY <5>2 DEF InQueue
      <4> QED BY <4>2, <4>3
    <3> QED BY <3>1, <3>2
  <2> QED BY <2>4, <2>6, <2>7 DEF r
<1> QED BY <1>1, <1>2 DEF LeavesQueue

-----------------------------------------------------------------------------
(* A list of the writes in W, once each, with a running total of their      *)
(* sizes that ends in b.                                                    *)
Listing(W, b, n, order, total) ==
  /\ \A c \in W : \E i \in 1..n : order[i] = c
  /\ \A i, j \in 1..n : order[i] = order[j] => i = j
  /\ total[0] = 0 /\ total[n] = b
  /\ \A i \in 1..n : total[i] = total[i - 1] + Size[order[i]]
  /\ \A i, j \in 0..n : i <= j => total[i] <= total[j]
Adds(W, b) ==
  \E order \in [1..Cardinality(W) -> W], total \in [0..Cardinality(W) -> 0..b] :
    Listing(W, b, Cardinality(W), order, total)

LEMMA AddsNothing == Adds({}, 0)
<1> DEFINE order == [i \in 1..0 |-> None]
           total == [i \in 0..0 |-> 0]
<1>1. Cardinality({}) = 0
  BY FS_EmptySet
<1>2. order \in [1..0 -> {}] /\ total \in [0..0 -> 0..0]
  OBVIOUS
<1>3. Listing({}, 0, 0, order, total)
  BY DEF Listing
<1> QED BY <1>1, <1>2, <1>3 DEF Adds

LEMMA AddsOne ==
  ASSUME NEW W \in SUBSET Procs, IsFiniteSet(W), NEW b \in Nat, NEW c \in Procs \ W, Adds(W, b)
  PROVE  Adds(W \cup {c}, b + Size[c])
<1> DEFINE n == Cardinality(W)
           m == b + Size[c]
<1>1. n \in Nat /\ Cardinality(W \cup {c}) = n + 1 /\ Size[c] \in Nat
  BY FS_AddElement, FS_CardinalityType, RpcAssumption
<1>2. PICK order \in [1..n -> W], total \in [0..n -> 0..b] : Listing(W, b, n, order, total)
  BY DEF Adds
<1> HIDE DEF n
<1> DEFINE more == [i \in 1..(n + 1) |-> IF i = n + 1 THEN c ELSE order[i]]
           sums == [i \in 0..(n + 1) |-> IF i = n + 1 THEN m ELSE total[i]]
<1>3. more \in [1..(n + 1) -> W \cup {c}]
  BY <1>1, <1>2
<1>4. sums \in [0..(n + 1) -> 0..m]
  BY <1>1, <1>2
<1>5. \A d \in W \cup {c} : \E i \in 1..(n + 1) : more[i] = d
  <2>1. ASSUME NEW d \in W PROVE \E i \in 1..(n + 1) : more[i] = d
    <3>1. PICK i \in 1..n : order[i] = d
      BY <1>2, <2>1 DEF Listing
    <3> QED BY <1>1, <3>1
  <2>2. n + 1 \in 1..(n + 1) /\ more[n + 1] = c
    BY <1>1
  <2> QED BY <2>1, <2>2
<1>6. \A i, j \in 1..(n + 1) : more[i] = more[j] => i = j
  <2>1. \A i \in 1..n : order[i] # c
    BY <1>2
  <2>2. \A i, j \in 1..n : order[i] = order[j] => i = j
    BY <1>2 DEF Listing
  <2> QED BY <1>1, <2>1, <2>2
<1>7. sums[0] = 0 /\ sums[n + 1] = m
  BY <1>1, <1>2 DEF Listing
<1>8. \A i \in 1..(n + 1) : sums[i] = sums[i - 1] + Size[more[i]]
  BY <1>1, <1>2 DEF Listing
<1>9. \A i, j \in 0..(n + 1) : i <= j => sums[i] <= sums[j]
  BY <1>1, <1>2 DEF Listing
<1>10. Listing(W \cup {c}, m, n + 1, more, sums)
  <2> HIDE DEF more, sums, m
  <2> QED BY <1>5, <1>6, <1>7, <1>8, <1>9 DEF Listing
<1>11. Adds(W \cup {c}, m)
  <2> HIDE DEF more, sums, m
  <2> QED BY <1>1, <1>3, <1>4, <1>10 DEF Adds
<1> QED BY <1>11

LEMMA AddsLess ==
  ASSUME NEW W \in SUBSET Procs, IsFiniteSet(W), NEW b \in Nat, NEW c \in W, Adds(W, b)
  PROVE  Size[c] <= b /\ b - Size[c] \in Nat /\ Adds(W \ {c}, b - Size[c])
<1> DEFINE n == Cardinality(W)
           m == b - Size[c]
           V == W \ {c}
<1>1. n \in Nat /\ Cardinality(V) = n - 1 /\ Size \in [Procs -> Nat] /\ Size[c] \in Nat
  BY FS_RemoveElement, FS_CardinalityType, RpcAssumption
<1>2. PICK order \in [1..n -> W], total \in [0..n -> 0..b] : Listing(W, b, n, order, total)
  BY DEF Adds
<1> HIDE DEF n
<1>3. PICK k \in 1..n : order[k] = c
  BY <1>2 DEF Listing
<1>4. \A i \in 0..n : total[i] \in Nat /\ total[i] <= b
  BY <1>1, <1>2
<1>5. \A i, j \in 0..n : i <= j => total[i] <= total[j]
  BY <1>2 DEF Listing
<1>6. k - 1 \in 0..n /\ total[k] = total[k - 1] + Size[c]
  BY <1>1, <1>2, <1>3 DEF Listing
<1>7. \A i \in k..n : total[i] >= Size[c] /\ total[i] - Size[c] \in Nat /\ total[i] - Size[c] >= total[k - 1]
  BY <1>1, <1>4, <1>5, <1>6
<1>8. n \in k..n /\ total[n] = b
  BY <1>1, <1>2 DEF Listing
<1>9. Size[c] <= b /\ m \in Nat
  BY <1>1, <1>7, <1>8
<1> DEFINE fewer == [i \in 1..(n - 1) |-> IF i < k THEN order[i] ELSE order[i + 1]]
           sums == [i \in 0..(n - 1) |-> IF i < k THEN total[i] ELSE total[i + 1] - Size[c]]
<1>10. \A i, j \in 1..n : order[i] = order[j] => i = j
  BY <1>2 DEF Listing
<1>11. fewer \in [1..(n - 1) -> V]
  <2> SUFFICES ASSUME NEW i \in 1..(n - 1) PROVE (IF i < k THEN order[i] ELSE order[i + 1]) \in V
    OBVIOUS
  <2>1. i \in 1..n /\ i + 1 \in 1..n /\ (i < k => i # k) /\ (~(i < k) => i + 1 # k)
    BY <1>1
  <2> QED BY <1>2, <1>3, <1>10, <2>1
<1>12. sums \in [0..(n - 1) -> 0..m]
  <2> SUFFICES ASSUME NEW i \in 0..(n - 1)
               PROVE  (IF i < k THEN total[i] ELSE total[i + 1] - Size[c]) \in 0..m
    OBVIOUS
  <2>1. CASE i < k
    <3>1. i \in 0..n /\ i <= k - 1
      BY <1>1, <2>1
    <3>2. total[i] <= total[k - 1] /\ total[k - 1] <= b - Size[c]
      BY <1>1, <1>4, <1>5, <1>6, <1>7, <1>8, <3>1
    <3> QED BY <1>4, <1>6, <1>9, <2>1, <3>1, <3>2
  <2>2. CASE ~(i < k)
    <3>1. i + 1 \in k..n /\ i + 1 \in 0..n
      BY <1>1, <2>2
    <3>2. total[i + 1] \in Nat /\ total[i + 1] <= b /\ total[i + 1] - Size[c] \in Nat
      BY <1>4, <1>7, <3>1
    <3> QED BY <1>1, <1>9, <2>2, <3>2
  <2> QED BY <2>1, <2>2
<1>13. \A d \in V : \E i \in 1..(n - 1) : fewer[i] = d
  <2> SUFFICES ASSUME NEW d \in V PROVE \E i \in 1..(n - 1) : fewer[i] = d
    OBVIOUS
  <2>1. PICK i \in 1..n : order[i] = d
    BY <1>2 DEF Listing
  <2>2. i # k
    BY <1>3, <2>1
  <2>3. CASE i < k
    BY <1>1, <2>1, <2>3
  <2>4. CASE i > k
    <3>1. i - 1 \in 1..(n - 1) /\ ~(i - 1 < k) /\ (i - 1) + 1 = i
      BY <1>1, <2>4
    <3> QED BY <2>1, <3>1
  <2> QED BY <1>1, <2>2, <2>3, <2>4
<1>14. \A i, j \in 1..(n - 1) : fewer[i] = fewer[j] => i = j
  <2> SUFFICES ASSUME NEW i \in 1..(n - 1), NEW j \in 1..(n - 1), fewer[i] = fewer[j] PROVE i = j
    OBVIOUS
  <2> DEFINE up(x) == IF x < k THEN x ELSE x + 1
  <2>1. up(i) \in 1..n /\ up(j) \in 1..n
    BY <1>1
  <2>3. fewer[i] = order[up(i)] /\ fewer[j] = order[up(j)]
    OBVIOUS
  <2>2. up(i) = up(j)
    BY <1>10, <2>1, <2>3
  <2> QED BY <1>1, <2>2
<1>15. sums[0] = 0 /\ sums[n - 1] = m
  <2>1. 0 < k /\ 0 \in 0..(n - 1) /\ n - 1 \in 0..(n - 1) /\ total[0] = 0 /\ total[n] = b
    BY <1>1, <1>2 DEF Listing
  <2>2. CASE n - 1 < k
    <3>1. k = n
      BY <1>1, <2>2
    <3> QED BY <1>4, <1>1, <1>6, <2>1, <2>2, <3>1
  <2>3. CASE ~(n - 1 < k)
    BY <1>1, <2>1, <2>3
  <2> QED BY <2>2, <2>3
<1>16. \A i \in 1..(n - 1) : sums[i] = sums[i - 1] + Size[fewer[i]]
  <2> SUFFICES ASSUME NEW i \in 1..(n - 1) PROVE sums[i] = sums[i - 1] + Size[fewer[i]]
    OBVIOUS
  <2>0. \A x \in 1..n : total[x] = total[x - 1] + Size[order[x]]
    BY <1>2 DEF Listing
  <2>1. CASE i < k
    BY <1>1, <2>0, <2>1
  <2>2. CASE i = k
    <3>1. sums[i] = total[k + 1] - Size[c] /\ sums[i - 1] = total[k - 1] /\ fewer[i] = order[k + 1]
      BY <1>1, <2>2
    <3>2. total[k + 1] = total[k] + Size[order[k + 1]] /\ order[k + 1] \in Procs
      BY <1>1, <1>2, <2>0, <2>2
    <3>3. total[k - 1] \in Nat /\ total[k] \in Nat /\ Size[order[k + 1]] \in Nat
      BY <1>1, <1>4, <3>2
    <3> HIDE DEF fewer, sums
    <3>4. total[k + 1] - Size[c] = total[k - 1] + Size[order[k + 1]]
      BY <1>1, <1>6, <3>2, <3>3
    <3> QED BY <3>1, <3>4
  <2>3. CASE i > k
    <3>1. sums[i] = total[i + 1] - Size[c] /\ sums[i - 1] = total[i] - Size[c] /\ fewer[i] = order[i + 1]
      BY <1>1, <2>3
    <3>2. i + 1 \in 1..n /\ total[i + 1] = total[i] + Size[order[i + 1]] /\ order[i + 1] \in Procs
      BY <1>1, <1>2, <2>0
    <3>3. total[i] \in Nat /\ Size[order[i + 1]] \in Nat
      BY <1>1, <1>4, <3>2
    <3> QED BY <1>1, <3>1, <3>2, <3>3
  <2> QED BY <1>1, <2>1, <2>2, <2>3
<1>17. \A i, j \in 0..(n - 1) : i <= j => sums[i] <= sums[j]
  <2> SUFFICES ASSUME NEW i \in 0..(n - 1), NEW j \in 0..(n - 1), i <= j PROVE sums[i] <= sums[j]
    OBVIOUS
  <2>1. CASE j < k
    BY <1>1, <1>5, <2>1
  <2>2. CASE ~(j < k) /\ i < k
    <3>1. j + 1 \in k..n /\ i \in 0..n /\ i <= k - 1
      BY <1>1, <2>2
    <3>2. total[i] <= total[k - 1] /\ total[k - 1] <= total[j + 1] - Size[c]
      BY <1>5, <1>6, <1>7, <3>1
    <3>3. total[i] \in Nat /\ total[k - 1] \in Nat /\ total[j + 1] - Size[c] \in Nat
      BY <1>4, <1>6, <1>7, <3>1
    <3> QED BY <2>2, <3>2, <3>3
  <2>3. CASE ~(i < k)
    <3>1. i + 1 \in 0..n /\ j + 1 \in 0..n /\ ~(j < k)
      BY <1>1, <2>3
    <3> QED BY <1>1, <1>4, <1>5, <2>3, <3>1
  <2> QED BY <2>1, <2>2, <2>3
<1>18. Listing(V, m, n - 1, fewer, sums)
  <2> HIDE DEF fewer, sums, m, V
  <2> QED BY <1>13, <1>14, <1>15, <1>16, <1>17 DEF Listing
<1>19. Adds(V, m)
  <2> HIDE DEF fewer, sums, m, V
  <2> QED BY <1>1, <1>11, <1>12, <1>18 DEF Adds
<1> QED BY <1>9, <1>19

-----------------------------------------------------------------------------
(* The first value sent on a channel.                                       *)
LEMMA FirstSent == ASSUME NEW x \in STRING PROVE Append(<< >>, x) = <<x>>
  OBVIOUS

(* What expire() does, for a caller or for the writer.                      *)
ExpireEffect(c) ==
  /\ pending' = pending \ {c} /\ pending' \subseteq Requests
  /\ queue' \in Seq(Procs) /\ DistinctIn(queue')
  /\ state' = [state EXCEPT ![c] = IF @ = "queued" THEN "cancelled" ELSE @]
  /\ \A d \in Procs : InQueue(queue', d) => InQueue(queue, d) /\ state'[d] = state[d] /\ (state[c] = "queued" => d # c)
  /\ \A d \in Procs : InQueue(queue, d) /\ (d # c \/ state[c] # "queued") => InQueue(queue', d)
  /\ writes' = IF state[c] = "queued" THEN writes \ {c} ELSE writes
  /\ queuedBytes' = IF state[c] = "queued" THEN queuedBytes - Size[c] ELSE queuedBytes
  /\ reply' = [reply EXCEPT ![c] = IF c \in pending THEN <<"timeout">> ELSE @]
  /\ result' = [result EXCEPT ![c] = IF state[c] = "queued" THEN <<"cancelled">> ELSE @]
LEMMA ExpireEffects ==
  ASSUME TypeOK, OneReply, OneResult, StillWaits, QueueDistinct, NEW c \in Procs, Expire(c)
  PROVE  ExpireEffect(c)
<1> USE DEF books
<1>0. queue \in Seq(Procs) /\ DistinctIn(queue) /\ pending \subseteq Requests /\ pending \subseteq Procs
  BY Distinct DEF TypeOK, BooksTyped, ChannelsTyped, QueueDistinct, DistinctIn
<1>1. CASE Settled(c)
  <2>1. c \notin pending /\ state[c] # "queued"
    BY <1>1 DEF Settled, StillWaits
  <2>2. UNCHANGED <<books, reply, result>>
    BY <1>1 DEF Expire
  <2> QED BY <1>0, <2>1, <2>2 DEF ExpireEffect, TypeOK, BooksTyped, ChannelsTyped
<1>2. CASE ~Settled(c)
  <2>1. pending' = pending \ {c} /\ Replied({c} \cap Requests, "timeout")
    BY <1>2 DEF Expire
  <2>2. c \in Requests <=> c \in pending
    BY <1>0, <1>2 DEF Settled
  <2>3. reply' = [reply EXCEPT ![c] = IF c \in pending THEN <<"timeout">> ELSE @]
    <3>1. \A d \in Procs : reply'[d] = IF d \in {c} \cap Requests THEN Append(reply[d], "timeout") ELSE reply[d]
      BY <2>1 DEF Replied
    <3>2. c \in pending => reply[c] = << >>
      BY DEF OneReply
    <3>3. reply' = [d \in Procs |-> IF d = c /\ c \in pending THEN <<"timeout">> ELSE reply[d]]
      <4>1. Append(<< >>, "timeout") = <<"timeout">>
        BY FirstSent
      <4>2. ASSUME NEW d \in Procs
            PROVE  (IF d \in {c} \cap Requests THEN Append(reply[d], "timeout") ELSE reply[d])
                   = (IF d = c /\ c \in pending THEN <<"timeout">> ELSE reply[d])
        BY <2>2, <3>2, <4>1
      <4> QED BY <2>1, <4>2, Zenon DEF Replied
    <3> QED BY <3>3 DEF TypeOK, BooksTyped, ChannelsTyped
  <2>4. CASE state[c] = "queued"
    <3>1. c \in writes /\ result[c] = << >>
      BY <2>4 DEF OneResult
    <3>2. LeavesQueue(c) /\ FinishWrites({c}, "cancelled") /\ queuedBytes' = queuedBytes - Size[c]
      BY <1>2, <2>4, <3>1 DEF Expire
    <3>3. /\ queue' \in Seq(Procs) /\ DistinctIn(queue')
          /\ \A d \in Procs : InQueue(queue', d) <=> d # c /\ InQueue(queue, d)
      BY <1>0, <3>2, QueueRemove
    <3>4. writes' = writes \ {c}
      BY <3>2 DEF FinishWrites
    <3>5. state' = [state EXCEPT ![c] = "cancelled"]
      BY <3>1, <3>2 DEF FinishWrites, TypeOK, BooksTyped, ChannelsTyped
    <3>6. result' = [result EXCEPT ![c] = <<"cancelled">>]
      <4>1. result' = [d \in Procs |-> IF d = c THEN <<"cancelled">> ELSE result[d]]
        <5>1. Append(<< >>, "cancelled") = <<"cancelled">>
          BY FirstSent
        <5>2. ASSUME NEW d \in Procs
              PROVE  (IF d \in {c} \cap writes THEN Append(result[d], "cancelled") ELSE result[d])
                     = (IF d = c THEN <<"cancelled">> ELSE result[d])
          BY <3>1, <5>1
        <5>3. result' = [d \in Procs |-> IF d \in {c} \cap writes THEN Append(result[d], "cancelled") ELSE result[d]]
          BY <3>2 DEF FinishWrites
        <5> QED BY <5>2, <5>3, Zenon
      <4> QED BY <4>1 DEF TypeOK, BooksTyped, ChannelsTyped
    <3> QED BY <1>0, <2>1, <2>3, <2>4, <3>2, <3>3, <3>4, <3>5, <3>6
        DEF ExpireEffect, TypeOK, BooksTyped, ChannelsTyped
  <2>5. CASE state[c] # "queued"
    <3>1. UNCHANGED <<writes, queue, queuedBytes, state, result>>
      BY <1>2, <2>5 DEF Expire
    <3> QED BY <1>0, <2>1, <2>3, <2>5, <3>1 DEF ExpireEffect, TypeOK, BooksTyped, ChannelsTyped
  <2> QED BY <2>4, <2>5
<1> QED BY <1>1, <1>2

(* What finishing a write does: its outcome is published once.              *)
FinishEffect ==
  /\ current[Writer] \in Procs /\ state[current[Writer]] # "queued"
  /\ writes' = writes \ {current[Writer]}
  /\ state' = [state EXCEPT ![current[Writer]] = IF current[Writer] \in writes THEN "written" ELSE @]
  /\ result' = [result EXCEPT ![current[Writer]] = IF current[Writer] \in writes THEN <<"written">> ELSE @]
LEMMA FinishEffects == ASSUME TypeOK, OneResult, Hands, WriterFinishes PROVE FinishEffect
<1> DEFINE c == current[Writer]
<1>1. c \in Procs /\ pc[Writer] = "written" /\ state[c] # "queued" /\ FinishWrites({c}, "written")
  BY DEF Hands, WriterFinishes
<1> HIDE DEF c
<1>2. c \in writes => result[c] = << >>
  BY <1>1 DEF OneResult
<1>3. Append(<< >>, "written") = <<"written">>
  BY FirstSent
<1>4. result' = [d \in Procs |-> IF d = c /\ c \in writes THEN <<"written">> ELSE result[d]]
  <2>1. ASSUME NEW d \in Procs
        PROVE  (IF d \in {c} \cap writes THEN Append(result[d], "written") ELSE result[d])
               = (IF d = c /\ c \in writes THEN <<"written">> ELSE result[d])
    BY <1>2, <1>3
  <2>2. result' = [d \in Procs |-> IF d \in {c} \cap writes THEN Append(result[d], "written") ELSE result[d]]
    BY <1>1 DEF FinishWrites
  <2> QED BY <2>1, <2>2, Zenon
<1>5. writes' = writes \ {c} /\ state' = [state EXCEPT ![c] = IF c \in writes THEN "written" ELSE @]
  BY <1>1 DEF FinishWrites, TypeOK, BooksTyped, ChannelsTyped
<1>6. result' = [result EXCEPT ![c] = IF c \in writes THEN <<"written">> ELSE @]
  BY <1>1, <1>4 DEF TypeOK, BooksTyped, ChannelsTyped
<1> QED BY <1>1, <1>5, <1>6 DEF FinishEffect, c

(* What the first closer does under the lock.                               *)
CloseEffect(a) ==
  /\ pc[a] = "close" /\ pc' = [pc EXCEPT ![a] = "closing"] /\ closed'
  /\ pending' = {} /\ writes' = {} /\ queue' = << >> /\ queuedBytes' = 0 /\ captured' = handler
  /\ state' = [c \in Procs |-> IF c \in writes THEN "cancelled" ELSE state[c]]
  /\ reply' = [c \in Procs |-> IF c \in pending THEN <<"closed">> ELSE reply[c]]
  /\ result' = [c \in Procs |-> IF c \in writes THEN <<"cancelled">> ELSE result[c]]
  /\ UNCHANGED <<wake, handler, called, current, late, received, uncertain>>
LEMMA CloseEffects ==
  ASSUME TypeOK, OneReply, OneResult, NEW a \in Actors, CloseLocked(a), ~closed
  PROVE  CloseEffect(a)
<1>1. /\ pc[a] = "close" /\ pc' = [pc EXCEPT ![a] = "closing"] /\ closed' = TRUE
      /\ Replied(pending, "closed") /\ pending' = {}
      /\ FinishWrites(writes, "cancelled")
      /\ queue' = << >> /\ queuedBytes' = 0 /\ captured' = handler
      /\ UNCHANGED <<wake, handler, called, current, late, received, uncertain>>
  BY DEF CloseLocked
<1>2. Append(<< >>, "closed") = <<"closed">> /\ Append(<< >>, "cancelled") = <<"cancelled">>
  BY FirstSent
<1>3. reply' = [c \in Procs |-> IF c \in pending THEN <<"closed">> ELSE reply[c]]
  <2>1. ASSUME NEW c \in Procs
        PROVE  (IF c \in pending THEN Append(reply[c], "closed") ELSE reply[c])
               = (IF c \in pending THEN <<"closed">> ELSE reply[c])
    BY <1>2 DEF OneReply
  <2> QED BY <1>1, <2>1, Zenon DEF Replied
<1>4. result' = [c \in Procs |-> IF c \in writes THEN <<"cancelled">> ELSE result[c]]
  <2>1. ASSUME NEW c \in Procs
        PROVE  (IF c \in writes \cap writes THEN Append(result[c], "cancelled") ELSE result[c])
               = (IF c \in writes THEN <<"cancelled">> ELSE result[c])
    BY <1>2 DEF OneResult
  <2>2. result' = [c \in Procs |-> IF c \in writes \cap writes THEN Append(result[c], "cancelled") ELSE result[c]]
    BY <1>1 DEF FinishWrites
  <2> QED BY <2>1, <2>2, Zenon
<1>5. writes' = {} /\ state' = [c \in Procs |-> IF c \in writes THEN "cancelled" ELSE state[c]]
  BY <1>1 DEF FinishWrites
<1> QED BY <1>1, <1>3, <1>4, <1>5 DEF CloseEffect

(* What delivering an answer does: the reply channel gets its one value.    *)
DeliverEffect ==
  /\ current[Reader] \in Requests /\ current[Reader] \in Procs
  /\ reply' = [reply EXCEPT ![current[Reader]] = <<"answer">>]
  /\ current' = [current EXCEPT ![Reader] = None]
LEMMA DeliverEffects == ASSUME TypeOK, OneReply, Hands, ReaderDelivers PROVE DeliverEffect
<1> DEFINE c == current[Reader]
<1>1. c \in Requests /\ c \in Procs /\ Replied({c}, "answer") /\ current' = [current EXCEPT ![Reader] = None]
  BY Distinct DEF Hands, ReaderDelivers, TypeOK, SetsTyped
<1> HIDE DEF c
<1>2. reply[c] = << >> /\ Append(<< >>, "answer") = <<"answer">>
  BY <1>1, FirstSent DEF OneReply, c
<1>3. reply' = [d \in Procs |-> IF d = c THEN <<"answer">> ELSE reply[d]]
  <2>1. ASSUME NEW d \in Procs
        PROVE  (IF d \in {c} THEN Append(reply[d], "answer") ELSE reply[d])
               = (IF d = c THEN <<"answer">> ELSE reply[d])
    BY <1>2
  <2> QED BY <1>1, <2>1, Zenon DEF Replied
<1>4. reply' = [reply EXCEPT ![c] = <<"answer">>]
  BY <1>1, <1>3 DEF TypeOK, BooksTyped, ChannelsTyped
<1> QED BY <1>1, <1>4 DEF DeliverEffect, c

(* What begins when the writer takes the oldest write.                      *)
TakeEffect ==
  \/ /\ pc' = [pc EXCEPT ![Writer] = IF closed THEN "done" ELSE "sleep"]
     /\ UNCHANGED <<queue, state, current>>
     /\ closed \/ queue = << >>
  \/ \E c \in Procs :
       /\ ~closed /\ state[c] = "queued" /\ c \in writes /\ InQueue(queue, c)
       /\ current' = [current EXCEPT ![Writer] = c]
       /\ \/ pc' = [pc EXCEPT ![Writer] = "expire"] /\ UNCHANGED state
          \/ /\ pc' = [pc EXCEPT ![Writer] = "write"]
             /\ state' = [state EXCEPT ![c] = "writing"]
       /\ queue' \in Seq(Procs) /\ DistinctIn(queue')
       /\ \A d \in Procs : InQueue(queue', d) <=> d # c /\ InQueue(queue, d)
LEMMA TakeEffects == ASSUME TypeOK, QueueDistinct, QueueTrue, OneResult, WriterTakes PROVE TakeEffect
<1>1. CASE closed \/ queue = << >>
  BY <1>1 DEF WriterTakes, TakeEffect
<1>2. CASE ~closed /\ queue # << >>
  <2> DEFINE c == Head(queue)
  <2>1. queue \in Seq(Procs) /\ DistinctIn(queue)
    BY DEF TypeOK, BooksTyped, QueueDistinct, DistinctIn
  <2>2. /\ c \in Procs /\ InQueue(queue, c)
        /\ Tail(queue) \in Seq(Procs) /\ DistinctIn(Tail(queue))
        /\ \A d \in Procs : InQueue(Tail(queue), d) <=> d # c /\ InQueue(queue, d)
    BY <1>2, <2>1, QueueTail
  <2>3. /\ queue' = Tail(queue)
        /\ current' = [current EXCEPT ![Writer] = c]
        /\ \/ pc' = [pc EXCEPT ![Writer] = "expire"] /\ UNCHANGED state
           \/ /\ pc' = [pc EXCEPT ![Writer] = "write"]
              /\ state' = [state EXCEPT ![c] = "writing"]
    BY <1>2 DEF WriterTakes
  <2> HIDE DEF c
  <2>4. state[c] = "queued"
    BY <2>2 DEF QueueTrue, InQueue
  <2>5. c \in writes
    BY <2>2, <2>4 DEF OneResult
  <2> QED BY <1>2, <2>2, <2>3, <2>4, <2>5 DEF TakeEffect
<1> QED BY <1>1, <1>2

(* What an accepted call does to the books.                                 *)
EnqueueEffect(c) ==
  /\ state[c] = None /\ c \notin writes /\ c \notin pending /\ reply[c] = << >> /\ result[c] = << >>
  /\ ~InQueue(queue, c)
  /\ \/ pc' = [pc EXCEPT ![c] = "done"] /\ UNCHANGED <<books, wake>>
     \/ /\ ~closed /\ ~Backpressure(c) /\ wake'
        /\ pc' = [pc EXCEPT ![c] = "wait"]
        /\ writes' = writes \cup {c}
        /\ queue' \in Seq(Procs) /\ DistinctIn(queue')
        /\ \A d \in Procs : InQueue(queue', d) <=> d = c \/ InQueue(queue, d)
        /\ queuedBytes' = queuedBytes + Size[c]
        /\ pending' = IF c \in Requests THEN pending \cup {c} ELSE pending
        /\ state' = [state EXCEPT ![c] = "queued"]
LEMMA EnqueueEffects ==
  ASSUME TypeOK, QueueDistinct, QueueTrue, OneResult, StillWaits, NEW c \in Procs, Enqueue(c)
  PROVE  EnqueueEffect(c)
<1>1. pc[c] = "idle"
  BY DEF Enqueue
<1>2. state[c] = None /\ reply[c] = << >>
  BY <1>1 DEF StillWaits
<1>3. c \notin pending
  BY <1>1 DEF StillWaits
<1>4. c \notin writes /\ result[c] = << >>
  BY <1>2 DEF OneResult, None
<1>5. queue \in Seq(Procs) /\ DistinctIn(queue) /\ ~InQueue(queue, c)
  BY <1>2 DEF TypeOK, BooksTyped, QueueDistinct, DistinctIn, QueueTrue, InQueue, None
<1>6. /\ Append(queue, c) \in Seq(Procs) /\ DistinctIn(Append(queue, c))
      /\ \A d \in Procs : InQueue(Append(queue, c), d) <=> d = c \/ InQueue(queue, d)
  BY <1>5, QueueAppend
<1>7. \/ pc' = [pc EXCEPT ![c] = "done"] /\ UNCHANGED <<books, wake>>
      \/ /\ ~closed /\ ~Backpressure(c) /\ wake'
         /\ pc' = [pc EXCEPT ![c] = "wait"]
         /\ writes' = writes \cup {c}
         /\ queue' = Append(queue, c)
         /\ queuedBytes' = queuedBytes + Size[c]
         /\ pending' = IF c \in Requests THEN pending \cup {c} ELSE pending
         /\ state' = [state EXCEPT ![c] = "queued"]
  BY DEF Enqueue
<1> HIDE DEF books
<1> QED BY <1>2, <1>3, <1>4, <1>5, <1>6, <1>7 DEF EnqueueEffect

(* The books balance: within the bounds, and queuedBytes is the sum.        *)
LEMMA BalancedAdds ==
  Balanced <=> /\ Cardinality(writes) <= MaxWrites /\ Cardinality(pending) <= MaxWrites
               /\ queuedBytes <= MaxBytes /\ Adds(writes, queuedBytes)
  BY DEF Balanced, Adds, Listing

(* A cancelled or finished write was accounted for.                         *)
LEMMA BytesLeave ==
  ASSUME TypeOK, Finite, Balanced, NEW c \in writes
  PROVE  queuedBytes - Size[c] \in Nat /\ queuedBytes - Size[c] <= queuedBytes /\ Adds(writes \ {c}, queuedBytes - Size[c])
<1>1. writes \in SUBSET Procs /\ queuedBytes \in Nat /\ IsFiniteSet(writes) /\ Adds(writes, queuedBytes)
  BY BalancedAdds DEF TypeOK, BooksTyped, Finite
<1>2. Size[c] \in Nat
  BY <1>1, RpcAssumption
<1>3. Size[c] <= queuedBytes /\ queuedBytes - Size[c] \in Nat /\ Adds(writes \ {c}, queuedBytes - Size[c])
  BY <1>1, AddsLess
<1> QED BY <1>1, <1>2, <1>3

(* Types are kept: control, ...                                             *)
LEMMA PcStep == ASSUME Inv, Next PROVE PcTyped'
<1> USE Distinct DEF books, hook
<1> /\ TypeOK /\ OneReply /\ OneResult /\ StillWaits /\ Hands /\ QueueDistinct /\ QueueTrue
    /\ OneClose /\ UncertainCloses /\ NoLostWakeup /\ Finite /\ Balanced
  BY DEF Inv
<1>1. ASSUME NEW c \in Procs, Enqueue(c) PROVE PcTyped'
  <2>1. EnqueueEffect(c)
    BY <1>1, EnqueueEffects
  <2> QED BY <1>1, <2>1 DEF Enqueue, EnqueueEffect, TypeOK, PcTyped
<1>2. ASSUME NEW c \in Procs, DeadlinePasses(c) \/ GiveUp(c) \/ Return(c) PROVE PcTyped'
  BY <1>2 DEF DeadlinePasses, GiveUp, Return, TypeOK, PcTyped
<1>3. ASSUME NEW c \in Procs, CallerExpires(c) PROVE PcTyped'
  <2>1. ExpireEffect(c)
    BY <1>3, ExpireEffects DEF CallerExpires
  <2> QED BY <1>3, <2>1 DEF CallerExpires, ExpireEffect, TypeOK, PcTyped
<1>4. CASE WriterTakes
  <2>1. TakeEffect
    BY <1>4, TakeEffects
  <2> QED BY <1>4, <2>1 DEF WriterTakes, TakeEffect, TypeOK, PcTyped
<1>5. CASE WriterExpires
  <2>1. current[Writer] \in Procs /\ ExpireEffect(current[Writer])
    BY <1>5, ExpireEffects DEF WriterExpires, Hands
  <2> QED BY <1>5, <2>1 DEF WriterExpires, ExpireEffect, TypeOK, PcTyped
<1>6. CASE WriterFinishes
  <2>1. FinishEffect
    BY <1>6, FinishEffects
  <2> QED BY <1>6, <2>1 DEF WriterFinishes, FinishEffect, TypeOK, PcTyped
<1>7. CASE WriterWakes \/ WriterWrites
  BY <1>7 DEF WriterWakes, WriterWrites, TypeOK, PcTyped
<1>8. ASSUME NEW c \in Requests, ReaderTakes(c) PROVE PcTyped'
  BY <1>8 DEF ReaderTakes, TypeOK, PcTyped
<1>9. CASE ReaderDelivers
  <2>1. DeliverEffect
    BY <1>9, DeliverEffects
  <2> QED BY <1>9, <2>1 DEF ReaderDelivers, DeliverEffect, TypeOK, PcTyped
<1>10. CASE ReaderEnds \/ OwnerCloses \/ SetClosedHandler
  BY <1>10 DEF ReaderEnds, OwnerCloses, SetClosedHandler, TypeOK, PcTyped
<1>11. ASSUME NEW a \in Actors, CloseLocked(a) PROVE PcTyped'
  <2>1. CASE closed
    BY <1>11, <2>1 DEF CloseLocked, AfterClose, TypeOK, PcTyped
  <2>2. CASE ~closed
    <3>1. CloseEffect(a)
      BY <1>11, <2>2, CloseEffects
    <3> QED BY <2>2, <3>1 DEF CloseEffect, TypeOK, PcTyped
  <2> QED BY <2>1, <2>2
<1>12. ASSUME NEW a \in Actors, CloseFinishes(a) PROVE PcTyped'
  BY <1>12 DEF CloseFinishes, AfterClose, TypeOK, PcTyped
<1> QED BY <1>1, <1>2, <1>3, <1>4, <1>5, <1>6, <1>7, <1>8, <1>9, <1>10, <1>11, <1>12
    DEF Next, CallStep, WriterStep, ReaderStep, CloseStep

(* ... the books, ...                                                       *)
LEMMA BooksStep == ASSUME Inv, Next PROVE BooksTyped'
<1> USE Distinct DEF books, hook
<1> /\ TypeOK /\ OneReply /\ OneResult /\ StillWaits /\ Hands /\ QueueDistinct /\ QueueTrue
    /\ OneClose /\ UncertainCloses /\ NoLostWakeup /\ Finite /\ Balanced
  BY DEF Inv
<1>1. ASSUME NEW c \in Procs, Enqueue(c) PROVE BooksTyped'
  <2>1. EnqueueEffect(c)
    BY <1>1, EnqueueEffects
  <2> QED BY <1>1, <2>1, RpcAssumption DEF Enqueue, EnqueueEffect, TypeOK, BooksTyped, OneResult
<1>2. ASSUME NEW c \in Procs, DeadlinePasses(c) \/ GiveUp(c) \/ Return(c) PROVE BooksTyped'
  BY <1>2 DEF DeadlinePasses, GiveUp, Return, TypeOK, BooksTyped, OneResult
<1>3. ASSUME NEW c \in Procs, CallerExpires(c) PROVE BooksTyped'
  <2>1. ExpireEffect(c)
    BY <1>3, ExpireEffects DEF CallerExpires
  <2> QED BY <1>3, <2>1, BytesLeave DEF CallerExpires, ExpireEffect, TypeOK, BooksTyped, OneResult
<1>4. CASE WriterTakes
  <2>1. TakeEffect
    BY <1>4, TakeEffects
  <2> QED BY <1>4, <2>1 DEF WriterTakes, TakeEffect, TypeOK, BooksTyped, OneResult
<1>5. CASE WriterExpires
  <2>1. current[Writer] \in Procs /\ ExpireEffect(current[Writer])
    BY <1>5, ExpireEffects DEF WriterExpires, Hands
  <2> QED BY <1>5, <2>1, BytesLeave DEF WriterExpires, ExpireEffect, TypeOK, BooksTyped, OneResult
<1>6. CASE WriterFinishes
  <2>1. FinishEffect
    BY <1>6, FinishEffects
  <2> QED BY <1>6, <2>1, BytesLeave DEF WriterFinishes, FinishEffect, TypeOK, BooksTyped, OneResult
<1>7. CASE WriterWakes \/ WriterWrites
  BY <1>7 DEF WriterWakes, WriterWrites, TypeOK, BooksTyped, OneResult
<1>8. ASSUME NEW c \in Requests, ReaderTakes(c) PROVE BooksTyped'
  BY <1>8 DEF ReaderTakes, TypeOK, BooksTyped, OneResult
<1>9. CASE ReaderDelivers
  <2>1. DeliverEffect
    BY <1>9, DeliverEffects
  <2> QED BY <1>9, <2>1 DEF ReaderDelivers, DeliverEffect, TypeOK, BooksTyped, OneResult
<1>10. CASE ReaderEnds \/ OwnerCloses \/ SetClosedHandler
  BY <1>10 DEF ReaderEnds, OwnerCloses, SetClosedHandler, TypeOK, BooksTyped, OneResult
<1>11. ASSUME NEW a \in Actors, CloseLocked(a) PROVE BooksTyped'
  <2>1. CASE closed
    BY <1>11, <2>1 DEF CloseLocked, AfterClose, TypeOK, BooksTyped, OneResult
  <2>2. CASE ~closed
    <3>1. CloseEffect(a)
      BY <1>11, <2>2, CloseEffects
    <3> QED BY <2>2, <3>1 DEF CloseEffect, TypeOK, BooksTyped, OneResult
  <2> QED BY <2>1, <2>2
<1>12. ASSUME NEW a \in Actors, CloseFinishes(a) PROVE BooksTyped'
  BY <1>12 DEF CloseFinishes, AfterClose, TypeOK, BooksTyped, OneResult
<1> QED BY <1>1, <1>2, <1>3, <1>4, <1>5, <1>6, <1>7, <1>8, <1>9, <1>10, <1>11, <1>12
    DEF Next, CallStep, WriterStep, ReaderStep, CloseStep

(* ... the channels, ...                                                    *)
LEMMA ChannelsStep == ASSUME Inv, Next PROVE ChannelsTyped'
<1> USE Distinct DEF books, hook
<1> /\ TypeOK /\ OneReply /\ OneResult /\ StillWaits /\ Hands /\ QueueDistinct /\ QueueTrue
    /\ OneClose /\ UncertainCloses /\ NoLostWakeup /\ Finite /\ Balanced
  BY DEF Inv
<1>1. ASSUME NEW c \in Procs, Enqueue(c) PROVE ChannelsTyped'
  <2>1. EnqueueEffect(c)
    BY <1>1, EnqueueEffects
  <2> QED BY <1>1, <2>1 DEF Enqueue, EnqueueEffect, TypeOK, ChannelsTyped, BooksTyped
<1>2. ASSUME NEW c \in Procs, DeadlinePasses(c) \/ GiveUp(c) \/ Return(c) PROVE ChannelsTyped'
  BY <1>2 DEF DeadlinePasses, GiveUp, Return, TypeOK, ChannelsTyped, BooksTyped
<1>3. ASSUME NEW c \in Procs, CallerExpires(c) PROVE ChannelsTyped'
  <2>1. ExpireEffect(c)
    BY <1>3, ExpireEffects DEF CallerExpires
  <2> QED BY <1>3, <2>1 DEF CallerExpires, ExpireEffect, TypeOK, ChannelsTyped, BooksTyped
<1>4. CASE WriterTakes
  <2>1. TakeEffect
    BY <1>4, TakeEffects
  <2> QED BY <1>4, <2>1 DEF WriterTakes, TakeEffect, TypeOK, ChannelsTyped, BooksTyped
<1>5. CASE WriterExpires
  <2>1. current[Writer] \in Procs /\ ExpireEffect(current[Writer])
    BY <1>5, ExpireEffects DEF WriterExpires, Hands
  <2> QED BY <1>5, <2>1 DEF WriterExpires, ExpireEffect, TypeOK, ChannelsTyped, BooksTyped
<1>6. CASE WriterFinishes
  <2>1. FinishEffect
    BY <1>6, FinishEffects
  <2> QED BY <1>6, <2>1 DEF WriterFinishes, FinishEffect, TypeOK, ChannelsTyped, BooksTyped
<1>7. CASE WriterWakes \/ WriterWrites
  BY <1>7 DEF WriterWakes, WriterWrites, TypeOK, ChannelsTyped, BooksTyped
<1>8. ASSUME NEW c \in Requests, ReaderTakes(c) PROVE ChannelsTyped'
  BY <1>8 DEF ReaderTakes, TypeOK, ChannelsTyped, BooksTyped
<1>9. CASE ReaderDelivers
  <2>1. DeliverEffect
    BY <1>9, DeliverEffects
  <2> QED BY <1>9, <2>1 DEF ReaderDelivers, DeliverEffect, TypeOK, ChannelsTyped, BooksTyped
<1>10. CASE ReaderEnds \/ OwnerCloses \/ SetClosedHandler
  BY <1>10 DEF ReaderEnds, OwnerCloses, SetClosedHandler, TypeOK, ChannelsTyped, BooksTyped
<1>11. ASSUME NEW a \in Actors, CloseLocked(a) PROVE ChannelsTyped'
  <2>1. CASE closed
    BY <1>11, <2>1 DEF CloseLocked, AfterClose, TypeOK, ChannelsTyped, BooksTyped
  <2>2. CASE ~closed
    <3>1. CloseEffect(a)
      BY <1>11, <2>2, CloseEffects
    <3> QED BY <2>2, <3>1 DEF CloseEffect, TypeOK, ChannelsTyped, BooksTyped
  <2> QED BY <2>1, <2>2
<1>12. ASSUME NEW a \in Actors, CloseFinishes(a) PROVE ChannelsTyped'
  BY <1>12 DEF CloseFinishes, AfterClose, TypeOK, ChannelsTyped, BooksTyped
<1> QED BY <1>1, <1>2, <1>3, <1>4, <1>5, <1>6, <1>7, <1>8, <1>9, <1>10, <1>11, <1>12
    DEF Next, CallStep, WriterStep, ReaderStep, CloseStep

(* ... the flags, ...                                                       *)
LEMMA FlagsStep == ASSUME Inv, Next PROVE FlagsTyped'
<1> USE Distinct DEF books, hook
<1> /\ TypeOK /\ OneReply /\ OneResult /\ StillWaits /\ Hands /\ QueueDistinct /\ QueueTrue
    /\ OneClose /\ UncertainCloses /\ NoLostWakeup /\ Finite /\ Balanced
  BY DEF Inv
<1>1. ASSUME NEW c \in Procs, Enqueue(c) PROVE FlagsTyped'
  <2>1. EnqueueEffect(c)
    BY <1>1, EnqueueEffects
  <2> QED BY <1>1, <2>1 DEF Enqueue, EnqueueEffect, TypeOK, FlagsTyped, PcTyped, OneClose
<1>2. ASSUME NEW c \in Procs, DeadlinePasses(c) \/ GiveUp(c) \/ Return(c) PROVE FlagsTyped'
  BY <1>2 DEF DeadlinePasses, GiveUp, Return, TypeOK, FlagsTyped, PcTyped, OneClose
<1>3. ASSUME NEW c \in Procs, CallerExpires(c) PROVE FlagsTyped'
  <2>1. ExpireEffect(c)
    BY <1>3, ExpireEffects DEF CallerExpires
  <2> QED BY <1>3, <2>1 DEF CallerExpires, ExpireEffect, TypeOK, FlagsTyped, PcTyped, OneClose
<1>4. CASE WriterTakes
  <2>1. TakeEffect
    BY <1>4, TakeEffects
  <2> QED BY <1>4, <2>1 DEF WriterTakes, TakeEffect, TypeOK, FlagsTyped, PcTyped, OneClose
<1>5. CASE WriterExpires
  <2>1. current[Writer] \in Procs /\ ExpireEffect(current[Writer])
    BY <1>5, ExpireEffects DEF WriterExpires, Hands
  <2> QED BY <1>5, <2>1 DEF WriterExpires, ExpireEffect, TypeOK, FlagsTyped, PcTyped, OneClose
<1>6. CASE WriterFinishes
  <2>1. FinishEffect
    BY <1>6, FinishEffects
  <2> QED BY <1>6, <2>1 DEF WriterFinishes, FinishEffect, TypeOK, FlagsTyped, PcTyped, OneClose
<1>7. CASE WriterWakes \/ WriterWrites
  BY <1>7 DEF WriterWakes, WriterWrites, TypeOK, FlagsTyped, PcTyped, OneClose
<1>8. ASSUME NEW c \in Requests, ReaderTakes(c) PROVE FlagsTyped'
  BY <1>8 DEF ReaderTakes, TypeOK, FlagsTyped, PcTyped, OneClose
<1>9. CASE ReaderDelivers
  <2>1. DeliverEffect
    BY <1>9, DeliverEffects
  <2> QED BY <1>9, <2>1 DEF ReaderDelivers, DeliverEffect, TypeOK, FlagsTyped, PcTyped, OneClose
<1>10. CASE ReaderEnds \/ OwnerCloses \/ SetClosedHandler
  <2>1. CASE ReaderEnds \/ OwnerCloses
    BY <2>1 DEF ReaderEnds, OwnerCloses, TypeOK, FlagsTyped
  <2>2. CASE SetClosedHandler
    <3>1. ~handler /\ called = 0
      BY <2>2 DEF SetClosedHandler, TypeOK, FlagsTyped, OneClose
    <3>2. called' \in 0..1
      BY <2>2, <3>1 DEF SetClosedHandler
    <3>3. UNCHANGED <<wake, closed, captured>> /\ handler'
      BY <2>2 DEF SetClosedHandler
    <3> QED BY <3>2, <3>3 DEF TypeOK, FlagsTyped
  <2> QED BY <1>10, <2>1, <2>2
<1>11. ASSUME NEW a \in Actors, CloseLocked(a) PROVE FlagsTyped'
  <2>1. CASE closed
    BY <1>11, <2>1 DEF CloseLocked, AfterClose, TypeOK, FlagsTyped, PcTyped, OneClose
  <2>2. CASE ~closed
    <3>1. CloseEffect(a)
      BY <1>11, <2>2, CloseEffects
    <3> QED BY <2>2, <3>1 DEF CloseEffect, TypeOK, FlagsTyped, PcTyped, OneClose
  <2> QED BY <2>1, <2>2
<1>12. ASSUME NEW a \in Actors, CloseFinishes(a) PROVE FlagsTyped'
  BY <1>12 DEF CloseFinishes, AfterClose, TypeOK, FlagsTyped, PcTyped, OneClose
<1> QED BY <1>1, <1>2, <1>3, <1>4, <1>5, <1>6, <1>7, <1>8, <1>9, <1>10, <1>11, <1>12
    DEF Next, CallStep, WriterStep, ReaderStep, CloseStep

(* ... and the sets.                                                        *)
LEMMA SetsStep == ASSUME Inv, Next PROVE SetsTyped'
<1> USE Distinct DEF books, hook
<1> /\ TypeOK /\ OneReply /\ OneResult /\ StillWaits /\ Hands /\ QueueDistinct /\ QueueTrue
    /\ OneClose /\ UncertainCloses /\ NoLostWakeup /\ Finite /\ Balanced
  BY DEF Inv
<1>1. ASSUME NEW c \in Procs, Enqueue(c) PROVE SetsTyped'
  <2>1. EnqueueEffect(c)
    BY <1>1, EnqueueEffects
  <2> QED BY <1>1, <2>1 DEF Enqueue, EnqueueEffect, TypeOK, SetsTyped
<1>2. ASSUME NEW c \in Procs, DeadlinePasses(c) \/ GiveUp(c) \/ Return(c) PROVE SetsTyped'
  BY <1>2 DEF DeadlinePasses, GiveUp, Return, TypeOK, SetsTyped
<1>3. ASSUME NEW c \in Procs, CallerExpires(c) PROVE SetsTyped'
  <2>1. ExpireEffect(c)
    BY <1>3, ExpireEffects DEF CallerExpires
  <2> QED BY <1>3, <2>1 DEF CallerExpires, ExpireEffect, TypeOK, SetsTyped
<1>4. CASE WriterTakes
  <2>1. TakeEffect
    BY <1>4, TakeEffects
  <2> QED BY <1>4, <2>1 DEF WriterTakes, TakeEffect, TypeOK, SetsTyped
<1>5. CASE WriterExpires
  <2>1. current[Writer] \in Procs /\ ExpireEffect(current[Writer])
    BY <1>5, ExpireEffects DEF WriterExpires, Hands
  <2> QED BY <1>5, <2>1 DEF WriterExpires, ExpireEffect, TypeOK, SetsTyped
<1>6. CASE WriterFinishes
  <2>1. FinishEffect
    BY <1>6, FinishEffects
  <2> QED BY <1>6, <2>1 DEF WriterFinishes, FinishEffect, TypeOK, SetsTyped
<1>7. CASE WriterWakes \/ WriterWrites
  BY <1>7 DEF WriterWakes, WriterWrites, TypeOK, SetsTyped
<1>8. ASSUME NEW c \in Requests, ReaderTakes(c) PROVE SetsTyped'
  BY <1>8 DEF ReaderTakes, TypeOK, SetsTyped
<1>9. CASE ReaderDelivers
  <2>1. DeliverEffect
    BY <1>9, DeliverEffects
  <2> QED BY <1>9, <2>1 DEF ReaderDelivers, DeliverEffect, TypeOK, SetsTyped
<1>10. CASE ReaderEnds \/ OwnerCloses \/ SetClosedHandler
  BY <1>10 DEF ReaderEnds, OwnerCloses, SetClosedHandler, TypeOK, SetsTyped
<1>11. ASSUME NEW a \in Actors, CloseLocked(a) PROVE SetsTyped'
  <2>1. CASE closed
    BY <1>11, <2>1 DEF CloseLocked, AfterClose, TypeOK, SetsTyped
  <2>2. CASE ~closed
    <3>1. CloseEffect(a)
      BY <1>11, <2>2, CloseEffects
    <3> QED BY <2>2, <3>1 DEF CloseEffect, TypeOK, SetsTyped
  <2> QED BY <2>1, <2>2
<1>12. ASSUME NEW a \in Actors, CloseFinishes(a) PROVE SetsTyped'
  BY <1>12 DEF CloseFinishes, AfterClose, TypeOK, SetsTyped
<1> QED BY <1>1, <1>2, <1>3, <1>4, <1>5, <1>6, <1>7, <1>8, <1>9, <1>10, <1>11, <1>12
    DEF Next, CallStep, WriterStep, ReaderStep, CloseStep

(* A reply channel gets one value.                                          *)
LEMMA ReplyStep == ASSUME Inv, Next PROVE OneReply'
<1> USE Distinct DEF books, hook
<1> /\ TypeOK /\ OneReply /\ OneResult /\ StillWaits /\ Hands /\ QueueDistinct /\ QueueTrue
    /\ OneClose /\ UncertainCloses /\ NoLostWakeup /\ Finite /\ Balanced
  BY DEF Inv
<1>1. ASSUME NEW c \in Procs, Enqueue(c) PROVE OneReply'
  <2>1. EnqueueEffect(c)
    BY <1>1, EnqueueEffects
  <2> QED BY <1>1, <2>1
      DEF Enqueue, EnqueueEffect, OneReply, TypeOK, SetsTyped, ChannelsTyped, BooksTyped, StillWaits, Hands
<1>2. ASSUME NEW c \in Procs, DeadlinePasses(c) \/ GiveUp(c) \/ Return(c) PROVE OneReply'
  BY <1>2
      DEF DeadlinePasses, GiveUp, Return, OneReply, TypeOK, SetsTyped, ChannelsTyped, BooksTyped, StillWaits, Hands
<1>3. ASSUME NEW c \in Procs, CallerExpires(c) PROVE OneReply'
  <2>1. ExpireEffect(c)
    BY <1>3, ExpireEffects DEF CallerExpires
  <2> QED BY <1>3, <2>1
      DEF CallerExpires, ExpireEffect, OneReply, TypeOK, SetsTyped, ChannelsTyped, BooksTyped, StillWaits, Hands
<1>4. CASE WriterTakes
  <2>1. TakeEffect
    BY <1>4, TakeEffects
  <2> QED BY <1>4, <2>1
      DEF WriterTakes, TakeEffect, OneReply, TypeOK, SetsTyped, ChannelsTyped, BooksTyped, StillWaits, Hands
<1>5. CASE WriterExpires
  <2>1. current[Writer] \in Procs /\ ExpireEffect(current[Writer])
    BY <1>5, ExpireEffects DEF WriterExpires, Hands
  <2> QED BY <1>5, <2>1
      DEF WriterExpires, ExpireEffect, OneReply, TypeOK, SetsTyped, ChannelsTyped, BooksTyped, StillWaits, Hands
<1>6. CASE WriterFinishes
  <2>1. FinishEffect
    BY <1>6, FinishEffects
  <2> QED BY <1>6, <2>1
      DEF WriterFinishes, FinishEffect, OneReply, TypeOK, SetsTyped, ChannelsTyped, BooksTyped, StillWaits, Hands
<1>7. CASE WriterWakes \/ WriterWrites
  BY <1>7 DEF WriterWakes, WriterWrites, OneReply, TypeOK, SetsTyped, ChannelsTyped, BooksTyped, StillWaits, Hands
<1>8. ASSUME NEW c \in Requests, ReaderTakes(c) PROVE OneReply'
  BY <1>8 DEF ReaderTakes, OneReply, TypeOK, SetsTyped, ChannelsTyped, BooksTyped, StillWaits, Hands
<1>9. CASE ReaderDelivers
  <2>1. DeliverEffect
    BY <1>9, DeliverEffects
  <2> QED BY <1>9, <2>1
      DEF ReaderDelivers, DeliverEffect, OneReply, TypeOK, SetsTyped, ChannelsTyped, BooksTyped, StillWaits, Hands
<1>10. CASE ReaderEnds \/ OwnerCloses \/ SetClosedHandler
  BY <1>10
      DEF ReaderEnds, OwnerCloses, SetClosedHandler, OneReply, TypeOK, SetsTyped, ChannelsTyped, BooksTyped, StillWaits, Hands
<1>11. ASSUME NEW a \in Actors, CloseLocked(a) PROVE OneReply'
  <2>1. CASE closed
    BY <1>11, <2>1
        DEF CloseLocked, AfterClose, OneReply, TypeOK, SetsTyped, ChannelsTyped, BooksTyped, StillWaits, Hands
  <2>2. CASE ~closed
    <3>1. CloseEffect(a)
      BY <1>11, <2>2, CloseEffects
    <3> QED BY <2>2, <3>1 DEF CloseEffect, OneReply, TypeOK, SetsTyped, ChannelsTyped, BooksTyped, StillWaits, Hands
  <2> QED BY <2>1, <2>2
<1>12. ASSUME NEW a \in Actors, CloseFinishes(a) PROVE OneReply'
  BY <1>12 DEF CloseFinishes, AfterClose, OneReply, TypeOK, SetsTyped, ChannelsTyped, BooksTyped, StillWaits, Hands
<1> QED BY <1>1, <1>2, <1>3, <1>4, <1>5, <1>6, <1>7, <1>8, <1>9, <1>10, <1>11, <1>12
    DEF Next, CallStep, WriterStep, ReaderStep, CloseStep

(* A result channel gets one value.                                         *)
LEMMA ResultStep == ASSUME Inv, Next PROVE OneResult'
<1> USE Distinct DEF books, hook
<1> /\ TypeOK /\ OneReply /\ OneResult /\ StillWaits /\ Hands /\ QueueDistinct /\ QueueTrue
    /\ OneClose /\ UncertainCloses /\ NoLostWakeup /\ Finite /\ Balanced
  BY DEF Inv
<1>1. ASSUME NEW c \in Procs, Enqueue(c) PROVE OneResult'
  <2>1. EnqueueEffect(c)
    BY <1>1, EnqueueEffects
  <2> QED BY <1>1, <2>1 DEF Enqueue, EnqueueEffect, OneResult, TypeOK, BooksTyped, ChannelsTyped
<1>2. ASSUME NEW c \in Procs, DeadlinePasses(c) \/ GiveUp(c) \/ Return(c) PROVE OneResult'
  BY <1>2 DEF DeadlinePasses, GiveUp, Return, OneResult, TypeOK, BooksTyped, ChannelsTyped
<1>3. ASSUME NEW c \in Procs, CallerExpires(c) PROVE OneResult'
  <2>1. ExpireEffect(c)
    BY <1>3, ExpireEffects DEF CallerExpires
  <2> QED BY <1>3, <2>1 DEF CallerExpires, ExpireEffect, OneResult, TypeOK, BooksTyped, ChannelsTyped
<1>4. CASE WriterTakes
  <2>1. TakeEffect
    BY <1>4, TakeEffects
  <2> QED BY <1>4, <2>1 DEF WriterTakes, TakeEffect, OneResult, TypeOK, BooksTyped, ChannelsTyped
<1>5. CASE WriterExpires
  <2>1. current[Writer] \in Procs /\ ExpireEffect(current[Writer])
    BY <1>5, ExpireEffects DEF WriterExpires, Hands
  <2> QED BY <1>5, <2>1 DEF WriterExpires, ExpireEffect, OneResult, TypeOK, BooksTyped, ChannelsTyped
<1>6. CASE WriterFinishes
  <2>1. FinishEffect
    BY <1>6, FinishEffects
  <2> QED BY <1>6, <2>1 DEF WriterFinishes, FinishEffect, OneResult, TypeOK, BooksTyped, ChannelsTyped
<1>7. CASE WriterWakes \/ WriterWrites
  BY <1>7 DEF WriterWakes, WriterWrites, OneResult, TypeOK, BooksTyped, ChannelsTyped
<1>8. ASSUME NEW c \in Requests, ReaderTakes(c) PROVE OneResult'
  BY <1>8 DEF ReaderTakes, OneResult, TypeOK, BooksTyped, ChannelsTyped
<1>9. CASE ReaderDelivers
  <2>1. DeliverEffect
    BY <1>9, DeliverEffects
  <2> QED BY <1>9, <2>1 DEF ReaderDelivers, DeliverEffect, OneResult, TypeOK, BooksTyped, ChannelsTyped
<1>10. CASE ReaderEnds \/ OwnerCloses \/ SetClosedHandler
  BY <1>10 DEF ReaderEnds, OwnerCloses, SetClosedHandler, OneResult, TypeOK, BooksTyped, ChannelsTyped
<1>11. ASSUME NEW a \in Actors, CloseLocked(a) PROVE OneResult'
  <2>1. CASE closed
    BY <1>11, <2>1 DEF CloseLocked, AfterClose, OneResult, TypeOK, BooksTyped, ChannelsTyped
  <2>2. CASE ~closed
    <3>1. CloseEffect(a)
      BY <1>11, <2>2, CloseEffects
    <3> QED BY <2>2, <3>1 DEF CloseEffect, OneResult, TypeOK, BooksTyped, ChannelsTyped
  <2> QED BY <2>1, <2>2
<1>12. ASSUME NEW a \in Actors, CloseFinishes(a) PROVE OneResult'
  BY <1>12 DEF CloseFinishes, AfterClose, OneResult, TypeOK, BooksTyped, ChannelsTyped
<1> QED BY <1>1, <1>2, <1>3, <1>4, <1>5, <1>6, <1>7, <1>8, <1>9, <1>10, <1>11, <1>12
    DEF Next, CallStep, WriterStep, ReaderStep, CloseStep

(* Who is registered or queued still waits.                                 *)
LEMMA WaitsStep == ASSUME Inv, Next PROVE StillWaits'
<1> USE Distinct DEF books, hook
<1> /\ TypeOK /\ OneReply /\ OneResult /\ StillWaits /\ Hands /\ QueueDistinct /\ QueueTrue
    /\ OneClose /\ UncertainCloses /\ NoLostWakeup /\ Finite /\ Balanced
  BY DEF Inv
<1>1. ASSUME NEW c \in Procs, Enqueue(c) PROVE StillWaits'
  <2>1. EnqueueEffect(c)
    BY <1>1, EnqueueEffects
  <2> QED BY <1>1, <2>1
      DEF Enqueue, EnqueueEffect, StillWaits, TypeOK, PcTyped, BooksTyped, SetsTyped, Hands, OneResult
<1>2. ASSUME NEW c \in Procs, DeadlinePasses(c) \/ GiveUp(c) \/ Return(c) PROVE StillWaits'
  <2>1. CASE DeadlinePasses(c) \/ GiveUp(c)
    BY <2>1 DEF DeadlinePasses, GiveUp, StillWaits, TypeOK, PcTyped, BooksTyped, SetsTyped
  <2>2. CASE Return(c)
    <3>1. c \notin pending /\ state[c] # "queued"
      BY <2>2 DEF Return, Channel, OneReply, OneResult, StillWaits, TypeOK, BooksTyped
    <3> QED BY <2>2, <3>1 DEF Return, StillWaits, TypeOK, PcTyped, BooksTyped, SetsTyped
  <2> QED BY <1>2, <2>1, <2>2
<1>3. ASSUME NEW c \in Procs, CallerExpires(c) PROVE StillWaits'
  <2>1. ExpireEffect(c)
    BY <1>3, ExpireEffects DEF CallerExpires
  <2> QED BY <1>3, <2>1
      DEF CallerExpires, ExpireEffect, StillWaits, TypeOK, PcTyped, BooksTyped, SetsTyped, Hands, OneResult
<1>4. CASE WriterTakes
  <2>1. TakeEffect
    BY <1>4, TakeEffects
  <2> QED BY <1>4, <2>1
      DEF WriterTakes, TakeEffect, StillWaits, TypeOK, PcTyped, BooksTyped, SetsTyped, Hands, OneResult
<1>5. CASE WriterExpires
  <2>1. current[Writer] \in Procs /\ ExpireEffect(current[Writer])
    BY <1>5, ExpireEffects DEF WriterExpires, Hands
  <2> QED BY <1>5, <2>1
      DEF WriterExpires, ExpireEffect, StillWaits, TypeOK, PcTyped, BooksTyped, SetsTyped, Hands, OneResult
<1>6. CASE WriterFinishes
  <2>1. FinishEffect
    BY <1>6, FinishEffects
  <2> QED BY <1>6, <2>1
      DEF WriterFinishes, FinishEffect, StillWaits, TypeOK, PcTyped, BooksTyped, SetsTyped, Hands, OneResult
<1>7. CASE WriterWakes \/ WriterWrites
  BY <1>7 DEF WriterWakes, WriterWrites, StillWaits, TypeOK, PcTyped, BooksTyped, SetsTyped, Hands, OneResult
<1>8. ASSUME NEW c \in Requests, ReaderTakes(c) PROVE StillWaits'
  BY <1>8 DEF ReaderTakes, StillWaits, TypeOK, PcTyped, BooksTyped, SetsTyped, Hands, OneResult
<1>9. CASE ReaderDelivers
  <2>1. DeliverEffect
    BY <1>9, DeliverEffects
  <2> QED BY <1>9, <2>1
      DEF ReaderDelivers, DeliverEffect, StillWaits, TypeOK, PcTyped, BooksTyped, SetsTyped, Hands, OneResult
<1>10. CASE ReaderEnds \/ OwnerCloses \/ SetClosedHandler
  BY <1>10
      DEF ReaderEnds, OwnerCloses, SetClosedHandler, StillWaits, TypeOK, PcTyped, BooksTyped, SetsTyped, Hands, OneResult
<1>11. ASSUME NEW a \in Actors, CloseLocked(a) PROVE StillWaits'
  <2>1. CASE closed
    BY <1>11, <2>1 DEF CloseLocked, AfterClose, StillWaits, TypeOK, PcTyped, BooksTyped, SetsTyped, Hands, OneResult
  <2>2. CASE ~closed
    <3>1. CloseEffect(a)
      BY <1>11, <2>2, CloseEffects
    <3> QED BY <2>2, <3>1 DEF CloseEffect, StillWaits, TypeOK, PcTyped, BooksTyped, SetsTyped, Hands, OneResult
  <2> QED BY <2>1, <2>2
<1>12. ASSUME NEW a \in Actors, CloseFinishes(a) PROVE StillWaits'
  BY <1>12 DEF CloseFinishes, AfterClose, StillWaits, TypeOK, PcTyped, BooksTyped, SetsTyped, Hands, OneResult
<1> QED BY <1>1, <1>2, <1>3, <1>4, <1>5, <1>6, <1>7, <1>8, <1>9, <1>10, <1>11, <1>12
    DEF Next, CallStep, WriterStep, ReaderStep, CloseStep

(* The loops hold what they work on.                                        *)
LEMMA HandsStep == ASSUME Inv, Next PROVE Hands'
<1> USE Distinct DEF books, hook
<1> /\ TypeOK /\ OneReply /\ OneResult /\ StillWaits /\ Hands /\ QueueDistinct /\ QueueTrue
    /\ OneClose /\ UncertainCloses /\ NoLostWakeup /\ Finite /\ Balanced
  BY DEF Inv
<1>1. ASSUME NEW c \in Procs, Enqueue(c) PROVE Hands'
  <2>1. EnqueueEffect(c)
    BY <1>1, EnqueueEffects
  <2> QED BY <1>1, <2>1 DEF Enqueue, EnqueueEffect, Hands, TypeOK, PcTyped, BooksTyped, SetsTyped
<1>2. ASSUME NEW c \in Procs, DeadlinePasses(c) \/ GiveUp(c) \/ Return(c) PROVE Hands'
  BY <1>2 DEF DeadlinePasses, GiveUp, Return, Hands, TypeOK, PcTyped, BooksTyped, SetsTyped
<1>3. ASSUME NEW c \in Procs, CallerExpires(c) PROVE Hands'
  <2>1. ExpireEffect(c)
    BY <1>3, ExpireEffects DEF CallerExpires
  <2> QED BY <1>3, <2>1 DEF CallerExpires, ExpireEffect, Hands, TypeOK, PcTyped, BooksTyped, SetsTyped
<1>4. CASE WriterTakes
  <2>1. TakeEffect
    BY <1>4, TakeEffects
  <2> QED BY <1>4, <2>1 DEF WriterTakes, TakeEffect, Hands, TypeOK, PcTyped, BooksTyped, SetsTyped
<1>5. CASE WriterExpires
  <2>1. current[Writer] \in Procs /\ ExpireEffect(current[Writer])
    BY <1>5, ExpireEffects DEF WriterExpires, Hands
  <2> QED BY <1>5, <2>1 DEF WriterExpires, ExpireEffect, Hands, TypeOK, PcTyped, BooksTyped, SetsTyped
<1>6. CASE WriterFinishes
  <2>1. FinishEffect
    BY <1>6, FinishEffects
  <2> QED BY <1>6, <2>1 DEF WriterFinishes, FinishEffect, Hands, TypeOK, PcTyped, BooksTyped, SetsTyped
<1>7. CASE WriterWakes \/ WriterWrites
  BY <1>7 DEF WriterWakes, WriterWrites, Hands, TypeOK, PcTyped, BooksTyped, SetsTyped
<1>8. ASSUME NEW c \in Requests, ReaderTakes(c) PROVE Hands'
  BY <1>8 DEF ReaderTakes, Hands, TypeOK, PcTyped, BooksTyped, SetsTyped
<1>9. CASE ReaderDelivers
  <2>1. DeliverEffect
    BY <1>9, DeliverEffects
  <2> QED BY <1>9, <2>1 DEF ReaderDelivers, DeliverEffect, Hands, TypeOK, PcTyped, BooksTyped, SetsTyped
<1>10. CASE ReaderEnds \/ OwnerCloses \/ SetClosedHandler
  BY <1>10 DEF ReaderEnds, OwnerCloses, SetClosedHandler, Hands, TypeOK, PcTyped, BooksTyped, SetsTyped
<1>11. ASSUME NEW a \in Actors, CloseLocked(a) PROVE Hands'
  <2>1. CASE closed
    BY <1>11, <2>1 DEF CloseLocked, AfterClose, Hands, TypeOK, PcTyped, BooksTyped, SetsTyped
  <2>2. CASE ~closed
    <3>1. CloseEffect(a)
      BY <1>11, <2>2, CloseEffects
    <3> QED BY <2>2, <3>1 DEF CloseEffect, Hands, TypeOK, PcTyped, BooksTyped, SetsTyped
  <2> QED BY <2>1, <2>2
<1>12. ASSUME NEW a \in Actors, CloseFinishes(a) PROVE Hands'
  BY <1>12 DEF CloseFinishes, AfterClose, Hands, TypeOK, PcTyped, BooksTyped, SetsTyped
<1> QED BY <1>1, <1>2, <1>3, <1>4, <1>5, <1>6, <1>7, <1>8, <1>9, <1>10, <1>11, <1>12
    DEF Next, CallStep, WriterStep, ReaderStep, CloseStep

(* One closer, one run of the handler.                                      *)
LEMMA CloseStepsOnce == ASSUME Inv, Next PROVE OneClose'
<1> USE Distinct DEF books, hook
<1> /\ TypeOK /\ OneReply /\ OneResult /\ StillWaits /\ Hands /\ QueueDistinct /\ QueueTrue
    /\ OneClose /\ UncertainCloses /\ NoLostWakeup /\ Finite /\ Balanced
  BY DEF Inv
<1>1. ASSUME NEW c \in Procs, Enqueue(c) PROVE OneClose'
  <2>1. EnqueueEffect(c)
    BY <1>1, EnqueueEffects
  <2> QED BY <1>1, <2>1 DEF Enqueue, EnqueueEffect, OneClose, TypeOK, PcTyped, FlagsTyped
<1>2. ASSUME NEW c \in Procs, DeadlinePasses(c) \/ GiveUp(c) \/ Return(c) PROVE OneClose'
  BY <1>2 DEF DeadlinePasses, GiveUp, Return, OneClose, TypeOK, PcTyped, FlagsTyped
<1>3. ASSUME NEW c \in Procs, CallerExpires(c) PROVE OneClose'
  <2>1. ExpireEffect(c)
    BY <1>3, ExpireEffects DEF CallerExpires
  <2> QED BY <1>3, <2>1 DEF CallerExpires, ExpireEffect, OneClose, TypeOK, PcTyped, FlagsTyped
<1>4. CASE WriterTakes
  <2>1. TakeEffect
    BY <1>4, TakeEffects
  <2> QED BY <1>4, <2>1 DEF WriterTakes, TakeEffect, OneClose, TypeOK, PcTyped, FlagsTyped
<1>5. CASE WriterExpires
  <2>1. current[Writer] \in Procs /\ ExpireEffect(current[Writer])
    BY <1>5, ExpireEffects DEF WriterExpires, Hands
  <2> QED BY <1>5, <2>1 DEF WriterExpires, ExpireEffect, OneClose, TypeOK, PcTyped, FlagsTyped
<1>6. CASE WriterFinishes
  <2>1. FinishEffect
    BY <1>6, FinishEffects
  <2> QED BY <1>6, <2>1 DEF WriterFinishes, FinishEffect, OneClose, TypeOK, PcTyped, FlagsTyped
<1>7. CASE WriterWakes \/ WriterWrites
  BY <1>7 DEF WriterWakes, WriterWrites, OneClose, TypeOK, PcTyped, FlagsTyped
<1>8. ASSUME NEW c \in Requests, ReaderTakes(c) PROVE OneClose'
  BY <1>8 DEF ReaderTakes, OneClose, TypeOK, PcTyped, FlagsTyped
<1>9. CASE ReaderDelivers
  <2>1. DeliverEffect
    BY <1>9, DeliverEffects
  <2> QED BY <1>9, <2>1 DEF ReaderDelivers, DeliverEffect, OneClose, TypeOK, PcTyped, FlagsTyped
<1>10. CASE ReaderEnds \/ OwnerCloses \/ SetClosedHandler
  BY <1>10 DEF ReaderEnds, OwnerCloses, SetClosedHandler, OneClose, TypeOK, PcTyped, FlagsTyped
<1>11. ASSUME NEW a \in Actors, CloseLocked(a) PROVE OneClose'
  <2>1. CASE closed
    BY <1>11, <2>1 DEF CloseLocked, AfterClose, OneClose, TypeOK, PcTyped, FlagsTyped
  <2>2. CASE ~closed
    <3>1. CloseEffect(a)
      BY <1>11, <2>2, CloseEffects
    <3> QED BY <2>2, <3>1 DEF CloseEffect, OneClose, TypeOK, PcTyped, FlagsTyped
  <2> QED BY <2>1, <2>2
<1>12. ASSUME NEW a \in Actors, CloseFinishes(a) PROVE OneClose'
  BY <1>12 DEF CloseFinishes, AfterClose, OneClose, TypeOK, PcTyped, FlagsTyped
<1> QED BY <1>1, <1>2, <1>3, <1>4, <1>5, <1>6, <1>7, <1>8, <1>9, <1>10, <1>11, <1>12
    DEF Next, CallStep, WriterStep, ReaderStep, CloseStep

(* An uncertain write closes the transport.                                 *)
LEMMA UncertainStep == ASSUME Inv, Next PROVE UncertainCloses'
<1> USE Distinct DEF books, hook
<1> /\ TypeOK /\ OneReply /\ OneResult /\ StillWaits /\ Hands /\ QueueDistinct /\ QueueTrue
    /\ OneClose /\ UncertainCloses /\ NoLostWakeup /\ Finite /\ Balanced
  BY DEF Inv
<1>1. ASSUME NEW c \in Procs, Enqueue(c) PROVE UncertainCloses'
  <2>1. EnqueueEffect(c)
    BY <1>1, EnqueueEffects
  <2> QED BY <1>1, <2>1 DEF Enqueue, EnqueueEffect, UncertainCloses, TypeOK, PcTyped, SetsTyped
<1>2. ASSUME NEW c \in Procs, DeadlinePasses(c) \/ GiveUp(c) \/ Return(c) PROVE UncertainCloses'
  BY <1>2 DEF DeadlinePasses, GiveUp, Return, UncertainCloses, TypeOK, PcTyped, SetsTyped
<1>3. ASSUME NEW c \in Procs, CallerExpires(c) PROVE UncertainCloses'
  <2>1. UNCHANGED closed /\ uncertain' \subseteq uncertain \cup {c} /\ pc[c] = "expire"
    BY <1>3 DEF CallerExpires
  <2>2. c \in uncertain' => c \in uncertain \/ pc'[c] = "close"
    BY <1>3 DEF CallerExpires, CloseNeeded, TypeOK, PcTyped
  <2>3. \A d \in Procs : d # c => pc'[d] = pc[d]
    BY <1>3 DEF CallerExpires, TypeOK, PcTyped
  <2> QED BY <2>1, <2>2, <2>3 DEF UncertainCloses, TypeOK, SetsTyped
<1>4. CASE WriterTakes
  <2>1. TakeEffect
    BY <1>4, TakeEffects
  <2> QED BY <1>4, <2>1 DEF WriterTakes, TakeEffect, UncertainCloses, TypeOK, PcTyped, SetsTyped
<1>5. CASE WriterExpires
  <2>1. current[Writer] \in Procs /\ ExpireEffect(current[Writer])
    BY <1>5, ExpireEffects DEF WriterExpires, Hands
  <2> QED BY <1>5, <2>1 DEF WriterExpires, ExpireEffect, UncertainCloses, TypeOK, PcTyped, SetsTyped
<1>6. CASE WriterFinishes
  <2>1. FinishEffect
    BY <1>6, FinishEffects
  <2> QED BY <1>6, <2>1 DEF WriterFinishes, FinishEffect, UncertainCloses, TypeOK, PcTyped, SetsTyped
<1>7. CASE WriterWakes \/ WriterWrites
  BY <1>7 DEF WriterWakes, WriterWrites, UncertainCloses, TypeOK, PcTyped, SetsTyped
<1>8. ASSUME NEW c \in Requests, ReaderTakes(c) PROVE UncertainCloses'
  BY <1>8 DEF ReaderTakes, UncertainCloses, TypeOK, PcTyped, SetsTyped
<1>9. CASE ReaderDelivers
  <2>1. DeliverEffect
    BY <1>9, DeliverEffects
  <2> QED BY <1>9, <2>1 DEF ReaderDelivers, DeliverEffect, UncertainCloses, TypeOK, PcTyped, SetsTyped
<1>10. CASE ReaderEnds \/ OwnerCloses \/ SetClosedHandler
  BY <1>10 DEF ReaderEnds, OwnerCloses, SetClosedHandler, UncertainCloses, TypeOK, PcTyped, SetsTyped
<1>11. ASSUME NEW a \in Actors, CloseLocked(a) PROVE UncertainCloses'
  <2>1. CASE closed
    BY <1>11, <2>1 DEF CloseLocked, AfterClose, UncertainCloses, TypeOK, PcTyped, SetsTyped
  <2>2. CASE ~closed
    <3>1. CloseEffect(a)
      BY <1>11, <2>2, CloseEffects
    <3> QED BY <2>2, <3>1 DEF CloseEffect, UncertainCloses, TypeOK, PcTyped, SetsTyped
  <2> QED BY <2>1, <2>2
<1>12. ASSUME NEW a \in Actors, CloseFinishes(a) PROVE UncertainCloses'
  BY <1>12 DEF CloseFinishes, AfterClose, UncertainCloses, TypeOK, PcTyped, SetsTyped
<1> QED BY <1>1, <1>2, <1>3, <1>4, <1>5, <1>6, <1>7, <1>8, <1>9, <1>10, <1>11, <1>12
    DEF Next, CallStep, WriterStep, ReaderStep, CloseStep

(* The queue as the set of what it holds.                                   *)
QueueHolds ==
  /\ DistinctIn(queue)
  /\ \A c \in Procs : InQueue(queue, c) => state[c] = "queued"
  /\ \A c \in writes : state[c] = "queued" => c = current[Writer] \/ InQueue(queue, c)
LEMMA QueueHoldsNow == ASSUME TypeOK, QueueTrue, QueueDistinct PROVE QueueHolds
  BY DEF TypeOK, BooksTyped, QueueTrue, QueueDistinct, QueueHolds, InQueue, DistinctIn

(* What is queued is marked so, and the other way round.                    *)
LEMMA QueueStep == ASSUME Inv, Next PROVE QueueHolds'
<1> USE Distinct DEF books, hook
<1> QueueHolds
  BY QueueHoldsNow DEF Inv
<1> /\ TypeOK /\ OneReply /\ OneResult /\ StillWaits /\ Hands /\ QueueDistinct /\ QueueTrue
    /\ OneClose /\ UncertainCloses /\ NoLostWakeup /\ Finite /\ Balanced
  BY DEF Inv
<1>1. ASSUME NEW c \in Procs, Enqueue(c) PROVE QueueHolds'
  <2>1. EnqueueEffect(c)
    BY <1>1, EnqueueEffects
  <2> QED BY <1>1, <2>1 DEF Enqueue, EnqueueEffect, QueueHolds, TypeOK, BooksTyped, SetsTyped, OneResult
<1>2. ASSUME NEW c \in Procs, DeadlinePasses(c) \/ GiveUp(c) \/ Return(c) PROVE QueueHolds'
  BY <1>2 DEF DeadlinePasses, GiveUp, Return, QueueHolds, TypeOK, BooksTyped, SetsTyped, OneResult
<1>3. ASSUME NEW c \in Procs, CallerExpires(c) PROVE QueueHolds'
  <2>1. ExpireEffect(c)
    BY <1>3, ExpireEffects DEF CallerExpires
  <2> QED BY <1>3, <2>1 DEF CallerExpires, ExpireEffect, QueueHolds, TypeOK, BooksTyped, SetsTyped, OneResult
<1>4. CASE WriterTakes
  <2>1. TakeEffect /\ current[Writer] = None
    BY <1>4, TakeEffects DEF WriterTakes, Hands
  <2> QED BY <1>4, <2>1 DEF WriterTakes, TakeEffect, QueueHolds, TypeOK, BooksTyped, SetsTyped
<1>5. CASE WriterExpires
  <2>1. current[Writer] \in Procs /\ ExpireEffect(current[Writer])
    BY <1>5, ExpireEffects DEF WriterExpires, Hands
  <2>2. state'[current[Writer]] # "queued"
    BY <2>1 DEF ExpireEffect, TypeOK, BooksTyped
  <2> QED BY <1>5, <2>1, <2>2 DEF WriterExpires, ExpireEffect, QueueHolds, TypeOK, BooksTyped, SetsTyped
<1>6. CASE WriterFinishes
  <2>1. FinishEffect
    BY <1>6, FinishEffects
  <2> QED BY <1>6, <2>1 DEF WriterFinishes, FinishEffect, QueueHolds, TypeOK, BooksTyped, SetsTyped, OneResult
<1>7. CASE WriterWakes \/ WriterWrites
  BY <1>7 DEF WriterWakes, WriterWrites, QueueHolds, TypeOK, BooksTyped, SetsTyped, OneResult
<1>8. ASSUME NEW c \in Requests, ReaderTakes(c) PROVE QueueHolds'
  BY <1>8 DEF ReaderTakes, QueueHolds, TypeOK, BooksTyped, SetsTyped, OneResult
<1>9. CASE ReaderDelivers
  <2>1. DeliverEffect
    BY <1>9, DeliverEffects
  <2> QED BY <1>9, <2>1 DEF ReaderDelivers, DeliverEffect, QueueHolds, TypeOK, BooksTyped, SetsTyped, OneResult
<1>10. CASE ReaderEnds \/ OwnerCloses \/ SetClosedHandler
  BY <1>10 DEF ReaderEnds, OwnerCloses, SetClosedHandler, QueueHolds, TypeOK, BooksTyped, SetsTyped, OneResult
<1>11. ASSUME NEW a \in Actors, CloseLocked(a) PROVE QueueHolds'
  <2>1. CASE closed
    BY <1>11, <2>1 DEF CloseLocked, AfterClose, QueueHolds
  <2>2. CASE ~closed
    <3>1. CloseEffect(a)
      BY <1>11, <2>2, CloseEffects
    <3>2. queue' = << >> /\ writes' = {} /\ Len(<< >>) = 0
      BY <3>1 DEF CloseEffect
    <3> QED BY <3>2 DEF QueueHolds, DistinctIn, InQueue
  <2> QED BY <2>1, <2>2
<1>12. ASSUME NEW a \in Actors, CloseFinishes(a) PROVE QueueHolds'
  BY <1>12 DEF CloseFinishes, AfterClose, QueueHolds, TypeOK, BooksTyped, SetsTyped, OneResult
<1> QED BY <1>1, <1>2, <1>3, <1>4, <1>5, <1>6, <1>7, <1>8, <1>9, <1>10, <1>11, <1>12
    DEF Next, CallStep, WriterStep, ReaderStep, CloseStep

(* The writer is not left asleep.                                           *)
LEMMA WakeupStep == ASSUME Inv, Next PROVE NoLostWakeup'
<1> USE Distinct DEF books, hook
<1> /\ TypeOK /\ OneReply /\ OneResult /\ StillWaits /\ Hands /\ QueueDistinct /\ QueueTrue
    /\ OneClose /\ UncertainCloses /\ NoLostWakeup /\ Finite /\ Balanced
  BY DEF Inv
<1>1. ASSUME NEW c \in Procs, Enqueue(c) PROVE NoLostWakeup'
  <2>1. pc[Writer]' = pc[Writer] /\ pc[c] = "idle" /\ \A b \in Actors : b # c => pc'[b] = pc[b]
    BY <1>1 DEF Enqueue, TypeOK, PcTyped
  <2>2. wake' \/ UNCHANGED <<queue, wake>>
    BY <1>1 DEF Enqueue
  <2>3. UNCHANGED closed
    BY <1>1 DEF Enqueue
  <2> QED BY <2>1, <2>2, <2>3 DEF NoLostWakeup
<1>2. ASSUME NEW c \in Procs, DeadlinePasses(c) \/ GiveUp(c) \/ Return(c) PROVE NoLostWakeup'
  BY <1>2 DEF DeadlinePasses, GiveUp, Return, NoLostWakeup, TypeOK, PcTyped, FlagsTyped, OneClose
<1>3. ASSUME NEW c \in Procs, CallerExpires(c) PROVE NoLostWakeup'
  <2>1. pc[Writer]' = pc[Writer] /\ pc[c] = "expire" /\ \A b \in Actors : b # c => pc'[b] = pc[b]
    BY <1>3 DEF CallerExpires, TypeOK, PcTyped
  <2>2. UNCHANGED <<closed, wake>>
    BY <1>3 DEF CallerExpires
  <2>3. queue' # << >> => queue # << >>
    <3>1. ExpireEffect(c)
      BY <1>3, ExpireEffects DEF CallerExpires
    <3>2. ASSUME queue' # << >> PROVE queue # << >>
      <4>1. queue' \in Seq(Procs) /\ queue \in Seq(Procs)
        BY <3>1 DEF ExpireEffect, TypeOK, BooksTyped
      <4>2. 1 \in 1..Len(queue') /\ queue'[1] \in Procs
        BY <3>2, <4>1
      <4>3. InQueue(queue', queue'[1])
        BY <4>2 DEF InQueue
      <4>4. InQueue(queue, queue'[1])
        BY <3>1, <4>2, <4>3 DEF ExpireEffect
      <4> QED BY <4>4 DEF InQueue
    <3> QED BY <3>2
  <2> QED BY <2>1, <2>2, <2>3 DEF NoLostWakeup
<1>4. CASE WriterTakes
  <2>1. TakeEffect
    BY <1>4, TakeEffects
  <2> QED BY <1>4, <2>1 DEF WriterTakes, TakeEffect, NoLostWakeup, TypeOK, PcTyped, FlagsTyped, OneClose
<1>5. CASE WriterExpires
  <2>1. current[Writer] \in Procs /\ ExpireEffect(current[Writer])
    BY <1>5, ExpireEffects DEF WriterExpires, Hands
  <2> QED BY <1>5, <2>1 DEF WriterExpires, ExpireEffect, NoLostWakeup, TypeOK, PcTyped, FlagsTyped, OneClose
<1>6. CASE WriterFinishes
  <2>1. FinishEffect
    BY <1>6, FinishEffects
  <2> QED BY <1>6, <2>1 DEF WriterFinishes, FinishEffect, NoLostWakeup, TypeOK, PcTyped, FlagsTyped, OneClose
<1>7. CASE WriterWakes \/ WriterWrites
  BY <1>7 DEF WriterWakes, WriterWrites, NoLostWakeup, TypeOK, PcTyped, FlagsTyped, OneClose
<1>8. ASSUME NEW c \in Requests, ReaderTakes(c) PROVE NoLostWakeup'
  BY <1>8 DEF ReaderTakes, NoLostWakeup, TypeOK, PcTyped, FlagsTyped, OneClose
<1>9. CASE ReaderDelivers
  <2>1. DeliverEffect
    BY <1>9, DeliverEffects
  <2> QED BY <1>9, <2>1 DEF ReaderDelivers, DeliverEffect, NoLostWakeup, TypeOK, PcTyped, FlagsTyped, OneClose
<1>10. CASE ReaderEnds \/ OwnerCloses \/ SetClosedHandler
  BY <1>10 DEF ReaderEnds, OwnerCloses, SetClosedHandler, NoLostWakeup, TypeOK, PcTyped, FlagsTyped, OneClose
<1>11. ASSUME NEW a \in Actors, CloseLocked(a) PROVE NoLostWakeup'
  <2>1. CASE closed
    BY <1>11, <2>1 DEF CloseLocked, AfterClose, NoLostWakeup, TypeOK, PcTyped, FlagsTyped, OneClose
  <2>2. CASE ~closed
    <3>1. CloseEffect(a)
      BY <1>11, <2>2, CloseEffects
    <3> QED BY <2>2, <3>1 DEF CloseEffect, NoLostWakeup, TypeOK, PcTyped, FlagsTyped, OneClose
  <2> QED BY <2>1, <2>2
<1>12. ASSUME NEW a \in Actors, CloseFinishes(a) PROVE NoLostWakeup'
  BY <1>12 DEF CloseFinishes, AfterClose, NoLostWakeup, TypeOK, PcTyped, FlagsTyped, OneClose
<1> QED BY <1>1, <1>2, <1>3, <1>4, <1>5, <1>6, <1>7, <1>8, <1>9, <1>10, <1>11, <1>12
    DEF Next, CallStep, WriterStep, ReaderStep, CloseStep

(* Only finitely many calls are accounted for.                              *)
LEMMA FiniteStep == ASSUME Inv, Next PROVE Finite'
<1> USE Distinct DEF books, hook
<1> /\ TypeOK /\ OneReply /\ OneResult /\ StillWaits /\ Hands /\ QueueDistinct /\ QueueTrue
    /\ OneClose /\ UncertainCloses /\ NoLostWakeup /\ Finite /\ Balanced
  BY DEF Inv
<1>1. ASSUME NEW c \in Procs, Enqueue(c) PROVE Finite'
  <2>1. IsFiniteSet(writes \cup {c}) /\ IsFiniteSet(pending \cup {c})
    BY FS_AddElement DEF Finite
  <2> QED BY <1>1, <2>1 DEF Enqueue, Finite
<1>2. ASSUME NEW c \in Procs, DeadlinePasses(c) \/ GiveUp(c) \/ Return(c) PROVE Finite'
  BY <1>2 DEF DeadlinePasses, GiveUp, Return, Finite
<1>3. ASSUME NEW c \in Procs, CallerExpires(c) PROVE Finite'
  <2>1. ExpireEffect(c)
    BY <1>3, ExpireEffects DEF CallerExpires
  <2> QED BY <1>3, <2>1, FS_EmptySet, FS_AddElement, FS_RemoveElement DEF CallerExpires, ExpireEffect, Finite
<1>4. CASE WriterTakes
  <2>1. TakeEffect
    BY <1>4, TakeEffects
  <2> QED BY <1>4, <2>1 DEF WriterTakes, TakeEffect, Finite
<1>5. CASE WriterExpires
  <2>1. current[Writer] \in Procs /\ ExpireEffect(current[Writer])
    BY <1>5, ExpireEffects DEF WriterExpires, Hands
  <2> QED BY <1>5, <2>1, FS_EmptySet, FS_AddElement, FS_RemoveElement DEF WriterExpires, ExpireEffect, Finite
<1>6. CASE WriterFinishes
  <2>1. FinishEffect
    BY <1>6, FinishEffects
  <2> QED BY <1>6, <2>1, FS_EmptySet, FS_AddElement, FS_RemoveElement DEF WriterFinishes, FinishEffect, Finite
<1>7. CASE WriterWakes \/ WriterWrites
  BY <1>7 DEF WriterWakes, WriterWrites, Finite
<1>8. ASSUME NEW c \in Requests, ReaderTakes(c) PROVE Finite'
  BY <1>8, FS_EmptySet, FS_AddElement, FS_RemoveElement DEF ReaderTakes, Finite
<1>9. CASE ReaderDelivers
  <2>1. DeliverEffect
    BY <1>9, DeliverEffects
  <2> QED BY <1>9, <2>1 DEF ReaderDelivers, DeliverEffect, Finite
<1>10. CASE ReaderEnds \/ OwnerCloses \/ SetClosedHandler
  BY <1>10 DEF ReaderEnds, OwnerCloses, SetClosedHandler, Finite
<1>11. ASSUME NEW a \in Actors, CloseLocked(a) PROVE Finite'
  <2>1. CASE closed
    BY <1>11, <2>1, FS_EmptySet, FS_AddElement, FS_RemoveElement DEF CloseLocked, AfterClose, Finite
  <2>2. CASE ~closed
    <3>1. CloseEffect(a)
      BY <1>11, <2>2, CloseEffects
    <3> QED BY <2>2, <3>1, FS_EmptySet, FS_AddElement, FS_RemoveElement DEF CloseEffect, Finite
  <2> QED BY <2>1, <2>2
<1>12. ASSUME NEW a \in Actors, CloseFinishes(a) PROVE Finite'
  BY <1>12 DEF CloseFinishes, AfterClose, Finite
<1> QED BY <1>1, <1>2, <1>3, <1>4, <1>5, <1>6, <1>7, <1>8, <1>9, <1>10, <1>11, <1>12
    DEF Next, CallStep, WriterStep, ReaderStep, CloseStep

(* What balanced books say of the current state, in terms of Adds.          *)
Sums(W, P, b) ==
  /\ Cardinality(W) <= MaxWrites /\ Cardinality(P) <= MaxWrites /\ b <= MaxBytes /\ Adds(W, b)
LEMMA SumsNow == ASSUME Balanced PROVE Sums(writes, pending, queuedBytes)
  BY BalancedAdds DEF Sums

(* One fewer pending call, or one fewer write, keeps within the bounds.     *)
LEMMA FewerPending ==
  ASSUME Finite, Balanced, NEW c
  PROVE  Cardinality(pending \ {c}) <= MaxWrites
<1>1. Cardinality(pending) \in Nat /\ Cardinality(pending) <= MaxWrites
  BY FS_CardinalityType DEF Finite, Balanced
<1>2. Cardinality(pending \ {c}) = IF c \in pending THEN Cardinality(pending) - 1 ELSE Cardinality(pending)
  BY FS_RemoveElement DEF Finite
<1> QED BY <1>1, <1>2, RpcAssumption

LEMMA OneWriteLess ==
  ASSUME TypeOK, Finite, Balanced, NEW c \in writes, NEW P, Cardinality(P) <= MaxWrites
  PROVE  Sums(writes \ {c}, P, queuedBytes - Size[c])
<1>1. Cardinality(writes) \in Nat /\ Cardinality(writes) <= MaxWrites /\ queuedBytes <= MaxBytes
  BY FS_CardinalityType, SumsNow DEF Finite, Sums
<1>2. Cardinality(writes \ {c}) = Cardinality(writes) - 1
  BY FS_RemoveElement DEF Finite
<1>3. /\ queuedBytes - Size[c] \in Nat /\ queuedBytes - Size[c] <= queuedBytes /\ queuedBytes \in Nat
      /\ Adds(writes \ {c}, queuedBytes - Size[c])
  BY BytesLeave DEF TypeOK, BooksTyped
<1>4. Cardinality(writes \ {c}) <= MaxWrites
  BY <1>1, <1>2, RpcAssumption
<1>5. queuedBytes - Size[c] <= MaxBytes
  <2> DEFINE m == queuedBytes - Size[c]
  <2>1. m \in Nat /\ m <= queuedBytes /\ queuedBytes \in Nat /\ queuedBytes <= MaxBytes /\ MaxBytes \in Nat
    BY <1>1, <1>3, RpcAssumption
  <2> HIDE DEF m
  <2>2. m <= MaxBytes
    BY <2>1
  <2> QED BY <2>2 DEF m
<1> QED BY <1>3, <1>4, <1>5 DEF Sums

(* An accepted call: the bounds were checked with the same books.           *)
LEMMA OneWriteMore ==
  ASSUME TypeOK, Finite, Balanced, NEW c \in Procs \ writes, c \notin pending, ~Backpressure(c)
  PROVE  Sums(writes \cup {c}, IF c \in Requests THEN pending \cup {c} ELSE pending, queuedBytes + Size[c])
<1>1. Size[c] \in Nat /\ queuedBytes \in Nat /\ MaxWrites \in Nat /\ MaxBytes \in Nat
  BY RpcAssumption DEF TypeOK, BooksTyped
<1>2. Cardinality(writes) \in Nat /\ Cardinality(writes \cup {c}) = Cardinality(writes) + 1
  BY FS_CardinalityType, FS_AddElement DEF Finite
<1>3. Cardinality(pending) \in Nat /\ Cardinality(pending \cup {c}) = Cardinality(pending) + 1
  BY FS_CardinalityType, FS_AddElement DEF Finite
<1>4. Cardinality(writes \cup {c}) <= MaxWrites
  BY <1>1, <1>2 DEF Backpressure
<1>5. Cardinality(IF c \in Requests THEN pending \cup {c} ELSE pending) <= MaxWrites
  <2>1. CASE c \in Requests
    BY <1>1, <1>3, <2>1 DEF Backpressure
  <2>2. CASE c \notin Requests
    BY <2>2, SumsNow DEF Sums
  <2> QED BY <2>1, <2>2
<1>6. queuedBytes + Size[c] <= MaxBytes
  BY <1>1 DEF Backpressure
<1>7. Adds(writes \cup {c}, queuedBytes + Size[c])
  BY <1>1, SumsNow, AddsOne DEF Sums, TypeOK, BooksTyped, Finite
<1> QED BY <1>4, <1>5, <1>6, <1>7 DEF Sums

(* The books stay balanced.                                                 *)
LEMMA SumsStep == ASSUME Inv, Next PROVE Sums(writes, pending, queuedBytes)'
<1> USE Distinct DEF books, hook
<1> /\ TypeOK /\ OneReply /\ OneResult /\ StillWaits /\ Hands /\ QueueDistinct /\ QueueTrue
    /\ OneClose /\ UncertainCloses /\ NoLostWakeup /\ Finite /\ Balanced
  BY DEF Inv
<1>1. ASSUME NEW c \in Procs, Enqueue(c) PROVE Sums(writes, pending, queuedBytes)'
  <2>1. EnqueueEffect(c)
    BY <1>1, EnqueueEffects
  <2>2. CASE UNCHANGED books
    BY <2>2, SumsNow DEF Sums
  <2>3. CASE ~UNCHANGED books
    <3>1. ~Backpressure(c) /\ c \notin writes /\ c \notin pending
      BY <2>1, <2>3 DEF EnqueueEffect
    <3>2. /\ writes' = writes \cup {c} /\ queuedBytes' = queuedBytes + Size[c]
          /\ pending' = IF c \in Requests THEN pending \cup {c} ELSE pending
      BY <2>1, <2>3 DEF EnqueueEffect
    <3> QED BY <3>1, <3>2, OneWriteMore
  <2> QED BY <2>2, <2>3
<1>2. ASSUME NEW c \in Procs, DeadlinePasses(c) \/ GiveUp(c) \/ Return(c) PROVE Sums(writes, pending, queuedBytes)'
  BY <1>2, SumsNow DEF DeadlinePasses, GiveUp, Return, Sums
<1>3. ASSUME NEW c \in Procs, CallerExpires(c) PROVE Sums(writes, pending, queuedBytes)'
  <2>1. ExpireEffect(c)
    BY <1>3, ExpireEffects DEF CallerExpires, Hands
  <2>2. Cardinality(pending') <= MaxWrites
    BY <2>1, FewerPending DEF ExpireEffect
  <2>3. CASE state[c] = "queued"
    <3>1. c \in writes
      BY <1>3, <2>3 DEF OneResult, CallerExpires, Hands
    <3> QED BY <2>1, <2>2, <2>3, <3>1, OneWriteLess DEF ExpireEffect
  <2>4. CASE state[c] # "queued"
    BY <2>1, <2>2, <2>4, SumsNow DEF ExpireEffect, Sums
  <2> QED BY <2>3, <2>4
<1>4. CASE WriterTakes
  <2>1. TakeEffect
    BY <1>4, TakeEffects
  <2> QED BY <1>4, <2>1, SumsNow DEF WriterTakes, TakeEffect, Sums
<1>5. CASE WriterExpires
  <2>1. ExpireEffect(current[Writer])
    BY <1>5, ExpireEffects DEF WriterExpires, Hands
  <2>2. Cardinality(pending') <= MaxWrites
    BY <2>1, FewerPending DEF ExpireEffect
  <2>3. CASE state[current[Writer]] = "queued"
    <3>1. current[Writer] \in writes
      BY <1>5, <2>3 DEF OneResult, WriterExpires, Hands
    <3> QED BY <2>1, <2>2, <2>3, <3>1, OneWriteLess DEF ExpireEffect
  <2>4. CASE state[current[Writer]] # "queued"
    BY <2>1, <2>2, <2>4, SumsNow DEF ExpireEffect, Sums
  <2> QED BY <2>3, <2>4
<1>6. CASE WriterFinishes
  <2>1. FinishEffect
    BY <1>6, FinishEffects
  <2>2. CASE current[Writer] \in writes
    <3>1. queuedBytes' = queuedBytes - Size[current[Writer]] /\ pending' = pending
      BY <1>6, <2>2 DEF WriterFinishes
    <3>2. Cardinality(pending) <= MaxWrites
      BY SumsNow DEF Sums
    <3> QED BY <2>1, <2>2, <3>1, <3>2, OneWriteLess DEF FinishEffect
  <2>3. CASE current[Writer] \notin writes
    <3>1. UNCHANGED <<writes, pending, queuedBytes>>
      BY <1>6, <2>1, <2>3 DEF WriterFinishes, FinishEffect
    <3> QED BY <3>1, SumsNow DEF Sums
  <2> QED BY <2>2, <2>3
<1>7. CASE WriterWakes \/ WriterWrites
  BY <1>7, SumsNow DEF WriterWakes, WriterWrites, Sums
<1>8. ASSUME NEW c \in Requests, ReaderTakes(c) PROVE Sums(writes, pending, queuedBytes)'
  <2>1. Cardinality(pending') <= MaxWrites
    BY <1>8, FewerPending DEF ReaderTakes
  <2> QED BY <1>8, <2>1, SumsNow DEF ReaderTakes, Sums
<1>9. CASE ReaderDelivers
  <2>1. DeliverEffect
    BY <1>9, DeliverEffects
  <2> QED BY <1>9, <2>1, SumsNow DEF ReaderDelivers, DeliverEffect, Sums
<1>10. CASE ReaderEnds \/ OwnerCloses \/ SetClosedHandler
  BY <1>10, SumsNow DEF ReaderEnds, OwnerCloses, SetClosedHandler, Sums
<1>11. ASSUME NEW a \in Actors, CloseLocked(a) PROVE Sums(writes, pending, queuedBytes)'
  <2>1. CASE closed
    BY <1>11, <2>1, SumsNow DEF CloseLocked, Sums
  <2>2. CASE ~closed
    <3>1. CloseEffect(a)
      BY <1>11, <2>2, CloseEffects
    <3>2. writes' = {} /\ pending' = {} /\ queuedBytes' = 0
      BY <3>1 DEF CloseEffect
    <3>3. Cardinality({}) = 0 /\ 0 <= MaxWrites /\ 0 <= MaxBytes
      BY FS_EmptySet, RpcAssumption
    <3> QED BY <3>2, <3>3, AddsNothing DEF Sums
  <2> QED BY <2>1, <2>2
<1>12. ASSUME NEW a \in Actors, CloseFinishes(a) PROVE Sums(writes, pending, queuedBytes)'
  BY <1>12, SumsNow DEF CloseFinishes, AfterClose, Sums
<1> QED BY <1>1, <1>2, <1>3, <1>4, <1>5, <1>6, <1>7, <1>8, <1>9, <1>10, <1>11, <1>12
    DEF Next, CallStep, WriterStep, ReaderStep, CloseStep

-----------------------------------------------------------------------------
LEMMA InitInv == ASSUME Init PROVE Inv
<1> USE Distinct, RpcAssumption DEF Init
<1>1. PcTyped /\ FlagsTyped /\ SetsTyped
  <2>1. PcTyped
    BY DEF PcTyped
  <2>2. FlagsTyped
    <3>1. called = 0 /\ wake = FALSE /\ closed = FALSE /\ handler = FALSE /\ captured = FALSE
      OBVIOUS
    <3>2. 0 \in 0..1
      OBVIOUS
    <3> QED BY <3>1, <3>2, Zenon DEF FlagsTyped
  <2>3. SetsTyped
    BY DEF SetsTyped
  <2> QED BY <2>1, <2>2, <2>3
<1>2. BooksTyped /\ ChannelsTyped
  BY DEF BooksTyped, ChannelsTyped
<1>3. OneReply /\ OneResult /\ Hands
  BY DEF OneReply, OneResult, Hands, Actors
<1>4. StillWaits /\ OneClose /\ UncertainCloses
  BY DEF StillWaits, OneClose, UncertainCloses, Actors
<1>5. QueueDistinct /\ QueueTrue
  <2>1. Len(queue) = 0 /\ writes = {}
    OBVIOUS
  <2> QED BY <2>1 DEF QueueDistinct, QueueTrue
<1>6. NoLostWakeup
  BY DEF NoLostWakeup, Actors
<1>7. Finite
  BY FS_EmptySet DEF Finite
<1>8. Balanced
  <2>1. writes = {} /\ pending = {} /\ queuedBytes = 0
    OBVIOUS
  <2>2. Cardinality({}) = 0 /\ 0 <= MaxWrites /\ 0 <= MaxBytes
    BY FS_EmptySet
  <2> QED BY <2>1, <2>2, AddsNothing, BalancedAdds
<1> QED BY <1>1, <1>2, <1>3, <1>4, <1>5, <1>6, <1>7, <1>8 DEF Inv, TypeOK

LEMMA StepInv == ASSUME Inv, [Next]_vars PROVE Inv'
<1>1. CASE Next
  <2>1. TypeOK'
    BY <1>1, PcStep, BooksStep, ChannelsStep, FlagsStep, SetsStep DEF TypeOK
  <2>2. OneReply' /\ OneResult' /\ StillWaits' /\ Hands' /\ OneClose' /\ UncertainCloses' /\ NoLostWakeup' /\ Finite'
    BY <1>1, ReplyStep, ResultStep, WaitsStep, HandsStep, CloseStepsOnce, UncertainStep, WakeupStep, FiniteStep
  <2>3. QueueHolds'
    BY <1>1, QueueStep
  <2>4. QueueDistinct' /\ QueueTrue'
    BY <2>1, <2>3 DEF QueueHolds, QueueDistinct, QueueTrue, InQueue, DistinctIn, TypeOK, BooksTyped
  <2>5. Sums(writes, pending, queuedBytes)'
    BY <1>1, SumsStep
  <2>6. Balanced'
    BY <2>5 DEF Sums, Balanced, Adds, Listing
  <2> QED BY <2>1, <2>2, <2>4, <2>6 DEF Inv
<1>2. CASE UNCHANGED vars
  <2> USE <1>2 DEF vars, books, hook, Inv
  <2>1. TypeOK'
    BY DEF TypeOK, PcTyped, BooksTyped, ChannelsTyped, FlagsTyped, SetsTyped
  <2>2. OneReply' /\ OneResult' /\ StillWaits' /\ Hands'
    BY DEF OneReply, OneResult, StillWaits, Hands
  <2>3. QueueDistinct' /\ QueueTrue' /\ OneClose' /\ UncertainCloses' /\ NoLostWakeup' /\ Finite'
    BY DEF QueueDistinct, QueueTrue, OneClose, UncertainCloses, NoLostWakeup, Finite
  <2>4. Balanced'
    <3>1. UNCHANGED <<writes, pending, queuedBytes>>
      OBVIOUS
    <3>2. Sums(writes, pending, queuedBytes)'
      BY <3>1, SumsNow DEF Sums
    <3> QED BY <3>2 DEF Sums, Balanced, Adds, Listing
  <2> QED BY <2>1, <2>2, <2>3, <2>4
<1> QED BY <1>1, <1>2

LEMMA InvHolds == Spec => []Inv
  BY InitInv, StepInv, PTL DEF Spec

(* No request is lost track of: whatever answers, deadlines, contexts and   *)
(* closes race for a call, nothing is sent twice on its channels, the       *)
(* books balance within their bounds, the writer never sleeps on work, and  *)
(* a write whose fate is unknown has retired the transport before its       *)
(* caller returns (rpc.go and rpc_write.go), for any calls and bounds.      *)
THEOREM RequestsAreAccounted == Spec => []RequestsAccounted
<1>1. Inv => RequestsAccounted
  <2> SUFFICES ASSUME Inv PROVE RequestsAccounted
    OBVIOUS
  <2>1. UncertainRetired
    BY DEF Inv, UncertainCloses, UncertainRetired
  <2> QED BY <2>1 DEF Inv, RequestsAccounted
<1> QED BY InvHolds, <1>1, PTL

(* A write that begins is one whose caller still waits.                     *)
Begun == \A c \in Procs : state[c] # "writing" /\ state'[c] = "writing" =>
           pc[c] \in {"wait", "expire"} /\ (c \in Requests => c \in pending)
(* Only the writer begins a write, and it takes what is queued.             *)
LEMMA BegunStep == ASSUME Inv, Next PROVE Begun
<1> USE Distinct DEF books, hook
<1> /\ TypeOK /\ OneReply /\ OneResult /\ StillWaits /\ Hands /\ QueueDistinct /\ QueueTrue
    /\ OneClose /\ UncertainCloses /\ NoLostWakeup /\ Finite /\ Balanced
  BY DEF Inv
<1>1. ASSUME NEW c \in Procs, Enqueue(c) PROVE Begun
  <2>1. EnqueueEffect(c)
    BY <1>1, EnqueueEffects
  <2> QED BY <1>1, <2>1 DEF Enqueue, EnqueueEffect, Begun, TypeOK, BooksTyped, StillWaits
<1>2. ASSUME NEW c \in Procs, DeadlinePasses(c) \/ GiveUp(c) \/ Return(c) PROVE Begun
  BY <1>2 DEF DeadlinePasses, GiveUp, Return, Begun, TypeOK, BooksTyped, StillWaits
<1>3. ASSUME NEW c \in Procs, CallerExpires(c) PROVE Begun
  <2>1. ExpireEffect(c)
    BY <1>3, ExpireEffects DEF CallerExpires
  <2> QED BY <1>3, <2>1 DEF CallerExpires, ExpireEffect, Begun, TypeOK, BooksTyped, StillWaits
<1>4. CASE WriterTakes
  <2>1. TakeEffect
    BY <1>4, TakeEffects
  <2> QED BY <1>4, <2>1 DEF WriterTakes, TakeEffect, Begun, TypeOK, BooksTyped, StillWaits
<1>5. CASE WriterExpires
  <2>1. current[Writer] \in Procs /\ ExpireEffect(current[Writer])
    BY <1>5, ExpireEffects DEF WriterExpires, Hands
  <2> QED BY <1>5, <2>1 DEF WriterExpires, ExpireEffect, Begun, TypeOK, BooksTyped, StillWaits
<1>6. CASE WriterFinishes
  <2>1. FinishEffect
    BY <1>6, FinishEffects
  <2> QED BY <1>6, <2>1 DEF WriterFinishes, FinishEffect, Begun, TypeOK, BooksTyped, StillWaits
<1>7. CASE WriterWakes \/ WriterWrites
  BY <1>7 DEF WriterWakes, WriterWrites, Begun, TypeOK, BooksTyped, StillWaits
<1>8. ASSUME NEW c \in Requests, ReaderTakes(c) PROVE Begun
  BY <1>8 DEF ReaderTakes, Begun, TypeOK, BooksTyped, StillWaits
<1>9. CASE ReaderDelivers
  <2>1. DeliverEffect
    BY <1>9, DeliverEffects
  <2> QED BY <1>9, <2>1 DEF ReaderDelivers, DeliverEffect, Begun, TypeOK, BooksTyped, StillWaits
<1>10. CASE ReaderEnds \/ OwnerCloses \/ SetClosedHandler
  BY <1>10 DEF ReaderEnds, OwnerCloses, SetClosedHandler, Begun, TypeOK, BooksTyped, StillWaits
<1>11. ASSUME NEW a \in Actors, CloseLocked(a) PROVE Begun
  <2>1. CASE closed
    BY <1>11, <2>1 DEF CloseLocked, AfterClose, Begun, TypeOK, BooksTyped, StillWaits
  <2>2. CASE ~closed
    <3>1. CloseEffect(a)
      BY <1>11, <2>2, CloseEffects
    <3> QED BY <2>2, <3>1 DEF CloseEffect, Begun, TypeOK, BooksTyped, StillWaits
  <2> QED BY <2>1, <2>2
<1>12. ASSUME NEW a \in Actors, CloseFinishes(a) PROVE Begun
  BY <1>12 DEF CloseFinishes, AfterClose, Begun, TypeOK, BooksTyped, StillWaits
<1> QED BY <1>1, <1>2, <1>3, <1>4, <1>5, <1>6, <1>7, <1>8, <1>9, <1>10, <1>11, <1>12
    DEF Next, CallStep, WriterStep, ReaderStep, CloseStep

(* "never ... let a queued expired input run later" (rpc_write.go): the      *)
(* writer begins only writes whose caller still waits, for any calls.       *)
THEOREM ExpiredNeverWritten == Spec => NoExpiredWrite
<1>1. Inv /\ [Next]_vars => [Begun]_vars
  BY BegunStep
<1> QED BY <1>1, InvHolds, PTL DEF Spec, NoExpiredWrite, Begun

==============================================================================
