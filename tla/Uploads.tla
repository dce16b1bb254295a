------------------------------- MODULE Uploads -------------------------------
(***************************************************************************)
(* The attachment store (internal/uploads/uploads.go): uploads are written *)
(* chunk by chunk into fragments, verified, renamed and given a receipt; a *)
(* message names receipts.  Store.mu makes an operation one step, except   *)
(* for Complete, which a crash may cut between the rename and the receipt. *)
(* A checksum is collision-free: it is the content it was computed from.   *)
(***************************************************************************)
EXTENDS Naturals, Sequences, FiniteSets, FiniteSetsExt, Functions, TLC

CONSTANTS
  MaxIds,       \* bound: uploads; rand.Read gives each its own identity
  Metas,        \* what clients declare: [size, sum]
  Chunks,       \* what clients append
  MaxPending,   \* MaxPending
  MaxStored,    \* MaxStoredBytes
  ReceiptSize,  \* the bytes of a receipt
  MaxFaults     \* bound: writes and removals that fail, and crashes

VARIABLES
  up,        \* the service runs
  pending,   \* Store.pending: [meta, offset] by identity
  used,      \* Store.used
  parts,     \* <id>.part: the bytes on disk
  files,     \* <id>-<name>: the bytes on disk
  receipts,  \* <id>.json: the metadata on disk, or a torn one
  renamed,   \* the upload whose Complete is between rename and receipt, holding mu
  begun,     \* history: what each identity was declared as
  told,      \* history: the uploads whose Complete succeeded
  faults

vars == <<up, pending, used, parts, files, receipts, renamed, begun, told, faults>>

Ids == 1..MaxIds
Without(f, x) == Restrict(f, DOMAIN f \ {x})
Sum(size(_), S) == MapThenSumSet(size, S)
(* A write of a receipt that does not succeed: nothing of it, a part, or,   *)
(* when only its close failed or the service ended after it, all of it.     *)
Torn(bytes) == [size |-> bytes, sum |-> <<"torn">>]
Whole(receipt) == receipt.sum /= <<"torn">>
Unreported(id) ==
  {receipts} \cup {receipts @@ (id :> m) : m \in {Torn(n) : n \in 0..(ReceiptSize - 1)} \cup {pending[id].meta}}
PartOf(id, there) == IF there THEN parts ELSE Without(parts, id)

Init ==
  /\ up = TRUE /\ pending = <<>> /\ used = 0
  /\ parts = <<>> /\ files = <<>> /\ receipts = <<>>
  /\ renamed = {} /\ begun = <<>> /\ told = {} /\ faults = MaxFaults

Running == up /\ renamed = {}
Fault == faults > 0 /\ faults' = faults - 1

(* Begin() first drops the uploads nobody touched for an hour: any of them  *)
(* may be that old.  A fragment that cannot be removed stays on disk.       *)
Expired(old) == pending' = Restrict(pending, DOMAIN pending \ old)
Begin(id, meta, old, stuck) ==
  LET kept == DOMAIN pending \ old
      held == used - Sum(LAMBDA i : pending[i].meta.size, old) IN
  /\ Running /\ id = Cardinality(DOMAIN begun) + 1 /\ meta.size <= MaxStored
  /\ IF stuck = {} THEN UNCHANGED faults ELSE Fault
  /\ IF Cardinality(kept) < MaxPending /\ held + meta.size <= MaxStored
     THEN /\ pending' = Restrict(pending, kept) @@ (id :> [meta |-> meta, offset |-> 0])
          /\ used' = held + meta.size
          /\ parts' = Restrict(parts, DOMAIN parts \ (old \ stuck)) @@ (id :> <<>>)
          /\ begun' = begun @@ (id :> meta)
     ELSE /\ Expired(old) /\ used' = held /\ parts' = Restrict(parts, DOMAIN parts \ (old \ stuck))
          /\ UNCHANGED begun
  /\ UNCHANGED <<up, files, receipts, renamed, told>>

Accepts(id, offset, data) ==
  /\ id \in DOMAIN pending /\ offset = pending[id].offset
  /\ Len(data) <= pending[id].meta.size - offset

Drop(id) == pending' = Without(pending, id) /\ used' = used - pending[id].meta.size

(* Append() continues the fragment where it ends and nowhere else; a write  *)
(* that fails gives the upload up.                                          *)
Append1(id, offset, data) ==
  /\ Running /\ Accepts(id, offset, data)
  /\ parts' = [parts EXCEPT ![id] = SubSeq(@, 1, offset) \o data]
  /\ pending' = [pending EXCEPT ![id].offset = @ + Len(data)]
  /\ UNCHANGED <<up, used, files, receipts, renamed, begun, told, faults>>
AppendFails(id, offset, data, stuck) ==
  /\ Running /\ Accepts(id, offset, data) /\ Fault /\ Drop(id)
  /\ parts' = PartOf(id, stuck)
  /\ UNCHANGED <<up, files, receipts, renamed, begun, told>>

Verified(id) == Len(parts[id]) = pending[id].meta.size /\ parts[id] = pending[id].meta.sum

(* Complete(): the whole fragment with the declared checksum gets its name, *)
Complete(id) ==
  /\ Running /\ id \in DOMAIN pending /\ pending[id].offset = pending[id].meta.size /\ Verified(id)
  /\ files' = files @@ (id :> parts[id]) /\ parts' = Without(parts, id)
  /\ renamed' = {id}
  /\ UNCHANGED <<up, pending, used, receipts, begun, told, faults>>

(* Mutant: a receipt is reported that could not be written.                *)
ReceiptClaimed(id) ==
  /\ up /\ id \in renamed
  /\ renamed' = {} /\ pending' = Without(pending, id) /\ told' = told \cup {id}
  /\ \/ receipts' = receipts @@ (id :> pending[id].meta) /\ used' = used + ReceiptSize /\ UNCHANGED faults
     \/ Fault /\ receipts' \in Unreported(id) /\ UNCHANGED used
  /\ UNCHANGED <<up, parts, files, begun>>

(* ... then its receipt.  A receipt that cannot be written keeps the bytes  *)
(* and their share of the budget, and claims nothing.                       *)
Receipt(id) ==
  /\ up /\ id \in renamed
  /\ renamed' = {} /\ pending' = Without(pending, id)
  /\ \/ /\ receipts' = receipts @@ (id :> pending[id].meta)
        /\ used' = used + ReceiptSize /\ told' = told \cup {id} /\ UNCHANGED faults
     \/ Fault /\ receipts' \in Unreported(id) /\ UNCHANGED <<used, told>>
  /\ UNCHANGED <<up, parts, files, begun>>

(* Cancel(): a fragment that cannot be removed keeps its upload.            *)
Cancel(id) ==
  /\ Running /\ id \in DOMAIN pending /\ Drop(id) /\ parts' = Without(parts, id)
  /\ UNCHANGED <<up, files, receipts, renamed, begun, told, faults>>

(* Resolve(): a message may name the receipt of a file of the declared size. *)
Resolvable(id) ==
  /\ id \in DOMAIN receipts /\ Whole(receipts[id])
  /\ id \in DOMAIN files /\ Len(files[id]) = receipts[id].size

(* The routes of Handler.ServeHTTP.                                          *)
Handle ==
  \/ \E id \in Ids, m \in Metas : \E old \in SUBSET DOMAIN pending : \E stuck \in SUBSET old : Begin(id, m, old, stuck)
  \/ \E id \in DOMAIN pending, data \in Chunks, offset \in 0..MaxStored :
       Append1(id, offset, data) \/ \E stuck \in BOOLEAN : AppendFails(id, offset, data, stuck)
  \/ \E id \in Ids : Complete(id) \/ Receipt(id) \/ Cancel(id)

(* The service ends anywhere; a receipt being written may be torn.           *)
Crash ==
  /\ up /\ Fault /\ up' = FALSE /\ pending' = <<>> /\ renamed' = {} /\ used' = 0
  /\ receipts' \in {receipts} \cup UNION {Unreported(id) : id \in renamed}
  /\ UNCHANGED <<parts, files, begun, told>>

(* New(): fragments go, and what is on disk counts, whole or torn.          *)
Weight(id) == IF Whole(receipts[id]) THEN ReceiptSize ELSE receipts[id].size
Stored == Sum(LAMBDA id : Len(files[id]), DOMAIN files) + Sum(Weight, DOMAIN receipts)
New ==
  /\ ~up /\ up' = TRUE /\ parts' = <<>> /\ used' = Stored
  /\ UNCHANGED <<pending, files, receipts, renamed, begun, told, faults>>

Next == Handle \/ Crash \/ New
Spec == Init /\ [][Next]_vars

-----------------------------------------------------------------------------
(* A receipt that a message may name stands for exactly the bytes the       *)
(* client declared, and one that a client was given stays good: whatever    *)
(* crash, restart, failed write or repeated request came between the        *)
(* rename, the receipt and the message (uploads.go:206).                    *)
ReceiptsTrue ==
  /\ \A id \in Ids : Resolvable(id) => files[id] = begun[id].sum /\ receipts[id] = begun[id]
  /\ told \subseteq {id \in Ids : Resolvable(id)}

(* The budget: what is pending is reserved once and returned once, and the  *)
(* bytes on disk keep their share after a failed receipt or a crash.  Only  *)
(* a receipt whose write failed may be missing from it, until New counts    *)
(* it; the contents never exceed MaxStoredBytes (uploads.go:124).           *)
BudgetExact ==
  /\ up => LET held == Stored + Sum(LAMBDA id : pending[id].meta.size, DOMAIN pending \ renamed) IN
           used <= held /\ held <= used + Sum(Weight, DOMAIN receipts \ told)
  /\ Sum(LAMBDA id : Len(files[id]), DOMAIN files) <= MaxStored

(* What the store keeps, counts and promises is what is on disk.            *)
StoreTrue == ReceiptsTrue /\ BudgetExact
=============================================================================
