---------------------------- MODULE MCTaskSessions ----------------------------
(* Instances of TaskSessions for TLC.  Connections are numbers.             *)
EXTENDS TaskSessions, TLC

CONSTANTS c1, c2
Publishing == [c \in {c1, c2} |-> {"create", "read", "settings", "archive"}]
Bound(one) == [c \in {c1, c2} |-> IF c = one THEN {"access", "send", "stop"} ELSE {"send"}]
AllCallings == {Publishing, Bound(c1), Bound(c2)}
PublishingOnly == {Publishing}

(* The clients are interchangeable: AllCallings has both orders of Bound.   *)
Exchanged == Permutations({c1, c2})

(* Unused connections are interchangeable: it is enough to take them in the *)
(* order of their numbers.  Bindings meet one connection and its successor. *)
TakenInOrder ==
  \A k \in Conns : conn'[k].st # "free" =>
    /\ \A j \in 1..k : conn'[j].st # "free"
    /\ k <= IF calling = Publishing THEN 3 ELSE 2
==============================================================================
