---------------------------- MODULE MCTaskStreams ----------------------------
(* Two views of one task whose stream fails; two views of a changing task;  *)
(* one view whose stream fails twice; two tasks that compete for one        *)
(* stream; the hub and the client end under one view and a failing stream.  *)
EXTENDS TaskStreams
CONSTANTS t1, t2, v1, v2
Scenario(T, V, last, failing, ending) ==
  [tasks |-> T, views |-> V, version |-> last, faults |-> failing, ends |-> ending]
AllScenarios ==
  {Scenario({t1}, {v1, v2}, 1, 1, FALSE),
   Scenario({t1}, {v1, v2}, 2, 0, FALSE),
   Scenario({t1}, {v1}, 2, 2, FALSE),
   Scenario({t1, t2}, {v1, v2}, 1, 0, FALSE),
   Scenario({t1}, {v1}, 2, 1, TRUE)}
==============================================================================
