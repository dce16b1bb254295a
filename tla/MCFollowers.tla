----------------------------- MODULE MCFollowers -----------------------------
(* Instances of Followers for TLC. *)
EXTENDS Followers, TLC

Happens(k, e, r, l, m) ==
  [kinds |-> k, events |-> e, rev |-> r, losses |-> l, moves |-> m]

(* A connection is lost while patches arrive; the owner changes while a     *)
(* control request waits; the surface is attached, asked and closed.        *)
AllScenarios ==
  {Happens({"read"}, {}, 2, 1, 0),
   Happens({"read", "control"}, {"archive"}, 1, 0, 1),
   Happens({"attach", "status"}, {"close", "status request"}, 1, 0, 0)}
==============================================================================
