--------------------------- MODULE WriterLifetime ---------------------------
(***************************************************************************)
(* What a private task executor promises about the native writer it owns,  *)
(* whatever timeouts, lost answers, late notifications and retries happen: *)
(* the writer begins work only for a client it admitted, it is fenced off  *)
(* only when every admitted client has its answer, nobody is admitted      *)
(* behind the fence, and it is released behind the fence, once, while it   *)
(* has nothing to do.  Module TaskExecutor is shown to implement this.     *)
(***************************************************************************)
CONSTANT Clients

VARIABLES
  admitted,   \* clients whose request has no answer yet
  working,    \* the native task has a turn, or the request for one, to run
  phase       \* "serving", "fenced" or "released"

vars == <<admitted, working, phase>>

Init == admitted = {} /\ ~working /\ phase = "serving"

Admit(c) == phase = "serving" /\ admitted' = admitted \cup {c} /\ UNCHANGED <<working, phase>>

Answer(c) == phase = "serving" /\ admitted' = admitted \ {c} /\ UNCHANGED <<working, phase>>

BeginWork == phase = "serving" /\ admitted # {} /\ working' = TRUE /\ UNCHANGED <<admitted, phase>>

EndWork == phase # "released" /\ working' = FALSE /\ UNCHANGED <<admitted, phase>>

Fence == phase = "serving" /\ admitted = {} /\ phase' = "fenced" /\ UNCHANGED <<admitted, working>>

LiftFence == phase = "fenced" /\ phase' = "serving" /\ UNCHANGED <<admitted, working>>

Release == phase = "fenced" /\ ~working /\ phase' = "released" /\ UNCHANGED <<admitted, working>>

Next ==
  \/ \E c \in Clients : Admit(c) \/ Answer(c)
  \/ BeginWork \/ EndWork \/ Fence \/ LiftFence \/ Release

Spec == Init /\ [][Next]_vars
=============================================================================
