------------------------------ MODULE MCDesktop ------------------------------
(***************************************************************************)
(* Two questions about the original Desktop, which share no state a        *)
(* property looks at: the IPC client's calls and connections, and the      *)
(* requests of one task that find out who may serve them.                  *)
(***************************************************************************)
EXTENDS DesktopClient, DesktopAccess, TLC
CONSTANTS p1, p2, o1, o2
VARIABLE part

(* The client: one call over two connections, two calls and a discovery      *)
(* request that compete for the queue of one connection, and two that        *)
(* compete for its pending calls while it is closed.  Its callers are        *)
(* interchangeable.                                                          *)
Still == [opens |-> 0, calls |-> 0, notes |-> 0, closes |-> 0, pending |-> 1]
AllBudgets == {Still,
               [opens |-> 2, calls |-> 1, notes |-> 0, closes |-> 0, pending |-> 1],
               [opens |-> 1, calls |-> 2, notes |-> 1, closes |-> 0, pending |-> 2],
               [opens |-> 1, calls |-> 2, notes |-> 0, closes |-> 1, pending |-> 1]}
CallerSymmetry == Permutations(Callers)

(* The requests: a scoped control while the turn, the owner, the connection  *)
(* and the account change; a settings change among native writes; the        *)
(* created scope and idle recovery while owners come and go; two readers of  *)
(* one entry.                                                                *)
NoChange == [c \in {"moves", "losses", "turns", "writes", "accounts", "history", "executor"} |-> 0]
Jobs(one, two) == (p1 :> one) @@ (p2 :> two)
Owned(jobs, first, left) ==
  [jobs |-> jobs, owner |-> o1, efforts |-> first, record |-> "none", live |-> FALSE,
   hist |-> {"active"}, budget |-> left @@ NoChange]
Ownerless(jobs, rec, open, left) ==
  [jobs |-> jobs, owner |-> None, efforts |-> {None}, record |-> rec, live |-> open,
   hist |-> {"active", "idle"}, budget |-> left @@ NoChange]
Scoped(S) == S \X {TRUE}
AllScenarios ==
  {Owned(Jobs(Scoped({"send", "stop", "settings"}), {}), {None}, l) :
     l \in {[turns |-> 2, moves |-> 1], [turns |-> 1, losses |-> 1], [turns |-> 1, accounts |-> 1],
            [moves |-> 2, losses |-> 1]}} \cup
  {Owned(Jobs({<<"settings", FALSE>>}, {}), {None, "low", "high"}, [writes |-> 2]),
   Owned(Jobs({<<"settings", TRUE>>}, {}), {None, "low"}, [writes |-> 1, moves |-> 1]),
   Owned(Jobs({"send", "stop", "settings"} \X {FALSE}, {}), {None}, [turns |-> 1, moves |-> 1, losses |-> 1]),
   Owned(Jobs({<<"read", FALSE>>, <<"access", TRUE>>},
              {<<"read", FALSE>>, <<"archive", TRUE>>, <<"rename", TRUE>>, <<"status", FALSE>>}),
         {None}, [turns |-> 2])} \cup
  {Ownerless(Jobs({"send", "stop"} \X BOOLEAN, {}), rec, rec # "none", l) :
     rec \in {"none", "created", "recovered"},
     l \in {[moves |-> 2, executor |-> 1], [moves |-> 1, history |-> 1, executor |-> 1]}}

(* The part a behaviour is not about stays at rest.                          *)
NoClient == Init /\ budget = Still
NoRequests == cur = 0 /\ ent = << >> /\ seen = FALSE /\ conn = 0 /\ conns = 0 /\ lost = FALSE /\ owner = Nobody
            /\ log = << >> /\ account = Nobody /\ record = Nobody /\ exec = << >> /\ hist = << >> /\ loads = << >>
            /\ caller = [p \in {p1, p2} |-> Idle] /\ changes = << >>
MCInit == \/ part = "client" /\ Init /\ NoRequests
          \/ part = "access" /\ AccessInit /\ NoClient
MCNext == \/ part = "client" /\ Next /\ UNCHANGED <<part, accessVars>>
          \/ part = "access" /\ AccessNext /\ UNCHANGED <<part, vars>>
MCSpec == MCInit /\ [][MCNext]_<<part, vars, accessVars>>
==============================================================================
