----------------------------- MODULE MCRequests -----------------------------
(***************************************************************************)
(* Two questions about the requests of the HTTP API, which share no state  *)
(* a property looks at: the routes over a source whose identity changes    *)
(* under its requests, and the task adapter of the helper behind them,     *)
(* which admits connections and closes.                                    *)
(***************************************************************************)
EXTENDS MCTaskSessions, Sources
VARIABLE part

(* The source.                                                               *)
Job(k, s) == [kind |-> k, s |-> s]
Requests(jobs, l) == [jobs |-> jobs, left |-> l @@ [k \in EventKinds |-> 0]]
Jobs == {
  Requests(<<Job("list", 1), Job("models", 2)>>, [switch |-> 2]),
  Requests(<<Job("page", 1), Job("page", 2)>>, [switch |-> 1, flip |-> 1]),
  Requests(<<Job("mutate", 1), Job("page", 2)>>, [switch |-> 1, rebind |-> 1]),
  Requests(<<Job("mutate", 1), Job("list", 2)>>, [rebind |-> 1, narrow |-> 1]),
  Requests(<<Job("rename", 1), Job("list", 1)>>, [switch |-> 1, rebind |-> 1]),
  Requests(<<Job("bare", 1), Job("page", 1)>>, [switch |-> 2]),
  Requests(<<Job("create", 1), Job("models", 1)>>, [switch |-> 1, fail |-> 1]),
  Requests(<<Job("image", 1), Job("plain", 1), Job("image", 2)>>, [switch |-> 1]),
  Requests(<<Job("image", 1), Job("plain", 1)>>, [switch |-> 1, fail |-> 1]),
  Requests(<<Job("events", 1), Job("models", 1)>>, [switch |-> 1, event |-> 1]),
  Requests(<<Job("events", 1), Job("events", 2)>>, [switch |-> 1]),
  Requests(<<Job("events", 1), Job("models", 2)>>, [fail |-> 1, event |-> 1]),
  Requests(<<Job("events", 1), Job("list", 1)>>, [switch |-> 1, flip |-> 1]),
  Requests(<<Job("upload", 1), Job("cancel", 1)>>, [switch |-> 1, fail |-> 1]),
  Requests(<<Job("upload", 1), Job("store", 1)>>, [switch |-> 1]),
  Requests(<<Job("cancel", 1), Job("store", 2), Job("root", 1)>>, [switch |-> 1]),
  Requests(<<Job("upload", 1), Job("upload", 2)>>, [switch |-> 1]),
  Requests(<<Job("upload", 1), Job("mutate", 1)>>, [switch |-> 1]),
  Requests(<<Job("relay", 1), Job("create", 2)>>, [switch |-> 1, rebind |-> 1])}
(* The parts a behaviour is not about stay at rest.                          *)
taskVars == <<vars, calling>>
NoTasks == Init /\ created = {} /\ calling = Publishing
NoSource == nat = <<>> /\ source = [scope |-> 0, access |-> <<>>, streams |-> {}] /\ req = <<>> /\ readers = 0
            /\ uploads = {0} /\ answers = {} /\ applied = <<>> /\ left = <<>>
MCInit == \/ part = "tasks" /\ Init /\ NoSource
          \/ part = "source" /\ SourcesInit /\ NoTasks
MCNext == \/ part = "tasks" /\ Next /\ TakenInOrder /\ UNCHANGED <<part, calling, sourcesVars>>
          \/ part = "source" /\ SourcesNext /\ UNCHANGED <<part, taskVars>>
MCSpec == MCInit /\ [][MCNext]_<<part, taskVars, sourcesVars>>
=============================================================================
