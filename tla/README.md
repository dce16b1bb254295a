# A TLA+ verification of Filo

Filo exposes the coding agents of a Windows machine (Codex Desktop, Codex CLI, Claude Code) over one local, encrypted
HTTP API. It never owns the agents' data: it follows tasks that an original desktop application owns, and runs native
app servers of its own only for tasks it created or explicitly recovered. Almost everything that can go wrong here is
about *who may write a task, when a process may end, and what a client may still believe after a connection, an account
or a process was lost*. This directory models those parts, checks them with TLC on small instances and proves the most
important facts with TLAPS for every value of the constants.

`PROJECT.json` lists the components, the runs, the mutants (one plausible bug per property, with which TLC must find the
property violated), the map from definitions to source lines, the findings, the hazards and the theorems.

## 1. Inventory

| Component | State it keeps | Operations | Concurrency and failure | What makes it correct |
|---|---|---|---|---|
| Private task executor `internal/codex/taskexecutor.go` | one owned native task, latest turn, counted requests, active/settled/retiring flags, a timer | client packets (`receive`, `request`), native notifications, `Retire`, `Disconnect` | a goroutine per packet, one reader, timer callbacks, native timeouts, lost native process | the native writer is released only when idle, and is released eventually |
| Native JSONL transport `internal/codex/rpc.go`, `rpc_write.go` | pending calls, bounded write queue, closed handler | `RequestContext`, `Notify`, `Respond`, `Close` | callers, writer, reader and closers race; deadlines | one reply per call, no lost wake-up, no expired input is written later, every call returns |
| Desktop followers `internal/sessions/{followers,receive,snapshot,session}.go` | table of followed tasks, leases, back-off | `acquire`, `release`, `follow`, snapshots, patches, `Disconnected`, `Close` | readers, native reader, watch and sweep timers; moved owners, lost IPC connections | leases are counted exactly, the projected state is the native state of its revision, waits end |
| Desktop task control `internal/sessions/{access,control,settings,recovery,read}.go` | bindings sealed over follower entries, settings evidence, shared history reads | access, read, status, send, stop, settings, archive, rename | owner, connection, account, turn and history may change between any two reads | a mutation is sent only for what its client was shown, and never to a second writer |
| Desktop IPC client `internal/desktop/{client,exchange}.go` | one socket, its generation, pending calls, write queue | `Connect`, `Request`, `RequestOnConnection`, `Broadcast`, `Close` | shared opening, reconnects, timeouts | a bound request never migrates to another connection |
| Executor processes `internal/service/{taskexecutorfactory,taskexecutorprocess,executorstate,guardianwatch,nativeguardian,...}.go` | `state.json` per executor, task references, keeper, guardian and native processes | open, follow, create, reconnect, retire, guard | every process can die between two file writes | one native writer per task, records are true, no running turn is killed |
| Scoped task adapter `internal/service/{newtasksessions,taskaccess}.go` | entry table, shared openings, operation locks, access bindings | create, read, send, stop, settings, archive, access, shutdown | callers, lost connections, late notifications, shutdown | nothing is published after Close, a bound mutation reaches only its connection and turn |
| Created task client and event streams `internal/service/{createdtaskclient,taskeventstream,events,stream}.go` | one stream per task with reference counts, hub subscriptions with a one-slot signal | attach, detach, read, changed, reset, close | stream failures and replacements race attaches; bursts collapse | references are neither lost nor leaked, no stale page, no lost change |
| Claude bridge and Mod `internal/claude/{bridge,mod_*}.go`, `internal/claude/mod/hooks` | registration, one pending command, remembered inputs, an event queue | register, pull, result, push; send, stop, settings, rename; hooks | lost, repeated and late exchanges, ended leases and sessions, typed input that looks like a sent one | a command is carried out once and while wanted, outcomes are true, events come once and in order |
| Claude broker and stream-json sessions `internal/service/claudeexecutorbroker.go`, `internal/claude/native*.go` | creations by client, sessions, control requests, rows | create, send, stop, model, effort, rename; native events | process exits, foreign or unfitting events, request contexts | success is what the process did, limits hold, nobody waits on a dead process |
| HTTP adapter routes, user sources and helper routes `internal/service/{adapters*,usersource*,userworker,http}.go` | scope and cached access of a source, streams, image readers, uploads | every route of an adapter | the native account, bindings and permissions change under a request, twice (gateway and helper) | an answer is of the scope it names, a mutation is applied as asked |
| Conversation pages `internal/service/{pages,payloads}.go`, `internal/codex/history.go`, `internal/claude/transcript_history.go` | cursors held by clients, a cache of bodies | latest page, older page, load bodies | the conversation grows, is rolled back or rewritten between pages | no gap, no repetition, no divided character, the right body |
| Attachment store `internal/uploads/uploads.go` | pending uploads, used bytes, files | begin, append, complete, resolve, cancel, restart | failing file operations, crashes, limits | the storage limit holds, a receipt names complete bytes |
| Controlled CLI hosts `internal/service/cli*.go`, `internal/codexcli` | registry of shared hosts | attach, launch, share | host death, two clients | one host per scope (not modelled) |
| History index, native JSON, WebSocket framing, encryption, identities, installer | none or files of others | parse, project, frame, install | — | formats (not modelled) |

How they interact: an HTTP request reaches an adapter route (**Sources**). The Codex adapter asks `DesktopSessions`
(**DesktopAccess**), which finds the owner through the Desktop IPC client (**DesktopClient**) and follows the task
(**Followers**) or, when nobody owns it, turns to the created-task scope: a `CreatedTaskClient` in the service
(**TaskStreams**) talks to `TaskSessions` in the user's helper (**TaskSessions**), which connects through the executor
factory to a keeper process (**Executors**), whose `TaskExecutor` (**TaskExecutor**) serves the native app server over
`Rpc` (**Rpc**). A guardian process per executor survives the keeper. The Claude adapter reaches sessions that run in
the original application through its Mod (**ClaudeBridge**, **ClaudeMod**) and sessions of its own through the broker
(**ClaudeExecutor**, **ClaudeRows**). All of them are paged by **Pages**, and messages name attachments of **Uploads**.

## 2. Modules

A step of a module is one critical section of the component's lock, one channel or file operation, or one exchange with
another process; whatever the code does inside it is one action. Native processes, the original Desktop and the file
system's failures are external: they are modelled by what the code in `src/` can observe of them. Logging, wording and
JSON layout are left out.

### TaskExecutor, WriterLifetime
`id, opening, turn, hasUser, materialized, pending, active, settled, nativeClosed, retiring, timer` are the fields of
`TaskExecutor`; `req` holds the goroutines of `receive`/`request`, with one phase per unlock (`admitted`, `checked`
between the two critical sections of `thread/start`, `sent`, `answered`). `toNative`, `owed` and `fromNative` are the
two directions of the native stream: the process takes requests in order and may answer or notify in either order.
`retire` is where a `Retire` call stands (`reading`: `thread/read`, `listing`: `thread/turns/list`, `verified`).

`WriterLifetime` is the abstract specification: a writer with admitted clients, that is at work or not, and that is
serving, fenced or released. TaskExecutor implements it with `admitted <- pending`, `working <- ~Quiet` (a turn runs or
a `turn/start` is on its way) and `phase <- Phase` (fenced while a `Retire` call verifies). The abstract machine knows
nothing of queues, timeouts, retries or of the order in which answers and notifications arrive.

### Rpc
Callers, `writeLoop`, `readLoop` and closers are actors with a program counter; `reply` and `result` record everything
sent on the channels of capacity one, so that a second send, which would block with `r.mu` held, is a visible state.
Deadlines are a set of calls that are late.

### Followers
`entries` and `ent` are the table and the `*followed` values, named by their generation. Each caller is a goroutine of
`state`, `readState` or `Attach`; `watching`, `cleanup` and `asked` are the helper goroutines. `following` and `stream`
are what the original Desktop does with `follow` broadcasts. An entry's conversation is abstracted to the revision it
really shows (`content`) next to the revision it claims (`rev`).

### DesktopAccess
One task and the requests for it, from the access offer to the dispatch. `log` is what each native revision shows (turn,
setting) and what it wrote, so that every property compares what a request *saw* (`seenAt`, `checkedAt`, `base`) with
what was so at another time. Acquiring a follower entry is one step here; its detail is Followers.

### DesktopClient
`socket`, `generation`, `connected`, `stopped` and `opening` are the fields of `Client`; `pending`, `writes`, `queued`
and `failed` those of each `exchange`, named by its generation. Callers, the opener, the owner of `Close`, and the two
loops of each exchange have a program counter. Of all the callers of `exchange.close` only the first has an effect;
`stage` is how far that one has come, from the failure through `onClose` to the `OnClosed` callback.

### Executors
Files (`rec`, `origin`, `current`, `recovered`) survive; processes (helper `gen`, `keeper`, `guardian`, `native`) die at
any step. `mem` is the keeper's record in memory and `snap` the copies two of its goroutines are about to write. The
fencing and the idle check inside `Retire` are those of TaskExecutor, taken here as one step.

### TaskSessions
`entries`, `opening`, `draining`, `writes` and the per-entry `lock` are the fields of `TaskSessions`. A native task is
the number of times a turn of it started or ended, so that it is odd while a turn runs and a stale observation differs
from the present. `conn[k].told` is what the notifications of a connection have reported. `Close` may come at any time,
also while `PrepareShutdown` verifies. The constant `EarlyReads` lets a task be asked for before its first turn has
started, which `Send` of the creation does last. It is off in the runs: until then the native side has not persisted
the thread ("a never-started task is then left unpersisted by the native side", `newtasksessions.go:276`), so no list
names it, and its identity was told to nobody. Section 4 says what happens when it is on.

### TaskStreams
Composes the created-task client, the event hub and the loop that serves one event stream. A page is the version of the
native task it shows; `table`, `refs`, `count`, `err`, `page` are the subscriptions of the client, `spc` the goroutine
that opens and reads each of them, `signal` and `ended` the two channels of a hub subscription, `vpc` the serving loop.
The helper behind the stream is external: it sends a page when its task has changed.

### ClaudeBridge, ClaudeMod
`ClaudeBridge` is the helper's side for one native session: the registration `reg`, every command `cmds` with the record
of its delivery, and the requests that wait for it. `ClaudeMod` extends it with the Mod (JavaScript hooks inside the
native application): the pump, the single HTTP exchange `wire`, which may fail before or after the helper handled it, be
repeated, or be answered after it was abandoned, the event queue with its limit, and the native session itself.
`clearLocal` and the turn hooks discard what was begun before them; the model drops it at that moment.

### ClaudeExecutor, ClaudeRows
`ClaudeExecutor` is the broker with its creations and stream-json sessions; each session has a process with a pipe in
each direction. `hits` records the turn an interrupt was meant for and the one it met, `took` how often an input was
taken. `ClaudeRows` is the state of the rows of one turn under streamed pieces, repeated envelopes and limits; an event
is handled under the session's lock, hence one step. That a process writes a block's single envelope before the whole
message's is an assumption about the process.

### Sources
A handler is a program, a sequence of steps between which others may act; `Prog` has the programs of the routes at the
gateway, of the user source and of the helper's routes they call. `sample` is the helper's answer to `/v1/info` and the
next step the gateway's use of it, which may come after another request's later sample. A native scope is a number that
never returns. The last check of a mutation (`HCheck`, `NValidate`; `checked` is the scope and the binding it saw) and the
native call (`NApply`, `NCreate`, `NStart`) are separate steps, and the call tests nothing: `applied` records the scope and
the binding that really hold at the call next to those last checked.

### Transcript, Pages
`Transcript` has the pages read backwards from a byte position of a file that is appended to, rewritten or registered
anew, with the anchors its cursors remember. `Pages` is the pager over it or over native items, possibly stacked (gateway
over helper), and the cache and loading of bodies. Texts are sequences of UTF-16 units with surrogate pairs.

### Uploads
The store and its directory. A crash may fall between the rename and the receipt of `Complete`; removals and writes may
fail, leaving no receipt, a torn one or a whole one that was never told; restarts recount the directory, and whatever lies
in it weighs what was written of it.

### Instances
`MC*` modules give the constants. Instances that would be too large with every event at once are a union of scenarios:
`scenario`, `story`, `calling`, `budget` or `scn` is chosen initially, never changes, and only bounds which callers and
events take part. `MCDesktop`, `MCConversations` and `MCRequests` put components that share no state in one instance: the
frozen variable `part` says which of them a behaviour is about, and the others stay at rest. `MCTaskSessions` takes unused
connections in the order of their numbers (`TakenInOrder`) and treats the two clients alike (`Exchanged`), since both are
interchangeable.

## 3. Runs

All passing runs finish within five minutes on two workers.

| Run | Checks | What it shows, bounds |
|---|---|---|
| `executor` | `TypeOK`, `ReleasedOnlyIdle`, `ImplementsLifetime`, `EventuallyRetires` | two concurrent clients, every counted method, one turn, one fault (timeout, failed release or lost process), an executor that resumes its task or creates it: the first bounds with which a timed-out `turn/start` can still run while a retirement verifies |
| `followers` | `EntriesExact`, `WaitsEnd` | two callers; a lost and re-opened connection with two revisions, a moved owner and an archived task, attachments with status requests and `Close` |
| `rpc` | `RequestsAccounted`, `NoExpiredWrite`, `EverythingEnds` | one request and one notification compete for a queue of one, a stalled write, a silent stream, three ways to close |
| `executors` | `RecordsTrue`, `SingleWriter`, `NoTurnKilled` | two executors and three faults anywhere: keeper, guardian, helper, native process, failed writes |
| `executors_orphan` | `OrphanReleased` | a guardian releases the native process of a dead keeper, also after three faults |
| `desktop` | `NeverMigrates`, `ConnectionsAccounted`, `NoAbandonedWrite` of the client; `DispatchedAsSeen`, `SettingsTrue`, `NoSecondWriter`, `OneSharedLoad` of the requests | client: one call over two successive connections; two calls and a discovery request over a queue of two; two calls over one pending slot while the client is closed. Requests: scoped and unscoped sends, stops and settings changes while the turn, owner, connection or account changes up to twice; two native writes around a settings change; owners that come and go around the created scope and idle recovery; two readers of one entry |
| `streams` | `StreamsOwned`, `NoLostChange`, `Fresh` | two views and a failing stream; two views of a changing task; two failures under one view; two tasks and one stream; the hub and the client end |
| `conversations` | `OnceWhileWanted`, `OutcomeTrue`, `EventsOnce` of the bridge; `AnsweredTruly`, `StopHitsItsTurn`, `Capacity`, `NobodyWaitsOnTheDead` of the broker; `RowsTrue`; `WalkExact`, `LoadTrue` of the pages; `StoreTrue` of the uploads | thirteen situations of one or two requests to the Mod, nine of up to three requests to the broker with two live executors, five turns whose rows meet every limit; eight conversations, of one and two paging layers, whose pages are re-read and loaded while they change; three uploads, two at a time, in a store of five bytes, with two faults |
| `requests` | `ShutdownFinal`, `BoundDispatch`, `WaitsOnTheLiving` of the task adapter; `AnswerInScope`, `AppliedAsAsked`, `NothingHeld` of the sources | task adapter: two clients, a turn that starts and ends; creations, reads, settings and archives over three connections, or bindings with sends and stops over one connection and its successor, race lost connections, a shutdown and any number of closes. Sources: pairs of requests of every route with one or two changes of the scope, the binding, the permissions or a failure |
| `executor_second_task`, `tasksessions_lost`, `tasksessions_close` | violations | findings 1 to 3 |

Bounds. Two of everything that competes (requests, callers, executors, connections, views) is enough for the races the
code distinguishes, because the critical sections look at one other party at a time: the holder of a lock, of a table
slot, of an attempt. Counters in the code (pending limits, queue bounds, capacity, rows, caches, subscriptions) are
constants set so that the limit is reached. Faults are bounded because each one multiplies the state space; the bound is
at least the number of faults after which the code has a distinct reaction. `Close` of the Desktop client is met only
over one connection: after it no other one is opened.

Fairness. Only what Filo itself schedules is fair: goroutines that can run, timers that were armed, started processes.
`executor` also assumes that the native process handles and answers what it was sent, `executors_orphan` that a turn
ends, `streams` that the helper sends the page of a changed task; without that the code is *meant* to wait. No client,
fault, reconnection or owner is ever obliged to act. Rpc assumes that a blocked read or write returns once the endpoints
were closed under it. TaskSessions, Sources, Pages, Uploads, the Desktop and the Claude modules are checked for safety
only; `WaitsOnTheLiving` and `NobodyWaitsOnTheDead` state the absence of waits that nothing can end as invariants.

Deadlock checking is off where a behaviour may legitimately end (all callers used up).

## 4. Findings

1. Two concurrent `thread/start` requests both create a native thread (`executor_second_task`).
2. A connection lost between its admission and its publication stays in the table (`tasksessions_lost`).
3. A `PrepareShutdown` that fails lifts the fence of a `Close` that ran meanwhile, and an opening publishes its connection
   after that `Close` (`tasksessions_close`). `Close` is called from the signal goroutine (`standalone.go:249`) and from the
   closed handler of the native connection (`standalone.go:191`), `PrepareShutdown` from the shutdown route (`http.go:441`)
   and the poller (`standalone.go:380`); the loss of that connection also makes the verification fail. `Close` of the
   factory still refuses new connections; what is published had been admitted before, and ends with the process.

`PROJECT.json` quotes the sentence of the code or its tests that each one contradicts.

Known disagreements that no run pins down. The modules contain the behaviour, and their properties are stated so that
they hold with it:

- `release` decides under `Followers.mu` and broadcasts the unsubscription after the unlock (`followers.go:145`), so it
  can end the stream that a newer lease of the same task relies on, although a read lease "protects both pending
  snapshots and persisted/live merging from another reader's release" (`session.go:11`);
- the closed handler that `attempt` installs for the keeper (`taskexecutorprocess.go:304`, comment at `:291`) goes into
  the single slot that `NewTaskExecutor` then uses for its own, so a keeper that loses its native connection does not
  serve again;
- an input may be admitted between `CloseIdle`'s check and its closing of the pipe (`native.go:286`), although it
  "closes only a process that never admitted an input" (`native.go:283`).

Behaviours that a reader of the code may not expect and that no sentence of the repository excludes, or that no client
can cause today:

- the answer to `turn/start` is applied by its own goroutine, so a delayed one overwrites `e.turn` with a turn that has
  finished (`taskexecutor.go:427`);
- the capacity check counts recorded executors and those being started by the same helper; one that a dead helper was
  starting does not count (`taskexecutorfactory.go:284`);
- a read of a task whose creation has not returned replaces its entry, and `Close` leaves one connection open
  (`newtasksessions.go:272`; `EarlyReads`);
- a shutdown whose response is lost leaves a helper prepared and running;
- the native account or the binding may change between the last check of a mutation (`taskaccess.go:142`) and the native
  request, so that it is carried out, and answered as done, in another scope; rename and archive have no check after
  `ValidateAccess`; a creation is checked again before its first turn and before it is answered, so it is never answered in
  a scope in which it did not happen;
- a read on an entry runs under the request context of the mutation that holds its lock (`taskaccess.go:144`);
- a `Disconnected()` that runs after the next connection is up drops the entries that were opened over it
  (`followers.go:177`): their readers see an error and follow again;
- a `Stop` whose interrupt was answered waits for the end of the turn until its context ends, also when the process has
  gone (`native_controls.go:100`); `NobodyWaitsOnTheDead` speaks of answers and replays only;
- an older title, read or queued before a rename, may be shown after the rename was confirmed;
- a turn's start or end whose observation is superseded before it finishes is not reported by the Mod;
- a tool result without content, followed by the envelope of the whole message, shows the tool as running again;
- a page without messages names none, so re-reading its cursor reads the latest page;
- models, usage and statuses are checked before and after the native read; a scope that changed and returned in between
  would not be noticed; the model lets no scope return;
- a create may be answered "identity changed" although it was done natively, and a stream of an old scope is ended only
  by its next heartbeat.

## 5. Proofs

Every `*Proofs` module extends the module of its component and holds its inductive invariant `Inv`, one lemma per action
and the theorems; `DesktopProofs` does so for two components, with `ClientInv` and `AccessInv`. The theorems hold for
every value of the constants that satisfies the named assumptions of the component's module; TLC evaluates these in the
runs. Each inductive invariant was checked by TLC on the run's instance before it was proved.

### TaskExecutor

`TaskExecutorProofs` proves, for any finite set of clients and any number of threads, turns, faults and any pending limit
(`ExecutorAssumption`, which TLC evaluates in every run of TaskExecutor):

- `TypeCorrect`: `Spec => []TypeOK`;
- `RetirementIsFenced`: `Spec => []RetirementFenced`;
- `ReleasedWhenIdle`: `Spec => []ReleasedOnlyIdle`;
- `ExecutorImplementsLifetime`: `Spec => ImplementsLifetime`, the refinement of WriterLifetime.

`ReleasedOnlyIdle` is not inductive: it says nothing about how the executor came to believe that the task is idle. The
inductive invariant `Inv` adds

- `Fence`: every request past admission is counted, and from the guard of `Retire` to the release none is;
- `NoTaskQuiet`: before a task is owned nothing has been sent to one;
- `VerifyOnce`: at most one exchange of the retirement is outstanding, in exactly one of the three queues;
- `ReadOrdered`: while `thread/read` is on its way no `turn/start` is behind it, and an answer other than `active` was
  given when the native task was quiet;
- `VerifiedQuiet`: past that answer the task is quiet.

The argument: the native process takes requests in the order they were written, the fence admits nothing after the
read, hence an idle answer that arrives is about a task on which nothing else can start. A timed-out verification leaves
an answer on its way; it is renamed `abandoned`, which is what `Rpc.dispatch` does by dropping it, and cannot be
mistaken for the answer to the next one.

The refinement rests on `Invariance` (`Spec => []Inv`) and one lemma per kind of step. A packet of a client is `Admit` or
is refused, its end is `Answer`; only `Forward` of a `turn/start` is `BeginWork`, with its client still counted
(`OnlyForwardBegins`, `Serving`); the native process can only end work, since the turn it starts was on its way before;
`Retire` past its guard is `Fence`, because `pending` is empty there; a failed or timed-out verification is `LiftFence`;
and `Release` is `Release`, where `VerifiedQuiet` supplies `~working`. Everything else leaves the abstract state alone.

### Rpc (`RpcProofs`, from `RpcAssumption`)

- `RequestsAreAccounted`: `Spec => []RequestsAccounted`;
- `ExpiredNeverWritten`: `Spec => NoExpiredWrite`, an action property.

For any callers, notifications, packet sizes, queue bound and byte bound. A call has one reply because `OneReply` holds:
whoever is still registered, or has just been taken by the reader, has an empty channel. `OneResult` ties membership in
`writes` to the state of the write, `Hands` says what the writer and the reader are carrying, `QueueDistinct` and
`QueueTrue` that the queue holds each queued write once. The byte count is a sum over a set: the proofs speak of a
listing of `writes` with running totals (`Adds`), which grows and shrinks by one element with each step, so no induction
over the set is needed. An expired write leaves the queue in the step that expires it, hence what the writer takes still
has a caller that waits (`StillWaits`).

### DesktopClient (`DesktopProofs`, from `ClientAssumption`)

- `BoundNeverMigrates`: `Spec => []NeverMigrates`;
- `ConnectionsAreAccounted`: `Spec => []ConnectionsAccounted`;
- `AbandonedNeverWritten`: `Spec => NoAbandonedWrite`, an action property.

For any callers and any number of connections, reconnections and closes. `NeverMigrates` speaks of what the Desktop
received; inductive is `Bindings`: a bound call that is queued, in the writer's hand or received on a connection is
bound to that connection. It needs to know that a call is on its way only after it was enqueued (`Sent`), on the one
connection its goroutine uses (`Users`, `Calling`). `ConnectionsAccounted` needs the single opening (`Openings`: it
finds every earlier connection failed), that only the newest connection can be alive (`Sockets`), that a failed one is
drained (`Drained`), and which connection a racing `Close` holds (`Losses`, `Closing`).

### Executors (`ExecutorsProofs`, from `ExecutorsAssumption`)

- `OneWriterPerTask`: `Spec => []SingleWriter`;
- `RecordsCanBeReliedOn`: `Spec => []RecordsTrue`;
- `NoRunningTurnKilled`: `Spec => []NoTurnKilled`.

For any executor directories, tasks and callers, any capacity and any number of deaths of keepers, guardians, native
processes and calls. `Lives` relates, per executor, the keeper, its native process, its guardian and the two copies of
the record through every crash point. `Names`: the task of an executor never changes once it has one, whoever writes it
down. `Writers` is the heart: an executor that can still write a task is the one its references lead to, or has just
created the task, or is being launched for it. `Replacing` excludes the third case from meeting the first: while a task
gets a new executor, every other executor of it is `Over`, which is what `executorWriterEnded` waits for. Steps inside
one executor are shown `Lawful` one by one, and a single lemma lifts a lawful step to the invariant of the whole system.

### TaskSessions (`TaskSessionsProofs`, from `TaskSessionsAssumption` and `CallingsAssumption`)

- `NobodyWaitsOnTheDead`: `Spec => []WaitsOnTheLiving`;
- `BoundMutationsReachWhatTheySaw`: `Spec => []BoundDispatch`;
- `PreparedMeansQuiet`: `Spec => [](TypeOK /\ ShutdownQuiet)`;
- `ShutdownsAreFinal`: `Spec => []ShutdownFinal`, assuming `~EarlyReads`.

All four hold whenever `Close` is called, also inside a `PrepareShutdown`. `ShutdownFinal` speaks of the states in which
the fence of a `Close` stands (`FenceStands`: no later failure of a `PrepareShutdown` has lifted it and none is under way
that could). That the fence may be lifted is finding 3; a later `Close` raises it again and ends what was published
meanwhile. The first three theorems hold whatever is asked for; the fourth needs its assumption, and TLC finds a
counterexample without it: a task that is read before its first turn has started (section 4). With it, `Final` is
inductive on top of `Inv`: nobody but its creator knows a task that is being created (`Known`), so the entry that is
published replaces none (`Vacant`), so every open connection is published or on its way there (`Owners`), and `Close`
finds it. In `Inv`,
`Openers`, `Leaders` and `Waiters` tie a shared attempt to the client that carries it out, `Lockers` an operation lock to
the operation under it, and `Counted` and `Fenced` make the mutation count exact and final once the fence is up.

### Followers (`FollowersProofs`, from `FollowersAssumption`)

- `FollowedEntriesAreExact`: `Spec => []EntriesExact`.

For any conversations, owners and callers and any bounds. The count of an entry is exact only together with what a
caller remembers: `Calls` says that a caller that acquired an entry did so for its own conversation, `Belongs` that an
entry never changes its conversation, `Tabled` that the table holds each entry under it and never a dropped one. Hence a
release after the entry was replaced cannot take a reference of its successor. `StateExact` is kept because a patch is
applied only to the revision it starts from. Losing a connection, an eviction and `Close` drop any number of entries at
once; one lemma covers all of them (`Shrinks`).

### TaskStreams (`TaskStreamsProofs`, from `StreamsAssumption`)

- `StreamsHaveTheirHolders`: `Spec => []StreamsOwned`;
- `SleepersMissNothing`: `Spec => []NoLostChange`.

For any tasks and views and any bounds. A failed subscription is replaced by one that inherits the count, and views still
hold the old one: `Chained` names the chain of replacements by its first subscription, and `Viewing` says that the
subscription a view holds is of the chain that counts the view, which makes `RefsExact` inductive. `Sound` says that what
is cancelled or has ended while still in the table has recorded its failure. `Bounded` shows that the model's supply of
subscriptions is never exhausted: chains are begun by views that attach, replacements by faults, so no behaviour is cut
off by the bound (`RoomToOpen`).

### DesktopAccess (`DesktopProofs`, from `AccessAssumption`)

- `BoundToItsTurn`: `AccessSpec => []DispatchedAsSeen`;
- `AppliedAsAnswered`: `AccessSpec => []SettingsTrue`;
- `OneWriter`: `AccessSpec => []NoSecondWriter`;
- `SharedLoad`: `AccessSpec => []OneSharedLoad`.

For any conversations, owners, callers and bounds and any well-typed set of scenarios, which is all `AccessAssumption`
says (the `desktop` run evaluates it). Each of the four properties speaks of one moment: the dispatch of an operation,
its answer, the load of a page. Their reasons lie many steps earlier, in what a caller read of the shared table, so the
inductive `AccessInv` says for each caller what its local copies still mean (`Proper`), and it rests on one fact about the
shared state: revisions, entries and reads are only ever added (`Grows`), and an entry that left the table never
returns. Then

- `Kept`: within one epoch of an entry its turn does not change, hence the comparison of epochs at the dispatch is a
  comparison of turns (`DispatchedAsSeen`);
- `Followed`: what an entry shows was reported by its owner at or after the revision of its evidence, so an answer is
  given on something the owner has said (`SettingsTrue`);
- `Owning`, `Unowned`, `Resolved` and `Placed`: a caller that found no owner keeps the writer that its resolution placed
  (`NoSecondWriter`);
- `Loading` and `Merging`: the one load that is under way is the one its joiners wait for (`OneSharedLoad`).

One lemma covers what a step of one caller does to the others (`Evolves`), one what a change of the table does to all
(`Turns`, `Fitting`); the actions are cases of these.

### ClaudeExecutor (`ClaudeExecutorProofs`, from `BrokerAssumption` and `InputsAssumption`)

- `StopsHit`: `BrokerSpec => []StopHitsItsTurn`;
- `AnswersTruly`: `BrokerSpec => []AnsweredTruly`;
- `NobodyWaits`: `BrokerSpec => []NobodyWaitsOnTheDead`;
- `WithinLimit`: `BrokerSpec => []Capacity`.

For any requests, inputs and limits, any number of troubles of each kind and any set of stories in which a client makes
a new identity for each input (`InputsAssumption`). An input may be created or sent any number of times, but only to the
session it creates or to the only one that is created: nothing in the code keeps two sessions from taking an input
with the same identity, since each knows only its own. `Inv` has these parts:

- `Sound`, of a session and its process: an input on its way to the process is the active turn and was not taken yet, so
  at most one is on its way (`InputLines`); an interrupt on its way names the running turn, if one runs
  (`InterruptLines`); a control is answered once, after the process took it (`Controls`);
- `Served`, of a request in its session: what it may still write is still right (`Sends`, `Stops`), what it waits for is
  open or answered (`Waits`), and while it holds `controlling` no other interrupt is on its way (`Controlling`);
- `Apart`, of two requests of one session: an input and an interrupt are never both about to be written, nor two of
  either. This is what the unlock before the write could break and `controlling` prevents;
- `Makers` and `Homes`: a session has one creator, a client at most one creation under way, and an input is known only
  to the session it created or the one it was sent to. Hence `InputOnce`, across sessions;
- `Limit`: the creations that `create` counts stay within `MaxLive`. `Capacity` follows because the working executors
  and the starting requests map one to one into them (`TwoInto`).

`StopHitsItsTurn` speaks of history, so it is preserved rather than implied: each step that records a hit is shown, from
`Inv`, to record a good one.

### Only model-checked

- Liveness: `EventuallyRetires`, `WaitsEnd`, `EverythingEnds`, `OrphanReleased`, `Fresh`. It needs fairness and
  `ENABLED`.
- What folds, sums or recursive definitions compute for every input needs induction over data, which is beyond the
  installed provers: `WalkExact`, `LoadTrue` (Pages, Transcript), `RowsTrue` (ClaudeRows); `OnceWhileWanted`,
  `OutcomeTrue`, `EventsOnce` (ClaudeMod), because a batch of events is folded into the registration (`ApplyBatch`);
  the budget in `StoreTrue` (Uploads), which is a sum over the files.
- `AnswerInScope`, `AppliedAsAsked`, `NothingHeld` (Sources). A proof has to go through the positions of every route's
  program; it is not written yet.

## 6. Not modelled

- Controlled CLI hosts (`cli*.go`, `internal/codexcli`): the registry of shared hosts, its leases and status reads. They
  have state of their own and are next in the plan.
- The polling of the Claude executor client: one HTTP call per operation.
- Parsing and projection of native JSON, rollout files and transcript lines; the history database; cryptography;
  WebSocket framing; HTTP decoding and status codes; Windows identities, tokens and the service manager; the helper's
  start and handshake; installer scripts. These are pure functions, I/O, or other vendors' formats.
- In the modelled components: page contents beyond identity and length, settings values beyond one setting, usage,
  receipts, and the delays of timers.
- Finer steps of the modelled components: in Executors a `turn/start` is sent and accepted in one step, so one on its way
  past the guardian's `thread/read` (`guardianwatch.go:126`) is not seen; in TaskStreams the opening timer fires before or
  after `openStream` returns, not during it (`createdtaskclient.go:327`); in Pages tool identifiers belong to a record, so
  equal ones in two windows do not occur, and `Load` reads no metadata.

## 7. Plan

1. The controlled CLI registry: one host per scope through host deaths and two launching clients.
2. An abstract specification of "one task, one writer" that TaskSessions and Executors implement together with
   WriterLifetime.
3. Proofs: the properties of Sources; `ReceiptsTrue` of Uploads, the part of `StoreTrue` that needs no sum.
