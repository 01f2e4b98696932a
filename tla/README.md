# TLA+ models of QwenClaw

QwenClaw is an agent gateway: a C++ daemon that takes requests over WebSocket,
HTTP and chat channels, runs turns of a language model with tools, keeps the
transcripts, starts jobs at their times, and talks to a TypeScript sidecar that
holds the plugins. This directory specifies the parts of it in which threads,
processes and files meet, model-checks them with TLC, and proves the main
safety results about most of them with TLAPS.

Paths below are relative to the root of the repository's `src/` unless they
begin with `sidecar/` or `ui/`.

## 1. The system

### Components

| Component | State | Operations | What makes it correct |
|---|---|---|---|
| **Command queue** `gateway/command_queue.cpp` | one lane (deque, active command, settings) per session, id map, count of active commands, dispatcher thread, worker threads | Submit in five modes, Cancel, AbortSession, ConfigureSession, SetConfig, Start, Stop | order, serialization per session, the global limit, no lane blocked or lost, a Stop that ends and leaves nothing running |
| **Session store** `session/session_manager.cpp` | index in memory and in `sessions.json`, a transcript per session id, a lock per session | GetOrCreate, AppendMessage, AppendTranscriptEntry, GetHistory, DeleteSession, ResetSession | index and files agree, lines stay whole, no appended message is lost |
| **Cron scheduler** `core/cron_scheduler.cpp`, the handlers `cron.*` | vector of jobs, file, scheduler thread | AddJob, RemoveJob, update (a remove and an add), the pass, Load, Save | due jobs run, others do not; the file follows the vector; what was acknowledged is lost only in the ways section 5 names |
| **Gateway server** `gateway/gateway_server.cpp` | connections, handler threads | connect.hello, requests, Start, Stop | one answer per request, bounded handler threads, none outliving Stop |
| **Sidecar manager** `plugins/sidecar_manager.cpp`, `platform/` | child process, connection, pid file, restart count, monitor thread | Start, Stop, Call, Reload, the monitor's loop | one child at a time, no other child's connection, answers to the right request, no child left behind |
| **Sidecar process** `sidecar/src` | connection, plugins, their tools and services | load, reload, start and stop a service, shut down | what can be called is what was loaded last, a service listed is a service running |
| **Agent loop** `core/agent_loop.cpp` | stop flag, model and limit of iterations shared by all turns; per turn the messages and three budgets | a turn, plain or streaming, Stop, SetModel, SetConfig | budgets bound the calls, also when a reload changes the limit; a stop is obeyed; one end event per call that succeeds |
| **Context engine** `core/default_context_engine.cpp`, `context_pruner.cpp`, `multi_stage_compaction.cpp` | what is sent to the model | limit, compact, prune, summarize, halve on overflow | the newest of the history, whole, in its order, and it fits |
| **Provider failover** `providers/failover_resolver.cppm`, `cooldown_tracker.cppm` | cool-downs, pins, fallback chain | Resolve, RecordSuccess, RecordFailure | no key in cool-down except as a throttled probe |
| **Providers** `providers/anthropic_provider.cppm`, `llama_provider.cppm` | the parser of a stream | write callback, end, refusal | however the bytes are cut, nothing is lost, doubled or passed on in part |
| **Gateway start and shutdown** `cli/gateway_commands.cpp`, `core/signal_handler.cpp` | the parts in their order, signals | start, wait, stop, destruction | what has been stopped is used in three ways only (section 5); a stop ends the process |
| **Configuration** `core/config.cpp`, handlers `config.*`, `skills.update`, the CLI | the document, its backup, what is in force | set, apply, edit in place, reload from three kinds of thread | an acknowledged edit survives; what is in force is what the document says |
| **Web API** `web/api_routes.cpp`, `web_server.cpp` | turns over HTTP, queue of server-sent events | ask, stream, drain | the history given is what went before; events in order and whole, on the agent's own route with the last one; the queue bounded |
| **Memory** `core/memory_manager.cpp` | index over files, watcher thread | build, watch, reload, stop | the index is that of the identity files, as far as the kernel has told of their changes |
| **Event log** `core/dag_runtime.cpp`, `core/evolve_runtime.cpp` | runs, nodes, edges in a database | begin, node, end, attach, prune, restart | chains without gaps, true statuses, bounded size |
| **Subagents** `core/subagent.cpp` | runs, children of a parent | Spawn, CompleteRun, FailRun, CancelRun, CleanupCompleted | limits on children and nesting, final states stay final |
| **Tool calls and approvals** `tools/tool_registry.cpp`, `security/exec_approval.cpp` | tools, pending and resolved requests | the gates of ExecuteTool, RequestApproval, Resolve, PruneExpired | what runs agrees with what was decided |
| **Background commands** `tools/tool_registry_exec_tools.cpp`, **captured ones** `platform/process_unix.cpp` | table of sessions with futures; a pipe, a child | start, list, poll, kill, remove; fork, read, time out, reap | no lock held by a call that waits in a future's destructor; output in order; the shell reaped |
| **Channel adapters** `channels/adapter_manager.cpp` | a process per channel, monitor thread | Start, restart, Stop | one process per channel, none left by Stop |
| **Rate limiter** `security/rate_limiter.cpp` | time stamps per connection | Allow, RetryAfter, Prune, Reset | never more than the window admits; the advice is true |
| **Session maintenance** `session/session_maintenance.cpp` | the files of the session store | prune, cap, rotate, limit the disk | no message lost but by its own rules |
| **Gateway client** `gateway/gateway_client.cpp` | connection, pending calls | Connect, Call, Disconnect, the library's callbacks | what the client holds of its connection, its greeting and its calls is so; every call returns unless its time-out meets its answer |
| **Browser chat** `ui/src/ui/gateway.ts`, `controllers/chat.ts`, `app-*.ts` | socket, one message in flight, queue, draft | connect, send, end of a run, switch of session, abort | no message lost, none sent twice, the chat does not get stuck |
| Authorisation, recon runtime, prompts and skills, usage accounting, MCP, command line | tables, text, I/O | | |

`PROJECT.json` lists every component with its sources, what of it is modelled,
and why the rest is not.

### How they interact

The gateway server runs `agent.request` and `chat.send` directly, each on a
thread of its own; the web API runs turns on its threads; in production only the
cron scheduler submits to the command queue (`cli/gateway_commands.cpp:500-507`),
and the `queue.*` requests reconfigure it. All three append to the session store
and run the one agent loop, which asks the context engine for the messages, a
provider for an answer and the tool registry for tools; some tools start
processes, one spawns subagents, which run turns themselves, and some live in
the sidecar. Answers go back through the gateway server or a stream of events to
whichever connection is still there. Turns leave a trace in the event log.
Everything shares one process; what survives it are files (jobs, sessions,
configuration, memory) and databases.

### Hard behaviours

* Threads of several components under several locks, and state looked at under
  one acquisition of a lock and used under another: the queue's workers and
  lanes, the cron pass, appends beside deletes and resets, the ceilings on
  handler threads and on subagents, cool-downs asked and reported one by one.
* Child processes that crash, start slowly, answer late or half, and are
  replaced while callers read and the owner stops the manager.
* Crashes between two writes or inside one; writers of one document in several
  processes without a lock.
* Streams cut anywhere, clients that leave, connections that come back.
* Asynchronous JavaScript: what changes at each await.
* Stop at every point of everything.

The hazards, each at its line and with the properties for it, are in
`PROJECT.json`.

## 2. The modules

Each component is a module of its own, in terms of its own state.

| Module | What it is | State and actions against the code |
|---|---|---|
| `SessionLane` | pure operators on a lane's queue (`command_queue.cpp:95-242`) | `Trimmed` is `ApplyCapOverflow`, `KeptByInterrupt` the loop of `InterruptActive` |
| `CommandQueue` | the queue | one action per critical section of `mu_`: `SubmitSteering`/`SubmitQueued` (the early returns of Submit and the rest), `Cancel`, `AbortSession`, `ConfigureSession`, `SetConfig`; `DispatchPass` is a whole pass of `dispatcher_loop` under the lock, `SpawnWorker` the threads it starts after it; `StartRun`, `FinishRun`, `Release`, `EndWorker` are `execute_command`; `Start`, `Stop`, `TakeWorkers`, `StopReturns` |
| `SerialSessions` | abstract specification: what a queue that is never interrupted promises | `CommandQueue!ImplementsSerial` maps the queue to it |
| `CronScheduler` | vector, file, pass | a pointer of `due_jobs` is a position in the vector; a write of the file is a truncation and then a write; AddJob pushes and saves in two critical sections; an update removes and adds; of a job's contents, whether its schedule is empty, which Load skips, and whether its name is cut inside a character, with which no write succeeds (`Thrown`) |
| `SessionStore` | index, transcripts, appends | a transcript is an inode under a path, so that a writer keeps the file it opened; AppendMessage is split at its locks and, for a long record, at its two writes; DeleteSession and ResetSession at the file operation and the write of the index |
| `HistoryTail` | how GetHistory reads the end of a file | `TailLines` and `History` as in the code, checked against "the last messages of the file" |
| `GatewayServer` | connections, requests, handler threads | `handle_rpc_request` is split at its locks: `Screen` (checks on the copy of the connection), `Admit` (reap and count), `Spawn`, `Track`; `Respond` and `End` are the handler's thread; `Stop` at the end of the WebSocket server and at the joins |
| `Sidecar` | the manager, its callers and its children | `spawn_sidecar` is split at `fork` and `accept`; `Call` at the lock, the write, which may wait for room, and the read; `monitor_loop` at each sleep; `Stop` at the kill, the wait, the join and the closing. `ipc_handle_` leads to a child, is closed, or is the number of a descriptor that was closed and may be another thread's (`Stray`); a command that is run holds the connection open, too (`inherited`) |
| `PluginRuntime` | the plugins inside the sidecar | one action per stretch between awaits of `main`, `reloadPlugins`, `shutdown` and the requests that start and stop a service |
| `AgentTurns` | turns on one AgentLoop | a turn is at the top of the loop, before the call, in it, or after it; the flag, the model and the limit of iterations are shared, and `SetConfig` changes the latter under the turns that run; the last chunk comes inside the call, which may fail after it; `Retry` is `handle_provider_error` |
| `ContextEngine` | the messages of each call | one action per call of the model; compaction, pruning and the guards are operators on sequences of sized messages |
| `WebTurns` | turns of one session that no lane orders | split where a turn writes its question, reads the history and appends its answers |
| `Failover` | Resolve and the reports | split at each question to the tracker, which has a lock of its own |
| `ProviderStream` | the parsers of streams | one action per call of the write callback, for every cut of the bytes |
| `EventStream` | SseStream | the turn's pushes against the server's `Drain`, which writes without the lock |
| `GatewayLife` | ForegroundCommand | the parts are `down`, `up` or `stopped`; main starts and stops them in the code's order beside cron, a worker, the servers' threads and the watcher; use of a part that is gone ends the process |
| `ConfigDocument`, `ConfigReload` | those who write the document; what the gateway makes of it | a writer at its read, backup, truncation and write or rename; a reload at its load, its check and its two assignments, on any thread |
| `MemoryIndex` | index and watcher | builds that read file by file and install at the end; the queue of inotify, which is bounded and told of writes and renames to a file but not of its removal |
| `EventLog` | dag_runtime under its callers | one action per statement; an evolution run attached and detached |
| `Subagents` | Spawn and the runner | the limit tested and the run entered in two steps; a stack of runners per thread |
| `ToolCalls` | ExecuteTool and the approval manager | one action per lock and per callback |
| `BackgroundProcesses`, `ExecCapture` | the process tool; exec_capture | split at `bg_mu_`, a session's mutex, the wait in a future's destructor; at fork, read, poll, kill and wait, with SIGCHLD ignored or not |
| `ChannelAdapters` | processes of adapters | the monitor's scan and restart against Start and Stop, which share no lock |
| `RateLimiter` | the sliding window | Allow and RetryAfter as two critical sections, time in parts of a second |
| `SessionMaintenance` | sweeps | its four steps on the directory as each finds it |
| `GatewayClient` | the client and its library | callbacks, calls, and the two locks a time-out and a delivery take in opposite orders |
| `WebChat` | the chat in the browser | one action per callback with the continuations it settles, frames in order both ways |
| `Services`, `Processes` | the components side by side, below | `GatewayLife`, `WebTurns` and `ConfigReload` compose those that interact |
| `GatewayParts`, `AgentParts` | the instances of the parts of `Services`, with their constants and variables | those about the gateway and those about the agent; `Services` extends both |
| `...Proofs` | theorems | section 4 |
| `MC...` | the instances for TLC | `MCLaneOverflow` and `MCSessionStore` also hold the checks of the pure operators, as assumptions that TLC evaluates |

Operators commented "Fault" are what a plausible mistake would turn the
operator below them into. No specification uses them; they serve to see that
each property notices the mistake (`PROJECT.json`, "mutants").

### Parts side by side

The components that share no state with each other are instantiated side by
side in two modules: `Services` (16 parts, of which two are the plugins of the
sidecar, once with all of them and once with more requests) and `Processes` (10
parts, those that wait for another process, thread or peer); `MCServices` and
`MCProcesses` give them their instances. The parts of `Services` are declared in
`GatewayParts` and `AgentParts`, so that a proof about one sees the variables of
its half only. A variable `part`, which never
changes, says which of them a behaviour is about: only that part steps, and
`OthersKeep` leaves the rest as it started. The state space is the union, not
the product, of those of the parts. A property such as `ServingAgrees` is the
conjunction of what each part promises, conditional on `part` where that
matters; `CallsReturn` gives each part its own fairness as a premise, which
holds trivially for the parts that do not run and have nothing to wait for.
Three modules compose what does interact: `GatewayLife` over
abstractions of the queue, the scheduler, the servers and the sidecar (what a
Stop of each waits for), `WebTurns` over the session store without its files,
and `ConfigReload` over the document of `ConfigDocument` as versions.

### Abstractions that matter

* Time is not a number, except in `RateLimiter`, `Failover` and
  `SessionMaintenance`, which are about it: a debounce, a back-off, a time-out or
  a due time is an action that may come at any moment.
* The text of a message is a set of submissions whose words it carries
  (`CommandQueue`), a size (`ContextEngine`), or just its author and place.
* Lanes are taken in any order (the code's is that of a hash table).
* Handlers, executors, tools and plugins return or fail after any time; RBAC, the
  rate limiter and the table of handlers may refuse any request.
* External to the code and modelled from its use: the WebSocket, HTTP and curl
  libraries, the operating system's processes, sockets and files, the clients,
  the servers of the models.

## 3. What TLC checks

| Run | Instance | States, time | Question |
|---|---|---|---|
| `queue_modes` | one session, three commands, five modes, two slots | 1.2 M, 60 s | Do deque, command states, id map and merged texts agree; are commands activated in order and once; how far can runs of one session overlap? Also all queues up to six commands against the overflow loop, with caps from -1 |
| `queue_admin` | two sessions, three commands, limit 1 to 2, caps 0 to 2, three policies, no interrupts | 0.8 M, 110 s | Is the cap enforced under reconfiguration, and is the queue a `SerialSessions`? |
| `queue_liveness` | two sessions, three commands, one slot, interrupts, aborts, Stop and restart | 0.3 M, 110 s | Is the count exact, no lane blocked or erased with work, nothing running after Stop; does every pending command leave, does Stop return? |
| `cron` | three jobs, updates, also to an empty schedule, names that cannot be written, crashes and restarts, also inside a write | 0.9 M, 160 s | Does the file follow the vector, when does what was acknowledged survive, what can a removal do to a pass, and is every due job handled? |
| `sessions` | one key, two long messages and an entry, three ids, four files, a failing disk | 3.1 M, 45 to 100 s | Does the index follow, do lines stay whole, is the history complete? `HistoryTail` on all files up to five lines |
| `services` | sixteen parts, below; the two turns are symmetric | 1.7 M, 140 s | Does each part keep its promises in every interleaving? |
| `processes` | ten parts, below | 88 k, 130 s | The parts that wait for a process, a thread or a peer, each under its own fairness: are they consistent, and does every wait end? |
| `queue_serial_bug`, `queue_collect_bug`, `sessions_order_bug`, `gateway_ceiling_bug`, `adapter_restart_bug` | the smallest instance that shows it | seconds | A statement of a comment that the code violates, section 6 |

What the properties of the two composed runs are made of:

| Property of `services` | Conjuncts | Instance |
|---|---|---|
| `ServingAgrees` | `GatewayServer`: `CeilingBound`, `HandlersAreJoined`, `OneReply` | two connections, three requests, a ceiling of one |
| `TurnsAgree` | `AgentTurns`: `CallsBounded`, `EndEvents`, `StoppedWasAsked`; `WebTurns`: `HistoryIsPast`; `Subagents`: `ActiveBound`, `NestingBound` | two turns with up to two iterations, one retry and one compaction each, one change of the model or of the configuration; two questions, two answers, a history of two, one reset; two threads, four runs, two children |
| `RatesAgree` | `RateLimiter`: `RateIsBounded`, `AdviceIsSound`; `Failover`: `ProbesAreSparse` | a window of four half seconds, three requests, a burst of two; two profiles and a fallback, probes every 30 s, 60 s in steps of 30, four calls |
| `ToolCallsAgree` | `GatesHold`, `RecordAgrees`; `PluginRuntime`: what is called is what was loaded, a service listed runs | one call; two plugins, one reload |
| `NothingIsLost` | `SessionMaintenance`: `MessagesAccounted`; `WebChat`: messages given once and in order, no draft or run lost | two messages, two sweeps; three messages of a chat, two sockets, two sessions |
| `ProviderAgrees` | `ContextEngine`: the newest messages, whole and in order; `ProviderStream`: what is passed on is what was meant, and the parser's types | three turns of four exchanges; streams of two blocks of two pieces cut after every, every third or every eighth symbol |
| `EventLogAgrees` | chains without gaps, true statuses, bounded size | three runs, two nodes each, two lives of the process |
| `ConfigAgrees` | `ConfigDocument`: `EditsSurvive`; `ConfigReload`: `InForceIsCurrent` | two writers, three edits, one crash; two changes, one signal |
| `StepsAgree` | `StopPreventsCalls`, `SettledStays`, `BusyOnlyWhenFull`, `CooldownIsKept` | as above |

| Property of `processes` | Conjuncts | Instance |
|---|---|---|
| `SidecarAgrees`, `AnswerIsOwn` | a connection to a child is to the present one, one child at a time, a stopped manager is clean, an answer belongs to the request that waits unless a line was torn or the descriptor is another's | two callers and the monitor, three children, one counted restart, a backlog of two |
| `ClientAgrees` | `GatewayClient`: the map of pending calls holds those under way and no others, however they end; an open socket is known to be open; who takes himself for authenticated has been greeted on this socket | two callers, two sockets |
| `BackgroundAgrees` | `BackgroundProcesses`: nobody holds a lock in the destructor of a future, where the wait is as long as the command runs (a poll waits with its session's lock, for the caller's time); what is reported is true | one job, three tool calls |
| `ExecAgrees` | `ExecCapture`: the shell is reaped, a status comes with the output in order, its middle excepted where that is too much | four writes, a cap of three, SIGCHLD ignored or not |
| `NoStrays` | `ChannelAdapters`: one process per channel, none left by Stop but one started late | two channels, four processes |
| `GatewayAgrees` | `GatewayLife`: `QueueOutlivesCron`, `SidecarGoneInShutdownOnly`, `NothingRunsAtReturn`; `MemoryIndex`: `IndexIsCurrent`; `EventStream`: `QueueIsBounded`, `SentInOrder` | two turns, one handler; two changes of files, one reload, a kernel queue of one; pieces of 1, 3, 1, 2, 1 into a queue of two |
| `CallsReturn` | for each part: every call, stop, reload, stream and shutdown ends, unless one of the waits of section 5 never does | as above |

Why the bounds are enough to be interesting. Three commands give one that runs,
one that waits and one that arrives, which is what interrupts, merges and
overtaking need; two slots give overlap, one slot competition of lanes. Three
children are a first one, the one restart that counts, and another fork when a
start failed or while Stop is under way. Three jobs give a removed one with one
before and one behind it. Three appends give a message under the session's
lock, another that waits for it and an entry that ignores it. Two connections
and three requests give the race for the one place and a third request after
it. Three edits by two writers give one that is lost to another and one that
comes after both. A stream cut after three symbols breaks every kind of line at
every place over its length. Four calls at three times give a failure, a probe
refused as too early, a probe granted and its outcome. Every bound is a CONSTANT
named in the module that uses it (`Max...`).

Deadlock is checked except in `sessions_order_bug`, `adapter_restart_bug`,
`services` and `processes`, where the system may come to rest: each part of the
last two has a last state, and `CallsReturn` says what must not wait for ever.

### Fairness

Weak fairness of each thread's own steps: an operating system runs a runnable
thread, an executor or handler returns, a sleep ends. Beyond that:

| Module | Assumption | Reason |
|---|---|---|
| `Sidecar` | strong fairness of taking `ipc_mu_` (`Request`, `Reopen`, `StopCloses`); none of a write that waits for room, of a read of another thread's descriptor, nor of the end of a command that holds the connection | other callers may hold it again and again; a mutex that is free infinitely often is got at last. The other waits have no timeout in the code, and the properties name them as premises |
| `GatewayServer` | the library closes the open sockets once `stop()` was called | what `stop()` of that library does |
| `GatewayClient` | a call goes on, the library delivers what arrived or times out | threads of this process |
| `ExecCapture` | the call goes on, the deadline passes, a fork of a stranger is followed by its exec | the command itself need never end |
| `ChannelAdapters`, `MemoryIndex` | the monitor, the watcher and Stop go on, builds end | as above |
| `BackgroundProcesses` | the commands end | the future's destructor waits for them: without this nothing returns |
| `GatewayLife` | main, the submissions of cron, turns and handlers go on and end, the web server listens | a turn that never ends blocks the shutdown, as section 6 says |
| `ConfigReload`, `EventStream` | reloads, the watcher's look, the turn and the drain go on | as above |
| `CronScheduler` | saves, returns and the scheduler's loop go on | as above |

Nothing is assumed of callers, clients, the owner of a component, or crashes:
nobody has to submit, to call Start or Stop, or to close a connection.
`PendingLeaves` relies on `MaxCommands` to bound the commands that compete with
the one that waits: as lanes are taken in hash order, an unbounded stream of
submissions to other lanes could starve it.

## 4. What is proved

Eight modules of proofs, for every value of the constants that satisfies the
module's named assumption (`QueueAssumption`, `GatewayAssumption`,
`RateLimiterAssumption` and so on; TLC evaluates each in the runs). They ask for
no more than types, finite sets and positive bounds where the code has such a bound, and
that a window is at least a second long, as `window_seconds` counts whole seconds.

| Module | Theorem | Property |
|---|---|---|
| `CommandQueueProofs` | `TypeCorrect` | `TypeOK` |
| | `LanesAlwaysAgree` | `LanesAgree`: the two below |
| | `LanesAlwaysHoldPending`, `IdsAlwaysKnown` | `LanesHoldPending`, `KnownIds` |
| | `LanesAlwaysServed` | `LanesAreServed`: the two below |
| | `ActiveAlwaysHasWorker`, `WorkAlwaysKeepsLane` | `ActiveHasWorker`, `WorkKeepsLane` |
| | `ActivationsOldestFirst` | `OldestFirst` |
| | `CountAlwaysExact` | `CountIsExact` |
| | `NothingEverRunsWhenStopped` | `NothingRunsWhenStopped` |
| | `CapAlwaysEnforced` | `CapEnforced` |
| | `TextsAlwaysDisjoint` | `TextsDisjoint` |
| | `OverlapAlwaysBound` | `OverlapBound` |
| | `UninterruptedImplementsSerial` | `ImplementsSerial`, assuming `Uninterrupted` (no mode is "interrupt" and no session is aborted, as in the run) |
| `CronSchedulerProofs` | `TypeCorrect` | `TypeOK` |
| | `FileAlwaysReliable` | `FileIsReliable` |
| | `MisledAlwaysTouched` | `MisledOnlyIfTouched` |
| `SessionStoreProofs` | `TypeCorrect` | `TypeOK` |
| | `IndexAlwaysCurrent` | `IndexIsCurrent` |
| | `HistoryAlwaysComplete` | `HistoryIsComplete` |
| | `LinesAlwaysWhole` | `LinesStayWhole` |
| `ProcessesProofs` | `TypesOfProcesses` | `TypeOK`, of all ten parts |
| | `SidecarAlwaysAgrees`, `SidecarOfProcessesAgrees` | `SidecarAgrees`: `ConnectionIsCurrent`, `OneChildAtATime`, `StoppedIsClean` |
| | `AnswerAlwaysOwn`, `AnswerOfProcessesIsOwn` | `AnswerIsOwn` |
| | `BackgroundOfProcessesAgrees` | `BackgroundAgrees` |
| | `ClientOfProcessesAgrees` | `ClientAgrees` |
| | `ExecOfProcessesAgrees` | `ExecAgrees` |
| | `AdaptersOfProcessesNeverStray` | `NoStrays` |
| | `LifeAlwaysAgrees`, `IndexAlwaysCurrent`, `StreamAlwaysInOrder`, `GatewayOfProcessesAgrees` | `GatewayAgrees` |
| `GatewayProofs` | `HandlersAlwaysJoined`, `OneReplyAlways`, `CeilingAlwaysBound` | the three parts of `ServingAgrees` |
| | `BusyAlwaysFull` | `BusyOnlyWhenFull` |
| | `EditsAlwaysSurvive`, `InForceAlwaysCurrent` | the two halves of `ConfigAgrees` |
| | `ProbesAlwaysSparse` | `ProbesAreSparse`, in `RatesAgree` |
| | `CooldownAlwaysKept` | `CooldownIsKept` |
| | `ChatAlwaysAgrees` | `ChatAgrees`, in `NothingIsLost` |
| `AgentProofs` | `SubagentsAlwaysBounded`, `TurnsAlwaysAgree`, `HistoryAlwaysPast` | the three parts of `TurnsAgree` |
| | `SettledAlwaysStays`, `StopAlwaysPreventsCalls` | `SettledStays`, `StopPreventsCalls` |
| | `EventLogAlwaysAgrees` | `EventLogAgrees` |
| | `RateAlwaysBounded` | `RateIsBounded`, `AdviceIsSound`, in `RatesAgree` |
| | `ToolsAlwaysGated` | `GatesHold`, `RecordAgrees`, in `ToolCallsAgree` |
| | `MessagesAlwaysAccounted` | `MessagesAccounted`, in `NothingIsLost` |
| `PluginProofs` | `PluginsAlwaysAgree` | `PluginsAgree`, in `ToolCallsAgree` |
| `ServicesProofs` | `ServingOfServicesAgrees`, `TurnsOfServicesAgree`, `RatesOfServicesAgree`, `ToolCallsOfServicesAgree`, `EventLogOfServicesAgrees`, `ConfigOfServicesAgrees` | `ServingAgrees`, `TurnsAgree`, `RatesAgree`, `ToolCallsAgree`, `EventLogAgrees`, `ConfigAgrees` |
| | `NothingIsEverLost` | `NothingIsLost` |
| | `StepsOfServicesAgree` | `StepsAgree` |
| | `TypesOfServices` | `TypeOK` |

A part is proved about in the terms of its own specification, and its theorem
then carried over to the composition: a step of the composition is a step of the
part or leaves its variables alone (`StepOfPart`), so that the composition
implements the specification of each part (`ServingBehaves` and its like), and what
holds of the part holds of it (`...OfServices...`, `...OfProcesses...`). The proofs
use the part's own assumption only, and no bound of another part.

**The queue.**

* *Lemmas on queues.* Trimming, an interrupt, removal at a position and
  appending keep a queue ordered and describe its elements (`TrimmedOrdered`,
  `KeptOrdered`, `RemoveAtOrdered`, `AppendOrdered`); the head of an ordered queue
  is its least element (`HeadOldest`).
* *LaneInv* is `TypeOK`, `Numbered` (ids are given out in order, and what has
  been submitted has a session), `LanesHoldPending`, `KnownIds`, `ActiveHasWorker` and
  `WorkKeepsLane`. None of the last four is inductive alone: that the id map
  names no running command needs the stages of the commands in the lane, that
  the active command has a worker needs that it was pending and its own
  session's when it was activated, and that a lane with work exists needs both.
  `ArriveLanes` is the common part of the two kinds of Submit; there is one
  lemma per action, and `LaneInvNext` puts them together. `OldestFirst` follows
  from `LaneInv` and `HeadOldest`.
* *Counting.* `CountIsExact` needs from `LaneInv` that a pass activates as many
  commands as it takes lanes (the oldest commands of different lanes are
  different), and that a release takes one command out of the occupied stages.
* *StopInv* strengthens `NothingRunsWhenStopped`: from the moment Stop has joined
  the dispatcher nobody is left to start a worker, and none that was started
  is left when the joins have returned. An activated command without a thread
  exists only while the dispatcher is spawning.

* *Cap.* What trimming leaves of a queue is no longer than its cap
  (`TrimmedLength`), for every drop policy and every queue there was before: this
  is a theorem about one step and needs nothing but the types.
* *Texts.* `TextInv`: a command not yet submitted carries its own words only, what
  a submitted one carries are words of submitted ones, and no word is carried
  twice. A merge takes words only from commands that leave the queue with it.
* *Overlap.* A lane loses its active command while that runs by an interrupt
  only, which is counted (`LaneLoss`); a pass and a release change the number of
  commands of a session that run by the one they give it or end (`PassRunning`,
  `ReleaseRunning`).
* *Refinement.* Where nothing interrupts, the count of interrupts stays 0
  (`UninterruptedInv`) and `OverlapBound` says that the one command of a session that
  runs is the active one (`OneRun`). Then a Submit is the abstract queue's accept, a
  pass its begin (or a stutter when it activates nobody), a release its end, and
  every other step a change of the limit, a removal or a stutter (`SubmitAccepts`, `PassBegins`,
  `EmptyPassStutters`, `ReleaseEnds`, `OtherStepsSerial`).

**The scheduler.** `Inv` is `TypeOK`, `VectorInv` (vector and file are ordered by
the time of AddJob, and there is room for a job an update has taken out),
`DownInv` (a process that is gone has no memory), `FileInv` (a file that is not
torn holds every acknowledged job, and one that is torn while no process is up
vouches for none; a Load keeps the order and leaves out only what has no schedule,
`LoadedIs`) and `PassInv`: a pointer of the pass leads to a due job or to one that a
removal or a reallocation has touched. `PassInv` is where the order matters: a removal moves exactly the jobs behind it, so that a pointer
before it still leads to what it led to.

**The gateway server.** `ServingInv` adds to `HandlersAreJoined` and `OneReply` what
each place in `handle_rpc_request` has in hand (`InHand`, `Underway`): a request
belongs to one connection or one handler until it is answered. `CeilingBound` is a
counting argument (`Room`): the handlers that live and the connections that have
passed the test but not yet entered a thread are together at most the ceiling plus
the connections, less the one that does the test.

**The session store.** `Inv` is `TypeOK`, `InHand` (what an append has in hand, and
that the writer of a message holds its session's lock), `Owned` (an id is given
out once, to one session, and index and file name the same owner) and `Saved`.
`HistoryIsComplete` then needs `Kept` (the path under an append's id is the file it
opened, or the id is gone: out of the index and not coming back, `GoneStays`) and
`Began` (once a first write has been made it is in the file, and files only grow).
`LinesStayWhole` needs `IdOwners` and `FileOwners` (a file has one session, so that
its writers share one lock), `AtEnd` (a writer at work on a message has its text at
the end of the file) and `Sound` (a message's text is followed by its end, or by
nothing while its writer is at work) in files no entry and no crash has cut into.
The run checks one key; the proof is for any number of them.

**The sidecar.** `SideInv` is `TypeOK`, `Living` and `Talk`. `Living` says of the
children that they are numbered in the order of their fork (`InOrder`), that a child
executes only while `pid_` names it and that `pid_` names the newest child or none
(`InHand`): this is why the fork of a successor can add a child only when none is
left. It says of the connection that neither it nor a port is known when a fork
comes (`Unlinked`; so that nothing can leave a stray descriptor before the next
child has been accepted, `HandleMoves`), and of the owner and the monitor what each
may rely on about the other (`Ending`): from StopBegins to the join, for instance,
`stopping_` is set and the monitor, which looks at it first, cannot find the child
dead and call it none while Stop waits for it. `Talk` is about the line: as long as
no read has stopped half way on this connection, it carries exactly what the waiting
call is owed, and nothing when nobody waits, when the request is still being
written, or when the handle is another thread's (`Spotless`). A stray descriptor is
no child (`StrayIsNone`), so that what a call reads from it is never taken for an
answer of one. `AnswerIsOwn` follows without any comparison of ids, because a read
that timed out closes the connection.

**The subagents.** The test of the limit is made with the thread outside of
`spawns`, so that after it at most one less than all threads can be there
beside it; entering a run moves a thread from `spawns` to `Active`. `NestingBound`
needs that whatever runs is a listed child (`RunningAreChildren`), which cleaning up
keeps because it takes settled runs only. That no run is settled twice needs that a
run is on one stack, once (`Once`), and is at most cancelled while it is there
(`Unsettled`).

**The process tool.** A call holds one session (`OneHeld`), the table is locked
beyond one step only by a list and a session only by a poll (`LocksHeld`), and what
the table or a call holds has not been destroyed (`HeldAlive`): the last reference
goes where neither leads to it any more.

**Turns.** Every call of a provider but the last has used up a unit of one of the
three budgets (`Spent`; the limit of iterations counts as the largest that was in
force while the turn ran), an end event goes out with the last chunk and is taken
back from the count when its call fails after it (`Told`), and the shared flag is up
for exactly those who were asked to stop and were not overtaken by another turn's
reset (`Asked`). For the history of a turn, `AskRight` says what the transcript
looks like between the steps of a turn that nobody disturbed: its question is the
last message when it reads, so that reading one message more and dropping one gives
what went before.

**The event log.** A turn at work has a run of its own (`Begun`) and knows how many
nodes it has made and which was linked last (`TurnKnows`); unless a prune took the
run, the log has exactly those nodes and links (`RunIsThere`). A listed run nobody
is at work on is the chain its turn left, in an earlier life without its last link
perhaps (`Chained`). A turn whose run is pruned under it goes on writing nodes of a
run that is not listed, which nothing here counts. The bound is a second argument
(`Bounded`): each end that is counted or announced a prune takes one turn out of
those that write, an exception moves one to the abandoned, and a prune leaves at
most `Retain` runs (`KeptFew`: all but the oldest of them are later than it). It
needs an interval of at least one, which is a constant of 100 in the code.

**Tool calls.** What a call has behind it depends only on its stage (`CallMay`):
past the gates, no rule forbids it; at its run, it has its approval or asked for
none. A request is pending only while its call waits, and an entry on record is of a
call that has asked (`EntryRight`); the call's own entry is made in the step that
takes its decision.

**Keys.** What a session found free when it looked is free when it takes it, or a
failure was reported in between (`UseRight`); while a key cools down the tracker has
the time of its last probe (`ProbeKnown`). A success forgets it, and with it the reason
not to probe.

**The rate limiter.** The deque is the end of the history of admissions, and what
is left out of it is older than the window (`WindowRight`); the history is in order,
and an admission is more than a window later than the one `MaxRequests` before it, and
more than a second later than the one `BurstMax` before it (`HistoryRight`). The second
follows for a new admission from counting the deque, since a second is not
longer than a window (`BurstHasRoom`). Where admissions are so spaced, no stretch has
too many (`SpacedAreFew`), and who waits for the oldest one kept, rounded up to whole
seconds, finds at least that one gone (`AdviceIsGiven`).

**The configuration.** Whoever has looked at the document and means to keep what
there was has read every edit that lasts, and read it whole; who writes in place has
it in the backup before he truncates (`ReadAll`); an edit is in the document, or in
the backup while the document is torn (`Survives`). What may break this, writers
beside each other, is excused when the second one begins (`BesideOthers`). For the
reload: one that has met no other is the only one, and if the document is still the
one the watcher has noted, it has that in hand at every step (`AloneIsTrue`); stamps
never come back (`Stamped`).

**The gateway's life.** `LifeInv` says what is up at each step of the main thread
while it builds (`Built`), gives up (`GivenUp`) and stops (`Stopped`), and that a
part that was stopped has no work left (`WorkIsDone`); what a handler saw up stays
up until the shutdown (`Looked`).

**The memory index.** Of every identity file that nobody writes and that has not
changed unseen (`unseen`: removed, or changed while the kernel's queue was full or
before the watch) since the last build began, either an event is announced, or
the index and the one build under way have its last contents, unless the last builds
ran side by side (`overtaken`): this is `UpToDate`.

**The event stream.** What was sent, the chunk in hand and the queue are in the order
of the pushes (`ChunksInOrder`); the account of the queue is the sum of its chunks'
sizes, which is defined by recursion and reasoned about by its least counterexample;
the terminal event is where it must be on the agent's own route (`Told`).

**The gateway client.** The thread of the library holds a lock only of calls that are
pending (`ReaderPends`), a connection that is down carries nothing (`DownIsDown`), and a
hello that is under way is that of the socket that opened last (`HelloIsOfNow`).

**A captured command.** The pipe has what was written last (`PipeInOrder`), the head
is the beginning of what was read (`HeadIsFirst`) and the tail the end of the rest
(`TailIsLast`), as far as each goes; after the end of the pipe nothing comes, and a
call that is over has reaped its shell (`EndIsEnd`).

**The adapters.** Whatever is alive is on record (`LiveOnRecord`), with its own channel
(`Recorded`); what the two threads have still to do agrees with the record
(`StagesAgree`), and at most one process is launched once Stop has begun (`LateIsOne`).

**The plugins.** Of a plugin that nothing has disturbed, `PluginInv` says where it
runs (`WhereItRuns`), that a start of it is the only one and of the registries in
use (`StartsAlone`), and that a stop under way is the only one and finds its service
where it looks (`StopsAlone`); what can be called is what the present load has
loaded so far (`ToolsOfLoad`). Whatever overlaps disturbs the plugins it may touch,
which `PluginsAgree` excuses from then on. It is proved of the runtime alone, in a
module of its own, and holds of both instances in `Services`, the one with all
plugins and the one with more requests.

**The upkeep of sessions.** Every file has a name, no two files hold the same
message, and one that is in no file is excused (`UpkeepInv`): the step that took it
out removed the file on purpose, could not move it, wrote over it, or emptied it
after a session had appended to what was already archived.

**The chat.** No message that was typed is lost (`NothingIsLost` of `WebChat`): it
is in the draft, in the queue, in the request that is open, or with the gateway; and
it is in one of these places only, unless a request of it failed (`Placed`). What is
on its way belongs to a socket that is there (`OnWire`), at most one request is open
and its answer comes last (`OneRequest`), the order of typing is kept as long as
nothing failed (`InTurn`), and a run that was not left behind is that of the open
request and has its end to come (`RunEnds`).

**The types of the compositions.** Most follow from the invariants above. The context's
need that assembling a request only makes messages smaller, and that a compaction puts
its own two before the newest ones (`ContextInv`); the document's times need that each
version has two (`DocumentTimed`); what is tracked by the server needs that it was
received (`Slow`).

Only model-checked:

* `ProviderAgrees`: what a request to a model holds and what a parser makes of a stream
  are computed by folds over their contents, which would need induction over data; of the
  parser not even the types are proved (they are a part of `ProviderAgrees`), of
  the context they are. `HistoryTail`, the overflow loop of the queue and the guards of
  `ContextEngine` are of the same kind and stay with TLC on bounded inputs.
* All liveness: `CallsReturn` and the properties of `queue_liveness` and `cron` rest on
  fairness, which the prover cannot handle.

## 5. What the properties say that is less than one might expect

* A session may run one command more than it was interrupted (`OverlapBound`),
  not one.
* A removal in the middle of a cron pass can run the wrong job, but only one
  stored behind the removed job or added later (`MisledOnlyIfTouched`).
* A job survives crashes unless one comes while the file is cut short
  (`FileIsReliable`): by a write, as the file is truncated and written in place,
  or for longer by a write that threw. It does not survive the next load when
  `cron.update` has given it an empty schedule.
* A message stays in the history unless a crash came between the removal of a
  transcript and the write of the index (`HistoryIsComplete`), and its line
  stays whole unless an entry or a crash cut into it (`LinesStayWhole`).
* The ceiling on handler threads may be exceeded by one less than the number of
  connections (`CeilingBound`).
* The answer of a sidecar is to the request that waits unless an earlier call
  on that connection stopped in the middle of a line (`link.torn`), or the handle is
  the number of a descriptor that was closed and is another thread's by now
  (`handle = Stray`; `AnswerIsOwn`).
* Three waits have no timeout in the code, and what rests on their end has it as a
  premise in `CallsReturn`: a write to a child that does not read and a read of
  another thread's descriptor, both under `ipc_mu_` (`[]<>~Blocked`, for the calls and
  the Stop of the sidecar), and the end of a command that has inherited the
  connection (`[]<>~inherited`, for a child that Stop has not found).
* A captured command without a limit of time returns only when all that hold its
  pipe have let go of it and SIGCHLD is not ignored; no captured command is claimed to
  return after a failed `poll` or `read`. What the shell has started may live on
  when the call returns, with the pipe in its hands (`ExecAgrees` is about the shell).
* `NoStrays` allows one adapter process that the monitor started while Stop was
  killing the others.
* `EditsSurvive` excuses edits of two writers whose read and write overlap, and
  `InForceIsCurrent` is only claimed when no reload overlapped another and no change
  came before the watcher's first look.
* `StopPreventsCalls` excepts a flag that another turn, on beginning, has reset;
  `CallsBounded` counts with the largest limit that was in force during the turn;
  `EndEvents` does not count the end event of a call that failed after its last
  chunk, and of the others allows none (a stream cut short) and two (an empty answer).
* A limit on children of 0 or below still admits the first one of each parent, which
  is not tested (`ActiveBound`).
* A part that is gone is used in three circumstances (`GatewayAgrees`): the queue, by the
  cron thread, when the server could not start and the code returns past the
  joins; the sidecar's pointer, by a handler that found it there when the shutdown
  began; the registry of tools, by a detached turn of the `/v1` routes that streams.
  The first is contrary to `gateway_commands.cpp:495-499` and `:663-664`. `CallsReturn`
  excepts a web server stopped before it
  listens, and a client whose two locks were taken in opposite orders.
* `ClientAgrees` does not say that an answer is that of its call; the ids do that.
* `SentInOrder` claims the last event on the agent's own route only.
* `BackgroundAgrees` claims that no lock is held in a future's destructor. A poll
  waits with its session's lock, for the time its caller gave, and a list that meets
  it waits with the table's.
* `MessagesAccounted` excuses messages in files removed on purpose, in files that
  could not be archived, in an archive renamed over by another within the
  same second, and those appended between the archiving of a file and its
  emptying. `IndexIsCurrent` of the memory excuses overlapping
  builds and the changes the kernel does not tell of, until the next build; `PluginsAgree`
  excuses a service started while a reload is under way.
* `AdviceIsSound` excuses the advice of zero seconds to a request refused for a burst.
* A division of a history into one part or less, or of an empty one, is one part,
  which may be empty (`DivisionIsExact`).
* In the browser, a message whose request failed may be given again
  though the gateway ran it, and a draft that the return of such a message
  overwrites counts as discarded, like one cleared by hand.

## 6. Where the code departs from its comments

1. `InterruptActive` frees the lane while the interrupted worker runs on
   (`command_queue.cpp:231`), so a session can run several commands at once;
   `command_queue.cppm:89` promises one. Run `queue_serial_bug`.
2. Collect mode hands the batched messages over in a parameter no code reads
   (`command_queue.cpp:544`); `command_queue.cppm:23` says they are delivered.
   Run `queue_collect_bug`.
3. `AppendTranscriptEntry` writes without the session's lock
   (`session_manager.cpp:354`); `session_manager.cppm:128` says writes to a
   transcript stay ordered. Run `sessions_order_bug`.
4. The limit on handler threads is tested and the thread entered in separate
   critical sections (`gateway_server.cpp:459`, `:490`);
   `gateway_server.cppm:212` calls it a ceiling. Run `gateway_ceiling_bug`.
5. A crashed adapter stays a zombie, which `kill(pid, 0)` takes for alive
   (`process_unix.cpp:89-94`, `adapter_manager.cpp:212`), so that it is not
   restarted unless something else made the process ignore SIGCHLD;
   `adapter_manager.cppm:62` says the monitor restarts crashed adapters. Run
   `adapter_restart_bug`.

Seen while modelling, without a run of its own. These are in the models as the
code has them, or lie beside what is modelled.

*Queue and scheduler.* An interrupt keeps the newest *old* pending command beside
the new one (`command_queue.cpp:237`); steering messages are never injected into the
running turn but queued, past the cap (`:375`); followup mode drops all but the
oldest of several messages (`:551-555`); workers that have ended stay in `workers_`
until Stop (`:565`); settings of an idle lane last until the next pass of the
dispatcher (`:575`); commands that are collected or dropped leave their RPC request
unanswered. `cron.run` writes no question and bypasses the session's lane. A job
named by the first 40 bytes of its message may be cut inside a character: the next
Save truncates `cron.json` and throws, and at the end of a pass this ends the
gateway (`cron_scheduler.cpp:207`). A job to which `cron.update` gave an empty
schedule is skipped by the next Load (`:181`) and gone from the file with the next
Save.

*Agent, providers, failover.* The gateway passes the model's name without its
provider prefix, from which the loop chooses the provider
(`gateway_commands.cpp:195-208`, `agent_loop.cpp:384`), where README.md:37 speaks of
fallback (`AgentTurns!CallsConfiguredProvider` states it, without a run). Tools
still run after a stop; a stop in the middle of a stream drops its end; a stream
closed before its end marker counts as complete, sends no end event and drops its
pending tool calls; an empty answer ends twice. A call that fails after its last
chunk is made again and sends a second end event. Compaction can part a tool result
from its call; one overflow after the first exchange of a fresh session drops the
question; an overflow with four messages or fewer does not shrink them and may
repeat the system prompt. A late report of a concurrent call shortens or clears a
cool-down, a Retry-After included; only the first profile in cool-down is ever
probed; the gateway never installs the failover resolver, nor the accumulator of
usage. The errors of a streaming HTTP request to Anthropic are classified by an
empty body; errors and thinking inside its stream are dropped. The llama parser
reads only the unterminated rest of an error's body, gives tool calls in the order
of a hash map, and drops the text beside a tool call; `health_checked_` is set
before the check and the check is never repeated.

*Gateway, client, web.* `agent_loop->Stop` is never called at shutdown, so that a
shutdown waits for the turns. A second signal ends the process at once; the
callback of the first runs on the main thread. When the server cannot start, the
command returns 1 while the cron thread holds a freed queue, contrary to the
comments of `gateway_commands.cpp:495-499` and `:663-664`. `PluginSystem::Shutdown`
resets the sidecar's pointer without a lock before the server is stopped.
`WebServer::Stop` before it listens waits for ever. The `/v1` streams send no last
event on an error, and their detached threads use the raw pointer of the
registry. The client takes its two locks in opposite orders, never resets
`hello_done_` and may keep a stale `connected_`.

*Configuration and memory.* There is no lock between the check of the hash and the
replacement; `SetValue` and `UnsetValue` truncate in place and ignore errors of the
write; a save based on a torn document overwrites a good backup; overlapping reloads
may leave the older configuration in force; a change between the load and the
watcher's first look goes unnoticed; a reload does not strip the provider prefix.
Overlapping rebuilds of the memory install the older index, `memory/` is not
watched, and a watcher that could not be set up leaves `watching_` true. An identity
file that is deleted or renamed away raises no event under the mask of
`memory_manager.cpp:276-278`, and an overflow of the kernel's queue is skipped
(`:336`): the index then stays old until the next build.

*Processes and tools.* The sidecar manager takes a zombie for a live child unless
SIGCHLD is ignored (`process_unix.cpp:89-94`), does not count failed starts towards
its limit (`sidecar_manager.cpp:221-226`), and a manager that gave up cannot be
stopped (`:200`, `:83`). A failed relaunch of an adapter is not repeated. The list
of background processes waits for a session that is being polled. No descriptor is
closed over a fork: a child holds the socket it was accepted on, so that
`connect_ipc` succeeds against it after the connection is lost and leaves in
`ipc_handle_` the number of a descriptor its local object closes
(`sidecar_manager.cpp:321-330`), to which the next request goes, whosever it is by
then; a command holds the connection, so that a child whose answer was late does not
notice that the manager has closed it, and is never replaced as it lives on. A child
that does not read blocks its caller in `send()` (`ipc_tcp.cpp:223-226`), and with
`ipc_mu_` everyone else. With SIGCHLD ignored `waitpid` fails in `exec_capture`
(`process_unix.cpp:305-315`): without a limit it never returns, with one it reports
a time-out for a command that has ended. In the sidecar itself a reload reads an
environment that cannot change, a SIGHUP during a reload is dropped, the
registrations of a plugin that failed stay, a service is removed by a stale index,
starts during a reload start twice, a failed connection exits without stopping the
services, and a signal before `main` has connected kills the process.
`PluginSystem::Reload` has no caller.

*Records.* Turns that were abandoned stay "running" and never count for pruning,
and the nodes of a run pruned while it lived stay until the next prune. Session
maintenance has no caller in the gateway and treats `sessions.json` as one of the
transcripts; `RateLimiter::Prune` and the budgets of pruning have none either;
`sessions.compact` only counts.

*Browser.* A slash command leaves `chatRunId` set; tool events are dropped; deltas
are taken for the whole text; gaps in the sequence are not noticed as nothing sends
one; `chat.abort` stops the turns of all sessions; a queued message whose request
failed goes back to the front and is sent again; nothing is flushed until the next
run ends, and a newer message then overtakes it; the selector of sessions keeps the
queue, the overview's field keeps `chatRunId`; a restored draft overwrites what was
typed; a late continuation of `sendConnect` can close the next socket or connect it
twice.

## 7. What is not modelled

Each component's note in `PROJECT.json` says what of it is left out. In general:

* The Windows variants of processes and sockets.
* Data races that are undefined behaviour in a library's container (the map of
  session locks in `GetHistory`, reallocation of the vector under the cron pass)
  are an outcome where the build can produce one that can be named (the cron pass
  may then run anything), and not otherwise.
* Authorisation: tables and string matching without state; the models let it
  refuse anything. Recon: a fixed pipeline of external tools whose rows are only
  inserted. Prompts and skills: text put together from files. Usage accounting:
  sums under one mutex, with no caller. MCP: synchronous request and answer. The
  command line: sequential front ends; those of its commands that write the
  configuration are writers of `ConfigDocument`.
* The tables of the evolve runtime, whose interface has no caller in the gateway;
  the RPC handlers that translate between JSON and one call of a component; the
  tools' effects on files, the network and a browser; the scores of the memory's
  search, which are floating-point numbers.
* In modelled components: `BroadcastEvent`, `SendEventTo` and the challenge of the
  gateway server; disabled cron jobs and cron expressions; display names, token
  counts and listings of sessions; estimates of tokens; texts that classify errors.

The definitions name 5860 of the 25,076 lines of the `.cpp` files that are not tests:
23 %. (With the 24,765 lines of the vendored header
`include/nlohmann/json.hpp`, which is not this program, the implementation
counts 49,843 lines, of which they are 12 %.) They name 1310 lines more of the
module interfaces (`.cppm`) and 1109 of TypeScript. What remains is mostly
argument parsing, JSON translation, SQL, HTTP routes that only read, and views.

## 8. What the plan has left

1. *Proofs*: `ProviderAgrees`, which waits for a prover with induction over data.
2. *Models*: the tables of the evolve runtime, the frontmatter parser of the
   skills, the browser tool's session, the pairing rules of the channels, the
   remaining RPC handlers.

Runs stay one per question: a new component becomes a part of `services` or, if
it waits for others, of `processes`.
