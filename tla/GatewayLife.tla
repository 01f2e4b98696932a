------------------------------- MODULE GatewayLife -------------------------------
(***************************************************************************)
(* The life of `quantclaw gateway` (ForegroundCommand of                   *)
(* cli/gateway_commands.cpp and core/signal_handler.cpp): the main thread  *)
(* builds the parts one by one, waits for a signal, stops the parts and    *)
(* returns, which destroys them.  Beside it run the thread of the cron     *)
(* scheduler, which submits to the queue, a worker of the queue, the       *)
(* threads of the two servers, and the one that watches the configuration. *)
(*                                                                         *)
(* The parts' own modules (CommandQueue, CronScheduler, GatewayServer,     *)
(* Sidecar, ChannelAdapters) say what each does when it is started and     *)
(* stopped; here a Stop waits for the threads of its part and no more.     *)
(* A second Stop of a part finds it stopped and changes nothing.           *)
(***************************************************************************)
EXTENDS Naturals, Sequences

CONSTANTS Handler,         \* threads that handle requests of clients
          MaxTurns         \* bound: submissions of the cron scheduler

LifeAssumption == MaxTurns \in Nat

VARIABLES main,            \* the main thread: its next step, by number
          exit,            \* how the process ended
          shutdown,        \* shutdown_requested_
          installed,       \* the signal handlers are in place
          failed,          \* the server could not listen
          part,            \* the state of each part
          cron,            \* the thread of the scheduler
          turns, fired,    \* what the queue's worker has to do; bound
          web,             \* the thread of the web server
          watcher,         \* config_watcher
          handler,         \* each handler thread
          streams          \* turns of the web API that stream, on detached threads

lifeVars == <<main, exit, shutdown, installed, failed, part, cron, turns, fired,
              web, watcher, handler, streams>>

\* The steps of the main thread, in order; those after "wait" stop.
Building == <<"queue", "cron", "plugins", "server", "web", "adapters", "install", "watcher",
              "wait">>
Stopping == <<"adapters", "web", "plugins", "server", "watcher", "cron", "queue", "destroy">>
Failing  == <<"plugins", "queue", "destroy", "cron">>

Parts == {"queue", "cron", "plugins", "server", "web", "adapters"}

TypeOK ==
    /\ main \in [phase : {"building", "stopping", "failing", "over"}, at : 1..9]
    /\ exit \in {"none", "returned", "forced", "killed", "deadQueue", "deadRegistry", "noSidecar"}
    /\ shutdown \in BOOLEAN /\ installed \in BOOLEAN /\ failed \in BOOLEAN
    /\ part \in [Parts -> {"new", "up", "stopped", "destroyed"}]
    /\ cron \in {"idle", "submitting"}
    /\ turns \in 0..MaxTurns /\ fired \in 0..MaxTurns
    /\ web \in {"none", "starting", "listening", "ended"}
    /\ watcher \in {"none", "asleep", "reloading", "ended"}
    /\ handler \in [Handler -> {"idle", "working", "checked", "calling"}]
    /\ streams \in 0..1

Init ==
    /\ main = [phase |-> "building", at |-> 1]
    /\ exit = "none"
    /\ shutdown = FALSE /\ installed = FALSE /\ failed = FALSE
    /\ part = [p \in Parts |-> "new"]
    /\ cron = "idle"
    /\ turns = 0 /\ fired = 0
    /\ web = "none" /\ watcher = "none"
    /\ handler = [h \in Handler |-> "idle"]
    /\ streams = 0

Runs == exit = "none"
Is(p, state) == part[p] = state
Becomes(p, state) == part' = [part EXCEPT ![p] = state]

Does(phase, step) ==
    /\ Runs /\ main.phase = phase
    /\ CASE phase = "building" -> Building[main.at] = step
         [] phase = "stopping" -> Stopping[main.at] = step
         [] phase = "failing"  -> Failing[main.at] = step
Advance == main' = [main EXCEPT !.at = @ + 1]
Enter(phase) == main' = [phase |-> phase, at |-> 1]

-----------------------------------------------------------------------------
(* The main thread builds                                                   *)

StartPart(p) ==
    /\ p \in {"queue", "cron", "plugins", "adapters"}
    /\ Does("building", p)
    /\ Becomes(p, "up")
    /\ Advance
    /\ UNCHANGED <<exit, shutdown, installed, failed, cron, turns, fired, web, watcher, handler, streams>>

\* Start throws when the port is taken: ForegroundCommand returns at once.
StartServer ==
    /\ Does("building", "server")
    /\ \/ /\ Becomes("server", "up")
          /\ Advance
          /\ UNCHANGED failed
       \/ /\ failed' = TRUE
          /\ Enter("failing")
          /\ UNCHANGED part
    /\ UNCHANGED <<exit, shutdown, installed, cron, turns, fired, web, watcher, handler, streams>>

\* WebServer::Start: its thread will make the server and listen.
StartWeb ==
    /\ Does("building", "web")
    /\ Becomes("web", "up")
    /\ web' = "starting"
    /\ Advance
    /\ UNCHANGED <<exit, shutdown, installed, failed, cron, turns, fired, watcher, handler, streams>>

\* SignalHandler::Install
Install ==
    /\ Does("building", "install")
    /\ installed' = TRUE /\ shutdown' = FALSE
    /\ Advance
    /\ UNCHANGED <<exit, failed, part, cron, turns, fired, web, watcher, handler, streams>>

StartWatcher ==
    /\ Does("building", "watcher")
    /\ watcher' = "asleep"
    /\ Advance
    /\ UNCHANGED <<exit, shutdown, installed, failed, part, cron, turns, fired, web, handler, streams>>

\* WaitForShutdown returns to the callback, on the same thread.
WaitEnds ==
    /\ Does("building", "wait")
    /\ shutdown
    /\ Enter("stopping")
    /\ UNCHANGED <<exit, shutdown, installed, failed, part, cron, turns, fired, web, watcher, handler, streams>>

-----------------------------------------------------------------------------
(* ... and stops                                                            *)

\* WebServer::Stop.  A server that does not listen yet is not told to stop,
\* and will listen: the join waits for ever.
StopWeb ==
    /\ Does("stopping", "web")
    /\ IF Is("web", "up")
       THEN /\ Becomes("web", "stopped")
            /\ web' = IF web = "listening" THEN "ended" ELSE web
            /\ UNCHANGED main
       ELSE /\ web \in {"none", "ended"}
            /\ Advance
            /\ UNCHANGED <<part, web>>
    /\ UNCHANGED <<exit, shutdown, installed, failed, cron, turns, fired, watcher, handler, streams>>

\* ChannelAdapterManager::Stop, and PluginSystem::Shutdown, which comes while
\* the server still serves.
StopPart(p) ==
    /\ p \in {"adapters", "plugins"}
    /\ Does("stopping", p) \/ Does("failing", p)
    /\ Becomes(p, "stopped")
    /\ Advance
    /\ UNCHANGED <<exit, shutdown, installed, failed, cron, turns, fired, web, watcher, handler, streams>>

\* GatewayServer::Stop takes no more requests, and waits for the threads of
\* connections and handlers.
StopServer ==
    /\ Does("stopping", "server")
    /\ IF Is("server", "up")
       THEN Becomes("server", "stopped") /\ UNCHANGED main
       ELSE /\ \A h \in Handler : handler[h] = "idle"
            /\ Advance
            /\ UNCHANGED part
    /\ UNCHANGED <<exit, shutdown, installed, failed, cron, turns, fired, web, watcher, handler, streams>>

JoinWatcher ==
    /\ Does("stopping", "watcher")
    /\ watcher = "asleep"
    /\ watcher' = "ended"
    /\ Advance
    /\ UNCHANGED <<exit, shutdown, installed, failed, part, cron, turns, fired, web, handler, streams>>

\* Fault: the scheduler's thread is not waited for
StopCronUnjoined ==
    /\ Does("stopping", "cron")
    /\ Becomes("cron", "stopped")
    /\ Advance
    /\ UNCHANGED <<exit, shutdown, installed, failed, cron, turns, fired, web, watcher, handler, streams>>

\* CronScheduler::Stop joins its thread
StopCron ==
    /\ Does("stopping", "cron") \/ Does("failing", "cron")
    /\ cron = "idle"
    /\ Becomes("cron", "stopped")
    /\ IF main.phase = "failing"
       THEN /\ exit' = "returned" /\ main' = [phase |-> "over", at |-> 1]
       ELSE Advance /\ UNCHANGED exit
    /\ UNCHANGED <<shutdown, installed, failed, cron, turns, fired, web, watcher, handler, streams>>

\* CommandQueue::Stop joins the dispatcher and the workers; its destructor
\* calls it when ForegroundCommand has returned early.
StopQueue ==
    /\ Does("stopping", "queue") \/ Does("failing", "queue")
    /\ turns = 0
    /\ Becomes("queue", "stopped")
    /\ Advance
    /\ UNCHANGED <<exit, shutdown, installed, failed, cron, turns, fired, web, watcher, handler, streams>>

\* ForegroundCommand returns: what it declared last goes first.  The scheduler,
\* held by the server's handlers and the tools too, goes after the queue.  A turn
\* that streams still uses the agent loop, and through it, by a bare pointer, the
\* registry of providers.
Destroy ==
    /\ Does("stopping", "destroy") \/ Does("failing", "destroy")
    /\ part' = [p \in Parts |-> IF p # "cron" \/ Is("cron", "stopped") THEN "destroyed"
                                ELSE part[p]]
    /\ IF main.phase = "failing"
       THEN Advance /\ UNCHANGED exit
       ELSE /\ exit' \in {"returned"} \cup IF streams > 0 THEN {"deadRegistry"} ELSE {}
            /\ main' = [phase |-> "over", at |-> 1]
    /\ UNCHANGED <<shutdown, installed, failed, cron, turns, fired, web, watcher, handler, streams>>

-----------------------------------------------------------------------------
(* The other threads                                                        *)

\* A job is due: its handler calls Submit of the queue it was given a pointer to.
CronFires ==
    /\ Runs /\ Is("cron", "up") /\ cron = "idle"
    /\ fired < MaxTurns
    /\ fired' = fired + 1
    /\ cron' = "submitting"
    /\ UNCHANGED <<main, exit, shutdown, installed, failed, part, turns, web, watcher, handler, streams>>

\* A stopped queue takes the command and does not run it.
CronSubmits ==
    /\ Runs /\ cron = "submitting"
    /\ cron' = "idle"
    /\ exit' = IF Is("queue", "destroyed") THEN "deadQueue" ELSE exit
    /\ turns' = IF Is("queue", "up") THEN turns + 1 ELSE turns
    /\ UNCHANGED <<main, shutdown, installed, failed, part, fired, web, watcher, handler, streams>>

TurnEnds ==
    /\ Runs /\ turns > 0
    /\ turns' = turns - 1
    /\ UNCHANGED <<main, exit, shutdown, installed, failed, part, cron, fired, web, watcher, handler, streams>>

\* server_loop; listen fails when the port is taken.
WebListens ==
    /\ Runs /\ web = "starting"
    /\ web' \in {"listening", "ended"}
    /\ UNCHANGED <<main, exit, shutdown, installed, failed, part, cron, turns, fired, watcher, handler, streams>>

\* A client of the web API asks for a stream: the turn runs on a thread that is
\* detached, and goes on when the client or the server has gone.
StreamBegins ==
    /\ Runs /\ web = "listening" /\ streams = 0
    /\ streams' = 1
    /\ UNCHANGED <<main, exit, shutdown, installed, failed, part, cron, turns, fired, web, watcher, handler>>

StreamEnds ==
    /\ Runs /\ streams = 1
    /\ streams' = 0
    /\ UNCHANGED <<main, exit, shutdown, installed, failed, part, cron, turns, fired, web, watcher, handler>>

WatcherReloads ==
    /\ Runs
    /\ \/ watcher = "asleep" /\ main.phase = "building" /\ watcher' = "reloading"
       \/ watcher = "reloading" /\ watcher' = "asleep"
    /\ UNCHANGED <<main, exit, shutdown, installed, failed, part, cron, turns, fired, web, handler, streams>>

\* A request of a client; one for a plugin looks whether the sidecar runs and
\* then calls it, without a lock on the pointer.
HandlerBegins(h) ==
    /\ Runs /\ Is("server", "up") /\ handler[h] = "idle"
    /\ \/ handler' = [handler EXCEPT ![h] = "working"]
       \/ Is("plugins", "up") /\ handler' = [handler EXCEPT ![h] = "checked"]
    /\ UNCHANGED <<main, exit, shutdown, installed, failed, part, cron, turns, fired, web, watcher, streams>>

HandlerCalls(h) ==
    /\ Runs /\ handler[h] = "checked"
    /\ handler' = [handler EXCEPT ![h] = "calling"]
    /\ exit' = IF Is("plugins", "up") THEN exit ELSE "noSidecar"
    /\ UNCHANGED <<main, shutdown, installed, failed, part, cron, turns, fired, web, watcher, streams>>

HandlerEnds(h) ==
    /\ Runs /\ handler[h] \in {"working", "calling"}
    /\ handler' = [handler EXCEPT ![h] = "idle"]
    /\ UNCHANGED <<main, exit, shutdown, installed, failed, part, cron, turns, fired, web, watcher, streams>>

\* SIGINT or SIGTERM: before Install it kills, the first one after it asks for
\* the shutdown, the next one ends the process at once.
Signal ==
    /\ Runs
    /\ CASE ~installed -> exit' = "killed" /\ UNCHANGED shutdown
         [] installed /\ ~shutdown -> shutdown' = TRUE /\ UNCHANGED exit
         [] OTHER -> exit' = "forced" /\ UNCHANGED shutdown
    /\ UNCHANGED <<main, installed, failed, part, cron, turns, fired, web, watcher, handler, streams>>

MainStep ==
    \/ \E p \in Parts : StartPart(p) \/ StopPart(p)
    \/ StartServer \/ StartWeb \/ Install \/ StartWatcher \/ WaitEnds
    \/ StopWeb \/ StopServer \/ JoinWatcher \/ StopCron \/ StopQueue
    \/ Destroy

Works ==
    \/ CronSubmits \/ TurnEnds \/ WebListens
    \/ watcher = "reloading" /\ WatcherReloads
    \/ \E h \in Handler : HandlerCalls(h) \/ HandlerEnds(h)

Next ==
    \/ MainStep \/ Works \/ Signal
    \/ CronFires \/ WatcherReloads \/ StreamBegins \/ StreamEnds
    \/ \E h \in Handler : HandlerBegins(h)

Spec == Init /\ [][Next]_lifeVars

\* Threads run, turns and calls of the sidecar end.
Fairness ==
    /\ WF_lifeVars(MainStep)
    /\ WF_lifeVars(CronSubmits) /\ WF_lifeVars(TurnEnds) /\ WF_lifeVars(WebListens)
    /\ WF_lifeVars(watcher = "reloading" /\ WatcherReloads)
    /\ \A h \in Handler : WF_lifeVars(HandlerCalls(h) \/ HandlerEnds(h))

-----------------------------------------------------------------------------
(* Properties                                                               *)

\* A job that fires does not use a queue that is gone, unless the gateway
\* returned because its server could not listen.
QueueOutlivesCron == exit = "deadQueue" => failed

\* The sidecar's pointer is missing only to a call that had found it there
\* when the shutdown began, which the server still let in.
SidecarGoneInShutdownOnly == exit = "noSidecar" => shutdown

\* When the gateway has returned none of its threads runs, but for a turn that
\* streams to a client of the web API.
NothingRunsAtReturn ==
    exit = "returned" =>
       /\ cron = "idle" /\ turns = 0 /\ watcher \in {"none", "ended"}
       /\ web \in {"none", "ended"}
       /\ \A h \in Handler : handler[h] = "idle"

\* A stop that is asked for ends the process, unless the web server was told
\* so before it listened: then only another signal does.
Deaf == Is("web", "stopped") /\ web = "listening"
ShutdownEnds == shutdown ~> (~Runs \/ Deaf)
================================================================================
