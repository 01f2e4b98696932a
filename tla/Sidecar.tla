------------------------------- MODULE Sidecar -------------------------------
(***************************************************************************)
(* SidecarManager (src/plugins/sidecar_manager.cpp): one child process,    *)
(* one connection to it, a monitor thread that calls the child now and     *)
(* then and replaces it when it is gone, and callers that share the        *)
(* connection under ipc_mu_.  The model covers the life of one manager:    *)
(* both users in the gateway make a new one for every Start.               *)
(*                                                                         *)
(* Children are numbered in the order of their fork; 0 stands for          *)
(* kInvalidPid and kInvalidIpc.  A child nobody waits for stays a zombie   *)
(* and kill(pid, 0) takes a zombie for a live process, unless SIGCHLD was  *)
(* ignored when the gateway was started (autoreap).                        *)
(*                                                                         *)
(* No descriptor is closed by a fork or an exec.  The child inherits the   *)
(* socket the manager accepted it on, and goes on accepting there in the   *)
(* kernel; commands the gateway runs inherit the manager's end of the      *)
(* connection, and keep it open after the manager has closed it.           *)
(***************************************************************************)
EXTENDS Integers, Sequences, FiniteSets

CONSTANTS
    Clients,       \* threads that call the sidecar, other than the monitor
    MaxChildren,   \* bound on the processes forked; later forks fail
    MaxRestarts,   \* Options::max_restarts
    MaxBacklog     \* bound on answers that are late on one connection

Monitor == "monitor"
Nobody  == "nobody"
Threads == Clients \cup {Monitor}

SidecarAssumption ==
    /\ MaxChildren \in Nat /\ MaxRestarts \in Nat /\ MaxBacklog \in Nat
    /\ {Monitor, Nobody} \cap Clients = {}

Children == 1..MaxChildren
NoChild  == 0
\* As ipc_handle_: the number of a descriptor that is closed, and may by now be
\* one of another thread's.
Stray    == MaxChildren + 1

VARIABLES
    owner,         \* where the thread that calls Start and Stop is
    monitor,       \* where monitor_loop is
    running,       \* running_
    stopping,      \* stopping_
    restarts,      \* restart_count_
    pid,           \* pid_
    victim,        \* the child kill_sidecar waits for
    pid_file,      \* the process named in the pid file
    child,         \* what each process does
    autoreap       \* whether the kernel reaps children by itself

VARIABLES
    handle,        \* the child at the other end of ipc_handle_, or Stray
    port,          \* whether ipc_port_ is known
    link,          \* what is on its way on that connection
    inherited,     \* whether a command run since holds it open, too
    wants,         \* threads about to lock ipc_mu_ in Call
    reader,        \* the thread that waits for an answer, holding ipc_mu_
    writing,       \* whether that thread still waits for room to write
    outcome        \* what the last call returned

lifeVars  == <<owner, running, stopping, victim>>
childVars == <<pid, pid_file, child>>
linkVars  == <<handle, port, link, inherited>>
callVars  == <<wants, reader, writing, outcome>>
ipcVars   == <<linkVars, callVars>>
vars == <<lifeVars, monitor, restarts, childVars, autoreap, ipcVars>>

\* An answer is to the call that waits now ("own") or to an earlier one
\* ("other"); the rest of a line is what a read left behind half way.
Sources  == {"own", "other"}
Parts    == {"whole", "rest"}
NewLink  == [inbox |-> <<>>, owed |-> [s \in Sources |-> 0], torn |-> FALSE]
Backlog  == Len(link.inbox) + link.owed.own + link.owed.other

\* is_process_alive, and its fault: a pid once given out is taken for alive.
AliveOnceForked(k) == k # NoChild
Alive(k) == k # NoChild /\ child[k] # "gone"
Executes(k) == k \in Children /\ child[k] \in {"booting", "serving", "leaving"}
Died     == IF autoreap THEN "gone" ELSE "zombie"

Init ==
    /\ owner = "fresh" /\ monitor = "none"
    /\ running = FALSE /\ stopping = FALSE
    /\ restarts = 0 /\ pid = NoChild /\ victim = NoChild /\ pid_file = NoChild
    /\ child = [k \in Children |-> "none"]
    /\ autoreap \in BOOLEAN
    /\ handle = NoChild /\ link = NewLink /\ port = FALSE /\ inherited = FALSE
    /\ wants = {} /\ reader = Nobody /\ writing = FALSE /\ outcome = "none"
-------------------------------------------------------------------------------
(***************************************************************************)
(* spawn_sidecar, run by Start and by the monitor: fork, then accept.      *)
(***************************************************************************)
\* spawn_sidecar's local variable `child`: the process it forked last.
Newest == Cardinality({k \in Children : child[k] # "none"})

Fork ==
    /\ Newest < MaxChildren
    /\ child' = [child EXCEPT ![Newest + 1] = "booting"]
    /\ pid' = Newest + 1 /\ pid_file' = Newest + 1

\* The child has loaded its plugins and connects; the new connection becomes
\* ipc_handle_ whatever that was before.
Accept(k) ==
    /\ child[k] = "booting"
    /\ child' = [child EXCEPT ![k] = "serving"]
    /\ handle' = k /\ link' = NewLink /\ port' = TRUE /\ inherited' = FALSE
    /\ UNCHANGED <<pid, pid_file>>

\* Fault for AcceptTimeout: the child is not killed.
AcceptTimeoutSparesChild(k) ==
    /\ pid' = NoChild
    /\ UNCHANGED <<child, pid_file, linkVars>>
\* Ten seconds are over: the child is killed and waited for.
AcceptTimeout(k) ==
    /\ child' = [child EXCEPT ![k] = "gone"]
    /\ pid' = NoChild
    /\ UNCHANGED <<pid_file, linkVars>>

-------------------------------------------------------------------------------
(***************************************************************************)
(* The owner: Start, then Stop.                                            *)
(***************************************************************************)
StartForks ==
    /\ owner = "fresh"
    /\ owner' = "accepting" /\ Fork
    /\ UNCHANGED <<running, stopping, victim, monitor, restarts, autoreap, ipcVars>>

StartSucceeds ==
    /\ owner = "accepting" /\ Accept(Newest)
    /\ owner' = "up" /\ monitor' = "sleeping"
    /\ running' = TRUE /\ stopping' = FALSE /\ restarts' = 0
    /\ UNCHANGED <<victim, autoreap, callVars>>

StartFails ==
    /\ owner = "accepting" /\ AcceptTimeout(Newest)
    /\ owner' = "failed"
    /\ UNCHANGED <<running, stopping, victim, monitor, restarts, autoreap,
                   callVars>>

\* Fault for StopBegins: the flags the monitor looks at are not set.
StopTellsNobody ==
    /\ owner = "up" /\ running
    /\ owner' = "killing"
    /\ UNCHANGED <<running, stopping, victim, monitor, restarts, childVars, autoreap,
                   ipcVars>>
StopBegins ==
    /\ owner = "up" /\ running
    /\ owner' = "killing" /\ stopping' = TRUE /\ running' = FALSE
    /\ UNCHANGED <<victim, monitor, restarts, childVars, autoreap, ipcVars>>

\* The monitor has given up: Stop returns at once, and the destructor finds
\* a thread that was never joined, which ends the gateway (std::terminate).
StopAborts ==
    /\ owner = "up" /\ ~running
    /\ owner' = "aborted"
    /\ UNCHANGED <<running, stopping, victim, monitor, restarts, childVars,
                   autoreap, ipcVars>>

\* kill_sidecar: SIGTERM to the child pid_ names, if it names one.  A child
\* that has not yet installed its handler dies of the signal.
Terminate ==
    /\ owner = "killing"
    /\ owner' = IF pid = NoChild THEN "joining" ELSE "waiting"
    /\ victim' = pid
    /\ child' = [k \in Children |->
            IF k # pid THEN child[k]
            ELSE IF child[k] = "booting" THEN Died
            ELSE IF child[k] = "serving" THEN "leaving" ELSE child[k]]
    /\ UNCHANGED <<running, stopping, monitor, restarts, pid, pid_file, autoreap,
                   ipcVars>>

\* The child is waited for, or killed when it takes too long.
WaitEnds ==
    /\ owner = "waiting"
    /\ owner' = "joining"
    /\ child' = [child EXCEPT ![victim] = "gone"]
    /\ pid' = NoChild
    /\ UNCHANGED <<running, stopping, victim, monitor, restarts, pid_file,
                   autoreap, ipcVars>>

\* The monitor is joined; its fault: it is left running.
JoinNothing ==
    /\ owner = "joining"
    /\ owner' = "closing"
    /\ UNCHANGED <<running, stopping, victim, monitor, restarts, childVars,
                   autoreap, ipcVars>>
JoinMonitor ==
    /\ owner = "joining" /\ monitor = "exited"
    /\ owner' = "closing"
    /\ UNCHANGED <<running, stopping, victim, monitor, restarts, childVars,
                   autoreap, ipcVars>>

\* The manager's end of the connection is closed and the port forgotten.
HangUp == /\ handle' = NoChild /\ port' = FALSE /\ link' = NewLink
          /\ UNCHANGED inherited

\* The clean-up at the end of Stop; its fault: the connection stays open.
StopKeepsHandle ==
    /\ owner = "closing" /\ reader = Nobody
    /\ owner' = "down"
    /\ pid_file' = NoChild
    /\ UNCHANGED <<running, stopping, victim, monitor, restarts, pid, child,
                   autoreap, ipcVars>>
StopCloses ==
    /\ owner = "closing" /\ reader = Nobody
    /\ owner' = "down"
    /\ HangUp /\ pid_file' = NoChild
    /\ UNCHANGED <<running, stopping, victim, monitor, restarts, pid, child,
                   autoreap, callVars>>

\* Reload sends SIGHUP, which ends a child that has no handler for it yet.
Reload ==
    /\ owner \in {"accepting", "up"} /\ Alive(pid)
    /\ child[pid] = "booting"
    /\ child' = [child EXCEPT ![pid] = Died]
    /\ UNCHANGED <<lifeVars, monitor, restarts, pid, pid_file, autoreap, ipcVars>>
-------------------------------------------------------------------------------
(***************************************************************************)
(* monitor_loop.                                                           *)
(***************************************************************************)
\* `continue`, or the end of a pass: back to the condition of the loop.
Loops == IF running /\ ~stopping THEN "sleeping" ELSE "exited"

\* No restart is left; the fault allows one too many.
GivesUpLate == restarts > MaxRestarts
GivesUp     == restarts >= MaxRestarts

\* The heartbeat interval is over.
MonitorWakes ==
    /\ monitor = "sleeping"
    /\ IF stopping THEN monitor' = "exited" /\ UNCHANGED <<running, pid, wants>>
       ELSE IF Alive(pid) THEN /\ monitor' = "calling" /\ wants' = wants \cup {Monitor}
                               /\ UNCHANGED <<running, pid>>
       ELSE /\ pid' = NoChild
            /\ IF GivesUp
               THEN monitor' = "exited" /\ running' = FALSE
               ELSE monitor' = "backoff" /\ UNCHANGED running
            /\ UNCHANGED wants
    /\ UNCHANGED <<owner, stopping, victim, restarts, pid_file, child, autoreap,
                   linkVars, reader, writing, outcome>>

\* Call has returned.
MonitorCalled ==
    /\ monitor = "calling" /\ Monitor \notin wants /\ reader # Monitor
    /\ monitor' = Loops
    /\ UNCHANGED <<lifeVars, restarts, childVars, autoreap, ipcVars>>

BackoffEnds ==
    /\ monitor = "backoff"
    /\ monitor' = IF stopping THEN "exited" ELSE "reopening"
    /\ UNCHANGED <<lifeVars, restarts, childVars, autoreap, ipcVars>>

\* The old connection is closed before the new child is there; the fault leaves
\* that to the new connection.
ReopenKeepsOld ==
    /\ monitor = "reopening" /\ reader = Nobody
    /\ monitor' = "spawning"
    /\ UNCHANGED <<lifeVars, restarts, childVars, autoreap, ipcVars>>
Reopen ==
    /\ monitor = "reopening" /\ reader = Nobody
    /\ monitor' = "spawning"
    /\ HangUp
    /\ UNCHANGED <<lifeVars, restarts, childVars, autoreap, callVars>>

MonitorForks ==
    /\ monitor = "spawning" /\ Fork
    /\ monitor' = "accepting"
    /\ UNCHANGED <<lifeVars, restarts, autoreap, ipcVars>>

\* No socket or no process: this does not count as a restart.
MonitorCannotFork ==
    /\ monitor = "spawning"
    /\ monitor' = Loops
    /\ UNCHANGED <<lifeVars, restarts, childVars, autoreap, ipcVars>>

MonitorAccepts ==
    /\ monitor = "accepting" /\ Accept(Newest)
    /\ monitor' = Loops /\ restarts' = restarts + 1
    /\ UNCHANGED <<lifeVars, autoreap, callVars>>

MonitorAcceptFails ==
    /\ monitor = "accepting" /\ AcceptTimeout(Newest)
    /\ monitor' = Loops
    /\ UNCHANGED <<lifeVars, restarts, autoreap, callVars>>
-------------------------------------------------------------------------------
(***************************************************************************)
(* Call: IsRunning without the lock, the request under ipc_mu_, which may  *)
(* wait for room, the answer still under ipc_mu_.                          *)
(***************************************************************************)
Ask(t) ==
    /\ t \in Clients /\ t \notin wants /\ reader # t
    /\ Alive(pid)
    /\ wants' = wants \cup {t}
    /\ UNCHANGED <<lifeVars, monitor, restarts, childVars, autoreap, linkVars,
                   reader, writing, outcome>>

Locks(t) == t \in wants /\ reader = Nobody /\ wants' = wants \ {t}

\* No connection, and connect_ipc gets none: a process that inherited the
\* listening socket may answer, but the new descriptor is closed with the local
\* IpcClient.  The write to it fails, unless another thread has got that number
\* since; then the request goes there, and the next one, too.
Unconnected(t) ==
    /\ Locks(t) /\ handle \in {NoChild, Stray}
    /\ \/ handle' = NoChild /\ outcome' = "error" /\ UNCHANGED reader
       \/ port /\ handle' = Stray /\ outcome' = "none" /\ reader' = t
    /\ UNCHANGED <<lifeVars, monitor, restarts, childVars, autoreap, port, link,
                   inherited, writing>>

\* What was on its way for earlier calls is not for this one.
Aged == [link EXCEPT
            !.inbox = [i \in DOMAIN link.inbox |-> [link.inbox[i] EXCEPT !.source = "other"]],
            !.owed  = [own |-> 1, other |-> link.owed.own + link.owed.other]]

\* The request is written, or as much of it as there is room for.
Send(t) ==
    /\ Locks(t) /\ handle \in Children
    /\ reader' = t /\ outcome' = "none"
    /\ \/ writing' = FALSE /\ link' = Aged
       \/ writing' = TRUE /\ UNCHANGED link
    /\ UNCHANGED <<lifeVars, monitor, restarts, childVars, autoreap, handle, port,
                   inherited>>

\* The child has read on; send() has no timeout, so nothing else ends the wait.
WriteGoesOn(t) ==
    /\ reader = t /\ writing /\ Executes(handle)
    /\ writing' = FALSE /\ link' = Aged
    /\ UNCHANGED <<lifeVars, monitor, restarts, childVars, autoreap, handle, port,
                   inherited, wants, reader, outcome>>

WriteFails(t) ==
    /\ Locks(t) /\ handle \in Children /\ ~Executes(handle)
    /\ handle' = NoChild /\ link' = NewLink /\ outcome' = "error"
    /\ UNCHANGED <<lifeVars, monitor, restarts, childVars, autoreap, port, inherited,
                   reader, writing>>

Returns(t, what) ==
    /\ reader = t /\ reader' = Nobody
    /\ writing' = FALSE /\ outcome' = what
    /\ UNCHANGED <<lifeVars, monitor, restarts, childVars, autoreap, port, inherited,
                   wants>>

WriteBreaks(t) ==
    /\ writing /\ ~Executes(handle)
    /\ Returns(t, "error")
    /\ handle' = NoChild /\ link' = NewLink

\* A whole line, or the rest of one, which is no JSON.
ReadLine(t) ==
    /\ link.inbox # <<>>
    /\ Returns(t, IF Head(link.inbox).part = "whole" THEN Head(link.inbox).source
                  ELSE "error")
    /\ link' = [link EXCEPT !.inbox = Tail(@)]
    /\ UNCHANGED handle

\* The time is over in the middle of a line: Call parses what it has (only the
\* end of the line may be missing), and the connection stays open.
ReadPart(t) ==
    /\ link.inbox # <<>> /\ Head(link.inbox).part = "whole"
    /\ Backlog < MaxBacklog
    /\ \/ Returns(t, "error")
       \/ Returns(t, Head(link.inbox).source)
    /\ link' = [link EXCEPT !.inbox[1].part = "rest", !.torn = TRUE]
    /\ UNCHANGED handle

\* The time is over before the first character, the child has closed the
\* connection, or the rest of a line was only its end.
\* Its faults: the connection is kept, or only its end is noticed, no timeout.
ReadNothingKeepsHandle(t) == Returns(t, "error") /\ UNCHANGED <<link, handle>>
ReadNothingAtEndOnly(t) ==
    /\ Returns(t, "error") /\ ~Executes(handle)
    /\ handle' = NoChild /\ link' = NewLink
ReadNothing(t) ==
    /\ Returns(t, "error")
    /\ handle' = NoChild /\ link' = NewLink

Read(t) ==
    /\ handle \in Children /\ ~writing
    /\ ReadLine(t) \/ ReadPart(t) \/ ReadNothing(t)

\* What another thread's descriptor brings; when it brings nothing in time, or
\* is none any more, it is closed.
ReadStray(t) ==
    /\ handle = Stray
    /\ \/ handle' = NoChild /\ Returns(t, "error")
       \/ UNCHANGED handle /\ \E what \in {"other", "error"} : Returns(t, what)
    /\ UNCHANGED link
-------------------------------------------------------------------------------
(***************************************************************************)
(* The child (src/sidecar): requests are served concurrently.              *)
(***************************************************************************)
Answer(s) ==
    /\ handle \in Children /\ child[handle] \in {"serving", "leaving"}
    /\ link.owed[s] > 0
    /\ link' = [link EXCEPT !.owed[s] = @ - 1,
                            !.inbox = Append(@, [source |-> s, part |-> "whole"])]
    /\ UNCHANGED <<lifeVars, monitor, restarts, childVars, autoreap, handle, port,
                   inherited, callVars>>

BecomesOf(k, from, to) ==
    /\ child[k] \in from
    /\ child' = [child EXCEPT ![k] = to]
    /\ UNCHANGED <<lifeVars, monitor, restarts, pid, pid_file, autoreap, ipcVars>>

\* onDisconnected: a child that loses its connection shuts down.  It has not
\* lost it while a command the gateway runs holds the other end open.
Disconnected(k) == handle # k /\ ~inherited /\ BecomesOf(k, {"serving"}, "leaving")
Exit(k)         == BecomesOf(k, {"leaving"}, Died)
Crash(k)        == BecomesOf(k, {"booting", "serving", "leaving"}, Died)

\* A command is run while there is a connection; it ends.
Inherits ==
    /\ handle \in Children /\ inherited' = TRUE
    /\ UNCHANGED <<lifeVars, monitor, restarts, childVars, autoreap, handle, port, link,
                   callVars>>
HeirExits ==
    /\ inherited /\ inherited' = FALSE
    /\ UNCHANGED <<lifeVars, monitor, restarts, childVars, autoreap, handle, port, link,
                   callVars>>
-------------------------------------------------------------------------------
Owner == \/ StartForks \/ StartSucceeds \/ StartFails \/ StopBegins \/ StopAborts
         \/ Terminate \/ WaitEnds \/ JoinMonitor \/ StopCloses \/ Reload

MonitorStep == \/ MonitorWakes \/ MonitorCalled \/ BackoffEnds \/ Reopen
               \/ MonitorForks \/ MonitorCannotFork \/ MonitorAccepts
               \/ MonitorAcceptFails

Request(t) == Unconnected(t) \/ Send(t) \/ WriteFails(t)
CallStep(t) == \/ Ask(t) \/ Request(t) \/ WriteGoesOn(t) \/ WriteBreaks(t)
               \/ Read(t) \/ ReadStray(t)

ChildStep == \/ \E s \in Sources : Answer(s)
             \/ \E k \in Children : Disconnected(k) \/ Exit(k) \/ Crash(k)

Next == \/ Owner \/ MonitorStep \/ (\E t \in Threads : CallStep(t)) \/ ChildStep
        \/ Inherits \/ HeirExits

Spec == Init /\ [][Next]_vars

\* Threads run, a lock that is free again and again is got at last, and a child
\* that shuts down exits.  Every wait has a timeout but two, of which nothing is
\* assumed: a write waits until the child reads, and a read of another thread's
\* descriptor until that brings what it waits for.  Nobody has to call, to stop
\* the manager or to crash, and no command has to end.
Fairness ==
    /\ WF_vars(StartSucceeds \/ StartFails)
    /\ WF_vars(Terminate) /\ WF_vars(WaitEnds) /\ WF_vars(JoinMonitor)
    /\ WF_vars(MonitorWakes) /\ WF_vars(MonitorCalled) /\ WF_vars(BackoffEnds)
    /\ WF_vars(MonitorForks \/ MonitorCannotFork)
    /\ WF_vars(MonitorAccepts \/ MonitorAcceptFails)
    /\ SF_vars(Reopen) /\ SF_vars(StopCloses)
    /\ \A t \in Threads : SF_vars(Request(t)) /\ WF_vars(Read(t) \/ WriteBreaks(t))
    /\ \A k \in Children : WF_vars(Disconnected(k)) /\ WF_vars(Exit(k))

FairSpec == Spec /\ Fairness
-------------------------------------------------------------------------------
\* Every variable holds a value of its type.
TypeOK ==
    /\ owner \in {"fresh", "accepting", "up", "failed", "killing", "waiting",
                  "joining", "closing", "down", "aborted"}
    /\ monitor \in {"none", "sleeping", "calling", "backoff", "reopening",
                    "spawning", "accepting", "exited"}
    /\ running \in BOOLEAN /\ stopping \in BOOLEAN /\ autoreap \in BOOLEAN
    /\ restarts \in 0..MaxRestarts
    /\ {pid, victim, pid_file} \subseteq Children \cup {NoChild}
    /\ handle \in Children \cup {NoChild, Stray}
    /\ port \in BOOLEAN /\ inherited \in BOOLEAN /\ writing \in BOOLEAN
    /\ child \in [Children -> {"none", "booting", "serving", "leaving",
                               "zombie", "gone"}]
    /\ link.inbox \in Seq([source : Sources, part : Parts])
    /\ link.owed \in [Sources -> Nat] /\ link.torn \in BOOLEAN
    /\ wants \subseteq Threads /\ reader \in Threads \cup {Nobody}
    /\ outcome \in {"none", "error"} \cup Sources

\* A connection always leads to the process pid_ names, or to none once the
\* monitor has found that process dead: while a replacement is starting no
\* call can reach its predecessor's connection.  A stray descriptor is none.
ConnectionIsCurrent == handle \in Children /\ pid # NoChild => handle = pid

\* At most one process that the manager forked is being used or started; a
\* predecessor has always exited before its successor is forked.
OneChildAtATime ==
    \A j, k \in Children : j # k => ~(Executes(j) /\ Executes(k))

\* When Stop has returned the monitor is gone and the connection and the pid
\* file are, whatever the monitor was doing when Stop was called.
StoppedIsClean ==
    owner = "down" =>
        monitor = "exited" /\ handle = NoChild /\ pid_file = NoChild

\* One child, its own connection, and nothing of either when Stop has returned.
SidecarAgrees == ConnectionIsCurrent /\ OneChildAtATime /\ StoppedIsClean

\* Call never compares the id of an answer with that of its request; an answer
\* is still to this very request unless an earlier call on this connection
\* stopped reading in the middle of a line, or connect_ipc has left a descriptor
\* that another thread has got since.
AnswerIsOwn ==
    [][reader # Nobody /\ reader' = Nobody /\ outcome' = "other"
           => link.torn \/ handle = Stray]_vars

\* A wait under ipc_mu_ that no timeout ends.
Blocked == reader # Nobody /\ (handle = Stray \/ (writing /\ Executes(handle)))

\* Stop leaves no process behind, not even the one the monitor had just
\* forked when Stop looked for a process to kill, unless a command that never
\* ends keeps the connection of that one open.
StopLeavesNoChild ==
    []<>~inherited => (owner = "down" ~> \A k \in Children : ~Executes(k))

\* Stop comes to an end, whoever is calling, reading, or being restarted, unless
\* a call is blocked for ever.
StopTerminates == []<>~Blocked => (owner = "killing" ~> owner = "down")

\* A call that has begun ends, its own wait excepted that no timeout ends.
CallsReturn ==
    []<>~Blocked => \A t \in Threads : t \in wants ~> t \notin wants /\ reader # t

\* While the monitor is in charge, a process that is dead and reaped does not
\* stay the current one, unless a call is blocked for ever.
DeathIsNoticed ==
    []<>~Blocked =>
        \A k \in Children : pid = k /\ child[k] = "gone" ~> pid # k \/ ~running
===============================================================================
