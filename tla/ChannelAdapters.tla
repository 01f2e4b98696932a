---------------------------- MODULE ChannelAdapters ----------------------------
(***************************************************************************)
(* The processes of the channel adapters (channels/adapter_manager.cpp):   *)
(* started by the gateway, watched by a monitor thread, killed by Stop.    *)
(* adapters_ has no lock: Stop clears it while the monitor may be walking  *)
(* over it, and the elements keep their contents then (a vector does not   *)
(* give its memory back).                                                  *)
(*                                                                         *)
(* As in Sidecar, only a wait reaps a child, and kill(pid, 0) takes a      *)
(* zombie for a live process, unless SIGCHLD was ignored when the gateway  *)
(* was started (autoReap).                                                 *)
(***************************************************************************)
EXTENDS Naturals, Sequences, FiniteSets

CONSTANTS Channel,         \* the enabled channels that have a script
          MaxProcesses     \* bound: processes ever forked

AdaptersAssumption == MaxProcesses \in Nat

Pid  == 0..MaxProcesses
None == 0                  \* kInvalidPid

VARIABLES up,              \* running_
          adapter,         \* adapters_: pid and running of each element
          listed,          \* the channels that have an element
          process,         \* the processes forked so far: pid, in order
          autoReap,
          monitor,         \* what the monitor thread does, and to which adapter
          owner            \* what the thread in Start and Stop does

adapterVars == <<up, adapter, listed, process, autoReap, monitor, owner>>

\* late: launched when Stop had begun
ProcessState == [state : {"alive", "zombie", "gone"}, channel : Channel, late : BOOLEAN]

TypeOK ==
    /\ up \in BOOLEAN
    /\ adapter \in [Channel -> [pid : Pid, running : BOOLEAN]]
    /\ listed \subseteq Channel
    /\ process \in Seq(ProcessState) /\ Len(process) <= MaxProcesses
    /\ autoReap \in BOOLEAN
    /\ monitor.stage \in {"none", "asleep", "scan", "restart", "ended"}
    /\ monitor.todo \subseteq Channel /\ monitor.at \subseteq Channel
    /\ owner.stage \in {"new", "up", "killing", "waiting", "joining", "stopped"}
    /\ owner.todo \subseteq Channel /\ owner.at \subseteq Channel

Init ==
    /\ up = FALSE
    /\ adapter = [c \in Channel |-> [pid |-> None, running |-> FALSE]]
    /\ listed = {}
    /\ process = <<>>
    /\ autoReap \in BOOLEAN
    /\ monitor = [stage |-> "none", todo |-> {}, at |-> {}]
    /\ owner = [stage |-> "new", todo |-> {}, at |-> {}]

\* is_process_alive and a reaping wait, as the kernel answers them
LooksAlive(p) == p # None /\ process[p].state \in {"alive", "zombie"}
Died          == IF autoReap THEN "gone" ELSE "zombie"

\* launch_adapter, when it succeeds
Launched(c) ==
    /\ Len(process) < MaxProcesses
    /\ process' = Append(process, [state |-> "alive", channel |-> c,
                                   late |-> owner.stage \notin {"new", "up"}])
    /\ adapter' = [adapter EXCEPT ![c] = [pid |-> Len(process) + 1, running |-> TRUE]]

-----------------------------------------------------------------------------
(* Start                                                                    *)

\* Each channel is launched in turn; one whose launch fails is left out.
StartLaunches(c) ==
    /\ owner.stage = "new"
    /\ c \in Channel \ listed
    /\ Launched(c)
    /\ listed' = listed \cup {c}
    /\ UNCHANGED <<up, autoReap, monitor, owner>>

\* Without any process there is no monitor either.
StartReturns ==
    /\ owner.stage = "new"
    /\ owner' = [owner EXCEPT !.stage = "up"]
    /\ up' = (listed # {})
    /\ monitor' = [monitor EXCEPT !.stage = IF listed # {} THEN "asleep" ELSE "none"]
    /\ UNCHANGED <<adapter, listed, process, autoReap>>

\* A process exits by itself, or because it was told to
Dies(p) ==
    /\ process[p].state = "alive"
    /\ process' = [process EXCEPT ![p].state = Died]
    /\ UNCHANGED <<up, adapter, listed, autoReap, monitor, owner>>

-----------------------------------------------------------------------------
(* monitor_loop                                                             *)

MonitorWakes ==
    /\ monitor.stage = "asleep"
    /\ monitor' = IF up THEN [monitor EXCEPT !.stage = "scan", !.todo = listed]
                  ELSE [monitor EXCEPT !.stage = "ended"]
    /\ UNCHANGED <<up, adapter, listed, process, autoReap, owner>>

Crashed(c) == adapter[c].running /\ ~LooksAlive(adapter[c].pid)

\* Fault: restarted whether the manager is up or not
ScanAnyway(c) ==
    /\ monitor.stage = "scan"
    /\ c \in monitor.todo
    /\ IF Crashed(c)
       THEN adapter' = [adapter EXCEPT ![c] = [pid |-> None, running |-> FALSE]]
       ELSE UNCHANGED adapter
    /\ monitor' = IF Crashed(c)
                  THEN [stage |-> "restart", todo |-> monitor.todo \ {c}, at |-> {c}]
                  ELSE [monitor EXCEPT !.todo = @ \ {c}]
    /\ UNCHANGED <<up, listed, process, autoReap, owner>>

\* One adapter of the walk.  Whether it is restarted is decided before a sleep of
\* three seconds.
Scan(c) ==
    /\ monitor.stage = "scan"
    /\ c \in monitor.todo
    /\ IF Crashed(c)
       THEN adapter' = [adapter EXCEPT ![c] = [pid |-> None, running |-> FALSE]]
       ELSE UNCHANGED adapter
    /\ monitor' = IF Crashed(c) /\ up
                  THEN [stage |-> "restart", todo |-> monitor.todo \ {c}, at |-> {c}]
                  ELSE [monitor EXCEPT !.todo = @ \ {c}]
    /\ UNCHANGED <<up, listed, process, autoReap, owner>>

\* launch_adapter after the sleep; when it fails it is not tried again.
Relaunch(c) ==
    /\ monitor.stage = "restart"
    /\ c \in monitor.at
    /\ Launched(c) \/ UNCHANGED <<process, adapter>>
    /\ monitor' = [monitor EXCEPT !.stage = "scan", !.at = {}]
    /\ UNCHANGED <<up, listed, autoReap, owner>>

ScanEnds ==
    /\ monitor.stage = "scan"
    /\ monitor.todo = {}
    /\ monitor' = [monitor EXCEPT !.stage = "asleep"]
    /\ UNCHANGED <<up, adapter, listed, process, autoReap, owner>>

-----------------------------------------------------------------------------
(* Stop                                                                     *)

\* Fault: the monitor is not told
StopBeginsQuietly ==
    /\ owner.stage = "up"
    /\ owner' = [stage |-> "killing", todo |-> listed, at |-> {}]
    /\ UNCHANGED <<up, adapter, listed, process, autoReap, monitor>>

\* The gateway calls it more than once; the later calls find nothing to do.
StopBegins ==
    /\ owner.stage = "up"
    /\ up' = FALSE
    /\ owner' = [stage |-> "killing", todo |-> listed, at |-> {}]
    /\ UNCHANGED <<adapter, listed, process, autoReap, monitor>>

\* kill_adapter: SIGTERM, or nothing for an adapter that is not running
Terminate(c) ==
    /\ owner.stage = "killing"
    /\ c \in owner.todo
    /\ owner' = IF adapter[c].running
                THEN [stage |-> "waiting", todo |-> owner.todo \ {c}, at |-> {c}]
                ELSE [owner EXCEPT !.todo = @ \ {c}]
    /\ UNCHANGED <<up, adapter, listed, process, autoReap, monitor>>

\* It died and was reaped within five seconds, or was killed and reaped
Killed(c) ==
    /\ owner.stage = "waiting"
    /\ c \in owner.at
    /\ IF adapter[c].pid # None
       THEN process' = [process EXCEPT ![adapter[c].pid].state = "gone"]
       ELSE UNCHANGED process
    /\ adapter' = [adapter EXCEPT ![c] = [pid |-> None, running |-> FALSE]]
    /\ owner' = [owner EXCEPT !.stage = "killing", !.at = {}]
    /\ UNCHANGED <<up, listed, autoReap, monitor>>

ClearAdapters ==
    /\ owner.stage = "killing"
    /\ owner.todo = {}
    /\ listed' = {}
    /\ owner' = [owner EXCEPT !.stage = "joining"]
    /\ UNCHANGED <<up, adapter, process, autoReap, monitor>>

\* The monitor is joined
StopReturns ==
    /\ owner.stage = "joining"
    /\ monitor.stage \in {"none", "ended"}
    /\ owner' = [owner EXCEPT !.stage = "stopped"]
    /\ UNCHANGED <<up, adapter, listed, process, autoReap, monitor>>

MonitorStep == MonitorWakes \/ ScanEnds \/ \E c \in Channel : Scan(c) \/ Relaunch(c)
StopStep    == ClearAdapters \/ StopReturns \/ \E c \in Channel : Terminate(c) \/ Killed(c)

Next ==
    \/ \E c \in Channel : StartLaunches(c)
    \/ StartReturns
    \/ \E p \in DOMAIN process : Dies(p)
    \/ MonitorStep
    \/ StopBegins
    \/ StopStep

Spec == Init /\ [][Next]_adapterVars

\* The monitor's sleeps end, and so do the waits of Stop.
Fairness == WF_adapterVars(MonitorStep) /\ WF_adapterVars(StopStep)

FairSpec == Spec /\ Fairness

-----------------------------------------------------------------------------
(* Properties                                                               *)

Live == {p \in DOMAIN process : process[p].state = "alive"}

\* Stop leaves no adapter behind, except at most one: the one whose restart the
\* monitor had decided upon before and carried out after Stop passed it.  A
\* channel never has two live processes, and a live one is on record for as long
\* as the manager is up.
NoStrays ==
    /\ owner.stage = "stopped" =>
         Cardinality(Live) <= 1 /\ \A p \in Live : process[p].late
    /\ \A p, q \in Live : process[p].channel = process[q].channel => p = q
    /\ owner.stage = "up" => \A p \in Live : adapter[process[p].channel].pid = p

\* Stop returns; and where the kernel reaps children, an adapter that died is
\* noticed or Stop called.
MonitorAndStopAdvance ==
    /\ owner.stage = "killing" ~> owner.stage = "stopped"
    /\ \A c \in Channel :
         autoReap /\ up /\ Crashed(c) ~> ~up \/ ~Crashed(c)

\* What the record still names although it died while the manager is up
Forgotten(p) ==
    /\ up /\ p \in DOMAIN process
    /\ process[p].state # "alive" /\ adapter[process[p].channel].pid = p

\* adapter_manager.cppm: "Monitor thread: restart crashed adapters".  A process
\* that died while its manager is up gets a successor or a failed attempt at one.
CrashedAreRestarted == \A p \in Pid \ {None} : Forgotten(p) ~> ~Forgotten(p)
=============================================================================
