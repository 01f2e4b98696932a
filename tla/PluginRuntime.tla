----------------------------- MODULE PluginRuntime -----------------------------
(***************************************************************************)
(* The plugins inside the sidecar process (sidecar/src: index.ts,          *)
(* plugin-loader.ts, plugin-api-shim.ts, tool-executor.ts): one thread of  *)
(* JavaScript, on which asynchronous functions take turns at each await.   *)
(* They are main, which loads the plugins and connects; requests to start  *)
(* and stop a service, of which the gateway sends another one when the     *)
(* first is answered or has timed out; reloadPlugins on SIGHUP; and        *)
(* shutdown, on SIGTERM and when the gateway is gone.                      *)
(*                                                                         *)
(* A plugin stands for the one tool and the one service it registers; its  *)
(* own code may fail whenever it is called.  An instance of a service is   *)
(* that of a plugin in the registries of one load, and counts as running   *)
(* from the end of its start to the end of its stop.                       *)
(***************************************************************************)
EXTENDS Naturals, Sequences, SequencesExt

CONSTANTS Order,           \* the enabled plugins, as their directories are found
          Request,         \* requests to start or stop a service
          Causes,          \* why it ends: "SIGTERM", "disconnected"
          MaxReloads       \* bound

\* A plugin whose id was met before is passed over.
RuntimeAssumption ==
    /\ Order \in Seq(STRING) /\ \A i, j \in DOMAIN Order : Order[i] = Order[j] => i = j
    /\ Causes \subseteq {"SIGTERM", "disconnected"} /\ MaxReloads \in Nat

VARIABLES phase,           \* of the process
          load,            \* the number of the registries in use
          tools,           \* ToolExecutor: instances of the plugins' tools
          services,        \* registries.services
          records,         \* pluginRecords
          loader,          \* main or reloadPlugins
          running,         \* runningServices
          live,            \* the instances that run
          request,         \* each request
          closing,         \* each shutdown
          disturbed        \* history: plugins whose service two tasks changed

runtimeVars == <<phase, load, tools, services, records, loader, running, live,
                 request, closing, disturbed>>

Plugin   == ToSet(Order)
Instance == [id : Plugin, load : 0..MaxReloads]

Loaders  == [stage : {"idle", "stopping", "importing", "activating", "starting", "awaiting"},
             at : 1..(Len(Order) + 1), todo : Seq(Instance), loaded : SUBSET Plugin]
Requests == [stage : {"none", "starting", "stopping", "answered"},
             service : {<<>>} \cup {<<s>> : s \in Instance}, at : Nat]
Closings == [begun : BOOLEAN, todo : Seq(Instance)]

IdleLoader == [stage |-> "idle", at |-> 1, todo |-> <<>>, loaded |-> {}]
NoRequest  == [stage |-> "none", service |-> <<>>, at |-> 0]
NotClosing == [begun |-> FALSE, todo |-> <<>>]

TypeOK ==
    /\ phase \in {"booting", "up", "exited", "unconnected"}
    /\ load \in 0..MaxReloads
    /\ tools \subseteq Instance
    /\ services \subseteq Plugin /\ records \subseteq Plugin
    /\ loader \in Loaders
    /\ running \in Seq(Instance) /\ live \subseteq Instance
    /\ request \in [Request -> Requests]
    /\ closing \in [Causes -> Closings]
    /\ disturbed \subseteq Plugin

Init ==
    /\ phase = "booting"
    /\ load = 0
    /\ tools = {} /\ services = {} /\ records = {}
    /\ loader = [IdleLoader EXCEPT !.stage = "importing"]
    /\ running = <<>> /\ live = {}
    /\ request = [r \in Request |-> NoRequest]
    /\ closing = [c \in Causes |-> NotClosing]
    /\ disturbed = {}

-----------------------------------------------------------------------------
Alive     == phase \in {"booting", "up"}
Loading   == loader.stage # "idle"
Closing   == \E c \in Causes : closing[c].begun
Of(p)     == [id |-> p, load |-> load]
Ids(seq)  == {seq[i].id : i \in 1..Len(seq)}
Asked(stage) == UNION {ToSet(request[r].service) : r \in {q \in Request : request[q].stage = stage}}
AskedIds(stage) == {s.id : s \in Asked(stage)}

\* A plugin's function ends well or throws.
Outcomes == BOOLEAN

(* loadPlugins                                                              *)

Goes(stage) == loader' = [loader EXCEPT !.stage = stage]
Skips == loader' = [loader EXCEPT !.stage = "importing", !.at = @ + 1]

\* The module is imported and its register called: what it registers is there
\* from then on, whatever becomes of the plugin.
Import ==
    /\ Alive /\ loader.stage = "importing" /\ loader.at <= Len(Order)
    /\ \/ /\ tools' = tools \cup {Of(Order[loader.at])}
          /\ services' = services \cup {Order[loader.at]}
          /\ Goes("activating")
       \/ Skips /\ UNCHANGED <<tools, services>>
    /\ UNCHANGED <<phase, load, records, running, live, request, closing, disturbed>>

Activate ==
    /\ Alive /\ loader.stage = "activating"
    /\ \E ok \in Outcomes :
         loader' = [loader EXCEPT !.stage = "importing", !.at = @ + 1,
                                  !.loaded = IF ok THEN @ \cup {Order[loader.at]} ELSE @]
    /\ UNCHANGED <<phase, load, tools, services, records, running, live, request,
                   closing, disturbed>>

Loaded ==
    /\ Alive /\ loader.stage = "importing" /\ loader.at > Len(Order)
    /\ records' = loader.loaded
    /\ loader' = [IdleLoader EXCEPT !.stage = "starting"]
    /\ UNCHANGED <<phase, load, tools, services, running, live, request, closing, disturbed>>

(* startServices                                                            *)

\* The services are started in turn, without a look at what runs.
StartNext ==
    /\ Alive /\ loader.stage = "starting" /\ loader.at <= Len(Order)
    /\ IF Order[loader.at] \in services THEN Goes("awaiting")
       ELSE loader' = [loader EXCEPT !.at = @ + 1]
    /\ UNCHANGED <<phase, load, tools, services, records, running, live, request,
                   closing, disturbed>>

Started ==
    /\ Alive /\ loader.stage = "awaiting"
    /\ \E ok \in Outcomes :
         IF ok THEN /\ live' = live \cup {Of(Order[loader.at])}
                    /\ running' = Append(running, Of(Order[loader.at]))
         ELSE UNCHANGED <<live, running>>
    /\ loader' = [loader EXCEPT !.stage = "starting", !.at = @ + 1]
    /\ UNCHANGED <<phase, load, tools, services, records, request, closing, disturbed>>

\* main connects to the gateway, or exits as it is; reloadPlugins has ended.
AllStarted ==
    /\ Alive /\ loader.stage = "starting" /\ loader.at > Len(Order)
    /\ loader' = IdleLoader
    /\ phase' \in IF phase = "booting" THEN {"up", "unconnected"} ELSE {phase}
    /\ UNCHANGED <<load, tools, services, records, running, live, request, closing, disturbed>>

-----------------------------------------------------------------------------
(* plugin.services, from the gateway                                        *)

Connected == \A c \in Causes : c = "disconnected" => ~closing[c].begun
CanAsk(r) == phase = "up" /\ Connected /\ request[r].stage = "none"
Answer(r) == request' = [request EXCEPT ![r] = [NoRequest EXCEPT !.stage = "answered"]]

\* Fault: whether it runs is not looked up
StartsAnyway(r, p) ==
    IF p \notin services THEN Answer(r) /\ UNCHANGED disturbed
    ELSE /\ request' = [request EXCEPT ![r] = [stage |-> "starting", service |-> <<Of(p)>>, at |-> 0]]
         /\ disturbed' = IF Loading \/ Closing \/ p \in AskedIds("starting") \cup AskedIds("stopping")
                         THEN disturbed \cup {p} ELSE disturbed

\* What is running already, or is not registered, is not started.
Starts(r, p) ==
    IF p \notin services \/ p \in Ids(running) THEN Answer(r) /\ UNCHANGED disturbed
    ELSE /\ request' = [request EXCEPT ![r] = [stage |-> "starting", service |-> <<Of(p)>>, at |-> 0]]
         /\ disturbed' = IF Loading \/ Closing \/ p \in AskedIds("starting") \cup AskedIds("stopping")
                         THEN disturbed \cup {p} ELSE disturbed

StartService(r, p) ==
    /\ CanAsk(r)
    /\ Starts(r, p)
    /\ UNCHANGED <<phase, load, tools, services, records, loader, running, live, closing>>

ServiceStarted(r) ==
    /\ Alive /\ request[r].stage = "starting"
    /\ \E ok \in Outcomes :
         IF ok THEN /\ live' = live \cup ToSet(request[r].service)
                    /\ running' = running \o request[r].service
         ELSE UNCHANGED <<live, running>>
    /\ Answer(r)
    /\ UNCHANGED <<phase, load, tools, services, records, loader, closing, disturbed>>

\* Stops beside each other are not safe: whoever ends takes out of the list
\* what is now at the place where it found its service.
StopService(r, p) ==
    /\ CanAsk(r)
    /\ \/ p \notin Ids(running) /\ Answer(r) /\ UNCHANGED disturbed
       \/ \E at \in DOMAIN running :
            /\ running[at].id = p /\ p \notin Ids(SubSeq(running, 1, at - 1))
            /\ request' = [request EXCEPT ![r] =
                             [stage |-> "stopping", service |-> <<running[at]>>, at |-> at]]
            /\ disturbed' = IF Loading \/ Closing \/ Asked("stopping") # {}
                            THEN Plugin ELSE disturbed
    /\ UNCHANGED <<phase, load, tools, services, records, loader, running, live, closing>>

ServiceStopped(r) ==
    /\ Alive /\ request[r].stage = "stopping"
    /\ \E ok \in Outcomes :
         IF ok THEN /\ live' = live \ ToSet(request[r].service)
                    /\ running' = IF request[r].at <= Len(running)
                                  THEN RemoveAt(running, request[r].at) ELSE running
         ELSE UNCHANGED <<live, running>>
    /\ Answer(r)
    /\ UNCHANGED <<phase, load, tools, services, records, loader, closing, disturbed>>

-----------------------------------------------------------------------------
(* stopServices, for a reload and for the end                               *)

\* What is asked for or loaded meanwhile comes and goes as it may.
Disturbs ==
    IF Loading \/ Closing \/ Asked("stopping") # {} THEN Plugin
    ELSE disturbed \cup AskedIds("starting")

\* SIGHUP; a reload that goes on is left to itself.
ReloadPlugins ==
    /\ phase = "up" /\ load < MaxReloads
    /\ ~Loading
    /\ loader' = [IdleLoader EXCEPT !.stage = "stopping", !.todo = Reverse(running)]
    /\ disturbed' = Disturbs
    /\ UNCHANGED <<phase, load, tools, services, records, running, live, request, closing>>

\* The stop of a service ends, or fails and is passed over.
StopsFirst(todo) ==
    \E ok \in Outcomes :
       IF ok THEN live' = live \ {Head(todo)} /\ UNCHANGED disturbed
       ELSE UNCHANGED live /\ disturbed' = disturbed \cup {Head(todo).id}

ReloadStops ==
    /\ Alive /\ loader.stage = "stopping" /\ loader.todo # <<>>
    /\ StopsFirst(loader.todo)
    /\ loader' = [loader EXCEPT !.todo = Tail(@)]
    /\ UNCHANGED <<phase, load, tools, services, records, running, request, closing>>

\* Fault: the tools of the former plugins stay
ForgetButTools ==
    /\ running' = <<>> /\ services' = {} /\ records' = {}
    /\ UNCHANGED tools

\* The lists and registries are emptied, and the plugins loaded anew.
Forget ==
    /\ running' = <<>> /\ services' = {} /\ records' = {}
    /\ tools' = {}

Reset ==
    /\ Alive /\ loader.stage = "stopping" /\ loader.todo = <<>>
    /\ Forget
    /\ load' = load + 1
    /\ loader' = [IdleLoader EXCEPT !.stage = "importing"]
    /\ UNCHANGED <<phase, live, request, closing, disturbed>>

Shutdown(c) ==
    /\ phase = "up" /\ ~closing[c].begun
    /\ closing' = [closing EXCEPT ![c] = [begun |-> TRUE, todo |-> Reverse(running)]]
    /\ disturbed' = IF Closing THEN disturbed ELSE Disturbs
    /\ UNCHANGED <<phase, load, tools, services, records, loader, running, live, request>>

ShutdownStops(c) ==
    /\ Alive /\ closing[c].begun /\ closing[c].todo # <<>>
    /\ StopsFirst(closing[c].todo)
    /\ closing' = [closing EXCEPT ![c].todo = Tail(@)]
    /\ UNCHANGED <<phase, load, tools, services, records, loader, running, request>>

Exit(c) ==
    /\ Alive /\ closing[c].begun /\ closing[c].todo = <<>>
    /\ running' = <<>>
    /\ phase' = "exited"
    /\ UNCHANGED <<load, tools, services, records, loader, live, request, closing, disturbed>>

Next ==
    \/ Import \/ Activate \/ Loaded \/ StartNext \/ Started \/ AllStarted
    \/ \E r \in Request : \/ \E p \in Plugin : StartService(r, p) \/ StopService(r, p)
                          \/ ServiceStarted(r) \/ ServiceStopped(r)
    \/ ReloadPlugins \/ ReloadStops \/ Reset
    \/ \E c \in Causes : Shutdown(c) \/ ShutdownStops(c) \/ Exit(c)

Spec == Init /\ [][Next]_runtimeVars

-----------------------------------------------------------------------------
(* Properties                                                               *)

\* Nothing is being done about the service of p
Settled(p) ==
    /\ ~Loading /\ ~Closing
    /\ p \notin AskedIds("starting") \cup AskedIds("stopping")

\* A service runs if and only if it is listed, and once, and is that of the last
\* load, unless tasks overlapped: an answer that was not waited for and
\* another request, a reload, or the end.
ListedAreRunning ==
    phase = "up" => \A p \in Plugin \ disturbed : Settled(p) =>
       /\ {s \in live : s.id = p} = {s \in ToSet(running) : s.id = p}
       /\ {s \in live : s.id = p} \subseteq {Of(p)}
       /\ \A i, j \in DOMAIN running : running[i].id = p /\ running[j].id = p => i = j

\* When plugins have been loaded, what can be called is what they registered
\* then, and nothing of a plugin that was loaded before.
ToolsAreCurrent ==
    ~Loading => /\ tools = {Of(p) : p \in services}
                /\ records \subseteq services

\* The process leaves no service running when it ends, with the same reservation.
EndsClean == phase = "exited" => {s.id : s \in live} \subseteq disturbed

PluginsAgree == ListedAreRunning /\ ToolsAreCurrent /\ EndsClean
================================================================================
