----------------------------- MODULE CommandQueue -----------------------------
(***************************************************************************)
(* The gateway's command queue (src/gateway/command_queue.cpp): a          *)
(* dispatcher thread takes commands from one lane per session and hands    *)
(* each to a worker thread, which runs the agent.  Every critical section  *)
(* of mu_ is one action; what a thread does between two of them is an      *)
(* action of its own.                                                      *)
(*                                                                         *)
(* Command ids are numbered in the order Submit took the lock.  The text   *)
(* of a command is the set of submissions whose words it carries.          *)
(***************************************************************************)
EXTENDS SessionLane, FiniteSets

CONSTANTS
    Sessions,      \* session keys
    MaxCommands,   \* bound on the number of Submit calls
    Modes,         \* the modes callers pass to Submit
    LaneSettings,  \* the settings queue.configure gives a lane
    Configs,       \* the configurations queue.configure gives the queue
    Abortable      \* the sessions queue.abort is called for

QueueSettings == [mode : QueueModes, cap : Int, drop : DropPolicies]
QueueConfigs  == [max_concurrent : Int, mode : QueueModes, cap : Int, drop : DropPolicies]

ASSUME QueueAssumption ==
    /\ IsFiniteSet(Sessions)
    /\ MaxCommands \in Nat
    /\ Modes \subseteq QueueModes
    /\ LaneSettings \subseteq QueueSettings
    /\ Configs \subseteq QueueConfigs
    /\ Abortable \subseteq Sessions

Commands  == 1..MaxCommands
None      == 0
\* The settings of a session that has no lane in lanes_.
Absent    == [mode |-> "none", cap |-> 0, drop |-> "none"]
NoSession == "none"      \* home of a command not yet submitted

VARIABLES
    config,        \* config_
    settings,      \* the mode, cap and drop policy of each lane of lanes_
    pending,       \* pending_ of each lane
    active,        \* active_command_ of each lane
    ripe,          \* fronts of lanes that have waited out the debounce time
    known,         \* the keys of command_to_session_
    active_count,  \* active_count_
    dispatcher,    \* where the dispatcher thread is
    life           \* where Start/Stop are

VARIABLES          \* the commands themselves
    submitted,     \* number of Submit calls
    home,          \* session of each command
    mode,          \* effective mode of each command
    text,          \* submissions carried by the command's message
    collected,     \* submissions carried by params.collectedMessages
    stage          \* what has become of the command

VARIABLES          \* history
    heard,         \* submissions the executor has put before the agent
    interrupts     \* per session, how often a running command lost its lane

queueVars   == <<config, settings, pending, active, ripe, known>>
poolVars    == <<active_count, dispatcher, life>>
commandVars == <<submitted, home, mode, text, collected>>
historyVars == <<heard, interrupts>>
vars == <<queueVars, poolVars, commandVars, stage, historyVars>>

Waiting  == {"pending"}
Occupied == {"activated", "spawned", "running", "answered"}
Lost     == {"cancelled", "overflowed", "collected", "discarded", "interrupted"}
Stages   == {"new", "released", "finished"} \cup Waiting \cup Occupied \cup Lost

Fresh(c)      == c = submitted + 1 /\ submitted < MaxCommands
InStage(S)    == {c \in Commands : stage[c] \in S}
Running(s)    == {c \in InStage(Occupied) : home[c] = s}
Texts(S)      == UNION {text[c] : c \in S}
HasLane(s)    == settings[s] # Absent
Fronts(p)     == {Head(p[s]) : s \in {r \in Sessions : p[r] # <<>>}}

\* Fault: the settings are looked up and no lane is created.
LookUpLane(s) == settings[s]

\* get_lane: the lane's settings, the queue's defaults for a lane it creates.
GetLane(s) ==
    IF HasLane(s) THEN settings[s]
    ELSE [mode |-> config.mode, cap |-> config.cap, drop |-> config.drop]

Stamp(S, what) == [c \in Commands |-> IF c \in S THEN what ELSE stage[c]]

Init ==
    /\ config \in Configs
    /\ settings = [s \in Sessions |-> Absent]
    /\ pending = [s \in Sessions |-> <<>>]
    /\ active = [s \in Sessions |-> None]
    /\ ripe = {}
    /\ known = {}
    /\ active_count = 0
    /\ dispatcher = "exited"
    /\ life = "stopped"
    /\ submitted = 0
    /\ home = [c \in Commands |-> NoSession]
    /\ mode = [c \in Commands |-> "collect"]
    /\ text = [c \in Commands |-> {c}]
    /\ collected = [c \in Commands |-> {}]
    /\ stage = [c \in Commands |-> "new"]
    /\ heard = {}
    /\ interrupts = [s \in Sessions |-> 0]
-------------------------------------------------------------------------------

(***************************************************************************)
(* Callers.  Submit, Cancel, AbortSession, ConfigureSession and SetConfig  *)
(* hold mu_ from their first statement that reads shared state to their    *)
(* last that writes it.                                                    *)
(***************************************************************************)

\* Fault: the words of the commands that stay are merged too.
MergedTooFar(left, over) == [text EXCEPT ![Head(left)] = @ \cup Texts(over \cup ToSet(left))]

\* "summarize" moves the words of the commands it drops into the oldest one.
Merged(left, over) == [text EXCEPT ![Head(left)] = @ \cup Texts(over)]

\* What every Submit of command c to session s does: `kept` is what an
\* interrupt leaves of the lane, `left` what the lane holds at the end.
Arrive(s, c, m, kept, left) ==
    LET over   == (ToSet(kept) \cup {c}) \ ToSet(left)
        popped == ToSet(pending[s]) \ ToSet(kept)
        lane   == GetLane(s)
    IN  /\ submitted' = c
        /\ home' = [home EXCEPT ![c] = s]
        /\ mode' = [mode EXCEPT ![c] = m]
        /\ settings' = [settings EXCEPT ![s] = lane]
        /\ pending' = [pending EXCEPT ![s] = left]
        /\ ripe' = ripe \cap Fronts(pending')
        /\ known' = (known \cup {c}) \ over
        /\ text' = IF over # {} /\ lane.drop = "summarize" THEN Merged(left, over)
                   ELSE text
        /\ stage' = [d \in Commands |-> IF d \in over THEN "overflowed"
                                        ELSE IF d \in popped THEN "interrupted"
                                        ELSE IF d = c THEN "pending" ELSE stage[d]]
        /\ UNCHANGED <<config, poolVars, collected, heard>>

\* A command that names no mode of its own ("collect") takes the lane's.
EffectiveMode(s, m) == IF m = "collect" THEN GetLane(s).mode ELSE m

Steers(m)     == m \in {"steer", "steer-backlog"}
Interrupts(m) == m = "interrupt"

\* Fault: a steering command goes to the front of the lane.
SteeringJumpsQueue(s, c, m) ==
    /\ Fresh(c)
    /\ Steers(EffectiveMode(s, m)) /\ active[s] # None
    /\ Arrive(s, c, EffectiveMode(s, m), pending[s], <<c>> \o pending[s])
    /\ UNCHANGED <<active, interrupts>>

\* Submit's early returns: a steering command joins a busy lane without the
\* cap being looked at.
SubmitSteering(s, c, m) ==
    /\ Fresh(c)
    /\ Steers(EffectiveMode(s, m)) /\ active[s] # None
    /\ Arrive(s, c, EffectiveMode(s, m), pending[s], Append(pending[s], c))
    /\ UNCHANGED <<active, interrupts>>

\* Submit's other paths.  An interrupting command clears a busy lane before
\* it is itself enqueued.
SubmitQueued(s, c, m) ==
    LET md   == EffectiveMode(s, m)
        hit  == Interrupts(md) /\ active[s] # None
        kept == IF hit THEN KeptByInterrupt(pending[s]) ELSE pending[s]
        lane == GetLane(s)
    IN  /\ Fresh(c)
        /\ ~(Steers(md) /\ active[s] # None)
        /\ Arrive(s, c, md, kept, Trimmed(Append(kept, c), lane.cap, lane.drop))
        /\ active' = IF hit THEN [active EXCEPT ![s] = None] ELSE active
        /\ interrupts' = IF hit THEN [interrupts EXCEPT ![s] = @ + 1] ELSE interrupts

\* Fault: the id stays in command_to_session_.
CancelKeepsId(c) ==
    LET s == home[c] IN
    /\ c \in known
    /\ \E i \in DOMAIN pending[s] :
            /\ pending[s][i] = c
            /\ pending' = [pending EXCEPT ![s] = RemoveAt(pending[s], i)]
            /\ stage' = [stage EXCEPT ![c] = "cancelled"]
    /\ ripe' = ripe \cap Fronts(pending')
    /\ UNCHANGED <<config, settings, active, known, poolVars, commandVars, historyVars>>

\* Cancel finds the session of an id, then the id in that session's lane.
Cancel(c) ==
    LET s == home[c] IN
    /\ c \in known
    /\ known' = known \ {c}
    /\ settings' = [settings EXCEPT ![s] = GetLane(s)]
    /\ \/ \E i \in DOMAIN pending[s] :
            /\ pending[s][i] = c
            /\ pending' = [pending EXCEPT ![s] = RemoveAt(pending[s], i)]
            /\ stage' = [stage EXCEPT ![c] = "cancelled"]
       \/ c \notin ToSet(pending[s]) /\ UNCHANGED <<pending, stage>>
    /\ ripe' = ripe \cap Fronts(pending')
    /\ UNCHANGED <<config, active, poolVars, commandVars, historyVars>>

\* AbortSession trims the lane also when nothing is active in it.
AbortSession(s) ==
    LET kept == KeptByInterrupt(pending[s]) IN
    /\ HasLane(s)
    /\ pending' = [pending EXCEPT ![s] = kept]
    /\ active' = [active EXCEPT ![s] = None]
    /\ ripe' = ripe \cap Fronts(pending')
    /\ known' = known \ {active[s]}
    /\ stage' = Stamp(ToSet(pending[s]) \ ToSet(kept), "interrupted")
    /\ interrupts' = IF active[s] = None THEN interrupts
                     ELSE [interrupts EXCEPT ![s] = @ + 1]
    /\ UNCHANGED <<config, settings, poolVars, commandVars, heard>>

\* The debounce time is part of the settings: a longer one may send a front
\* that was due back to waiting.
ConfigureSession(s, lane) ==
    /\ settings' = [settings EXCEPT ![s] = lane]
    /\ \/ UNCHANGED ripe
       \/ ripe' = ripe \ ToSet(pending[s])
    /\ UNCHANGED <<config, pending, active, known, poolVars, commandVars, stage,
                   historyVars>>

SetConfig(cfg) ==
    /\ config' = cfg
    /\ UNCHANGED <<settings, pending, active, ripe, known, poolVars, commandVars,
                   stage, historyVars>>

\* Time passes: the front of a lane has waited for debounce_ms_.
Ripen(s) ==
    /\ pending[s] # <<>>
    /\ Head(pending[s]) \notin ripe
    /\ ripe' = ripe \cup {Head(pending[s])}
    /\ UNCHANGED <<config, settings, pending, active, known, poolVars, commandVars,
                   stage, historyVars>>
-------------------------------------------------------------------------------
(***************************************************************************)
(* The dispatcher thread.  dispatcher_loop makes its whole pass over the   *)
(* lanes under one acquisition of mu_, then starts the workers, taking mu_ *)
(* again for each.                                                         *)
(***************************************************************************)

Oldest(s) == Head(pending[s])
\* Fault: a lane counts as idle while commands wait in it.
IsInactive(queue, current) == current = None

IsIdle(queue, current)     == queue = <<>> /\ current = None

\* Fault: a lane is taken from while a command is active in it.
EligibleWhenActive == {s \in Sessions : pending[s] # <<>> /\ Oldest(s) \in ripe}

\* Lanes TryActivate would take a command from.
Eligible == {s \in Sessions : /\ active[s] = None
                              /\ pending[s] # <<>>
                              /\ Oldest(s) \in ripe}

\* The lanes are visited in the order of a hash table until max_concurrent
\* commands are active.
Chosen(S) ==
    /\ S \subseteq Eligible
    /\ S = {} \/ active_count + Cardinality(S) <= config.max_concurrent
    /\ S = Eligible \/ active_count + Cardinality(S) >= config.max_concurrent

\* What activation does with the commands behind the one it takes.
Drains(c, rest) == \/ mode[c] = "collect"
                   \/ mode[c] = "followup" /\ Len(rest) > 1

DispatchPass(S) ==
    LET behind(s) == ToSet(Tail(pending[s]))
        drained   == {s \in S : Drains(Oldest(s), Tail(pending[s]))}
        batched   == {s \in drained : mode[Oldest(s)] = "collect"}
    IN  /\ life = "started" /\ dispatcher = "waiting"
        /\ Chosen(S)
        /\ pending' = [s \in Sessions |-> IF s \in drained THEN <<>>
                                          ELSE IF s \in S THEN Tail(pending[s])
                                          ELSE pending[s]]
        /\ active' = [s \in Sessions |-> IF s \in S THEN Oldest(s) ELSE active[s]]
        /\ collected' = [c \in Commands |-> collected[c] \cup
                UNION {Texts(behind(s)) : s \in {r \in batched : Oldest(r) = c}}]
        /\ stage' = [c \in Commands |->
                IF \E s \in S : c = Oldest(s) THEN "activated"
                ELSE IF \E s \in batched : c \in behind(s) THEN "collected"
                ELSE IF \E s \in drained : c \in behind(s) THEN "discarded"
                ELSE stage[c]]
        /\ ripe' = ripe \cap Fronts(pending')
        /\ known' = known \ {Oldest(s) : s \in S}
        /\ active_count' = active_count + Cardinality(S)
        /\ settings' = [s \in Sessions |->          \* idle lanes are erased
                IF IsIdle(pending'[s], active'[s]) THEN Absent ELSE settings[s]]
        /\ dispatcher' = IF S = {} THEN "waiting" ELSE "spawning"
        /\ UNCHANGED <<config, life, submitted, home, mode, text, historyVars>>

\* workers_.emplace_back.  Finished workers stay in the vector until Stop: a
\* thread that has ended is still joinable.
SpawnWorker(c) ==
    /\ dispatcher = "spawning"
    /\ stage[c] = "activated"
    /\ stage' = [stage EXCEPT ![c] = "spawned"]
    /\ dispatcher' = IF InStage({"activated"}) = {c} THEN "waiting" ELSE "spawning"
    /\ UNCHANGED <<queueVars, active_count, life, commandVars, historyVars>>

\* Fault: the dispatcher leaves its loop only with nothing pending.
DispatcherExitWhenDrained ==
    /\ life = "stopping" /\ dispatcher = "waiting"
    /\ \A s \in Sessions : pending[s] = <<>>
    /\ dispatcher' = "exited"
    /\ UNCHANGED <<queueVars, active_count, life, commandVars, stage, historyVars>>

DispatcherExit ==
    /\ life = "stopping" /\ dispatcher = "waiting"
    /\ dispatcher' = "exited"
    /\ UNCHANGED <<queueVars, active_count, life, commandVars, stage, historyVars>>
-------------------------------------------------------------------------------
(***************************************************************************)
(* A worker thread: execute_command.                                       *)
(***************************************************************************)

Step(c, from, to) == stage[c] = from /\ stage' = [stage EXCEPT ![c] = to]

\* queue.started goes out and the executor appends cmd.message to the session.
StartRun(c) ==
    /\ Step(c, "spawned", "running")
    /\ heard' = heard \cup text[c]
    /\ UNCHANGED <<queueVars, poolVars, commandVars, interrupts>>

\* The executor returns or throws, and the RPC request is answered.
FinishRun(c) ==
    /\ Step(c, "running", "answered")
    /\ UNCHANGED <<queueVars, poolVars, commandVars, historyVars>>

\* Fault: a command that lost its lane does not give up its slot.
ReleaseOwnLane(c) ==
    /\ Step(c, "answered", "released")
    /\ IF active[home[c]] = c
       THEN active' = [active EXCEPT ![home[c]] = None] /\ active_count' = active_count - 1
       ELSE UNCHANGED <<active, active_count>>
    /\ UNCHANGED <<config, settings, pending, ripe, known, dispatcher, life,
                   commandVars, historyVars>>

\* Fault: the slot is given up and the lane is not.
ReleaseSlotOnly(c) ==
    /\ Step(c, "answered", "released")
    /\ active_count' = active_count - 1
    /\ UNCHANGED <<config, settings, pending, active, ripe, known, dispatcher,
                   life, commandVars, historyVars>>

\* CompleteActive empties the lane of the session, whichever command is in it.
Release(c) ==
    /\ Step(c, "answered", "released")
    /\ active' = IF HasLane(home[c]) THEN [active EXCEPT ![home[c]] = None] ELSE active
    /\ active_count' = active_count - 1
    /\ UNCHANGED <<config, settings, pending, ripe, known, dispatcher, life,
                   commandVars, historyVars>>

\* queue.completed goes out and the thread function returns.
EndWorker(c) ==
    /\ Step(c, "released", "finished")
    /\ UNCHANGED <<queueVars, poolVars, commandVars, historyVars>>
-------------------------------------------------------------------------------
(***************************************************************************)
(* Start and Stop, called by the thread that owns the queue.               *)
(***************************************************************************)

Start ==
    /\ life = "stopped"
    /\ life' = "started" /\ dispatcher' = "waiting"
    /\ UNCHANGED <<queueVars, active_count, commandVars, stage, historyVars>>

Stop ==
    /\ life = "started"
    /\ life' = "stopping"
    /\ UNCHANGED <<queueVars, active_count, dispatcher, commandVars, stage,
                   historyVars>>

\* Fault: the workers are taken before the dispatcher is joined.
TakeWorkersAtOnce ==
    /\ life = "stopping"
    /\ life' = "joining"
    /\ UNCHANGED <<queueVars, active_count, dispatcher, commandVars, stage, historyVars>>

\* dispatcher_.join() returns and workers_ is swapped out.
TakeWorkers ==
    /\ life = "stopping" /\ dispatcher = "exited"
    /\ life' = "joining"
    /\ UNCHANGED <<queueVars, active_count, dispatcher, commandVars, stage, historyVars>>

\* The last join returns.
StopReturns ==
    /\ life = "joining"
    /\ InStage({"spawned", "running", "answered", "released"}) = {}
    /\ life' = "stopped"
    /\ UNCHANGED <<queueVars, active_count, dispatcher, commandVars, stage,
                   historyVars>>
-------------------------------------------------------------------------------
Caller ==
    \/ \E s \in Sessions, c \in Commands, m \in Modes :
            SubmitSteering(s, c, m) \/ SubmitQueued(s, c, m)
    \/ \E c \in Commands : Cancel(c)
    \/ \E s \in Abortable : AbortSession(s)
    \/ \E s \in Sessions, lane \in LaneSettings : ConfigureSession(s, lane)
    \/ \E cfg \in Configs : SetConfig(cfg)

Dispatcher ==
    \/ \E S \in SUBSET Sessions : DispatchPass(S)
    \/ \E c \in Commands : SpawnWorker(c)
    \/ DispatcherExit

Worker(c) == StartRun(c) \/ FinishRun(c) \/ Release(c) \/ EndWorker(c)

Owner == Start \/ Stop \/ TakeWorkers \/ StopReturns

Next ==
    \/ Caller
    \/ Dispatcher
    \/ \E c \in Commands : Worker(c)
    \/ \E s \in Sessions : Ripen(s)
    \/ Owner

Spec == Init /\ [][Next]_vars

\* Threads that can run do run, an executor returns, and time passes.  Callers
\* and the owner of the queue may do nothing for ever.
Fairness ==
    /\ WF_vars(\E S \in SUBSET Sessions : DispatchPass(S))
    /\ WF_vars(\E c \in Commands : SpawnWorker(c))
    /\ WF_vars(DispatcherExit)
    /\ \A c \in Commands : WF_vars(Worker(c))
    /\ \A s \in Sessions : WF_vars(Ripen(s))
    /\ WF_vars(TakeWorkers) /\ WF_vars(StopReturns)

FairSpec == Spec /\ Fairness
-------------------------------------------------------------------------------
\* Every variable holds a value of its type.
TypeOK ==
    /\ config \in Configs
    /\ settings \in [Sessions -> QueueSettings \cup {Absent}]
    /\ pending \in [Sessions -> Seq(Commands)]
    /\ active \in [Sessions -> Commands \cup {None}]
    /\ ripe \subseteq Commands
    /\ known \subseteq Commands
    /\ active_count \in Int
    /\ dispatcher \in {"waiting", "spawning", "exited"}
    /\ life \in {"stopped", "started", "stopping", "joining"}
    /\ submitted \in 0..MaxCommands
    /\ home \in [Commands -> Sessions \cup {NoSession}]
    /\ mode \in [Commands -> QueueModes]
    /\ text \in [Commands -> SUBSET Commands]
    /\ collected \in [Commands -> SUBSET Commands]
    /\ stage \in [Commands -> Stages]
    /\ heard \subseteq Commands
    /\ interrupts \in [Sessions -> Nat]

\* The lanes and the commands agree: a lane holds its own pending commands,
\* each once, in the order they were submitted, and no pending command is in
\* no lane (the deque against the state of its entries).
LanesHoldPending ==
    /\ \A s \in Sessions : Ordered(pending[s])
    /\ \A s \in Sessions, c \in Commands :
            c \in ToSet(pending[s]) <=> stage[c] = "pending" /\ home[c] = s
    /\ \A c \in InStage(Waiting) : home[c] \in Sessions

\* The idle-lane clean-up of the dispatcher never erases a lane with work.
WorkKeepsLane ==
    \A s \in Sessions : pending[s] # <<>> \/ active[s] # None => HasLane(s)

\* A lane is never blocked by a command nobody runs: the active command is one
\* whose worker has yet to release the lane.
ActiveHasWorker ==
    \A s \in Sessions : active[s] # None => active[s] \in Running(s)

\* active_count_ counts the commands between activation and release, however
\* often their lanes were interrupted, re-used or erased meanwhile.
CountIsExact == active_count = Cardinality(InStage(Occupied))

\* A session runs one command more than it was interrupted, never more: a
\* worker that outlives an interrupt frees the lane of its successor, but that
\* does not multiply.  With no interrupt this is per-session serialization.
OverlapBound ==
    \A s \in Sessions :
        Cardinality(Running(s)) <= (IF active[s] = None THEN 0 ELSE 1) + interrupts[s]

\* Whatever is pending can be cancelled by its id; a running or finished,
\* cancelled or overflowed command is never in the id map.
KnownIds ==
    /\ InStage(Waiting) \subseteq known
    /\ known \subseteq InStage(Waiting \cup {"collected", "discarded", "interrupted"})

\* The lanes, the states of the commands and the id map tell the same story.
LanesAgree == LanesHoldPending /\ KnownIds

\* Work is never stranded: it has a lane, and a lane that is taken a worker.
LanesAreServed == WorkKeepsLane /\ ActiveHasWorker

\* Merging by "summarize" keeps every submission in one message only: no two
\* commands that run or may run carry the same words.
TextsDisjoint ==
    \A c, d \in InStage(Waiting \cup Occupied \cup {"released", "finished"}) :
        c # d => text[c] \cap text[d] = {}

\* When Stop has returned no worker is left that could call the executor or
\* the senders (they hold references to the gateway's objects).
NothingRunsWhenStopped ==
    life = "stopped" => InStage(Occupied \cup {"released"}) = {}

SafetyInvariant ==
    /\ LanesHoldPending /\ WorkKeepsLane /\ ActiveHasWorker /\ CountIsExact
    /\ OverlapBound /\ KnownIds /\ TextsDisjoint /\ NothingRunsWhenStopped

\* A session's commands are activated in the order they were submitted, and no
\* command twice.
OldestFirst ==
    [][\A s \in Sessions : active'[s] \notin {active[s], None} =>
            /\ stage[active'[s]] = "pending"
            /\ \A d \in ToSet(pending[s]) : active'[s] <= d]_vars

\* A submission to a lane that is not being steered leaves at most cap
\* commands in it, whatever the queue held before and whichever policy trims it.
CapEnforced ==
    [][\A s \in Sessions, c \in Commands, m \in Modes :
            SubmitQueued(s, c, m) /\ GetLane(s).cap >= 1
                => Len(pending'[s]) <= GetLane(s).cap]_vars

\* While the queue is up and its limit admits a command, a pending command
\* does not wait for ever (MaxCommands bounds the competing submissions).
PendingLeaves ==
    \A c \in Commands :
        stage[c] = "pending" ~> \/ stage[c] # "pending"
                                \/ life # "started"
                                \/ config.max_concurrent < 1

\* Stop returns, whatever runs or waits in the queue when it is called.
StopTerminates == life = "stopping" ~> life = "stopped"

(***************************************************************************)
(* A queue nobody interrupts is a SerialSessions.                          *)
(***************************************************************************)
Uninterrupted ==
    /\ Abortable = {}
    /\ "interrupt" \notin Modes
    /\ \A lane \in LaneSettings : lane.mode # "interrupt"
    /\ \A cfg \in Configs : cfg.mode # "interrupt"

Serial == INSTANCE SerialSessions WITH
    limit     <- config.max_concurrent,
    used      <- InStage(Stages \ {"new"}),
    waiting   <- [s \in Sessions |-> ToSet(pending[s])],
    executing <- [s \in Sessions |-> Running(s)]

\* A queue that is Uninterrupted serializes each session, activates in order
\* and within the limit, and runs no command twice.
ImplementsSerial == Serial!Spec
-------------------------------------------------------------------------------
(***************************************************************************)
(* What the comments of the source say and the code does not do.           *)
(***************************************************************************)

\* command_queue.cppm:89 "At most one command is active per lane at any time"
\* (and :183 "respecting per-session serialization").
OneRunPerSession == \A s \in Sessions : Cardinality(Running(s)) <= 1

\* command_queue.cppm:23 "Buffer messages; deliver all when current run
\* finishes": the executor never looks at params.collectedMessages.
CollectedAreDelivered ==
    \A c \in InStage({"finished"}) : collected[c] \subseteq heard

=============================================================================
