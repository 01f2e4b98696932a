------------------------------- MODULE EventLog --------------------------------
(***************************************************************************)
(* The event log of the turns (core/dag_runtime.cpp): runs, their nodes    *)
(* and the edges between them in a database, with a retention limit.  Each *)
(* statement takes db_mu_ by itself, so that the turns interleave between  *)
(* any two.  A turn is one of the agent, or an evolution run attached to   *)
(* the log (core/evolve_runtime.cpp: AttachRun, DetachRun and the events   *)
(* of the sidecar), whose state is shared through a map.                   *)
(*                                                                         *)
(* Statements do not fail here.  Ids grow with time.                       *)
(***************************************************************************)
EXTENDS Naturals, FiniteSets

CONSTANTS Writer,          \* threads that write one turn each
          Session,
          Retain,          \* kRetainRuns
          Interval,        \* kPruneInterval
          MaxNodes,        \* bound: nodes of one run
          MaxRuns,         \* bound: runs begun
          MaxLives         \* bound: starts of the gateway

EventLogAssumption ==
    /\ {Retain, MaxNodes, MaxRuns} \subseteq Nat
    /\ {Interval, MaxLives} \subseteq Nat \ {0}
    /\ IsFiniteSet(Writer)

VARIABLES runs,            \* dag_runs: session and status, by id
          nodes,           \* dag_nodes: <<run, number>>
          edges,           \* dag_edges: <<run, from, to>>
          latest,          \* latest_run_by_session_
          sincePrune,      \* runs_since_prune_
          nextRun,         \* the next id
          lives,           \* how often the gateway was started
          writer,          \* the DagTurnState of each turn and what comes next
          attached,        \* run_turn_states_: the turn an evolution run is written by
          abandoned        \* history: runs left by an exception

logVars == <<runs, nodes, edges, latest, sincePrune, nextRun, lives, writer,
             attached, abandoned>>

Run == 1..MaxRuns

Stages == {"begun", "starting", "open", "linking", "attaching", "ending",
           "counting", "pruning", "done"}

NewTurn == [stage |-> "done", run |-> 0, session |-> "none", last |-> 0, made |-> 0,
            evolve |-> FALSE, status |-> "none"]

\* "ended" stands for every status a turn ends itself with
Ends == {"ended", "stopped"}

TypeOK ==
    /\ DOMAIN runs \subseteq Run
    /\ \A r \in DOMAIN runs :
         runs[r] \in [session : Session, status : {"running"} \cup Ends, life : 1..MaxLives]
    /\ nodes \subseteq Run \X (1..MaxNodes)
    /\ edges \subseteq Run \X (1..MaxNodes) \X (1..MaxNodes)
    /\ latest \in [Session -> Run \cup {0}]
    /\ sincePrune \in 0..Interval
    /\ lives \in 1..MaxLives
    /\ writer \in [Writer ->
         [stage : Stages, run : Run \cup {0}, session : Session \cup {"none"},
          last : 0..MaxNodes, made : 0..MaxNodes,
          evolve : BOOLEAN, status : {"none"} \cup Ends]]
    /\ attached \subseteq Writer
    /\ abandoned \subseteq Run

Init ==
    /\ runs = <<>>
    /\ nodes = {} /\ edges = {}
    /\ latest = [s \in Session |-> 0]
    /\ sincePrune = 0
    /\ nextRun = 1
    /\ lives = 1
    /\ writer = [w \in Writer |-> NewTurn]
    /\ attached = {}
    /\ abandoned = {}

At(w, stage) == writer[w].stage = stage

\* What w's turn changes to
Becomes(w, s)      == writer' = [writer EXCEPT ![w] = s]
Progress(w, stage) == Becomes(w, [writer[w] EXCEPT !.stage = stage])

-----------------------------------------------------------------------------
(* BeginTurn                                                                *)

\* insert_run; AttachRun has looked into the map before
InsertRun(w) ==
    /\ nextRun <= MaxRuns
    /\ At(w, "done")
    /\ \E s \in Session, evolve \in BOOLEAN :
         /\ evolve => attached = {}
         /\ runs' = [r \in DOMAIN runs \cup {nextRun} |->
                       IF r = nextRun
                       THEN [session |-> s, status |-> "running", life |-> lives]
                       ELSE runs[r]]
         /\ Becomes(w, [stage |-> "begun", run |-> nextRun, session |-> s, last |-> 0,
                        made |-> 0, evolve |-> evolve, status |-> "none"])
    /\ nextRun' = nextRun + 1
    /\ UNCHANGED <<nodes, edges, latest, sincePrune, lives, attached, abandoned>>

NoteLatest(w) ==
    /\ At(w, "begun")
    /\ Progress(w, "starting")
    /\ latest' = [latest EXCEPT ![writer[w].session] = writer[w].run]
    /\ UNCHANGED <<runs, nodes, edges, sincePrune, nextRun, lives, attached, abandoned>>

\* Fault: the duplicate is only turned away
AttachOrReturn(w) ==
    /\ At(w, "attaching")
    /\ attached' = IF attached = {} THEN {w} ELSE attached
    /\ Progress(w, IF attached = {} THEN "open" ELSE "done")
    /\ UNCHANGED <<runs, nodes, edges, latest, sincePrune, nextRun, lives, abandoned>>

\* AttachRun: entered into the map, or stopped as a duplicate
Attach(w) ==
    /\ At(w, "attaching")
    /\ IF attached = {}
       THEN /\ attached' = {w}
            /\ Progress(w, "open")
       ELSE /\ Becomes(w, [writer[w] EXCEPT !.stage = "ending", !.status = "stopped"])
            /\ UNCHANGED attached
    /\ UNCHANGED <<runs, nodes, edges, latest, sincePrune, nextRun, lives, abandoned>>

-----------------------------------------------------------------------------
(* EmitNode                                                                 *)

\* The first node is BeginTurn's
InsertNode(w) ==
    /\ writer[w].made < MaxNodes
    /\ At(w, "starting") \/ At(w, "open")
    /\ LET n     == writer[w].made + 1
           after == IF writer[w].evolve THEN "attaching" ELSE "open"
       IN  /\ nodes' = nodes \cup {<<writer[w].run, n>>}
           /\ Becomes(w, IF n = 1
                         THEN [writer[w] EXCEPT !.stage = after, !.made = n, !.last = n]
                         ELSE [writer[w] EXCEPT !.stage = "linking", !.made = n])
    /\ UNCHANGED <<runs, edges, latest, sincePrune, nextRun, lives, attached, abandoned>>

InsertEdge(w) ==
    /\ At(w, "linking")
    /\ edges' = edges \cup {<<writer[w].run, writer[w].last, writer[w].made>>}
    /\ Becomes(w, [writer[w] EXCEPT !.stage = "open", !.last = writer[w].made])
    /\ UNCHANGED <<runs, nodes, latest, sincePrune, nextRun, lives, attached, abandoned>>

-----------------------------------------------------------------------------
(* EndTurn                                                                  *)

\* The agent's turn ends, or DetachRun takes the run out of the map
Ending(w) ==
    /\ At(w, "open")
    /\ Becomes(w, [writer[w] EXCEPT !.stage = "ending", !.status = "ended"])
    /\ attached' = attached \ {w}
    /\ UNCHANGED <<runs, nodes, edges, latest, sincePrune, nextRun, lives, abandoned>>

\* finalize_run: nothing when the run was pruned
FinalizeRun(w) ==
    /\ At(w, "ending")
    /\ Progress(w, "counting")
    /\ runs' = [r \in DOMAIN runs |->
                  IF r = writer[w].run THEN [runs[r] EXCEPT !.status = writer[w].status]
                  ELSE runs[r]]
    /\ UNCHANGED <<nodes, edges, latest, sincePrune, nextRun, lives, attached, abandoned>>

CountEnd(w) ==
    /\ At(w, "counting")
    /\ LET full == sincePrune + 1 >= Interval IN
       /\ sincePrune' = IF full THEN 0 ELSE sincePrune + 1
       /\ Progress(w, IF full THEN "pruning" ELSE "done")
    /\ UNCHANGED <<runs, nodes, edges, latest, nextRun, lives, attached, abandoned>>

\* prune_old_runs keeps the newest runs of those the log lists
Kept == {r \in DOMAIN runs : Cardinality({q \in DOMAIN runs : q > r}) < Retain}

Pruned ==
    /\ runs' = [r \in Kept |-> runs[r]]
    /\ nodes' = {n \in nodes : n[1] \in Kept}
    /\ edges' = {e \in edges : e[1] \in Kept}

PruneOldRuns(w) ==
    /\ At(w, "pruning")
    /\ Progress(w, "done")
    /\ Pruned
    /\ UNCHANGED <<latest, sincePrune, nextRun, lives, attached, abandoned>>

-----------------------------------------------------------------------------
(* What goes wrong                                                          *)

\* ProcessMessage throws between BeginTurn and the loop that would end the turn
Abandon(w) ==
    /\ At(w, "open") /\ ~writer[w].evolve
    /\ Progress(w, "done")
    /\ abandoned' = abandoned \cup {writer[w].run}
    /\ UNCHANGED <<runs, nodes, edges, latest, sincePrune, nextRun, lives, attached>>

\* The gateway dies; the next one opens the log and prunes it before it serves
Restart ==
    /\ lives < MaxLives
    /\ lives' = lives + 1
    /\ writer' = [w \in Writer |-> NewTurn]
    /\ latest' = [s \in Session |-> 0]
    /\ sincePrune' = 0
    /\ attached' = {}
    /\ Pruned
    /\ UNCHANGED <<nextRun, abandoned>>

Next ==
    \/ \E w \in Writer : \/ InsertRun(w) \/ NoteLatest(w) \/ Attach(w)
                         \/ InsertNode(w) \/ InsertEdge(w)
                         \/ Ending(w) \/ FinalizeRun(w) \/ CountEnd(w) \/ PruneOldRuns(w)
                         \/ Abandon(w)
    \/ Restart

Spec == Init /\ [][Next]_logVars

-----------------------------------------------------------------------------
(* Properties                                                               *)

Chain(r) == {n \in nodes : n[1] = r}
Writes(w, r) == writer[w].run = r /\ ~At(w, "done")

\* The nodes of a listed run are numbered without a gap and linked one to the
\* next; only the last link can be missing, while its writer is about to add
\* it or because the gateway died first.
ListedRunsAreChained ==
    \A r \in DOMAIN runs :
       LET count == Cardinality(Chain(r))
           links == {e \in edges : e[1] = r}
       IN  /\ Chain(r) = {<<r, n>> : n \in 1..count}
           /\ \A n \in 1..count : n + 1 < count => <<r, n, n + 1>> \in links
           /\ links \subseteq {<<r, n, n + 1>> : n \in 1..count}
           /\ (runs[r].life = lives /\ count > 1 /\ <<r, count - 1, count>> \notin links)
                 => \E w \in Writer : writer[w].run = r /\ At(w, "linking")

\* A run the log shows as running has a turn that will end it, but for a run
\* of an earlier gateway or one an exception left before its loop.  A turn
\* attached by an evolution run that lost the race for the map ends too.
RunningHasWriter ==
    \A r \in DOMAIN runs :
       (runs[r].status = "running" /\ runs[r].life = lives /\ r \notin abandoned)
          => \E w \in Writer : Writes(w, r)

\* The log stays bounded: what a prune keeps, what has ended since, what an
\* announced prune has not dropped yet, what is being written, and what was
\* abandoned, which no prune is ever counted for.
RetentionHolds ==
    LET pruning == {w \in Writer : At(w, "pruning")}
        writing == {w \in Writer : ~At(w, "pruning") /\ ~At(w, "done")}
    IN  Cardinality(DOMAIN runs) <=
          Retain + sincePrune + Interval * Cardinality(pruning)
                 + Cardinality(writing) + Cardinality(abandoned)

EventLogAgrees == ListedRunsAreChained /\ RunningHasWriter /\ RetentionHolds
=============================================================================
