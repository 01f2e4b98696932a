------------------------------- MODULE Subagents --------------------------------
(***************************************************************************)
(* The subagent manager of a gateway (core/subagent.cpp) under the runner  *)
(* gateway_commands.cpp installs: Spawn calls it synchronously, it runs a  *)
(* whole turn of the agent, and that turn may spawn again.  The tool       *)
(* passes the same parent ("main") and the depth 0 every time, so that     *)
(* nesting is limited by the number of active children and not by          *)
(* max_depth.                                                              *)
(*                                                                         *)
(* Each thread (a worker of the command queue with its turn) carries the   *)
(* stack of the runs whose runner it is in.                                *)
(***************************************************************************)
EXTENDS Integers, SequencesExt

CONSTANTS Thread,
          MaxRuns,         \* bound: runs ever spawned
          MaxChildren      \* config_.max_children

SubagentsAssumption == MaxRuns \in Nat /\ MaxChildren \in Int /\ IsFiniteSet(Thread)

Run == 1..MaxRuns          \* run ids, in the order of entry and not random

VARIABLES runs,            \* runs_: the state of each run that is listed
          children,        \* parent_children_["main"], whose order nothing reads
          stack,           \* the runs a thread is inside of, innermost last
          admitted,        \* threads between the two critical sections of Spawn
          used             \* run ids handed out

subVars == <<runs, children, stack, admitted, used>>

States == {"running", "completed", "failed", "cancelled"}
Terminal == States \ {"running"}

TypeOK ==
    /\ DOMAIN runs \subseteq used
    /\ \A r \in DOMAIN runs : runs[r] \in States
    /\ children \subseteq used
    /\ stack \in [Thread -> Seq(used)]
    /\ admitted \subseteq Thread
    /\ used \subseteq Run

Init ==
    /\ runs = <<>>
    /\ children = {}
    /\ stack = [th \in Thread |-> <<>>]
    /\ admitted = {}
    /\ used = {}

\* ActiveChildren
Active == {r \in children \cap DOMAIN runs : runs[r] = "running"}

With(f, r, s) == [q \in DOMAIN f \cup {r} |-> IF q = r THEN s ELSE f[q]]

\* Fault: the limit is taken for one that may be reached and passed by one
AdmitOneTooMany(th) ==
    /\ th \notin admitted
    /\ used = {} \/ Cardinality(Active) <= MaxChildren
    /\ admitted' = admitted \cup {th}
    /\ UNCHANGED <<runs, children, stack, used>>

\* Spawn, first critical section: the limit is tested, but only once the parent
\* has an entry in parent_children_, which the first run makes and nothing erases
AdmitSpawn(th) ==
    /\ th \notin admitted
    /\ used = {} \/ Cardinality(Active) < MaxChildren
    /\ admitted' = admitted \cup {th}
    /\ UNCHANGED <<runs, children, stack, used>>

\* Spawn, second critical section: the run is entered, then the runner called
EnterRun(th) ==
    /\ th \in admitted
    /\ \E r \in Run \ used :
         /\ r = Cardinality(used) + 1
         /\ runs' = With(runs, r, "running")
         /\ children' = children \cup {r}
         /\ stack' = [stack EXCEPT ![th] = Append(@, r)]
         /\ used' = used \cup {r}
    /\ admitted' = admitted \ {th}

\* CompleteRun and FailRun: the state is overwritten if the run is still listed
Settle(r, s) == runs' = IF r \in DOMAIN runs THEN With(runs, r, s) ELSE runs

\* The runner returns a result, or nothing, or throws.  The turn of a parent goes
\* on only then.
RunnerReturns(th) ==
    /\ stack[th] # <<>>
    /\ th \notin admitted
    /\ LET r == Last(stack[th]) IN
         \/ Settle(r, "completed")
         \/ Settle(r, "failed")
         \/ UNCHANGED runs
    /\ stack' = [stack EXCEPT ![th] = Front(@)]
    /\ UNCHANGED <<children, admitted, used>>

\* CompleteRun called from outside for a run whose runner returned nothing
CompleteLater(r) ==
    /\ r \in used
    /\ \A th \in Thread : r \notin ToSet(stack[th])
    /\ r \in DOMAIN runs /\ runs[r] = "running"
    /\ Settle(r, "completed")
    /\ UNCHANGED <<children, stack, admitted, used>>

CancelRun(r) ==
    /\ r \in DOMAIN runs
    /\ runs[r] = "running"
    /\ runs' = With(runs, r, "cancelled")
    /\ UNCHANGED <<children, stack, admitted, used>>

\* CleanupCompleted (every run here was spawned with cleanup)
CleanupCompleted ==
    LET gone == {r \in DOMAIN runs : runs[r] \in Terminal} IN
    /\ runs' = [r \in DOMAIN runs \ gone |-> runs[r]]
    /\ children' = children \ gone
    /\ UNCHANGED <<stack, admitted, used>>

Next ==
    \/ \E th \in Thread : AdmitSpawn(th) \/ EnterRun(th) \/ RunnerReturns(th)
    \/ \E r \in Run : CancelRun(r) \/ CompleteLater(r)
    \/ CleanupCompleted

Spec == Init /\ [][Next]_subVars

-----------------------------------------------------------------------------
(* Properties                                                               *)

\* The limit is tested and the run entered under separate locks: threads that
\* passed the test together may exceed it, but by one less than their number.  A
\* limit of 0 or below still admits the first runs, which are not tested.
Ceiling == (IF MaxChildren > 0 THEN MaxChildren ELSE 1) + Cardinality(Thread) - 1

ActiveBound == Cardinality(Active) + Cardinality(admitted) <= Ceiling

\* A run whose thread is still inside its runner counts against the limit until
\* it is settled or cancelled: nesting is bounded although the depth passed to
\* Spawn never grows.
NestingBound ==
    \A th \in Thread :
      Cardinality({r \in ToSet(stack[th]) :
                     r \in DOMAIN runs /\ runs[r] = "running"}) <= Ceiling

\* The limit on children, whoever spawns them.
SubagentsBounded == ActiveBound /\ NestingBound

\* A settled run is never settled again, with one exception: the runner of a
\* cancelled run returns.  Cleaning up takes settled runs only, and no run is
\* listed again after it.
SettledStays ==
    [][/\ \A r \in DOMAIN runs :
            IF r \in DOMAIN runs'
            THEN \/ runs'[r] = runs[r]
                 \/ runs[r] = "running"
                 \/ /\ runs[r] = "cancelled"
                    /\ \E th \in Thread : stack[th] # <<>> /\ Last(stack[th]) = r
            ELSE runs[r] \in Terminal
       /\ \A r \in DOMAIN runs' \ DOMAIN runs : r \notin used]_subVars
=============================================================================
