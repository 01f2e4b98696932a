------------------------------ MODULE AgentParts -------------------------------
(***************************************************************************)
(* Parts of Services: the turns of the agent and the requests they come    *)
(* by, its subagents and the calls of its tools, the log of its runs, the  *)
(* maintenance of its sessions and the rates of its clients, each with     *)
(* constants and variables of its own.                                     *)
(***************************************************************************)
EXTENDS Naturals, Sequences

CONSTANTS Turn, Client, Thread, Call, Session, Writer, Ask

\* Of each part, in the order in which they come below.
CONSTANTS MaxIterations, MaxOverflow, MaxTransient, MaxSettings,
          RateRequests, BurstMax, Window, TicksPerSecond, RateTime,
          MaxRuns, MaxChildren,
          PruneAfter, MaxEntries, RotateSize, MaxDisk, MessageSize, OtherSize,
          MaxGenerations, MaxSweeps, UpkeepMessages, UpkeepTime,
          Retain, Interval, MaxNodes, LogRuns, MaxLives,
          Limit, MaxAnswers, MaxResets

VARIABLES stopRequested, modelRef, maxIterations, settings, turn, asked,
          clock, windows, admitted, asking, advice,
          runs, children, stack, spawns, used,
          registered, external, policy, call, pending, resolved,
          mode, second, files, phase, left, emptying, sweeps, written, excused,
          logged, nodes, edges, latest, sincePrune, nextRun, lives, writer,
          attached, abandoned,
          transcript, ask, past, disturbed, resets

Turns == INSTANCE AgentTurns
Rates == INSTANCE RateLimiter WITH MaxRequests <- RateRequests, MaxTime <- RateTime
Subs == INSTANCE Subagents WITH admitted <- spawns
Tools == INSTANCE ToolCalls
Upkeep == INSTANCE SessionMaintenance
            WITH MaxMessages <- UpkeepMessages, MaxTime <- UpkeepTime, clock <- second
Log == INSTANCE EventLog WITH MaxRuns <- LogRuns, runs <- logged
Asks == INSTANCE WebTurns

ASSUME AgentPartsAssumption ==
       /\ Turns!AgentTurnsAssumption /\ Rates!RateLimiterAssumption
       /\ Subs!SubagentsAssumption /\ Upkeep!MaintenanceAssumption
       /\ Log!EventLogAssumption /\ Asks!WebTurnsAssumption

turnVars == <<stopRequested, modelRef, maxIterations, settings, turn, asked>>
limiterVars == <<clock, windows, admitted, asking, advice>>
subVars == <<runs, children, stack, spawns, used>>
toolVars == <<registered, external, policy, call, pending, resolved>>
maintVars == <<mode, second, files, phase, left, emptying, sweeps, written, excused>>
logVars == <<logged, nodes, edges, latest, sincePrune, nextRun, lives, writer,
             attached, abandoned>>
askVars == <<transcript, ask, past, disturbed, resets>>
================================================================================
