------------------------------- MODULE Processes -------------------------------
(***************************************************************************)
(* The parts of the program that wait: for another process, for another    *)
(* thread or for a peer.  They share no state, so they stand side by side: *)
(* each behaviour is one of the part that `part` names, and leaves the     *)
(* others as they started.                                                 *)
(***************************************************************************)
EXTENDS Naturals, Sequences

CONSTANTS Clients, Connections, Caller, ToolCall, Channel, Handler, Identity, Notes

\* Of each part, in the order in which they come below.
CONSTANTS MaxChildren, MaxRestarts, MaxBacklog,
          MaxRequests, AuthMode, MaxHandlers,
          MaxOpens, MaxJobs, ExecWrites, OutputCap, MaxProcesses, MaxTurns,
          MaxChanges, MaxSignals, Size, MaxQueuedBytes,
          MaxEvents, MaxWrites, MaxReloads

VARIABLES part,
          owner, monitor, running, stopping, restarts, pid, victim, pid_file,
          child, autoreap, handle, port, link, inherited, wants, reader, writing, outcome,
          life, socket, entry, thread, tracked, handler, from, kind, verdict, replies,
          wire, opens, connected, authenticated, hello, connect, call, pending,
          atServer, inbox, readers,
          table, job, bgMu, mu, use,
          stage, writers, command, pipe, written, head, tail, truncated, limited,
          ignored, expired, pollFailed, result,
          up, adapter, listed, process, autoReap, watcher, keeper,
          main, exit, shutdown, installed, failed, stands, cron, turns, fired, web,
          looker, requests, streams,
          gateway, document, stamp, config, agent, checker, reload, requested, seen,
          signals, trusted,
          chunks, bytes, finished, dropped, cancelled, pusher, drainer, peer, route, sent,
          disk, open, writes, reloads, token_index, build, kernel, minder, wakeup, steward,
          unseen, overtaken

Side  == INSTANCE Sidecar
Serving == INSTANCE GatewayServer WITH outcome <- verdict
Peer  == INSTANCE GatewayClient WITH socket <- wire, reader <- readers
Jobs  == INSTANCE BackgroundProcesses
Exec  == INSTANCE ExecCapture WITH MaxWrites <- ExecWrites, child <- command
Adapt == INSTANCE ChannelAdapters WITH monitor <- watcher, owner <- keeper
Life  == INSTANCE GatewayLife WITH part <- stands, watcher <- looker, handler <- requests
Reload == INSTANCE ConfigReload
Stream == INSTANCE EventStream
Index == INSTANCE MemoryIndex WITH watcher <- minder, caller <- steward

ASSUME ProcessesAssumption ==
       /\ Side!SidecarAssumption /\ Serving!GatewayAssumption /\ Peer!ClientAssumption
       /\ Jobs!BackgroundAssumption /\ Exec!ExecAssumption /\ Adapt!AdaptersAssumption
       /\ Life!LifeAssumption /\ Reload!ReloadAssumption
       /\ Stream!StreamAssumption /\ Index!IndexAssumption

sideVars == <<owner, monitor, running, stopping, restarts, pid, victim, pid_file,
              child, autoreap, handle, port, link, inherited, wants, reader, writing,
              outcome>>
servingVars == <<life, socket, entry, thread, tracked, handler, from, kind, verdict, replies>>
peerVars == <<wire, opens, connected, authenticated, hello, connect, call, pending,
              atServer, inbox, readers>>
jobVars == <<table, job, bgMu, mu, use>>
execVars == <<stage, writers, command, pipe, written, head, tail, truncated, limited,
              ignored, expired, pollFailed, result>>
adaptVars == <<up, adapter, listed, process, autoReap, watcher, keeper>>
lifeVars == <<main, exit, shutdown, installed, failed, stands, cron, turns, fired, web,
              looker, requests, streams>>
reloadVars == <<gateway, document, stamp, config, agent, checker, reload, requested, seen,
                signals, trusted>>

streamVars == <<chunks, bytes, finished, dropped, cancelled, pusher, drainer, peer, route,
                sent>>
indexVars == <<disk, open, writes, reloads, token_index, build, kernel, minder, wakeup,
               steward, unseen, overtaken>>

vars == <<part, sideVars, servingVars, peerVars, jobVars, execVars, adaptVars,
          lifeVars, reloadVars, streamVars, indexVars>>

Init ==
    /\ part \in {"sidecar", "serving", "peer", "jobs", "exec", "adapters", "life", "reload",
                 "stream", "index"}
    /\ Side!Init /\ Serving!Init /\ Peer!Init /\ Jobs!Init /\ Exec!Init /\ Adapt!Init
    /\ Life!Init /\ Reload!Init /\ Stream!Init /\ Index!Init
    /\ part # "sidecar" => ~autoreap
    /\ part # "exec" => ~limited /\ ~ignored
    /\ part # "adapters" => ~autoReap
    /\ part # "stream" => route = "agent"

\* A step of part p leaves the others alone.
OthersKeep(p) ==
    /\ UNCHANGED part
    /\ IF p = "sidecar" THEN TRUE ELSE UNCHANGED sideVars
    /\ IF p = "serving" THEN TRUE ELSE UNCHANGED servingVars
    /\ IF p = "peer" THEN TRUE ELSE UNCHANGED peerVars
    /\ IF p = "jobs" THEN TRUE ELSE UNCHANGED jobVars
    /\ IF p = "exec" THEN TRUE ELSE UNCHANGED execVars
    /\ IF p = "adapters" THEN TRUE ELSE UNCHANGED adaptVars
    /\ IF p = "life" THEN TRUE ELSE UNCHANGED lifeVars
    /\ IF p = "reload" THEN TRUE ELSE UNCHANGED reloadVars
    /\ IF p = "stream" THEN TRUE ELSE UNCHANGED streamVars
    /\ IF p = "index" THEN TRUE ELSE UNCHANGED indexVars

SideStep == part = "sidecar" /\ Side!Next /\ OthersKeep("sidecar")
ServingStep == part = "serving" /\ Serving!Next /\ OthersKeep("serving")
PeerStep == part = "peer" /\ Peer!Next /\ OthersKeep("peer")
JobsStep == part = "jobs" /\ Jobs!Next /\ OthersKeep("jobs")
ExecStep == part = "exec" /\ Exec!Next /\ OthersKeep("exec")
AdaptStep == part = "adapters" /\ Adapt!Next /\ OthersKeep("adapters")
LifeStep == part = "life" /\ Life!Next /\ OthersKeep("life")
ReloadStep == part = "reload" /\ Reload!Next /\ OthersKeep("reload")
StreamStep == part = "stream" /\ Stream!Next /\ OthersKeep("stream")
IndexStep == part = "index" /\ Index!Next /\ OthersKeep("index")

Next ==
    \/ SideStep \/ ServingStep \/ PeerStep \/ JobsStep \/ ExecStep
    \/ AdaptStep \/ LifeStep \/ ReloadStep \/ StreamStep \/ IndexStep

Spec == Init /\ [][Next]_vars

-----------------------------------------------------------------------------
\* Every part's variables have their types.
TypeOK ==
    /\ Side!TypeOK /\ Serving!TypeOK /\ Peer!TypeOK
    /\ Jobs!TypeOK /\ Exec!TypeOK /\ Adapt!TypeOK
    /\ Life!TypeOK /\ Reload!TypeOK /\ Stream!TypeOK /\ Index!TypeOK

\* One child at a time is used, over its own connection, and none that was
\* replaced; nothing of it is left when Stop has returned.
SidecarAgrees == Side!SidecarAgrees

\* An answer of the sidecar is to the request that waits, unless a line was left
\* half read or the descriptor has become another thread's.
AnswerIsOwn == Side!AnswerIsOwn

\* The client's own idea of its connection and of its calls is right.
ClientAgrees == Peer!ClientAgrees

\* Background commands: no lock is held by a call that waits for one to end in
\* the destructor of its future, and reports are true.
BackgroundAgrees == Jobs!BackgroundAgrees

\* A captured command's shell is gone and reaped when the call returns, and its
\* output is not mixed up.
ExecAgrees == Exec!ExecAgrees

\* Channel adapters: one process each, on record, and none left by Stop but one.
NoStrays == Adapt!NoStrays

\* The gateway stops its parts in an order in which one that is gone is still
\* used in three ways only: the queue after a start that failed, the sidecar
\* during the shutdown, the registry of tools by a streamed turn.  The index is
\* that of the identity files as far as the kernel has told of them.  What is
\* streamed comes in order and is not piled up.
GatewayAgrees ==
    /\ Life!QueueOutlivesCron /\ Life!SidecarGoneInShutdownOnly /\ Life!NothingRunsAtReturn
    /\ Index!IndexIsCurrent
    /\ Stream!QueueIsBounded /\ Stream!SentInOrder

\* Every wait ends, each part being scheduled fairly: calls to the sidecar, to
\* the gateway and of tools return, requests end, deaths and changes of
\* files are noticed, streams end, and Stop returns and leaves no process.
CallsReturn ==
    /\ part = "sidecar" /\ Side!Fairness =>
         /\ Side!StopTerminates /\ Side!StopLeavesNoChild
         /\ Side!CallsReturn /\ Side!DeathIsNoticed
    /\ part = "serving" /\ Serving!Fairness => Serving!RequestsEnd /\ Serving!StopTerminates
    /\ part = "peer" /\ Peer!Fairness => Peer!CallsReturn
    /\ part = "jobs" /\ Jobs!Fairness => Jobs!BackgroundCallsReturn
    /\ part = "exec" /\ Exec!Fairness => Exec!ExecReturns
    /\ part = "adapters" /\ Adapt!Fairness => Adapt!MonitorAndStopAdvance
    /\ part = "life" /\ Life!Fairness => Life!ShutdownEnds
    /\ part = "reload" /\ Reload!Fairness => Reload!ChangesAreNoticed
    /\ part = "stream" /\ Stream!Fairness => Stream!StreamsEnd
    /\ part = "index" /\ Index!Fairness => Index!WatcherResponds
================================================================================
