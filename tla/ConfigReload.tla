------------------------------ MODULE ConfigReload ------------------------------
(***************************************************************************)
(* What the running gateway makes of its configuration document: reload_fn *)
(* of ForegroundCommand, called on the main thread (SIGUSR1), on the       *)
(* thread that watches the document and on the handler threads that wrote  *)
(* it or were asked to (config.set, config.apply, config.reload), all on   *)
(* one config object, without any lock.  That race is undefined behaviour: *)
(* no property relies on what it leaves in force.                          *)
(*                                                                         *)
(* The document is a version and whether it is written to its end (module  *)
(* ConfigDocument: by whom, and what becomes of the versions).             *)
(***************************************************************************)
EXTENDS Naturals

CONSTANTS Handler,         \* handler threads, which write and reload once each
          MaxChanges,      \* bound: versions of the document
          MaxSignals       \* bound: SIGUSR1 sent

ReloadAssumption == {MaxChanges, MaxSignals} \subseteq Nat

VARIABLES gateway,         \* ForegroundCommand: loaded or watching
          document,        \* the file: its version, and whether it is whole
          stamp,           \* its time of modification
          config,          \* the config object
          agent, checker,  \* the AgentLoop's copy and the permission checker
          reload,          \* where each thread is in reload_fn, and what it loaded
          requested,       \* reload_requested_
          seen,            \* config_mtime and current_mtime of the watcher
          signals,
          trusted          \* history: the last reload had nobody beside it

reloadVars == <<gateway, document, stamp, config, agent, checker, reload, requested,
                seen, signals, trusted>>

Threads  == {"main", "watcher"} \cup Handler
Version  == 0..MaxChanges
NoReload == [stage |-> "idle", got |-> 0, alone |-> FALSE]

TypeOK ==
    /\ gateway \in {"loaded", "watching"}
    /\ document \in [version : Version, whole : BOOLEAN]
    /\ stamp \in 0..(2 * MaxChanges)
    /\ config \in Version /\ agent \in Version /\ checker \in Version
    /\ reload \in [Threads ->
         [stage : {"idle", "load", "assign", "apply", "check", "done"},
          got : Version, alone : BOOLEAN]]
    /\ requested \in BOOLEAN
    /\ seen \in [last : 0..(2 * MaxChanges), current : 0..(2 * MaxChanges)]
    /\ signals \in 0..MaxSignals
    /\ trusted \in BOOLEAN

\* The document has been loaded when the gateway starts its threads.
Init ==
    /\ gateway = "loaded"
    /\ document = [version |-> 0, whole |-> TRUE]
    /\ stamp = 0
    /\ config = 0 /\ agent = 0 /\ checker = 0
    /\ reload = [r \in Threads |-> NoReload]
    /\ requested = FALSE
    /\ seen = [last |-> 0, current |-> 0]
    /\ signals = 0
    /\ trusted = TRUE

documentVars == <<document, stamp>>
inForceVars  == <<config, agent, checker>>

-----------------------------------------------------------------------------
(* The document changes                                                     *)

Replaced ==
    /\ document.whole /\ document.version < MaxChanges
    /\ document' = [document EXCEPT !.version = @ + 1]
    /\ stamp' = stamp + 1

\* By renaming, or in place: truncated first and then written
Replace ==
    /\ Replaced
    /\ UNCHANGED <<gateway, inForceVars, reload, requested, seen, signals, trusted>>

Truncate ==
    /\ document.whole /\ document.version < MaxChanges
    /\ document' = [document EXCEPT !.whole = FALSE]
    /\ stamp' = stamp + 1
    /\ UNCHANGED <<gateway, inForceVars, reload, requested, seen, signals, trusted>>

WriteText ==
    /\ ~document.whole
    /\ document' = [version |-> document.version + 1, whole |-> TRUE]
    /\ stamp' = stamp + 1
    /\ UNCHANGED <<gateway, inForceVars, reload, requested, seen, signals, trusted>>

-----------------------------------------------------------------------------
(* reload_fn                                                                *)

In(r, stage) == reload[r].stage = stage
Reloading == {r \in Threads : reload[r].stage \notin {"idle", "done"}}

\* A reload that runs beside another is not trusted, nor is the other.
Begins(r) ==
    reload' = [q \in Threads |->
                 IF q = r THEN [stage |-> "load", got |-> 0, alone |-> Reloading = {}]
                 ELSE [reload[q] EXCEPT !.alone = FALSE]]

\* Fault: the watcher notes the time of modification when the reload is over
ReturnsLate(r) ==
    /\ reload' = [reload EXCEPT ![r] =
                    [NoReload EXCEPT !.stage = IF r \in Handler THEN "done" ELSE "idle"]]
    /\ seen' = IF r = "watcher" THEN [last |-> stamp, current |-> stamp] ELSE seen

\* What the thread does when reload_fn has returned
Returns(r) ==
    /\ reload' = [reload EXCEPT ![r] =
                    [NoReload EXCEPT !.stage = IF r \in Handler THEN "done" ELSE "idle"]]
    /\ seen' = IF r = "watcher" THEN [seen EXCEPT !.last = seen.current] ELSE seen

\* An exception of LoadFromFile ends the reload before anything has changed.
LoadFromFile(r) ==
    /\ In(r, "load")
    /\ IF document.whole
       THEN /\ reload' = [reload EXCEPT ![r].stage = "assign", ![r].got = document.version]
            /\ UNCHANGED seen
       ELSE Returns(r)
    /\ UNCHANGED <<gateway, documentVars, inForceVars, requested, signals, trusted>>

Assign(r) ==
    /\ In(r, "assign")
    /\ config' = reload[r].got
    /\ reload' = [reload EXCEPT ![r].stage = "apply", ![r].got = 0]
    /\ UNCHANGED <<gateway, documentVars, agent, checker, requested, seen, signals, trusted>>

SetConfig(r) ==
    /\ In(r, "apply")
    /\ agent' = config
    /\ reload' = [reload EXCEPT ![r].stage = "check"]
    /\ UNCHANGED <<gateway, documentVars, config, checker, requested, seen, signals, trusted>>

SetPermissionChecker(r) ==
    /\ In(r, "check")
    /\ checker' = config
    /\ trusted' = reload[r].alone
    /\ Returns(r)
    /\ UNCHANGED <<gateway, documentVars, config, agent, requested, signals>>

ReloadStep(r) ==
    \/ LoadFromFile(r) \/ Assign(r) \/ SetConfig(r) \/ SetPermissionChecker(r)

\* A handler that was asked to, or has just written the document
HandlerReloads(h) ==
    /\ In(h, "idle")
    /\ Begins(h)
    /\ UNCHANGED <<gateway, documentVars, inForceVars, requested, seen, signals, trusted>>

HandlerWrites(h) ==
    /\ In(h, "idle")
    /\ Replaced
    /\ Begins(h)
    /\ UNCHANGED <<gateway, inForceVars, requested, seen, signals, trusted>>

\* WaitForShutdown
ReloadOnSignal ==
    /\ gateway = "watching" /\ requested /\ In("main", "idle")
    /\ requested' = FALSE
    /\ Begins("main")
    /\ UNCHANGED <<gateway, documentVars, inForceVars, seen, signals, trusted>>

\* config_watcher
ReloadOnChange ==
    /\ gateway = "watching" /\ In("watcher", "idle")
    /\ stamp # seen.last
    /\ seen' = [seen EXCEPT !.current = stamp]
    /\ Begins("watcher")
    /\ UNCHANGED <<gateway, documentVars, inForceVars, requested, signals, trusted>>

\* SIGUSR1
Signal ==
    /\ gateway = "watching" /\ signals < MaxSignals
    /\ signals' = signals + 1
    /\ requested' = TRUE
    /\ UNCHANGED <<gateway, documentVars, inForceVars, reload, seen, trusted>>

\* The watcher starts from the document as it is now, long after it was loaded:
\* when the gateway started, or by a reload that is not over.
StartWatching ==
    /\ gateway = "loaded"
    /\ gateway' = "watching"
    /\ seen' = [last |-> stamp, current |-> stamp]
    /\ trusted' = (trusted /\ {agent, checker} = {document.version})
    /\ reload' = [r \in Threads |-> [reload[r] EXCEPT !.alone = FALSE]]
    /\ UNCHANGED <<documentVars, inForceVars, requested, signals>>

Next ==
    \/ Replace \/ Truncate \/ WriteText
    \/ \E r \in Threads : ReloadStep(r)
    \/ \E h \in Handler : HandlerReloads(h) \/ HandlerWrites(h)
    \/ ReloadOnSignal \/ ReloadOnChange \/ Signal \/ StartWatching

Spec == Init /\ [][Next]_reloadVars

\* The threads of the gateway run: the main thread polls its flag every 100 ms,
\* the watcher looks every five seconds.
Fairness ==
    /\ \A r \in Threads : WF_reloadVars(ReloadStep(r))
    /\ WF_reloadVars(ReloadOnSignal) /\ WF_reloadVars(ReloadOnChange)

-----------------------------------------------------------------------------
(* Properties                                                               *)

\* When nothing is under way and the watcher has nothing to do, the
\* configuration in force is that of the document, unless reloads ran side by
\* side, or the document was changed while the gateway started.
InForceIsCurrent ==
    (/\ gateway = "watching" /\ seen.last = stamp
     /\ Reloading = {} /\ document.whole /\ trusted)
        => agent = document.version /\ checker = document.version

\* No change of the document stays unnoticed and no request to reload is lost,
\* also one that comes during a reload.
ChangesAreNoticed ==
    /\ (gateway = "watching" /\ stamp # seen.last) ~> (seen.last = stamp)
    /\ requested ~> In("main", "load")
================================================================================
