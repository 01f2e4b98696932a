------------------------------- MODULE MemoryIndex -------------------------------
(***************************************************************************)
(* The index over the files of a workspace (core/memory_manager.cpp) and   *)
(* the thread that keeps it current.  The index is built anew, from what   *)
(* the files hold, when the gateway starts, when its configuration is      *)
(* reloaded, and when the kernel tells the watcher that one of the five    *)
(* identity files has changed; the files of the memory directory, where    *)
(* daily notes go, are indexed but not watched.  The kernel reports files  *)
(* created, closed after writing and moved into the workspace, of whatever *)
(* name, but none deleted or moved away, and nothing while its queue is    *)
(* full.                                                                   *)
(*                                                                         *)
(* An index entry is the version of the file it was made from; 0 is a file *)
(* that is empty or absent.                                                *)
(***************************************************************************)
EXTENDS Naturals, Sequences

CONSTANTS Identity, Notes, \* files: those watched, and daily notes
          MaxEvents,       \* the kernel's max_queued_events
          MaxWrites, MaxReloads   \* bounds

\* Any other file of the workspace
Other == "other"

IndexAssumption ==
    /\ Identity \cap Notes = {} /\ Other \notin Identity \cup Notes
    /\ {MaxEvents, MaxWrites, MaxReloads} \subseteq Nat

VARIABLES disk,            \* what each file holds
          open,            \* files that someone has opened for writing
          writes, reloads,
          token_index,
          build,           \* rebuild_search_index, on each thread
          kernel,          \* inotify: whether it watches, and its events
          watcher,         \* the watcher's thread
          wakeup,          \* the pipe that ends it: written to
          caller,          \* who starts and stops it
          unseen,          \* history: identity files that changed without an event
                           \* after the last build had begun
          overtaken        \* history: the last builds ran side by side

indexVars == <<disk, open, writes, reloads, token_index, build, kernel, watcher, wakeup,
               caller, unseen, overtaken>>

File    == Identity \cup Notes
Threads == {"watcher", "reload"}
NoBuild == [on |-> FALSE, got |-> [f \in {} |-> 0], alone |-> FALSE]

TypeOK ==
    /\ disk \in [File -> 0..MaxWrites]
    /\ open \subseteq File
    /\ writes \in 0..MaxWrites /\ reloads \in 0..MaxReloads
    /\ token_index \in [File -> 0..MaxWrites]
    /\ \A t \in Threads :
         /\ build[t].on \in BOOLEAN /\ build[t].alone \in BOOLEAN
         /\ DOMAIN build[t].got \subseteq File
    /\ kernel \in [watches : BOOLEAN, events : Seq(Identity \cup {Other})]
    /\ watcher \in {"none", "starting", "poll", "drain", "build", "ended"}
    /\ wakeup \in BOOLEAN
    /\ caller \in {"loaded", "running", "joining", "stopped"}
    /\ unseen \subseteq Identity /\ overtaken \in BOOLEAN

\* LoadWorkspaceFiles has returned.
Init ==
    /\ disk = [f \in File |-> 0] /\ open = {}
    /\ writes = 0 /\ reloads = 0
    /\ token_index = [f \in File |-> 0]
    /\ build = [t \in Threads |-> NoBuild]
    /\ kernel = [watches |-> FALSE, events |-> <<>>]
    /\ watcher = "none" /\ wakeup = FALSE
    /\ caller = "loaded"
    /\ unseen = {} /\ overtaken = FALSE

-----------------------------------------------------------------------------
(* The files change: an editor, a tool, SaveDailyMemory                     *)

\* Nobody is told.
Silent(f) == UNCHANGED kernel /\ unseen' = unseen \cup ({f} \cap Identity)

\* IN_CREATE, IN_CLOSE_WRITE, IN_MOVED_TO.  There is none before the watch is
\* there, and with a full queue only that of the overflow, which has no name and
\* is passed over.
Event(f) ==
    IF f \in Identity \cup {Other} /\ kernel.watches /\ Len(kernel.events) < MaxEvents
    THEN kernel' = [kernel EXCEPT !.events = Append(@, f)] /\ UNCHANGED unseen
    ELSE Silent(f)

\* Opening a file to write empties it without an event, or creates it with one.
Open(f) ==
    /\ f \notin open /\ writes < MaxWrites
    /\ open' = open \cup {f}
    /\ writes' = writes + 1
    /\ disk' = [disk EXCEPT ![f] = IF f \in Identity THEN 0 ELSE @]
    /\ \/ UNCHANGED <<kernel, unseen>>
       \/ disk[f] = 0 /\ Event(f)
    /\ UNCHANGED <<reloads, token_index, build, watcher, wakeup, caller, overtaken>>

\* Another file is renamed to it.
Replace(f) ==
    /\ f \notin open /\ writes < MaxWrites
    /\ writes' = writes + 1
    /\ disk' = [disk EXCEPT ![f] = writes + 1]
    /\ Event(f)
    /\ UNCHANGED <<open, reloads, token_index, build, watcher, wakeup, caller, overtaken>>

\* It is deleted, or renamed to something else or away.
Remove(f) ==
    /\ f \notin open /\ disk[f] # 0 /\ writes < MaxWrites
    /\ writes' = writes + 1
    /\ disk' = [disk EXCEPT ![f] = 0]
    /\ Silent(f)
    /\ UNCHANGED <<open, reloads, token_index, build, watcher, wakeup, caller, overtaken>>

WriteOther ==
    /\ writes < MaxWrites
    /\ writes' = writes + 1
    /\ Event(Other)
    /\ UNCHANGED <<disk, open, reloads, token_index, build, watcher, wakeup, caller, overtaken>>

Close(f) ==
    /\ f \in open
    /\ open' = open \ {f}
    /\ disk' = [disk EXCEPT ![f] = writes]
    /\ Event(f)
    /\ UNCHANGED <<writes, reloads, token_index, build, watcher, wakeup, caller, overtaken>>

-----------------------------------------------------------------------------
(* rebuild_search_index                                                     *)

Building == {t \in Threads : build[t].on}

Begins(t) ==
    /\ build' = [u \in Threads |->
                IF u = t THEN [on |-> TRUE, got |-> [f \in {} |-> 0], alone |-> Building = {}]
                ELSE [build[u] EXCEPT !.alone = FALSE]]
    /\ unseen' = {}
    /\ overtaken' = (overtaken /\ Building # {})

\* One file after the other, without a lock
ReadFile(t) ==
    /\ build[t].on
    /\ \E f \in File \ DOMAIN build[t].got :
         build' = [build EXCEPT ![t].got =
                     [g \in DOMAIN @ \cup {f} |-> IF g = f THEN disk[f] ELSE @[g]]]
    /\ UNCHANGED <<disk, open, writes, reloads, token_index, kernel, watcher, wakeup,
                   caller, unseen, overtaken>>

\* Fault: events that came while the index was built are taken for seen
InstallAndDrain(t) ==
    /\ build[t].on /\ DOMAIN build[t].got = File
    /\ token_index' = build[t].got
    /\ build' = [build EXCEPT ![t] = NoBuild]
    /\ overtaken' = (overtaken \/ ~build[t].alone)
    /\ watcher' = IF t = "watcher" THEN "drain" ELSE watcher
    /\ kernel' = IF t = "watcher" THEN [kernel EXCEPT !.events = <<>>] ELSE kernel
    /\ UNCHANGED <<disk, open, writes, reloads, wakeup, caller, unseen>>

\* The result replaces the index, also one that another thread has made later.
Install(t) ==
    /\ build[t].on /\ DOMAIN build[t].got = File
    /\ token_index' = build[t].got
    /\ build' = [build EXCEPT ![t] = NoBuild]
    /\ overtaken' = (overtaken \/ ~build[t].alone)
    /\ watcher' = IF t = "watcher" THEN "drain" ELSE watcher
    /\ UNCHANGED <<disk, open, writes, reloads, kernel, wakeup, caller, unseen>>

\* reload_fn calls LoadWorkspaceFiles.
Reload ==
    /\ caller = "running" /\ reloads < MaxReloads /\ ~build["reload"].on
    /\ reloads' = reloads + 1
    /\ Begins("reload")
    /\ UNCHANGED <<disk, open, writes, token_index, kernel, watcher, wakeup, caller>>

-----------------------------------------------------------------------------
(* The watcher                                                              *)

StartFileWatcher ==
    /\ caller = "loaded"
    /\ caller' = "running"
    /\ watcher' = "starting"
    /\ UNCHANGED <<disk, open, writes, reloads, token_index, build, kernel, wakeup, unseen,
                   overtaken>>

\* inotify_init1 and inotify_add_watch; when one fails the thread ends.
Watch ==
    /\ watcher = "starting"
    /\ \/ watcher' = "poll" /\ kernel' = [kernel EXCEPT !.watches = TRUE]
       \/ watcher' = "ended" /\ UNCHANGED kernel
    /\ UNCHANGED <<disk, open, writes, reloads, token_index, build, wakeup, caller, unseen,
                   overtaken>>

\* The pipe goes before the events.
PollReturns ==
    /\ watcher = "poll"
    /\ \/ wakeup /\ watcher' = "ended"
       \/ ~wakeup /\ kernel.events # <<>> /\ watcher' = "drain"
    /\ UNCHANGED <<disk, open, writes, reloads, token_index, build, kernel, wakeup, caller,
                   unseen, overtaken>>

\* Each event is taken out, and then, if it is of an identity file, the index built.
Drain ==
    /\ watcher = "drain"
    /\ IF kernel.events = <<>>
       THEN watcher' = "poll" /\ UNCHANGED <<build, kernel, unseen, overtaken>>
       ELSE /\ kernel' = [kernel EXCEPT !.events = Tail(@)]
            /\ IF Head(kernel.events) = Other
               THEN UNCHANGED <<watcher, build, unseen, overtaken>>
               ELSE watcher' = "build" /\ Begins("watcher")
    /\ UNCHANGED <<disk, open, writes, reloads, token_index, wakeup, caller>>

\* StopFileWatcher, by the destructor, when nobody reloads any more
StopFileWatcher ==
    /\ caller = "running" /\ ~build["reload"].on
    /\ caller' = "joining"
    /\ wakeup' = TRUE
    /\ UNCHANGED <<disk, open, writes, reloads, token_index, build, kernel, watcher, unseen,
                   overtaken>>

Join ==
    /\ caller = "joining" /\ watcher = "ended"
    /\ caller' = "stopped"
    /\ UNCHANGED <<disk, open, writes, reloads, token_index, build, kernel, watcher, wakeup,
                   unseen, overtaken>>

Next ==
    \/ \E f \in File : Open(f) \/ Close(f) \/ Replace(f) \/ Remove(f)
    \/ WriteOther
    \/ \E t \in Threads : ReadFile(t) \/ Install(t)
    \/ Reload \/ StartFileWatcher \/ Watch \/ PollReturns \/ Drain \/ StopFileWatcher \/ Join

Spec == Init /\ [][Next]_indexVars

Fairness ==
    /\ \A t \in Threads : WF_indexVars(ReadFile(t) \/ Install(t))
    /\ WF_indexVars(Watch) /\ WF_indexVars(PollReturns) /\ WF_indexVars(Drain)
    /\ WF_indexVars(Join)

-----------------------------------------------------------------------------
(* Properties                                                               *)

\* While the watcher waits, and no event does, the index has what the identity
\* files hold, but for those that have changed without an event since the last
\* build, unless that build ran beside another: the one that began later may have
\* been overwritten by the other.
IndexIsCurrent ==
    (/\ watcher = "poll" /\ kernel.events = <<>> /\ Building = {} /\ ~overtaken)
        => \A f \in Identity \ (open \cup unseen) : token_index[f] = disk[f]

\* Events are taken up, and stopping the watcher ends it wherever it is, also
\* when it had given up.
WatcherResponds ==
    /\ (kernel.events # <<>>) ~> (kernel.events = <<>> \/ caller # "running")
    /\ (caller = "joining") ~> (caller = "stopped")
=================================================================================
