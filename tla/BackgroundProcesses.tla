-------------------------- MODULE BackgroundProcesses --------------------------
(***************************************************************************)
(* The process tool (process_tool of tools/tool_registry_exec_tools.cpp):  *)
(* commands in the background, each run by a std::async whose future sits  *)
(* in a shared BgSession.  bg_mu_ guards the table, a mutex of its own     *)
(* each session.  A call keeps the session it found alive until it         *)
(* returns, and whoever lets go of it last waits in the destructor of the  *)
(* future until the command has ended.  A poll waits for the time its      *)
(* caller gives with the session's mutex in its hands, and a list that     *)
(* comes to that session waits for it with bg_mu_.                         *)
(***************************************************************************)
EXTENDS Naturals, FiniteSets

CONSTANTS ToolCall,        \* calls of the tool, each made once
          MaxJobs          \* bound: commands ever started

Job  == 1..MaxJobs
Free == "free"

BackgroundAssumption == MaxJobs \in Nat /\ Free \notin ToolCall

VARIABLES table,           \* bg_sessions_
          job,             \* what is known of each command
          bgMu,            \* the call that holds bg_mu_
          mu,              \* the call that holds the mutex of a session
          use              \* the calls: what they do, to which session

bgVars == <<table, job, bgMu, mu, use>>

Ops == {"list", "poll", "kill", "clear", "remove"}

\* future: not yet started, running, ready, taken by get(), or destroyed
TypeOK ==
    /\ table \subseteq Job
    /\ job \in [Job -> [future : {"none", "running", "ready", "taken", "destroyed"},
                        exited : BOOLEAN, killed : BOOLEAN, output : BOOLEAN]]
    /\ bgMu \in ToolCall \cup {Free}
    /\ mu \in [Job -> ToolCall \cup {Free}]
    /\ use \in [ToolCall ->
         [stage : {"idle", "starting", "listing", "found", "polling", "leaving", "done"},
          op : Ops \cup {"start"}, holds : SUBSET Job, todo : SUBSET Job]]

Init ==
    /\ table = {}
    /\ job = [i \in Job |-> [future |-> "none", exited |-> FALSE,
                             killed |-> FALSE, output |-> FALSE]]
    /\ bgMu = Free
    /\ mu = [i \in Job |-> Free]
    /\ use = [t \in ToolCall |-> [stage |-> "idle", op |-> "list",
                                  holds |-> {}, todo |-> {}]]

\* The sessions somebody else than t keeps alive
KeptWithout(t) == table \cup UNION {use[u].holds : u \in ToolCall \ {t}}

\* get() of a future that is ready, when nobody has said the command is over
Collected(i) ==
    IF ~job[i].exited /\ job[i].future = "ready"
    THEN [job EXCEPT ![i] = [@ EXCEPT !.future = "taken", !.exited = TRUE,
                                      !.output = TRUE]]
    ELSE job

-----------------------------------------------------------------------------
(* start and list                                                           *)

StartJob(t) ==
    /\ use[t].stage = "idle"
    /\ \E i \in Job :
         /\ job[i].future = "none"
         /\ \A k \in 1..(i - 1) : job[k].future # "none"
         /\ job' = [job EXCEPT ![i].future = "running"]
         /\ use' = [use EXCEPT ![t] = [@ EXCEPT !.stage = "starting", !.op = "start",
                                                !.holds = {i}]]
    /\ UNCHANGED <<table, bgMu, mu>>

InsertJob(t) ==
    /\ use[t].stage = "starting"
    /\ bgMu = Free
    /\ table' = table \cup use[t].holds
    /\ use' = [use EXCEPT ![t] = [@ EXCEPT !.stage = "done", !.holds = {}]]
    /\ UNCHANGED <<job, bgMu, mu>>

ListBegins(t) ==
    /\ use[t].stage = "idle"
    /\ bgMu = Free
    /\ bgMu' = t
    /\ use' = [use EXCEPT ![t] = [@ EXCEPT !.stage = "listing", !.op = "list",
                                           !.todo = table]]
    /\ UNCHANGED <<table, job, mu>>

\* A session that is being polled holds up the list, and with it the table
ListOne(t) ==
    /\ use[t].stage = "listing"
    /\ \E i \in use[t].todo :
         /\ mu[i] = Free
         /\ job' = Collected(i)
         /\ use' = [use EXCEPT ![t].todo = @ \ {i}]
    /\ UNCHANGED <<table, bgMu, mu>>

ListEnds(t) ==
    /\ use[t].stage = "listing"
    /\ use[t].todo = {}
    /\ bgMu' = Free
    /\ use' = [use EXCEPT ![t].stage = "done"]
    /\ UNCHANGED <<table, job, mu>>

-----------------------------------------------------------------------------
(* The actions on one session                                               *)

Lookup(t) ==
    /\ use[t].stage = "idle"
    /\ bgMu = Free
    /\ \E i \in table, op \in Ops \ {"list"} :
         use' = [use EXCEPT ![t] = [@ EXCEPT !.stage = "found", !.op = op,
                                             !.holds = {i}]]
    /\ UNCHANGED <<table, job, bgMu, mu>>

Found(t, op, i) == use[t].stage = "found" /\ use[t].op = op /\ i \in use[t].holds

Leaves(t) == use' = [use EXCEPT ![t].stage = "leaving"]

PollBegins(t, i) ==
    /\ Found(t, "poll", i)
    /\ mu[i] = Free
    /\ mu' = [mu EXCEPT ![i] = t]
    /\ use' = [use EXCEPT ![t].stage = "polling"]
    /\ UNCHANGED <<table, job, bgMu>>

\* Fault: the future is waited for without a limit
PollWaits(t, i) ==
    /\ use[t].stage = "polling" /\ i \in use[t].holds
    /\ job[i].exited
    /\ job' = Collected(i)
    /\ mu' = [mu EXCEPT ![i] = Free]
    /\ Leaves(t)
    /\ UNCHANGED <<table, bgMu>>

\* wait_for returns: the future is ready, or the time is up
PollEnds(t, i) ==
    /\ use[t].stage = "polling" /\ i \in use[t].holds
    /\ job' = Collected(i)
    /\ mu' = [mu EXCEPT ![i] = Free]
    /\ Leaves(t)
    /\ UNCHANGED <<table, bgMu>>

\* kill only says that the command is over
Kill(t, i) ==
    /\ Found(t, "kill", i)
    /\ mu[i] = Free
    /\ job' = [job EXCEPT ![i] = [@ EXCEPT !.exited = TRUE, !.killed = TRUE]]
    /\ Leaves(t)
    /\ UNCHANGED <<table, bgMu, mu>>

Clear(t, i) ==
    /\ Found(t, "clear", i)
    /\ mu[i] = Free
    /\ job' = [job EXCEPT ![i].output = FALSE]
    /\ Leaves(t)
    /\ UNCHANGED <<table, bgMu, mu>>

\* Fault: the call lets go of the session first, so that the erasure under bg_mu_
\* destroys it
RemoveLast(t, i) ==
    /\ Found(t, "remove", i)
    /\ bgMu = Free
    /\ bgMu' = t
    /\ table' = table \ {i}
    /\ Leaves(t)
    /\ UNCHANGED <<job, mu>>

Remove(t, i) ==
    /\ Found(t, "remove", i)
    /\ bgMu = Free
    /\ table' = table \ {i}
    /\ Leaves(t)
    /\ UNCHANGED <<job, bgMu, mu>>

\* The call returns and its reference goes; the last one waits for the command,
\* unless get() has emptied the future.
Joining(t) ==
    /\ use[t].stage = "leaving"
    /\ \E i \in use[t].holds \ KeptWithout(t) : job[i].future = "running"

Return(t) ==
    /\ use[t].stage = "leaving"
    /\ ~Joining(t)
    /\ job' = [i \in Job |->
                 IF i \in use[t].holds \ KeptWithout(t)
                 THEN [job[i] EXCEPT !.future = "destroyed"] ELSE job[i]]
    /\ use' = [use EXCEPT ![t] = [@ EXCEPT !.stage = "done", !.holds = {}]]
    /\ bgMu' = IF bgMu = t THEN Free ELSE bgMu
    /\ UNCHANGED <<table, mu>>

\* exec_capture returns; it kills a command after 300 seconds
JobEnds(i) ==
    /\ job[i].future = "running"
    /\ job' = [job EXCEPT ![i].future = "ready"]
    /\ UNCHANGED <<table, bgMu, mu, use>>

Works(t) ==
    \/ InsertJob(t) \/ ListOne(t) \/ ListEnds(t)
    \/ \E i \in Job : PollBegins(t, i) \/ PollEnds(t, i) \/ Kill(t, i)
                        \/ Clear(t, i) \/ Remove(t, i)
    \/ Return(t)

Next ==
    \/ \E t \in ToolCall : StartJob(t) \/ ListBegins(t) \/ Lookup(t) \/ Works(t)
    \/ \E i \in Job : JobEnds(i)

Spec == Init /\ [][Next]_bgVars

\* A thread that can go on does, and every command ends.
Fairness ==
    /\ \A t \in ToolCall : WF_bgVars(Works(t))
    /\ \A i \in Job : WF_bgVars(JobEnds(i))

FairSpec == Spec /\ Fairness

-----------------------------------------------------------------------------
(* Properties                                                               *)

\* Nobody waits in the destructor of a future, for as long as the command takes,
\* with a lock in its hands; a command is reported as over only when its result
\* was taken or it was said to be killed, and has output only in the first case;
\* a listed session is never destroyed.
BackgroundAgrees ==
    /\ \A t \in ToolCall : Joining(t) => bgMu # t /\ \A i \in Job : mu[i] # t
    /\ \A i \in Job : job[i].exited => job[i].future \in {"taken", "destroyed"} \/ job[i].killed
    /\ \A i \in Job : job[i].output => job[i].future \in {"taken", "destroyed"}
    /\ \A i \in table : job[i].future # "destroyed"

\* Every call returns: the locks are taken in one order, and a poll ends when its
\* time is up.
BackgroundCallsReturn ==
    \A t \in ToolCall : use[t].stage # "idle" ~> use[t].stage = "done"
=============================================================================
