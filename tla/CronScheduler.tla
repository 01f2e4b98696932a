---------------------------- MODULE CronScheduler ----------------------------
(***************************************************************************)
(* CronScheduler (src/core/cron_scheduler.cpp): a vector of jobs under     *)
(* mu_, a thread that runs the due ones, the cron.* requests that change   *)
(* the vector, and the file it is written to.  The thread collects         *)
(* pointers into the vector under the lock and follows them without it: a  *)
(* pointer is a position here, and what lies at that position may have     *)
(* changed, or may no longer be a job at all.                              *)
(*                                                                         *)
(* Jobs are numbered in the order of AddJob.  Time is only whether a job's *)
(* next_run has come.  Of a job's contents two things matter: whether its  *)
(* schedule is empty, which AddJob accepts and Load skips, and whether its *)
(* name is a message cut inside a character, which no Save can write.      *)
(***************************************************************************)
EXTENDS SequencesExt, FiniteSets

CONSTANT MaxJobs      \* bound on the calls of AddJob

ASSUME CronAssumption == MaxJobs \in Nat

Jobs == 1..MaxJobs
NoJob == 0

VARIABLES
    up,            \* the gateway's process exists
    running,       \* running_
    loop,          \* where scheduler_loop is
    jobs,          \* jobs_, in the order of the vector
    due,           \* the jobs whose next_run has come
    moved,         \* the vector has been reallocated since the pass began
    todo,          \* pointers of due_jobs still to be followed, the first one first
    called,        \* the job the pointer led the handler to, until next_run moves on
    added,         \* calls of AddJob
    blank,         \* jobs that are stored and have an empty schedule
    cut,           \* jobs of the vector whose name is not valid UTF-8
    adding,        \* jobs in the vector whose AddJob has yet to save
    replacing,     \* cron.update requests between RemoveJob and AddJob
    writer,        \* who holds mu_ while the file is truncated
    file           \* what is on disk

VARIABLES          \* history
    acked,         \* jobs the callers have been told of, but for the losses that are
                   \* excused where they happen
    touched,       \* jobs a removal or a reallocation moved in this pass, and
                   \* those added after one
    misled         \* jobs that ran when not due, or were due and did not run

fileVars == <<writer, file>>
loopVars == <<loop, due, moved, todo, called>>
kinds    == <<blank, cut>>
vars == <<up, running, loopVars, jobs, added, kinds, adding, replacing, fileVars, acked,
          touched, misled>>

Empty    == [torn |-> FALSE, jobs |-> <<>>]
Unlocked == up /\ writer = "none"
InPass   == loop \in {"calling", "updating"}     \* the thread follows its pointers

Init ==
    /\ up = TRUE /\ running = TRUE /\ loop = "sleeping"
    /\ jobs = <<>> /\ due = {} /\ moved = FALSE /\ todo = {} /\ called = NoJob
    /\ added = 0 /\ blank = {} /\ cut = {} /\ adding = {} /\ replacing = 0
    /\ writer = "none" /\ file = Empty
    /\ acked = {} /\ touched = {} /\ misled = {}

\* Save and RemoveJob open the file with a truncating ofstream, then write it.
\* Where a job's name is not valid UTF-8, dump throws and leaves the file empty.
Truncate(who) == writer' = who /\ file' = [torn |-> TRUE, jobs |-> <<>>]
Unwritable    == ToSet(jobs) \cap cut # {}
Written == ~Unwritable /\ writer' = "none" /\ file' = [torn |-> FALSE, jobs |-> jobs]
Thrown  == Unwritable /\ writer' = "none" /\ file' = file

\* What Load makes of the jobs in a file: those with a schedule, in their order.
Loaded(stored) ==
    {q \in BoundedSeq(Jobs, Len(stored)) :
        /\ ToSet(q) = ToSet(stored) \ blank
        /\ \A a, b \in DOMAIN q : a < b => q[a] < q[b]}
-------------------------------------------------------------------------------
(***************************************************************************)
(* The requests cron.add, cron.remove and cron.update.                     *)
(***************************************************************************)

\* The push_back of AddJob may reallocate the vector.  The name of a job may be
\* the first 40 bytes of its message.
Push ==
    LET j == added + 1 IN
    /\ Unlocked /\ added < MaxJobs
    /\ added' = j /\ adding' = adding \cup {j}
    /\ jobs' = Append(jobs, j)
    /\ cut' \in {cut, cut \cup {j}}
    /\ \/ InPass /\ moved' = TRUE /\ touched' = touched \cup ToSet(jobs')
       \/ moved' = moved /\ touched' = IF touched = {} THEN {} ELSE touched \cup {j}
    /\ UNCHANGED <<up, running, loop, due, todo, called, fileVars, acked, misled>>

\* cron.add refuses an empty schedule.  A cron.update that finds its job removed
\* by another request adds one all the same, and refuses none.
AddJob ==
    /\ Push /\ UNCHANGED replacing
    /\ \/ UNCHANGED blank
       \/ added > Len(jobs) /\ blank' = blank \cup {added'}

\* AddJob's Save, in a critical section of its own.
AddSaves ==
    /\ Unlocked /\ adding # {}
    /\ Truncate("adder")
    /\ UNCHANGED <<up, running, loopVars, jobs, added, kinds, adding, replacing,
                   acked, touched, misled>>

\* Fault for AddReturns: the id goes out before the job is saved.
AddReturnsEarly ==
    /\ Unlocked
    /\ \E j \in adding : adding' = adding \ {j} /\ acked' = acked \cup ({j} \cap ToSet(jobs))
    /\ UNCHANGED <<up, running, loopVars, jobs, added, kinds, replacing, fileVars,
                   touched, misled>>

\* A Save writes every job of the vector; the AddJob that called it returns, or
\* throws, and the job stays in the vector.
AddReturns ==
    /\ up /\ writer = "adder"
    /\ \E j \in adding :
        /\ adding' = adding \ {j}
        /\ \/ Written /\ acked' = acked \cup ({j} \cap ToSet(jobs))
           \/ Thrown /\ acked' = acked
    /\ UNCHANGED <<up, running, loopVars, jobs, added, kinds, replacing, touched,
                   misled>>

\* vector::erase moves the jobs behind the one it removes.  Of a job named by a
\* prefix of its id only one may match, which makes no difference here.  Fault:
\* a job that is gone stays due.
EraseLeavesDue(i) ==
    /\ Unlocked
    /\ jobs' = RemoveAt(jobs, i)
    /\ acked' = acked \ {jobs[i]} /\ blank' = blank \ {jobs[i]} /\ cut' = cut \ {jobs[i]}
    /\ touched' = IF InPass THEN touched \cup {jobs[k] : k \in i..Len(jobs)} ELSE touched
    /\ UNCHANGED due
Erase(i) ==
    /\ Unlocked
    /\ jobs' = RemoveAt(jobs, i)
    /\ due' = due \ {jobs[i]}
    /\ acked' = acked \ {jobs[i]} /\ blank' = blank \ {jobs[i]} /\ cut' = cut \ {jobs[i]}
    /\ touched' = IF InPass THEN touched \cup {jobs[k] : k \in i..Len(jobs)} ELSE touched

\* Fault for TakeOut: the file keeps the job.
RemoveForgetsToSave(i, who) ==
    /\ Erase(i)
    /\ UNCHANGED <<up, running, loop, moved, todo, called, added, adding, replacing,
                   fileVars, misled>>
TakeOut(i, who) ==
    /\ Erase(i)
    /\ Truncate(who)
    /\ UNCHANGED <<up, running, loop, moved, todo, called, added, adding, replacing,
                   misled>>

RemoveJob(i) == TakeOut(i, "remover")

\* A RemoveJob that throws ends its cron.update.
RemoveReturns ==
    /\ up /\ writer \in {"remover", "replacer"}
    /\ \/ Written /\ replacing' = IF writer = "replacer" THEN replacing + 1 ELSE replacing
       \/ Thrown /\ replacing' = replacing
    /\ UNCHANGED <<up, running, loopVars, jobs, added, kinds, adding, acked, touched,
                   misled>>

\* cron.update: RemoveJob, then AddJob with a new id, or nothing when the new
\* schedule is refused, which an empty one is not.
UpdateRemoves(i) == TakeOut(i, "replacer")
UpdateAdds ==
    /\ replacing > 0 /\ replacing' = replacing - 1
    /\ Push
    /\ blank' \in {blank, blank \cup {added'}}
UpdateThrows ==
    /\ up /\ replacing > 0 /\ replacing' = replacing - 1
    /\ UNCHANGED <<up, running, loopVars, jobs, added, kinds, adding, fileVars, acked,
                   touched, misled>>
-------------------------------------------------------------------------------
(***************************************************************************)
(* scheduler_loop.                                                         *)
(***************************************************************************)
\* Time passes.
FallsDue(j) ==
    /\ up /\ j \in ToSet(jobs) \ due
    /\ due' = due \cup {j}
    /\ UNCHANGED <<up, running, loop, moved, todo, called, jobs, added, kinds, adding,
                   replacing, fileVars, acked, touched, misled>>

\* Fault: a pass takes every job.
AllPositions == DOMAIN jobs
Positions    == {i \in DOMAIN jobs : jobs[i] \in due}

\* A pass begins: pointers to the due jobs are collected under the lock.
Collect ==
    /\ Unlocked /\ loop = "sleeping" /\ running
    /\ due # {}
    /\ todo' = Positions /\ loop' = "calling"
    /\ UNCHANGED <<up, running, due, moved, called, jobs, added, kinds, adding,
                   replacing, fileVars, acked, touched, misled>>

\* The job a pointer leads to; NoJob when the memory is not a job's any more.
Pointer == CHOOSE i \in todo : \A k \in todo : i <= k
Target  == IF moved \/ Pointer > Len(jobs) THEN NoJob ELSE jobs[Pointer]

FollowNext ==
    /\ todo' = todo \ {Pointer}
    /\ loop' = IF todo' = {} THEN "storing" ELSE "calling"

\* handler_(*job).  Freed memory may still hold a job that was moved.
Call ==
    /\ up /\ loop = "calling"
    /\ called' \in (IF Target = NoJob THEN touched ELSE {Target})
    /\ misled' = misled \cup ({called'} \ due)
    /\ loop' = "updating"
    /\ UNCHANGED <<up, running, due, moved, todo, jobs, added, kinds, adding,
                   replacing, fileVars, acked, touched>>

\* next_run moves on, for the job that is there now.  Fault: it does not.
AdvanceKeepsTime ==
    /\ up /\ loop = "updating"
    /\ FollowNext /\ called' = NoJob
    /\ UNCHANGED <<up, running, due, moved, jobs, added, kinds, adding, replacing,
                   fileVars, acked, touched, misled>>
Advance ==
    /\ up /\ loop = "updating"
    /\ due' = due \ {Target}
    /\ misled' = misled \cup ((due \cap {Target}) \ {called})
    /\ FollowNext /\ called' = NoJob
    /\ UNCHANGED <<up, running, moved, jobs, added, kinds, adding, replacing,
                   fileVars, acked, touched>>

PassSaves ==
    /\ Unlocked /\ loop = "storing"
    /\ Truncate("loop") /\ loop' = "writing"
    /\ moved' = FALSE /\ touched' = {} /\ misled' = {}
    /\ UNCHANGED <<up, running, due, todo, called, jobs, added, kinds, adding,
                   replacing, acked>>
PassEnds ==
    /\ up /\ loop = "writing"
    /\ Written /\ loop' = "sleeping"
    /\ UNCHANGED <<up, running, due, moved, todo, called, jobs, added, kinds, adding,
                   replacing, acked, touched, misled>>

\* Stop: the thread ends its pass and leaves.
Stop ==
    /\ up /\ running
    /\ running' = FALSE
    /\ UNCHANGED <<up, loopVars, jobs, added, kinds, adding, replacing, fileVars,
                   acked, touched, misled>>
LoopExits ==
    /\ up /\ loop = "sleeping" /\ ~running
    /\ loop' = "off"
    /\ UNCHANGED <<up, running, due, moved, todo, called, jobs, added, kinds, adding,
                   replacing, fileVars, acked, touched, misled>>
-------------------------------------------------------------------------------
(***************************************************************************)
(* The end of the process, and the next one.                               *)
(***************************************************************************)
\* Excused: whatever the file held when it was cut short, by a write under way
\* or by one that threw.
Dies ==
    /\ up' = FALSE /\ running' = FALSE
    /\ loop' = "off" /\ due' = {} /\ moved' = FALSE /\ todo' = {} /\ called' = NoJob
    /\ jobs' = <<>> /\ adding' = {} /\ replacing' = 0 /\ writer' = "none"
    /\ touched' = {} /\ misled' = {}
    /\ cut' = {} /\ blank' = blank \cap ToSet(file.jobs)
    /\ acked' = IF file.torn THEN {} ELSE acked
    /\ UNCHANGED <<added, file>>

Crash == up /\ Dies

\* What is left of a schedule in freed memory does not parse: the exception
\* leaves the thread, which ends the process.
AdvanceThrows == up /\ loop = "updating" /\ Target = NoJob /\ Dies

\* A Save at the end of a pass that throws does so outside of any try.
PassThrows == up /\ loop = "writing" /\ Unwritable /\ Dies

\* Load, which computes every next_run anew, then Start.  A file that was cut
\* short does not parse and leaves jobs_ as it is, empty.  Excused: the jobs to
\* which cron.update gave an empty schedule.
Load ==
    /\ ~up
    /\ up' = TRUE /\ running' = TRUE /\ loop' = "sleeping"
    /\ jobs' \in (IF file.torn THEN {<<>>} ELSE Loaded(file.jobs))
    /\ acked' = acked \ blank
    /\ UNCHANGED <<due, moved, todo, called, added, kinds, adding, replacing,
                   fileVars, touched, misled>>
-------------------------------------------------------------------------------
Requests ==
    \/ AddJob \/ AddSaves \/ AddReturns
    \/ \E i \in DOMAIN jobs : RemoveJob(i) \/ UpdateRemoves(i)
    \/ RemoveReturns \/ UpdateAdds \/ UpdateThrows

SchedulerLoop ==
    \/ Collect \/ Call \/ Advance \/ AdvanceThrows \/ PassSaves \/ PassEnds \/ PassThrows
    \/ LoopExits

Next ==
    \/ Requests \/ SchedulerLoop
    \/ \E j \in Jobs : FallsDue(j)
    \/ Stop \/ Crash \/ Load

Spec == Init /\ [][Next]_vars

\* Threads that hold the lock or follow their pointers go on, and a pass begins
\* again and again while the scheduler runs.
Fairness ==
    /\ WF_vars(AddSaves) /\ WF_vars(AddReturns) /\ WF_vars(RemoveReturns)
    /\ WF_vars(SchedulerLoop)

FairSpec == Spec /\ Fairness
-------------------------------------------------------------------------------
\* Every variable holds a value of its type; only jobs there are can be due.
TypeOK ==
    /\ up \in BOOLEAN /\ running \in BOOLEAN /\ moved \in BOOLEAN
    /\ loop \in {"sleeping", "calling", "updating", "storing", "writing", "off"}
    /\ jobs \in Seq(Jobs) /\ due \subseteq ToSet(jobs)
    /\ todo \subseteq 1..MaxJobs /\ called \in Jobs \cup {NoJob}
    /\ added \in 0..MaxJobs /\ adding \subseteq Jobs /\ replacing \in 0..MaxJobs
    /\ blank \subseteq Jobs /\ cut \subseteq ToSet(jobs)
    /\ writer \in {"none", "adder", "remover", "replacer", "loop"}
    /\ file \in [torn : BOOLEAN, jobs : Seq(Jobs)]
    /\ acked \subseteq Jobs /\ touched \subseteq Jobs /\ misled \subseteq Jobs

\* The file says what the vector says, except while somebody writes it, or a
\* job has been pushed and not yet saved, or the file was cut short; from a Load
\* until the next write it may say more, the jobs that Load skipped.
StoredIsCurrent ==
    Unlocked /\ adding = {} /\ ~file.torn => file.jobs = jobs \/ jobs \in Loaded(file.jobs)

\* A job whose AddJob has returned is there until it is removed, over crashes
\* and restarts, unless the process ended while the file was cut short (Dies),
\* or Load skipped it for its empty schedule.
AcknowledgedSurvives == up => acked \subseteq ToSet(jobs)

\* The file is what a restart can rely on.
FileIsReliable == StoredIsCurrent /\ AcknowledgedSurvives

\* A job runs when it is due, and is due no more once it has run.  Removing a
\* job in the middle of a pass can make the thread run a job too early or pass
\* over a due one, but only one stored behind the removed job or added later.
MisledOnlyIfTouched == misled \subseteq touched

\* While the scheduler is on, no job stays due for ever.
DueIsHandled ==
    \A j \in Jobs : j \in due ~> j \notin due \/ ~up \/ ~running
===============================================================================
