------------------------------ MODULE ExecCapture ------------------------------
(***************************************************************************)
(* exec_capture (platform/process_unix.cpp): a shell command with its      *)
(* output read from a pipe and a limit on its time.  The command may leave *)
(* processes behind that keep the pipe open, close its own output and go   *)
(* on, or write for ever; another thread of the gateway may fork between   *)
(* the creation of the pipe and the fork of this call, and its child has   *)
(* the pipe until it execs.                                                *)
(***************************************************************************)
EXTENDS Naturals, Sequences

CONSTANTS MaxWrites,       \* bound: writes into the pipe
          OutputCap        \* limits.max_output_bytes, in writes

ExecAssumption == MaxWrites \in Nat /\ OutputCap \in Nat

VARIABLES stage,           \* where the call is
          writers,         \* who has the write end of the pipe open
          child,           \* the shell
          pipe,            \* what was written and not yet read
          written,         \* how much was written
          head, tail,      \* the two parts of the output that are kept
          truncated,       \* output_truncated
          limited,         \* whether timeout_seconds is positive
          ignored,         \* whether the gateway was started with SIGCHLD ignored
          expired,         \* whether the deadline has passed
          pollFailed,      \* whether poll or read failed
          result           \* exit_code

execVars == <<stage, writers, child, pipe, written, head, tail, truncated,
              limited, ignored, expired, pollFailed, result>>

Holders == {"parent", "child", "descendant", "stranger"}
HeadCap == OutputCap \div 2
TailCap == OutputCap - HeadCap

TypeOK ==
    /\ stage \in {"fork", "poll", "kill", "reap", "done"}
    /\ writers \subseteq Holders
    /\ child \in {"none", "running", "zombie", "reaped"}
    /\ written \in 0..MaxWrites
    /\ {pipe, head, tail} \subseteq Seq(1..MaxWrites)
    /\ {truncated, limited, ignored, expired, pollFailed} \subseteq BOOLEAN
    /\ result \in {"none", "failed", "timeout", "status"}

\* pipe2 has succeeded; a failure of it is the same return as that of fork
Init ==
    /\ stage = "fork"
    /\ writers = {"parent"}
    /\ child = "none"
    /\ pipe = <<>> /\ written = 0
    /\ head = <<>> /\ tail = <<>> /\ truncated = FALSE
    /\ limited \in BOOLEAN /\ ignored \in BOOLEAN
    /\ expired = FALSE /\ pollFailed = FALSE
    /\ result = "none"

outVars == <<head, tail, truncated>>
timeVars == <<limited, ignored, expired, pollFailed>>

-----------------------------------------------------------------------------
(* The processes                                                            *)

\* Another thread forks while the parent has the write end; O_CLOEXEC takes it
\* from that child when it execs.
StrangerForks ==
    /\ stage = "fork"
    /\ writers' = writers \cup {"stranger"}
    /\ UNCHANGED <<stage, child, pipe, written, outVars, timeVars, result>>

StrangerExecs ==
    /\ "stranger" \in writers
    /\ writers' = writers \ {"stranger"}
    /\ UNCHANGED <<stage, child, pipe, written, outVars, timeVars, result>>

\* Fault: a plain pipe(), which the child of the other thread keeps as long as it runs
StrangerKeepsPipe ==
    /\ "stranger" \in writers
    /\ UNCHANGED <<stage, writers, child, pipe, written, outVars, timeVars, result>>

Fork ==
    /\ stage = "fork"
    /\ \/ /\ child' = "running"
          /\ stage' = "poll"
          /\ writers' = (writers \ {"parent"}) \cup {"child"}
          /\ UNCHANGED result
       \/ /\ stage' = "done"
          /\ result' = "failed"
          /\ writers' = writers \ {"parent"}
          /\ UNCHANGED child
    /\ UNCHANGED <<pipe, written, outVars, timeVars>>

Writes ==
    /\ writers \cap {"child", "descendant"} # {}
    /\ written < MaxWrites
    /\ written' = written + 1
    /\ pipe' = Append(pipe, written + 1)
    /\ UNCHANGED <<stage, writers, child, outVars, timeVars, result>>

\* It starts a process in the background, closes its output, or ends; with SIGCHLD
\* ignored the kernel then reaps it by itself.
ChildActs ==
    /\ child = "running"
    /\ \/ /\ "child" \in writers
          /\ writers' \in {writers \cup {"descendant"}, writers \ {"child"}}
          /\ UNCHANGED child
       \/ /\ writers' = writers \ {"child"}
          /\ child' = IF ignored THEN "reaped" ELSE "zombie"
    /\ UNCHANGED <<stage, pipe, written, outVars, timeVars, result>>

DescendantEnds ==
    /\ "descendant" \in writers
    /\ writers' = writers \ {"descendant"}
    /\ UNCHANGED <<stage, child, pipe, written, outVars, timeVars, result>>

DeadlinePasses ==
    /\ stage = "poll"
    /\ limited /\ ~expired
    /\ expired' = TRUE
    /\ UNCHANGED <<stage, writers, child, pipe, written, outVars, limited, ignored, pollFailed,
                   result>>

-----------------------------------------------------------------------------
(* The loop                                                                 *)

\* The head is filled first, the tail keeps what came last
Keep(w) ==
    IF OutputCap = 0 \/ Len(head) < HeadCap
    THEN head' = Append(head, w) /\ UNCHANGED <<tail, truncated>>
    ELSE LET t == Append(tail, w) IN
         /\ tail' = IF Len(t) > TailCap THEN Tail(t) ELSE t
         /\ truncated' = (truncated \/ Len(t) > TailCap)
         /\ UNCHANGED head

ReadOutput ==
    /\ stage = "poll"
    /\ pipe # <<>>
    /\ pipe' = Tail(pipe)
    /\ Keep(Head(pipe))
    /\ UNCHANGED <<stage, writers, child, written, timeVars, result>>

\* End of file: everybody has closed the pipe.  While waitpid does not give the
\* child the loop goes on: it may run on all the same, or be gone already, in
\* which case waitpid fails for ever.
ReadEof ==
    /\ stage = "poll"
    /\ pipe = <<>> /\ writers = {}
    /\ child = "zombie"
    /\ child' = "reaped"
    /\ stage' = "reap"
    /\ UNCHANGED <<writers, pipe, written, outVars, timeVars, result>>

TimesOut ==
    /\ stage = "poll"
    /\ expired
    /\ stage' = "kill"
    /\ UNCHANGED <<writers, child, pipe, written, outVars, timeVars, result>>

\* poll or read fails: the child is waited for without a limit
PollFails ==
    /\ stage = "poll"
    /\ stage' = "reap"
    /\ pollFailed' = TRUE
    /\ UNCHANGED <<writers, child, pipe, written, outVars, limited, ignored, expired, result>>

\* SIGKILL to the shell alone, and a wait
KillChild ==
    /\ stage = "kill"
    /\ child' = "reaped"
    /\ writers' = writers \ {"child"}
    /\ stage' = "done"
    /\ result' = "timeout"
    /\ UNCHANGED <<pipe, written, outVars, timeVars>>

\* Fault: a child that has not ended yet is left behind
ReapOrLeave ==
    /\ stage = "reap"
    /\ child' = IF child = "running" THEN "running" ELSE "reaped"
    /\ stage' = "done"
    /\ result' = "status"
    /\ UNCHANGED <<writers, pipe, written, outVars, timeVars>>

ReapChild ==
    /\ stage = "reap"
    /\ child \in {"zombie", "reaped"}
    /\ child' = "reaped"
    /\ stage' = "done"
    /\ result' = "status"
    /\ UNCHANGED <<writers, pipe, written, outVars, timeVars>>

CallStep == Fork \/ ReadOutput \/ ReadEof \/ TimesOut \/ KillChild \/ ReapChild

Next ==
    \/ StrangerForks \/ StrangerExecs
    \/ Writes \/ ChildActs \/ DescendantEnds \/ DeadlinePasses
    \/ PollFails
    \/ CallStep

Spec == Init /\ [][Next]_execVars

\* The call goes on, time passes and a fork is followed by its exec; the command
\* need never end.
Fairness ==
    /\ WF_execVars(CallStep)
    /\ WF_execVars(DeadlinePasses)
    /\ WF_execVars(StrangerExecs)

FairSpec == Spec /\ Fairness

-----------------------------------------------------------------------------
(* Properties                                                               *)

FirstOf(n) == [i \in 1..n |-> i]

\* A call leaves no zombie and no running shell (what the shell has started may
\* run on, with the pipe), and a status comes with all the output, but for its
\* middle where that is too much, unless poll or read failed.
ExecAgrees ==
    /\ stage = "done" => child \in {"none", "reaped"}
    /\ result = "status" /\ ~pollFailed =>
         /\ head = FirstOf(Len(head))
         /\ truncated <=> OutputCap > 0 /\ written > OutputCap
         /\ tail = [i \in 1..Len(tail) |-> written - Len(tail) + i]
         /\ Len(head) + Len(tail) = IF truncated THEN OutputCap ELSE written

\* A call with a limit returns; one without returns once the command and all it
\* started have let go of the pipe, unless SIGCHLD is ignored.  Neither is so when
\* poll or read failed.
ExecReturns ==
    limited \/ (child = "zombie" /\ writers \subseteq {"stranger"})
        ~> stage = "done" \/ pollFailed
=============================================================================
