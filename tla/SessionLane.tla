----------------------------- MODULE SessionLane -----------------------------
(***************************************************************************)
(* What class SessionLane does to its deque pending_                       *)
(* (src/gateway/command_queue.cpp:95-242).  A lane is a sequence of        *)
(* command ids, oldest first; the overflow loop and the interrupt loop are *)
(* given in closed form (MCLaneOverflow runs the loop itself against this  *)
(* form).                                                                  *)
(***************************************************************************)
EXTENDS Integers, SequencesExt

DropPolicies == {"summarize", "drop-oldest", "reject"}
QueueModes   == {"collect", "followup", "steer", "steer-backlog", "interrupt"}

\* Fault: one command too many may stay.
ExcessOffByOne(q, cap) == IF Len(q) > cap + 1 THEN Len(q) - cap - 1 ELSE 0

\* How many passes the loop `while (size > cap)` makes: a cap that is not
\* positive leaves it after a single pass.
Excess(q, cap) ==
    IF cap >= 1 THEN (IF Len(q) > cap THEN Len(q) - cap ELSE 0)
                ELSE (IF Len(q) > cap THEN 1 ELSE 0)

\* "summarize" folds a pass's second-oldest command into the oldest one and
\* needs two commands to do so.
Merges(q, cap) ==
    IF Excess(q, cap) < Len(q) THEN Excess(q, cap) ELSE Len(q) - 1

\* ApplyCapOverflow: what is left of a queue that just got a command.
Trimmed(q, cap, drop) ==
    IF drop = "summarize" THEN <<Head(q)>> \o SubSeq(q, Merges(q, cap) + 2, Len(q))
    ELSE IF drop = "drop-oldest" THEN SubSeq(q, Excess(q, cap) + 1, Len(q))
    ELSE SubSeq(q, 1, Len(q) - Excess(q, cap))      \* "reject"

\* InterruptActive pops the front while more than one command is pending.
KeptByInterrupt(q) == IF Len(q) > 1 THEN <<q[Len(q)]>> ELSE q

\* Oldest first: the ids of a lane's queue grow.
Ordered(q) == \A i, j \in DOMAIN q : i < j => q[i] < q[j]
=============================================================================
