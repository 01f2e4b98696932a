---------------------------- MODULE SerialSessions ----------------------------
(***************************************************************************)
(* What a command queue that is never interrupted promises: commands wait  *)
(* per session, at most one command per session executes, at most `limit`  *)
(* in all when one begins, the oldest waiting command begins first, and a  *)
(* command begins at most once.  It does not promise that a waiting        *)
(* command is ever executed: it may be given up.                           *)
(***************************************************************************)
EXTENDS Integers, FiniteSets

CONSTANTS Sessions, Commands
VARIABLES limit,      \* how many commands may execute
          used,       \* ids that have been submitted
          waiting,    \* per session, the waiting commands
          executing   \* per session, the executing commands

serialVars == <<limit, used, waiting, executing>>

Executing == UNION {executing[s] : s \in Sessions}

Init ==
    /\ limit \in Int
    /\ used = {}
    /\ waiting = [s \in Sessions |-> {}]
    /\ executing = [s \in Sessions |-> {}]

\* A new command may push out waiting ones, or be turned away itself.
Accept(s, c) ==
    /\ c \notin used
    /\ used' = used \cup {c}
    /\ waiting' \in [Sessions -> SUBSET Commands]
    /\ \A r \in Sessions : waiting'[r] \subseteq waiting[r] \cup (IF r = s THEN {c} ELSE {})
    /\ UNCHANGED <<limit, executing>>

GiveUp ==
    /\ waiting' \in [Sessions -> SUBSET Commands]
    /\ \A s \in Sessions : waiting'[s] \subseteq waiting[s]
    /\ UNCHANGED <<limit, used, executing>>

\* The sessions in S each begin their oldest command c[s].
Begin(S) ==
    \E c \in [S -> Commands] :
        /\ \A s \in S : /\ executing[s] = {}
                        /\ c[s] \in waiting[s]
                        /\ \A d \in waiting[s] : c[s] <= d
        /\ executing' = [s \in Sessions |-> IF s \in S THEN {c[s]} ELSE executing[s]]
        /\ Cardinality(Executing') <= limit
        /\ waiting' \in [Sessions -> SUBSET Commands]
        /\ \A s \in Sessions : waiting'[s] \subseteq waiting[s] \ (IF s \in S THEN {c[s]} ELSE {})
        /\ UNCHANGED <<limit, used>>

End(s) ==
    /\ executing' = [executing EXCEPT ![s] = {}]
    /\ UNCHANGED <<limit, used, waiting>>

SetLimit ==
    /\ limit' \in Int
    /\ UNCHANGED <<used, waiting, executing>>

Next ==
    \/ \E s \in Sessions, c \in Commands : Accept(s, c)
    \/ GiveUp
    \/ \E S \in (SUBSET Sessions) \ {{}} : Begin(S)
    \/ \E s \in Sessions : End(s)
    \/ SetLimit

Spec == Init /\ [][Next]_serialVars
=============================================================================
