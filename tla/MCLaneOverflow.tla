---------------------------- MODULE MCLaneOverflow ----------------------------
EXTENDS MCCommandQueue

(***************************************************************************)
(* ApplyCapOverflow as the loop of the source, pass by pass, against the   *)
(* closed form Trimmed, for all queues of up to MaxLen commands, caps and  *)
(* policies.  A cap that is not positive ends the loop after one pass.     *)
(***************************************************************************)
MaxLen == 6

LoopPass(q, drop) ==
    CASE drop = "summarize"   -> IF Len(q) >= 2 THEN RemoveAt(q, 2) ELSE q
      [] drop = "drop-oldest" -> Tail(q)
      [] drop = "reject"      -> SubSeq(q, 1, Len(q) - 1)

Loop(q0, cap, drop) ==
    LET after[n \in 0..MaxLen] ==
            IF n = 0 THEN q0
            ELSE IF Len(after[n-1]) > cap /\ (cap > 0 \/ n = 1)
                 THEN LoopPass(after[n-1], drop) ELSE after[n-1]
    IN  after[MaxLen]

ASSUME OverflowLoopIsTrimmed ==
    \A n \in 1..MaxLen, cap \in -1..MaxLen, drop \in DropPolicies :
        LET q == [i \in 1..n |-> i] IN Loop(q, cap, drop) = Trimmed(q, cap, drop)
===============================================================================
