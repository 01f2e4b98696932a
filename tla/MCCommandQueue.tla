---------------------------- MODULE MCCommandQueue ----------------------------
(* Constants for the TLC runs of CommandQueue. *)
EXTENDS CommandQueue

Cfg(max, m, cap, d) == [max_concurrent |-> max, mode |-> m, cap |-> cap, drop |-> d]
Lane(m, cap, d)     == [mode |-> m, cap |-> cap, drop |-> d]

Symmetric == Permutations(Sessions)

\* One slot, or two, and room for two pending commands a lane.
OneSlot   == {Cfg(1, "collect", 2, "summarize")}
TwoSlots  == {Cfg(2, "collect", 2, "summarize")}
NoLanes   == {}

\* The limit moves between one and two; lanes may be switched to another
\* overflow policy, another mode and a cap of zero.
MovingLimit == {Cfg(max, "collect", 1, "drop-oldest") : max \in 1..2}
OddLanes    == {Lane("followup", 2, "reject"), Lane("collect", 0, "summarize")}
=============================================================================
