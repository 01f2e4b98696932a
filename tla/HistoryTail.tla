------------------------------ MODULE HistoryTail ------------------------------
(***************************************************************************)
(* How GetHistory finds the last messages of a transcript without reading  *)
(* all of it (src/session/session_manager.cpp).  tail_lines reads chunks   *)
(* from the end until it has seen enough line ends; GetHistory widens the  *)
(* window until there are enough messages among the lines.                 *)
(*                                                                         *)
(* A file is a sequence of lines, [size, message]: how many bytes a line   *)
(* has, its end included, and whether it is a record of type "message".    *)
(***************************************************************************)
EXTENDS Integers, Sequences, FiniteSets

CONSTANTS
    ChunkSize, \* kChunk
    Spare,     \* the 16 in `want * 2 + 16`
    Growth     \* the 4 in `window *= 4`

Last(s, n) == IF Len(s) > n THEN SubSeq(s, Len(s) - n + 1, Len(s)) ELSE s

\* The offset of the first byte behind line i.
EndOf(file) ==
    LET at[i \in 0..Len(file)] == IF i = 0 THEN 0 ELSE at[i - 1] + file[i].size
    IN  at

\* The file is read from `start` on; a line's newline is its last byte.
Newlines(file, start) == {i \in DOMAIN file : EndOf(file)[i] > start}

\* Where the walk stops: one newline more than lines are wanted, as the line
\* the walk stops in may have been cut.
Stops(file, start, want) == start = 0 \/ Cardinality(Newlines(file, start)) > want

ReadFrom(file, want) ==
    LET from[start \in 0..EndOf(file)[Len(file)]] ==
            IF Stops(file, start, want) THEN start
            ELSE from[IF start > ChunkSize THEN start - ChunkSize ELSE 0]
    IN  from[EndOf(file)[Len(file)]]

\* The lines of the part that was read, without the first one unless the walk
\* reached the beginning of the file.
TailLines(file, want) ==
    LET start == ReadFrom(file, want)
        seen  == SelectSeq([i \in DOMAIN file |-> i], LAMBDA i : i \in Newlines(file, start))
        kept  == IF start > 0 THEN Tail(seen) ELSE seen
    IN  [n \in 1..Len(Last(kept, want)) |-> file[Last(kept, want)[n]]]

Records(lines) == SelectSeq(lines, LAMBDA line : line.message)

\* The loop of GetHistory for `want` messages, with at most `fuel` passes.
History(file, want, fuel) ==
    LET try[n \in 0..fuel] ==
            LET window == (want * 2 + Spare) * Growth^(fuel - n)
                lines  == TailLines(file, window)
            IN  IF Len(Records(lines)) >= want \/ Len(lines) < window
                THEN Last(Records(lines), want)
                ELSE IF n = 0 THEN <<>> ELSE try[n - 1]
    IN  try[fuel]
===============================================================================
