---------------------------- MODULE MCSessionStore ----------------------------
(***************************************************************************)
(* The instances of SessionStore for TLC, and a check of HistoryTail       *)
(* against what it is to return: the last messages of the whole file.      *)
(***************************************************************************)
EXTENDS SessionStore

\* The constants of the source (64 KiB, 16, 4), scaled down so that a file of
\* five lines spans several chunks and several windows.
Reader(chunk) == INSTANCE HistoryTail WITH ChunkSize <- chunk, Spare <- 0, Growth <- 2

MaxLines == 5
Lines == [size : 1..3, message : BOOLEAN]
Files == UNION {[1..n -> Lines] : n \in 1..MaxLines}

ASSUME HistoryIsLastMessages ==
    \A file \in Files, want \in 1..2, chunk \in {2, 4} :
        Reader(chunk)!History(file, want, 3)
            = Reader(chunk)!Last(Reader(chunk)!Records(file), want)
===============================================================================
