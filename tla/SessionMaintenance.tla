--------------------------- MODULE SessionMaintenance ---------------------------
(***************************************************************************)
(* Sweeps over the directory of the transcripts                            *)
(* (session/session_maintenance.cpp) while sessions append to them.  A     *)
(* sweep takes no lock of the session manager and runs its four steps on   *)
(* whatever the directory holds when each begins.                          *)
(*                                                                         *)
(* A file is named by a sequence: <<s>> is the transcript of session s,    *)
(* <<s, 4>> what was archived of it at time 4, <<s, 4, 6>> what was        *)
(* archived of that; <<"index">> is sessions.json.                         *)
(* The size of a transcript is that of its messages, that of the index 1.  *)
(***************************************************************************)
EXTENDS Integers, Sequences, FiniteSets

LOCAL INSTANCE FiniteSetsExt

CONSTANTS Session,
          PruneAfter, MaxEntries, RotateSize, MaxDisk,   \* 0 disables a step
          MessageSize,     \* what a message occupies
          OtherSize,       \* what files other than transcripts occupy
          MaxGenerations,  \* bound: how often the same sweep archives an archive
          MaxSweeps,       \* bound: sweeps
          MaxMessages,     \* bound: messages ever appended
          MaxTime          \* bound: the last second

VARIABLES mode,            \* config_.mode
          clock,           \* seconds
          files,           \* the directory: messages and mtime of each file
          phase,           \* the step of the sweep that comes next
          left,            \* rotation: the files it has still to visit
          emptying,        \* rotation: the file it archived, not yet emptied
          sweeps,          \* sweeps begun
          written,         \* history: messages appended so far
          excused          \* history: messages in a file that was removed, that could
                           \* not be archived, that another archive was renamed
                           \* over, or that was appended to between the renaming
                           \* and the truncation

maintVars == <<mode, clock, files, phase, left, emptying, sweeps, written, excused>>

\* sessions.json is no session's transcript.
MaintenanceAssumption ==
    /\ "index" \notin Session
    /\ MaxSweeps \in Nat /\ MaxMessages \in Nat /\ MaxTime \in Nat

Phases == {"rest", "prune", "entries", "rotate", "rotating", "disk"}
Index == <<"index">>

TypeOK ==
    /\ mode \in {"warn", "enforce"}
    /\ clock \in 0..MaxTime
    /\ \A f \in DOMAIN files :
         /\ files[f].msgs \subseteq 1..MaxMessages
         /\ files[f].mtime \in 0..MaxTime
    /\ phase \in Phases
    /\ Index \notin left
    /\ emptying # <<>> => phase = "rotating" /\ emptying # Index
    /\ sweeps \in 0..MaxSweeps
    /\ written \in 0..MaxMessages
    /\ excused \subseteq 1..MaxMessages

Init ==
    /\ mode \in {"warn", "enforce"}
    /\ clock = 0
    /\ files = [f \in {Index} |-> [msgs |-> {}, mtime |-> 0]]
    /\ phase = "rest"
    /\ left = {}
    /\ emptying = <<>>
    /\ sweeps = 0
    /\ written = 0
    /\ excused = {}

Size(f) == IF f = Index THEN 1 ELSE MessageSize * Cardinality(files[f].msgs)
SizeOf(F) == MapThenSumSet(Size, F)
Held(F) == UNION {files[f].msgs : f \in F}

-----------------------------------------------------------------------------
(* The sessions                                                             *)

\* AppendMessage, as the session manager writes it: the transcript is created if
\* it is not there, and the index saved now or later.
AppendMessage(s) ==
    /\ written < MaxMessages
    /\ written' = written + 1
    /\ LET old == IF <<s>> \in DOMAIN files THEN files[<<s>>].msgs ELSE {}
           new == [msgs |-> old \cup {written + 1}, mtime |-> clock]
       IN  \E saved \in SUBSET {Index} :
             files' = [f \in DOMAIN files \cup {<<s>>} \cup saved |->
                         IF f = <<s>> THEN new
                         ELSE IF f \in saved THEN [msgs |-> {}, mtime |-> clock]
                         ELSE files[f]]
    /\ UNCHANGED <<mode, clock, phase, left, emptying, sweeps, excused>>

Tick ==
    /\ clock < MaxTime
    /\ clock' = clock + 1
    /\ UNCHANGED <<mode, files, phase, left, emptying, sweeps, written, excused>>

-----------------------------------------------------------------------------
(* Sweep                                                                    *)

SweepBegins ==
    /\ phase = "rest"
    /\ sweeps < MaxSweeps
    /\ sweeps' = sweeps + 1
    /\ phase' = "prune"
    /\ UNCHANGED <<mode, clock, files, left, emptying, written, excused>>

\* In warn mode nothing is removed.
Remove(F) ==
    IF mode = "warn"
    THEN UNCHANGED <<files, excused>>
    ELSE /\ files' = [f \in DOMAIN files \ F |-> files[f]]
         /\ excused' = excused \cup Held(F)

\* F is a beginning of get_session_files: no file outside it is older.
OldestOf(F) ==
    \A f \in F, g \in DOMAIN files \ F : files[f].mtime <= files[g].mtime

\* prune_old_sessions
PruneOld ==
    /\ phase = "prune"
    /\ phase' = "entries"
    /\ IF PruneAfter > 0
       THEN Remove({f \in DOMAIN files : files[f].mtime < clock - PruneAfter})
       ELSE UNCHANGED <<files, excused>>
    /\ UNCHANGED <<mode, clock, left, emptying, sweeps, written>>

\* enforce_max_entries
EnforceMaxEntries ==
    /\ phase = "entries"
    /\ phase' = "rotate"
    /\ LET excess == Cardinality(DOMAIN files) - MaxEntries IN
       IF MaxEntries > 0 /\ excess > 0
       THEN \E F \in SUBSET DOMAIN files :
              Cardinality(F) = excess /\ OldestOf(F) /\ Remove(F)
       ELSE UNCHANGED <<files, excused>>
    /\ UNCHANGED <<mode, clock, left, emptying, sweeps, written>>

Archive(f) == Append(f, clock)

\* Fault: the file is emptied before it is renamed
EmptiedThenArchived(f) ==
    [g \in (DOMAIN files \ {f}) \cup {Archive(f)} |->
        IF g = Archive(f) THEN [files[f] EXCEPT !.msgs = {}] ELSE files[g]]

\* archive_file: the file is renamed, over an archive of the same second if there
\* is one; an exception is only logged.
Archived(f) ==
    [g \in (DOMAIN files \ {f}) \cup {Archive(f)} |->
        IF g = Archive(f) THEN files[f] ELSE files[g]]

\* rotate_large_files visits the directory in any order.  Archives end in .jsonl
\* too: those of earlier sweeps are visited, those it makes itself may be or not.
RotateBegins ==
    /\ phase = "rotate"
    /\ IF RotateSize > 0 /\ mode = "enforce"
       THEN phase' = "rotating" /\ left' = DOMAIN files \ {Index}
       ELSE phase' = "disk" /\ UNCHANGED left
    /\ UNCHANGED <<mode, clock, files, emptying, sweeps, written, excused>>

ArchiveLarge(f) ==
    /\ phase = "rotating"
    /\ emptying = <<>>
    /\ f \in left \cap DOMAIN files
    /\ IF Size(f) <= RotateSize
       THEN /\ left' = left \ {f}
            /\ UNCHANGED <<files, emptying, excused>>
       ELSE /\ emptying' = f
            /\ \/ /\ files' = Archived(f)
                  /\ excused' = excused \cup
                       IF Archive(f) \in DOMAIN files THEN files[Archive(f)].msgs ELSE {}
                  /\ \/ left' = left \ {f}
                     \/ left' = (left \ {f}) \cup {Archive(f)} /\ Len(f) < MaxGenerations
               \/ /\ excused' = excused \cup files[f].msgs
                  /\ left' = left \ {f}
                  /\ UNCHANGED files
    /\ UNCHANGED <<mode, clock, phase, sweeps, written>>

\* The original is then opened for truncation, whether it was archived or not;
\* what a session appended to it in between is lost.
EmptyLarge ==
    /\ emptying # <<>>
    /\ files' = [g \in DOMAIN files \cup {emptying} |->
                   IF g = emptying THEN [msgs |-> {}, mtime |-> clock] ELSE files[g]]
    /\ excused' = excused \cup
          IF emptying \in DOMAIN files THEN files[emptying].msgs ELSE {}
    /\ emptying' = <<>>
    /\ UNCHANGED <<mode, clock, phase, left, sweeps, written>>

RotateEnds ==
    /\ phase = "rotating"
    /\ emptying = <<>>
    /\ left \cap DOMAIN files = {}
    /\ phase' = "disk"
    /\ UNCHANGED <<mode, clock, files, left, emptying, sweeps, written, excused>>

\* enforce_disk_limit: oldest first until the directory as a whole is small enough
EnforceDiskLimit ==
    /\ phase = "disk"
    /\ phase' = "rest"
    /\ LET total == SizeOf(DOMAIN files) + OtherSize IN
       IF MaxDisk > 0 /\ total > MaxDisk
       THEN \E F \in SUBSET DOMAIN files :
              /\ OldestOf(F)
              /\ total - SizeOf(F) <= MaxDisk \/ F = DOMAIN files
              /\ \E last \in F : /\ OldestOf(F \ {last})
                                 /\ total - SizeOf(F \ {last}) > MaxDisk
              /\ Remove(F)
       ELSE UNCHANGED <<files, excused>>
    /\ UNCHANGED <<mode, clock, left, emptying, sweeps, written>>

Next ==
    \/ \E s \in Session : AppendMessage(s)
    \/ Tick
    \/ SweepBegins \/ PruneOld \/ EnforceMaxEntries
    \/ RotateBegins \/ \E f \in left : ArchiveLarge(f)
    \/ EmptyLarge \/ RotateEnds
    \/ EnforceDiskLimit

Spec == Init /\ [][Next]_maintVars

-----------------------------------------------------------------------------
(* Properties                                                               *)

\* Rotation and the interplay of the steps lose nothing: a message that no file
\* holds was in a file that was removed on purpose, or could not be archived, or
\* whose archive was renamed over within one second, or it was appended to a file
\* between its archiving and its emptying; in warn mode none is.  No message is
\* held twice.
MessagesAccounted ==
    /\ 1..written \subseteq Held(DOMAIN files) \cup excused
    /\ mode = "warn" => excused = {}
    /\ \A f, g \in DOMAIN files :
         f # g => files[f].msgs \cap files[g].msgs = {}
=============================================================================
