----------------------------- MODULE SessionStore -----------------------------
(***************************************************************************)
(* SessionManager (src/session/session_manager.cpp): the index of sessions *)
(* in store_ and in sessions.json, and one transcript file per session id, *)
(* to which threads append.  mutex_ guards the index, a mutex per session  *)
(* the appends of AppendMessage; AppendTranscriptEntry (the "entries")     *)
(* writes under mutex_ alone.  Every message is appended by a thread of    *)
(* its own.                                                                *)
(*                                                                         *)
(* Files are inodes, as a thread that has opened a transcript goes on      *)
(* writing to it after it was renamed or removed.  A long record reaches   *)
(* the file in two writes, its text and its end of line.                   *)
(***************************************************************************)
EXTENDS SequencesExt, FiniteSets

CONSTANTS
    Keys,          \* session keys
    Messages,      \* records to be appended, each once
    Entries,       \* those AppendTranscriptEntry appends
    Long,          \* those written in two parts
    MaxIds,        \* bound on the session ids generated
    MaxInodes,     \* bound on the transcript files created
    DiskFails      \* whether sessions.json may fail to be written

Nobody == "nobody"

ASSUME SessionAssumption ==
    /\ Entries \subseteq Messages /\ Long \subseteq Messages
    /\ Nobody \notin Messages
    /\ MaxIds \in Nat /\ MaxInodes \in Nat /\ DiskFails \in BOOLEAN

Ids    == 1..MaxIds
Inodes == 1..MaxInodes
None   == 0

VARIABLES
    up,            \* the gateway's process exists
    store,         \* the session id of each key in store_
    dirty,         \* store_dirty_
    mutex,         \* the operation that holds mutex_ over several steps
    locks,         \* who holds the lock of a session
    index,         \* sessions.json
    unsaved,       \* the last write of sessions.json failed
    ids,           \* session ids generated
    path,          \* the inode under the path of a session id
    inodes,        \* inodes created
    content        \* what is in them

VARIABLES          \* the appends
    where,         \* how far each has come
    key,           \* the session it is for
    target,        \* the session id it looked up
    fd,            \* the inode it has opened
    cut            \* ids a crash left in the index without their transcript

storeVars == <<store, dirty, index, unsaved>>
fileVars  == <<path, inodes, content>>
appendVars == <<where, key, target, fd>>
vars == <<up, storeVars, mutex, locks, ids, fileVars, appendVars, cut>>

Free      == [op |-> "free", who |-> Nobody]
MutexFree == up /\ mutex = Free
InFlight  == {"captured", "writing", "written", "flushing"}

Init ==
    /\ up = TRUE
    /\ store = [k \in Keys |-> None] /\ index = store
    /\ dirty = FALSE /\ unsaved = FALSE
    /\ mutex = Free /\ locks = [k \in Keys |-> Nobody]
    /\ ids = 0 /\ inodes = 0
    /\ path = [i \in Ids |-> None] /\ content = [n \in Inodes |-> <<>>]
    /\ where = [m \in Messages |-> "new"]
    /\ key = [m \in Messages |-> Nobody]
    /\ target = [m \in Messages |-> None] /\ fd = [m \in Messages |-> None]
    /\ cut = {}
-------------------------------------------------------------------------------
\* save_store_locked: sessions.json is replaced as a whole, or the write fails
\* and is only logged.
SaveStore(s) ==
    \/ index' = s /\ dirty' = FALSE /\ unsaved' = FALSE
    \/ DiskFails /\ unsaved' = TRUE /\ UNCHANGED <<index, dirty>>

\* GetOrCreate of a session that is not there.
Create(k) ==
    /\ MutexFree /\ store[k] = None /\ ids < MaxIds
    /\ ids' = ids + 1
    /\ store' = [store EXCEPT ![k] = ids + 1]
    /\ SaveStore(store')
    /\ UNCHANGED <<up, mutex, locks, fileVars, appendVars, cut>>

UpdateDisplayName(k) ==
    /\ MutexFree /\ store[k] # None
    /\ SaveStore(store)
    /\ UNCHANGED <<up, store, mutex, locks, ids, fileVars, appendVars, cut>>

\* DeleteSession and ResetSession first remove or rename the transcript, then
\* change the index and save it, all under mutex_.  The file of a reset keeps
\* its inode under another name.
TakeFile(k, op) ==
    /\ MutexFree /\ store[k] # None
    /\ mutex' = [op |-> op, who |-> k]
    /\ path' = [path EXCEPT ![store[k]] = None]
    /\ UNCHANGED <<up, storeVars, locks, ids, inodes, content, appendVars, cut>>

\* Fault for DeleteEnds: the session stays in sessions.json.
DeleteForgetsToSave(k) ==
    /\ mutex = [op |-> "delete", who |-> k]
    /\ mutex' = Free
    /\ store' = [store EXCEPT ![k] = None]
    /\ UNCHANGED <<up, dirty, index, unsaved, locks, ids, fileVars, appendVars, cut>>
DeleteEnds(k) ==
    /\ mutex = [op |-> "delete", who |-> k]
    /\ mutex' = Free
    /\ store' = [store EXCEPT ![k] = None]
    /\ SaveStore(store')
    /\ UNCHANGED <<up, locks, ids, fileVars, appendVars, cut>>

\* Fault for ResetEnds: the session keeps its id.
ResetKeepsId(k) ==
    /\ mutex = [op |-> "reset", who |-> k]
    /\ mutex' = Free
    /\ SaveStore(store)
    /\ UNCHANGED <<up, store, locks, ids, fileVars, appendVars, cut>>
ResetEnds(k) ==
    /\ mutex = [op |-> "reset", who |-> k] /\ ids < MaxIds
    /\ mutex' = Free
    /\ ids' = ids + 1
    /\ store' = [store EXCEPT ![k] = ids + 1]
    /\ SaveStore(store')
    /\ UNCHANGED <<up, locks, fileVars, appendVars, cut>>
-------------------------------------------------------------------------------
(***************************************************************************)
(* Appends.  A record is written to the file that is under the path when   *)
(* the path is opened; std::ios::app creates one if there is none.         *)
(***************************************************************************)
Chunk(m, part) == [msg |-> m, part |-> part]

OpenAndWrite(m, id) ==
    LET n == IF path[id] = None THEN inodes + 1 ELSE path[id] IN
    /\ n <= MaxInodes
    /\ inodes' = IF path[id] = None THEN n ELSE inodes
    /\ path' = [path EXCEPT ![id] = n]
    /\ fd' = [fd EXCEPT ![m] = n]
    /\ content' = [content EXCEPT ![n] =
                      Append(@, Chunk(m, IF m \in Long THEN "text" ELSE "line"))]

WriteEnd(m) ==
    content' = IF m \in Long THEN [content EXCEPT ![fd[m]] = Append(@, Chunk(m, "end"))]
               ELSE content

\* AppendMessage: the path is looked up under mutex_.
LookUp(m, k) ==
    /\ MutexFree /\ where[m] = "new" /\ m \notin Entries
    /\ store[k] # None
    /\ where' = [where EXCEPT ![m] = "captured"]
    /\ key' = [key EXCEPT ![m] = k] /\ target' = [target EXCEPT ![m] = store[k]]
    /\ dirty' = TRUE
    /\ UNCHANGED <<up, store, index, unsaved, mutex, locks, ids, fileVars, fd, cut>>

\* Its write, under the lock of the session.  Fault: there is no such lock.
WriteUnlocked(m) ==
    /\ up /\ where[m] = "captured"
    /\ where' = [where EXCEPT ![m] = "writing"]
    /\ OpenAndWrite(m, target[m])
    /\ UNCHANGED <<up, storeVars, mutex, locks, ids, key, target, cut>>
Write(m) ==
    /\ up /\ where[m] = "captured"
    /\ locks[key[m]] = Nobody
    /\ locks' = [locks EXCEPT ![key[m]] = m]
    /\ where' = [where EXCEPT ![m] = "writing"]
    /\ OpenAndWrite(m, target[m])
    /\ UNCHANGED <<up, storeVars, mutex, ids, key, target, cut>>

\* Fault for Close: the lock is not released.
CloseKeepsLock(m) ==
    /\ up /\ where[m] = "writing" /\ m \notin Entries
    /\ WriteEnd(m)
    /\ where' = [where EXCEPT ![m] = "flushing"]
    /\ UNCHANGED <<up, storeVars, mutex, locks, ids, path, inodes, key, target, fd, cut>>
Close(m) ==
    /\ up /\ where[m] = "writing" /\ m \notin Entries
    /\ WriteEnd(m)
    /\ locks' = [locks EXCEPT ![key[m]] = Nobody]
    /\ where' = [where EXCEPT ![m] = "flushing"]
    /\ UNCHANGED <<up, storeVars, mutex, ids, path, inodes, key, target, fd, cut>>

\* maybe_flush_store: nothing to do, too early, or a save.
MaybeFlush(m) ==
    /\ up /\ where[m] = "flushing"
    /\ where' = [where EXCEPT ![m] = "done"]
    /\ \/ UNCHANGED <<index, dirty, unsaved>>
       \/ dirty /\ MutexFree /\ SaveStore(store)
    /\ UNCHANGED <<up, store, mutex, locks, ids, fileVars, key, target, fd, cut>>

\* AppendTranscriptEntry: look-up, write and save under one hold of mutex_.
WriteEntry(m, k) ==
    /\ MutexFree /\ where[m] = "new" /\ m \in Entries
    /\ store[k] # None
    /\ mutex' = [op |-> "entry", who |-> k]
    /\ where' = [where EXCEPT ![m] = "writing"]
    /\ key' = [key EXCEPT ![m] = k] /\ target' = [target EXCEPT ![m] = store[k]]
    /\ OpenAndWrite(m, store[k])
    /\ UNCHANGED <<up, storeVars, locks, ids, cut>>

CloseEntry(m) ==
    /\ up /\ where[m] = "writing" /\ m \in Entries
    /\ WriteEnd(m)
    /\ SaveStore(store)
    /\ mutex' = Free
    /\ where' = [where EXCEPT ![m] = "done"]
    /\ UNCHANGED <<up, store, locks, ids, path, inodes, key, target, fd, cut>>

\* Both give up on a session that is not there.
Refuse(m, k) ==
    /\ MutexFree /\ where[m] = "new" /\ store[k] = None
    /\ where' = [where EXCEPT ![m] = "refused"]
    /\ UNCHANGED <<up, storeVars, mutex, locks, ids, fileVars, key, target, fd, cut>>
-------------------------------------------------------------------------------
(***************************************************************************)
(* The end of the process, and the next one.                               *)
(***************************************************************************)
Ends ==
    /\ up' = FALSE /\ dirty' = FALSE
    /\ store' = [k \in Keys |-> None]
    /\ mutex' = Free /\ locks' = [k \in Keys |-> Nobody]
    /\ where' = [m \in Messages |-> IF where[m] \in InFlight THEN "lost" ELSE where[m]]
    /\ UNCHANGED <<ids, fileVars, key, target, fd>>

Crash ==
    /\ up /\ Ends
    /\ cut' = cut \cup {index[k] : k \in {q \in Keys : index[q] # None /\
                            (index[q] # store[q] \/ mutex \in
                                {[op |-> op, who |-> q] : op \in {"delete", "reset"}})}}
    /\ UNCHANGED <<index, unsaved>>

\* The destructor, when no thread is in a call: FlushStore.
Shutdown ==
    /\ MutexFree /\ \A m \in Messages : where[m] \notin InFlight
    /\ up' = FALSE
    /\ \/ dirty /\ index' = store /\ unsaved' = FALSE
       \/ (~dirty \/ DiskFails) /\ UNCHANGED <<index, unsaved>>
    /\ dirty' = FALSE /\ store' = [k \in Keys |-> None]
    /\ cut' = cut \cup {index'[k] : k \in {q \in Keys : index'[q] \notin {None, store[q]}}}
    /\ UNCHANGED <<mutex, locks, ids, fileVars, appendVars>>

\* LoadStore.
Restart ==
    /\ ~up
    /\ up' = TRUE /\ store' = index /\ unsaved' = FALSE
    /\ UNCHANGED <<dirty, index, mutex, locks, ids, fileVars, appendVars, cut>>
-------------------------------------------------------------------------------
Structure(k) ==
    \/ Create(k) \/ UpdateDisplayName(k)
    \/ TakeFile(k, "delete") \/ DeleteEnds(k)
    \/ TakeFile(k, "reset") \/ ResetEnds(k)

AppendMessage(m) ==
    \/ \E k \in Keys : LookUp(m, k) \/ Refuse(m, k)
    \/ Write(m) \/ Close(m) \/ MaybeFlush(m)

AppendTranscriptEntry(m) ==
    \/ \E k \in Keys : WriteEntry(m, k)
    \/ CloseEntry(m)

Next ==
    \/ \E k \in Keys : Structure(k)
    \/ \E m \in Messages : AppendMessage(m) \/ AppendTranscriptEntry(m)
    \/ Crash \/ Shutdown \/ Restart

Spec == Init /\ [][Next]_vars
-------------------------------------------------------------------------------
\* Every variable holds a value of its type; the lock of a session is held by a
\* thread that writes to that session's transcript.
TypeOK ==
    /\ up \in BOOLEAN /\ dirty \in BOOLEAN /\ unsaved \in BOOLEAN
    /\ store \in [Keys -> Ids \cup {None}] /\ index \in [Keys -> Ids \cup {None}]
    /\ mutex.op \in {"free", "delete", "reset", "entry"}
    /\ locks \in [Keys -> Messages \cup {Nobody}]
    /\ \A k \in Keys : locks[k] # Nobody =>
            where[locks[k]] = "writing" /\ key[locks[k]] = k
    /\ ids \in 0..MaxIds /\ inodes \in 0..MaxInodes
    /\ path \in [Ids -> Inodes \cup {None}]
    /\ content \in [Inodes -> Seq([msg : Messages, part : {"line", "text", "end"}])]
    /\ where \in [Messages -> {"new", "done", "refused", "lost"} \cup InFlight]
    /\ target \in [Messages -> Ids \cup {None}] /\ fd \in [Messages -> Inodes \cup {None}]
    /\ cut \subseteq Ids

\* sessions.json names the sessions there are, with their ids, whenever nobody
\* holds mutex_, unless its last write failed: creating, deleting, renaming
\* and resetting a session are not left to the debounce.
IndexIsCurrent == MutexFree /\ ~unsaved => index = store

\* A record is a line of its own in the file, which GetHistory can parse.
LineAt(c, p)  == p \in DOMAIN c /\ c[p].part # "text"
Whole(c, m) ==
    \E p \in DOMAIN c :
        /\ p = 1 \/ LineAt(c, p - 1)
        /\ \/ c[p] = Chunk(m, "line")
           \/ c[p] = Chunk(m, "text") /\ p < Len(c) /\ c[p + 1] = Chunk(m, "end")

Writers(c) == {c[p].msg : p \in DOMAIN c}
CutShort(c) == \E m \in Writers(c) : where[m] = "lost"

\* The messages of AppendMessage never run into each other.  What can damage
\* one is an entry, which does not take the session's lock, or the beginning
\* of a line that a crash has left at the end of the file.
LinesStayWhole ==
    \A m \in Messages \ Entries : where[m] = "done" =>
        LET c == content[fd[m]] IN
        Whole(c, m) \/ CutShort(c) \/ Writers(c) \cap Entries # {}

\* A message that was appended is in the history of its session until that is
\* reset or deleted, also over restarts, unless the process ended after a
\* transcript was taken away and before sessions.json said so.
HistoryIsComplete ==
    \A m \in Messages :
        where[m] = "done" /\ MutexFree /\ store[key[m]] = target[m]
            /\ target[m] \notin cut
        => path[target[m]] = fd[m] /\ m \in Writers(content[fd[m]])
-------------------------------------------------------------------------------
\* session_manager.cppm:128 "One lock per session so [...] writes to the same
\* transcript stay ordered": the lines of two appends that return do not mix.
WritesStayOrdered ==
    \A m \in Messages : where[m] = "done" =>
        Whole(content[fd[m]], m) \/ CutShort(content[fd[m]])
===============================================================================
