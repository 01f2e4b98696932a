-------------------------- MODULE SessionStoreProofs --------------------------
(***************************************************************************)
(* Proofs about SessionStore, for any number of sessions, messages, ids    *)
(* and files.                                                              *)
(***************************************************************************)
EXTENDS SessionStore, Integers, SequenceTheorems, TLAPS

Opened  == {"writing", "flushing", "done"}
Started == Opened \cup {"captured"}
First(m) == Chunk(m, IF m \in Long THEN "text" ELSE "line")
Taking(k) == mutex \in {[op |-> op, who |-> k] : op \in {"delete", "reset"}}

\* What an append has in hand is of its type; it holds a lock as long as it
\* writes, that of its session or, as an entry, mutex_.
InHand ==
    /\ mutex \in [op : {"free", "delete", "reset", "entry"}, who : Keys \cup {Nobody}]
    /\ ~up => mutex = Free
    /\ key \in [Messages -> Keys \cup {Nobody}]
    /\ \A m \in Messages :
        /\ where[m] # "written"
        /\ where[m] \in Started => key[m] \in Keys /\ target[m] \in 1..ids
        /\ where[m] \in Opened => fd[m] \in 1..inodes
        /\ where[m] = "captured" => m \notin Entries
        /\ where[m] = "writing" =>
             IF m \in Entries THEN mutex.op = "entry" ELSE locks[key[m]] = m
    /\ \A m, n \in Entries : where[m] = "writing" /\ where[n] = "writing" => m = n
    /\ \A k \in Keys : locks[k] # Nobody => locks[k] \notin Entries
    /\ \A i \in Ids : path[i] \in 0..inodes

\* Ids are given out once, and to one session.
Owned ==
    /\ \A k \in Keys : store[k] \in 0..ids /\ index[k] \in 0..ids
    /\ \A k, q \in Keys : k # q =>
        /\ store[k] # None => store[k] # store[q] /\ store[k] # index[q]
        /\ index[k] # None => index[k] # index[q]

Saved == up /\ ~unsaved => index = store

Inv == TypeOK /\ InHand /\ Owned /\ Saved

LEMMA InitInv == Init => Inv
<1> SUFFICES ASSUME Init PROVE Inv
  OBVIOUS
<1> USE SessionAssumption
<1>1. TypeOK
  <2>1. content \in [Inodes -> Seq([msg : Messages, part : {"line", "text", "end"}])]
    <3>1. <<>> \in Seq([msg : Messages, part : {"line", "text", "end"}])
      BY EmptySeq
    <3> QED
      BY <3>1 DEF Init
  <2>2. /\ up \in BOOLEAN /\ dirty \in BOOLEAN /\ unsaved \in BOOLEAN
        /\ mutex.op \in {"free", "delete", "reset", "entry"}
        /\ locks = [k \in Keys |-> Nobody]
    BY DEF Init, Free
  <2>4. /\ store \in [Keys -> Ids \cup {None}] /\ index \in [Keys -> Ids \cup {None}]
        /\ ids \in 0..MaxIds /\ inodes \in 0..MaxInodes
    BY DEF Init
  <2>3. /\ path \in [Ids -> Inodes \cup {None}]
        /\ where \in [Messages -> {"new", "done", "refused", "lost"} \cup InFlight]
        /\ target \in [Messages -> Ids \cup {None}]
        /\ fd \in [Messages -> Inodes \cup {None}]
        /\ cut \subseteq Ids
    BY DEF Init
  <2> QED
    BY <2>1, <2>2, <2>3, <2>4 DEF TypeOK
<1>2. InHand
  BY DEF Init, InHand, Free, Started, Opened, Ids, None
<1>3. Owned /\ Saved
  BY DEF Init, Owned, Saved, None
<1> QED
  BY <1>1, <1>2, <1>3 DEF Inv

\* What the first write of a record does, whether or not there is a file.
LEMMA Opening ==
    ASSUME TypeOK, NEW m \in Messages, NEW i \in Ids, OpenAndWrite(m, i)
    PROVE  \E n \in Inodes :
             /\ \/ path[i] = n /\ inodes' = inodes
                \/ path[i] = None /\ n = inodes + 1 /\ inodes' = n
             /\ path' = [path EXCEPT ![i] = n]
             /\ fd' = [fd EXCEPT ![m] = n]
             /\ content' = [content EXCEPT ![n] = Append(content[n], First(m))]
<1> DEFINE n == IF path[i] = None THEN inodes + 1 ELSE path[i]
<1>1. /\ n <= MaxInodes
      /\ inodes' = IF path[i] = None THEN n ELSE inodes
      /\ path' = [path EXCEPT ![i] = n]
      /\ fd' = [fd EXCEPT ![m] = n]
      /\ content' = [content EXCEPT ![n] = Append(content[n], First(m))]
  BY DEF OpenAndWrite, First
<1>2. /\ n \in Inodes
      /\ path[i] # None => path[i] = n
      /\ path[i] = None => n = inodes + 1
  BY <1>1, SessionAssumption DEF TypeOK, Inodes, None
<1> HIDE DEF n
<1> QED
  BY <1>1, <1>2
(***************************************************************************)
(* One lemma per action: it keeps the invariant.                           *)
(***************************************************************************)

LEMMA CreateInv ==
    ASSUME Inv, NEW k \in Keys, Create(k)
    PROVE  Inv'
<1> USE SessionAssumption
<1>1. TypeOK'
  <2>1. up' \in BOOLEAN /\ dirty' \in BOOLEAN /\ unsaved' \in BOOLEAN
    BY DEF Inv, Create, TypeOK, MutexFree, storeVars, fileVars, appendVars, SaveStore,
       Ends
  <2>2. /\ store' \in [Keys -> Ids \cup {None}] /\ index' \in [Keys -> Ids \cup {None}]
        /\ ids' \in 0..MaxIds
    BY DEF Inv, Create, TypeOK, MutexFree, storeVars, fileVars, appendVars, SaveStore,
       Ends, Ids, None
  <2>3. /\ locks' \in [Keys -> Messages \cup {Nobody}]
        /\ \A q \in Keys : locks'[q] # Nobody =>
             where'[locks'[q]] = "writing" /\ key'[locks'[q]] = q
    BY DEF Inv, Create, TypeOK, MutexFree, storeVars, fileVars, appendVars, InHand, Ends
  <2>4. /\ inodes' \in 0..MaxInodes /\ path' \in [Ids -> Inodes \cup {None}]
        /\ fd' \in [Messages -> Inodes \cup {None}]
    BY DEF Inv, Create, TypeOK, MutexFree, storeVars, fileVars, appendVars, Ends,
       Inodes, None
  <2>5. content' \in [Inodes -> Seq([msg : Messages, part : {"line", "text", "end"}])]
    BY DEF Inv, Create, TypeOK, MutexFree, storeVars, fileVars, appendVars, Ends,
       WriteEnd, Chunk
  <2>6. /\ where' \in [Messages -> {"new", "done", "refused", "lost"} \cup InFlight]
        /\ target' \in [Messages -> Ids \cup {None}] /\ cut' \subseteq Ids
    BY DEF Inv, Create, TypeOK, MutexFree, storeVars, fileVars, appendVars, InFlight,
       Ends, Ids, None, InHand, Started, Opened, SaveStore
  <2>7. mutex'.op \in {"free", "delete", "reset", "entry"}
    BY DEF Inv, Create, TypeOK, MutexFree, storeVars, fileVars, appendVars, Free, Ends
  <2> QED
    BY <2>1, <2>2, <2>3, <2>4, <2>5, <2>6, <2>7 DEF TypeOK
<1>2. InHand'
  BY DEF Inv, Create, InHand, TypeOK, Started, Opened, InFlight, Free, MutexFree,
     storeVars, fileVars, appendVars, SaveStore, Ends, None, Ids
<1>3. Owned'
  BY SMTT(30) DEF Inv, Create, Owned, TypeOK, None, Ids, Free, MutexFree, storeVars, fileVars,
     appendVars, SaveStore, Ends
<1>4. Saved'
  BY DEF Inv, Create, Saved, InHand, Free, MutexFree, storeVars, fileVars, appendVars,
     SaveStore, Ends
<1> QED
  BY <1>1, <1>2, <1>3, <1>4 DEF Inv

LEMMA RenameInv ==
    ASSUME Inv, NEW k \in Keys, UpdateDisplayName(k)
    PROVE  Inv'
<1> USE SessionAssumption
<1>1. TypeOK'
  BY ZenonT(30) DEF Inv, UpdateDisplayName, TypeOK, Ids, Inodes, None, Free, InFlight, MutexFree,
     vars, storeVars, fileVars, appendVars, SaveStore, InHand, Started, Opened, Ends
<1>2. InHand'
  BY DEF Inv, UpdateDisplayName, InHand, TypeOK, Started, Opened, InFlight, Free,
     MutexFree, storeVars, fileVars, appendVars, SaveStore, Ends, None, Ids
<1>3. Owned'
  BY SMTT(30) DEF Inv, UpdateDisplayName, Owned, TypeOK, InHand, None, Ids, Free, MutexFree,
     storeVars, fileVars, appendVars, SaveStore, Ends
<1>4. Saved'
  BY DEF Inv, UpdateDisplayName, Saved, InHand, Free, MutexFree, storeVars, fileVars,
     appendVars, SaveStore, Ends
<1> QED
  BY <1>1, <1>2, <1>3, <1>4 DEF Inv

LEMMA TakeInv ==
    ASSUME Inv, NEW k \in Keys, NEW op \in {"delete", "reset"}, TakeFile(k, op)
    PROVE  Inv'
<1> USE SessionAssumption
<1>1. TypeOK'
  BY DEF Inv, TakeFile, TypeOK, Ids, Inodes, None, Free, InFlight, MutexFree, vars,
     storeVars, fileVars, appendVars, SaveStore, InHand, Started, Opened, Ends
<1>2. InHand'
  BY DEF Inv, TakeFile, InHand, TypeOK, Started, Opened, InFlight, Free, MutexFree,
     storeVars, fileVars, appendVars, SaveStore, Ends, None, Ids
<1>3. Owned'
  BY DEF Inv, TakeFile, Owned, TypeOK, InHand, None, Ids, Free, MutexFree, storeVars,
     fileVars, appendVars, SaveStore, Ends
<1>4. Saved'
  BY DEF Inv, TakeFile, Saved, InHand, Free, MutexFree, storeVars, fileVars, appendVars,
     SaveStore, Ends
<1> QED
  BY <1>1, <1>2, <1>3, <1>4 DEF Inv

LEMMA DeleteInv ==
    ASSUME Inv, NEW k \in Keys, DeleteEnds(k)
    PROVE  Inv'
<1> USE SessionAssumption
<1>1. TypeOK'
  BY ZenonT(30) DEF Inv, DeleteEnds, TypeOK, Ids, Inodes, None, Free, InFlight, MutexFree, vars,
     storeVars, fileVars, appendVars, SaveStore, InHand, Started, Opened, Ends
<1>2. InHand'
  BY DEF Inv, DeleteEnds, InHand, TypeOK, Started, Opened, InFlight, Free, MutexFree,
     storeVars, fileVars, appendVars, SaveStore, Ends, None, Ids
<1>3. Owned'
  BY SMTT(30) DEF Inv, DeleteEnds, Owned, TypeOK, InHand, None, Ids, Free, MutexFree, storeVars,
     fileVars, appendVars, SaveStore, Ends
<1>4. Saved'
  BY DEF Inv, DeleteEnds, Saved, InHand, Free, MutexFree, storeVars, fileVars,
     appendVars, SaveStore, Ends
<1> QED
  BY <1>1, <1>2, <1>3, <1>4 DEF Inv

LEMMA ResetInv ==
    ASSUME Inv, NEW k \in Keys, ResetEnds(k)
    PROVE  Inv'
<1> USE SessionAssumption
<1>1. TypeOK'
  <2>1. up' \in BOOLEAN /\ dirty' \in BOOLEAN /\ unsaved' \in BOOLEAN
    BY DEF Inv, ResetEnds, TypeOK, MutexFree, storeVars, fileVars, appendVars,
       SaveStore, Ends
  <2>2. /\ store' \in [Keys -> Ids \cup {None}] /\ index' \in [Keys -> Ids \cup {None}]
        /\ ids' \in 0..MaxIds
    BY DEF Inv, ResetEnds, TypeOK, MutexFree, storeVars, fileVars, appendVars,
       SaveStore, Ends, Ids, None
  <2>3. /\ locks' \in [Keys -> Messages \cup {Nobody}]
        /\ \A q \in Keys : locks'[q] # Nobody =>
             where'[locks'[q]] = "writing" /\ key'[locks'[q]] = q
    BY DEF Inv, ResetEnds, TypeOK, MutexFree, storeVars, fileVars, appendVars, InHand,
       Ends
  <2>4. /\ inodes' \in 0..MaxInodes /\ path' \in [Ids -> Inodes \cup {None}]
        /\ fd' \in [Messages -> Inodes \cup {None}]
    BY DEF Inv, ResetEnds, TypeOK, MutexFree, storeVars, fileVars, appendVars, Ends,
       Inodes, None
  <2>5. content' \in [Inodes -> Seq([msg : Messages, part : {"line", "text", "end"}])]
    BY DEF Inv, ResetEnds, TypeOK, MutexFree, storeVars, fileVars, appendVars, Ends,
       WriteEnd, Chunk
  <2>6. /\ where' \in [Messages -> {"new", "done", "refused", "lost"} \cup InFlight]
        /\ target' \in [Messages -> Ids \cup {None}] /\ cut' \subseteq Ids
    BY DEF Inv, ResetEnds, TypeOK, MutexFree, storeVars, fileVars, appendVars, InFlight,
       Ends, Ids, None, InHand, Started, Opened, SaveStore
  <2>7. mutex'.op \in {"free", "delete", "reset", "entry"}
    BY DEF Inv, ResetEnds, TypeOK, MutexFree, storeVars, fileVars, appendVars, Free,
       Ends
  <2> QED
    BY <2>1, <2>2, <2>3, <2>4, <2>5, <2>6, <2>7 DEF TypeOK
<1>2. InHand'
  BY DEF Inv, ResetEnds, InHand, TypeOK, Started, Opened, InFlight, Free, MutexFree,
     storeVars, fileVars, appendVars, SaveStore, Ends, None, Ids
<1>3. Owned'
  BY SMTT(30) DEF Inv, ResetEnds, Owned, TypeOK, None, Ids, Free, MutexFree, storeVars, fileVars,
     appendVars, SaveStore, Ends
<1>4. Saved'
  BY DEF Inv, ResetEnds, Saved, InHand, Free, MutexFree, storeVars, fileVars,
     appendVars, SaveStore, Ends
<1> QED
  BY <1>1, <1>2, <1>3, <1>4 DEF Inv

LEMMA LookUpInv ==
    ASSUME Inv, NEW m \in Messages, NEW k \in Keys, LookUp(m, k)
    PROVE  Inv'
<1> USE SessionAssumption
<1>1. TypeOK'
  BY SMTT(30) DEF Inv, LookUp, TypeOK, Ids, Inodes, None, Free, InFlight, MutexFree, vars,
     storeVars, fileVars, appendVars, SaveStore, InHand, Started, Opened, Ends
<1>2. InHand'
  BY DEF Inv, LookUp, InHand, Owned, TypeOK, Started, Opened, InFlight, Free, MutexFree,
     storeVars, fileVars, appendVars, SaveStore, Ends, None, Ids
<1>3. Owned'
  BY DEF Inv, LookUp, Owned, TypeOK, InHand, None, Ids, Free, MutexFree, storeVars,
     fileVars, appendVars, SaveStore, Ends
<1>4. Saved'
  BY DEF Inv, LookUp, Saved, InHand, Free, MutexFree, storeVars, fileVars, appendVars,
     SaveStore, Ends
<1> QED
  BY <1>1, <1>2, <1>3, <1>4 DEF Inv

LEMMA WriteInv ==
    ASSUME Inv, NEW m \in Messages, Write(m)
    PROVE  Inv'
<1> USE SessionAssumption
<1>1. TypeOK'
  <2>0. OpenAndWrite(m, target[m]) /\ target[m] \in Ids
    BY DEF Inv, Write, TypeOK, InHand, Owned, Started, Opened, Ids, None
  <2>1. up' \in BOOLEAN /\ dirty' \in BOOLEAN /\ unsaved' \in BOOLEAN
    BY DEF Inv, Write, TypeOK, MutexFree, storeVars, fileVars, appendVars, SaveStore,
       Ends
  <2>2. /\ store' \in [Keys -> Ids \cup {None}] /\ index' \in [Keys -> Ids \cup {None}]
        /\ ids' \in 0..MaxIds
    BY DEF Inv, Write, TypeOK, MutexFree, storeVars, fileVars, appendVars, SaveStore,
       Ends, Ids, None
  <2>3. /\ locks' \in [Keys -> Messages \cup {Nobody}]
        /\ \A q \in Keys : locks'[q] # Nobody =>
             where'[locks'[q]] = "writing" /\ key'[locks'[q]] = q
    BY DEF Inv, Write, TypeOK, MutexFree, storeVars, fileVars, appendVars, InHand,
       Started, Opened
  <2>4. /\ inodes' \in 0..MaxInodes /\ path' \in [Ids -> Inodes \cup {None}]
        /\ fd' \in [Messages -> Inodes \cup {None}]
    <3>1. PICK n \in Inodes :
             /\ \/ path[target[m]] = n /\ inodes' = inodes
                \/ path[target[m]] = None /\ n = inodes + 1 /\ inodes' = n
             /\ path' = [path EXCEPT ![target[m]] = n]
             /\ fd' = [fd EXCEPT ![m] = n]
             /\ content' = [content EXCEPT ![n] = Append(content[n], First(m))]
      BY <2>0, Opening DEF Inv
    <3> QED
      BY <3>1, <2>0 DEF Inv, TypeOK, Inodes, None
  <2>5. content' \in [Inodes -> Seq([msg : Messages, part : {"line", "text", "end"}])]
    <3>1. PICK n \in Inodes :
             /\ \/ path[target[m]] = n /\ inodes' = inodes
                \/ path[target[m]] = None /\ n = inodes + 1 /\ inodes' = n
             /\ path' = [path EXCEPT ![target[m]] = n]
             /\ fd' = [fd EXCEPT ![m] = n]
             /\ content' = [content EXCEPT ![n] = Append(content[n], First(m))]
      BY <2>0, Opening DEF Inv
    <3>2. First(m) \in [msg : Messages, part : {"line", "text", "end"}]
      BY DEF First, Chunk
    <3>3. Append(content[n], First(m)) \in Seq([msg : Messages, part : {"line", "text", "end"}])
      BY <3>2, AppendProperties DEF Inv, TypeOK
    <3> QED
      BY <3>1, <3>3 DEF Inv, TypeOK
  <2>6. /\ where' \in [Messages -> {"new", "done", "refused", "lost"} \cup InFlight]
        /\ target' \in [Messages -> Ids \cup {None}] /\ cut' \subseteq Ids
    BY DEF Inv, Write, TypeOK, MutexFree, storeVars, fileVars, appendVars, InFlight,
       Ends, Ids, None, InHand, Started, Opened, SaveStore
  <2>7. mutex'.op \in {"free", "delete", "reset", "entry"}
    BY DEF Inv, Write, TypeOK, MutexFree, storeVars, fileVars, appendVars, Free, Ends
  <2> QED
    BY <2>1, <2>2, <2>3, <2>4, <2>5, <2>6, <2>7 DEF TypeOK
<1>2. InHand'
  <2>1. OpenAndWrite(m, target[m]) /\ target[m] \in Ids
    BY DEF Inv, Write, TypeOK, InHand, Owned, Started, Opened, Ids, None
  <2>2. PICK n \in Inodes :
          /\ \/ path[target[m]] = n /\ inodes' = inodes
             \/ path[target[m]] = None /\ n = inodes + 1 /\ inodes' = n
          /\ path' = [path EXCEPT ![target[m]] = n]
          /\ fd' = [fd EXCEPT ![m] = n]
          /\ content' = [content EXCEPT ![n] = Append(content[n], First(m))]
    BY <2>1, Opening DEF Inv
  <2>3. /\ n \in 1..inodes' /\ fd'[m] = n
        /\ \A j \in Messages : j # m => fd'[j] = fd[j]
        /\ \A j \in 1..inodes : j \in 1..inodes'
        /\ \A i \in Ids : path'[i] \in 0..inodes'
    BY <2>1, <2>2 DEF Inv, InHand, TypeOK, Inodes, None
  <2>4. /\ key[m] \in Keys /\ m \notin Entries /\ locks[key[m]] = Nobody
        /\ locks'[key[m]] = m
        /\ \A q \in Keys : q # key[m] => locks'[q] = locks[q]
        /\ where'[m] = "writing" /\ \A j \in Messages : j # m => where'[j] = where[j]
        /\ key' = key /\ target' = target /\ ids' = ids
    BY DEF Inv, Write, TypeOK, InHand, Started
  <2>5. ASSUME NEW j \in Messages
        PROVE  /\ where'[j] # "written"
               /\ where'[j] \in Started => key'[j] \in Keys /\ target'[j] \in 1..ids'
               /\ where'[j] \in Opened => fd'[j] \in 1..inodes'
               /\ where'[j] = "captured" => j \notin Entries
               /\ where'[j] = "writing" =>
                    IF j \in Entries THEN mutex'.op = "entry" ELSE locks'[key'[j]] = j
    <3>1. CASE j = m
      BY <2>3, <2>4, <3>1 DEF Inv, Write, InHand, Started
    <3>2. CASE j # m
      BY <2>3, <2>4, <3>2 DEF Inv, Write, InHand, Started, Opened
    <3> QED
      BY <3>1, <3>2
  <2> QED
    BY <2>3, <2>4, <2>5 DEF Inv, Write, InHand
<1>3. Owned'
  BY DEF Inv, Write, Owned, TypeOK, InHand, None, Ids, Free, MutexFree, storeVars,
     fileVars, appendVars, SaveStore, Ends
<1>4. Saved'
  BY DEF Inv, Write, Saved, InHand, Free, MutexFree, storeVars, fileVars, appendVars,
     SaveStore, Ends
<1> QED
  BY <1>1, <1>2, <1>3, <1>4 DEF Inv

LEMMA CloseInv ==
    ASSUME Inv, NEW m \in Messages, Close(m)
    PROVE  Inv'
<1> USE SessionAssumption
<1>1. TypeOK'
  <2>1. up' \in BOOLEAN /\ dirty' \in BOOLEAN /\ unsaved' \in BOOLEAN
    BY DEF Inv, Close, TypeOK, MutexFree, storeVars, fileVars, appendVars, SaveStore,
       Ends
  <2>2. /\ store' \in [Keys -> Ids \cup {None}] /\ index' \in [Keys -> Ids \cup {None}]
        /\ ids' \in 0..MaxIds
    BY DEF Inv, Close, TypeOK, MutexFree, storeVars, fileVars, appendVars, SaveStore,
       Ends, Ids, None
  <2>3. /\ locks' \in [Keys -> Messages \cup {Nobody}]
        /\ \A q \in Keys : locks'[q] # Nobody =>
             where'[locks'[q]] = "writing" /\ key'[locks'[q]] = q
    BY DEF Inv, Close, TypeOK, MutexFree, storeVars, fileVars, appendVars, InHand,
       Started, Opened
  <2>4. /\ inodes' \in 0..MaxInodes /\ path' \in [Ids -> Inodes \cup {None}]
        /\ fd' \in [Messages -> Inodes \cup {None}]
    BY DEF Inv, Close, TypeOK, MutexFree, storeVars, fileVars, appendVars, Ends, Inodes,
       None
  <2>5. content' \in [Inodes -> Seq([msg : Messages, part : {"line", "text", "end"}])]
    <3>1. fd[m] \in Inodes /\ content[fd[m]] \in Seq([msg : Messages, part : {"line", "text", "end"}])
      BY DEF Inv, TypeOK, Close, InHand, Started, Opened, Inodes
    <3>2. Append(content[fd[m]], Chunk(m, "end")) \in Seq([msg : Messages, part : {"line", "text", "end"}])
      BY <3>1, AppendProperties DEF Chunk
    <3> QED
      BY <3>1, <3>2 DEF Inv, TypeOK, Close, WriteEnd
  <2>6. /\ where' \in [Messages -> {"new", "done", "refused", "lost"} \cup InFlight]
        /\ target' \in [Messages -> Ids \cup {None}] /\ cut' \subseteq Ids
    BY DEF Inv, Close, TypeOK, MutexFree, storeVars, fileVars, appendVars, InFlight,
       Ends, Ids, None, InHand, Started, Opened, SaveStore
  <2>7. mutex'.op \in {"free", "delete", "reset", "entry"}
    BY DEF Inv, Close, TypeOK, MutexFree, storeVars, fileVars, appendVars, Free, Ends
  <2> QED
    BY <2>1, <2>2, <2>3, <2>4, <2>5, <2>6, <2>7 DEF TypeOK
<1>2. InHand'
  BY DEF Inv, Close, InHand, TypeOK, Started, Opened, InFlight, Free, MutexFree,
     storeVars, fileVars, appendVars, SaveStore, Ends, None, Ids
<1>3. Owned'
  BY DEF Inv, Close, Owned, TypeOK, InHand, None, Ids, Free, MutexFree, storeVars,
     fileVars, appendVars, SaveStore, Ends
<1>4. Saved'
  BY DEF Inv, Close, Saved, InHand, Free, MutexFree, storeVars, fileVars, appendVars,
     SaveStore, Ends
<1> QED
  BY <1>1, <1>2, <1>3, <1>4 DEF Inv

LEMMA FlushInv ==
    ASSUME Inv, NEW m \in Messages, MaybeFlush(m)
    PROVE  Inv'
<1> USE SessionAssumption
<1>1. TypeOK'
  <2>1. up' \in BOOLEAN /\ dirty' \in BOOLEAN /\ unsaved' \in BOOLEAN
    BY DEF Inv, MaybeFlush, TypeOK, MutexFree, storeVars, fileVars, appendVars,
       SaveStore, Ends
  <2>2. /\ store' \in [Keys -> Ids \cup {None}] /\ index' \in [Keys -> Ids \cup {None}]
        /\ ids' \in 0..MaxIds
    BY DEF Inv, MaybeFlush, TypeOK, MutexFree, storeVars, fileVars, appendVars,
       SaveStore, Ends, Ids, None
  <2>3. /\ locks' \in [Keys -> Messages \cup {Nobody}]
        /\ \A q \in Keys : locks'[q] # Nobody =>
             where'[locks'[q]] = "writing" /\ key'[locks'[q]] = q
    BY DEF Inv, MaybeFlush, TypeOK, MutexFree, storeVars, fileVars, appendVars, InHand,
       Ends
  <2>4. /\ inodes' \in 0..MaxInodes /\ path' \in [Ids -> Inodes \cup {None}]
        /\ fd' \in [Messages -> Inodes \cup {None}]
    BY DEF Inv, MaybeFlush, TypeOK, MutexFree, storeVars, fileVars, appendVars, Ends,
       Inodes, None
  <2>5. content' \in [Inodes -> Seq([msg : Messages, part : {"line", "text", "end"}])]
    BY DEF Inv, MaybeFlush, TypeOK, MutexFree, storeVars, fileVars, appendVars, Ends,
       WriteEnd, Chunk
  <2>6. /\ where' \in [Messages -> {"new", "done", "refused", "lost"} \cup InFlight]
        /\ target' \in [Messages -> Ids \cup {None}] /\ cut' \subseteq Ids
    BY DEF Inv, MaybeFlush, TypeOK, MutexFree, storeVars, fileVars, appendVars,
       InFlight, Ends, Ids, None, InHand, Started, Opened, SaveStore
  <2>7. mutex'.op \in {"free", "delete", "reset", "entry"}
    BY DEF Inv, MaybeFlush, TypeOK, MutexFree, storeVars, fileVars, appendVars, Free,
       Ends
  <2> QED
    BY <2>1, <2>2, <2>3, <2>4, <2>5, <2>6, <2>7 DEF TypeOK
<1>2. InHand'
  BY DEF Inv, MaybeFlush, InHand, TypeOK, Started, Opened, InFlight, Free, MutexFree,
     storeVars, fileVars, appendVars, SaveStore, Ends, None, Ids
<1>3. Owned'
  BY DEF Inv, MaybeFlush, Owned, TypeOK, InHand, None, Ids, Free, MutexFree, storeVars,
     fileVars, appendVars, SaveStore, Ends
<1>4. Saved'
  BY DEF Inv, MaybeFlush, Saved, InHand, Free, MutexFree, storeVars, fileVars,
     appendVars, SaveStore, Ends
<1> QED
  BY <1>1, <1>2, <1>3, <1>4 DEF Inv

LEMMA EntryInv ==
    ASSUME Inv, NEW m \in Messages, NEW k \in Keys, WriteEntry(m, k)
    PROVE  Inv'
<1> USE SessionAssumption
<1>1. TypeOK'
  <2>0. OpenAndWrite(m, store[k]) /\ store[k] \in Ids
    BY DEF Inv, WriteEntry, TypeOK, InHand, Owned, Started, Opened, Ids, None
  <2>1. up' \in BOOLEAN /\ dirty' \in BOOLEAN /\ unsaved' \in BOOLEAN
    BY DEF Inv, WriteEntry, TypeOK, MutexFree, storeVars, fileVars, appendVars,
       SaveStore, Ends
  <2>2. /\ store' \in [Keys -> Ids \cup {None}] /\ index' \in [Keys -> Ids \cup {None}]
        /\ ids' \in 0..MaxIds
    BY DEF Inv, WriteEntry, TypeOK, MutexFree, storeVars, fileVars, appendVars,
       SaveStore, Ends, Ids, None
  <2>3. /\ locks' \in [Keys -> Messages \cup {Nobody}]
        /\ \A q \in Keys : locks'[q] # Nobody =>
             where'[locks'[q]] = "writing" /\ key'[locks'[q]] = q
    BY DEF Inv, WriteEntry, TypeOK, MutexFree, storeVars, fileVars, appendVars, InHand,
       Ends
  <2>4. /\ inodes' \in 0..MaxInodes /\ path' \in [Ids -> Inodes \cup {None}]
        /\ fd' \in [Messages -> Inodes \cup {None}]
    <3>1. PICK n \in Inodes :
             /\ \/ path[store[k]] = n /\ inodes' = inodes
                \/ path[store[k]] = None /\ n = inodes + 1 /\ inodes' = n
             /\ path' = [path EXCEPT ![store[k]] = n]
             /\ fd' = [fd EXCEPT ![m] = n]
             /\ content' = [content EXCEPT ![n] = Append(content[n], First(m))]
      BY <2>0, Opening DEF Inv
    <3> QED
      BY <3>1, <2>0 DEF Inv, TypeOK, Inodes, None
  <2>5. content' \in [Inodes -> Seq([msg : Messages, part : {"line", "text", "end"}])]
    <3>1. PICK n \in Inodes :
             /\ \/ path[store[k]] = n /\ inodes' = inodes
                \/ path[store[k]] = None /\ n = inodes + 1 /\ inodes' = n
             /\ path' = [path EXCEPT ![store[k]] = n]
             /\ fd' = [fd EXCEPT ![m] = n]
             /\ content' = [content EXCEPT ![n] = Append(content[n], First(m))]
      BY <2>0, Opening DEF Inv
    <3>2. First(m) \in [msg : Messages, part : {"line", "text", "end"}]
      BY DEF First, Chunk
    <3>3. Append(content[n], First(m)) \in Seq([msg : Messages, part : {"line", "text", "end"}])
      BY <3>2, AppendProperties DEF Inv, TypeOK
    <3> QED
      BY <3>1, <3>3 DEF Inv, TypeOK
  <2>6. /\ where' \in [Messages -> {"new", "done", "refused", "lost"} \cup InFlight]
        /\ target' \in [Messages -> Ids \cup {None}] /\ cut' \subseteq Ids
    BY DEF Inv, WriteEntry, TypeOK, MutexFree, storeVars, fileVars, appendVars,
       InFlight, Ends, Ids, None, InHand, Started, Opened, SaveStore
  <2>7. mutex'.op \in {"free", "delete", "reset", "entry"}
    BY DEF Inv, WriteEntry, TypeOK, MutexFree, storeVars, fileVars, appendVars, Free,
       Ends
  <2> QED
    BY <2>1, <2>2, <2>3, <2>4, <2>5, <2>6, <2>7 DEF TypeOK
<1>2. InHand'
  <2>1. OpenAndWrite(m, store[k]) /\ store[k] \in Ids
    BY DEF Inv, WriteEntry, TypeOK, InHand, Owned, Started, Opened, Ids, None
  <2>2. PICK n \in Inodes :
          /\ \/ path[store[k]] = n /\ inodes' = inodes
             \/ path[store[k]] = None /\ n = inodes + 1 /\ inodes' = n
          /\ path' = [path EXCEPT ![store[k]] = n]
          /\ fd' = [fd EXCEPT ![m] = n]
          /\ content' = [content EXCEPT ![n] = Append(content[n], First(m))]
    BY <2>1, Opening DEF Inv
  <2>3. /\ n \in 1..inodes' /\ fd'[m] = n
        /\ \A j \in Messages : j # m => fd'[j] = fd[j]
        /\ \A j \in 1..inodes : j \in 1..inodes'
        /\ \A i \in Ids : path'[i] \in 0..inodes'
    BY <2>1, <2>2 DEF Inv, InHand, TypeOK, Inodes, None
  <2> QED
    BY <2>1, <2>3 DEF Inv, WriteEntry, InHand, Owned, TypeOK, Started, Opened, Free,
       MutexFree, storeVars, appendVars, None, Ids
<1>3. Owned'
  BY DEF Inv, WriteEntry, Owned, TypeOK, InHand, None, Ids, Free, MutexFree, storeVars,
     fileVars, appendVars, SaveStore, Ends
<1>4. Saved'
  BY DEF Inv, WriteEntry, Saved, InHand, Free, MutexFree, storeVars, fileVars,
     appendVars, SaveStore, Ends
<1> QED
  BY <1>1, <1>2, <1>3, <1>4 DEF Inv

LEMMA CloseEntryInv ==
    ASSUME Inv, NEW m \in Messages, CloseEntry(m)
    PROVE  Inv'
<1> USE SessionAssumption
<1>1. TypeOK'
  <2>1. up' \in BOOLEAN /\ dirty' \in BOOLEAN /\ unsaved' \in BOOLEAN
    BY DEF Inv, CloseEntry, TypeOK, MutexFree, storeVars, fileVars, appendVars,
       SaveStore, Ends
  <2>2. /\ store' \in [Keys -> Ids \cup {None}] /\ index' \in [Keys -> Ids \cup {None}]
        /\ ids' \in 0..MaxIds
    BY DEF Inv, CloseEntry, TypeOK, MutexFree, storeVars, fileVars, appendVars,
       SaveStore, Ends, Ids, None
  <2>3. /\ locks' \in [Keys -> Messages \cup {Nobody}]
        /\ \A q \in Keys : locks'[q] # Nobody =>
             where'[locks'[q]] = "writing" /\ key'[locks'[q]] = q
    BY DEF Inv, CloseEntry, TypeOK, MutexFree, storeVars, fileVars, appendVars, InHand,
       Ends
  <2>4. /\ inodes' \in 0..MaxInodes /\ path' \in [Ids -> Inodes \cup {None}]
        /\ fd' \in [Messages -> Inodes \cup {None}]
    BY DEF Inv, CloseEntry, TypeOK, MutexFree, storeVars, fileVars, appendVars, Ends,
       Inodes, None
  <2>5. content' \in [Inodes -> Seq([msg : Messages, part : {"line", "text", "end"}])]
    <3>1. fd[m] \in Inodes /\ content[fd[m]] \in Seq([msg : Messages, part : {"line", "text", "end"}])
      BY DEF Inv, TypeOK, CloseEntry, InHand, Started, Opened, Inodes
    <3>2. Append(content[fd[m]], Chunk(m, "end")) \in Seq([msg : Messages, part : {"line", "text", "end"}])
      BY <3>1, AppendProperties DEF Chunk
    <3> QED
      BY <3>1, <3>2 DEF Inv, TypeOK, CloseEntry, WriteEnd
  <2>6. /\ where' \in [Messages -> {"new", "done", "refused", "lost"} \cup InFlight]
        /\ target' \in [Messages -> Ids \cup {None}] /\ cut' \subseteq Ids
    BY DEF Inv, CloseEntry, TypeOK, MutexFree, storeVars, fileVars, appendVars,
       InFlight, Ends, Ids, None, InHand, Started, Opened, SaveStore
  <2>7. mutex'.op \in {"free", "delete", "reset", "entry"}
    BY DEF Inv, CloseEntry, TypeOK, MutexFree, storeVars, fileVars, appendVars, Free,
       Ends
  <2> QED
    BY <2>1, <2>2, <2>3, <2>4, <2>5, <2>6, <2>7 DEF TypeOK
<1>2. InHand'
  BY DEF Inv, CloseEntry, InHand, TypeOK, Started, Opened, InFlight, Free, MutexFree,
     storeVars, fileVars, appendVars, SaveStore, Ends, None, Ids
<1>3. Owned'
  BY DEF Inv, CloseEntry, Owned, TypeOK, InHand, None, Ids, Free, MutexFree, storeVars,
     fileVars, appendVars, SaveStore, Ends
<1>4. Saved'
  BY DEF Inv, CloseEntry, Saved, InHand, Free, MutexFree, storeVars, fileVars,
     appendVars, SaveStore, Ends
<1> QED
  BY <1>1, <1>2, <1>3, <1>4 DEF Inv

LEMMA RefuseInv ==
    ASSUME Inv, NEW m \in Messages, NEW k \in Keys, Refuse(m, k)
    PROVE  Inv'
<1> USE SessionAssumption
<1>1. TypeOK'
  BY DEF Inv, Refuse, TypeOK, Ids, Inodes, None, Free, InFlight, MutexFree, vars,
     storeVars, fileVars, appendVars, SaveStore, InHand, Started, Opened, Ends
<1>2. InHand'
  BY DEF Inv, Refuse, InHand, TypeOK, Started, Opened, InFlight, Free, MutexFree,
     storeVars, fileVars, appendVars, SaveStore, Ends, None, Ids
<1>3. Owned'
  BY DEF Inv, Refuse, Owned, TypeOK, InHand, None, Ids, Free, MutexFree, storeVars,
     fileVars, appendVars, SaveStore, Ends
<1>4. Saved'
  BY DEF Inv, Refuse, Saved, InHand, Free, MutexFree, storeVars, fileVars, appendVars,
     SaveStore, Ends
<1> QED
  BY <1>1, <1>2, <1>3, <1>4 DEF Inv

LEMMA CrashInv ==
    ASSUME Inv, Crash
    PROVE  Inv'
<1> USE SessionAssumption
<1>1. TypeOK'
  <2>1. up' \in BOOLEAN /\ dirty' \in BOOLEAN /\ unsaved' \in BOOLEAN
    BY DEF Inv, Crash, TypeOK, MutexFree, storeVars, fileVars, appendVars, SaveStore,
       Ends
  <2>2. /\ store' \in [Keys -> Ids \cup {None}] /\ index' \in [Keys -> Ids \cup {None}]
        /\ ids' \in 0..MaxIds
    BY DEF Inv, Crash, TypeOK, MutexFree, storeVars, fileVars, appendVars, SaveStore,
       Ends, Ids, None
  <2>3. /\ locks' \in [Keys -> Messages \cup {Nobody}]
        /\ \A q \in Keys : locks'[q] # Nobody =>
             where'[locks'[q]] = "writing" /\ key'[locks'[q]] = q
    BY DEF Inv, Crash, TypeOK, MutexFree, storeVars, fileVars, appendVars, InHand, Ends
  <2>4. /\ inodes' \in 0..MaxInodes /\ path' \in [Ids -> Inodes \cup {None}]
        /\ fd' \in [Messages -> Inodes \cup {None}]
    BY DEF Inv, Crash, TypeOK, MutexFree, storeVars, fileVars, appendVars, Ends, Inodes,
       None
  <2>5. content' \in [Inodes -> Seq([msg : Messages, part : {"line", "text", "end"}])]
    BY DEF Inv, Crash, TypeOK, MutexFree, storeVars, fileVars, appendVars, Ends,
       WriteEnd, Chunk
  <2>6. /\ where' \in [Messages -> {"new", "done", "refused", "lost"} \cup InFlight]
        /\ target' \in [Messages -> Ids \cup {None}]
    BY DEF Inv, Crash, TypeOK, MutexFree, storeVars, fileVars, appendVars, InFlight,
       Ends, Ids, None, InHand, Started, Opened, SaveStore
  <2>8. cut' \subseteq Ids
    BY DEF Inv, Crash, TypeOK, None, storeVars
  <2>7. mutex'.op \in {"free", "delete", "reset", "entry"}
    BY DEF Inv, Crash, TypeOK, MutexFree, storeVars, fileVars, appendVars, Free, Ends
  <2> QED
    BY <2>1, <2>2, <2>3, <2>4, <2>5, <2>6, <2>7, <2>8 DEF TypeOK
<1>2. InHand'
  BY DEF Inv, Crash, InHand, TypeOK, Started, Opened, InFlight, Free, MutexFree,
     storeVars, fileVars, appendVars, SaveStore, Ends, None, Ids
<1>3. Owned'
  BY DEF Inv, Crash, Owned, TypeOK, InHand, None, Ids, Free, MutexFree, storeVars,
     fileVars, appendVars, SaveStore, Ends
<1>4. Saved'
  BY DEF Inv, Crash, Saved, InHand, Free, MutexFree, storeVars, fileVars, appendVars,
     SaveStore, Ends
<1> QED
  BY <1>1, <1>2, <1>3, <1>4 DEF Inv

LEMMA ShutdownInv ==
    ASSUME Inv, Shutdown
    PROVE  Inv'
<1> USE SessionAssumption
<1>1. TypeOK'
  <2>1. up' \in BOOLEAN /\ dirty' \in BOOLEAN /\ unsaved' \in BOOLEAN
    BY DEF Inv, Shutdown, TypeOK, MutexFree, storeVars, fileVars, appendVars, SaveStore,
       Ends
  <2>2. /\ store' \in [Keys -> Ids \cup {None}] /\ index' \in [Keys -> Ids \cup {None}]
        /\ ids' \in 0..MaxIds
    BY DEF Inv, Shutdown, TypeOK, MutexFree, storeVars, fileVars, appendVars, SaveStore,
       Ends, Ids, None
  <2>3. /\ locks' \in [Keys -> Messages \cup {Nobody}]
        /\ \A q \in Keys : locks'[q] # Nobody =>
             where'[locks'[q]] = "writing" /\ key'[locks'[q]] = q
    BY DEF Inv, Shutdown, TypeOK, MutexFree, storeVars, fileVars, appendVars, InHand,
       Ends
  <2>4. /\ inodes' \in 0..MaxInodes /\ path' \in [Ids -> Inodes \cup {None}]
        /\ fd' \in [Messages -> Inodes \cup {None}]
    BY DEF Inv, Shutdown, TypeOK, MutexFree, storeVars, fileVars, appendVars, Ends,
       Inodes, None
  <2>5. content' \in [Inodes -> Seq([msg : Messages, part : {"line", "text", "end"}])]
    BY DEF Inv, Shutdown, TypeOK, MutexFree, storeVars, fileVars, appendVars, Ends,
       WriteEnd, Chunk
  <2>6. /\ where' \in [Messages -> {"new", "done", "refused", "lost"} \cup InFlight]
        /\ target' \in [Messages -> Ids \cup {None}]
    BY DEF Inv, Shutdown, TypeOK, MutexFree, storeVars, fileVars, appendVars, InFlight,
       Ends, Ids, None, InHand, Started, Opened, SaveStore
  <2>8. cut' \subseteq Ids
    BY DEF Inv, Shutdown, TypeOK, None, storeVars
  <2>7. mutex'.op \in {"free", "delete", "reset", "entry"}
    BY DEF Inv, Shutdown, TypeOK, MutexFree, storeVars, fileVars, appendVars, Free, Ends
  <2> QED
    BY <2>1, <2>2, <2>3, <2>4, <2>5, <2>6, <2>7, <2>8 DEF TypeOK
<1>2. InHand'
  BY DEF Inv, Shutdown, InHand, TypeOK, Started, Opened, InFlight, Free, MutexFree,
     storeVars, fileVars, appendVars, SaveStore, Ends, None, Ids
<1>3. Owned'
  BY DEF Inv, Shutdown, Owned, TypeOK, InHand, None, Ids, Free, MutexFree, storeVars,
     fileVars, appendVars, SaveStore, Ends
<1>4. Saved'
  BY DEF Inv, Shutdown, Saved, InHand, Free, MutexFree, storeVars, fileVars, appendVars,
     SaveStore, Ends
<1> QED
  BY <1>1, <1>2, <1>3, <1>4 DEF Inv

LEMMA RestartInv ==
    ASSUME Inv, Restart
    PROVE  Inv'
<1> USE SessionAssumption
<1>1. TypeOK'
  BY DEF Inv, Restart, TypeOK, Ids, Inodes, None, Free, InFlight, MutexFree, vars,
     storeVars, fileVars, appendVars, SaveStore, InHand, Started, Opened, Ends
<1>2. InHand'
  BY DEF Inv, Restart, InHand, TypeOK, Started, Opened, InFlight, Free, MutexFree,
     storeVars, fileVars, appendVars, SaveStore, Ends, None, Ids
<1>3. Owned'
  BY DEF Inv, Restart, Owned, TypeOK, InHand, None, Ids, Free, MutexFree, storeVars,
     fileVars, appendVars, SaveStore, Ends
<1>4. Saved'
  BY DEF Inv, Restart, Saved, InHand, Free, MutexFree, storeVars, fileVars, appendVars,
     SaveStore, Ends
<1> QED
  BY <1>1, <1>2, <1>3, <1>4 DEF Inv

LEMMA InvNext == Inv /\ [Next]_vars => Inv'
<1> SUFFICES ASSUME Inv, [Next]_vars PROVE Inv'
  OBVIOUS
<1>1. ASSUME NEW k \in Keys, Structure(k) PROVE Inv'
  BY <1>1, CreateInv, RenameInv, TakeInv, DeleteInv, ResetInv DEF Structure
<1>2. ASSUME NEW m \in Messages, AppendMessage(m) PROVE Inv'
  BY <1>2, LookUpInv, RefuseInv, WriteInv, CloseInv, FlushInv DEF AppendMessage
<1>3. ASSUME NEW m \in Messages, AppendTranscriptEntry(m) PROVE Inv'
  BY <1>3, EntryInv, CloseEntryInv DEF AppendTranscriptEntry
<1>4. CASE UNCHANGED vars
  <2>1. TypeOK' /\ InHand'
    BY <1>4 DEF Inv, TypeOK, InHand, vars, storeVars, fileVars, appendVars
  <2>2. Owned' /\ Saved'
    BY <1>4 DEF Inv, Owned, Saved, vars, storeVars, fileVars, appendVars
  <2> QED
    BY <2>1, <2>2 DEF Inv
<1> QED
  BY <1>1, <1>2, <1>3, <1>4, CrashInv, ShutdownInv, RestartInv DEF Next

\* The first invariant holds throughout (the index and the appends' hands).
THEOREM Invariance == Spec => []Inv
<1>1. Inv /\ [Next]_vars => Inv'
  BY InvNext
<1> QED
  BY <1>1, InitInv, PTL DEF Spec

\* Every variable keeps its type, and the lock of a session is held by a thread
\* that writes to that session's transcript (AppendMessage).
THEOREM TypeCorrect == Spec => []TypeOK
<1>1. Inv => TypeOK
  BY DEF Inv
<1> QED
  BY <1>1, Invariance, PTL

\* sessions.json is that of store_ whenever nobody holds mutex_, unless it could
\* not be written (save_store_locked).
THEOREM IndexAlwaysCurrent == Spec => []IndexIsCurrent
<1>1. Inv => IndexIsCurrent
  BY DEF Inv, Saved, IndexIsCurrent, MutexFree
<1> QED
  BY <1>1, Invariance, PTL

(***************************************************************************)
(* The history of a session.                                               *)
(***************************************************************************)

\* No session has this id, or will have it when the current operation on the
\* index, or the process, has ended.
Gone(i) ==
    \/ i \in cut
    \/ ~up /\ \A k \in Keys : index[k] # i
    \/ up /\ \A k \in Keys : store[k] # i
    \/ \E k \in Keys : store[k] = i /\ Taking(k)

Kept ==
    \A m \in Messages : where[m] \in Opened =>
        path[target[m]] = fd[m] \/ Gone(target[m])

\* The first write of a record is in the file that was opened for it.
Began ==
    \A m \in Messages : where[m] \in Opened =>
        \E p \in DOMAIN content[fd[m]] : content[fd[m]][p] = First(m)

\* What an action that opens a transcript does to the files.
Opens(m, n) ==
    /\ n \in Inodes /\ target'[m] \in Ids
    /\ \/ path[target'[m]] = n /\ inodes' = inodes
       \/ path[target'[m]] = None /\ n = inodes + 1 /\ inodes' = n
    /\ path' = [path EXCEPT ![target'[m]] = n]
    /\ fd' = [fd EXCEPT ![m] = n]
    /\ content' = [content EXCEPT ![n] = Append(content[n], First(m))]

LEMMA WriteOpens ==
    ASSUME Inv, NEW m \in Messages, Write(m)
    PROVE  \E n \in Inodes : Opens(m, n)
<1>1. OpenAndWrite(m, target[m]) /\ target[m] \in Ids /\ target' = target
  BY DEF Inv, Write, TypeOK, InHand, Started, Ids, None
<1> QED
  BY <1>1, Opening DEF Inv, Opens

LEMMA EntryOpens ==
    ASSUME Inv, NEW m \in Messages, NEW k \in Keys, WriteEntry(m, k)
    PROVE  \E n \in Inodes : Opens(m, n)
<1>1. OpenAndWrite(m, store[k]) /\ store[k] \in Ids /\ target'[m] = store[k]
  BY DEF Inv, WriteEntry, TypeOK, Ids, None
<1> QED
  BY <1>1, Opening DEF Inv, Opens

LEMMA GoneStays ==
    ASSUME Inv, [Next]_vars, NEW i \in 1..ids, Gone(i)
    PROVE  Gone(i)'
<1>0. i # None /\ i \in Nat /\ ids \in Nat
  BY SessionAssumption DEF Inv, TypeOK, None
<1>1. ASSUME NEW k \in Keys, Create(k) PROVE Gone(i)'
  <2>1. /\ up /\ up' /\ cut' = cut /\ \A q \in Keys : ~Taking(q)
        /\ store' = [store EXCEPT ![k] = ids + 1]
    BY <1>1 DEF Create, MutexFree, Free, Taking
  <2> QED
    BY <1>0, <2>1 DEF Inv, TypeOK, Gone
<1>2. ASSUME NEW k \in Keys, UpdateDisplayName(k) PROVE Gone(i)'
  BY <1>0, <1>2 DEF Inv, InHand, Owned, TypeOK, Gone, Taking, UpdateDisplayName,
     Started, Opened, MutexFree, Free, None, vars, storeVars, fileVars, appendVars,
     SaveStore, Ends
<1>3. ASSUME NEW k \in Keys, NEW op \in {"delete", "reset"}, TakeFile(k, op) PROVE Gone(i)'
  BY <1>0, <1>3, ZenonT(90) DEF Inv, InHand, Owned, TypeOK, Gone, Taking, TakeFile, Started, Opened,
     MutexFree, Free, None, vars, storeVars, fileVars, appendVars, SaveStore, Ends
<1>4. ASSUME NEW k \in Keys, DeleteEnds(k) PROVE Gone(i)'
  <2>1. /\ up /\ up' /\ cut' = cut /\ \A q \in Keys : Taking(q) => q = k
        /\ store' = [store EXCEPT ![k] = None]
    BY <1>4 DEF DeleteEnds, Inv, InHand, Free, Taking
  <2>2. \A q \in Keys : q # k => store[q] # i \/ store[k] # i
    BY <1>0 DEF Inv, Owned
  <2> QED
    BY <1>0, <2>1, <2>2 DEF Inv, TypeOK, Gone
<1>5. ASSUME NEW k \in Keys, ResetEnds(k) PROVE Gone(i)'
  <2>1. /\ up /\ up' /\ cut' = cut /\ \A q \in Keys : Taking(q) => q = k
        /\ store' = [store EXCEPT ![k] = ids + 1]
    BY <1>5 DEF ResetEnds, Inv, InHand, Free, Taking
  <2>2. \A q \in Keys : q # k => store[q] # i \/ store[k] # i
    BY <1>0 DEF Inv, Owned
  <2> QED
    BY <1>0, <2>1, <2>2 DEF Inv, TypeOK, Gone
<1>6. ASSUME NEW m \in Messages, NEW k \in Keys, LookUp(m, k) PROVE Gone(i)'
  BY <1>0, <1>6, ZenonT(90) DEF Inv, InHand, Owned, TypeOK, Gone, Taking, LookUp, Started, Opened,
     MutexFree, Free, None, vars, storeVars, fileVars, appendVars, SaveStore, Ends
<1>7. ASSUME NEW m \in Messages, NEW k \in Keys, Refuse(m, k) PROVE Gone(i)'
  BY <1>0, <1>7, ZenonT(90) DEF Inv, InHand, Owned, TypeOK, Gone, Taking, Refuse, Started, Opened,
     MutexFree, Free, None, vars, storeVars, fileVars, appendVars, SaveStore, Ends
<1>8. ASSUME NEW m \in Messages, Write(m) PROVE Gone(i)'
  BY <1>0, <1>8, ZenonT(90) DEF Inv, InHand, Owned, TypeOK, Gone, Taking, Write, Started, Opened,
     MutexFree, Free, None, vars, storeVars, fileVars, appendVars, SaveStore, Ends
<1>9. ASSUME NEW m \in Messages, Close(m) PROVE Gone(i)'
  BY <1>0, <1>9, ZenonT(90) DEF Inv, InHand, Owned, TypeOK, Gone, Taking, Close, Started, Opened,
     MutexFree, Free, None, vars, storeVars, fileVars, appendVars, SaveStore, Ends
<1>10. ASSUME NEW m \in Messages, MaybeFlush(m) PROVE Gone(i)'
  BY <1>0, <1>10, ZenonT(90) DEF Inv, InHand, Owned, TypeOK, Gone, Taking, MaybeFlush, Started,
     Opened, MutexFree, Free, None, vars, storeVars, fileVars, appendVars, SaveStore,
     Ends
<1>11. ASSUME NEW m \in Messages, NEW k \in Keys, WriteEntry(m, k) PROVE Gone(i)'
  BY <1>0, <1>11, ZenonT(90) DEF Inv, InHand, Owned, TypeOK, Gone, Taking, WriteEntry, Started,
     Opened, MutexFree, Free, None, vars, storeVars, fileVars, appendVars, SaveStore,
     Ends
<1>12. ASSUME NEW m \in Messages, CloseEntry(m) PROVE Gone(i)'
  BY <1>0, <1>12, SMTT(30) DEF Inv, InHand, Owned, TypeOK, Gone, Taking, CloseEntry, Started,
     Opened, MutexFree, Free, None, vars, storeVars, fileVars, appendVars, SaveStore,
     Ends
<1>13. ASSUME Crash PROVE Gone(i)'
  BY <1>0, <1>13, SMTT(30) DEF Inv, InHand, Owned, TypeOK, Gone, Taking, Crash, Started, Opened,
     MutexFree, Free, None, vars, storeVars, fileVars, appendVars, SaveStore, Ends
<1>14. ASSUME Shutdown PROVE Gone(i)'
  <2>1. up /\ ~up' /\ \A q \in Keys : ~Taking(q)
    BY <1>14 DEF Shutdown, MutexFree, Free, Taking
  <2>2. cut' = cut \cup {index'[k] : k \in {q \in Keys : index'[q] \notin {None, store[q]}}}
    BY <1>14 DEF Shutdown
  <2>3. \A q \in Keys : store[q] # i /\ index'[q] = i => i \in cut'
    BY <1>0, <2>2
  <2> QED
    BY <2>1, <2>2, <2>3 DEF Gone
<1>15. ASSUME Restart PROVE Gone(i)'
  BY <1>0, <1>15 DEF Inv, InHand, Owned, TypeOK, Gone, Taking, Restart, Started, Opened,
     MutexFree, Free, None, vars, storeVars, fileVars, appendVars, SaveStore, Ends
<1>16. ASSUME UNCHANGED vars PROVE Gone(i)'
  BY <1>0, <1>16 DEF Inv, InHand, Owned, TypeOK, Gone, Taking, Started, Opened,
     MutexFree, Free, None, vars, storeVars, fileVars, appendVars, SaveStore, Ends
<1> QED
  BY <1>1, <1>2, <1>3, <1>4, <1>5, <1>6, <1>7, <1>8, <1>9, <1>10, <1>11, <1>12, <1>13,
     <1>14, <1>15, <1>16 DEF Next, Structure, AppendMessage, AppendTranscriptEntry

LEMMA KeptNext == Inv /\ Kept /\ [Next]_vars => Kept'
<1> SUFFICES ASSUME Inv, Kept, [Next]_vars, NEW j \in Messages, where'[j] \in Opened,
                    ~Gone(target[j])'
             PROVE  path'[target'[j]] = fd'[j]
  BY DEF Kept
<1>0. ASSUME where[j] \in Opened, target'[j] = target[j]
      PROVE  path[target[j]] = fd[j] /\ target[j] \in 1..ids /\ target[j] \in Ids
  <2>1. target[j] \in 1..ids /\ target[j] \in Ids
    BY <1>0, SessionAssumption DEF Inv, InHand, TypeOK, Started, Ids, None
  <2>2. ~Gone(target[j])
    <3>1. PICK i \in 1..ids : i = target[j]
      BY <2>1
    <3>2. ~Gone(i)'
      BY <1>0, <3>1 DEF Gone
    <3> QED
      BY <3>1, <3>2, GoneStays
  <2> QED
    BY <1>0, <2>1, <2>2 DEF Kept
<1>1. ASSUME NEW k \in Keys, Create(k) \/ UpdateDisplayName(k) \/ DeleteEnds(k) \/ ResetEnds(k)
      PROVE  path'[target'[j]] = fd'[j]
  BY <1>0, <1>1 DEF Create, UpdateDisplayName, DeleteEnds, ResetEnds, fileVars,
     appendVars
<1>2. ASSUME NEW k \in Keys, NEW op \in {"delete", "reset"}, TakeFile(k, op)
      PROVE  path'[target'[j]] = fd'[j]
  <2>1. target[j] # store[k]
    <3>1. /\ mutex' = [op |-> op, who |-> k] /\ op \in {"delete", "reset"}
          /\ store' = store /\ target' = target
      BY <1>2 DEF TakeFile, storeVars, appendVars
    <3>2. Taking(k)'
      BY <3>1 DEF Taking
    <3> QED
      BY <3>1, <3>2 DEF Gone
  <2> QED
    BY <1>0, <1>2, <2>1 DEF Inv, TypeOK, TakeFile, appendVars
<1>3. ASSUME NEW m \in Messages, NEW k \in Keys, LookUp(m, k) \/ Refuse(m, k)
      PROVE  path'[target'[j]] = fd'[j]
  BY <1>0, <1>3 DEF Inv, TypeOK, LookUp, Refuse, Opened, fileVars
<1>4. ASSUME NEW m \in Messages, NEW n \in Inodes, Opens(m, n),
             \A q \in Messages : q # m => where'[q] = where[q] /\ target'[q] = target[q]
      PROVE  path'[target'[j]] = fd'[j]
  <2>1. CASE j = m
    BY <1>4, <2>1 DEF Inv, TypeOK, Opens
  <2>2. CASE j # m
    <3>1. path[target[j]] = fd[j] /\ target[j] \in Ids /\ fd[j] \in 1..inodes
      BY <1>0, <1>4, <2>2 DEF Inv, InHand
    <3>2. target'[m] = target[j] => n = fd[j]
      BY <1>4, <3>1 DEF Opens, None, Inv, TypeOK
    <3> QED
      BY <1>4, <2>2, <3>1, <3>2 DEF Inv, TypeOK, Opens
  <2> QED
    BY <2>1, <2>2
<1>5. ASSUME NEW m \in Messages, Write(m) PROVE path'[target'[j]] = fd'[j]
  BY <1>4, <1>5, WriteOpens DEF Inv, TypeOK, Write
<1>6. ASSUME NEW m \in Messages, NEW k \in Keys, WriteEntry(m, k) PROVE path'[target'[j]] = fd'[j]
  BY <1>4, <1>6, EntryOpens DEF Inv, TypeOK, WriteEntry
<1>7. ASSUME NEW m \in Messages, Close(m) \/ MaybeFlush(m) \/ CloseEntry(m)
      PROVE  path'[target'[j]] = fd'[j]
  BY <1>0, <1>7 DEF Inv, TypeOK, Close, MaybeFlush, CloseEntry, Opened, fileVars
<1>8. CASE Crash \/ Shutdown \/ Restart \/ UNCHANGED vars
  BY <1>0, <1>8 DEF Inv, TypeOK, Crash, Ends, Shutdown, Restart, vars, Opened, fileVars,
     appendVars
<1> QED
  BY <1>1, <1>2, <1>3, <1>5, <1>6, <1>7, <1>8 DEF Next, Structure, AppendMessage,
     AppendTranscriptEntry

\* Files only grow.
Extends(c, d) == DOMAIN c \subseteq DOMAIN d /\ \A p \in DOMAIN c : d[p] = c[p]

LEMMA Appended ==
    ASSUME NEW S, NEW c \in Seq(S), NEW x \in S
    PROVE  /\ Append(c, x) \in Seq(S)
           /\ Len(c) \in Nat /\ Len(Append(c, x)) = Len(c) + 1
           /\ DOMAIN c = 1..Len(c) /\ DOMAIN Append(c, x) = 1..(Len(c) + 1)
           /\ \A p \in 1..Len(c) : Append(c, x)[p] = c[p]
           /\ Append(c, x)[Len(c) + 1] = x
           /\ Extends(c, Append(c, x))
<1>1. /\ Append(c, x) \in Seq(S)
      /\ Len(c) \in Nat /\ Len(Append(c, x)) = Len(c) + 1
      /\ DOMAIN c = 1..Len(c) /\ DOMAIN Append(c, x) = 1..(Len(c) + 1)
      /\ \A p \in 1..Len(c) : Append(c, x)[p] = c[p]
      /\ Append(c, x)[Len(c) + 1] = x
  BY AppendProperties
<1> QED
  BY <1>1 DEF Extends

Chunks == [msg : Messages, part : {"line", "text", "end"}]

LEMMA FirstType == \A m \in Messages : First(m) \in Chunks
  BY DEF First, Chunk, Chunks

\* The steps that write to a file, and what they write.
Puts(n, x) ==
    /\ n \in Inodes /\ x \in Chunks
    /\ content' = [content EXCEPT ![n] = Append(content[n], x)]

LEMMA OpensPuts ==
    ASSUME NEW m \in Messages, NEW n \in Inodes, Opens(m, n) PROVE Puts(n, First(m))
  BY FirstType DEF Opens, Puts

LEMMA ClosePuts ==
    ASSUME Inv, NEW m \in Messages, Close(m) \/ CloseEntry(m)
    PROVE  IF m \in Long THEN Puts(fd[m], Chunk(m, "end")) ELSE content' = content
<1>1. fd[m] \in Inodes
  BY SessionAssumption DEF Inv, TypeOK, InHand, Close, CloseEntry, Opened, Inodes
<1>2. Chunk(m, "end") \in Chunks
  BY DEF Chunk, Chunks
<1> QED
  BY <1>1, <1>2 DEF Close, CloseEntry, WriteEnd, Puts

LEMMA PutsGrows ==
    ASSUME TypeOK, NEW n \in Inodes, NEW x, Puts(n, x)
    PROVE  /\ content'[n] = Append(content[n], x)
           /\ content[n] \in Seq(Chunks)
           /\ \A q \in Inodes : q # n => content'[q] = content[q]
           /\ \A q \in Inodes : Extends(content[q], content'[q])
<1>1. /\ content'[n] = Append(content[n], x)
      /\ content[n] \in Seq(Chunks) /\ x \in Chunks
      /\ \A q \in Inodes : q # n => content'[q] = content[q]
  BY DEF Puts, TypeOK, Chunks
<1>2. Extends(content[n], content'[n])
  BY <1>1, Appended
<1> QED
  BY <1>1, <1>2 DEF Extends

\* What a step does to the files: nothing, or it opens one, or it ends a line.
LEMMA FileSteps ==
    ASSUME Inv, [Next]_vars
    PROVE  \/ UNCHANGED <<content, fd>>
           \/ \E m \in Messages, n \in Inodes :
                /\ Opens(m, n)
                /\ Write(m) \/ \E k \in Keys : WriteEntry(m, k)
           \/ \E m \in Messages : (Close(m) \/ CloseEntry(m)) /\ UNCHANGED fd
<1>1. ASSUME NEW k \in Keys, Structure(k) PROVE UNCHANGED <<content, fd>>
  BY <1>1 DEF Structure, Create, UpdateDisplayName, TakeFile, DeleteEnds, ResetEnds,
     fileVars, appendVars
<1>2. ASSUME NEW m \in Messages, NEW k \in Keys, LookUp(m, k) \/ Refuse(m, k)
      PROVE  UNCHANGED <<content, fd>>
  BY <1>2 DEF LookUp, Refuse, fileVars
<1>3. ASSUME NEW m \in Messages, MaybeFlush(m) PROVE UNCHANGED <<content, fd>>
  BY <1>3 DEF MaybeFlush, fileVars
<1>4. CASE Crash \/ Shutdown \/ Restart \/ UNCHANGED vars
  BY <1>4 DEF Crash, Ends, Shutdown, Restart, vars, fileVars, appendVars
<1>5. ASSUME NEW m \in Messages, Close(m) \/ CloseEntry(m) PROVE UNCHANGED fd
  BY <1>5 DEF Close, CloseEntry
<1> QED
  BY <1>1, <1>2, <1>3, <1>4, <1>5, WriteOpens, EntryOpens DEF Next, AppendMessage,
     AppendTranscriptEntry

\* An append is between its first write and its end only after it has opened.
LEMMA OpenedBefore ==
    ASSUME Inv, [Next]_vars, NEW j \in Messages, where'[j] \in Opened
    PROVE  where[j] \in Opened \/ Write(j) \/ \E k \in Keys : WriteEntry(j, k)
<1>1. ASSUME NEW k \in Keys, Structure(k) PROVE where[j] \in Opened
  BY <1>1 DEF Structure, Create, UpdateDisplayName, TakeFile, DeleteEnds, ResetEnds,
     appendVars
<1>2. ASSUME NEW m \in Messages, NEW k \in Keys, LookUp(m, k) \/ Refuse(m, k)
      PROVE  where[j] \in Opened
  BY <1>2 DEF Inv, TypeOK, LookUp, Refuse, Opened
<1>3. ASSUME NEW m \in Messages, Close(m) \/ CloseEntry(m) \/ MaybeFlush(m)
      PROVE  where[j] \in Opened
  BY <1>3 DEF Inv, TypeOK, Close, CloseEntry, MaybeFlush, Opened
<1>4. CASE Crash \/ Shutdown \/ Restart \/ UNCHANGED vars
  BY <1>4 DEF Inv, TypeOK, Crash, Ends, Shutdown, Restart, vars, Opened, appendVars
<1>5. ASSUME NEW m \in Messages, m # j, Write(m) \/ \E k \in Keys : WriteEntry(m, k)
      PROVE  where[j] \in Opened
  BY <1>5 DEF Inv, TypeOK, Write, WriteEntry
<1> QED
  BY <1>1, <1>2, <1>3, <1>4, <1>5 DEF Next, AppendMessage, AppendTranscriptEntry

LEMMA BeganNext == Inv /\ Began /\ [Next]_vars => Began'
<1> SUFFICES ASSUME Inv, Began, [Next]_vars, NEW j \in Messages, where'[j] \in Opened
             PROVE  \E p \in DOMAIN content'[fd'[j]] : content'[fd'[j]][p] = First(j)
  BY DEF Began, First, Chunk
<1>1. ASSUME where[j] \in Opened, fd'[j] = fd[j], Extends(content[fd[j]], content'[fd[j]])
      PROVE  \E p \in DOMAIN content'[fd'[j]] : content'[fd'[j]][p] = First(j)
  BY <1>1 DEF Began, Extends
<1>2. where[j] \in Opened => fd[j] \in Inodes
  BY SessionAssumption DEF Inv, InHand, TypeOK, Inodes
<1>3. CASE UNCHANGED <<content, fd>>
  <2>1. where[j] \in Opened
    <3>1. ~Write(j) /\ \A k \in Keys : ~WriteEntry(j, k)
      <4>1. ASSUME NEW n \in Inodes, Opens(j, n) PROVE FALSE
        BY <1>3, <4>1, OpensPuts, PutsGrows, Appended, FirstType DEF Inv
      <4> QED
        BY <4>1, WriteOpens, EntryOpens
    <3> QED
      BY <3>1, OpenedBefore
  <2> QED
    BY <1>1, <1>3, <2>1 DEF Extends
<1>4. ASSUME NEW m \in Messages, NEW n \in Inodes, Opens(m, n),
             Write(m) \/ \E k \in Keys : WriteEntry(m, k)
      PROVE  \E p \in DOMAIN content'[fd'[j]] : content'[fd'[j]][p] = First(j)
  <2>1. /\ content'[n] = Append(content[n], First(m)) /\ content[n] \in Seq(Chunks)
        /\ \A q \in Inodes : Extends(content[q], content'[q])
    BY <1>4, OpensPuts, PutsGrows DEF Inv
  <2>2. CASE j = m
    <3>1. fd'[j] = n
      BY <1>4, <2>2 DEF Opens, Inv, TypeOK
    <3> QED
      BY <2>1, <2>2, <3>1, Appended, FirstType
  <2>3. CASE j # m
    <3>1. where[j] \in Opened /\ fd'[j] = fd[j]
      BY <1>4, <2>3 DEF Opens, Inv, TypeOK, Write, WriteEntry
    <3> QED
      BY <1>1, <1>2, <2>1, <3>1
  <2> QED
    BY <2>2, <2>3
<1>5. ASSUME NEW m \in Messages, Close(m) \/ CloseEntry(m), UNCHANGED fd
      PROVE  \E p \in DOMAIN content'[fd'[j]] : content'[fd'[j]][p] = First(j)
  <2>1. where[j] \in Opened
    BY <1>5 DEF Inv, TypeOK, Close, CloseEntry, Opened
  <2>2. Extends(content[fd[j]], content'[fd[j]])
    BY <1>2, <1>5, <2>1, ClosePuts, PutsGrows DEF Extends, Puts, Inv
  <2> QED
    BY <1>1, <1>5, <2>1, <2>2
<1> QED
  BY <1>3, <1>4, <1>5, FileSteps

\* An appended message stays in the history until its session is reset or
\* deleted, over crashes that fall into no removal of a transcript
\* (AppendMessage, DeleteSession, ResetSession, LoadStore).
THEOREM HistoryAlwaysComplete == Spec => []HistoryIsComplete
<1>1. Init => Kept /\ Began
  BY DEF Init, Kept, Began, Opened
<1>2. Inv /\ Kept /\ Began => HistoryIsComplete
  <2> SUFFICES ASSUME Inv, Kept, Began, NEW m \in Messages,
                      where[m] = "done", MutexFree, store[key[m]] = target[m], target[m] \notin cut
               PROVE  path[target[m]] = fd[m] /\ m \in Writers(content[fd[m]])
    BY DEF HistoryIsComplete
  <2>1. ~Gone(target[m])
    <3>1. key[m] \in Keys /\ up /\ \A k \in Keys : ~Taking(k)
      BY DEF Inv, InHand, Started, Opened, MutexFree, Free, Taking
    <3> QED
      BY <3>1 DEF Gone
  <2>2. First(m).msg = m
    BY DEF First, Chunk
  <2> QED
    BY <2>1, <2>2 DEF Kept, Began, Opened, Writers
<1> QED
  BY <1>1, <1>2, Invariance, InitInv, InvNext, KeptNext, BeganNext, PTL DEF Spec

(***************************************************************************)
(* The lines of a transcript.                                              *)
(***************************************************************************)

\* An id is that of one session.
IdOwners ==
    \A m \in Messages : where[m] \in Started =>
        /\ \A j \in Messages : where[j] \in Started /\ target[j] = target[m] => key[j] = key[m]
        /\ \A k \in Keys : target[m] \in {store[k], index[k]} => key[m] = k

\* A file is that of one id.
FileOwners ==
    /\ \A m, j \in Messages : where[m] \in Opened /\ where[j] \in Opened /\ fd[j] = fd[m] =>
            target[j] = target[m]
    /\ \A m \in Messages, i \in Ids : where[m] \in Opened /\ path[i] = fd[m] => i = target[m]
    /\ \A i, q \in Ids : path[i] = path[q] /\ path[i] # None => i = q

\* Nobody has damaged this file: no entry is in it and no append was cut short.
Pure(n) ==
    \A p \in DOMAIN content[n] :
        content[n][p].msg \notin Entries /\ where[content[n][p].msg] # "lost"

\* The text of a record is followed by its end, or its writer is at work.
Sound ==
    \A n \in Inodes : Pure(n) =>
        \A p \in DOMAIN content[n] : content[n][p].part = "text" =>
            \/ p < Len(content[n]) /\ content[n][p + 1] = Chunk(content[n][p].msg, "end")
            \/ /\ p = Len(content[n])
               /\ where[content[n][p].msg] = "writing" /\ fd[content[n][p].msg] = n

\* What a thread has begun to write is what the file ends with.
AtEnd ==
    \A m \in Messages \ Entries :
        where[m] = "writing" /\ Pure(fd[m]) =>
            /\ Len(content[fd[m]]) # 0
            /\ content[fd[m]][Len(content[fd[m]])] = First(m)

LEMMA IdOwnersNext == Inv /\ IdOwners /\ [Next]_vars => IdOwners'
<1> SUFFICES ASSUME Inv, IdOwners, [Next]_vars PROVE IdOwners'
  OBVIOUS
<1>1. ASSUME NEW k \in Keys, Create(k) PROVE IdOwners'
  BY <1>1, SessionAssumption, SMTT(90) DEF Inv, InHand, TypeOK, IdOwners, Create, Started, Opened,
     Ends, vars, storeVars, fileVars, appendVars, SaveStore, None, Owned, InFlight, Ids
<1>2. ASSUME NEW k \in Keys, UpdateDisplayName(k) PROVE IdOwners'
  BY <1>2, SessionAssumption, SMTT(90) DEF Inv, InHand, TypeOK, IdOwners, UpdateDisplayName,
     Started, Opened, Ends, vars, storeVars, fileVars, appendVars, SaveStore, None,
     Owned, InFlight, Ids
<1>3. ASSUME NEW k \in Keys, NEW op \in {"delete", "reset"}, TakeFile(k, op) PROVE IdOwners'
  BY <1>3, SessionAssumption, SMTT(90) DEF Inv, InHand, TypeOK, IdOwners, TakeFile, Started,
     Opened, Ends, vars, storeVars, fileVars, appendVars, SaveStore, None, Owned,
     InFlight, Ids
<1>4. ASSUME NEW k \in Keys, DeleteEnds(k) PROVE IdOwners'
  BY <1>4, SessionAssumption, SMTT(90) DEF Inv, InHand, TypeOK, IdOwners, DeleteEnds, Started,
     Opened, Ends, vars, storeVars, fileVars, appendVars, SaveStore, None, Owned,
     InFlight, Ids
<1>5. ASSUME NEW k \in Keys, ResetEnds(k) PROVE IdOwners'
  BY <1>5, SessionAssumption, SMTT(90) DEF Inv, InHand, TypeOK, IdOwners, ResetEnds, Started,
     Opened, Ends, vars, storeVars, fileVars, appendVars, SaveStore, None, Owned,
     InFlight, Ids
<1>6. ASSUME NEW m \in Messages, NEW k \in Keys, LookUp(m, k) PROVE IdOwners'
  BY <1>6, SessionAssumption, SMTT(90) DEF Inv, InHand, TypeOK, IdOwners, LookUp, Started, Opened,
     Ends, vars, storeVars, fileVars, appendVars, SaveStore, None, Owned, InFlight, Ids
<1>7. ASSUME NEW m \in Messages, NEW k \in Keys, Refuse(m, k) PROVE IdOwners'
  BY <1>7, SessionAssumption, SMTT(90) DEF Inv, InHand, TypeOK, IdOwners, Refuse, Started, Opened,
     Ends, vars, storeVars, fileVars, appendVars, SaveStore, None, Owned, InFlight, Ids
<1>8. ASSUME NEW m \in Messages, Write(m) PROVE IdOwners'
  BY <1>8, SessionAssumption, SMTT(90) DEF Inv, InHand, TypeOK, IdOwners, Write, Started, Opened,
     Ends, vars, storeVars, fileVars, appendVars, SaveStore, None, Owned, InFlight, Ids
<1>9. ASSUME NEW m \in Messages, Close(m) PROVE IdOwners'
  BY <1>9, SessionAssumption, SMTT(90) DEF Inv, InHand, TypeOK, IdOwners, Close, Started, Opened,
     Ends, vars, storeVars, fileVars, appendVars, SaveStore, None, Owned, InFlight, Ids
<1>10. ASSUME NEW m \in Messages, MaybeFlush(m) PROVE IdOwners'
  BY <1>10, SessionAssumption, SMTT(90) DEF Inv, InHand, TypeOK, IdOwners, MaybeFlush, Started,
     Opened, Ends, vars, storeVars, fileVars, appendVars, SaveStore, None, Owned,
     InFlight, Ids
<1>11. ASSUME NEW m \in Messages, NEW k \in Keys, WriteEntry(m, k) PROVE IdOwners'
  BY <1>11, SessionAssumption, SMTT(90) DEF Inv, InHand, TypeOK, IdOwners, WriteEntry, Started,
     Opened, Ends, vars, storeVars, fileVars, appendVars, SaveStore, None, Owned,
     InFlight, Ids
<1>12. ASSUME NEW m \in Messages, CloseEntry(m) PROVE IdOwners'
  <2>1. \A j \in Messages : where'[j] \in Started => where[j] \in Started
    BY <1>12 DEF CloseEntry, Inv, TypeOK, Started, Opened
  <2> QED
    BY <1>12, <2>1 DEF CloseEntry, IdOwners, SaveStore
<1>13. ASSUME Crash PROVE IdOwners'
  BY <1>13, SessionAssumption, SMTT(90) DEF Inv, InHand, TypeOK, IdOwners, Crash, Started, Opened,
     Ends, vars, storeVars, fileVars, appendVars, SaveStore, None, Owned, InFlight, Ids
<1>14. ASSUME Shutdown PROVE IdOwners'
  BY <1>14, SessionAssumption, SMTT(90) DEF Inv, InHand, TypeOK, IdOwners, Shutdown, Started,
     Opened, Ends, vars, storeVars, fileVars, appendVars, SaveStore, None, Owned,
     InFlight, Ids
<1>15. ASSUME Restart PROVE IdOwners'
  BY <1>15, SessionAssumption, SMTT(90) DEF Inv, InHand, TypeOK, IdOwners, Restart, Started,
     Opened, Ends, vars, storeVars, fileVars, appendVars, SaveStore, None, Owned,
     InFlight, Ids
<1>16. ASSUME UNCHANGED vars PROVE IdOwners'
  BY <1>16, SessionAssumption, SMTT(90) DEF Inv, InHand, TypeOK, IdOwners, Started, Opened, Ends,
     vars, storeVars, fileVars, appendVars, SaveStore, None, Owned, InFlight, Ids
<1> QED
  BY <1>1, <1>2, <1>3, <1>4, <1>5, <1>6, <1>7, <1>8, <1>9, <1>10, <1>11, <1>12, <1>13,
     <1>14, <1>15, <1>16 DEF Next, Structure, AppendMessage, AppendTranscriptEntry

LEMMA FileOwnersNext == Inv /\ FileOwners /\ [Next]_vars => FileOwners'
<1> SUFFICES ASSUME Inv, FileOwners, [Next]_vars PROVE FileOwners'
  OBVIOUS
<1>1. ASSUME NEW k \in Keys, Create(k) PROVE FileOwners'
  BY <1>1, SessionAssumption DEF Inv, InHand, TypeOK, FileOwners, Create, Started,
     Opened, Ends, vars, storeVars, fileVars, appendVars, None, Ids, InFlight
<1>2. ASSUME NEW k \in Keys, UpdateDisplayName(k) PROVE FileOwners'
  BY <1>2, SessionAssumption DEF Inv, InHand, TypeOK, FileOwners, UpdateDisplayName,
     Started, Opened, Ends, vars, storeVars, fileVars, appendVars, None, Ids, InFlight
<1>3. ASSUME NEW k \in Keys, NEW op \in {"delete", "reset"}, TakeFile(k, op) PROVE FileOwners'
  BY <1>3, SessionAssumption DEF Inv, InHand, TypeOK, FileOwners, TakeFile, Started,
     Opened, Ends, vars, storeVars, fileVars, appendVars, None, Ids, InFlight
<1>4. ASSUME NEW k \in Keys, DeleteEnds(k) PROVE FileOwners'
  BY <1>4, SessionAssumption DEF Inv, InHand, TypeOK, FileOwners, DeleteEnds, Started,
     Opened, Ends, vars, storeVars, fileVars, appendVars, None, Ids, InFlight
<1>5. ASSUME NEW k \in Keys, ResetEnds(k) PROVE FileOwners'
  BY <1>5, SessionAssumption DEF Inv, InHand, TypeOK, FileOwners, ResetEnds, Started,
     Opened, Ends, vars, storeVars, fileVars, appendVars, None, Ids, InFlight
<1>6. ASSUME NEW m \in Messages, NEW k \in Keys, LookUp(m, k) PROVE FileOwners'
  BY <1>6, SessionAssumption DEF Inv, InHand, TypeOK, FileOwners, LookUp, Started,
     Opened, Ends, vars, storeVars, fileVars, appendVars, None, Ids, InFlight
<1>7. ASSUME NEW m \in Messages, NEW k \in Keys, Refuse(m, k) PROVE FileOwners'
  BY <1>7, SessionAssumption DEF Inv, InHand, TypeOK, FileOwners, Refuse, Started,
     Opened, Ends, vars, storeVars, fileVars, appendVars, None, Ids, InFlight
<1>8. ASSUME NEW m \in Messages, Write(m) PROVE FileOwners'
  <2>1. PICK n \in Inodes : Opens(m, n)
    BY <1>8, WriteOpens
  <2>2. /\ target'[m] \in Ids /\ path' = [path EXCEPT ![target'[m]] = n]
        /\ fd' = [fd EXCEPT ![m] = n]
        /\ path[target'[m]] = n \/ (path[target'[m]] = None /\ n = inodes + 1)
    BY <2>1 DEF Opens
  <2>3. \A j \in Messages : j # m => where'[j] = where[j] /\ target'[j] = target[j] /\ fd'[j] = fd[j]
    BY <1>8, <2>2 DEF Inv, TypeOK, Write
  <2>4. \A j \in Messages : j # m /\ where[j] \in Opened /\ fd[j] = n => target[j] = target'[m]
    BY <2>2 DEF Inv, InHand, TypeOK, FileOwners
  <2>5. \A i \in Ids : path[i] = n => i = target'[m]
    BY <2>2 DEF Inv, InHand, TypeOK, FileOwners, None, Inodes
  <2>6. n # None
    BY DEF Inodes, None
  <2> QED
    BY <2>2, <2>3, <2>4, <2>5, <2>6 DEF Inv, TypeOK, FileOwners
<1>9. ASSUME NEW m \in Messages, Close(m) PROVE FileOwners'
  BY <1>9, SessionAssumption DEF Inv, InHand, TypeOK, FileOwners, Close, Started,
     Opened, Ends, vars, storeVars, fileVars, appendVars, None, Ids, InFlight
<1>10. ASSUME NEW m \in Messages, MaybeFlush(m) PROVE FileOwners'
  BY <1>10, SessionAssumption DEF Inv, InHand, TypeOK, FileOwners, MaybeFlush, Started,
     Opened, Ends, vars, storeVars, fileVars, appendVars, None, Ids, InFlight
<1>11. ASSUME NEW m \in Messages, NEW k \in Keys, WriteEntry(m, k) PROVE FileOwners'
  <2>1. PICK n \in Inodes : Opens(m, n)
    BY <1>11, EntryOpens
  <2>2. /\ target'[m] \in Ids /\ path' = [path EXCEPT ![target'[m]] = n]
        /\ fd' = [fd EXCEPT ![m] = n]
        /\ path[target'[m]] = n \/ (path[target'[m]] = None /\ n = inodes + 1)
    BY <2>1 DEF Opens
  <2>3. \A j \in Messages : j # m => where'[j] = where[j] /\ target'[j] = target[j] /\ fd'[j] = fd[j]
    BY <1>11, <2>2 DEF Inv, TypeOK, WriteEntry
  <2>4. \A j \in Messages : j # m /\ where[j] \in Opened /\ fd[j] = n => target[j] = target'[m]
    BY <2>2 DEF Inv, InHand, TypeOK, FileOwners
  <2>5. \A i \in Ids : path[i] = n => i = target'[m]
    BY <2>2 DEF Inv, InHand, TypeOK, FileOwners, None, Inodes
  <2>6. n # None
    BY DEF Inodes, None
  <2> QED
    BY <2>2, <2>3, <2>4, <2>5, <2>6 DEF Inv, TypeOK, FileOwners
<1>12. ASSUME NEW m \in Messages, CloseEntry(m) PROVE FileOwners'
  BY <1>12, SessionAssumption DEF Inv, InHand, TypeOK, FileOwners, CloseEntry, Started,
     Opened, Ends, vars, storeVars, fileVars, appendVars, None, Ids, InFlight
<1>13. ASSUME Crash PROVE FileOwners'
  <2>1. \A j \in Messages : where'[j] \in Opened => where[j] \in Opened
    BY <1>13 DEF Crash, Ends, Inv, TypeOK, Opened
  <2> QED
    BY <1>13, <2>1 DEF Crash, Ends, fileVars, FileOwners
<1>14. ASSUME Shutdown PROVE FileOwners'
  BY <1>14, SessionAssumption DEF Inv, InHand, TypeOK, FileOwners, Shutdown, Started,
     Opened, Ends, vars, storeVars, fileVars, appendVars, None, Ids, InFlight
<1>15. ASSUME Restart PROVE FileOwners'
  BY <1>15, SessionAssumption DEF Inv, InHand, TypeOK, FileOwners, Restart, Started,
     Opened, Ends, vars, storeVars, fileVars, appendVars, None, Ids, InFlight
<1>16. ASSUME UNCHANGED vars PROVE FileOwners'
  BY <1>16, SessionAssumption DEF Inv, InHand, TypeOK, FileOwners, Started, Opened,
     Ends, vars, storeVars, fileVars, appendVars, None, Ids, InFlight
<1> QED
  BY <1>1, <1>2, <1>3, <1>4, <1>5, <1>6, <1>7, <1>8, <1>9, <1>10, <1>11, <1>12, <1>13,
     <1>14, <1>15, <1>16 DEF Next, Structure, AppendMessage, AppendTranscriptEntry

\* Two messages are never written to one file at a time.
LEMMA OneWriter ==
    ASSUME Inv, IdOwners, FileOwners, NEW m \in Messages \ Entries, NEW j \in Messages \ Entries,
           where[m] = "writing", where[j] = "writing", fd[m] = fd[j]
    PROVE  m = j
  BY DEF Inv, InHand, IdOwners, FileOwners, Started, Opened

LEMMA NobodyElse ==
    ASSUME Inv, IdOwners, FileOwners, NEW m \in Messages, NEW n \in Inodes, Write(m), Opens(m, n),
           NEW j \in Messages \ Entries, where[j] = "writing", fd[j] = n
    PROVE  FALSE
<1>1. /\ target'[m] = target[m] /\ target[m] \in Ids
      /\ where[m] = "captured" /\ locks[key[m]] = Nobody
  BY DEF Write, Opens
<1>2. fd[j] \in 1..inodes /\ locks[key[j]] = j /\ j # Nobody
  BY SessionAssumption DEF Inv, InHand, Opened
<1>3. path[target[m]] = n
  BY <1>1, <1>2 DEF Opens, Inv, TypeOK
<1>4. target[m] = target[j]
  BY <1>1, <1>3 DEF FileOwners, Opened
<1>5. key[m] = key[j]
  BY <1>1, <1>4 DEF IdOwners, Started, Opened
<1> QED
  BY <1>1, <1>2, <1>5

LEMMA Grown ==
    ASSUME Inv, [Next]_vars, NEW n \in Inodes
    PROVE  /\ Extends(content[n], content'[n])
           /\ \A p \in DOMAIN content[n] : content[n][p].msg \in Messages
<1>1. Extends(content[n], content'[n])
  BY FileSteps, OpensPuts, ClosePuts, PutsGrows DEF Extends, Puts, Inv
<1>2. content[n] \in Seq(Chunks)
  BY DEF Inv, TypeOK, Chunks
<1>3. \A p \in DOMAIN content[n] : content[n][p] \in Chunks
  BY <1>2
<1> QED
  BY <1>1, <1>3 DEF Chunks

LEMMA WritingStays ==
    ASSUME Inv, [Next]_vars, NEW j \in Messages
    PROVE  /\ where[j] = "lost" => where'[j] = "lost"
           /\ where[j] = "writing" => where'[j] \in {"writing", "lost"} \/ Close(j) \/ CloseEntry(j)
           /\ where'[j] = "writing" => \/ where[j] = "writing"
                                       \/ Write(j)
                                       \/ \E k \in Keys : WriteEntry(j, k)
<1> DEFINE G == /\ where[j] = "lost" => where'[j] = "lost"
                /\ where[j] = "writing" => where'[j] \in {"writing", "lost"} \/ Close(j) \/ CloseEntry(j)
                /\ where'[j] = "writing" => \/ where[j] = "writing"
                                            \/ Write(j)
                                            \/ \E k \in Keys : WriteEntry(j, k)
<1>1. ASSUME NEW k \in Keys, Structure(k) PROVE G
  BY <1>1 DEF Structure, Create, UpdateDisplayName, TakeFile, DeleteEnds, ResetEnds,
     appendVars
<1>2. ASSUME NEW m \in Messages, NEW k \in Keys, LookUp(m, k) \/ Refuse(m, k) PROVE G
  BY <1>2 DEF Inv, TypeOK, LookUp, Refuse
<1>3. ASSUME NEW m \in Messages, Close(m) \/ CloseEntry(m) \/ MaybeFlush(m) PROVE G
  <2>1. CASE m = j
    BY <1>3, <2>1 DEF Inv, TypeOK, Close, CloseEntry, MaybeFlush
  <2>2. CASE m # j
    BY <1>3, <2>2 DEF Inv, TypeOK, Close, CloseEntry, MaybeFlush
  <2> QED
    BY <2>1, <2>2
<1>4. CASE Crash \/ Shutdown \/ Restart \/ UNCHANGED vars
  BY <1>4 DEF Inv, TypeOK, Crash, Ends, Shutdown, Restart, vars, InFlight, appendVars
<1>5. ASSUME NEW m \in Messages, Write(m) \/ \E k \in Keys : WriteEntry(m, k) PROVE G
  <2>1. CASE m = j
    BY <1>5, <2>1 DEF Inv, TypeOK, Write, WriteEntry
  <2>2. CASE m # j
    BY <1>5, <2>2 DEF Inv, TypeOK, Write, WriteEntry
  <2> QED
    BY <2>1, <2>2
<1> QED
  BY <1>1, <1>2, <1>3, <1>4, <1>5 DEF Next, AppendMessage, AppendTranscriptEntry

LEMMA PureBefore ==
    ASSUME Inv, [Next]_vars, NEW n \in Inodes, Pure(n)'
    PROVE  Pure(n)
  BY Grown, WritingStays DEF Pure, Extends

\* The file a message is being written to is left alone by everybody else.
LEMMA Undisturbed ==
    ASSUME Inv, IdOwners, FileOwners, Began, [Next]_vars,
           NEW j \in Messages \ Entries, where[j] = "writing", where'[j] = "writing",
           NEW n \in Inodes, fd[j] = n, Pure(n)'
    PROVE  content'[n] = content[n] /\ fd'[j] = n
<1>1. CASE UNCHANGED <<content, fd>>
  BY <1>1
<1>2. ASSUME NEW m \in Messages, NEW q \in Inodes, Opens(m, q),
             Write(m) \/ \E k \in Keys : WriteEntry(m, k)
      PROVE  content'[n] = content[n] /\ fd'[j] = n
  <2>1. m # j
    BY <1>2 DEF Write, WriteEntry
  <2>2. fd'[j] = n
    BY <1>2, <2>1 DEF Opens, Inv, TypeOK
  <2>3. /\ content'[q] = Append(content[q], First(m)) /\ content[q] \in Seq(Chunks)
        /\ \A i \in Inodes : i # q => content'[i] = content[i]
    BY <1>2, OpensPuts, PutsGrows DEF Inv
  <2>4. q # n
    <3>1. CASE Write(m)
      BY <1>2, <3>1, NobodyElse
    <3>2. ASSUME NEW k \in Keys, WriteEntry(m, k), q = n PROVE FALSE
      <4>1. \E p \in DOMAIN content'[n] : content'[n][p] = First(m)
        BY <2>3, <3>2, Appended, FirstType
      <4>2. First(m).msg \in Entries
        BY <3>2 DEF WriteEntry, First, Chunk
      <4> QED
        BY <4>1, <4>2 DEF Pure
    <3> QED
      BY <1>2, <3>1, <3>2
  <2> QED
    BY <2>2, <2>3, <2>4
<1>3. ASSUME NEW m \in Messages, Close(m) \/ CloseEntry(m), UNCHANGED fd
      PROVE  content'[n] = content[n] /\ fd'[j] = n
  <2>1. m # j
    BY <1>3 DEF Close, CloseEntry, Inv, TypeOK
  <2>2. fd[m] # n
    <3>1. ASSUME Close(m), fd[m] = n PROVE FALSE
      BY <2>1, <3>1, OneWriter DEF Close
    <3>2. ASSUME CloseEntry(m), fd[m] = n PROVE FALSE
      <4>1. \E p \in DOMAIN content[n] : content[n][p] = First(m)
        BY <3>2 DEF CloseEntry, Began, Opened
      <4>2. First(m).msg \in Entries
        BY <3>2 DEF CloseEntry, First, Chunk
      <4> QED
        BY <4>1, <4>2, PureBefore DEF Pure
    <3> QED
      BY <1>3, <3>1, <3>2
  <2> QED
    BY <1>3, <2>2, ClosePuts, PutsGrows DEF Puts, Inv
<1> QED
  BY <1>1, <1>2, <1>3, FileSteps

LEMMA AtEndNext ==
    Inv /\ IdOwners /\ FileOwners /\ Began /\ AtEnd /\ [Next]_vars => AtEnd'
<1> SUFFICES ASSUME Inv, IdOwners, FileOwners, Began, AtEnd, [Next]_vars,
                    NEW j \in Messages \ Entries, where'[j] = "writing",
                    NEW n, n = fd'[j], Pure(n)'
             PROVE  Len(content'[n]) # 0 /\ content'[n][Len(content'[n])] = First(j)
  BY DEF AtEnd, Pure, First, Chunk
<1>1. CASE where[j] = "writing"
  <2>1. fd[j] \in Inodes
    BY <1>1, SessionAssumption DEF Inv, InHand, TypeOK, Opened, Inodes
  <2>2. fd'[j] = fd[j]
    <3>1. ~Write(j) /\ \A k \in Keys : ~WriteEntry(j, k)
      BY <1>1 DEF Write, WriteEntry
    <3>2. ASSUME NEW m \in Messages, NEW q \in Inodes, Opens(m, q), m # j PROVE fd'[j] = fd[j]
      BY <3>2 DEF Opens, Inv, TypeOK
    <3> QED
      BY <3>1, <3>2, FileSteps
  <2>3. content'[n] = content[n]
    BY <1>1, <2>1, <2>2, Undisturbed
  <2> QED
    BY <1>1, <2>1, <2>2, <2>3, PureBefore DEF AtEnd
<1>2. CASE where[j] # "writing"
  <2>1. Write(j)
    BY <1>2, WritingStays DEF WriteEntry
  <2>2. PICK q \in Inodes : Opens(j, q)
    BY <2>1, WriteOpens
  <2>3. q = n
    BY <2>2 DEF Opens, Inv, TypeOK
  <2> QED
    BY <2>2, <2>3, OpensPuts, PutsGrows, Appended, FirstType DEF Inv
<1> QED
  BY <1>1, <1>2

LEMMA SoundNext ==
    Inv /\ IdOwners /\ FileOwners /\ Began /\ AtEnd /\ Sound /\ [Next]_vars => Sound'
<1> SUFFICES ASSUME Inv, IdOwners, FileOwners, Began, AtEnd, Sound, [Next]_vars,
                    NEW n \in Inodes, Pure(n)',
                    NEW p \in DOMAIN content'[n], content'[n][p].part = "text"
             PROVE  \/ /\ p < Len(content'[n])
                       /\ content'[n][p + 1] = Chunk(content'[n][p].msg, "end")
                    \/ /\ p = Len(content'[n])
                       /\ where'[content'[n][p].msg] = "writing"
                       /\ fd'[content'[n][p].msg] = n
  BY DEF Sound, Chunk
<1> DEFINE c == content[n]
           d == content'[n]
<1>1. /\ c \in Seq(Chunks) /\ d \in Seq(Chunks)
      /\ DOMAIN c = 1..Len(c) /\ DOMAIN d = 1..Len(d) /\ Len(c) \in Nat /\ Len(d) \in Nat
  <2>1. TypeOK /\ TypeOK'
    BY InvNext DEF Inv
  <2>2. c \in Seq(Chunks) /\ d \in Seq(Chunks)
    BY <2>1 DEF TypeOK, Chunks
  <2> QED
    BY <2>2
<1>2. Pure(n) /\ Extends(c, d)
  BY PureBefore, Grown
<1>3. CASE p \in DOMAIN c
  <2> DEFINE j == c[p].msg
  <2>1. /\ d[p] = c[p] /\ c[p].part = "text"
        /\ j \in Messages \ Entries /\ where'[j] # "lost"
    BY <1>2, <1>3, Grown DEF Extends, Pure
  <2>2. CASE p < Len(c) /\ c[p + 1] = Chunk(j, "end")
    BY <1>1, <1>2, <2>1, <2>2 DEF Extends
  <2>3. CASE p = Len(c) /\ where[j] = "writing" /\ fd[j] = n
    <3>1. CASE where'[j] = "writing"
      <4>1. d = c /\ fd'[j] = n
        BY <2>1, <2>3, <3>1, Undisturbed
      <4> QED
        BY <2>1, <2>3, <3>1, <4>1
    <3>2. CASE Close(j)
      <4>1. c[p] = First(j)
        BY <1>2, <2>1, <2>3 DEF AtEnd
      <4>2. j \in Long
        BY <2>1, <4>1 DEF First, Chunk
      <4>3. d = Append(c, Chunk(j, "end")) /\ Chunk(j, "end") \in Chunks
        BY <2>1, <2>3, <3>2, <4>2, ClosePuts, PutsGrows DEF Inv, Puts
      <4>4. Len(d) = Len(c) + 1 /\ d[Len(c) + 1] = Chunk(j, "end")
        BY <1>1, <4>3, Appended
      <4> QED
        BY <1>1, <2>1, <2>3, <4>4
    <3>3. ~CloseEntry(j)
      BY <2>1 DEF CloseEntry
    <3> QED
      BY <2>1, <2>3, <3>1, <3>2, <3>3, WritingStays
  <2> QED
    BY <1>2, <1>3, <2>1, <2>2, <2>3 DEF Sound
<1>4. CASE p \notin DOMAIN c
  <2>1. CASE UNCHANGED <<content, fd>>
    BY <1>4, <2>1
  <2>2. ASSUME NEW m \in Messages, NEW q \in Inodes, Opens(m, q),
               Write(m) \/ \E k \in Keys : WriteEntry(m, k)
        PROVE  /\ p = Len(d) /\ where'[d[p].msg] = "writing" /\ fd'[d[p].msg] = n
    <3>1. /\ content'[q] = Append(content[q], First(m)) /\ content[q] \in Seq(Chunks)
          /\ \A i \in Inodes : i # q => content'[i] = content[i]
      BY <2>2, OpensPuts, PutsGrows DEF Inv
    <3>2. q = n
      BY <1>4, <3>1
    <3>3. p = Len(d) /\ d[p] = First(m)
      BY <1>1, <1>4, <3>1, <3>2, Appended, FirstType
    <3>4. d[p].msg = m
      BY <3>3 DEF First, Chunk
    <3>5. fd'[m] = n /\ where'[m] = "writing"
      BY <2>2, <3>2 DEF Opens, Write, WriteEntry, Inv, TypeOK
    <3> QED
      BY <3>3, <3>4, <3>5
  <2>3. ASSUME NEW m \in Messages, Close(m) \/ CloseEntry(m) PROVE FALSE
    <3>1. m \in Long /\ fd[m] = n /\ Puts(n, Chunk(m, "end"))
      BY <1>4, <2>3, ClosePuts, PutsGrows DEF Inv, Puts
    <3>2. d = Append(c, Chunk(m, "end")) /\ Chunk(m, "end") \in Chunks
      BY <3>1, PutsGrows DEF Inv, Puts
    <3>3. d[p] = Chunk(m, "end")
      BY <1>1, <1>4, <3>2, Appended
    <3> QED
      BY <3>3 DEF Chunk
  <2> QED
    BY <2>1, <2>2, <2>3, FileSteps
<1> QED
  BY <1>3, <1>4

\* A message stays a line of its own, unless an entry or a crash cut into its
\* file (AppendMessage under the session's lock).
THEOREM LinesAlwaysWhole == Spec => []LinesStayWhole
<1> DEFINE Lines == Began /\ IdOwners /\ FileOwners /\ AtEnd /\ Sound
<1>1. Init => Lines
  <2> SUFFICES ASSUME Init PROVE Lines
    OBVIOUS
  <2>1. Began /\ IdOwners /\ FileOwners /\ AtEnd
    BY DEF Init, Began, IdOwners, FileOwners, AtEnd, Started, Opened
  <2>2. \A n \in Inodes : content[n] = <<>>
    BY DEF Init
  <2>3. DOMAIN <<>> = {}
    OBVIOUS
  <2> QED
    BY <2>1, <2>2, <2>3 DEF Sound
<1>2. Inv /\ Lines /\ [Next]_vars => Lines'
  BY BeganNext, IdOwnersNext, FileOwnersNext, AtEndNext, SoundNext
<1>3. Inv /\ Lines => LinesStayWhole
  <2> SUFFICES ASSUME Inv, Lines, NEW m \in Messages \ Entries, where[m] = "done",
                      NEW n, n = fd[m],
                      ~CutShort(content[n]), Writers(content[n]) \cap Entries = {}
               PROVE  Whole(content[n], m)
    BY DEF LinesStayWhole
  <2> DEFINE c == content[n]
  <2>1. n \in Inodes
    BY SessionAssumption DEF Inv, InHand, TypeOK, Opened, Inodes
  <2>2. Pure(n)
    BY DEF Pure, CutShort, Writers
  <2>3. c \in Seq(Chunks) /\ DOMAIN c = 1..Len(c) /\ Len(c) \in Nat
    <3>1. c \in Seq(Chunks)
      BY <2>1 DEF Inv, TypeOK, Chunks
    <3> QED
      BY <3>1
  <2>4. PICK p \in DOMAIN c : c[p] = First(m)
    BY DEF Began, Opened
  <2>5. p = 1 \/ LineAt(c, p - 1)
    <3> SUFFICES ASSUME p # 1, c[p - 1].part = "text" PROVE FALSE
      BY <2>3 DEF LineAt
    <3>1. p - 1 \in DOMAIN c /\ p - 1 < Len(c) /\ (p - 1) + 1 = p
      BY <2>3
    <3>2. c[p].part = "end"
      <4>1. PICK q \in DOMAIN c : q = p - 1
        BY <3>1
      <4>2. c[q + 1] = Chunk(c[q].msg, "end")
        BY <2>1, <2>2, <3>1, <4>1 DEF Sound
      <4> QED
        BY <3>1, <4>1, <4>2 DEF Chunk
    <3> QED
      BY <2>4, <3>2 DEF First, Chunk
  <2>6. CASE m \in Long
    <3>1. c[p].part = "text" /\ c[p].msg = m /\ c[p] = Chunk(m, "text")
      BY <2>4, <2>6 DEF First, Chunk
    <3>2. p < Len(c) /\ c[p + 1] = Chunk(m, "end")
      BY <2>1, <2>2, <3>1 DEF Sound
    <3> QED
      BY <2>5, <3>1, <3>2 DEF Whole
  <2>7. CASE m \notin Long
    BY <2>4, <2>5, <2>7 DEF Whole, First
  <2> QED
    BY <2>6, <2>7
<1> HIDE DEF Lines
<1> QED
  BY <1>1, <1>2, <1>3, Invariance, InitInv, InvNext, PTL DEF Spec
===============================================================================
