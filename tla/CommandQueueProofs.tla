-------------------------- MODULE CommandQueueProofs --------------------------
(***************************************************************************)
(* Proofs about CommandQueue, for any number of sessions and commands:     *)
(* its lanes and workers, what is known of a command, the cap of a lane,   *)
(* how far the runs of a session overlap, and that a queue nobody          *)
(* interrupts is a SerialSessions.                                         *)
(***************************************************************************)
EXTENDS CommandQueue, FiniteSetTheorems, SequenceTheorems, TLAPS

(***************************************************************************)
(* The operators on a lane's queue.                                        *)
(***************************************************************************)

\* The overflow loop makes at most as many passes as the queue has commands.
LEMMA ExcessRange ==
    ASSUME NEW T, NEW q \in Seq(T), q # <<>>, NEW cap \in Int
    PROVE  /\ Excess(q, cap) \in 0..Len(q)
           /\ Merges(q, cap) \in 0..(Len(q) - 1)
  BY DEF Excess, Merges

\* What overflow leaves of a queue is a queue of the same commands.
LEMMA TrimmedType ==
    ASSUME NEW T, NEW q \in Seq(T), q # <<>>, NEW cap \in Int, NEW drop \in DropPolicies
    PROVE  Trimmed(q, cap, drop) \in Seq(T)
<1>1. /\ Excess(q, cap) \in 0..Len(q)
      /\ Merges(q, cap) \in 0..(Len(q) - 1)
  BY ExcessRange
<1>2. CASE drop = "summarize"
  <2>1. SubSeq(q, Merges(q, cap) + 2, Len(q)) \in Seq(T)
    BY <1>1
  <2> QED
    BY <1>1, <1>2, <2>1 DEF Trimmed
<1>3. CASE drop = "drop-oldest"
  <2>1. SubSeq(q, Excess(q, cap) + 1, Len(q)) \in Seq(T)
    BY <1>1
  <2> QED
    BY <1>3, <2>1 DEF Trimmed
<1>4. CASE drop = "reject"
  <2>1. SubSeq(q, 1, Len(q) - Excess(q, cap)) \in Seq(T)
    BY <1>1
  <2> QED
    BY <1>4, <2>1 DEF Trimmed
<1> QED
  BY <1>2, <1>3, <1>4 DEF DropPolicies

LEMMA ElementsType ==
    ASSUME NEW T, NEW q \in Seq(T)
    PROVE  ToSet(q) \subseteq T
  BY DEF ToSet

LEMMA HeadType ==
    ASSUME NEW T, NEW q \in Seq(T), q # <<>>
    PROVE  Head(q) \in T
  OBVIOUS

LEMMA AppendType ==
    ASSUME NEW T, NEW q \in Seq(T), NEW x \in T
    PROVE  Append(q, x) \in Seq(T) /\ Append(q, x) # <<>>
<1>1. Append(q, x) \in Seq(T) /\ Len(Append(q, x)) = Len(q) + 1 /\ Len(q) \in Nat
  OBVIOUS
<1> QED
  BY <1>1

LEMMA KeptType ==
    ASSUME NEW T, NEW q \in Seq(T)
    PROVE  KeptByInterrupt(q) \in Seq(T)
  BY DEF KeptByInterrupt

LEMMA RemoveAtType ==
    ASSUME NEW T, NEW q \in Seq(T), NEW i \in DOMAIN q
    PROVE  RemoveAt(q, i) \in Seq(T)
  BY DEF RemoveAt

\* A trimmed queue that was not empty and is summarized keeps its head.
LEMMA SummaryNotEmpty ==
    ASSUME NEW T, NEW q \in Seq(T), q # <<>>, NEW cap \in Int
    PROVE  /\ Trimmed(q, cap, "summarize") # <<>>
           /\ Head(Trimmed(q, cap, "summarize")) = Head(q)
<1>1. Merges(q, cap) \in 0..(Len(q) - 1)
  BY ExcessRange
<1>2. SubSeq(q, Merges(q, cap) + 2, Len(q)) \in Seq(T)
  BY <1>1
<1> QED
  BY <1>2 DEF Trimmed

(***************************************************************************)
(* Type correctness.                                                       *)
(***************************************************************************)

LEMMA ConfigType == ASSUME TypeOK PROVE config \in QueueConfigs
  BY QueueAssumption DEF TypeOK

\* get_lane yields settings of the right type, of a lane or of the defaults.
LEMMA GetLaneType ==
    ASSUME TypeOK, NEW s \in Sessions
    PROVE  GetLane(s) \in QueueSettings
<1>1. config \in QueueConfigs
  BY ConfigType
<1>2. settings[s] \in QueueSettings \cup {Absent}
  BY DEF TypeOK
<1>3. [mode |-> config.mode, cap |-> config.cap, drop |-> config.drop] \in QueueSettings
  BY <1>1 DEF QueueConfigs, QueueSettings
<1> QED
  BY <1>2, <1>3 DEF GetLane, HasLane

LEMMA EffectiveModeType ==
    ASSUME TypeOK, NEW s \in Sessions, NEW m \in Modes
    PROVE  EffectiveMode(s, m) \in QueueModes
<1>1. GetLane(s).mode \in QueueModes
  BY GetLaneType DEF QueueSettings
<1> QED
  BY <1>1, QueueAssumption DEF EffectiveMode

\* Submit, whatever it leaves of the lane.
LEMMA ArriveType ==
    ASSUME TypeOK, NEW s \in Sessions, NEW c \in Commands, NEW m \in QueueModes,
           NEW kept \in Seq(Commands), NEW left \in Seq(Commands), GetLane(s).drop = "summarize" => left # <<>>,
           c = submitted + 1, Arrive(s, c, m, kept, left),
           active' \in [Sessions -> Commands \cup {None}],
           interrupts' \in [Sessions -> Nat]
    PROVE  TypeOK'
<1>1. settings' \in [Sessions -> QueueSettings \cup {Absent}]
  <2>1. GetLane(s) \in QueueSettings
    BY GetLaneType
  <2> QED
    BY <2>1 DEF TypeOK, Arrive
<1>2. text' \in [Commands -> SUBSET Commands]
  <2> DEFINE over == (ToSet(kept) \cup {c}) \ ToSet(left)
  <2>1. CASE over # {} /\ GetLane(s).drop = "summarize"
    <3>1. Head(left) \in Commands
      BY <2>1, HeadType
    <3>2. over \subseteq Commands
      <4>1. ToSet(kept) \subseteq Commands
        BY ElementsType
      <4> QED
        BY <4>1
    <3>3. Texts(over) \subseteq Commands
      BY <3>2 DEF TypeOK, Texts
    <3>4. Merged(left, over) \in [Commands -> SUBSET Commands]
      BY <3>1, <3>3 DEF TypeOK, Merged
    <3> QED
      BY <2>1, <3>4 DEF Arrive
  <2>2. CASE ~(over # {} /\ GetLane(s).drop = "summarize")
    BY <2>2 DEF Arrive, TypeOK
  <2> QED
    BY <2>1, <2>2
<1>3. stage' \in [Commands -> Stages]
  BY DEF TypeOK, Arrive, Stages, Lost, Waiting
<1>4. pending' \in [Sessions -> Seq(Commands)]
  BY DEF TypeOK, Arrive
<1>5. /\ home' \in [Commands -> Sessions \cup {NoSession}]
      /\ mode' \in [Commands -> QueueModes]
  BY DEF TypeOK, Arrive
<1>8. ripe' \subseteq Commands
  BY DEF TypeOK, Arrive
<1>9. submitted' \in 0..MaxCommands
  BY QueueAssumption DEF TypeOK, Arrive, Commands
<1>6. known' \subseteq Commands
  BY DEF TypeOK, Arrive
<1>7. UNCHANGED <<config, active_count, dispatcher, life, collected, heard>>
  BY DEF Arrive, poolVars
<1> QED
  BY <1>1, <1>2, <1>3, <1>4, <1>5, <1>6, <1>7, <1>8, <1>9 DEF TypeOK

LEMMA InitType == Init => TypeOK
<1> SUFFICES ASSUME Init PROVE TypeOK
  OBVIOUS
<1>1. pending \in [Sessions -> Seq(Commands)]
  BY DEF Init
<1>2. /\ stage \in [Commands -> Stages] /\ mode \in [Commands -> QueueModes]
      /\ text \in [Commands -> SUBSET Commands]
  BY DEF Init, Stages, QueueModes
<1> QED
  BY <1>1, <1>2, QueueAssumption DEF Init, TypeOK

LEMMA SubmitSteeringType ==
    ASSUME TypeOK, NEW s \in Sessions, NEW c \in Commands, NEW m \in Modes,
           SubmitSteering(s, c, m)
    PROVE  TypeOK'
<1>1. pending[s] \in Seq(Commands)
  BY DEF TypeOK
<1>5. Append(pending[s], c) \in Seq(Commands) /\ Append(pending[s], c) # <<>>
  BY <1>1, AppendType
<1>2. EffectiveMode(s, m) \in QueueModes
  BY EffectiveModeType
<1>3. /\ Arrive(s, c, EffectiveMode(s, m), pending[s], Append(pending[s], c))
      /\ c = submitted + 1
  BY DEF SubmitSteering, Fresh
<1>4. active' \in [Sessions -> Commands \cup {None}] /\ interrupts' \in [Sessions -> Nat]
  BY DEF SubmitSteering, TypeOK
<1> QED
  BY <1>1, <1>2, <1>3, <1>4, <1>5, ArriveType

LEMMA SubmitQueuedType ==
    ASSUME TypeOK, NEW s \in Sessions, NEW c \in Commands, NEW m \in Modes,
           SubmitQueued(s, c, m)
    PROVE  TypeOK'
<1> DEFINE md   == EffectiveMode(s, m)
           hit  == Interrupts(md) /\ active[s] # None
           kept == IF hit THEN KeptByInterrupt(pending[s]) ELSE pending[s]
           lane == GetLane(s)
           left == Trimmed(Append(kept, c), lane.cap, lane.drop)
<1>1. kept \in Seq(Commands)
  <2>1. pending[s] \in Seq(Commands)
    BY DEF TypeOK
  <2> QED
    BY <2>1, KeptType
<1> HIDE DEF kept
<1>2. lane \in QueueSettings /\ md \in QueueModes
  BY GetLaneType, EffectiveModeType
<1>3. Append(kept, c) \in Seq(Commands) /\ Append(kept, c) # <<>>
  BY <1>1, AppendType
<1>4. lane.cap \in Int /\ lane.drop \in DropPolicies
  BY <1>2 DEF QueueSettings
<1>5. left \in Seq(Commands)
  BY <1>3, <1>4, TrimmedType
<1>6. lane.drop = "summarize" => left # <<>>
  BY <1>3, <1>4, SummaryNotEmpty
<1>7. Arrive(s, c, md, kept, left) /\ c = submitted + 1
  BY DEF SubmitQueued, Fresh, kept
<1>8. active' \in [Sessions -> Commands \cup {None}] /\ interrupts' \in [Sessions -> Nat]
  BY DEF SubmitQueued, TypeOK
<1> QED
  BY <1>1, <1>2, <1>5, <1>6, <1>7, <1>8, ArriveType

LEMMA CancelType ==
    ASSUME TypeOK, NEW c \in Commands, Cancel(c)
    PROVE  TypeOK'
<1>1. settings' \in [Sessions -> QueueSettings \cup {Absent}]
  <2>1. \A s \in Sessions : GetLane(s) \in QueueSettings
    BY GetLaneType
  <2> QED
    BY <2>1 DEF TypeOK, Cancel
<1>2. pending' \in [Sessions -> Seq(Commands)] /\ stage' \in [Commands -> Stages]
  <2>1. CASE UNCHANGED <<pending, stage>>
    BY <2>1 DEF TypeOK
  <2>2. ASSUME NEW i \in DOMAIN pending[home[c]], home[c] \in Sessions,
               pending' = [pending EXCEPT ![home[c]] = RemoveAt(pending[home[c]], i)],
               stage' = [stage EXCEPT ![c] = "cancelled"]
        PROVE  pending' \in [Sessions -> Seq(Commands)] /\ stage' \in [Commands -> Stages]
    <3>1. pending[home[c]] \in Seq(Commands)
      BY <2>2 DEF TypeOK
    <3>2. RemoveAt(pending[home[c]], i) \in Seq(Commands)
      BY <2>2, <3>1, RemoveAtType
    <3> QED
      BY <2>2, <3>2 DEF TypeOK, Stages, Lost
  <2>3. ASSUME NEW i \in DOMAIN pending[home[c]], home[c] \notin Sessions,
               pending' = [pending EXCEPT ![home[c]] = RemoveAt(pending[home[c]], i)],
               stage' = [stage EXCEPT ![c] = "cancelled"]
        PROVE  pending' \in [Sessions -> Seq(Commands)] /\ stage' \in [Commands -> Stages]
    BY <2>3 DEF TypeOK, Stages, Lost
  <2> QED
    BY <2>1, <2>2, <2>3 DEF Cancel
<1>3. ripe' \subseteq Commands /\ known' \subseteq Commands
  BY DEF TypeOK, Cancel
<1> QED
  BY <1>1, <1>2, <1>3 DEF TypeOK, Cancel, poolVars, commandVars, historyVars

LEMMA AbortSessionType ==
    ASSUME TypeOK, NEW s \in Sessions, AbortSession(s)
    PROVE  TypeOK'
<1>1. pending' \in [Sessions -> Seq(Commands)]
  <2>1. KeptByInterrupt(pending[s]) \in Seq(Commands)
    BY KeptType DEF TypeOK
  <2> QED
    BY <2>1 DEF TypeOK, AbortSession
<1>2. stage' \in [Commands -> Stages]
  BY DEF TypeOK, AbortSession, Stamp, Stages, Lost
<1>3. /\ active' \in [Sessions -> Commands \cup {None}] /\ interrupts' \in [Sessions -> Nat]
      /\ ripe' \subseteq Commands /\ known' \subseteq Commands
  BY DEF TypeOK, AbortSession
<1> QED
  BY <1>1, <1>2, <1>3 DEF TypeOK, AbortSession, poolVars, commandVars

LEMMA DispatchPassType ==
    ASSUME TypeOK, NEW S \in SUBSET Sessions, DispatchPass(S)
    PROVE  TypeOK'
<1>1. \A s \in Sessions : pending[s] \in Seq(Commands)
  BY DEF TypeOK
<1>2. \A s \in S : /\ pending[s] # <<>> /\ Oldest(s) \in Commands
                   /\ Tail(pending[s]) \in Seq(Commands)
  BY <1>1 DEF DispatchPass, Chosen, Eligible, Oldest
<1>3. pending' \in [Sessions -> Seq(Commands)]
  BY <1>1, <1>2 DEF DispatchPass
<1>4. active' \in [Sessions -> Commands \cup {None}]
  BY <1>2 DEF DispatchPass, TypeOK
<1>5. collected' \in [Commands -> SUBSET Commands]
  <2>1. ASSUME NEW s \in S
        PROVE  Texts(ToSet(Tail(pending[s]))) \subseteq Commands
    <3>1. ToSet(Tail(pending[s])) \subseteq Commands
      BY <1>2, ElementsType
    <3> QED
      BY <3>1 DEF Texts, TypeOK
  <2> QED
    BY <2>1 DEF DispatchPass, TypeOK
<1>6. stage' \in [Commands -> Stages]
  BY DEF DispatchPass, TypeOK, Stages, Occupied, Lost
<1>7. /\ ripe' \subseteq Commands /\ known' \subseteq Commands
      /\ settings' \in [Sessions -> QueueSettings \cup {Absent}]
      /\ dispatcher' \in {"waiting", "spawning", "exited"}
  BY DEF DispatchPass, TypeOK
<1>8. active_count' \in Int
  <2>1. IsFiniteSet(S)
    BY QueueAssumption, FS_Subset
  <2>2. Cardinality(S) \in Nat
    BY <2>1, FS_CardinalityType
  <2> QED
    BY <2>2 DEF DispatchPass, TypeOK
<1> QED
  BY <1>3, <1>4, <1>5, <1>6, <1>7, <1>8 DEF TypeOK, DispatchPass, historyVars

LEMMA ReleaseType ==
    ASSUME TypeOK, NEW c \in Commands, Release(c)
    PROVE  TypeOK'
<1>1. stage' \in [Commands -> Stages]
  BY DEF TypeOK, Release, Step, Stages
<1>2. active' \in [Sessions -> Commands \cup {None}]
  <2>1. CASE active' = active
    BY <2>1 DEF TypeOK
  <2>2. CASE active' = [active EXCEPT ![home[c]] = None]
    BY <2>2 DEF TypeOK
  <2> QED
    BY <2>1, <2>2 DEF Release
<1>3. active_count' \in Int
  BY DEF TypeOK, Release
<1> QED
  BY <1>1, <1>2, <1>3 DEF TypeOK, Release, commandVars, historyVars

\* Every other step leaves most of the state alone.
LEMMA OtherStepsType ==
    ASSUME TypeOK,
           \/ \E s \in Sessions, lane \in LaneSettings : ConfigureSession(s, lane)
           \/ \E cfg \in Configs : SetConfig(cfg)
           \/ \E s \in Sessions : Ripen(s)
           \/ \E c \in Commands : SpawnWorker(c) \/ StartRun(c) \/ FinishRun(c) \/ EndWorker(c)
           \/ DispatcherExit \/ Owner
           \/ UNCHANGED vars
    PROVE  TypeOK'
<1> USE DEF TypeOK, vars, queueVars, poolVars, commandVars, historyVars
<1>1. ASSUME NEW s \in Sessions, NEW lane \in LaneSettings, ConfigureSession(s, lane)
      PROVE  TypeOK'
  BY <1>1, QueueAssumption DEF ConfigureSession
<1>2. ASSUME NEW cfg \in Configs, SetConfig(cfg)
      PROVE  TypeOK'
  BY <1>2 DEF SetConfig
<1>3. ASSUME NEW s \in Sessions, Ripen(s)
      PROVE  TypeOK'
  <2>1. Head(pending[s]) \in Commands
    BY <1>3, HeadType DEF Ripen
  <2> QED
    BY <1>3, <2>1 DEF Ripen
<1>4. ASSUME NEW c \in Commands, SpawnWorker(c)
      PROVE  TypeOK'
  <2>1. stage' \in [Commands -> Stages]
    BY <1>4 DEF SpawnWorker, Stages, Occupied
  <2> QED
    BY <1>4, <2>1 DEF SpawnWorker
<1>5. ASSUME NEW c \in Commands, StartRun(c)
      PROVE  TypeOK'
  <2>1. stage' \in [Commands -> Stages] /\ heard' \subseteq Commands
    BY <1>5 DEF StartRun, Step, Stages, Occupied
  <2> QED
    BY <1>5, <2>1 DEF StartRun
<1>6. ASSUME NEW c \in Commands, FinishRun(c) \/ EndWorker(c)
      PROVE  TypeOK'
  <2>1. stage' \in [Commands -> Stages]
    BY <1>6 DEF FinishRun, EndWorker, Step, Stages, Occupied
  <2> QED
    BY <1>6, <2>1 DEF FinishRun, EndWorker
<1>7. CASE DispatcherExit \/ Owner
  BY <1>7 DEF DispatcherExit, Owner, Start, Stop, TakeWorkers, StopReturns
<1>8. CASE UNCHANGED vars
  BY <1>8
<1> QED
  BY <1>1, <1>2, <1>3, <1>4, <1>5, <1>6, <1>7, <1>8

LEMMA NextType == TypeOK /\ [Next]_vars => TypeOK'
<1> SUFFICES ASSUME TypeOK, [Next]_vars PROVE TypeOK'
  OBVIOUS
<1>1. ASSUME NEW s \in Sessions, NEW c \in Commands, NEW m \in Modes,
             SubmitSteering(s, c, m) \/ SubmitQueued(s, c, m)
      PROVE  TypeOK'
  BY <1>1, SubmitSteeringType, SubmitQueuedType
<1>2. ASSUME NEW c \in Commands, Cancel(c)
      PROVE  TypeOK'
  BY <1>2, CancelType
<1>3. ASSUME NEW s \in Abortable, AbortSession(s)
      PROVE  TypeOK'
  BY <1>3, AbortSessionType, QueueAssumption
<1>4. ASSUME NEW S \in SUBSET Sessions, DispatchPass(S)
      PROVE  TypeOK'
  BY <1>4, DispatchPassType
<1>5. ASSUME NEW c \in Commands, Release(c)
      PROVE  TypeOK'
  BY <1>5, ReleaseType
<1> QED
  BY <1>1, <1>2, <1>3, <1>4, <1>5, OtherStepsType DEF Next, Caller, Dispatcher, Worker

\* The queue's variables always hold values of their types.
THEOREM TypeCorrect == Spec => []TypeOK
  BY InitType, NextType, PTL DEF Spec

(***************************************************************************)
(* Lanes and commands agree.  What the operators on a lane's queue do to   *)
(* its order and to the set of its commands:                               *)
(***************************************************************************)

LEMMA AppendOrdered ==
    ASSUME NEW q \in Seq(Int), NEW x \in Int, Ordered(q), \A y \in ToSet(q) : y < x
    PROVE  Ordered(Append(q, x)) /\ ToSet(Append(q, x)) = ToSet(q) \cup {x}
<1> DEFINE r == Append(q, x)
<1>1. /\ DOMAIN q = 1..Len(q) /\ DOMAIN r = 1..(Len(q) + 1) /\ Len(q) \in Nat
      /\ \A i \in 1..Len(q) : r[i] = q[i]
      /\ r[Len(q) + 1] = x
  OBVIOUS
<1>2. \A i \in 1..Len(q) : q[i] \in ToSet(q)
  BY <1>1 DEF ToSet
<1>3. Ordered(r)
  BY <1>1, <1>2 DEF Ordered
<1>4. ToSet(r) = {r[i] : i \in 1..(Len(q) + 1)} /\ ToSet(q) = {q[i] : i \in 1..Len(q)}
  BY <1>1 DEF ToSet
<1> HIDE DEF r
<1>5. ToSet(r) = ToSet(q) \cup {x}
  <2>1. ASSUME NEW y \in ToSet(r) PROVE y \in ToSet(q) \cup {x}
    BY <1>1, <1>4, <2>1
  <2>2. ASSUME NEW y \in ToSet(q) PROVE y \in ToSet(r)
    BY <1>1, <1>4, <2>2
  <2>3. x \in ToSet(r)
    BY <1>1, <1>4
  <2> QED
    BY <2>1, <2>2, <2>3
<1> QED
  BY <1>3, <1>5 DEF r

\* r consists of the entries of q at the growing places f[1], f[2], ...
Selects(f, q, r) ==
    /\ q \in Seq(Int)
    /\ r \in Seq(Int)
    /\ f \in [DOMAIN r -> DOMAIN q]
    /\ \A i, j \in DOMAIN r : i < j => f[i] < f[j]
    /\ \A i \in DOMAIN r : r[i] = q[f[i]]

\* What is selected from an ordered queue is ordered.
LEMMA SelectionOrdered ==
    ASSUME NEW q, NEW r, NEW f, Selects(f, q, r), Ordered(q)
    PROVE  Ordered(r) /\ ToSet(r) \subseteq ToSet(q)
<1>1. ASSUME NEW i \in DOMAIN r, NEW j \in DOMAIN r, i < j
      PROVE  r[i] < r[j]
  <2>1. f[i] \in DOMAIN q /\ f[j] \in DOMAIN q /\ f[i] < f[j]
    BY <1>1 DEF Selects
  <2>2. q[f[i]] < q[f[j]]
    BY <2>1 DEF Ordered
  <2> QED
    BY <2>2 DEF Selects
<1>2. Ordered(r)
  BY <1>1 DEF Ordered
<1>3. ASSUME NEW i \in DOMAIN r
      PROVE  r[i] \in ToSet(q)
  <2>1. r[i] = q[f[i]] /\ f[i] \in DOMAIN q
    BY DEF Selects
  <2> QED
    BY <2>1 DEF ToSet
<1> QED
  BY <1>2, <1>3 DEF ToSet

\* A stretch of a queue keeps its order.
LEMMA SubSeqOrdered ==
    ASSUME NEW q \in Seq(Int), NEW a \in Int, NEW b \in Int, 1 <= a, b <= Len(q), Ordered(q)
    PROVE  Ordered(SubSeq(q, a, b)) /\ ToSet(SubSeq(q, a, b)) \subseteq ToSet(q)
<1> DEFINE r == SubSeq(q, a, b)
           f == [i \in DOMAIN r |-> i + a - 1]
<1>1. /\ DOMAIN q = 1..Len(q) /\ Len(r) \in Nat /\ DOMAIN r = 1..Len(r)
      /\ \A i \in 1..Len(r) : r[i] = q[i + a - 1] /\ i + a - 1 \in 1..Len(q)
  OBVIOUS
<1>2. r \in Seq(Int)
  OBVIOUS
<1> HIDE DEF r
<1>3. f \in [DOMAIN r -> DOMAIN q]
  BY <1>1
<1>4. \A i, j \in DOMAIN r : i < j => f[i] < f[j]
  BY <1>1
<1>5. \A i \in DOMAIN r : r[i] = q[f[i]]
  BY <1>1
<1> HIDE DEF f
<1>6. Selects(f, q, r)
  BY <1>2, <1>3, <1>4, <1>5 DEF Selects
<1>7. Ordered(r) /\ ToSet(r) \subseteq ToSet(q)
  BY <1>6, SelectionOrdered, Zenon
<1> QED
  BY <1>7 DEF r

LEMMA Concatenation ==
    ASSUME NEW s \in Seq(Int), NEW t \in Seq(Int)
    PROVE  /\ s \o t \in Seq(Int)
           /\ Len(s \o t) = Len(s) + Len(t)
           /\ \A i \in 1..(Len(s) + Len(t)) :
                (s \o t)[i] = IF i <= Len(s) THEN s[i] ELSE t[i - Len(s)]
  BY ConcatProperties, Zenon

LEMMA TrimmedOrdered ==
    ASSUME NEW q \in Seq(Int), q # <<>>, NEW cap \in Int, NEW drop \in DropPolicies, Ordered(q)
    PROVE  Ordered(Trimmed(q, cap, drop)) /\ ToSet(Trimmed(q, cap, drop)) \subseteq ToSet(q)
<1>1. /\ Excess(q, cap) \in 0..Len(q)
      /\ Merges(q, cap) \in 0..(Len(q) - 1)
  BY ExcessRange
<1>2. CASE drop = "summarize"
  <2> DEFINE k == Merges(q, cap)
             h == <<Head(q)>>
             t == SubSeq(q, k + 2, Len(q))
             r == h \o t
             f == [i \in DOMAIN r |-> IF i = 1 THEN 1 ELSE i + k]
  <2> HIDE DEF k
  <2>1. k \in 0..(Len(q) - 1)
    BY <1>1 DEF k
  <2>2. /\ DOMAIN q = 1..Len(q) /\ Len(q) \in Nat /\ Len(q) - k \in Nat
        /\ Len(t) = Len(q) - k - 1
        /\ \A i \in 1..Len(t) : t[i] = q[i + k + 1]
    BY <2>1
  <2>3. t \in Seq(Int)
    BY <2>1
  <2>4. h \in Seq(Int) /\ Len(h) = 1 /\ h[1] = q[1]
    OBVIOUS
  <2> HIDE DEF t, h
  <2>4a. /\ r \in Seq(Int)
         /\ Len(r) = Len(h) + Len(t)
         /\ \A i \in 1..(Len(h) + Len(t)) :
                r[i] = IF i <= Len(h) THEN h[i] ELSE t[i - Len(h)]
    BY <2>3, <2>4, Concatenation, Zenon
  <2> HIDE DEF r
  <2>5. r \in Seq(Int) /\ Len(r) = Len(q) - k
    BY <2>1, <2>2, <2>4, <2>4a
  <2>6. DOMAIN r = 1..(Len(q) - k)
    BY <2>5
  <2>7. ASSUME NEW i \in 1..(Len(q) - k)
        PROVE  r[i] = IF i = 1 THEN q[1] ELSE q[i + k]
    <3>1. CASE i = 1
      BY <3>1, <2>1, <2>2, <2>4, <2>4a
    <3>2. CASE i # 1
      <4>1. i - 1 \in 1..Len(t)
        BY <3>2, <2>1, <2>2
      <4>2. r[i] = t[i - 1]
        BY <3>2, <4>1, <2>1, <2>2, <2>4, <2>4a
      <4>3. t[i - 1] = q[(i - 1) + k + 1]
        BY <4>1, <2>2
      <4> QED
        BY <3>2, <4>2, <4>3, <2>1
    <3> QED
      BY <3>1, <3>2
  <2>8. f \in [DOMAIN r -> DOMAIN q]
    BY <2>1, <2>2, <2>6, SMTT(30)
  <2>9. \A i, j \in DOMAIN r : i < j => f[i] < f[j]
    BY <2>1, <2>2, <2>6, SMTT(30)
  <2>10. \A i \in DOMAIN r : r[i] = q[f[i]]
    BY <2>1, <2>2, <2>6, <2>7
  <2> HIDE DEF f
  <2>11. Selects(f, q, r)
    BY <2>5, <2>8, <2>9, <2>10 DEF Selects
  <2>12. Ordered(r) /\ ToSet(r) \subseteq ToSet(q)
    BY <2>11, SelectionOrdered, Zenon
  <2> QED
    BY <1>2, <2>12 DEF Trimmed, r, t, h, k
<1>3. CASE drop = "drop-oldest"
  <2> DEFINE e == Excess(q, cap)
  <2>1. e + 1 \in Int /\ Len(q) \in Int /\ 1 <= e + 1 /\ Len(q) <= Len(q)
    BY <1>1
  <2> HIDE DEF e
  <2>2. /\ Ordered(SubSeq(q, e + 1, Len(q)))
        /\ ToSet(SubSeq(q, e + 1, Len(q))) \subseteq ToSet(q)
    BY <2>1, SubSeqOrdered, Zenon
  <2> QED
    BY <1>3, <2>2 DEF Trimmed, e
<1>4. CASE drop = "reject"
  <2> DEFINE e == Len(q) - Excess(q, cap)
  <2>1. 1 \in Int /\ e \in Int /\ 1 <= 1 /\ e <= Len(q)
    BY <1>1
  <2> HIDE DEF e
  <2>2. Ordered(SubSeq(q, 1, e)) /\ ToSet(SubSeq(q, 1, e)) \subseteq ToSet(q)
    BY <2>1, SubSeqOrdered, Zenon
  <2> QED
    BY <1>4, <2>2 DEF Trimmed, e
<1> QED
  BY <1>2, <1>3, <1>4 DEF DropPolicies

LEMMA KeptOrdered ==
    ASSUME NEW q \in Seq(Int), Ordered(q)
    PROVE  Ordered(KeptByInterrupt(q)) /\ ToSet(KeptByInterrupt(q)) \subseteq ToSet(q)
<1>1. CASE Len(q) > 1
  <2>1. KeptByInterrupt(q) = <<q[Len(q)]>> /\ Len(q) \in DOMAIN q
    BY <1>1 DEF KeptByInterrupt
  <2> QED
    BY <2>1 DEF Ordered, ToSet
<1>2. CASE ~(Len(q) > 1)
  BY <1>2 DEF KeptByInterrupt
<1> QED
  BY <1>1, <1>2

\* The element that comes to place j when the one before it at i goes was at
\* j + 1, so many places behind i.
LEMMA BehindRemoved ==
    ASSUME NEW i \in Int, NEW j \in Int, NEW n \in Int, i <= j, j <= n - 1
    PROVE  /\ j - (i - 1) \in 1..(n - i)
           /\ j \in ((i - 1) + 1)..((i - 1) + (n - i))
  OBVIOUS

LEMMA RemoveAtOrdered ==
    ASSUME NEW q \in Seq(Int), Ordered(q), NEW i \in DOMAIN q
    PROVE  Ordered(RemoveAt(q, i)) /\ ToSet(RemoveAt(q, i)) = ToSet(q) \ {q[i]}
<1> DEFINE r == RemoveAt(q, i)
           a == SubSeq(q, 1, i - 1)
           b == SubSeq(q, i + 1, Len(q))
           f == [j \in DOMAIN r |-> IF j < i THEN j ELSE j + 1]
<1>1. DOMAIN q = 1..Len(q) /\ Len(q) \in Nat /\ i \in 1..Len(q) /\ Len(q) - 1 \in Nat
  OBVIOUS
<1>2. a \in Seq(Int) /\ Len(a) = i - 1
  BY <1>1
<1>3. b \in Seq(Int) /\ Len(b) = Len(q) - i
  BY <1>1, SMTT(30)
<1>4. \A j \in 1..(i - 1) : a[j] = q[j]
  BY <1>1
<1>5. \A j \in 1..(Len(q) - i) : b[j] = q[j + i]
  BY <1>1, SMTT(30)
<1>6. r = a \o b
  BY DEF RemoveAt
<1> HIDE DEF a, b, r
<1>6a. /\ a \o b \in Seq(Int)
       /\ Len(a \o b) = Len(a) + Len(b)
       /\ \A j \in 1..(Len(a) + Len(b)) :
                (a \o b)[j] = IF j <= Len(a) THEN a[j] ELSE b[j - Len(a)]
  BY <1>2, <1>3, Concatenation, Zenon
<1>6b. /\ r \in Seq(Int)
       /\ Len(r) = Len(a) + Len(b)
       /\ \A j \in 1..(Len(a) + Len(b)) :
                r[j] = IF j <= Len(a) THEN a[j] ELSE b[j - Len(a)]
  BY <1>6, <1>6a, Zenon
<1>7. r \in Seq(Int) /\ Len(r) = Len(q) - 1
  BY <1>1, <1>2, <1>3, <1>6b
<1>8. DOMAIN r = 1..(Len(q) - 1)
  BY <1>7
<1>9. ASSUME NEW j \in DOMAIN r
      PROVE  r[j] = q[IF j < i THEN j ELSE j + 1]
  <2>1. CASE j < i
    <3>1. j \in 1..Len(a) /\ j \in 1..(i - 1)
      BY <2>1, <1>1, <1>2, <1>8
    <3>2. r[j] = a[j]
      BY <3>1, <1>1, <1>2, <1>3, <1>6b
    <3> QED
      BY <3>1, <3>2, <2>1, <1>4
  <2>2. CASE ~(j < i)
    <3>0. i \in Int /\ j \in Int /\ Len(q) \in Int /\ i <= j /\ j <= Len(q) - 1
      BY <2>2, <1>1, <1>8
    <3>1. j - (i - 1) \in 1..(Len(q) - i) /\ j \in (Len(a) + 1)..(Len(a) + Len(b))
      BY <3>0, <1>2, <1>3, BehindRemoved
    <3>2. r[j] = b[j - Len(a)]
      BY <2>2, <3>1, <1>1, <1>2, <1>3, <1>6b, SMTT(30)
    <3>3. b[j - (i - 1)] = q[(j - (i - 1)) + i]
      BY <3>1, <1>5
    <3>4. (j - (i - 1)) + i = j + 1
      BY <1>1, <1>8
    <3> QED
      BY <3>2, <3>3, <3>4, <2>2, <1>2
  <2> QED
    BY <2>1, <2>2
<1>10. f \in [DOMAIN r -> DOMAIN q]
  BY <1>1, <1>8
<1>11. \A j, k \in DOMAIN r : j < k => f[j] < f[k]
  BY <1>1, <1>8, SMTT(30)
<1>12. \A j \in DOMAIN r : r[j] = q[f[j]]
  BY <1>9
<1>13. \A j \in DOMAIN r : f[j] # i
  BY <1>1, <1>8
<1>14. \A j \in (DOMAIN q) \ {i} : \E k \in DOMAIN r : f[k] = j
  <2>1. ASSUME NEW j \in 1..Len(q), j < i PROVE j \in DOMAIN r /\ f[j] = j
    BY <1>1, <1>8, <2>1
  <2>2. ASSUME NEW j \in 1..Len(q), i < j PROVE j - 1 \in DOMAIN r /\ f[j - 1] = j
    BY <1>1, <1>8, <2>2
  <2>3. ASSUME NEW j \in (DOMAIN q) \ {i} PROVE \E k \in DOMAIN r : f[k] = j
    <3>1. j \in 1..Len(q) /\ (j < i \/ i < j)
      BY <1>1
    <3> HIDE DEF f
    <3> QED
      BY <3>1, <2>1, <2>2
  <2> QED
    BY <2>3
<1> HIDE DEF f
<1>15. Selects(f, q, r)
  BY <1>7, <1>10, <1>11, <1>12 DEF Selects
<1>16. Ordered(r) /\ ToSet(r) \subseteq ToSet(q)
  BY <1>15, SelectionOrdered, Zenon
<1>17. q[i] \notin ToSet(r)
  <2>1. ASSUME NEW j \in DOMAIN q, j # i
        PROVE  q[j] # q[i]
    <3>1. j < i \/ i < j
      BY <1>1, <2>1
    <3>2. q[j] \in Int /\ q[i] \in Int
      BY <1>1
    <3> QED
      BY <3>1, <3>2 DEF Ordered
  <2> QED
    BY <1>10, <1>12, <1>13, <2>1 DEF ToSet
<1>18. ASSUME NEW y \in ToSet(q) \ {q[i]}
       PROVE  y \in ToSet(r)
  <2>1. PICK j \in (DOMAIN q) \ {i} : y = q[j]
    BY DEF ToSet
  <2>2. PICK k \in DOMAIN r : f[k] = j
    BY <1>14
  <2>3. r[k] = y
    BY <1>12, <2>1, <2>2
  <2> QED
    BY <2>3 DEF ToSet
<1>19. ToSet(r) = ToSet(q) \ {q[i]}
  BY <1>16, <1>17, <1>18
<1> QED
  BY <1>16, <1>19 DEF r

\* The head of a lane's queue is its oldest command.
LEMMA HeadOldest ==
    ASSUME NEW q \in Seq(Int), q # <<>>, Ordered(q)
    PROVE  /\ Ordered(Tail(q))
           /\ Head(q) \in ToSet(q)
           /\ ToSet(Tail(q)) = ToSet(q) \ {Head(q)}
           /\ \A y \in ToSet(q) : Head(q) <= y
<1>1. 1 \in DOMAIN q /\ Head(q) = q[1] /\ Tail(q) = RemoveAt(q, 1)
  BY DEF RemoveAt
<1>2. Ordered(Tail(q)) /\ ToSet(Tail(q)) = ToSet(q) \ {Head(q)}
  BY <1>1, RemoveAtOrdered
<1>3. \A i \in DOMAIN q : i = 1 \/ 1 < i
  OBVIOUS
<1>4. Head(q) \in ToSet(q) /\ \A y \in ToSet(q) : Head(q) <= y
  <2>1. ASSUME NEW i \in DOMAIN q PROVE q[1] <= q[i] 
    <3>1. q[1] \in Int /\ q[i] \in Int
      BY <1>1
    <3> QED
      BY <1>1, <1>3, <3>1 DEF Ordered
  <2> QED
    BY <1>1, <2>1 DEF ToSet
<1> QED
  BY <1>2, <1>4

(***************************************************************************)
(* The lane invariant.  Lanes agree with their commands only together with *)
(* the id map, the active commands and the clean-up of idle lanes: Cancel  *)
(* trusts the id map to name a session, Release trusts a lane without      *)
(* settings to be idle, and AbortSession and DispatchPass trust an active  *)
(* command not to be pending as well.                                      *)
(***************************************************************************)

\* Ids are given out in order, and what has been submitted has a session.
Numbered ==
    \A c \in Commands : /\ stage[c] = "new" <=> submitted < c
                        /\ stage[c] # "new" => home[c] \in Sessions

LaneInv == /\ TypeOK /\ Numbered /\ LanesHoldPending /\ KnownIds
           /\ ActiveHasWorker /\ WorkKeepsLane

LEMMA QueueOfInts ==
    ASSUME TypeOK, NEW s \in Sessions
    PROVE  pending[s] \in Seq(Int) /\ pending[s] \in Seq(Commands)
<1>1. pending[s] \in Seq(Commands)
  BY DEF TypeOK
<1>2. Commands \subseteq Int
  BY QueueAssumption DEF Commands
<1>3. pending[s] \in Seq(Int)
  BY <1>1, <1>2, SeqMonotonic, Zenon
<1> QED
  BY <1>1, <1>3

\* The clauses of the invariant, one command or one session at a time.
LEMMA LaneFacts ==
    ASSUME LaneInv
    PROVE  /\ \A s \in Sessions : Ordered(pending[s])
           /\ \A s \in Sessions : ToSet(pending[s]) \subseteq Commands
           /\ \A s \in Sessions, c \in Commands :
                c \in ToSet(pending[s]) <=> stage[c] = "pending" /\ home[c] = s
           /\ \A c \in Commands : stage[c] # "new" => home[c] \in Sessions
           /\ \A c \in Commands : stage[c] = "pending" => c \in known
           /\ \A c \in known : c \in Commands /\ stage[c] \in {"pending", "collected", "discarded", "interrupted"}
           /\ \A s \in Sessions : active[s] # None =>
                /\ active[s] \in Commands /\ home[active[s]] = s
                /\ stage[active[s]] \in Occupied
           /\ \A s \in Sessions : pending[s] # <<>> \/ active[s] # None => HasLane(s)
<1>1. \A s \in Sessions : ToSet(pending[s]) \subseteq Commands
  BY ElementsType DEF LaneInv, TypeOK
<1>2. \A s \in Sessions : active[s] # None =>
                /\ active[s] \in Commands /\ home[active[s]] = s
                /\ stage[active[s]] \in Occupied
  BY DEF LaneInv, ActiveHasWorker, Running, InStage
<1>3. /\ \A c \in Commands : stage[c] = "pending" => c \in known
      /\ \A c \in known : c \in Commands /\ stage[c] \in {"pending", "collected", "discarded", "interrupted"}
  BY DEF LaneInv, KnownIds, InStage, Waiting
<1> QED
  BY <1>1, <1>2, <1>3 DEF LaneInv, LanesHoldPending, Numbered, WorkKeepsLane

\* And back again, before and after a step.
LEMMA LaneInvHolds ==
    ASSUME TypeOK,
           \A s \in Sessions : Ordered(pending[s]),
           \A s \in Sessions, c \in Commands :
                c \in ToSet(pending[s]) <=> stage[c] = "pending" /\ home[c] = s,
           Numbered,
           \A c \in Commands : stage[c] = "pending" => c \in known,
           \A c \in known : stage[c] \in {"pending", "collected", "discarded", "interrupted"},
           \A s \in Sessions : active[s] # None =>
                home[active[s]] = s /\ stage[active[s]] \in Occupied,
           \A s \in Sessions : pending[s] # <<>> \/ active[s] # None => HasLane(s)
    PROVE  LaneInv
<1>1. LanesHoldPending
  BY DEF LanesHoldPending, Numbered, InStage, Waiting
<1>2. KnownIds
  BY DEF KnownIds, InStage, Waiting, TypeOK
<1>3. ActiveHasWorker
  BY DEF ActiveHasWorker, Running, InStage, TypeOK
<1> QED
  BY <1>1, <1>2, <1>3 DEF LaneInv, WorkKeepsLane

LEMMA LaneInvKept ==
    ASSUME TypeOK',
           \A s \in Sessions : Ordered(pending'[s]),
           \A s \in Sessions, c \in Commands :
                c \in ToSet(pending'[s]) <=> stage'[c] = "pending" /\ home'[c] = s,
           Numbered',
           \A c \in Commands : stage'[c] = "pending" => c \in known',
           \A c \in known' : stage'[c] \in {"pending", "collected", "discarded", "interrupted"},
           \A s \in Sessions : active'[s] # None =>
                home'[active'[s]] = s /\ stage'[active'[s]] \in Occupied,
           \A s \in Sessions : pending'[s] # <<>> \/ active'[s] # None => settings'[s] # Absent
    PROVE  LaneInv'
<1>1. LanesHoldPending'
  BY DEF LanesHoldPending, Numbered, InStage, Waiting
<1>2. KnownIds'
  BY DEF KnownIds, InStage, Waiting, TypeOK
<1>3. ActiveHasWorker'
  BY DEF ActiveHasWorker, Running, InStage, TypeOK
<1> QED
  BY <1>1, <1>2, <1>3 DEF LaneInv, WorkKeepsLane, HasLane

LEMMA LaneInvInit == Init => LaneInv
<1> SUFFICES ASSUME Init PROVE LaneInv
  OBVIOUS
<1>1. \A s \in Sessions : pending[s] = <<>> /\ ToSet(pending[s]) = {} /\ Ordered(pending[s])
  BY DEF Init, ToSet, Ordered
<1>2. Numbered
  BY QueueAssumption DEF Init, Numbered, Commands
<1> QED
  BY <1>1, <1>2, InitType, LaneInvHolds DEF Init

LEMMA SettingsPresent == Absent \notin QueueSettings
  BY DEF Absent, QueueSettings, QueueModes

\* Submit keeps the invariant, whatever the overflow leaves of the lane.
LEMMA ArriveLanes ==
    ASSUME LaneInv, TypeOK', NEW s \in Sessions, NEW c \in Commands, NEW m, NEW kept, NEW left,
           Fresh(c), Arrive(s, c, m, kept, left),
           ToSet(kept) \subseteq ToSet(pending[s]),
           ToSet(left) \subseteq ToSet(kept) \cup {c}, Ordered(left),
           active' = active \/ active' = [active EXCEPT ![s] = None]
    PROVE  LaneInv'
<1> DEFINE over   == (ToSet(kept) \cup {c}) \ ToSet(left)
           popped == ToSet(pending[s]) \ ToSet(kept)
<1>1. stage[c] = "new" /\ c \notin known
  <2>1. submitted < c
    BY QueueAssumption DEF LaneInv, Fresh, TypeOK
  <2>2. stage[c] = "new"
    BY <2>1 DEF LaneInv, Numbered
  <2> QED
    BY <2>2, LaneFacts
<1>2. /\ stage' = [d \in Commands |-> IF d \in over THEN "overflowed"
                                      ELSE IF d \in popped THEN "interrupted"
                                      ELSE IF d = c THEN "pending" ELSE stage[d]]
      /\ known' = (known \cup {c}) \ over
      /\ submitted' = c
  BY DEF Arrive
<1>3. /\ pending' = [pending EXCEPT ![s] = left]
      /\ home' = [home EXCEPT ![c] = s]
      /\ settings' = [settings EXCEPT ![s] = GetLane(s)]
  BY DEF Arrive
<1>4. /\ pending'[s] = left /\ home'[c] = s /\ settings'[s] = GetLane(s)
      /\ \A r \in Sessions \ {s} : pending'[r] = pending[r] /\ settings'[r] = settings[r]
      /\ \A d \in Commands \ {c} : home'[d] = home[d]
  BY <1>3 DEF LaneInv, TypeOK
<1>5. \A r \in Sessions : Ordered(pending'[r])
  BY <1>4, LaneFacts
<1>6. ASSUME NEW r \in Sessions, NEW d \in Commands
      PROVE  d \in ToSet(pending'[r]) <=> stage'[d] = "pending" /\ home'[d] = r
  <2>1. d \in ToSet(pending[r]) <=> stage[d] = "pending" /\ home[d] = r
    BY LaneFacts
  <2>2. d \in ToSet(pending[s]) <=> stage[d] = "pending" /\ home[d] = s
    BY LaneFacts
  <2>3. CASE r = s
    BY <1>1, <1>2, <1>4, <2>2, <2>3
  <2>4. CASE r # s
    BY <1>1, <1>2, <1>4, <2>1, <2>2, <2>4
  <2> QED
    BY <2>3, <2>4
<1>7. Numbered'
  <2>1. ASSUME NEW d \in Commands
        PROVE  /\ stage'[d] = "new" <=> submitted' < d
               /\ stage'[d] # "new" => home'[d] \in Sessions
    <3>1. c = submitted + 1 /\ submitted \in Nat /\ d \in Nat /\ c \in Nat
      BY QueueAssumption DEF Fresh, LaneInv, TypeOK, Commands
    <3>2. stage[d] = "new" <=> submitted < d
      BY DEF LaneInv, Numbered
    <3>3. d \in over \cup popped => d = c \/ stage[d] = "pending"
      BY LaneFacts
    <3>4. stage'[d] = "new" <=> stage[d] = "new" /\ d # c
      BY <1>1, <1>2, <3>3
    <3>5. submitted' < d <=> submitted < d /\ d # c
      BY <1>2, <3>1
    <3>6. stage'[d] # "new" => home'[d] \in Sessions
      BY <1>4, <3>4, LaneFacts
    <3> QED
      BY <3>2, <3>4, <3>5, <3>6
  <2> QED
    BY <2>1 DEF Numbered
<1>8. ASSUME NEW d \in Commands
      PROVE  /\ stage'[d] = "pending" => d \in known'
             /\ d \in known' => stage'[d] \in {"pending", "collected", "discarded", "interrupted"}
  BY <1>1, <1>2, LaneFacts
<1>9. \A d \in known' : d \in Commands
  BY DEF TypeOK
<1>10. ASSUME NEW r \in Sessions, active'[r] # None
       PROVE  home'[active'[r]] = r /\ stage'[active'[r]] \in Occupied
  <2>1. active'[r] = active[r]
    BY <1>10 DEF LaneInv, TypeOK
  <2>2. /\ active[r] \in Commands /\ home[active[r]] = r /\ stage[active[r]] \in Occupied
    BY <1>10, <2>1, LaneFacts
  <2>3. stage[active[r]] # "pending" /\ stage[active[r]] # "new"
    BY <2>2 DEF Occupied
  <2>4. active[r] # c /\ active[r] \notin ToSet(pending[s])
    BY <1>1, <2>2, <2>3, LaneFacts
  <2> QED
    BY <1>2, <1>4, <2>1, <2>2, <2>4
<1>11. ASSUME NEW r \in Sessions, pending'[r] # <<>> \/ active'[r] # None
       PROVE  settings'[r] # Absent
  <2>1. GetLane(s) # Absent
    BY GetLaneType, SettingsPresent DEF LaneInv
  <2>2. active'[r] # None => active[r] # None
    BY DEF LaneInv, TypeOK
  <2> QED
    BY <1>4, <1>11, <2>1, <2>2, LaneFacts DEF HasLane
<1> QED
  BY <1>5, <1>6, <1>7, <1>8, <1>9, <1>10, <1>11, LaneInvKept

\* The id that Submit gives out is not in use.
LEMMA FreshIsNew ==
    ASSUME LaneInv, NEW c \in Commands, Fresh(c)
    PROVE  stage[c] = "new"
<1>1. submitted < c
  BY QueueAssumption DEF LaneInv, Fresh, TypeOK
<1> QED
  BY <1>1 DEF LaneInv, Numbered

\* A new id is larger than all that are pending.
LEMMA OldIsSmaller ==
    ASSUME LaneInv, NEW s \in Sessions, NEW c \in Commands, Fresh(c)
    PROVE  \A y \in ToSet(pending[s]) : y < c
<1>1. ASSUME NEW y \in ToSet(pending[s])
      PROVE  y < c
  <2>1. y \in Commands /\ stage[y] # "new"
    BY LaneFacts
  <2>2. ~(submitted < y) /\ y \in Int /\ submitted \in Int /\ c = submitted + 1
    BY <2>1, QueueAssumption DEF LaneInv, Numbered, TypeOK, Commands, Fresh
  <2> QED
    BY <2>2
<1> QED
  BY <1>1

LEMMA SubmitSteeringLanes ==
    ASSUME LaneInv, TypeOK', NEW s \in Sessions, NEW c \in Commands, NEW m \in Modes,
           SubmitSteering(s, c, m)
    PROVE  LaneInv'
<1>1. pending[s] \in Seq(Int) /\ c \in Int /\ Ordered(pending[s])
  BY QueueOfInts, LaneFacts, QueueAssumption DEF LaneInv, Commands
<1>2. \A y \in ToSet(pending[s]) : y < c
  BY OldIsSmaller DEF SubmitSteering
<1>3. /\ Ordered(Append(pending[s], c))
      /\ ToSet(Append(pending[s], c)) = ToSet(pending[s]) \cup {c}
  BY <1>1, <1>2, AppendOrdered, Zenon
<1>4. /\ Fresh(c) /\ active' = active
      /\ Arrive(s, c, EffectiveMode(s, m), pending[s], Append(pending[s], c))
  BY DEF SubmitSteering
<1> QED
  BY <1>3, <1>4, ArriveLanes

LEMMA SubmitQueuedLanes ==
    ASSUME LaneInv, TypeOK', NEW s \in Sessions, NEW c \in Commands, NEW m \in Modes,
           SubmitQueued(s, c, m)
    PROVE  LaneInv'
<1> DEFINE md   == EffectiveMode(s, m)
           hit  == Interrupts(md) /\ active[s] # None
           kept == IF hit THEN KeptByInterrupt(pending[s]) ELSE pending[s]
           more == Append(kept, c)
           cap  == GetLane(s).cap
           drop == GetLane(s).drop
           left == Trimmed(more, cap, drop)
<1>1. pending[s] \in Seq(Int) /\ c \in Int /\ Ordered(pending[s])
  BY QueueOfInts, LaneFacts, QueueAssumption DEF LaneInv, Commands
<1>2. Arrive(s, c, md, kept, left) /\ Fresh(c)
  BY DEF SubmitQueued
<1>3. active' = active \/ active' = [active EXCEPT ![s] = None]
  BY DEF SubmitQueued
<1> HIDE DEF md, hit
<1>4. kept \in Seq(Int) /\ Ordered(kept) /\ ToSet(kept) \subseteq ToSet(pending[s])
  BY <1>1, KeptType, KeptOrdered
<1> HIDE DEF kept
<1>5. \A y \in ToSet(kept) : y < c
  BY <1>2, <1>4, OldIsSmaller
<1>6. Ordered(more) /\ ToSet(more) = ToSet(kept) \cup {c}
  BY <1>1, <1>4, <1>5, AppendOrdered, Zenon
<1>7. more \in Seq(Int) /\ more # <<>>
  BY <1>1, <1>4, AppendType, Zenon
<1>8. cap \in Int /\ drop \in DropPolicies
  BY GetLaneType DEF LaneInv, QueueSettings
<1> HIDE DEF more, cap, drop
<1>9. Ordered(left) /\ ToSet(left) \subseteq ToSet(more)
  BY <1>6, <1>7, <1>8, TrimmedOrdered, Zenon
<1> HIDE DEF left
<1> QED
  BY <1>2, <1>3, <1>4, <1>6, <1>9, ArriveLanes

LEMMA CancelLanes ==
    ASSUME LaneInv, TypeOK', NEW c \in Commands, Cancel(c)
    PROVE  LaneInv'
<1> DEFINE s == home[c]
<1>1. c \in known /\ s \in Sessions /\ stage[c] \in {"pending", "collected", "discarded", "interrupted"}
  BY LaneFacts DEF Cancel
<1>2. /\ known' = known \ {c} /\ home' = home /\ active' = active /\ submitted' = submitted
      /\ settings' = [settings EXCEPT ![s] = GetLane(s)]
  BY DEF Cancel, commandVars
<1>3. \A r \in Sessions : settings'[r] = IF r = s THEN GetLane(s) ELSE settings[r]
  BY <1>1, <1>2 DEF LaneInv, TypeOK
<1>4. /\ Ordered(pending'[s]) /\ ToSet(pending'[s]) = ToSet(pending[s]) \ {c}
      /\ \A r \in Sessions \ {s} : pending'[r] = pending[r]
      /\ \A d \in Commands \ {c} : stage'[d] = stage[d]
      /\ stage'[c] = IF c \in ToSet(pending[s]) THEN "cancelled" ELSE stage[c]
  <2>1. CASE c \notin ToSet(pending[s]) /\ UNCHANGED <<pending, stage>>
    BY <1>1, <2>1, LaneFacts
  <2>2. ASSUME NEW i \in DOMAIN pending[s], pending[s][i] = c,
               pending' = [pending EXCEPT ![s] = RemoveAt(pending[s], i)],
               stage' = [stage EXCEPT ![c] = "cancelled"]
        PROVE  <1>4!:
    <3>1. pending[s] \in Seq(Int) /\ Ordered(pending[s])
      BY <1>1, QueueOfInts, LaneFacts DEF LaneInv
    <3>2. /\ Ordered(RemoveAt(pending[s], i))
          /\ ToSet(RemoveAt(pending[s], i)) = ToSet(pending[s]) \ {pending[s][i]}
      BY <3>1, <2>2, RemoveAtOrdered, Zenon
    <3>3. c \in ToSet(pending[s])
      BY <2>2 DEF ToSet
    <3>4. pending'[s] = RemoveAt(pending[s], i)
      BY <1>1, <2>2 DEF LaneInv, TypeOK
    <3>5. /\ \A r \in Sessions \ {s} : pending'[r] = pending[r]
          /\ \A d \in Commands \ {c} : stage'[d] = stage[d]
          /\ stage'[c] = "cancelled"
      BY <1>1, <2>2 DEF LaneInv, TypeOK
    <3> QED
      BY <2>2, <3>2, <3>3, <3>4, <3>5
  <2> QED
    BY <2>1, <2>2 DEF Cancel
<1>5. \A r \in Sessions : Ordered(pending'[r])
  BY <1>4, LaneFacts
<1>6. ASSUME NEW r \in Sessions, NEW d \in Commands
      PROVE  d \in ToSet(pending'[r]) <=> stage'[d] = "pending" /\ home'[d] = r
  <2>1. d \in ToSet(pending[r]) <=> stage[d] = "pending" /\ home[d] = r
    BY LaneFacts
  <2>2. c \in ToSet(pending[s]) <=> stage[c] = "pending"
    BY <1>1, LaneFacts
  <2>3. CASE d = c
    BY <1>1, <1>2, <1>4, <2>1, <2>2, <2>3
  <2>4. CASE d # c
    BY <1>1, <1>2, <1>4, <2>1, <2>4
  <2> QED
    BY <2>3, <2>4
<1>7. Numbered'
  BY <1>1, <1>2, <1>4 DEF LaneInv, Numbered
<1>8. ASSUME NEW d \in Commands
      PROVE  /\ stage'[d] = "pending" => d \in known'
             /\ d \in known' => stage'[d] \in {"pending", "collected", "discarded", "interrupted"}
  <2>1. c \in ToSet(pending[s]) <=> stage[c] = "pending"
    BY <1>1, LaneFacts
  <2> QED
    BY <1>2, <1>4, <2>1, LaneFacts
<1>9. \A d \in known' : d \in Commands
  BY DEF TypeOK
<1>10. ASSUME NEW r \in Sessions, active'[r] # None
       PROVE  home'[active'[r]] = r /\ stage'[active'[r]] \in Occupied
  <2>1. /\ active[r] \in Commands /\ home[active[r]] = r /\ stage[active[r]] \in Occupied
    BY <1>2, <1>10, LaneFacts
  <2>2. active[r] # c
    BY <1>1, <2>1 DEF Occupied
  <2> QED
    BY <1>2, <1>4, <2>1, <2>2
<1>11. ASSUME NEW r \in Sessions, pending'[r] # <<>> \/ active'[r] # None
       PROVE  settings'[r] # Absent
  <2>1. GetLane(s) # Absent
    BY <1>1, GetLaneType, SettingsPresent DEF LaneInv
  <2> QED
    BY <1>2, <1>3, <1>4, <1>11, <2>1, LaneFacts DEF HasLane
<1> QED
  BY <1>5, <1>6, <1>7, <1>8, <1>9, <1>10, <1>11, LaneInvKept

LEMMA AbortSessionLanes ==
    ASSUME LaneInv, TypeOK', NEW s \in Sessions, AbortSession(s)
    PROVE  LaneInv'
<1> DEFINE kept   == KeptByInterrupt(pending[s])
           popped == ToSet(pending[s]) \ ToSet(kept)
<1>1. /\ pending' = [pending EXCEPT ![s] = kept]
      /\ active' = [active EXCEPT ![s] = None]
      /\ known' = known \ {active[s]}
      /\ stage' = [c \in Commands |-> IF c \in popped THEN "interrupted" ELSE stage[c]]
      /\ home' = home /\ submitted' = submitted /\ settings' = settings /\ HasLane(s)
  BY DEF AbortSession, Stamp, commandVars
<1>2. /\ \A r \in Sessions : pending'[r] = IF r = s THEN kept ELSE pending[r]
      /\ \A r \in Sessions : active'[r] = IF r = s THEN None ELSE active[r]
  BY <1>1 DEF LaneInv, TypeOK
<1>3. Ordered(kept) /\ ToSet(kept) \subseteq ToSet(pending[s])
  BY QueueOfInts, LaneFacts, KeptOrdered DEF LaneInv
<1> HIDE DEF kept
<1>4. \A d \in popped : stage[d] = "pending" /\ home[d] = s
  BY LaneFacts
<1>5. \A r \in Sessions : Ordered(pending'[r])
  BY <1>2, <1>3, LaneFacts
<1>6. ASSUME NEW r \in Sessions, NEW d \in Commands
      PROVE  d \in ToSet(pending'[r]) <=> stage'[d] = "pending" /\ home'[d] = r
  <2>1. d \in ToSet(pending[r]) <=> stage[d] = "pending" /\ home[d] = r
    BY LaneFacts
  <2> QED
    BY <1>1, <1>2, <1>3, <1>4, <2>1
<1>7. Numbered'
  BY <1>1, <1>4 DEF LaneInv, Numbered
<1>8. ASSUME NEW d \in Commands
      PROVE  /\ stage'[d] = "pending" => d \in known'
             /\ d \in known' => stage'[d] \in {"pending", "collected", "discarded", "interrupted"}
  <2>1. active[s] # d \/ stage[d] # "pending"
    <3>1. None \notin Commands
      BY QueueAssumption DEF None, Commands
    <3> QED
      BY <3>1, LaneFacts DEF Occupied
  <2> QED
    BY <1>1, <1>4, <2>1, LaneFacts
<1>9. \A d \in known' : d \in Commands
  BY DEF TypeOK
<1>10. ASSUME NEW r \in Sessions, active'[r] # None
       PROVE  home'[active'[r]] = r /\ stage'[active'[r]] \in Occupied
  <2>1. /\ active'[r] = active[r]
        /\ active[r] \in Commands /\ home[active[r]] = r /\ stage[active[r]] \in Occupied
    BY <1>2, <1>10, LaneFacts
  <2>2. active[r] \notin popped
    BY <1>4, <2>1 DEF Occupied
  <2> QED
    BY <1>1, <2>1, <2>2
<1>11. ASSUME NEW r \in Sessions, pending'[r] # <<>> \/ active'[r] # None
       PROVE  settings'[r] # Absent
  BY <1>1, <1>2, <1>11, LaneFacts DEF HasLane
<1> QED
  BY <1>5, <1>6, <1>7, <1>8, <1>9, <1>10, <1>11, LaneInvKept

LEMMA DispatchPassLanes ==
    ASSUME LaneInv, TypeOK', NEW S \in SUBSET Sessions, DispatchPass(S)
    PROVE  LaneInv'
<1> DEFINE behind(s) == ToSet(Tail(pending[s]))
           drained   == {s \in S : Drains(Oldest(s), Tail(pending[s]))}
           batched   == {s \in drained : mode[Oldest(s)] = "collect"}
<1>1. /\ pending' = [s \in Sessions |-> IF s \in drained THEN <<>>
                                        ELSE IF s \in S THEN Tail(pending[s])
                                        ELSE pending[s]]
      /\ active' = [s \in Sessions |-> IF s \in S THEN Oldest(s) ELSE active[s]]
      /\ known' = known \ {Oldest(s) : s \in S}
      /\ settings' = [s \in Sessions |->
                IF IsIdle(pending'[s], active'[s]) THEN Absent ELSE settings[s]]
      /\ home' = home /\ submitted' = submitted
  BY DEF DispatchPass
<1>2. stage' = [c \in Commands |->
                IF \E s \in S : c = Oldest(s) THEN "activated"
                ELSE IF \E s \in batched : c \in behind(s) THEN "collected"
                ELSE IF \E s \in drained : c \in behind(s) THEN "discarded"
                ELSE stage[c]]
  BY DEF DispatchPass
<1>3. drained \subseteq S /\ batched \subseteq drained
  OBVIOUS
<1> HIDE DEF drained, batched
<1>4. ASSUME NEW s \in S
      PROVE  /\ pending[s] # <<>> /\ s \in Sessions
             /\ Ordered(Tail(pending[s]))
             /\ Oldest(s) \in Commands /\ stage[Oldest(s)] = "pending" /\ home[Oldest(s)] = s
             /\ behind(s) = ToSet(pending[s]) \ {Oldest(s)}
  <2>1. pending[s] # <<>> /\ s \in Sessions
    BY DEF DispatchPass, Chosen, Eligible
  <2>2. pending[s] \in Seq(Int) /\ Ordered(pending[s])
    BY <2>1, QueueOfInts, LaneFacts DEF LaneInv
  <2>3. /\ Ordered(Tail(pending[s])) /\ Oldest(s) \in ToSet(pending[s])
        /\ behind(s) = ToSet(pending[s]) \ {Oldest(s)}
    BY <2>1, <2>2, HeadOldest DEF Oldest
  <2>4. Oldest(s) \in Commands /\ stage[Oldest(s)] = "pending" /\ home[Oldest(s)] = s
    BY <2>1, <2>3, LaneFacts
  <2> QED
    BY <2>1, <2>3, <2>4
<1> HIDE DEF behind
<1>5. ASSUME NEW s \in S, NEW d \in behind(s)
      PROVE  d \in Commands /\ stage[d] = "pending" /\ home[d] = s /\ d # Oldest(s)
  <2>1. d \in ToSet(pending[s]) /\ d # Oldest(s) /\ s \in Sessions
    BY <1>4
  <2> QED
    BY <2>1, LaneFacts
<1>6. \A r \in Sessions : Ordered(pending'[r])
  <2>1. Ordered(<<>>)
    BY DEF Ordered
  <2> QED
    BY <1>1, <1>4, <2>1, LaneFacts
<1>7. ASSUME NEW r \in Sessions, NEW d \in Commands
      PROVE  d \in ToSet(pending'[r]) <=> stage'[d] = "pending" /\ home'[d] = r
  <2>1. d \in ToSet(pending[r]) <=> stage[d] = "pending" /\ home[d] = r
    BY LaneFacts
  <2>2. ToSet(<<>>) = {}
    BY DEF ToSet
  <2>3. CASE home[d] # r
    <3>1. d \notin ToSet(pending'[r])
      BY <1>1, <1>4, <2>1, <2>2, <2>3 DEF behind
    <3> QED
      BY <1>1, <2>3, <3>1
  <2>4. CASE home[d] = r /\ r \notin S
    <3>1. pending'[r] = pending[r]
      BY <1>1, <1>3, <2>4
    <3>2. stage'[d] = stage[d]
      BY <1>2, <1>3, <1>4, <1>5, <2>4
    <3> QED
      BY <1>1, <2>1, <2>4, <3>1, <3>2
  <2>5. CASE home[d] = r /\ r \in drained
    <3>1. pending'[r] = <<>>
      BY <1>1, <2>5
    <3>2. stage[d] = "pending" => d \in behind(r) \/ d = Oldest(r)
      BY <1>3, <1>4, <2>1, <2>5
    <3>3. stage'[d] # "pending"
      BY <1>2, <1>3, <2>5, <3>2
    <3> QED
      BY <2>2, <3>1, <3>3
  <2>6. CASE home[d] = r /\ r \in S \ drained
    <3>1. ToSet(pending'[r]) = ToSet(pending[r]) \ {Oldest(r)}
      BY <1>1, <1>4, <2>6 DEF behind
    <3>2. d # Oldest(r) => stage'[d] = stage[d]
      BY <1>2, <1>3, <1>4, <1>5, <2>6
    <3>3. d = Oldest(r) => stage'[d] # "pending"
      BY <1>2, <2>6
    <3> QED
      BY <1>1, <2>1, <2>6, <3>1, <3>2, <3>3
  <2> QED
    BY <2>3, <2>4, <2>5, <2>6
<1>8. ASSUME NEW d \in Commands
      PROVE  /\ stage'[d] = stage[d]
                \/ (stage[d] = "pending" /\ stage'[d] \in {"activated", "collected", "discarded"})
             /\ stage'[d] = "pending" => \A s \in S : d # Oldest(s)
             /\ (\A s \in S : d # Oldest(s)) => stage'[d] \in {stage[d], "collected", "discarded"}
  <2>1. CASE \E s \in S : d = Oldest(s)
    BY <1>2, <1>4, <2>1
  <2>2. CASE /\ ~\E s \in S : d = Oldest(s)
             /\ \E s \in drained : d \in behind(s)
    BY <1>2, <1>3, <1>5, <2>2
  <2>3. CASE /\ ~\E s \in S : d = Oldest(s)
             /\ ~\E s \in drained : d \in behind(s)
    BY <1>2, <1>3, <2>3
  <2> QED
    BY <2>1, <2>2, <2>3
<1>9. Numbered'
  BY <1>1, <1>8 DEF LaneInv, Numbered
<1>10. ASSUME NEW d \in Commands
       PROVE  /\ stage'[d] = "pending" => d \in known'
              /\ d \in known' => stage'[d] \in {"pending", "collected", "discarded", "interrupted"}
  <2>1. stage[d] = "pending" => d \in known
    BY LaneFacts
  <2>2. d \in known => stage[d] \in {"pending", "collected", "discarded", "interrupted"}
    BY LaneFacts
  <2>3. d \in known' => d \in known /\ ~\E s \in S : d = Oldest(s)
    BY <1>1
  <2>4. stage'[d] = "pending" => d \in known'
    BY <1>1, <1>8, <2>1
  <2>5. d \in known' => stage'[d] \in {"pending", "collected", "discarded", "interrupted"}
    BY <1>8, <2>2, <2>3
  <2> QED
    BY <2>4, <2>5
<1>11. \A d \in known' : d \in Commands
  BY DEF TypeOK
<1>12. ASSUME NEW r \in Sessions, active'[r] # None
       PROVE  home'[active'[r]] = r /\ stage'[active'[r]] \in Occupied
  <2>1. CASE r \in S
    BY <1>1, <1>2, <1>4, <2>1 DEF Occupied
  <2>2. CASE r \notin S
    <3>1. /\ active'[r] = active[r]
          /\ active[r] \in Commands /\ home[active[r]] = r /\ stage[active[r]] \in Occupied
      BY <1>1, <1>12, <2>2, LaneFacts
    <3>2. stage[active[r]] # "pending"
      BY <3>1 DEF Occupied
    <3> QED
      BY <1>1, <1>8, <3>1, <3>2
  <2> QED
    BY <2>1, <2>2
<1>13. ASSUME NEW r \in Sessions, pending'[r] # <<>> \/ active'[r] # None
       PROVE  settings'[r] # Absent
  <2>1. settings'[r] = settings[r]
    BY <1>1, <1>13 DEF IsIdle
  <2>2. pending[r] # <<>> \/ active[r] # None
    BY <1>1, <1>3, <1>4, <1>13
  <2> QED
    BY <2>1, <2>2, LaneFacts DEF HasLane
<1> QED
  BY <1>6, <1>7, <1>9, <1>10, <1>11, <1>12, <1>13, LaneInvKept

LEMMA ReleaseLanes ==
    ASSUME LaneInv, TypeOK', NEW c \in Commands, Release(c)
    PROVE  LaneInv'
<1>1. /\ stage[c] = "answered" /\ stage' = [stage EXCEPT ![c] = "released"]
      /\ pending' = pending /\ home' = home /\ submitted' = submitted
      /\ known' = known /\ settings' = settings
  BY DEF Release, Step, commandVars
<1>2. home[c] \in Sessions
  BY <1>1, LaneFacts
<1>3. active'[home[c]] = None /\ \A r \in Sessions \ {home[c]} : active'[r] = active[r]
  BY <1>2, LaneFacts DEF Release, LaneInv, TypeOK
<1>4. \A d \in Commands : /\ d # c => stage'[d] = stage[d]
                          /\ d = c => stage'[d] = "released"
  BY <1>1 DEF LaneInv, TypeOK
<1>5. Numbered'
  BY <1>1, <1>4 DEF LaneInv, Numbered
<1>6. ASSUME NEW r \in Sessions, NEW d \in Commands
      PROVE  d \in ToSet(pending'[r]) <=> stage'[d] = "pending" /\ home'[d] = r
  BY <1>1, <1>4, LaneFacts
<1>7. ASSUME NEW d \in Commands
      PROVE  /\ stage'[d] = "pending" => d \in known'
             /\ d \in known' => stage'[d] \in {"pending", "collected", "discarded", "interrupted"}
  BY <1>1, <1>4, LaneFacts
<1>8. \A d \in known' : d \in Commands
  BY DEF TypeOK
<1>9. ASSUME NEW r \in Sessions, active'[r] # None
      PROVE  home'[active'[r]] = r /\ stage'[active'[r]] \in Occupied
  <2>1. /\ active'[r] = active[r] /\ r # home[c]
        /\ active[r] \in Commands /\ home[active[r]] = r /\ stage[active[r]] \in Occupied
    BY <1>3, <1>9, LaneFacts
  <2> QED
    BY <1>1, <1>4, <2>1
<1>10. \A r \in Sessions : pending'[r] # <<>> \/ active'[r] # None => settings'[r] # Absent
  BY <1>1, <1>3, LaneFacts DEF HasLane
<1> QED
  BY <1>1, <1>5, <1>6, <1>7, <1>8, <1>9, <1>10, LaneInvKept, LaneFacts

\* A worker's other steps move its command between stages that occupy a slot,
\* or out of them once the lane is free of it.
LEMMA WorkerLanes ==
    ASSUME LaneInv, TypeOK', NEW c \in Commands, NEW from, NEW to, Step(c, from, to),
           \/ from \in Occupied /\ to \in Occupied
           \/ from = "released" /\ to = "finished",
           UNCHANGED <<settings, pending, active, known, submitted, home>>
    PROVE  LaneInv'
<1>1. \A d \in Commands : /\ d # c => stage'[d] = stage[d]
                          /\ d = c => stage[d] = from /\ stage'[d] = to
  BY DEF Step, LaneInv, TypeOK
<1>2. \A x \in {from, to} : x \notin {"new", "pending", "collected", "discarded", "interrupted"}
  BY DEF Occupied
<1>3. Numbered'
  BY <1>1, <1>2 DEF LaneInv, Numbered
<1>4. ASSUME NEW r \in Sessions, NEW d \in Commands
      PROVE  d \in ToSet(pending'[r]) <=> stage'[d] = "pending" /\ home'[d] = r
  BY <1>1, <1>2, LaneFacts
<1>5. ASSUME NEW d \in Commands
      PROVE  /\ stage'[d] = "pending" => d \in known'
             /\ d \in known' => stage'[d] \in {"pending", "collected", "discarded", "interrupted"}
  BY <1>1, <1>2, LaneFacts
<1>6. \A d \in known' : d \in Commands
  BY DEF TypeOK
<1>7. ASSUME NEW r \in Sessions, active'[r] # None
      PROVE  home'[active'[r]] = r /\ stage'[active'[r]] \in Occupied
  <2>1. /\ active'[r] = active[r]
        /\ active[r] \in Commands /\ home[active[r]] = r /\ stage[active[r]] \in Occupied
    BY <1>7, LaneFacts
  <2> QED
    BY <1>1, <2>1 DEF Occupied
<1>8. \A r \in Sessions : pending'[r] # <<>> \/ active'[r] # None => settings'[r] # Absent
  BY LaneFacts DEF HasLane
<1>9. \A r \in Sessions : Ordered(pending'[r])
  BY LaneFacts
<1> QED
  BY <1>3, <1>4, <1>5, <1>6, <1>7, <1>8, <1>9, LaneInvKept

LEMMA OtherStepsLanes ==
    ASSUME LaneInv, TypeOK',
           \/ \E s \in Sessions, lane \in LaneSettings : ConfigureSession(s, lane)
           \/ \E cfg \in Configs : SetConfig(cfg)
           \/ \E s \in Sessions : Ripen(s)
           \/ DispatcherExit \/ Owner
           \/ UNCHANGED vars
    PROVE  LaneInv'
<1>1. UNCHANGED <<pending, active, known, submitted, home, stage>>
  BY DEF ConfigureSession, SetConfig, Ripen, DispatcherExit, Owner, Start, Stop, TakeWorkers,
         StopReturns, vars, queueVars, poolVars, commandVars, historyVars
<1>2. \A r \in Sessions : pending'[r] # <<>> \/ active'[r] # None => settings'[r] # Absent
  <2>1. ASSUME NEW s \in Sessions, NEW lane \in LaneSettings, ConfigureSession(s, lane)
        PROVE  \A r \in Sessions : pending'[r] # <<>> \/ active'[r] # None => settings'[r] # Absent
    <3>1. lane # Absent
      BY SettingsPresent, QueueAssumption
    <3> QED
      BY <2>1, <3>1, <1>1, LaneFacts DEF ConfigureSession, HasLane, LaneInv, TypeOK
  <2>2. CASE UNCHANGED settings
    BY <2>2, <1>1, LaneFacts DEF HasLane
  <2> QED
    BY <2>1, <2>2 DEF SetConfig, Ripen, DispatcherExit, Owner, Start, Stop, TakeWorkers,
         StopReturns, vars, queueVars, poolVars, commandVars, historyVars
<1>3. Numbered'
  BY <1>1 DEF LaneInv, Numbered
<1> QED
  BY <1>1, <1>2, <1>3, LaneFacts, LaneInvKept

LEMMA LaneInvNext == LaneInv /\ [Next]_vars => LaneInv'
<1> SUFFICES ASSUME LaneInv, [Next]_vars PROVE LaneInv'
  OBVIOUS
<1>1. TypeOK'
  BY NextType DEF LaneInv
<1>2. ASSUME NEW s \in Sessions, NEW c \in Commands, NEW m \in Modes,
             SubmitSteering(s, c, m) \/ SubmitQueued(s, c, m)
      PROVE  LaneInv'
  BY <1>1, <1>2, SubmitSteeringLanes, SubmitQueuedLanes
<1>3. ASSUME NEW c \in Commands, Cancel(c)
      PROVE  LaneInv'
  BY <1>1, <1>3, CancelLanes
<1>4. ASSUME NEW s \in Abortable, AbortSession(s)
      PROVE  LaneInv'
  BY <1>1, <1>4, AbortSessionLanes, QueueAssumption
<1>5. ASSUME NEW S \in SUBSET Sessions, DispatchPass(S)
      PROVE  LaneInv'
  BY <1>1, <1>5, DispatchPassLanes
<1>6. ASSUME NEW c \in Commands, SpawnWorker(c)
      PROVE  LaneInv'
  <2>1. /\ Step(c, "activated", "spawned")
        /\ UNCHANGED <<settings, pending, active, known, submitted, home>>
    BY <1>6 DEF SpawnWorker, Step, queueVars, commandVars
  <2> QED
    BY <1>1, <2>1, WorkerLanes DEF Occupied
<1>7. ASSUME NEW c \in Commands, Worker(c)
      PROVE  LaneInv'
  <2>1. CASE StartRun(c)
    <3>1. /\ Step(c, "spawned", "running")
          /\ UNCHANGED <<settings, pending, active, known, submitted, home>>
      BY <2>1 DEF StartRun, queueVars, commandVars
    <3> QED
      BY <1>1, <3>1, WorkerLanes DEF Occupied
  <2>2. CASE FinishRun(c)
    <3>1. /\ Step(c, "running", "answered")
          /\ UNCHANGED <<settings, pending, active, known, submitted, home>>
      BY <2>2 DEF FinishRun, queueVars, commandVars
    <3> QED
      BY <1>1, <3>1, WorkerLanes DEF Occupied
  <2>3. CASE Release(c)
    BY <1>1, <2>3, ReleaseLanes
  <2>4. CASE EndWorker(c)
    <3>1. /\ Step(c, "released", "finished")
          /\ UNCHANGED <<settings, pending, active, known, submitted, home>>
      BY <2>4 DEF EndWorker, queueVars, commandVars
    <3> QED
      BY <1>1, <3>1, WorkerLanes
  <2> QED
    BY <1>7, <2>1, <2>2, <2>3, <2>4 DEF Worker
<1> QED
  BY <1>1, <1>2, <1>3, <1>4, <1>5, <1>6, <1>7, OtherStepsLanes DEF Next, Caller, Dispatcher

LEMMA LaneInvAlways == Spec => []LaneInv
  BY LaneInvInit, LaneInvNext, PTL DEF Spec

\* A lane holds exactly its own pending commands, in the order of submission,
\* through submissions, overflows, interrupts, cancellations and activations.
THEOREM LanesAlwaysHoldPending == Spec => []LanesHoldPending
<1>1. LaneInv => LanesHoldPending
  BY DEF LaneInv
<1> QED
  BY <1>1, LaneInvAlways, PTL

\* Every pending command can be cancelled by its id, and the id map names no
\* command that runs, has run, was cancelled or overflowed.
THEOREM IdsAlwaysKnown == Spec => []KnownIds
<1>1. LaneInv => KnownIds
  BY DEF LaneInv
<1> QED
  BY <1>1, LaneInvAlways, PTL

\* A lane is never blocked by a command that no worker will release.
THEOREM ActiveAlwaysHasWorker == Spec => []ActiveHasWorker
<1>1. LaneInv => ActiveHasWorker
  BY DEF LaneInv
<1> QED
  BY <1>1, LaneInvAlways, PTL

\* The clean-up of idle lanes never erases a lane that has work.
THEOREM WorkAlwaysKeepsLane == Spec => []WorkKeepsLane
<1>1. LaneInv => WorkKeepsLane
  BY DEF LaneInv
<1> QED
  BY <1>1, LaneInvAlways, PTL

\* Deques, states and ids of the commands always agree.
THEOREM LanesAlwaysAgree == Spec => []LanesAgree
<1>1. LaneInv => LanesAgree
  BY DEF LaneInv, LanesAgree
<1> QED
  BY <1>1, LaneInvAlways, PTL

\* Work always has a lane, and a lane that is taken always has a worker.
THEOREM LanesAlwaysServed == Spec => []LanesAreServed
<1>1. LaneInv => LanesAreServed
  BY DEF LaneInv, LanesAreServed
<1> QED
  BY <1>1, LaneInvAlways, PTL

\* Commands of a session are activated oldest first, and none twice.
THEOREM ActivationsOldestFirst == Spec => OldestFirst
<1> DEFINE InOrder == \A s \in Sessions : active'[s] \notin {active[s], None} =>
                        /\ stage[active'[s]] = "pending"
                        /\ \A d \in ToSet(pending[s]) : active'[s] <= d
<1>1. ASSUME LaneInv, [Next]_vars PROVE InOrder
  <2>1. ASSUME NEW S \in SUBSET Sessions, DispatchPass(S), NEW s \in Sessions,
               active'[s] \notin {active[s], None}
        PROVE  /\ stage[active'[s]] = "pending"
               /\ \A d \in ToSet(pending[s]) : active'[s] <= d
    <3>1. s \in S /\ active'[s] = Oldest(s)
      BY <2>1 DEF DispatchPass
    <3>2. pending[s] # <<>> /\ pending[s] \in Seq(Int) /\ Ordered(pending[s])
      BY <1>1, <2>1, <3>1, QueueOfInts, LaneFacts DEF DispatchPass, Chosen, Eligible, LaneInv
    <3>3. Oldest(s) \in ToSet(pending[s]) /\ \A d \in ToSet(pending[s]) : Oldest(s) <= d
      BY <3>2, HeadOldest DEF Oldest
    <3> QED
      BY <1>1, <3>1, <3>3, LaneFacts
  <2>2. ASSUME ~\E S \in SUBSET Sessions : DispatchPass(S), NEW s \in Sessions
        PROVE  active'[s] \in {active[s], None}
    <3>1. active' = active \/ \E r : active' = [active EXCEPT ![r] = None]
      BY <1>1, <2>2 DEF Next, Caller, Dispatcher, Worker, Owner, SubmitSteering, SubmitQueued,
         Cancel, AbortSession, ConfigureSession, SetConfig, Ripen, SpawnWorker, DispatcherExit,
         StartRun, FinishRun, Release, EndWorker, Start, Stop, TakeWorkers, StopReturns,
         vars, queueVars
    <3> QED
      BY <1>1, <3>1 DEF LaneInv, TypeOK
  <2> QED
    BY <2>1, <2>2
<1>2. LaneInv /\ [Next]_vars => [InOrder]_vars
  BY <1>1
<1> QED
  BY <1>2, LaneInvAlways, PTL DEF Spec, OldestFirst

(***************************************************************************)
(* active_count_.                                                          *)
(***************************************************************************)

LEMMA CommandsFinite ==
    ASSUME NEW T, T \subseteq Commands
    PROVE  IsFiniteSet(T) /\ Cardinality(T) \in Nat
<1>1. IsFiniteSet(Commands)
  BY QueueAssumption, FS_Interval DEF Commands
<1>2. IsFiniteSet(T)
  BY <1>1, FS_Subset
<1> QED
  BY <1>2, FS_CardinalityType

LEMMA CountInit == Init => CountIsExact
<1> SUFFICES ASSUME Init PROVE CountIsExact
  OBVIOUS
<1>1. InStage(Occupied) = {}
  BY DEF Init, InStage, Occupied
<1> QED
  BY <1>1, FS_EmptySet DEF Init, CountIsExact

\* A pass of the dispatcher counts each command it activates.
LEMMA DispatchPassCount ==
    ASSUME LaneInv, CountIsExact, NEW S \in SUBSET Sessions, DispatchPass(S)
    PROVE  CountIsExact'
<1> DEFINE taken == {Oldest(s) : s \in S}
<1>1. ASSUME NEW s \in S
      PROVE  /\ Oldest(s) \in Commands /\ stage[Oldest(s)] = "pending" /\ home[Oldest(s)] = s
             /\ \A d \in ToSet(Tail(pending[s])) : d \in Commands => stage[d] = "pending"
  <2>1. pending[s] # <<>> /\ s \in Sessions
    BY DEF DispatchPass, Chosen, Eligible
  <2>2. pending[s] \in Seq(Int) /\ Ordered(pending[s])
    BY <2>1, QueueOfInts, LaneFacts DEF LaneInv
  <2>3. /\ Oldest(s) \in ToSet(pending[s])
        /\ ToSet(Tail(pending[s])) = ToSet(pending[s]) \ {Oldest(s)}
    BY <2>1, <2>2, HeadOldest DEF Oldest
  <2> QED
    BY <2>1, <2>3, LaneFacts
<1>2. InStage(Occupied)' = InStage(Occupied) \cup taken
  <2> DEFINE drained == {s \in S : Drains(Oldest(s), Tail(pending[s]))}
             batched == {s \in drained : mode[Oldest(s)] = "collect"}
  <2>1. stage' = [c \in Commands |->
                IF \E s \in S : c = Oldest(s) THEN "activated"
                ELSE IF \E s \in batched : c \in ToSet(Tail(pending[s])) THEN "collected"
                ELSE IF \E s \in drained : c \in ToSet(Tail(pending[s])) THEN "discarded"
                ELSE stage[c]]
    BY DEF DispatchPass
  <2>2. drained \subseteq S /\ batched \subseteq S
    OBVIOUS
  <2> HIDE DEF drained, batched
  <2>3. ASSUME NEW c \in Commands
        PROVE  stage'[c] \in Occupied <=> stage[c] \in Occupied \/ c \in taken
    <3>1. CASE c \in taken
      BY <2>1, <3>1 DEF Occupied
    <3>2. CASE c \notin taken
      BY <1>1, <2>1, <2>2, <3>2 DEF Occupied
    <3> QED
      BY <3>1, <3>2
  <2>4. taken \subseteq Commands
    BY <1>1
  <2> QED
    BY <2>3, <2>4 DEF InStage
<1>3. InStage(Occupied) \cap taken = {}
  BY <1>1 DEF InStage, Occupied
<1>4. IsFiniteSet(taken) /\ Cardinality(taken) = Cardinality(S) /\ Cardinality(S) \in Nat
  <2> DEFINE f == [s \in S |-> Oldest(s)]
  <2>1. f \in Bijection(S, taken)
    BY <1>1 DEF Bijection, Injection, IsInjective, Surjection
  <2>2. ExistsBijection(S, taken)
    BY <2>1 DEF ExistsBijection
  <2>3. IsFiniteSet(S) /\ Cardinality(S) \in Nat
    BY QueueAssumption, FS_Subset, FS_CardinalityType
  <2> QED
    BY <2>2, <2>3, FS_Bijection
<1>5. IsFiniteSet(InStage(Occupied)) /\ Cardinality(InStage(Occupied)) \in Nat
  BY CommandsFinite DEF InStage
<1> HIDE DEF taken
<1>6. Cardinality(InStage(Occupied) \cup taken)
        = Cardinality(InStage(Occupied)) + Cardinality(taken)
  BY <1>3, <1>4, <1>5, FS_Union, FS_EmptySet
<1>7. active_count' = active_count + Cardinality(S)
  BY DEF DispatchPass
<1> QED
  BY <1>2, <1>4, <1>6, <1>7 DEF CountIsExact

LEMMA ReleaseCount ==
    ASSUME LaneInv, CountIsExact, NEW c \in Commands, Release(c)
    PROVE  CountIsExact'
<1>1. /\ stage[c] = "answered" /\ stage' = [stage EXCEPT ![c] = "released"]
      /\ active_count' = active_count - 1
  BY DEF Release, Step
<1>2. InStage(Occupied)' = InStage(Occupied) \ {c} /\ c \in InStage(Occupied)
  BY <1>1 DEF InStage, Occupied, LaneInv, TypeOK
<1>3. IsFiniteSet(InStage(Occupied))
  BY CommandsFinite DEF InStage
<1>4. Cardinality(InStage(Occupied) \ {c}) = Cardinality(InStage(Occupied)) - 1
  BY <1>2, <1>3, FS_RemoveElement
<1> QED
  BY <1>1, <1>2, <1>4 DEF CountIsExact

\* Only the dispatcher's pass and the workers' releases count.
LEMMA CountSteps ==
    ASSUME [Next]_vars
    PROVE  \/ \E S \in SUBSET Sessions : DispatchPass(S)
           \/ \E c \in Commands : Release(c)
           \/ active_count' = active_count
<1>1. ASSUME NEW s \in Sessions, NEW c \in Commands, NEW m \in Modes,
             SubmitSteering(s, c, m) \/ SubmitQueued(s, c, m)
      PROVE  active_count' = active_count
  BY <1>1 DEF SubmitSteering, SubmitQueued, Arrive, poolVars
<1>2. CASE \/ \E c \in Commands : Cancel(c)
           \/ \E s \in Abortable : AbortSession(s)
           \/ \E s \in Sessions, lane \in LaneSettings : ConfigureSession(s, lane)
           \/ \E cfg \in Configs : SetConfig(cfg)
           \/ \E s \in Sessions : Ripen(s)
  BY <1>2 DEF Cancel, AbortSession, ConfigureSession, SetConfig, Ripen, poolVars
<1>3. CASE (\E c \in Commands : SpawnWorker(c)) \/ DispatcherExit
  BY <1>3 DEF SpawnWorker, DispatcherExit
<1>4. CASE \E c \in Commands : StartRun(c) \/ FinishRun(c) \/ EndWorker(c)
  BY <1>4 DEF StartRun, FinishRun, EndWorker, poolVars
<1>5. CASE Owner \/ UNCHANGED vars
  BY <1>5 DEF Owner, Start, Stop, TakeWorkers, StopReturns, vars, poolVars
<1> QED
  BY <1>1, <1>2, <1>3, <1>4, <1>5 DEF Next, Caller, Dispatcher, Worker

\* No other step moves a command into a slot or out of one.
LEMMA OtherStepsOccupied ==
    ASSUME LaneInv, [Next]_vars,
           ~\E S \in SUBSET Sessions : DispatchPass(S),
           ~\E c \in Commands : Release(c),
           NEW d \in Commands
    PROVE  stage'[d] \in Occupied <=> stage[d] \in Occupied
<1>1. ASSUME NEW s \in Sessions, NEW c \in Commands, NEW m, NEW kept, NEW left, Fresh(c),
             Arrive(s, c, m, kept, left), ToSet(kept) \subseteq ToSet(pending[s])
      PROVE  stage'[d] \in Occupied <=> stage[d] \in Occupied
  <2>1. stage[c] = "new"
    BY <1>1, FreshIsNew
  <2>2. \A e \in ToSet(pending[s]) : stage[e] = "pending"
    BY LaneFacts
  <2>3. \/ stage'[d] = stage[d]
        \/ /\ d = c \/ d \in ToSet(pending[s])
           /\ stage'[d] \in {"overflowed", "interrupted", "pending"}
    BY <1>1 DEF Arrive
  <2> QED
    BY <2>1, <2>2, <2>3 DEF Occupied
<1>2. ASSUME NEW s \in Sessions, NEW c \in Commands, NEW m \in Modes,
             SubmitSteering(s, c, m) \/ SubmitQueued(s, c, m)
      PROVE  stage'[d] \in Occupied <=> stage[d] \in Occupied
  <2>1. ToSet(KeptByInterrupt(pending[s])) \subseteq ToSet(pending[s])
    BY QueueOfInts, LaneFacts, KeptOrdered DEF LaneInv
  <2>2. CASE SubmitSteering(s, c, m)
    BY <1>1, <2>2 DEF SubmitSteering
  <2>3. CASE SubmitQueued(s, c, m)
    BY <1>1, <2>1, <2>3 DEF SubmitQueued
  <2> QED
    BY <1>2, <2>2, <2>3
<1>3. ASSUME NEW c \in Commands, Cancel(c)
      PROVE  stage'[d] \in Occupied <=> stage[d] \in Occupied
  <2>1. home[c] \in Sessions
    BY <1>3, LaneFacts DEF Cancel
  <2>2. c \in ToSet(pending[home[c]]) => stage[c] = "pending"
    BY <2>1, LaneFacts
  <2>3. UNCHANGED stage \/ (c \in ToSet(pending[home[c]]) /\ stage' = [stage EXCEPT ![c] = "cancelled"])
    BY <1>3 DEF Cancel, ToSet
  <2> QED
    BY <2>2, <2>3 DEF Occupied, LaneInv, TypeOK
<1>4. ASSUME NEW s \in Abortable, AbortSession(s)
      PROVE  stage'[d] \in Occupied <=> stage[d] \in Occupied
  <2>1. s \in Sessions
    BY QueueAssumption
  <2>2. stage'[d] = stage[d] \/ (d \in ToSet(pending[s]) /\ stage'[d] = "interrupted")
    BY <1>4 DEF AbortSession, Stamp
  <2> QED
    BY <2>1, <2>2, LaneFacts DEF Occupied
<1>5. ASSUME NEW c \in Commands,
             SpawnWorker(c) \/ StartRun(c) \/ FinishRun(c) \/ EndWorker(c)
      PROVE  stage'[d] \in Occupied <=> stage[d] \in Occupied
  BY <1>5 DEF SpawnWorker, StartRun, FinishRun, EndWorker, Step, Occupied, LaneInv, TypeOK
<1>6. \/ \E s \in Sessions, c \in Commands, m \in Modes :
              SubmitSteering(s, c, m) \/ SubmitQueued(s, c, m)
      \/ \E c \in Commands : Cancel(c)
      \/ \E s \in Abortable : AbortSession(s)
      \/ \E c \in Commands :
              SpawnWorker(c) \/ StartRun(c) \/ FinishRun(c) \/ EndWorker(c)
      \/ UNCHANGED stage
  BY DEF Next, Caller, Dispatcher, Worker, Owner, ConfigureSession, SetConfig, Ripen,
         DispatcherExit, Start, Stop, TakeWorkers, StopReturns, vars
<1> QED
  BY <1>2, <1>3, <1>4, <1>5, <1>6

LEMMA OtherStepsCount ==
    ASSUME LaneInv, CountIsExact, [Next]_vars,
           ~\E S \in SUBSET Sessions : DispatchPass(S),
           ~\E c \in Commands : Release(c)
    PROVE  CountIsExact'
<1>1. active_count' = active_count
  BY CountSteps
<1>2. InStage(Occupied)' = InStage(Occupied)
  BY OtherStepsOccupied DEF InStage
<1> QED
  BY <1>1, <1>2 DEF CountIsExact

\* active_count_ is the number of commands between activation and release, so
\* no interrupt, clean-up or cancellation leaks a slot or gives one back twice.
THEOREM CountAlwaysExact == Spec => []CountIsExact
<1>1. LaneInv /\ CountIsExact /\ [Next]_vars => CountIsExact'
  BY DispatchPassCount, ReleaseCount, OtherStepsCount
<1> QED
  BY <1>1, LaneInvAlways, CountInit, PTL DEF Spec

(***************************************************************************)
(* Stop waits for everybody.  A worker thread is created only by the       *)
(* dispatcher, for a command it has activated in the pass before, and the  *)
(* dispatcher is joined before the workers are taken.                      *)
(***************************************************************************)

Busy == {"spawned", "running", "answered", "released"}

StopInv == /\ TypeOK
           /\ life \in {"joining", "stopped"} => dispatcher = "exited"
           /\ dispatcher # "spawning" => \A c \in Commands : stage[c] # "activated"
           /\ life = "stopped" => \A c \in Commands : stage[c] \notin Busy

\* The ways a command gets a thread, or keeps it.
LEMMA StageMoves ==
    ASSUME TypeOK, [Next]_vars, NEW d \in Commands
    PROVE  \/ stage'[d] = stage[d]
           \/ stage'[d] \notin Busy \cup {"activated"}
           \/ stage'[d] = "activated" /\ \E S \in SUBSET Sessions : DispatchPass(S)
           \/ stage[d] = "activated" /\ SpawnWorker(d)
           \/ stage[d] \in Busy /\ stage'[d] \in Busy
<1> DEFINE Moves == \/ stage'[d] = stage[d]
                    \/ stage'[d] \notin Busy \cup {"activated"}
                    \/ stage'[d] = "activated" /\ \E S \in SUBSET Sessions : DispatchPass(S)
                    \/ stage[d] = "activated" /\ SpawnWorker(d)
                    \/ stage[d] \in Busy /\ stage'[d] \in Busy
<1> SUFFICES Moves
  OBVIOUS
<1>1. ASSUME NEW s \in Sessions, NEW c \in Commands, NEW m \in Modes,
             SubmitSteering(s, c, m) \/ SubmitQueued(s, c, m)
      PROVE  Moves
  <2>1. ASSUME NEW kept, NEW left, NEW md, Arrive(s, c, md, kept, left)
        PROVE  Moves
    <3>1. stage'[d] \in {stage[d], "overflowed", "interrupted", "pending"}
      BY <2>1 DEF Arrive
    <3> QED
      BY <3>1 DEF Busy
  <2> QED
    BY <1>1, <2>1 DEF SubmitSteering, SubmitQueued
<1>2. ASSUME NEW c \in Commands, Cancel(c)
      PROVE  Moves
  <2>1. stage'[d] \in {stage[d], "cancelled"}
    BY <1>2 DEF Cancel, TypeOK
  <2> QED
    BY <2>1 DEF Busy
<1>3. ASSUME NEW s \in Abortable, AbortSession(s)
      PROVE  Moves
  <2>1. stage'[d] \in {stage[d], "interrupted"}
    BY <1>3 DEF AbortSession, Stamp
  <2> QED
    BY <2>1 DEF Busy
<1>4. ASSUME NEW S \in SUBSET Sessions, DispatchPass(S)
      PROVE  Moves
  <2>1. stage'[d] \in {stage[d], "activated", "collected", "discarded"}
    BY <1>4 DEF DispatchPass
  <2> QED
    BY <1>4, <2>1 DEF Busy
<1>5. ASSUME NEW c \in Commands, SpawnWorker(c)
      PROVE  Moves
  <2>1. CASE c = d
    BY <1>5, <2>1 DEF SpawnWorker
  <2>2. CASE c # d
    BY <1>5, <2>2 DEF SpawnWorker, TypeOK
  <2> QED
    BY <2>1, <2>2
<1>6. ASSUME NEW c \in Commands, Worker(c)
      PROVE  Moves
  BY <1>6 DEF Worker, StartRun, FinishRun, Release, EndWorker, Step, Busy, TypeOK
<1>7. CASE \/ \E s \in Sessions, lane \in LaneSettings : ConfigureSession(s, lane)
           \/ \E cfg \in Configs : SetConfig(cfg)
           \/ \E s \in Sessions : Ripen(s)
           \/ DispatcherExit \/ Owner
           \/ UNCHANGED vars
  BY <1>7 DEF ConfigureSession, SetConfig, Ripen, DispatcherExit, Owner, Start, Stop,
              TakeWorkers, StopReturns, vars
<1> HIDE DEF Moves
<1> QED
  BY <1>1, <1>2, <1>3, <1>4, <1>5, <1>6, <1>7 DEF Next, Caller, Dispatcher

\* Only the owner and the dispatcher itself move life and dispatcher.
LEMMA LifeMoves ==
    ASSUME [Next]_vars
    PROVE  \/ UNCHANGED <<life, dispatcher>>
           \/ UNCHANGED life /\ \E S \in SUBSET Sessions : DispatchPass(S)
           \/ UNCHANGED life /\ \E c \in Commands : SpawnWorker(c)
           \/ DispatcherExit
           \/ Owner
<1>1. ASSUME NEW s \in Sessions, NEW c \in Commands, NEW m \in Modes,
             SubmitSteering(s, c, m) \/ SubmitQueued(s, c, m)
      PROVE  UNCHANGED <<life, dispatcher>>
  BY <1>1 DEF SubmitSteering, SubmitQueued, Arrive, poolVars
<1>2. CASE \/ \E c \in Commands : Cancel(c)
           \/ \E s \in Abortable : AbortSession(s)
           \/ \E s \in Sessions, lane \in LaneSettings : ConfigureSession(s, lane)
           \/ \E cfg \in Configs : SetConfig(cfg)
           \/ \E s \in Sessions : Ripen(s)
  BY <1>2 DEF Cancel, AbortSession, ConfigureSession, SetConfig, Ripen, poolVars
<1>3. CASE \/ \E S \in SUBSET Sessions : DispatchPass(S)
           \/ \E c \in Commands : SpawnWorker(c)
  BY <1>3 DEF DispatchPass, SpawnWorker
<1>4. CASE \E c \in Commands : Worker(c)
  BY <1>4 DEF Worker, StartRun, FinishRun, Release, EndWorker, poolVars
<1>5. CASE UNCHANGED vars
  BY <1>5 DEF vars, poolVars
<1> QED
  BY <1>1, <1>2, <1>3, <1>4, <1>5 DEF Next, Caller, Dispatcher

LEMMA StopInvInit == Init => StopInv
  BY InitType DEF Init, StopInv, Busy

LEMMA StopInvNext == StopInv /\ [Next]_vars => StopInv'
<1> SUFFICES ASSUME StopInv, [Next]_vars PROVE StopInv'
  OBVIOUS
<1>1. TypeOK /\ TypeOK'
  BY NextType DEF StopInv
<1>2. life' \in {"joining", "stopped"} => dispatcher' = "exited"
  BY LifeMoves DEF StopInv, DispatchPass, SpawnWorker, DispatcherExit, Owner, Start, Stop,
                   TakeWorkers, StopReturns
<1>3. ASSUME dispatcher' # "spawning", NEW d \in Commands
      PROVE  stage'[d] # "activated"
  <2>1. ASSUME NEW S \in SUBSET Sessions, DispatchPass(S)
        PROVE  stage'[d] # "activated"
    <3>1. S = {} /\ dispatcher = "waiting"
      BY <1>3, <2>1 DEF DispatchPass
    <3> QED
      BY <2>1, <3>1 DEF DispatchPass, StopInv
  <2>2. ASSUME NEW c \in Commands, SpawnWorker(c)
        PROVE  stage'[d] # "activated"
    <3>1. InStage({"activated"}) = {c}
      BY <1>3, <2>2 DEF SpawnWorker
    <3>2. d # c => stage[d] # "activated"
      BY <3>1 DEF InStage
    <3> QED
      BY <1>1, <2>2, <3>2 DEF SpawnWorker, TypeOK
  <2>3. ASSUME ~\E S \in SUBSET Sessions : DispatchPass(S),
               ~\E c \in Commands : SpawnWorker(c)
        PROVE  stage'[d] # "activated"
    <3>1. dispatcher # "spawning"
      BY <1>3, <2>3, LifeMoves DEF DispatcherExit, Owner, Start, Stop, TakeWorkers,
                                   StopReturns, StopInv
    <3>2. stage[d] # "activated"
      BY <3>1 DEF StopInv
    <3> QED
      BY <1>1, <2>3, <3>2, StageMoves DEF Busy
  <2> QED
    BY <2>1, <2>2, <2>3
<1>4. ASSUME life' = "stopped", NEW d \in Commands
      PROVE  stage'[d] \notin Busy
  <2>1. CASE StopReturns
    BY <2>1 DEF StopReturns, InStage, Busy
  <2>2. CASE ~StopReturns
    <3>1. life = "stopped"
      BY <1>4, <2>2, LifeMoves DEF DispatcherExit, Owner, Start, Stop, TakeWorkers
    <3>2. stage[d] \notin Busy /\ dispatcher = "exited" /\ stage[d] # "activated"
      BY <3>1 DEF StopInv
    <3> QED
      BY <1>1, <3>2, StageMoves DEF Busy
  <2> QED
    BY <2>1, <2>2
<1> QED
  BY <1>1, <1>2, <1>3, <1>4 DEF StopInv

\* When Stop has returned, no worker is left that could use the executor or the
\* senders, whatever was pending, activated or running when it was called.
THEOREM NothingEverRunsWhenStopped == Spec => []NothingRunsWhenStopped
<1>1. StopInv => NothingRunsWhenStopped
  BY DEF StopInv, NothingRunsWhenStopped, InStage, Occupied, Busy
<1> QED
  BY <1>1, StopInvInit, StopInvNext, PTL DEF Spec

(***************************************************************************)
(* The cap.                                                                *)
(***************************************************************************)

\* What the overflow loop leaves of a queue when the cap admits a command.
LEMMA TrimmedLength ==
    ASSUME NEW q \in Seq(Int), q # <<>>, NEW cap \in Int, cap >= 1, NEW drop \in DropPolicies
    PROVE  Len(Trimmed(q, cap, drop)) <= cap
<1>1. Len(q) \in Nat /\ Len(q) >= 1
  OBVIOUS
<1>2. /\ Excess(q, cap) \in 0..(Len(q) - 1) /\ Len(q) - Excess(q, cap) <= cap
      /\ Merges(q, cap) = Excess(q, cap)
  BY <1>1 DEF Excess, Merges
<1>3. CASE drop = "summarize"
  <2> DEFINE k == Merges(q, cap)
             t == SubSeq(q, k + 2, Len(q))
  <2>1. t \in Seq(Int) /\ Len(t) = Len(q) - k - 1
    BY <1>1, <1>2, SMTT(30)
  <2>2. <<Head(q)>> \in Seq(Int) /\ Len(<<Head(q)>>) = 1
    OBVIOUS
  <2>3. Trimmed(q, cap, drop) = <<Head(q)>> \o t
    BY <1>3 DEF Trimmed
  <2> HIDE DEF t
  <2>4. Len(<<Head(q)>> \o t) = 1 + Len(t)
    BY <2>1, <2>2, Concatenation, Zenon
  <2> QED
    BY <1>1, <1>2, <2>1, <2>3, <2>4
<1>4. CASE drop = "drop-oldest"
  <2>1. Trimmed(q, cap, drop) = SubSeq(q, Excess(q, cap) + 1, Len(q))
    BY <1>4 DEF Trimmed
  <2>2. Len(SubSeq(q, Excess(q, cap) + 1, Len(q))) = Len(q) - Excess(q, cap)
    BY <1>1, <1>2
  <2> QED
    BY <1>2, <2>1, <2>2
<1>5. CASE drop = "reject"
  <2>1. Trimmed(q, cap, drop) = SubSeq(q, 1, Len(q) - Excess(q, cap))
    BY <1>5 DEF Trimmed
  <2>2. Len(SubSeq(q, 1, Len(q) - Excess(q, cap))) = Len(q) - Excess(q, cap)
    BY <1>1, <1>2
  <2> QED
    BY <1>2, <2>1, <2>2
<1> QED
  BY <1>3, <1>4, <1>5 DEF DropPolicies

\* A submission that does not steer leaves at most cap commands in its lane
\* (SessionLane::Enqueue and ApplyCapOverflow), whatever was there before.
THEOREM CapAlwaysEnforced == Spec => CapEnforced
<1> DEFINE Within == \A s \in Sessions, c \in Commands, m \in Modes :
                        SubmitQueued(s, c, m) /\ GetLane(s).cap >= 1
                            => Len(pending'[s]) <= GetLane(s).cap
<1>1. ASSUME TypeOK, NEW s \in Sessions, NEW c \in Commands, NEW m \in Modes,
             SubmitQueued(s, c, m), GetLane(s).cap >= 1
      PROVE  Len(pending'[s]) <= GetLane(s).cap
  <2> DEFINE md   == EffectiveMode(s, m)
             hit  == Interrupts(md) /\ active[s] # None
             kept == IF hit THEN KeptByInterrupt(pending[s]) ELSE pending[s]
             more == Append(kept, c)
             cap  == GetLane(s).cap
             drop == GetLane(s).drop
  <2>1. pending'[s] = Trimmed(more, cap, drop)
    BY <1>1 DEF SubmitQueued, Arrive, TypeOK
  <2>2. pending[s] \in Seq(Int) /\ c \in Int
    BY <1>1, QueueOfInts, QueueAssumption DEF Commands
  <2>3. cap \in Int /\ drop \in DropPolicies
    BY <1>1, GetLaneType DEF QueueSettings
  <2> HIDE DEF hit
  <2>4. kept \in Seq(Int)
    BY <2>2, KeptType
  <2> HIDE DEF kept
  <2>5. more \in Seq(Int) /\ more # <<>>
    BY <2>2, <2>4, AppendType, Zenon
  <2>6. cap >= 1
    BY <1>1
  <2> HIDE DEF more, cap, drop
  <2>7. Len(Trimmed(more, cap, drop)) <= cap
    BY <2>3, <2>5, <2>6, TrimmedLength, Zenon
  <2> QED
    BY <2>1, <2>7 DEF cap
<1>2. TypeOK /\ [Next]_vars => [Within]_vars
  BY <1>1
<1> QED
  BY <1>2, TypeCorrect, PTL DEF Spec, CapEnforced

(***************************************************************************)
(* The texts.  A merge takes words only from commands that leave the       *)
(* queue, and a new command's words are nobody's yet.                      *)
(***************************************************************************)

Carrying == Waiting \cup Occupied \cup {"released", "finished"}

TextInv == /\ \A c \in Commands : stage[c] = "new" => text[c] = {c}
           /\ \A c \in Commands : stage[c] # "new" => \A d \in text[c] : stage[d] # "new"
           /\ TextsDisjoint

LEMMA TextInit == Init => TextInv
  BY DEF Init, TextInv, TextsDisjoint, InStage, Waiting, Occupied

\* What overflows, and what an interrupt removes, was pending or has just come.
LEMMA ArriveStages ==
    ASSUME LaneInv, NEW s \in Sessions, NEW c \in Commands, NEW m, NEW kept, NEW left,
           Fresh(c), Arrive(s, c, m, kept, left), ToSet(kept) \subseteq ToSet(pending[s]),
           NEW d \in Commands
    PROVE  /\ stage[c] = "new"
           /\ stage'[d] = "new" <=> stage[d] = "new" /\ d # c
           /\ stage'[d] \in Carrying => stage[d] \in Carrying \/ d = c
           /\ d \in (ToSet(kept) \cup {c}) \ ToSet(left) =>
                stage'[d] \notin Carrying /\ (stage[d] = "pending" \/ d = c)
<1>1. stage[c] = "new"
  BY FreshIsNew
<1>2. \A e \in ToSet(pending[s]) : stage[e] = "pending"
  BY LaneFacts
<1>3. stage'[d] = IF d \in (ToSet(kept) \cup {c}) \ ToSet(left) THEN "overflowed"
                  ELSE IF d \in ToSet(pending[s]) \ ToSet(kept) THEN "interrupted"
                  ELSE IF d = c THEN "pending" ELSE stage[d]
  BY DEF Arrive
<1> QED
  BY <1>1, <1>2, <1>3 DEF Carrying, Waiting, Occupied

LEMMA ArriveTexts ==
    ASSUME LaneInv, TextInv, NEW s \in Sessions, NEW c \in Commands, NEW m, NEW kept,
           NEW left \in Seq(Commands), GetLane(s).drop = "summarize" => left # <<>>,
           Fresh(c), Arrive(s, c, m, kept, left), ToSet(kept) \subseteq ToSet(pending[s]),
           ToSet(left) \subseteq ToSet(kept) \cup {c}
    PROVE  TextInv'
<1> DEFINE over == (ToSet(kept) \cup {c}) \ ToSet(left)
           Bearer(d) == stage[d] \in Carrying \/ d = c
<1>1. /\ stage[c] = "new"
      /\ \A d \in Commands : stage'[d] = "new" <=> stage[d] = "new" /\ d # c
      /\ \A d \in Commands : stage'[d] \in Carrying => Bearer(d)
      /\ \A d \in over \cap Commands : stage'[d] \notin Carrying /\ (stage[d] = "pending" \/ d = c)
  BY ArriveStages
<1>2. ToSet(kept) \subseteq Commands /\ \A d \in ToSet(kept) : stage[d] = "pending"
  BY LaneFacts
<1>3. over \subseteq Commands /\ \A d \in over : Bearer(d)
  BY <1>2 DEF Carrying, Waiting
<1>4. \A d \in Commands : text[d] \subseteq Commands
  BY DEF LaneInv, TypeOK
<1>5. ASSUME NEW a \in Commands, NEW b \in Commands, Bearer(a), Bearer(b), a # b
      PROVE  text[a] \cap text[b] = {}
  <2>1. text[c] = {c}
    BY <1>1 DEF TextInv
  <2>2. ASSUME NEW d \in Commands, stage[d] \in Carrying
        PROVE  c \notin text[d]
    BY <1>1, <2>2 DEF TextInv, Carrying, Waiting, Occupied
  <2>3. CASE stage[a] \in Carrying /\ stage[b] \in Carrying
    BY <1>5, <2>3 DEF TextInv, TextsDisjoint, InStage, Carrying
  <2> QED
    BY <1>5, <2>1, <2>2, <2>3
<1>6. ASSUME NEW d \in Commands
      PROVE  \/ text'[d] = text[d]
             \/ /\ d = Head(left) /\ d \in ToSet(left)
                /\ text'[d] = text[d] \cup Texts(over)
  <2>1. CASE over # {} /\ GetLane(s).drop = "summarize"
    <3>1. text' = [text EXCEPT ![Head(left)] = @ \cup Texts(over)]
      BY <2>1 DEF Arrive, Merged
    <3>2. left # <<>>
      BY <2>1
    <3>3. Head(left) \in ToSet(left)
      BY <3>2 DEF ToSet
    <3> QED
      BY <3>1, <3>3 DEF LaneInv, TypeOK
  <2>2. CASE ~(over # {} /\ GetLane(s).drop = "summarize")
    BY <2>2 DEF Arrive
  <2> QED
    BY <2>1, <2>2
<1> HIDE DEF over
<1>7. ASSUME NEW a \in Commands, NEW b \in Commands, a # b,
             stage'[a] \in Carrying, stage'[b] \in Carrying
      PROVE  text'[a] \cap text'[b] = {}
  <2>1. Bearer(a) /\ Bearer(b) /\ a \notin over /\ b \notin over
    BY <1>1, <1>3, <1>7
  <2> HIDE DEF Bearer
  <2>2. text[a] \cap text[b] = {}
    BY <1>5, <1>7, <2>1
  <2>3. text[a] \cap Texts(over) = {} /\ text[b] \cap Texts(over) = {}
    BY <1>3, <1>5, <2>1 DEF Texts
  <2> QED
    BY <1>6, <1>7, <2>2, <2>3
<1>8. ASSUME NEW d \in Commands, stage'[d] = "new"
      PROVE  text'[d] = {d}
  <2>1. stage[d] = "new" /\ d # c
    BY <1>1, <1>8
  <2>2. d \notin ToSet(left)
    BY <1>2, <2>1
  <2> QED
    BY <1>6, <2>1, <2>2 DEF TextInv
<1>9. ASSUME NEW d \in Commands, stage'[d] # "new", NEW e \in text'[d]
      PROVE  stage'[e] # "new"
  <2>1. \A f \in Commands : Bearer(f) => \A g \in text[f] : stage'[g] # "new"
    BY <1>1, <1>4 DEF TextInv, Carrying, Waiting, Occupied
  <2>2. CASE e \in text[d]
    BY <1>1, <1>4, <1>9, <2>1, <2>2 DEF TextInv
  <2>3. CASE e \in Texts(over)
    BY <1>3, <2>1, <2>3 DEF Texts
  <2> QED
    BY <1>6, <1>9, <2>2, <2>3
<1> QED
  BY <1>7, <1>8, <1>9 DEF TextInv, TextsDisjoint, InStage, Carrying

\* The two kinds of Submit as arrivals, with what the lane keeps of them.
LEMMA SubmitArrives ==
    ASSUME LaneInv, NEW s \in Sessions, NEW c \in Commands, NEW m \in Modes,
           SubmitSteering(s, c, m) \/ SubmitQueued(s, c, m)
    PROVE  \E md, kept : \E left \in Seq(Commands) :
              /\ Fresh(c) /\ Arrive(s, c, md, kept, left)
              /\ GetLane(s).drop = "summarize" => left # <<>>
              /\ ToSet(kept) \subseteq ToSet(pending[s])
              /\ ToSet(left) \subseteq ToSet(kept) \cup {c}
<1>1. /\ pending[s] \in Seq(Int) /\ c \in Int /\ Ordered(pending[s])
      /\ pending[s] \in Seq(Commands)
  BY QueueOfInts, LaneFacts, QueueAssumption DEF LaneInv, Commands
<1>2. CASE SubmitSteering(s, c, m)
  <2>1. Append(pending[s], c) \in Seq(Commands) /\ Append(pending[s], c) # <<>>
    BY <1>1, AppendType, Zenon
  <2>2. \A y \in ToSet(pending[s]) : y < c
    BY <1>2, OldIsSmaller DEF SubmitSteering
  <2>3. ToSet(Append(pending[s], c)) = ToSet(pending[s]) \cup {c}
    BY <1>1, <2>2, AppendOrdered, Zenon
  <2>4. /\ Fresh(c)
        /\ Arrive(s, c, EffectiveMode(s, m), pending[s], Append(pending[s], c))
    BY <1>2 DEF SubmitSteering
  <2> QED
    BY <2>1, <2>3, <2>4
<1>3. CASE SubmitQueued(s, c, m)
  <2> DEFINE md   == EffectiveMode(s, m)
             hit  == Interrupts(md) /\ active[s] # None
             kept == IF hit THEN KeptByInterrupt(pending[s]) ELSE pending[s]
             more == Append(kept, c)
             cap  == GetLane(s).cap
             drop == GetLane(s).drop
             left == Trimmed(more, cap, drop)
  <2>1. Fresh(c) /\ Arrive(s, c, md, kept, left)
    BY <1>3 DEF SubmitQueued
  <2> HIDE DEF md, hit
  <2>2. /\ kept \in Seq(Int) /\ kept \in Seq(Commands) /\ Ordered(kept)
        /\ ToSet(kept) \subseteq ToSet(pending[s])
    BY <1>1, KeptType, KeptOrdered
  <2> HIDE DEF kept
  <2>3. \A y \in ToSet(kept) : y < c
    BY <2>1, <2>2, OldIsSmaller
  <2>4. Ordered(more) /\ ToSet(more) = ToSet(kept) \cup {c}
    BY <1>1, <2>2, <2>3, AppendOrdered, Zenon
  <2>5. more \in Seq(Commands) /\ more \in Seq(Int) /\ more # <<>>
    BY <1>1, <2>2, AppendType, Zenon
  <2>6. cap \in Int /\ drop \in DropPolicies
    BY GetLaneType DEF LaneInv, QueueSettings
  <2> HIDE DEF more, cap, drop
  <2>7. ToSet(left) \subseteq ToSet(more)
    BY <2>4, <2>5, <2>6, TrimmedOrdered, Zenon
  <2>8. left \in Seq(Commands)
    BY <2>5, <2>6, TrimmedType, Zenon
  <2>9. drop = "summarize" => left # <<>>
    BY <2>5, <2>6, SummaryNotEmpty
  <2> HIDE DEF left
  <2> QED
    BY <2>1, <2>2, <2>4, <2>7, <2>8, <2>9 DEF drop
<1> QED
  BY <1>2, <1>3

\* No other step brings a command into the queue or touches a text.
LEMMA OtherStepsCarry ==
    ASSUME LaneInv, [Next]_vars,
           ~\E s \in Sessions, c \in Commands, m \in Modes :
                SubmitSteering(s, c, m) \/ SubmitQueued(s, c, m),
           NEW d \in Commands
    PROVE  stage'[d] = stage[d] \/ (stage[d] \in Carrying /\ stage'[d] # "new")
<1>1. ASSUME NEW S \in SUBSET Sessions, DispatchPass(S)
      PROVE  stage'[d] = stage[d] \/ (stage[d] \in Carrying /\ stage'[d] # "new")
  <2> DEFINE drained == {s \in S : Drains(Oldest(s), Tail(pending[s]))}
             batched == {s \in drained : mode[Oldest(s)] = "collect"}
  <2>1. ASSUME NEW s \in S
        PROVE  /\ d = Oldest(s) => stage[d] = "pending"
               /\ d \in ToSet(Tail(pending[s])) => stage[d] = "pending"
    <3>1. pending[s] # <<>> /\ s \in Sessions
      BY <1>1 DEF DispatchPass, Chosen, Eligible
    <3>2. pending[s] \in Seq(Int) /\ Ordered(pending[s])
      BY <3>1, QueueOfInts, LaneFacts DEF LaneInv
    <3>3. /\ Oldest(s) \in ToSet(pending[s])
          /\ ToSet(Tail(pending[s])) = ToSet(pending[s]) \ {Oldest(s)}
      BY <3>1, <3>2, HeadOldest DEF Oldest
    <3> QED
      BY <3>1, <3>3, LaneFacts
  <2>2. stage' = [c \in Commands |->
                IF \E s \in S : c = Oldest(s) THEN "activated"
                ELSE IF \E s \in batched : c \in ToSet(Tail(pending[s])) THEN "collected"
                ELSE IF \E s \in drained : c \in ToSet(Tail(pending[s])) THEN "discarded"
                ELSE stage[c]]
    BY <1>1 DEF DispatchPass
  <2>3. drained \subseteq S /\ batched \subseteq S
    OBVIOUS
  <2> HIDE DEF drained, batched
  <2> QED
    BY <2>1, <2>2, <2>3 DEF Carrying, Waiting
<1>2. ASSUME NEW c \in Commands, Cancel(c)
      PROVE  stage'[d] = stage[d] \/ (stage[d] \in Carrying /\ stage'[d] # "new")
  <2>1. home[c] \in Sessions
    BY <1>2, LaneFacts DEF Cancel
  <2>2. c \in ToSet(pending[home[c]]) => stage[c] = "pending"
    BY <2>1, LaneFacts
  <2>3. UNCHANGED stage \/ (c \in ToSet(pending[home[c]]) /\ stage' = [stage EXCEPT ![c] = "cancelled"])
    BY <1>2 DEF Cancel, ToSet
  <2> QED
    BY <2>2, <2>3 DEF Carrying, Waiting, LaneInv, TypeOK
<1>3. ASSUME NEW s \in Abortable, AbortSession(s)
      PROVE  stage'[d] = stage[d] \/ (stage[d] \in Carrying /\ stage'[d] # "new")
  <2>1. s \in Sessions
    BY QueueAssumption
  <2>2. stage'[d] = stage[d] \/ (d \in ToSet(pending[s]) /\ stage'[d] = "interrupted")
    BY <1>3 DEF AbortSession, Stamp
  <2> QED
    BY <2>1, <2>2, LaneFacts DEF Carrying, Waiting
<1>4. ASSUME NEW c \in Commands, SpawnWorker(c) \/ Worker(c)
      PROVE  stage'[d] = stage[d] \/ (stage[d] \in Carrying /\ stage'[d] # "new")
  BY <1>4 DEF SpawnWorker, Worker, StartRun, FinishRun, Release, EndWorker, Step, Carrying,
              Occupied, LaneInv, TypeOK
<1>5. \/ \E S \in SUBSET Sessions : DispatchPass(S)
      \/ \E c \in Commands : Cancel(c)
      \/ \E s \in Abortable : AbortSession(s)
      \/ \E c \in Commands : SpawnWorker(c) \/ Worker(c)
      \/ UNCHANGED stage
  BY DEF Next, Caller, Dispatcher, Owner, ConfigureSession, SetConfig, Ripen,
         DispatcherExit, Start, Stop, TakeWorkers, StopReturns, vars
<1> QED
  BY <1>1, <1>2, <1>3, <1>4, <1>5

LEMMA OtherStepsTexts ==
    ASSUME [Next]_vars,
           ~\E s \in Sessions, c \in Commands, m \in Modes :
                SubmitSteering(s, c, m) \/ SubmitQueued(s, c, m)
    PROVE  UNCHANGED <<text, home>>
<1>1. CASE \/ \E c \in Commands : Cancel(c)
           \/ \E s \in Abortable : AbortSession(s)
           \/ \E s \in Sessions, lane \in LaneSettings : ConfigureSession(s, lane)
           \/ \E cfg \in Configs : SetConfig(cfg)
           \/ \E s \in Sessions : Ripen(s)
  BY <1>1 DEF Cancel, AbortSession, ConfigureSession, SetConfig, Ripen, commandVars
<1>2. CASE Dispatcher
  BY <1>2 DEF Dispatcher, DispatchPass, SpawnWorker, DispatcherExit, commandVars
<1>3. CASE \E c \in Commands : Worker(c)
  BY <1>3 DEF Worker, StartRun, FinishRun, Release, EndWorker, commandVars
<1>4. CASE Owner \/ UNCHANGED vars
  BY <1>4 DEF Owner, Start, Stop, TakeWorkers, StopReturns, vars, commandVars
<1> QED
  BY <1>1, <1>2, <1>3, <1>4 DEF Next, Caller

LEMMA TextNext == LaneInv /\ TextInv /\ [Next]_vars => TextInv'
<1> SUFFICES ASSUME LaneInv, TextInv, [Next]_vars PROVE TextInv'
  OBVIOUS
<1>1. CASE \E s \in Sessions, c \in Commands, m \in Modes :
                SubmitSteering(s, c, m) \/ SubmitQueued(s, c, m)
  BY <1>1, SubmitArrives, ArriveTexts
<1>2. CASE ~\E s \in Sessions, c \in Commands, m \in Modes :
                SubmitSteering(s, c, m) \/ SubmitQueued(s, c, m)
  <2>1. text' = text
    BY <1>2, OtherStepsTexts
  <2>2. \A d \in Commands : /\ stage'[d] = "new" <=> stage[d] = "new"
                            /\ stage'[d] \in Carrying => stage[d] \in Carrying
    BY <1>2, OtherStepsCarry DEF Carrying, Waiting, Occupied
  <2>3. \A c \in Commands : text[c] \subseteq Commands
    BY DEF LaneInv, TypeOK
  <2> QED
    BY <2>1, <2>2, <2>3 DEF TextInv, TextsDisjoint, InStage, Carrying
<1> QED
  BY <1>1, <1>2

\* No two commands that wait, run or ran carry the same words, however often
\* "summarize" has merged texts (ApplyCapOverflow).
THEOREM TextsAlwaysDisjoint == Spec => []TextsDisjoint
<1>1. TextInv => TextsDisjoint
  BY DEF TextInv
<1> QED
  BY <1>1, TextInit, TextNext, LaneInvAlways, PTL DEF Spec

(***************************************************************************)
(* Overlap.  An interrupt frees the lane of a command that runs on; each   *)
(* one that was so set loose is paid for by one interrupt.                 *)
(***************************************************************************)

LEMMA RunningFinite ==
    ASSUME NEW s
    PROVE  IsFiniteSet(Running(s)) /\ Cardinality(Running(s)) \in Nat
<1>1. Running(s) \subseteq Commands
  BY DEF Running, InStage
<1> QED
  BY <1>1, CommandsFinite

\* A pass adds its command to a session that had none active.
LEMMA PassRunning ==
    ASSUME LaneInv, NEW S \in SUBSET Sessions, DispatchPass(S), NEW s \in Sessions
    PROVE  Running(s)' = IF s \in S THEN Running(s) \cup {Oldest(s)} ELSE Running(s)
<1> DEFINE drained == {r \in S : Drains(Oldest(r), Tail(pending[r]))}
           batched == {r \in drained : mode[Oldest(r)] = "collect"}
<1>1. ASSUME NEW r \in S
      PROVE  /\ Oldest(r) \in Commands /\ stage[Oldest(r)] = "pending" /\ home[Oldest(r)] = r
             /\ \A d \in ToSet(Tail(pending[r])) : stage[d] = "pending"
  <2>1. pending[r] # <<>> /\ r \in Sessions
    BY DEF DispatchPass, Chosen, Eligible
  <2>2. pending[r] \in Seq(Int) /\ Ordered(pending[r])
    BY <2>1, QueueOfInts, LaneFacts DEF LaneInv
  <2>3. /\ Oldest(r) \in ToSet(pending[r])
        /\ ToSet(Tail(pending[r])) = ToSet(pending[r]) \ {Oldest(r)}
    BY <2>1, <2>2, HeadOldest DEF Oldest
  <2> QED
    BY <2>1, <2>3, LaneFacts
<1>2. /\ stage' = [c \in Commands |->
                IF \E r \in S : c = Oldest(r) THEN "activated"
                ELSE IF \E r \in batched : c \in ToSet(Tail(pending[r])) THEN "collected"
                ELSE IF \E r \in drained : c \in ToSet(Tail(pending[r])) THEN "discarded"
                ELSE stage[c]]
      /\ home' = home
  BY DEF DispatchPass
<1>3. drained \subseteq S /\ batched \subseteq S
  OBVIOUS
<1> HIDE DEF drained, batched
<1>4. ASSUME NEW d \in Commands
      PROVE  stage'[d] \in Occupied <=> stage[d] \in Occupied \/ \E r \in S : d = Oldest(r)
  <2>1. CASE \E r \in S : d = Oldest(r)
    BY <1>2, <2>1 DEF Occupied
  <2>2. CASE ~\E r \in S : d = Oldest(r)
    BY <1>1, <1>2, <1>3, <2>2 DEF Occupied
  <2> QED
    BY <2>1, <2>2
<1> QED
  BY <1>1, <1>2, <1>4 DEF Running, InStage

LEMMA ReleaseRunning ==
    ASSUME LaneInv, NEW c \in Commands, Release(c), NEW s \in Sessions
    PROVE  /\ c \in Running(home[c]) /\ home[c] \in Sessions
           /\ Running(s)' = IF s = home[c] THEN Running(s) \ {c} ELSE Running(s)
<1>1. /\ stage[c] = "answered" /\ stage' = [stage EXCEPT ![c] = "released"]
      /\ home' = home
  BY DEF Release, Step, commandVars
<1>2. home[c] \in Sessions
  BY <1>1, LaneFacts
<1> QED
  BY <1>1, <1>2 DEF Running, InStage, Occupied, LaneInv, TypeOK

LEMMA OtherStepsRunning ==
    ASSUME LaneInv, [Next]_vars,
           ~\E S \in SUBSET Sessions : DispatchPass(S),
           ~\E c \in Commands : Release(c),
           NEW s \in Sessions
    PROVE  Running(s)' = Running(s)
<1>1. \A d \in Commands : stage'[d] \in Occupied <=> stage[d] \in Occupied
  BY OtherStepsOccupied
<1>2. ASSUME NEW d \in Commands, stage[d] \in Occupied
      PROVE  home'[d] = home[d]
  <2>1. CASE \E r \in Sessions, c \in Commands, m \in Modes :
                SubmitSteering(r, c, m) \/ SubmitQueued(r, c, m)
    <3>1. PICK r \in Sessions, c \in Commands, m \in Modes :
                SubmitSteering(r, c, m) \/ SubmitQueued(r, c, m)
      BY <2>1
    <3>2. Fresh(c) /\ home' = [home EXCEPT ![c] = r]
      BY <3>1 DEF SubmitSteering, SubmitQueued, Arrive
    <3>3. d # c
      BY <1>2, <3>2, FreshIsNew DEF Occupied
    <3> QED
      BY <3>2, <3>3 DEF LaneInv, TypeOK
  <2>2. CASE ~\E r \in Sessions, c \in Commands, m \in Modes :
                SubmitSteering(r, c, m) \/ SubmitQueued(r, c, m)
    BY <2>2, OtherStepsTexts
  <2> QED
    BY <2>1, <2>2
<1> QED
  BY <1>1, <1>2 DEF Running, InStage

\* Other steps take a lane from its command only by an interrupt, which counts.
LEMMA LaneLoss ==
    ASSUME TypeOK, [Next]_vars,
           ~\E S \in SUBSET Sessions : DispatchPass(S),
           ~\E c \in Commands : Release(c),
           NEW s \in Sessions
    PROVE  \/ active'[s] = active[s] /\ interrupts'[s] = interrupts[s]
           \/ active[s] # None /\ active'[s] = None /\ interrupts'[s] = interrupts[s] + 1
<1>1. ASSUME NEW r \in Sessions, NEW c \in Commands, NEW m \in Modes, SubmitQueued(r, c, m)
      PROVE  \/ UNCHANGED <<active, interrupts>>
             \/ /\ active[r] # None
                /\ active' = [active EXCEPT ![r] = None]
                /\ interrupts' = [interrupts EXCEPT ![r] = @ + 1]
  BY <1>1 DEF SubmitQueued
<1>2. ASSUME NEW r \in Abortable, AbortSession(r)
      PROVE  \/ UNCHANGED <<active, interrupts>>
             \/ /\ active[r] # None
                /\ active' = [active EXCEPT ![r] = None]
                /\ interrupts' = [interrupts EXCEPT ![r] = @ + 1]
  <2>1. r \in Sessions
    BY QueueAssumption
  <2>2. CASE active[r] = None
    BY <1>2, <2>1, <2>2 DEF AbortSession, TypeOK
  <2>3. CASE active[r] # None
    BY <1>2, <2>3 DEF AbortSession
  <2> QED
    BY <2>2, <2>3
<1>3. ASSUME \/ \E r \in Sessions, c \in Commands, m \in Modes : SubmitSteering(r, c, m)
             \/ \E c \in Commands : Cancel(c)
             \/ \E r \in Sessions, lane \in LaneSettings : ConfigureSession(r, lane)
             \/ \E cfg \in Configs : SetConfig(cfg)
             \/ \E r \in Sessions : Ripen(r)
      PROVE  UNCHANGED <<active, interrupts>>
  BY <1>3 DEF SubmitSteering, Cancel, ConfigureSession, SetConfig, Ripen, historyVars
<1>4. ASSUME (\E c \in Commands : SpawnWorker(c)) \/ DispatcherExit
      PROVE  UNCHANGED <<active, interrupts>>
  BY <1>4 DEF SpawnWorker, DispatcherExit, queueVars, historyVars
<1>5. ASSUME \E c \in Commands : StartRun(c) \/ FinishRun(c) \/ EndWorker(c)
      PROVE  UNCHANGED <<active, interrupts>>
  BY <1>5 DEF StartRun, FinishRun, EndWorker, queueVars, historyVars
<1>6. ASSUME Owner \/ UNCHANGED vars
      PROVE  UNCHANGED <<active, interrupts>>
  BY <1>6 DEF Owner, Start, Stop, TakeWorkers, StopReturns, vars, queueVars, historyVars
<1>7. \/ UNCHANGED <<active, interrupts>>
      \/ \E r \in Sessions : /\ active[r] # None
                             /\ active' = [active EXCEPT ![r] = None]
                             /\ interrupts' = [interrupts EXCEPT ![r] = @ + 1]
  <2>1. CASE \E r \in Sessions, c \in Commands, m \in Modes : SubmitQueued(r, c, m)
    BY <1>1, <2>1
  <2>2. CASE \E r \in Abortable : AbortSession(r)
    BY <1>2, <2>2, QueueAssumption
  <2>3. CASE /\ ~\E r \in Sessions, c \in Commands, m \in Modes : SubmitQueued(r, c, m)
             /\ ~\E r \in Abortable : AbortSession(r)
    <3>1. CASE Caller \/ \E r \in Sessions : Ripen(r)
      BY <1>3, <2>3, <3>1 DEF Caller
    <3>2. CASE Dispatcher
      BY <1>4, <3>2 DEF Dispatcher
    <3>3. CASE \E c \in Commands : Worker(c)
      BY <1>5, <3>3 DEF Worker
    <3>4. CASE Owner \/ UNCHANGED vars
      BY <1>6, <3>4
    <3> QED
      BY <3>1, <3>2, <3>3, <3>4 DEF Next
  <2> QED
    BY <2>1, <2>2, <2>3
<1> QED
  BY <1>7 DEF TypeOK

LEMMA OverlapInit == Init => OverlapBound
<1> SUFFICES ASSUME Init, NEW s \in Sessions
             PROVE  Cardinality(Running(s))
                        <= (IF active[s] = None THEN 0 ELSE 1) + interrupts[s]
  BY DEF OverlapBound
<1>1. Running(s) = {}
  BY DEF Init, Running, InStage, Occupied
<1> QED
  BY <1>1, FS_EmptySet DEF Init

LEMMA OverlapNext == LaneInv /\ OverlapBound /\ [Next]_vars => OverlapBound'
<1> SUFFICES ASSUME LaneInv, OverlapBound, [Next]_vars, NEW s \in Sessions
             PROVE  Cardinality(Running(s)')
                        <= (IF active'[s] = None THEN 0 ELSE 1) + interrupts'[s]
  BY DEF OverlapBound
<1>1. /\ Cardinality(Running(s)) <= (IF active[s] = None THEN 0 ELSE 1) + interrupts[s]
      /\ IsFiniteSet(Running(s)) /\ Cardinality(Running(s)) \in Nat
      /\ interrupts[s] \in Nat
  BY RunningFinite DEF OverlapBound, LaneInv, TypeOK
<1>2. ASSUME NEW S \in SUBSET Sessions, DispatchPass(S)
      PROVE  Cardinality(Running(s)')
                <= (IF active'[s] = None THEN 0 ELSE 1) + interrupts'[s]
  <2>1. Running(s)' = IF s \in S THEN Running(s) \cup {Oldest(s)} ELSE Running(s)
    BY <1>2, PassRunning
  <2>2. /\ active'[s] = IF s \in S THEN Oldest(s) ELSE active[s]
        /\ interrupts'[s] = interrupts[s]
    BY <1>2 DEF DispatchPass, historyVars
  <2>3. CASE s \in S
    <3>1. active[s] = None /\ pending[s] # <<>>
      BY <1>2, <2>3 DEF DispatchPass, Chosen, Eligible
    <3>2. Oldest(s) \in Commands
      BY <3>1, HeadType DEF Oldest, LaneInv, TypeOK
    <3>3. Oldest(s) # None
      BY <3>2, QueueAssumption DEF Commands, None
    <3>4. Cardinality(Running(s) \cup {Oldest(s)}) <= Cardinality(Running(s)) + 1
      <4>1. CASE Oldest(s) \in Running(s)
        <5>1. Running(s) \cup {Oldest(s)} = Running(s)
          BY <4>1
        <5> QED
          BY <1>1, <5>1
      <4>2. CASE Oldest(s) \notin Running(s)
        <5>1. Cardinality(Running(s) \cup {Oldest(s)}) = Cardinality(Running(s)) + 1
          BY <1>1, <4>2, FS_AddElement
        <5> QED
          BY <1>1, <5>1
      <4> QED
        BY <4>1, <4>2
    <3>5. Cardinality(Running(s)') \in Nat
      <4>1. IsFiniteSet(Running(s) \cup {Oldest(s)})
        BY <1>1, FS_AddElement
      <4>2. Cardinality(Running(s) \cup {Oldest(s)}) \in Nat
        BY <4>1, FS_CardinalityType
      <4> QED
        BY <2>1, <2>3, <4>2
    <3> QED
      BY <1>1, <2>1, <2>2, <2>3, <3>1, <3>3, <3>4, <3>5
  <2>4. CASE s \notin S
    BY <1>1, <2>1, <2>2, <2>4
  <2> QED
    BY <2>3, <2>4
<1>3. ASSUME NEW c \in Commands, Release(c)
      PROVE  Cardinality(Running(s)')
                <= (IF active'[s] = None THEN 0 ELSE 1) + interrupts'[s]
  <2>1. /\ c \in Running(home[c]) /\ home[c] \in Sessions
        /\ Running(s)' = IF s = home[c] THEN Running(s) \ {c} ELSE Running(s)
    BY <1>3, ReleaseRunning
  <2>2. /\ active' = IF HasLane(home[c]) THEN [active EXCEPT ![home[c]] = None] ELSE active
        /\ interrupts' = interrupts
    BY <1>3 DEF Release, historyVars
  <2>3. CASE s = home[c]
    <3>1. active'[s] = None
      BY <2>2, <2>3, LaneFacts DEF LaneInv, TypeOK
    <3>2. Cardinality(Running(s) \ {c}) = Cardinality(Running(s)) - 1
      BY <1>1, <2>1, <2>3, FS_RemoveElement
    <3> QED
      BY <1>1, <2>1, <2>2, <2>3, <3>1, <3>2
  <2>4. CASE s # home[c]
    <3>1. active'[s] = active[s]
      BY <2>1, <2>2, <2>4 DEF LaneInv, TypeOK
    <3> QED
      BY <1>1, <2>1, <2>2, <2>4, <3>1
  <2> QED
    BY <2>3, <2>4
<1>4. CASE /\ ~\E S \in SUBSET Sessions : DispatchPass(S)
           /\ ~\E c \in Commands : Release(c)
  <2>1. Running(s)' = Running(s)
    BY <1>4, OtherStepsRunning
  <2>2. \/ active'[s] = active[s] /\ interrupts'[s] = interrupts[s]
        \/ active[s] # None /\ active'[s] = None /\ interrupts'[s] = interrupts[s] + 1
    BY <1>4, LaneLoss DEF LaneInv
  <2> QED
    BY <1>1, <2>1, <2>2
<1> QED
  BY <1>2, <1>3, <1>4

\* The runs of a session outnumber its active command by at most the interrupts
\* it has had (InterruptActive against CompleteActive), and so never when there
\* was none.
THEOREM OverlapAlwaysBound == Spec => []OverlapBound
  BY OverlapInit, OverlapNext, LaneInvAlways, PTL DEF Spec

(***************************************************************************)
(* The refinement.  A queue nobody interrupts runs one command per session *)
(* at most, and that one is the active command of its lane.                *)
(***************************************************************************)

UninterruptedInv ==
    /\ interrupts = [s \in Sessions |-> 0]
    /\ config.mode # "interrupt"
    /\ \A s \in Sessions : settings[s].mode # "interrupt"

LEMMA UninterruptedInit == ASSUME Uninterrupted PROVE Init => UninterruptedInv
  BY DEF Uninterrupted, Init, UninterruptedInv, Absent

LEMMA UninterruptedNext ==
    ASSUME Uninterrupted
    PROVE  TypeOK /\ UninterruptedInv /\ [Next]_vars => UninterruptedInv'
<1> SUFFICES ASSUME TypeOK, UninterruptedInv, [Next]_vars PROVE UninterruptedInv'
  OBVIOUS
<1>1. \A s \in Sessions : GetLane(s).mode # "interrupt"
  BY DEF GetLane, UninterruptedInv
<1>2. ASSUME NEW s \in Sessions, NEW c \in Commands, NEW m \in Modes,
             SubmitSteering(s, c, m) \/ SubmitQueued(s, c, m)
      PROVE  UninterruptedInv'
  <2>1. EffectiveMode(s, m) # "interrupt"
    BY <1>1, <1>2 DEF EffectiveMode, Uninterrupted
  <2>2. interrupts' = interrupts
    BY <1>2, <2>1 DEF SubmitSteering, SubmitQueued, Interrupts
  <2>3. settings' = [settings EXCEPT ![s] = GetLane(s)] /\ config' = config
    BY <1>2 DEF SubmitSteering, SubmitQueued, Arrive
  <2> QED
    BY <1>1, <2>2, <2>3 DEF UninterruptedInv, TypeOK
<1>3. ASSUME NEW c \in Commands, Cancel(c)
      PROVE  UninterruptedInv'
  <2>1. /\ settings' = [settings EXCEPT ![home[c]] = GetLane(home[c])]
        /\ config' = config /\ interrupts' = interrupts
    BY <1>3 DEF Cancel, historyVars
  <2> QED
    BY <1>1, <2>1 DEF UninterruptedInv, TypeOK
<1>4. ASSUME NEW s \in Sessions, NEW lane \in LaneSettings, ConfigureSession(s, lane)
      PROVE  UninterruptedInv'
  BY <1>4 DEF ConfigureSession, UninterruptedInv, Uninterrupted, historyVars, TypeOK
<1>5. ASSUME NEW cfg \in Configs, SetConfig(cfg)
      PROVE  UninterruptedInv'
  BY <1>5 DEF SetConfig, UninterruptedInv, Uninterrupted, historyVars
<1>6. ASSUME NEW S \in SUBSET Sessions, DispatchPass(S)
      PROVE  UninterruptedInv'
  BY <1>6 DEF DispatchPass, UninterruptedInv, historyVars, Absent
<1>7. CASE \/ \E s \in Sessions : Ripen(s)
           \/ \E c \in Commands : SpawnWorker(c)
           \/ DispatcherExit
  BY <1>7 DEF Ripen, SpawnWorker, DispatcherExit, UninterruptedInv, queueVars, historyVars
<1>8. CASE \E c \in Commands : Worker(c)
  BY <1>8 DEF Worker, StartRun, FinishRun, Release, EndWorker, UninterruptedInv, queueVars,
              historyVars
<1>9. CASE Owner \/ UNCHANGED vars
  BY <1>9 DEF Owner, Start, Stop, TakeWorkers, StopReturns, vars, UninterruptedInv, queueVars,
              historyVars
<1> QED
  BY <1>2, <1>3, <1>4, <1>5, <1>6, <1>7, <1>8, <1>9
  DEF Next, Caller, Dispatcher, Uninterrupted

LEMMA OneRun ==
    ASSUME LaneInv, OverlapBound, UninterruptedInv, NEW s \in Sessions
    PROVE  Running(s) = IF active[s] = None THEN {} ELSE {active[s]}
<1>1. /\ IsFiniteSet(Running(s)) /\ Cardinality(Running(s)) \in Nat
      /\ Cardinality(Running(s)) <= IF active[s] = None THEN 0 ELSE 1
  BY RunningFinite DEF OverlapBound, UninterruptedInv
<1>2. CASE active[s] = None
  BY <1>1, <1>2, FS_EmptySet
<1>3. CASE active[s] # None
  <2>1. active[s] \in Running(s)
    BY <1>3 DEF LaneInv, ActiveHasWorker
  <2>2. Cardinality(Running(s) \ {active[s]}) = Cardinality(Running(s)) - 1
    BY <1>1, <2>1, FS_RemoveElement
  <2>3. IsFiniteSet(Running(s) \ {active[s]})
    BY <1>1, FS_RemoveElement
  <2>4. Cardinality(Running(s) \ {active[s]}) \in Nat
    BY <2>3, FS_CardinalityType
  <2>5. Running(s) \ {active[s]} = {}
    BY <1>1, <1>3, <2>2, <2>3, <2>4, FS_EmptySet
  <2> QED
    BY <1>3, <2>1, <2>5
<1> QED
  BY <1>2, <1>3

\* The state of a SerialSessions that the queue maps to.
Used    == InStage(Stages \ {"new"})
Queued  == [s \in Sessions |-> ToSet(pending[s])]
Serving == [s \in Sessions |-> Running(s)]

Mapped == <<config.max_concurrent, Used, Queued, Serving>>

SerialInv == LaneInv /\ CountIsExact /\ OverlapBound /\ UninterruptedInv

LEMMA QueuedType == TypeOK => Queued \in [Sessions -> SUBSET Commands]
  BY ElementsType DEF Queued, TypeOK

\* What has been submitted stays submitted.
LEMMA UsedKept ==
    ASSUME LaneInv, TypeOK', [Next]_vars,
           ~\E s \in Sessions, c \in Commands, m \in Modes :
                SubmitSteering(s, c, m) \/ SubmitQueued(s, c, m)
    PROVE  Used' = Used
<1>1. \A d \in Commands : stage'[d] = "new" <=> stage[d] = "new"
  BY OtherStepsCarry DEF Carrying, Waiting, Occupied
<1> QED
  BY <1>1 DEF Used, InStage, LaneInv, TypeOK

\* A submission takes an id; no other step does.
LEMMA SubmitCounts ==
    ASSUME TypeOK, NEW s \in Sessions, NEW c \in Commands, NEW m \in Modes,
           SubmitSteering(s, c, m) \/ SubmitQueued(s, c, m)
    PROVE  submitted' # submitted
<1>1. submitted' = submitted + 1 /\ submitted \in Int
  BY QueueAssumption DEF SubmitSteering, SubmitQueued, Arrive, Fresh, TypeOK
<1> QED
  BY <1>1

LEMMA SubmitAccepts ==
    ASSUME SerialInv, TypeOK', [Next]_vars, NEW s \in Sessions, NEW c \in Commands, NEW m \in Modes,
           SubmitSteering(s, c, m) \/ SubmitQueued(s, c, m)
    PROVE  Serial!Accept(s, c)
<1>1. PICK md, kept : \E left \in Seq(Commands) :
              /\ Fresh(c) /\ Arrive(s, c, md, kept, left)
              /\ GetLane(s).drop = "summarize" => left # <<>>
              /\ ToSet(kept) \subseteq ToSet(pending[s])
              /\ ToSet(left) \subseteq ToSet(kept) \cup {c}
  BY SubmitArrives DEF SerialInv
<1>2. PICK left \in Seq(Commands) :
              /\ Fresh(c) /\ Arrive(s, c, md, kept, left)
              /\ ToSet(kept) \subseteq ToSet(pending[s])
              /\ ToSet(left) \subseteq ToSet(kept) \cup {c}
  BY <1>1
<1>3. /\ stage[c] = "new"
      /\ \A d \in Commands : stage'[d] = "new" <=> stage[d] = "new" /\ d # c
  BY <1>2, ArriveStages DEF SerialInv
<1>4. c \notin Used /\ Used' = Used \cup {c}
  BY <1>3 DEF Used, InStage, SerialInv, LaneInv, TypeOK
<1>5. config' = config /\ pending' = [pending EXCEPT ![s] = left]
  BY <1>2 DEF Arrive
<1>6. Queued' \in [Sessions -> SUBSET Commands]
  BY ElementsType DEF Queued, TypeOK
<1>7. \A r \in Sessions : Queued'[r] \subseteq Queued[r] \cup (IF r = s THEN {c} ELSE {})
  BY <1>2, <1>5 DEF Queued, SerialInv, LaneInv, TypeOK
<1>8. \A r \in Sessions : Running(r)' = Running(r)
  <2>1. submitted' # submitted
    BY SubmitCounts DEF SerialInv, LaneInv
  <2>2. /\ ~\E S \in SUBSET Sessions : DispatchPass(S)
        /\ ~\E d \in Commands : Release(d)
    BY <2>1 DEF DispatchPass, Release, commandVars
  <2> QED
    BY <2>1, <2>2, OtherStepsRunning DEF SerialInv
<1>9. Serving' = Serving
  BY <1>8 DEF Serving
<1> QED
  BY <1>4, <1>5, <1>6, <1>7, <1>9 DEF Serial!Accept, Used, Queued, Serving

\* The module instantiated as Serial counts as this one does.
LEMMA SameCardinality ==
    ASSUME NEW T
    PROVE  Serial!Cardinality(T) = Cardinality(T)
  BY DEF Cardinality, Serial!Cardinality

LEMMA PassBegins ==
    ASSUME SerialInv, TypeOK', CountIsExact', [Next]_vars, NEW S \in SUBSET Sessions, S # {},
           DispatchPass(S)
    PROVE  Serial!Begin(S)
<1> DEFINE first == [s \in S |-> Oldest(s)]
<1>1. ASSUME NEW s \in S
      PROVE  /\ Running(s) = {} /\ first[s] \in Commands /\ first[s] \in ToSet(pending[s])
             /\ \A d \in ToSet(pending[s]) : first[s] <= d
             /\ ToSet(Tail(pending[s])) = ToSet(pending[s]) \ {first[s]}
  <2>1. pending[s] # <<>> /\ s \in Sessions /\ active[s] = None
    BY DEF DispatchPass, Chosen, Eligible
  <2>2. pending[s] \in Seq(Int) /\ Ordered(pending[s]) /\ ToSet(pending[s]) \subseteq Commands
    BY <2>1, QueueOfInts, LaneFacts DEF SerialInv, LaneInv
  <2>3. /\ Oldest(s) \in ToSet(pending[s])
        /\ \A d \in ToSet(pending[s]) : Oldest(s) <= d
        /\ ToSet(Tail(pending[s])) = ToSet(pending[s]) \ {Oldest(s)}
    BY <2>1, <2>2, HeadOldest DEF Oldest
  <2>4. Running(s) = {}
    BY <2>1, OneRun DEF SerialInv
  <2> QED
    BY <2>2, <2>3, <2>4
<1>2. first \in [S -> Commands]
  BY <1>1
<1>3. Serving' = [s \in Sessions |-> IF s \in S THEN {first[s]} ELSE Serving[s]]
  <2>1. ASSUME NEW s \in Sessions
        PROVE  Running(s)' = IF s \in S THEN {first[s]} ELSE Running(s)
    <3>1. Running(s)' = IF s \in S THEN Running(s) \cup {Oldest(s)} ELSE Running(s)
      BY PassRunning DEF SerialInv
    <3> QED
      BY <1>1, <3>1
  <2> QED
    BY <2>1 DEF Serving
<1>4. UNION {Serving'[s] : s \in Sessions} = InStage(Occupied)'
  <2>1. \A s \in Sessions : Running(s)' = IF s \in S THEN Running(s) \cup {Oldest(s)} ELSE Running(s)
    BY PassRunning DEF SerialInv
  <2>2. ASSUME NEW d \in InStage(Occupied)'
        PROVE  home'[d] \in Sessions
    <3>1. d \in Commands /\ stage'[d] \in Occupied /\ home' = home
      BY <2>2 DEF InStage, DispatchPass
    <3>2. stage[d] # "new"
      <4>1. stage'[d] = stage[d] \/ (stage[d] \in Carrying /\ stage'[d] # "new")
        <5>1. ~\E s \in Sessions, c \in Commands, m \in Modes :
                    SubmitSteering(s, c, m) \/ SubmitQueued(s, c, m)
          BY SubmitCounts DEF DispatchPass, SerialInv, LaneInv
        <5> QED
          BY <3>1, <5>1, OtherStepsCarry DEF SerialInv
      <4> QED
        BY <3>1, <4>1 DEF Carrying, Waiting, Occupied
    <3> QED
      BY <3>1, <3>2, LaneFacts DEF SerialInv
  <2> QED
    BY <2>2 DEF Serving, Running
<1>5. Serial!Cardinality(InStage(Occupied)') <= config.max_concurrent
  <2>1. active_count' <= config.max_concurrent
    BY DEF DispatchPass, Chosen
  <2> QED
    BY <2>1, SameCardinality DEF CountIsExact
<1>6. Queued' \in [Sessions -> SUBSET Commands]
  BY ElementsType DEF Queued, TypeOK
<1>7. ASSUME NEW s \in Sessions
      PROVE  Queued'[s] \subseteq Queued[s] \ (IF s \in S THEN {first[s]} ELSE {})
  <2> DEFINE drained == {r \in S : Drains(Oldest(r), Tail(pending[r]))}
  <2>1. pending' = [r \in Sessions |-> IF r \in drained THEN <<>>
                                        ELSE IF r \in S THEN Tail(pending[r])
                                        ELSE pending[r]]
    BY DEF DispatchPass
  <2>2. drained \subseteq S /\ ToSet(<<>>) = {}
    BY DEF ToSet
  <2> HIDE DEF drained, first
  <2> QED
    BY <1>1, <2>1, <2>2 DEF Queued
<1>8. Used' = Used /\ config' = config
  <2>1. ~\E s \in Sessions, c \in Commands, m \in Modes :
              SubmitSteering(s, c, m) \/ SubmitQueued(s, c, m)
    BY SubmitCounts DEF DispatchPass, SerialInv, LaneInv
  <2> QED
    BY <2>1, UsedKept DEF SerialInv, DispatchPass
<1>9. \A s \in S : /\ Serving[s] = {} /\ first[s] \in Queued[s]
                   /\ \A d \in Queued[s] : first[s] <= d
  BY <1>1 DEF Serving, Queued
<1> HIDE DEF first
<1> QED
  BY <1>2, <1>3, <1>4, <1>5, <1>6, <1>7, <1>8, <1>9
  DEF Serial!Begin, Serial!Executing, Used, Queued, Serving

LEMMA ReleaseEnds ==
    ASSUME SerialInv, TypeOK', [Next]_vars, NEW c \in Commands, Release(c)
    PROVE  Serial!End(home[c]) /\ home[c] \in Sessions
<1>1. /\ home[c] \in Sessions
      /\ \A s \in Sessions :
            /\ Running(s)' = IF s = home[c] THEN Running(s) \ {c} ELSE Running(s)
            /\ c \in Running(home[c])
  <2>1. stage[c] = "answered"
    BY DEF Release, Step
  <2>2. home[c] \in Sessions
    BY <2>1, LaneFacts DEF SerialInv
  <2> QED
    BY <2>2, ReleaseRunning DEF SerialInv
<1>2. Running(home[c]) \ {c} = {}
  BY <1>1, OneRun DEF SerialInv
<1>3. Serving' = [Serving EXCEPT ![home[c]] = {}]
  <2>1. ASSUME NEW s \in Sessions
        PROVE  Running(s)' = IF s = home[c] THEN {} ELSE Running(s)
    BY <1>1, <1>2
  <2>2. Serving' = [s \in Sessions |-> IF s = home[c] THEN {} ELSE Running(s)]
    BY <2>1 DEF Serving
  <2> QED
    BY <2>2 DEF Serving
<1>4. Used' = Used
  <2>1. ~\E s \in Sessions, d \in Commands, m \in Modes :
              SubmitSteering(s, d, m) \/ SubmitQueued(s, d, m)
    BY SubmitCounts DEF Release, commandVars, SerialInv, LaneInv
  <2> QED
    BY <2>1, UsedKept DEF SerialInv
<1>5. config' = config /\ Queued' = Queued
  BY DEF Release, Queued
<1> QED
  BY <1>1, <1>3, <1>4, <1>5 DEF Serial!End, Used, Queued, Serving

LEMMA SerialInit == Init => Serial!Init
<1> SUFFICES ASSUME Init PROVE Serial!Init
  OBVIOUS
<1>1. config.max_concurrent \in Int
  BY QueueAssumption DEF Init, QueueConfigs
<1>2. InStage(Stages \ {"new"}) = {}
  BY DEF Init, InStage
<1>3. [s \in Sessions |-> ToSet(pending[s])] = [s \in Sessions |-> {}]
  BY DEF Init, ToSet
<1>4. [s \in Sessions |-> Running(s)] = [s \in Sessions |-> {}]
  BY DEF Init, Running, InStage, Occupied
<1> QED
  BY <1>1, <1>2, <1>3, <1>4 DEF Serial!Init

\* The steps that neither submit, activate nor release.
LEMMA OtherStepsSerial ==
    ASSUME Uninterrupted, SerialInv, TypeOK', [Next]_vars,
           ~\E s \in Sessions, c \in Commands, m \in Modes :
                SubmitSteering(s, c, m) \/ SubmitQueued(s, c, m),
           ~\E S \in SUBSET Sessions : DispatchPass(S),
           ~\E c \in Commands : Release(c)
    PROVE  Serial!GiveUp \/ Serial!SetLimit \/ UNCHANGED Serial!serialVars
<1>1. Used' = Used
  BY UsedKept DEF SerialInv
<1>2. Serving' = Serving
  BY OtherStepsRunning DEF Serving, SerialInv
<1>3. ASSUME NEW c \in Commands, Cancel(c)
      PROVE  Serial!GiveUp
  <2>1. config' = config /\ home[c] \in Sessions
    BY <1>3, LaneFacts DEF Cancel, SerialInv
  <2>2. ASSUME NEW s \in Sessions
        PROVE  ToSet(pending'[s]) \subseteq ToSet(pending[s])
    <3>1. CASE pending' = pending
      BY <3>1
    <3>2. CASE pending' # pending
      <4>1. PICK i \in DOMAIN pending[home[c]] :
                pending' = [pending EXCEPT ![home[c]] = RemoveAt(pending[home[c]], i)]
        BY <1>3, <3>2 DEF Cancel
      <4>2. Ordered(pending[home[c]]) /\ pending[home[c]] \in Seq(Int)
        BY <2>1, QueueOfInts, LaneFacts DEF SerialInv, LaneInv
      <4>3. ToSet(RemoveAt(pending[home[c]], i)) \subseteq ToSet(pending[home[c]])
        BY <4>2, RemoveAtOrdered
      <4> QED
        BY <2>1, <4>1, <4>3 DEF SerialInv, LaneInv, TypeOK
    <3> QED
      BY <3>1, <3>2
  <2>3. Queued' \in [Sessions -> SUBSET Commands]
    BY ElementsType DEF Queued, TypeOK
  <2>4. \A s \in Sessions : Queued'[s] \subseteq Queued[s]
    BY <2>2 DEF Queued
  <2> QED
    BY <1>1, <1>2, <2>1, <2>3, <2>4 DEF Serial!GiveUp, Used, Queued, Serving
<1>4. ASSUME NEW cfg \in Configs, SetConfig(cfg)
      PROVE  Serial!SetLimit
  <2>1. config'.max_concurrent \in Int
    BY <1>4, QueueAssumption DEF SetConfig, QueueConfigs
  <2>2. Queued' = Queued
    BY <1>4 DEF SetConfig, Queued
  <2> QED
    BY <1>1, <1>2, <2>1, <2>2 DEF Serial!SetLimit, Used, Queued, Serving
<1>5. ASSUME config' = config, pending' = pending
      PROVE  UNCHANGED Serial!serialVars
  <2>1. Queued' = Queued
    BY <1>5 DEF Queued
  <2> QED
    BY <1>1, <1>2, <1>5, <2>1 DEF Serial!serialVars, Used, Queued, Serving
<1>6. \/ \E c \in Commands : Cancel(c)
      \/ \E cfg \in Configs : SetConfig(cfg)
      \/ config' = config /\ pending' = pending
  <2>1. CASE Caller
    BY <2>1 DEF Caller, Uninterrupted, ConfigureSession
  <2>2. CASE Dispatcher
    BY <2>2 DEF Dispatcher, SpawnWorker, DispatcherExit, queueVars
  <2>3. CASE \E c \in Commands : Worker(c)
    BY <2>3 DEF Worker, StartRun, FinishRun, EndWorker, queueVars
  <2>4. CASE \E s \in Sessions : Ripen(s)
    BY <2>4 DEF Ripen
  <2>5. CASE Owner \/ UNCHANGED vars
    BY <2>5 DEF Owner, Start, Stop, TakeWorkers, StopReturns, vars, queueVars
  <2> QED
    BY <2>1, <2>2, <2>3, <2>4, <2>5 DEF Next
<1> QED
  BY <1>3, <1>4, <1>5, <1>6

\* A pass that takes no lane changes nothing the abstract queue sees.
LEMMA EmptyPassStutters ==
    ASSUME SerialInv, TypeOK', [Next]_vars, DispatchPass({})
    PROVE  UNCHANGED Serial!serialVars
<1>1. pending' = pending /\ config' = config
  BY DEF DispatchPass, SerialInv, LaneInv, TypeOK
<1>2. Serving' = Serving
  BY PassRunning DEF Serving, SerialInv
<1>3. Used' = Used
  <2>1. ~\E s \in Sessions, c \in Commands, m \in Modes :
              SubmitSteering(s, c, m) \/ SubmitQueued(s, c, m)
    BY SubmitCounts DEF DispatchPass, SerialInv, LaneInv
  <2> QED
    BY <2>1, UsedKept DEF SerialInv
<1>4. Queued' = Queued
  BY <1>1 DEF Queued
<1> QED
  BY <1>1, <1>2, <1>3, <1>4 DEF Serial!serialVars, Used, Queued, Serving

LEMMA SerialNext ==
    ASSUME Uninterrupted
    PROVE  SerialInv /\ SerialInv' /\ [Next]_vars => [Serial!Next]_(Serial!serialVars)
<1> SUFFICES ASSUME SerialInv, SerialInv', [Next]_vars
             PROVE  Serial!Next \/ UNCHANGED Serial!serialVars
  OBVIOUS
<1>1. TypeOK' /\ CountIsExact'
  BY DEF SerialInv, LaneInv
<1>2. CASE \E s \in Sessions, c \in Commands, m \in Modes :
                SubmitSteering(s, c, m) \/ SubmitQueued(s, c, m)
  BY <1>1, <1>2, SubmitAccepts DEF Serial!Next
<1>3. ASSUME NEW S \in SUBSET Sessions, DispatchPass(S)
      PROVE  Serial!Next \/ UNCHANGED Serial!serialVars
  <2>1. CASE S = {}
    BY <1>1, <1>3, <2>1, EmptyPassStutters
  <2>2. CASE S # {}
    <3>1. Serial!Begin(S)
      BY <1>1, <1>3, <2>2, PassBegins
    <3> QED
      BY <2>2, <3>1 DEF Serial!Next
  <2> QED
    BY <2>1, <2>2
<1>4. ASSUME NEW c \in Commands, Release(c)
      PROVE  Serial!Next
  <2>1. Serial!End(home[c]) /\ home[c] \in Sessions
    BY <1>1, <1>4, ReleaseEnds
  <2> QED
    BY <2>1 DEF Serial!Next
<1>5. CASE /\ ~\E s \in Sessions, c \in Commands, m \in Modes :
                SubmitSteering(s, c, m) \/ SubmitQueued(s, c, m)
           /\ ~\E S \in SUBSET Sessions : DispatchPass(S)
           /\ ~\E c \in Commands : Release(c)
  BY <1>1, <1>5, OtherStepsSerial DEF Serial!Next
<1> QED
  BY <1>2, <1>3, <1>4, <1>5

\* A command queue that nobody interrupts serializes each session, takes its
\* commands oldest first and each once, and keeps within max_concurrent
\* (command_queue.cppm:89, :183): it implements SerialSessions.
THEOREM UninterruptedImplementsSerial ==
    ASSUME Uninterrupted
    PROVE  Spec => ImplementsSerial
<1>1. Spec => []UninterruptedInv
  BY UninterruptedInit, UninterruptedNext, TypeCorrect, PTL DEF Spec
<1>2. Spec => []SerialInv
  BY <1>1, LaneInvAlways, CountAlwaysExact, OverlapAlwaysBound, PTL DEF SerialInv
<1>3. SerialInv /\ SerialInv' /\ [Next]_vars => [Serial!Next]_(Serial!serialVars)
  BY SerialNext
<1> QED
  BY <1>2, <1>3, SerialInit, PTL DEF Spec, ImplementsSerial, Serial!Spec
===============================================================================
