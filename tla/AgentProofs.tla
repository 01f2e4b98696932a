------------------------------ MODULE AgentProofs ------------------------------
(***************************************************************************)
(* Proofs about the agent among Services: its subagents, its turns, the    *)
(* history each turn is given, the log it writes, its tools, the limit on  *)
(* its requests and the upkeep of its transcripts, for any number of       *)
(* threads, turns, asks, runs, calls, requests and messages.               *)
(***************************************************************************)
EXTENDS AgentParts, FiniteSetTheorems, SequenceTheorems, NaturalsInduction,
        WellFoundedInduction, TLAPS

(***************************************************************************)
(* The subagents.  The invariant:                                          *)
(***************************************************************************)

\* Whatever runs is somebody's child: cleaning up takes settled runs only.
RunningAreChildren == \A r \in DOMAIN runs : runs[r] = "running" => r \in children

SubsInv == Subs!TypeOK /\ RunningAreChildren /\ Subs!ActiveBound

LEMMA RunStates == /\ Subs!Terminal = {"completed", "failed", "cancelled"}
                  /\ Subs!Terminal \subseteq Subs!States /\ "running" \in Subs!States \ Subs!Terminal
  BY DEF Subs!Terminal, Subs!States

LEMMA SeqGrows ==
    ASSUME NEW S, NEW T, S \subseteq T, NEW q \in Seq(S)
    PROVE  q \in Seq(T)
  OBVIOUS

LEMMA FrontIsSeq ==
    ASSUME NEW S, NEW q \in Seq(S), q # <<>>
    PROVE  Subs!Front(q) \in Seq(S)
  BY DEF Subs!Front

\* Subagents counts as FiniteSets does.
LEMMA SubsCounts ==
    ASSUME NEW S
    PROVE  /\ Subs!Cardinality(S) = Cardinality(S)
           /\ Subs!IsFiniteSet(S) <=> IsFiniteSet(S)
  BY DEF Subs!Cardinality, Cardinality, Subs!IsFiniteSet, IsFiniteSet

\* Only so many children can be active, and so many threads spawn, at a time.
LEMMA AllFinite ==
    ASSUME Subs!SubagentsAssumption, Subs!TypeOK
    PROVE  /\ IsFiniteSet(Subs!Active) /\ IsFiniteSet(spawns)
           /\ Cardinality(Subs!Active) \in Nat /\ Cardinality(spawns) \in Nat
           /\ Cardinality(Thread) \in Nat /\ Cardinality(spawns) <= Cardinality(Thread)
           /\ MaxChildren \in Int
<1>1. MaxRuns \in Nat /\ MaxChildren \in Int /\ IsFiniteSet(Thread)
  BY SubsCounts DEF Subs!SubagentsAssumption
<1>2. IsFiniteSet(Subs!Run)
  BY <1>1, FS_Interval DEF Subs!Run
<1>3. Subs!Active \subseteq Subs!Run
  BY DEF Subs!Active, Subs!TypeOK
<1>4. IsFiniteSet(Subs!Active)
  BY <1>2, <1>3, FS_Subset
<1>5. IsFiniteSet(spawns) /\ Cardinality(spawns) <= Cardinality(Thread)
  BY <1>1, FS_Subset DEF Subs!TypeOK
<1> QED
  BY <1>1, <1>4, <1>5, FS_CardinalityType

\* What the ceiling is.
LEMMA CeilingIs ==
    ASSUME Subs!SubagentsAssumption, Subs!TypeOK
    PROVE  /\ Subs!Ceiling \in Int /\ Subs!Ceiling >= Cardinality(Thread)
           /\ Subs!Ceiling >= MaxChildren + Cardinality(Thread) - 1
<1> DEFINE c == Cardinality(Thread)
<1>1. c \in Nat /\ MaxChildren \in Int
  BY AllFinite
<1>2. Subs!Ceiling = (IF MaxChildren > 0 THEN MaxChildren ELSE 1) + c - 1
  BY SubsCounts DEF Subs!Ceiling
<1> HIDE DEF c
<1>3. /\ Subs!Ceiling \in Int /\ Subs!Ceiling >= c /\ Subs!Ceiling >= MaxChildren + c - 1
  BY <1>1, <1>2
<1> QED
  BY <1>3 DEF c

\* A step that settles or cancels runs, or forgets settled ones, and admits nobody.
LEMMA FewerActive ==
    ASSUME Subs!SubagentsAssumption, Subs!TypeOK, Subs!ActiveBound,
           Subs!Active' \subseteq Subs!Active, UNCHANGED spawns
    PROVE  Subs!ActiveBound'
<1>1. Cardinality(Subs!Active') <= Cardinality(Subs!Active) /\ Cardinality(Subs!Active') \in Nat
  BY AllFinite, FS_Subset, FS_CardinalityType
<1> QED
  BY <1>1, AllFinite, CeilingIs, SubsCounts DEF Subs!ActiveBound, Subs!Ceiling

\* The state of one listed run is overwritten.
LEMMA SettleInv ==
    ASSUME Subs!SubagentsAssumption, SubsInv, NEW r, NEW s \in Subs!Terminal,
           r \in DOMAIN runs, runs' = Subs!With(runs, r, s),
           UNCHANGED <<children, spawns, used>>,
           stack' \in [Thread -> Seq(used)]
    PROVE  SubsInv'
<1>1. /\ DOMAIN runs' = DOMAIN runs /\ runs'[r] = s
      /\ \A q \in DOMAIN runs : q # r => runs'[q] = runs[q]
  BY DEF Subs!With
<1>2. s \in Subs!States /\ s # "running"
  BY RunStates
<1>3. Subs!TypeOK'
  BY <1>1, <1>2 DEF SubsInv, Subs!TypeOK
<1>4. RunningAreChildren'
  BY <1>1, <1>2 DEF SubsInv, RunningAreChildren
<1>5. Subs!Active' \subseteq Subs!Active
  BY <1>1, <1>2 DEF Subs!Active
<1> QED
  BY <1>3, <1>4, <1>5, FewerActive DEF SubsInv

(***************************************************************************)
(* The steps.                                                              *)
(***************************************************************************)

\* The test leaves room for the thread that passes it, and for the others that
\* have passed it only if they are counted among all threads.
LEMMA AdmitSpawnInv ==
    ASSUME Subs!SubagentsAssumption, SubsInv, NEW th \in Thread, Subs!AdmitSpawn(th)
    PROVE  SubsInv'
<1>1. /\ th \notin spawns
      /\ used = {} \/ Cardinality(Subs!Active) < MaxChildren
      /\ spawns' = spawns \cup {th}
      /\ UNCHANGED <<runs, children, stack, used>>
  BY SubsCounts DEF Subs!AdmitSpawn
<1>2. Subs!TypeOK' /\ RunningAreChildren'
  BY <1>1 DEF SubsInv, Subs!TypeOK, RunningAreChildren
<1>3. Subs!Active' = Subs!Active
  BY <1>1 DEF Subs!Active
<1>4. Cardinality(spawns') <= Cardinality(Thread) /\ Cardinality(spawns') \in Nat
  BY <1>2, FS_Subset, FS_CardinalityType, SubsCounts DEF Subs!TypeOK, Subs!SubagentsAssumption
<1>5. used = {} => Cardinality(Subs!Active) = 0
  <2>1. used = {} => Subs!Active = {}
    BY DEF SubsInv, Subs!TypeOK, Subs!Active
  <2> QED
    BY <2>1, FS_EmptySet
<1>6. Cardinality(Subs!Active) + Cardinality(spawns') <= Subs!Ceiling
  BY <1>1, <1>4, <1>5, AllFinite, CeilingIs DEF SubsInv
<1>7. Subs!ActiveBound'
  BY <1>3, <1>6, SubsCounts DEF Subs!ActiveBound, Subs!Ceiling
<1> QED
  BY <1>2, <1>7 DEF SubsInv

\* A thread that was admitted becomes a child that is active.
LEMMA EnterRunInv ==
    ASSUME Subs!SubagentsAssumption, SubsInv, NEW th \in Thread, Subs!EnterRun(th)
    PROVE  SubsInv'
<1>1. PICK r \in Subs!Run \ used :
         /\ runs' = Subs!With(runs, r, "running") /\ children' = children \cup {r}
         /\ stack' = [stack EXCEPT ![th] = Append(@, r)] /\ used' = used \cup {r}
  BY DEF Subs!EnterRun
<1>2. th \in spawns /\ spawns' = spawns \ {th}
  BY DEF Subs!EnterRun
<1>3. r \notin DOMAIN runs
  BY <1>1 DEF SubsInv, Subs!TypeOK
<1>4. /\ DOMAIN runs' = DOMAIN runs \cup {r} /\ runs'[r] = "running"
      /\ \A q \in DOMAIN runs : runs'[q] = runs[q]
  BY <1>1, <1>3 DEF Subs!With
<1>5. stack' \in [Thread -> Seq(used')]
  <2>1. stack \in [Thread -> Seq(used)] /\ used \subseteq used' /\ r \in used'
    BY <1>1 DEF SubsInv, Subs!TypeOK
  <2>2. \A t \in Thread : stack[t] \in Seq(used')
    BY <2>1, SeqGrows
  <2>3. Append(stack[th], r) \in Seq(used')
    BY <2>1, <2>2
  <2> QED
    BY <1>1, <2>1, <2>2, <2>3
<1>6. Subs!TypeOK'
  BY <1>1, <1>2, <1>4, <1>5, RunStates DEF SubsInv, Subs!TypeOK
<1>7. RunningAreChildren'
  BY <1>1, <1>4 DEF SubsInv, RunningAreChildren
<1>8. Subs!Active' = Subs!Active \cup {r} /\ r \notin Subs!Active
  BY <1>1, <1>3, <1>4 DEF Subs!Active
<1>9. /\ Cardinality(Subs!Active') = Cardinality(Subs!Active) + 1
      /\ Cardinality(spawns') = Cardinality(spawns) - 1
  BY <1>2, <1>8, AllFinite, FS_AddElement, FS_RemoveElement DEF SubsInv
<1>10. Subs!ActiveBound'
  BY <1>9, AllFinite, CeilingIs, SubsCounts DEF SubsInv, Subs!ActiveBound, Subs!Ceiling
<1> QED
  BY <1>6, <1>7, <1>10 DEF SubsInv

LEMMA RunnerReturnsInv ==
    ASSUME Subs!SubagentsAssumption, SubsInv, NEW th \in Thread, Subs!RunnerReturns(th)
    PROVE  SubsInv'
<1> DEFINE r == Subs!Last(stack[th])
<1>1. /\ stack[th] # <<>> /\ stack' = [stack EXCEPT ![th] = Subs!Front(@)]
      /\ UNCHANGED <<children, spawns, used>>
      /\ \/ \E s \in Subs!Terminal : Subs!Settle(r, s)
         \/ UNCHANGED runs
  BY RunStates DEF Subs!RunnerReturns
<1>2. stack' \in [Thread -> Seq(used)]
  <2>1. stack \in [Thread -> Seq(used)]
    BY DEF SubsInv, Subs!TypeOK
  <2>2. Subs!Front(stack[th]) \in Seq(used)
    BY <1>1, <2>1, FrontIsSeq
  <2> QED
    BY <1>1, <2>1, <2>2
<1>3. CASE \E s \in Subs!Terminal : r \in DOMAIN runs /\ runs' = Subs!With(runs, r, s)
  BY <1>1, <1>2, <1>3, SettleInv
<1>4. CASE UNCHANGED runs
  <2>1. Subs!TypeOK' /\ RunningAreChildren'
    BY <1>1, <1>2, <1>4 DEF SubsInv, Subs!TypeOK, RunningAreChildren
  <2>2. Subs!Active' = Subs!Active
    BY <1>1, <1>4 DEF Subs!Active
  <2> QED
    BY <1>1, <2>1, <2>2, FewerActive DEF SubsInv
<1> QED
  BY <1>1, <1>3, <1>4 DEF Subs!Settle

LEMMA CancelOrCompleteInv ==
    ASSUME Subs!SubagentsAssumption, SubsInv, NEW r \in Subs!Run, Subs!CancelRun(r) \/ Subs!CompleteLater(r)
    PROVE  SubsInv'
<1>1. /\ r \in DOMAIN runs /\ UNCHANGED <<children, stack, spawns, used>>
      /\ \E s \in Subs!Terminal : runs' = Subs!With(runs, r, s)
  BY RunStates DEF Subs!CancelRun, Subs!CompleteLater, Subs!Settle
<1>2. stack' \in [Thread -> Seq(used)]
  BY <1>1 DEF SubsInv, Subs!TypeOK
<1> QED
  BY <1>1, <1>2, SettleInv

LEMMA CleanupCompletedInv ==
    ASSUME Subs!SubagentsAssumption, SubsInv, Subs!CleanupCompleted
    PROVE  SubsInv'
<1> DEFINE gone == {r \in DOMAIN runs : runs[r] \in Subs!Terminal}
<1>1. /\ runs' = [r \in DOMAIN runs \ gone |-> runs[r]] /\ children' = children \ gone
      /\ UNCHANGED <<stack, spawns, used>>
  BY DEF Subs!CleanupCompleted
<1>2. /\ DOMAIN runs' = DOMAIN runs \ gone
      /\ \A r \in DOMAIN runs' : runs'[r] = runs[r] /\ r \notin gone
  BY <1>1
<1>3. Subs!TypeOK' /\ RunningAreChildren'
  BY <1>1, <1>2 DEF SubsInv, Subs!TypeOK, RunningAreChildren
<1>4. Subs!Active' \subseteq Subs!Active
  BY <1>1, <1>2 DEF Subs!Active
<1> QED
  BY <1>1, <1>3, <1>4, FewerActive DEF SubsInv

(***************************************************************************)
(* The theorems.                                                           *)
(***************************************************************************)

\* The invariant the theorem below is drawn from.
THEOREM SubsInvAlways == ASSUME Subs!SubagentsAssumption PROVE Subs!Spec => []SubsInv
<1>1. ASSUME Subs!Init
      PROVE  SubsInv
  <2>1. Subs!TypeOK /\ RunningAreChildren
    BY <1>1 DEF Subs!Init, Subs!TypeOK, RunningAreChildren
  <2>2. Subs!Active = {} /\ spawns = {}
    BY <1>1 DEF Subs!Init, Subs!Active
  <2>3. Subs!ActiveBound
    <3>1. Cardinality({}) = 0
      BY FS_EmptySet
    <3> QED
      BY <2>1, <2>2, <3>1, AllFinite, CeilingIs, SubsCounts DEF Subs!ActiveBound
  <2> QED
    BY <2>1, <2>3 DEF SubsInv
<1>2. ASSUME SubsInv, [Subs!Next]_Subs!subVars
      PROVE  SubsInv'
  <2>1. CASE Subs!Next
    BY <1>2, <2>1, AdmitSpawnInv, EnterRunInv, RunnerReturnsInv, CancelOrCompleteInv,
       CleanupCompletedInv DEF Subs!Next
  <2>2. CASE UNCHANGED Subs!subVars
    <3>1. Subs!TypeOK' /\ RunningAreChildren'
      BY <1>2, <2>2 DEF Subs!subVars, SubsInv, Subs!TypeOK, RunningAreChildren
    <3>2. Subs!Active' = Subs!Active /\ UNCHANGED spawns
      BY <2>2 DEF Subs!subVars, Subs!Active
    <3> QED
      BY <1>2, <3>1, <3>2, FewerActive DEF SubsInv
  <2> QED
    BY <1>2, <2>1, <2>2
<1> QED
  BY <1>1, <1>2, PTL DEF Subs!Spec

\* Spawn tests the limit under one lock and enters the run under another: threads
\* that passed the test together exceed it by at most one less than their number (a
\* limit below 1 is not tested before the first run, and stands for 1), and however deep runners nest, no more runs than that are under way in any of
\* them (subagent.cpp).
THEOREM SubagentsAlwaysBounded == ASSUME Subs!SubagentsAssumption PROVE Subs!Spec => []Subs!SubagentsBounded
<1>1. ASSUME SubsInv
      PROVE  Subs!SubagentsBounded
  <2>1. ASSUME NEW th \in Thread
        PROVE  Cardinality({r \in Subs!ToSet(stack[th]) :
                              r \in DOMAIN runs /\ runs[r] = "running"})
                   <= Subs!Ceiling
    <3> DEFINE under == {r \in Subs!ToSet(stack[th]) : r \in DOMAIN runs /\ runs[r] = "running"}
    <3>1. under \subseteq Subs!Active
      BY <1>1 DEF SubsInv, RunningAreChildren, Subs!Active
    <3>2. Cardinality(under) <= Cardinality(Subs!Active) /\ Cardinality(under) \in Nat
      BY <1>1, <3>1, AllFinite, FS_Subset, FS_CardinalityType DEF SubsInv
    <3>3. Cardinality(Subs!Active) <= Subs!Ceiling
      BY <1>1, AllFinite, CeilingIs, SubsCounts DEF SubsInv, Subs!ActiveBound
    <3> HIDE DEF under
    <3>5. Cardinality(under) <= Subs!Ceiling
      BY <1>1, <3>2, <3>3, AllFinite, CeilingIs DEF SubsInv
    <3> QED
      BY <3>5 DEF under
  <2> QED
    BY <1>1, <2>1, SubsCounts DEF SubsInv, Subs!SubagentsBounded, Subs!NestingBound
<1> QED
  BY <1>1, SubsInvAlways, PTL


(***************************************************************************)
(* No run is settled twice.                                                *)
(***************************************************************************)

\* A run is entered once, by one thread, which is inside of it once.
Once == \A t, u \in Thread : \A i \in 1..Len(stack[t]), j \in 1..Len(stack[u]) :
          stack[t][i] = stack[u][j] => t = u /\ i = j

\* A run a thread is inside of has not been settled, but may be cancelled.
Unsettled == \A t \in Thread : \A i \in 1..Len(stack[t]) :
               stack[t][i] \in DOMAIN runs => runs[stack[t][i]] \in {"running", "cancelled"}

SettledInv == SubsInv /\ Once /\ Unsettled

\* What a step does to the runs that were listed, and what it may list.
SettledKept ==
    /\ \A r \in DOMAIN runs :
         IF r \in DOMAIN runs'
         THEN \/ runs'[r] = runs[r]
              \/ runs[r] = "running"
              \/ /\ runs[r] = "cancelled"
                 /\ \E th \in Thread : stack[th] # <<>> /\ Subs!Last(stack[th]) = r
         ELSE runs[r] \in Subs!Terminal
    /\ \A r \in DOMAIN runs' \ DOMAIN runs : r \notin used

LEMMA StacksAreSeqs ==
    ASSUME SubsInv, NEW t \in Thread
    PROVE  /\ stack[t] \in Seq(used) /\ Len(stack[t]) \in Nat
           /\ \A i \in 1..Len(stack[t]) : stack[t][i] \in used
<1>1. stack[t] \in Seq(used)
  BY DEF SubsInv, Subs!TypeOK
<1> QED
  BY <1>1

LEMMA EnterRunSettles ==
    ASSUME SettledInv, NEW th \in Thread, Subs!EnterRun(th)
    PROVE  Once' /\ Unsettled' /\ SettledKept
<1>1. PICK r \in Subs!Run \ used :
         /\ runs' = Subs!With(runs, r, "running") /\ children' = children \cup {r}
         /\ stack' = [stack EXCEPT ![th] = Append(@, r)] /\ used' = used \cup {r}
  BY DEF Subs!EnterRun
<1>2. r \notin DOMAIN runs /\ stack \in [Thread -> Seq(used)]
  BY <1>1 DEF SettledInv, SubsInv, Subs!TypeOK
<1>3. /\ DOMAIN runs' = DOMAIN runs \cup {r} /\ runs'[r] = "running"
      /\ \A q \in DOMAIN runs : runs'[q] = runs[q]
  BY <1>1, <1>2 DEF Subs!With
<1>4. ASSUME NEW t \in Thread, NEW i \in 1..Len(stack'[t])
      PROVE  \/ i \in 1..Len(stack[t]) /\ stack'[t][i] = stack[t][i]
             \/ t = th /\ i = Len(stack[th]) + 1 /\ stack'[t][i] = r
  <2>1. stack[t] \in Seq(used) /\ stack[th] \in Seq(used)
    BY <1>2
  <2>2. CASE t = th
    <3>1. stack'[t] = Append(stack[th], r)
      BY <1>1, <1>2, <2>2
    <3> QED
      BY <2>1, <2>2, <3>1
  <2>3. CASE t # th
    BY <1>1, <1>2, <2>3
  <2> QED
    BY <2>2, <2>3
<1>5. \A t \in Thread : \A i \in 1..Len(stack[t]) : stack[t][i] # r
  BY <1>1, StacksAreSeqs DEF SettledInv
<1>6. Once'
  <2> SUFFICES ASSUME NEW t \in Thread, NEW u \in Thread, NEW i \in 1..Len(stack'[t]),
                      NEW j \in 1..Len(stack'[u]), stack'[t][i] = stack'[u][j]
               PROVE  t = u /\ i = j
    BY DEF Once
  <2>1. CASE i \in 1..Len(stack[t]) /\ stack'[t][i] = stack[t][i]
    <3>1. j \in 1..Len(stack[u]) /\ stack'[u][j] = stack[u][j]
      BY <1>4, <1>5, <2>1
    <3>2. /\ stack[t][i] = stack[u][j] /\ i \in 1..Len(stack[t])
          /\ j \in 1..Len(stack[u])
      BY <2>1, <3>1
    <3>3. \A a \in 1..Len(stack[t]), b \in 1..Len(stack[u]) :
            stack[t][a] = stack[u][b] => t = u /\ a = b
      BY Zenon DEF SettledInv, Once
    <3> QED
      BY <3>2, <3>3
  <2>2. CASE t = th /\ i = Len(stack[th]) + 1 /\ stack'[t][i] = r
    BY <1>4, <1>5, <2>2
  <2> QED
    BY <1>4, <2>1, <2>2
<1>7. Unsettled'
  BY <1>3, <1>4, <1>5 DEF SettledInv, Unsettled
<1>8. SettledKept
  BY <1>1, <1>3 DEF SettledKept
<1> QED
  BY <1>6, <1>7, <1>8

LEMMA RunnerReturnsSettles ==
    ASSUME SettledInv, NEW th \in Thread, Subs!RunnerReturns(th)
    PROVE  Once' /\ Unsettled' /\ SettledKept
<1> DEFINE r == Subs!Last(stack[th])
           n == Len(stack[th])
<1>1. /\ stack[th] # <<>> /\ stack' = [stack EXCEPT ![th] = Subs!Front(@)]
      /\ \/ \E s \in Subs!Terminal : Subs!Settle(r, s)
         \/ UNCHANGED runs
  BY RunStates DEF Subs!RunnerReturns
<1>2. stack \in [Thread -> Seq(used)] /\ stack[th] \in Seq(used) /\ n \in Nat \ {0}
  <2>1. stack \in [Thread -> Seq(used)]
    BY DEF SettledInv, SubsInv, Subs!TypeOK
  <2>2. stack[th] \in Seq(used)
    BY <2>1
  <2> QED
    BY <1>1, <2>1, <2>2
<1>3. r = stack[th][n] /\ n \in 1..n
  BY <1>2 DEF Subs!Last
<1>4. ASSUME NEW t \in Thread, NEW i \in 1..Len(stack'[t])
      PROVE  /\ i \in 1..Len(stack[t]) /\ stack'[t][i] = stack[t][i]
             /\ t = th => i # n
  <2>1. CASE t = th
    <3>1. stack'[t] = Subs!Front(stack[th])
      BY <1>1, <1>2, <2>1
    <3>2. stack'[t] = SubSeq(stack[th], 1, n - 1)
      BY <3>1 DEF Subs!Front
    <3>3. Len(stack'[t]) = n - 1 /\ \A k \in 1..(n - 1) : stack'[t][k] = stack[th][k]
      BY <1>2, <3>2
    <3> QED
      BY <1>2, <2>1, <3>3
  <2>2. CASE t # th
    BY <1>1, <1>2, <2>2
  <2> QED
    BY <2>1, <2>2
<1>5. Once'
  <2> SUFFICES ASSUME NEW t \in Thread, NEW u \in Thread, NEW i \in 1..Len(stack'[t]),
                      NEW j \in 1..Len(stack'[u]), stack'[t][i] = stack'[u][j]
               PROVE  t = u /\ i = j
    BY DEF Once
  <2>1. i \in 1..Len(stack[t]) /\ stack'[t][i] = stack[t][i]
    BY <1>4
  <2>2. j \in 1..Len(stack[u]) /\ stack'[u][j] = stack[u][j]
    BY <1>4
  <2>3. stack[t][i] = stack[u][j]
    BY <2>1, <2>2
  <2>4. \A a \in 1..Len(stack[t]), b \in 1..Len(stack[u]) :
          stack[t][a] = stack[u][b] => t = u /\ a = b
    BY Zenon DEF SettledInv, Once
  <2> QED
    BY <2>1, <2>2, <2>3, <2>4
<1>6. ASSUME NEW t \in Thread, NEW i \in 1..Len(stack'[t])
      PROVE  stack'[t][i] # r
  BY <1>3, <1>4, <1>6 DEF SettledInv, Once
<1>7. CASE UNCHANGED runs
  <2>1. Unsettled'
    BY <1>4, <1>7 DEF SettledInv, Unsettled
  <2>2. SettledKept
    BY <1>7 DEF SettledKept
  <2> QED
    BY <1>5, <2>1, <2>2
<1>8. CASE \E s \in Subs!Terminal : r \in DOMAIN runs /\ runs' = Subs!With(runs, r, s)
  <2>1. PICK s \in Subs!Terminal : r \in DOMAIN runs /\ runs' = Subs!With(runs, r, s)
    BY <1>8
  <2>2. /\ DOMAIN runs' = DOMAIN runs
        /\ \A q \in DOMAIN runs : q # r => runs'[q] = runs[q]
    BY <2>1 DEF Subs!With
  <2>3. Unsettled'
    BY <1>4, <1>6, <2>2 DEF SettledInv, Unsettled
  <2>4. runs[r] \in {"running", "cancelled"}
    BY <1>3, <2>1 DEF SettledInv, Unsettled
  <2>5. SettledKept
    BY <1>1, <2>2, <2>4 DEF SettledKept
  <2> QED
    BY <1>5, <2>3, <2>5
<1> QED
  BY <1>1, <1>7, <1>8 DEF Subs!Settle

LEMMA CancelOrCompleteSettles ==
    ASSUME SettledInv, NEW r \in Subs!Run, Subs!CancelRun(r) \/ Subs!CompleteLater(r)
    PROVE  Once' /\ Unsettled' /\ SettledKept
<1>1. PICK s \in Subs!Terminal : runs' = Subs!With(runs, r, s)
  BY RunStates DEF Subs!CancelRun, Subs!CompleteLater, Subs!Settle
<1>2. /\ r \in DOMAIN runs /\ runs[r] = "running" /\ UNCHANGED stack
      /\ \/ runs' = Subs!With(runs, r, "cancelled")
         \/ \A th \in Thread : r \notin Subs!ToSet(stack[th])
  BY DEF Subs!CancelRun, Subs!CompleteLater
<1>3. /\ DOMAIN runs' = DOMAIN runs /\ runs'[r] = s
      /\ \A q \in DOMAIN runs : q # r => runs'[q] = runs[q]
  BY <1>1, <1>2 DEF Subs!With
<1>4. (\A t \in Thread : \A i \in 1..Len(stack[t]) : stack[t][i] # r) \/ runs'[r] = "cancelled"
  <2>1. CASE runs' = Subs!With(runs, r, "cancelled")
    BY <1>2, <2>1 DEF Subs!With
  <2>2. CASE \A th \in Thread : r \notin Subs!ToSet(stack[th])
    <3>1. ASSUME NEW t \in Thread, NEW i \in 1..Len(stack[t])
          PROVE  stack[t][i] # r
      <4>1. stack[t] \in Seq(used)
        BY StacksAreSeqs DEF SettledInv
      <4>2. i \in DOMAIN stack[t]
        BY <4>1
      <4> QED
        BY <2>2, <4>2 DEF Subs!ToSet
    <3> QED
      BY <3>1
  <2> QED
    BY <1>2, <2>1, <2>2
<1>5. Once'
  BY <1>2 DEF SettledInv, Once
<1>6. Unsettled'
  BY <1>2, <1>3, <1>4 DEF SettledInv, Unsettled
<1>7. SettledKept
  BY <1>2, <1>3 DEF SettledKept
<1> QED
  BY <1>5, <1>6, <1>7

LEMMA OthersSettle ==
    ASSUME SettledInv,
           \/ \E th \in Thread : Subs!AdmitSpawn(th)
           \/ Subs!CleanupCompleted
           \/ UNCHANGED Subs!subVars
    PROVE  Once' /\ Unsettled' /\ SettledKept
<1>1. UNCHANGED stack
  BY DEF Subs!AdmitSpawn, Subs!CleanupCompleted, Subs!subVars
<1>2. \/ UNCHANGED runs
      \/ runs' = [r \in DOMAIN runs \ {r \in DOMAIN runs : runs[r] \in Subs!Terminal} |-> runs[r]]
  BY DEF Subs!AdmitSpawn, Subs!CleanupCompleted, Subs!subVars
<1>3. /\ DOMAIN runs' \subseteq DOMAIN runs
      /\ \A r \in DOMAIN runs' : runs'[r] = runs[r]
      /\ \A r \in DOMAIN runs \ DOMAIN runs' : runs[r] \in Subs!Terminal
  BY <1>2
<1> QED
  BY <1>1, <1>3 DEF SettledInv, Once, Unsettled, SettledKept

\* The invariant the theorem below is drawn from.
LEMMA SettledInvAlways ==
    ASSUME Subs!SubagentsAssumption
    PROVE  Subs!Spec => [](SettledInv)
<1>1. Subs!Init => Once /\ Unsettled
  BY DEF Subs!Init, Once, Unsettled
<1>2. SettledInv /\ [Subs!Next]_(Subs!subVars) => Once' /\ Unsettled'
  BY EnterRunSettles, RunnerReturnsSettles, CancelOrCompleteSettles, OthersSettle DEF Subs!Next
<1>3. (Once /\ Unsettled) /\ SubsInv /\ [Subs!Next]_(Subs!subVars) => (Once /\ Unsettled)'
  BY <1>2 DEF SettledInv
<1>4. SubsInv /\ Once /\ Unsettled => SettledInv
  BY DEF SettledInv
<1> QED
  BY <1>1, <1>3, <1>4, SubsInvAlways, PTL DEF Subs!Spec

\* A settled run is never settled again, but when the runner of a cancelled one
\* returns, and cleaning up takes settled runs only: CompleteRun and FailRun overwrite
\* the state without a look at it (subagent.cpp).
THEOREM SettledAlwaysStays == ASSUME Subs!SubagentsAssumption PROVE Subs!Spec => Subs!SettledStays
<1>1. SettledInv /\ [Subs!Next]_(Subs!subVars) =>
        [/\ \A r \in DOMAIN runs :
              IF r \in DOMAIN runs'
              THEN \/ runs'[r] = runs[r]
                   \/ runs[r] = "running"
                   \/ /\ runs[r] = "cancelled"
                      /\ \E th \in Thread : stack[th] # <<>> /\ Subs!Last(stack[th]) = r
              ELSE runs[r] \in Subs!Terminal
         /\ \A r \in DOMAIN runs' \ DOMAIN runs : r \notin used]_(Subs!subVars)
  BY EnterRunSettles, RunnerReturnsSettles, CancelOrCompleteSettles, OthersSettle
     DEF Subs!Next, SettledKept
<1> QED
  BY <1>1, SettledInvAlways, PTL DEF Subs!Spec, Subs!SettledStays

(***************************************************************************)
(* The turns of the agent loop.                                            *)
(***************************************************************************)

TurnRec == [stage : Turns!Stages, stream : BOOLEAN, provider : Turns!Providers,
            iterations : 0..MaxIterations, overflow : 0..MaxOverflow,
            transient : 0..MaxTransient, calls : Nat, text : BOOLEAN,
            tools : BOOLEAN, closed : BOOLEAN, cap : 0..MaxIterations,
            ends : Nat, muted : BOOLEAN, hollow : BOOLEAN, result : Turns!Results]

\* Each call of the provider but the last has used up one of the budgets.
Spent(s) ==
    /\ s.stage \in {"idle", "resolve", "loop"} =>
         s.calls <= s.iterations + s.overflow + s.transient
    /\ s.stage \in {"call", "answered"} =>
         /\ s.iterations < s.cap
         /\ s.calls <= s.iterations + s.overflow + s.transient + 1
    /\ s.calls <= s.cap + MaxOverflow + MaxTransient
    /\ s.stage = "idle" => s.calls = 0

\* What the client was sent so far: nothing before the last chunk, then one end
\* event unless there are tools to run or the chunk did not get through.
Told(s) ==
    /\ s.stage \in {"idle", "resolve", "loop"} => s.ends = 0 /\ ~s.closed
    /\ s.stage = "call" =>
         /\ s.closed => s.stream
         /\ s.ends = IF s.closed /\ ~s.muted /\ ~s.tools THEN 1 ELSE 0
    /\ s.stage = "answered" =>
         \/ s.ends = 0 /\ (s.stream => s.tools \/ s.muted)
         \/ s.ends = 1 /\ s.stream /\ ~s.tools
    /\ s.stage = "exit" /\ s.stream => s.ends = 0
    /\ s.stage = "done" /\ s.stream =>
         \/ s.ends = 1
         \/ s.ends = 0 /\ s.muted /\ s.result = "completed"
         \/ s.ends = 2 /\ s.hollow
    /\ s.stage # "done" => s.result = "none"

\* The flag is up exactly for those who asked and were not overtaken.
Asked(t) ==
    /\ turn[t].stage = "idle" => asked[t] = "no"
    /\ Turns!Running(t) /\ asked[t] = "yes" => stopRequested
    /\ Turns!Running(t) /\ stopRequested => asked[t] # "no"
    /\ turn[t].result = "stopped" => asked[t] # "no"

\* The limit in force is among those that count for a running turn.
InForce(t) == Turns!Running(t) => maxIterations <= turn[t].cap

TurnsInv ==
    /\ stopRequested \in BOOLEAN /\ modelRef \in {"qualified", "bare"}
    /\ maxIterations \in 1..MaxIterations /\ settings \in 0..MaxSettings
    /\ turn \in [Turn -> TurnRec]
    /\ asked \in [Turn -> {"no", "yes", "overtaken"}]
    /\ \A t \in Turn : Spent(turn[t]) /\ Told(turn[t]) /\ Asked(t) /\ InForce(t)

\* What a step of a turn may do after a Stop for it.
StopHeeded == \A t \in Turn : turn'[t].calls > turn[t].calls => asked[t] # "yes"

\* A step of one turn that leaves the flag alone.
LEMMA TurnMoves ==
    ASSUME TurnsInv, NEW t \in Turn, NEW w \in TurnRec, Spent(w), Told(w),
           turn' = [turn EXCEPT ![t] = w],
           modelRef' \in {"qualified", "bare"},
           UNCHANGED <<stopRequested, maxIterations, settings, asked>>,
           turn[t].stage \notin {"idle", "done"}, w.stage # "idle",
           w.stage = "done" \/ w.cap = turn[t].cap,
           w.result = "stopped" => stopRequested,
           w.calls > turn[t].calls => ~stopRequested
    PROVE  TurnsInv' /\ StopHeeded
<1>1. turn' \in [Turn -> TurnRec] /\ turn'[t] = w /\ \A u \in Turn \ {t} : turn'[u] = turn[u]
  BY DEF TurnsInv
<1>2. ASSUME NEW u \in Turn
      PROVE  (Spent(turn[u]) /\ Told(turn[u]) /\ Asked(u) /\ InForce(u))'
  <2>1. CASE u = t
    <3>1. asked[t] # "no" \/ ~stopRequested
      BY DEF TurnsInv, Asked, Turns!Running
    <3>2. asked[t] = "yes" => stopRequested
      BY DEF TurnsInv, Asked, Turns!Running
    <3>3. (Spent(turn[u]) /\ Told(turn[u]) /\ Asked(u))'
      BY <1>1, <2>1, <3>1, <3>2 DEF Asked, Turns!Running, Spent, Told
    <3>4. maxIterations <= turn[t].cap
      BY DEF TurnsInv, InForce, Turns!Running
    <3>5. InForce(u)'
      BY <1>1, <2>1, <3>4 DEF InForce, Turns!Running
    <3> QED
      BY <3>3, <3>5
  <2>2. CASE u # t
    <3>1. (Spent(turn[u]) /\ Told(turn[u]) /\ Asked(u))'
      BY <1>1, <2>2 DEF TurnsInv, Asked, Turns!Running, Spent, Told
    <3>2. InForce(u)'
      BY <1>1, <2>2 DEF TurnsInv, InForce, Turns!Running
    <3> QED
      BY <3>1, <3>2
  <2> QED
    BY <2>1, <2>2
<1>3. \A u \in Turn : ~(turn[u].calls > turn[u].calls)
  BY DEF TurnsInv, TurnRec
<1>4. StopHeeded
  BY <1>1, <1>3 DEF StopHeeded, TurnsInv, Asked, Turns!Running
<1> QED
  BY <1>1, <1>2, <1>4 DEF TurnsInv

\* A turn that is over has spent nothing it could spend again.
LEMMA EndedTurn ==
    ASSUME NEW s \in TurnRec, NEW result \in Turns!Results, NEW n \in Nat,
           Turns!AgentTurnsAssumption
    PROVE  LET w == Turns!Ended(s, result, n)
           IN  /\ w \in TurnRec /\ w.stage = "done" /\ w.result = result
               /\ w.stream = s.stream /\ w.ends = s.ends + n
               /\ w.muted = s.muted /\ w.hollow = s.hollow /\ w.calls = 0 /\ Spent(w)
<1>1. /\ {0} \subseteq 0..MaxIterations /\ {0} \subseteq 0..MaxOverflow /\ {0} \subseteq 0..MaxTransient
      /\ MaxIterations + MaxOverflow + MaxTransient \in Nat
  BY DEF Turns!AgentTurnsAssumption
<1>2. "done" \in Turns!Stages /\ "none" \in Turns!Providers
  BY DEF Turns!Stages, Turns!Providers
<1>3. s.stream \in BOOLEAN /\ s.muted \in BOOLEAN /\ s.hollow \in BOOLEAN /\ s.ends + n \in Nat
  BY DEF TurnRec
<1> DEFINE w == Turns!Ended(s, result, n)
<1>4. "none" \in Turns!Results /\ 0 \in 0..MaxIterations /\ 0 \in 0..MaxOverflow
      /\ 0 \in 0..MaxTransient /\ 0 \in Nat
  BY <1>1 DEF Turns!Results
<1>8. /\ Turns!NewTurn \in TurnRec /\ Turns!NewTurn.calls = 0 /\ Turns!NewTurn.cap = 0
  BY <1>4 DEF TurnRec, Turns!NewTurn, Turns!Stages, Turns!Providers
<1> DEFINE z == Turns!NewTurn
           e == s.ends + n
           v == [z EXCEPT !.stage = "done", !.stream = s.stream, !.result = result,
                          !.ends = e, !.muted = s.muted, !.hollow = s.hollow]
<1>9. w = v
  BY DEF Turns!Ended
<1>10. z \in TurnRec /\ z.calls = 0 /\ z.cap = 0 /\ e \in Nat
  BY <1>3, <1>8
<1> HIDE DEF w, z, e
<1>11. v \in TurnRec
  BY <1>2, <1>3, <1>10 DEF TurnRec
<1>12. v.stage = "done" /\ v.result = result /\ v.stream = s.stream /\ v.ends = e
  BY <1>10 DEF TurnRec
<1>13. v.muted = s.muted /\ v.hollow = s.hollow /\ v.calls = 0 /\ v.cap = 0
  BY <1>10 DEF TurnRec
<1> HIDE DEF v
<1>5. w \in TurnRec
  BY <1>9, <1>11
<1>6. /\ w.stage = "done" /\ w.result = result /\ w.stream = s.stream /\ w.ends = s.ends + n
      /\ w.muted = s.muted /\ w.hollow = s.hollow /\ w.calls = 0 /\ w.cap = 0
  BY <1>9, <1>12, <1>13 DEF e
<1> HIDE DEF w
<1>7. Spent(w)
  <2>1. MaxOverflow \in Nat /\ MaxTransient \in Nat
    BY DEF Turns!AgentTurnsAssumption
  <2> QED
    BY <1>6, <2>1 DEF Spent
<1> QED
  BY <1>5, <1>6, <1>7 DEF w

LEMMA ForgottenTurn ==
    ASSUME NEW s \in TurnRec
    PROVE  LET w == Turns!Forgotten(s)
           IN  /\ w \in TurnRec /\ ~w.text /\ ~w.tools /\ ~w.muted /\ ~w.closed
               /\ w.cap = s.cap
               /\ w.stage = s.stage /\ w.stream = s.stream /\ w.iterations = s.iterations
               /\ w.overflow = s.overflow /\ w.transient = s.transient
               /\ w.calls = s.calls /\ w.ends = s.ends /\ w.hollow = s.hollow
               /\ w.result = s.result
<1> DEFINE w == [s EXCEPT !.text = FALSE, !.tools = FALSE, !.closed = FALSE, !.muted = FALSE]
<1>1. Turns!Forgotten(s) = w
  BY DEF Turns!Forgotten
<1>2. w \in TurnRec
  BY DEF TurnRec
<1>3. ~w.text /\ ~w.tools /\ ~w.muted /\ ~w.closed
  BY DEF TurnRec
<1>4. w.cap = s.cap /\ w.stage = s.stage /\ w.stream = s.stream /\ w.iterations = s.iterations
  BY DEF TurnRec
<1>5. w.overflow = s.overflow /\ w.transient = s.transient /\ w.calls = s.calls
  BY DEF TurnRec
<1>6. w.ends = s.ends /\ w.hollow = s.hollow /\ w.result = s.result
  BY DEF TurnRec
<1> HIDE DEF w
<1> QED
  BY <1>1, <1>2, <1>3, <1>4, <1>5, <1>6

LEMMA BeginTurnInv ==
    ASSUME Turns!AgentTurnsAssumption, TurnsInv, NEW t \in Turn, Turns!Begin(t)
    PROVE  TurnsInv' /\ StopHeeded
<1>1. PICK stream \in BOOLEAN :
        turn' = [turn EXCEPT ![t] =
                   [@ EXCEPT !.stage = "resolve", !.stream = stream, !.cap = maxIterations,
                             !.provider = IF modelRef = "qualified" THEN "configured" ELSE "local"]]
  BY Zenon DEF Turns!Begin
<1> DEFINE w == [turn[t] EXCEPT !.stage = "resolve", !.stream = stream, !.cap = maxIterations,
                   !.provider = IF modelRef = "qualified" THEN "configured" ELSE "local"]
<1>2. turn[t] \in TurnRec /\ turn[t].stage = "idle" /\ Spent(turn[t]) /\ Told(turn[t]) /\ Asked(t)
  BY DEF TurnsInv, Turns!Begin
<1>3. /\ w \in TurnRec /\ w.stage = "resolve" /\ w.calls = turn[t].calls
      /\ w.iterations = turn[t].iterations /\ w.overflow = turn[t].overflow
      /\ w.transient = turn[t].transient /\ w.ends = turn[t].ends /\ w.result = turn[t].result
      /\ w.closed = turn[t].closed /\ w.cap = maxIterations
  <2>1. maxIterations \in 0..MaxIterations /\ "resolve" \in Turns!Stages
        /\ {"configured", "local"} \subseteq Turns!Providers
    BY DEF TurnsInv, Turns!Stages, Turns!Providers
  <2> QED
    BY <1>2, <2>1 DEF TurnRec
<1> HIDE DEF w
<1>4. Spent(w) /\ Told(w) /\ w.result = "none"
  <2>1. /\ w.calls = 0 /\ w.iterations \in Nat /\ w.overflow \in Nat /\ w.transient \in Nat
        /\ w.cap \in Nat /\ MaxOverflow \in Nat /\ MaxTransient \in Nat
    BY <1>2, <1>3 DEF Spent, TurnRec, TurnsInv, Turns!AgentTurnsAssumption
  <2> QED
    BY <1>2, <1>3, <2>1 DEF Spent, Told
<1>5. turn' \in [Turn -> TurnRec] /\ turn'[t] = w /\ \A u \in Turn \ {t} : turn'[u] = turn[u]
  BY <1>1, <1>3 DEF TurnsInv, w
<1>6. /\ asked' \in [Turn -> {"no", "yes", "overtaken"}] /\ asked'[t] = asked[t]
      /\ \A u \in Turn \ {t} : asked'[u] = IF asked[u] = "yes" THEN "overtaken" ELSE asked[u]
  BY DEF TurnsInv, Turns!Begin
<1>7. stopRequested' = FALSE /\ UNCHANGED <<modelRef, maxIterations, settings>>
  BY DEF Turns!Begin
<1>9. \A u \in Turn : turn'[u].calls = turn[u].calls /\ ~(turn[u].calls > turn[u].calls)
  BY <1>3, <1>5 DEF TurnsInv, TurnRec
<1>10. StopHeeded
  BY <1>9 DEF StopHeeded
<1>8. ASSUME NEW u \in Turn
      PROVE  Spent(turn[u])' /\ Told(turn[u])' /\ Asked(u)' /\ InForce(u)'
  <2>1. CASE u = t
    <3>1. asked[t] = "no"
      BY <1>2 DEF Asked
    <3>2. InForce(u)'
      <4>1. maxIterations <= maxIterations
        BY DEF TurnsInv
      <4> QED
        BY <1>3, <1>5, <1>7, <2>1, <4>1 DEF InForce
    <3> QED
      BY <1>3, <1>4, <1>5, <1>6, <1>7, <2>1, <3>1, <3>2 DEF Asked, Turns!Running, Spent, Told
  <2>2. CASE u # t
    <3>1. Spent(turn[u])' /\ Told(turn[u])'
      BY <1>5, <2>2 DEF TurnsInv, Spent, Told
    <3>2. Asked(u)'
      BY <1>5, <1>6, <1>7, <2>2 DEF TurnsInv, Asked, Turns!Running
    <3>3. InForce(u)'
      BY <1>5, <1>7, <2>2 DEF TurnsInv, InForce, Turns!Running
    <3> QED
      BY <3>1, <3>2, <3>3
  <2> QED
    BY <2>1, <2>2
<1> QED
  BY <1>5, <1>6, <1>7, <1>8, <1>10 DEF TurnsInv

LEMMA StopTurnsInv == ASSUME TurnsInv, Turns!Stop PROVE TurnsInv' /\ StopHeeded
<1>1. /\ stopRequested' = TRUE /\ UNCHANGED <<modelRef, maxIterations, settings, turn>>
      /\ asked' \in [Turn -> {"no", "yes", "overtaken"}]
      /\ \A u \in Turn : asked'[u] = IF Turns!Running(u) THEN "yes" ELSE asked[u]
  BY DEF Turns!Stop, TurnsInv
<1>2. ASSUME NEW u \in Turn
      PROVE  Spent(turn[u])' /\ Told(turn[u])' /\ Asked(u)' /\ InForce(u)'
  BY <1>1 DEF TurnsInv, Spent, Told, Asked, InForce, Turns!Running
<1>3. \A u \in Turn : ~(turn[u].calls > turn[u].calls)
  BY DEF TurnsInv, TurnRec
<1> QED
  BY <1>1, <1>2, <1>3 DEF TurnsInv, StopHeeded

LEMMA SetModelInv == ASSUME TurnsInv, Turns!SetModel, MaxSettings \in Nat PROVE TurnsInv' /\ StopHeeded
<1>1. settings' \in 0..MaxSettings /\ modelRef' = "qualified"
      /\ UNCHANGED <<stopRequested, maxIterations, turn, asked>>
  BY DEF Turns!SetModel, TurnsInv
<1>2. \A u \in Turn : ~(turn[u].calls > turn[u].calls)
  BY DEF TurnsInv, TurnRec
<1> QED
  BY <1>1, <1>2 DEF TurnsInv, StopHeeded, Spent, Told, Asked, InForce, Turns!Running

\* A limit that grows leaves a turn what it had.
LEMMA SetConfigInv ==
    ASSUME Turns!AgentTurnsAssumption, TurnsInv, Turns!SetConfig
    PROVE  TurnsInv' /\ StopHeeded
<1>1. PICK limit \in 1..MaxIterations :
        /\ maxIterations' = limit
        /\ turn' = [t \in Turn |-> IF Turns!Running(t) /\ limit > turn[t].cap
                                   THEN [turn[t] EXCEPT !.cap = limit] ELSE turn[t]]
  BY DEF Turns!SetConfig
<1>2. settings' \in 0..MaxSettings /\ modelRef' = "qualified" /\ UNCHANGED <<stopRequested, asked>>
  BY DEF Turns!SetConfig, TurnsInv, Turns!AgentTurnsAssumption
<1>3. MaxIterations \in Nat /\ MaxOverflow \in Nat /\ MaxTransient \in Nat
  BY DEF Turns!AgentTurnsAssumption
<1>4. ASSUME NEW t \in Turn
      PROVE  /\ turn'[t] \in TurnRec /\ (turn'[t]).calls = turn[t].calls
             /\ Spent(turn'[t]) /\ Told(turn'[t]) /\ Asked(t)' /\ InForce(t)'
  <2> DEFINE s == turn[t]
             w == [s EXCEPT !.cap = limit]
  <2>1. s \in TurnRec /\ Spent(s) /\ Told(s) /\ Asked(t)
    BY DEF TurnsInv
  <2>2. CASE Turns!Running(t) /\ limit > s.cap
    <3>1. turn'[t] = w
      BY <1>1, <2>2
    <3>2. limit \in 0..MaxIterations
      BY <1>3
    <3>3. /\ w \in TurnRec /\ w.cap = limit /\ w.stage = s.stage /\ w.calls = s.calls
          /\ w.iterations = s.iterations /\ w.overflow = s.overflow
          /\ w.transient = s.transient
      BY <2>1, <3>2 DEF TurnRec
    <3>4. /\ w.ends = s.ends /\ w.stream = s.stream /\ w.closed = s.closed
          /\ w.muted = s.muted /\ w.tools = s.tools /\ w.hollow = s.hollow
          /\ w.result = s.result
      BY <2>1 DEF TurnRec
    <3>5. s.stage \notin {"idle", "done"}
      BY <2>2 DEF Turns!Running
    <3> HIDE DEF w
    <3>6. Spent(w)
      <4>1. /\ s.iterations \in Nat /\ s.cap \in Nat /\ s.calls \in Nat /\ limit \in Nat
        BY <1>3, <2>1 DEF TurnRec
      <4> QED
        BY <1>3, <2>1, <2>2, <3>3, <4>1 DEF Spent
    <3>7. Told(w)
      BY <2>1, <3>3, <3>4 DEF Told
    <3>8. Asked(t)'
      BY <1>2, <2>1, <2>2, <3>1, <3>3, <3>4 DEF Asked, Turns!Running
    <3>9. InForce(t)'
      BY <1>1, <3>1, <3>3 DEF InForce
    <3> QED
      BY <3>1, <3>3, <3>6, <3>7, <3>8, <3>9
  <2>3. CASE ~(Turns!Running(t) /\ limit > s.cap)
    <3>1. turn'[t] = s
      BY <1>1, <2>3
    <3>2. Asked(t)'
      BY <1>2, <2>1, <3>1 DEF Asked, Turns!Running
    <3>3. s.cap \in 0..MaxIterations
      BY <2>1 DEF TurnRec
    <3>4. Turns!Running(t) => limit <= s.cap
      BY <1>3, <2>3, <3>3
    <3>5. InForce(t)'
      BY <1>1, <3>1, <3>4 DEF InForce, Turns!Running
    <3> QED
      BY <2>1, <3>1, <3>2, <3>5
  <2> QED
    BY <2>2, <2>3
<1>5. turn' \in [Turn -> TurnRec]
  BY <1>1, <1>4
<1>6. \A u \in Turn : ~((turn'[u]).calls > turn[u].calls)
  BY <1>4 DEF TurnsInv, TurnRec
<1>7. maxIterations' \in 1..MaxIterations
  BY <1>1
<1>8. StopHeeded
  BY <1>6 DEF StopHeeded
<1>9. (\A u \in Turn : Spent(turn[u]) /\ Told(turn[u]) /\ Asked(u) /\ InForce(u))'
  BY <1>4
<1> QED
  BY <1>2, <1>5, <1>7, <1>8, <1>9 DEF TurnsInv

LEMMA ChunkTyped ==
    ASSUME NEW s \in TurnRec, NEW a \in BOOLEAN, NEW b \in BOOLEAN, NEW c \in BOOLEAN,
           NEW d \in BOOLEAN, NEW e \in Nat
    PROVE  [s EXCEPT !.closed = a, !.muted = b, !.text = c, !.tools = d, !.ends = e] \in TurnRec
BY DEF TurnRec

\* The steps of a turn between its beginning and its end.
LEMMA TurnStepInv ==
    ASSUME TurnsInv, Turns!AgentTurnsAssumption, NEW t \in Turn,
           \/ Turns!Resolve(t) \/ Turns!StartCall(t) \/ Turns!LeaveLoop(t)
           \/ Turns!Answer(t) \/ Turns!Chunk(t) \/ Turns!StreamCloses(t) \/ Turns!RunTools(t)
    PROVE  TurnsInv' /\ StopHeeded
<1> DEFINE s == turn[t]
           Kept == /\ modelRef' \in {"qualified", "bare"}
                   /\ UNCHANGED <<stopRequested, maxIterations, settings, asked>>
<1>1. s \in TurnRec /\ Spent(s) /\ Told(s)
  BY DEF TurnsInv
<1>2. Kept
  <2>1. \/ modelRef' = "bare"
        \/ modelRef' = modelRef
    BY Zenon DEF Turns!Resolve, Turns!StartCall, Turns!LeaveLoop, Turns!Answer, Turns!Chunk,
         Turns!StreamCloses, Turns!RunTools
  <2>2. UNCHANGED <<stopRequested, maxIterations, settings, asked>>
    BY Zenon DEF Turns!Resolve, Turns!StartCall, Turns!LeaveLoop, Turns!Answer, Turns!Chunk,
         Turns!StreamCloses, Turns!RunTools
  <2> QED
    BY <2>1, <2>2 DEF TurnsInv
<1>3. /\ s.stage \in Turns!Stages /\ s.ends \in Nat /\ s.calls \in Nat
      /\ s.iterations \in 0..MaxIterations /\ s.cap \in 0..MaxIterations
      /\ s.overflow \in 0..MaxOverflow
      /\ s.transient \in 0..MaxTransient
      /\ {MaxIterations, MaxOverflow, MaxTransient} \subseteq Nat
  BY <1>1 DEF TurnRec, Turns!AgentTurnsAssumption
<1>4. SUFFICES \E w \in TurnRec : /\ turn' = [turn EXCEPT ![t] = w]
                                  /\ Spent(w) /\ Told(w)
                                  /\ s.stage \notin {"idle", "done"} /\ w.stage # "idle"
                                  /\ w.stage = "done" \/ w.cap = s.cap
                                  /\ w.result = "stopped" => stopRequested
                                  /\ w.calls > s.calls => ~stopRequested
  BY <1>2, TurnMoves
<1>11. ~(s.calls > s.calls)
  BY <1>3
<1>5. CASE Turns!Resolve(t)
  <2> DEFINE w == [s EXCEPT !.stage = "loop", !.provider = "none"]
  <2>1. /\ w \in TurnRec
        /\ turn' = [turn EXCEPT ![t] = w]
        /\ s.stage = "resolve"
    <3>1. w \in TurnRec
      BY <1>1 DEF TurnRec, Turns!Stages, Turns!Providers
    <3>2. turn' = [turn EXCEPT ![t] = w] /\ s.stage = "resolve"
      BY <1>5, Zenon DEF Turns!Resolve
    <3> QED
      BY <3>1, <3>2
  <2>2. /\ w.stage = "loop" /\ w.calls = s.calls /\ w.cap = s.cap /\ w.iterations = s.iterations
        /\ w.overflow = s.overflow /\ w.transient = s.transient
        /\ w.ends = s.ends /\ w.closed = s.closed /\ w.result = s.result
    BY <1>1 DEF TurnRec
  <2> HIDE DEF w
  <2>3. Spent(w) /\ Told(w) /\ w.result = "none"
    BY <1>1, <2>1, <2>2 DEF Spent, Told
  <2> QED
    BY <1>11, <2>1, <2>2, <2>3
<1>6. CASE Turns!StartCall(t)
  <2> DEFINE w == [s EXCEPT !.stage = "call", !.calls = s.calls + 1]
  <2>0. s.calls + 1 \in Nat
    BY <1>3
  <2>1. turn' = [turn EXCEPT ![t] = w]
    BY <1>6, Zenon DEF Turns!StartCall
  <2>4. s.stage = "loop" /\ s.iterations < s.cap /\ ~stopRequested
    <3>1. s.stage = "loop" /\ s.iterations < maxIterations /\ ~stopRequested
      BY <1>6 DEF Turns!StartCall
    <3>2. maxIterations <= s.cap /\ maxIterations \in Int
      BY <3>1 DEF TurnsInv, InForce, Turns!Running
    <3> QED
      BY <1>3, <3>1, <3>2
  <2>2. /\ w \in TurnRec /\ w.stage = "call" /\ w.calls = s.calls + 1
        /\ w.iterations = s.iterations /\ w.overflow = s.overflow /\ w.transient = s.transient
        /\ w.ends = s.ends /\ w.result = s.result /\ w.cap = s.cap /\ w.closed = s.closed
    BY <1>1, <2>0 DEF TurnRec, Turns!Stages
  <2> HIDE DEF w
  <2>3. Spent(w) /\ Told(w) /\ w.result = "none"
    BY <1>1, <1>3, <2>2, <2>4 DEF Spent, Told
  <2> QED
    BY <1>11, <2>1, <2>2, <2>3, <2>4
<1>7. CASE Turns!LeaveLoop(t)
  <2> DEFINE w == [s EXCEPT !.stage = "exit"]
  <2>1. w \in TurnRec /\ turn' = [turn EXCEPT ![t] = w] /\ s.stage = "loop"
    BY <1>1, <1>7 DEF Turns!LeaveLoop, TurnRec, Turns!Stages
  <2>2. /\ w.stage = "exit" /\ w.calls = s.calls /\ w.cap = s.cap
        /\ w.ends = s.ends /\ w.result = s.result
    BY <1>1 DEF TurnRec
  <2> HIDE DEF w
  <2>3. Spent(w) /\ Told(w) /\ w.result = "none"
    BY <1>1, <2>1, <2>2 DEF Spent, Told
  <2> QED
    BY <1>11, <2>1, <2>2, <2>3
<1>8. CASE Turns!Answer(t)
  <2>1. PICK words, wants \in BOOLEAN :
          turn' = [turn EXCEPT ![t] = [@ EXCEPT !.stage = "answered", !.text = words, !.tools = wants]]
    BY <1>8, Zenon DEF Turns!Answer
  <2> DEFINE w == [s EXCEPT !.stage = "answered", !.text = words, !.tools = wants]
  <2>2. turn' = [turn EXCEPT ![t] = w] /\ s.stage = "call" /\ ~s.stream
    BY <1>8, <2>1, Zenon DEF Turns!Answer
  <2>3. /\ w \in TurnRec /\ w.stage = "answered" /\ w.stream = s.stream /\ w.calls = s.calls
        /\ w.ends = s.ends /\ w.cap = s.cap
        /\ w.iterations = s.iterations /\ w.overflow = s.overflow /\ w.transient = s.transient
        /\ w.result = s.result
    BY <1>1 DEF TurnRec, Turns!Stages
  <2> HIDE DEF w
  <2>4. Spent(w) /\ Told(w) /\ w.result = "none"
    BY <1>1, <1>3, <2>2, <2>3 DEF Spent, Told
  <2> QED
    BY <1>11, <2>2, <2>3, <2>4
<1>9. CASE Turns!Chunk(t)
  <2> DEFINE W(chunk) == [s EXCEPT
               !.closed = chunk = "end",
               !.muted = chunk = "end" /\ stopRequested,
               !.text  = s.text \/ (chunk = "text" /\ ~stopRequested),
               !.tools = s.tools \/ (chunk = "tools" /\ ~stopRequested),
               !.ends  = IF chunk = "end" /\ ~stopRequested /\ ~s.tools THEN s.ends + 1 ELSE s.ends]
  <2>1. PICK chunk \in {"text", "tools", "end"} : turn' = [turn EXCEPT ![t] = W(chunk)]
    BY <1>9, Zenon DEF Turns!Chunk
  <2> DEFINE w == W(chunk)
  <2>2. turn' = [turn EXCEPT ![t] = w]
    BY <2>1
  <2>9. s.stage = "call" /\ s.stream /\ ~s.closed
    BY <1>9 DEF Turns!Chunk
  <2>3. stopRequested \in BOOLEAN /\ s.tools \in BOOLEAN /\ s.text \in BOOLEAN /\ s.ends + 1 \in Nat
    BY <1>1, <1>3 DEF TurnsInv, TurnRec
  <2>4. /\ w \in TurnRec /\ w.calls = s.calls /\ w.iterations = s.iterations
        /\ w.overflow = s.overflow /\ w.transient = s.transient /\ w.result = s.result
        /\ w.stream = s.stream /\ w.cap = s.cap /\ w.stage = s.stage
    <3>2. s.ends \in Nat
      BY <1>1 DEF TurnRec
    <3>3. w \in TurnRec
      <4> DEFINE a == chunk = "end"
                 b == chunk = "end" /\ stopRequested
                 c == s.text \/ (chunk = "text" /\ ~stopRequested)
                 d == s.tools \/ (chunk = "tools" /\ ~stopRequested)
                 e == IF chunk = "end" /\ ~stopRequested /\ ~s.tools THEN s.ends + 1 ELSE s.ends
      <4>2. a \in BOOLEAN /\ b \in BOOLEAN /\ c \in BOOLEAN /\ d \in BOOLEAN
        OBVIOUS
      <4>3. e \in Nat
        BY <2>3, <3>2
      <4>4. w = [s EXCEPT !.closed = a, !.muted = b, !.text = c, !.tools = d, !.ends = e]
        OBVIOUS
      <4> HIDE DEF a, b, c, d, e, w
      <4> QED
        BY <1>1, <4>2, <4>3, <4>4, ChunkTyped, Zenon
    <3>4. w.calls = s.calls /\ w.iterations = s.iterations /\ w.overflow = s.overflow
      BY <1>1 DEF TurnRec
    <3>5. w.transient = s.transient /\ w.result = s.result /\ w.stream = s.stream
      BY <1>1 DEF TurnRec
    <3>6. w.cap = s.cap /\ w.stage = s.stage
      BY <1>1 DEF TurnRec
    <3> HIDE DEF w
    <3> QED
      BY <3>3, <3>4, <3>5, <3>6
  <2>5. /\ w.closed <=> chunk = "end"
        /\ w.ends = IF chunk = "end" /\ ~stopRequested /\ ~s.tools THEN s.ends + 1 ELSE s.ends
    BY <1>1, <2>9 DEF TurnRec
  <2>6. /\ w.muted <=> chunk = "end" /\ stopRequested
        /\ w.tools <=> s.tools \/ (chunk = "tools" /\ ~stopRequested)
    BY <1>1, <2>3 DEF TurnRec
  <2> HIDE DEF w
  <2>7. Spent(w) /\ w.result = "none"
    BY <1>1, <1>3, <2>4, <2>5, <2>9 DEF Spent, Told
  <2>8. Told(w)
    BY <1>1, <2>4, <2>5, <2>6, <2>7, <2>9 DEF Told
  <2> QED
    BY <1>11, <2>2, <2>4, <2>5, <2>7, <2>8, <2>9
<1>12. CASE Turns!StreamCloses(t)
  <2> DEFINE m == s.muted \/ ~s.closed
             w == [s EXCEPT !.stage = "answered", !.muted = m]
  <2>1. turn' = [turn EXCEPT ![t] = w] /\ s.stage = "call" /\ s.stream
    BY <1>12 DEF Turns!StreamCloses
  <2>2. m \in BOOLEAN /\ "answered" \in Turns!Stages
    BY DEF Turns!Stages
  <2> HIDE DEF m
  <2>3. /\ w \in TurnRec /\ w.stage = "answered" /\ w.muted = m /\ w.calls = s.calls
        /\ w.iterations = s.iterations /\ w.overflow = s.overflow /\ w.transient = s.transient
        /\ w.cap = s.cap
    BY <1>1, <2>2 DEF TurnRec
  <2>4. w.ends = s.ends /\ w.stream = s.stream /\ w.tools = s.tools /\ w.result = s.result
    BY <1>1 DEF TurnRec
  <2> HIDE DEF w
  <2>5. Spent(w) /\ w.result = "none"
    BY <1>1, <1>3, <2>1, <2>3, <2>4 DEF Spent, Told
  <2>6. Told(w)
    BY <1>1, <2>1, <2>3, <2>4, <2>5 DEF Told, m
  <2> QED
    BY <1>11, <2>1, <2>3, <2>5, <2>6
<1>10. CASE Turns!RunTools(t)
  <2> DEFINE f == Turns!Forgotten(s)
             w == [f EXCEPT !.stage = "loop", !.iterations = s.iterations + 1]
  <2>1. turn' = [turn EXCEPT ![t] = w]
    BY <1>10, Zenon DEF Turns!RunTools
  <2>6. s.stage = "answered" /\ s.tools
    BY <1>10 DEF Turns!RunTools
  <2>2. /\ f \in TurnRec /\ f.ends = s.ends /\ f.calls = s.calls /\ f.iterations = s.iterations
        /\ f.overflow = s.overflow /\ f.transient = s.transient /\ f.result = s.result
        /\ f.stream = s.stream /\ f.cap = s.cap /\ ~f.closed
    BY <1>1, ForgottenTurn
  <2>3. s.iterations < s.cap /\ s.calls <= s.iterations + s.overflow + s.transient + 1
        /\ s.result = "none" /\ s.ends = 0 /\ s.iterations + 1 \in 0..MaxIterations
    BY <1>1, <1>3, <2>2, <2>6 DEF Spent, Told
  <2> HIDE DEF f
  <2>4. /\ w \in TurnRec /\ w.stage = "loop" /\ w.calls = s.calls
        /\ w.iterations = s.iterations + 1 /\ w.overflow = s.overflow
        /\ w.transient = s.transient /\ w.result = s.result /\ w.ends = s.ends
        /\ w.cap = s.cap /\ ~w.closed
    BY <2>2, <2>3 DEF TurnRec, Turns!Stages
  <2> HIDE DEF w
  <2>5. Spent(w) /\ Told(w)
    BY <1>1, <1>3, <2>3, <2>4 DEF Spent, Told
  <2> QED
    BY <1>11, <2>1, <2>3, <2>4, <2>5, <2>6
<1> QED
  BY <1>5, <1>6, <1>7, <1>8, <1>9, <1>10, <1>12

\* The steps that end a turn, or take it out of the loop.
LEMMA TurnEndInv ==
    ASSUME TurnsInv, Turns!AgentTurnsAssumption, NEW t \in Turn,
           Turns!FinalAnswer(t) \/ Turns!CallFails(t) \/ Turns!Exit(t)
    PROVE  TurnsInv' /\ StopHeeded
<1> DEFINE s == turn[t]
<1>1. s \in TurnRec /\ Spent(s) /\ Told(s) /\ modelRef \in {"qualified", "bare"}
  BY DEF TurnsInv
<1>2. UNCHANGED <<stopRequested, modelRef, maxIterations, settings, asked>>
  BY Zenon DEF Turns!FinalAnswer, Turns!CallFails, Turns!Exit
<1>3. /\ s.ends \in Nat /\ s.calls \in Nat /\ s.stream \in BOOLEAN /\ s.tools \in BOOLEAN
      /\ s.text \in BOOLEAN /\ s.closed \in BOOLEAN /\ s.muted \in BOOLEAN
      /\ s.iterations \in 0..MaxIterations /\ s.cap \in 0..MaxIterations
      /\ s.overflow \in 0..MaxOverflow /\ s.transient \in 0..MaxTransient
      /\ {MaxIterations, MaxOverflow, MaxTransient} \subseteq Nat
  BY <1>1 DEF TurnRec, Turns!AgentTurnsAssumption
<1>4. SUFFICES \E w \in TurnRec : /\ turn' = [turn EXCEPT ![t] = w]
                                  /\ Spent(w) /\ Told(w)
                                  /\ s.stage \notin {"idle", "done"} /\ w.stage # "idle"
                                  /\ w.stage = "done" \/ w.cap = s.cap
                                  /\ w.result = "stopped" => stopRequested
                                  /\ w.calls > s.calls => ~stopRequested
  BY <1>1, <1>2, TurnMoves
<1>5. {"completed", "stopped", "error"} \subseteq Turns!Results
  BY DEF Turns!Results
<1>9. ~(s.calls > s.calls) /\ ~(0 > s.calls)
  BY <1>3
<1>6. CASE Turns!FinalAnswer(t)
  <2> DEFINE empty == ~turn[t].text
             h == [s EXCEPT !.hollow = empty]
  <2>1. s.stage = "answered" /\ ~s.tools /\ s.result = "none"
    BY <1>1, <1>6 DEF Turns!FinalAnswer, Told
  <2>2. CASE empty /\ ~s.stream
    <3> DEFINE w == [s EXCEPT !.stage = "exit", !.hollow = TRUE]
    <3>1. turn' = [turn EXCEPT ![t] = w]
      BY <1>6, <2>2 DEF Turns!FinalAnswer
    <3>2. /\ w \in TurnRec /\ w.stage = "exit" /\ w.stream = s.stream /\ w.calls = s.calls
          /\ w.ends = s.ends /\ w.result = s.result /\ w.cap = s.cap
      BY <1>1 DEF TurnRec, Turns!Stages
    <3> HIDE DEF w
    <3>3. Spent(w) /\ Told(w)
      BY <1>1, <1>3, <2>1, <2>2, <3>2 DEF Spent, Told
    <3> QED
      BY <1>9, <2>1, <3>1, <3>2, <3>3
  <2>3. CASE ~(empty /\ ~s.stream)
    <3> DEFINE n == IF empty THEN 1 ELSE 0
               w == Turns!Ended(h, "completed", n)
    <3>1. turn' = [turn EXCEPT ![t] = w]
      BY <1>6, <2>3 DEF Turns!FinalAnswer
    <3>2. /\ h \in TurnRec /\ h.stream = s.stream /\ h.ends = s.ends /\ h.muted = s.muted
          /\ h.hollow = empty
      BY <1>1, <1>3 DEF TurnRec
    <3> HIDE DEF h
    <3>3. n \in Nat /\ n \in {0, 1} /\ (n = 1 <=> empty)
      OBVIOUS
    <3> HIDE DEF n
    <3>4. /\ w \in TurnRec /\ w.stage = "done" /\ w.result = "completed" /\ w.stream = s.stream
          /\ w.ends = s.ends + n /\ w.muted = s.muted /\ w.hollow = empty /\ w.calls = 0 /\ Spent(w)
      <4>1. /\ w \in TurnRec /\ w.stage = "done" /\ w.result = "completed" /\ w.stream = h.stream
            /\ w.ends = h.ends + n /\ w.muted = h.muted /\ w.hollow = h.hollow /\ w.calls = 0
            /\ Spent(w)
        <5>1. h \in TurnRec /\ "completed" \in Turns!Results /\ n \in Nat
          BY <1>5, <3>2, <3>3, Zenon
        <5> QED
          BY <5>1, EndedTurn, SMTT(30)
      <4> QED
        BY <3>2, <4>1, Zenon
    <3> HIDE DEF w
    <3>5. \/ s.ends = 0 /\ (s.stream => s.muted)
          \/ s.ends = 1 /\ s.stream
      BY <1>1, <2>1 DEF Told
    <3>6. Told(w)
      <4>1. CASE ~s.stream
        BY <3>4, <4>1 DEF Told
      <4>2. CASE s.stream /\ s.ends = 0 /\ s.muted /\ n = 0
        BY <3>4, <4>2 DEF Told
      <4>3. CASE s.ends + n = 1
        BY <3>4, <4>3 DEF Told
      <4>4. CASE s.ends + n = 2 /\ n = 1
        BY <3>3, <3>4, <4>4 DEF Told
      <4> QED
        BY <3>3, <3>5, <4>1, <4>2, <4>3, <4>4
    <3> QED
      BY <1>9, <2>1, <3>1, <3>4, <3>6
  <2> QED
    BY <2>2, <2>3
<1>7. CASE Turns!CallFails(t)
  <2> DEFINE sent == IF Turns!EndSent(s) THEN 1 ELSE 0
             p == Turns!Uncounted(s)
             f == Turns!Forgotten(p)
  <2>1. PICK failure \in Turns!ErrorKind : turn' = [turn EXCEPT ![t] = Turns!Retry(p, failure)]
    BY <1>7, Zenon DEF Turns!CallFails
  <2>2. s.stage = "call" /\ s.result = "none" /\ s.iterations < s.cap
        /\ s.calls <= s.iterations + s.overflow + s.transient + 1
    BY <1>1, <1>7 DEF Turns!CallFails, Told, Spent
  <2>7. s.ends - sent = 0
    BY <1>1, <1>3, <2>2 DEF Told, Turns!EndSent
  <2> HIDE DEF sent
  <2>8. /\ p \in TurnRec /\ p.ends = 0 /\ p.stage = s.stage /\ p.calls = s.calls
        /\ p.iterations = s.iterations /\ p.overflow = s.overflow /\ p.transient = s.transient
    <3> DEFINE e == s.ends - sent
               q == [s EXCEPT !.ends = e]
    <3>1. p = q
      BY DEF Turns!Uncounted, sent
    <3>2. e = 0
      BY <2>7
    <3> HIDE DEF e, p
    <3>3. /\ q \in TurnRec /\ q.ends = 0 /\ q.stage = s.stage /\ q.calls = s.calls
          /\ q.iterations = s.iterations /\ q.overflow = s.overflow /\ q.transient = s.transient
      BY <1>1, <3>2 DEF TurnRec
    <3> QED
      BY <3>1, <3>3
  <2>9. p.result = s.result /\ p.stream = s.stream /\ p.cap = s.cap
    BY <1>1 DEF TurnRec, Turns!Uncounted
  <2> HIDE DEF p
  <2>3. /\ f \in TurnRec /\ f.ends = 0 /\ f.calls = s.calls /\ f.iterations = s.iterations
        /\ f.overflow = s.overflow /\ f.transient = s.transient /\ f.result = s.result
        /\ f.stream = s.stream /\ f.cap = s.cap /\ ~f.closed
    BY <2>8, <2>9, ForgottenTurn
  <2>4. CASE failure = "overflow" /\ p.overflow < MaxOverflow
    <3> DEFINE w == [f EXCEPT !.stage = "loop", !.overflow = @ + 1]
    <3>1. Turns!Retry(p, failure) = w
      BY <2>4 DEF Turns!Retry
    <3>2. f.overflow + 1 \in 0..MaxOverflow
      BY <1>3, <2>3, <2>4, <2>8
    <3> HIDE DEF f
    <3>3. /\ w \in TurnRec /\ w.stage = "loop" /\ w.calls = s.calls
          /\ w.iterations = s.iterations /\ w.overflow = s.overflow + 1
          /\ w.transient = s.transient /\ w.result = s.result /\ w.ends = 0
          /\ w.cap = s.cap /\ ~w.closed
      BY <2>3, <3>2 DEF TurnRec, Turns!Stages
    <3> HIDE DEF w
    <3>4. Spent(w) /\ Told(w)
      BY <1>1, <1>3, <2>2, <3>3 DEF Spent, Told
    <3> QED
      BY <1>9, <2>1, <2>2, <3>1, <3>3, <3>4
  <2>5. CASE failure = "retryable" /\ p.transient < MaxTransient
    <3> DEFINE w == [f EXCEPT !.stage = "loop", !.transient = @ + 1]
    <3>1. Turns!Retry(p, failure) = w
      BY <2>5 DEF Turns!Retry
    <3>2. f.transient + 1 \in 0..MaxTransient
      BY <1>3, <2>3, <2>5, <2>8
    <3> HIDE DEF f
    <3>3. /\ w \in TurnRec /\ w.stage = "loop" /\ w.calls = s.calls
          /\ w.iterations = s.iterations /\ w.overflow = s.overflow
          /\ w.transient = s.transient + 1 /\ w.result = s.result /\ w.ends = 0
          /\ w.cap = s.cap /\ ~w.closed
      BY <2>3, <3>2 DEF TurnRec, Turns!Stages
    <3> HIDE DEF w
    <3>4. Spent(w) /\ Told(w)
      BY <1>1, <1>3, <2>2, <3>3 DEF Spent, Told
    <3> QED
      BY <1>9, <2>1, <2>2, <3>1, <3>3, <3>4
  <2>6. CASE /\ ~(failure = "overflow" /\ p.overflow < MaxOverflow)
             /\ ~(failure = "retryable" /\ p.transient < MaxTransient)
    <3> DEFINE n == IF s.stream THEN 1 ELSE 0
               w == Turns!Ended(p, "error", n)
    <3>1. Turns!Retry(p, failure) = w
      BY <2>6, <2>9 DEF Turns!Retry
    <3>2. n \in Nat /\ (s.stream => n = 1)
      OBVIOUS
    <3> HIDE DEF n
    <3>3. /\ w \in TurnRec /\ w.stage = "done" /\ w.result = "error" /\ w.stream = s.stream
          /\ w.ends = 0 + n /\ w.calls = 0 /\ Spent(w)
      BY <1>5, <2>8, <2>9, <3>2, EndedTurn, SMTT(90)
    <3> HIDE DEF w
    <3>4. Told(w)
      BY <2>2, <3>2, <3>3 DEF Told
    <3> QED
      BY <1>9, <2>1, <2>2, <3>1, <3>3, <3>4
  <2> QED
    BY <2>4, <2>5, <2>6
<1>8. CASE Turns!Exit(t)
  <2> DEFINE n == IF s.stream THEN 1 ELSE 0
             result_of == IF stopRequested THEN "stopped" ELSE "error"
             w == Turns!Ended(s, result_of, n)
  <2>1. turn' = [turn EXCEPT ![t] = w]
    BY <1>8 DEF Turns!Exit
  <2>2. s.stage = "exit" /\ s.result = "none" /\ (s.stream => s.ends = 0)
    BY <1>1, <1>8 DEF Turns!Exit, Told
  <2>3. n \in Nat /\ (s.stream => n = 1)
    OBVIOUS
  <2>4. result_of \in Turns!Results /\ (result_of = "stopped" => stopRequested)
    BY <1>5
  <2> HIDE DEF n, result_of
  <2>5. /\ w \in TurnRec /\ w.stage = "done" /\ w.result = result_of /\ w.stream = s.stream
        /\ w.ends = s.ends + n /\ w.calls = 0 /\ Spent(w)
    BY <1>1, <2>3, <2>4, EndedTurn
  <2> HIDE DEF w
  <2>6. Told(w)
    BY <2>2, <2>3, <2>5 DEF Told
  <2> QED
    BY <1>9, <2>1, <2>2, <2>4, <2>5, <2>6
<1> QED
  BY <1>6, <1>7, <1>8

LEMMA TurnsNext ==
    ASSUME Turns!AgentTurnsAssumption
    PROVE  TurnsInv /\ [Turns!Next]_(Turns!turnVars) => TurnsInv' /\ StopHeeded
<1> SUFFICES ASSUME TurnsInv, [Turns!Next]_(Turns!turnVars)
             PROVE  TurnsInv' /\ StopHeeded
  OBVIOUS
<1>1. CASE Turns!Stop
  BY <1>1, StopTurnsInv
<1>2. CASE Turns!SetModel
  BY <1>2, SetModelInv DEF Turns!AgentTurnsAssumption
<1>5. CASE Turns!SetConfig
  BY <1>5, SetConfigInv
<1>3. ASSUME NEW t \in Turn,
             \/ Turns!Begin(t) \/ Turns!Resolve(t) \/ Turns!StartCall(t) \/ Turns!LeaveLoop(t)
             \/ Turns!Answer(t) \/ Turns!Chunk(t) \/ Turns!StreamCloses(t) \/ Turns!RunTools(t)
             \/ Turns!FinalAnswer(t) \/ Turns!CallFails(t) \/ Turns!Exit(t)
      PROVE  TurnsInv' /\ StopHeeded
  BY <1>3, BeginTurnInv, TurnStepInv, TurnEndInv
<1>4. CASE UNCHANGED Turns!turnVars
  <2>1. \A u \in Turn : ~(turn[u].calls > turn[u].calls)
    BY DEF TurnsInv, TurnRec
  <2> QED
    BY <1>4, <2>1 DEF Turns!turnVars, TurnsInv, StopHeeded, Spent, Told, Asked, InForce, Turns!Running
<1> QED
  BY <1>1, <1>2, <1>3, <1>4, <1>5 DEF Turns!Next

\* The invariant the theorems below are drawn from.
THEOREM TurnsInvAlways == ASSUME Turns!AgentTurnsAssumption PROVE Turns!Spec => []TurnsInv
<1>1. ASSUME Turns!Init
      PROVE  TurnsInv
  <2> DEFINE w == Turns!NewTurn
  <2>1. 0 \in 0..MaxIterations /\ 0 \in 0..MaxOverflow /\ 0 \in 0..MaxTransient
        /\ MaxOverflow \in Nat /\ MaxTransient \in Nat /\ 0 \in 0..MaxSettings
    BY DEF Turns!AgentTurnsAssumption
  <2>2. w \in TurnRec
    BY <2>1 DEF TurnRec, Turns!NewTurn, Turns!Stages, Turns!Providers, Turns!Results
  <2>3. w.stage = "idle" /\ w.calls = 0 /\ w.ends = 0 /\ w.result = "none" /\ w.iterations = 0
        /\ w.overflow = 0 /\ w.transient = 0 /\ w.cap = 0 /\ ~w.closed
    BY DEF Turns!NewTurn
  <2> HIDE DEF w
  <2>4. Spent(w) /\ Told(w)
    BY <2>1, <2>3 DEF Spent, Told
  <2>5. turn = [t \in Turn |-> w] /\ asked = [t \in Turn |-> "no"]
    BY <1>1, Zenon DEF Turns!Init, w
  <2>6. ASSUME NEW t \in Turn
        PROVE  turn[t] = w /\ Asked(t) /\ InForce(t)
    <3>1. turn[t] = w /\ asked[t] = "no"
      BY <2>5, Zenon
    <3>2. turn[t].stage = "idle" /\ turn[t].result = "none"
      BY <2>3, <3>1, Zenon
    <3>3. ~Turns!Running(t)
      BY <3>2 DEF Turns!Running
    <3> QED
      BY <3>1, <3>2, <3>3, Zenon DEF Asked, InForce
  <2> QED
    BY <1>1, <2>1, <2>2, <2>4, <2>5, <2>6 DEF Turns!Init, TurnsInv
<1> QED
  BY <1>1, TurnsNext, PTL DEF Turns!Spec

\* Every turn of the agent loop stays within its budgets, sends one end event but
\* for the two exceptions, and is reported as stopped only when it was asked to, for
\* any number of turns that share the loop and any budgets (agent_loop.cpp).
THEOREM TurnsAlwaysAgree ==
    ASSUME Turns!AgentTurnsAssumption
    PROVE  Turns!Spec => [](Turns!TypeOK /\ Turns!CallsBounded /\ Turns!EndEvents
                            /\ Turns!StoppedWasAsked)
<1>1. TurnsInv => Turns!TypeOK
  BY DEF TurnsInv, TurnRec, Turns!TypeOK
<1>2. TurnsInv => Turns!CallsBounded /\ Turns!EndEvents /\ Turns!StoppedWasAsked
  BY DEF TurnsInv, Spent, Told, Asked, Turns!CallsBounded, Turns!EndEvents, Turns!StoppedWasAsked
<1> QED
  BY <1>1, <1>2, TurnsInvAlways, PTL

\* A Stop that found a turn running keeps it from calling the provider again, unless
\* another turn began in between (AgentLoop::Stop).
THEOREM StopAlwaysPreventsCalls ==
    ASSUME Turns!AgentTurnsAssumption PROVE Turns!Spec => Turns!StopPreventsCalls
<1>1. TurnsInv /\ [Turns!Next]_(Turns!turnVars) =>
        [\A t \in Turn : turn'[t].calls > turn[t].calls => asked[t] # "yes"]_(Turns!turnVars)
  BY TurnsNext DEF StopHeeded
<1> QED
  BY <1>1, TurnsInvAlways, PTL DEF Turns!Spec, Turns!StopPreventsCalls


(***************************************************************************)
(* The turns that come over several ways, and the history each is given.   *)
(***************************************************************************)

NoneOf(a, messages) == \A i \in 1..Len(messages) : messages[i].of # a

GivenPast(a) ==
    IF ask[a].way \in {"stream", "job"}
    THEN /\ ask[a].given = IF ask[a].way = "job" THEN past[a] ELSE Asks!Newest(Limit, past[a])
         /\ NoneOf(a, ask[a].given)
    ELSE a \in disturbed \/ ask[a].given = Asks!Newest(Limit - 1, past[a])

\* A question that was written is the last message, unless someone disturbed the
\* turn; a turn that has not begun has written nothing.
AskRight(a) ==
    /\ ask[a].stage = "idle" => NoneOf(a, transcript)
    /\ ask[a].stage = "asked" =>
         /\ ask[a].way \in {"queue", "request"}
         /\ a \in disturbed \/ transcript = Append(past[a], [of |-> a, kind |-> "question"])
    /\ ask[a].stage = "looked" => ask[a].way = "stream" /\ GivenPast(a)
    /\ ask[a].stage = "turn" => GivenPast(a)

AsksInv == Asks!TypeOK /\ \A a \in Ask : AskRight(a)

LEMMA NewestMessages ==
    ASSUME NEW S, NEW q \in Seq(S), NEW n \in Nat
    PROVE  /\ Asks!Newest(n, q) \in Seq(S)
           /\ \A a : (\A i \in 1..Len(q) : q[i].of # a) => NoneOf(a, Asks!Newest(n, q))
<1> DEFINE from0 == (IF Len(q) > n THEN Len(q) - n ELSE 0) + 1
<1>1. from0 \in 1..(Len(q) + 1)
  OBVIOUS
<1>2. Asks!Newest(n, q) = SubSeq(q, from0, Len(q))
  BY DEF Asks!Newest
<1> HIDE DEF from0
<1>3. /\ SubSeq(q, from0, Len(q)) \in Seq(S)
      /\ \A i \in 1..Len(SubSeq(q, from0, Len(q))) :
            /\ SubSeq(q, from0, Len(q))[i] = q[from0 + i - 1]
            /\ from0 + i - 1 \in 1..Len(q)
  BY <1>1
<1> QED
  BY <1>2, <1>3 DEF NoneOf

\* The part of a sequence from its k-th element on, and the part up to its l-th.
LEMMA PartsOfSeq ==
    ASSUME NEW S, NEW q \in Seq(S), NEW k \in 1..(Len(q) + 1), NEW l \in 0..Len(q)
    PROVE  /\ SubSeq(q, k, Len(q)) \in Seq(S)
           /\ Len(SubSeq(q, k, Len(q))) = Len(q) - k + 1
           /\ \A i \in 1..(Len(q) - k + 1) : SubSeq(q, k, Len(q))[i] = q[k + i - 1]
           /\ SubSeq(q, 1, l) \in Seq(S) /\ Len(SubSeq(q, 1, l)) = l
           /\ \A i \in 1..l : SubSeq(q, 1, l)[i] = q[i]
<1>1. \A i \in 1..Len(q) : q[i] \in S
  BY ElementOfSeq
<1>2. /\ Len(q) \in Nat /\ k \in Int /\ Len(q) \in Int /\ l \in Int
      /\ \A i \in k..Len(q) : q[i] \in S
      /\ \A i \in 1..l : q[i] \in S /\ 1 + i - 1 = i
  BY <1>1
<1>3. /\ SubSeq(q, k, Len(q)) \in Seq(S)
      /\ Len(SubSeq(q, k, Len(q))) = IF k <= Len(q) THEN Len(q) - k + 1 ELSE 0
      /\ \A i \in 1..(Len(q) - k + 1) : SubSeq(q, k, Len(q))[i] = q[k + i - 1]
  BY <1>2, SubSeqProperties
<1>4. /\ SubSeq(q, 1, l) \in Seq(S)
      /\ Len(SubSeq(q, 1, l)) = IF 1 <= l THEN l - 1 + 1 ELSE 0
      /\ \A i \in 1..(l - 1 + 1) : SubSeq(q, 1, l)[i] = q[1 + i - 1]
  BY <1>2, SubSeqProperties
<1>5. l - 1 + 1 = l
  OBVIOUS
<1> QED
  BY <1>2, <1>3, <1>4, <1>5

\* Reading the question back costs a turn one message of its history.
LEMMA NewestFront ==
    ASSUME NEW S, NEW p \in Seq(S), NEW m \in S, NEW n \in Nat \ {0}
    PROVE  Asks!Front(Asks!Newest(n, Append(p, m))) = Asks!Newest(n - 1, p)
<1> DEFINE q == Append(p, m)
           k == (IF Len(q) > n THEN Len(q) - n ELSE 0) + 1
           g == SubSeq(q, k, Len(q))
<1>1. q \in Seq(S) /\ Len(q) = Len(p) + 1 /\ \A i \in 1..Len(p) : q[i] = p[i]
  OBVIOUS
<1>2. k = (IF Len(p) > n - 1 THEN Len(p) - (n - 1) ELSE 0) + 1 /\ k \in 1..Len(q)
  BY <1>1
<1> HIDE DEF q, k
<1>3. g \in Seq(S) /\ Len(g) = Len(q) - k + 1 /\ \A i \in 1..Len(g) : g[i] = q[k + i - 1]
  <2>1. k \in 1..(Len(q) + 1) /\ 0 \in 0..Len(q)
    BY <1>1, <1>2
  <2>2. Len(g) = Len(q) - k + 1 /\ g \in Seq(S)
    BY <1>1, <2>1, PartsOfSeq
  <2> QED
    BY <1>1, <2>1, <2>2, PartsOfSeq
<1>4. Asks!Newest(n, q) = g
  BY DEF Asks!Newest, k
<1>7. Asks!Newest(n - 1, p) = SubSeq(p, k, Len(p))
  BY <1>2 DEF Asks!Newest
<1> HIDE DEF g
<1>5. Asks!Front(g) = SubSeq(g, 1, Len(g) - 1)
  BY <1>1, <1>2, <1>3 DEF Asks!Front
<1>6. SubSeq(g, 1, Len(g) - 1) = SubSeq(p, k, Len(p))
  <2>1. Len(g) - 1 = Len(p) - k + 1 /\ Len(g) - 1 \in Nat /\ Len(g) \in Nat \ {0}
    BY <1>1, <1>2, <1>3
  <2> DEFINE l == Len(g) - 1
  <2>5. l \in Nat /\ l <= Len(g) /\ g \in Seq(S)
    BY <1>3, <2>1
  <2> HIDE DEF l
  <2>2. /\ SubSeq(g, 1, l) \in Seq(S) /\ Len(SubSeq(g, 1, l)) = l
        /\ \A i \in 1..l : SubSeq(g, 1, l)[i] = g[i]
    BY <2>5, PartsOfSeq
  <2>3. /\ SubSeq(p, k, Len(p)) \in Seq(S) /\ Len(SubSeq(p, k, Len(p))) = Len(p) - k + 1
        /\ \A i \in 1..(Len(p) - k + 1) : SubSeq(p, k, Len(p))[i] = p[k + i - 1]
    <3>1. k \in 1..(Len(p) + 1) /\ 0 \in 0..Len(p)
      BY <1>1, <1>2
    <3> QED
      BY <3>1, PartsOfSeq
  <2>4. \A i \in 1..(Len(g) - 1) : g[i] = p[k + i - 1]
    <3> TAKE i \in 1..(Len(g) - 1)
    <3>1. i \in 1..Len(g)
      BY <2>1
    <3>2. k + i - 1 \in 1..Len(p)
      BY <1>1, <1>2, <2>1
    <3>3. g[i] = q[k + i - 1]
      BY <1>3, <3>1
    <3> QED
      BY <1>1, <3>2, <3>3
  <2> QED
    <3>1. l = Len(p) - k + 1 /\ Len(g) - 1 = l
      BY <2>1 DEF l
    <3> QED
      BY <2>2, <2>3, <2>4, <3>1, SeqEqual, SMTT(90)
<1> QED
  BY <1>4, <1>5, <1>6, <1>7 DEF q

\* A message that turn a writes disturbs those between their two steps.
LEMMA WritesKeep ==
    ASSUME AsksInv, NEW a \in Ask, NEW what \in Asks!Kinds, Asks!Writes(a, what)
    PROVE  /\ transcript' \in Seq(Asks!Said) /\ disturbed' \subseteq Ask /\ disturbed \subseteq disturbed'
           /\ \A b \in Ask \ {a} :
                /\ NoneOf(b, transcript) => NoneOf(b, transcript')
                /\ ask[b].stage = "asked" => b \in disturbed'
<1> DEFINE m == [of |-> a, kind |-> what]
<1>1. transcript \in Seq(Asks!Said) /\ m \in Asks!Said /\ transcript' = Append(transcript, m)
      /\ disturbed \subseteq Ask /\ m.of = a
  BY DEF AsksInv, Asks!TypeOK, Asks!Writes, Asks!Said
<1> HIDE DEF m
<1>2. /\ transcript' \in Seq(Asks!Said) /\ Len(transcript') = Len(transcript) + 1
      /\ \A i \in 1..Len(transcript) : transcript'[i] = transcript[i]
      /\ transcript'[Len(transcript) + 1] = m
  BY <1>1
<1>3. \A b \in Ask \ {a} : NoneOf(b, transcript) => NoneOf(b, transcript')
  BY <1>1, <1>2 DEF NoneOf
<1>4. disturbed' = disturbed \cup ({b \in Ask : ask[b].stage \in {"asked", "looked"}} \ {a})
  BY DEF Asks!Writes, Asks!Between
<1> QED
  BY <1>1, <1>2, <1>3, <1>4

AskRec == [stage : {"idle", "asked", "looked", "turn", "answering", "done"},
           way : {"none", "queue", "request", "stream", "job"}, given : Seq(Asks!Said)]

\* What others did leaves a turn right.
LEMMA AskKept ==
    ASSUME NEW b \in Ask, AskRight(b), ask'[b] = ask[b], past'[b] = past[b],
           disturbed \subseteq disturbed',
           NoneOf(b, transcript) => NoneOf(b, transcript'),
           transcript' = transcript \/ (ask[b].stage = "asked" => b \in disturbed')
    PROVE  AskRight(b)'
<1>1. GivenPast(b) => GivenPast(b)'
  BY DEF GivenPast, NoneOf
<1> QED
  BY <1>1 DEF AskRight, NoneOf

LEMMA AskStep ==
    ASSUME AsksInv, Asks!WebTurnsAssumption, NEW a \in Ask,
           \/ Asks!AskFirst(a) \/ Asks!ThenLook(a) \/ Asks!LookFirst(a) \/ Asks!ThenAsk(a)
           \/ Asks!RunJob(a) \/ Asks!TurnEnds(a) \/ Asks!AppendAnswer(a)
    PROVE  AsksInv'
<1> DEFINE s == ask[a]
           question == [of |-> a, kind |-> "question"]
<1>1. /\ s \in AskRec /\ transcript \in Seq(Asks!Said) /\ past \in [Ask -> Seq(Asks!Said)]
      /\ ask \in [Ask -> AskRec] /\ disturbed \subseteq Ask /\ resets \in 0..MaxResets
      /\ AskRight(a) /\ <<>> \in Seq(Asks!Said)
      /\ Limit \in Nat \ {0} /\ Limit \in Nat /\ Limit - 1 \in Nat
  BY DEF AsksInv, Asks!TypeOK, AskRec, Asks!WebTurnsAssumption
<1>2. UNCHANGED resets
  BY DEF Asks!AskFirst, Asks!ThenLook, Asks!LookFirst, Asks!ThenAsk, Asks!RunJob, Asks!TurnEnds,
         Asks!AppendAnswer
<1>3. SUFFICES /\ transcript' \in Seq(Asks!Said) /\ disturbed' \subseteq Ask
               /\ ask' \in [Ask -> AskRec] /\ past' \in [Ask -> Seq(Asks!Said)]
               /\ AskRight(a)'
               /\ \A b \in Ask \ {a} : /\ ask'[b] = ask[b] /\ past'[b] = past[b]
                                       /\ disturbed \subseteq disturbed'
                                       /\ NoneOf(b, transcript) => NoneOf(b, transcript')
                                       /\ \/ transcript' = transcript
                                          \/ ask[b].stage = "asked" => b \in disturbed'
  <2>1. \A b \in Ask \ {a} : AskRight(b)'
    BY <1>3, AskKept DEF AsksInv
  <2>2. Asks!TypeOK'
    BY <1>1, <1>2, <1>3 DEF Asks!TypeOK, AskRec
  <2> QED
    BY <1>3, <2>1, <2>2 DEF AsksInv
<1>4. CASE Asks!AskFirst(a)
  <2>1. PICK way \in {"queue", "request"} :
          ask' = [ask EXCEPT ![a] = [@ EXCEPT !.stage = "asked", !.way = way]]
    BY <1>4 DEF Asks!AskFirst
  <2> DEFINE w == [s EXCEPT !.stage = "asked", !.way = way]
  <2>2. w \in AskRec /\ w.stage = "asked" /\ w.way = way
    BY <1>1 DEF AskRec
  <2>3. ask' = [ask EXCEPT ![a] = w] /\ past' = [past EXCEPT ![a] = transcript]
        /\ Asks!Writes(a, "question")
    BY <1>4, <2>1 DEF Asks!AskFirst
  <2>4. transcript' = Append(transcript, question)
    BY <2>3 DEF Asks!Writes
  <2> HIDE DEF w
  <2>5. AskRight(a)'
    BY <1>1, <2>2, <2>3, <2>4 DEF AskRight
  <2> QED
    BY <1>1, <2>2, <2>3, <2>5, WritesKeep DEF Asks!Kinds
<1>5. CASE Asks!ThenLook(a)
  <2> DEFINE look == IF transcript = <<>> THEN <<>> ELSE Asks!Front(Asks!Newest(Limit, transcript))
             w == [s EXCEPT !.stage = "turn", !.given = look]
  <2>1. ask' = [ask EXCEPT ![a] = w] /\ UNCHANGED <<transcript, past, disturbed>>
        /\ s.stage = "asked"
    BY <1>5 DEF Asks!ThenLook
  <2>2. look \in Seq(Asks!Said)
    <3>1. CASE transcript # <<>>
      <4> DEFINE g == Asks!Newest(Limit, transcript)
      <4>1. g \in Seq(Asks!Said)
        BY <1>1, NewestMessages
      <4>2. g # <<>>
        <5> DEFINE k == (IF Len(transcript) > Limit THEN Len(transcript) - Limit ELSE 0) + 1
        <5>1. k \in 1..Len(transcript) /\ Len(transcript) \in Nat /\ g = SubSeq(transcript, k, Len(transcript))
          BY <1>1, <3>1 DEF Asks!Newest
        <5> HIDE DEF k
        <5>2. Len(SubSeq(transcript, k, Len(transcript))) = Len(transcript) - k + 1
          BY <1>1, <5>1
        <5> QED
          BY <5>1, <5>2, SMTT(30)
      <4> HIDE DEF g
      <4>3. Asks!Front(g) \in Seq(Asks!Said)
        BY <4>1, <4>2 DEF Asks!Front
      <4> QED
        BY <1>1, <4>3 DEF g
    <3> QED
      BY <1>1, <3>1
  <2>3. s.way \in {"queue", "request"}
        /\ (a \in disturbed \/ transcript = Append(past[a], question))
    BY <1>1, <2>1 DEF AskRight
  <2>4. a \in disturbed \/ look = Asks!Newest(Limit - 1, past[a])
    <3>1. ASSUME transcript = Append(past[a], question)
          PROVE  look = Asks!Newest(Limit - 1, past[a])
      <4>1. question \in Asks!Said /\ past[a] \in Seq(Asks!Said)
        BY <1>1 DEF Asks!Said, Asks!Kinds
      <4>2. transcript # <<>>
        BY <3>1, <4>1
      <4> QED
        BY <1>1, <3>1, <4>1, <4>2, NewestFront
    <3> QED
      BY <2>3, <3>1
  <2> HIDE DEF look
  <2>5. w \in AskRec /\ w.stage = "turn" /\ w.way = s.way /\ w.given = look
    BY <1>1, <2>2 DEF AskRec
  <2> HIDE DEF w
  <2>6. ask' \in [Ask -> AskRec] /\ ask'[a] = w /\ \A b \in Ask \ {a} : ask'[b] = ask[b]
    BY <1>1, <2>1, <2>5
  <2>7. AskRight(a)'
    BY <2>1, <2>3, <2>4, <2>5, <2>6 DEF AskRight, GivenPast
  <2> QED
    BY <1>1, <2>1, <2>6, <2>7
<1>6. CASE Asks!LookFirst(a)
  <2> DEFINE g == Asks!Newest(Limit, transcript)
             w == [stage |-> "looked", way |-> "stream", given |-> g]
  <2>1. /\ ask' = [ask EXCEPT ![a] = w] /\ past' = [past EXCEPT ![a] = transcript]
        /\ UNCHANGED <<transcript, disturbed>> /\ s.stage = "idle"
    BY <1>6 DEF Asks!LookFirst
  <2>2. NoneOf(a, transcript)
    BY <1>1, <2>1 DEF AskRight
  <2>3. g \in Seq(Asks!Said) /\ NoneOf(a, g)
    BY <1>1, <2>2, NewestMessages DEF NoneOf
  <2>4. past' \in [Ask -> Seq(Asks!Said)] /\ past'[a] = transcript
        /\ \A b \in Ask \ {a} : past'[b] = past[b]
    BY <1>1, <2>1
  <2>5. w \in AskRec /\ w.stage = "looked" /\ w.way = "stream" /\ w.given = Asks!Newest(Limit, transcript)
    BY <2>3 DEF AskRec
  <2>6. NoneOf(a, w.given)
    BY <2>3
  <2> HIDE DEF w, g
  <2>7. ask' \in [Ask -> AskRec] /\ ask'[a] = w /\ \A b \in Ask \ {a} : ask'[b] = ask[b]
    BY <1>1, <2>1, <2>5
  <2>8. AskRight(a)'
    BY <2>4, <2>5, <2>6, <2>7 DEF AskRight, GivenPast, NoneOf
  <2> QED
    BY <1>1, <2>1, <2>4, <2>7, <2>8
<1>7. CASE Asks!ThenAsk(a)
  <2> DEFINE w == [s EXCEPT !.stage = "turn"]
  <2>1. /\ ask' = [ask EXCEPT ![a] = w] /\ UNCHANGED past
        /\ Asks!Writes(a, "question") /\ s.stage = "looked"
    BY <1>1, <1>7 DEF Asks!ThenAsk, AskRec
  <2>2. w \in AskRec /\ w.stage = "turn" /\ w.way = s.way /\ w.given = s.given
    BY <1>1 DEF AskRec
  <2> HIDE DEF w
  <2>3. ask' \in [Ask -> AskRec] /\ ask'[a] = w /\ \A b \in Ask \ {a} : ask'[b] = ask[b]
    BY <1>1, <2>1, <2>2
  <2>4. s.way = "stream" /\ GivenPast(a)
    BY <1>1, <2>1 DEF AskRight
  <2>5. AskRight(a)'
    BY <2>1, <2>2, <2>3, <2>4 DEF AskRight, GivenPast, NoneOf
  <2> QED
    BY <1>1, <2>1, <2>3, <2>5, WritesKeep DEF Asks!Kinds
<1>8. CASE Asks!RunJob(a)
  <2> DEFINE w == [stage |-> "turn", way |-> "job", given |-> transcript]
  <2>1. /\ ask' = [ask EXCEPT ![a] = w] /\ past' = [past EXCEPT ![a] = transcript]
        /\ UNCHANGED <<transcript, disturbed>> /\ s.stage = "idle"
    BY <1>8 DEF Asks!RunJob
  <2>2. NoneOf(a, transcript)
    BY <1>1, <2>1 DEF AskRight
  <2>3. w \in AskRec /\ w.stage = "turn" /\ w.way = "job" /\ w.given = transcript
    BY <1>1 DEF AskRec
  <2> HIDE DEF w
  <2>4. /\ past' \in [Ask -> Seq(Asks!Said)] /\ past'[a] = transcript
        /\ \A b \in Ask \ {a} : past'[b] = past[b]
        /\ ask' \in [Ask -> AskRec] /\ ask'[a] = w /\ \A b \in Ask \ {a} : ask'[b] = ask[b]
    BY <1>1, <2>1, <2>3
  <2>5. AskRight(a)'
    BY <2>1, <2>2, <2>3, <2>4 DEF AskRight, GivenPast, NoneOf
  <2> QED
    BY <1>1, <2>1, <2>4, <2>5
<1>9. CASE Asks!TurnEnds(a)
  <2>1. PICK stage \in {"answering", "done"} :
          ask' = [ask EXCEPT ![a] = [Asks!NewTurn EXCEPT !.stage = stage, !.way = ask[a].way]]
    BY <1>9 DEF Asks!TurnEnds
  <2> DEFINE w == [Asks!NewTurn EXCEPT !.stage = stage, !.way = s.way]
  <2>2. w \in AskRec /\ w.stage \in {"answering", "done"}
    BY <1>1 DEF AskRec, Asks!NewTurn
  <2>3. ask' = [ask EXCEPT ![a] = w] /\ past' = [past EXCEPT ![a] = <<>>]
        /\ UNCHANGED <<transcript, disturbed>>
    BY <1>9, <2>1 DEF Asks!TurnEnds
  <2> HIDE DEF w
  <2>4. AskRight(a)'
    BY <1>1, <2>2, <2>3 DEF AskRight
  <2> QED
    BY <1>1, <2>2, <2>3, <2>4
<1>10. CASE Asks!AppendAnswer(a)
  <2>1. PICK stage \in {"answering", "done"} : ask' = [ask EXCEPT ![a].stage = stage]
    BY <1>10 DEF Asks!AppendAnswer
  <2> DEFINE w == [s EXCEPT !.stage = stage]
  <2>2. w \in AskRec /\ w.stage \in {"answering", "done"}
    BY <1>1 DEF AskRec
  <2>3. ask' = [ask EXCEPT ![a] = w] /\ UNCHANGED past /\ Asks!Writes(a, "answer")
    BY <1>1, <1>10, <2>1 DEF Asks!AppendAnswer
  <2> HIDE DEF w
  <2>4. AskRight(a)'
    BY <1>1, <2>2, <2>3 DEF AskRight
  <2> QED
    BY <1>1, <2>2, <2>3, <2>4, WritesKeep DEF Asks!Kinds
<1> QED
  BY <1>4, <1>5, <1>6, <1>7, <1>8, <1>9, <1>10

LEMMA AsksNext ==
    ASSUME Asks!WebTurnsAssumption
    PROVE  AsksInv /\ [Asks!Next]_(Asks!webTurnVars) => AsksInv'
<1> SUFFICES ASSUME AsksInv, [Asks!Next]_(Asks!webTurnVars)
             PROVE  AsksInv'
  OBVIOUS
<1>1. CASE Asks!Reset
  <2>1. /\ transcript' = <<>> /\ UNCHANGED <<ask, past>> /\ resets' \in 0..MaxResets
        /\ disturbed' = disturbed \cup {b \in Ask : ask[b].stage \in {"asked", "looked"}}
    BY <1>1 DEF Asks!Reset, Asks!Between, AsksInv, Asks!TypeOK, Asks!WebTurnsAssumption
  <2>2. \A b \in Ask : NoneOf(b, transcript')
    BY <2>1 DEF NoneOf
  <2>3. \A b \in Ask : AskRight(b)'
    BY <2>1, <2>2, AskKept DEF AsksInv
  <2>4. Asks!TypeOK'
    BY <2>1 DEF AsksInv, Asks!TypeOK
  <2> QED
    BY <2>3, <2>4 DEF AsksInv
<1>2. CASE UNCHANGED Asks!webTurnVars
  BY <1>2 DEF Asks!webTurnVars, AsksInv, Asks!TypeOK, AskRight, GivenPast, NoneOf
<1> QED
  BY <1>1, <1>2, AskStep DEF Asks!Next

\* A turn is given the newest of what its session held before its question, unless
\* another turn or a reset came in between, and never its own question by the ways
\* that do not read it back, for any number of turns and any limit (api_routes.cpp,
\* gateway_commands.cpp).
THEOREM HistoryAlwaysPast ==
    ASSUME Asks!WebTurnsAssumption PROVE Asks!Spec => [](Asks!TypeOK /\ Asks!HistoryIsPast)
<1>1. ASSUME Asks!Init
      PROVE  AsksInv
  BY <1>1 DEF Asks!Init, AsksInv, Asks!TypeOK, AskRight, NoneOf, Asks!NewTurn, Asks!WebTurnsAssumption
<1>2. AsksInv => Asks!TypeOK /\ Asks!HistoryIsPast
  BY DEF AsksInv, AskRight, GivenPast, NoneOf, Asks!HistoryIsPast
<1> QED
  BY <1>1, <1>2, AsksNext, PTL DEF Asks!Spec


(***************************************************************************)
(* The event log.  The invariant: who writes a run, and what is there.     *)
(***************************************************************************)

RunRec  == [session : Session, status : {"running"} \cup Log!Ends, life : 1..MaxLives]
LogTurn == [stage : Log!Stages, run : Log!Run \cup {0}, session : Session \cup {"none"},
            last : 0..MaxNodes, made : 0..MaxNodes,
            evolve : BOOLEAN, status : {"none"} \cup Log!Ends]

AtWork(w)  == writer[w].stage # "done"
EdgesOf(r) == {e \in edges : e[1] = r}
NodesUpTo(r, k) == {<<r, n>> : n \in 1..k}
LinksUpTo(r, k) == {<<r, n, n + 1>> : n \in 1..(k - 1)}

\* A turn at work knows how far its run has come, which was not abandoned.
TurnKnows(w) ==
    /\ writer[w].run \in Log!Run /\ writer[w].run < nextRun /\ writer[w].run \notin abandoned
    /\ writer[w].session \in Session
    /\ writer[w].stage \in {"begun", "starting"} <=> writer[w].made = 0
    /\ writer[w].stage \in {"ending", "counting", "pruning"} => writer[w].status # "none"
    /\ IF writer[w].stage = "linking"
       THEN writer[w].made > 1 /\ writer[w].last = writer[w].made - 1
       ELSE writer[w].last = writer[w].made

\* What the log has of its run, unless that was pruned
RunIsThere(w) ==
    LET r == writer[w].run IN
    r \in DOMAIN logged =>
      /\ Log!Chain(r) = NodesUpTo(r, writer[w].made)
      /\ EdgesOf(r) = LinksUpTo(r, writer[w].last)
      /\ logged[r].life = lives
      /\ writer[w].stage \in {"counting", "pruning"} => logged[r].status # "running"

\* A listed run is a chain, whose last link may be missing.
Chained(r) ==
    \E k \in 0..MaxNodes :
      /\ Log!Chain(r) = NodesUpTo(r, k)
      /\ \/ EdgesOf(r) = LinksUpTo(r, k)
         \/ /\ k > 1 /\ EdgesOf(r) = LinksUpTo(r, k - 1)
            /\ \/ logged[r].life # lives
               \/ \E w \in Writer : Log!At(w, "linking") /\ writer[w].run = r

\* Whatever the log has is of a run that was begun, and each by one turn.
Begun ==
    /\ nextRun \in 1..(LogRuns + 1) /\ sincePrune < Interval
    /\ \A r \in DOMAIN logged : r < nextRun /\ logged[r].life <= lives
    /\ \A n \in nodes : n[1] < nextRun
    /\ \A e \in edges : e[1] < nextRun
    /\ \A r \in abandoned : r < nextRun
    /\ \A v, w \in Writer : AtWork(v) /\ AtWork(w) /\ writer[v].run = writer[w].run => v = w

LogInv ==
    /\ Log!TypeOK /\ Begun /\ Log!RunningHasWriter
    /\ \A w \in Writer : AtWork(w) => TurnKnows(w) /\ RunIsThere(w)
    /\ \A r \in DOMAIN logged : Chained(r)

LEMMA LogTyped ==
    /\ Log!EventLogAssumption =>
         /\ Retain \in Nat /\ MaxNodes \in Nat /\ LogRuns \in Nat
         /\ Interval \in Nat /\ Interval > 0 /\ MaxLives \in Nat /\ MaxLives > 0
    /\ MaxNodes \in Nat => Log!NewTurn \in LogTurn
    /\ Log!NewTurn.stage = "done"
    /\ Log!TypeOK =>
         /\ writer \in [Writer -> LogTurn] /\ DOMAIN logged \subseteq Log!Run
         /\ \A r \in DOMAIN logged : logged[r] \in RunRec
         /\ nodes \subseteq Log!Run \X (1..MaxNodes)
         /\ edges \subseteq Log!Run \X (1..MaxNodes) \X (1..MaxNodes)
         /\ latest \in [Session -> Log!Run \cup {0}]
         /\ sincePrune \in 0..Interval /\ lives \in 1..MaxLives
         /\ attached \subseteq Writer /\ abandoned \subseteq Log!Run
    /\ Log!Run \subseteq Nat /\ 0 \notin Log!Run
<1>1. Log!EventLogAssumption =>
         /\ Retain \in Nat /\ MaxNodes \in Nat /\ LogRuns \in Nat
         /\ Interval \in Nat /\ Interval > 0 /\ MaxLives \in Nat /\ MaxLives > 0
  BY DEF Log!EventLogAssumption
<1>2. /\ MaxNodes \in Nat => Log!NewTurn \in LogTurn
      /\ Log!NewTurn.stage = "done"
  BY DEF Log!NewTurn, LogTurn, Log!Stages
<1>3. Log!Run \subseteq Nat /\ 0 \notin Log!Run
  BY DEF Log!Run
<1> QED
  BY <1>1, <1>2, <1>3 DEF Log!TypeOK, RunRec, LogTurn

LEMMA BecomesOne ==
    ASSUME Log!TypeOK, NEW w \in Writer, NEW s \in LogTurn, Log!Becomes(w, s)
    PROVE  /\ writer' \in [Writer -> LogTurn] /\ writer'[w] = s
           /\ \A v \in Writer \ {w} : writer'[v] = writer[v]
  BY LogTyped DEF Log!Becomes

LEMMA LogTypes ==
    ASSUME writer' \in [Writer -> LogTurn], DOMAIN logged' \subseteq Log!Run,
           \A r \in DOMAIN logged' : logged'[r] \in RunRec,
           nodes' \subseteq Log!Run \X (1..MaxNodes),
           edges' \subseteq Log!Run \X (1..MaxNodes) \X (1..MaxNodes),
           latest' \in [Session -> Log!Run \cup {0}],
           sincePrune' \in 0..Interval, lives' \in 1..MaxLives,
           attached' \subseteq Writer, abandoned' \subseteq Log!Run
    PROVE  Log!TypeOK'
  BY DEF Log!TypeOK, RunRec, LogTurn

\* A step of a turn that writes nothing, and does not end it while its run is running
LEMMA TurnGoesOn ==
    ASSUME LogInv, Log!EventLogAssumption, NEW w \in Writer, NEW s \in LogTurn, Log!Becomes(w, s),
           AtWork(w), UNCHANGED <<logged, nodes, edges, nextRun, lives, abandoned>>,
           s.run = writer[w].run, s.session = writer[w].session,
           s.made = writer[w].made, s.last = writer[w].last,
           writer[w].stage # "linking", s.stage # "linking",
           s.stage # "done" => s.stage \in {"begun", "starting"} <=> s.made = 0,
           s.stage \in {"ending", "counting", "pruning"} => s.status # "none",
           s.stage \in {"counting", "pruning", "done"} =>
             writer[w].stage \in {"counting", "pruning"},
           attached' \subseteq Writer, latest' \in [Session -> Log!Run \cup {0}],
           sincePrune' \in 0..Interval, sincePrune' < Interval
    PROVE  LogInv'
<1>1. /\ writer' \in [Writer -> LogTurn] /\ writer'[w] = s
      /\ \A v \in Writer \ {w} : writer'[v] = writer[v]
  BY BecomesOne DEF LogInv
<1>2. Log!TypeOK'
  BY <1>1, LogTyped, LogTypes DEF LogInv
<1>3. Begun'
  BY <1>1 DEF LogInv, Begun, AtWork
<1>4. TurnKnows(w) /\ RunIsThere(w)
  BY DEF LogInv
<1>5. s.stage # "done" => TurnKnows(w)' /\ RunIsThere(w)'
  <2>1. s.stage # "done" => TurnKnows(w)'
    BY <1>1, <1>4 DEF TurnKnows
  <2>2. RunIsThere(w)' \/ s.stage = "done"
    BY <1>1, <1>4 DEF RunIsThere, Log!Chain, EdgesOf
  <2> QED
    BY <2>1, <2>2
<1>6. ASSUME NEW v \in Writer, AtWork(v)' PROVE TurnKnows(v)' /\ RunIsThere(v)'
  <2>1. CASE v = w
    BY <1>1, <1>5, <1>6, <2>1 DEF AtWork
  <2>2. CASE v # w
    <3>1. writer'[v] = writer[v] /\ AtWork(v) /\ TurnKnows(v) /\ RunIsThere(v)
      BY <1>1, <1>6, <2>2 DEF AtWork, LogInv
    <3> QED
      BY <3>1 DEF TurnKnows, RunIsThere, Log!Chain, EdgesOf
  <2> QED
    BY <2>1, <2>2
<1>7. ASSUME NEW r \in DOMAIN logged' PROVE Chained(r)'
  <2>1. Chained(r)
    BY DEF LogInv
  <2>2. \A v \in Writer : Log!At(v, "linking") => Log!At(v, "linking")' /\ writer'[v] = writer[v]
    BY <1>1 DEF Log!At
  <2>3. Log!Chain(r)' = Log!Chain(r) /\ EdgesOf(r)' = EdgesOf(r)
    BY DEF Log!Chain, EdgesOf
  <2> QED
    BY <2>1, <2>2, <2>3 DEF Chained
<1>8. Log!RunningHasWriter'
  <2>1. SUFFICES ASSUME NEW r \in DOMAIN logged, logged[r].status = "running",
                        logged[r].life = lives, r \notin abandoned
                 PROVE  \E v \in Writer : Log!Writes(v, r)'
    BY DEF Log!RunningHasWriter
  <2>2. PICK v \in Writer : Log!Writes(v, r)
    BY <2>1 DEF LogInv, Log!RunningHasWriter
  <2>3. CASE v = w
    <3>1. s.stage # "done"
      BY <1>4, <2>1, <2>2, <2>3 DEF RunIsThere, Log!Writes, Log!At
    <3> QED
      BY <1>1, <2>2, <2>3, <3>1 DEF Log!Writes, Log!At
  <2>4. CASE v # w
    BY <1>1, <2>2, <2>4 DEF Log!Writes, Log!At
  <2> QED
    BY <2>3, <2>4
<1> QED
  BY <1>2, <1>3, <1>6, <1>7, <1>8 DEF LogInv

\* The ids are numbers, and those used are earlier than the next one.
LEMMA Earlier ==
    ASSUME LogInv, Log!EventLogAssumption
    PROVE  /\ nextRun \in Nat /\ LogRuns \in Nat /\ lives \in Nat /\ MaxNodes \in Nat
           /\ \A r \in DOMAIN logged :
                r \in Nat /\ r < nextRun /\ logged[r].life \in Nat /\ logged[r].life <= lives
           /\ \A n \in nodes : n[1] \in Nat /\ n[1] < nextRun
           /\ \A e \in edges : e[1] \in Nat /\ e[1] < nextRun
           /\ \A r \in abandoned : r \in Nat /\ r < nextRun
           /\ \A w \in Writer : AtWork(w) => writer[w].run \in Nat /\ writer[w].run < nextRun
<1>1. Log!Run \subseteq Nat /\ LogRuns \in Nat /\ lives \in 1..MaxLives /\ MaxLives \in Nat
  BY LogTyped DEF LogInv
<1>2. nextRun \in Nat /\ lives \in Nat /\ MaxNodes \in Nat
  BY <1>1, LogTyped DEF LogInv, Begun
<1>3. \A r \in DOMAIN logged : r \in Log!Run /\ logged[r] \in RunRec
  BY LogTyped DEF LogInv
<1>4. \A r \in DOMAIN logged : r \in Nat /\ logged[r].life \in Nat
  <2>1. \A r \in DOMAIN logged : logged[r].life \in 1..MaxLives
    BY <1>3 DEF RunRec
  <2>2. 1..MaxLives \subseteq Nat
    BY <1>1
  <2>3. \A r \in DOMAIN logged : r \in Nat
    BY <1>1, <1>3
  <2> QED
    BY <2>1, <2>2, <2>3
<1>5. \A n \in nodes : n[1] \in Log!Run
  BY LogTyped DEF LogInv
<1>6. \A e \in edges : e[1] \in Log!Run
  BY LogTyped DEF LogInv
<1>7. abandoned \subseteq Log!Run
  BY LogTyped DEF LogInv
<1>8. \A w \in Writer : AtWork(w) => writer[w].run \in Log!Run /\ writer[w].run < nextRun
  BY DEF LogInv, TurnKnows
<1> QED
  BY <1>1, <1>2, <1>4, <1>5, <1>6, <1>7, <1>8 DEF LogInv, Begun

\* A turn that goes on by itself leaves every other turn what it knows.
LEMMA OtherTurns ==
    ASSUME LogInv, NEW w \in Writer, \A v \in Writer \ {w} : writer'[v] = writer[v],
           NEW v \in Writer \ {w}, AtWork(v)'
    PROVE  /\ writer'[v] = writer[v] /\ AtWork(v) /\ TurnKnows(v) /\ RunIsThere(v)
           /\ AtWork(w) => writer[v].run # writer[w].run
  BY DEF AtWork, LogInv, Begun

LEMMA LogInsertRun ==
    ASSUME LogInv, Log!EventLogAssumption, NEW w \in Writer, Log!InsertRun(w)
    PROVE  LogInv'
<1>1. PICK s \in Session, evolve \in BOOLEAN :
         /\ logged' = [r \in DOMAIN logged \cup {nextRun} |->
                         IF r = nextRun
                         THEN [session |-> s, status |-> "running", life |-> lives]
                         ELSE logged[r]]
         /\ Log!Becomes(w, [stage |-> "begun", run |-> nextRun, session |-> s, last |-> 0,
                            made |-> 0, evolve |-> evolve, status |-> "none"])
  BY DEF Log!InsertRun
<1>0. PICK new : new = nextRun
  OBVIOUS
<1> DEFINE t == [stage |-> "begun", run |-> nextRun, session |-> s, last |-> 0, made |-> 0,
                 evolve |-> evolve, status |-> "none"]
<1>2. nextRun \in Log!Run /\ lives \in 1..MaxLives /\ MaxNodes \in Nat
  BY LogTyped DEF Log!InsertRun, LogInv, Begun, Log!Run
<1>3. /\ t \in LogTurn /\ t.stage = "begun" /\ t.run = nextRun /\ t.session = s
      /\ t.made = 0 /\ t.last = 0
  BY <1>2 DEF LogTurn, Log!Stages
<1> HIDE DEF t
<1>4. /\ writer' \in [Writer -> LogTurn] /\ writer'[w] = t
      /\ \A v \in Writer \ {w} : writer'[v] = writer[v]
  BY <1>1, <1>3, BecomesOne DEF LogInv, t
<1>5. /\ UNCHANGED <<nodes, edges, latest, sincePrune, lives, attached, abandoned>>
      /\ nextRun' = nextRun + 1 /\ ~AtWork(w) /\ nextRun <= LogRuns
  BY DEF Log!InsertRun, AtWork, Log!At
<1>6. /\ DOMAIN logged' = DOMAIN logged \cup {nextRun}
      /\ logged'[nextRun] = [session |-> s, status |-> "running", life |-> lives]
      /\ \A r \in DOMAIN logged : r # nextRun /\ logged'[r] = logged[r]
  BY <1>1 DEF LogInv, Begun
<1>7. Log!TypeOK'
  <2>1. \A r \in DOMAIN logged' : logged'[r] \in RunRec
    BY <1>2, <1>6, LogTyped DEF LogInv, RunRec
  <2> QED
    BY <1>2, <1>4, <1>5, <1>6, <2>1, LogTyped, LogTypes DEF LogInv
<1>8. nextRun \in Nat /\ LogRuns \in Nat /\ \A r \in Log!Run : r \in Nat
  BY <1>2, LogTyped
<1>9. \A v \in Writer \ {w} : AtWork(v)' => writer[v].run < nextRun /\ writer[v].run \in Nat
  BY <1>4, <1>8, OtherTurns DEF TurnKnows
<1>10. /\ Log!Chain(new)' = {} /\ EdgesOf(new)' = {}
       /\ \A r \in Nat : r # new => Log!Chain(r)' = Log!Chain(r) /\ EdgesOf(r)' = EdgesOf(r)
  BY <1>0, <1>5, Earlier DEF Log!Chain, EdgesOf
<1>11. NodesUpTo(new, 0) = {} /\ LinksUpTo(new, 0) = {}
  BY DEF NodesUpTo, LinksUpTo
<1>12. Begun'
  <2>1. nextRun' \in 1..(LogRuns + 1) /\ sincePrune' < Interval
    BY <1>5, <1>8 DEF LogInv, Begun
  <2>2. \A r \in DOMAIN logged' : r < nextRun' /\ logged'[r].life <= lives'
    BY <1>5, <1>6, Earlier
  <2>3. \A n \in nodes' : n[1] < nextRun'
    BY <1>5, Earlier
  <2>4. \A e \in edges' : e[1] < nextRun'
    BY <1>5, Earlier
  <2>5. \A r \in abandoned' : r < nextRun'
    BY <1>5, Earlier
  <2>6. ASSUME NEW u \in Writer, NEW v \in Writer, AtWork(u)', AtWork(v)',
               writer'[u].run = writer'[v].run
        PROVE  u = v
    BY <1>3, <1>4, <1>9, <2>6, <1>8 DEF LogInv, Begun, AtWork
  <2> QED
    BY <2>1, <2>2, <2>3, <2>4, <2>5, <2>6 DEF Begun
<1>13. ASSUME NEW v \in Writer, AtWork(v)' PROVE TurnKnows(v)' /\ RunIsThere(v)'
  <2>1. CASE v = w
    <3>1. nextRun \notin abandoned
      BY <1>8 DEF LogInv, Begun
    <3>2. TurnKnows(w)'
      BY <1>2, <1>3, <1>4, <1>5, <1>8, <3>1 DEF TurnKnows
    <3>3. RunIsThere(w)'
      <4>1. /\ writer'[w].run = new /\ writer'[w].made = 0 /\ writer'[w].last = 0
            /\ writer'[w].stage = "begun"
        BY <1>0, <1>3, <1>4
      <4>2. Log!Chain(new)' = NodesUpTo(new, 0) /\ EdgesOf(new)' = LinksUpTo(new, 0)
        BY <1>10, <1>11
      <4>3. logged'[new].life = lives'
        BY <1>0, <1>5, <1>6
      <4>4. /\ Log!Chain(writer[w].run)' = NodesUpTo(writer[w].run, writer[w].made)'
            /\ EdgesOf(writer[w].run)' = LinksUpTo(writer[w].run, writer[w].last)'
        BY <4>1, <4>2 DEF Log!Chain, EdgesOf, NodesUpTo, LinksUpTo
      <4> QED
        BY <4>1, <4>3, <4>4 DEF RunIsThere
    <3> QED
      BY <2>1, <3>2, <3>3
  <2>2. CASE v # w
    <3>1. writer'[v] = writer[v] /\ TurnKnows(v) /\ RunIsThere(v)
      BY <1>4, <1>13, <2>2, OtherTurns
    <3>2. writer[v].run < nextRun /\ writer[v].run \in Nat
      BY <1>9, <1>13, <2>2
    <3>3. TurnKnows(v)'
      BY <1>5, <1>8, <3>1, <3>2 DEF TurnKnows
    <3>4. RunIsThere(v)'
      BY <1>0, <1>5, <1>6, <1>8, <1>10, <3>1, <3>2 DEF RunIsThere
    <3> QED
      BY <3>3, <3>4
  <2> QED
    BY <2>1, <2>2
<1>14. ASSUME NEW r \in DOMAIN logged' PROVE Chained(r)'
  <2>1. CASE r = new
    <3>1. 0 \in 0..MaxNodes /\ Log!Chain(new)' = NodesUpTo(new, 0)
          /\ EdgesOf(new)' = LinksUpTo(new, 0)
      BY <1>2, <1>10, <1>11
    <3> QED
      BY <2>1, <3>1 DEF Chained, NodesUpTo, LinksUpTo
  <2>2. CASE r # new
    <3>1. Chained(r) /\ r \in DOMAIN logged /\ r \in Nat
      BY <1>0, <1>6, <1>8, <2>2, LogTyped DEF LogInv
    <3>2. \A v \in Writer : Log!At(v, "linking") => v # w
      BY <1>5 DEF Log!At, AtWork, Log!InsertRun
    <3>3. \A v \in Writer : Log!At(v, "linking") => writer'[v] = writer[v]
      BY <1>4, <3>2
    <3> QED
      BY <1>0, <1>5, <1>6, <1>10, <2>2, <3>1, <3>3 DEF Chained, Log!At
  <2> QED
    BY <2>1, <2>2
<1>15. Log!RunningHasWriter'
  <2>1. SUFFICES ASSUME NEW r \in DOMAIN logged', logged'[r].status = "running",
                        logged'[r].life = lives', r \notin abandoned'
                 PROVE  \E v \in Writer : Log!Writes(v, r)'
    BY DEF Log!RunningHasWriter
  <2>2. CASE r = nextRun
    BY <1>3, <1>4, <2>2 DEF Log!Writes, Log!At
  <2>3. CASE r # nextRun
    <3>1. PICK v \in Writer : Log!Writes(v, r)
      BY <1>5, <1>6, <2>1, <2>3 DEF LogInv, Log!RunningHasWriter
    <3>2. v # w
      BY <1>5, <3>1 DEF Log!Writes, Log!At, AtWork
    <3> QED
      BY <1>4, <3>1, <3>2 DEF Log!Writes, Log!At
  <2> QED
    BY <2>2, <2>3
<1> QED
  BY <1>7, <1>12, <1>13, <1>14, <1>15 DEF LogInv

\* A turn writes what comes next to its own run.
LEMMA TurnWrites ==
    ASSUME LogInv, Log!EventLogAssumption, NEW w \in Writer, NEW s \in LogTurn, Log!Becomes(w, s),
           AtWork(w), s.stage # "done", s.run = writer[w].run,
           UNCHANGED <<latest, sincePrune, nextRun, lives, attached, abandoned>>,
           DOMAIN logged' = DOMAIN logged,
           \A r \in DOMAIN logged : /\ logged'[r] \in RunRec /\ logged'[r].life = logged[r].life
                                    /\ r # writer[w].run => logged'[r] = logged[r],
           nodes' \subseteq Log!Run \X (1..MaxNodes),
           edges' \subseteq Log!Run \X (1..MaxNodes) \X (1..MaxNodes),
           \A n \in nodes' : n[1] < nextRun, \A e \in edges' : e[1] < nextRun,
           \A r : r # writer[w].run => Log!Chain(r)' = Log!Chain(r) /\ EdgesOf(r)' = EdgesOf(r),
           TurnKnows(w)', RunIsThere(w)'
    PROVE  LogInv'
<1>1. /\ writer' \in [Writer -> LogTurn] /\ writer'[w] = s
      /\ \A v \in Writer \ {w} : writer'[v] = writer[v]
  BY BecomesOne DEF LogInv
<1>2. Log!TypeOK'
  BY <1>1, LogTyped, LogTypes DEF LogInv
<1>3. Begun'
  BY <1>1 DEF LogInv, Begun, AtWork
<1>4. PICK mine : mine = writer[w].run
  OBVIOUS
<1>5. \A v \in Writer \ {w} : AtWork(v)' => AtWork(v) /\ writer[v].run # mine
  BY <1>1, <1>4 DEF LogInv, Begun, AtWork
<1>6. ASSUME NEW v \in Writer, AtWork(v)' PROVE TurnKnows(v)' /\ RunIsThere(v)'
  <2>1. CASE v = w
    BY <2>1
  <2>2. CASE v # w
    <3>1. writer'[v] = writer[v] /\ TurnKnows(v) /\ RunIsThere(v) /\ writer[v].run # mine
      BY <1>1, <1>5, <1>6, <2>2 DEF LogInv
    <3>2. PICK q : q = writer[v].run /\ q = writer'[v].run
      BY <3>1
    <3>3. Log!Chain(q)' = Log!Chain(q) /\ EdgesOf(q)' = EdgesOf(q)
      BY <1>4, <3>1, <3>2
    <3>4. TurnKnows(v)'
      BY <3>1 DEF TurnKnows
    <3>5. q \in DOMAIN logged => logged'[q] = logged[q]
      BY <1>4, <3>1, <3>2
    <3>6. RunIsThere(v)'
      BY <3>1, <3>2, <3>3, <3>5 DEF RunIsThere, Log!Chain, EdgesOf
    <3> QED
      BY <3>4, <3>6
  <2> QED
    BY <2>1, <2>2
<1>7. ASSUME NEW r \in DOMAIN logged' PROVE Chained(r)'
  <2>1. CASE r = mine
    <3>1. /\ Log!Chain(r)' = NodesUpTo(r, s.made) /\ EdgesOf(r)' = LinksUpTo(r, s.last)
      BY <1>1, <1>4, <2>1 DEF RunIsThere, Log!Chain, EdgesOf
    <3>2. /\ s.made \in 0..MaxNodes
          /\ IF s.stage = "linking" THEN s.made > 1 /\ s.last = s.made - 1 ELSE s.last = s.made
      BY <1>1 DEF TurnKnows, LogTurn
    <3>3. CASE s.stage = "linking"
      <4>1. Log!At(w, "linking")' /\ writer'[w].run = r
        BY <1>1, <1>4, <2>1, <3>3 DEF Log!At
      <4>2. /\ Log!Chain(r)' = NodesUpTo(r, s.made)
            /\ s.made > 1 /\ EdgesOf(r)' = LinksUpTo(r, s.made - 1)
        BY <3>1, <3>2, <3>3
      <4> QED
        BY <3>2, <4>1, <4>2 DEF Chained, NodesUpTo, LinksUpTo
    <3>4. CASE s.stage # "linking"
      BY <3>1, <3>2, <3>4 DEF Chained, NodesUpTo, LinksUpTo
    <3> QED
      BY <3>3, <3>4
  <2>2. CASE r # mine
    <3>1. Chained(r) /\ Log!Chain(r)' = Log!Chain(r) /\ EdgesOf(r)' = EdgesOf(r)
      BY <1>4, <2>2 DEF LogInv
    <3>2. \A v \in Writer : Log!At(v, "linking") /\ writer[v].run = r
                              => Log!At(v, "linking")' /\ writer'[v].run = r
      BY <1>1, <1>4, <2>2 DEF Log!At
    <3>3. logged'[r].life = logged[r].life
      OBVIOUS
    <3> QED
      BY <3>1, <3>2, <3>3 DEF Chained, NodesUpTo, LinksUpTo
  <2> QED
    BY <2>1, <2>2
<1>8. Log!RunningHasWriter'
  <2>1. SUFFICES ASSUME NEW r \in DOMAIN logged, logged'[r].status = "running",
                        logged'[r].life = lives, r \notin abandoned
                 PROVE  \E v \in Writer : Log!Writes(v, r)'
    BY DEF Log!RunningHasWriter
  <2>2. CASE r = mine
    BY <1>1, <1>4, <2>2 DEF Log!Writes, Log!At
  <2>3. CASE r # mine
    <3>1. PICK v \in Writer : Log!Writes(v, r)
      BY <1>4, <2>1, <2>3 DEF LogInv, Log!RunningHasWriter
    <3> QED
      BY <1>1, <1>4, <2>3, <3>1 DEF Log!Writes, Log!At
  <2> QED
    BY <2>2, <2>3
<1> QED
  BY <1>2, <1>3, <1>6, <1>7, <1>8 DEF LogInv

\* A turn is over, and the log may drop runs.
LEMMA TurnIsOver ==
    ASSUME LogInv, Log!EventLogAssumption, NEW w \in Writer, NEW s \in LogTurn, Log!Becomes(w, s),
           AtWork(w), s.stage = "done", writer[w].stage # "linking",
           UNCHANGED <<latest, sincePrune, nextRun, lives, attached>>,
           DOMAIN logged' \subseteq DOMAIN logged,
           \A r \in DOMAIN logged' : logged'[r] = logged[r],
           nodes' \subseteq nodes, edges' \subseteq edges,
           \A r \in DOMAIN logged' : Log!Chain(r)' = Log!Chain(r) /\ EdgesOf(r)' = EdgesOf(r),
           abandoned \subseteq abandoned', abandoned' \subseteq abandoned \cup {writer[w].run},
           \/ writer[w].run \in abandoned'
           \/ writer[w].run \in DOMAIN logged => logged[writer[w].run].status # "running"
    PROVE  LogInv'
<1>1. /\ writer' \in [Writer -> LogTurn] /\ writer'[w] = s
      /\ \A v \in Writer \ {w} : writer'[v] = writer[v]
  BY BecomesOne DEF LogInv
<1>2. Log!TypeOK'
  <2>1. abandoned' \subseteq Log!Run
    BY LogTyped DEF LogInv, TurnKnows
  <2> QED
    BY <1>1, <2>1, LogTyped, LogTypes DEF LogInv
<1>3. \A v \in Writer : AtWork(v)' => v # w /\ AtWork(v) /\ writer'[v] = writer[v]
  BY <1>1 DEF AtWork
<1>4. writer[w].run < nextRun
  BY DEF LogInv, TurnKnows
<1>5. Begun'
  BY <1>3, <1>4 DEF LogInv, Begun
<1>6. ASSUME NEW v \in Writer, AtWork(v)' PROVE TurnKnows(v)' /\ RunIsThere(v)'
  <2>1. writer'[v] = writer[v] /\ TurnKnows(v) /\ RunIsThere(v) /\ writer[v].run # writer[w].run
    BY <1>3, <1>6 DEF LogInv, Begun
  <2>2. TurnKnows(v)'
    BY <2>1 DEF TurnKnows
  <2>3. PICK q : q = writer[v].run /\ q = writer'[v].run
    BY <2>1
  <2>4. q \in DOMAIN logged' =>
          /\ q \in DOMAIN logged /\ logged'[q] = logged[q]
          /\ Log!Chain(q)' = Log!Chain(q) /\ EdgesOf(q)' = EdgesOf(q)
    OBVIOUS
  <2>5. RunIsThere(v)'
    BY <2>1, <2>3, <2>4 DEF RunIsThere, Log!Chain, EdgesOf
  <2> QED
    BY <2>2, <2>5
<1>7. ASSUME NEW r \in DOMAIN logged' PROVE Chained(r)'
  <2>1. /\ Chained(r) /\ Log!Chain(r)' = Log!Chain(r) /\ EdgesOf(r)' = EdgesOf(r)
        /\ logged'[r] = logged[r]
    BY DEF LogInv
  <2>2. \A v \in Writer : Log!At(v, "linking") /\ writer[v].run = r
                            => Log!At(v, "linking")' /\ writer'[v].run = r
    BY <1>1 DEF Log!At
  <2> QED
    BY <2>1, <2>2 DEF Chained, NodesUpTo, LinksUpTo
<1>8. Log!RunningHasWriter'
  <2>1. SUFFICES ASSUME NEW r \in DOMAIN logged', logged'[r].status = "running",
                        logged'[r].life = lives, r \notin abandoned'
                 PROVE  \E v \in Writer : Log!Writes(v, r)'
    BY DEF Log!RunningHasWriter
  <2>2. r \in DOMAIN logged /\ logged'[r] = logged[r] /\ r \notin abandoned
    BY <2>1
  <2>3. PICK v \in Writer : Log!Writes(v, r)
    BY <2>1, <2>2 DEF LogInv, Log!RunningHasWriter
  <2>4. v # w
    BY <2>1, <2>2, <2>3 DEF Log!Writes
  <2> QED
    BY <1>1, <2>3, <2>4 DEF Log!Writes, Log!At
<1> QED
  BY <1>2, <1>5, <1>6, <1>7, <1>8 DEF LogInv

LEMMA LogKnown ==
    ASSUME LogInv, Log!EventLogAssumption, NEW w \in Writer, AtWork(w)
    PROVE  /\ TurnKnows(w) /\ RunIsThere(w) /\ writer[w] \in LogTurn
           /\ writer[w].made \in 0..MaxNodes /\ writer[w].last \in 0..MaxNodes
           /\ MaxNodes \in Nat /\ writer[w].status \in {"none"} \cup Log!Ends
           /\ latest \in [Session -> Log!Run \cup {0}]
           /\ sincePrune \in Nat /\ sincePrune < Interval /\ Interval \in Nat /\ Interval > 0
           /\ attached \subseteq Writer /\ abandoned \subseteq Log!Run
           /\ nodes \subseteq Log!Run \X (1..MaxNodes)
           /\ edges \subseteq Log!Run \X (1..MaxNodes) \X (1..MaxNodes)
<1>1. /\ writer[w] \in LogTurn /\ latest \in [Session -> Log!Run \cup {0}]
      /\ attached \subseteq Writer /\ abandoned \subseteq Log!Run
      /\ nodes \subseteq Log!Run \X (1..MaxNodes)
      /\ edges \subseteq Log!Run \X (1..MaxNodes) \X (1..MaxNodes)
  BY LogTyped DEF LogInv
<1>2. MaxNodes \in Nat /\ sincePrune \in Nat /\ sincePrune < Interval
      /\ Interval \in Nat /\ Interval > 0
  BY LogTyped DEF LogInv, Begun
<1> QED
  BY <1>1, <1>2 DEF LogInv, LogTurn

LEMMA LogNoteLatest ==
    ASSUME LogInv, Log!EventLogAssumption, NEW w \in Writer, Log!NoteLatest(w)
    PROVE  LogInv'
<1> DEFINE s == [writer[w] EXCEPT !.stage = "starting"]
<1>1. AtWork(w) /\ writer[w].stage = "begun" /\ Log!Becomes(w, s)
  BY DEF Log!NoteLatest, Log!At, AtWork, Log!Progress
<1>2. writer[w] \in LogTurn /\ writer[w].made \in 0..MaxNodes /\ writer[w].run \in Log!Run
      /\ writer[w].session \in Session
      /\ (writer[w].stage \in {"begun", "starting"} <=> writer[w].made = 0)
  BY <1>1, LogKnown DEF TurnKnows
<1>3. /\ s \in LogTurn /\ s.stage = "starting" /\ s.run = writer[w].run
      /\ s.session = writer[w].session /\ s.made = writer[w].made /\ s.last = writer[w].last
  BY <1>2 DEF LogTurn, Log!Stages
<1> HIDE DEF s
<1>4. latest' \in [Session -> Log!Run \cup {0}]
  BY <1>1, <1>2, LogKnown DEF Log!NoteLatest
<1>5. UNCHANGED <<logged, nodes, edges, nextRun, lives, abandoned, sincePrune, attached>>
  BY DEF Log!NoteLatest
<1>6. attached' \subseteq Writer /\ sincePrune' \in 0..Interval /\ sincePrune' < Interval
  BY <1>1, <1>5, LogKnown
<1>7. s.stage # "done" => s.stage \in {"begun", "starting"} <=> s.made = 0
  BY <1>1, <1>2, <1>3
<1> QED
  BY <1>1, <1>3, <1>4, <1>5, <1>6, <1>7, TurnGoesOn

LEMMA LogAttach ==
    ASSUME LogInv, Log!EventLogAssumption, NEW w \in Writer, Log!Attach(w)
    PROVE  LogInv'
<1>1. AtWork(w) /\ writer[w].stage = "attaching"
  BY DEF Log!Attach, Log!At, AtWork
<1>2. /\ writer[w] \in LogTurn
      /\ (writer[w].stage \in {"begun", "starting"} <=> writer[w].made = 0)
  BY <1>1, LogKnown DEF TurnKnows
<1>3. UNCHANGED <<logged, nodes, edges, nextRun, lives, abandoned, sincePrune, latest>>
  BY DEF Log!Attach
<1>4. /\ attached' \subseteq Writer /\ sincePrune' \in 0..Interval /\ sincePrune' < Interval
      /\ latest' \in [Session -> Log!Run \cup {0}]
  BY <1>1, <1>3, LogKnown DEF Log!Attach
<1>5. CASE attached = {}
  <2> DEFINE s == [writer[w] EXCEPT !.stage = "open"]
  <2>1. Log!Becomes(w, s)
    BY <1>5 DEF Log!Attach, Log!Progress
  <2>2. /\ s \in LogTurn /\ s.stage = "open" /\ s.run = writer[w].run
        /\ s.session = writer[w].session /\ s.made = writer[w].made /\ s.last = writer[w].last
    BY <1>2 DEF LogTurn, Log!Stages
  <2> HIDE DEF s
  <2> QED
    BY <1>1, <1>2, <1>3, <1>4, <2>1, <2>2, TurnGoesOn
<1>6. CASE attached # {}
  <2> DEFINE s == [writer[w] EXCEPT !.stage = "ending", !.status = "stopped"]
  <2>1. Log!Becomes(w, s)
    BY <1>6 DEF Log!Attach
  <2>2. /\ s \in LogTurn /\ s.stage = "ending" /\ s.run = writer[w].run
        /\ s.session = writer[w].session /\ s.made = writer[w].made /\ s.last = writer[w].last
        /\ s.status = "stopped"
    BY <1>2 DEF LogTurn, Log!Stages, Log!Ends
  <2> HIDE DEF s
  <2> QED
    BY <1>1, <1>2, <1>3, <1>4, <2>1, <2>2, TurnGoesOn
<1> QED
  BY <1>5, <1>6

LEMMA LogEnding ==
    ASSUME LogInv, Log!EventLogAssumption, NEW w \in Writer, Log!Ending(w)
    PROVE  LogInv'
<1> DEFINE s == [writer[w] EXCEPT !.stage = "ending", !.status = "ended"]
<1>1. AtWork(w) /\ writer[w].stage = "open" /\ Log!Becomes(w, s)
  BY DEF Log!Ending, Log!At, AtWork
<1>2. /\ writer[w] \in LogTurn
      /\ (writer[w].stage \in {"begun", "starting"} <=> writer[w].made = 0)
  BY <1>1, LogKnown DEF TurnKnows
<1>3. /\ s \in LogTurn /\ s.stage = "ending" /\ s.run = writer[w].run
      /\ s.session = writer[w].session /\ s.made = writer[w].made /\ s.last = writer[w].last
      /\ s.status = "ended"
  BY <1>2 DEF LogTurn, Log!Stages, Log!Ends
<1> HIDE DEF s
<1>4. UNCHANGED <<logged, nodes, edges, nextRun, lives, abandoned, sincePrune, latest>>
  BY DEF Log!Ending
<1>5. /\ attached' \subseteq Writer /\ sincePrune' \in 0..Interval /\ sincePrune' < Interval
      /\ latest' \in [Session -> Log!Run \cup {0}]
  BY <1>1, <1>4, LogKnown DEF Log!Ending
<1> QED
  BY <1>1, <1>2, <1>3, <1>4, <1>5, TurnGoesOn

LEMMA LogCountEnd ==
    ASSUME LogInv, Log!EventLogAssumption, NEW w \in Writer, Log!CountEnd(w)
    PROVE  LogInv'
<1> DEFINE a == IF sincePrune + 1 >= Interval THEN "pruning" ELSE "done"
           s == [writer[w] EXCEPT !.stage = a]
<1>1. AtWork(w) /\ writer[w].stage = "counting" /\ Log!Becomes(w, s)
  BY DEF Log!CountEnd, Log!At, AtWork, Log!Progress
<1>2. /\ writer[w] \in LogTurn /\ writer[w].status # "none"
      /\ (writer[w].stage \in {"begun", "starting"} <=> writer[w].made = 0)
  BY <1>1, LogKnown DEF TurnKnows
<1>3. a \in {"pruning", "done"} /\ a \in Log!Stages
  BY DEF Log!Stages
<1> HIDE DEF a
<1>4. /\ s \in LogTurn /\ s.stage = a /\ s.run = writer[w].run
      /\ s.session = writer[w].session /\ s.made = writer[w].made /\ s.last = writer[w].last
      /\ s.status = writer[w].status
  BY <1>2, <1>3 DEF LogTurn
<1> HIDE DEF s
<1>5. UNCHANGED <<logged, nodes, edges, nextRun, lives, abandoned, attached, latest>>
  BY DEF Log!CountEnd
<1>6. sincePrune \in Nat /\ Interval \in Nat /\ Interval > 0 /\ attached \subseteq Writer
      /\ latest \in [Session -> Log!Run \cup {0}]
  BY <1>1, LogKnown
<1>7. sincePrune' = IF sincePrune + 1 >= Interval THEN 0 ELSE sincePrune + 1
  BY DEF Log!CountEnd
<1>8. sincePrune' \in 0..Interval /\ sincePrune' < Interval
  BY <1>6, <1>7
<1> QED
  BY <1>1, <1>2, <1>3, <1>4, <1>5, <1>6, <1>8, TurnGoesOn

LEMMA LogInsertNode ==
    ASSUME LogInv, Log!EventLogAssumption, NEW w \in Writer, Log!InsertNode(w)
    PROVE  LogInv'
<1>1. PICK mine, k : mine = writer[w].run /\ k = writer[w].made + 1
  OBVIOUS
<1> DEFINE after == IF writer[w].evolve THEN "attaching" ELSE "open"
           s == IF k = 1 THEN [writer[w] EXCEPT !.stage = after, !.made = k, !.last = k]
                ELSE [writer[w] EXCEPT !.stage = "linking", !.made = k]
<1>2. /\ AtWork(w) /\ writer[w].stage \in {"starting", "open"} /\ writer[w].made < MaxNodes
      /\ Log!Becomes(w, s) /\ nodes' = nodes \cup {<<mine, k>>}
  BY <1>1 DEF Log!InsertNode, Log!At, AtWork
<1>3. /\ writer[w] \in LogTurn /\ TurnKnows(w) /\ RunIsThere(w)
      /\ writer[w].made \in Nat /\ MaxNodes \in Nat /\ mine \in Log!Run
      /\ mine \in Nat /\ mine < nextRun
  BY <1>1, <1>2, LogKnown, Earlier DEF TurnKnows
<1>4. k \in 0..MaxNodes /\ k \in 1..MaxNodes /\ k > 0
  BY <1>1, <1>2, <1>3
<1>5. after \in {"attaching", "open"} /\ after \in Log!Stages /\ "linking" \in Log!Stages
  BY DEF Log!Stages
<1> HIDE DEF after
<1>6. /\ s \in LogTurn /\ s.run = mine /\ s.session = writer[w].session
      /\ s.stage = IF k = 1 THEN after ELSE "linking"
      /\ s.made = k /\ s.last = IF k = 1 THEN k ELSE writer[w].last
  <2>1. CASE k = 1
    BY <1>1, <1>3, <1>4, <1>5, <2>1 DEF LogTurn
  <2>2. CASE k # 1
    BY <1>1, <1>3, <1>4, <1>5, <2>2 DEF LogTurn
  <2> QED
    BY <2>1, <2>2
<1> HIDE DEF s
<1>7. /\ UNCHANGED <<logged, edges, latest, sincePrune, nextRun, lives, attached, abandoned>>
      /\ writer'[w] = s
  BY <1>2, <1>6, BecomesOne DEF Log!InsertNode, LogInv
<1>8. \A r \in DOMAIN logged : logged'[r] \in RunRec /\ logged'[r] = logged[r]
  BY <1>7, LogTyped DEF LogInv
<1>9. /\ nodes' \subseteq Log!Run \X (1..MaxNodes)
      /\ edges' \subseteq Log!Run \X (1..MaxNodes) \X (1..MaxNodes)
  BY <1>2, <1>3, <1>4, <1>7, LogKnown
<1>10. (\A n \in nodes' : n[1] < nextRun) /\ (\A e \in edges' : e[1] < nextRun)
  BY <1>2, <1>3, <1>7, Earlier
<1>11. \A r : EdgesOf(r)' = EdgesOf(r) /\ (r # mine => Log!Chain(r)' = Log!Chain(r))
  BY <1>2, <1>7 DEF Log!Chain, EdgesOf
<1>12. writer[w].last = writer[w].made
  BY <1>2, <1>3 DEF TurnKnows
<1>13. TurnKnows(w)'
  <2>1. IF writer'[w].stage = "linking"
        THEN writer'[w].made > 1 /\ writer'[w].last = writer'[w].made - 1
        ELSE writer'[w].last = writer'[w].made
    BY <1>1, <1>3, <1>4, <1>5, <1>6, <1>7, <1>12
  <2>2. writer'[w].stage \in {"begun", "starting"} <=> writer'[w].made = 0
    BY <1>4, <1>5, <1>6, <1>7
  <2>3. writer'[w].stage \notin {"ending", "counting", "pruning"}
    BY <1>5, <1>6, <1>7
  <2> QED
    BY <1>1, <1>3, <1>6, <1>7, <2>1, <2>2, <2>3 DEF TurnKnows
<1>14. RunIsThere(w)'
  <2>1. SUFFICES ASSUME mine \in DOMAIN logged
                 PROVE  /\ Log!Chain(mine)' = NodesUpTo(mine, k)
                        /\ EdgesOf(mine)' = LinksUpTo(mine, s.last)
                        /\ logged[mine].life = lives
    BY <1>5, <1>6, <1>7 DEF RunIsThere, Log!Chain, EdgesOf, NodesUpTo, LinksUpTo
  <2>2. /\ Log!Chain(mine) = NodesUpTo(mine, k - 1)
        /\ EdgesOf(mine) = LinksUpTo(mine, k - 1)
        /\ logged[mine].life = lives
    BY <1>1, <1>3, <1>12, <2>1 DEF RunIsThere
  <2>3. Log!Chain(mine)' = NodesUpTo(mine, k)
    <3>1. Log!Chain(mine)' = Log!Chain(mine) \cup {<<mine, k>>}
      BY <1>2 DEF Log!Chain
    <3>2. 1..k = (1..(k - 1)) \cup {k}
      BY <1>4
    <3>3. NodesUpTo(mine, k) = NodesUpTo(mine, k - 1) \cup {<<mine, k>>}
      BY <3>2 DEF NodesUpTo
    <3> QED
      BY <2>2, <3>1, <3>3
  <2>4. EdgesOf(mine)' = LinksUpTo(mine, s.last)
    <3>1. CASE k = 1
      <4>1. 1..(0 - 1) = {} /\ 1..(1 - 1) = {}
        OBVIOUS
      <4>2. LinksUpTo(mine, 0) = {} /\ LinksUpTo(mine, 1) = {}
        BY <4>1 DEF LinksUpTo
      <4>3. k - 1 = 0 /\ s.last = 1
        BY <1>6, <3>1
      <4> QED
        BY <1>11, <2>2, <4>2, <4>3
    <3>2. CASE k # 1
      <4>1. s.last = k - 1
        BY <1>1, <1>3, <1>6, <1>12, <3>2
      <4> QED
        BY <1>11, <2>2, <4>1
    <3> QED
      BY <3>1, <3>2
  <2> QED
    BY <2>2, <2>3, <2>4
<1>15. s.stage # "done"
  BY <1>5, <1>6
<1> QED
  BY <1>1, <1>2, <1>6, <1>7, <1>8, <1>9, <1>10, <1>11, <1>13, <1>14, <1>15, TurnWrites

LEMMA LogInsertEdge ==
    ASSUME LogInv, Log!EventLogAssumption, NEW w \in Writer, Log!InsertEdge(w)
    PROVE  LogInv'
<1>1. PICK mine, k : mine = writer[w].run /\ k = writer[w].made
  OBVIOUS
<1> DEFINE s == [writer[w] EXCEPT !.stage = "open", !.last = k]
<1>2. /\ AtWork(w) /\ writer[w].stage = "linking" /\ Log!Becomes(w, s)
      /\ edges' = edges \cup {<<mine, writer[w].last, k>>}
  BY <1>1 DEF Log!InsertEdge, Log!At, AtWork
<1>3. /\ writer[w] \in LogTurn /\ TurnKnows(w) /\ RunIsThere(w)
      /\ k \in 0..MaxNodes /\ MaxNodes \in Nat /\ mine \in Log!Run
      /\ mine \in Nat /\ mine < nextRun /\ k > 1 /\ writer[w].last = k - 1
  BY <1>1, <1>2, LogKnown, Earlier DEF TurnKnows
<1>4. k \in 1..MaxNodes /\ k - 1 \in 1..MaxNodes
  BY <1>3
<1>5. /\ s \in LogTurn /\ s.run = mine /\ s.session = writer[w].session
      /\ s.stage = "open" /\ s.made = k /\ s.last = k
  BY <1>1, <1>3 DEF LogTurn, Log!Stages
<1> HIDE DEF s
<1>6. /\ UNCHANGED <<logged, nodes, latest, sincePrune, nextRun, lives, attached, abandoned>>
      /\ writer'[w] = s
  BY <1>2, <1>5, BecomesOne DEF Log!InsertEdge, LogInv
<1>7. \A r \in DOMAIN logged : logged'[r] \in RunRec /\ logged'[r] = logged[r]
  BY <1>6, LogTyped DEF LogInv
<1>8. /\ nodes' \subseteq Log!Run \X (1..MaxNodes)
      /\ edges' \subseteq Log!Run \X (1..MaxNodes) \X (1..MaxNodes)
  BY <1>2, <1>3, <1>4, <1>6, LogKnown
<1>9. (\A n \in nodes' : n[1] < nextRun) /\ (\A e \in edges' : e[1] < nextRun)
  BY <1>2, <1>3, <1>6, Earlier
<1>10. \A r : Log!Chain(r)' = Log!Chain(r) /\ (r # mine => EdgesOf(r)' = EdgesOf(r))
  BY <1>2, <1>6 DEF Log!Chain, EdgesOf
<1>11. TurnKnows(w)'
  BY <1>1, <1>3, <1>5, <1>6 DEF TurnKnows
<1>12. RunIsThere(w)'
  <2>1. SUFFICES ASSUME mine \in DOMAIN logged
                 PROVE  /\ Log!Chain(mine)' = NodesUpTo(mine, k)
                        /\ EdgesOf(mine)' = LinksUpTo(mine, k)
                        /\ logged[mine].life = lives
    BY <1>5, <1>6 DEF RunIsThere, Log!Chain, EdgesOf, NodesUpTo, LinksUpTo
  <2>2. /\ Log!Chain(mine) = NodesUpTo(mine, k)
        /\ EdgesOf(mine) = LinksUpTo(mine, k - 1)
        /\ logged[mine].life = lives
    BY <1>1, <1>3, <2>1 DEF RunIsThere
  <2>3. EdgesOf(mine)' = LinksUpTo(mine, k)
    <3>1. EdgesOf(mine)' = EdgesOf(mine) \cup {<<mine, k - 1, k>>}
      BY <1>2, <1>3 DEF EdgesOf
    <3>2. 1..(k - 1) = (1..(k - 1 - 1)) \cup {k - 1} /\ k - 1 + 1 = k
      BY <1>3
    <3>3. LinksUpTo(mine, k) = LinksUpTo(mine, k - 1) \cup {<<mine, k - 1, k>>}
      BY <3>2 DEF LinksUpTo
    <3> QED
      BY <2>2, <3>1, <3>3
  <2> QED
    BY <1>10, <2>2, <2>3
<1>13. s.stage # "done"
  BY <1>5
<1> QED
  BY <1>1, <1>2, <1>5, <1>6, <1>7, <1>8, <1>9, <1>10, <1>11, <1>12, <1>13, TurnWrites

LEMMA LogFinalizeRun ==
    ASSUME LogInv, Log!EventLogAssumption, NEW w \in Writer, Log!FinalizeRun(w)
    PROVE  LogInv'
<1>1. PICK mine : mine = writer[w].run
  OBVIOUS
<1> DEFINE s == [writer[w] EXCEPT !.stage = "counting"]
<1>2. /\ AtWork(w) /\ writer[w].stage = "ending" /\ Log!Becomes(w, s)
      /\ logged' = [r \in DOMAIN logged |->
                      IF r = mine THEN [logged[r] EXCEPT !.status = writer[w].status]
                      ELSE logged[r]]
  BY <1>1 DEF Log!FinalizeRun, Log!At, AtWork, Log!Progress
<1>3. /\ writer[w] \in LogTurn /\ TurnKnows(w) /\ RunIsThere(w) /\ mine \in Log!Run
      /\ writer[w].status \in Log!Ends
  BY <1>1, <1>2, LogKnown DEF TurnKnows
<1>4. /\ s \in LogTurn /\ s.run = mine /\ s.session = writer[w].session /\ s.stage = "counting"
      /\ s.made = writer[w].made /\ s.last = writer[w].last /\ s.status = writer[w].status
  BY <1>1, <1>3 DEF LogTurn, Log!Stages
<1> HIDE DEF s
<1>5. /\ UNCHANGED <<nodes, edges, latest, sincePrune, nextRun, lives, attached, abandoned>>
      /\ writer'[w] = s
  BY <1>2, <1>4, BecomesOne DEF Log!FinalizeRun, LogInv
<1>6. DOMAIN logged' = DOMAIN logged
  BY <1>2
<1>7. \A r \in DOMAIN logged :
        /\ logged'[r] \in RunRec /\ logged'[r].life = logged[r].life
        /\ r # mine => logged'[r] = logged[r]
        /\ r = mine => logged'[r].status = writer[w].status
  <2>1. ASSUME NEW r \in DOMAIN logged
        PROVE  /\ logged'[r] \in RunRec /\ logged'[r].life = logged[r].life
               /\ r # mine => logged'[r] = logged[r]
               /\ r = mine => logged'[r].status = writer[w].status
    <3>1. logged[r] \in RunRec
      BY LogTyped DEF LogInv
    <3>2. CASE r = mine
      BY <1>2, <1>3, <3>1, <3>2 DEF RunRec
    <3>3. CASE r # mine
      BY <1>2, <3>1, <3>3
    <3> QED
      BY <3>2, <3>3
  <2> QED
    BY <2>1
<1>8. /\ nodes' \subseteq Log!Run \X (1..MaxNodes)
      /\ edges' \subseteq Log!Run \X (1..MaxNodes) \X (1..MaxNodes)
  BY <1>2, <1>5, LogKnown
<1>9. (\A n \in nodes' : n[1] < nextRun) /\ (\A e \in edges' : e[1] < nextRun)
  BY <1>5, Earlier
<1>10. \A r : Log!Chain(r)' = Log!Chain(r) /\ EdgesOf(r)' = EdgesOf(r)
  BY <1>5 DEF Log!Chain, EdgesOf
<1>11. TurnKnows(w)'
  BY <1>1, <1>2, <1>3, <1>4, <1>5 DEF TurnKnows
<1>12. RunIsThere(w)'
  <2>1. writer[w].status # "running"
    BY <1>3 DEF Log!Ends
  <2>2. mine \in DOMAIN logged =>
          /\ Log!Chain(mine)' = NodesUpTo(mine, s.made)
          /\ EdgesOf(mine)' = LinksUpTo(mine, s.last)
          /\ logged'[mine].life = lives /\ logged'[mine].status # "running"
    BY <1>1, <1>3, <1>4, <1>7, <1>10, <2>1 DEF RunIsThere
  <2> QED
    BY <1>4, <1>5, <1>6, <2>2 DEF RunIsThere, Log!Chain, EdgesOf, NodesUpTo, LinksUpTo
<1>13. s.stage # "done"
  BY <1>4
<1> QED
  BY <1>1, <1>2, <1>4, <1>5, <1>6, <1>7, <1>8, <1>9, <1>10, <1>11, <1>12, <1>13, TurnWrites

LEMMA LogAbandon ==
    ASSUME LogInv, Log!EventLogAssumption, NEW w \in Writer, Log!Abandon(w)
    PROVE  LogInv'
<1> DEFINE s == [writer[w] EXCEPT !.stage = "done"]
<1>1. AtWork(w) /\ writer[w].stage = "open" /\ Log!Becomes(w, s)
  BY DEF Log!Abandon, Log!At, AtWork, Log!Progress
<1>2. writer[w] \in LogTurn
  BY <1>1, LogKnown
<1>3. s \in LogTurn /\ s.stage = "done"
  BY <1>2 DEF LogTurn, Log!Stages
<1> HIDE DEF s
<1>4. /\ UNCHANGED <<logged, nodes, edges, latest, sincePrune, nextRun, lives, attached>>
      /\ abandoned' = abandoned \cup {writer[w].run}
  BY DEF Log!Abandon
<1>5. \A r : Log!Chain(r)' = Log!Chain(r) /\ EdgesOf(r)' = EdgesOf(r)
  BY <1>4 DEF Log!Chain, EdgesOf
<1> QED
  BY <1>1, <1>3, <1>4, <1>5, TurnIsOver

\* A prune takes runs with all that is theirs.
LEMMA PruneTakesRuns ==
    ASSUME Log!Pruned
    PROVE  /\ DOMAIN logged' = Log!Kept /\ Log!Kept \subseteq DOMAIN logged
           /\ \A r \in Log!Kept : logged'[r] = logged[r]
           /\ nodes' \subseteq nodes /\ edges' \subseteq edges
           /\ \A r \in Log!Kept : Log!Chain(r)' = Log!Chain(r) /\ EdgesOf(r)' = EdgesOf(r)
<1>1. Log!Kept \subseteq DOMAIN logged
  BY DEF Log!Kept
<1> QED
  BY <1>1 DEF Log!Pruned, Log!Chain, EdgesOf

LEMMA LogPrune ==
    ASSUME LogInv, Log!EventLogAssumption, NEW w \in Writer, Log!PruneOldRuns(w)
    PROVE  LogInv'
<1> DEFINE s == [writer[w] EXCEPT !.stage = "done"]
<1>1. AtWork(w) /\ writer[w].stage = "pruning" /\ Log!Becomes(w, s) /\ Log!Pruned
  BY DEF Log!PruneOldRuns, Log!At, AtWork, Log!Progress
<1>2. writer[w] \in LogTurn /\ RunIsThere(w)
  BY <1>1, LogKnown
<1>3. s \in LogTurn /\ s.stage = "done"
  BY <1>2 DEF LogTurn, Log!Stages
<1> HIDE DEF s
<1>4. UNCHANGED <<latest, sincePrune, nextRun, lives, attached, abandoned>>
  BY DEF Log!PruneOldRuns
<1>5. writer[w].run \in DOMAIN logged => logged[writer[w].run].status # "running"
  BY <1>1, <1>2 DEF RunIsThere
<1>6. /\ DOMAIN logged' = Log!Kept /\ Log!Kept \subseteq DOMAIN logged
      /\ \A r \in Log!Kept : logged'[r] = logged[r]
      /\ nodes' \subseteq nodes /\ edges' \subseteq edges
      /\ \A r \in Log!Kept : Log!Chain(r)' = Log!Chain(r) /\ EdgesOf(r)' = EdgesOf(r)
  BY <1>1, PruneTakesRuns
<1> QED
  BY <1>1, <1>3, <1>4, <1>5, <1>6, TurnIsOver

LEMMA LogRestart ==
    ASSUME LogInv, Log!EventLogAssumption, Log!Restart
    PROVE  LogInv'
<1>1. /\ DOMAIN logged' = Log!Kept /\ Log!Kept \subseteq DOMAIN logged
      /\ \A r \in Log!Kept : logged'[r] = logged[r]
      /\ nodes' \subseteq nodes /\ edges' \subseteq edges
      /\ \A r \in Log!Kept : Log!Chain(r)' = Log!Chain(r) /\ EdgesOf(r)' = EdgesOf(r)
  BY PruneTakesRuns DEF Log!Restart
<1>2. /\ writer' = [w \in Writer |-> Log!NewTurn] /\ latest' = [x \in Session |-> 0]
      /\ sincePrune' = 0 /\ attached' = {} /\ lives' = lives + 1 /\ lives < MaxLives
      /\ UNCHANGED <<nextRun, abandoned>>
  BY DEF Log!Restart
<1>3. Log!NewTurn \in LogTurn /\ Log!NewTurn.stage = "done"
  BY LogTyped
<1>4. lives \in Nat /\ MaxLives \in Nat /\ Interval \in Nat /\ Interval > 0 /\ lives >= 1
  BY LogTyped DEF LogInv
<1>5. Log!TypeOK'
  <2>1. lives' \in 1..MaxLives /\ sincePrune' \in 0..Interval
    BY <1>2, <1>4
  <2>2. writer' \in [Writer -> LogTurn] /\ latest' \in [Session -> Log!Run \cup {0}]
    BY <1>2, <1>3
  <2>3. /\ DOMAIN logged' \subseteq Log!Run /\ (\A r \in DOMAIN logged' : logged'[r] \in RunRec)
        /\ nodes' \subseteq Log!Run \X (1..MaxNodes)
        /\ edges' \subseteq Log!Run \X (1..MaxNodes) \X (1..MaxNodes)
        /\ abandoned' \subseteq Log!Run /\ attached' \subseteq Writer
    BY <1>1, <1>2, LogTyped DEF LogInv
  <2> QED
    BY <2>1, <2>2, <2>3, LogTypes
<1>6. \A w \in Writer : ~AtWork(w)'
  BY <1>2, <1>3 DEF AtWork
<1>7. Begun'
  <2>1. \A r \in DOMAIN logged' : r < nextRun' /\ logged'[r].life <= lives'
    BY <1>1, <1>2, Earlier
  <2>2. nextRun' \in 1..(LogRuns + 1) /\ sincePrune' < Interval
    BY <1>2, <1>4 DEF LogInv, Begun
  <2>3. /\ \A n \in nodes' : n[1] < nextRun'
        /\ \A e \in edges' : e[1] < nextRun'
        /\ \A r \in abandoned' : r < nextRun'
    BY <1>1, <1>2, Earlier
  <2> QED
    BY <1>6, <2>1, <2>2, <2>3 DEF Begun
<1>8. \A r \in DOMAIN logged' : logged'[r].life # lives'
  BY <1>1, <1>2, Earlier
<1>9. \A r \in DOMAIN logged' : Chained(r)'
  <2>1. ASSUME NEW r \in DOMAIN logged' PROVE Chained(r)'
    <3>1. Chained(r) /\ Log!Chain(r)' = Log!Chain(r) /\ EdgesOf(r)' = EdgesOf(r)
      BY <1>1 DEF LogInv
    <3>2. logged'[r].life # lives'
      BY <1>8
    <3> QED
      BY <3>1, <3>2 DEF Chained, NodesUpTo, LinksUpTo
  <2> QED
    BY <2>1
<1> QED
  BY <1>5, <1>6, <1>7, <1>8, <1>9 DEF LogInv, Log!RunningHasWriter

LEMMA InitLog ==
    ASSUME Log!EventLogAssumption, Log!Init
    PROVE  LogInv
<1>1. /\ logged = <<>> /\ nodes = {} /\ edges = {} /\ latest = [x \in Session |-> 0]
      /\ sincePrune = 0 /\ nextRun = 1 /\ lives = 1 /\ attached = {} /\ abandoned = {}
      /\ writer = [w \in Writer |-> Log!NewTurn]
  BY DEF Log!Init
<1>2. Log!NewTurn \in LogTurn /\ Log!NewTurn.stage = "done"
  BY LogTyped
<1>3. DOMAIN logged = {}
  BY <1>1
<1>4. /\ LogRuns \in Nat /\ Interval \in Nat /\ Interval > 0 /\ MaxLives \in Nat /\ MaxLives > 0
  BY LogTyped
<1>5. Log!TypeOK
  <2>1. lives \in 1..MaxLives /\ sincePrune \in 0..Interval
    BY <1>1, <1>4
  <2>2. writer \in [Writer -> LogTurn] /\ latest \in [Session -> Log!Run \cup {0}]
    BY <1>1, <1>2
  <2> QED
    BY <1>1, <1>3, <2>1, <2>2 DEF Log!TypeOK, LogTurn
<1>6. \A w \in Writer : ~AtWork(w)
  BY <1>1, <1>2 DEF AtWork
<1>7. Begun
  BY <1>1, <1>3, <1>4, <1>6 DEF Begun
<1> QED
  BY <1>3, <1>5, <1>6, <1>7 DEF LogInv, Log!RunningHasWriter

LEMMA LogNext ==
    ASSUME LogInv, Log!EventLogAssumption, [Log!Next]_logVars
    PROVE  LogInv'
<1>1. CASE Log!Next
  BY <1>1, LogInsertRun, LogNoteLatest, LogAttach, LogInsertNode, LogInsertEdge, LogEnding,
     LogFinalizeRun, LogCountEnd, LogPrune, LogAbandon, LogRestart DEF Log!Next
<1>2. CASE UNCHANGED logVars
  BY <1>2 DEF logVars, LogInv, Log!TypeOK, Begun, Log!RunningHasWriter, Log!Writes, Log!At,
              AtWork, TurnKnows, RunIsThere, Chained, Log!Chain, EdgesOf
<1> QED
  BY <1>1, <1>2

\* The log counts as FiniteSets does.
LEMMA LogCounts ==
    ASSUME NEW S
    PROVE  /\ Log!Cardinality(S) = Cardinality(S)
           /\ Log!IsFiniteSet(S) <=> IsFiniteSet(S)
  BY DEF Log!Cardinality, Cardinality, Log!IsFiniteSet, IsFiniteSet

\* A run has as many nodes as the last of them says.
LEMMA NodesCounted ==
    ASSUME NEW r, NEW k \in Nat
    PROVE  Cardinality(NodesUpTo(r, k)) = k
<1> DEFINE f == [n \in 1..k |-> <<r, n>>]
<1>1. IsFiniteSet(1..k) /\ Cardinality(1..k) = k
  BY FS_Interval
<1>2. \A a, b \in 1..k : <<r, a>> = <<r, b>> => a = b
  OBVIOUS
<1>3. f \in [1..k -> NodesUpTo(r, k)] /\ \A x \in NodesUpTo(r, k) : \E a \in 1..k : f[a] = x
  BY DEF NodesUpTo
<1>4. \A a, b \in 1..k : f[a] = f[b] => a = b
  BY <1>2
<1> HIDE DEF f
<1>5. f \in Bijection(1..k, NodesUpTo(r, k))
  BY <1>3, <1>4 DEF Bijection, Injection, IsInjective, Surjection
<1>6. ExistsBijection(1..k, NodesUpTo(r, k))
  BY <1>5 DEF ExistsBijection
<1> QED
  BY <1>1, <1>6, FS_Bijection

LEMMA ChainsShown == ASSUME LogInv, Log!EventLogAssumption PROVE Log!ListedRunsAreChained
<1> SUFFICES ASSUME NEW r \in DOMAIN logged
             PROVE  LET count == Log!Cardinality(Log!Chain(r))
                        links == {e \in edges : e[1] = r}
                    IN  /\ Log!Chain(r) = {<<r, n>> : n \in 1..count}
                        /\ \A n \in 1..count : n + 1 < count => <<r, n, n + 1>> \in links
                        /\ links \subseteq {<<r, n, n + 1>> : n \in 1..count}
                        /\ (logged[r].life = lives /\ count > 1 /\ <<r, count - 1, count>> \notin links)
                              => \E w \in Writer : writer[w].run = r /\ Log!At(w, "linking")
  BY DEF Log!ListedRunsAreChained
<1>1. PICK k \in 0..MaxNodes :
        /\ Log!Chain(r) = NodesUpTo(r, k)
        /\ \/ EdgesOf(r) = LinksUpTo(r, k)
           \/ /\ k > 1 /\ EdgesOf(r) = LinksUpTo(r, k - 1)
              /\ \/ logged[r].life # lives
                 \/ \E w \in Writer : Log!At(w, "linking") /\ writer[w].run = r
  BY DEF LogInv, Chained
<1>2. k \in Nat
  BY <1>1, Earlier
<1>3. Log!Cardinality(Log!Chain(r)) = k
  BY <1>1, <1>2, NodesCounted, LogCounts
<1>4. Log!Chain(r) = {<<r, n>> : n \in 1..k}
  BY <1>1 DEF NodesUpTo
<1>5. PICK j : EdgesOf(r) = LinksUpTo(r, j) /\ j \in {k, k - 1} /\ (j # k => k > 1)
  BY <1>1
<1>6. \A n \in 1..k : n + 1 < k => <<r, n, n + 1>> \in EdgesOf(r)
  <2>1. \A n \in 1..k : n + 1 < k => n \in 1..(j - 1)
    BY <1>2, <1>5
  <2> QED
    BY <1>5, <2>1 DEF LinksUpTo
<1>7. EdgesOf(r) \subseteq {<<r, n, n + 1>> : n \in 1..k}
  <2>1. 1..(j - 1) \subseteq 1..k
    BY <1>2, <1>5
  <2> QED
    BY <1>5, <2>1 DEF LinksUpTo
<1>8. (logged[r].life = lives /\ k > 1 /\ <<r, k - 1, k>> \notin EdgesOf(r))
        => \E w \in Writer : writer[w].run = r /\ Log!At(w, "linking")
  <2>1. k > 1 => <<r, k - 1, k>> \in LinksUpTo(r, k)
    <3>1. k > 1 => k - 1 \in 1..(k - 1) /\ k = (k - 1) + 1
      BY <1>2
    <3> QED
      BY <3>1 DEF LinksUpTo
  <2> QED
    BY <1>1, <2>1
<1> QED
  BY <1>3, <1>4, <1>6, <1>7, <1>8 DEF EdgesOf

(***************************************************************************)
(* What the log holds is bounded.                                          *)
(***************************************************************************)

WritersAt(stages) == {w \in Writer : writer[w].stage \in stages}

WritingStages == Log!Stages \ {"pruning", "done"}

Bounded ==
    /\ IsFiniteSet(DOMAIN logged) /\ IsFiniteSet(abandoned)
    /\ Cardinality(DOMAIN logged) <=
         Retain + sincePrune + Interval * Cardinality(WritersAt({"pruning"}))
                + Cardinality(WritersAt(WritingStages)) + Cardinality(abandoned)

LEMMA WritersCount ==
    ASSUME Log!EventLogAssumption
    PROVE  \A stages : /\ IsFiniteSet(WritersAt(stages)) /\ Cardinality(WritersAt(stages)) \in Nat
                       /\ IsFiniteSet(WritersAt(stages)') /\ Cardinality(WritersAt(stages)') \in Nat
<1>1. IsFiniteSet(Writer)
  BY LogCounts DEF Log!EventLogAssumption
<1>2. \A stages : WritersAt(stages) \subseteq Writer /\ WritersAt(stages)' \subseteq Writer
  BY DEF WritersAt
<1> QED
  BY <1>1, <1>2, FS_Subset, FS_CardinalityType

\* One turn moves from one set of stages to another, or stays.
LEMMA OneMoves ==
    ASSUME Log!TypeOK, Log!EventLogAssumption, NEW w \in Writer, NEW s, Log!Becomes(w, s),
           NEW stages
    PROVE  /\ (writer[w].stage \in stages <=> s.stage \in stages)
                => Cardinality(WritersAt(stages)') = Cardinality(WritersAt(stages))
           /\ writer[w].stage \notin stages /\ s.stage \in stages
                => Cardinality(WritersAt(stages)') = Cardinality(WritersAt(stages)) + 1
           /\ writer[w].stage \in stages /\ s.stage \notin stages
                => Cardinality(WritersAt(stages)') = Cardinality(WritersAt(stages)) - 1
<1>1. /\ writer'[w] = s /\ \A v \in Writer \ {w} : writer'[v] = writer[v]
  BY LogTyped DEF Log!Becomes
<1>2. (writer[w].stage \in stages <=> s.stage \in stages) => WritersAt(stages)' = WritersAt(stages)
  BY <1>1 DEF WritersAt
<1>3. writer[w].stage \notin stages /\ s.stage \in stages
        => w \notin WritersAt(stages) /\ WritersAt(stages)' = WritersAt(stages) \cup {w}
  BY <1>1 DEF WritersAt
<1>4. writer[w].stage \in stages /\ s.stage \notin stages
        => w \in WritersAt(stages) /\ WritersAt(stages)' = WritersAt(stages) \ {w}
  BY <1>1 DEF WritersAt
<1>5. IsFiniteSet(WritersAt(stages))
  BY WritersCount
<1> QED
  BY <1>2, <1>3, <1>4, <1>5, FS_AddElement, FS_RemoveElement

\* A set of numbers has a least one.
LEMMA LeastOf == ASSUME NEW T \in SUBSET Nat, T # {} PROVE \E x \in T : \A y \in T : x <= y
<1> DEFINE R == OpToRel(<, Nat)
<1>1. IsWellFoundedOn(R, Nat)
  BY NatLessThanWellFounded
<1>2. R = {ss \in Nat \X Nat : ss[1] < ss[2]}
  BY DEF OpToRel
<1> HIDE DEF R
<1>3. PICK x \in T : \A y \in T : ~(<<y, x>> \in R)
  BY <1>1, WFMin
<1>4. \A y \in T : ~(y < x)
  BY <1>2, <1>3
<1> QED
  BY <1>4

\* A prune keeps as many runs as it is to.
LEMMA KeptFew ==
    ASSUME LogInv, Log!EventLogAssumption, IsFiniteSet(DOMAIN logged)
    PROVE  IsFiniteSet(Log!Kept) /\ Cardinality(Log!Kept) <= Retain /\ Cardinality(Log!Kept) \in Nat
<1>1. Log!Kept \subseteq DOMAIN logged /\ Retain \in Nat
  BY LogTyped DEF Log!Kept
<1>2. IsFiniteSet(Log!Kept) /\ Cardinality(Log!Kept) \in Nat
  BY <1>1, FS_Subset, FS_CardinalityType
<1>3. CASE Log!Kept = {}
  BY <1>1, <1>2, <1>3, FS_EmptySet
<1>4. CASE Log!Kept # {}
  <2>1. Log!Kept \in SUBSET Nat
    BY <1>1, Earlier
  <2>2. PICK m \in Log!Kept : \A y \in Log!Kept : m <= y
    BY <1>4, <2>1, LeastOf
  <2> DEFINE later == {q \in DOMAIN logged : q > m}
  <2>3. Cardinality(later) < Retain /\ IsFiniteSet(later) /\ Cardinality(later) \in Nat
    BY <2>2, LogCounts, FS_Subset, FS_CardinalityType DEF Log!Kept
  <2>4. \A y \in Log!Kept \ {m} : y > m
    BY <2>1, <2>2
  <2>5. Log!Kept \ {m} \subseteq later
    BY <1>1, <2>4
  <2> HIDE DEF later
  <2>6. Cardinality(Log!Kept \ {m}) <= Cardinality(later)
    BY <2>3, <2>5, FS_Subset
  <2>7. Cardinality(Log!Kept \ {m}) = Cardinality(Log!Kept) - 1
    BY <1>2, <2>2, FS_RemoveElement
  <2> QED
    BY <1>1, <1>2, <2>3, <2>6, <2>7
<1> QED
  BY <1>2, <1>3, <1>4

LEMMA BoundTyped ==
    ASSUME LogInv, Log!EventLogAssumption, Bounded
    PROVE  /\ Cardinality(DOMAIN logged) \in Nat /\ Cardinality(abandoned) \in Nat
           /\ Cardinality(WritersAt({"pruning"})) \in Nat
           /\ Cardinality(WritersAt(WritingStages)) \in Nat
           /\ Interval * Cardinality(WritersAt({"pruning"})) \in Nat
           /\ Retain \in Nat /\ Interval \in Nat /\ Interval > 0
           /\ sincePrune \in Nat /\ sincePrune < Interval
<1>1. Cardinality(WritersAt({"pruning"})) \in Nat /\ Interval \in Nat
  BY WritersCount, LogTyped
<1>2. Interval * Cardinality(WritersAt({"pruning"})) \in Nat
  BY <1>1
<1> QED
  BY <1>1, <1>2, WritersCount, LogTyped, FS_CardinalityType DEF Bounded, LogInv, Begun

\* A turn goes on writing.
LEMMA BoundGoesOn ==
    ASSUME LogInv, Log!EventLogAssumption, Bounded, NEW w \in Writer, NEW s, Log!Becomes(w, s),
           writer[w].stage \in WritingStages, s.stage \in WritingStages,
           DOMAIN logged' = DOMAIN logged, UNCHANGED <<sincePrune, abandoned>>
    PROVE  Bounded'
<1>1. writer[w].stage \notin {"pruning"} /\ s.stage \notin {"pruning"}
  BY DEF WritingStages
<1>2. /\ Cardinality(WritersAt({"pruning"})') = Cardinality(WritersAt({"pruning"}))
      /\ Cardinality(WritersAt(WritingStages)') = Cardinality(WritersAt(WritingStages))
  BY <1>1, OneMoves DEF LogInv
<1> QED
  BY <1>2 DEF Bounded, WritersAt, WritingStages

LEMMA BoundWrites ==
    ASSUME LogInv, Log!EventLogAssumption, Bounded, NEW w \in Writer,
           \/ Log!NoteLatest(w) \/ Log!Attach(w) \/ Log!InsertNode(w) \/ Log!InsertEdge(w)
           \/ Log!Ending(w) \/ Log!FinalizeRun(w)
    PROVE  Bounded'
<1>1. {"begun", "starting", "open", "linking", "attaching", "ending", "counting"} \subseteq WritingStages
  BY DEF WritingStages, Log!Stages
<1>2. writer[w] \in LogTurn
  BY LogTyped DEF LogInv
<1>3. CASE Log!NoteLatest(w)
  <2> DEFINE s == [writer[w] EXCEPT !.stage = "starting"]
  <2>1. s.stage = "starting"
    BY <1>2 DEF LogTurn
  <2>2. Log!Becomes(w, s) /\ writer[w].stage = "begun"
    BY <1>3 DEF Log!NoteLatest, Log!Progress, Log!At
  <2> HIDE DEF s
  <2> QED
    BY <1>1, <1>3, <2>1, <2>2, BoundGoesOn DEF Log!NoteLatest
<1>4. CASE Log!Attach(w)
  <2> DEFINE s == IF attached = {} THEN [writer[w] EXCEPT !.stage = "open"]
                  ELSE [writer[w] EXCEPT !.stage = "ending", !.status = "stopped"]
  <2>1. s.stage \in {"open", "ending"}
    BY <1>2 DEF LogTurn
  <2>2. Log!Becomes(w, s) /\ writer[w].stage = "attaching"
    BY <1>4 DEF Log!Attach, Log!Progress, Log!At
  <2> HIDE DEF s
  <2> QED
    BY <1>1, <1>4, <2>1, <2>2, BoundGoesOn DEF Log!Attach
<1>5. CASE Log!InsertNode(w)
  <2> DEFINE after == IF writer[w].evolve THEN "attaching" ELSE "open"
             k == writer[w].made + 1
             s == IF k = 1 THEN [writer[w] EXCEPT !.stage = after, !.made = k, !.last = k]
                  ELSE [writer[w] EXCEPT !.stage = "linking", !.made = k]
  <2>1. Log!Becomes(w, s) /\ writer[w].stage \in {"starting", "open"}
    BY <1>5 DEF Log!InsertNode, Log!At
  <2>2. after \in {"attaching", "open"}
    OBVIOUS
  <2> HIDE DEF after, k
  <2>3. s.stage \in {after, "linking"}
    BY <1>2 DEF LogTurn
  <2> HIDE DEF s
  <2> QED
    BY <1>1, <1>5, <2>1, <2>2, <2>3, BoundGoesOn DEF Log!InsertNode
<1>6. CASE Log!InsertEdge(w)
  <2> DEFINE s == [writer[w] EXCEPT !.stage = "open", !.last = writer[w].made]
  <2>1. s.stage = "open"
    BY <1>2 DEF LogTurn
  <2>2. Log!Becomes(w, s) /\ writer[w].stage = "linking"
    BY <1>6 DEF Log!InsertEdge, Log!At
  <2> HIDE DEF s
  <2> QED
    BY <1>1, <1>6, <2>1, <2>2, BoundGoesOn DEF Log!InsertEdge
<1>7. CASE Log!Ending(w)
  <2> DEFINE s == [writer[w] EXCEPT !.stage = "ending", !.status = "ended"]
  <2>1. s.stage = "ending"
    BY <1>2 DEF LogTurn
  <2>2. Log!Becomes(w, s) /\ writer[w].stage = "open"
    BY <1>7 DEF Log!Ending, Log!At
  <2> HIDE DEF s
  <2> QED
    BY <1>1, <1>7, <2>1, <2>2, BoundGoesOn DEF Log!Ending
<1>8. CASE Log!FinalizeRun(w)
  <2> DEFINE s == [writer[w] EXCEPT !.stage = "counting"]
  <2>1. s.stage = "counting"
    BY <1>2 DEF LogTurn
  <2>2. Log!Becomes(w, s) /\ writer[w].stage = "ending"
    BY <1>8 DEF Log!FinalizeRun, Log!Progress, Log!At
  <2> HIDE DEF s
  <2>3. DOMAIN logged' = DOMAIN logged
    BY <1>8 DEF Log!FinalizeRun
  <2> QED
    BY <1>1, <1>8, <2>1, <2>2, <2>3, BoundGoesOn DEF Log!FinalizeRun
<1> QED
  BY <1>3, <1>4, <1>5, <1>6, <1>7, <1>8

LEMMA BoundInsertRun ==
    ASSUME LogInv, Log!EventLogAssumption, Bounded, NEW w \in Writer, Log!InsertRun(w)
    PROVE  Bounded'
<1>1. PICK x \in Session, evolve \in BOOLEAN :
         /\ DOMAIN logged' = DOMAIN logged \cup {nextRun}
         /\ Log!Becomes(w, [stage |-> "begun", run |-> nextRun, session |-> x, last |-> 0,
                            made |-> 0, evolve |-> evolve, status |-> "none"])
  BY DEF Log!InsertRun
<1> DEFINE s == [stage |-> "begun", run |-> nextRun, session |-> x, last |-> 0, made |-> 0,
                 evolve |-> evolve, status |-> "none"]
<1>2. s.stage = "begun" /\ writer[w].stage = "done" /\ UNCHANGED <<sincePrune, abandoned>>
  BY DEF Log!InsertRun, Log!At
<1>3. "begun" \in WritingStages /\ "done" \notin WritingStages
  BY DEF WritingStages, Log!Stages
<1> HIDE DEF s
<1>4. Log!Becomes(w, s)
  BY <1>1 DEF s
<1>5. /\ Cardinality(WritersAt({"pruning"})') = Cardinality(WritersAt({"pruning"}))
      /\ Cardinality(WritersAt(WritingStages)') = Cardinality(WritersAt(WritingStages)) + 1
  BY <1>2, <1>3, <1>4, OneMoves DEF LogInv
<1>6. nextRun \notin DOMAIN logged
  BY Earlier
<1>7. IsFiniteSet(DOMAIN logged') /\ Cardinality(DOMAIN logged') = Cardinality(DOMAIN logged) + 1
  BY <1>1, <1>6, FS_AddElement DEF Bounded
<1>8. Cardinality(DOMAIN logged') <=
        Retain + sincePrune + Interval * Cardinality(WritersAt({"pruning"})')
               + Cardinality(WritersAt(WritingStages)') + Cardinality(abandoned)
  BY <1>5, <1>7, BoundTyped DEF Bounded
<1> QED
  BY <1>2, <1>7, <1>8 DEF Bounded, WritersAt, WritingStages

LEMMA BoundCountEnd ==
    ASSUME LogInv, Log!EventLogAssumption, Bounded, NEW w \in Writer, Log!CountEnd(w)
    PROVE  Bounded'
<1> DEFINE a == IF sincePrune + 1 >= Interval THEN "pruning" ELSE "done"
           s == [writer[w] EXCEPT !.stage = a]
<1>1. /\ writer[w].stage = "counting" /\ Log!Becomes(w, s)
      /\ logged' = logged /\ abandoned' = abandoned
      /\ sincePrune' = IF sincePrune + 1 >= Interval THEN 0 ELSE sincePrune + 1
  BY DEF Log!CountEnd, Log!At, Log!Progress
<1>2. s.stage = a
  BY LogTyped DEF LogInv, LogTurn
<1> HIDE DEF s
<1>3. /\ "counting" \in WritingStages /\ "done" \notin WritingStages
      /\ "pruning" \notin WritingStages
  BY DEF WritingStages, Log!Stages
<1> DEFINE p == Cardinality(WritersAt({"pruning"}))
           v == Cardinality(WritersAt(WritingStages))
<1>4. p \in Nat /\ v \in Nat /\ Interval \in Nat /\ Interval > 0 /\ sincePrune \in Nat
      /\ sincePrune < Interval /\ Retain \in Nat /\ Cardinality(abandoned) \in Nat
      /\ Interval * p \in Nat /\ Cardinality(DOMAIN logged) \in Nat
      /\ Cardinality(DOMAIN logged) <= Retain + sincePrune + Interval * p + v + Cardinality(abandoned)
  BY BoundTyped DEF Bounded
<1>5. Cardinality(WritersAt(WritingStages)') = v - 1
  BY <1>1, <1>2, <1>3, OneMoves DEF LogInv
<1>6. Cardinality(DOMAIN logged') <=
        Retain + sincePrune' + Interval * Cardinality(WritersAt({"pruning"})')
               + Cardinality(WritersAt(WritingStages)') + Cardinality(abandoned')
  <2>1. CASE sincePrune + 1 >= Interval
    <3>1. Cardinality(WritersAt({"pruning"})') = p + 1
      BY <1>1, <1>2, <2>1, OneMoves DEF LogInv
    <3> HIDE DEF p, v
    <3>2. Interval * (p + 1) = Interval * p + Interval
      BY <1>4
    <3>3. sincePrune + 1 = Interval /\ sincePrune' = 0
      BY <1>1, <1>4, <2>1
    <3> QED
      BY <1>1, <1>4, <1>5, <3>1, <3>2, <3>3
  <2>2. CASE sincePrune + 1 < Interval
    <3>1. Cardinality(WritersAt({"pruning"})') = p
      BY <1>1, <1>2, <1>4, <2>2, OneMoves DEF LogInv
    <3>2. sincePrune' = sincePrune + 1
      BY <1>1, <1>4, <2>2
    <3> HIDE DEF p, v
    <3> QED
      BY <1>1, <1>4, <1>5, <3>1, <3>2
  <2> QED
    BY <1>4, <2>1, <2>2
<1> QED
  BY <1>1, <1>6 DEF Bounded, WritersAt, WritingStages

\* After a prune there is room whatever else there is.
LEMMA BoundKept ==
    ASSUME LogInv, LogInv', Log!EventLogAssumption, Bounded, Log!Pruned, abandoned' = abandoned
    PROVE  Bounded'
<1>1. DOMAIN logged' = Log!Kept
  BY PruneTakesRuns
<1>2. IsFiniteSet(DOMAIN logged') /\ Cardinality(DOMAIN logged') <= Retain
      /\ Cardinality(DOMAIN logged') \in Nat /\ IsFiniteSet(abandoned')
  BY <1>1, KeptFew DEF Bounded
<1>3. /\ Cardinality(abandoned') \in Nat
      /\ Cardinality(WritersAt({"pruning"})') \in Nat
      /\ Cardinality(WritersAt(WritingStages)') \in Nat
      /\ sincePrune' \in Nat /\ Interval \in Nat /\ Retain \in Nat
  <2>1. sincePrune' \in Nat
    BY LogTyped DEF LogInv, Log!TypeOK
  <2> QED
    BY <1>2, <2>1, WritersCount, LogTyped, FS_CardinalityType
<1>4. Interval * Cardinality(WritersAt({"pruning"})') \in Nat
  BY <1>3
<1>5. Cardinality(DOMAIN logged') <=
        Retain + sincePrune' + Interval * Cardinality(WritersAt({"pruning"})')
               + Cardinality(WritersAt(WritingStages)') + Cardinality(abandoned')
  BY <1>2, <1>3, <1>4
<1> QED
  BY <1>2, <1>5 DEF Bounded, WritersAt, WritingStages

LEMMA BoundAbandon ==
    ASSUME LogInv, Log!EventLogAssumption, Bounded, NEW w \in Writer, Log!Abandon(w)
    PROVE  Bounded'
<1> DEFINE s == [writer[w] EXCEPT !.stage = "done"]
<1>1. /\ writer[w].stage = "open" /\ Log!Becomes(w, s) /\ AtWork(w)
      /\ logged' = logged /\ abandoned' = abandoned \cup {writer[w].run} /\ sincePrune' = sincePrune
  BY DEF Log!Abandon, Log!At, Log!Progress, AtWork
<1>2. s.stage = "done"
  BY LogTyped DEF LogInv, LogTurn
<1> HIDE DEF s
<1>3. "open" \in WritingStages /\ "done" \notin WritingStages
  BY DEF WritingStages, Log!Stages
<1>4. /\ Cardinality(WritersAt({"pruning"})') = Cardinality(WritersAt({"pruning"}))
      /\ Cardinality(WritersAt(WritingStages)') = Cardinality(WritersAt(WritingStages)) - 1
  BY <1>1, <1>2, <1>3, OneMoves DEF LogInv
<1>5. writer[w].run \notin abandoned
  BY <1>1 DEF LogInv, TurnKnows
<1>6. IsFiniteSet(abandoned') /\ Cardinality(abandoned') = Cardinality(abandoned) + 1
  BY <1>1, <1>5, FS_AddElement DEF Bounded
<1>7. Cardinality(DOMAIN logged') <=
        Retain + sincePrune + Interval * Cardinality(WritersAt({"pruning"})')
               + Cardinality(WritersAt(WritingStages)') + Cardinality(abandoned')
  BY <1>1, <1>4, <1>6, BoundTyped DEF Bounded
<1> QED
  BY <1>1, <1>6, <1>7 DEF Bounded, WritersAt, WritingStages

LEMMA BoundNext ==
    ASSUME LogInv, LogInv', Log!EventLogAssumption, Bounded, [Log!Next]_logVars
    PROVE  Bounded'
<1>1. ASSUME NEW w \in Writer, Log!PruneOldRuns(w) PROVE Bounded'
  BY <1>1, BoundKept DEF Log!PruneOldRuns
<1>2. CASE Log!Restart
  BY <1>2, BoundKept DEF Log!Restart
<1>3. CASE UNCHANGED logVars
  BY <1>3 DEF logVars, Bounded, WritersAt
<1> QED
  BY <1>1, <1>2, <1>3, BoundWrites, BoundInsertRun, BoundCountEnd, BoundAbandon DEF Log!Next

LEMMA BoundInit == ASSUME Log!EventLogAssumption, Log!Init PROVE Bounded
<1>1. DOMAIN logged = {} /\ abandoned = {} /\ sincePrune = 0
  BY DEF Log!Init
<1>2. IsFiniteSet({}) /\ Cardinality({}) = 0
  BY FS_EmptySet
<1>3. /\ Cardinality(WritersAt({"pruning"})) \in Nat
      /\ Cardinality(WritersAt(WritingStages)) \in Nat
      /\ Retain \in Nat /\ Interval \in Nat
  BY WritersCount, LogTyped
<1>4. Interval * Cardinality(WritersAt({"pruning"})) \in Nat
  BY <1>3
<1>5. 0 <= Retain + 0 + Interval * Cardinality(WritersAt({"pruning"}))
             + Cardinality(WritersAt(WritingStages)) + 0
  BY <1>3, <1>4
<1> QED
  BY <1>1, <1>2, <1>5 DEF Bounded

LEMMA RetentionShown ==
    ASSUME LogInv, Log!EventLogAssumption, Bounded
    PROVE  Log!RetentionHolds
<1>1. {w \in Writer : Log!At(w, "pruning")} = WritersAt({"pruning"})
  BY DEF WritersAt, Log!At
<1>2. {w \in Writer : ~Log!At(w, "pruning") /\ ~Log!At(w, "done")} = WritersAt(WritingStages)
  <2>1. \A w \in Writer : writer[w].stage \in Log!Stages
    BY LogTyped DEF LogInv, LogTurn
  <2> QED
    BY <2>1 DEF WritersAt, WritingStages, Log!At
<1> QED
  BY <1>1, <1>2, LogCounts DEF Bounded, Log!RetentionHolds

\* The three properties of the event log (core/dag_runtime.cpp): a listed run is a
\* chain of nodes but for its last link, a running one has a turn that will end it,
\* and the log stays bounded whatever turns and prunes interleave.
THEOREM EventLogAlwaysAgrees ==
    ASSUME Log!EventLogAssumption
    PROVE  Log!Spec => [](Log!TypeOK /\ Log!EventLogAgrees)
<1>1. Log!Init => LogInv /\ Bounded
  BY InitLog, BoundInit
<1>2. LogInv /\ Bounded /\ [Log!Next]_(Log!logVars) => (LogInv /\ Bounded)'
  <2> SUFFICES ASSUME LogInv, Bounded, [Log!Next]_(Log!logVars) PROVE (LogInv /\ Bounded)'
    OBVIOUS
  <2>1. [Log!Next]_logVars
    BY DEF logVars, Log!logVars
  <2>2. LogInv'
    BY <2>1, LogNext
  <2> QED
    BY <2>1, <2>2, BoundNext
<1>3. LogInv /\ Bounded => Log!TypeOK /\ Log!EventLogAgrees
  BY ChainsShown, RetentionShown DEF Log!EventLogAgrees, LogInv
<1> QED
  BY <1>1, <1>2, <1>3, PTL DEF Log!Spec

(***************************************************************************)
(* The rate limiter.                                                       *)
(***************************************************************************)

\* The deque of a client is the end of its admissions, those left out are older
\* than the window, and admissions are spaced out as the limits demand.
Gone(c) == Len(admitted[c]) - Len(windows[c])

WindowRight(c) ==
    LET a == admitted[c]
        w == windows[c]
    IN  /\ Len(w) <= Len(a) /\ Len(w) <= RateRequests
        /\ \A i \in 1..Len(w) : w[i] = a[Gone(c) + i]
        /\ \A i \in 1..Gone(c) : a[i] < clock - Window

Spaced(a, many, far) == \A i, j \in 1..Len(a) : j = i + many => a[j] > a[i] + far

HistoryRight(c) ==
    LET a == admitted[c]
    IN  /\ \A i \in 1..Len(a) : a[i] <= clock
        /\ \A i, j \in 1..Len(a) : i <= j => a[i] <= a[j]
        /\ Spaced(a, RateRequests, Window)
        /\ BurstMax > 0 => Spaced(a, BurstMax, TicksPerSecond)

RatesInv ==
    /\ Rates!TypeOK /\ Rates!AdviceIsSound
    /\ \A c \in Client : WindowRight(c) /\ HistoryRight(c)

LEMMA RateConstants ==
    ASSUME Rates!RateLimiterAssumption
    PROVE  /\ RateRequests \in Nat /\ RateRequests > 0 /\ Window \in Nat /\ Window > 0
           /\ TicksPerSecond \in Nat /\ TicksPerSecond > 0 /\ BurstMax \in Nat /\ RateTime \in Nat
           /\ Window >= TicksPerSecond /\ Rates!Seconds(1) = TicksPerSecond
  BY DEF Rates!RateLimiterAssumption, Rates!Seconds

\* The limiter counts as FiniteSets does.
LEMMA RatesCounts == ASSUME NEW S PROVE Rates!Cardinality(S) = Cardinality(S)
  BY DEF Rates!Cardinality, Cardinality

\* A set of positions that starts at one and does not reach the other is small.
LEMMA FewBetween ==
    ASSUME NEW S, NEW m \in Int, NEW n \in Int, m <= n + 1, S \subseteq m..n
    PROVE  IsFiniteSet(S) /\ Cardinality(S) \in Nat /\ Cardinality(S) <= n - m + 1
<1>1. IsFiniteSet(m..n) /\ Cardinality(m..n) = n - m + 1
  BY FS_Interval
<1> QED
  BY <1>1, FS_Subset, FS_CardinalityType

LEMMA ManyBetween ==
    ASSUME NEW S, NEW m \in Int, NEW n \in Int, NEW k \in Int, m <= n + 1,
           IsFiniteSet(S), m..n \subseteq S
    PROVE  Cardinality(S) \in Nat /\ Cardinality(S) >= n - m + 1
<1>1. IsFiniteSet(m..n) /\ Cardinality(m..n) = n - m + 1
  BY FS_Interval
<1> QED
  BY <1>1, FS_Subset, FS_CardinalityType

\* Purging finds where the kept ones begin.
LEMMA FirstIs ==
    ASSUME NEW times \in Seq(Nat), NEW cutoff \in Int
    PROVE  LET k == Rates!FirstFrom(times, cutoff)
           IN  /\ k \in 1..(Len(times) + 1)
               /\ k <= Len(times) => times[k] >= cutoff
               /\ \A i \in 1..(k - 1) : times[i] < cutoff
<1> DEFINE T == {k \in 1..(Len(times) + 1) : k <= Len(times) => times[k] >= cutoff}
           P(k) == /\ k <= Len(times) => times[k] >= cutoff
                   /\ \A i \in 1..(k - 1) : times[i] < cutoff
<1>1. Len(times) \in Nat /\ \A i \in 1..Len(times) : times[i] \in Nat
  OBVIOUS
<1>2. T \in SUBSET Nat /\ Len(times) + 1 \in T
  BY <1>1
<1>3. PICK k \in T : \A l \in T : k <= l
  BY <1>2, LeastOf
<1>4. \A i \in 1..(k - 1) : i \notin T /\ i \in 1..Len(times)
  BY <1>1, <1>3
<1>5. k \in 1..(Len(times) + 1) /\ P(k)
  BY <1>1, <1>3, <1>4
<1>6. Rates!FirstFrom(times, cutoff) = CHOOSE l \in 1..(Len(times) + 1) : P(l)
  BY DEF Rates!FirstFrom
<1> HIDE DEF P
<1>7. /\ Rates!FirstFrom(times, cutoff) \in 1..(Len(times) + 1)
      /\ P(Rates!FirstFrom(times, cutoff))
  BY <1>5, <1>6
<1> QED
  BY <1>7 DEF P

\* What purging makes of a deque
LEMMA PurgedIs ==
    ASSUME Rates!RateLimiterAssumption, NEW times \in Seq(0..RateTime), NEW now_ \in Nat
    PROVE  LET kept == Rates!Purged(times, now_)
               d    == Len(times) - Len(kept)
           IN  /\ kept \in Seq(0..RateTime) /\ d \in 0..Len(times) /\ Len(kept) \in Nat
               /\ \A i \in 1..Len(kept) : kept[i] = times[d + i]
               /\ \A i \in 1..d : times[i] < now_ - Window
               /\ Len(kept) > 0 => kept[1] >= now_ - Window /\ Head(kept) = kept[1]
<1> DEFINE k == Rates!FirstFrom(times, now_ - Window)
           kept == Rates!Purged(times, now_)
<1>1. times \in Seq(Nat) /\ now_ - Window \in Int /\ Len(times) \in Nat
  BY RateConstants
<1>2. /\ k \in 1..(Len(times) + 1)
      /\ k <= Len(times) => times[k] >= now_ - Window
      /\ \A i \in 1..(k - 1) : times[i] < now_ - Window
  BY <1>1, FirstIs
<1>3. kept = SubSeq(times, k, Len(times))
  BY DEF Rates!Purged
<1> HIDE DEF k, kept
<1>4. /\ kept \in Seq(0..RateTime) /\ Len(kept) = Len(times) - k + 1
      /\ \A i \in 1..(Len(times) - k + 1) : kept[i] = times[k + i - 1]
  <2>1. 0 \in 0..Len(times)
    BY <1>1
  <2> QED
    BY <1>1, <1>2, <1>3, <2>1, PartsOfSeq, ZenonT(30)
<1>5. Len(times) - Len(kept) = k - 1
  BY <1>1, <1>2, <1>4
<1>6. \A i \in 1..Len(kept) : kept[i] = times[(Len(times) - Len(kept)) + i]
  <2> TAKE i \in 1..Len(kept)
  <2>1. kept[i] = times[k + i - 1] /\ k + i - 1 = (Len(times) - Len(kept)) + i
    BY <1>1, <1>2, <1>4, <1>5
  <2> QED
    BY <2>1
<1>7. Len(kept) > 0 => kept[1] >= now_ - Window /\ Head(kept) = kept[1]
  <2> SUFFICES ASSUME Len(kept) > 0 PROVE kept[1] >= now_ - Window /\ Head(kept) = kept[1]
    OBVIOUS
  <2>1. k <= Len(times) /\ kept[1] = times[k + 1 - 1] /\ k + 1 - 1 = k
    BY <1>1, <1>2, <1>4
  <2> QED
    BY <1>2, <1>4, <2>1
<1>8. Len(times) - Len(kept) \in 0..Len(times) /\ Len(kept) \in Nat
  BY <1>1, <1>2, <1>4
<1> QED
  BY <1>2, <1>4, <1>5, <1>6, <1>7, <1>8 DEF kept

\* After purging, a client's deque is still the end of its admissions.
LEMMA KeptRight ==
    ASSUME RatesInv, Rates!RateLimiterAssumption, NEW c \in Client
    PROVE  LET a == admitted[c]
               kept == Rates!Purged(windows[c], clock)
               g == Len(a) - Len(kept)
           IN  /\ kept \in Seq(0..RateTime) /\ Len(kept) \in Nat /\ a \in Seq(0..RateTime)
               /\ Len(a) \in Nat /\ g \in 0..Len(a) /\ Len(kept) <= RateRequests
               /\ \A i \in 1..Len(kept) : kept[i] = a[g + i] /\ g + i \in 1..Len(a)
               /\ \A i \in 1..g : a[i] < clock - Window
               /\ Len(kept) > 0 => kept[1] >= clock - Window /\ Head(kept) = kept[1]
<1> DEFINE a == admitted[c]
           w == windows[c]
           kept == Rates!Purged(windows[c], clock)
           d == Len(w) - Len(kept)
<1>1. /\ w \in Seq(0..RateTime) /\ a \in Seq(0..RateTime) /\ clock \in Nat
      /\ Len(w) \in Nat /\ Len(a) \in Nat
  BY RateConstants DEF RatesInv, Rates!TypeOK
<1>2. /\ Len(w) <= Len(a) /\ Len(w) <= RateRequests
      /\ \A i \in 1..Len(w) : w[i] = a[Len(a) - Len(w) + i]
      /\ \A i \in 1..(Len(a) - Len(w)) : a[i] < clock - Window
  BY DEF RatesInv, WindowRight, Gone
<1>3. /\ kept \in Seq(0..RateTime) /\ d \in 0..Len(w) /\ Len(kept) \in Nat
      /\ \A i \in 1..Len(kept) : kept[i] = w[d + i]
      /\ \A i \in 1..d : w[i] < clock - Window
      /\ Len(kept) > 0 => kept[1] >= clock - Window /\ Head(kept) = kept[1]
  BY <1>1, PurgedIs
<1> HIDE DEF a, w, kept
<1>4. ASSUME NEW i \in 1..Len(kept)
      PROVE  kept[i] = a[(Len(a) - Len(kept)) + i] /\ (Len(a) - Len(kept)) + i \in 1..Len(a)
  <2>1. d + i \in 1..Len(w) /\ Len(a) - Len(w) + (d + i) = (Len(a) - Len(kept)) + i
    BY <1>1, <1>3
  <2>2. w[d + i] = a[Len(a) - Len(w) + (d + i)]
    BY <1>2, <2>1
  <2>3. (Len(a) - Len(kept)) + i \in 1..Len(a)
    BY <1>1, <1>2, <1>3
  <2> QED
    BY <1>3, <2>1, <2>2, <2>3
<1>5. ASSUME NEW i \in 1..(Len(a) - Len(kept))
      PROVE  a[i] < clock - Window
  <2>1. CASE i <= Len(a) - Len(w)
    BY <1>1, <1>2, <2>1
  <2>2. CASE i > Len(a) - Len(w)
    <3> DEFINE j == i - (Len(a) - Len(w))
    <3>1. j \in 1..d /\ j \in 1..Len(w) /\ Len(a) - Len(w) + j = i
      BY <1>1, <1>2, <1>3, <2>2
    <3>2. w[j] < clock - Window /\ w[j] = a[Len(a) - Len(w) + j]
      BY <1>2, <1>3, <3>1
    <3> QED
      BY <3>1, <3>2
  <2> QED
    BY <1>1, <2>1, <2>2
<1>6. Len(a) - Len(kept) \in 0..Len(a) /\ Len(kept) <= RateRequests
  BY <1>1, <1>2, <1>3, RateConstants, SMTT(30)
<1> QED
  BY <1>1, <1>3, <1>4, <1>5, <1>6 DEF a, kept, w

\* A deque that is purged, and nothing else of the client
LEMMA PurgesInv ==
    ASSUME RatesInv, Rates!RateLimiterAssumption, NEW c \in Client,
           UNCHANGED <<clock, admitted>>,
           windows'[c] \in {windows[c], Rates!Purged(windows[c], clock)}
    PROVE  WindowRight(c)' /\ HistoryRight(c)' /\ windows'[c] \in Seq(0..RateTime)
<1>1. HistoryRight(c)'
  BY DEF RatesInv, HistoryRight
<1>2. CASE windows'[c] = windows[c]
  BY <1>1, <1>2 DEF RatesInv, Rates!TypeOK, WindowRight, Gone
<1>3. CASE windows'[c] = Rates!Purged(windows[c], clock)
  <2> DEFINE kept == Rates!Purged(windows[c], clock)
  <2>1. /\ kept \in Seq(0..RateTime) /\ Len(kept) \in Nat /\ admitted[c] \in Seq(0..RateTime)
        /\ Len(admitted[c]) \in Nat /\ Len(admitted[c]) - Len(kept) \in 0..Len(admitted[c])
        /\ Len(kept) <= RateRequests
        /\ \A i \in 1..Len(kept) : kept[i] = admitted[c][Len(admitted[c]) - Len(kept) + i]
        /\ \A i \in 1..(Len(admitted[c]) - Len(kept)) : admitted[c][i] < clock - Window
    BY KeptRight
  <2>2. Len(kept) <= Len(admitted[c])
    BY <2>1
  <2> HIDE DEF kept
  <2>3. windows'[c] = kept /\ admitted'[c] = admitted[c]
    BY <1>3 DEF kept
  <2> QED
    BY <1>1, <2>1, <2>2, <2>3 DEF WindowRight, Gone
<1> QED
  BY <1>2, <1>3

\* A client that is admitted within its burst was admitted so often only longer ago.
LEMMA BurstHasRoom ==
    ASSUME RatesInv, Rates!RateLimiterAssumption, NEW c \in Client,
           ~Rates!BurstFull(Rates!Purged(windows[c], clock), clock), BurstMax > 0,
           NEW i \in 1..Len(admitted[c]), Len(admitted[c]) + 1 = i + BurstMax
    PROVE  admitted[c][i] < clock - TicksPerSecond
<1> DEFINE a == admitted[c]
           kept == Rates!Purged(windows[c], clock)
           g == Len(a) - Len(kept)
           late == {k \in DOMAIN kept : kept[k] >= clock - TicksPerSecond}
<1>1. /\ kept \in Seq(0..RateTime) /\ Len(kept) \in Nat /\ a \in Seq(0..RateTime)
      /\ Len(a) \in Nat /\ g \in 0..Len(a)
      /\ \A k \in 1..Len(kept) : kept[k] = a[g + k] /\ g + k \in 1..Len(a)
      /\ \A k \in 1..g : a[k] < clock - Window
  BY KeptRight
<1>2. /\ BurstMax \in Nat /\ TicksPerSecond \in Nat /\ Window \in Nat /\ Window >= TicksPerSecond
      /\ clock \in Nat
  BY RateConstants DEF RatesInv, Rates!TypeOK
<1>13. ~(Cardinality(late) >= BurstMax)
  BY RatesCounts, RateConstants DEF Rates!BurstFull, Rates!InLastSecond
<1> HIDE DEF a, kept
<1>3. Cardinality(late) < BurstMax
  <2>1. late \subseteq 1..Len(kept)
    BY <1>1
  <2>2. 1 \in Int /\ Len(kept) \in Int /\ 1 <= Len(kept) + 1
    BY <1>1
  <2> HIDE DEF late
  <2>3. Cardinality(late) \in Nat
    BY <2>1, <2>2, FewBetween
  <2> QED
    BY <1>2, <1>13, <2>3
<1>4. \A k, l \in 1..Len(a) : k <= l => a[k] <= a[l]
  BY DEF RatesInv, HistoryRight, a
<1>5. i \in 1..Len(a) /\ Len(a) + 1 = i + BurstMax
  BY DEF a
<1>6. \A k \in 1..Len(a) : a[k] \in Nat
  <2>1. \A k \in 1..Len(a) : a[k] \in 0..RateTime
    BY <1>1, ElementOfSeq
  <2> QED
    BY <2>1, RateConstants
<1>7. SUFFICES ASSUME a[i] >= clock - TicksPerSecond PROVE FALSE
  BY <1>2, <1>5, <1>6 DEF a
<1>8. i > g
  BY <1>1, <1>2, <1>5, <1>6, <1>7, SMTT(30)
<1> DEFINE m == i - g
<1>9. m \in Int /\ m >= 1 /\ m <= Len(kept) + 1 /\ Len(kept) - m + 1 = BurstMax
  <2>1. Len(a) \in Nat /\ Len(kept) \in Nat /\ BurstMax \in Nat /\ g = Len(a) - Len(kept)
    BY <1>1, <1>2
  <2> HIDE DEF g
  <2>2. g \in Int /\ i \in Int /\ i > g /\ Len(a) + 1 = i + BurstMax /\ i <= Len(a)
    BY <1>5, <1>8, <2>1
  <2>3. m = i - g
    OBVIOUS
  <2> HIDE DEF m
  <2> QED
    BY <2>1, <2>2, <2>3
<1>10. ASSUME NEW k \in m..Len(kept) PROVE k \in late
  <2>1. k \in 1..Len(kept) /\ g + k \in 1..Len(a) /\ g + k >= i
    BY <1>1, <1>5, <1>9
  <2>2. a[i] <= a[g + k] /\ kept[k] = a[g + k] /\ a[g + k] \in Nat /\ a[i] \in Nat
    BY <1>1, <1>4, <1>5, <1>6, <2>1
  <2>3. kept[k] >= clock - TicksPerSecond
    BY <1>2, <1>7, <2>2
  <2> QED
    BY <1>1, <2>1, <2>3
<1>11. IsFiniteSet(late)
  <2>1. late \subseteq 1..Len(kept)
    BY <1>1
  <2> QED
    BY <1>1, <2>1, FewBetween
<1> HIDE DEF late, m
<1>12. Cardinality(late) \in Nat /\ Cardinality(late) >= Len(kept) - m + 1
  BY <1>1, <1>9, <1>10, <1>11, ManyBetween
<1> QED
  BY <1>2, <1>3, <1>9, <1>12

\* How many admissions there are after those that are too old
LEMMA CountAfter ==
    ASSUME NEW a \in Seq(Nat), NEW n \in 0..Len(a), NEW first \in Int, NEW last \in Int,
           \A i \in 1..n : a[i] < first
    PROVE  Rates!CountIn(a, first, last) \in Nat /\ Rates!CountIn(a, first, last) <= Len(a) - n
<1> DEFINE S == {i \in DOMAIN a : first <= a[i] /\ a[i] <= last}
<1>1. Len(a) \in Nat /\ \A i \in 1..Len(a) : a[i] \in Nat
  OBVIOUS
<1>2. S \subseteq (n + 1)..Len(a)
  BY <1>1
<1>3. Rates!CountIn(a, first, last) = Cardinality(S)
  BY RatesCounts DEF Rates!CountIn
<1> HIDE DEF S
<1>4. n + 1 \in Int /\ Len(a) \in Int /\ n + 1 <= Len(a) + 1
  BY <1>1
<1>5. Cardinality(S) \in Nat /\ Cardinality(S) <= Len(a) - (n + 1) + 1
  BY <1>2, <1>4, FewBetween
<1> QED
  BY <1>1, <1>3, <1>5

\* Admissions that are spaced out are few in every stretch of that length.
LEMMA SpacedAreFew ==
    ASSUME NEW a \in Seq(Nat), \A i, j \in 1..Len(a) : i <= j => a[i] <= a[j],
           NEW many \in Nat, many > 0, NEW far \in Nat, Spaced(a, many, far), NEW last \in Int
    PROVE  Rates!CountIn(a, last - far, last) <= many
<1> DEFINE S == {i \in DOMAIN a : last - far <= a[i] /\ a[i] <= last}
<1>1. Len(a) \in Nat /\ \A i \in 1..Len(a) : a[i] \in Nat
  OBVIOUS
<1>2. Rates!CountIn(a, last - far, last) = Cardinality(S)
  BY RatesCounts DEF Rates!CountIn
<1>3. S \in SUBSET Nat /\ \A i \in S : i \in 1..Len(a) /\ last - far <= a[i] /\ a[i] <= last
  BY <1>1
<1> HIDE DEF S
<1>4. CASE S = {}
  BY <1>2, <1>4, FS_EmptySet
<1>5. CASE S # {}
  <2>1. PICK i \in S : \A k \in S : i <= k
    BY <1>3, <1>5, LeastOf
  <2>2. ASSUME NEW k \in S PROVE k \in i..(i + many - 1)
    <3>1. i \in Nat /\ k \in Nat /\ i <= k /\ k <= Len(a) /\ i >= 1
      BY <1>1, <1>3, <2>1
    <3>2. SUFFICES ASSUME k >= i + many PROVE FALSE
      BY <3>1
    <3>3. i + many \in 1..Len(a) /\ i \in 1..Len(a) /\ k \in 1..Len(a)
      BY <1>1, <3>1, <3>2
    <3>4. a[i + many] > a[i] + far
      BY <3>3 DEF Spaced
    <3>5. a[i + many] <= a[k]
      BY <3>2, <3>3
    <3>6. a[i] >= last - far /\ a[k] <= last
      BY <1>3, <2>1, <2>2
    <3>7. a[i] \in Nat /\ a[k] \in Nat /\ a[i + many] \in Nat
      BY <1>1, <3>3
    <3> QED
      BY <3>4, <3>5, <3>6, <3>7, SMTT(30)
  <2> DEFINE n == i + many - 1
  <2>3. i \in Int /\ n \in Int /\ i <= n + 1 /\ n - i + 1 = many
    BY <1>3, <2>1
  <2>4. S \subseteq i..n
    BY <2>2
  <2> HIDE DEF n
  <2>5. Cardinality(S) <= n - i + 1
    BY <2>3, <2>4, FewBetween
  <2> QED
    BY <1>2, <2>3, <2>5
<1> QED
  BY <1>4, <1>5

LEMMA HistoryTyped ==
    ASSUME RatesInv, Rates!RateLimiterAssumption, NEW c \in Client
    PROVE  /\ admitted[c] \in Seq(Nat) /\ admitted[c] \in Seq(0..RateTime)
           /\ Len(admitted[c]) \in Nat /\ clock \in Nat /\ clock \in 0..RateTime
           /\ \A i \in 1..Len(admitted[c]) : admitted[c][i] \in Nat
<1>1. admitted[c] \in Seq(0..RateTime) /\ clock \in 0..RateTime
  BY DEF RatesInv, Rates!TypeOK
<1>2. admitted[c] \in Seq(Nat)
  BY <1>1, RateConstants
<1> QED
  BY <1>1, <1>2, RateConstants

\* What no window and no second is too full of
LEMMA RatesBounded == ASSUME RatesInv, Rates!RateLimiterAssumption PROVE Rates!RateIsBounded
<1> SUFFICES ASSUME NEW c \in Client, NEW t \in 0..RateTime
             PROVE  /\ Rates!CountIn(admitted[c], t - Window, t) <= RateRequests
                    /\ BurstMax > 0 =>
                         Rates!CountIn(admitted[c], t - Rates!Seconds(1), t) <= BurstMax
  BY DEF Rates!RateIsBounded
<1>1. admitted[c] \in Seq(Nat)
  BY HistoryTyped
<1>2. /\ \A i, j \in 1..Len(admitted[c]) : i <= j => admitted[c][i] <= admitted[c][j]
      /\ Spaced(admitted[c], RateRequests, Window)
      /\ BurstMax > 0 => Spaced(admitted[c], BurstMax, TicksPerSecond)
  BY DEF RatesInv, HistoryRight
<1>3. t \in Int
  BY RateConstants
<1>4. Rates!CountIn(admitted[c], t - Window, t) <= RateRequests
  BY <1>1, <1>2, <1>3, RateConstants, SpacedAreFew
<1>5. BurstMax > 0 => Rates!CountIn(admitted[c], t - TicksPerSecond, t) <= BurstMax
  BY <1>1, <1>2, <1>3, RateConstants, SpacedAreFew
<1> QED
  BY <1>4, <1>5, RateConstants

LEMMA RoundedUp ==
    ASSUME NEW x \in Nat, NEW y \in Nat, y > 0
    PROVE  x \div y \in Nat /\ ((x \div y) + 1) * y > x
<1>1. x \div y \in Int /\ x % y \in 0..(y - 1) /\ x = y * (x \div y) + (x % y)
  OBVIOUS
<1> DEFINE d == x \div y
           r == x % y
<1>2. d \in Int /\ r \in Int /\ r >= 0 /\ r < y /\ x = y * d + r
  BY <1>1
<1> HIDE DEF d, r
<1>3. (d + 1) * y = y * d + y
  BY <1>2
<1>4. d >= 0
  <2>1. SUFFICES ASSUME d <= -1 PROVE FALSE
    BY <1>2
  <2>2. y * d <= -y
    BY <1>2, <2>1
  <2> QED
    BY <1>2, <2>2
<1>5. y * d \in Int
  BY <1>2
<1> QED
  BY <1>2, <1>3, <1>4, <1>5 DEF d

\* A client that is admitted
LEMMA AdmittedRight ==
    ASSUME RatesInv, Rates!RateLimiterAssumption, NEW c \in Client, clock' = clock,
           ~Rates!WindowFull(Rates!Purged(windows[c], clock)),
           ~Rates!BurstFull(Rates!Purged(windows[c], clock), clock),
           windows'[c] = Append(Rates!Purged(windows[c], clock), clock),
           admitted'[c] = Append(admitted[c], clock)
    PROVE  /\ WindowRight(c)' /\ HistoryRight(c)'
           /\ windows'[c] \in Seq(0..RateTime) /\ admitted'[c] \in Seq(0..RateTime)
<1> DEFINE a == admitted[c]
           kept == Rates!Purged(windows[c], clock)
           g == Len(a) - Len(kept)
           b == Append(a, clock)
           n == Len(a)
<1>1. /\ kept \in Seq(0..RateTime) /\ Len(kept) \in Nat /\ a \in Seq(0..RateTime)
      /\ n \in Nat /\ g \in 0..n
      /\ \A k \in 1..Len(kept) : kept[k] = a[g + k] /\ g + k \in 1..n
      /\ \A k \in 1..g : a[k] < clock - Window
  BY KeptRight
<1>2. clock \in Nat /\ clock \in 0..RateTime /\ \A i \in 1..n : a[i] \in Nat
  BY HistoryTyped
<1>3. /\ \A i \in 1..n : a[i] <= clock
      /\ \A i, j \in 1..n : i <= j => a[i] <= a[j]
      /\ Spaced(a, RateRequests, Window)
      /\ BurstMax > 0 => Spaced(a, BurstMax, TicksPerSecond)
  BY DEF RatesInv, HistoryRight
<1>4. Len(kept) < RateRequests
  BY <1>1, RateConstants DEF Rates!WindowFull
<1>5. BurstMax > 0 => \A i \in 1..n : n + 1 = i + BurstMax => a[i] < clock - TicksPerSecond
  BY BurstHasRoom
<1>6. /\ windows'[c] = Append(kept, clock) /\ admitted'[c] = b /\ clock' = clock
      /\ RateRequests \in Nat /\ Window \in Nat /\ BurstMax \in Nat /\ TicksPerSecond \in Nat
      /\ RateRequests > 0
  BY RateConstants
<1> HIDE DEF a, kept
<1>7. /\ b \in Seq(0..RateTime) /\ Append(kept, clock) \in Seq(0..RateTime)
      /\ Len(b) = n + 1 /\ Len(Append(kept, clock)) = Len(kept) + 1
      /\ b[n + 1] = clock /\ Append(kept, clock)[Len(kept) + 1] = clock
      /\ \A i \in 1..n : b[i] = a[i]
      /\ \A i \in 1..Len(kept) : Append(kept, clock)[i] = kept[i]
  BY <1>1, <1>2
<1> DEFINE w == Append(kept, clock)
           m == Len(kept)
<1>8. /\ m \in Nat /\ g = n - m /\ Len(w) = m + 1 /\ w[m + 1] = clock
      /\ \A i \in 1..m : w[i] = kept[i]
  BY <1>1, <1>7
<1>16. w \in Seq(0..RateTime) /\ b \in Seq(0..RateTime)
  BY <1>7
<1> HIDE DEF b, w, g
<1>9. WindowRight(c)'
  <2>1. \A i \in 1..Len(w) : w[i] = b[(Len(b) - Len(w)) + i]
    <3> TAKE i \in 1..Len(w)
    <3>1. Len(b) - Len(w) + i = g + i
      BY <1>1, <1>7, <1>8
    <3>2. CASE i = m + 1
      <4>1. g + i = n + 1
        BY <1>1, <1>8, <3>2
      <4> QED
        BY <1>7, <1>8, <3>1, <3>2, <4>1
    <3>3. CASE i \in 1..m
      BY <1>1, <1>7, <1>8, <3>1, <3>3
    <3> QED
      BY <1>8, <3>2, <3>3
  <2>2. \A i \in 1..(Len(b) - Len(w)) : b[i] < clock - Window
    <3> TAKE i \in 1..(Len(b) - Len(w))
    <3>1. i \in 1..g /\ i \in 1..n
      BY <1>1, <1>7, <1>8
    <3> QED
      BY <1>1, <1>7, <3>1
  <2>3. Len(w) <= Len(b) /\ Len(w) <= RateRequests
    BY <1>1, <1>4, <1>6, <1>7, <1>8
  <2>4. windows'[c] = w /\ admitted'[c] = b /\ clock' = clock
    BY <1>6 DEF w
  <2> QED
    BY <2>1, <2>2, <2>3, <2>4 DEF WindowRight, Gone
<1>10. \A i \in 1..Len(b) : b[i] <= clock
  <2> TAKE i \in 1..Len(b)
  <2>1. i = n + 1 \/ i \in 1..n
    BY <1>1, <1>7
  <2> QED
    BY <1>2, <1>3, <1>7, <2>1
<1>11. \A i, j \in 1..Len(b) : i <= j => b[i] <= b[j]
  <2> TAKE i, j \in 1..Len(b)
  <2> SUFFICES ASSUME i <= j PROVE b[i] <= b[j]
    OBVIOUS
  <2>1. CASE j = n + 1
    BY <1>7, <1>10, <2>1
  <2>2. CASE j \in 1..n
    <3>1. i \in 1..n
      BY <1>1, <1>7, <2>2
    <3> QED
      BY <1>3, <1>7, <2>2, <3>1
  <2> QED
    BY <1>1, <1>7, <2>1, <2>2
<1>12. ASSUME NEW many \in Nat, many > 0, NEW far \in Nat, Spaced(a, many, far),
              \A i \in 1..n : n + 1 = i + many => a[i] < clock - far
       PROVE  Spaced(b, many, far)
  <2>1. SUFFICES ASSUME NEW i \in 1..Len(b), NEW j \in 1..Len(b), j = i + many
                 PROVE  b[j] > b[i] + far
    BY DEF Spaced
  <2>2. i \in 1..n
    BY <1>1, <1>7, <1>12, <2>1
  <2>3. CASE j = n + 1
    <3>1. a[i] < clock - far /\ a[i] \in Nat
      BY <1>2, <1>12, <2>1, <2>2, <2>3
    <3> QED
      BY <1>2, <1>7, <1>12, <2>2, <2>3, <3>1
  <2>4. CASE j \in 1..n
    BY <1>7, <1>12, <2>1, <2>2, <2>4 DEF Spaced
  <2> QED
    BY <1>1, <1>7, <2>3, <2>4
<1>13. Spaced(b, RateRequests, Window)
  <2>1. ASSUME NEW i \in 1..n, n + 1 = i + RateRequests PROVE a[i] < clock - Window
    <3>1. i \in 1..g
      BY <1>1, <1>4, <1>6, <1>8, <2>1
    <3> QED
      BY <1>1, <3>1
  <2> QED
    BY <1>3, <1>6, <1>12, <2>1
<1>14. BurstMax > 0 => Spaced(b, BurstMax, TicksPerSecond)
  BY <1>3, <1>5, <1>6, <1>12
<1>15. HistoryRight(c)'
  <2>1. admitted'[c] = b /\ clock' = clock
    BY <1>6
  <2>2. Spaced(admitted'[c], RateRequests, Window)
        /\ (BurstMax > 0 => Spaced(admitted'[c], BurstMax, TicksPerSecond))
    BY <1>13, <1>14, <2>1
  <2>3. Spaced(admitted[c], RateRequests, Window)'
        /\ (BurstMax > 0 => Spaced(admitted[c], BurstMax, TicksPerSecond)')
    BY <2>2 DEF Spaced
  <2> QED
    BY <1>10, <1>11, <2>1, <2>3 DEF HistoryRight
<1> QED
  BY <1>6, <1>9, <1>15, <1>16 DEF w

\* What a client is told is sound when it is told.
LEMMA AdviceIsGiven ==
    ASSUME RatesInv, Rates!RateLimiterAssumption, NEW c \in Client,
           advice' = [client |-> c, at |-> clock, retry |-> Rates!RetryAfter(windows[c], clock)],
           UNCHANGED <<clock, admitted>>
    PROVE  Rates!AdviceIsSound' /\ advice'.retry \in Nat
<1> DEFINE a == admitted[c]
           kept == Rates!Purged(windows[c], clock)
           g == Len(a) - Len(kept)
           told == Rates!RetryAfter(windows[c], clock)
           back == clock + Rates!Seconds(told)
           h == kept[1]
<1>1. /\ kept \in Seq(0..RateTime) /\ Len(kept) \in Nat /\ Len(a) \in Nat /\ g \in 0..Len(a)
      /\ \A k \in 1..Len(kept) : kept[k] = a[g + k] /\ g + k \in 1..Len(a)
      /\ \A k \in 1..g : a[k] < clock - Window
      /\ Len(kept) <= RateRequests
      /\ Len(kept) > 0 => kept[1] >= clock - Window /\ Head(kept) = kept[1]
  BY KeptRight
<1>2. clock \in Nat /\ a \in Seq(Nat) /\ \A i \in 1..Len(a) : a[i] \in Nat
  BY HistoryTyped
<1>3. \A i, j \in 1..Len(a) : i <= j => a[i] <= a[j]
  BY DEF RatesInv, HistoryRight
<1>4. /\ RateRequests \in Nat /\ RateRequests > 0 /\ Window \in Nat /\ TicksPerSecond \in Nat
      /\ TicksPerSecond > 0
  BY RateConstants
<1>5. /\ advice'.client = c /\ advice'.at = clock /\ advice'.retry = told
      /\ admitted'[c] = admitted[c] /\ clock' = clock
  OBVIOUS
<1>6. SUFFICES /\ told \in Nat
               /\ IF told > 0
                  THEN Rates!CountIn(a, back - Window, clock) < RateRequests
                  ELSE Rates!CountIn(a, clock - Window + 1, clock) < RateRequests
  BY <1>5 DEF Rates!AdviceIsSound
<1>7. told = IF Len(kept) < RateRequests \/ Head(kept) + Window <= clock THEN 0
              ELSE (Head(kept) + Window - clock) \div TicksPerSecond + 1
  BY <1>1, <1>4 DEF Rates!RetryAfter, Rates!WindowFull
<1>8. Rates!Seconds(told) = told * TicksPerSecond
  BY DEF Rates!Seconds
<1> HIDE DEF a, kept, told
<1>9. Len(kept) > 0 => h \in Nat /\ h = a[g + 1] /\ g + 1 \in 1..Len(a) /\ Head(kept) = h
  BY <1>1, <1>2
<1>14. g \in Nat /\ g = Len(a) - Len(kept) /\ g <= Len(a)
  BY <1>1
<1> HIDE DEF h, g
<1>10. ASSUME NEW first \in Int, Len(kept) > 0, h < first
       PROVE  Rates!CountIn(a, first, clock) < RateRequests
  <2> DEFINE n == g + 1
  <2>1. n \in 1..Len(a) /\ n \in 0..Len(a) /\ Len(a) - n = Len(kept) - 1 /\ h = a[n] /\ h \in Nat
    BY <1>1, <1>9, <1>10, <1>14
  <2> HIDE DEF n
  <2>2. \A i \in 1..n : a[i] < first
    <3> TAKE i \in 1..n
    <3>1. i \in 1..Len(a) /\ i <= n
      BY <1>1, <2>1
    <3>2. a[i] <= a[n] /\ a[i] \in Nat
      BY <1>2, <1>3, <2>1, <3>1
    <3> QED
      BY <1>10, <2>1, <3>2
  <2>3. /\ Rates!CountIn(a, first, clock) \in Nat
        /\ Rates!CountIn(a, first, clock) <= Len(a) - n
    BY <1>2, <1>10, <2>1, <2>2, CountAfter
  <2> QED
    BY <1>1, <1>4, <2>1, <2>3
<1>11. CASE Len(kept) < RateRequests
  <2>1. \A i \in 1..g : a[i] < clock - Window + 1
    BY <1>1, <1>2, <1>4
  <2>2. g \in 0..Len(a) /\ Len(a) - g = Len(kept) /\ clock - Window + 1 \in Int /\ clock \in Int
    BY <1>1, <1>2, <1>4, <1>14
  <2>3. /\ Rates!CountIn(a, clock - Window + 1, clock) \in Nat
        /\ Rates!CountIn(a, clock - Window + 1, clock) <= Len(a) - g
    BY <1>2, <2>1, <2>2, CountAfter
  <2> QED
    BY <1>1, <1>4, <1>7, <1>11, <2>2, <2>3
<1>12. CASE Len(kept) >= RateRequests /\ Head(kept) + Window <= clock
  <2>1. /\ told = 0 /\ Len(kept) > 0 /\ h + Window <= clock /\ h \in Nat
        /\ clock - Window + 1 \in Int /\ h < clock - Window + 1
    BY <1>1, <1>2, <1>4, <1>7, <1>9, <1>12, SMTT(30)
  <2>2. Rates!CountIn(a, clock - Window + 1, clock) < RateRequests
    BY <1>10, <2>1
  <2> QED
    BY <2>1, <2>2
<1>13. CASE Len(kept) >= RateRequests /\ Head(kept) + Window > clock
  <2> DEFINE x == h + Window - clock
  <2>6. Len(kept) > 0
    BY <1>1, <1>4, <1>13
  <2>1. Len(kept) > 0 /\ x \in Nat /\ told = x \div TicksPerSecond + 1
    <3>1. Head(kept) = h /\ h \in Nat
      BY <1>9, <2>6
    <3>2. x \in Nat
      BY <1>2, <1>4, <1>13, <3>1
    <3>3. ~(Len(kept) < RateRequests \/ Head(kept) + Window <= clock)
      BY <1>1, <1>2, <1>4, <1>13, <3>1, SMTT(30)
    <3> QED
      BY <1>7, <2>6, <3>1, <3>2, <3>3
  <2>2. x \div TicksPerSecond \in Nat /\ ((x \div TicksPerSecond) + 1) * TicksPerSecond > x
    BY <1>4, <2>1, RoundedUp
  <2>3. told \in Nat /\ told > 0 /\ told * TicksPerSecond > x
    BY <2>1, <2>2
  <2> DEFINE more == told * TicksPerSecond
  <2>4. more \in Int /\ more > x /\ back = clock + more
    BY <1>4, <1>8, <2>3
  <2> HIDE DEF more
  <2>7. h \in Nat /\ x = h + Window - clock
    BY <1>9, <2>6
  <2> HIDE DEF back
  <2>5. back - Window \in Int /\ h < back - Window
    BY <1>2, <1>4, <2>1, <2>4, <2>7
  <2> QED
    BY <1>10, <2>1, <2>3, <2>5
<1> QED
  <2>1. Len(kept) < RateRequests \/ Len(kept) >= RateRequests
    BY <1>1, <1>4
  <2>2. Len(kept) >= RateRequests => Head(kept) + Window \in Int
    BY <1>1, <1>4, <1>9
  <2> QED
    BY <1>2, <1>11, <1>12, <1>13, <2>1, <2>2

\* The other clients, when one of them is admitted or starts anew
LEMMA OthersRight ==
    ASSUME RatesInv, NEW d \in Client, clock' = clock,
           windows'[d] = windows[d], admitted'[d] = admitted[d]
    PROVE  WindowRight(d)' /\ HistoryRight(d)'
<1>1. WindowRight(d) /\ HistoryRight(d)
  BY DEF RatesInv
<1>2. \A many, far : Spaced(admitted[d], many, far) = Spaced(admitted'[d], many, far)
  OBVIOUS
<1>3. \A many, far : Spaced(admitted'[d], many, far) <=>
        \A i, j \in 1..Len(admitted'[d]) : j = i + many => admitted'[d][j] > admitted'[d][i] + far
  BY DEF Spaced
<1> QED
  BY <1>1 DEF WindowRight, HistoryRight, Gone, Spaced

\* What a client was told stays sound while it is not admitted.
LEMMA AdviceKept ==
    ASSUME RatesInv,
           \/ advice' = Rates!NoAdvice
           \/ UNCHANGED advice /\ (advice.client # "none" =>
                                    admitted'[advice.client] = admitted[advice.client])
    PROVE  Rates!AdviceIsSound'
<1>1. CASE advice' = Rates!NoAdvice
  BY <1>1 DEF Rates!AdviceIsSound, Rates!NoAdvice
<1>2. CASE UNCHANGED advice /\ (advice.client # "none" =>
                                 admitted'[advice.client] = admitted[advice.client])
  BY <1>2 DEF RatesInv, Rates!AdviceIsSound, Rates!CountIn
<1> QED
  BY <1>1, <1>2

LEMMA NoAdviceTyped ==
    ASSUME Rates!RateLimiterAssumption
    PROVE  /\ Rates!NoAdvice.client \in Client \cup {"none"}
           /\ Rates!NoAdvice.at \in 0..RateTime /\ Rates!NoAdvice.retry \in Nat
  BY RateConstants DEF Rates!NoAdvice

\* A client whose deque and history change, and the rest of the limiter with it
LEMMA OneClient ==
    ASSUME RatesInv, Rates!RateLimiterAssumption, NEW c \in Client, NEW w \in Seq(0..RateTime),
           NEW a \in Seq(0..RateTime), windows' = [windows EXCEPT ![c] = w],
           admitted' = [admitted EXCEPT ![c] = a], UNCHANGED <<clock, asking>>,
           (a = admitted[c] /\ advice' = advice) \/ Rates!Forget(c),
           WindowRight(c)' /\ HistoryRight(c)'
    PROVE  RatesInv'
<1>1. /\ windows \in [Client -> Seq(0..RateTime)] /\ admitted \in [Client -> Seq(0..RateTime)]
      /\ clock \in 0..RateTime /\ asking \subseteq Client
      /\ advice.client \in Client \cup {"none"}
      /\ advice.at \in 0..RateTime /\ advice.retry \in Nat
  BY DEF RatesInv, Rates!TypeOK
<1>2. /\ windows' \in [Client -> Seq(0..RateTime)] /\ admitted' \in [Client -> Seq(0..RateTime)]
      /\ \A d \in Client \ {c} : windows'[d] = windows[d] /\ admitted'[d] = admitted[d]
      /\ admitted'[c] = a
  BY <1>1
<1>3. \A d \in Client : WindowRight(d)' /\ HistoryRight(d)'
  BY <1>2, OthersRight
<1>4. \/ advice' = Rates!NoAdvice
      \/ UNCHANGED advice /\ (advice.client # "none" =>
                                admitted'[advice.client] = admitted[advice.client])
  BY <1>1, <1>2 DEF Rates!Forget
<1>5. Rates!AdviceIsSound'
  BY <1>4, AdviceKept
<1>6. advice'.client \in Client \cup {"none"} /\ advice'.at \in 0..RateTime /\ advice'.retry \in Nat
  BY <1>1, <1>4, NoAdviceTyped
<1>7. clock' \in 0..RateTime /\ asking' \subseteq Client
  BY <1>1
<1>8. Rates!TypeOK'
  BY <1>2, <1>6, <1>7 DEF Rates!TypeOK
<1> QED
  BY <1>3, <1>5, <1>8 DEF RatesInv

LEMMA AdmitClientInv ==
    ASSUME RatesInv, Rates!RateLimiterAssumption, NEW c \in Client, Rates!Admit(c)
    PROVE  RatesInv'
<1>1. /\ ~Rates!WindowFull(Rates!Purged(windows[c], clock))
      /\ ~Rates!BurstFull(Rates!Purged(windows[c], clock), clock)
      /\ windows' = [windows EXCEPT ![c] = Append(Rates!Purged(windows[c], clock), clock)]
      /\ admitted' = [admitted EXCEPT ![c] = Append(admitted[c], clock)]
      /\ Rates!Forget(c) /\ UNCHANGED <<clock, asking>>
  BY DEF Rates!Admit
<1>2. /\ windows'[c] = Append(Rates!Purged(windows[c], clock), clock)
      /\ admitted'[c] = Append(admitted[c], clock)
  BY <1>1 DEF RatesInv, Rates!TypeOK
<1>3. /\ WindowRight(c)' /\ HistoryRight(c)'
      /\ Append(Rates!Purged(windows[c], clock), clock) \in Seq(0..RateTime)
      /\ Append(admitted[c], clock) \in Seq(0..RateTime)
  BY <1>1, <1>2, AdmittedRight
<1> QED
  BY <1>1, <1>3, OneClient

LEMMA ResetClientInv ==
    ASSUME RatesInv, Rates!RateLimiterAssumption, NEW c \in Client, Rates!Reset(c)
    PROVE  RatesInv'
<1>1. /\ windows' = [windows EXCEPT ![c] = <<>>] /\ admitted' = [admitted EXCEPT ![c] = <<>>]
      /\ Rates!Forget(c) /\ UNCHANGED <<clock, asking>>
  BY DEF Rates!Reset
<1>2. /\ windows'[c] = <<>> /\ admitted'[c] = <<>> /\ <<>> \in Seq(0..RateTime)
  BY <1>1 DEF RatesInv, Rates!TypeOK
<1>3. Len(windows'[c]) = 0 /\ Len(admitted'[c]) = 0 /\ 1..0 = {} /\ 0 - 0 = 0
  BY <1>2
<1>4. WindowRight(c)' /\ HistoryRight(c)'
  BY <1>3, RateConstants DEF WindowRight, HistoryRight, Gone, Spaced
<1> QED
  BY <1>1, <1>2, <1>4, OneClient

\* Purging some of the deques
LEMMA PurgingInv ==
    ASSUME RatesInv, Rates!RateLimiterAssumption, UNCHANGED <<clock, admitted>>,
           windows' \in [Client -> Seq(0..RateTime)],
           \A c \in Client : windows'[c] \in {windows[c], Rates!Purged(windows[c], clock)},
           asking' \subseteq Client,
           advice'.client \in Client \cup {"none"} /\ advice'.at \in 0..RateTime,
           advice'.retry \in Nat, Rates!AdviceIsSound'
    PROVE  RatesInv'
<1>1. \A c \in Client : WindowRight(c)' /\ HistoryRight(c)'
  BY PurgesInv
<1>2. Rates!TypeOK'
  BY DEF RatesInv, Rates!TypeOK
<1> QED
  BY <1>1, <1>2 DEF RatesInv

LEMMA RefuseClientInv ==
    ASSUME RatesInv, Rates!RateLimiterAssumption, NEW c \in Client, Rates!Refuse(c)
    PROVE  RatesInv'
<1>1. /\ windows' = [windows EXCEPT ![c] = Rates!Purged(windows[c], clock)]
      /\ asking' = asking \cup {c} /\ UNCHANGED <<clock, admitted, advice>>
  BY DEF Rates!Refuse
<1>2. /\ windows \in [Client -> Seq(0..RateTime)] /\ asking \subseteq Client
      /\ advice.client \in Client \cup {"none"}
      /\ advice.at \in 0..RateTime /\ advice.retry \in Nat
  BY DEF RatesInv, Rates!TypeOK
<1>3. Rates!Purged(windows[c], clock) \in Seq(0..RateTime)
  BY KeptRight
<1>4. Rates!AdviceIsSound'
  BY <1>1, AdviceKept
<1>5. /\ windows' \in [Client -> Seq(0..RateTime)]
      /\ \A d \in Client : windows'[d] \in {windows[d], Rates!Purged(windows[d], clock)}
  BY <1>1, <1>2, <1>3
<1>6. asking' \subseteq Client
  BY <1>1, <1>2
<1> QED
  BY <1>1, <1>2, <1>4, <1>5, <1>6, PurgingInv

LEMMA AdviseClientInv ==
    ASSUME RatesInv, Rates!RateLimiterAssumption, NEW c \in Client, Rates!Advise(c)
    PROVE  RatesInv'
<1>1. /\ windows' = [windows EXCEPT ![c] = Rates!Purged(windows[c], clock)]
      /\ asking' = asking \ {c} /\ UNCHANGED <<clock, admitted>>
      /\ advice' = [client |-> c, at |-> clock, retry |-> Rates!RetryAfter(windows[c], clock)]
  BY DEF Rates!Advise
<1>2. /\ windows \in [Client -> Seq(0..RateTime)] /\ asking \subseteq Client
      /\ clock \in 0..RateTime
  BY DEF RatesInv, Rates!TypeOK
<1>3. Rates!Purged(windows[c], clock) \in Seq(0..RateTime)
  BY KeptRight
<1>4. Rates!AdviceIsSound' /\ advice'.retry \in Nat
  BY <1>1, AdviceIsGiven
<1>5. /\ windows' \in [Client -> Seq(0..RateTime)]
      /\ \A d \in Client : windows'[d] \in {windows[d], Rates!Purged(windows[d], clock)}
  BY <1>1, <1>2, <1>3
<1>6. asking' \subseteq Client /\ advice'.client = c /\ advice'.at = clock
  BY <1>1, <1>2
<1> QED
  BY <1>1, <1>2, <1>4, <1>5, <1>6, PurgingInv

LEMMA PruneInv ==
    ASSUME RatesInv, Rates!RateLimiterAssumption, Rates!Prune
    PROVE  RatesInv'
<1>1. /\ windows' = [c \in Client |-> Rates!Purged(windows[c], clock)]
      /\ UNCHANGED <<clock, admitted, asking, advice>>
  BY DEF Rates!Prune
<1>2. /\ asking \subseteq Client /\ advice.client \in Client \cup {"none"}
      /\ advice.at \in 0..RateTime /\ advice.retry \in Nat
  BY DEF RatesInv, Rates!TypeOK
<1>3. \A c \in Client : Rates!Purged(windows[c], clock) \in Seq(0..RateTime)
  BY KeptRight
<1>4. Rates!AdviceIsSound'
  BY <1>1, AdviceKept
<1>5. /\ windows' \in [Client -> Seq(0..RateTime)]
      /\ \A d \in Client : windows'[d] \in {windows[d], Rates!Purged(windows[d], clock)}
  BY <1>1, <1>3
<1> QED
  BY <1>1, <1>2, <1>4, <1>5, PurgingInv

\* Time passes.
LEMMA LimiterTickInv ==
    ASSUME RatesInv, Rates!RateLimiterAssumption, Rates!Tick
    PROVE  RatesInv'
<1>1. /\ clock < RateTime /\ clock' = clock + 1
      /\ UNCHANGED <<windows, admitted, asking, advice>> /\ clock \in Nat
  BY RateConstants DEF Rates!Tick, RatesInv, Rates!TypeOK
<1>2. ASSUME NEW c \in Client PROVE WindowRight(c)' /\ HistoryRight(c)'
  <2>1. \A i \in 1..Len(admitted[c]) : admitted[c][i] \in Nat
    BY HistoryTyped
  <2>2. WindowRight(c) /\ HistoryRight(c)
    BY DEF RatesInv
  <2>3. Len(windows[c]) \in Nat /\ Len(admitted[c]) \in Nat
    BY DEF RatesInv, Rates!TypeOK
  <2>4. \A i \in 1..Gone(c) : i \in 1..Len(admitted[c])
    BY <2>2, <2>3 DEF WindowRight, Gone
  <2>5. \A i \in 1..Gone(c) : admitted[c][i] < clock' - Window
    BY <1>1, <2>1, <2>2, <2>4, RateConstants DEF WindowRight
  <2>6. \A i \in 1..Len(admitted[c]) : admitted[c][i] <= clock'
    BY <1>1, <2>1, <2>2 DEF HistoryRight
  <2>7. WindowRight(c)'
    BY <1>1, <2>2, <2>5 DEF WindowRight, Gone
  <2>8. HistoryRight(c)'
    BY <1>1, <2>2, <2>6 DEF HistoryRight, Spaced
  <2> QED
    BY <2>7, <2>8
<1>3. Rates!AdviceIsSound'
  BY <1>1, AdviceKept
<1>4. Rates!TypeOK'
  BY <1>1, RateConstants DEF RatesInv, Rates!TypeOK
<1> QED
  BY <1>2, <1>3, <1>4 DEF RatesInv

LEMMA InitRates == ASSUME Rates!RateLimiterAssumption PROVE Rates!Init => RatesInv
<1> SUFFICES ASSUME Rates!Init PROVE RatesInv
  OBVIOUS
<1>1. /\ clock = 0 /\ asking = {} /\ advice = Rates!NoAdvice
      /\ \A c \in Client : windows[c] = <<>> /\ admitted[c] = <<>>
      /\ windows \in [Client -> Seq(0..RateTime)] /\ admitted \in [Client -> Seq(0..RateTime)]
  BY DEF Rates!Init
<1>2. \A c \in Client : Len(windows[c]) = 0 /\ Len(admitted[c]) = 0
  BY <1>1
<1>3. 1..0 = {} /\ 0 - 0 = 0
  OBVIOUS
<1>4. ASSUME NEW c \in Client PROVE WindowRight(c) /\ HistoryRight(c)
  <2>1. Len(windows[c]) = 0 /\ Len(admitted[c]) = 0 /\ Gone(c) = 0
    BY <1>2, <1>3 DEF Gone
  <2>2. WindowRight(c)
    BY <1>3, <2>1, RateConstants DEF WindowRight
  <2>3. HistoryRight(c)
    BY <1>3, <2>1 DEF HistoryRight, Spaced
  <2> QED
    BY <2>2, <2>3
<1>5. Rates!TypeOK
  <2>1. clock \in 0..RateTime /\ asking \subseteq Client
    BY <1>1, RateConstants
  <2>2. /\ advice.client \in Client \cup {"none"} /\ advice.at \in 0..RateTime
        /\ advice.retry \in Nat
    BY <1>1, NoAdviceTyped
  <2> QED
    BY <1>1, <2>1, <2>2 DEF Rates!TypeOK
<1> QED
  BY <1>1, <1>4, <1>5 DEF RatesInv, Rates!AdviceIsSound, Rates!NoAdvice

LEMMA RatesNext ==
    ASSUME Rates!RateLimiterAssumption
    PROVE  RatesInv /\ [Rates!Next]_(Rates!limiterVars) => RatesInv'
<1> SUFFICES ASSUME RatesInv, [Rates!Next]_(Rates!limiterVars) PROVE RatesInv'
  OBVIOUS
<1>1. CASE UNCHANGED Rates!limiterVars
  <2>1. UNCHANGED <<clock, windows, admitted, asking, advice>>
    BY <1>1 DEF Rates!limiterVars
  <2>2. \A c \in Client : WindowRight(c)' /\ HistoryRight(c)'
    BY <2>1, OthersRight
  <2>3. Rates!AdviceIsSound'
    BY <2>1, AdviceKept
  <2> QED
    BY <2>1, <2>2, <2>3 DEF RatesInv, Rates!TypeOK
<1>2. ASSUME NEW c \in Client, Rates!Admit(c) PROVE RatesInv'
  BY <1>2, AdmitClientInv
<1>3. ASSUME NEW c \in Client, Rates!Refuse(c) PROVE RatesInv'
  BY <1>3, RefuseClientInv
<1>4. ASSUME NEW c \in Client, Rates!Advise(c) PROVE RatesInv'
  BY <1>4, AdviseClientInv
<1>5. ASSUME NEW c \in Client, Rates!Reset(c) PROVE RatesInv'
  BY <1>5, ResetClientInv
<1>6. CASE Rates!Prune
  BY <1>6, PruneInv
<1>7. CASE Rates!Tick
  BY <1>7, LimiterTickInv
<1> QED
  BY <1>1, <1>2, <1>3, <1>4, <1>5, <1>6, <1>7 DEF Rates!Next

\* No more requests of a client are admitted over any window, and over any second,
\* than may be, and what a refused one is told is true (rate_limiter.cpp).
THEOREM RateAlwaysBounded ==
    ASSUME Rates!RateLimiterAssumption
    PROVE  Rates!Spec => [](Rates!TypeOK /\ Rates!RateIsBounded /\ Rates!AdviceIsSound)
<1>1. Rates!Init => RatesInv
  BY InitRates
<1>2. RatesInv /\ [Rates!Next]_(Rates!limiterVars) => RatesInv'
  BY RatesNext
<1>3. RatesInv => Rates!TypeOK /\ Rates!RateIsBounded /\ Rates!AdviceIsSound
  BY RatesBounded DEF RatesInv
<1> QED
  BY <1>1, <1>2, <1>3, PTL DEF Rates!Spec

(***************************************************************************)
(* The calls of tools.  The invariant:                                     *)
(***************************************************************************)

CallRec == [stage : Tools!Stages, tool : Tools!Tool, hint : BOOLEAN, ext : BOOLEAN,
            decision : Tools!Decision \cup {"none"}]
Entry   == [id : Call, decision : Tools!Decision, by : {"auto", "operator", "system"}]

\* What a call in this state has behind it
CallMay(s) ==
    /\ s.ext => s.tool = "mcp"
    /\ s.stage \in {"ask", "asked", "answered", "run"} =>
         ~policy.outOfScope /\ Tools!PermissionAllows(s)
    /\ s.stage = "run" /\ Tools!AsksForApproval(s) => s.decision = "approved"
    /\ s.stage = "answered" => s.decision \in Tools!Decision

\* An entry on record is of a call that has asked, by itself when it has gone on.
EntryRight(e) ==
    /\ e.id \notin pending
    /\ call[e.id].stage \in {"asked", "answered", "run", "refused"}
    /\ e.by = "auto" => /\ call[e.id].stage \in {"run", "refused"}
                        /\ e.decision = call[e.id].decision

ToolInv ==
    /\ Tools!TypeOK
    /\ \A c \in Call : CallMay(call[c])
    /\ \A c \in pending : call[c].stage \in {"asked", "answered"}
    /\ \A i \in DOMAIN resolved : EntryRight(resolved[i])
    /\ \A i, j \in DOMAIN resolved : resolved[i].id = resolved[j].id => i = j

LEMMA ToolTyped ==
    Tools!TypeOK =>
      /\ call \in [Call -> CallRec] /\ pending \subseteq Call /\ resolved \in Seq(Entry)
      /\ registered \in BOOLEAN /\ external \in BOOLEAN
      /\ policy.outOfScope \in BOOLEAN /\ policy.mcpDenied \in BOOLEAN /\ policy.handler \in BOOLEAN
      /\ policy.fallback \in {"approved", "denied"}
      /\ \A i \in DOMAIN resolved : resolved[i] \in Entry /\ resolved[i].id \in Call
<1> SUFFICES ASSUME Tools!TypeOK
             PROVE  /\ call \in [Call -> CallRec] /\ pending \subseteq Call /\ resolved \in Seq(Entry)
                    /\ registered \in BOOLEAN /\ external \in BOOLEAN
                    /\ policy.outOfScope \in BOOLEAN /\ policy.mcpDenied \in BOOLEAN
                    /\ policy.handler \in BOOLEAN /\ policy.fallback \in {"approved", "denied"}
                    /\ \A i \in DOMAIN resolved : resolved[i] \in Entry /\ resolved[i].id \in Call
  OBVIOUS
<1>1. resolved \in Seq(Entry)
  BY DEF Tools!TypeOK, Entry
<1>2. \A i \in DOMAIN resolved : resolved[i] \in Entry
  BY <1>1
<1>3. \A e \in Entry : e.id \in Call
  BY DEF Entry
<1> QED
  BY <1>1, <1>2, <1>3 DEF Tools!TypeOK, CallRec

\* A step of one call that leaves the record alone
LEMMA CallGoesOn ==
    ASSUME ToolInv, NEW c \in Call, NEW s \in CallRec, Tools!Step(c, s),
           UNCHANGED <<registered, external, policy, resolved>>, CallMay(s),
           pending' \in {pending, pending \cup {c}},
           c \in pending' => s.stage \in {"asked", "answered"},
           call[c].stage \notin {"run", "refused"},
           call[c].stage \in {"asked", "answered"} =>
              s.stage \in {"asked", "answered", "run", "refused"},
           c \in pending' => c \in pending \/ call[c].stage \notin {"asked", "answered"}
    PROVE  ToolInv'
<1>1. /\ call' \in [Call -> CallRec] /\ call'[c] = s
      /\ \A d \in Call \ {c} : call'[d] = call[d]
  BY ToolTyped DEF ToolInv, Tools!Step
<1>2. Tools!TypeOK'
  BY <1>1, ToolTyped DEF ToolInv, Tools!TypeOK, CallRec
<1>3. \A d \in Call : CallMay(call[d])'
  BY <1>1 DEF ToolInv, CallMay, Tools!PermissionAllows
<1>4. \A d \in pending' : call'[d].stage \in {"asked", "answered"}
  BY <1>1, ToolTyped DEF ToolInv
<1>5. ASSUME NEW i \in DOMAIN resolved PROVE EntryRight(resolved[i])'
  <2>1. EntryRight(resolved[i]) /\ resolved[i].id \in Call
    BY ToolTyped DEF ToolInv
  <2>2. CASE resolved[i].id = c
    BY <1>1, <2>1, <2>2 DEF EntryRight
  <2>3. CASE resolved[i].id # c
    BY <1>1, <2>1, <2>3 DEF EntryRight
  <2> QED
    BY <2>2, <2>3
<1> QED
  BY <1>2, <1>3, <1>4, <1>5 DEF ToolInv

\* A pending request is answered, and put on record.
LEMMA CallRecorded ==
    ASSUME ToolInv, NEW c \in Call, c \in pending, NEW e \in Entry, e.id = c,
           pending' = pending \ {c}, resolved' = Append(resolved, e),
           UNCHANGED <<registered, external, policy>>,
           call' \in [Call -> CallRec], \A d \in Call \ {c} : call'[d] = call[d],
           CallMay(call[c])', call'[c].stage \in {"asked", "answered", "run", "refused"},
           e.by = "auto" => /\ call'[c].stage \in {"run", "refused"}
                            /\ e.decision = call'[c].decision
    PROVE  ToolInv'
<1>1. resolved \in Seq(Entry)
  BY ToolTyped DEF ToolInv
<1>2. /\ resolved' \in Seq(Entry) /\ DOMAIN resolved' = DOMAIN resolved \cup {Len(resolved) + 1}
      /\ resolved'[Len(resolved) + 1] = e /\ Len(resolved) + 1 \notin DOMAIN resolved
      /\ \A i \in DOMAIN resolved : resolved'[i] = resolved[i]
  BY <1>1
<1>3. Tools!TypeOK'
  BY <1>2, ToolTyped DEF ToolInv, Tools!TypeOK, CallRec, Entry
<1>4. \A d \in Call : CallMay(call[d])'
  BY DEF ToolInv, CallMay, Tools!PermissionAllows
<1>5. \A d \in pending' : call'[d].stage \in {"asked", "answered"}
  BY ToolTyped DEF ToolInv
<1>6. \A i \in DOMAIN resolved : resolved[i].id \in Call /\ resolved[i].id # c
  BY ToolTyped DEF ToolInv, EntryRight
<1>7. \A i \in DOMAIN resolved' : EntryRight(resolved[i])'
  <2>1. \A i \in DOMAIN resolved : EntryRight(resolved[i])'
    BY <1>2, <1>6 DEF ToolInv, EntryRight
  <2>2. EntryRight(e)'
    BY DEF EntryRight
  <2> QED
    BY <1>2, <2>1, <2>2 DEF EntryRight
<1>8. \A i, j \in DOMAIN resolved' : resolved'[i].id = resolved'[j].id => i = j
  BY <1>2, <1>6 DEF ToolInv
<1> QED
  BY <1>3, <1>4, <1>5, <1>7, <1>8 DEF ToolInv

LEMMA ToolLookUp == ASSUME ToolInv, NEW c \in Call, Tools!LookUp(c) PROVE ToolInv'
<1>1. PICK tool \in Tools!Tool, hint \in BOOLEAN :
        Tools!Step(c, [Tools!NewCall EXCEPT !.stage = "gates", !.tool = tool, !.hint = hint,
                                            !.ext = tool = "mcp" /\ external])
  BY DEF Tools!LookUp
<1> DEFINE s == [Tools!NewCall EXCEPT !.stage = "gates", !.tool = tool, !.hint = hint,
                                      !.ext = tool = "mcp" /\ external]
<1>2. external \in BOOLEAN
  BY ToolTyped DEF ToolInv
<1>3. s \in CallRec /\ s.stage = "gates" /\ (s.ext => s.tool = "mcp")
  BY <1>2 DEF Tools!NewCall, CallRec, Tools!Stages
<1>4. CallMay(s)
  BY <1>3 DEF CallMay
<1> HIDE DEF s
<1>5. Tools!Step(c, s) /\ call[c].stage = "idle"
      /\ UNCHANGED <<registered, external, policy, pending, resolved>>
  BY <1>1 DEF s, Tools!LookUp
<1>6. c \notin pending
  BY <1>5 DEF ToolInv
<1> QED
  BY <1>3, <1>4, <1>5, <1>6, CallGoesOn

LEMMA ToolGates == ASSUME ToolInv, NEW c \in Call, Tools!Gates(c) PROVE ToolInv'
<1> DEFINE a == IF ~Tools!PermissionAllows(call[c]) \/ policy.outOfScope THEN "refused"
                ELSE IF Tools!AsksForApproval(call[c]) THEN "ask" ELSE "run"
           s == [call[c] EXCEPT !.stage = a]
<1>1. /\ Tools!Step(c, s) /\ call[c].stage = "gates" /\ call[c] \in CallRec /\ CallMay(call[c])
      /\ UNCHANGED <<registered, external, policy, pending, resolved>>
  BY ToolTyped DEF Tools!Gates, ToolInv
<1>2. /\ a \in {"refused", "ask", "run"}
      /\ a \in {"ask", "run"} => Tools!PermissionAllows(call[c]) /\ ~policy.outOfScope
      /\ a = "run" => ~Tools!AsksForApproval(call[c])
  OBVIOUS
<1> HIDE DEF a
<1>3. /\ s \in CallRec /\ s.stage = a /\ s.tool = call[c].tool /\ s.hint = call[c].hint
      /\ s.ext = call[c].ext /\ s.decision = call[c].decision
  BY <1>1, <1>2 DEF CallRec, Tools!Stages
<1> HIDE DEF s
<1>4. CallMay(s)
  BY <1>1, <1>2, <1>3 DEF CallMay, Tools!PermissionAllows, Tools!AsksForApproval, Tools!IsMutating
<1>5. c \notin pending
  BY <1>1 DEF ToolInv
<1> QED
  BY <1>1, <1>2, <1>3, <1>4, <1>5, CallGoesOn

LEMMA ToolRequest == ASSUME ToolInv, NEW c \in Call, Tools!RequestApproval(c) PROVE ToolInv'
<1>1. /\ call[c].stage = "ask" /\ call[c] \in CallRec /\ CallMay(call[c])
      /\ UNCHANGED <<registered, external, policy, resolved>>
  BY ToolTyped DEF Tools!RequestApproval, ToolInv
<1>2. CASE Tools!Step(c, [call[c] EXCEPT !.stage = "run", !.decision = "approved"])
           /\ UNCHANGED pending
  <2> DEFINE s == [call[c] EXCEPT !.stage = "run", !.decision = "approved"]
  <2>1. /\ s \in CallRec /\ s.stage = "run" /\ s.decision = "approved"
        /\ s.tool = call[c].tool /\ s.ext = call[c].ext /\ s.hint = call[c].hint
    BY <1>1 DEF CallRec, Tools!Stages, Tools!Decision
  <2>2. Tools!Step(c, s)
    BY <1>2
  <2> HIDE DEF s
  <2>3. CallMay(s)
    BY <1>1, <2>1 DEF CallMay, Tools!PermissionAllows
  <2>4. c \notin pending
    BY <1>1 DEF ToolInv
  <2> QED
    BY <1>1, <1>2, <2>1, <2>2, <2>3, <2>4, CallGoesOn
<1>3. CASE Tools!Step(c, [call[c] EXCEPT !.stage = "asked"]) /\ pending' = pending \cup {c}
  <2> DEFINE s == [call[c] EXCEPT !.stage = "asked"]
  <2>1. /\ s \in CallRec /\ s.stage = "asked"
        /\ s.tool = call[c].tool /\ s.ext = call[c].ext /\ s.hint = call[c].hint
    BY <1>1 DEF CallRec, Tools!Stages
  <2>2. Tools!Step(c, s)
    BY <1>3
  <2> HIDE DEF s
  <2>3. CallMay(s)
    BY <1>1, <2>1 DEF CallMay, Tools!PermissionAllows
  <2> QED
    BY <1>1, <1>3, <2>1, <2>2, <2>3, CallGoesOn
<1> QED
  BY <1>2, <1>3 DEF Tools!RequestApproval

LEMMA ToolDecision == ASSUME ToolInv, NEW c \in Call, Tools!TakeDecision(c) PROVE ToolInv'
<1>1. /\ call[c].stage = "asked" /\ call[c] \in CallRec /\ CallMay(call[c])
      /\ policy.fallback \in {"approved", "denied"}
      /\ UNCHANGED <<registered, external, policy, pending, resolved>>
  BY ToolTyped DEF Tools!TakeDecision, ToolInv
<1>2. PICK d \in {"approved", "denied"} :
        Tools!Step(c, [call[c] EXCEPT !.stage = "answered", !.decision = d])
  BY <1>1 DEF Tools!TakeDecision
<1> DEFINE s == [call[c] EXCEPT !.stage = "answered", !.decision = d]
<1>3. /\ s \in CallRec /\ s.stage = "answered" /\ s.decision = d
      /\ s.tool = call[c].tool /\ s.ext = call[c].ext /\ s.hint = call[c].hint
  BY <1>1 DEF CallRec, Tools!Stages, Tools!Decision
<1> HIDE DEF s
<1>4. Tools!Step(c, s)
  BY <1>2 DEF s
<1>5. CallMay(s)
  BY <1>1, <1>3 DEF CallMay, Tools!PermissionAllows, Tools!Decision
<1> QED
  BY <1>1, <1>3, <1>4, <1>5, CallGoesOn

LEMMA ToolReturn == ASSUME ToolInv, NEW c \in Call, Tools!Return(c) PROVE ToolInv'
<1> DEFINE a == IF call[c].decision = "approved" THEN "run" ELSE "refused"
           s == [call[c] EXCEPT !.stage = a]
<1>1. /\ call[c].stage = "answered" /\ call[c] \in CallRec /\ CallMay(call[c])
      /\ call[c].decision \in Tools!Decision
      /\ UNCHANGED <<registered, external, policy>>
      /\ Tools!Step(c, s) /\ Tools!Resolved(c, call[c].decision, "auto")
  BY ToolTyped DEF Tools!Return, ToolInv, CallMay
<1>2. a \in {"run", "refused"} /\ (a = "run" => call[c].decision = "approved")
  OBVIOUS
<1> HIDE DEF a
<1>3. /\ s \in CallRec /\ s.stage = a /\ s.tool = call[c].tool /\ s.hint = call[c].hint
      /\ s.ext = call[c].ext /\ s.decision = call[c].decision
  BY <1>1, <1>2 DEF CallRec, Tools!Stages
<1> HIDE DEF s
<1>4. CallMay(s)
  BY <1>1, <1>2, <1>3 DEF CallMay, Tools!PermissionAllows
<1>5. CASE c \in pending
  <2> DEFINE e == [id |-> c, decision |-> call[c].decision, by |-> "auto"]
  <2>1. /\ e \in Entry /\ e.id = c /\ pending' = pending \ {c} /\ resolved' = Append(resolved, e)
        /\ e.decision = call[c].decision
    BY <1>1, <1>5 DEF Entry, Tools!Resolved
  <2>2. /\ call' \in [Call -> CallRec] /\ call'[c] = s
        /\ \A d \in Call \ {c} : call'[d] = call[d]
    BY <1>1, <1>3, ToolTyped DEF ToolInv, Tools!Step
  <2> HIDE DEF e
  <2>3. CallMay(call[c])'
    BY <1>1, <1>4, <2>2 DEF CallMay, Tools!PermissionAllows
  <2> QED
    BY <1>1, <1>2, <1>3, <1>5, <2>1, <2>2, <2>3, CallRecorded
<1>6. CASE c \notin pending
  <2>1. UNCHANGED <<pending, resolved>>
    BY <1>1, <1>6 DEF Tools!Resolved
  <2> QED
    BY <1>1, <1>2, <1>3, <1>4, <1>6, <2>1, CallGoesOn
<1> QED
  BY <1>5, <1>6

\* The operator answers, or the sweep does.
LEMMA ToolAnswered ==
    ASSUME ToolInv, NEW c \in Call, Tools!OperatorResolve(c) \/ Tools!PruneExpired(c)
    PROVE  ToolInv'
<1>1. PICK d \in Tools!Decision, by \in {"operator", "system"} :
        Tools!Resolved(c, d, by) /\ c \in pending
  BY DEF Tools!OperatorResolve, Tools!PruneExpired, Tools!Decision
<1> DEFINE e == [id |-> c, decision |-> d, by |-> by]
<1>2. /\ e \in Entry /\ e.id = c /\ e.by # "auto"
      /\ pending' = pending \ {c} /\ resolved' = Append(resolved, e)
  BY <1>1 DEF Entry, Tools!Resolved
<1> HIDE DEF e
<1>3. UNCHANGED <<registered, external, policy, call>>
  BY DEF Tools!OperatorResolve, Tools!PruneExpired
<1>4. /\ call' \in [Call -> CallRec] /\ CallMay(call[c])'
      /\ call'[c].stage \in {"asked", "answered", "run", "refused"}
  BY <1>1, <1>3, ToolTyped DEF ToolInv, CallMay, Tools!PermissionAllows
<1> QED
  BY <1>1, <1>2, <1>3, <1>4, CallRecorded

LEMMA ToolNext == ASSUME ToolInv, [Tools!Next]_toolVars PROVE ToolInv'
<1>1. CASE UNCHANGED <<policy, call, pending, resolved>> /\ registered' \in BOOLEAN
           /\ external' \in BOOLEAN
  BY <1>1 DEF ToolInv, Tools!TypeOK, CallMay, EntryRight, Tools!PermissionAllows
<1>2. Tools!RegisterTool \/ Tools!MarkExternal \/ UNCHANGED toolVars
        => /\ UNCHANGED <<policy, call, pending, resolved>>
           /\ registered' \in BOOLEAN /\ external' \in BOOLEAN
  BY ToolTyped DEF ToolInv, Tools!RegisterTool, Tools!MarkExternal, toolVars
<1> QED
  BY <1>1, <1>2, ToolLookUp, ToolGates, ToolRequest, ToolDecision, ToolReturn, ToolAnswered
     DEF Tools!Next

LEMMA InitTools == ASSUME Tools!Init PROVE ToolInv
<1>1. /\ registered = FALSE /\ external = FALSE /\ pending = {} /\ resolved = <<>>
      /\ call = [c \in Call |-> Tools!NewCall]
      /\ policy \in [ask : {"off", "on-miss", "always"},
                     fallback : {"approved", "denied"},
                     handler : BOOLEAN, mcpDenied : BOOLEAN, outOfScope : BOOLEAN]
  BY DEF Tools!Init
<1>2. Tools!NewCall \in CallRec /\ Tools!NewCall.stage = "idle" /\ Tools!NewCall.ext = FALSE
  BY DEF Tools!NewCall, CallRec, Tools!Stages, Tools!Tool
<1>3. Tools!TypeOK
  <2>1. call \in [Call -> CallRec] /\ pending \subseteq Call
    BY <1>1, <1>2
  <2>2. resolved \in Seq([id : Call, decision : Tools!Decision,
                         by : {"auto", "operator", "system"}])
    BY <1>1
  <2>3. registered \in BOOLEAN /\ external \in BOOLEAN
    BY <1>1
  <2> QED
    BY <1>1, <2>1, <2>2, <2>3 DEF Tools!TypeOK, CallRec
<1>4. \A c \in Call : CallMay(call[c])
  BY <1>1, <1>2 DEF CallMay
<1>5. DOMAIN resolved = {}
  BY <1>1
<1> QED
  BY <1>1, <1>3, <1>4, <1>5 DEF ToolInv

\* No call runs that a gate should have held back, and the record of approvals
\* agrees with what was done (tool_registry.cpp, exec_approval.cpp).
THEOREM ToolsAlwaysGated ==
    Tools!Spec => [](Tools!TypeOK /\ Tools!GatesHold /\ Tools!RecordAgrees)
<1>1. Tools!Init => ToolInv
  BY InitTools
<1>2. ToolInv /\ [Tools!Next]_(Tools!toolVars) => ToolInv'
  BY ToolNext DEF toolVars, Tools!toolVars
<1>3. ToolInv => Tools!GatesHold
  <2> SUFFICES ASSUME ToolInv, NEW c \in Call, call[c].stage = "run"
               PROVE  /\ ~policy.outOfScope
                      /\ \/ call[c].tool = "mcp" /\ ~call[c].ext
                         \/ /\ call[c].tool = "mcp" => ~policy.mcpDenied
                            /\ call[c].hint \/ call[c].tool \in Tools!Declared =>
                                 call[c].tool = "read" \/ call[c].decision = "approved"
    BY DEF Tools!GatesHold, Tools!Ran
  <2>1. CallMay(call[c]) /\ call[c].tool \in Tools!Tool
    BY ToolTyped DEF ToolInv, CallRec
  <2> QED
    BY <2>1 DEF CallMay, Tools!PermissionAllows, Tools!AsksForApproval, Tools!IsMutating,
                Tools!Tool, Tools!Declared
<1>4. ToolInv => Tools!TypeOK /\ Tools!RecordAgrees
  BY ToolTyped DEF ToolInv, EntryRight, Tools!RecordAgrees
<1> QED
  BY <1>1, <1>2, <1>3, <1>4, PTL DEF Tools!Spec

(***************************************************************************)
(* The maintenance of the sessions.                                        *)
(***************************************************************************)

\* A session, then the times at which its transcript was archived
Names == {f \in Seq(Session \cup Nat) : f # <<>> /\ f[1] \in Session}

Contents == UNION {files[f].msgs : f \in DOMAIN files}

\* Files have names, each message one file, and what is in none is excused.
UpkeepInv ==
    /\ Upkeep!TypeOK
    /\ 1..written \subseteq Contents \cup excused
    /\ \A f, g \in DOMAIN files : f # g => files[f].msgs \cap files[g].msgs = {}
    /\ DOMAIN files \subseteq Names \cup {Upkeep!Index} /\ left \subseteq Names
    /\ emptying \in Names \cup {<<>>}
    /\ Upkeep!Index \in DOMAIN files => files[Upkeep!Index].msgs = {}
    /\ Contents \subseteq 1..written /\ excused \subseteq 1..written
    /\ mode = "warn" => phase # "rotating" /\ excused = {}

LEMMA ArchiveName ==
    ASSUME NEW f \in Names, second \in Nat
    PROVE  Upkeep!Archive(f) \in Names /\ Upkeep!Archive(f) # f
<1>1. f \in Seq(Session \cup Nat) /\ second \in Session \cup Nat /\ f # <<>> /\ f[1] \in Session
  BY DEF Names
<1>2. /\ Append(f, second) \in Seq(Session \cup Nat) /\ Len(Append(f, second)) = Len(f) + 1
      /\ Len(f) \in Nat /\ 1 \in 1..Len(f) /\ Append(f, second)[1] = f[1]
  BY <1>1
<1>3. Append(f, second) # f /\ Append(f, second) # <<>>
  BY <1>2
<1> QED
  BY <1>1, <1>2, <1>3 DEF Names, Upkeep!Archive

LEMMA IndexIsNoName ==
    ASSUME Upkeep!MaintenanceAssumption
    PROVE  /\ Upkeep!Index \notin Names /\ <<>> \notin Names /\ Upkeep!Index # <<>>
           /\ \A s \in Session : <<s>> \in Names
<1>1. "index" \notin Session
  BY DEF Upkeep!MaintenanceAssumption
<1>2. Upkeep!Index[1] = "index" /\ Upkeep!Index # <<>>
  BY DEF Upkeep!Index
<1>3. \A s \in Session : <<s>> \in Seq(Session \cup Nat) /\ <<s>> # <<>> /\ <<s>>[1] = s
  OBVIOUS
<1> QED
  BY <1>1, <1>2, <1>3 DEF Names

\* What is held, written or excused are numbers of messages.
LEMMA UpkeepTyped ==
    ASSUME Upkeep!MaintenanceAssumption, UpkeepInv
    PROVE  /\ written \in Nat /\ written <= UpkeepMessages /\ UpkeepMessages \in Nat
           /\ second \in Nat /\ second \in 0..UpkeepTime /\ UpkeepTime \in Nat
           /\ \A f \in DOMAIN files : /\ files[f].msgs \subseteq 1..written
                                      /\ files[f].mtime \in 0..UpkeepTime
           /\ excused \subseteq 1..written
           /\ 1..written \subseteq 1..UpkeepMessages
<1>1. written \in 0..UpkeepMessages /\ second \in 0..UpkeepTime
  BY DEF UpkeepInv, Upkeep!TypeOK
<1>2. UpkeepMessages \in Nat /\ UpkeepTime \in Nat
  BY DEF Upkeep!MaintenanceAssumption
<1>3. \A f \in DOMAIN files : files[f].msgs \subseteq 1..written
  BY DEF UpkeepInv, Contents
<1>4. \A f \in DOMAIN files : files[f].mtime \in 0..UpkeepTime
  BY DEF UpkeepInv, Upkeep!TypeOK
<1> QED
  BY <1>1, <1>2, <1>3, <1>4 DEF UpkeepInv

LEMMA UpkeepStarts == ASSUME Upkeep!MaintenanceAssumption, Upkeep!Init PROVE UpkeepInv
<1>1. /\ mode \in {"warn", "enforce"} /\ second = 0 /\ phase = "rest" /\ left = {}
      /\ emptying = <<>> /\ sweeps = 0 /\ written = 0 /\ excused = {}
      /\ DOMAIN files = {Upkeep!Index} /\ files[Upkeep!Index] = [msgs |-> {}, mtime |-> 0]
  BY DEF Upkeep!Init
<1>2. \A f \in DOMAIN files : files[f].msgs = {} /\ files[f].mtime = 0
  BY <1>1
<1>3. 1..written = {} /\ 0 \in 0..UpkeepTime /\ 0 \in 0..UpkeepMessages /\ 0 \in 0..MaxSweeps
  BY <1>1 DEF Upkeep!MaintenanceAssumption
<1>4. Upkeep!TypeOK
  BY <1>1, <1>2, <1>3 DEF Upkeep!TypeOK, Upkeep!Phases
<1>5. Contents = {}
  BY <1>2 DEF Contents
<1> QED
  BY <1>1, <1>2, <1>3, <1>4, <1>5 DEF UpkeepInv

\* Files may be removed if what they held is excused.
LEMMA RemoveKeeps ==
    ASSUME Upkeep!MaintenanceAssumption, UpkeepInv, NEW F \in SUBSET DOMAIN files,
           \/ Upkeep!Remove(F)
           \/ UNCHANGED <<files, excused>>,
           phase' \in {"entries", "rotate", "rest"}, phase # "rotating",
           UNCHANGED <<mode, second, left, emptying, sweeps, written>>
    PROVE  UpkeepInv'
<1>1. CASE UNCHANGED <<files, excused>>
  BY <1>1 DEF UpkeepInv, Upkeep!TypeOK, Upkeep!Phases, Contents
<1>2. CASE /\ mode # "warn"
           /\ files' = [f \in DOMAIN files \ F |-> files[f]]
           /\ excused' = excused \cup Upkeep!Held(F)
  <2>1. /\ DOMAIN files' = DOMAIN files \ F
        /\ \A f \in DOMAIN files' : f \in DOMAIN files /\ files'[f] = files[f]
    BY <1>2
  <2>2. Upkeep!Held(F) \subseteq Contents
    BY DEF Upkeep!Held, Contents
  <2>3. Contents \subseteq Contents' \cup Upkeep!Held(F) /\ Contents' \subseteq Contents
    BY <2>1 DEF Upkeep!Held, Contents
  <2>5. excused' \subseteq 1..written
    BY <1>2, <2>2 DEF UpkeepInv
  <2>6. Upkeep!TypeOK'
    BY <2>1, <2>5, UpkeepTyped DEF UpkeepInv, Upkeep!TypeOK, Upkeep!Phases
  <2>7. 1..written \subseteq Contents' \cup excused'
    BY <1>2, <2>3 DEF UpkeepInv
  <2>8. \A f, g \in DOMAIN files' : f # g => files'[f].msgs \cap files'[g].msgs = {}
    BY <2>1 DEF UpkeepInv
  <2>9. /\ DOMAIN files' \subseteq Names \cup {Upkeep!Index}
        /\ Upkeep!Index \in DOMAIN files' => files'[Upkeep!Index].msgs = {}
    BY <2>1 DEF UpkeepInv
  <2> QED
    BY <1>2, <2>3, <2>5, <2>6, <2>7, <2>8, <2>9 DEF UpkeepInv
<1> QED
  BY <1>1, <1>2 DEF Upkeep!Remove

LEMMA AppendKeeps ==
    ASSUME Upkeep!MaintenanceAssumption, UpkeepInv, NEW s \in Session, Upkeep!AppendMessage(s)
    PROVE  UpkeepInv'
<1> DEFINE old == IF <<s>> \in DOMAIN files THEN files[<<s>>].msgs ELSE {}
           new == [msgs |-> old \cup {written + 1}, mtime |-> second]
<1>1. PICK saved \in SUBSET {Upkeep!Index} :
        files' = [f \in DOMAIN files \cup {<<s>>} \cup saved |->
                    IF f = <<s>> THEN new
                    ELSE IF f \in saved THEN [msgs |-> {}, mtime |-> second]
                    ELSE files[f]]
  BY Zenon DEF Upkeep!AppendMessage
<1>2. /\ written < UpkeepMessages /\ written' = written + 1
      /\ UNCHANGED <<mode, second, phase, left, emptying, sweeps, excused>>
  BY DEF Upkeep!AppendMessage
<1>3. <<s>> \in Names /\ <<s>> # Upkeep!Index
  BY IndexIsNoName
<1>4. /\ old \subseteq 1..written /\ written \in Nat /\ written' \in 0..UpkeepMessages
      /\ 1..written' = 1..written \cup {written'} /\ written' \notin 1..written
      /\ 1..written' \subseteq 1..UpkeepMessages
  <2>1. written \in Nat /\ written + 1 \in Nat /\ written + 1 <= UpkeepMessages /\ UpkeepMessages \in Nat
    BY <1>2, UpkeepTyped
  <2>2. old \subseteq 1..written
    BY UpkeepTyped
  <2> HIDE DEF old
  <2> QED
    BY <1>2, <2>1, <2>2
<1>5. \A f \in DOMAIN files \ {<<s>>} : files[f].msgs \cap old = {}
  BY DEF UpkeepInv
<1>6. \A f \in DOMAIN files : f # <<s>> => files[f].msgs \subseteq 1..written
  BY UpkeepTyped
<1>7. <<s>> \in DOMAIN files => files[<<s>>].msgs = old
  OBVIOUS
<1>8. \A f \in DOMAIN files' : f # <<s>> =>
        \/ f \in DOMAIN files /\ files'[f] = files[f]
        \/ f = Upkeep!Index /\ files'[f] = [msgs |-> {}, mtime |-> second]
  BY <1>1
<1>9. /\ <<s>> \in DOMAIN files' /\ files'[<<s>>].msgs = old \cup {written'}
      /\ files'[<<s>>].mtime = second
      /\ DOMAIN files \subseteq DOMAIN files'
  BY <1>1, <1>2
<1> HIDE DEF old, new
<1>10. \A f \in DOMAIN files' : /\ files'[f].msgs \subseteq 1..written'
                                /\ files'[f].mtime \in 0..UpkeepTime
  <2> SUFFICES ASSUME NEW f \in DOMAIN files'
               PROVE  files'[f].msgs \subseteq 1..written' /\ files'[f].mtime \in 0..UpkeepTime
    OBVIOUS
  <2>1. CASE f = <<s>>
    BY <1>4, <1>9, <2>1, UpkeepTyped
  <2>2. CASE f # <<s>>
    BY <1>4, <1>8, <2>2, UpkeepTyped
  <2> QED
    BY <2>1, <2>2
<1>11. Upkeep!TypeOK'
  BY <1>2, <1>4, <1>10, UpkeepTyped DEF UpkeepInv, Upkeep!TypeOK
<1>12. \A f, g \in DOMAIN files' : f # g => files'[f].msgs \cap files'[g].msgs = {}
  <2>1. ASSUME NEW f \in DOMAIN files', f # <<s>>
        PROVE  files'[f].msgs \cap files'[<<s>>].msgs = {}
    BY <1>4, <1>5, <1>6, <1>8, <1>9, <2>1
  <2>2. ASSUME NEW f \in DOMAIN files', NEW g \in DOMAIN files', f # g, f # <<s>>, g # <<s>>
        PROVE  files'[f].msgs \cap files'[g].msgs = {}
    BY <1>8, <2>2 DEF UpkeepInv
  <2> QED
    BY <2>1, <2>2
<1>13. 1..written' \subseteq Contents' \cup excused'
  <2>1. Contents \subseteq Contents'
    <3> SUFFICES ASSUME NEW m, NEW f \in DOMAIN files, m \in files[f].msgs PROVE m \in Contents'
      BY DEF Contents
    <3>1. CASE f = <<s>>
      BY <1>7, <1>9, <3>1 DEF Contents
    <3>2. CASE f # <<s>>
      BY <1>8, <1>9, <3>2 DEF Contents, UpkeepInv
    <3> QED
      BY <3>1, <3>2
  <2>2. written' \in Contents'
    BY <1>9 DEF Contents
  <2> QED
    BY <1>2, <1>4, <2>1, <2>2 DEF UpkeepInv
<1>14. Contents' \subseteq 1..written' /\ excused' \subseteq 1..written'
  BY <1>2, <1>4, <1>10 DEF Contents, UpkeepInv
<1>15. /\ DOMAIN files' \subseteq Names \cup {Upkeep!Index}
       /\ Upkeep!Index \in DOMAIN files' => files'[Upkeep!Index].msgs = {}
  BY <1>3, <1>8 DEF UpkeepInv
<1> QED
  BY <1>2, <1>11, <1>12, <1>13, <1>14, <1>15 DEF UpkeepInv

\* The archive takes over what the file held; what another archive held is excused.
LEMMA ArchiveKeeps ==
    ASSUME Upkeep!MaintenanceAssumption, UpkeepInv, NEW f \in left, Upkeep!ArchiveLarge(f)
    PROVE  UpkeepInv'
<1> DEFINE a == Upkeep!Archive(f)
<1>1. /\ phase = "rotating" /\ mode # "warn" /\ f \in DOMAIN files /\ f \in Names
      /\ UNCHANGED <<mode, second, phase, sweeps, written>>
      /\ f # Upkeep!Index /\ f # <<>>
  BY IndexIsNoName DEF Upkeep!ArchiveLarge, UpkeepInv
<1>2. a \in Names /\ a # f /\ a # Upkeep!Index
  BY <1>1, UpkeepTyped, ArchiveName, IndexIsNoName
<1> HIDE DEF a
<1>3. /\ left' \subseteq left \cup {a} /\ left' \subseteq Names /\ Upkeep!Index \notin left'
      /\ emptying' \in {emptying, f}
  <2>1. left' \subseteq left \cup {a} /\ emptying' \in {emptying, f}
    BY DEF Upkeep!ArchiveLarge, a
  <2> QED
    BY <1>2, <2>1, IndexIsNoName DEF UpkeepInv
<1>4. emptying' \in Names \cup {<<>>} /\ (emptying' # <<>> => phase' = "rotating" /\ emptying' # Upkeep!Index)
  BY <1>1, <1>3, IndexIsNoName DEF UpkeepInv
<1>5. mode \in {"warn", "enforce"} /\ second \in 0..UpkeepTime /\ sweeps \in 0..MaxSweeps
      /\ written \in 0..UpkeepMessages /\ phase \in Upkeep!Phases
  BY DEF UpkeepInv, Upkeep!TypeOK
<1>6. CASE UNCHANGED <<files, excused>>
  BY <1>1, <1>3, <1>4, <1>5, <1>6 DEF UpkeepInv, Upkeep!TypeOK, Contents
<1>7. CASE UNCHANGED files /\ excused' = excused \cup files[f].msgs
  <2>1. excused' \subseteq 1..written /\ excused' \subseteq 1..UpkeepMessages
    BY <1>1, <1>7, UpkeepTyped
  <2> QED
    BY <1>1, <1>3, <1>4, <1>5, <1>7, <2>1 DEF UpkeepInv, Upkeep!TypeOK, Contents
<1>8. CASE /\ files' = Upkeep!Archived(f)
           /\ excused' = excused \cup IF a \in DOMAIN files THEN files[a].msgs ELSE {}
  <2>1. /\ DOMAIN files' = (DOMAIN files \ {f}) \cup {a} /\ files'[a] = files[f]
        /\ \A g \in DOMAIN files' : g # a => g \in DOMAIN files /\ g # f /\ files'[g] = files[g]
    BY <1>2, <1>8 DEF Upkeep!Archived, a
  <2>2. /\ excused' \subseteq 1..written /\ excused' \subseteq 1..UpkeepMessages
        /\ excused \subseteq excused'
        /\ a \in DOMAIN files => files[a].msgs \subseteq excused'
    BY <1>8, UpkeepTyped
  <2>3. \A g \in DOMAIN files' : /\ files'[g].msgs \subseteq 1..written
                                 /\ files'[g].msgs \subseteq 1..UpkeepMessages
                                 /\ files'[g].mtime \in 0..UpkeepTime
    BY <1>1, <2>1, UpkeepTyped
  <2>4. \A g, h \in DOMAIN files' : g # h => files'[g].msgs \cap files'[h].msgs = {}
    <3>1. ASSUME NEW g \in DOMAIN files', g # a PROVE files'[g].msgs \cap files'[a].msgs = {}
      BY <1>1, <2>1, <3>1 DEF UpkeepInv
    <3>2. ASSUME NEW g \in DOMAIN files', NEW h \in DOMAIN files', g # h, g # a, h # a
          PROVE  files'[g].msgs \cap files'[h].msgs = {}
      BY <2>1, <3>2 DEF UpkeepInv
    <3> QED
      BY <3>1, <3>2
  <2>5. Contents \subseteq Contents' \cup excused'
    <3> SUFFICES ASSUME NEW m, NEW g \in DOMAIN files, m \in files[g].msgs
                 PROVE  m \in Contents' \cup excused'
      BY DEF Contents
    <3>1. CASE g = f
      <4>1. a \in DOMAIN files' /\ m \in files'[a].msgs
        BY <2>1, <3>1
      <4> QED
        BY <4>1 DEF Contents
    <3>2. CASE g = a
      BY <2>2, <3>2
    <3>3. CASE g # f /\ g # a
      BY <2>1, <3>3 DEF Contents
    <3> QED
      BY <3>1, <3>2, <3>3
  <2>6. 1..written' \subseteq Contents' \cup excused' /\ Contents' \subseteq 1..written'
    <3>1. 1..written' \subseteq Contents' \cup excused'
      BY <1>1, <2>2, <2>5 DEF UpkeepInv
    <3>2. Contents' \subseteq 1..written'
      BY <1>1, <2>3 DEF Contents
    <3> QED
      BY <3>1, <3>2
  <2>7. /\ DOMAIN files' \subseteq Names \cup {Upkeep!Index}
        /\ Upkeep!Index \in DOMAIN files' => files'[Upkeep!Index].msgs = {}
    BY <1>2, <2>1 DEF UpkeepInv
  <2>8. Upkeep!TypeOK'
    <3>1. /\ mode' \in {"warn", "enforce"} /\ second' \in 0..UpkeepTime /\ sweeps' \in 0..MaxSweeps
          /\ written' \in 0..UpkeepMessages /\ phase' \in Upkeep!Phases
      BY <1>1, <1>5
    <3>2. \A g \in DOMAIN files' : /\ files'[g].msgs \subseteq 1..UpkeepMessages
                                   /\ files'[g].mtime \in 0..UpkeepTime
      BY <2>3
    <3> QED
      BY <1>3, <1>4, <2>2, <3>1, <3>2 DEF Upkeep!TypeOK
  <2> QED
    BY <1>1, <1>3, <1>4, <2>2, <2>4, <2>6, <2>7, <2>8 DEF UpkeepInv
<1> QED
  BY <1>6, <1>7, <1>8 DEF Upkeep!ArchiveLarge, a

\* What the file held when it is emptied is excused.
LEMMA EmptyKeeps ==
    ASSUME Upkeep!MaintenanceAssumption, UpkeepInv, Upkeep!EmptyLarge
    PROVE  UpkeepInv'
<1>1. /\ emptying \in Names /\ emptying # Upkeep!Index /\ phase = "rotating" /\ mode # "warn"
      /\ DOMAIN files' = DOMAIN files \cup {emptying}
      /\ files'[emptying] = [msgs |-> {}, mtime |-> second]
      /\ \A g \in DOMAIN files' : g # emptying => g \in DOMAIN files /\ files'[g] = files[g]
      /\ excused' = excused \cup IF emptying \in DOMAIN files THEN files[emptying].msgs ELSE {}
      /\ emptying' = <<>>
      /\ UNCHANGED <<mode, second, phase, left, sweeps, written>>
  BY IndexIsNoName DEF Upkeep!EmptyLarge, UpkeepInv, Upkeep!TypeOK
<1>2. /\ excused' \subseteq 1..written /\ excused' \subseteq 1..UpkeepMessages
      /\ excused \subseteq excused'
      /\ emptying \in DOMAIN files => files[emptying].msgs \subseteq excused'
  BY <1>1, UpkeepTyped
<1>3. \A g \in DOMAIN files' : /\ files'[g].msgs \subseteq 1..written
                               /\ files'[g].msgs \subseteq 1..UpkeepMessages
                               /\ files'[g].mtime \in 0..UpkeepTime
  <2> SUFFICES ASSUME NEW g \in DOMAIN files'
               PROVE  /\ files'[g].msgs \subseteq 1..written
                      /\ files'[g].msgs \subseteq 1..UpkeepMessages
                      /\ files'[g].mtime \in 0..UpkeepTime
    OBVIOUS
  <2>1. CASE g = emptying
    BY <1>1, <2>1, UpkeepTyped
  <2>2. CASE g # emptying
    BY <1>1, <2>2, UpkeepTyped
  <2> QED
    BY <2>1, <2>2
<1>4. \A g, h \in DOMAIN files' : g # h => files'[g].msgs \cap files'[h].msgs = {}
  <2>1. files'[emptying].msgs = {}
    BY <1>1
  <2>2. ASSUME NEW g \in DOMAIN files', NEW h \in DOMAIN files', g # h, g # emptying, h # emptying
        PROVE  files'[g].msgs \cap files'[h].msgs = {}
    BY <1>1, <2>2 DEF UpkeepInv
  <2> QED
    BY <2>1, <2>2
<1>5. Contents \subseteq Contents' \cup excused'
  <2> SUFFICES ASSUME NEW m, NEW g \in DOMAIN files, m \in files[g].msgs
               PROVE  m \in Contents' \cup excused'
    BY DEF Contents
  <2>1. CASE g = emptying
    BY <1>2, <2>1
  <2>2. CASE g # emptying
    BY <1>1, <2>2 DEF Contents
  <2> QED
    BY <2>1, <2>2
<1>6. 1..written' \subseteq Contents' \cup excused' /\ Contents' \subseteq 1..written'
  BY <1>1, <1>2, <1>3, <1>5 DEF UpkeepInv, Contents
<1>7. /\ DOMAIN files' \subseteq Names \cup {Upkeep!Index}
      /\ Upkeep!Index \in DOMAIN files' => files'[Upkeep!Index].msgs = {}
  BY <1>1 DEF UpkeepInv
<1>8. Upkeep!TypeOK'
  BY <1>1, <1>2, <1>3 DEF UpkeepInv, Upkeep!TypeOK
<1> QED
  BY <1>1, <1>2, <1>4, <1>6, <1>7, <1>8 DEF UpkeepInv

LEMMA UpkeepNext ==
    ASSUME Upkeep!MaintenanceAssumption, UpkeepInv, [Upkeep!Next]_(Upkeep!maintVars)
    PROVE  UpkeepInv'
<1>1. ASSUME NEW s \in Session, Upkeep!AppendMessage(s) PROVE UpkeepInv'
  BY <1>1, AppendKeeps
<1>2. CASE Upkeep!Tick
  <2>1. second' \in 0..UpkeepTime
    BY <1>2, UpkeepTyped DEF Upkeep!Tick
  <2> QED
    BY <1>2, <2>1 DEF Upkeep!Tick, UpkeepInv, Upkeep!TypeOK, Contents
<1>3. CASE Upkeep!SweepBegins
  <2>1. sweeps' \in 0..MaxSweeps
    BY <1>3 DEF Upkeep!SweepBegins, Upkeep!MaintenanceAssumption, UpkeepInv, Upkeep!TypeOK
  <2> QED
    BY <1>3, <2>1 DEF Upkeep!SweepBegins, UpkeepInv, Upkeep!TypeOK, Upkeep!Phases, Contents
<1>4. CASE Upkeep!PruneOld
  <2> DEFINE F == {f \in DOMAIN files : files[f].mtime < second - PruneAfter}
  <2>1. F \in SUBSET DOMAIN files
    OBVIOUS
  <2>2. Upkeep!Remove(F) \/ UNCHANGED <<files, excused>>
    BY <1>4 DEF Upkeep!PruneOld
  <2>3. /\ phase' \in {"entries", "rotate", "rest"} /\ phase # "rotating"
        /\ UNCHANGED <<mode, second, left, emptying, sweeps, written>>
    BY <1>4 DEF Upkeep!PruneOld
  <2> HIDE DEF F
  <2> QED
    BY <2>1, <2>2, <2>3, RemoveKeeps
<1>5. CASE Upkeep!EnforceMaxEntries
  <2>1. PICK F \in SUBSET DOMAIN files : Upkeep!Remove(F) \/ UNCHANGED <<files, excused>>
    BY <1>5 DEF Upkeep!EnforceMaxEntries
  <2>2. /\ phase' \in {"entries", "rotate", "rest"} /\ phase # "rotating"
        /\ UNCHANGED <<mode, second, left, emptying, sweeps, written>>
    BY <1>5 DEF Upkeep!EnforceMaxEntries
  <2> QED
    BY <2>1, <2>2, RemoveKeeps
<1>6. CASE Upkeep!RotateBegins
  <2>1. /\ phase' \in {"rotating", "disk"} /\ (phase' = "rotating" => mode = "enforce")
        /\ left' = DOMAIN files \ {Upkeep!Index} \/ left' = left
        /\ phase = "rotate"
        /\ UNCHANGED <<mode, second, files, emptying, sweeps, written, excused>>
    BY <1>6 DEF Upkeep!RotateBegins
  <2>2. left' \subseteq Names /\ Upkeep!Index \notin left'
    BY <2>1 DEF UpkeepInv, Upkeep!TypeOK
  <2> QED
    BY <2>1, <2>2 DEF UpkeepInv, Upkeep!TypeOK, Upkeep!Phases, Contents
<1>7. ASSUME NEW f \in left, Upkeep!ArchiveLarge(f) PROVE UpkeepInv'
  BY <1>7, ArchiveKeeps
<1>8. CASE Upkeep!EmptyLarge
  BY <1>8, EmptyKeeps
<1>9. CASE Upkeep!RotateEnds
  BY <1>9 DEF Upkeep!RotateEnds, UpkeepInv, Upkeep!TypeOK, Upkeep!Phases, Contents
<1>10. CASE Upkeep!EnforceDiskLimit
  <2>1. PICK F \in SUBSET DOMAIN files : Upkeep!Remove(F) \/ UNCHANGED <<files, excused>>
    BY <1>10 DEF Upkeep!EnforceDiskLimit
  <2>2. /\ phase' \in {"entries", "rotate", "rest"} /\ phase # "rotating"
        /\ UNCHANGED <<mode, second, left, emptying, sweeps, written>>
    BY <1>10 DEF Upkeep!EnforceDiskLimit
  <2> QED
    BY <2>1, <2>2, RemoveKeeps
<1>11. CASE UNCHANGED Upkeep!maintVars
  BY <1>11 DEF Upkeep!maintVars, UpkeepInv, Upkeep!TypeOK, Contents
<1> QED
  BY <1>1, <1>2, <1>3, <1>4, <1>5, <1>6, <1>7, <1>8, <1>9, <1>10, <1>11 DEF Upkeep!Next

LEMMA UpkeepInvAlways == ASSUME Upkeep!MaintenanceAssumption PROVE Upkeep!Spec => []UpkeepInv
<1>1. Upkeep!Init => UpkeepInv
  BY UpkeepStarts
<1>2. UpkeepInv /\ [Upkeep!Next]_(Upkeep!maintVars) => UpkeepInv'
  BY UpkeepNext
<1> QED
  BY <1>1, <1>2, PTL DEF Upkeep!Spec

\* A message that no transcript holds was in a file that was removed on purpose, that could
\* not be archived, or that was written over or to in the middle of a rotation; none is
\* held twice, and in warn mode none is lost (session_maintenance.cpp).
THEOREM MessagesAlwaysAccounted ==
    ASSUME Upkeep!MaintenanceAssumption
    PROVE  Upkeep!Spec => [](Upkeep!TypeOK /\ Upkeep!MessagesAccounted)
<1>1. UpkeepInv => Upkeep!TypeOK /\ Upkeep!MessagesAccounted
  BY DEF UpkeepInv, Upkeep!MessagesAccounted, Upkeep!Held, Contents
<1> QED
  BY <1>1, UpkeepInvAlways, PTL
================================================================================
