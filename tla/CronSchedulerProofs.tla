-------------------------- MODULE CronSchedulerProofs --------------------------
(***************************************************************************)
(* Proofs about CronScheduler, for any number of jobs.                     *)
(***************************************************************************)
EXTENDS CronScheduler, Integers, SequenceTheorems, WellFoundedInduction, TLAPS

(***************************************************************************)
(* What AddJob and RemoveJob make of the vector.                           *)
(***************************************************************************)

\* A vector in which jobs lie in the order in which the first n were added.
Orderly(q, n) ==
    /\ \A a, b \in DOMAIN q : a < b => q[a] < q[b]
    /\ Len(q) <= n
    /\ \A a \in DOMAIN q : q[a] \in 1..n

LEMMA Appended ==
    ASSUME NEW n \in Nat, NEW S, n + 1 \in S, NEW q \in Seq(S), Orderly(q, n)
    PROVE  /\ Append(q, n + 1) \in Seq(S)
           /\ Len(Append(q, n + 1)) = Len(q) + 1
           /\ \A a \in DOMAIN q : /\ a \in DOMAIN Append(q, n + 1)
                                  /\ Append(q, n + 1)[a] = q[a]
           /\ ToSet(Append(q, n + 1)) = ToSet(q) \cup {n + 1}
           /\ Orderly(Append(q, n + 1), n + 1)
<1> DEFINE r == Append(q, n + 1)
<1>1. /\ r \in Seq(S) /\ Len(r) = Len(q) + 1 /\ Len(q) \in Nat
      /\ DOMAIN q = 1..Len(q) /\ DOMAIN r = 1..(Len(q) + 1)
      /\ \A a \in 1..Len(q) : r[a] = q[a]
      /\ r[Len(q) + 1] = n + 1
  BY AppendProperties
<1> HIDE DEF r
<1>2. \A a \in DOMAIN q : a \in DOMAIN r /\ r[a] = q[a]
  BY <1>1
<1>3. \A a \in DOMAIN r : a \in DOMAIN q \/ a = Len(q) + 1
  BY <1>1
<1>4. ToSet(r) = ToSet(q) \cup {n + 1}
  BY <1>1, <1>2, <1>3 DEF ToSet
<1>5. Orderly(r, n + 1)
  <2>1. ASSUME NEW a \in DOMAIN r, NEW b \in DOMAIN r, a < b PROVE r[a] < r[b]
    <3>1. CASE b \in DOMAIN q
      <4>1. a \in DOMAIN q
        BY <1>1, <2>1, <3>1
      <4> QED
        BY <1>2, <2>1, <3>1, <4>1 DEF Orderly
    <3>2. CASE b = Len(q) + 1
      <4>1. a \in DOMAIN q
        BY <1>1, <2>1, <3>2
      <4>2. r[a] = q[a] /\ q[a] \in 1..n /\ r[b] = n + 1
        BY <1>1, <1>2, <3>2, <4>1 DEF Orderly
      <4> QED
        BY <4>2
    <3> QED
      BY <1>3, <3>1, <3>2
  <2>2. ASSUME NEW a \in DOMAIN r PROVE r[a] \in 1..(n + 1)
    <3>1. CASE a \in DOMAIN q
      <4>1. r[a] = q[a] /\ q[a] \in 1..n
        BY <1>2, <3>1 DEF Orderly
      <4> QED
        BY <4>1
    <3>2. CASE a = Len(q) + 1
      BY <1>1, <3>2
    <3> QED
      BY <1>3, <3>1, <3>2
  <2>3. Len(r) <= n + 1
    BY <1>1 DEF Orderly
  <2> QED
    BY <2>1, <2>2, <2>3 DEF Orderly
<1> QED
  BY <1>1, <1>2, <1>4, <1>5 DEF r

LEMMA TakenOut ==
    ASSUME NEW S, NEW q \in Seq(S), NEW i \in DOMAIN q
    PROVE  /\ RemoveAt(q, i) \in Seq(S)
           /\ Len(RemoveAt(q, i)) = Len(q) - 1
           /\ \A j \in 1..(Len(q) - 1) :
                 RemoveAt(q, i)[j] = IF j < i THEN q[j] ELSE q[j + 1]
<1> DEFINE r == RemoveAt(q, i)
           a == SubSeq(q, 1, i - 1)
           b == SubSeq(q, i + 1, Len(q))
<1>1. DOMAIN q = 1..Len(q) /\ Len(q) \in Nat /\ i \in 1..Len(q) /\ Len(q) - 1 \in Nat
  OBVIOUS
<1>2. a \in Seq(S) /\ Len(a) = i - 1 /\ \A j \in 1..(i - 1) : a[j] = q[j]
  BY <1>1
<1>3. b \in Seq(S) /\ Len(b) = Len(q) - i
  BY <1>1, SMTT(30)
<1>4. \A j \in 1..(Len(q) - i) : b[j] = q[j + i]
  BY <1>1, SMTT(30)
<1>5. r = a \o b
  BY DEF RemoveAt
<1> HIDE DEF a, b, r
<1>6. /\ a \o b \in Seq(S)
      /\ Len(a \o b) = Len(a) + Len(b)
      /\ \A j \in 1..(Len(a) + Len(b)) :
               (a \o b)[j] = IF j <= Len(a) THEN a[j] ELSE b[j - Len(a)]
  BY <1>2, <1>3, ConcatProperties, Zenon
<1>7. /\ r \in Seq(S)
      /\ Len(r) = Len(q) - 1
      /\ \A j \in 1..(Len(q) - 1) : r[j] = IF j <= i - 1 THEN a[j] ELSE b[j - (i - 1)]
  <2>1. Len(a) + Len(b) = Len(q) - 1
    BY <1>1, <1>2, <1>3
  <2> QED
    BY <1>2, <1>5, <1>6, <2>1, Zenon
<1>8. ASSUME NEW j \in 1..(Len(q) - 1), j < i PROVE r[j] = q[j]
  <2>1. j \in 1..(i - 1) /\ j <= i - 1
    BY <1>1, <1>8
  <2> QED
    BY <1>2, <1>7, <2>1
<1>9. ASSUME NEW j \in 1..(Len(q) - 1), ~(j < i) PROVE r[j] = q[j + 1]
  <2>1. /\ j - (i - 1) \in 1..(Len(q) - i) /\ ~(j <= i - 1)
        /\ (j - (i - 1)) + i = j + 1
    BY <1>1, <1>9
  <2>2. r[j] = b[j - (i - 1)]
    BY <1>7, <2>1
  <2> QED
    BY <1>4, <2>1, <2>2
<1> QED
  BY <1>7, <1>8, <1>9 DEF r

LEMMA Removed ==
    ASSUME NEW n \in Nat, NEW S, NEW q \in Seq(S), Orderly(q, n), NEW i \in DOMAIN q
    PROVE  /\ Orderly(RemoveAt(q, i), n)
           /\ ToSet(RemoveAt(q, i)) = ToSet(q) \ {q[i]}
<1> DEFINE r == RemoveAt(q, i)
<1>1. /\ r \in Seq(S) /\ Len(r) = Len(q) - 1 /\ Len(q) \in Nat
      /\ DOMAIN q = 1..Len(q) /\ DOMAIN r = 1..(Len(q) - 1)
      /\ \A j \in DOMAIN r : r[j] = IF j < i THEN q[j] ELSE q[j + 1]
  <2>1. /\ r \in Seq(S) /\ Len(r) = Len(q) - 1
        /\ \A j \in 1..(Len(q) - 1) : r[j] = IF j < i THEN q[j] ELSE q[j + 1]
    BY TakenOut, Zenon
  <2> HIDE DEF r
  <2>2. Len(q) \in Nat /\ DOMAIN q = 1..Len(q) /\ DOMAIN r = 1..(Len(q) - 1)
    BY <2>1
  <2> QED
    BY <2>1, <2>2, Zenon
<1> HIDE DEF r
<1>2. \A a, b \in DOMAIN q : a < b => q[a] < q[b]
  BY DEF Orderly
<1>3. \A a \in DOMAIN q : q[a] \in 1..n
  BY DEF Orderly
<1>4. ASSUME NEW a \in DOMAIN r, NEW b \in DOMAIN r, a < b PROVE r[a] < r[b]
  <2>1. CASE b < i
    BY <1>1, <1>2, <1>4, <2>1
  <2>2. CASE ~(b < i) /\ a < i
    BY <1>1, <1>2, <1>4, <2>2
  <2>3. CASE ~(a < i)
    <3>1. a + 1 \in DOMAIN q /\ b + 1 \in DOMAIN q /\ a + 1 < b + 1 /\ ~(b < i)
      BY <1>1, <1>4, <2>3
    <3> QED
      BY <1>1, <1>2, <2>3, <3>1
  <2> QED
    BY <1>1, <1>4, <2>1, <2>2, <2>3
<1>5. ASSUME NEW a \in DOMAIN r PROVE r[a] \in 1..n /\ r[a] \in ToSet(q) /\ r[a] # q[i]
  <2>1. CASE a < i
    <3>1. a \in DOMAIN q /\ r[a] = q[a]
      BY <1>1, <2>1
    <3> QED
      BY <1>1, <1>2, <1>3, <2>1, <3>1 DEF ToSet
  <2>2. CASE ~(a < i)
    <3>1. a + 1 \in DOMAIN q /\ r[a] = q[a + 1] /\ i < a + 1
      BY <1>1, <2>2
    <3>2. q[i] < q[a + 1]
      BY <1>1, <1>2, <3>1
    <3> QED
      BY <1>1, <1>3, <3>1, <3>2 DEF ToSet
  <2> QED
    BY <2>1, <2>2
<1>6. ASSUME NEW a \in DOMAIN q, a # i PROVE q[a] \in ToSet(r)
  <2>1. CASE a < i
    <3>1. a \in DOMAIN r /\ r[a] = q[a]
      BY <1>1, <2>1
    <3> QED
      BY <3>1 DEF ToSet
  <2>2. CASE i < a
    <3>1. a - 1 \in DOMAIN r /\ ~(a - 1 < i) /\ (a - 1) + 1 = a
      BY <1>1, <2>2
    <3>2. r[a - 1] = q[a]
      BY <1>1, <3>1
    <3> QED
      BY <3>1, <3>2 DEF ToSet
  <2> QED
    BY <1>1, <1>6, <2>1, <2>2
<1>7. ToSet(r) = ToSet(q) \ {q[i]}
  BY <1>5, <1>6 DEF ToSet
<1>8. Len(r) <= n
  BY <1>1 DEF Orderly
<1> QED
  BY <1>4, <1>5, <1>7, <1>8 DEF Orderly, r

-------------------------------------------------------------------------------
(***************************************************************************)
(* The invariant.                                                          *)
(***************************************************************************)

\* The vector and the file hold jobs in the order of AddJob, each once; a job
\* that a cron.update took out is not in the vector.
VectorInv ==
    /\ Orderly(jobs, added) /\ Orderly(file.jobs, added)
    /\ Len(jobs) + replacing + (IF writer = "replacer" THEN 1 ELSE 0) <= added

\* A process that is gone has no memory.
DownInv ==
    ~up => /\ loop = "off" /\ due = {} /\ touched = {} /\ misled = {} /\ todo = {}
           /\ adding = {} /\ replacing = 0 /\ writer = "none" /\ cut = {}

\* What a restart would read holds every acknowledged job.
FileInv ==
    /\ StoredIsCurrent /\ AcknowledgedSurvives
    /\ ~file.torn => acked \subseteq ToSet(file.jobs)
    /\ ~up /\ file.torn => acked = {}
    /\ writer # "none" => file.torn
    /\ loop = "writing" => writer = "loop"

\* A pointer leads to a due job, or to one that was moved; and so it still does
\* when the handler has returned, or it leads to what the handler ran.
PassInv ==
    /\ MisledOnlyIfTouched
    /\ InPass <=> todo # {}
    /\ touched = {} => todo \subseteq DOMAIN jobs
    /\ \A i \in todo \cap DOMAIN jobs : jobs[i] \in due \cup touched
    /\ loop = "updating" => Target \in touched \cup {NoJob, called}

Inv == TypeOK /\ VectorInv /\ DownInv /\ FileInv /\ PassInv

\* Load keeps order and leaves out nothing but what has no schedule.
LEMMA LoadedIs ==
    ASSUME NEW s \in Seq(Jobs), NEW n \in Nat, Orderly(s, n), NEW q \in Loaded(s)
    PROVE  q \in Seq(Jobs) /\ Orderly(q, n) /\ ToSet(q) = ToSet(s) \ blank
<1>1. PICK m \in 0..Len(s) : q \in [1..m -> Jobs]
  BY DEF Loaded, BoundedSeq, SeqOf
<1>2. q \in Seq(Jobs) /\ Len(q) = m /\ DOMAIN q = 1..m /\ Len(s) <= n /\ Len(s) \in Nat
  BY <1>1 DEF Orderly
<1>3. /\ ToSet(q) = ToSet(s) \ blank
      /\ \A a, b \in DOMAIN q : a < b => q[a] < q[b]
  BY DEF Loaded
<1>4. ASSUME NEW a \in DOMAIN q PROVE q[a] \in 1..n
  <2>1. q[a] \in ToSet(s)
    BY <1>3 DEF ToSet
  <2> QED
    BY <2>1 DEF ToSet, Orderly
<1> QED
  BY <1>2, <1>3, <1>4 DEF Orderly

LEMMA LoadedKept == ASSUME UNCHANGED <<blank, file>>
                    PROVE  Loaded(file.jobs)' = Loaded(file.jobs)
  BY DEF Loaded

\* The pointer that is followed is one of those collected.
LEMMA PointerIsOne ==
    ASSUME todo \subseteq Nat, todo # {}
    PROVE  Pointer \in todo
<1>1. \E x \in todo : \A y \in todo : ~(<<y, x>> \in OpToRel(<, Nat))
  BY WFMin, NatLessThanWellFounded
<1>2. PICK x \in todo : \A y \in todo : ~(<<y, x>> \in OpToRel(<, Nat))
  BY <1>1
<1>3. OpToRel(<, Nat) = {ss \in Nat \X Nat : ss[1] < ss[2]}
  BY DEF OpToRel
<1>4. ASSUME NEW y \in todo PROVE x <= y
  <2>1. <<y, x>> \in Nat \X Nat /\ ~(y < x)
    BY <1>2, <1>3
  <2> QED
    BY <2>1
<1> QED
  BY <1>4 DEF Pointer

\* It stays the same while none is followed.
LEMMA PointerKept == ASSUME UNCHANGED todo PROVE Pointer' = Pointer
  BY DEF Pointer

LEMMA TargetKept == ASSUME UNCHANGED <<todo, moved, jobs>> PROVE Target' = Target
  BY PointerKept DEF Target

LEMMA TargetType ==
    ASSUME TypeOK, todo # {}
    PROVE  /\ Pointer \in todo /\ Target \in Jobs \cup {NoJob}
           /\ Target # NoJob => Pointer \in DOMAIN jobs /\ Target = jobs[Pointer]
<1>1. todo \subseteq 1..MaxJobs /\ todo \subseteq Nat
  BY CronAssumption DEF TypeOK
<1>3. Pointer \in todo /\ Pointer \in 1..MaxJobs
  BY <1>1, PointerIsOne
<1>2. jobs \in Seq(Jobs)
  BY DEF TypeOK
<1> QED
  BY <1>3, <1>2, CronAssumption DEF Target, Jobs, NoJob

-------------------------------------------------------------------------------
(***************************************************************************)
(* The initial states, and the steps of the requests.                      *)
(***************************************************************************)
LEMMA InitInv == Init => Inv
<1> SUFFICES ASSUME Init PROVE Inv
  OBVIOUS
<1>1. TypeOK
  <2>1. <<>> \in Seq(Jobs) /\ Empty \in [torn : BOOLEAN, jobs : Seq(Jobs)]
    BY DEF Empty
  <2>2. 0 \in 0..MaxJobs
    BY CronAssumption
  <2> QED
    BY <2>1, <2>2 DEF Init, TypeOK
<1>2. VectorInv
  BY DEF Init, VectorInv, Orderly, Empty
<1>3. DownInv /\ FileInv
  BY DEF Init, DownInv, FileInv, StoredIsCurrent, AcknowledgedSurvives, Empty, ToSet
<1>4. PassInv
  BY DEF Init, PassInv, InPass, MisledOnlyIfTouched
<1> QED
  BY <1>1, <1>2, <1>3, <1>4 DEF Inv

LEMMA OrderlyGrows ==
    ASSUME NEW S, NEW q \in Seq(S), NEW m \in Nat, Orderly(q, m)
    PROVE  Orderly(q, m + 1)
<1>1. Len(q) \in Nat
  OBVIOUS
<1>2. ASSUME NEW a \in DOMAIN q PROVE q[a] \in 1..(m + 1)
  <2>1. q[a] \in 1..m
    BY DEF Orderly
  <2> QED
    BY <2>1
<1> QED
  BY <1>1, <1>2 DEF Orderly

LEMMA PushInv ==
    ASSUME Inv, Push, blank' \in {blank, blank \cup {added'}},
           UNCHANGED replacing \/ (replacing > 0 /\ replacing' = replacing - 1)
    PROVE  Inv'
<1> DEFINE j == added + 1
<1>1. /\ TypeOK /\ added \in Nat /\ j \in Jobs /\ j \in 1..MaxJobs /\ jobs \in Seq(Jobs)
      /\ Orderly(jobs, added) /\ jobs' = Append(jobs, j) /\ added' = j
  BY CronAssumption DEF Inv, TypeOK, VectorInv, Push, Jobs
<1>2. /\ jobs' \in Seq(Jobs) /\ Len(jobs') = Len(jobs) + 1
      /\ \A a \in DOMAIN jobs : a \in DOMAIN jobs' /\ jobs'[a] = jobs[a]
      /\ ToSet(jobs') = ToSet(jobs) \cup {j}
      /\ Orderly(jobs', added')
  BY <1>1, Appended, Zenon
<1>3. /\ DOMAIN jobs = 1..Len(jobs) /\ DOMAIN jobs' = 1..(Len(jobs) + 1)
      /\ Len(jobs) \in Nat /\ jobs'[Len(jobs) + 1] = j /\ ToSet(jobs') \subseteq Jobs
  BY <1>1, <1>2, AppendProperties DEF ToSet
<1>4. TypeOK'
  <2>1. added' \in 0..MaxJobs /\ replacing' \in 0..MaxJobs
    BY <1>1, CronAssumption DEF TypeOK, Jobs
  <2>2. due' \subseteq ToSet(jobs') /\ adding' \subseteq Jobs /\ touched' \subseteq Jobs
    BY <1>1, <1>2, <1>3 DEF TypeOK, Push
  <2>6. blank' \subseteq Jobs /\ cut' \subseteq ToSet(jobs')
    BY <1>1, <1>2, <1>3 DEF TypeOK, Push
  <2>3. /\ UNCHANGED <<up, running, loop, due, todo, called, writer, file, acked, misled>>
        /\ moved' = TRUE \/ moved' = moved
    BY DEF Push, fileVars
  <2>4. /\ up' \in BOOLEAN /\ running' \in BOOLEAN /\ moved' \in BOOLEAN
    BY <1>1, <2>3, Zenon DEF TypeOK
  <2>5. /\ loop' \in {"sleeping", "calling", "updating", "storing", "writing", "off"}
        /\ todo' \subseteq 1..MaxJobs /\ called' \in Jobs \cup {NoJob}
        /\ writer' \in {"none", "adder", "remover", "replacer", "loop"}
        /\ file' \in [torn : BOOLEAN, jobs : Seq(Jobs)]
        /\ acked' \subseteq Jobs /\ misled' \subseteq Jobs
    BY <1>1, <2>3, Zenon DEF TypeOK
  <2> QED
    BY <1>2, <2>1, <2>2, <2>4, <2>5, <2>6, Zenon DEF TypeOK
<1>5. VectorInv'
  BY <1>1, <1>2, CronAssumption, OrderlyGrows DEF Inv, VectorInv, TypeOK, Push, Unlocked, fileVars
<1>6. DownInv'
  BY DEF Push, DownInv, Unlocked
<1>7. FileInv'
  BY <1>1, <1>2 DEF Inv, TypeOK, FileInv, StoredIsCurrent, AcknowledgedSurvives, Push, Unlocked, fileVars
<1>8. PassInv'
  <2>1. /\ Pointer' = Pointer /\ UNCHANGED <<loop, due, todo, called, misled>>
        /\ loop = "updating" => Pointer \in todo
    BY PointerKept, TargetType, <1>1 DEF Push, Inv, PassInv, InPass
  <2>2. PassInv /\ InPass' = InPass
    BY <2>1 DEF Inv, InPass
  <2>3. CASE moved' /\ touched' = touched \cup ToSet(jobs')
    <3>1. Target' = NoJob
      BY <2>3 DEF Target
    <3>2. \A i \in DOMAIN jobs' : jobs'[i] \in touched'
      BY <2>3 DEF ToSet
    <3> QED
      BY <1>2, <2>1, <2>2, <2>3, <3>1, <3>2 DEF PassInv, MisledOnlyIfTouched
  <2>4. CASE moved' = moved /\ touched' = IF touched = {} THEN {} ELSE touched \cup {j}
    <3>1. \A i \in DOMAIN jobs' \ DOMAIN jobs : i = Len(jobs) + 1 /\ jobs'[i] = j
      BY <1>3
    <3>2. ASSUME NEW i \in todo \cap DOMAIN jobs'
          PROVE  jobs'[i] \in due' \cup touched'
      <4>1. CASE i \in DOMAIN jobs
        BY <1>2, <2>1, <2>2, <2>4, <4>1 DEF PassInv
      <4>2. CASE i \notin DOMAIN jobs
        BY <2>2, <2>4, <3>1, <4>2 DEF PassInv
      <4> QED
        BY <4>1, <4>2
    <3>3. ASSUME loop = "updating"
          PROVE  Target' \in touched' \cup {NoJob, called}
      <4>1. CASE Pointer \in DOMAIN jobs
        <5>1. Target' = Target
          BY <1>2, <1>3, <2>1, <2>4, <4>1 DEF Target
        <5> QED
          BY <2>2, <2>4, <3>3, <5>1 DEF PassInv
      <4>2. CASE Pointer \notin DOMAIN jobs
        <5>1. touched # {}
          BY <2>1, <2>2, <3>3, <4>2 DEF PassInv
        <5>2. j \in touched'
          BY <2>4, <5>1
        <5>3. todo \subseteq 1..MaxJobs /\ Pointer \in todo
          BY <1>1, <2>1, <3>3 DEF TypeOK
        <5>4. Pointer \in Nat \ {0}
          BY <5>3, CronAssumption
        <5>5. CASE Pointer > Len(jobs')
          BY <2>1, <5>5 DEF Target
        <5>6. CASE ~(Pointer > Len(jobs'))
          <6>1. Pointer = Len(jobs) + 1
            BY <1>2, <1>3, <4>2, <5>4, <5>6
          <6>2. Target' \in {NoJob, jobs'[Pointer]}
            BY <2>1, <5>6 DEF Target
          <6> QED
            BY <1>3, <5>2, <6>1, <6>2
        <5> QED
          BY <5>5, <5>6
      <4> QED
        BY <4>1, <4>2
    <3> QED
      BY <1>2, <2>1, <2>2, <2>4, <3>2, <3>3 DEF PassInv, MisledOnlyIfTouched
  <2> QED
    BY <2>3, <2>4 DEF Push
<1> QED
  BY <1>4, <1>5, <1>6, <1>7, <1>8 DEF Inv

LEMMA TakeOutInv ==
    ASSUME Inv, NEW i \in DOMAIN jobs, NEW who \in {"remover", "replacer"}, TakeOut(i, who)
    PROVE  Inv'
<1>1. /\ TypeOK /\ VectorInv /\ jobs \in Seq(Jobs) /\ added \in Nat /\ replacing \in Nat
      /\ i \in 1..Len(jobs) /\ Len(jobs) \in Nat /\ DOMAIN jobs = 1..Len(jobs)
      /\ up /\ writer = "none" /\ jobs' = RemoveAt(jobs, i)
  BY DEF Inv, TypeOK, TakeOut, Erase, Unlocked
<1>2. /\ jobs' \in Seq(Jobs) /\ Len(jobs') = Len(jobs) - 1
      /\ DOMAIN jobs' = 1..(Len(jobs) - 1)
      /\ \A k \in DOMAIN jobs' : jobs'[k] = IF k < i THEN jobs[k] ELSE jobs[k + 1]
  <2>1. /\ jobs' \in Seq(Jobs) /\ Len(jobs') = Len(jobs) - 1
        /\ \A k \in 1..(Len(jobs) - 1) : jobs'[k] = IF k < i THEN jobs[k] ELSE jobs[k + 1]
    BY <1>1, TakenOut, Zenon
  <2>2. DOMAIN jobs' = 1..(Len(jobs) - 1)
    BY <2>1
  <2> QED
    BY <2>1, <2>2, Zenon
<1>3. Orderly(jobs', added) /\ ToSet(jobs') = ToSet(jobs) \ {jobs[i]}
  BY <1>1, Removed, Zenon DEF VectorInv
<1>4. \A k \in DOMAIN jobs : jobs[k] \in Jobs /\ (k < i => jobs[k] # jobs[i])
  <2>1. \A k \in DOMAIN jobs : jobs[k] \in 1..added /\ (k < i => jobs[k] < jobs[i])
    BY <1>1 DEF VectorInv, Orderly
  <2>2. added <= MaxJobs
    BY <1>1, CronAssumption DEF TypeOK
  <2> QED
    BY <1>1, <2>1, <2>2, CronAssumption DEF Jobs
<1>5. TypeOK'
  <2>1. due' \subseteq ToSet(jobs') /\ acked' \subseteq Jobs /\ touched' \subseteq Jobs
    BY <1>1, <1>3, <1>4 DEF TypeOK, TakeOut, Erase
  <2>2. blank' \subseteq Jobs /\ cut' \subseteq ToSet(jobs')
    BY <1>1, <1>3 DEF TypeOK, TakeOut, Erase
  <2>3. file' \in [torn : BOOLEAN, jobs : Seq(Jobs)]
    BY DEF TakeOut, Truncate
  <2> QED
    BY <1>1, <1>2, <2>1, <2>2, <2>3 DEF TypeOK, TakeOut, Truncate
<1>6. VectorInv'
  BY <1>1, <1>2, <1>3, CronAssumption DEF VectorInv, Orderly, TypeOK, TakeOut, Truncate
<1>7. DownInv'
  BY <1>1 DEF DownInv, TakeOut
<1>8. FileInv'
  BY <1>1, <1>3 DEF Inv, TypeOK, FileInv, StoredIsCurrent, AcknowledgedSurvives, TakeOut,
                    Erase, Truncate, Unlocked
<1>9. PassInv'
  <2>1. /\ Pointer' = Pointer /\ UNCHANGED <<loop, todo, called, misled, moved>>
        /\ due' = due \ {jobs[i]} /\ PassInv /\ InPass' = InPass
        /\ touched \subseteq touched'
        /\ todo # {} => InPass
        /\ todo \subseteq Nat
    BY PointerKept, <1>1, CronAssumption DEF TakeOut, Erase, Inv, PassInv, InPass, TypeOK
  <2>0. ASSUME InPass, NEW k \in i..Len(jobs) PROVE jobs[k] \in touched'
    BY <2>0 DEF TakeOut, Erase
  <2>2. ASSUME NEW k \in DOMAIN jobs', InPass
        PROVE  k \in DOMAIN jobs /\ (jobs'[k] \in touched' \/ (k < i /\ jobs'[k] = jobs[k]))
    <3>1. CASE k < i
      BY <1>1, <1>2, <3>1
    <3>2. CASE ~(k < i)
      <4>1. k \in DOMAIN jobs /\ k + 1 \in i..Len(jobs) /\ jobs'[k] = jobs[k + 1]
        BY <1>1, <1>2, <3>2
      <4> QED
        BY <2>0, <2>2, <4>1
    <3> QED
      BY <3>1, <3>2
  <2>3. ASSUME NEW k \in todo \cap DOMAIN jobs' PROVE jobs'[k] \in due' \cup touched'
    <3>1. InPass /\ k \in DOMAIN jobs
      BY <2>1, <2>2
    <3>2. jobs[k] \in due \cup touched
      BY <2>1, <3>1 DEF PassInv
    <3> QED
      BY <1>4, <2>1, <2>2, <3>1, <3>2
  <2>4. ASSUME touched' = {} PROVE todo \subseteq DOMAIN jobs'
    <3>1. CASE InPass
      <4>1. jobs[i] \in touched'
        BY <1>1, <2>0, <3>1
      <4> QED
        BY <2>4, <4>1
    <3>2. CASE ~InPass
      BY <2>1, <3>2
    <3> QED
      BY <3>1, <3>2
  <2>5. ASSUME loop = "updating"
        PROVE  Target' \in touched' \cup {NoJob, called}
    <3>1. InPass /\ todo # {} /\ Target \in touched \cup {NoJob, called}
      BY <2>1, <2>5 DEF InPass, PassInv
    <3>2. Pointer \in Nat \ {0}
      <4>1. todo \subseteq 1..MaxJobs /\ Pointer \in todo
        BY <1>1, <2>1, <3>1, PointerIsOne DEF TypeOK
      <4> QED
        BY <4>1, CronAssumption
    <3>3. CASE moved \/ Pointer > Len(jobs')
      BY <2>1, <3>3 DEF Target
    <3>4. CASE ~moved /\ ~(Pointer > Len(jobs'))
      <4>1. Pointer \in DOMAIN jobs' /\ Target' = jobs'[Pointer]
        BY <1>1, <1>2, <2>1, <3>2, <3>4 DEF Target
      <4>2. Pointer \in DOMAIN jobs /\ Target = jobs[Pointer]
        BY <1>1, <1>2, <3>2, <3>4 DEF Target
      <4> QED
        BY <2>1, <2>2, <3>1, <4>1, <4>2
    <3> QED
      BY <3>3, <3>4
  <2> QED
    BY <2>1, <2>3, <2>4, <2>5 DEF PassInv, MisledOnlyIfTouched
<1> QED
  BY <1>5, <1>6, <1>7, <1>8, <1>9 DEF Inv

\* Somebody opens the file, which truncates it.
LEMMA AddSavesInv == ASSUME Inv, AddSaves PROVE Inv'
<1>0. file' = [torn |-> TRUE, jobs |-> <<>>] /\ writer' = "adder" /\ up' /\ up
  BY DEF AddSaves, Truncate, Unlocked
<1>1. TypeOK'
  BY <1>0 DEF Inv, TypeOK, AddSaves, loopVars, kinds
<1>2. VectorInv' /\ DownInv'
  BY <1>0 DEF Inv, TypeOK, VectorInv, Orderly, DownInv, AddSaves, Unlocked, loopVars
<1>3. FileInv'
  BY <1>0 DEF Inv, FileInv, StoredIsCurrent, AcknowledgedSurvives, AddSaves, Unlocked, loopVars
<1>4. PassInv'
  BY TargetKept DEF Inv, PassInv, InPass, MisledOnlyIfTouched, AddSaves, loopVars
<1> QED
  BY <1>1, <1>2, <1>3, <1>4 DEF Inv

\* Whoever holds the lock writes the file, or finds that he cannot.
LEMMA WriteEnds ==
    ASSUME Inv, up, UNCHANGED <<up, jobs, added, blank>>, writer # "none", loop' # "writing",
           \/ Written /\ acked' \subseteq acked \cup ToSet(jobs)
           \/ Thrown /\ acked' = acked
    PROVE  /\ file' \in [torn : BOOLEAN, jobs : Seq(Jobs)] /\ writer' = "none"
           /\ acked' \subseteq Jobs /\ Orderly(file'.jobs, added') /\ FileInv'
<1>1. /\ file \in [torn : BOOLEAN, jobs : Seq(Jobs)] /\ jobs \in Seq(Jobs) /\ file.torn
      /\ acked \subseteq ToSet(jobs) /\ ToSet(jobs) \subseteq Jobs
      /\ Orderly(jobs, added) /\ Orderly(file.jobs, added)
  BY DEF Inv, TypeOK, FileInv, AcknowledgedSurvives, VectorInv, ToSet
<1>2. CASE Written
  <2>1. file' = [torn |-> FALSE, jobs |-> jobs] /\ writer' = "none"
    BY <1>2 DEF Written
  <2>2. acked' \subseteq ToSet(jobs)
    BY <1>1
  <2> QED
    BY <1>1, <2>1, <2>2 DEF FileInv, StoredIsCurrent, AcknowledgedSurvives, Unlocked
<1>3. CASE Thrown
  <2>1. file' = file /\ writer' = "none"
    BY <1>3 DEF Thrown
  <2>2. acked' \subseteq ToSet(jobs)
    BY <1>1
  <2> QED
    BY <1>1, <2>1, <2>2 DEF FileInv, StoredIsCurrent, AcknowledgedSurvives, Unlocked
<1> QED
  BY <1>2, <1>3

LEMMA AddReturnsInv == ASSUME Inv, AddReturns PROVE Inv'
<1>1. /\ file' \in [torn : BOOLEAN, jobs : Seq(Jobs)] /\ writer' = "none"
      /\ acked' \subseteq Jobs /\ Orderly(file'.jobs, added') /\ FileInv'
  BY WriteEnds DEF Inv, FileInv, AddReturns, loopVars, kinds
<1>2. TypeOK'
  BY <1>1 DEF Inv, TypeOK, AddReturns, loopVars, kinds
<1>3. VectorInv' /\ DownInv'
  BY <1>1 DEF Inv, TypeOK, VectorInv, DownInv, AddReturns, loopVars, kinds
<1>5. PassInv'
  BY TargetKept DEF Inv, PassInv, InPass, MisledOnlyIfTouched, AddReturns, loopVars
<1> QED
  BY <1>1, <1>2, <1>3, <1>5 DEF Inv

LEMMA RemoveReturnsInv == ASSUME Inv, RemoveReturns PROVE Inv'
<1>1. /\ file' \in [torn : BOOLEAN, jobs : Seq(Jobs)] /\ writer' = "none"
      /\ acked' \subseteq Jobs /\ Orderly(file'.jobs, added') /\ FileInv'
  BY WriteEnds DEF Inv, FileInv, RemoveReturns, loopVars, kinds
<1>0. (writer = "replacer" /\ replacing' = replacing + 1) \/ replacing' = replacing
  BY DEF RemoveReturns
<1>2. VectorInv' /\ replacing' \in 0..MaxJobs
  BY <1>0, <1>1, CronAssumption DEF Inv, TypeOK, VectorInv, RemoveReturns, loopVars
<1>3. TypeOK'
  BY <1>1, <1>2 DEF Inv, TypeOK, RemoveReturns, loopVars, kinds
<1>4. DownInv'
  BY DEF Inv, DownInv, RemoveReturns
<1>6. PassInv'
  BY TargetKept DEF Inv, PassInv, InPass, MisledOnlyIfTouched, RemoveReturns, loopVars
<1> QED
  BY <1>1, <1>2, <1>3, <1>4, <1>6 DEF Inv

LEMMA UpdateThrowsInv == ASSUME Inv, UpdateThrows PROVE Inv'
<1>1. TypeOK'
  BY CronAssumption DEF Inv, TypeOK, UpdateThrows, loopVars, fileVars, kinds
<1>2. VectorInv'
  BY CronAssumption DEF Inv, TypeOK, VectorInv, UpdateThrows, loopVars, fileVars
<1>3. DownInv' /\ FileInv'
  BY LoadedKept DEF Inv, DownInv, FileInv, StoredIsCurrent, AcknowledgedSurvives, Unlocked,
                    UpdateThrows, loopVars, fileVars, kinds
<1>4. PassInv'
  BY TargetKept DEF Inv, PassInv, InPass, MisledOnlyIfTouched, UpdateThrows, loopVars
<1> QED
  BY <1>1, <1>2, <1>3, <1>4 DEF Inv
-------------------------------------------------------------------------------
(***************************************************************************)
(* The steps of the thread.                                                *)
(***************************************************************************)
LEMMA FallsDueInv == ASSUME Inv, NEW j \in Jobs, FallsDue(j) PROVE Inv'
<1>1. TypeOK'
  BY DEF Inv, TypeOK, FallsDue, fileVars, kinds
<1>2. VectorInv' /\ DownInv' /\ FileInv'
  BY LoadedKept DEF Inv, VectorInv, DownInv, FileInv, StoredIsCurrent, AcknowledgedSurvives, Unlocked,
         FallsDue, fileVars, kinds
<1>3. PassInv'
  BY TargetKept DEF Inv, PassInv, InPass, MisledOnlyIfTouched, FallsDue
<1> QED
  BY <1>1, <1>2, <1>3 DEF Inv

LEMMA CollectInv == ASSUME Inv, Collect PROVE Inv'
<1>1. \A i \in Positions : i \in DOMAIN jobs /\ jobs[i] \in due
  BY DEF Positions
<1>2. Positions # {} /\ Positions \subseteq 1..MaxJobs
  <2>1. PICK j \in due : j \in ToSet(jobs)
    BY DEF Collect, Inv, TypeOK
  <2>2. \E i \in DOMAIN jobs : jobs[i] = j
    BY <2>1 DEF ToSet
  <2>3. DOMAIN jobs = 1..Len(jobs) /\ Len(jobs) \in Nat /\ Len(jobs) <= MaxJobs
    BY CronAssumption DEF Inv, TypeOK, VectorInv, Orderly
  <2> QED
    BY <2>1, <2>2, <2>3, CronAssumption DEF Positions
<1>3. TypeOK'
  BY <1>2 DEF Inv, TypeOK, Collect, fileVars, kinds
<1>4. VectorInv' /\ DownInv' /\ FileInv'
  BY LoadedKept DEF Inv, VectorInv, DownInv, FileInv, StoredIsCurrent, AcknowledgedSurvives, Unlocked,
         Collect, fileVars, kinds
<1>5. PassInv'
  BY <1>1, <1>2 DEF Inv, PassInv, InPass, MisledOnlyIfTouched, Collect
<1> QED
  BY <1>3, <1>4, <1>5 DEF Inv

LEMMA CallInv == ASSUME Inv, Call PROVE Inv'
<1>1. todo # {} /\ Target' = Target /\ TypeOK /\ PassInv
  BY TargetKept DEF Inv, PassInv, InPass, Call
<1>2. /\ Pointer \in todo /\ Target \in Jobs \cup {NoJob}
      /\ Target # NoJob => Pointer \in DOMAIN jobs /\ Target = jobs[Pointer]
  BY <1>1, TargetType
<1>3. /\ called' \in Jobs /\ Target \in {NoJob, called'}
      /\ called' \in due \cup touched
  BY <1>1, <1>2 DEF PassInv, TypeOK, Call
<1>4. TypeOK'
  BY <1>3 DEF Inv, TypeOK, Call, fileVars, kinds
<1>5. VectorInv' /\ DownInv' /\ FileInv'
  BY LoadedKept DEF Inv, VectorInv, DownInv, FileInv, StoredIsCurrent, AcknowledgedSurvives, Unlocked,
         Call, fileVars, kinds
<1>6. PassInv'
  BY <1>1, <1>3 DEF PassInv, InPass, MisledOnlyIfTouched, Call
<1> QED
  BY <1>4, <1>5, <1>6 DEF Inv

LEMMA AdvanceInv == ASSUME Inv, Advance PROVE Inv'
<1>1. todo # {} /\ TypeOK /\ PassInv /\ VectorInv
  BY DEF Inv, PassInv, InPass, Advance
<1>2. /\ Pointer \in todo /\ Target \in Jobs \cup {NoJob}
      /\ Target # NoJob => Pointer \in DOMAIN jobs /\ Target = jobs[Pointer]
  BY <1>1, TargetType
<1>3. due' = due \ {Target} /\ todo' = todo \ {Pointer} /\ UNCHANGED <<jobs, touched, up>>
  BY DEF Advance, FollowNext
<1>4. misled' \subseteq touched
  <2>1. NoJob \notin due
    BY <1>1, CronAssumption DEF TypeOK, Jobs, NoJob, ToSet
  <2>2. Target \in touched \cup {NoJob, called}
    BY <1>1 DEF PassInv, Advance
  <2> QED
    BY <1>1, <2>1, <2>2 DEF PassInv, MisledOnlyIfTouched, Advance
<1>5. \A i \in todo' \cap DOMAIN jobs : jobs[i] # Target
  <2>1. /\ \A a, b \in DOMAIN jobs : a < b => jobs[a] < jobs[b]
        /\ \A a \in DOMAIN jobs : jobs[a] \in 1..added
        /\ DOMAIN jobs \subseteq Nat
    BY <1>1 DEF VectorInv, Orderly, TypeOK
  <2>2. ASSUME NEW i \in todo' \cap DOMAIN jobs PROVE jobs[i] # Target
    <3>1. i # Pointer /\ jobs[i] \in 1..added /\ added \in Nat
      BY <1>1, <1>3, <2>1 DEF TypeOK
    <3>2. CASE Target = NoJob
      BY <3>1, <3>2 DEF NoJob
    <3>3. CASE Target # NoJob
      <4>1. Pointer \in DOMAIN jobs /\ Target = jobs[Pointer] /\ jobs[Pointer] \in Nat
        BY <1>2, <2>1, <3>3
      <4>2. i < Pointer \/ Pointer < i
        BY <2>1, <3>1, <4>1
      <4> QED
        BY <2>1, <3>1, <4>1, <4>2
    <3> QED
      BY <3>2, <3>3
  <2> QED
    BY <2>2, <1>3
<1>6. TypeOK'
  BY <1>1, <1>3, <1>4 DEF TypeOK, Advance, FollowNext, fileVars, kinds
<1>7. VectorInv' /\ DownInv' /\ FileInv'
  BY LoadedKept DEF Inv, VectorInv, DownInv, FileInv, StoredIsCurrent, AcknowledgedSurvives, Unlocked,
         Advance, FollowNext, fileVars, kinds
<1>8. PassInv'
  BY <1>1, <1>3, <1>4, <1>5 DEF PassInv, InPass, MisledOnlyIfTouched, Advance, FollowNext
<1> QED
  BY <1>6, <1>7, <1>8 DEF Inv

LEMMA PassSavesInv == ASSUME Inv, PassSaves PROVE Inv'
<1>0. file' = [torn |-> TRUE, jobs |-> <<>>] /\ writer' = "loop" /\ up' /\ up
  BY DEF PassSaves, Truncate, Unlocked
<1>1. TypeOK'
  <2>1. /\ moved' = FALSE /\ touched' = {} /\ misled' = {} /\ loop' = "writing"
        /\ UNCHANGED <<up, running, due, todo, called, jobs, added, blank, cut, adding,
                       replacing, acked>>
    BY DEF PassSaves, kinds
  <2>2. file' \in [torn : BOOLEAN, jobs : Seq(Jobs)]
    BY <1>0
  <2>3. /\ moved' \in BOOLEAN /\ touched' \subseteq Jobs /\ misled' \subseteq Jobs
        /\ loop' \in {"sleeping", "calling", "updating", "storing", "writing", "off"}
        /\ writer' \in {"none", "adder", "remover", "replacer", "loop"}
    BY <1>0, <2>1
  <2> QED
    BY <2>1, <2>2, <2>3, Zenon DEF Inv, TypeOK
<1>2. VectorInv' /\ DownInv'
  BY <1>0 DEF Inv, TypeOK, VectorInv, Orderly, DownInv, PassSaves, Unlocked
<1>3. FileInv'
  BY <1>0 DEF Inv, FileInv, StoredIsCurrent, AcknowledgedSurvives, PassSaves, Unlocked
<1>4. PassInv'
  BY DEF Inv, PassInv, InPass, MisledOnlyIfTouched, PassSaves
<1> QED
  BY <1>1, <1>2, <1>3, <1>4 DEF Inv

LEMMA PassEndsInv == ASSUME Inv, PassEnds PROVE Inv'
<1>1. /\ file' \in [torn : BOOLEAN, jobs : Seq(Jobs)] /\ writer' = "none"
      /\ acked' \subseteq Jobs /\ Orderly(file'.jobs, added') /\ FileInv'
  BY WriteEnds DEF Inv, FileInv, PassEnds, kinds
<1>2. TypeOK'
  BY <1>1 DEF Inv, TypeOK, PassEnds, kinds
<1>3. VectorInv' /\ DownInv'
  BY <1>1 DEF Inv, TypeOK, VectorInv, DownInv, PassEnds
<1>5. PassInv'
  BY DEF Inv, PassInv, InPass, MisledOnlyIfTouched, PassEnds
<1> QED
  BY <1>1, <1>2, <1>3, <1>5 DEF Inv

LEMMA StopInv == ASSUME Inv, Stop PROVE Inv'
<1>1. TypeOK'
  BY DEF Inv, TypeOK, Stop, loopVars, fileVars, kinds
<1>2. VectorInv' /\ DownInv' /\ FileInv'
  BY LoadedKept DEF Inv, VectorInv, DownInv, FileInv, StoredIsCurrent, AcknowledgedSurvives, Unlocked,
         Stop, loopVars, fileVars, kinds
<1>3. PassInv'
  BY TargetKept DEF Inv, PassInv, InPass, MisledOnlyIfTouched, Stop, loopVars
<1> QED
  BY <1>1, <1>2, <1>3 DEF Inv

LEMMA LoopExitsInv == ASSUME Inv, LoopExits PROVE Inv'
<1>1. TypeOK'
  BY DEF Inv, TypeOK, LoopExits, fileVars, kinds
<1>2. VectorInv' /\ DownInv' /\ FileInv'
  BY LoadedKept DEF Inv, VectorInv, DownInv, FileInv, StoredIsCurrent, AcknowledgedSurvives, Unlocked,
         LoopExits, fileVars, kinds
<1>3. PassInv'
  BY DEF Inv, PassInv, InPass, MisledOnlyIfTouched, LoopExits
<1> QED
  BY <1>1, <1>2, <1>3 DEF Inv

\* The end of the process, by Crash, AdvanceThrows or PassThrows.
LEMMA DiesInv == ASSUME Inv, up, Dies PROVE Inv'
<1>1. jobs' = <<>> /\ <<>> \in Seq(Jobs) /\ 0 \in 0..MaxJobs
  BY CronAssumption DEF Dies
<1>2. TypeOK'
  BY <1>1 DEF Inv, TypeOK, Dies
<1>3. VectorInv'
  BY <1>1, CronAssumption DEF Inv, TypeOK, VectorInv, Orderly, Dies
<1>4. DownInv'
  BY DEF DownInv, Dies
<1>5. FileInv'
  BY DEF Inv, TypeOK, FileInv, StoredIsCurrent, AcknowledgedSurvives, Unlocked, Dies
<1>6. PassInv'
  BY DEF PassInv, InPass, MisledOnlyIfTouched, Dies
<1> QED
  BY <1>2, <1>3, <1>4, <1>5, <1>6 DEF Inv

LEMMA LoadInv == ASSUME Inv, Load PROVE Inv'
<1>0. /\ file \in [torn : BOOLEAN, jobs : Seq(Jobs)] /\ Orderly(file.jobs, added)
      /\ added \in Nat
  BY DEF Inv, TypeOK, VectorInv
<1>1. /\ jobs' \in Seq(Jobs) /\ Orderly(jobs', added)
      /\ acked \ blank \subseteq ToSet(jobs')
  <2>1. CASE file.torn
    <3>1. jobs' = <<>> /\ acked = {}
      BY <2>1 DEF Load, Inv, FileInv
    <3> QED
      BY <1>0, <3>1 DEF Orderly
  <2>2. CASE ~file.torn
    <3>1. jobs' \in Loaded(file.jobs) /\ acked \subseteq ToSet(file.jobs)
      BY <2>2 DEF Load, Inv, FileInv
    <3> QED
      BY <1>0, <3>1, LoadedIs
  <2> QED
    BY <2>1, <2>2
<1>2. /\ due = {} /\ touched = {} /\ misled = {} /\ todo = {} /\ writer = "none"
      /\ replacing = 0 /\ cut = {}
  BY DEF Inv, DownInv, Load
<1>3. TypeOK'
  BY <1>1, <1>2 DEF Inv, TypeOK, Load, fileVars, kinds
<1>4. VectorInv'
  BY <1>1, <1>2, CronAssumption DEF Inv, TypeOK, VectorInv, Orderly, Load, fileVars
<1>5. DownInv'
  BY DEF DownInv, Load
<1>6. FileInv'
  <2>1. ~file.torn => jobs' \in Loaded(file.jobs)'
    BY LoadedKept DEF Load, fileVars, kinds
  <2> QED
    BY <1>1, <1>2, <2>1 DEF Inv, FileInv, StoredIsCurrent, AcknowledgedSurvives, Load, fileVars
<1>7. PassInv'
  BY <1>2 DEF PassInv, InPass, MisledOnlyIfTouched, Load
<1> QED
  BY <1>3, <1>4, <1>5, <1>6, <1>7 DEF Inv
-------------------------------------------------------------------------------
(***************************************************************************)
(* The theorems.                                                           *)
(***************************************************************************)

LEMMA InvNext == Inv /\ [Next]_vars => Inv'
<1> SUFFICES ASSUME Inv, [Next]_vars PROVE Inv'
  OBVIOUS
<1>1. CASE Requests
  <2>1. CASE AddJob
    <3>1. UNCHANGED replacing /\ Push /\ blank' \in {blank, blank \cup {added'}}
      BY <2>1 DEF AddJob
    <3> QED
      BY <3>1, PushInv
  <2>2. CASE AddSaves
    BY <2>2, AddSavesInv
  <2>3. CASE AddReturns
    BY <2>3, AddReturnsInv
  <2>4. ASSUME NEW i \in DOMAIN jobs, RemoveJob(i) \/ UpdateRemoves(i) PROVE Inv'
    BY <2>4, TakeOutInv DEF RemoveJob, UpdateRemoves
  <2>5. CASE RemoveReturns
    BY <2>5, RemoveReturnsInv
  <2>6. CASE UpdateAdds
    BY <2>6, PushInv DEF UpdateAdds
  <2>7. CASE UpdateThrows
    BY <2>7, UpdateThrowsInv
  <2> QED
    BY <1>1, <2>1, <2>2, <2>3, <2>4, <2>5, <2>6, <2>7 DEF Requests
<1>2. CASE SchedulerLoop
  <2>1. CASE AdvanceThrows \/ PassThrows
    BY <2>1, DiesInv DEF AdvanceThrows, PassThrows
  <2> QED
    BY <1>2, <2>1, CollectInv, CallInv, AdvanceInv, PassSavesInv, PassEndsInv,
       LoopExitsInv DEF SchedulerLoop
<1>3. ASSUME NEW j \in Jobs, FallsDue(j) PROVE Inv'
  BY <1>3, FallsDueInv
<1>4. CASE Stop
  BY <1>4, StopInv
<1>5. CASE Crash
  BY <1>5, DiesInv DEF Crash
<1>6. CASE Load
  BY <1>6, LoadInv
<1>7. CASE UNCHANGED vars
  <2>1. TypeOK' /\ VectorInv'
    BY <1>7 DEF Inv, TypeOK, VectorInv, vars, loopVars, fileVars, kinds
  <2>2. DownInv' /\ FileInv'
    BY <1>7, LoadedKept DEF Inv, DownInv, FileInv, StoredIsCurrent, AcknowledgedSurvives,
                            Unlocked, vars, loopVars, fileVars, kinds
  <2>3. PassInv'
    BY <1>7, TargetKept DEF Inv, PassInv, InPass, MisledOnlyIfTouched, vars, loopVars
  <2> QED
    BY <2>1, <2>2, <2>3 DEF Inv
<1> QED
  BY <1>1, <1>2, <1>3, <1>4, <1>5, <1>6, <1>7 DEF Next

\* The invariant holds in every reachable state of cron_scheduler.cpp's model.
THEOREM Invariance == Spec => []Inv
<1> QED
  BY InitInv, InvNext, PTL DEF Spec

\* Every variable keeps its type; in particular no job is due that is not in
\* the vector, however jobs are added and removed in the middle of a pass.
THEOREM TypeCorrect == Spec => []TypeOK
<1>1. Inv => TypeOK
  BY DEF Inv
<1> QED
  BY <1>1, Invariance, PTL

\* The file (CronScheduler::Save, Load) says what the vector says whenever
\* nobody is between the two, or holds also what Load skipped; and a job whose
\* AddJob has returned survives every end of the process but those that find
\* the file cut short, if it has a schedule.
THEOREM FileAlwaysReliable == Spec => []FileIsReliable
<1>1. Inv => FileIsReliable
  BY DEF Inv, FileInv, FileIsReliable
<1> QED
  BY <1>1, Invariance, PTL

\* A pass (scheduler_loop) runs a job that is not due, or passes over a due one,
\* only if a removal or a reallocation has moved that job during the pass.
THEOREM MisledAlwaysTouched == Spec => []MisledOnlyIfTouched
<1>1. Inv => MisledOnlyIfTouched
  BY DEF Inv, PassInv
<1> QED
  BY <1>1, Invariance, PTL
================================================================================
