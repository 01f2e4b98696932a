-------------------------------- MODULE Failover --------------------------------
(***************************************************************************)
(* The failover between models and keys (providers/failover_resolver.cppm, *)
(* cooldown_tracker.cppm): sessions ask for a provider, call it and report *)
(* how the call ended, from threads of their own.  The primary model's     *)
(* provider has a list of profiles, one key each; the model of the         *)
(* fallback chain has a provider without profiles.                         *)
(*                                                                         *)
(* mu_ is held while a model is resolved; the tracker has a lock of its    *)
(* own, taken for each question to it, so that reports come in between.    *)
(* Times are seconds.                                                      *)
(***************************************************************************)
EXTENDS Naturals, FiniteSets, Sequences

CONSTANTS User,            \* sessions, which have one call at a time
          Profiles,        \* the primary provider's profiles, as listed
          Priority,        \* of each, the lower the better
          ProbeInterval, FailureWindowDecay,
          Tick,            \* how time passes
          MaxTime, MaxCalls  \* bounds

FailoverAssumption ==
    /\ Len(Profiles) \in Nat \ {0} /\ Priority \in [1..Len(Profiles) -> Nat]
    /\ {ProbeInterval, FailureWindowDecay, Tick, MaxTime, MaxCalls} \subseteq Nat

VARIABLES now, cooldown,   \* states_
          lastUsed, pin,   \* profile_last_used_, session_pins_
          mutex,           \* who holds mu_
          use,             \* where each session is
          calls,           \* bound
          probed           \* history: the last probe of each key, and the one before

failoverVars == <<now, cooldown, lastUsed, pin, mutex, use, calls, probed>>

Fallback == "fallback"
Index    == 1..Len(Profiles)
Keys     == {Profiles[i] : i \in Index} \cup {Fallback}
Kinds    == {"rateLimit", "timeout", "modelNotFound"}

NoState  == [failures |-> 0, until |-> 0, failedAt |-> 0, probedAt |-> 0]
NoUse    == [stage |-> "idle", key |-> "none", probe |-> FALSE,
             free |-> {}, cooled |-> {}, late |-> FALSE]

TypeOK ==
    /\ now \in 0..MaxTime
    /\ cooldown \in [Keys -> [failures : Nat, until : Nat, failedAt : Nat, probedAt : Nat]]
    /\ lastUsed \in [Keys -> 0..MaxTime]
    /\ pin \in [User -> Keys \cup {"none"}]
    /\ mutex \in User \cup {"none"}
    /\ use \in [User ->
         [stage : {"idle", "classify", "choose", "probe", "chain", "chainProbe",
                   "calling", "succeeded"},
          key : Keys \cup {"none"}, probe : BOOLEAN, free : SUBSET Index,
          cooled : SUBSET Index, late : BOOLEAN]]
    /\ calls \in 0..MaxCalls
    /\ probed \in [Keys -> [last : 0..MaxTime, before : 0..MaxTime, times : Nat]]

Init ==
    /\ now = 0
    /\ cooldown = [k \in Keys |-> NoState]
    /\ lastUsed = [k \in Keys |-> 0]
    /\ pin = [s \in User |-> "none"]
    /\ mutex = "none"
    /\ use = [s \in User |-> NoUse]
    /\ calls = 0
    /\ probed = [k \in Keys |-> [last |-> 0, before |-> 0, times |-> 0]]

-----------------------------------------------------------------------------
(* CooldownTracker                                                          *)

\* A key without an entry has no failures: its cooldown is over.
IsInCooldown(k) == now < cooldown[k].until

Power(n) == LET f[i \in 0..n] == IF i = 0 THEN 1 ELSE 5 * f[i - 1] IN f[n]
Least(a, b) == IF a < b THEN a ELSE b

\* Five times longer with each failure, up to the fifth, within a limit
ComputeCooldown(kind, failures) ==
    CASE kind = "rateLimit"     -> Least(60 * Power(Least(failures, 5) - 1), 3600)
      [] kind = "timeout"       -> Least(30 * Power(Least(failures, 5) - 1), 300)
      [] kind = "modelNotFound" -> 0

Failed(state, kind, retryAfter) ==
    LET old == state.failures > 0 /\ now - state.failedAt > FailureWindowDecay
        n   == IF old THEN 1 ELSE state.failures + 1
    IN  [failures |-> n, failedAt |-> now, probedAt |-> now,
         until |-> now + (IF retryAfter > 0 THEN retryAfter ELSE ComputeCooldown(kind, n))]

MayProbe(k) == IsInCooldown(k) /\ now - cooldown[k].probedAt >= ProbeInterval

\* Fault: nobody notes that the key was probed
ProbesUnnoted(k) ==
    /\ probed' = [probed EXCEPT ![k] = [last |-> now, before |-> @.last, times |-> @.times + 1]]
    /\ UNCHANGED cooldown

\* TryProbe
Probes(k) ==
    /\ cooldown' = [cooldown EXCEPT ![k].probedAt = now]
    /\ probed' = [probed EXCEPT ![k] = [last |-> now, before |-> @.last, times |-> @.times + 1]]

-----------------------------------------------------------------------------
(* Resolve                                                                  *)

Calls(s, k, probe) ==
    /\ use' = [use EXCEPT ![s] = [NoUse EXCEPT !.stage = "calling", !.key = k, !.probe = probe,
                                               !.late = use[s].late]]
    /\ mutex' = "none"

Goes(s, stage) == use' = [use EXCEPT ![s].stage = stage]

\* The session's pin, if it is to this provider and not cooled down; the pin is
\* erased otherwise.
TryPin(s) ==
    /\ use[s].stage = "idle" /\ calls < MaxCalls
    /\ mutex = "none"
    /\ calls' = calls + 1
    /\ IF pin[s] \notin {"none", Fallback} /\ ~IsInCooldown(pin[s])
       THEN Calls(s, pin[s], FALSE) /\ UNCHANGED pin
       ELSE /\ Goes(s, "classify") /\ mutex' = s
            /\ pin' = [pin EXCEPT ![s] = IF @ = Fallback THEN @ ELSE "none"]
    /\ UNCHANGED <<now, cooldown, lastUsed, probed>>

\* One profile after the other: does it cool down?
Classify(s) ==
    /\ use[s].stage = "classify"
    /\ LET i == Cardinality(use[s].free \cup use[s].cooled) + 1
           u == use[s]
       IN
       use' = [use EXCEPT ![s] =
         [u EXCEPT !.stage  = IF i = Len(Profiles) THEN "choose" ELSE u.stage,
                   !.free   = IF IsInCooldown(Profiles[i]) THEN u.free ELSE u.free \cup {i},
                   !.cooled = IF IsInCooldown(Profiles[i]) THEN u.cooled \cup {i} ELSE u.cooled]]
    /\ UNCHANGED <<now, cooldown, lastUsed, pin, mutex, calls, probed>>

\* By priority, then the one that was used longest ago, then as listed
Better(i, j) ==
    \/ Priority[i] < Priority[j]
    \/ /\ Priority[i] = Priority[j]
       /\ \/ lastUsed[Profiles[i]] < lastUsed[Profiles[j]]
          \/ lastUsed[Profiles[i]] = lastUsed[Profiles[j]] /\ i <= j

\* The best one; if all cool down, the first of the list may be probed.
Choose(s) ==
    /\ use[s].stage = "choose"
    /\ IF use[s].free = {} THEN Goes(s, "probe") /\ UNCHANGED <<lastUsed, mutex>>
       ELSE \E i \in use[s].free :
              /\ \A j \in use[s].free : Better(i, j)
              /\ lastUsed' = [lastUsed EXCEPT ![Profiles[i]] = now]
              /\ Calls(s, Profiles[i], FALSE)
    /\ UNCHANGED <<now, cooldown, pin, calls, probed>>

ProbeFirst(s) ==
    /\ use[s].stage = "probe"
    /\ IF MayProbe(Profiles[1])
       THEN Probes(Profiles[1]) /\ Calls(s, Profiles[1], TRUE)
       ELSE /\ Goes(s, "chain") /\ mutex' = "none"
            /\ UNCHANGED <<cooldown, probed>>
    /\ UNCHANGED <<now, lastUsed, pin, calls>>

\* The next model of the chain, under the lock again: a pin to its provider,
\* which has no profiles, is erased.
TryChain(s) ==
    /\ use[s].stage = "chain" /\ mutex = "none"
    /\ pin' = [pin EXCEPT ![s] = IF @ = Fallback THEN "none" ELSE @]
    /\ IF IsInCooldown(Fallback)
       THEN Goes(s, "chainProbe") /\ mutex' = s
       ELSE Calls(s, Fallback, FALSE)
    /\ UNCHANGED <<now, cooldown, lastUsed, calls, probed>>

\* Everything cools down: Resolve gives up.
ProbeChain(s) ==
    /\ use[s].stage = "chainProbe"
    /\ IF MayProbe(Fallback)
       THEN Probes(Fallback) /\ Calls(s, Fallback, TRUE)
       ELSE /\ use' = [use EXCEPT ![s] = NoUse] /\ mutex' = "none"
            /\ UNCHANGED <<cooldown, probed>>
    /\ UNCHANGED <<now, lastUsed, pin, calls>>

-----------------------------------------------------------------------------
(* Reports, and time                                                        *)

\* RecordSuccess: the tracker forgets the key ...
CallSucceeds(s) ==
    /\ use[s].stage = "calling"
    /\ cooldown' = [cooldown EXCEPT ![use[s].key] = NoState]
    /\ Goes(s, "succeeded")
    /\ UNCHANGED <<now, lastUsed, pin, mutex, calls, probed>>

\* ... and the session is pinned to it.
Pin(s) ==
    /\ use[s].stage = "succeeded" /\ mutex = "none"
    /\ lastUsed' = [lastUsed EXCEPT ![use[s].key] = now]
    /\ pin' = [pin EXCEPT ![s] = use[s].key]
    /\ use' = [use EXCEPT ![s] = NoUse]
    /\ UNCHANGED <<now, cooldown, mutex, calls, probed>>

\* RecordFailure, also for those who have found the key free just now
CallFails(s) ==
    /\ use[s].stage = "calling"
    /\ \E kind \in Kinds, retryAfter \in {0, Tick} :
         /\ retryAfter > 0 => kind = "rateLimit"
         /\ cooldown' = [cooldown EXCEPT ![use[s].key] = Failed(@, kind, retryAfter)]
    /\ use' = [u \in User |->
                 IF u = s THEN NoUse
                 ELSE IF \E i \in use[u].free : Profiles[i] = use[s].key
                      THEN [use[u] EXCEPT !.late = TRUE] ELSE use[u]]
    /\ UNCHANGED <<now, lastUsed, pin, mutex, calls, probed>>

\* ClearSessionPin
ClearSessionPin(s) ==
    /\ mutex = "none" /\ pin[s] # "none"
    /\ pin' = [pin EXCEPT ![s] = "none"]
    /\ UNCHANGED <<now, cooldown, lastUsed, mutex, use, calls, probed>>

TimePasses ==
    /\ now + Tick <= MaxTime
    /\ now' = now + Tick
    /\ UNCHANGED <<cooldown, lastUsed, pin, mutex, use, calls, probed>>

Next ==
    \/ \E s \in User :
         \/ TryPin(s) \/ Classify(s) \/ Choose(s) \/ ProbeFirst(s)
         \/ TryChain(s) \/ ProbeChain(s)
         \/ CallSucceeds(s) \/ Pin(s) \/ CallFails(s) \/ ClearSessionPin(s)
    \/ TimePasses

Spec == Init /\ [][Next]_failoverVars

-----------------------------------------------------------------------------
(* Properties                                                               *)

\* Probes of one key are ProbeInterval apart, whoever makes them and whatever
\* is reported in between.
ProbesAreSparse ==
    \A k \in Keys : probed[k].times > 1 => probed[k].last - probed[k].before >= ProbeInterval

\* A session is not given a key that cools down, except to probe it, or when a
\* failure was reported after the key had been looked at.
CooldownIsKept ==
    [][\A s \in User :
         (use'[s].stage = "calling" /\ use[s].stage # "calling") =>
            \/ ~IsInCooldown(use'[s].key)
            \/ use'[s].probe \/ use[s].late]_failoverVars
=================================================================================
