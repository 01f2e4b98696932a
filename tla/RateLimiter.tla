------------------------------ MODULE RateLimiter -------------------------------
(***************************************************************************)
(* The sliding-window limiter of the gateway (security/rate_limiter.cpp):  *)
(* per connection the times of the requests admitted in the last window,   *)
(* at most MaxRequests of them, at most BurstMax of them in one second.    *)
(* Time is counted in ticks, TicksPerSecond to the second, so that what    *)
(* RetryAfter loses by rounding to seconds can be seen.                    *)
(***************************************************************************)
EXTENDS Integers, Sequences, FiniteSets

CONSTANTS Client, MaxRequests, BurstMax, Window, TicksPerSecond,
          MaxTime          \* bound: the last tick

\* window_seconds counts whole seconds.
RateLimiterAssumption ==
    /\ {MaxRequests, Window, TicksPerSecond} \subseteq Nat \ {0}
    /\ {BurstMax, MaxTime} \subseteq Nat
    /\ Window >= TicksPerSecond

VARIABLES clock,
          windows,         \* windows_: deques of admission times
          admitted,        \* history: when each client was admitted
          asking,          \* clients that were refused and have to be told until when
          advice           \* history: what the last one of them was told

limiterVars == <<clock, windows, admitted, asking, advice>>

Seconds(n) == n * TicksPerSecond
NoAdvice == [client |-> "none", at |-> 0, retry |-> 0]

TypeOK ==
    /\ clock \in 0..MaxTime
    /\ windows \in [Client -> Seq(0..MaxTime)]
    /\ admitted \in [Client -> Seq(0..MaxTime)]
    /\ asking \subseteq Client
    /\ advice.client \in Client \cup {"none"}
    /\ advice.at \in 0..MaxTime /\ advice.retry \in Nat

Init ==
    /\ clock = 0
    /\ windows = [c \in Client |-> <<>>]
    /\ admitted = [c \in Client |-> <<>>]
    /\ asking = {}
    /\ advice = NoAdvice

\* Where the first entry is that is not older, in a deque in the order of admission
FirstFrom(times, cutoff) ==
    CHOOSE k \in 1..(Len(times) + 1) :
      /\ k <= Len(times) => times[k] >= cutoff
      /\ \A i \in 1..(k - 1) : times[i] < cutoff

\* Fault: a request exactly one window old is forgotten
PurgedEarly(times, now) == SubSeq(times, FirstFrom(times, now - Window + 1), Len(times))

\* purge_old: what is older than the window is dropped from the front.
Purged(times, now) == SubSeq(times, FirstFrom(times, now - Window), Len(times))

InLastSecond(times, now) == {i \in DOMAIN times : times[i] >= now - Seconds(1)}

WindowFull(times) == Len(times) >= MaxRequests
BurstFull(times, now) ==
    BurstMax > 0 /\ Cardinality(InLastSecond(times, now)) >= BurstMax

\* RetryAfter, in seconds
RetryAfter(times, now) ==
    LET kept == Purged(times, now) IN
    IF ~WindowFull(kept) \/ Head(kept) + Window <= now
    THEN 0
    ELSE (Head(kept) + Window - now) \div TicksPerSecond + 1

\* What a client was told is over when it is admitted or reset.
Forget(c) == advice' = IF advice.client = c THEN NoAdvice ELSE advice

\* Allow.  The requests of a connection come one after the other.
Admit(c) ==
    LET kept == Purged(windows[c], clock) IN
    /\ c \notin asking
    /\ ~WindowFull(kept)
    /\ ~BurstFull(kept, clock)
    /\ windows' = [windows EXCEPT ![c] = Append(kept, clock)]
    /\ admitted' = [admitted EXCEPT ![c] = Append(@, clock)]
    /\ Forget(c)
    /\ UNCHANGED <<clock, asking>>

Refuse(c) ==
    LET kept == Purged(windows[c], clock) IN
    /\ c \notin asking
    /\ WindowFull(kept) \/ BurstFull(kept, clock)
    /\ windows' = [windows EXCEPT ![c] = kept]
    /\ asking' = asking \cup {c}
    /\ UNCHANGED <<clock, admitted, advice>>

\* The server calls RetryAfter in a critical section of its own.
Advise(c) ==
    /\ c \in asking
    /\ asking' = asking \ {c}
    /\ windows' = [windows EXCEPT ![c] = Purged(@, clock)]
    /\ advice' = [client |-> c, at |-> clock, retry |-> RetryAfter(windows[c], clock)]
    /\ UNCHANGED <<clock, admitted>>

\* Prune
Prune ==
    /\ windows' = [c \in Client |-> Purged(windows[c], clock)]
    /\ UNCHANGED <<clock, admitted, asking, advice>>

\* Reset(key): the client starts anew
Reset(c) ==
    /\ windows' = [windows EXCEPT ![c] = <<>>]
    /\ admitted' = [admitted EXCEPT ![c] = <<>>]
    /\ Forget(c)
    /\ UNCHANGED <<clock, asking>>

Tick ==
    /\ clock < MaxTime
    /\ clock' = clock + 1
    /\ UNCHANGED <<windows, admitted, asking, advice>>

Next ==
    \/ \E c \in Client : Admit(c) \/ Refuse(c) \/ Advise(c) \/ Reset(c)
    \/ Prune
    \/ Tick

Spec == Init /\ [][Next]_limiterVars

-----------------------------------------------------------------------------
(* Properties                                                               *)

CountIn(times, first, last) ==
    Cardinality({i \in DOMAIN times : first <= times[i] /\ times[i] <= last})

\* Over the whole history, and not only in what the deque still holds, no
\* stretch of one window holds more than MaxRequests admissions of a client,
\* and no second more than BurstMax.
RateIsBounded ==
    \A c \in Client, t \in 0..MaxTime :
      /\ CountIn(admitted[c], t - Window, t) <= MaxRequests
      /\ BurstMax > 0 =>
           CountIn(admitted[c], t - Seconds(1), t) <= BurstMax

\* A client that was told to come back after so many seconds, and is not
\* admitted in between, finds room in the window when it does.  One that was
\* told 0 was refused for its burst only, or there is room since it was refused, or
\* its oldest request is exactly one window old in the very tick it is told.
AdviceIsSound ==
    LET c == advice.client
        back == advice.at + Seconds(advice.retry)
    IN  c # "none" =>
          IF advice.retry > 0
          THEN CountIn(admitted[c], back - Window, advice.at) < MaxRequests
          ELSE CountIn(admitted[c], advice.at - Window + 1, advice.at) < MaxRequests
=============================================================================
