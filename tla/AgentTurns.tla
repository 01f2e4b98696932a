------------------------------- MODULE AgentTurns -------------------------------
(***************************************************************************)
(* The turns of the one AgentLoop of a gateway (core/agent_loop.cpp).      *)
(*                                                                         *)
(* Commands of different sessions call ProcessMessage and                  *)
(* ProcessMessageStream from different worker threads on the same object,  *)
(* so its members are shared by every running turn: stop_requested_,       *)
(* agent_config_.model and max_iterations_, which a reload changes under   *)
(* the turns that run.  A model reference is "qualified" (provider/model, *)
(* the provider being the configured one) or "bare" (the provider has been *)
(* stripped from it, so that it resolves to the default provider).         *)
(*                                                                         *)
(* The gateway never installs a failover resolver (gateway_commands.cpp    *)
(* sets the provider registry only): the branches under it are not taken.  *)
(***************************************************************************)
EXTENDS Integers, FiniteSets

CONSTANTS Turn,            \* calls of ProcessMessage(Stream), each made once
          MaxIterations,   \* the largest limit a configuration sets
          MaxOverflow,     \* kOverflowCompactionMaxRetries
          MaxTransient,    \* kTransientErrorMaxRetries
          MaxSettings      \* bound: changes of the model by models.set or a reload

AgentTurnsAssumption ==
    /\ MaxIterations \in Nat \ {0}
    /\ {MaxOverflow, MaxTransient, MaxSettings} \subseteq Nat

VARIABLES stopRequested,   \* stop_requested_
          modelRef,        \* agent_config_.model
          maxIterations,   \* max_iterations_
          settings,        \* how often the model or the configuration was set from outside
          turn,            \* the local state of each turn
          asked            \* history: what became of the last Stop for the turn

turnVars == <<stopRequested, modelRef, maxIterations, settings, turn, asked>>

Stages    == {"idle", "resolve", "loop", "call", "answered", "exit", "done"}
Providers == {"none", "configured", "local"}
Results   == {"none", "completed", "stopped", "error"}
ErrorKind == {"overflow", "retryable", "fatal"}

\* cap is history: the largest limit in force while the turn runs.  ends counts the
\* kMessageEnd events sent to the client, but for those of calls that failed after
\* their last chunk; closed: the last chunk of this call has come; muted: it was
\* dropped because of a stop, or never came; hollow: an answer carried neither text
\* nor tools.
NewTurn == [stage |-> "idle", stream |-> FALSE, provider |-> "none",
            iterations |-> 0, overflow |-> 0, transient |-> 0, calls |-> 0,
            text |-> FALSE, tools |-> FALSE, closed |-> FALSE, cap |-> 0,
            ends |-> 0, muted |-> FALSE, hollow |-> FALSE, result |-> "none"]

\* What is left of a turn that has returned: its locals are gone.
Ended(s, result, ends) ==
    [NewTurn EXCEPT !.stage = "done", !.stream = s.stream, !.result = result,
                    !.ends = s.ends + ends, !.muted = s.muted, !.hollow = s.hollow]

\* What an answer held is local to one round of the loop.
Forgotten(s) == [s EXCEPT !.text = FALSE, !.tools = FALSE, !.closed = FALSE, !.muted = FALSE]

TypeOK ==
    /\ stopRequested \in BOOLEAN
    /\ modelRef \in {"qualified", "bare"}
    /\ maxIterations \in 1..MaxIterations
    /\ settings \in 0..MaxSettings
    /\ turn \in [Turn ->
         [stage : Stages, stream : BOOLEAN, provider : Providers,
          iterations : 0..MaxIterations, overflow : 0..MaxOverflow,
          transient : 0..MaxTransient, calls : Nat, text : BOOLEAN,
          tools : BOOLEAN, closed : BOOLEAN, cap : 0..MaxIterations,
          ends : Nat, muted : BOOLEAN, hollow : BOOLEAN, result : Results]]
    /\ asked \in [Turn -> {"no", "yes", "overtaken"}]

\* gateway_commands.cpp strips the provider from the configured model before it
\* makes the AgentLoop.
Init ==
    /\ stopRequested = FALSE
    /\ modelRef = "bare"
    /\ maxIterations \in 1..MaxIterations
    /\ settings = 0
    /\ turn = [t \in Turn |-> NewTurn]
    /\ asked = [t \in Turn |-> "no"]

Running(t) == turn[t].stage \notin {"idle", "done"}

-----------------------------------------------------------------------------
(* Stop, SetModel and SetConfig, called from other threads                  *)

\* Stop (agent.stop, chat.abort and the web API), while some turn runs
Stop ==
    /\ \E t \in Turn : Running(t)
    /\ stopRequested' = TRUE
    /\ asked' = [t \in Turn |-> IF Running(t) THEN "yes" ELSE asked[t]]
    /\ UNCHANGED <<modelRef, maxIterations, settings, turn>>

\* SetModel (models.set): a reference as configured
SetModel ==
    /\ settings < MaxSettings
    /\ settings' = settings + 1
    /\ modelRef' = "qualified"
    /\ UNCHANGED <<stopRequested, maxIterations, turn, asked>>

\* SetConfig (a reload): the limit changes with the reference, for every turn
SetConfig ==
    /\ settings < MaxSettings
    /\ settings' = settings + 1
    /\ modelRef' = "qualified"
    /\ \E limit \in 1..MaxIterations :
         /\ maxIterations' = limit
         /\ turn' = [t \in Turn |-> IF Running(t) /\ limit > turn[t].cap
                                     THEN [turn[t] EXCEPT !.cap = limit] ELSE turn[t]]
    /\ UNCHANGED <<stopRequested, asked>>

-----------------------------------------------------------------------------
(* A turn                                                                   *)

\* ProcessMessage / ProcessMessageStream up to the lookup of the provider: the
\* flag is reset, whoever it was raised for, and the reference is read.
Begin(t) ==
    /\ turn[t].stage = "idle"
    /\ stopRequested' = FALSE
    /\ asked' = [u \in Turn |->
                   IF u # t /\ asked[u] = "yes" THEN "overtaken" ELSE asked[u]]
    /\ \E stream \in BOOLEAN :
         turn' = [turn EXCEPT ![t] =
                    [@ EXCEPT !.stage = "resolve", !.stream = stream, !.cap = maxIterations,
                              !.provider = IF modelRef = "qualified"
                                           THEN "configured" ELSE "local"]]
    /\ UNCHANGED <<modelRef, maxIterations, settings>>

\* resolve_provider: the stripped name replaces the reference.  Which provider the
\* calls of the turn go to makes no difference from here on.
Resolve(t) ==
    /\ turn[t].stage = "resolve"
    /\ modelRef' = "bare"
    /\ turn' = [turn EXCEPT ![t] = [@ EXCEPT !.stage = "loop", !.provider = "none"]]
    /\ UNCHANGED <<stopRequested, maxIterations, settings, asked>>

\* Fault: a call that is repeated does not look at the flag
StartCallAnyway(t) ==
    /\ turn[t].stage = "loop"
    /\ turn[t].iterations < maxIterations
    /\ turn' = [turn EXCEPT ![t] =
                  [@ EXCEPT !.stage = "call", !.calls = turn[t].calls + 1]]
    /\ UNCHANGED <<stopRequested, modelRef, maxIterations, settings, asked>>

\* The head of the loop: either the next call of the provider ...
StartCall(t) ==
    /\ turn[t].stage = "loop"
    /\ turn[t].iterations < maxIterations
    /\ ~stopRequested
    /\ turn' = [turn EXCEPT ![t] =
                  [@ EXCEPT !.stage = "call", !.calls = turn[t].calls + 1]]
    /\ UNCHANGED <<stopRequested, modelRef, maxIterations, settings, asked>>

\* ... or out of it
LeaveLoop(t) ==
    /\ turn[t].stage = "loop"
    /\ turn[t].iterations >= maxIterations \/ stopRequested
    /\ turn' = [turn EXCEPT ![t].stage = "exit"]
    /\ UNCHANGED <<stopRequested, modelRef, maxIterations, settings, asked>>

\* ChatCompletion returns
Answer(t) ==
    /\ turn[t].stage = "call"
    /\ ~turn[t].stream
    /\ \E text, tools \in BOOLEAN :
         turn' = [turn EXCEPT ![t] = [@ EXCEPT !.stage = "answered",
                                               !.text = text, !.tools = tools]]
    /\ UNCHANGED <<stopRequested, modelRef, maxIterations, settings, asked>>

\* The stream callback: a chunk with text, with tool calls, or the last one, all of
\* them before the call returns.  While a stop is requested chunks are dropped, the
\* last one too.
Chunk(t) ==
    /\ turn[t].stage = "call"
    /\ turn[t].stream /\ ~turn[t].closed
    /\ \E kind \in {"text", "tools", "end"} :
         LET s == turn[t] IN
         turn' = [turn EXCEPT ![t] =
           [s EXCEPT
              !.closed = kind = "end",
              !.muted = kind = "end" /\ stopRequested,
              !.text  = s.text \/ (kind = "text" /\ ~stopRequested),
              !.tools = s.tools \/ (kind = "tools" /\ ~stopRequested),
              !.ends  = IF kind = "end" /\ ~stopRequested /\ ~s.tools
                        THEN s.ends + 1 ELSE s.ends]]
    /\ UNCHANGED <<stopRequested, modelRef, maxIterations, settings, asked>>

\* ChatCompletionStream returns: the connection is closed, after the last chunk or
\* without it, which is no error
StreamCloses(t) ==
    /\ turn[t].stage = "call"
    /\ turn[t].stream
    /\ turn' = [turn EXCEPT ![t] = [@ EXCEPT !.stage = "answered",
                                            !.muted = turn[t].muted \/ ~turn[t].closed]]
    /\ UNCHANGED <<stopRequested, modelRef, maxIterations, settings, asked>>

\* Tool calls: all of them are executed, and an iteration is used up
RunTools(t) ==
    /\ turn[t].stage = "answered"
    /\ turn[t].tools
    /\ turn' = [turn EXCEPT ![t] =
                  [Forgotten(@) EXCEPT !.stage = "loop",
                                       !.iterations = turn[t].iterations + 1]]
    /\ UNCHANGED <<stopRequested, modelRef, maxIterations, settings, asked>>

\* An answer without tool calls ends the turn.  An empty one breaks the loop of
\* ProcessMessage; ProcessMessageStream sends an end event of its own for it.
FinalAnswer(t) ==
    /\ turn[t].stage = "answered"
    /\ ~turn[t].tools
    /\ LET empty == ~turn[t].text IN
       turn' = [turn EXCEPT ![t] =
         IF empty /\ ~turn[t].stream
         THEN [@ EXCEPT !.stage = "exit", !.hollow = TRUE]
         ELSE Ended([@ EXCEPT !.hollow = empty], "completed",
                    IF empty THEN 1 ELSE 0)]
    /\ UNCHANGED <<stopRequested, modelRef, maxIterations, settings, asked>>

\* Fault: a compacted request gets a new budget for transient errors
RetryReplenished(s, kind) ==
    CASE kind = "overflow" /\ s.overflow < MaxOverflow ->
           [Forgotten(s) EXCEPT !.stage = "loop", !.overflow = @ + 1, !.transient = 0]
      [] kind = "retryable" /\ s.transient < MaxTransient ->
           [Forgotten(s) EXCEPT !.stage = "loop", !.transient = @ + 1]
      [] OTHER ->
           Ended(s, "error", IF s.stream THEN 1 ELSE 0)

\* handle_provider_error: what may be repeated, and within which budget
Retry(s, kind) ==
    CASE kind = "overflow" /\ s.overflow < MaxOverflow ->
           [Forgotten(s) EXCEPT !.stage = "loop", !.overflow = @ + 1]
      [] kind = "retryable" /\ s.transient < MaxTransient ->
           [Forgotten(s) EXCEPT !.stage = "loop", !.transient = @ + 1]
      [] OTHER ->
           Ended(s, "error", IF s.stream THEN 1 ELSE 0)

\* The end event of this call has been sent.
EndSent(s) == s.closed /\ ~s.muted /\ ~s.tools

\* A call that fails takes its end event out of the count: another follows.
Uncounted(s) == [s EXCEPT !.ends = @ - IF EndSent(s) THEN 1 ELSE 0]

\* The call of the provider throws, perhaps after its last chunk has been delivered
CallFails(t) ==
    /\ turn[t].stage = "call"
    /\ \E kind \in ErrorKind :
         turn' = [turn EXCEPT ![t] = Retry(Uncounted(turn[t]), kind)]
    /\ UNCHANGED <<stopRequested, modelRef, maxIterations, settings, asked>>

\* After the loop the flag is read again to tell a stop from exhaustion
Exit(t) ==
    /\ turn[t].stage = "exit"
    /\ turn' = [turn EXCEPT ![t] =
                  Ended(@, IF stopRequested THEN "stopped" ELSE "error",
                        IF turn[t].stream THEN 1 ELSE 0)]
    /\ UNCHANGED <<stopRequested, modelRef, maxIterations, settings, asked>>

Next ==
    \/ Stop
    \/ SetModel
    \/ SetConfig
    \/ \E t \in Turn :
         \/ Begin(t) \/ Resolve(t) \/ StartCall(t) \/ LeaveLoop(t)
         \/ Answer(t) \/ Chunk(t) \/ StreamCloses(t) \/ RunTools(t) \/ FinalAnswer(t)
         \/ CallFails(t) \/ Exit(t)

Spec == Init /\ [][Next]_turnVars

-----------------------------------------------------------------------------
(* Properties                                                               *)

\* The three budgets of a turn are spent independently and none is ever
\* replenished: a turn calls its provider at most so many times, whatever the
\* order in which answers, overflows and transient errors come.  A reload may raise
\* or lower the limit of a turn that runs; the largest that was in force counts.
CallsBounded ==
    \A t \in Turn : turn[t].calls <= turn[t].cap + MaxOverflow + MaxTransient

\* A Stop that found a turn running keeps it from calling the provider again,
\* unless a turn of another session began in between and reset the flag.
StopPreventsCalls ==
    [][\A t \in Turn : turn'[t].calls > turn[t].calls => asked[t] # "yes"]_turnVars

\* The client of a streaming turn is sent exactly one end event, beside one for
\* each call that failed after its last chunk, with two exceptions: none when the
\* last chunk of an answer that already had text was dropped because of a stop or
\* never came, two when the answer was empty.
EndEvents ==
    \A t \in Turn : turn[t].stage = "done" /\ turn[t].stream =>
        \/ turn[t].ends = 1
        \/ turn[t].ends = 0 /\ turn[t].muted /\ turn[t].result = "completed"
        \/ turn[t].ends = 2 /\ turn[t].hollow

\* A turn reported as stopped was asked to stop while it ran.
StoppedWasAsked ==
    \A t \in Turn : turn[t].result = "stopped" => asked[t] # "no"

\* A turn resolves the provider the configured model names, for all its calls.
CallsConfiguredProvider ==
    \A t \in Turn : turn[t].stage = "resolve" => turn[t].provider = "configured"
=============================================================================
