------------------------------- MODULE Services --------------------------------
(***************************************************************************)
(* Parts of the gateway that share no state with each other, side by side: *)
(* those of GatewayParts and of AgentParts, and the ones below.  Each      *)
(* behaviour is one of the part that `part` names, and leaves the others   *)
(* as they started.                                                        *)
(***************************************************************************)
EXTENDS GatewayParts, AgentParts

\* Of each part, in the order in which they come below.
CONSTANTS HistoryLimit, CompactMaxMessages, CompactKeepRecent, ProtectRecent,
          HardPruneAfter, ContextWindow, MaxChunkTokens, Parts, Compactions, MaxTurns,
          MaxExchanges,
          MaxBlocks, MaxPieces, Cuts,
          Order, Causes, MaxReloads

VARIABLES part,
          conversation, request, news, begun, exchanges, overflows,
          provider, answer, refusal, unsent, buffer, parser, said, ended,
          process, load, tools, services, records, loader, running, live, query,
          closing, unsettled

Context == INSTANCE ContextEngine
             WITH MaxOverflow <- Compactions, transcript <- conversation, turns <- begun
Stream == INSTANCE ProviderStream WITH outcome <- ended
\* All plugins and a request for each call, or one plugin and a request for each thread.
Plugins == INSTANCE PluginRuntime
             WITH Request <- Call, phase <- process, request <- query, disturbed <- unsettled
Plugin == INSTANCE PluginRuntime
             WITH Order <- SubSeq(Order, 1, 1), Request <- Thread, phase <- process,
                  request <- query, disturbed <- unsettled

ASSUME ServicesAssumption ==
       Context!ContextAssumption /\ Plugins!RuntimeAssumption /\ Plugin!RuntimeAssumption

streamVars == <<provider, answer, refusal, unsent, buffer, parser, said, ended>>
pluginVars == <<process, load, tools, services, records, loader, running, live, query,
                closing, unsettled>>
contextVars == <<conversation, request, news, begun, exchanges, overflows>>

vars == <<part, servingVars, turnVars, limiterVars, subVars, toolVars, maintVars, logVars,
          configVars, reloadVars, keyVars, askVars, contextVars, chatVars, streamVars,
          pluginVars>>

Init ==
    /\ part \in {"serving", "turns", "rates", "subagents", "tools", "upkeep", "log",
                 "config", "reload", "keys", "asks", "context", "chat", "stream",
                 "plugins", "plugin"}
    /\ Serving!Init /\ Rates!Init /\ Subs!Init
    /\ Log!Init /\ Config!Init /\ Reload!Init
    /\ Keys!Init /\ Asks!Init /\ Context!Init /\ Chat!Init
    /\ IF part = "plugin" THEN Plugin!Init ELSE Plugins!Init
    \* Where there is a choice, the others start with one of them.
    /\ IF part = "turns" THEN TRUE ELSE maxIterations = 1
    /\ Turns!Init
    /\ IF part = "tools" THEN TRUE
       ELSE policy = [ask |-> "off", fallback |-> "denied", handler |-> FALSE,
                      mcpDenied |-> FALSE, outOfScope |-> FALSE]
    /\ Tools!Init
    /\ IF part = "upkeep" THEN TRUE ELSE mode = "warn"
    /\ Upkeep!Init
    /\ IF part = "stream" THEN TRUE
       ELSE provider = "llama" /\ answer = <<>> /\ refusal = Stream!Accepted
            /\ unsent = Stream!Bytes(Stream!LlamaLines(<<>>, FALSE), FALSE)
    /\ Stream!Init

\* A step of part p leaves the others alone.
OthersKeep(p) ==
    /\ UNCHANGED part
    /\ IF p = "serving" THEN TRUE ELSE UNCHANGED servingVars
    /\ IF p = "turns" THEN TRUE ELSE UNCHANGED turnVars
    /\ IF p = "rates" THEN TRUE ELSE UNCHANGED limiterVars
    /\ IF p = "subagents" THEN TRUE ELSE UNCHANGED subVars
    /\ IF p = "tools" THEN TRUE ELSE UNCHANGED toolVars
    /\ IF p = "upkeep" THEN TRUE ELSE UNCHANGED maintVars
    /\ IF p = "log" THEN TRUE ELSE UNCHANGED logVars
    /\ IF p = "config" THEN TRUE ELSE UNCHANGED configVars
    /\ IF p = "reload" THEN TRUE ELSE UNCHANGED reloadVars
    /\ IF p = "keys" THEN TRUE ELSE UNCHANGED keyVars
    /\ IF p = "asks" THEN TRUE ELSE UNCHANGED askVars
    /\ IF p = "context" THEN TRUE ELSE UNCHANGED contextVars
    /\ IF p = "chat" THEN TRUE ELSE UNCHANGED chatVars
    /\ IF p = "stream" THEN TRUE ELSE UNCHANGED streamVars
    /\ IF p \in {"plugins", "plugin"} THEN TRUE ELSE UNCHANGED pluginVars

ServingStep == part = "serving" /\ Serving!Next /\ OthersKeep("serving")
TurnsStep == part = "turns" /\ Turns!Next /\ OthersKeep("turns")
RatesStep == part = "rates" /\ Rates!Next /\ OthersKeep("rates")
SubsStep == part = "subagents" /\ Subs!Next /\ OthersKeep("subagents")
ToolsStep == part = "tools" /\ Tools!Next /\ OthersKeep("tools")
UpkeepStep == part = "upkeep" /\ Upkeep!Next /\ OthersKeep("upkeep")
LogStep == part = "log" /\ Log!Next /\ OthersKeep("log")
ConfigStep == part = "config" /\ Config!Next /\ OthersKeep("config")
ReloadStep == part = "reload" /\ Reload!Next /\ OthersKeep("reload")
KeysStep == part = "keys" /\ Keys!Next /\ OthersKeep("keys")
AsksStep == part = "asks" /\ Asks!Next /\ OthersKeep("asks")
ContextStep == part = "context" /\ Context!Next /\ OthersKeep("context")
ChatStep == part = "chat" /\ Chat!Next /\ OthersKeep("chat")
StreamStep == part = "stream" /\ Stream!Next /\ OthersKeep("stream")
PluginsStep == part = "plugins" /\ Plugins!Next /\ OthersKeep("plugins")
PluginStep == part = "plugin" /\ Plugin!Next /\ OthersKeep("plugin")

Next ==
    \/ ServingStep \/ TurnsStep \/ RatesStep \/ SubsStep \/ ToolsStep
    \/ UpkeepStep \/ LogStep \/ ConfigStep \/ ReloadStep \/ KeysStep \/ AsksStep
    \/ ContextStep \/ ChatStep \/ StreamStep \/ PluginsStep \/ PluginStep

Spec == Init /\ [][Next]_vars

-----------------------------------------------------------------------------
\* A property is about the part that runs; the others are as they started.
\* Every part's variables have their types.  (Those of a stream's parser follow
\* from the lines it has read, and are ProviderAgrees' to say.)
TypeOK ==
    CASE part = "serving"   -> Serving!TypeOK
      [] part = "turns"     -> Turns!TypeOK
      [] part = "rates"     -> Rates!TypeOK
      [] part = "subagents" -> Subs!TypeOK
      [] part = "tools"     -> Tools!TypeOK
      [] part = "upkeep"    -> Upkeep!TypeOK
      [] part = "log"       -> Log!TypeOK
      [] part = "config"    -> Config!TypeOK
      [] part = "reload"    -> Reload!TypeOK
      [] part = "keys"      -> Keys!TypeOK
      [] part = "asks"      -> Asks!TypeOK
      [] part = "context"   -> Context!TypeOK
      [] part = "chat"      -> Chat!TypeOK
      [] part = "plugins"   -> Plugins!TypeOK
      [] part = "plugin"    -> Plugin!TypeOK
      [] part = "stream"    -> TRUE

\* Handler threads stay within their limit, but for the race to enter them, and
\* none outlives Stop; every request gets one response.
ServingAgrees ==
    part = "serving" => Serving!CeilingBound /\ Serving!HandlersAreJoined /\ Serving!OneReply

\* A turn stays within its budgets, sends one end event, and is reported as
\* stopped only when it was; the history it is given is what went before it.
\* Turns of subagents stay within the limit, but for the race to enter them,
\* nested ones too.
TurnsAgree ==
    /\ part = "turns" => Turns!CallsBounded /\ Turns!EndEvents /\ Turns!StoppedWasAsked
    /\ part = "asks" => Asks!HistoryIsPast
    /\ part = "subagents" => Subs!SubagentsBounded

\* The rate limiter admits no more than it may over any stretch of time, and
\* what it tells a refused client is true; a key that cools down is probed no
\* more often than it may be.
RatesAgree ==
    /\ part = "rates" => Rates!RateIsBounded /\ Rates!AdviceIsSound
    /\ part = "keys" => Keys!ProbesAreSparse

\* Whatever runs was let through by every gate, and the record of approvals
\* agrees with what was done.  In the sidecar, the plugins' tools are those of the
\* last load, and a service runs if and only if it is listed, unless tasks overlapped.
ToolCallsAgree ==
    /\ part = "tools" => Tools!GatesHold /\ Tools!RecordAgrees
    /\ part = "plugins" => Plugins!PluginsAgree
    /\ part = "plugin" => Plugin!PluginsAgree

\* Session maintenance loses no message but by its own rules; a chat in the
\* browser loses none, sends none twice without cause, and does not get stuck.
NothingIsLost ==
    /\ part = "upkeep" => Upkeep!MessagesAccounted
    /\ part = "chat" => Chat!ChatAgrees

\* A provider is sent the newest part of the history, whole and in its order, and
\* what it streams is passed on as what it means, however it is cut.
ProviderAgrees ==
    /\ part = "context" => Context!ContextAgrees
    /\ part = "stream" => Stream!TypeOK /\ Stream!StreamAgrees

\* The event log is a chain per run, its statuses are true, and it stays bounded.
EventLogAgrees == part = "log" => Log!EventLogAgrees

\* An edit of the configuration that was acknowledged is in the document, or
\* in its backup, unless writers overlapped or someone chose to overwrite it;
\* what the gateway runs by is what the document says.
ConfigAgrees ==
    /\ part = "config" => Config!EditsSurvive
    /\ part = "reload" => Reload!InForceIsCurrent

\* What a step may never do: call a provider in a turn that was stopped, settle
\* a subagent twice, turn a client away while there is room, or give out a key
\* that cools down.
StepsAgree ==
    /\ Turns!StopPreventsCalls /\ Subs!SettledStays /\ Serving!BusyOnlyWhenFull
    /\ Keys!CooldownIsKept
================================================================================
