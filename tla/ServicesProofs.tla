---------------------------- MODULE ServicesProofs -----------------------------
(***************************************************************************)
(* Proofs about Services: what holds of each part holds where the parts    *)
(* are checked side by side.                                               *)
(***************************************************************************)
EXTENDS Services, GatewayProofs, AgentProofs

(***************************************************************************)
(* Among the other parts.                                                  *)
(***************************************************************************)

\* A step is one of the part that runs, and leaves the others alone.
LEMMA StepOfPart ==
    [Next]_vars =>
      /\ Serving!Next \/ UNCHANGED servingVars
      /\ Turns!Next \/ UNCHANGED turnVars
      /\ Rates!Next \/ UNCHANGED limiterVars
      /\ Subs!Next \/ UNCHANGED subVars
      /\ Tools!Next \/ UNCHANGED toolVars
      /\ Upkeep!Next \/ UNCHANGED maintVars
      /\ Log!Next \/ UNCHANGED logVars
      /\ Config!Next \/ UNCHANGED configVars
      /\ Reload!Next \/ UNCHANGED reloadVars
      /\ Keys!Next \/ UNCHANGED keyVars
      /\ Asks!Next \/ UNCHANGED askVars
      /\ Context!Next \/ UNCHANGED contextVars
      /\ Chat!Next \/ UNCHANGED chatVars
      /\ Stream!Next \/ UNCHANGED streamVars
<1>1. ASSUME NEW p, OthersKeep(p)
      PROVE  /\ p = "serving" \/ UNCHANGED servingVars
             /\ p = "turns" \/ UNCHANGED turnVars
             /\ p = "rates" \/ UNCHANGED limiterVars
             /\ p = "subagents" \/ UNCHANGED subVars
             /\ p = "tools" \/ UNCHANGED toolVars
             /\ p = "upkeep" \/ UNCHANGED maintVars
             /\ p = "log" \/ UNCHANGED logVars
             /\ p = "config" \/ UNCHANGED configVars
             /\ p = "reload" \/ UNCHANGED reloadVars
             /\ p = "keys" \/ UNCHANGED keyVars
             /\ p = "asks" \/ UNCHANGED askVars
             /\ p = "context" \/ UNCHANGED contextVars
             /\ p = "chat" \/ UNCHANGED chatVars
             /\ p = "stream" \/ UNCHANGED streamVars
  BY <1>1 DEF OthersKeep
<1>2. Next => \E p : /\ OthersKeep(p)
                     /\ p = "serving" => Serving!Next
                     /\ p = "turns" => Turns!Next
                     /\ p = "rates" => Rates!Next
                     /\ p = "subagents" => Subs!Next
                     /\ p = "tools" => Tools!Next
                     /\ p = "upkeep" => Upkeep!Next
                     /\ p = "log" => Log!Next
                     /\ p = "config" => Config!Next
                     /\ p = "reload" => Reload!Next
                     /\ p = "keys" => Keys!Next
                     /\ p = "asks" => Asks!Next
                     /\ p = "context" => Context!Next
                     /\ p = "chat" => Chat!Next
                     /\ p = "stream" => Stream!Next
  BY DEF Next, ServingStep, TurnsStep, RatesStep, SubsStep, ToolsStep, UpkeepStep, LogStep,
         ConfigStep, ReloadStep, KeysStep, AsksStep, ContextStep, ChatStep, StreamStep,
         PluginsStep, PluginStep
<1>3. UNCHANGED vars => UNCHANGED <<servingVars, turnVars, limiterVars, subVars, toolVars,
                                    maintVars, logVars, configVars, reloadVars, keyVars,
                                    askVars, contextVars, chatVars, streamVars>>
  BY DEF vars
<1> QED
  BY <1>1, <1>2, <1>3

LEMMA ServingBehaves == Spec => Serving!Spec
<1>1. Init => Serving!Init
  BY DEF Init
<1>2. [Next]_vars => [Serving!Next]_(Serving!vars)
  BY StepOfPart DEF servingVars, Serving!vars
<1> QED
  BY <1>1, <1>2, PTL DEF Spec, Serving!Spec

\* The three safety theorems above of the gateway as it is checked (gateway_server.cpp).
THEOREM ServingOfServicesAgrees == Spec => []ServingAgrees
<1>1. Serving!GatewayAssumption
  BY GatewayPartsAssumption, AgentPartsAssumption
  DEF GatewayPartsAssumption, AgentPartsAssumption
<1>2. Serving!CeilingBound /\ Serving!HandlersAreJoined /\ Serving!OneReply => ServingAgrees
  BY DEF ServingAgrees
<1> QED
  BY <1>1, <1>2, ServingBehaves, CeilingAlwaysBound, HandlersAlwaysJoined, OneReplyAlways, PTL

LEMMA SubsBehave == Spec => Subs!Spec
<1>1. Init => Subs!Init
  BY DEF Init
<1>2. [Next]_vars => [Subs!Next]_(Subs!subVars)
  BY StepOfPart DEF subVars, Subs!subVars
<1> QED
  BY <1>1, <1>2, PTL DEF Spec, Subs!Spec

LEMMA TurnsBehave == Spec => Turns!Spec
<1>1. Init => Turns!Init
  BY DEF Init
<1>2. [Next]_vars => [Turns!Next]_(Turns!turnVars)
  BY StepOfPart DEF turnVars, Turns!turnVars
<1> QED
  BY <1>1, <1>2, PTL DEF Spec, Turns!Spec

LEMMA AsksBehave == Spec => Asks!Spec
<1>1. Init => Asks!Init
  BY DEF Init
<1>2. [Next]_vars => [Asks!Next]_(Asks!webTurnVars)
  BY StepOfPart DEF askVars, Asks!webTurnVars
<1> QED
  BY <1>1, <1>2, PTL DEF Spec, Asks!Spec

LEMMA LogBehaves == Spec => Log!Spec
<1>1. Init => Log!Init
  BY DEF Init
<1>2. [Next]_vars => [Log!Next]_(Log!logVars)
  BY StepOfPart DEF logVars, Log!logVars
<1> QED
  BY <1>1, <1>2, PTL DEF Spec, Log!Spec

LEMMA ToolsBehave == Spec => Tools!Spec
<1>1. Init => Tools!Init
  BY DEF Init
<1>2. [Next]_vars => [Tools!Next]_(Tools!toolVars)
  BY StepOfPart DEF toolVars, Tools!toolVars
<1> QED
  BY <1>1, <1>2, PTL DEF Spec, Tools!Spec

LEMMA UpkeepBehaves == Spec => Upkeep!Spec
<1>1. Init => Upkeep!Init
  BY DEF Init
<1>2. [Next]_vars => [Upkeep!Next]_(Upkeep!maintVars)
  BY StepOfPart DEF maintVars, Upkeep!maintVars
<1> QED
  BY <1>1, <1>2, PTL DEF Spec, Upkeep!Spec

LEMMA RatesBehave == Spec => Rates!Spec
<1>1. Init => Rates!Init
  BY DEF Init
<1>2. [Next]_vars => [Rates!Next]_(Rates!limiterVars)
  BY StepOfPart DEF limiterVars, Rates!limiterVars
<1> QED
  BY <1>1, <1>2, PTL DEF Spec, Rates!Spec

LEMMA ConfigBehaves == Spec => Config!Spec
<1>1. Init => Config!Init
  BY DEF Init
<1>2. [Next]_vars => [Config!Next]_(Config!documentVars)
  BY StepOfPart DEF configVars, Config!documentVars
<1> QED
  BY <1>1, <1>2, PTL DEF Spec, Config!Spec

LEMMA ReloadBehaves == Spec => Reload!Spec
<1>1. Init => Reload!Init
  BY DEF Init
<1>2. [Next]_vars => [Reload!Next]_(Reload!reloadVars)
  BY StepOfPart DEF reloadVars, Reload!reloadVars
<1> QED
  BY <1>1, <1>2, PTL DEF Spec, Reload!Spec

LEMMA KeysBehave == Spec => Keys!Spec
<1>1. Init => Keys!Init
  BY DEF Init
<1>2. [Next]_vars => [Keys!Next]_(Keys!failoverVars)
  BY StepOfPart DEF keyVars, Keys!failoverVars
<1> QED
  BY <1>1, <1>2, PTL DEF Spec, Keys!Spec

LEMMA ChatBehaves == Spec => Chat!Spec
<1>1. Init => Chat!Init
  BY DEF Init
<1>2. [Next]_vars => [Chat!Next]_(Chat!chatVars)
  BY StepOfPart DEF chatVars, Chat!chatVars, Chat!clientVars, Chat!hostVars, Chat!gatewayVars,
         Chat!counters, Chat!historyVars
<1> QED
  BY <1>1, <1>2, PTL DEF Spec, Chat!Spec

\* TurnsAlwaysAgree, HistoryAlwaysPast and SubagentsAlwaysBounded of the gateway as it is
\* checked: a turn stays within its budgets and ends once (agent_loop.cpp), the history it
\* is given is what went before it (the chat requests of api_routes.cpp), and subagents
\* stay within their limit (subagent.cpp).
THEOREM TurnsOfServicesAgree == Spec => []TurnsAgree
<1>1. Turns!AgentTurnsAssumption /\ Asks!WebTurnsAssumption /\ Subs!SubagentsAssumption
  BY GatewayPartsAssumption, AgentPartsAssumption
  DEF GatewayPartsAssumption, AgentPartsAssumption
<1>2. /\ Turns!CallsBounded /\ Turns!EndEvents /\ Turns!StoppedWasAsked
      /\ Asks!HistoryIsPast /\ Subs!SubagentsBounded
      => TurnsAgree
  BY DEF TurnsAgree
<1>3. Spec => [](Turns!TypeOK /\ Turns!CallsBounded /\ Turns!EndEvents
                 /\ Turns!StoppedWasAsked)
  BY <1>1, TurnsBehave, TurnsAlwaysAgree
<1>4. Spec => [](Asks!TypeOK /\ Asks!HistoryIsPast)
  BY <1>1, AsksBehave, HistoryAlwaysPast
<1>5. Spec => []Subs!SubagentsBounded
  BY <1>1, SubsBehave, SubagentsAlwaysBounded
<1> QED
  BY <1>2, <1>3, <1>4, <1>5, PTL

\* What no step of the gateway does: call a provider in a turn that was stopped
\* (agent_loop.cpp), settle a subagent twice (subagent.cpp), turn a client away
\* while there is room (the session loop of server.cpp), or give out a key that cools
\* down (failover.cpp).
THEOREM StepsOfServicesAgree == Spec => StepsAgree
<1>1. /\ Serving!GatewayAssumption /\ Turns!AgentTurnsAssumption
      /\ Subs!SubagentsAssumption /\ Keys!FailoverAssumption
  BY GatewayPartsAssumption, AgentPartsAssumption
  DEF GatewayPartsAssumption, AgentPartsAssumption
<1>2. Spec => Turns!StopPreventsCalls
  BY <1>1, TurnsBehave, StopAlwaysPreventsCalls
<1>3. Spec => Subs!SettledStays
  BY <1>1, SubsBehave, SettledAlwaysStays
<1>4. Spec => Serving!BusyOnlyWhenFull
  BY <1>1, ServingBehaves, BusyAlwaysFull
<1>5. Spec => Keys!CooldownIsKept
  BY <1>1, KeysBehave, CooldownAlwaysKept
<1> QED
  BY <1>2, <1>3, <1>4, <1>5 DEF StepsAgree

\* RateAlwaysBounded and ProbesAlwaysSparse of the gateway as it is checked
\* (rate_limiter.cpp, failover.cpp).
THEOREM RatesOfServicesAgree == Spec => []RatesAgree
<1>1. Rates!RateLimiterAssumption /\ Keys!FailoverAssumption
  BY GatewayPartsAssumption, AgentPartsAssumption
  DEF GatewayPartsAssumption, AgentPartsAssumption
<1>2. (Rates!RateIsBounded /\ Rates!AdviceIsSound) /\ Keys!ProbesAreSparse => RatesAgree
  BY DEF RatesAgree
<1>3. Spec => [](Rates!RateIsBounded /\ Rates!AdviceIsSound)
  <2>1. Spec => [](Rates!TypeOK /\ Rates!RateIsBounded /\ Rates!AdviceIsSound)
    BY <1>1, RatesBehave, RateAlwaysBounded
  <2> QED
    BY <2>1, PTL
<1>4. Spec => []Keys!ProbesAreSparse
  <2>1. Spec => [](Keys!TypeOK /\ Keys!ProbesAreSparse)
    BY <1>1, KeysBehave, ProbesAlwaysSparse
  <2> QED
    BY <2>1, PTL
<1> QED
  BY <1>2, <1>3, <1>4, PTL

-----------------------------------------------------------------------------
(* The plugins: as PluginProofs has it, with the variables of Services      *)

AllPlugins == INSTANCE PluginProofs
                WITH Request <- Call, phase <- process, request <- query,
                     disturbed <- unsettled
OnePlugin == INSTANCE PluginProofs
               WITH Order <- SubSeq(Order, 1, 1), Request <- Thread, phase <- process,
                    request <- query, disturbed <- unsettled

\* The proofs' instance for all plugins is the model's: the definitions are the same.
LEMMA AllPluginsStart ==
    /\ Plugins!RuntimeAssumption => AllPlugins!RuntimeAssumption
    /\ Plugins!Init => AllPlugins!Init
    /\ AllPlugins!TypeOK => Plugins!TypeOK
    /\ AllPlugins!PluginsAgree => Plugins!PluginsAgree
<1>1. Plugins!RuntimeAssumption => AllPlugins!RuntimeAssumption
  BY Zenon DEF Plugins!RuntimeAssumption, AllPlugins!RuntimeAssumption
<1>2. Plugins!Init => AllPlugins!Init
  BY Zenon DEF
      Plugins!Init, AllPlugins!Init, Plugins!IdleLoader, AllPlugins!IdleLoader,
      Plugins!NoRequest, AllPlugins!NoRequest, Plugins!NotClosing, AllPlugins!NotClosing
<1>3. AllPlugins!TypeOK => Plugins!TypeOK
  BY Zenon DEF
      Plugins!TypeOK, AllPlugins!TypeOK, Plugins!Loaders, AllPlugins!Loaders,
      Plugins!Requests, AllPlugins!Requests, Plugins!Closings, AllPlugins!Closings,
      Plugins!Instance, AllPlugins!Instance, Plugins!Plugin, AllPlugins!Plugin,
      Plugins!ToSet, AllPlugins!ToSet
<1>4. AllPlugins!ListedAreRunning => Plugins!ListedAreRunning
  BY Zenon DEF
      Plugins!ListedAreRunning, AllPlugins!ListedAreRunning, Plugins!Plugin,
      AllPlugins!Plugin, Plugins!Settled, AllPlugins!Settled, Plugins!Loading,
      AllPlugins!Loading, Plugins!Closing, AllPlugins!Closing, Plugins!AskedIds,
      AllPlugins!AskedIds, Plugins!Asked, AllPlugins!Asked, Plugins!Of, AllPlugins!Of,
      Plugins!ToSet, AllPlugins!ToSet
<1>5. AllPlugins!ToolsAreCurrent => Plugins!ToolsAreCurrent
  BY Zenon DEF
      Plugins!ToolsAreCurrent, AllPlugins!ToolsAreCurrent, Plugins!Loading,
      AllPlugins!Loading, Plugins!Of, AllPlugins!Of
<1>6. AllPlugins!EndsClean => Plugins!EndsClean
  BY Zenon DEF
      Plugins!EndsClean, AllPlugins!EndsClean
<1> QED
  BY <1>1, <1>2, <1>3, <1>4, <1>5, <1>6, Zenon DEF
      Plugins!PluginsAgree, AllPlugins!PluginsAgree

LEMMA AllPluginsNext == Plugins!Next => AllPlugins!Next
<1>1. Plugins!Import => AllPlugins!Import
  BY Zenon DEF
      Plugins!Import, AllPlugins!Import, Plugins!Alive, AllPlugins!Alive, Plugins!Of,
      AllPlugins!Of, Plugins!Goes, AllPlugins!Goes, Plugins!Skips, AllPlugins!Skips
<1>2. Plugins!Activate => AllPlugins!Activate
  BY Zenon DEF
      Plugins!Activate, AllPlugins!Activate, Plugins!Alive, AllPlugins!Alive,
      Plugins!Outcomes, AllPlugins!Outcomes
<1>3. Plugins!Loaded => AllPlugins!Loaded
  BY Zenon DEF
      Plugins!Loaded, AllPlugins!Loaded, Plugins!Alive, AllPlugins!Alive, Plugins!IdleLoader,
      AllPlugins!IdleLoader
<1>4. Plugins!StartNext => AllPlugins!StartNext
  BY Zenon DEF
      Plugins!StartNext, AllPlugins!StartNext, Plugins!Alive, AllPlugins!Alive, Plugins!Goes,
      AllPlugins!Goes
<1>5. Plugins!Started => AllPlugins!Started
  BY Zenon DEF
      Plugins!Started, AllPlugins!Started, Plugins!Alive, AllPlugins!Alive, Plugins!Outcomes,
      AllPlugins!Outcomes, Plugins!Of, AllPlugins!Of
<1>6. Plugins!AllStarted => AllPlugins!AllStarted
  BY Zenon DEF
      Plugins!AllStarted, AllPlugins!AllStarted, Plugins!Alive, AllPlugins!Alive,
      Plugins!IdleLoader, AllPlugins!IdleLoader
<1>7. Plugins!ReloadPlugins => AllPlugins!ReloadPlugins
  BY Zenon DEF
      Plugins!ReloadPlugins, AllPlugins!ReloadPlugins, Plugins!Loading, AllPlugins!Loading,
      Plugins!IdleLoader, AllPlugins!IdleLoader, Plugins!Disturbs, AllPlugins!Disturbs,
      Plugins!Closing, AllPlugins!Closing, Plugins!Asked, AllPlugins!Asked,
      Plugins!AskedIds, AllPlugins!AskedIds, Plugins!Plugin, AllPlugins!Plugin,
      Plugins!ToSet, AllPlugins!ToSet, Plugins!Reverse, AllPlugins!Reverse
<1>8. Plugins!ReloadStops => AllPlugins!ReloadStops
  BY Zenon DEF
      Plugins!ReloadStops, AllPlugins!ReloadStops, Plugins!Alive, AllPlugins!Alive,
      Plugins!StopsFirst, AllPlugins!StopsFirst, Plugins!Outcomes, AllPlugins!Outcomes
<1>9. Plugins!Reset => AllPlugins!Reset
  BY Zenon DEF
      Plugins!Reset, AllPlugins!Reset, Plugins!Alive, AllPlugins!Alive, Plugins!Forget,
      AllPlugins!Forget, Plugins!IdleLoader, AllPlugins!IdleLoader
<1>10. \A r \in Call, p \in Plugins!Plugin : Plugins!StartService(r, p) => AllPlugins!StartService(r, p)
  BY Zenon DEF
      Plugins!StartService, AllPlugins!StartService, Plugins!CanAsk, AllPlugins!CanAsk,
      Plugins!Connected, AllPlugins!Connected, Plugins!Starts, AllPlugins!Starts,
      Plugins!Answer, AllPlugins!Answer, Plugins!NoRequest, AllPlugins!NoRequest,
      Plugins!Of, AllPlugins!Of, Plugins!Loading, AllPlugins!Loading, Plugins!Closing,
      AllPlugins!Closing, Plugins!AskedIds, AllPlugins!AskedIds, Plugins!Asked,
      AllPlugins!Asked, Plugins!Ids, AllPlugins!Ids, Plugins!ToSet, AllPlugins!ToSet
<1>11. \A r \in Call, p \in Plugins!Plugin : Plugins!StopService(r, p) => AllPlugins!StopService(r, p)
  BY Zenon DEF
      Plugins!StopService, AllPlugins!StopService, Plugins!CanAsk, AllPlugins!CanAsk,
      Plugins!Connected, AllPlugins!Connected, Plugins!Answer, AllPlugins!Answer,
      Plugins!NoRequest, AllPlugins!NoRequest, Plugins!Loading, AllPlugins!Loading,
      Plugins!Closing, AllPlugins!Closing, Plugins!Asked, AllPlugins!Asked, Plugins!Ids,
      AllPlugins!Ids, Plugins!Plugin, AllPlugins!Plugin, Plugins!ToSet, AllPlugins!ToSet
<1>12. \A r \in Call : Plugins!ServiceStarted(r) => AllPlugins!ServiceStarted(r)
  BY Zenon DEF
      Plugins!ServiceStarted, AllPlugins!ServiceStarted, Plugins!Alive, AllPlugins!Alive,
      Plugins!Outcomes, AllPlugins!Outcomes, Plugins!Answer, AllPlugins!Answer,
      Plugins!NoRequest, AllPlugins!NoRequest, Plugins!ToSet, AllPlugins!ToSet
<1>13. \A r \in Call : Plugins!ServiceStopped(r) => AllPlugins!ServiceStopped(r)
  BY Zenon DEF
      Plugins!ServiceStopped, AllPlugins!ServiceStopped, Plugins!Alive, AllPlugins!Alive,
      Plugins!Outcomes, AllPlugins!Outcomes, Plugins!Answer, AllPlugins!Answer,
      Plugins!NoRequest, AllPlugins!NoRequest, Plugins!ToSet, AllPlugins!ToSet,
      Plugins!RemoveAt, AllPlugins!RemoveAt
<1>14. \A c \in Causes : Plugins!Shutdown(c) => AllPlugins!Shutdown(c)
  BY Zenon DEF
      Plugins!Shutdown, AllPlugins!Shutdown, Plugins!Closing, AllPlugins!Closing,
      Plugins!Disturbs, AllPlugins!Disturbs, Plugins!Loading, AllPlugins!Loading,
      Plugins!Asked, AllPlugins!Asked, Plugins!AskedIds, AllPlugins!AskedIds,
      Plugins!Plugin, AllPlugins!Plugin, Plugins!ToSet, AllPlugins!ToSet,
      Plugins!Reverse, AllPlugins!Reverse
<1>15. \A c \in Causes : Plugins!ShutdownStops(c) => AllPlugins!ShutdownStops(c)
  BY Zenon DEF
      Plugins!ShutdownStops, AllPlugins!ShutdownStops, Plugins!Alive, AllPlugins!Alive,
      Plugins!StopsFirst, AllPlugins!StopsFirst, Plugins!Outcomes, AllPlugins!Outcomes
<1>16. \A c \in Causes : Plugins!Exit(c) => AllPlugins!Exit(c)
  BY Zenon DEF
      Plugins!Exit, AllPlugins!Exit, Plugins!Alive, AllPlugins!Alive
<1>17. Plugins!Plugin = AllPlugins!Plugin
  BY Zenon DEF Plugins!Plugin, AllPlugins!Plugin, Plugins!ToSet, AllPlugins!ToSet
<1> QED
  BY <1>1, <1>2, <1>3, <1>4, <1>5, <1>6, <1>7, <1>8, <1>9, <1>10, <1>11, <1>12,
     <1>13, <1>14, <1>15, <1>16, <1>17, Zenon
  DEF Plugins!Next, AllPlugins!Next

\* The proofs' instance for one plugin is the model's: the definitions are the same.
LEMMA OnePluginStart ==
    /\ Plugin!RuntimeAssumption => OnePlugin!RuntimeAssumption
    /\ Plugin!Init => OnePlugin!Init
    /\ OnePlugin!TypeOK => Plugin!TypeOK
    /\ OnePlugin!PluginsAgree => Plugin!PluginsAgree
<1>1. Plugin!RuntimeAssumption => OnePlugin!RuntimeAssumption
  BY Zenon DEF Plugin!RuntimeAssumption, OnePlugin!RuntimeAssumption
<1>2. Plugin!Init => OnePlugin!Init
  BY Zenon DEF
      Plugin!Init, OnePlugin!Init, Plugin!IdleLoader, OnePlugin!IdleLoader, Plugin!NoRequest,
      OnePlugin!NoRequest, Plugin!NotClosing, OnePlugin!NotClosing
<1>3. OnePlugin!TypeOK => Plugin!TypeOK
  BY Zenon DEF
      Plugin!TypeOK, OnePlugin!TypeOK, Plugin!Loaders, OnePlugin!Loaders, Plugin!Requests,
      OnePlugin!Requests, Plugin!Closings, OnePlugin!Closings, Plugin!Instance,
      OnePlugin!Instance, Plugin!Plugin, OnePlugin!Plugin, Plugin!ToSet, OnePlugin!ToSet
<1>4. OnePlugin!ListedAreRunning => Plugin!ListedAreRunning
  BY Zenon DEF
      Plugin!ListedAreRunning, OnePlugin!ListedAreRunning, Plugin!Plugin, OnePlugin!Plugin,
      Plugin!Settled, OnePlugin!Settled, Plugin!Loading, OnePlugin!Loading,
      Plugin!Closing, OnePlugin!Closing, Plugin!AskedIds, OnePlugin!AskedIds,
      Plugin!Asked, OnePlugin!Asked, Plugin!Of, OnePlugin!Of, Plugin!ToSet,
      OnePlugin!ToSet
<1>5. OnePlugin!ToolsAreCurrent => Plugin!ToolsAreCurrent
  BY Zenon DEF
      Plugin!ToolsAreCurrent, OnePlugin!ToolsAreCurrent, Plugin!Loading, OnePlugin!Loading,
      Plugin!Of, OnePlugin!Of
<1>6. OnePlugin!EndsClean => Plugin!EndsClean
  BY Zenon DEF
      Plugin!EndsClean, OnePlugin!EndsClean
<1> QED
  BY <1>1, <1>2, <1>3, <1>4, <1>5, <1>6, Zenon DEF
      Plugin!PluginsAgree, OnePlugin!PluginsAgree

LEMMA OnePluginNext == Plugin!Next => OnePlugin!Next
<1>1. Plugin!Import => OnePlugin!Import
  BY Zenon DEF
      Plugin!Import, OnePlugin!Import, Plugin!Alive, OnePlugin!Alive, Plugin!Of, OnePlugin!Of,
      Plugin!Goes, OnePlugin!Goes, Plugin!Skips, OnePlugin!Skips
<1>2. Plugin!Activate => OnePlugin!Activate
  BY Zenon DEF
      Plugin!Activate, OnePlugin!Activate, Plugin!Alive, OnePlugin!Alive, Plugin!Outcomes,
      OnePlugin!Outcomes
<1>3. Plugin!Loaded => OnePlugin!Loaded
  BY Zenon DEF
      Plugin!Loaded, OnePlugin!Loaded, Plugin!Alive, OnePlugin!Alive, Plugin!IdleLoader,
      OnePlugin!IdleLoader
<1>4. Plugin!StartNext => OnePlugin!StartNext
  BY Zenon DEF
      Plugin!StartNext, OnePlugin!StartNext, Plugin!Alive, OnePlugin!Alive, Plugin!Goes,
      OnePlugin!Goes
<1>5. Plugin!Started => OnePlugin!Started
  BY Zenon DEF
      Plugin!Started, OnePlugin!Started, Plugin!Alive, OnePlugin!Alive, Plugin!Outcomes,
      OnePlugin!Outcomes, Plugin!Of, OnePlugin!Of
<1>6. Plugin!AllStarted => OnePlugin!AllStarted
  BY Zenon DEF
      Plugin!AllStarted, OnePlugin!AllStarted, Plugin!Alive, OnePlugin!Alive,
      Plugin!IdleLoader, OnePlugin!IdleLoader
<1>7. Plugin!ReloadPlugins => OnePlugin!ReloadPlugins
  BY Zenon DEF
      Plugin!ReloadPlugins, OnePlugin!ReloadPlugins, Plugin!Loading, OnePlugin!Loading,
      Plugin!IdleLoader, OnePlugin!IdleLoader, Plugin!Disturbs, OnePlugin!Disturbs,
      Plugin!Closing, OnePlugin!Closing, Plugin!Asked, OnePlugin!Asked, Plugin!AskedIds,
      OnePlugin!AskedIds, Plugin!Plugin, OnePlugin!Plugin, Plugin!ToSet,
      OnePlugin!ToSet, Plugin!Reverse, OnePlugin!Reverse
<1>8. Plugin!ReloadStops => OnePlugin!ReloadStops
  BY Zenon DEF
      Plugin!ReloadStops, OnePlugin!ReloadStops, Plugin!Alive, OnePlugin!Alive,
      Plugin!StopsFirst, OnePlugin!StopsFirst, Plugin!Outcomes, OnePlugin!Outcomes
<1>9. Plugin!Reset => OnePlugin!Reset
  BY Zenon DEF
      Plugin!Reset, OnePlugin!Reset, Plugin!Alive, OnePlugin!Alive, Plugin!Forget,
      OnePlugin!Forget, Plugin!IdleLoader, OnePlugin!IdleLoader
<1>10. \A r \in Thread, p \in Plugin!Plugin : Plugin!StartService(r, p) => OnePlugin!StartService(r, p)
  BY Zenon DEF
      Plugin!StartService, OnePlugin!StartService, Plugin!CanAsk, OnePlugin!CanAsk,
      Plugin!Connected, OnePlugin!Connected, Plugin!Starts, OnePlugin!Starts,
      Plugin!Answer, OnePlugin!Answer, Plugin!NoRequest, OnePlugin!NoRequest, Plugin!Of,
      OnePlugin!Of, Plugin!Loading, OnePlugin!Loading, Plugin!Closing,
      OnePlugin!Closing, Plugin!AskedIds, OnePlugin!AskedIds, Plugin!Asked,
      OnePlugin!Asked, Plugin!Ids, OnePlugin!Ids, Plugin!ToSet, OnePlugin!ToSet
<1>11. \A r \in Thread, p \in Plugin!Plugin : Plugin!StopService(r, p) => OnePlugin!StopService(r, p)
  BY Zenon DEF
      Plugin!StopService, OnePlugin!StopService, Plugin!CanAsk, OnePlugin!CanAsk,
      Plugin!Connected, OnePlugin!Connected, Plugin!Answer, OnePlugin!Answer,
      Plugin!NoRequest, OnePlugin!NoRequest, Plugin!Loading, OnePlugin!Loading,
      Plugin!Closing, OnePlugin!Closing, Plugin!Asked, OnePlugin!Asked, Plugin!Ids,
      OnePlugin!Ids, Plugin!Plugin, OnePlugin!Plugin, Plugin!ToSet, OnePlugin!ToSet
<1>12. \A r \in Thread : Plugin!ServiceStarted(r) => OnePlugin!ServiceStarted(r)
  BY Zenon DEF
      Plugin!ServiceStarted, OnePlugin!ServiceStarted, Plugin!Alive, OnePlugin!Alive,
      Plugin!Outcomes, OnePlugin!Outcomes, Plugin!Answer, OnePlugin!Answer,
      Plugin!NoRequest, OnePlugin!NoRequest, Plugin!ToSet, OnePlugin!ToSet
<1>13. \A r \in Thread : Plugin!ServiceStopped(r) => OnePlugin!ServiceStopped(r)
  BY Zenon DEF
      Plugin!ServiceStopped, OnePlugin!ServiceStopped, Plugin!Alive, OnePlugin!Alive,
      Plugin!Outcomes, OnePlugin!Outcomes, Plugin!Answer, OnePlugin!Answer,
      Plugin!NoRequest, OnePlugin!NoRequest, Plugin!ToSet, OnePlugin!ToSet,
      Plugin!RemoveAt, OnePlugin!RemoveAt
<1>14. \A c \in Causes : Plugin!Shutdown(c) => OnePlugin!Shutdown(c)
  BY Zenon DEF
      Plugin!Shutdown, OnePlugin!Shutdown, Plugin!Closing, OnePlugin!Closing, Plugin!Disturbs,
      OnePlugin!Disturbs, Plugin!Loading, OnePlugin!Loading, Plugin!Asked,
      OnePlugin!Asked, Plugin!AskedIds, OnePlugin!AskedIds, Plugin!Plugin,
      OnePlugin!Plugin, Plugin!ToSet, OnePlugin!ToSet, Plugin!Reverse, OnePlugin!Reverse
<1>15. \A c \in Causes : Plugin!ShutdownStops(c) => OnePlugin!ShutdownStops(c)
  BY Zenon DEF
      Plugin!ShutdownStops, OnePlugin!ShutdownStops, Plugin!Alive, OnePlugin!Alive,
      Plugin!StopsFirst, OnePlugin!StopsFirst, Plugin!Outcomes, OnePlugin!Outcomes
<1>16. \A c \in Causes : Plugin!Exit(c) => OnePlugin!Exit(c)
  BY Zenon DEF
      Plugin!Exit, OnePlugin!Exit, Plugin!Alive, OnePlugin!Alive
<1>17. Plugin!Plugin = OnePlugin!Plugin
  BY Zenon DEF Plugin!Plugin, OnePlugin!Plugin, Plugin!ToSet, OnePlugin!ToSet
<1> QED
  BY <1>1, <1>2, <1>3, <1>4, <1>5, <1>6, <1>7, <1>8, <1>9, <1>10, <1>11, <1>12,
     <1>13, <1>14, <1>15, <1>16, <1>17, Zenon
  DEF Plugin!Next, OnePlugin!Next

\* The invariant of whichever of the two runs.
PluginsRight ==
    /\ part = "plugins" => AllPlugins!PluginInv
    /\ part = "plugin" => OnePlugin!PluginInv

LEMMA PluginsRightAlways == Spec => []PluginsRight
<1>1. AllPlugins!RuntimeAssumption /\ OnePlugin!RuntimeAssumption
  BY ServicesAssumption, AllPluginsStart, OnePluginStart
<1>2. Init => PluginsRight
  <2> SUFFICES ASSUME Init PROVE PluginsRight
    OBVIOUS
  <2>1. /\ part = "plugins" => Plugins!Init
        /\ part = "plugin" => Plugin!Init
    BY Zenon DEF Init
  <2>2. part = "plugins" => AllPlugins!PluginInv
    BY <1>1, <2>1, AllPluginsStart, AllPlugins!InitPlugins
  <2>3. part = "plugin" => OnePlugin!PluginInv
    BY <1>1, <2>1, OnePluginStart, OnePlugin!InitPlugins
  <2> QED
    BY <2>2, <2>3 DEF PluginsRight
<1>3. PluginsRight /\ [Next]_vars => PluginsRight'
  <2> SUFFICES ASSUME PluginsRight, [Next]_vars PROVE PluginsRight'
    OBVIOUS
  <2>1. part' = part
    BY Zenon DEF Next, vars, OthersKeep, ServingStep, TurnsStep, RatesStep, SubsStep, ToolsStep,
                 UpkeepStep, LogStep, ConfigStep, ReloadStep, KeysStep, AsksStep, ContextStep,
                 ChatStep, StreamStep, PluginsStep, PluginStep
  <2>2. /\ part = "plugins" => Plugins!Next \/ UNCHANGED pluginVars
        /\ part = "plugin" => Plugin!Next \/ UNCHANGED pluginVars
    BY DEF Next, vars, OthersKeep, ServingStep, TurnsStep, RatesStep, SubsStep, ToolsStep,
                 UpkeepStep, LogStep, ConfigStep, ReloadStep, KeysStep, AsksStep, ContextStep,
                 ChatStep, StreamStep, PluginsStep, PluginStep
  <2>3. ASSUME part = "plugins" PROVE AllPlugins!PluginInv'
    <3>1. [AllPlugins!Next]_(AllPlugins!runtimeVars)
      BY <2>2, <2>3, AllPluginsNext DEF pluginVars, AllPlugins!runtimeVars
    <3>2. AllPlugins!PluginInv
      BY <2>3 DEF PluginsRight
    <3> QED
      BY <1>1, <3>1, <3>2, AllPlugins!PluginNext
  <2>4. ASSUME part = "plugin" PROVE OnePlugin!PluginInv'
    <3>1. [OnePlugin!Next]_(OnePlugin!runtimeVars)
      BY <2>2, <2>4, OnePluginNext DEF pluginVars, OnePlugin!runtimeVars
    <3>2. OnePlugin!PluginInv
      BY <2>4 DEF PluginsRight
    <3> QED
      BY <1>1, <3>1, <3>2, OnePlugin!PluginNext
  <2> QED
    BY <2>1, <2>3, <2>4 DEF PluginsRight
<1> QED
  BY <1>2, <1>3, PTL DEF Spec

LEMMA PluginsRightMeans ==
    ASSUME PluginsRight
    PROVE  /\ part = "plugins" => Plugins!TypeOK /\ Plugins!PluginsAgree
           /\ part = "plugin" => Plugin!TypeOK /\ Plugin!PluginsAgree
<1>1. part = "plugins" => AllPlugins!TypeOK /\ AllPlugins!PluginsAgree
  BY AllPlugins!PluginInvMeans DEF PluginsRight
<1>2. part = "plugin" => OnePlugin!TypeOK /\ OnePlugin!PluginsAgree
  BY OnePlugin!PluginInvMeans DEF PluginsRight
<1> QED
  BY <1>1, <1>2, AllPluginsStart, OnePluginStart

\* Whatever the tools of the gateway run was let through by every gate, and the plugins of
\* the sidecar agree with what is listed of them (tool_registry.cpp, exec_approval.cpp,
\* sidecar/src/index.ts).
THEOREM ToolCallsOfServicesAgree == Spec => []ToolCallsAgree
<1>1. Spec => [](Tools!TypeOK /\ Tools!GatesHold /\ Tools!RecordAgrees)
  BY ToolsBehave, ToolsAlwaysGated
<1>2. Tools!GatesHold /\ Tools!RecordAgrees /\ PluginsRight => ToolCallsAgree
  BY PluginsRightMeans DEF ToolCallsAgree
<1>3. Spec => []PluginsRight
  BY PluginsRightAlways
<1> QED
  BY <1>1, <1>2, <1>3, PTL

\* Both, of the gateway as it is checked.
THEOREM ConfigOfServicesAgrees == Spec => []ConfigAgrees
<1>1. Config!DocumentAssumption /\ Reload!ReloadAssumption
  BY GatewayPartsAssumption, AgentPartsAssumption
  DEF GatewayPartsAssumption, AgentPartsAssumption
<1>2. Config!EditsSurvive /\ Reload!InForceIsCurrent => ConfigAgrees
  BY DEF ConfigAgrees
<1>3. Spec => [](Config!TypeOK /\ Config!EditsSurvive)
  BY <1>1, ConfigBehaves, EditsAlwaysSurvive
<1>4. Spec => [](Reload!TypeOK /\ Reload!InForceIsCurrent)
  BY <1>1, ReloadBehaves, InForceAlwaysCurrent
<1> QED
  BY <1>2, <1>3, <1>4, PTL

\* The same of the log as it is checked.
THEOREM EventLogOfServicesAgrees == Spec => []EventLogAgrees
<1>1. Log!EventLogAssumption
  BY GatewayPartsAssumption, AgentPartsAssumption
  DEF GatewayPartsAssumption, AgentPartsAssumption
<1>2. Log!EventLogAgrees => EventLogAgrees
  BY DEF EventLogAgrees
<1>3. Spec => [](Log!TypeOK /\ Log!EventLogAgrees)
  BY <1>1, LogBehaves, EventLogAlwaysAgrees
<1> QED
  BY <1>2, <1>3, PTL

\* Session maintenance loses no message but by its own rules
\* (session_maintenance.cpp), and the chat of the browser loses none, sends none twice
\* without cause, and does not get stuck (app-chat.ts, gateway.ts).
THEOREM NothingIsEverLost == Spec => []NothingIsLost
<1>1. Upkeep!MaintenanceAssumption /\ Chat!WebChatAssumption
  BY GatewayPartsAssumption, AgentPartsAssumption
  DEF GatewayPartsAssumption, AgentPartsAssumption
<1>2. Spec => [](Upkeep!TypeOK /\ Upkeep!MessagesAccounted)
  BY <1>1, UpkeepBehaves, MessagesAlwaysAccounted
<1>3. Spec => [](Chat!TypeOK /\ Chat!ChatAgrees)
  BY <1>1, ChatBehaves, ChatAlwaysAgrees
<1>4. Upkeep!MessagesAccounted /\ (Chat!TypeOK /\ Chat!ChatAgrees) => NothingIsLost
  BY DEF NothingIsLost
<1> QED
  BY <1>2, <1>3, <1>4, PTL

-----------------------------------------------------------------------------
(* The types, which need those of what is sent to a provider                 *)

\* What goes to the model, and while there is a request the question is known.
ContextInv == Context!TypeOK /\ (request # <<>> => news # <<>>)

\* The newest messages of a sequence are messages of it.
LEMMA NewestKeeps ==
    ASSUME NEW S, NEW h \in Seq(S), NEW n \in Int
    PROVE  Context!Newest(n, h) \in Seq(S)
<1> DEFINE first == (IF Len(h) > n THEN Len(h) - n ELSE 0) + 1
<1>1. first \in Int /\ first >= 1 /\ Len(h) \in Nat
  OBVIOUS
<1>2. SubSeq(h, first, Len(h)) \in Seq(S)
  BY <1>1, SubSeqProperties
<1> QED
  BY <1>2 DEF Context!Newest

\* Pruning changes sizes only.
LEMMA PruneKeeps ==
    ASSUME NEW h \in Seq(Context!Messages)
    PROVE  Context!Prune(h) \in Seq(Context!Messages)
<1>1. ASSUME NEW i \in 1..Len(h)
      PROVE  /\ h[i] \in Context!Messages
             /\ [h[i] EXCEPT !.size = "omitted"] \in Context!Messages
             /\ [h[i] EXCEPT !.size = "short"] \in Context!Messages
  <2>1. h[i] \in Context!Messages
    OBVIOUS
  <2>2. "omitted" \in Context!Sizes /\ "short" \in Context!Sizes
    BY DEF Context!Sizes
  <2> QED
    BY <2>1, <2>2 DEF Context!Messages
<1>2. DOMAIN h = 1..Len(h) /\ Len(h) \in Nat
  OBVIOUS
<1>3. Context!Prune(h) \in [1..Len(h) -> Context!Messages]
  BY <1>1, <1>2 DEF Context!Prune
<1> QED
  BY <1>2, <1>3, SeqDef

\* Compaction puts a few messages of its own before the newest ones.
LEMMA CompactKeeps ==
    ASSUME Context!ContextAssumption, NEW h \in Seq(Context!Messages)
    PROVE  /\ Context!AutoCompact(h) \in Seq(Context!Messages)
           /\ Context!Guard(h) \in Seq(Context!Messages)
           /\ Context!CompactOverflow(h) \in Seq(Context!Messages)
<1>1. Context!Prompt \in Context!Messages /\ Context!Note \in Context!Messages
  BY DEF Context!Prompt, Context!Note, Context!Of, Context!Messages, Context!Kinds, Context!Sizes
<1>2. CompactKeepRecent \in Int
  BY DEF Context!ContextAssumption
<1>3. Context!AutoCompact(h) \in Seq(Context!Messages)
  BY <1>1, <1>2, NewestKeeps DEF Context!AutoCompact
<1>4. Context!Guard(h) \in Seq(Context!Messages)
  BY <1>1, <1>2, NewestKeeps DEF Context!Guard
<1>5. Context!CompactOverflow(h) \in Seq(Context!Messages)
  <2> DEFINE keep == IF Len(h) \div 2 > 2 THEN Len(h) \div 2 ELSE 2
  <2>1. keep \in Int
    OBVIOUS
  <2>2. Context!CompactOverflow(h) = <<Context!Prompt, Context!Note>> \o Context!Newest(keep, h)
    BY DEF Context!CompactOverflow
  <2> HIDE DEF keep
  <2>3. Context!Newest(keep, h) \in Seq(Context!Messages)
    BY <2>1, NewestKeeps
  <2> QED
    BY <1>1, <2>2, <2>3
<1> QED
  BY <1>3, <1>4, <1>5

LEMMA AssembleKeeps ==
    ASSUME Context!ContextAssumption, NEW h \in Seq(Context!Messages),
           NEW question \in Context!Messages
    PROVE  Context!Assemble(h, question) \in Seq(Context!Messages)
<1>1. Context!Prompt \in Context!Messages
  BY DEF Context!Prompt, Context!Of, Context!Messages, Context!Kinds, Context!Sizes
<1>2. Context!Prune(Context!AutoCompact(h)) \in Seq(Context!Messages)
  BY PruneKeeps, CompactKeeps
<1>3. <<Context!Prompt>> \o Context!Prune(Context!AutoCompact(h)) \o <<question>> \in Seq(Context!Messages)
  BY <1>1, <1>2
<1> QED
  BY <1>3, CompactKeeps DEF Context!Assemble

LEMMA ContextNext ==
    ASSUME Context!ContextAssumption, ContextInv, [Context!Next]_contextVars
    PROVE  ContextInv'
<1>1. /\ MaxTurns \in Nat /\ MaxExchanges \in Nat /\ Compactions \in Nat
      /\ HistoryLimit - 1 \in Int
  BY DEF Context!ContextAssumption
<1>2. /\ conversation \in Seq(Context!Messages) /\ request \in Seq(Context!Messages)
      /\ news \in Seq(Context!Messages)
      /\ begun \in 0..MaxTurns /\ exchanges \in 0..MaxExchanges /\ overflows \in 0..Compactions
      /\ request # <<>> => news # <<>>
  BY DEF ContextInv, Context!TypeOK
<1>3. ASSUME NEW k \in Context!Kinds, NEW n \in Nat, NEW size \in Context!Sizes
      PROVE  /\ Context!Of(k, n) \in Context!Messages
             /\ [Context!Of(k, n) EXCEPT !.size = size] \in Context!Messages
  BY DEF Context!Of, Context!Messages, Context!Sizes
<1>4. /\ "question" \in Context!Kinds /\ "answer" \in Context!Kinds
      /\ "calls" \in Context!Kinds /\ "results" \in Context!Kinds
      /\ {"small", "long", "wide"} \subseteq Context!Sizes
      /\ begun \in Nat /\ begun + 1 \in Nat /\ exchanges + 1 \in Nat
  BY <1>1, <1>2 DEF Context!Kinds, Context!Sizes
<1>5. CASE Context!Begin
  <2> DEFINE question == Context!Of("question", begun + 1)
  <2>1. question \in Context!Messages
    <3>1. "small" \in Context!Sizes
      BY <1>4
    <3> QED
      BY <1>3, <1>4, <3>1, Zenon
  <2>2. request' \in Seq(Context!Messages)
    <3>1. Context!Newest(HistoryLimit - 1, conversation) \in Seq(Context!Messages)
      BY <1>1, <1>2, NewestKeeps
    <3> QED
      BY <1>5, <2>1, <3>1, AssembleKeeps DEF Context!Begin
  <2>3. news' \in Seq(Context!Messages) /\ news' # <<>>
    BY <1>5, <2>1 DEF Context!Begin
  <2>4. begun' \in 0..MaxTurns /\ overflows' \in 0..Compactions
    BY <1>1, <1>2, <1>5 DEF Context!Begin
  <2>5. UNCHANGED <<conversation, exchanges>>
    BY <1>5 DEF Context!Begin
  <2> QED
    BY <1>2, <2>2, <2>3, <2>4, <2>5 DEF ContextInv, Context!TypeOK
<1>6. CASE Context!Exchange
  <2>1. PICK size \in {"small", "long", "wide"} :
          LET added == <<Context!Of("calls", exchanges + 1),
                         [Context!Of("results", exchanges + 1) EXCEPT !.size = size]>>
          IN  request' = request \o added /\ news' = news \o added
    BY <1>6 DEF Context!Exchange
  <2>2. /\ Context!Of("calls", exchanges + 1) \in Context!Messages
        /\ [Context!Of("results", exchanges + 1) EXCEPT !.size = size] \in Context!Messages
    <3>1. size \in Context!Sizes
      BY <1>4
    <3> QED
      BY <1>3, <1>4, <3>1, Zenon
  <2>3. request' \in Seq(Context!Messages) /\ news' \in Seq(Context!Messages) /\ news' # <<>>
    BY <1>2, <2>1, <2>2
  <2>4. exchanges' \in 0..MaxExchanges /\ UNCHANGED <<conversation, begun, overflows>>
    BY <1>1, <1>2, <1>6 DEF Context!Exchange
  <2> QED
    BY <1>2, <2>3, <2>4 DEF ContextInv, Context!TypeOK
<1>7. CASE Context!Overflows
  <2>1. request' \in Seq(Context!Messages) /\ news # <<>>
    BY <1>2, <1>7, CompactKeeps DEF Context!Overflows
  <2>2. overflows' \in 0..Compactions /\ UNCHANGED <<conversation, news, begun, exchanges>>
    BY <1>1, <1>2, <1>7 DEF Context!Overflows
  <2> QED
    BY <1>2, <2>1, <2>2 DEF ContextInv, Context!TypeOK
<1>8. CASE Context!Answer
  <2>1. Context!Of("answer", begun) \in Context!Messages
    <3>1. "small" \in Context!Sizes
      BY <1>4
    <3> QED
      BY <1>3, <1>4, <3>1, Zenon
  <2>2. conversation' \in Seq(Context!Messages)
    BY <1>2, <1>8, <2>1 DEF Context!Answer
  <2>3. /\ request' = <<>> /\ news' = <<>> /\ overflows' = 0
        /\ UNCHANGED <<begun, exchanges>>
    BY <1>8 DEF Context!Answer
  <2> QED
    BY <1>1, <1>2, <2>2, <2>3 DEF ContextInv, Context!TypeOK
<1>9. CASE Context!Fail
  <2>1. news[1] \in Context!Messages
    BY <1>2, <1>9 DEF Context!Fail
  <2>2. conversation' \in Seq(Context!Messages)
    BY <1>2, <1>9, <2>1 DEF Context!Fail
  <2>3. /\ request' = <<>> /\ news' = <<>> /\ overflows' = 0
        /\ UNCHANGED <<begun, exchanges>>
    BY <1>9 DEF Context!Fail
  <2> QED
    BY <1>1, <1>2, <2>2, <2>3 DEF ContextInv, Context!TypeOK
<1>10. CASE UNCHANGED contextVars
  BY <1>2, <1>10 DEF contextVars, ContextInv, Context!TypeOK
<1> QED
  BY <1>5, <1>6, <1>7, <1>8, <1>9, <1>10 DEF Context!Next

LEMMA ContextBehaves == Spec => [](Context!TypeOK)
<1>1. Context!ContextAssumption
  BY ServicesAssumption
<1>2. Init => ContextInv
  <2>1. Init => Context!Init
    BY DEF Init
  <2> QED
    BY <1>1, <2>1 DEF Context!Init, Context!ContextAssumption, ContextInv, Context!TypeOK
<1>3. ContextInv /\ [Next]_vars => ContextInv'
  BY <1>1, StepOfPart, ContextNext
<1>4. ContextInv => Context!TypeOK
  BY DEF ContextInv
<1> QED
  BY <1>2, <1>3, <1>4, PTL DEF Spec

\* Which part runs is settled at the start.
PartNames == {"serving", "turns", "rates", "subagents", "tools", "upkeep", "log", "config",
            "reload", "keys", "asks", "context", "chat", "stream", "plugins", "plugin"}

LEMMA PartStays == Spec => [](part \in PartNames)
<1>1. Init => part \in PartNames
  BY DEF Init, PartNames
<1>2. part \in PartNames /\ [Next]_vars => (part \in PartNames)'
  BY Zenon DEF Next, vars, OthersKeep, ServingStep, TurnsStep, RatesStep, SubsStep, ToolsStep,
               UpkeepStep, LogStep, ConfigStep, ReloadStep, KeysStep, AsksStep, ContextStep,
               ChatStep, StreamStep, PluginsStep, PluginStep
<1> QED
  BY <1>1, <1>2, PTL DEF Spec

\* Every variable of every part keeps its type, but for a stream's parser.
THEOREM TypesOfServices == Spec => []TypeOK
<1>1. /\ Serving!GatewayAssumption /\ Turns!AgentTurnsAssumption /\ Rates!RateLimiterAssumption
      /\ Subs!SubagentsAssumption /\ Upkeep!MaintenanceAssumption /\ Log!EventLogAssumption
      /\ Config!DocumentAssumption /\ Reload!ReloadAssumption /\ Keys!FailoverAssumption
      /\ Asks!WebTurnsAssumption /\ Chat!WebChatAssumption
  BY GatewayPartsAssumption, AgentPartsAssumption
  DEF GatewayPartsAssumption, AgentPartsAssumption
<1>2. Spec => []Serving!TypeOK
  BY <1>1, ServingBehaves, TypeCorrect
<1>3. Spec => [](Turns!TypeOK /\ Turns!CallsBounded /\ Turns!EndEvents /\ Turns!StoppedWasAsked)
  BY <1>1, TurnsBehave, TurnsAlwaysAgree
<1>4. Spec => [](Rates!TypeOK /\ Rates!RateIsBounded /\ Rates!AdviceIsSound)
  BY <1>1, RatesBehave, RateAlwaysBounded
<1>5. Spec => []SubsInv
  BY <1>1, SubsBehave, SubsInvAlways
<1>6. Spec => [](Tools!TypeOK /\ Tools!GatesHold /\ Tools!RecordAgrees)
  BY ToolsBehave, ToolsAlwaysGated
<1>7. Spec => [](Upkeep!TypeOK /\ Upkeep!MessagesAccounted)
  BY <1>1, UpkeepBehaves, MessagesAlwaysAccounted
<1>8. Spec => [](Log!TypeOK /\ Log!EventLogAgrees)
  BY <1>1, LogBehaves, EventLogAlwaysAgrees
<1>9. Spec => [](Config!TypeOK /\ Config!EditsSurvive)
  BY <1>1, ConfigBehaves, EditsAlwaysSurvive
<1>10. Spec => [](Reload!TypeOK /\ Reload!InForceIsCurrent)
  BY <1>1, ReloadBehaves, InForceAlwaysCurrent
<1>11. Spec => [](Keys!TypeOK /\ Keys!ProbesAreSparse)
  BY <1>1, KeysBehave, ProbesAlwaysSparse
<1>12. Spec => [](Asks!TypeOK /\ Asks!HistoryIsPast)
  BY <1>1, AsksBehave, HistoryAlwaysPast
<1>13. Spec => [](Chat!TypeOK /\ Chat!ChatAgrees)
  BY <1>1, ChatBehaves, ChatAlwaysAgrees
<1>14. /\ part \in PartNames /\ SubsInv /\ PluginsRight
       /\ Serving!TypeOK /\ Turns!TypeOK /\ Rates!TypeOK /\ Tools!TypeOK /\ Upkeep!TypeOK
       /\ Log!TypeOK /\ Config!TypeOK /\ Reload!TypeOK /\ Keys!TypeOK /\ Asks!TypeOK
       /\ Context!TypeOK /\ Chat!TypeOK
       => TypeOK
  BY PluginsRightMeans, Zenon DEF SubsInv, TypeOK, PartNames
<1> QED
  BY <1>2, <1>3, <1>4, <1>5, <1>6, <1>7, <1>8, <1>9, <1>10, <1>11, <1>12, <1>13, <1>14,
     ContextBehaves, PartStays, PluginsRightAlways, PTL
================================================================================
