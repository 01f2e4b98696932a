----------------------------- MODULE GatewayParts ------------------------------
(***************************************************************************)
(* Parts of Services: the gateway's server, the configuration it runs by,  *)
(* the keys of its providers, and the chat of its control UI, each with    *)
(* constants and variables of its own.                                     *)
(***************************************************************************)
EXTENDS Naturals, Sequences

CONSTANTS Connections, Edit, User, Handler

\* Of each part, in the order in which they come below.
CONSTANTS ServingRequests, AuthMode, MaxHandlers,
          MaxCrashes, MaxChanges, MaxSignals,
          Profiles, Priority, ProbeInterval, FailureWindowDecay, KeyTick, KeyTime, MaxCalls,
          ChatMessages, MaxSockets, MaxGiven, MaxMeddling

VARIABLES life, socket, entry, thread, tracked, handler, from, kind, outcome, replies,
          document, inode, backup, edit, crashes, endangered,
          gateway, file, stamp, config, agent, checker, reload, requested, seen, signals,
          trusted,
          now, cooldown, lastUsed, pin, mutex, use, calls, probed,
          wire, retry, connect, signing, connected, session, run, sending, queue, draft,
          up, down, sends, sockets, typed, meddling, accepted, failed, discarded,
          upset

Serving == INSTANCE GatewayServer WITH MaxRequests <- ServingRequests
Config == INSTANCE ConfigDocument WITH writer <- edit, excused <- endangered
Reload == INSTANCE ConfigReload WITH document <- file
Keys == INSTANCE Failover WITH Tick <- KeyTick, MaxTime <- KeyTime
Chat == INSTANCE WebChat
          WITH Session <- User, MaxMessages <- ChatMessages, socket <- wire, turns <- sends

ASSUME GatewayPartsAssumption ==
       /\ Serving!GatewayAssumption
       /\ Config!DocumentAssumption /\ Reload!ReloadAssumption
       /\ Keys!FailoverAssumption /\ Chat!WebChatAssumption

servingVars == <<life, socket, entry, thread, tracked, handler, from, kind, outcome, replies>>
configVars == <<document, inode, backup, edit, crashes, endangered>>
reloadVars == <<gateway, file, stamp, config, agent, checker, reload, requested, seen,
                signals, trusted>>
keyVars == <<now, cooldown, lastUsed, pin, mutex, use, calls, probed>>
chatVars == <<wire, retry, connect, signing, connected, session, run, sending, queue, draft,
              up, down, sends, sockets, typed, meddling, accepted, failed,
              discarded, upset>>
================================================================================
