---------------------------- MODULE GatewayServer ----------------------------
(***************************************************************************)
(* GatewayServer (src/gateway/gateway_server.cpp): one thread per          *)
(* connection takes that client's requests one after the other.  It runs   *)
(* most handlers itself; agent.request and chat.send get a thread of their *)
(* own, of which there shall be at most MaxHandlers.  Stop must wait for   *)
(* all of these threads.                                                   *)
(*                                                                         *)
(* The WebSocket library is external: it calls on_connection, drops what   *)
(* is sent to a closed socket, may report a Close while the connection's   *)
(* thread is at work, and its stop() closes every socket and waits for the *)
(* connections' threads.                                                   *)
(***************************************************************************)
EXTENDS Integers, FiniteSets

CONSTANTS
    Connections,   \* connections clients may make
    MaxRequests,   \* bound on the requests they send
    AuthMode,      \* auth_mode_: "token" or "none"
    MaxHandlers    \* kMaxConcurrentAsyncHandlers

Nobody   == "nobody"
NoReq    == 0

GatewayAssumption ==
    /\ IsFiniteSet(Connections) /\ Nobody \notin Connections
    /\ MaxRequests \in Nat
    /\ AuthMode \in {"token", "none"}
    /\ MaxHandlers \in Nat \ {0}

Requests == 1..MaxRequests      \* numbered in the order they are received
Kinds    == {"async", "plain"}  \* whether the method is one of kAsyncMethods

VARIABLES
    life,          \* where Start/Stop are
    socket,        \* the WebSocket of each connection
    entry,         \* its entry in connections_: none, unauthenticated, known
    thread,        \* where its thread is, and with which request
    tracked,       \* async_threads_, by the request each thread serves
    handler,       \* what the handler thread of a request does
    from,          \* the connection a request came from
    kind,          \* its kind
    outcome,       \* how it ended
    replies        \* the number of responses sent for it

vars == <<life, socket, entry, thread, tracked, handler, from, kind, outcome, replies>>

Idle       == [step |-> "idle", req |-> NoReq]
At(k, s)   == thread[k].step = s
Moves(k, s) == thread' = [thread EXCEPT ![k].step = s]
Rests(k)   == thread' = [thread EXCEPT ![k] = Idle]

\* Handler threads that have not come to their end.
Live  == {r \in Requests : handler[r] \in {"running", "replied"}}

Init ==
    /\ life = "stopped"
    /\ socket = [k \in Connections |-> "new"]
    /\ entry = [k \in Connections |-> "none"]
    /\ thread = [k \in Connections |-> Idle]
    /\ tracked = {}
    /\ handler = [r \in Requests |-> "none"]
    /\ from = [r \in Requests |-> Nobody]
    /\ kind = [r \in Requests |-> "plain"]
    /\ outcome = [r \in Requests |-> "none"]
    /\ replies = [r \in Requests |-> 0]
-------------------------------------------------------------------------------
(***************************************************************************)
(* on_connection.                                                          *)
(***************************************************************************)
Open(k) ==
    /\ life = "up" /\ socket[k] = "new"
    /\ socket' = [socket EXCEPT ![k] = "open"]
    /\ entry' = [entry EXCEPT ![k] = "unauthenticated"]
    /\ UNCHANGED <<life, thread, tracked, handler, from, kind, outcome, replies>>

Close(k) ==
    /\ socket[k] = "open"
    /\ socket' = [socket EXCEPT ![k] = "closed"]
    /\ entry' = [entry EXCEPT ![k] = "none"]
    /\ UNCHANGED <<life, thread, tracked, handler, from, kind, outcome, replies>>

\* connect.hello with the right token; a wrong one changes nothing.
Hello(k) ==
    /\ socket[k] = "open" /\ At(k, "idle")
    /\ entry' = [entry EXCEPT ![k] = "known"]
    /\ UNCHANGED <<life, socket, thread, tracked, handler, from, kind, outcome, replies>>

Fresh(r) == from[r] = Nobody /\ \A q \in 1..(r - 1) : from[q] # Nobody

Receive(k, r, what) ==
    /\ socket[k] = "open" /\ At(k, "idle") /\ Fresh(r)
    /\ from' = [from EXCEPT ![r] = k] /\ kind' = [kind EXCEPT ![r] = what]
    /\ thread' = [thread EXCEPT ![k] = [step |-> "received", req |-> r]]
    /\ UNCHANGED <<life, socket, entry, tracked, handler, outcome, replies>>
-------------------------------------------------------------------------------
(***************************************************************************)
(* handle_rpc_request, on the connection's thread.                         *)
(***************************************************************************)

\* A response goes to the socket the request came from, if that is open.
Replies(r, open, what) ==
    /\ outcome' = [outcome EXCEPT ![r] = IF open THEN what ELSE "dropped"]
    /\ replies' = IF open THEN [replies EXCEPT ![r] = @ + 1] ELSE replies

\* An early return.
Refuse(k, what) ==
    /\ Replies(thread[k].req, socket[k] = "open", what)
    /\ Rests(k)

\* The entry is copied once, under its lock; all checks are on the copy.
Passes(k) ==
    /\ entry[k] # "none"
    /\ AuthMode = "token" => entry[k] = "known"

\* Fault: every handler gets a thread of its own.
ScreenAllAsync(k) ==
    /\ At(k, "received")
    /\ \/ Refuse(k, "refused")
       \/ Passes(k) /\ Moves(k, "screened") /\ UNCHANGED <<outcome, replies>>
    /\ UNCHANGED <<life, socket, entry, tracked, handler, from, kind>>

\* RBAC, the rate limiter and the table of handlers may refuse any request.
Screen(k) ==
    /\ At(k, "received")
    /\ \/ Refuse(k, "refused")
       \/ Passes(k) /\ UNCHANGED <<outcome, replies>>
            /\ Moves(k, IF kind[thread[k].req] = "async" THEN "screened" ELSE "serving")
    /\ UNCHANGED <<life, socket, entry, tracked, handler, from, kind>>

\* A handler that needs no thread returns or throws.
Serve(k) ==
    /\ At(k, "serving")
    /\ Refuse(k, "answered")
    /\ UNCHANGED <<life, socket, entry, tracked, handler, from, kind>>

Ended  == {r \in Requests : handler[r] = "ended"}
Full(T) == Cardinality(T) >= MaxHandlers

\* Fault: finished threads are not taken out first.
AdmitWithoutReaping(k) ==
    /\ At(k, "screened")
    /\ IF Full(tracked) THEN Refuse(k, "busy")
                        ELSE Moves(k, "admitted") /\ UNCHANGED <<outcome, replies>>
    /\ UNCHANGED <<life, socket, entry, tracked, handler, from, kind>>

\* Fault: the request that finds no place is answered and then served.
AdmitFallsThrough(k) ==
    /\ At(k, "screened")
    /\ tracked' = tracked \ Ended
    /\ IF Full(tracked') THEN Replies(thread[k].req, socket[k] = "open", "busy")
                         ELSE UNCHANGED <<outcome, replies>>
    /\ Moves(k, "admitted")
    /\ UNCHANGED <<life, socket, entry, handler, from, kind>>

\* Fault: the request that finds no place is forgotten.
AdmitForgets(k) ==
    /\ At(k, "screened")
    /\ tracked' = tracked \ Ended
    /\ IF Full(tracked') THEN Rests(k) ELSE Moves(k, "admitted")
    /\ UNCHANGED <<life, socket, entry, handler, from, kind, outcome, replies>>

\* Fault: the limit is compared with the threads there would be without one.
AdmitOneMore(k) ==
    /\ At(k, "screened")
    /\ tracked' = tracked \ Ended
    /\ IF Cardinality(tracked') > MaxHandlers THEN Refuse(k, "busy")
       ELSE Moves(k, "admitted") /\ UNCHANGED <<outcome, replies>>
    /\ UNCHANGED <<life, socket, entry, handler, from, kind>>

\* One critical section: threads that are done are joined and taken out, the
\* rest is counted.
Admit(k) ==
    /\ At(k, "screened")
    /\ tracked' = tracked \ Ended
    /\ IF Full(tracked') THEN Refuse(k, "busy")
                         ELSE Moves(k, "admitted") /\ UNCHANGED <<outcome, replies>>
    /\ UNCHANGED <<life, socket, entry, handler, from, kind>>

\* std::thread t(...), outside of any lock.
Spawn(k) ==
    /\ At(k, "admitted")
    /\ Moves(k, "spawned")
    /\ handler' = [handler EXCEPT ![thread[k].req] = "running"]
    /\ UNCHANGED <<life, socket, entry, tracked, from, kind, outcome, replies>>

\* async_threads_.push_back, in a critical section of its own.
Track(k) ==
    /\ At(k, "spawned")
    /\ Rests(k)
    /\ tracked' = tracked \cup {thread[k].req}
    /\ UNCHANGED <<life, socket, entry, handler, from, kind, outcome, replies>>
-------------------------------------------------------------------------------
(***************************************************************************)
(* A handler thread.                                                       *)
(***************************************************************************)

\* Fault: a response that finds no connection is tried again.
RespondOrRetry(r) ==
    /\ handler[r] = "running"
    /\ IF entry[from[r]] = "none" THEN UNCHANGED <<handler, outcome, replies>>
       ELSE handler' = [handler EXCEPT ![r] = "replied"] /\ Replies(r, TRUE, "answered")
    /\ UNCHANGED <<life, socket, entry, thread, tracked, from, kind>>

\* The handler returns or throws; SendResponseTo looks for the connection.
Respond(r) ==
    /\ handler[r] = "running"
    /\ handler' = [handler EXCEPT ![r] = "replied"]
    /\ Replies(r, entry[from[r]] # "none", "answered")
    /\ UNCHANGED <<life, socket, entry, thread, tracked, from, kind>>

\* The done flag is set and the thread ends.
End(r) ==
    /\ handler[r] = "replied"
    /\ handler' = [handler EXCEPT ![r] = "ended"]
    /\ UNCHANGED <<life, socket, entry, thread, tracked, from, kind, outcome, replies>>
-------------------------------------------------------------------------------
(***************************************************************************)
(* Start and Stop.                                                         *)
(***************************************************************************)
Start ==
    /\ life = "stopped"
    /\ life' = "up"
    /\ UNCHANGED <<socket, entry, thread, tracked, handler, from, kind, outcome, replies>>

Stop ==
    /\ life = "up"
    /\ life' = "closing"
    /\ UNCHANGED <<socket, entry, thread, tracked, handler, from, kind, outcome, replies>>

\* Fault: the handlers' threads are joined while connections are served.
ServerStopsLater ==
    /\ life = "closing"
    /\ life' = "joining"
    /\ UNCHANGED <<socket, entry, thread, tracked, handler, from, kind, outcome, replies>>

\* server_->stop() returns.
ServerStopped ==
    /\ life = "closing"
    /\ \A k \in Connections : socket[k] # "open" /\ At(k, "idle")
    /\ life' = "joining"
    /\ UNCHANGED <<socket, entry, thread, tracked, handler, from, kind, outcome, replies>>

\* The last thread of async_threads_ is joined, then the maps are cleared.
StopReturns ==
    /\ life = "joining"
    /\ tracked \cap Live = {}
    /\ life' = "stopped" /\ tracked' = {}
    /\ entry' = [k \in Connections |-> "none"]
    /\ UNCHANGED <<socket, thread, handler, from, kind, outcome, replies>>
-------------------------------------------------------------------------------
ClientAct(k) ==
    \/ Open(k) \/ Close(k) \/ Hello(k)
    \/ \E r \in Requests, what \in Kinds : Receive(k, r, what)

ConnectionThread(k) == Screen(k) \/ Serve(k) \/ Admit(k) \/ Spawn(k) \/ Track(k)

HandlerThread(r) == Respond(r) \/ End(r)

Owner == Start \/ Stop \/ ServerStopped \/ StopReturns

Next ==
    \/ \E k \in Connections : ClientAct(k) \/ ConnectionThread(k)
    \/ \E r \in Requests : HandlerThread(r)
    \/ Owner

Spec == Init /\ [][Next]_vars

\* Threads run, handlers return, and a server that stops closes its sockets.
\* Clients need do nothing, and nobody has to call Start or Stop.
Fairness ==
    /\ \A k \in Connections : WF_vars(ConnectionThread(k))
    /\ \A k \in Connections : WF_vars(life = "closing" /\ Close(k))
    /\ \A r \in Requests : WF_vars(HandlerThread(r))
    /\ WF_vars(ServerStopped) /\ WF_vars(StopReturns)

FairSpec == Spec /\ Fairness
-------------------------------------------------------------------------------
\* Every variable holds a value of its type; what a connection's thread works
\* on came from that connection and has not ended.
TypeOK ==
    /\ life \in {"stopped", "up", "closing", "joining"}
    /\ socket \in [Connections -> {"new", "open", "closed"}]
    /\ entry \in [Connections -> {"none", "unauthenticated", "known"}]
    /\ thread \in [Connections ->
            [step : {"received", "serving", "screened", "admitted", "spawned"},
             req : Requests] \cup {Idle}]
    /\ tracked \subseteq {r \in Requests : kind[r] = "async"}
    /\ handler \in [Requests -> {"none", "running", "replied", "ended"}]
    /\ from \in [Requests -> Connections \cup {Nobody}]
    /\ kind \in [Requests -> Kinds]
    /\ outcome \in [Requests -> {"none", "answered", "refused", "busy", "dropped"}]
    /\ replies \in [Requests -> Nat]
    /\ \A k \in Connections : thread[k] # Idle => from[thread[k].req] = k

\* The limit on handler threads is tested and the new thread entered in two
\* critical sections, so other connections can slip in between: at most one
\* thread too many for each of them.
CeilingBound == Cardinality(Live) <= MaxHandlers + Cardinality(Connections) - 1

\* No handler thread gets lost before it has ended: Stop will find it in
\* async_threads_, unless a connection's thread, for which Stop waits first,
\* has yet to put it there; and once Stop has returned there is none.
HandlersAreJoined ==
    /\ Live \subseteq tracked \cup {thread[k].req : k \in {j \in Connections : At(j, "spawned")}}
    /\ life = "stopped" => Live = {}

\* A request gets one response at most, whichever of the early returns, the
\* connection's thread and the handler's thread sends it, and none only when
\* its client has gone.
OneReply ==
    \A r \in Requests :
        /\ replies[r] = IF outcome[r] \in {"answered", "refused", "busy"} THEN 1 ELSE 0
        /\ outcome[r] = "dropped" => socket[from[r]] = "closed"

\* Finished handlers take no place: a client is told that the server is busy
\* only while MaxHandlers of them are at work.
BusyOnlyWhenFull ==
    [][\A r \in Requests :
            outcome'[r] # outcome[r] /\ outcome'[r] = "busy" => Full(Live)]_vars

\* Every request comes to an end.
RequestsEnd == \A r \in Requests : from[r] # Nobody ~> outcome[r] # "none"

\* Stop returns, whatever clients and handlers are doing.
StopTerminates == life = "closing" ~> life = "stopped"
-------------------------------------------------------------------------------
\* gateway_server.cppm:212 "Ceiling on concurrently-running async RPC handlers
\* [...] Past this many in flight, further requests are rejected".
HandlersWithinCeiling == Cardinality(Live) <= MaxHandlers
===============================================================================
