----------------------------- MODULE GatewayClient -----------------------------
(***************************************************************************)
(* The client of the gateway (gateway/gateway_client.cpp): Connect, Call   *)
(* and Disconnect on threads of the program, the callbacks on the thread   *)
(* of the WebSocket library, which reconnects by itself until it is        *)
(* stopped.  The server answers each request at most once, in any order,   *)
(* and not at all when the connection went away.                           *)
(*                                                                         *)
(* Call holds the lock of its pending call and then wants that of the map  *)
(* (pending_mutex_) when its time is up; the delivery of an answer takes   *)
(* the two in the other order.                                             *)
(***************************************************************************)
EXTENDS Naturals, FiniteSets

CONSTANTS Caller,          \* calls, each made once
          MaxOpens         \* bound: how often the connection opens

ClientAssumption == MaxOpens \in Nat

VARIABLES socket,          \* the WebSocket of the library
          opens,           \* how often it opened
          connected,       \* connected_
          authenticated,   \* authenticated_
          hello,           \* hello_request_id_ (the opening it was sent in) and hello_done_
          connect,         \* where Connect is
          call,            \* where each Call is
          pending,         \* pending_calls_
          atServer,        \* requests the server has still to answer
          inbox,           \* frames on their way to the client
          reader           \* the library's thread: the call whose lock it wants

clientVars == <<socket, opens, connected, authenticated, hello, connect, call,
                pending, atServer, inbox, reader>>

Challenge  == [kind |-> "challenge"]
Request    == [kind : {"hello"}, id : 1..MaxOpens] \cup [kind : {"call"}, id : Caller]
Answer(r, ok) == [kind |-> r.kind, id |-> r.id, ok |-> ok]

TypeOK ==
    /\ socket \in {"new", "connecting", "open", "stopped"}
    /\ opens \in 0..MaxOpens
    /\ connected \in BOOLEAN /\ authenticated \in BOOLEAN
    /\ hello \in [id : 0..MaxOpens, done : BOOLEAN]
    /\ connect \in {"new", "waiting", "seen", "handshake", "ok", "failed", "over"}
    /\ call \in [Caller -> {"idle", "waiting", "answered", "late",
                            "returned", "timeout", "refused"}]
    /\ pending \subseteq Caller
    /\ atServer \subseteq Request
    /\ inbox \subseteq {Challenge} \cup {Answer(r, ok) : r \in Request, ok \in BOOLEAN}
    /\ reader \subseteq Caller

Init ==
    /\ socket = "new"
    /\ opens = 0
    /\ connected = FALSE /\ authenticated = FALSE
    /\ hello = [id |-> 0, done |-> FALSE]
    /\ connect = "new"
    /\ call = [c \in Caller |-> "idle"]
    /\ pending = {} /\ atServer = {} /\ inbox = {} /\ reader = {}

netVars == <<atServer, inbox, reader>>

-----------------------------------------------------------------------------
(* Connect and Disconnect                                                   *)

ConnectBegins ==
    /\ connect = "new"
    /\ connect' = "waiting"
    /\ socket' = "connecting"
    /\ UNCHANGED <<opens, connected, authenticated, hello, call, pending, netVars>>

\* The loop that waits: the callback has set connected_, or the state of the
\* socket was seen to be open
ConnectPolls ==
    /\ connect = "waiting"
    /\ \/ connected /\ connect' = "handshake"
       \/ socket = "open" /\ connect' = "seen"
    /\ UNCHANGED <<socket, opens, connected, authenticated, hello, call, pending, netVars>>

\* ... and is taken down only now
ConnectNotes ==
    /\ connect = "seen"
    /\ connected' = TRUE
    /\ connect' = "handshake"
    /\ UNCHANGED <<socket, opens, authenticated, hello, call, pending, netVars>>

\* The deadline passed; ws_.stop joins the library's thread
ConnectGivesUp ==
    /\ connect = "waiting"
    /\ ~connected
    /\ reader = {}
    /\ connect' = "failed"
    /\ socket' = "stopped"
    /\ UNCHANGED <<opens, connected, authenticated, hello, call, pending, netVars>>

\* hello_done_, or the second deadline: Connect returns TRUE in either case
HandshakeEnds ==
    /\ connect = "handshake"
    /\ connect' = "ok"
    /\ UNCHANGED <<socket, opens, connected, authenticated, hello, call, pending, netVars>>

\* Disconnect, after the last call; nothing if the connection is down just then
Disconnect ==
    /\ connect = "ok"
    /\ \A c \in Caller : call[c] \in {"idle", "returned", "timeout", "refused"}
    /\ connect' = "over"
    /\ IF connected
       THEN /\ socket' = "stopped"
            /\ connected' = FALSE /\ authenticated' = FALSE
       ELSE UNCHANGED <<socket, connected, authenticated>>
    /\ UNCHANGED <<opens, hello, call, pending, netVars>>

-----------------------------------------------------------------------------
(* Call                                                                     *)

CallBegins(c) ==
    /\ connect = "ok"
    /\ call[c] = "idle"
    /\ IF ~connected
       THEN /\ call' = [call EXCEPT ![c] = "refused"]
            /\ UNCHANGED <<pending, atServer>>
       ELSE /\ reader = {}                               \* pending_mutex_
            /\ call' = [call EXCEPT ![c] = "waiting"]
            /\ pending' = pending \cup {c}
            /\ atServer' = IF socket = "open"
                           THEN atServer \cup {[kind |-> "call", id |-> c]} ELSE atServer
    /\ UNCHANGED <<socket, opens, connected, authenticated, hello, connect, inbox, reader>>

\* The wait ends with its predicate still false, the lock of the call held again
CallTimesOut(c) ==
    /\ call[c] = "waiting"
    /\ call' = [call EXCEPT ![c] = "late"]
    /\ UNCHANGED <<socket, opens, connected, authenticated, hello, connect, pending, netVars>>

\* Fault: a call that timed out leaves its entry
LateCallReturns(c) ==
    /\ call[c] \in {"answered", "late"}
    /\ reader = {}
    /\ call' = [call EXCEPT ![c] = IF @ = "late" THEN "timeout" ELSE "returned"]
    /\ pending' = IF call[c] = "late" THEN pending ELSE pending \ {c}
    /\ UNCHANGED <<socket, opens, connected, authenticated, hello, connect, netVars>>

\* The entry is erased, under pending_mutex_
CallReturns(c) ==
    /\ call[c] \in {"answered", "late"}
    /\ reader = {}
    /\ call' = [call EXCEPT ![c] = IF @ = "late" THEN "timeout" ELSE "returned"]
    /\ pending' = pending \ {c}
    /\ UNCHANGED <<socket, opens, connected, authenticated, hello, connect, netVars>>

-----------------------------------------------------------------------------
(* The library's thread and the server                                      *)

\* on_message, Open: the server sends its challenge
Opens ==
    /\ socket = "connecting" /\ opens < MaxOpens
    /\ socket' = "open"
    /\ opens' = opens + 1
    /\ connected' = TRUE
    /\ inbox' = {Challenge}
    /\ UNCHANGED <<authenticated, hello, connect, call, pending, atServer, reader>>

\* on_message, Close: pending calls are left to their time-outs
Closes ==
    /\ socket = "open" /\ reader = {}
    /\ socket' = "connecting"
    /\ connected' = FALSE /\ authenticated' = FALSE
    /\ hello' = [hello EXCEPT !.done = TRUE]
    /\ atServer' = {} /\ inbox' = {}
    /\ UNCHANGED <<opens, connect, call, pending, reader>>

ServerAnswers ==
    /\ socket = "open"
    /\ \E r \in atServer, ok \in BOOLEAN :
         /\ atServer' = atServer \ {r}
         /\ inbox' = inbox \cup {Answer(r, ok)}
    /\ UNCHANGED <<socket, opens, connected, authenticated, hello, connect, call, pending, reader>>

Receives(f) == socket = "open" /\ reader = {} /\ f \in inbox /\ inbox' = inbox \ {f}

\* handle_frame: the challenge is answered with a hello
HandleChallenge ==
    /\ Receives(Challenge)
    /\ hello' = [hello EXCEPT !.id = opens]
    /\ atServer' = atServer \cup {[kind |-> "hello", id |-> opens]}
    /\ UNCHANGED <<socket, opens, connected, authenticated, connect, call, pending, reader>>

\* handle_frame: the answer to the hello counts once in the life of the client
HandleHello(f) ==
    /\ f.kind = "hello"
    /\ Receives(f)
    /\ IF ~hello.done /\ f.id = hello.id
       THEN /\ authenticated' = (authenticated \/ f.ok)
            /\ hello' = [hello EXCEPT !.done = TRUE]
       ELSE UNCHANGED <<authenticated, hello>>
    /\ UNCHANGED <<socket, opens, connected, connect, call, pending, atServer, reader>>

\* handle_frame: an answer to a call is looked up, and pending_mutex_ kept
HandleAnswer(f) ==
    /\ f.kind = "call"
    /\ Receives(f)
    /\ reader' = pending \cap {f.id}
    /\ UNCHANGED <<socket, opens, connected, authenticated, hello, connect, call,
                   pending, atServer>>

\* The lock of the call, which a call that timed out holds
Deliver(c) ==
    /\ c \in reader
    /\ call[c] # "late"
    /\ call' = [call EXCEPT ![c] = "answered"]
    /\ reader' = {}
    /\ UNCHANGED <<socket, opens, connected, authenticated, hello, connect, pending,
                   atServer, inbox>>

CallStep(c) == CallTimesOut(c) \/ CallReturns(c)

Next ==
    \/ ConnectBegins \/ ConnectPolls \/ ConnectNotes \/ ConnectGivesUp
    \/ HandshakeEnds \/ Disconnect
    \/ \E c \in Caller : CallBegins(c) \/ CallStep(c) \/ Deliver(c)
    \/ Opens \/ Closes \/ ServerAnswers \/ HandleChallenge
    \/ \E f \in inbox : HandleHello(f) \/ HandleAnswer(f)

Spec == Init /\ [][Next]_clientVars

\* A wait ends when its time is up, a thread that can take its lock takes it.
Fairness == \A c \in Caller : WF_clientVars(CallStep(c)) /\ WF_clientVars(Deliver(c))

FairSpec == Spec /\ Fairness

-----------------------------------------------------------------------------
(* Properties                                                               *)

\* The map of pending calls holds exactly the calls under way, however they end;
\* an open connection is known to be open, and a client that takes itself for
\* authenticated has had the hello of the present connection accepted.
ClientAgrees ==
    /\ pending = {c \in Caller : call[c] \in {"waiting", "answered", "late"}}
    /\ socket = "open" => connected
    /\ authenticated => socket = "open" /\ hello = [id |-> opens, done |-> TRUE]

\* The time-out of a call and the delivery of its answer each hold the lock the
\* other one wants.
Deadlocked == \E c \in reader : call[c] = "late"

\* Every call returns, unless the answer to a call came just when its time was up.
CallsReturn ==
    \A c \in Caller : c \in pending ~> c \notin pending \/ Deadlocked
=============================================================================
