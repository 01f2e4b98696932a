----------------------------- MODULE GatewayProofs -----------------------------
(***************************************************************************)
(* Proofs about the gateway among Services: its server, for any number of  *)
(* connections, requests and handlers, the configuration it runs by, for   *)
(* any number of edits and of signals, the keys of its providers, and the  *)
(* chat of its control UI, for any number of messages, connections and     *)
(* sessions.                                                               *)
(***************************************************************************)
EXTENDS GatewayParts, FiniteSetTheorems, SequenceTheorems, NaturalsInduction,
        WellFoundedInduction, TLAPS

(***************************************************************************)
(* The gateway server.  The invariant:                                     *)
(***************************************************************************)

\* What a connection's thread holds has not been answered by anyone, unless
\* the thread it was given has been started.
InHand ==
    \A k \in Connections : thread[k] # Serving!Idle =>
       LET r == thread[k].req IN
       /\ thread[k].step \in {"screened", "admitted", "spawned"} => kind[r] = "async"
       /\ IF Serving!At(k, "spawned") THEN handler[r] # "none"
                              ELSE handler[r] = "none" /\ outcome[r] = "none"

\* A request that was not received has no thread and no outcome, and one whose
\* handler is at work has no outcome yet.
Underway ==
    \A r \in Serving!Requests :
       /\ from[r] = Serving!Nobody => handler[r] = "none" /\ outcome[r] = "none"
       /\ from[r] # Serving!Nobody => socket[from[r]] # "new"
       /\ handler[r] = "running" => outcome[r] = "none"
       /\ r \in tracked => handler[r] # "none"

\* Open sockets have an entry, and when the WebSocket server has stopped there
\* are none, nor are their threads at work.
Sockets ==
    /\ \A k \in Connections : socket[k] = "open" => entry[k] # "none"
    /\ life \in {"joining", "stopped"} =>
         \A k \in Connections : socket[k] # "open" /\ thread[k] = Serving!Idle

ServingInv == Serving!TypeOK /\ InHand /\ Underway /\ Sockets /\ Serving!HandlersAreJoined /\ Serving!OneReply


\* What holds of a thread that is at work, and of two of them.
LEMMA Working ==
    ASSUME Serving!GatewayAssumption, Serving!TypeOK, InHand, Underway,
           NEW k \in Connections, thread[k].step # "idle"
    PROVE  /\ thread[k] # Serving!Idle /\ thread[k].req \in Serving!Requests /\ from[thread[k].req] = k
           /\ thread[k].step \in {"received", "serving", "screened", "admitted", "spawned"}
           /\ socket[k] # "new"
           /\ \A j \in Connections \ {k} : thread[j] # Serving!Idle => thread[j].req # thread[k].req
<1>1. thread[k] # Serving!Idle /\ k # Serving!Nobody
  BY DEF Serving!Idle, Serving!GatewayAssumption
<1>2. thread[k] \in [step : {"received", "serving", "screened", "admitted", "spawned"},
                     req : Serving!Requests]
  BY <1>1 DEF Serving!TypeOK
<1>3. from[thread[k].req] = k
  BY <1>1 DEF Serving!TypeOK
<1>4. socket[k] # "new"
  BY <1>1, <1>2, <1>3 DEF Underway
<1>5. ASSUME NEW j \in Connections \ {k}, thread[j] # Serving!Idle PROVE thread[j].req # thread[k].req
  BY <1>3, <1>5 DEF Serving!TypeOK
<1> QED
  BY <1>1, <1>2, <1>3, <1>4, <1>5

LEMMA InitInv == Serving!Init => ServingInv
<1> SUFFICES ASSUME Serving!Init PROVE ServingInv
  OBVIOUS
<1>1. Serving!TypeOK
  BY DEF Serving!Init, Serving!TypeOK, Serving!Kinds
<1>2. InHand /\ Underway /\ Sockets
  BY DEF Serving!Init, InHand, Underway, Sockets
<1>3. Serving!HandlersAreJoined /\ Serving!OneReply
  BY DEF Serving!Init, Serving!HandlersAreJoined, Serving!OneReply, Serving!Live
<1> QED
  BY <1>1, <1>2, <1>3 DEF ServingInv

-------------------------------------------------------------------------------
(***************************************************************************)
(* The steps of a client.                                                  *)
(***************************************************************************)
LEMMA OpenInv ==
    ASSUME Serving!GatewayAssumption, ServingInv, NEW k \in Connections, Serving!Open(k)
    PROVE  ServingInv'
<1>1. Serving!TypeOK'
  BY DEF ServingInv, Serving!TypeOK, Serving!Open
<1>2. InHand' /\ Underway' /\ Sockets'
  BY DEF ServingInv, Serving!TypeOK, InHand, Underway, Sockets, Serving!Open, Serving!At
<1>3. Serving!HandlersAreJoined'
  BY DEF ServingInv, Serving!HandlersAreJoined, Serving!Live, Serving!Open, Serving!At
<1>4. Serving!OneReply'
  BY DEF ServingInv, Serving!TypeOK, Underway, Serving!OneReply, Serving!Open
<1> QED
  BY <1>1, <1>2, <1>3, <1>4 DEF ServingInv

LEMMA CloseInv ==
    ASSUME Serving!GatewayAssumption, ServingInv, NEW k \in Connections, Serving!Close(k)
    PROVE  ServingInv'
<1>1. Serving!TypeOK'
  BY DEF ServingInv, Serving!TypeOK, Serving!Close
<1>2. InHand' /\ Underway' /\ Sockets'
  BY DEF ServingInv, Serving!TypeOK, InHand, Underway, Sockets, Serving!Close, Serving!At
<1>3. Serving!HandlersAreJoined'
  BY DEF ServingInv, Serving!HandlersAreJoined, Serving!Live, Serving!Close, Serving!At
<1>4. Serving!OneReply'
  BY DEF ServingInv, Serving!TypeOK, Underway, Serving!OneReply, Serving!Close
<1> QED
  BY <1>1, <1>2, <1>3, <1>4 DEF ServingInv

LEMMA HelloInv ==
    ASSUME ServingInv, NEW k \in Connections, Serving!Hello(k)
    PROVE  ServingInv'
<1>1. Serving!TypeOK'
  BY DEF ServingInv, Serving!TypeOK, Serving!Hello
<1>2. InHand' /\ Underway' /\ Sockets'
  BY DEF ServingInv, Serving!TypeOK, InHand, Underway, Sockets, Serving!Hello, Serving!At
<1>3. Serving!HandlersAreJoined' /\ Serving!OneReply'
  BY DEF ServingInv, Serving!HandlersAreJoined, Serving!OneReply, Serving!Live, Serving!Hello, Serving!At
<1> QED
  BY <1>1, <1>2, <1>3 DEF ServingInv

LEMMA ReceiveInv ==
    ASSUME Serving!GatewayAssumption, ServingInv, NEW k \in Connections, NEW r \in Serving!Requests,
           NEW what \in Serving!Kinds, Serving!Receive(k, r, what)
    PROVE  ServingInv'
<1>1. /\ Serving!TypeOK /\ thread[k].step = "idle" /\ thread[k] = Serving!Idle /\ socket[k] = "open"
      /\ k # Serving!Nobody /\ from[r] = Serving!Nobody
      /\ thread' = [thread EXCEPT ![k] = [step |-> "received", req |-> r]]
      /\ handler[r] = "none" /\ outcome[r] = "none" /\ r \notin tracked
  BY DEF ServingInv, Serving!TypeOK, Underway, Serving!Receive, Serving!Fresh, Serving!At, Serving!GatewayAssumption
<1>2. \A j \in Connections : thread[j] # Serving!Idle => from[thread[j].req] = j /\ thread[j].req # r
  BY <1>1, Serving!GatewayAssumption DEF Serving!TypeOK, Serving!GatewayAssumption
<1>3. Serving!TypeOK'
  <2>1. from' \in [Serving!Requests -> Connections \cup {Serving!Nobody}] /\ kind' \in [Serving!Requests -> Serving!Kinds]
    BY <1>1 DEF Serving!TypeOK, Serving!Receive
  <2>2. \A j \in Connections : thread'[j] # Serving!Idle => from'[thread'[j].req] = j
    BY <1>1, <1>2 DEF Serving!TypeOK, Serving!Receive
  <2>3. tracked' \subseteq {q \in Serving!Requests : kind'[q] = "async"}
    BY <1>1 DEF Serving!TypeOK, Serving!Receive
  <2> QED
    BY <1>1, <2>1, <2>2, <2>3 DEF Serving!TypeOK, Serving!Receive
<1>4. InHand'
  BY <1>1, <1>2 DEF ServingInv, Serving!TypeOK, InHand, Serving!Receive, Serving!At
<1>5. Underway'
  BY <1>1 DEF ServingInv, Serving!TypeOK, Underway, Serving!Receive
<1>6. Sockets'
  BY <1>1 DEF ServingInv, Serving!TypeOK, Sockets, Serving!Receive
<1>7. Serving!HandlersAreJoined'
  <2>1. \A j \in Connections : Serving!At(j, "spawned") => Serving!At(j, "spawned")' /\ thread'[j] = thread[j]
    BY <1>1 DEF Serving!TypeOK, Serving!At
  <2> QED
    BY <1>1, <2>1 DEF ServingInv, Serving!HandlersAreJoined, Serving!Live, Serving!Receive
<1>8. Serving!OneReply'
  BY <1>1 DEF ServingInv, Serving!TypeOK, Serving!OneReply, Serving!Receive
<1> QED
  BY <1>3, <1>4, <1>5, <1>6, <1>7, <1>8 DEF ServingInv

-------------------------------------------------------------------------------
(***************************************************************************)
(* The steps of a connection's thread.                                     *)
(***************************************************************************)

\* An early return, whether or not threads that ended were taken out before.
LEMMA RefuseInv ==
    ASSUME Serving!GatewayAssumption, ServingInv, NEW k \in Connections,
           NEW what \in {"answered", "refused", "busy"},
           thread[k].step \in {"received", "serving", "screened"}, Serving!Refuse(k, what),
           tracked' \in {tracked, tracked \ Serving!Ended},
           UNCHANGED <<life, socket, entry, handler, from, kind>>
    PROVE  ServingInv'
<1> DEFINE r == thread[k].req
<1>1. /\ Serving!TypeOK /\ thread[k] # Serving!Idle /\ r \in Serving!Requests /\ from[r] = k /\ socket[k] # "new"
      /\ k # Serving!Nobody
      /\ \A j \in Connections \ {k} : thread[j] # Serving!Idle => thread[j].req # r
      /\ handler[r] = "none" /\ outcome[r] = "none" /\ replies[r] = 0
  <2>1. thread[k].step # "idle" /\ Serving!TypeOK /\ InHand /\ Underway
    BY DEF ServingInv
  <2>2. thread[k] # Serving!Idle /\ r \in Serving!Requests
    BY <2>1, Working
  <2> QED
    BY <2>1, <2>2, Working DEF ServingInv, InHand, Serving!OneReply, Serving!At, Serving!GatewayAssumption
<1>2. /\ thread' = [thread EXCEPT ![k] = Serving!Idle]
      /\ outcome' = [outcome EXCEPT ![r] = IF socket[k] = "open" THEN what ELSE "dropped"]
      /\ replies' = IF socket[k] = "open" THEN [replies EXCEPT ![r] = @ + 1] ELSE replies
      /\ tracked' \subseteq tracked /\ tracked \ Serving!Ended \subseteq tracked'
  BY DEF Serving!Refuse, Serving!Replies, Serving!Rests
<1> HIDE DEF r
<1>3. Serving!TypeOK'
  <2>1. outcome' \in [Serving!Requests -> {"none", "answered", "refused", "busy", "dropped"}]
        /\ replies' \in [Serving!Requests -> Nat]
    BY <1>1, <1>2 DEF Serving!TypeOK
  <2> QED
    BY <1>1, <1>2, <2>1 DEF Serving!TypeOK
<1>4. InHand'
  BY <1>1, <1>2 DEF ServingInv, Serving!TypeOK, InHand, Serving!At
<1>5. Underway'
  BY <1>1, <1>2 DEF ServingInv, Serving!TypeOK, Underway
<1>6. Sockets'
  BY <1>1, <1>2 DEF ServingInv, Serving!TypeOK, Sockets
<1>7. Serving!HandlersAreJoined'
  <2>1. \A j \in Connections : Serving!At(j, "spawned") => Serving!At(j, "spawned")' /\ thread'[j] = thread[j]
    BY <1>1, <1>2 DEF Serving!TypeOK, Serving!At
  <2>2. Serving!Live \cap Serving!Ended = {} /\ Serving!Live' = Serving!Live
    BY DEF Serving!Live, Serving!Ended
  <2> QED
    BY <1>1, <1>2, <2>1, <2>2 DEF ServingInv, Serving!HandlersAreJoined
<1>8. Serving!OneReply'
  BY <1>1, <1>2 DEF ServingInv, Serving!TypeOK, Serving!OneReply
<1> QED
  BY <1>3, <1>4, <1>5, <1>6, <1>7, <1>8 DEF ServingInv

\* A step on the way to a handler.
LEMMA MoveInv ==
    ASSUME Serving!GatewayAssumption, ServingInv, NEW k \in Connections,
           thread[k].step \in {"received", "screened"},
           NEW s \in {"serving", "screened", "admitted"}, Serving!Moves(k, s),
           \/ s = "serving"
           \/ s = "screened" /\ kind[thread[k].req] = "async"
           \/ s = "admitted" /\ thread[k].step = "screened",
           tracked' \in {tracked, tracked \ Serving!Ended},
           UNCHANGED <<life, socket, entry, handler, from, kind, outcome, replies>>
    PROVE  ServingInv'
<1> DEFINE r == thread[k].req
<1>1. /\ Serving!TypeOK /\ thread[k] # Serving!Idle /\ r \in Serving!Requests /\ from[r] = k /\ InHand /\ Underway
      /\ kind[r] = "async" \/ s = "serving"
      /\ handler[r] = "none" /\ outcome[r] = "none"
      /\ thread[k].step \in {"received", "serving", "screened", "admitted", "spawned"}
  <2>1. thread[k].step # "idle" /\ Serving!TypeOK /\ InHand /\ Underway
    BY DEF ServingInv
  <2>2. thread[k] # Serving!Idle /\ r \in Serving!Requests /\ from[r] = k
    BY <2>1, Working
  <2> QED
    BY <2>1, <2>2, Working DEF InHand, Serving!At
<1>2. thread[k] \in [step : {"received", "serving", "screened", "admitted", "spawned"},
                     req : Serving!Requests]
  BY <1>1 DEF Serving!TypeOK
<1>3. /\ thread' \in [Connections -> [step : {"received", "serving", "screened", "admitted",
                                              "spawned"}, req : Serving!Requests] \cup {Serving!Idle}]
      /\ thread'[k].step = s /\ thread'[k].req = r
      /\ \A j \in Connections \ {k} : thread'[j] = thread[j]
      /\ thread[k].step # "spawned" /\ s # "spawned"
  BY <1>1, <1>2 DEF Serving!TypeOK, Serving!Moves
<1>4. tracked' \subseteq tracked /\ tracked \ Serving!Ended \subseteq tracked'
  OBVIOUS
<1> HIDE DEF r
<1>5. Serving!TypeOK'
  BY <1>1, <1>3, <1>4 DEF Serving!TypeOK, r
<1>6. InHand'
  BY <1>1, <1>3 DEF InHand, Serving!At
<1>7. Underway' /\ Serving!OneReply'
  BY <1>4 DEF ServingInv, Underway, Serving!OneReply
<1>8. Sockets'
  BY <1>1, <1>3 DEF ServingInv, Sockets
<1>9. Serving!HandlersAreJoined'
  <2>1. \A j \in Connections : Serving!At(j, "spawned") => Serving!At(j, "spawned")' /\ thread'[j] = thread[j]
    BY <1>3 DEF Serving!At
  <2>2. Serving!Live \cap Serving!Ended = {} /\ Serving!Live' = Serving!Live
    BY DEF Serving!Live, Serving!Ended
  <2> QED
    BY <1>4, <2>1, <2>2 DEF ServingInv, Serving!HandlersAreJoined
<1> QED
  BY <1>5, <1>6, <1>7, <1>8, <1>9 DEF ServingInv

LEMMA ScreenInv ==
    ASSUME Serving!GatewayAssumption, ServingInv, NEW k \in Connections, Serving!Screen(k)
    PROVE  ServingInv'
<1>1. thread[k].step = "received"
  BY DEF Serving!Screen, Serving!At
<1>2. CASE Serving!Refuse(k, "refused")
  BY <1>1, <1>2, RefuseInv DEF Serving!Screen
<1>3. CASE ~Serving!Refuse(k, "refused")
  <2>1. CASE kind[thread[k].req] = "async"
    BY <1>1, <1>3, <2>1, MoveInv DEF Serving!Screen
  <2>2. CASE kind[thread[k].req] # "async"
    BY <1>1, <1>3, <2>2, MoveInv DEF Serving!Screen
  <2> QED
    BY <2>1, <2>2
<1> QED
  BY <1>2, <1>3

LEMMA ServeInv ==
    ASSUME Serving!GatewayAssumption, ServingInv, NEW k \in Connections, Serving!Serve(k)
    PROVE  ServingInv'
  BY RefuseInv DEF Serving!Serve, Serving!At

LEMMA AdmitInv ==
    ASSUME Serving!GatewayAssumption, ServingInv, NEW k \in Connections, Serving!Admit(k)
    PROVE  ServingInv'
<1>1. thread[k].step = "screened" /\ tracked' = tracked \ Serving!Ended
  BY DEF Serving!Admit, Serving!At
<1>2. CASE Serving!Full(tracked')
  BY <1>1, <1>2, RefuseInv DEF Serving!Admit
<1>3. CASE ~Serving!Full(tracked')
  BY <1>1, <1>3, MoveInv DEF Serving!Admit
<1> QED
  BY <1>2, <1>3

LEMMA SpawnInv ==
    ASSUME Serving!GatewayAssumption, ServingInv, NEW k \in Connections, Serving!Spawn(k)
    PROVE  ServingInv'
<1> DEFINE r == thread[k].req
<1>1. /\ Serving!TypeOK /\ InHand /\ Underway /\ Sockets /\ thread[k].step = "admitted"
      /\ thread[k] # Serving!Idle /\ r \in Serving!Requests /\ from[r] = k /\ k # Serving!Nobody
      /\ \A j \in Connections \ {k} : thread[j] # Serving!Idle => thread[j].req # r
      /\ handler[r] = "none" /\ outcome[r] = "none" /\ kind[r] = "async"
  <2>1. thread[k].step = "admitted" /\ Serving!TypeOK /\ InHand /\ Underway /\ Sockets
    BY DEF ServingInv, Serving!Spawn, Serving!At
  <2>2. thread[k] # Serving!Idle /\ r \in Serving!Requests
    BY <2>1, Working
  <2> QED
    BY <2>1, <2>2, Working DEF InHand, Serving!At, Serving!GatewayAssumption
<1>2. thread[k] \in [step : {"received", "serving", "screened", "admitted", "spawned"},
                     req : Serving!Requests]
  BY <1>1 DEF Serving!TypeOK
<1>3. /\ thread' \in [Connections -> [step : {"received", "serving", "screened", "admitted",
                                              "spawned"}, req : Serving!Requests] \cup {Serving!Idle}]
      /\ thread'[k].step = "spawned" /\ thread'[k].req = r
      /\ \A j \in Connections \ {k} : thread'[j] = thread[j]
      /\ handler' = [handler EXCEPT ![r] = "running"]
      /\ UNCHANGED <<life, socket, entry, tracked, from, kind, outcome, replies>>
  BY <1>1, <1>2 DEF Serving!TypeOK, Serving!Spawn, Serving!Moves
<1> HIDE DEF r
<1>4. Serving!TypeOK'
  BY <1>1, <1>3 DEF Serving!TypeOK, r
<1>5. InHand'
  BY <1>1, <1>3 DEF InHand, Serving!TypeOK, Serving!At
<1>6. Underway' /\ Sockets'
  BY <1>1, <1>3 DEF Underway, Sockets, Serving!TypeOK
<1>7. Serving!HandlersAreJoined'
  <2>1. Serving!Live' = Serving!Live \cup {r}
    BY <1>1, <1>3 DEF Serving!Live, Serving!TypeOK
  <2>2. \A j \in Connections : Serving!At(j, "spawned") => Serving!At(j, "spawned")' /\ thread'[j] = thread[j]
    BY <1>1, <1>3 DEF Serving!At
  <2>3. r \in {thread'[j].req : j \in {i \in Connections : Serving!At(i, "spawned")'}}
    BY <1>3 DEF Serving!At
  <2>4. life # "stopped"
    BY <1>1 DEF Sockets
  <2> QED
    BY <1>3, <2>1, <2>2, <2>3, <2>4 DEF ServingInv, Serving!HandlersAreJoined
<1>8. Serving!OneReply'
  BY <1>3 DEF ServingInv, Serving!OneReply
<1> QED
  BY <1>4, <1>5, <1>6, <1>7, <1>8 DEF ServingInv

LEMMA TrackInv ==
    ASSUME Serving!GatewayAssumption, ServingInv, NEW k \in Connections, Serving!Track(k)
    PROVE  ServingInv'
<1> DEFINE r == thread[k].req
<1>1. /\ Serving!TypeOK /\ InHand /\ Underway /\ Sockets /\ thread[k].step = "spawned"
      /\ thread[k] # Serving!Idle /\ r \in Serving!Requests
      /\ handler[r] # "none" /\ kind[r] = "async"
  <2>1. thread[k].step = "spawned" /\ Serving!TypeOK /\ InHand /\ Underway /\ Sockets
    BY DEF ServingInv, Serving!Track, Serving!At
  <2>2. thread[k] # Serving!Idle /\ r \in Serving!Requests
    BY <2>1, Working
  <2> QED
    BY <2>1, <2>2 DEF InHand, Serving!At
<1>2. /\ thread' = [thread EXCEPT ![k] = Serving!Idle] /\ tracked' = tracked \cup {r}
      /\ UNCHANGED <<life, socket, entry, handler, from, kind, outcome, replies>>
  BY DEF Serving!Track, Serving!Rests
<1> HIDE DEF r
<1>3. Serving!TypeOK'
  BY <1>1, <1>2 DEF Serving!TypeOK
<1>4. InHand'
  BY <1>1, <1>2 DEF InHand, Serving!TypeOK, Serving!At
<1>5. Underway' /\ Sockets'
  BY <1>1, <1>2 DEF Underway, Sockets, Serving!TypeOK
<1>6. Serving!HandlersAreJoined'
  <2>1. \A j \in Connections \ {k} : Serving!At(j, "spawned") => Serving!At(j, "spawned")' /\ thread'[j] = thread[j]
    BY <1>1, <1>2 DEF Serving!TypeOK, Serving!At
  <2>2. ASSUME NEW j \in Connections, Serving!At(j, "spawned")
        PROVE  thread[j].req \in tracked' \cup
                   {thread'[i].req : i \in {h \in Connections : Serving!At(h, "spawned")'}}
    BY <1>2, <2>1, <2>2 DEF r
  <2>3. Serving!Live' = Serving!Live
    BY <1>2 DEF Serving!Live
  <2> QED
    BY <1>2, <2>2, <2>3 DEF ServingInv, Serving!HandlersAreJoined
<1>7. Serving!OneReply'
  BY <1>2 DEF ServingInv, Serving!OneReply
<1> QED
  BY <1>3, <1>4, <1>5, <1>6, <1>7 DEF ServingInv

-------------------------------------------------------------------------------
(***************************************************************************)
(* The steps of a handler's thread, and of the owner.                      *)
(***************************************************************************)
LEMMA RespondInv ==
    ASSUME Serving!GatewayAssumption, ServingInv, NEW r \in Serving!Requests, Serving!Respond(r)
    PROVE  ServingInv'
<1> DEFINE k == from[r]
<1>1. /\ Serving!TypeOK /\ Underway /\ InHand /\ Sockets /\ handler[r] = "running" /\ outcome[r] = "none"
      /\ k \in Connections /\ socket[k] # "new" /\ replies[r] = 0
      /\ entry[k] = "none" => socket[k] = "closed"
  BY DEF ServingInv, Serving!TypeOK, Underway, Sockets, Serving!OneReply, Serving!Respond
<1>2. /\ handler' = [handler EXCEPT ![r] = "replied"]
      /\ outcome' = [outcome EXCEPT ![r] = IF entry[k] # "none" THEN "answered" ELSE "dropped"]
      /\ replies' = IF entry[k] # "none" THEN [replies EXCEPT ![r] = @ + 1] ELSE replies
      /\ UNCHANGED <<life, socket, entry, thread, tracked, from, kind>>
  BY DEF Serving!Respond, Serving!Replies
<1> HIDE DEF k
<1>3. Serving!TypeOK'
  <2>1. outcome' \in [Serving!Requests -> {"none", "answered", "refused", "busy", "dropped"}]
        /\ replies' \in [Serving!Requests -> Nat]
    BY <1>1, <1>2 DEF Serving!TypeOK
  <2> QED
    BY <1>1, <1>2, <2>1 DEF Serving!TypeOK
<1>4. InHand' /\ Underway' /\ Sockets'
  BY <1>1, <1>2 DEF InHand, Underway, Sockets, Serving!TypeOK, Serving!At
<1>5. Serving!HandlersAreJoined'
  <2>1. Serving!Live' = Serving!Live
    BY <1>1, <1>2 DEF Serving!Live, Serving!TypeOK
  <2> QED
    BY <1>2, <2>1 DEF ServingInv, Serving!HandlersAreJoined, Serving!At
<1>6. Serving!OneReply'
  BY <1>1, <1>2 DEF ServingInv, Serving!TypeOK, Serving!OneReply, k
<1> QED
  BY <1>3, <1>4, <1>5, <1>6 DEF ServingInv

LEMMA EndInv ==
    ASSUME ServingInv, NEW r \in Serving!Requests, Serving!End(r)
    PROVE  ServingInv'
<1>1. /\ Serving!TypeOK /\ handler[r] = "replied" /\ handler' = [handler EXCEPT ![r] = "ended"]
      /\ UNCHANGED <<life, socket, entry, thread, tracked, from, kind, outcome, replies>>
  BY DEF ServingInv, Serving!End
<1>2. Serving!TypeOK' /\ InHand' /\ Underway' /\ Sockets' /\ Serving!OneReply'
  BY <1>1 DEF ServingInv, InHand, Underway, Sockets, Serving!TypeOK, Serving!OneReply, Serving!At
<1>3. Serving!HandlersAreJoined'
  <2>1. Serving!Live' \subseteq Serving!Live
    BY <1>1 DEF Serving!Live, Serving!TypeOK
  <2> QED
    BY <1>1, <2>1 DEF ServingInv, Serving!HandlersAreJoined, Serving!At
<1> QED
  BY <1>2, <1>3 DEF ServingInv

LEMMA OwnerInv ==
    ASSUME ServingInv, Serving!Owner
    PROVE  ServingInv'
<1>1. Serving!TypeOK'
  BY DEF ServingInv, Serving!TypeOK, Serving!Owner, Serving!Start, Serving!Stop, Serving!ServerStopped, Serving!StopReturns
<1>2. InHand' /\ Underway' /\ Serving!OneReply'
  BY DEF ServingInv, InHand, Underway, Serving!OneReply, Serving!At, Serving!Owner, Serving!Start, Serving!Stop, Serving!ServerStopped, Serving!StopReturns
<1>3. Sockets'
  BY DEF ServingInv, Serving!TypeOK, Sockets, Serving!At, Serving!Idle, Serving!Owner, Serving!Start, Serving!Stop, Serving!ServerStopped, Serving!StopReturns
<1>4. Serving!HandlersAreJoined'
  <2>1. CASE Serving!Start \/ Serving!Stop \/ Serving!ServerStopped
    BY <2>1 DEF ServingInv, Serving!HandlersAreJoined, Serving!Live, Serving!At, Serving!Start, Serving!Stop, Serving!ServerStopped
  <2>2. CASE Serving!StopReturns
    <3>1. \A k \in Connections : ~Serving!At(k, "spawned")
      BY <2>2 DEF ServingInv, Sockets, Serving!StopReturns, Serving!At, Serving!Idle
    <3>2. Serving!Live = {} /\ Serving!Live' = Serving!Live
      BY <2>2, <3>1 DEF ServingInv, Serving!HandlersAreJoined, Serving!Live, Serving!StopReturns
    <3> QED
      BY <3>2 DEF Serving!HandlersAreJoined
  <2> QED
    BY <2>1, <2>2 DEF Serving!Owner
<1> QED
  BY <1>1, <1>2, <1>3, <1>4 DEF ServingInv

LEMMA InvNext == Serving!GatewayAssumption /\ ServingInv /\ [Serving!Next]_Serving!vars => ServingInv'
<1> SUFFICES ASSUME Serving!GatewayAssumption, ServingInv, [Serving!Next]_Serving!vars PROVE ServingInv'
  OBVIOUS
<1>1. ASSUME NEW k \in Connections, Serving!ClientAct(k) PROVE ServingInv'
  BY <1>1, OpenInv, CloseInv, HelloInv, ReceiveInv DEF Serving!ClientAct
<1>2. ASSUME NEW k \in Connections, Serving!ConnectionThread(k) PROVE ServingInv'
  BY <1>2, ScreenInv, ServeInv, AdmitInv, SpawnInv, TrackInv DEF Serving!ConnectionThread
<1>3. ASSUME NEW r \in Serving!Requests, Serving!HandlerThread(r) PROVE ServingInv'
  BY <1>3, RespondInv, EndInv DEF Serving!HandlerThread
<1>4. CASE Serving!Owner
  BY <1>4, OwnerInv
<1>5. CASE UNCHANGED Serving!vars
  <2>1. Serving!TypeOK' /\ InHand' /\ Underway' /\ Sockets'
    BY <1>5 DEF ServingInv, Serving!TypeOK, InHand, Underway, Sockets, Serving!At, Serving!vars
  <2>2. Serving!HandlersAreJoined' /\ Serving!OneReply'
    BY <1>5 DEF ServingInv, Serving!HandlersAreJoined, Serving!OneReply, Serving!Live, Serving!At, Serving!vars
  <2> QED
    BY <2>1, <2>2 DEF ServingInv
<1> QED
  BY <1>1, <1>2, <1>3, <1>4, <1>5 DEF Serving!Next

\* The inductive invariant holds throughout (GatewayServer from construction on).
THEOREM Invariance == ASSUME Serving!GatewayAssumption PROVE Serving!Spec => []ServingInv
<1>1. ServingInv /\ [Serving!Next]_Serving!vars => ServingInv'
  BY InvNext
<1> QED
  BY <1>1, InitInv, PTL DEF Serving!Spec

\* Every variable keeps its type, and what a connection's thread works on came
\* from that connection and has not ended (handle_rpc_request).
THEOREM TypeCorrect == ASSUME Serving!GatewayAssumption PROVE Serving!Spec => []Serving!TypeOK
<1>1. ServingInv => Serving!TypeOK
  BY DEF ServingInv
<1> QED
  BY <1>1, Invariance, PTL

\* Stop finds every handler's thread that has not ended, and none is left when
\* it has returned (GatewayServer::Stop).
THEOREM HandlersAlwaysJoined == ASSUME Serving!GatewayAssumption PROVE Serving!Spec => []Serving!HandlersAreJoined
<1>1. ServingInv => Serving!HandlersAreJoined
  BY DEF ServingInv
<1> QED
  BY <1>1, Invariance, PTL

\* One response at most to each request, whichever thread sends it, and none
\* only when the client has gone.
THEOREM OneReplyAlways == ASSUME Serving!GatewayAssumption PROVE Serving!Spec => []Serving!OneReply
<1>1. ServingInv => Serving!OneReply
  BY DEF ServingInv
<1> QED
  BY <1>1, Invariance, PTL

-------------------------------------------------------------------------------
(***************************************************************************)
(* The number of handlers' threads.                                        *)
(***************************************************************************)

Admitted == {k \in Connections : Serving!At(k, "admitted")}
Spawned  == {k \in Connections : Serving!At(k, "spawned")}

\* A connection that was admitted will have its thread.
Room ==
    Cardinality(Serving!Live) + Cardinality(Admitted) <= MaxHandlers + Cardinality(Connections) - 1

\* The server counts as FiniteSets does.
LEMMA ServingCounts ==
    ASSUME NEW S
    PROVE  /\ Serving!Cardinality(S) = Cardinality(S)
           /\ Serving!IsFiniteSet(S) <=> IsFiniteSet(S)
  BY DEF Serving!Cardinality, Cardinality, Serving!IsFiniteSet, IsFiniteSet

LEMMA Sizes ==
    ASSUME Serving!GatewayAssumption
    PROVE  /\ IsFiniteSet(Serving!Requests) /\ IsFiniteSet(Connections) /\ Cardinality(Connections) \in Nat
           /\ \A S \in SUBSET Serving!Requests : IsFiniteSet(S) /\ Cardinality(S) \in Nat
           /\ \A S \in SUBSET Connections :
                 /\ IsFiniteSet(S) /\ Cardinality(S) \in Nat
                 /\ Cardinality(S) <= Cardinality(Connections)
<1>1. IsFiniteSet(Serving!Requests) /\ IsFiniteSet(Connections)
  BY FS_Interval, ServingCounts DEF Serving!GatewayAssumption, Serving!Requests
<1> QED
  BY <1>1, FS_Subset, FS_CardinalityType

LEMMA RoomShrinks ==
    ASSUME Serving!GatewayAssumption, Room, Serving!Live' \subseteq Serving!Live, Admitted' \subseteq Admitted
    PROVE  Room'
<1>1. Serving!Live \in SUBSET Serving!Requests /\ Admitted \in SUBSET Connections
  BY DEF Serving!Live, Admitted
<1>2. IsFiniteSet(Serving!Live) /\ IsFiniteSet(Admitted)
  BY <1>1, Sizes
<1>3. Cardinality(Serving!Live') <= Cardinality(Serving!Live) /\ Cardinality(Admitted') <= Cardinality(Admitted)
  BY <1>2, FS_Subset
<1>4. /\ Cardinality(Serving!Live) \in Nat /\ Cardinality(Admitted) \in Nat
      /\ Cardinality(Serving!Live') \in Nat /\ Cardinality(Admitted') \in Nat
      /\ MaxHandlers \in Nat /\ Cardinality(Connections) \in Nat
  BY <1>1, Sizes DEF Serving!GatewayAssumption
<1> QED
  BY <1>3, <1>4 DEF Room

\* Whoever passes the test leaves room for those who passed it before.
LEMMA AdmitRoom ==
    ASSUME Serving!GatewayAssumption, ServingInv, Room, NEW k \in Connections, Serving!Admit(k)
    PROVE  Room'
<1>1. CASE Serving!Full(tracked')
  <2>1. Serving!Live' = Serving!Live /\ thread' = [thread EXCEPT ![k] = Serving!Idle]
    BY <1>1 DEF Serving!Admit, Serving!Refuse, Serving!Rests, Serving!Live
  <2>2. Admitted' \subseteq Admitted
    BY <2>1 DEF ServingInv, Serving!TypeOK, Admitted, Serving!At, Serving!Idle
  <2> QED
    BY <2>1, <2>2, RoomShrinks
<1>2. CASE ~Serving!Full(tracked')
  <2>1. /\ Serving!TypeOK /\ Serving!HandlersAreJoined /\ Serving!At(k, "screened") /\ tracked' = tracked \ Serving!Ended
        /\ thread' = [thread EXCEPT ![k].step = "admitted"]
        /\ Serving!Live' = Serving!Live
    BY <1>2 DEF ServingInv, Serving!Admit, Serving!Moves, Serving!Live
  <2>2. Admitted' = Admitted \cup {k} /\ k \notin Admitted /\ k \notin Spawned
    BY <2>1 DEF Serving!TypeOK, Admitted, Spawned, Serving!At
  <2> DEFINE Reqs == {thread[j].req : j \in Spawned}
  <2>3. Reqs \in SUBSET Serving!Requests
    BY <2>1 DEF Serving!TypeOK, Spawned, Serving!At, Serving!Idle
  <2>4. Serving!Live \subseteq tracked' \cup Reqs
    BY <2>1 DEF Serving!HandlersAreJoined, Serving!Live, Serving!Ended, Spawned
  <2>5. /\ tracked' \in SUBSET Serving!Requests /\ Serving!Live \in SUBSET Serving!Requests
        /\ Spawned \in SUBSET Connections /\ Admitted \in SUBSET Connections
    BY <2>1 DEF Serving!TypeOK, Serving!Live, Spawned, Admitted
  <2> HIDE DEF Reqs
  <2>6. /\ Cardinality(tracked') \in Nat /\ Cardinality(Serving!Live) \in Nat /\ Cardinality(Reqs) \in Nat
        /\ Cardinality(Spawned) \in Nat /\ Cardinality(Admitted) \in Nat
        /\ Cardinality(Connections) \in Nat /\ MaxHandlers \in Nat
        /\ IsFiniteSet(tracked') /\ IsFiniteSet(Reqs) /\ IsFiniteSet(Spawned)
        /\ IsFiniteSet(Admitted)
    BY <2>3, <2>5, Sizes DEF Serving!GatewayAssumption
  <2>7. Cardinality(Reqs) <= Cardinality(Spawned)
    <3> DEFINE f == [j \in Spawned |-> thread[j].req]
    <3>1. f \in Surjection(Spawned, Reqs)
      BY DEF Surjection, Reqs
    <3> HIDE DEF f
    <3> QED
      BY <2>6, <3>1, FS_Surjection
  <2>8. Cardinality(Serving!Live) <= Cardinality(tracked') + Cardinality(Reqs)
    <3>1. /\ IsFiniteSet(tracked' \cup Reqs)
          /\ Cardinality(tracked' \cup Reqs) =
               Cardinality(tracked') + Cardinality(Reqs) - Cardinality(tracked' \cap Reqs)
      BY <2>6, FS_Union
    <3>2. Cardinality(tracked' \cap Reqs) \in Nat
      BY <2>3, Sizes
    <3>3. Cardinality(Serving!Live) <= Cardinality(tracked' \cup Reqs)
      BY <2>4, <3>1, FS_Subset
    <3> QED
      BY <2>6, <3>1, <3>2, <3>3
  <2>9. Cardinality(Spawned) + Cardinality(Admitted) + 1 <= Cardinality(Connections)
    <3>1. Spawned \cap Admitted = {}
      BY DEF Spawned, Admitted, Serving!At
    <3>2. Cardinality(Spawned \cup Admitted) = Cardinality(Spawned) + Cardinality(Admitted)
          /\ IsFiniteSet(Spawned \cup Admitted)
      <4>1. Cardinality(Spawned \cap Admitted) = 0
        BY <3>1, FS_EmptySet
      <4>2. /\ IsFiniteSet(Spawned \cup Admitted)
            /\ Cardinality(Spawned \cup Admitted) =
                 Cardinality(Spawned) + Cardinality(Admitted) - Cardinality(Spawned \cap Admitted)
        BY <2>6, FS_Union
      <4> QED
        BY <2>6, <4>1, <4>2
    <3>3. Cardinality((Spawned \cup Admitted) \cup {k})
            = Cardinality(Spawned) + Cardinality(Admitted) + 1
      BY <2>2, <3>2, FS_AddElement
    <3>4. (Spawned \cup Admitted) \cup {k} \in SUBSET Connections
      BY <2>5
    <3> QED
      BY <3>3, <3>4, Sizes
  <2>10. Cardinality(Admitted') = Cardinality(Admitted) + 1
    BY <2>2, <2>6, FS_AddElement
  <2>11. Cardinality(tracked') < MaxHandlers
    BY <1>2, <2>6, ServingCounts DEF Serving!Full
  <2> QED
    BY <2>1, <2>6, <2>7, <2>8, <2>9, <2>10, <2>11 DEF Room
<1> QED
  BY <1>1, <1>2

LEMMA SpawnRoom ==
    ASSUME Serving!GatewayAssumption, ServingInv, Room, NEW k \in Connections, Serving!Spawn(k)
    PROVE  Room'
<1> DEFINE r == thread[k].req
<1>1. Serving!TypeOK /\ InHand /\ Underway /\ thread[k].step = "admitted"
  BY DEF ServingInv, Serving!Spawn, Serving!At
<1>2. thread[k] # Serving!Idle /\ r \in Serving!Requests /\ handler[r] = "none"
  BY <1>1, Working DEF InHand, Serving!At
<1>3. thread' = [thread EXCEPT ![k].step = "spawned"] /\ handler' = [handler EXCEPT ![r] = "running"]
  BY DEF Serving!Spawn, Serving!Moves
<1> HIDE DEF r
<1>4. Serving!Live' = Serving!Live \cup {r} /\ r \notin Serving!Live
  BY <1>1, <1>2, <1>3 DEF Serving!Live, Serving!TypeOK
<1>5. Admitted' = Admitted \ {k} /\ k \in Admitted
  BY <1>1, <1>3 DEF Admitted, Serving!At, Serving!TypeOK
<1>6. Serving!Live \in SUBSET Serving!Requests /\ Admitted \in SUBSET Connections
  BY DEF Serving!Live, Admitted
<1>7. /\ Cardinality(Serving!Live) \in Nat /\ Cardinality(Admitted) \in Nat
      /\ IsFiniteSet(Serving!Live) /\ IsFiniteSet(Admitted)
  BY <1>6, Sizes
<1>8. /\ Cardinality(Serving!Live') = Cardinality(Serving!Live) + 1
      /\ Cardinality(Admitted') = Cardinality(Admitted) - 1
  BY <1>4, <1>5, <1>7, FS_AddElement, FS_RemoveElement
<1>9. Cardinality(Serving!Live') + Cardinality(Admitted') = Cardinality(Serving!Live) + Cardinality(Admitted)
  BY <1>7, <1>8
<1> QED
  BY <1>9 DEF Room

LEMMA RoomNext == Serving!GatewayAssumption /\ ServingInv /\ Room /\ [Serving!Next]_Serving!vars => Room'
<1> SUFFICES ASSUME Serving!GatewayAssumption, ServingInv, Room, [Serving!Next]_Serving!vars PROVE Room'
  OBVIOUS
<1>1. ASSUME NEW k \in Connections, Serving!ClientAct(k) PROVE Room'
  <2>1. /\ Serving!Live' = Serving!Live /\ Serving!TypeOK
        /\ \/ thread' = thread
           \/ \E r \in Serving!Requests : thread' = [thread EXCEPT ![k] = [step |-> "received", req |-> r]]
    BY <1>1 DEF ServingInv, Serving!ClientAct, Serving!Open, Serving!Close, Serving!Hello, Serving!Receive, Serving!Live
  <2>2. Admitted' \subseteq Admitted
    BY <2>1 DEF Serving!TypeOK, Admitted, Serving!At
  <2> QED
    BY <2>1, <2>2, RoomShrinks
<1>2. ASSUME NEW k \in Connections, Serving!Screen(k) \/ Serving!Serve(k) \/ Serving!Track(k) PROVE Room'
  <2>1. /\ Serving!Live' = Serving!Live /\ Serving!TypeOK
        /\ \E s \in {"screened", "serving"} :
              thread' \in {[thread EXCEPT ![k] = Serving!Idle], [thread EXCEPT ![k].step = s]}
    BY <1>2 DEF ServingInv, Serving!Screen, Serving!Serve, Serving!Track, Serving!Refuse, Serving!Rests, Serving!Moves, Serving!Live
  <2>2. Admitted' \subseteq Admitted
    BY <2>1 DEF Serving!TypeOK, Admitted, Serving!At, Serving!Idle
  <2> QED
    BY <2>1, <2>2, RoomShrinks
<1>3. ASSUME NEW k \in Connections, Serving!ConnectionThread(k) PROVE Room'
  BY <1>2, <1>3, AdmitRoom, SpawnRoom DEF Serving!ConnectionThread
<1>4. ASSUME NEW r \in Serving!Requests, Serving!HandlerThread(r) PROVE Room'
  <2>1. Serving!Live' \subseteq Serving!Live /\ Admitted' = Admitted
    BY <1>4 DEF ServingInv, Serving!TypeOK, Serving!HandlerThread, Serving!Respond, Serving!End, Serving!Live, Admitted, Serving!At
  <2> QED
    BY <2>1, RoomShrinks
<1>5. CASE Serving!Owner \/ UNCHANGED Serving!vars
  <2>1. Serving!Live' = Serving!Live /\ Admitted' = Admitted
    BY <1>5 DEF Serving!Owner, Serving!Start, Serving!Stop, Serving!ServerStopped, Serving!StopReturns, Serving!vars, Serving!Live, Admitted, Serving!At
  <2> QED
    BY <2>1, RoomShrinks
<1> QED
  BY <1>1, <1>3, <1>4, <1>5 DEF Serving!Next

LEMMA InitRoom == Serving!GatewayAssumption /\ Serving!Init => Room
<1> SUFFICES ASSUME Serving!GatewayAssumption, Serving!Init PROVE Room
  OBVIOUS
<1>1. Serving!Live = {} /\ Admitted = {}
  BY DEF Serving!Init, Serving!Live, Admitted, Serving!At, Serving!Idle
<1>2. Cardinality(Connections) \in Nat /\ MaxHandlers \in Nat \ {0}
  BY Sizes DEF Serving!GatewayAssumption
<1> QED
  BY <1>1, <1>2, FS_EmptySet DEF Room

\* The race between the test and the entry of handle_rpc_request's threads adds
\* at most one for every other connection.
THEOREM CeilingAlwaysBound == ASSUME Serving!GatewayAssumption PROVE Serving!Spec => []Serving!CeilingBound
<1>1. Room => Serving!CeilingBound
  <2>1. Serving!Live \in SUBSET Serving!Requests /\ Admitted \in SUBSET Connections
    BY DEF Serving!Live, Admitted
  <2>2. /\ Cardinality(Serving!Live) \in Nat /\ Cardinality(Admitted) \in Nat
        /\ MaxHandlers \in Nat /\ Cardinality(Connections) \in Nat
    BY <2>1, Sizes DEF Serving!GatewayAssumption
  <2> QED
    BY <2>2, ServingCounts DEF Room, Serving!CeilingBound
<1>2. Serving!Init => Room
  BY InitRoom
<1>3. ServingInv /\ Room /\ [Serving!Next]_Serving!vars => Room'
  BY RoomNext
<1> QED
  BY <1>1, <1>2, <1>3, Invariance, PTL DEF Serving!Spec

\* A client is told that the server is busy only while MaxHandlers handlers are
\* at work: threads that have ended take no place.
THEOREM BusyAlwaysFull == ASSUME Serving!GatewayAssumption PROVE Serving!Spec => Serving!BusyOnlyWhenFull
<1> DEFINE Busy == \A r \in Serving!Requests :
                      outcome'[r] # outcome[r] /\ outcome'[r] = "busy" => Serving!Full(Serving!Live)
<1>1. ServingInv /\ [Serving!Next]_Serving!vars => [Busy]_Serving!vars
  <2> SUFFICES ASSUME ServingInv, [Serving!Next]_Serving!vars, NEW r \in Serving!Requests,
                      outcome'[r] # outcome[r], outcome'[r] = "busy"
               PROVE  Serving!Full(Serving!Live)
    OBVIOUS
  <2>1. PICK k \in Connections : Serving!Admit(k)
    <3>1. ASSUME NEW k \in Connections, Serving!ClientAct(k) PROVE FALSE
      BY <3>1 DEF Serving!ClientAct, Serving!Open, Serving!Close, Serving!Hello, Serving!Receive
    <3>2. ASSUME NEW k \in Connections, Serving!Screen(k) \/ Serving!Serve(k) \/ Serving!Spawn(k) \/ Serving!Track(k) PROVE FALSE
      BY <3>2 DEF ServingInv, Serving!TypeOK, Serving!Screen, Serving!Serve, Serving!Spawn, Serving!Track, Serving!Refuse, Serving!Replies
    <3>3. ASSUME NEW q \in Serving!Requests, Serving!HandlerThread(q) PROVE FALSE
      BY <3>3 DEF ServingInv, Serving!TypeOK, Serving!HandlerThread, Serving!Respond, Serving!End, Serving!Replies
    <3>4. ~Serving!Owner /\ ~UNCHANGED Serving!vars
      BY DEF Serving!Owner, Serving!Start, Serving!Stop, Serving!ServerStopped, Serving!StopReturns, Serving!vars
    <3> QED
      BY <3>1, <3>2, <3>3, <3>4 DEF Serving!Next, Serving!ConnectionThread
  <2>2. Serving!Full(tracked') /\ tracked' = tracked \ Serving!Ended
    BY <2>1 DEF Serving!Admit
  <2>3. tracked' \subseteq Serving!Live
    BY <2>2 DEF ServingInv, Serving!TypeOK, Underway, Serving!Live, Serving!Ended
  <2>4. /\ IsFiniteSet(Serving!Live) /\ Cardinality(Serving!Live) \in Nat /\ Cardinality(tracked') \in Nat
        /\ MaxHandlers \in Nat
    <3>1. Serving!Live \in SUBSET Serving!Requests /\ tracked' \in SUBSET Serving!Requests
      BY <2>3 DEF Serving!Live
    <3> QED
      BY <3>1, Sizes DEF Serving!GatewayAssumption
  <2>5. Cardinality(tracked') <= Cardinality(Serving!Live)
    BY <2>3, <2>4, FS_Subset
  <2> QED
    BY <2>2, <2>4, <2>5, ServingCounts DEF Serving!Full
<1> QED
  BY <1>1, Invariance, PTL DEF Serving!Spec, Serving!BusyOnlyWhenFull

(***************************************************************************)
(* The configuration document.                                             *)
(***************************************************************************)

\* An edit that counts as made, and a writer who means to keep what there was.
Lasting == {e \in Edit \ endangered : Config!At(e, "acknowledged")}
Knowing(f) == \/ edit[f].style \in {"merged", "inPlace"}
              \/ edit[f].style = "hashed" /\ edit[f].read.whole

\* A writer who has looked at the document and keeps what there was has read every
\* edit that lasts, and whole; who writes in place has it in the backup before he
\* truncates, and one whose file was replaced meanwhile counts for nothing.
ReadAll(f) ==
    /\ edit[f].style \in Config!Styles
    /\ (edit[f].stage = "read" => Knowing(f)) => Lasting \subseteq edit[f].read.edits
    /\ edit[f].stage = "read" /\ Knowing(f) /\ Lasting # {} => document.whole
    /\ edit[f].stage # "read" /\ edit[f].style = "inPlace" => Lasting \subseteq backup.edits
    /\ edit[f].stage = "truncated" =>
         edit[f].style = "inPlace" /\ (edit[f].inode # inode => f \in endangered)

Survives == \A e \in Lasting : e \in document.edits \/ (~document.whole /\ e \in backup.edits)

ConfigInv ==
    /\ Config!TypeOK
    /\ \A f \in Edit : edit[f].stage = "loaded" => edit[f].style \in {"hashed", "forced"}
    /\ \A f \in Config!Busy : ReadAll(f)
    /\ Survives

EditRec == [stage : {"idle", "loaded", "read", "saved", "truncated", "acknowledged", "failed"},
            style : Config!Styles \cup {"none"}, read : Config!Document, inode : Nat]

LEMMA EditsTyped ==
    /\ Config!NewWriter \in EditRec
    /\ \A s \in {"failed", "acknowledged"} :
         Config!Ended(s) \in EditRec /\ Config!Ended(s).stage = s
    /\ Config!TypeOK => /\ edit \in [Edit -> EditRec] /\ document \in Config!Document
                        /\ backup \in Config!Document /\ inode \in Nat
                        /\ endangered \subseteq Edit /\ crashes \in 0..MaxCrashes
    /\ \A edits \in SUBSET Edit : Config!Whole(edits) \in Config!Document
    /\ Config!Torn \in Config!Document
  BY DEF EditRec, Config!NewWriter, Config!Ended, Config!Torn, Config!Document, Config!TypeOK,
         Config!Styles, Config!Whole

\* Who writes beside another endangers them both, and whoever else has begun when
\* one of them writes in place.
LEMMA BesideOthers ==
    ASSUME Config!TypeOK, NEW e \in Config!Busy
    PROVE  /\ Config!Endangered(e) \subseteq Config!Begun /\ Config!Begun \subseteq Edit
           /\ Lasting \subseteq Config!Begun
           /\ \A f \in Config!Busy \ {e} :
                /\ e \in Config!Endangered(e) /\ f \in Config!Endangered(e)
                /\ edit[e].style = "inPlace" \/ edit[f].style = "inPlace" =>
                     Config!Endangered(e) = Config!Begun
<1>1. Config!Busy \subseteq Config!Begun /\ Config!Begun \subseteq Edit /\ Lasting \subseteq Config!Begun
  BY DEF Config!Busy, Config!Begun, Config!At, Lasting
<1> QED
  BY <1>1 DEF Config!Endangered

\* Before its last write an edit does not last.
LEMMA LastingStays ==
    ASSUME Config!TypeOK, NEW e \in Edit, NEW w, w.stage # "acknowledged",
           ~Config!At(e, "acknowledged"), Config!Becomes(e, w), endangered \subseteq endangered'
    PROVE  /\ Lasting' \subseteq Lasting
           /\ edit'[e] = w /\ \A f \in Edit \ {e} : edit'[f] = edit[f]
<1>1. edit'[e] = w /\ \A f \in Edit \ {e} : edit'[f] = edit[f]
  BY EditsTyped DEF Config!Becomes
<1> QED
  BY <1>1 DEF Lasting, Config!At

\* A writer looks at the document, for the first time or once more.
LEMMA LookInv ==
    ASSUME ConfigInv, NEW e \in Edit,
           Config!LoadSnapshot(e) \/ Config!CheckHash(e) \/ Config!ReadDocument(e)
    PROVE  ConfigInv'
<1>1. edit[e] \in EditRec /\ edit[e].read \in Config!Document /\ document \in Config!Document
  BY EditsTyped DEF ConfigInv, EditRec
<1>2. UNCHANGED <<document, inode, backup, crashes, endangered>> /\ edit[e].stage \in {"idle", "loaded"}
  BY DEF Config!LoadSnapshot, Config!CheckHash, Config!ReadDocument, Config!At
<1>3. \E w \in EditRec :
        /\ Config!Becomes(e, w)
        /\ \/ w.stage = "failed"
           \/ w.stage = "loaded" /\ w.style \in {"hashed", "forced"}
           \/ /\ w.stage = "read" /\ w.read \in {document, edit[e].read}
              /\ \/ w.style \in {"merged", "inPlace"} /\ document.whole /\ w.read = document
                 \/ w.style = "hashed" /\ w.read = document
                 \/ w.style = "forced"
  <2>1. CASE Config!LoadSnapshot(e)
    <3>1. PICK style \in {"hashed", "forced"} :
            Config!Becomes(e, [stage |-> "loaded", style |-> style, read |-> document, inode |-> 0])
      BY <2>1 DEF Config!LoadSnapshot
    <3>2. [stage |-> "loaded", style |-> style, read |-> document, inode |-> 0] \in EditRec
      BY <1>1 DEF EditRec, Config!Styles
    <3> QED
      BY <3>1, <3>2
  <2>2. CASE Config!CheckHash(e)
    <3> DEFINE w == [edit[e] EXCEPT !.stage = "read"]
    <3>1. /\ w \in EditRec /\ w.stage = "read" /\ w.style = edit[e].style /\ w.read = edit[e].read
          /\ w.style \in Config!Styles \cup {"none"}
      BY <1>1 DEF EditRec
    <3>2. Config!Becomes(e, IF edit[e].style = "hashed" /\ document # edit[e].read
                            THEN Config!Ended("failed") ELSE w)
      BY <2>2 DEF Config!CheckHash
    <3> HIDE DEF w
    <3>3. CASE edit[e].style = "hashed" /\ document # edit[e].read
      BY <3>2, <3>3, EditsTyped
    <3>4. CASE edit[e].style = "hashed" /\ document = edit[e].read
      <4>1. Config!Becomes(e, w)
        BY <3>2, <3>4
      <4> QED
        BY <3>1, <3>4, <4>1
    <3>5. CASE edit[e].style # "hashed"
      <4>1. Config!Becomes(e, w)
        BY <3>2, <3>5
      <4>2. edit[e].style = "forced"
        BY <2>2, <3>5 DEF Config!CheckHash, Config!At, ConfigInv
      <4> QED
        BY <3>1, <3>5, <4>1, <4>2
    <3> QED
      BY <3>3, <3>4, <3>5
  <2>3. CASE Config!ReadDocument(e)
    <3>1. PICK style \in {"merged", "inPlace"} :
            Config!Becomes(e, IF ~document.whole THEN Config!Ended("failed")
                              ELSE [stage |-> "read", style |-> style, read |-> document, inode |-> 0])
      BY <2>3 DEF Config!ReadDocument
    <3>2. [stage |-> "read", style |-> style, read |-> document, inode |-> 0] \in EditRec
      BY <1>1 DEF EditRec, Config!Styles
    <3>3. CASE document.whole
      BY <3>1, <3>2, <3>3
    <3>4. CASE ~document.whole
      BY <3>1, <3>4, EditsTyped
    <3> QED
      BY <3>3, <3>4
  <2> QED
    BY <2>1, <2>2, <2>3
<1>4. PICK w \in EditRec :
        /\ Config!Becomes(e, w)
        /\ \/ w.stage = "failed"
           \/ w.stage = "loaded" /\ w.style \in {"hashed", "forced"}
           \/ /\ w.stage = "read" /\ w.read \in {document, edit[e].read}
              /\ \/ w.style \in {"merged", "inPlace"} /\ document.whole /\ w.read = document
                 \/ w.style = "hashed" /\ w.read = document
                 \/ w.style = "forced"
  BY <1>3
<1>5. /\ Lasting' \subseteq Lasting
      /\ edit'[e] = w /\ \A f \in Edit \ {e} : edit'[f] = edit[f]
  BY <1>2, <1>4, LastingStays DEF ConfigInv, Config!At
<1>6. Config!TypeOK'
  <2>1. edit' \in [Edit -> EditRec]
    BY <1>4, EditsTyped DEF ConfigInv, Config!Becomes
  <2> QED
    BY <1>2, <2>1 DEF ConfigInv, Config!TypeOK, EditRec, Config!Document
<1>7. \A f \in Edit : edit'[f].stage = "loaded" => edit'[f].style \in {"hashed", "forced"}
  BY <1>4, <1>5 DEF ConfigInv
<1>8. ASSUME NEW f \in Config!Busy'
      PROVE  ReadAll(f)'
  <2>1. f \in Edit /\ edit'[f].stage \in {"read", "saved", "truncated"}
    BY DEF Config!Busy
  <2>2. CASE f = e
    <3>1. /\ edit'[f] = w /\ w.stage = "read"
          /\ \/ w.style \in {"merged", "inPlace"} /\ document.whole /\ w.read = document
             \/ w.style = "hashed" /\ w.read = document
             \/ w.style = "forced"
      BY <1>4, <1>5, <2>1, <2>2
    <3>2. document.whole => Lasting \subseteq document.edits
      BY DEF ConfigInv, Survives
    <3> QED
      BY <1>2, <1>5, <3>1, <3>2 DEF ReadAll, Knowing, Config!Styles
  <2>3. CASE f # e
    <3>1. edit'[f] = edit[f] /\ ReadAll(f)
      BY <1>5, <2>1, <2>3 DEF ConfigInv, Config!Busy
    <3> QED
      BY <1>2, <1>5, <3>1 DEF ReadAll, Knowing
  <2> QED
    BY <2>2, <2>3
<1>9. Survives'
  BY <1>2, <1>5 DEF ConfigInv, Survives
<1> QED
  BY <1>6, <1>7, <1>8, <1>9 DEF ConfigInv

\* A lemma for the steps that write: what they may endanger lasts no longer.
LEMMA WriteKeepsLooks ==
    ASSUME ConfigInv, NEW e \in Config!Busy, NEW w \in EditRec, Config!Becomes(e, w),
           w.stage \in {"saved", "truncated", "acknowledged"},
           Config!Begun \subseteq endangered' \/ Config!Endangered(e) \cup endangered \subseteq endangered'
    PROVE  /\ edit' \in [Edit -> EditRec] /\ edit'[e] = w
           /\ \A f \in Edit \ {e} : edit'[f] = edit[f]
           /\ \A f \in Edit : edit'[f].stage = "loaded" => edit'[f].style \in {"hashed", "forced"}
           /\ Lasting' \subseteq Lasting \cup {e}
           /\ w.stage # "acknowledged" => Lasting' \subseteq Lasting
           /\ \A f \in Config!Busy \ {e} :
                /\ Lasting' \subseteq Lasting
                /\ f \in endangered' /\ e \in endangered'
                /\ edit[e].style = "inPlace" \/ edit[f].style = "inPlace" => Lasting' = {}
<1>1. /\ edit' \in [Edit -> EditRec] /\ edit'[e] = w
      /\ \A f \in Edit \ {e} : edit'[f] = edit[f]
  BY EditsTyped DEF ConfigInv, Config!Becomes, Config!Busy
<1>2. \A f \in Edit : edit'[f].stage = "loaded" => edit'[f].style \in {"hashed", "forced"}
  BY <1>1 DEF ConfigInv
<1>3. e \in Config!Begun /\ Config!Begun \subseteq Edit /\ Config!Endangered(e) \subseteq Config!Begun
  BY BesideOthers DEF ConfigInv, Config!Busy, Config!Begun, Config!At
<1>4. ASSUME NEW f \in Lasting'
      PROVE  f = e \/ f \in Lasting
  <2>1. f \in Edit /\ f \notin endangered' /\ edit'[f].stage = "acknowledged"
    BY DEF Lasting, Config!At
  <2>2. f # e => f \in Config!Begun /\ edit[f].stage = "acknowledged"
    BY <1>1, <2>1 DEF Config!Begun, Config!At
  <2> QED
    BY <2>1, <2>2 DEF Lasting, Config!At
<1>5. w.stage # "acknowledged" => e \notin Lasting'
  BY <1>1 DEF Lasting, Config!At
<1>6. Config!Begun \subseteq endangered' => Lasting' = {}
  <2> SUFFICES ASSUME Config!Begun \subseteq endangered', NEW f \in Lasting' PROVE FALSE
    OBVIOUS
  <2>1. f \in Edit /\ f \notin endangered' /\ edit'[f].stage = "acknowledged"
    BY DEF Lasting, Config!At
  <2>2. f \in Config!Begun
    BY <1>1, <1>3, <2>1 DEF Config!Begun, Config!At
  <2> QED
    BY <2>1, <2>2
<1>7. ASSUME NEW f \in Config!Busy \ {e}
      PROVE  /\ Lasting' \subseteq Lasting
             /\ f \in endangered' /\ e \in endangered'
             /\ edit[e].style = "inPlace" \/ edit[f].style = "inPlace" => Lasting' = {}
  <2>1. /\ e \in Config!Endangered(e) /\ f \in Config!Endangered(e)
        /\ edit[e].style = "inPlace" \/ edit[f].style = "inPlace" =>
             Config!Endangered(e) = Config!Begun
    BY BesideOthers DEF ConfigInv
  <2>2. f \in endangered' /\ e \in endangered'
    BY <1>3, <2>1
  <2>3. e \notin Lasting'
    BY <2>2 DEF Lasting
  <2> QED
    BY <1>4, <1>6, <2>1, <2>2, <2>3
<1> QED
  BY <1>1, <1>2, <1>4, <1>5, <1>7

LEMMA BackupInv ==
    ASSUME ConfigInv, NEW e \in Edit, Config!Backup(e)
    PROVE  ConfigInv'
<1> DEFINE w == [edit[e] EXCEPT !.stage = "saved"]
<1>1. /\ edit[e] \in EditRec /\ edit[e].stage = "read" /\ e \in Config!Busy /\ ReadAll(e)
      /\ document \in Config!Document /\ backup' = document
      /\ UNCHANGED <<document, inode, crashes>> /\ Config!Becomes(e, w)
  BY EditsTyped DEF Config!Backup, ConfigInv, Config!Busy, Config!At
<1>2. w \in EditRec /\ w.stage = "saved" /\ w.style = edit[e].style /\ w.read = edit[e].read
  BY <1>1 DEF EditRec
<1>3. \/ Config!Begun = endangered' /\ ~Knowing(e)
      \/ endangered' = Config!Endangered(e) \cup endangered /\ Knowing(e)
  <2>1. edit[e].style \in Config!Styles
    BY <1>1 DEF ReadAll
  <2> QED
    BY <2>1 DEF Config!Backup, Knowing, Config!Styles
<1> HIDE DEF w
<1>4. /\ edit' \in [Edit -> EditRec] /\ edit'[e] = w /\ Lasting' \subseteq Lasting
      /\ \A f \in Edit \ {e} : edit'[f] = edit[f]
      /\ \A f \in Edit : edit'[f].stage = "loaded" => edit'[f].style \in {"hashed", "forced"}
      /\ \A f \in Config!Busy \ {e} :
           f \in endangered' /\ (edit[f].style = "inPlace" => Lasting' = {})
  BY <1>1, <1>2, <1>3, WriteKeepsLooks
<1>5. ~Knowing(e) => Lasting' = {}
  <2> SUFFICES ASSUME Config!Begun = endangered', NEW f \in Lasting' PROVE FALSE
    BY <1>3
  <2>1. f \in Edit /\ f \notin endangered' /\ edit'[f].stage = "acknowledged"
    BY DEF Lasting, Config!At
  <2>2. f \in Config!Begun
    BY <1>1, <1>2, <1>4, <2>1 DEF Config!Begun, Config!At
  <2> QED
    BY <2>1, <2>2
<1>6. Config!TypeOK'
  <2>1. endangered' \subseteq Edit
    BY <1>1, <1>3, BesideOthers, EditsTyped DEF ConfigInv
  <2> QED
    BY <1>1, <1>4, <2>1 DEF ConfigInv, Config!TypeOK, EditRec, Config!Document
<1>7. ASSUME NEW f \in Config!Busy'
      PROVE  ReadAll(f)'
  <2>1. f \in Edit /\ edit'[f].stage \in {"read", "saved", "truncated"}
    BY DEF Config!Busy
  <2>2. CASE f = e
    <3>1. /\ edit'[f].stage = "saved" /\ edit'[f].style = edit[e].style
          /\ edit'[f].read = edit[e].read /\ edit[e].style \in Config!Styles
      BY <1>1, <1>2, <1>4, <2>2 DEF ReadAll
    <3>2. Lasting' \subseteq edit[e].read.edits
      BY <1>1, <1>4, <1>5 DEF ReadAll
    <3>3. Lasting' \subseteq document.edits
      BY <1>1, <1>4, <1>5 DEF ReadAll, ConfigInv, Survives
    <3> QED
      BY <1>1, <3>1, <3>2, <3>3 DEF ReadAll
  <2>3. CASE f # e
    <3>1. edit'[f] = edit[f] /\ ReadAll(f) /\ f \in Config!Busy
      BY <1>4, <2>1, <2>3 DEF ConfigInv, Config!Busy
    <3>2. f \in endangered' /\ (edit[f].style = "inPlace" => Lasting' = {})
      BY <1>4, <2>3, <3>1
    <3> QED
      BY <1>1, <1>4, <3>1, <3>2 DEF ReadAll, Knowing
  <2> QED
    BY <2>2, <2>3
<1>8. Survives'
  <2>1. CASE document.whole
    BY <1>1, <1>4, <2>1 DEF ConfigInv, Survives
  <2>2. CASE ~document.whole
    BY <1>1, <1>4, <1>5, <2>2 DEF ConfigInv, ReadAll, Survives
  <2> QED
    BY <2>1, <2>2
<1> QED
  BY <1>4, <1>6, <1>7, <1>8 DEF ConfigInv

LEMMA RenameInv ==
    ASSUME ConfigInv, NEW e \in Edit, Config!Rename(e)
    PROVE  ConfigInv'
<1>1. /\ edit[e] \in EditRec /\ edit[e].stage = "saved" /\ edit[e].style # "inPlace"
      /\ e \in Config!Busy /\ ReadAll(e)
      /\ document' = Config!Whole(edit[e].read.edits \cup {e})
      /\ inode' = inode + 1 /\ UNCHANGED <<backup, crashes>>
      /\ endangered' = endangered \cup Config!Endangered(e)
      /\ Config!Becomes(e, Config!Ended("acknowledged"))
  BY EditsTyped DEF Config!Rename, Config!NewText, ConfigInv, Config!Busy, Config!At
<1>2. /\ edit' \in [Edit -> EditRec] /\ edit'[e] = Config!Ended("acknowledged")
      /\ \A f \in Edit \ {e} : edit'[f] = edit[f]
      /\ \A f \in Edit : edit'[f].stage = "loaded" => edit'[f].style \in {"hashed", "forced"}
      /\ Lasting' \subseteq Lasting \cup {e}
      /\ \A f \in Config!Busy \ {e} :
           /\ Lasting' \subseteq Lasting
           /\ f \in endangered' /\ (edit[f].style = "inPlace" => Lasting' = {})
  BY <1>1, EditsTyped, WriteKeepsLooks
<1>3. document' \in Config!Document /\ document'.whole /\ Lasting' \subseteq document'.edits
  <2>1. edit[e].read.edits \cup {e} \in SUBSET Edit
    BY <1>1 DEF EditRec, Config!Document
  <2>2. /\ document' \in Config!Document /\ document'.whole
        /\ document'.edits = edit[e].read.edits \cup {e}
    BY <1>1, <2>1, EditsTyped DEF Config!Whole
  <2> QED
    BY <1>1, <1>2, <2>2 DEF ReadAll
<1>4. Config!TypeOK'
  <2>1. endangered' \subseteq Edit /\ inode' \in Nat /\ backup' \in Config!Document /\ crashes' \in 0..MaxCrashes
    BY <1>1, BesideOthers, EditsTyped DEF ConfigInv
  <2> QED
    BY <1>2, <1>3, <2>1 DEF Config!TypeOK, EditRec
<1>5. ASSUME NEW f \in Config!Busy'
      PROVE  ReadAll(f)'
  <2>1. f \in Edit /\ edit'[f].stage \in {"read", "saved", "truncated"}
    BY DEF Config!Busy
  <2>2. f # e
    BY <1>2, <2>1, EditsTyped
  <2>3. edit'[f] = edit[f] /\ ReadAll(f) /\ f \in Config!Busy
    BY <1>2, <2>1, <2>2 DEF ConfigInv, Config!Busy
  <2>4. /\ Lasting' \subseteq Lasting /\ f \in endangered'
        /\ (edit[f].style = "inPlace" => Lasting' = {})
    BY <1>2, <2>2, <2>3
  <2> QED
    BY <1>1, <1>3, <2>3, <2>4 DEF ReadAll, Knowing
<1>6. Survives'
  BY <1>3 DEF Survives
<1> QED
  BY <1>2, <1>4, <1>5, <1>6 DEF ConfigInv

LEMMA TruncateInv ==
    ASSUME ConfigInv, NEW e \in Edit, Config!Truncate(e)
    PROVE  ConfigInv'
<1> DEFINE w == [edit[e] EXCEPT !.stage = "truncated", !.inode = inode]
<1>1. /\ edit[e] \in EditRec /\ edit[e].stage = "saved" /\ edit[e].style = "inPlace"
      /\ e \in Config!Busy /\ ReadAll(e)
      /\ document' = Config!Torn
      /\ UNCHANGED <<backup, crashes, inode>> /\ inode \in Nat
      /\ endangered' = endangered \cup Config!Endangered(e)
      /\ Config!Becomes(e, w)
  BY EditsTyped DEF Config!Truncate, ConfigInv, Config!Busy, Config!At
<1>2. /\ w \in EditRec /\ w.stage = "truncated" /\ w.style = "inPlace"
      /\ w.read = edit[e].read /\ w.inode = inode
  BY <1>1 DEF EditRec
<1> HIDE DEF w
<1>3. /\ edit' \in [Edit -> EditRec] /\ edit'[e] = w /\ Lasting' \subseteq Lasting
      /\ \A f \in Edit \ {e} : edit'[f] = edit[f]
      /\ \A f \in Edit : edit'[f].stage = "loaded" => edit'[f].style \in {"hashed", "forced"}
      /\ \A f \in Config!Busy \ {e} : f \in endangered' /\ Lasting' = {}
  BY <1>1, <1>2, WriteKeepsLooks
<1>4. document' \in Config!Document /\ ~document'.whole
  BY <1>1, EditsTyped DEF Config!Torn
<1>5. Config!TypeOK'
  <2>1. endangered' \subseteq Edit /\ backup' \in Config!Document /\ crashes' \in 0..MaxCrashes
    BY <1>1, BesideOthers, EditsTyped DEF ConfigInv
  <2> QED
    BY <1>1, <1>3, <1>4, <2>1 DEF Config!TypeOK, EditRec
<1>6. Lasting' \subseteq edit[e].read.edits /\ Lasting' \subseteq backup.edits
  BY <1>1, <1>3 DEF ReadAll
<1>7. ASSUME NEW f \in Config!Busy'
      PROVE  ReadAll(f)'
  <2>1. f \in Edit /\ edit'[f].stage \in {"read", "saved", "truncated"}
    BY DEF Config!Busy
  <2>2. CASE f = e
    BY <1>1, <1>2, <1>3, <1>6, <2>2 DEF ReadAll, Config!Styles
  <2>3. CASE f # e
    <3>1. edit'[f] = edit[f] /\ ReadAll(f) /\ f \in Config!Busy
      BY <1>3, <2>1, <2>3 DEF ConfigInv, Config!Busy
    <3>2. f \in endangered' /\ Lasting' = {}
      BY <1>3, <2>3, <3>1
    <3> QED
      BY <1>1, <1>3, <3>1, <3>2 DEF ReadAll, Knowing
  <2> QED
    BY <2>2, <2>3
<1>8. Survives'
  BY <1>1, <1>4, <1>6 DEF Survives
<1> QED
  BY <1>3, <1>5, <1>7, <1>8 DEF ConfigInv

LEMMA WriteTextInv ==
    ASSUME ConfigInv, NEW e \in Edit, Config!WriteText(e)
    PROVE  ConfigInv'
<1>1. /\ edit[e] \in EditRec /\ edit[e].stage = "truncated" /\ edit[e].style = "inPlace"
      /\ e \in Config!Busy /\ ReadAll(e)
      /\ UNCHANGED <<backup, crashes, inode>> /\ inode \in Nat
      /\ endangered' = endangered \cup Config!Endangered(e)
      /\ Config!Becomes(e, Config!Ended("acknowledged"))
  BY EditsTyped DEF Config!WriteText, ConfigInv, ReadAll, Config!Busy, Config!At
<1>2. \/ document' = document /\ e \in endangered
      \/ document' = Config!Torn /\ e \in endangered
      \/ document' = Config!Whole(edit[e].read.edits \cup {e})
  BY <1>1 DEF Config!WriteText, Config!NewText, ReadAll
<1>3. /\ edit' \in [Edit -> EditRec] /\ edit'[e] = Config!Ended("acknowledged")
      /\ \A f \in Edit \ {e} : edit'[f] = edit[f]
      /\ \A f \in Edit : edit'[f].stage = "loaded" => edit'[f].style \in {"hashed", "forced"}
      /\ Lasting' \subseteq Lasting \cup {e}
      /\ \A f \in Config!Busy \ {e} : f \in endangered' /\ Lasting' = {}
  BY <1>1, EditsTyped, WriteKeepsLooks
<1>4. e \in endangered => Lasting' \subseteq Lasting
  BY <1>1, <1>3 DEF Lasting
<1>5. document' \in Config!Document /\ Survives'
  <2>1. CASE document' = document /\ e \in endangered
    BY <1>1, <1>4, <2>1, EditsTyped DEF ConfigInv, Survives
  <2>2. CASE document' = Config!Torn /\ e \in endangered
    <3>1. document' \in Config!Document /\ ~document'.whole
      BY <2>2, EditsTyped DEF Config!Torn
    <3> QED
      BY <1>1, <1>4, <2>2, <3>1 DEF ReadAll, Survives
  <2>3. CASE document' = Config!Whole(edit[e].read.edits \cup {e})
    <3>1. edit[e].read.edits \cup {e} \in SUBSET Edit
      BY <1>1 DEF EditRec, Config!Document
    <3>2. /\ document' \in Config!Document /\ document'.whole
          /\ document'.edits = edit[e].read.edits \cup {e}
      BY <2>3, <3>1, EditsTyped DEF Config!Whole
    <3>3. Lasting \subseteq edit[e].read.edits
      BY <1>1 DEF ReadAll
    <3> QED
      BY <1>3, <3>2, <3>3 DEF Survives
  <2> QED
    BY <1>2, <2>1, <2>2, <2>3
<1>6. Config!TypeOK'
  <2>1. endangered' \subseteq Edit /\ backup' \in Config!Document /\ crashes' \in 0..MaxCrashes
    BY <1>1, BesideOthers, EditsTyped DEF ConfigInv
  <2> QED
    BY <1>1, <1>3, <1>5, <2>1 DEF Config!TypeOK, EditRec
<1>7. ASSUME NEW f \in Config!Busy'
      PROVE  ReadAll(f)'
  <2>1. f \in Edit /\ edit'[f].stage \in {"read", "saved", "truncated"}
    BY DEF Config!Busy
  <2>2. f # e
    BY <1>3, <2>1, EditsTyped
  <2>3. edit'[f] = edit[f] /\ ReadAll(f) /\ f \in Config!Busy
    BY <1>3, <2>1, <2>2 DEF ConfigInv, Config!Busy
  <2>4. f \in endangered' /\ Lasting' = {}
    BY <1>3, <2>2, <2>3
  <2> QED
    BY <1>1, <2>3, <2>4 DEF ReadAll, Knowing
<1> QED
  BY <1>3, <1>5, <1>6, <1>7 DEF ConfigInv

\* A crash ends whoever writes; what lasted lasts.
LEMMA ConfigCrashInv ==
    ASSUME ConfigInv, Config!DocumentAssumption, Config!Crash
    PROVE  ConfigInv'
<1>1. /\ edit' = [e \in Edit |-> IF edit[e].stage \in {"idle", "acknowledged"}
                                THEN edit[e] ELSE Config!Ended("failed")]
      /\ UNCHANGED <<document, inode, backup, endangered>>
      /\ crashes < MaxCrashes /\ crashes' = crashes + 1 /\ crashes \in 0..MaxCrashes
  BY EditsTyped DEF Config!Crash, ConfigInv
<1>2. ASSUME NEW e \in Edit
      PROVE  edit'[e] \in EditRec /\ edit'[e].stage \in {"idle", "acknowledged", "failed"}
             /\ (edit'[e].stage = "acknowledged" => edit[e].stage = "acknowledged")
  BY <1>1, EditsTyped DEF ConfigInv
<1>3. edit' \in [Edit -> EditRec]
  BY <1>1, <1>2
<1>4. crashes' \in 0..MaxCrashes
  BY <1>1 DEF Config!DocumentAssumption
<1>5. Config!TypeOK'
  BY <1>1, <1>3, <1>4 DEF ConfigInv, Config!TypeOK, EditRec, Config!Document
<1>6. Lasting' \subseteq Lasting /\ Config!Busy' = {}
  BY <1>1, <1>2 DEF Lasting, Config!At, Config!Busy
<1> QED
  BY <1>1, <1>2, <1>5, <1>6 DEF ConfigInv, Survives

LEMMA ConfigNext ==
    ConfigInv /\ Config!DocumentAssumption /\ (Config!Next \/ UNCHANGED configVars) => ConfigInv'
<1>1. ASSUME ConfigInv, UNCHANGED configVars PROVE ConfigInv'
  <2>1. /\ Config!TypeOK' /\ Config!Busy' = Config!Busy /\ Lasting' = Lasting
        /\ UNCHANGED <<document, inode, backup, edit, crashes, endangered>>
    BY <1>1 DEF configVars, ConfigInv, Config!TypeOK, Config!Busy, Config!At, Lasting
  <2> QED
    BY <1>1, <2>1 DEF ConfigInv, ReadAll, Knowing, Survives
<1> QED
  BY <1>1, LookInv, BackupInv, RenameInv, TruncateInv, WriteTextInv, ConfigCrashInv
  DEF Config!Next

LEMMA InitConfig == Config!DocumentAssumption /\ Config!Init => ConfigInv
<1> SUFFICES ASSUME Config!DocumentAssumption, Config!Init PROVE ConfigInv
  OBVIOUS
<1>1. \A e \in Edit : edit[e] = Config!NewWriter /\ edit[e].stage = "idle"
  BY DEF Config!Init, Config!NewWriter
<1>2. edit \in [Edit -> EditRec] /\ endangered = {} /\ inode \in Nat /\ crashes \in 0..MaxCrashes
  BY EditsTyped DEF Config!Init, Config!DocumentAssumption
<1>3. document \in Config!Document /\ backup \in Config!Document
  BY EditsTyped DEF Config!Init
<1>4. Lasting = {} /\ Config!Busy = {}
  BY <1>1 DEF Lasting, Config!At, Config!Busy
<1> QED
  BY <1>1, <1>2, <1>3, <1>4 DEF ConfigInv, Config!TypeOK, EditRec, Survives

LEMMA ConfigInvSurvives == ConfigInv => Config!EditsSurvive
  BY DEF ConfigInv, Survives, Lasting, Config!EditsSurvive, Config!At

(***************************************************************************)
(* What the gateway runs by.                                               *)
(***************************************************************************)

\* Time: each version of the document has two stamps at most.
Stamped == /\ seen.last <= stamp /\ seen.current <= stamp
           /\ stamp <= 2 * file.version + (IF file.whole THEN 0 ELSE 1)
           /\ ~file.whole => file.version < MaxChanges

\* Who reloads alone is the only one, and where the document is still the one that
\* the watcher knows of, has it in hand.
Noted(r) == stamp = (IF r = "watcher" THEN seen.current ELSE seen.last)
InHandOf(r) ==
    /\ reload[r].stage = "assign" => reload[r].got = file.version
    /\ reload[r].stage = "apply" => config = file.version
    /\ reload[r].stage = "check" => config = file.version /\ agent = file.version
AloneIsTrue(r) ==
    reload[r].alone => /\ Reload!Reloading = {r}
                       /\ gateway = "watching" /\ file.whole /\ Noted(r) => InHandOf(r)

ReloadInv ==
    /\ Reload!TypeOK /\ Stamped /\ Reload!InForceIsCurrent
    /\ \A r \in Reload!Reloading : AloneIsTrue(r)

Stages == {"idle", "load", "assign", "apply", "check", "done"}
TaskRec == [stage : Stages, got : Reload!Version, alone : BOOLEAN]

LEMMA TasksTyped ==
    /\ Reload!ReloadAssumption => Reload!NoReload \in TaskRec
    /\ Reload!TypeOK => reload \in [Reload!Threads -> TaskRec]
  BY DEF TaskRec, Stages, Reload!NoReload, Reload!Version, Reload!ReloadAssumption, Reload!TypeOK

LEMMA StampedOf ==
    ASSUME Reload!TypeOK, Reload!ReloadAssumption
    PROVE  /\ stamp \in Nat /\ seen.last \in Nat /\ seen.current \in Nat
           /\ seen = [last |-> seen.last, current |-> seen.current]
           /\ file = [version |-> file.version, whole |-> file.whole]
           /\ file.version \in Nat /\ file.version <= MaxChanges /\ file.whole \in BOOLEAN
           /\ MaxChanges \in Nat
           /\ Stamped => stamp \in 0..(2 * MaxChanges)
<1>1. /\ stamp \in Nat /\ seen.last \in Nat /\ seen.current \in Nat /\ MaxChanges \in Nat
      /\ seen = [last |-> seen.last, current |-> seen.current]
      /\ file = [version |-> file.version, whole |-> file.whole]
      /\ file.version \in Nat /\ file.version <= MaxChanges /\ file.whole \in BOOLEAN
  BY DEF Reload!TypeOK, Reload!ReloadAssumption, Reload!Version
<1> QED
  BY <1>1 DEF Stamped

\* The document changes: what anyone has in hand is no longer noted.
LEMMA FileChangesInv ==
    ASSUME ReloadInv, Reload!ReloadAssumption,
           Reload!Replace \/ Reload!Truncate \/ Reload!WriteText
    PROVE  ReloadInv'
<1>1. /\ stamp' = stamp + 1
      /\ UNCHANGED <<gateway, config, agent, checker, reload, requested, seen, signals, trusted>>
      /\ \/ file.whole /\ file.version < MaxChanges /\ file' = [file EXCEPT !.version = file.version + 1]
         \/ file.whole /\ file.version < MaxChanges /\ file' = [file EXCEPT !.whole = FALSE]
         \/ ~file.whole /\ file' = [version |-> file.version + 1, whole |-> TRUE]
  BY DEF Reload!Replace, Reload!Replaced, Reload!Truncate, Reload!WriteText, Reload!inForceVars
<1>2. /\ stamp \in Nat /\ seen.last \in Nat /\ seen.current \in Nat /\ MaxChanges \in Nat
      /\ file.version \in Nat /\ file.whole \in BOOLEAN
      /\ file = [version |-> file.version, whole |-> file.whole] /\ file.version <= MaxChanges
  BY StampedOf DEF ReloadInv
<1>3. /\ file' \in [version : Reload!Version, whole : BOOLEAN]
      /\ \/ file.whole /\ file.version < MaxChanges /\ file'.version = file.version + 1 /\ file'.whole
         \/ file.whole /\ file.version < MaxChanges /\ file'.version = file.version /\ ~file'.whole
         \/ ~file.whole /\ file'.version = file.version + 1 /\ file'.whole
  <2>1. CASE file.whole /\ file.version < MaxChanges /\ file' = [file EXCEPT !.version = file.version + 1]
    <3>1. file.version + 1 \in Reload!Version
      BY <1>2, <2>1 DEF Reload!Version
    <3> QED
      BY <1>2, <2>1, <3>1
  <2>2. CASE file.whole /\ file.version < MaxChanges /\ file' = [file EXCEPT !.whole = FALSE]
    <3>1. file.version \in Reload!Version
      BY <1>2 DEF Reload!Version
    <3> QED
      BY <1>2, <2>2, <3>1
  <2>3. CASE ~file.whole /\ file' = [version |-> file.version + 1, whole |-> TRUE]
    <3>1. file.version + 1 \in Reload!Version
      BY <1>2, <2>3 DEF Reload!Version, ReloadInv, Stamped
    <3> QED
      BY <1>2, <2>3, <3>1
  <2> QED
    BY <1>1, <2>1, <2>2, <2>3
<1>4. Stamped' /\ seen.last < stamp' /\ seen.current < stamp' /\ stamp' \in 0..(2 * MaxChanges)
  BY <1>1, <1>2, <1>3 DEF ReloadInv, Stamped
<1>5. Reload!TypeOK'
  BY <1>1, <1>3, <1>4 DEF ReloadInv, Reload!TypeOK
<1>6. Reload!InForceIsCurrent'
  BY <1>1, <1>2, <1>4 DEF Reload!InForceIsCurrent
<1>7. ASSUME NEW r \in Reload!Reloading'
      PROVE  AloneIsTrue(r)'
  <2>1. r \in Reload!Reloading /\ Reload!Reloading' = Reload!Reloading
    BY <1>1 DEF Reload!Reloading
  <2>2. ~Noted(r)'
    BY <1>1, <1>2, <1>4 DEF Noted
  <2> QED
    BY <1>1, <2>1, <2>2 DEF ReloadInv, AloneIsTrue
<1> QED
  BY <1>4, <1>5, <1>6, <1>7 DEF ReloadInv

\* A thread that reloads goes on, or is done: nobody else is alone.
LEMMA TaskMoves ==
    ASSUME ReloadInv, NEW r \in Reload!Reloading, NEW t \in TaskRec, t.alone => reload[r].alone,
           reload' = [reload EXCEPT ![r] = t],
           t.stage \in {"idle", "done"} \/ (t.alone => AloneIsTrue(r)')
    PROVE  /\ reload' \in [Reload!Threads -> TaskRec] /\ reload'[r] = t
           /\ \A q \in Reload!Reloading' : AloneIsTrue(q)'
           /\ Reload!Reloading = (IF t.stage \in {"idle", "done"} THEN Reload!Reloading' \cup {r}
                                  ELSE Reload!Reloading')
           /\ reload[r].alone => Reload!Reloading = {r}
<1>1. r \in Reload!Threads /\ reload \in [Reload!Threads -> TaskRec] /\ AloneIsTrue(r)
  BY TasksTyped DEF ReloadInv, Reload!Reloading
<1>2. /\ reload' \in [Reload!Threads -> TaskRec] /\ reload'[r] = t
      /\ \A q \in Reload!Threads \ {r} : reload'[q] = reload[q]
  BY <1>1
<1>3. Reload!Reloading = (IF t.stage \in {"idle", "done"} THEN Reload!Reloading' \cup {r}
                          ELSE Reload!Reloading')
  BY <1>1, <1>2 DEF Reload!Reloading
<1>4. ASSUME NEW q \in Reload!Reloading' PROVE AloneIsTrue(q)'
  <2>1. CASE q = r
    BY <1>2, <2>1 DEF Reload!Reloading, AloneIsTrue
  <2>2. CASE q # r
    <3>1. q \in Reload!Reloading /\ reload'[q] = reload[q]
      BY <1>2, <1>3, <2>2 DEF Reload!Reloading
    <3>2. ~reload[q].alone
      BY <2>2, <3>1 DEF ReloadInv, AloneIsTrue
    <3> QED
      BY <3>1, <3>2 DEF AloneIsTrue
  <2> QED
    BY <2>1, <2>2
<1> QED
  BY <1>1, <1>2, <1>3, <1>4 DEF AloneIsTrue

\* A reload begins; what is seen changes only to what is.
LEMMA BeginsInv ==
    ASSUME ReloadInv, Reload!ReloadAssumption, NEW r \in Reload!Threads, ~(r \in Reload!Reloading),
           Reload!Begins(r)
    PROVE  /\ reload' \in [Reload!Threads -> TaskRec] /\ r \in Reload!Reloading'
           /\ \A q \in Reload!Reloading' : AloneIsTrue(q)'
<1> DEFINE mark(q) == [reload[q] EXCEPT !.alone = FALSE]
<1>1. reload \in [Reload!Threads -> TaskRec]
  BY TasksTyped DEF ReloadInv
<1>2. \A q \in Reload!Threads : /\ mark(q) \in TaskRec /\ ~mark(q).alone
                                /\ mark(q).stage = reload[q].stage
  BY <1>1 DEF TaskRec
<1>3. /\ reload' = [q \in Reload!Threads |->
                      IF q = r THEN [stage |-> "load", got |-> 0, alone |-> Reload!Reloading = {}]
                      ELSE mark(q)]
  BY DEF Reload!Begins
<1> HIDE DEF mark
<1>4. PICK b \in BOOLEAN : b = (Reload!Reloading = {})
  OBVIOUS
<1>5. \A q \in Reload!Threads : reload'[q] = IF q = r THEN [stage |-> "load", got |-> 0, alone |-> b]
                                             ELSE mark(q)
  BY <1>3, <1>4
<1>6. [stage |-> "load", got |-> 0, alone |-> b] \in TaskRec
  BY DEF TaskRec, Stages, Reload!Version, Reload!ReloadAssumption
<1>7. reload' \in [Reload!Threads -> TaskRec]
  BY <1>2, <1>3, <1>5, <1>6
<1>8. Reload!Reloading' = Reload!Reloading \cup {r}
  BY <1>2, <1>5 DEF Reload!Reloading
<1>9. ASSUME NEW q \in Reload!Reloading' PROVE AloneIsTrue(q)'
  <2>1. q \in Reload!Threads
    BY DEF Reload!Reloading
  <2>2. CASE q = r
    <3>1. reload'[q].stage = "load" /\ reload'[q].alone = b
      BY <1>5, <2>1, <2>2
    <3>2. b => Reload!Reloading' = {q}
      BY <1>4, <1>8, <2>2
    <3> QED
      BY <3>1, <3>2 DEF AloneIsTrue, InHandOf
  <2>3. CASE q # r
    BY <1>2, <1>5, <2>1, <2>3 DEF AloneIsTrue
  <2> QED
    BY <2>2, <2>3
<1> QED
  BY <1>7, <1>8, <1>9

LEMMA ThreadBeginsInv ==
    ASSUME ReloadInv, Reload!ReloadAssumption,
           \/ \E h \in Handler : Reload!HandlerReloads(h) \/ Reload!HandlerWrites(h)
           \/ Reload!ReloadOnSignal \/ Reload!ReloadOnChange
    PROVE  ReloadInv'
<1>1. /\ stamp \in Nat /\ seen.last \in Nat /\ seen.current \in Nat /\ MaxChanges \in Nat
      /\ file.version \in Nat /\ file.whole \in BOOLEAN
      /\ seen = [last |-> seen.last, current |-> seen.current]
      /\ file = [version |-> file.version, whole |-> file.whole] /\ file.version <= MaxChanges
      /\ stamp \in 0..(2 * MaxChanges)
  BY StampedOf DEF ReloadInv
<1>2. PICK r \in Reload!Threads :
        /\ ~(r \in Reload!Reloading) /\ Reload!Begins(r)
        /\ UNCHANGED <<gateway, config, agent, checker, signals, trusted>>
        /\ requested' \in {requested, FALSE}
        /\ \/ UNCHANGED <<seen, file, stamp>>
           \/ UNCHANGED <<file, stamp>> /\ seen' = [seen EXCEPT !.current = stamp]
           \/ UNCHANGED seen /\ Reload!Replaced
  BY DEF Reload!HandlerReloads, Reload!HandlerWrites, Reload!ReloadOnSignal, Reload!ReloadOnChange,
         Reload!Threads, Reload!Reloading, Reload!In, Reload!documentVars, Reload!inForceVars
<1>3. /\ reload' \in [Reload!Threads -> TaskRec] /\ r \in Reload!Reloading'
      /\ \A q \in Reload!Reloading' : AloneIsTrue(q)'
  BY <1>2, BeginsInv
<1>4. /\ Stamped' /\ stamp' \in 0..(2 * MaxChanges)
      /\ file' \in [version : Reload!Version, whole : BOOLEAN]
      /\ seen' \in [last : 0..(2 * MaxChanges), current : 0..(2 * MaxChanges)]
  <2>1. CASE UNCHANGED <<seen, file, stamp>>
    BY <1>1, <2>1 DEF ReloadInv, Stamped, Reload!TypeOK
  <2>2. CASE UNCHANGED <<file, stamp>> /\ seen' = [seen EXCEPT !.current = stamp]
    <3>1. seen' = [last |-> seen.last, current |-> stamp]
      BY <1>1, <2>2
    <3> QED
      BY <1>1, <2>2, <3>1 DEF ReloadInv, Stamped, Reload!TypeOK
  <2>3. CASE UNCHANGED seen /\ Reload!Replaced
    <3>1. /\ file' = [file EXCEPT !.version = file.version + 1] /\ file.whole
          /\ stamp' = stamp + 1 /\ file.version < MaxChanges
      BY <2>3 DEF Reload!Replaced
    <3>2. file' = [version |-> file.version + 1, whole |-> TRUE]
      BY <1>1, <3>1
    <3>3. file.version + 1 \in Reload!Version
      BY <1>1, <3>1 DEF Reload!Version
    <3>4. Stamped'
      BY <1>1, <2>3, <3>1, <3>2 DEF ReloadInv, Stamped
    <3>5. stamp' \in 0..(2 * MaxChanges)
      BY <1>1, <3>1, <3>2, <3>4 DEF Stamped
    <3> QED
      BY <2>3, <3>2, <3>3, <3>4, <3>5 DEF ReloadInv, Reload!TypeOK
  <2> QED
    BY <1>2, <2>1, <2>2, <2>3
<1>5. Reload!TypeOK'
  BY <1>2, <1>3, <1>4 DEF ReloadInv, Reload!TypeOK, TaskRec, Stages
<1>6. Reload!InForceIsCurrent'
  BY <1>3 DEF Reload!InForceIsCurrent
<1> QED
  BY <1>3, <1>4, <1>5, <1>6 DEF ReloadInv

LEMMA ReturnedTask ==
    ASSUME Reload!ReloadAssumption, NEW r
    PROVE  LET t == [Reload!NoReload EXCEPT !.stage = IF r \in Handler THEN "done" ELSE "idle"]
           IN  t \in TaskRec /\ t.stage \in {"idle", "done"} /\ ~t.alone
<1>1. /\ Reload!NoReload \in TaskRec /\ ~Reload!NoReload.alone
      /\ "done" \in Stages /\ "idle" \in Stages
  BY TasksTyped DEF Reload!NoReload, Stages
<1> QED
  BY <1>1 DEF TaskRec

\* A reload that is over: the watcher has then seen what it had looked at.
LEMMA ReturnsRight ==
    ASSUME ReloadInv, Reload!ReloadAssumption, NEW r \in Reload!Reloading, Reload!Returns(r),
           UNCHANGED <<gateway, file, stamp, config>>
    PROVE  /\ reload' \in [Reload!Threads -> TaskRec]
           /\ \A q \in Reload!Reloading' : AloneIsTrue(q)'
           /\ seen' \in [last : 0..(2 * MaxChanges), current : 0..(2 * MaxChanges)]
           /\ seen'.last = IF r = "watcher" THEN seen.current ELSE seen.last
           /\ Stamped'
<1> DEFINE t == [Reload!NoReload EXCEPT !.stage = IF r \in Handler THEN "done" ELSE "idle"]
<1>1. t \in TaskRec /\ t.stage \in {"idle", "done"} /\ ~t.alone
  BY ReturnedTask
<1>2. reload' = [reload EXCEPT ![r] = t]
  BY DEF Reload!Returns
<1> HIDE DEF t
<1>3. /\ reload' \in [Reload!Threads -> TaskRec]
      /\ \A q \in Reload!Reloading' : AloneIsTrue(q)'
  BY <1>1, <1>2, TaskMoves
<1>4. seen = [last |-> seen.last, current |-> seen.current]
  BY StampedOf DEF ReloadInv
<1>5. /\ seen'.last = (IF r = "watcher" THEN seen.current ELSE seen.last)
      /\ seen'.current = seen.current
      /\ seen' = [last |-> seen'.last, current |-> seen'.current]
  BY <1>4 DEF Reload!Returns
<1>6. seen' \in [last : 0..(2 * MaxChanges), current : 0..(2 * MaxChanges)]
  BY <1>5 DEF ReloadInv, Reload!TypeOK
<1>7. Stamped'
  BY <1>5 DEF ReloadInv, Stamped
<1> QED
  BY <1>3, <1>5, <1>6, <1>7

LEMMA LoadFromFileInv ==
    ASSUME ReloadInv, Reload!ReloadAssumption, NEW r \in Reload!Threads, Reload!LoadFromFile(r)
    PROVE  ReloadInv'
<1>1. /\ r \in Reload!Reloading /\ reload[r].stage = "load" /\ reload[r] \in TaskRec
      /\ UNCHANGED <<gateway, file, stamp, config, agent, checker, requested, signals, trusted>>
  BY TasksTyped DEF Reload!LoadFromFile, Reload!In, Reload!Reloading, Reload!documentVars,
                    Reload!inForceVars, ReloadInv
<1>2. CASE file.whole
  <2> DEFINE t == [reload[r] EXCEPT !.stage = "assign", !.got = file.version]
  <2>1. reload' = [reload EXCEPT ![r].stage = "assign", ![r].got = file.version] /\ seen' = seen
    BY <1>2 DEF Reload!LoadFromFile
  <2>2. file.version \in Reload!Version
    BY StampedOf DEF ReloadInv, Reload!Version
  <2>3. t \in TaskRec /\ t.stage = "assign" /\ t.got = file.version /\ t.alone = reload[r].alone
    BY <1>1, <2>2 DEF TaskRec, Stages
  <2>4. reload' = [reload EXCEPT ![r] = t]
    BY <1>1, <2>1, TasksTyped DEF ReloadInv
  <2> HIDE DEF t
  <2>5. reload \in [Reload!Threads -> TaskRec]
    BY TasksTyped DEF ReloadInv
  <2>6. reload'[r] = t
    BY <2>4, <2>5
  <2>7. t.alone => AloneIsTrue(r)'
    <3> SUFFICES ASSUME t.alone PROVE AloneIsTrue(r)'
      OBVIOUS
    <3>1. Reload!Reloading = {r}
      BY <1>1, <2>3 DEF ReloadInv, AloneIsTrue
    <3>2. Reload!Reloading' = {r}
      BY <2>3, <2>4, <2>5, <2>6, <3>1 DEF Reload!Reloading
    <3> QED
      BY <1>1, <2>3, <2>6, <3>2 DEF AloneIsTrue, InHandOf
  <2>8. /\ reload' \in [Reload!Threads -> TaskRec]
        /\ \A q \in Reload!Reloading' : AloneIsTrue(q)'
        /\ r \in Reload!Reloading'
    BY <1>1, <2>3, <2>4, <2>7, TaskMoves
  <2>9. Reload!TypeOK' /\ Stamped' /\ Reload!InForceIsCurrent'
    BY <1>1, <2>1, <2>8
    DEF ReloadInv, Reload!TypeOK, TaskRec, Stages, Stamped, Reload!InForceIsCurrent
  <2> QED
    BY <2>8, <2>9 DEF ReloadInv
<1>3. CASE ~file.whole
  <2>1. Reload!Returns(r)
    BY <1>3 DEF Reload!LoadFromFile
  <2>2. /\ reload' \in [Reload!Threads -> TaskRec] /\ Stamped'
        /\ \A q \in Reload!Reloading' : AloneIsTrue(q)'
        /\ seen' \in [last : 0..(2 * MaxChanges), current : 0..(2 * MaxChanges)]
    BY <1>1, <2>1, ReturnsRight
  <2>3. Reload!TypeOK'
    BY <1>1, <2>2 DEF ReloadInv, Reload!TypeOK, TaskRec, Stages
  <2>4. Reload!InForceIsCurrent'
    BY <1>1, <1>3 DEF Reload!InForceIsCurrent
  <2> QED
    BY <2>2, <2>3, <2>4 DEF ReloadInv
<1> QED
  BY <1>2, <1>3

LEMMA AssignInv ==
    ASSUME ReloadInv, Reload!ReloadAssumption, NEW r \in Reload!Threads,
           Reload!Assign(r) \/ Reload!SetConfig(r)
    PROVE  ReloadInv'
<1>1. /\ r \in Reload!Reloading /\ reload[r] \in TaskRec
      /\ reload \in [Reload!Threads -> TaskRec] /\ AloneIsTrue(r)
      /\ UNCHANGED <<gateway, file, stamp, checker, requested, seen, signals, trusted>>
  BY TasksTyped DEF Reload!Assign, Reload!SetConfig, Reload!In, Reload!Reloading,
                    Reload!documentVars, ReloadInv
<1>2. PICK t \in TaskRec :
        /\ reload' = [reload EXCEPT ![r] = t] /\ t.alone = reload[r].alone
        /\ config' \in Reload!Version /\ agent' \in Reload!Version
        /\ \/ /\ reload[r].stage = "assign" /\ t.stage = "apply"
              /\ config' = reload[r].got /\ agent' = agent
           \/ /\ reload[r].stage = "apply" /\ t.stage = "check"
              /\ agent' = config /\ config' = config
  <2>1. CASE Reload!Assign(r)
    <3> DEFINE t == [reload[r] EXCEPT !.stage = "apply", !.got = 0]
    <3>1. /\ reload' = [reload EXCEPT ![r].stage = "apply", ![r].got = 0]
          /\ reload[r].stage = "assign" /\ config' = reload[r].got /\ agent' = agent
      BY <2>1 DEF Reload!Assign, Reload!In
    <3>2. 0 \in Reload!Version
      BY DEF Reload!Version, Reload!ReloadAssumption
    <3>3. t \in TaskRec /\ t.stage = "apply" /\ t.alone = reload[r].alone
      BY <1>1, <3>2 DEF TaskRec, Stages
    <3>4. reload' = [reload EXCEPT ![r] = t]
      BY <1>1, <3>1
    <3>5. config' \in Reload!Version /\ agent' \in Reload!Version
      BY <1>1, <3>1 DEF TaskRec, ReloadInv, Reload!TypeOK
    <3> HIDE DEF t
    <3> QED
      BY <3>1, <3>3, <3>4, <3>5
  <2>2. CASE Reload!SetConfig(r)
    <3> DEFINE t == [reload[r] EXCEPT !.stage = "check"]
    <3>1. /\ reload' = [reload EXCEPT ![r].stage = "check"]
          /\ reload[r].stage = "apply" /\ agent' = config /\ config' = config
      BY <2>2 DEF Reload!SetConfig, Reload!In
    <3>3. t \in TaskRec /\ t.stage = "check" /\ t.alone = reload[r].alone
      BY <1>1 DEF TaskRec, Stages
    <3>4. reload' = [reload EXCEPT ![r] = t]
      BY <1>1, <3>1
    <3>5. config' \in Reload!Version /\ agent' \in Reload!Version
      BY <3>1 DEF ReloadInv, Reload!TypeOK
    <3> HIDE DEF t
    <3> QED
      BY <3>1, <3>3, <3>4, <3>5
  <2> QED
    BY <2>1, <2>2
<1>3. reload'[r] = t /\ \A q \in Reload!Threads \ {r} : reload'[q] = reload[q]
  BY <1>1, <1>2
<1>4. t.alone => AloneIsTrue(r)'
  <2> SUFFICES ASSUME t.alone PROVE AloneIsTrue(r)'
    OBVIOUS
  <2>1. Reload!Reloading' = {r}
    BY <1>1, <1>2, <1>3 DEF Reload!Reloading, AloneIsTrue
  <2>2. gateway = "watching" /\ file.whole /\ Noted(r) => InHandOf(r)
    BY <1>1, <1>2 DEF AloneIsTrue
  <2>3. gateway = "watching" /\ file.whole /\ Noted(r) => InHandOf(r)'
    BY <1>1, <1>2, <1>3, <2>2 DEF InHandOf
  <2> QED
    BY <1>1, <2>1, <2>3 DEF AloneIsTrue, Noted
<1>5. /\ reload' \in [Reload!Threads -> TaskRec]
      /\ \A q \in Reload!Reloading' : AloneIsTrue(q)'
      /\ r \in Reload!Reloading'
  BY <1>1, <1>2, <1>4, TaskMoves
<1>6. Reload!TypeOK' /\ Stamped'
  BY <1>1, <1>2, <1>5 DEF ReloadInv, Reload!TypeOK, TaskRec, Stages, Stamped
<1>7. Reload!InForceIsCurrent'
  BY <1>5 DEF Reload!InForceIsCurrent
<1> QED
  BY <1>5, <1>6, <1>7 DEF ReloadInv

LEMMA SetPermissionCheckerInv ==
    ASSUME ReloadInv, Reload!ReloadAssumption, NEW r \in Reload!Threads, Reload!SetPermissionChecker(r)
    PROVE  ReloadInv'
<1>1. /\ r \in Reload!Reloading /\ reload[r].stage = "check" /\ reload[r] \in TaskRec /\ AloneIsTrue(r)
      /\ UNCHANGED <<gateway, file, stamp, config, agent, requested, signals>>
      /\ checker' = config /\ trusted' = reload[r].alone /\ Reload!Returns(r)
  BY TasksTyped DEF Reload!SetPermissionChecker, Reload!In, Reload!Reloading, Reload!documentVars, ReloadInv
<1>2. /\ reload' \in [Reload!Threads -> TaskRec] /\ Stamped'
      /\ \A q \in Reload!Reloading' : AloneIsTrue(q)'
      /\ seen' \in [last : 0..(2 * MaxChanges), current : 0..(2 * MaxChanges)]
      /\ seen'.last = IF r = "watcher" THEN seen.current ELSE seen.last
  BY <1>1, ReturnsRight
<1>3. trusted' \in BOOLEAN /\ checker' \in Reload!Version
  BY <1>1 DEF TaskRec, ReloadInv, Reload!TypeOK
<1>4. Reload!TypeOK'
  BY <1>1, <1>2, <1>3 DEF ReloadInv, Reload!TypeOK, TaskRec, Stages
<1>5. Reload!InForceIsCurrent'
  BY <1>1, <1>2 DEF Reload!InForceIsCurrent, AloneIsTrue, InHandOf, Noted
<1> QED
  BY <1>2, <1>4, <1>5 DEF ReloadInv

LEMMA SignalInv ==
    ASSUME ReloadInv, Reload!ReloadAssumption, Reload!Signal
    PROVE  ReloadInv'
<1>1. /\ UNCHANGED <<gateway, file, stamp, config, agent, checker, reload, seen, trusted>>
      /\ requested' = TRUE /\ signals < MaxSignals /\ signals' = signals + 1
  BY DEF Reload!Signal, Reload!documentVars, Reload!inForceVars
<1>2. signals' \in 0..MaxSignals
  BY <1>1 DEF ReloadInv, Reload!TypeOK, Reload!ReloadAssumption
<1>3. Reload!TypeOK' /\ Stamped' /\ Reload!InForceIsCurrent'
  BY <1>1, <1>2 DEF ReloadInv, Reload!TypeOK, Stamped, Reload!InForceIsCurrent, Reload!Reloading
<1>4. \A r \in Reload!Reloading' : AloneIsTrue(r)'
  BY <1>1 DEF ReloadInv, Reload!Reloading, AloneIsTrue, Noted, InHandOf
<1> QED
  BY <1>3, <1>4 DEF ReloadInv

LEMMA StartWatchingInv ==
    ASSUME ReloadInv, Reload!ReloadAssumption, Reload!StartWatching
    PROVE  ReloadInv'
<1> DEFINE mark(q) == [reload[q] EXCEPT !.alone = FALSE]
<1>1. /\ UNCHANGED <<file, stamp, config, agent, checker, requested, signals>>
      /\ gateway' = "watching" /\ seen' = [last |-> stamp, current |-> stamp]
      /\ trusted' = (trusted /\ {agent, checker} = {file.version})
      /\ reload' = [q \in Reload!Threads |-> mark(q)]
  BY DEF Reload!StartWatching, Reload!documentVars, Reload!inForceVars
<1>2. \A q \in Reload!Threads : mark(q) \in TaskRec /\ ~mark(q).alone
  BY TasksTyped DEF ReloadInv, TaskRec
<1> HIDE DEF mark
<1>3. reload' \in [Reload!Threads -> TaskRec]
  BY <1>1, <1>2
<1>4. \A q \in Reload!Reloading' : AloneIsTrue(q)'
  BY <1>1, <1>2 DEF Reload!Reloading, AloneIsTrue
<1>5. stamp \in Nat /\ stamp \in 0..(2 * MaxChanges)
  BY StampedOf DEF ReloadInv
<1>6. Stamped'
  BY <1>1, <1>5 DEF ReloadInv, Stamped
<1>7. trusted' \in BOOLEAN
  BY <1>1
<1>8. trusted' => agent = file.version /\ checker = file.version
  BY <1>1
<1>9. Reload!TypeOK'
  BY <1>1, <1>3, <1>5, <1>7 DEF ReloadInv, Reload!TypeOK, TaskRec, Stages
<1>10. Reload!InForceIsCurrent'
  BY <1>1, <1>8 DEF Reload!InForceIsCurrent
<1> QED
  BY <1>4, <1>6, <1>9, <1>10 DEF ReloadInv

LEMMA ReloadNext ==
    ReloadInv /\ Reload!ReloadAssumption /\ (Reload!Next \/ UNCHANGED reloadVars) => ReloadInv'
<1>1. ASSUME ReloadInv, UNCHANGED reloadVars PROVE ReloadInv'
  <2>1. UNCHANGED <<gateway, file, stamp, config, agent, checker, reload, requested, seen,
                    signals, trusted>>
    BY <1>1 DEF reloadVars
  <2>2. /\ Reload!TypeOK' /\ Stamped' /\ Reload!InForceIsCurrent'
        /\ Reload!Reloading' = Reload!Reloading
    BY <1>1, <2>1 DEF ReloadInv, Reload!TypeOK, Stamped, Reload!InForceIsCurrent, Reload!Reloading
  <2>3. \A r \in Reload!Reloading : AloneIsTrue(r)'
    BY <1>1, <2>1, <2>2 DEF ReloadInv, AloneIsTrue, Noted, InHandOf
  <2> QED
    BY <2>2, <2>3 DEF ReloadInv
<1> QED
  BY <1>1, FileChangesInv, LoadFromFileInv, AssignInv, SetPermissionCheckerInv,
     ThreadBeginsInv, SignalInv, StartWatchingInv
  DEF Reload!Next, Reload!ReloadStep

LEMMA InitReload == Reload!ReloadAssumption /\ Reload!Init => ReloadInv
<1> SUFFICES ASSUME Reload!ReloadAssumption, Reload!Init PROVE ReloadInv
  OBVIOUS
<1>1. /\ \A r \in Reload!Threads : reload[r] = Reload!NoReload /\ reload[r].stage = "idle"
      /\ reload \in [Reload!Threads -> TaskRec]
  BY TasksTyped DEF Reload!Init, Reload!NoReload
<1>2. MaxChanges \in Nat /\ MaxSignals \in Nat /\ 0 \in Reload!Version
  BY DEF Reload!ReloadAssumption, Reload!Version
<1>3. Reload!TypeOK
  <2>1. 0 \in 0..(2 * MaxChanges) /\ 0 \in 0..MaxSignals
    BY <1>2
  <2>2. /\ file \in [version : Reload!Version, whole : BOOLEAN]
        /\ seen \in [last : 0..(2 * MaxChanges), current : 0..(2 * MaxChanges)]
    BY <1>2, <2>1 DEF Reload!Init
  <2>3. gateway = "loaded" /\ stamp = 0 /\ config = 0 /\ agent = 0 /\ checker = 0
        /\ requested = FALSE /\ signals = 0 /\ trusted = TRUE
    BY DEF Reload!Init
  <2> QED
    BY <1>1, <1>2, <2>1, <2>2, <2>3 DEF Reload!TypeOK, TaskRec, Stages
<1>4. Stamped /\ Reload!InForceIsCurrent
  BY <1>2 DEF Reload!Init, Stamped, Reload!InForceIsCurrent
<1> QED
  BY <1>1, <1>3, <1>4 DEF ReloadInv, Reload!Reloading



\* An edit of the configuration document that was acknowledged is not lost, nor
\* with a crash half-way through the next one (write_config_document).
THEOREM EditsAlwaysSurvive ==
    ASSUME Config!DocumentAssumption
    PROVE  Config!Spec => [](Config!TypeOK /\ Config!EditsSurvive)
<1>1. Config!Init => ConfigInv
  BY InitConfig
<1>2. ConfigInv /\ [Config!Next]_(Config!documentVars) => ConfigInv'
  BY ConfigNext DEF configVars, Config!documentVars
<1>3. ConfigInv => Config!TypeOK /\ Config!EditsSurvive
  BY ConfigInvSurvives DEF ConfigInv
<1> QED
  BY <1>1, <1>2, <1>3, PTL DEF Config!Spec

\* What the gateway runs by is what the document says, when nothing is under way
\* (reload_fn and config_watcher).
THEOREM InForceAlwaysCurrent ==
    ASSUME Reload!ReloadAssumption
    PROVE  Reload!Spec => [](Reload!TypeOK /\ Reload!InForceIsCurrent)
<1>1. Reload!Init => ReloadInv
  BY InitReload
<1>2. ReloadInv /\ [Reload!Next]_(Reload!reloadVars) => ReloadInv'
  BY ReloadNext DEF reloadVars, Reload!reloadVars
<1>3. ReloadInv => Reload!TypeOK /\ Reload!InForceIsCurrent
  BY DEF ReloadInv
<1> QED
  BY <1>1, <1>2, <1>3, PTL DEF Reload!Spec


(***************************************************************************)
(* The chat of the control UI.                                             *)
(***************************************************************************)

\* Where the request of the message in flight is: on its way to the gateway, in
\* its hands, or answered; and the frames of the end of its turn.
HasSend == \E i \in DOMAIN up : up[i].kind = "send"
HasTurn == \E t \in sends : t.here
HasAnswer == \E i \in DOMAIN down : down[i].kind \in {"ok", "error"}
HasError == \E i \in DOMAIN down : down[i].kind = "error"
HasFinal == \E i \in DOMAIN down : down[i].kind = "final"
Mine(f) == f.message = sending.message /\ f.session = sending.session

\* There is a connection while anything goes on, and every attempt at one has its socket.
OnWire ==
    /\ wire = "none" <=> retry
    /\ (connected \/ up # <<>> \/ down # <<>> \/ HasTurn) => wire \in {"open", "closing"}
    /\ signing + (IF connect = "armed" THEN 1 ELSE 0) + (IF wire = "opening" THEN 1 ELSE 0)
         <= sockets

\* One request at a time, in one place, and its answer comes last.
OneRequest ==
    /\ HasSend \/ HasTurn \/ HasAnswer \/ HasFinal => sending.message # Chat!None
    /\ sending.message # Chat!None => connected /\ (HasSend \/ HasTurn \/ HasAnswer)
    /\ ~(HasSend /\ HasTurn) /\ ~(HasSend /\ HasAnswer) /\ ~(HasSend /\ HasFinal)
    /\ ~(HasTurn /\ HasAnswer)
    /\ \A i \in DOMAIN up : up[i].kind = "send" => Mine(up[i])
    /\ \A i, j \in DOMAIN up : up[i].kind = "send" /\ up[j].kind = "send" => i = j
    /\ \A t \in sends : t.here => Mine(t)
    /\ \A t, u \in sends : t.here /\ u.here => t = u
    /\ \A i \in DOMAIN down : down[i].kind \in {"ok", "error", "final"} => Mine(down[i])
    /\ \A i, j \in DOMAIN down :
         down[i].kind \in {"ok", "error"} /\ down[j].kind \in {"ok", "error", "final"} => j <= i

Given == {accepted[i] : i \in DOMAIN accepted}

\* Each message is in one place, and the gateway has it only if it was sent.
Placed ==
    /\ \A i \in DOMAIN accepted : accepted[i] <= typed
    /\ \A i \in DOMAIN queue : queue[i] <= typed
    /\ draft <= typed /\ sending.message <= typed
    /\ \A i, j \in DOMAIN queue : queue[i] = queue[j] => i = j
    /\ \A i \in DOMAIN queue : queue[i] # draft /\ queue[i] # sending.message
    /\ draft = sending.message => draft = Chat!None
    /\ \A i \in DOMAIN queue : queue[i] \in Given => queue[i] \in failed
    /\ draft \in Given => draft \in failed
    /\ HasSend => sending.message \notin Given \/ sending.message \in failed
    /\ sending.message # Chat!None /\ ~HasSend /\ ~HasError => sending.message \in Given

\* What was written first is further on, if all went well.
InTurn ==
    failed = {} /\ upset = {} =>
        /\ \A i, j \in DOMAIN accepted : i < j => accepted[i] < accepted[j]
        /\ \A i, j \in DOMAIN queue : i < j => queue[i] < queue[j]
        /\ sending.message # Chat!None =>
             /\ \A i \in DOMAIN accepted : accepted[i] <= sending.message
             /\ \A i \in DOMAIN queue : sending.message < queue[i]
             /\ draft # Chat!None => sending.message < draft
        /\ \A i \in DOMAIN accepted, j \in DOMAIN queue : accepted[i] < queue[j]
        /\ draft # Chat!None => \A i \in DOMAIN accepted : accepted[i] < draft
        /\ draft # Chat!None => \A i \in DOMAIN queue : queue[i] < draft
        /\ sending.message = Chat!None => queue = <<>>

\* A run that was not left behind is that of the message in flight, and its end is
\* still to come.
RunEnds ==
    upset = {} /\ run # Chat!None =>
        /\ sending.message # Chat!None /\ run = sending.message /\ session = sending.session
        /\ HasSend \/ HasFinal \/ HasError \/ \E t \in sends : t.here /\ ~t.ended

ChatInv ==
    /\ Chat!TypeOK /\ OnWire /\ OneRequest /\ Chat!NothingIsLost /\ Chat!GivenOnce
    /\ Placed /\ InTurn /\ RunEnds

LEMMA ChatNumbers == ASSUME Chat!WebChatAssumption
    PROVE  /\ ChatMessages \in Nat /\ MaxSockets \in Nat /\ MaxMeddling \in Nat
           /\ Chat!None \notin Chat!Message /\ Chat!Message \subseteq Nat /\ Chat!None \in Nat
           /\ Chat!Idle.session \in User /\ Chat!Idle.message = Chat!None
           /\ Chat!Idle.origin = "draft"
           /\ Chat!Idle = [message |-> Chat!None, session |-> Chat!Idle.session,
                           origin |-> "draft"]
<1>1. \E s \in User : TRUE
  BY DEF Chat!WebChatAssumption
<1>2. (CHOOSE s \in User : TRUE) \in User
  BY <1>1, Zenon
<1> QED
  BY <1>2 DEF Chat!WebChatAssumption, Chat!None, Chat!Message, Chat!Idle

LEMMA ChatTypes == ASSUME Chat!WebChatAssumption, Chat!TypeOK
    PROVE  /\ sending.message \in Chat!Message \cup {Chat!None} /\ sending.session \in User
           /\ draft \in Chat!Message \cup {Chat!None} /\ run \in Chat!Message \cup {Chat!None}
           /\ up \in Seq(Chat!Frames) /\ down \in Seq(Chat!Frames) /\ queue \in Seq(Chat!Message)
           /\ accepted \in Seq(Chat!Message) /\ typed \in Nat /\ signing \in Nat /\ sockets \in Nat
           /\ typed <= ChatMessages /\ meddling \in Nat
BY ChatNumbers DEF Chat!TypeOK

LEMMA ChatStarts == ASSUME Chat!WebChatAssumption, Chat!Init PROVE ChatInv
<1> USE ChatNumbers
<1>1. Chat!TypeOK
  <2>1. sending.session \in User /\ sending.origin = "draft" /\ sending.message = Chat!None
        /\ session \in User
    BY Zenon DEF Chat!Init
  <2>2. sockets \in 0..MaxSockets /\ signing \in 0..MaxSockets /\ typed \in 0..ChatMessages
        /\ meddling \in 0..MaxMeddling
    BY DEF Chat!Init
  <2>3. queue \in Seq(Chat!Message) /\ up \in Seq(Chat!Frames) /\ down \in Seq(Chat!Frames)
        /\ accepted \in Seq(Chat!Message)
    BY DEF Chat!Init
  <2>4. sends = {} /\ upset = {} /\ failed = {} /\ discarded = {} /\ run = Chat!None
        /\ draft = Chat!None /\ connected = FALSE /\ retry = TRUE
        /\ wire = "none" /\ connect = "idle"
    BY DEF Chat!Init
  <2> QED
    BY <2>1, <2>2, <2>3, <2>4 DEF Chat!TypeOK
<1>2. OnWire
  BY DEF Chat!Init, OnWire, HasTurn
<1>3. OneRequest
  BY DEF Chat!Init, OneRequest, HasSend, HasTurn, HasAnswer, HasFinal
<1>4. Placed
  <2>1. sending.message = 0
    BY DEF Chat!Init, Chat!None
  <2> QED
    BY <2>1 DEF Chat!Init, Placed, HasSend, HasError, Given, Chat!None
<1>5. InTurn /\ RunEnds
  BY DEF Chat!Init, InTurn, RunEnds
<1>6. Chat!NothingIsLost /\ Chat!GivenOnce
  BY DEF Chat!Init, Chat!NothingIsLost, Chat!GivenOnce
<1> QED
  BY <1>1, <1>2, <1>3, <1>4, <1>5, <1>6 DEF ChatInv

LEMMA ChatWires ==
    ASSUME Chat!WebChatAssumption, ChatInv, Chat!Open \/ Chat!Opened \/ Chat!SendConnect
    PROVE  ChatInv'
<1>0. /\ Chat!TypeOK /\ OnWire /\ OneRequest /\ Chat!NothingIsLost /\ Chat!GivenOnce
      /\ Placed /\ InTurn /\ RunEnds
  BY DEF ChatInv
<1>1. UNCHANGED <<connected, session, run, sending, queue, draft, up, down, sends, typed,
                  meddling, accepted, failed, discarded, upset>>
  BY DEF Chat!Open, Chat!Opened, Chat!SendConnect, Chat!hostVars, Chat!gatewayVars,
         Chat!counters, Chat!historyVars, Chat!clientVars
<1>2. /\ signing \in Nat /\ sockets \in Nat /\ MaxSockets \in Nat
      /\ signing <= MaxSockets /\ sockets <= MaxSockets
      /\ connect \in {"idle", "armed", "sent"} /\ retry \in BOOLEAN
      /\ wire \in {"none", "opening", "open", "closing"}
  BY <1>0, ChatNumbers DEF Chat!TypeOK
<1>3. /\ HasSend' = HasSend /\ HasTurn' = HasTurn /\ HasAnswer' = HasAnswer
      /\ HasError' = HasError /\ HasFinal' = HasFinal /\ Given' = Given
  BY <1>1 DEF HasSend, HasTurn, HasAnswer, HasError, HasFinal, Given
<1>4. \/ /\ retry = TRUE /\ sockets < MaxSockets /\ retry' = FALSE /\ wire' = "opening"
         /\ sockets' = sockets + 1 /\ connect' = connect /\ signing' = signing
      \/ /\ wire = "opening" /\ wire' = "open" /\ connect' = "armed"
         /\ UNCHANGED <<retry, signing, sockets>>
      \/ /\ connect = "armed" /\ connect' = "sent" /\ signing' = signing + 1
         /\ UNCHANGED <<wire, retry, sockets>>
  BY <1>2 DEF Chat!Open, Chat!Opened, Chat!SendConnect, Chat!counters
<1>5. OnWire'
  BY <1>0, <1>1, <1>2, <1>3, <1>4 DEF OnWire
<1>6. Chat!TypeOK'
  <2>1. /\ sockets' \in 0..MaxSockets /\ connect' \in {"idle", "armed", "sent"}
        /\ wire' \in {"none", "opening", "open", "closing"}
    BY <1>2, <1>4
  <2>2. signing' \in 0..MaxSockets
    BY <1>0, <1>2, <1>4 DEF OnWire
  <2>3. retry' \in BOOLEAN
    BY <1>2, <1>4, Zenon
  <2> QED
    BY <1>0, <1>1, <2>1, <2>2, <2>3 DEF Chat!TypeOK
<1>7. OneRequest'
  BY <1>0, <1>1, <1>3 DEF OneRequest, Mine
<1>8. Placed' /\ InTurn' /\ RunEnds'
  BY <1>0, <1>1, <1>3 DEF Placed, InTurn, RunEnds
<1>9. Chat!NothingIsLost' /\ Chat!GivenOnce'
  BY <1>0, <1>1 DEF Chat!NothingIsLost, Chat!GivenOnce
<1> QED
  BY <1>5, <1>6, <1>7, <1>8, <1>9 DEF ChatInv

\* r is q with e behind it; r is q without its head.
Longer(q, e, r) ==
    /\ r # <<>> /\ Len(q) \in Nat /\ Len(q) + 1 \in DOMAIN r /\ r[Len(q) + 1] = e
    /\ \A i \in DOMAIN q : i \in DOMAIN r /\ r[i] = q[i] /\ i \in Nat /\ i < Len(q) + 1
    /\ \A i \in DOMAIN r : i \in DOMAIN q \/ i = Len(q) + 1
Shorter(q, r) ==
    /\ 1 \in DOMAIN q /\ Head(q) = q[1]
    /\ \A i \in DOMAIN r : i \in Nat /\ i + 1 \in DOMAIN q /\ i + 1 # 1 /\ r[i] = q[i + 1]
    /\ \A i \in DOMAIN q : i \in Nat /\ i >= 1
    /\ \A i \in DOMAIN q : i # 1 => \E k \in DOMAIN r : i = k + 1 /\ r[k] = q[i]

LEMMA Appended ==
    ASSUME NEW S, NEW q \in Seq(S), NEW e \in S, NEW r, r = Append(q, e)
    PROVE  r \in Seq(S) /\ Longer(q, e, r)
<1>1. /\ r \in Seq(S) /\ r # <<>> /\ Len(r) = Len(q) + 1 /\ r[Len(q) + 1] = e
      /\ \A i \in 1..Len(q) : r[i] = q[i]
  BY AppendProperties, ZenonT(90)
<1>2. DOMAIN q = 1..Len(q) /\ DOMAIN r = 1..Len(r) /\ Len(q) \in Nat
  BY <1>1
<1> QED
  BY <1>1, <1>2 DEF Longer

LEMMA Tailed ==
    ASSUME NEW S, NEW q \in Seq(S), q # <<>>, NEW r, r = Tail(q)
    PROVE  r \in Seq(S) /\ Shorter(q, r)
<1>1. r \in Seq(S) /\ Len(r) = Len(q) - 1 /\ Len(q) \in Nat /\ Len(q) >= 1
      /\ Head(q) = q[1]
  OBVIOUS
<1>2. \A i \in 1..(Len(q) - 1) : r[i] = q[i + 1]
  OBVIOUS
<1>3. DOMAIN q = 1..Len(q) /\ DOMAIN r = 1..(Len(q) - 1)
  BY <1>1
<1>4. \A i \in 1..Len(q) : i # 1 => \E k \in 1..(Len(q) - 1) : i = k + 1 /\ r[k] = q[i]
  <2> SUFFICES ASSUME NEW i \in 1..Len(q), i # 1
               PROVE  \E k \in 1..(Len(q) - 1) : i = k + 1 /\ r[k] = q[i]
    OBVIOUS
  <2>1. i - 1 \in 1..(Len(q) - 1) /\ (i - 1) + 1 = i
    BY <1>1
  <2> QED
    BY <1>2, <2>1
<1>5. \A i \in 1..(Len(q) - 1) :
        i \in Nat /\ i + 1 \in 1..Len(q) /\ i + 1 # 1 /\ r[i] = q[i + 1]
  BY <1>1, <1>2
<1>6. \A i \in 1..Len(q) : i \in Nat /\ i >= 1
  BY <1>1
<1>7. 1 \in DOMAIN q
  BY <1>1, <1>3
<1> QED
  BY <1>1, <1>3, <1>4, <1>5, <1>6, <1>7, Zenon DEF Shorter

LEMMA OneLess ==
    ASSUME NEW n \in Nat, NEW l \in Nat, NEW a \in Nat, NEW b \in Nat, NEW c \in Nat,
           NEW s \in Nat, n = l + 1, c <= b, n + a + b <= s
    PROVE  l + a + c <= s
OBVIOUS

LEMMA ChatSigned ==
    ASSUME Chat!WebChatAssumption, ChatInv, Chat!Signed PROVE ChatInv'
<1>0. /\ Chat!TypeOK /\ OnWire /\ OneRequest /\ Chat!NothingIsLost /\ Chat!GivenOnce
      /\ Placed /\ InTurn /\ RunEnds
  BY DEF ChatInv
<1>1. UNCHANGED <<connected, session, run, sending, queue, draft, down, sends, typed, sockets,
                  meddling, accepted, failed, discarded, upset, retry, connect>>
  BY DEF Chat!Signed, Chat!hostVars, Chat!gatewayVars, Chat!counters, Chat!historyVars
<1> DEFINE f == Chat!Frame("connect", Chat!None, session)
<1>2. f \in Chat!Frames /\ f.kind = "connect"
  BY <1>0, ChatNumbers DEF Chat!TypeOK, Chat!Frame, Chat!Frames
<1>3. (up' = Append(up, f) /\ wire = "open") \/ up' = up
  BY DEF Chat!Signed
<1>4. /\ up' \in Seq(Chat!Frames)
      /\ \A i \in DOMAIN up : i \in DOMAIN up' /\ up'[i] = up[i]
      /\ \A i \in DOMAIN up' : up'[i].kind = "send" => i \in DOMAIN up
      /\ up' # <<>> => up # <<>> \/ wire = "open"
  <2>1. CASE up' = Append(up, f) /\ wire = "open"
    <3> HIDE DEF f
    <3>1. /\ up' \in Seq(Chat!Frames) /\ up'[Len(up) + 1] = f
          /\ \A i \in DOMAIN up : i \in DOMAIN up' /\ up'[i] = up[i]
          /\ \A i \in DOMAIN up' : i \in DOMAIN up \/ i = Len(up) + 1
      <4>1. up' \in Seq(Chat!Frames) /\ Longer(up, f, up')
        BY <1>0, <1>2, <2>1, ChatTypes, Appended
      <4> QED
        BY <4>1 DEF Longer
    <3> QED
      BY <1>2, <2>1, <3>1
  <2>2. CASE up' = up
    BY <1>0, <2>2, ChatTypes
  <2> QED
    BY <1>3, <2>1, <2>2
<1> HIDE DEF f
<1>5. Chat!TypeOK'
  <2>1. signing' \in 0..MaxSockets
    <3>1. signing \in 0..MaxSockets /\ signing > 0 /\ signing' = signing - 1
      BY <1>0 DEF Chat!TypeOK, Chat!Signed
    <3> QED
      BY <3>1, ChatNumbers
  <2>2. wire' \in {"none", "opening", "open", "closing"}
    BY <1>0 DEF Chat!TypeOK, Chat!Signed
  <2> QED
    BY <1>0, <1>1, <1>4, <2>1, <2>2 DEF Chat!TypeOK
<1>6. OnWire'
  <2>1. /\ signing \in Nat /\ sockets \in Nat /\ signing' \in Nat /\ signing = signing' + 1
        /\ wire' = wire \/ (wire = "opening" /\ wire' = "closing")
    BY <1>0, ChatTypes DEF Chat!Signed
  <2>2. /\ wire = "none" <=> retry
        /\ (connected \/ up # <<>> \/ down # <<>> \/ HasTurn) => wire \in {"open", "closing"}
    BY <1>0 DEF OnWire
  <2>3. signing + (IF connect = "armed" THEN 1 ELSE 0) + (IF wire = "opening" THEN 1 ELSE 0)
          <= sockets
    BY <1>0 DEF OnWire
  <2>4. signing' + (IF connect' = "armed" THEN 1 ELSE 0) + (IF wire' = "opening" THEN 1 ELSE 0)
          <= sockets'
    <3> DEFINE a == IF connect = "armed" THEN 1 ELSE 0
               w == IF wire = "opening" THEN 1 ELSE 0
               v == IF wire' = "opening" THEN 1 ELSE 0
    <3>1. connect' = connect /\ sockets' = sockets /\ (wire' = "opening" => wire = "opening")
      BY <1>1, <2>1
    <3>2. a \in Nat
      OBVIOUS
    <3>3. w \in Nat /\ v \in Nat /\ v <= w
      BY <3>1
    <3>4. signing + a + w <= sockets
      BY <2>3
    <3>5. (IF connect' = "armed" THEN 1 ELSE 0) = a
      BY <3>1
    <3>7. (IF wire' = "opening" THEN 1 ELSE 0) = v
      OBVIOUS
    <3> HIDE DEF a, w, v
    <3>6. signing' + a + v <= sockets
      <4>1. signing \in Nat /\ sockets \in Nat /\ signing' \in Nat /\ signing = signing' + 1
        BY <2>1
      <4> QED
        BY <3>2, <3>3, <3>4, <4>1, OneLess
    <3>8. signing' + a + v <= sockets'
      BY <3>1, <3>6, Zenon
    <3> QED
      BY <3>5, <3>7, <3>8, Zenon
  <2>5. HasTurn' = HasTurn
    BY <1>1 DEF HasTurn
  <2>6. wire' = "none" <=> retry'
    BY <1>1, <2>1, <2>2
  <2>7. (connected' \/ up' # <<>> \/ down' # <<>> \/ HasTurn') => wire' \in {"open", "closing"}
    BY <1>1, <1>4, <2>1, <2>2, <2>5
  <2> QED
    BY <2>4, <2>6, <2>7 DEF OnWire
<1>7. HasSend' = HasSend /\ HasTurn' = HasTurn /\ HasAnswer' = HasAnswer
      /\ HasError' = HasError /\ HasFinal' = HasFinal /\ Given' = Given
  BY <1>1, <1>4 DEF HasSend, HasTurn, HasAnswer, HasError, HasFinal, Given
<1>8. OneRequest'
  BY <1>0, <1>1, <1>4, <1>7 DEF OneRequest, Mine
<1>9. Placed' /\ InTurn' /\ RunEnds'
  BY <1>0, <1>1, <1>7 DEF Placed, InTurn, RunEnds
<1>10. Chat!NothingIsLost' /\ Chat!GivenOnce'
  BY <1>0, <1>1 DEF Chat!NothingIsLost, Chat!GivenOnce
<1> QED
  BY <1>5, <1>6, <1>8, <1>9, <1>10 DEF ChatInv

LEMMA ChatValues == ASSUME Chat!WebChatAssumption, Chat!TypeOK
    PROVE  /\ \A i \in DOMAIN accepted : accepted[i] \in Nat /\ accepted[i] # 0
           /\ \A i \in DOMAIN queue : queue[i] \in Nat /\ queue[i] # 0
<1>1. \A i \in DOMAIN accepted : accepted[i] \in Chat!Message
  BY ChatTypes
<1>2. \A i \in DOMAIN queue : queue[i] \in Chat!Message
  BY ChatTypes
<1>3. \A m \in Chat!Message : m \in Nat /\ m # 0
  BY ChatNumbers DEF Chat!Message
<1> QED
  BY <1>1, <1>2, <1>3

LEMMA ChatType == ASSUME Chat!WebChatAssumption, ChatInv, Chat!Type PROVE ChatInv'
<1>0. /\ Chat!TypeOK /\ OnWire /\ OneRequest /\ Chat!NothingIsLost /\ Chat!GivenOnce
      /\ Placed /\ InTurn /\ RunEnds
  BY DEF ChatInv
<1>1. /\ UNCHANGED <<wire, retry, connect, signing, connected, session, run, sending, queue, up,
                     down, sends, sockets, meddling, accepted, failed, discarded, upset>>
      /\ draft = Chat!None /\ typed < ChatMessages /\ typed' = typed + 1 /\ draft' = typed'
  BY DEF Chat!Type, Chat!clientVars, Chat!gatewayVars, Chat!historyVars
<1>11. typed \in Nat /\ ChatMessages \in Nat
  BY <1>0, ChatNumbers, ChatTypes
<1>2. draft' \in Chat!Message /\ typed' \in 0..ChatMessages
  BY <1>1, <1>11 DEF Chat!Message
<1>3. Chat!TypeOK'
  BY <1>0, <1>1, <1>2, <1>11 DEF Chat!TypeOK
<1>4. HasSend' = HasSend /\ HasTurn' = HasTurn /\ HasAnswer' = HasAnswer
      /\ HasError' = HasError /\ HasFinal' = HasFinal /\ Given' = Given
  BY <1>1 DEF HasSend, HasTurn, HasAnswer, HasError, HasFinal, Given
<1>5. OnWire' /\ OneRequest' /\ RunEnds'
  BY <1>0, <1>1, <1>4 DEF OnWire, OneRequest, RunEnds, Mine
<1>6. /\ \A i \in DOMAIN accepted : accepted[i] \in Nat /\ accepted[i] <= typed
      /\ \A i \in DOMAIN queue : queue[i] \in Nat /\ queue[i] <= typed
      /\ sending.message \in Nat /\ sending.message <= typed
  BY <1>0, ChatValues, ChatTypes, ChatNumbers DEF Placed
<1>7. Placed'
  <2>1. typed' \in Nat /\ draft' = typed' /\ typed < draft' /\ draft' # Chat!None
    BY <1>1, <1>11 DEF Chat!None
  <2>2. draft' \notin Given
    BY <1>6, <1>11, <2>1 DEF Given
  <2>3. /\ \A i \in DOMAIN queue : queue[i] # draft' /\ queue[i] <= typed'
        /\ \A i \in DOMAIN accepted : accepted[i] <= typed'
        /\ sending.message # draft' /\ sending.message <= typed' /\ draft' <= typed'
    BY <1>6, <1>11, <2>1
  <2> QED
    BY <1>0, <1>1, <1>4, <2>2, <2>3 DEF Placed
<1>8. InTurn'
  <2>1. /\ \A i \in DOMAIN accepted : accepted[i] < draft'
        /\ \A i \in DOMAIN queue : queue[i] < draft'
        /\ sending.message < draft'
    BY <1>1, <1>6, <1>11
  <2> QED
    BY <1>0, <1>1, <2>1 DEF InTurn
<1>9. Chat!NothingIsLost'
  <2> SUFFICES ASSUME NEW m \in 1..typed'
               PROVE  m \in Chat!Among(queue') \cup Chat!Among(accepted') \cup discarded'
                             \cup {draft', sending.message'}
    BY Zenon DEF Chat!NothingIsLost
  <2>1. CASE m = typed'
    BY <1>1, <2>1
  <2>2. CASE m # typed'
    <3>1. m \in 1..typed
      <4>1. typed' = typed + 1 /\ typed \in Nat /\ m \in 1..typed'
        BY <1>1, <1>11
      <4> QED
        BY <2>2, <4>1
    <3>2. m \in Chat!Among(queue) \cup Chat!Among(accepted) \cup discarded
                \cup {draft, sending.message}
      BY <1>0, <3>1 DEF Chat!NothingIsLost
    <3>3. m # draft
      BY <1>1, <3>1 DEF Chat!None
    <3> QED
      BY <1>1, <3>2, <3>3
  <2> QED
    BY <2>1, <2>2
<1>10. Chat!GivenOnce'
  BY <1>0, <1>1 DEF Chat!GivenOnce
<1> QED
  BY <1>3, <1>5, <1>7, <1>8, <1>9, <1>10 DEF ChatInv

\* An empty field is nowhere else.
LEMMA DraftCleared ==
    ASSUME Chat!WebChatAssumption, Chat!TypeOK, Placed, draft' = Chat!None,
           UNCHANGED <<sending, queue, up, down, typed, accepted, failed>>
    PROVE  Placed'
<1>1. HasSend' = HasSend /\ HasError' = HasError /\ Given' = Given
  BY DEF HasSend, HasError, Given
<1>2. /\ \A i \in DOMAIN queue : queue[i] # draft'
      /\ draft' \notin Given /\ typed \in Nat /\ draft' <= typed
  <2>1. typed \in Nat /\ draft' = 0
    BY ChatTypes DEF Chat!None
  <2>2. \A i \in DOMAIN queue : queue[i] # 0
    BY ChatValues
  <2>3. 0 \notin Given
    BY ChatValues DEF Given
  <2> QED
    BY <2>1, <2>2, <2>3
<1> QED
  BY <1>1, <1>2 DEF Placed

LEMMA ChatAbort == ASSUME Chat!WebChatAssumption, ChatInv, Chat!Abort PROVE ChatInv'
<1>0. /\ Chat!TypeOK /\ OnWire /\ OneRequest /\ Chat!NothingIsLost /\ Chat!GivenOnce
      /\ Placed /\ InTurn /\ RunEnds
  BY DEF ChatInv
<1>1. /\ UNCHANGED <<wire, retry, connect, signing, connected, session, run, sending, queue, up,
                     down, sends, sockets, typed, accepted, failed, upset>>
      /\ draft # Chat!None /\ draft' = Chat!None /\ discarded' = discarded \cup {draft}
      /\ meddling < MaxMeddling /\ meddling' = meddling + 1
  BY DEF Chat!Abort, Chat!clientVars, Chat!gatewayVars
<1>11. /\ meddling' \in 0..MaxMeddling /\ draft' \in Chat!Message \cup {Chat!None}
       /\ discarded' \subseteq Chat!Message
  <2>1. /\ meddling \in Nat /\ MaxMeddling \in Nat /\ draft \in Chat!Message \cup {Chat!None}
        /\ discarded \subseteq Chat!Message
    BY <1>0, ChatNumbers, ChatTypes DEF Chat!TypeOK
  <2> QED
    BY <1>1, <2>1
<1>3. Chat!TypeOK'
  BY <1>0, <1>1, <1>11 DEF Chat!TypeOK
<1>4. HasSend' = HasSend /\ HasTurn' = HasTurn /\ HasAnswer' = HasAnswer
      /\ HasError' = HasError /\ HasFinal' = HasFinal /\ Given' = Given
  BY <1>1 DEF HasSend, HasTurn, HasAnswer, HasError, HasFinal, Given
<1>5. OnWire' /\ OneRequest' /\ RunEnds' /\ InTurn'
  BY <1>0, <1>1, <1>4 DEF OnWire, OneRequest, RunEnds, Mine, InTurn
<1>7. Placed'
  BY <1>0, <1>1, DraftCleared
<1>9. Chat!NothingIsLost' /\ Chat!GivenOnce'
  BY <1>0, <1>1 DEF Chat!NothingIsLost, Chat!GivenOnce
<1> QED
  BY <1>3, <1>5, <1>7, <1>9 DEF ChatInv

LEMMA ChatSwitches ==
    ASSUME Chat!WebChatAssumption, ChatInv, NEW s \in User, Chat!SwitchSession(s) PROVE ChatInv'
<1>0. /\ Chat!TypeOK /\ OnWire /\ OneRequest /\ Chat!NothingIsLost /\ Chat!GivenOnce
      /\ Placed /\ InTurn /\ RunEnds
  BY DEF ChatInv
<1>1. /\ UNCHANGED <<wire, retry, connect, signing, connected, sending, queue, up,
                     down, sends, sockets, typed, accepted, failed>>
      /\ draft' = Chat!None /\ discarded' = discarded \cup ({draft} \ {Chat!None})
      /\ meddling < MaxMeddling /\ meddling' = meddling + 1 /\ session' = s
      /\ \/ run' = Chat!None /\ upset' = upset
         \/ run' = run /\ upset' = upset \cup {"overview"}
  BY DEF Chat!SwitchSession, Chat!clientVars, Chat!gatewayVars
<1>2. upset \subseteq upset' /\ upset' \subseteq {"muted", "overview"}
  BY <1>0, <1>1 DEF Chat!TypeOK
<1>11. /\ meddling' \in 0..MaxMeddling /\ draft' \in Chat!Message \cup {Chat!None}
       /\ discarded' \subseteq Chat!Message
  <2>1. /\ meddling \in Nat /\ MaxMeddling \in Nat /\ draft \in Chat!Message \cup {Chat!None}
        /\ discarded \subseteq Chat!Message
    BY <1>0, ChatNumbers, ChatTypes DEF Chat!TypeOK
  <2> QED
    BY <1>1, <2>1
<1>3. Chat!TypeOK'
  BY <1>0, <1>1, <1>2, <1>11 DEF Chat!TypeOK
<1>4. HasSend' = HasSend /\ HasTurn' = HasTurn /\ HasAnswer' = HasAnswer
      /\ HasError' = HasError /\ HasFinal' = HasFinal /\ Given' = Given
  BY <1>1 DEF HasSend, HasTurn, HasAnswer, HasError, HasFinal, Given
<1>5. OnWire' /\ OneRequest'
  BY <1>0, <1>1, <1>4 DEF OnWire, OneRequest, Mine
<1>7. Placed'
  BY <1>0, <1>1, DraftCleared
<1>8. RunEnds'
  BY <1>0, <1>1 DEF RunEnds
<1>10. InTurn'
  BY <1>0, <1>1, <1>2 DEF InTurn
<1>9. Chat!NothingIsLost' /\ Chat!GivenOnce'
  BY <1>0, <1>1 DEF Chat!NothingIsLost, Chat!GivenOnce
<1> QED
  BY <1>3, <1>5, <1>7, <1>8, <1>9, <1>10 DEF ChatInv

\* A queue less one of its messages: the others, in their order.
LEMMA LessOne ==
    ASSUME NEW S, NEW q \in Seq(S), NEW k \in DOMAIN q, NEW r, r = Chat!RemoveAt(q, k)
    PROVE  /\ r \in Seq(S) /\ Len(r) = Len(q) - 1
           /\ \A i \in DOMAIN r : r[i] = q[IF i < k THEN i ELSE i + 1]
           /\ \A i \in DOMAIN r : (IF i < k THEN i ELSE i + 1) \in DOMAIN q \ {k}
           /\ \A j \in DOMAIN q \ {k} : \E i \in DOMAIN r : r[i] = q[j]
<1>1. k \in 1..Len(q) /\ Len(q) \in Nat
  OBVIOUS
<1> DEFINE a == SubSeq(q, 1, k - 1)
           b == SubSeq(q, k + 1, Len(q))
<1>2. a \in Seq(S) /\ Len(a) = k - 1 /\ \A i \in 1..(k - 1) : a[i] = q[i]
  BY <1>1
<1>3. b \in Seq(S) /\ Len(b) = Len(q) - k /\ \A i \in 1..(Len(q) - k) : b[i] = q[i + k]
  BY <1>1
<1> HIDE DEF a, b
<1>4. /\ a \o b \in Seq(S) /\ Len(a \o b) = Len(a) + Len(b)
      /\ \A i \in 1..(Len(a) + Len(b)) :
           (a \o b)[i] = IF i <= Len(a) THEN a[i] ELSE b[i - Len(a)]
  BY <1>2, <1>3, ConcatProperties, Zenon
<1>5. r \in Seq(S) /\ Len(r) = Len(q) - 1
  <2>1. r = a \o b
    BY DEF a, b, Chat!RemoveAt
  <2>2. (k - 1) + (Len(q) - k) = Len(q) - 1
    BY <1>1
  <2>3. Len(r) = Len(a) + Len(b) /\ r \in Seq(S)
    BY <1>4, <2>1, Zenon
  <2> QED
    BY <1>2, <1>3, <2>2, <2>3
<1>6. \A i \in 1..Len(r) : r[i] = q[IF i < k THEN i ELSE i + 1]
  <2> SUFFICES ASSUME NEW i \in 1..Len(r) PROVE r[i] = q[IF i < k THEN i ELSE i + 1]
    OBVIOUS
  <2>1. r[i] = IF i <= Len(a) THEN a[i] ELSE b[i - Len(a)]
    <3>1. r = a \o b
      BY DEF a, b, Chat!RemoveAt
    <3>2. i \in 1..(Len(a) + Len(b))
      BY <1>1, <1>2, <1>3, <1>5
    <3> QED
      BY <1>4, <3>1, <3>2
  <2>2. CASE i < k
    <3>1. i \in 1..(k - 1) /\ i <= Len(a)
      BY <1>1, <1>2, <1>5, <2>2
    <3> QED
      BY <1>2, <2>1, <2>2, <3>1
  <2>3. CASE ~(i < k)
    <3> DEFINE n == i - (k - 1)
    <3>1. n \in 1..(Len(q) - k) /\ n + k = i + 1 /\ ~(i <= Len(a)) /\ i - Len(a) = n
      BY <1>1, <1>2, <1>5, <2>3
    <3> HIDE DEF n
    <3>2. r[i] = b[n] /\ b[n] = q[n + k]
      BY <1>3, <2>1, <3>1
    <3> QED
      BY <2>3, <3>1, <3>2
  <2> QED
    BY <2>2, <2>3
<1>7. \A j \in DOMAIN q \ {k} : \E i \in 1..Len(r) : r[i] = q[j]
  <2> SUFFICES ASSUME NEW j \in DOMAIN q \ {k} PROVE \E i \in 1..Len(r) : r[i] = q[j]
    OBVIOUS
  <2> DEFINE i == IF j < k THEN j ELSE j - 1
  <2>1. i \in 1..Len(r) /\ (IF i < k THEN i ELSE i + 1) = j
    BY <1>1, <1>5
  <2> QED
    BY <1>6, <2>1
<1>8. DOMAIN r = 1..Len(r) /\ DOMAIN q = 1..Len(q)
  BY <1>5
<1>9. \A i \in 1..Len(r) : (IF i < k THEN i ELSE i + 1) \in 1..Len(q) \ {k}
  BY <1>1, <1>5
<1> QED
  BY <1>5, <1>6, <1>7, <1>8, <1>9

LEMMA ChatRemoves ==
    ASSUME Chat!WebChatAssumption, ChatInv, NEW m \in Chat!Message, Chat!RemoveQueued(m)
    PROVE  ChatInv'
<1>1. /\ UNCHANGED <<wire, retry, connect, signing, connected, session, run, sending, draft, up,
                     down, sends, sockets, typed, accepted, failed, upset>>
      /\ discarded' = discarded \cup {m}
      /\ meddling < MaxMeddling /\ meddling' = meddling + 1
  BY DEF Chat!RemoveQueued, Chat!clientVars, Chat!gatewayVars
<1>2. PICK k \in DOMAIN queue : queue[k] = m /\ queue' = Chat!RemoveAt(queue, k)
  BY DEF Chat!RemoveQueued
<1> DEFINE at(i) == IF i < k THEN i ELSE i + 1
<1>14. queue \in Seq(Chat!Message)
  BY ChatTypes DEF ChatInv
<1>3. /\ queue' \in Seq(Chat!Message)
      /\ \A i \in DOMAIN queue' : queue'[i] = queue[at(i)]
      /\ \A i \in DOMAIN queue' : at(i) \in DOMAIN queue \ {k}
      /\ \A j \in DOMAIN queue \ {k} : \E i \in DOMAIN queue' : queue'[i] = queue[j]
  BY <1>2, <1>14, LessOne
<1>13. k \in Nat /\ \A i \in DOMAIN queue' : i \in Nat
  <2>1. queue' \in Seq(Chat!Message)
    BY <1>3
  <2> QED
    BY <1>14, <2>1
<1>4. \A i, j \in DOMAIN queue' : at(i) = at(j) => i = j
  BY <1>13
<1>5. \A i, j \in DOMAIN queue' : i < j => at(i) < at(j)
  BY <1>13
<1> HIDE DEF at
<1>0. /\ Chat!TypeOK /\ OnWire /\ OneRequest /\ Chat!NothingIsLost /\ Chat!GivenOnce
      /\ Placed /\ InTurn /\ RunEnds
  BY DEF ChatInv
<1>6. Chat!TypeOK'
  <2>1. discarded' \subseteq Chat!Message
    BY <1>0, <1>1 DEF Chat!TypeOK
  <2>2. meddling' \in 0..MaxMeddling
    <3>1. meddling \in Nat /\ MaxMeddling \in Nat
      BY <1>0, ChatTypes, ChatNumbers
    <3> QED
      BY <1>1, <3>1
  <2> QED
    BY <1>0, <1>1, <1>3, <2>1, <2>2 DEF Chat!TypeOK
<1>7. HasSend' = HasSend /\ HasTurn' = HasTurn /\ HasAnswer' = HasAnswer
      /\ HasError' = HasError /\ HasFinal' = HasFinal /\ Given' = Given
  BY <1>1 DEF HasSend, HasTurn, HasAnswer, HasError, HasFinal, Given
<1>8. OnWire' /\ OneRequest' /\ RunEnds'
  BY <1>0, <1>1, <1>7 DEF OnWire, OneRequest, RunEnds, Mine
<1>9. Placed'
  <2>1. \A i \in DOMAIN queue' : queue'[i] <= typed /\ queue'[i] # draft
                                /\ queue'[i] # sending.message
                                /\ (queue'[i] \in Given => queue'[i] \in failed)
    BY <1>0, <1>3 DEF Placed
  <2>2. \A i, j \in DOMAIN queue' : queue'[i] = queue'[j] => i = j
    BY <1>0, <1>3, <1>4 DEF Placed
  <2> QED
    BY <1>0, <1>1, <1>7, <2>1, <2>2 DEF Placed
<1>10. InTurn'
  <2>1. queue # <<>>
    BY <1>2
  <2> QED
    BY <1>0, <1>1, <1>3, <1>5, <2>1 DEF InTurn
<1>11. Chat!NothingIsLost'
  <2>1. \A j \in DOMAIN queue :
           (\E i \in DOMAIN queue' : queue'[i] = queue[j]) \/ queue[j] = m
    BY <1>2, <1>3
  <2>2. Chat!Among(queue) \subseteq {queue'[i] : i \in DOMAIN queue'} \cup {m}
    BY <2>1 DEF Chat!Among
  <2> QED
    BY <1>0, <1>1, <2>2 DEF Chat!NothingIsLost, Chat!Among
<1>12. Chat!GivenOnce'
  BY <1>0, <1>1 DEF Chat!GivenOnce
<1> QED
  BY <1>6, <1>8, <1>9, <1>10, <1>11, <1>12 DEF ChatInv

\* A message is sent when no request is left: it becomes the only one.
LEMMA ChatSends ==
    ASSUME Chat!WebChatAssumption, Chat!TypeOK, NEW m \in Chat!Message, NEW origin,
           Chat!SendNow(m, origin), connected', ~HasSend, ~HasTurn, sends' = sends,
           ~HasAnswer', ~HasFinal'
    PROVE  /\ OneRequest' /\ HasSend' /\ ~HasTurn' /\ ~HasError'
           /\ up' \in Seq(Chat!Frames) /\ up' # <<>>
           /\ sending' = [message |-> m, session |-> session, origin |-> origin] /\ run' = m
<1> DEFINE f == Chat!Frame("send", m, session)
<1>1. /\ up' = Append(up, f) /\ run' = m
      /\ sending' = [message |-> m, session |-> session, origin |-> origin]
  BY DEF Chat!SendNow
<1>2. f \in Chat!Frames /\ f.kind = "send" /\ f.message = m /\ f.session = session
  BY DEF Chat!TypeOK, Chat!Frame, Chat!Frames
<1>3. up \in Seq(Chat!Frames)
  BY ChatTypes
<1>4. /\ up' \in Seq(Chat!Frames) /\ up' # <<>> /\ Len(up) + 1 \in DOMAIN up'
      /\ up'[Len(up) + 1] = f
      /\ \A i \in DOMAIN up : i \in DOMAIN up' /\ up'[i] = up[i]
      /\ \A i \in DOMAIN up' : i \in DOMAIN up \/ i = Len(up) + 1
  <2> HIDE DEF f
  <2>1. up' \in Seq(Chat!Frames) /\ Longer(up, f, up')
    BY <1>1, <1>2, <1>3, Appended
  <2> QED
    BY <2>1 DEF Longer
<1> HIDE DEF f
<1>5. /\ \A i \in DOMAIN up' : up'[i].kind = "send" => i = Len(up) + 1
      /\ HasSend'
  BY <1>2, <1>4 DEF HasSend
<1>6. ~HasTurn' /\ ~HasError'
  BY DEF HasTurn, HasAnswer, HasError
<1>7. sending'.message = m /\ sending'.session = session /\ m # Chat!None
  BY <1>1, ChatNumbers
<1>8. OneRequest'
  <2>1. \A i \in DOMAIN up' : up'[i].kind = "send" =>
          up'[i].message = sending'.message /\ up'[i].session = sending'.session
    BY <1>2, <1>4, <1>5, <1>7
  <2>2. \A i \in DOMAIN down' : down'[i].kind \notin {"ok", "error", "final"}
    BY DEF HasAnswer, HasFinal
  <2>3. \A t \in sends' : ~t.here
    BY <1>6 DEF HasTurn
  <2>4. /\ HasSend' \/ HasTurn' \/ HasAnswer' \/ HasFinal' => sending'.message # Chat!None
        /\ sending'.message # Chat!None => connected' /\ (HasSend' \/ HasTurn' \/ HasAnswer')
        /\ ~(HasSend' /\ HasTurn') /\ ~(HasSend' /\ HasAnswer') /\ ~(HasSend' /\ HasFinal')
        /\ ~(HasTurn' /\ HasAnswer')
    BY <1>5, <1>6, <1>7
  <2> QED
    BY <1>5, <2>1, <2>2, <2>3, <2>4 DEF OneRequest, Mine
<1> QED
  BY <1>1, <1>4, <1>5, <1>6, <1>8

LEMMA ChatQueues ==
    ASSUME Chat!WebChatAssumption, ChatInv, Chat!IsChatBusy, draft # Chat!None,
           queue' = Append(queue, draft), draft' = Chat!None,
           UNCHANGED <<wire, retry, connect, signing, connected, session, run, sending, up, down,
                       sends, sockets, typed, meddling, accepted, failed, discarded, upset>>
    PROVE  ChatInv'
<1>1. draft \in Chat!Message /\ queue \in Seq(Chat!Message)
  BY ChatTypes DEF ChatInv
<1>2. /\ queue' \in Seq(Chat!Message) /\ Len(queue) \in Nat
      /\ Len(queue) + 1 \in DOMAIN queue' /\ queue'[Len(queue) + 1] = draft
      /\ \A i \in DOMAIN queue : /\ i \in DOMAIN queue' /\ queue'[i] = queue[i]
                                 /\ i \in Nat /\ i < Len(queue) + 1
      /\ \A i \in DOMAIN queue' : i \in DOMAIN queue \/ i = Len(queue) + 1
  <2>1. queue' \in Seq(Chat!Message) /\ Longer(queue, draft, queue')
    BY <1>1, Appended
  <2> QED
    BY <2>1 DEF Longer
<1>0. /\ Chat!TypeOK /\ OnWire /\ OneRequest /\ Chat!NothingIsLost /\ Chat!GivenOnce
      /\ Placed /\ InTurn /\ RunEnds
  BY DEF ChatInv
<1>3. Chat!TypeOK'
  BY <1>0, <1>2 DEF Chat!TypeOK
<1>4. HasSend' = HasSend /\ HasTurn' = HasTurn /\ HasAnswer' = HasAnswer
      /\ HasError' = HasError /\ HasFinal' = HasFinal /\ Given' = Given
  BY DEF HasSend, HasTurn, HasAnswer, HasError, HasFinal, Given
<1>5. OnWire' /\ OneRequest' /\ RunEnds'
  BY <1>0, <1>4 DEF OnWire, OneRequest, RunEnds, Mine
<1>6. Chat!GivenOnce'
  BY <1>0 DEF Chat!GivenOnce
<1>7. Chat!NothingIsLost'
  <2>1. Chat!Among(queue) \subseteq Chat!Among(queue') /\ draft \in Chat!Among(queue')
    BY <1>2 DEF Chat!Among
  <2> QED
    BY <1>0, <2>1 DEF Chat!NothingIsLost
<1>8. /\ \A i \in DOMAIN accepted : accepted[i] \in Nat /\ accepted[i] # 0
      /\ \A i \in DOMAIN queue : queue[i] \in Nat /\ queue[i] # 0
  BY <1>0, ChatValues
<1>9. Placed'
  <2>1. draft \in Nat /\ draft # 0 /\ draft' = 0 /\ typed \in Nat
    BY <1>0, <1>1, ChatNumbers, ChatTypes DEF Chat!None
  <2>2. \A i \in DOMAIN queue' : \/ i \in DOMAIN queue /\ queue'[i] = queue[i]
                                 \/ i = Len(queue) + 1 /\ queue'[i] = draft
    BY <1>2
  <2>3. \A i \in DOMAIN queue' : queue'[i] <= typed /\ queue'[i] # 0
                                /\ queue'[i] # sending.message
                                /\ (queue'[i] \in Given => queue'[i] \in failed)
    BY <1>0, <1>8, <2>1, <2>2 DEF Placed, Chat!None
  <2>4. \A i, j \in DOMAIN queue' : queue'[i] = queue'[j] => i = j
    BY <1>0, <2>2 DEF Placed
  <2>5. 0 \notin Given
    BY <1>8 DEF Given
  <2>6. draft' <= typed
    BY <2>1
  <2> QED
    BY <1>0, <1>4, <2>1, <2>3, <2>4, <2>5, <2>6 DEF Placed, Chat!None
<1>10. InTurn'
  <2> SUFFICES ASSUME failed = {}, upset = {} PROVE InTurn'
    BY DEF InTurn
  <2>1. sending.message # Chat!None
    BY <1>0 DEF RunEnds, Chat!IsChatBusy
  <2>2. \A i \in DOMAIN queue' : \/ i \in DOMAIN queue /\ queue'[i] = queue[i]
                                 \/ i = Len(queue) + 1 /\ queue'[i] = draft
    BY <1>2
  <2>3. \A i, j \in DOMAIN queue' : i < j => i \in DOMAIN queue
    BY <1>2
  <2>4. \A i, j \in DOMAIN queue' : i < j => queue'[i] < queue'[j]
    BY <1>0, <2>2, <2>3 DEF InTurn
  <2>5. \A i \in DOMAIN queue' : sending.message < queue'[i]
    BY <1>0, <2>1, <2>2 DEF InTurn
  <2>6. \A i \in DOMAIN accepted, j \in DOMAIN queue' : accepted[i] < queue'[j]
    BY <1>0, <2>2 DEF InTurn
  <2> QED
    BY <1>0, <2>1, <2>4, <2>5, <2>6 DEF InTurn
<1> QED
  BY <1>0, <1>3, <1>5, <1>6, <1>7, <1>9, <1>10 DEF ChatInv

LEMMA ChatSubmits ==
    ASSUME Chat!WebChatAssumption, ChatInv, ~Chat!IsChatBusy, draft # Chat!None, wire = "open",
           connected, Chat!SendNow(draft, "draft"), draft' = Chat!None,
           UNCHANGED <<wire, retry, connect, signing, connected, session, queue, down,
                       sends, sockets, typed, meddling, accepted, failed, discarded, upset>>
    PROVE  ChatInv'
<1>0. /\ Chat!TypeOK /\ OnWire /\ OneRequest /\ Chat!NothingIsLost /\ Chat!GivenOnce
      /\ Placed /\ InTurn /\ RunEnds
  BY DEF ChatInv
<1>1. sending.message = Chat!None /\ run = Chat!None
  BY DEF Chat!IsChatBusy
<1>2. ~HasSend /\ ~HasTurn /\ ~HasAnswer /\ ~HasFinal
  BY <1>0, <1>1 DEF OneRequest
<1>3. ~HasAnswer' /\ ~HasFinal' /\ Given' = Given
  BY <1>2 DEF HasAnswer, HasFinal, Given
<1>4. draft \in Chat!Message
  BY <1>0, ChatTypes
<1>5. /\ OneRequest' /\ HasSend' /\ ~HasTurn' /\ ~HasError'
      /\ up' \in Seq(Chat!Frames) /\ up' # <<>>
      /\ sending' = [message |-> draft, session |-> session, origin |-> "draft"] /\ run' = draft
  BY <1>0, <1>2, <1>3, <1>4, ChatSends
<1>6. sending'.message = draft /\ sending'.session = session /\ sending'.origin = "draft"
  BY <1>5
<1>7. Chat!TypeOK'
  BY <1>0, <1>4, <1>5, <1>6 DEF Chat!TypeOK
<1>8. OnWire'
  BY <1>0, <1>5 DEF OnWire
<1>9. /\ \A i \in DOMAIN accepted : accepted[i] \in Nat /\ accepted[i] # 0
      /\ \A i \in DOMAIN queue : queue[i] \in Nat /\ queue[i] # 0
  BY <1>0, ChatValues
<1>10. draft \in Nat /\ draft # 0 /\ draft' = 0 /\ typed \in Nat /\ draft <= typed
  BY <1>0, <1>4, ChatNumbers, ChatTypes DEF Chat!None, Placed
<1>11. Placed'
  <2>1. 0 \notin Given
    BY <1>9 DEF Given
  <2>2. draft' <= typed
    BY <1>10
  <2> QED
    BY <1>0, <1>3, <1>5, <1>6, <1>9, <1>10, <2>1, <2>2 DEF Placed, Chat!None
<1>12. InTurn'
  <2> SUFFICES ASSUME failed = {}, upset = {} PROVE InTurn'
    BY DEF InTurn
  <2>1. queue = <<>>
    BY <1>0, <1>1 DEF InTurn
  <2>2. \A i \in DOMAIN accepted : accepted[i] <= draft
    BY <1>0, <1>9, <1>10 DEF InTurn, Chat!None
  <2> QED
    BY <1>0, <1>6, <1>10, <2>1, <2>2 DEF InTurn, Chat!None
<1>13. RunEnds'
  BY <1>5, <1>6, ChatNumbers DEF RunEnds, Chat!None
<1>14. Chat!NothingIsLost'
  <2>1. Chat!Among(queue') = Chat!Among(queue) /\ Chat!Among(accepted') = Chat!Among(accepted)
    BY DEF Chat!Among
  <2>2. \A n \in 1..typed : n # 0
    BY <1>10
  <2> QED
    BY <1>0, <1>1, <1>6, <2>1, <2>2 DEF Chat!NothingIsLost, Chat!None
<1>15. Chat!GivenOnce'
  BY <1>0 DEF Chat!GivenOnce
<1> QED
  BY <1>5, <1>7, <1>8, <1>11, <1>12, <1>13, <1>14, <1>15 DEF ChatInv

LEMMA ChatRefuses ==
    ASSUME Chat!WebChatAssumption, ChatInv, draft # Chat!None, failed' = failed \cup {draft},
           UNCHANGED <<wire, retry, connect, signing, connected, session, run, sending, queue, up,
                       draft, down, sends, sockets, typed, meddling, accepted, discarded, upset>>
    PROVE  ChatInv'
<1>0. /\ Chat!TypeOK /\ OnWire /\ OneRequest /\ Chat!NothingIsLost /\ Chat!GivenOnce
      /\ Placed /\ InTurn /\ RunEnds
  BY DEF ChatInv
<1>1. draft \in Chat!Message
  BY <1>0, ChatTypes
<1>2. HasSend' = HasSend /\ HasTurn' = HasTurn /\ HasAnswer' = HasAnswer
      /\ HasError' = HasError /\ HasFinal' = HasFinal /\ Given' = Given
  BY DEF HasSend, HasTurn, HasAnswer, HasError, HasFinal, Given
<1>3. Chat!TypeOK'
  BY <1>0, <1>1 DEF Chat!TypeOK
<1>4. OnWire' /\ OneRequest' /\ RunEnds' /\ InTurn'
  BY <1>0, <1>2 DEF OnWire, OneRequest, RunEnds, Mine, InTurn
<1>5. Placed'
  BY <1>0, <1>2 DEF Placed
<1>6. Chat!NothingIsLost' /\ Chat!GivenOnce'
  BY <1>0 DEF Chat!NothingIsLost, Chat!GivenOnce
<1> QED
  BY <1>3, <1>4, <1>5, <1>6 DEF ChatInv

LEMMA ChatSubmit == ASSUME Chat!WebChatAssumption, ChatInv, Chat!Submit PROVE ChatInv'
<1>1. /\ UNCHANGED <<wire, retry, connect, signing, connected, session, down, sends, sockets,
                     typed, meddling, accepted, discarded, upset>>
      /\ connected /\ draft # Chat!None
  BY DEF Chat!Submit, Chat!clientVars, Chat!gatewayVars, Chat!counters
<1>2. \/ /\ Chat!IsChatBusy /\ queue' = Append(queue, draft) /\ draft' = Chat!None
         /\ UNCHANGED <<sending, run, up, failed>>
      \/ /\ ~Chat!IsChatBusy /\ wire = "open" /\ Chat!SendNow(draft, "draft")
         /\ draft' = Chat!None /\ UNCHANGED <<queue, failed>>
      \/ failed' = failed \cup {draft} /\ UNCHANGED <<sending, run, up, queue, draft>>
  BY DEF Chat!Submit
<1>3. CASE /\ Chat!IsChatBusy /\ queue' = Append(queue, draft) /\ draft' = Chat!None
           /\ UNCHANGED <<sending, run, up, failed>>
  BY <1>1, <1>3, ChatQueues
<1>4. CASE /\ ~Chat!IsChatBusy /\ wire = "open" /\ Chat!SendNow(draft, "draft")
           /\ draft' = Chat!None /\ UNCHANGED <<queue, failed>>
  BY <1>1, <1>4, ChatSubmits
<1>5. CASE failed' = failed \cup {draft} /\ UNCHANGED <<sending, run, up, queue, draft>>
  BY <1>1, <1>5, ChatRefuses
<1> QED
  BY <1>2, <1>3, <1>4, <1>5

\* A frame that is no part of a request is taken off what comes down.
LEMMA ChatSkips ==
    ASSUME Chat!WebChatAssumption, Chat!TypeOK, OneRequest, NEW sort, Chat!Arrives(sort),
           sort \notin {"ok", "error", "final"}
    PROVE  /\ down' \in Seq(Chat!Frames) /\ down # <<>>
           /\ (HasAnswer <=> HasAnswer') /\ (HasError <=> HasError') /\ (HasFinal <=> HasFinal')
           /\ \A i \in DOMAIN down' : i \in Nat /\ i + 1 \in DOMAIN down /\ down'[i] = down[i + 1]
<1>1. down # <<>> /\ Head(down).kind = sort /\ down' = Tail(down) /\ down \in Seq(Chat!Frames)
  BY ChatTypes DEF Chat!Arrives
<1>2. /\ down' \in Seq(Chat!Frames) /\ 1 \in DOMAIN down /\ Head(down) = down[1]
      /\ \A i \in DOMAIN down' : i \in Nat /\ i + 1 \in DOMAIN down /\ down'[i] = down[i + 1]
      /\ \A i \in DOMAIN down : i # 1 => \E k \in DOMAIN down' : i = k + 1 /\ down'[k] = down[i]
  <2>1. down' \in Seq(Chat!Frames) /\ Shorter(down, down')
    BY <1>1, Tailed
  <2> QED
    BY <2>1 DEF Shorter
<1>3. down[1].kind \notin {"ok", "error", "final"}
  BY <1>1, <1>2
<1>4. HasAnswer <=> HasAnswer'
  BY <1>2, <1>3 DEF HasAnswer
<1>5. HasError <=> HasError'
  BY <1>2, <1>3 DEF HasError
<1>6. HasFinal <=> HasFinal'
  BY <1>2, <1>3 DEF HasFinal
<1> QED
  BY <1>1, <1>2, <1>4, <1>5, <1>6

LEMMA ChatHears ==
    ASSUME Chat!WebChatAssumption, ChatInv, Chat!Hello \/ Chat!Refused PROVE ChatInv'
<1>0. /\ Chat!TypeOK /\ OnWire /\ OneRequest /\ Chat!NothingIsLost /\ Chat!GivenOnce
      /\ Placed /\ InTurn /\ RunEnds
  BY DEF ChatInv
<1>1. /\ UNCHANGED <<retry, connect, signing, session, sending, queue, draft, up, sends, accepted,
                     sockets, typed, meddling, failed, discarded, upset>>
      /\ wire' = wire \/ (wire = "open" /\ wire' = "closing")
      /\ run' = Chat!None \/ run' = run
      /\ connected' = TRUE \/ connected' = connected
      /\ Chat!Arrives("hello") \/ Chat!Arrives("refused")
  BY DEF Chat!Hello, Chat!Refused, Chat!clientVars, Chat!gatewayVars, Chat!counters,
         Chat!historyVars, Chat!hostVars
<1>2. /\ down' \in Seq(Chat!Frames) /\ down # <<>>
      /\ (HasAnswer <=> HasAnswer') /\ (HasError <=> HasError') /\ (HasFinal <=> HasFinal')
      /\ \A i \in DOMAIN down' : i \in Nat /\ i + 1 \in DOMAIN down /\ down'[i] = down[i + 1]
  <2>1. CASE Chat!Arrives("hello")
    BY <1>0, <2>1, ChatSkips
  <2>2. CASE Chat!Arrives("refused")
    BY <1>0, <2>2, ChatSkips
  <2> QED
    BY <1>1, <2>1, <2>2
<1>3. (HasSend <=> HasSend') /\ (HasTurn <=> HasTurn') /\ Given' = Given
  BY <1>1 DEF HasSend, HasTurn, Given
<1>4. Chat!TypeOK'
  BY <1>0, <1>1, <1>2, ChatNumbers DEF Chat!TypeOK
<1>5. OnWire'
  <2>1. wire \in {"open", "closing"}
    BY <1>0, <1>2 DEF OnWire
  <2> QED
    BY <1>0, <1>1, <2>1 DEF OnWire
<1>6. OneRequest'
  <2>1. \A i \in DOMAIN down' : down'[i].kind \in {"ok", "error", "final"} =>
          Mine(down'[i])
    BY <1>0, <1>2 DEF OneRequest
  <2>2. \A i, j \in DOMAIN down' :
         down'[i].kind \in {"ok", "error"} /\ down'[j].kind \in {"ok", "error", "final"}
         => j + 1 <= i + 1
    BY <1>0, <1>2 DEF OneRequest
  <2>3. \A i, j \in DOMAIN down' : j + 1 <= i + 1 => j <= i
    BY <1>2
  <2>4. sending.message # Chat!None => connected'
    BY <1>0, <1>1 DEF OneRequest
  <2> QED
    BY <1>0, <1>1, <1>2, <1>3, <2>1, <2>2, <2>3, <2>4 DEF OneRequest, Mine
<1>7. Placed' /\ InTurn'
  BY <1>0, <1>1, <1>2, <1>3 DEF Placed, InTurn
<1>8. RunEnds'
  BY <1>0, <1>1, <1>2, <1>3 DEF RunEnds
<1>9. Chat!NothingIsLost' /\ Chat!GivenOnce'
  BY <1>0, <1>1 DEF Chat!NothingIsLost, Chat!GivenOnce
<1> QED
  BY <1>4, <1>5, <1>6, <1>7, <1>8, <1>9 DEF ChatInv

LEMMA Prepended ==
    ASSUME NEW S, NEW q \in Seq(S), NEW h \in Seq(S), Len(h) = 1
    PROVE  /\ h \o q \in Seq(S) /\ 1 \in DOMAIN (h \o q) /\ (h \o q)[1] = h[1]
           /\ \A i \in DOMAIN (h \o q) :
                i = 1 \/ \E k \in DOMAIN q : i = k + 1 /\ (h \o q)[i] = q[k]
           /\ \A k \in DOMAIN q : k + 1 \in DOMAIN (h \o q) /\ (h \o q)[k + 1] = q[k]
<1> DEFINE r == h \o q
<1>2. /\ r \in Seq(S) /\ Len(r) = Len(h) + Len(q)
      /\ \A i \in 1..(Len(h) + Len(q)) : r[i] = IF i <= Len(h) THEN h[i] ELSE q[i - Len(h)]
  BY ConcatProperties, Zenon
<1> HIDE DEF r
<1>3. r \in Seq(S) /\ Len(r) = 1 + Len(q) /\ Len(q) \in Nat
  BY <1>2
<1>4. \A i \in 1..(1 + Len(q)) : r[i] = IF i <= 1 THEN h[i] ELSE q[i - 1]
  BY <1>2
<1>5. DOMAIN r = 1..(1 + Len(q)) /\ DOMAIN q = 1..Len(q)
  BY <1>3
<1>6. r[1] = h[1]
  <2>1. 1 \in 1..(1 + Len(q))
    BY <1>3
  <2> QED
    BY <1>4, <2>1
<1>7. \A k \in 1..Len(q) : k + 1 \in 1..(1 + Len(q)) /\ r[k + 1] = q[k]
  <2> SUFFICES ASSUME NEW k \in 1..Len(q)
               PROVE  k + 1 \in 1..(1 + Len(q)) /\ r[k + 1] = q[k]
    OBVIOUS
  <2>1. k + 1 \in 1..(1 + Len(q)) /\ ~(k + 1 <= 1) /\ (k + 1) - 1 = k
    BY <1>3
  <2> QED
    BY <1>4, <2>1
<1>8. \A i \in 1..(1 + Len(q)) : i = 1 \/ \E k \in 1..Len(q) : i = k + 1 /\ r[i] = q[k]
  <2> SUFFICES ASSUME NEW i \in 1..(1 + Len(q)), i # 1
               PROVE  \E k \in 1..Len(q) : i = k + 1 /\ r[i] = q[k]
    OBVIOUS
  <2>1. i - 1 \in 1..Len(q) /\ i = (i - 1) + 1
    BY <1>3
  <2>2. r[(i - 1) + 1] = q[i - 1]
    BY <1>7, <2>1
  <2> QED
    BY <2>1, <2>2
<1>9. 1 \in DOMAIN r
  BY <1>3, <1>5
<1> QED
  BY <1>3, <1>5, <1>6, <1>7, <1>8, <1>9, Zenon DEF r

LEMMA QueuedAgain ==
    ASSUME NEW q \in Seq(Chat!Message), NEW m \in Chat!Message, NEW r, r = Chat!Cons(m, q)
    PROVE  /\ r \in Seq(Chat!Message) /\ 1 \in DOMAIN r /\ r[1] = m
           /\ \A i \in DOMAIN r : i = 1 \/ \E k \in DOMAIN q : i = k + 1 /\ r[i] = q[k]
           /\ \A k \in DOMAIN q : k + 1 \in DOMAIN r /\ r[k + 1] = q[k]
<1> DEFINE h == <<m>>
<1>1. h \in Seq(Chat!Message) /\ Len(h) = 1 /\ h[1] = m /\ r = h \o q
  BY DEF Chat!Cons
<1> HIDE DEF h
<1>2. h \in Seq(Chat!Message) /\ Len(h) = 1
  BY <1>1
<1>3. /\ h \o q \in Seq(Chat!Message) /\ 1 \in DOMAIN (h \o q) /\ (h \o q)[1] = h[1]
      /\ \A i \in DOMAIN (h \o q) :
           i = 1 \/ \E k \in DOMAIN q : i = k + 1 /\ (h \o q)[i] = q[k]
      /\ \A k \in DOMAIN q : k + 1 \in DOMAIN (h \o q) /\ (h \o q)[k + 1] = q[k]
  BY ONLY <1>2, Prepended, q \in Seq(Chat!Message), ZenonT(40)
<1> QED
  BY <1>1, <1>3, ZenonT(40)

\* With the answer, nothing is left of the request.
LEMMA ChatAnswered ==
    ASSUME Chat!WebChatAssumption, Chat!TypeOK, OneRequest, NEW sort \in {"ok", "error"},
           Chat!Arrives(sort)
    PROVE  /\ sending.message # Chat!None /\ connected /\ down # <<>>
           /\ ~HasSend /\ ~HasTurn /\ ~HasFinal /\ ~HasAnswer' /\ ~HasFinal' /\ ~HasError'
           /\ down' \in Seq(Chat!Frames) /\ (sort = "ok" => ~HasError)
<1>1. down # <<>> /\ Head(down).kind = sort /\ down' = Tail(down) /\ down \in Seq(Chat!Frames)
  BY ChatTypes DEF Chat!Arrives
<1>2. /\ down' \in Seq(Chat!Frames) /\ 1 \in DOMAIN down /\ Head(down) = down[1]
      /\ \A i \in DOMAIN down' : i \in Nat /\ i + 1 \in DOMAIN down /\ i + 1 # 1
                                 /\ down'[i] = down[i + 1]
      /\ \A i \in DOMAIN down : i \in Nat /\ i >= 1
  <2>1. down' \in Seq(Chat!Frames) /\ Shorter(down, down')
    BY <1>1, Tailed
  <2> QED
    BY <2>1 DEF Shorter
<1>3. down[1].kind = sort
  BY <1>1, <1>2
<1>4. HasAnswer
  BY <1>2, <1>3 DEF HasAnswer
<1>5. sending.message # Chat!None /\ connected /\ ~HasSend /\ ~HasTurn
  BY <1>4 DEF OneRequest
<1>6. \A j \in DOMAIN down : down[j].kind \in {"ok", "error", "final"} => j <= 1
  BY <1>2, <1>3 DEF OneRequest
<1>7. \A j \in DOMAIN down : down[j].kind \in {"ok", "error", "final"} => j = 1
  BY <1>2, <1>6
<1>8. ~HasFinal /\ (sort = "ok" => ~HasError)
  BY <1>3, <1>7 DEF HasFinal, HasError
<1>9. ~HasAnswer' /\ ~HasFinal' /\ ~HasError'
  BY <1>2, <1>7 DEF HasAnswer, HasFinal, HasError
<1> QED
  BY <1>1, <1>2, <1>5, <1>8, <1>9

\* Without a request there is none.
LEMMA ChatIdle ==
    ASSUME sending'.message = Chat!None, ~HasSend', ~HasTurn', ~HasAnswer', ~HasFinal'
    PROVE  OneRequest'
<1>1. \A i \in DOMAIN up' : up'[i].kind # "send"
  BY DEF HasSend
<1>2. \A t \in sends' : ~t.here
  BY DEF HasTurn
<1>3. \A i \in DOMAIN down' : down'[i].kind \notin {"ok", "error", "final"}
  BY DEF HasAnswer, HasFinal
<1> QED
  BY <1>1, <1>2, <1>3 DEF OneRequest

LEMMA QueueAgain ==
    ASSUME queue \in Seq(Chat!Message), NEW m \in Chat!Message, queue' = Chat!Cons(m, queue)
    PROVE  /\ queue' \in Seq(Chat!Message) /\ 1 \in DOMAIN queue' /\ queue'[1] = m
           /\ \A i \in DOMAIN queue' :
                i = 1 \/ \E k \in DOMAIN queue : i = k + 1 /\ queue'[i] = queue[k]
           /\ \A k \in DOMAIN queue : k + 1 \in DOMAIN queue' /\ queue'[k + 1] = queue[k]
<1>1. queue' \in Seq(Chat!Message) /\ 1 \in DOMAIN queue' /\ queue'[1] = m
  BY QueuedAgain
<1>2. \A i \in DOMAIN queue' :
        i = 1 \/ \E k \in DOMAIN queue : i = k + 1 /\ queue'[i] = queue[k]
  BY QueuedAgain
<1>3. \A k \in DOMAIN queue : k + 1 \in DOMAIN queue' /\ queue'[k + 1] = queue[k]
  BY QueuedAgain
<1> QED
  BY <1>1, <1>2, <1>3

\* What could not be sent goes back to where it came from.
LEMMA ChatFails ==
    ASSUME Chat!WebChatAssumption, ChatInv, sending.message # Chat!None, Chat!Failing,
           ~HasSend', ~HasTurn', ~HasAnswer', ~HasFinal',
           UNCHANGED <<session, accepted, typed, upset>>
    PROVE  /\ queue' \in Seq(Chat!Message) /\ draft' \in Chat!Message \cup {Chat!None}
           /\ failed' \subseteq Chat!Message /\ discarded' \subseteq Chat!Message
           /\ sending' = Chat!Idle /\ run' = Chat!None
           /\ OneRequest' /\ Placed' /\ InTurn' /\ RunEnds' /\ Chat!NothingIsLost'
           /\ Chat!GivenOnce'
<1>13. PICK m : m = sending.message
  OBVIOUS
<1>0. /\ Chat!TypeOK /\ OneRequest /\ Chat!NothingIsLost /\ Chat!GivenOnce /\ Placed
  BY DEF ChatInv
<1>1. /\ sending' = Chat!Idle /\ run' = Chat!None /\ failed' = failed \cup {m}
      /\ \/ /\ queue' = Chat!Cons(m, queue)
            /\ UNCHANGED <<draft, discarded>>
         \/ /\ draft' = m /\ discarded' = discarded \cup ({draft} \ {Chat!None})
            /\ queue' = queue
  BY <1>13 DEF Chat!Failing
<1>2. m \in Chat!Message /\ m \in Nat /\ m # 0 /\ queue \in Seq(Chat!Message)
      /\ draft \in Chat!Message \cup {Chat!None} /\ draft \in Nat /\ m <= typed /\ typed \in Nat
  BY <1>0, <1>13, ChatTypes, ChatNumbers DEF Placed, Chat!None
<1>3. sending'.message = 0
  BY <1>1, ChatNumbers DEF Chat!None
<1>4. OneRequest'
  BY <1>3, ChatIdle DEF Chat!None
<1>5. InTurn' /\ RunEnds'
  BY <1>1 DEF InTurn, RunEnds
<1>6. /\ \A i \in DOMAIN accepted : accepted[i] \in Nat /\ accepted[i] # 0
      /\ \A i \in DOMAIN queue : queue[i] \in Nat /\ queue[i] # 0
  BY <1>0, ChatValues
<1>7. 0 \notin Given /\ Given' = Given /\ ~HasError'
  BY <1>6 DEF Given, HasError, HasAnswer
<1>8. failed' \subseteq Chat!Message
  BY <1>0, <1>1, <1>2 DEF Chat!TypeOK
<1>9. Chat!GivenOnce'
  BY <1>0, <1>1 DEF Chat!GivenOnce
<1>10. /\ \A i \in DOMAIN queue : /\ queue[i] <= typed /\ queue[i] # draft /\ queue[i] # m
                                  /\ (queue[i] \in Given => queue[i] \in failed)
       /\ \A i, j \in DOMAIN queue : queue[i] = queue[j] => i = j
       /\ m # draft /\ draft <= typed /\ (draft \in Given => draft \in failed)
       /\ \A i \in DOMAIN accepted : accepted[i] <= typed
  BY <1>0, <1>2, <1>13 DEF Placed, Chat!None
<1>11. CASE queue' = Chat!Cons(m, queue) /\ UNCHANGED <<draft, discarded>>
  <2>1. /\ queue' \in Seq(Chat!Message) /\ 1 \in DOMAIN queue' /\ queue'[1] = m
        /\ \A i \in DOMAIN queue' :
             i = 1 \/ \E k \in DOMAIN queue : i = k + 1 /\ queue'[i] = queue[k]
        /\ \A k \in DOMAIN queue : k + 1 \in DOMAIN queue' /\ queue'[k + 1] = queue[k]
    <3>1. queue \in Seq(Chat!Message)
      BY <1>2
    <3>2. m \in Chat!Message
      BY <1>2
    <3>3. queue' = Chat!Cons(m, queue)
      BY <1>11
    <3> QED
      BY <3>1, <3>2, <3>3, QueueAgain, Zenon
  <2>2. \A i \in DOMAIN queue' : queue'[i] <= typed /\ queue'[i] # draft /\ queue'[i] # 0
                                /\ (queue'[i] \in Given => queue'[i] \in failed')
    <3> SUFFICES ASSUME NEW i \in DOMAIN queue'
                 PROVE  /\ queue'[i] <= typed /\ queue'[i] # draft /\ queue'[i] # 0
                        /\ (queue'[i] \in Given => queue'[i] \in failed')
      OBVIOUS
    <3>1. CASE i = 1
      <4>1. queue'[i] = m /\ m \in failed'
        BY <1>1, <2>1, <3>1
      <4> QED
        BY <1>2, <1>10, <4>1
    <3>2. CASE i # 1
      <4>1. PICK k \in DOMAIN queue : queue'[i] = queue[k]
        BY <2>1, <3>2
      <4> QED
        BY <1>1, <1>6, <1>10, <4>1
    <3> QED
      BY <3>1, <3>2
  <2>3. \A i, j \in DOMAIN queue' : queue'[i] = queue'[j] => i = j
    <3> SUFFICES ASSUME NEW i \in DOMAIN queue', NEW j \in DOMAIN queue', queue'[i] = queue'[j]
                 PROVE  i = j
      OBVIOUS
    <3>1. CASE i = 1
      BY <1>10, <2>1, <3>1
    <3>2. CASE j = 1
      BY <1>10, <2>1, <3>2
    <3>3. CASE i # 1 /\ j # 1
      <4>1. PICK k \in DOMAIN queue : i = k + 1 /\ queue'[i] = queue[k]
        BY <2>1, <3>3
      <4>2. PICK l \in DOMAIN queue : j = l + 1 /\ queue'[j] = queue[l]
        BY <2>1, <3>3
      <4>3. k = l
        BY <1>10, <4>1, <4>2
      <4> QED
        BY <4>1, <4>2, <4>3
    <3> QED
      BY <3>1, <3>2, <3>3
  <2>4. Placed'
    BY <1>1, <1>3, <1>7, <1>10, <1>11, <1>2, <2>2, <2>3 DEF Placed, Chat!None
  <2>5. Chat!Among(queue) \subseteq Chat!Among(queue') /\ m \in Chat!Among(queue')
    BY <2>1 DEF Chat!Among
  <2>6. Chat!NothingIsLost'
    BY <1>0, <1>11, <1>13, <2>5 DEF Chat!NothingIsLost
  <2> QED
    BY <1>0, <1>1, <1>2, <1>4, <1>5, <1>8, <1>9, <1>11, <2>1, <2>4, <2>6 DEF Chat!TypeOK
<1>12. CASE /\ draft' = m /\ discarded' = discarded \cup ({draft} \ {Chat!None})
            /\ queue' = queue
  <2>1. Placed'
    BY <1>1, <1>2, <1>3, <1>6, <1>7, <1>10, <1>12 DEF Placed, Chat!None
  <2>2. Chat!NothingIsLost'
    <3>1. \A n \in 1..typed : n # 0
      BY <1>2
    <3> QED
      BY <1>0, <1>12, <1>13, <3>1 DEF Chat!NothingIsLost, Chat!None
  <2>3. discarded' \subseteq Chat!Message
    BY <1>0, <1>2, <1>12 DEF Chat!TypeOK
  <2> QED
    BY <1>1, <1>2, <1>4, <1>5, <1>8, <1>9, <1>12, <2>1, <2>2, <2>3
<1> QED
  BY <1>1, <1>11, <1>12

\* The connection is gone: what was in flight failed, and no turn answers any more.
LEMMA ChatCut ==
    ASSUME Chat!WebChatAssumption, ChatInv, up' = <<>>, down' = <<>>, connected' = FALSE,
           sends' = {[t EXCEPT !.here = FALSE] : t \in sends},
           IF sending.message # Chat!None THEN Chat!Failing
           ELSE UNCHANGED <<sending, run, failed, queue, draft, discarded>>,
           UNCHANGED <<session, accepted, typed, upset>>
    PROVE  /\ queue' \in Seq(Chat!Message) /\ draft' \in Chat!Message \cup {Chat!None}
           /\ failed' \subseteq Chat!Message /\ discarded' \subseteq Chat!Message
           /\ sending'.message \in Chat!Message \cup {Chat!None} /\ sending'.session \in User
           /\ sending'.origin \in {"draft", "queue"} /\ run' \in Chat!Message \cup {Chat!None}
           /\ sends' \subseteq [message : Chat!Message, session : User, ended : BOOLEAN,
                                here : BOOLEAN]
           /\ OneRequest' /\ Placed' /\ InTurn' /\ RunEnds' /\ Chat!NothingIsLost'
           /\ Chat!GivenOnce' /\ ~HasTurn'
<1> DEFINE Sends == [message : Chat!Message, session : User, ended : BOOLEAN, here : BOOLEAN]
<1>0. /\ Chat!TypeOK /\ OneRequest /\ Chat!NothingIsLost /\ Chat!GivenOnce /\ Placed
      /\ InTurn /\ RunEnds
  BY DEF ChatInv
<1>1. \A t \in Sends : [t EXCEPT !.here = FALSE] \in Sends /\ [t EXCEPT !.here = FALSE].here = FALSE
  OBVIOUS
<1>2. sends \subseteq Sends
  BY <1>0 DEF Chat!TypeOK
<1> HIDE DEF Sends
<1>3. sends' \subseteq Sends /\ ~HasTurn'
  BY <1>1, <1>2 DEF HasTurn
<1>4. ~HasSend' /\ ~HasAnswer' /\ ~HasFinal' /\ ~HasError'
  BY DEF HasSend, HasAnswer, HasFinal, HasError
<1>5. CASE sending.message # Chat!None
  <2>1. /\ queue' \in Seq(Chat!Message) /\ draft' \in Chat!Message \cup {Chat!None}
        /\ failed' \subseteq Chat!Message /\ discarded' \subseteq Chat!Message
        /\ sending' = Chat!Idle /\ run' = Chat!None
        /\ OneRequest' /\ Placed' /\ InTurn' /\ RunEnds' /\ Chat!NothingIsLost'
        /\ Chat!GivenOnce'
    BY <1>3, <1>4, <1>5, ChatFails
  <2>2. /\ sending'.message = Chat!None /\ sending'.session \in User
        /\ sending'.origin = "draft"
    BY <2>1, ChatNumbers
  <2> QED
    BY <1>3, <2>1, <2>2 DEF Sends
<1>6. CASE sending.message = Chat!None
  <2>1. UNCHANGED <<sending, run, failed, queue, draft, discarded>>
    BY <1>6
  <2>2. /\ queue \in Seq(Chat!Message) /\ draft \in Chat!Message \cup {Chat!None}
        /\ failed \subseteq Chat!Message /\ discarded \subseteq Chat!Message
        /\ sending.message \in Chat!Message \cup {Chat!None} /\ sending.session \in User
        /\ sending.origin \in {"draft", "queue"} /\ run \in Chat!Message \cup {Chat!None}
    BY <1>0 DEF Chat!TypeOK
  <2>3. OneRequest'
    BY <1>3, <1>4, <1>6, <2>1, ChatIdle
  <2>4. Given' = Given
    BY DEF Given
  <2>5. Placed' /\ InTurn' /\ RunEnds'
    BY <1>0, <1>4, <1>6, <2>1, <2>4 DEF Placed, InTurn, RunEnds
  <2>6. Chat!NothingIsLost' /\ Chat!GivenOnce'
    BY <1>0, <2>1 DEF Chat!NothingIsLost, Chat!GivenOnce
  <2> QED
    BY <1>3, <2>1, <2>2, <2>3, <2>5, <2>6 DEF Sends
<1> QED
  BY <1>5, <1>6

LEMMA ChatCloses ==
    ASSUME Chat!WebChatAssumption, ChatInv, Chat!Closed \/ Chat!Reconnect PROVE ChatInv'
<1>0. Chat!TypeOK /\ OnWire
  BY DEF ChatInv
<1>1. /\ up' = <<>> /\ down' = <<>> /\ connected' = FALSE
      /\ sends' = {[t EXCEPT !.here = FALSE] : t \in sends}
      /\ IF sending.message # Chat!None THEN Chat!Failing
         ELSE UNCHANGED <<sending, run, failed, queue, draft, discarded>>
      /\ UNCHANGED <<session, accepted, typed, meddling, upset>>
  BY Zenon DEF Chat!Closed, Chat!Reconnect, Chat!counters
<1>2. /\ queue' \in Seq(Chat!Message) /\ draft' \in Chat!Message \cup {Chat!None}
      /\ failed' \subseteq Chat!Message /\ discarded' \subseteq Chat!Message
      /\ sending'.message \in Chat!Message \cup {Chat!None} /\ sending'.session \in User
      /\ sending'.origin \in {"draft", "queue"} /\ run' \in Chat!Message \cup {Chat!None}
      /\ sends' \subseteq [message : Chat!Message, session : User, ended : BOOLEAN,
                           here : BOOLEAN]
      /\ OneRequest' /\ Placed' /\ InTurn' /\ RunEnds' /\ Chat!NothingIsLost'
      /\ Chat!GivenOnce' /\ ~HasTurn'
  BY <1>1, ChatCut
<1>3. \/ /\ wire # "none" /\ wire' = "none" /\ retry' = TRUE
         /\ UNCHANGED <<connect, signing, sockets>>
      \/ /\ sockets < MaxSockets /\ sockets' = sockets + 1 /\ wire' = "opening"
         /\ retry' = FALSE /\ connect' = "idle" /\ signing' = 0
  BY DEF Chat!Closed, Chat!Reconnect, Chat!counters
<1>4. /\ signing \in Nat /\ sockets \in Nat /\ MaxSockets \in Nat
      /\ signing <= MaxSockets /\ sockets <= MaxSockets
      /\ connect \in {"idle", "armed", "sent"}
  BY <1>0, ChatNumbers DEF Chat!TypeOK
<1>5. OnWire'
  BY <1>0, <1>1, <1>2, <1>3, <1>4 DEF OnWire
<1>6. /\ signing' \in 0..MaxSockets /\ sockets' \in 0..MaxSockets
      /\ wire' \in {"none", "opening", "open", "closing"} /\ retry' \in BOOLEAN
      /\ connect' \in {"idle", "armed", "sent"}
  <2>1. CASE /\ wire' = "none" /\ retry' = TRUE
             /\ UNCHANGED <<connect, signing, sockets>>
    <3>1. retry' \in BOOLEAN
      BY <2>1, Zenon
    <3> QED
      BY <1>4, <2>1, <3>1
  <2>2. CASE /\ sockets < MaxSockets /\ sockets' = sockets + 1 /\ wire' = "opening"
             /\ retry' = FALSE /\ connect' = "idle" /\ signing' = 0
    <3>1. retry' \in BOOLEAN
      BY <2>2, Zenon
    <3> QED
      BY <1>4, <2>2, <3>1
  <2> QED
    BY <1>3, <2>1, <2>2
<1>7. /\ up' \in Seq(Chat!Frames) /\ down' \in Seq(Chat!Frames) /\ connected' \in BOOLEAN
  <2>1. up' = <<>> /\ down' = <<>> /\ connected' = FALSE
    BY <1>1, Zenon
  <2>2. connected' \in BOOLEAN
    BY <2>1, Zenon
  <2> QED
    BY <2>1, <2>2
<1>8. /\ session' \in User /\ accepted' \in Seq(Chat!Message) /\ typed' \in 0..ChatMessages
      /\ meddling' \in 0..MaxMeddling /\ upset' \subseteq {"muted", "overview"}
  BY <1>0, <1>1 DEF Chat!TypeOK
<1>9. Chat!TypeOK'
  BY <1>2, <1>6, <1>7, <1>8 DEF Chat!TypeOK
<1> QED
  BY <1>2, <1>5, <1>9 DEF ChatInv

LEMMA ChatErrs == ASSUME Chat!WebChatAssumption, ChatInv, Chat!Error PROVE ChatInv'
<1>0. Chat!TypeOK /\ OnWire /\ OneRequest
  BY DEF ChatInv
<1>1. /\ Chat!Arrives("error") /\ Chat!Failing
      /\ UNCHANGED <<wire, retry, connect, signing, connected, session, up, sends, accepted,
                     sockets, typed, meddling, upset>>
  BY DEF Chat!Error, Chat!clientVars, Chat!gatewayVars, Chat!counters
<1>2. /\ sending.message # Chat!None /\ down # <<>>
      /\ ~HasSend /\ ~HasTurn /\ ~HasAnswer' /\ ~HasFinal' /\ down' \in Seq(Chat!Frames)
  BY <1>0, <1>1, ChatAnswered
<1>3. ~HasSend' /\ ~HasTurn'
  BY <1>1, <1>2 DEF HasSend, HasTurn
<1>4. /\ queue' \in Seq(Chat!Message) /\ draft' \in Chat!Message \cup {Chat!None}
      /\ failed' \subseteq Chat!Message /\ discarded' \subseteq Chat!Message
      /\ sending' = Chat!Idle /\ run' = Chat!None
      /\ OneRequest' /\ Placed' /\ InTurn' /\ RunEnds' /\ Chat!NothingIsLost'
      /\ Chat!GivenOnce'
  BY <1>1, <1>2, <1>3, ChatFails
<1>5. /\ sending'.message = Chat!None /\ sending'.session \in User
      /\ sending'.origin = "draft"
  BY <1>4, ChatNumbers
<1>6. Chat!TypeOK'
  BY <1>0, <1>1, <1>2, <1>4, <1>5 DEF Chat!TypeOK
<1>7. OnWire'
  BY <1>0, <1>1, <1>2, <1>3 DEF OnWire
<1> QED
  BY <1>4, <1>6, <1>7 DEF ChatInv

\* The next of the queue is sent.
LEMMA ChatFlushes ==
    ASSUME Chat!WebChatAssumption, ChatInv, Chat!Arrives("ok"), queue # <<>>,
           Chat!SendNow(Head(queue), "queue"), queue' = Tail(queue),
           UNCHANGED <<wire, retry, connect, signing, connected, session, draft, sends, accepted,
                       sockets, typed, meddling, failed, discarded, upset>>
    PROVE  ChatInv'
<1>0. /\ Chat!TypeOK /\ OnWire /\ OneRequest /\ Chat!NothingIsLost /\ Chat!GivenOnce
      /\ Placed /\ InTurn /\ RunEnds
  BY DEF ChatInv
<1>1. /\ sending.message # Chat!None /\ connected /\ down # <<>>
      /\ ~HasSend /\ ~HasTurn /\ ~HasFinal /\ ~HasAnswer' /\ ~HasFinal' /\ ~HasError'
      /\ down' \in Seq(Chat!Frames) /\ ~HasError
  BY <1>0, ChatAnswered
<1>2. queue \in Seq(Chat!Message)
  BY <1>0, ChatTypes
<1>3. /\ queue' \in Seq(Chat!Message) /\ 1 \in DOMAIN queue /\ Head(queue) = queue[1]
      /\ \A i \in DOMAIN queue' : i \in Nat /\ i + 1 \in DOMAIN queue /\ i + 1 # 1
                                  /\ queue'[i] = queue[i + 1]
      /\ \A i \in DOMAIN queue : i \in Nat /\ i >= 1
      /\ \A i \in DOMAIN queue : i # 1 => \E k \in DOMAIN queue' : i = k + 1 /\ queue'[k] = queue[i]
  <2>1. queue' \in Seq(Chat!Message) /\ Shorter(queue, queue')
    BY <1>2, Tailed
  <2> QED
    BY <2>1 DEF Shorter
<1>4. PICK m : m = queue[1]
  OBVIOUS
<1>5. m \in Chat!Message
  BY <1>2, <1>3, <1>4
<1>6. /\ OneRequest' /\ HasSend' /\ ~HasTurn' /\ ~HasError'
      /\ up' \in Seq(Chat!Frames) /\ up' # <<>>
      /\ sending' = [message |-> m, session |-> session, origin |-> "queue"] /\ run' = m
  <2>1. Chat!SendNow(m, "queue")
    BY <1>3, <1>4
  <2> QED
    BY <1>0, <1>1, <1>5, <2>1, ChatSends
<1>7. sending'.message = m /\ sending'.session = session /\ sending'.origin = "queue"
  BY <1>6
<1>8. Chat!TypeOK'
  BY <1>0, <1>1, <1>3, <1>5, <1>6, <1>7 DEF Chat!TypeOK
<1>9. OnWire'
  BY <1>0, <1>1, <1>6 DEF OnWire
<1>10. /\ \A i \in DOMAIN accepted : accepted[i] \in Nat /\ accepted[i] # 0
       /\ \A i \in DOMAIN queue : queue[i] \in Nat /\ queue[i] # 0
  BY <1>0, ChatValues
<1>11. m \in Nat /\ m # 0
  BY <1>3, <1>4, <1>10
<1>12. Given' = Given
  BY DEF Given
<1>13. \A i \in DOMAIN queue' : \E k \in DOMAIN queue : k = i + 1 /\ queue'[i] = queue[k]
  BY <1>3
<1>14. Placed'
  <2>1. /\ m <= typed /\ m # draft /\ (m \in Given => m \in failed)
    BY <1>0, <1>3, <1>4 DEF Placed
  <2>2. \A i \in DOMAIN queue : i # 1 => queue[i] # m
    BY <1>0, <1>3, <1>4 DEF Placed
  <2>3. \A i \in DOMAIN queue' : queue'[i] <= typed /\ queue'[i] # draft /\ queue'[i] # m
                                /\ (queue'[i] \in Given => queue'[i] \in failed)
    BY <1>0, <1>3, <2>2 DEF Placed
  <2>4. \A i, j \in DOMAIN queue' : queue'[i] = queue'[j] => i = j
    <3> SUFFICES ASSUME NEW i \in DOMAIN queue', NEW j \in DOMAIN queue', queue'[i] = queue'[j]
                 PROVE  i = j
      OBVIOUS
    <3>1. i + 1 = j + 1
      BY <1>0, <1>3 DEF Placed
    <3>2. i \in Nat /\ j \in Nat
      BY <1>3
    <3> QED
      BY <3>1, <3>2
  <2> QED
    BY <1>0, <1>6, <1>7, <1>12, <2>1, <2>3, <2>4 DEF Placed
<1>15. InTurn'
  <2> SUFFICES ASSUME failed = {}, upset = {} PROVE InTurn'
    BY DEF InTurn
  <2>1. \A i, j \in DOMAIN queue : i < j => queue[i] < queue[j]
    BY <1>0 DEF InTurn
  <2>2. \A i, j \in DOMAIN queue' : i < j => queue'[i] < queue'[j]
    <3> SUFFICES ASSUME NEW i \in DOMAIN queue', NEW j \in DOMAIN queue', i < j
                 PROVE  queue'[i] < queue'[j]
      OBVIOUS
    <3>1. i + 1 \in DOMAIN queue /\ j + 1 \in DOMAIN queue /\ i + 1 < j + 1
      BY <1>3
    <3> QED
      BY <1>3, <2>1, <3>1
  <2>3. \A i \in DOMAIN queue' : m < queue'[i]
    <3> SUFFICES ASSUME NEW i \in DOMAIN queue' PROVE m < queue'[i]
      OBVIOUS
    <3>1. 1 < i + 1
      BY <1>3
    <3> QED
      BY <1>3, <1>4, <2>1, <3>1
  <2>4. \A i \in DOMAIN accepted : accepted[i] < m
    BY <1>0, <1>3, <1>4 DEF InTurn
  <2>5. \A i \in DOMAIN accepted : accepted[i] <= m
    BY <1>10, <1>11, <2>4
  <2>6. draft # Chat!None => m < draft /\ \A i \in DOMAIN queue' : queue'[i] < draft
    BY <1>0, <1>3, <1>4 DEF InTurn
  <2>7. \A i \in DOMAIN accepted, j \in DOMAIN queue' : accepted[i] < queue'[j]
    BY <1>0, <1>13 DEF InTurn
  <2>8. m # Chat!None
    BY <1>11 DEF Chat!None
  <2> QED
    BY <1>0, <1>7, <2>2, <2>3, <2>5, <2>6, <2>7, <2>8 DEF InTurn
<1>16. RunEnds'
  BY <1>6, <1>7, <1>11 DEF RunEnds, Chat!None
<1>17. Chat!NothingIsLost'
  <2>1. sending.message \in Chat!Among(accepted)
    BY <1>0, <1>1 DEF Placed, Given, Chat!Among
  <2>2. \A i \in DOMAIN queue : queue[i] = m \/ \E j \in DOMAIN queue' : queue'[j] = queue[i]
    <3> SUFFICES ASSUME NEW i \in DOMAIN queue, i # 1
                 PROVE  \E j \in DOMAIN queue' : queue'[j] = queue[i]
      BY <1>4
    <3> QED
      BY <1>3
  <2>3. Chat!Among(queue) \subseteq Chat!Among(queue') \cup {m}
    BY <2>2 DEF Chat!Among
  <2> QED
    BY <1>0, <1>7, <2>1, <2>3 DEF Chat!NothingIsLost
<1>18. Chat!GivenOnce'
  BY <1>0 DEF Chat!GivenOnce
<1> QED
  BY <1>6, <1>8, <1>9, <1>14, <1>15, <1>16, <1>17, <1>18 DEF ChatInv

LEMMA ChatOk == ASSUME Chat!WebChatAssumption, ChatInv, Chat!Ok PROVE ChatInv'
<1>0. /\ Chat!TypeOK /\ OnWire /\ OneRequest /\ Chat!NothingIsLost /\ Chat!GivenOnce
      /\ Placed /\ InTurn /\ RunEnds
  BY DEF ChatInv
<1>1. /\ Chat!Arrives("ok")
      /\ UNCHANGED <<wire, retry, connect, signing, connected, session, draft, sends, accepted,
                     sockets, typed, meddling, failed, discarded, upset>>
  BY DEF Chat!Ok, Chat!clientVars, Chat!gatewayVars, Chat!counters, Chat!historyVars
<1>2. /\ sending.message # Chat!None /\ connected /\ down # <<>>
      /\ ~HasSend /\ ~HasTurn /\ ~HasFinal /\ ~HasAnswer' /\ ~HasFinal' /\ ~HasError'
      /\ down' \in Seq(Chat!Frames) /\ ~HasError
  BY <1>0, <1>1, ChatAnswered
<1>3. CASE run = Chat!None /\ connected /\ queue # <<>>
  <2>1. Chat!SendNow(Head(queue), "queue") /\ queue' = Tail(queue)
    BY <1>3 DEF Chat!Ok, Chat!Flush
  <2> QED
    BY <1>1, <1>3, <2>1, ChatFlushes
<1>4. CASE ~(run = Chat!None /\ connected /\ queue # <<>>)
  <2>1. sending' = Chat!Idle /\ UNCHANGED <<run, queue, up>>
    BY <1>4 DEF Chat!Ok
  <2>2. sending'.message = 0 /\ sending'.session \in User /\ sending'.origin = "draft"
    BY <2>1, ChatNumbers DEF Chat!None
  <2>3. ~HasSend' /\ ~HasTurn' /\ Given' = Given
    BY <1>1, <1>2, <2>1 DEF HasSend, HasTurn, Given
  <2>4. OneRequest'
    BY <1>2, <2>2, <2>3, ChatIdle DEF Chat!None
  <2>5. Chat!TypeOK'
    BY <1>0, <1>1, <1>2, <2>1, <2>2 DEF Chat!TypeOK, Chat!None
  <2>6. OnWire'
    BY <1>0, <1>1, <1>2, <2>1, <2>3 DEF OnWire
  <2>7. upset = {} => run = Chat!None /\ queue = <<>>
    <3>1. ~ \E t \in sends : t.here
      BY <1>2 DEF HasTurn
    <3> QED
      BY <1>0, <1>2, <1>4, <3>1 DEF RunEnds
  <2>8. RunEnds' /\ InTurn'
    BY <1>0, <1>1, <2>1, <2>2, <2>7 DEF RunEnds, InTurn, Chat!None
  <2>9. /\ \A i \in DOMAIN queue : queue[i] # 0
        /\ 0 \notin Given /\ typed \in Nat
    BY <1>0, ChatValues, ChatTypes DEF Given
  <2>10. Placed'
    BY <1>0, <1>1, <2>1, <2>2, <2>3, <2>9 DEF Placed, Chat!None
  <2>11. Chat!NothingIsLost'
    <3>1. sending.message \in Chat!Among(accepted)
      BY <1>0, <1>2 DEF Placed, Given, Chat!Among
    <3> QED
      BY <1>0, <1>1, <2>1, <3>1 DEF Chat!NothingIsLost
  <2>12. Chat!GivenOnce'
    BY <1>0, <1>1 DEF Chat!GivenOnce
  <2> QED
    BY <2>4, <2>5, <2>6, <2>8, <2>10, <2>11, <2>12 DEF ChatInv
<1> QED
  BY <1>3, <1>4

LEMMA ChatFinal == ASSUME Chat!WebChatAssumption, ChatInv, Chat!Final PROVE ChatInv'
<1>0. /\ Chat!TypeOK /\ OnWire /\ OneRequest /\ Chat!NothingIsLost /\ Chat!GivenOnce
      /\ Placed /\ InTurn /\ RunEnds
  BY DEF ChatInv
<1>1. /\ down # <<>> /\ Head(down).kind = "final" /\ down' = Tail(down)
      /\ down \in Seq(Chat!Frames)
  BY <1>0, ChatTypes DEF Chat!Final, Chat!Arrives
<1>2. /\ down' \in Seq(Chat!Frames) /\ 1 \in DOMAIN down /\ Head(down) = down[1]
      /\ \A i \in DOMAIN down' : i \in Nat /\ i + 1 \in DOMAIN down /\ i + 1 # 1
                                 /\ down'[i] = down[i + 1]
      /\ \A i \in DOMAIN down : i # 1 => \E k \in DOMAIN down' : i = k + 1 /\ down'[k] = down[i]
  <2>1. down' \in Seq(Chat!Frames) /\ Shorter(down, down')
    BY <1>1, Tailed
  <2> QED
    BY <2>1 DEF Shorter
<1>3. HasFinal /\ Mine(down[1])
  BY <1>0, <1>1, <1>2 DEF HasFinal, OneRequest
<1>4. sending.message # Chat!None /\ ~HasSend
  BY <1>0, <1>3 DEF OneRequest
<1>5. /\ UNCHANGED <<wire, retry, connect, signing, connected, session, draft, sends, accepted,
                     sockets, typed, meddling, failed, discarded, upset>>
      /\ IF Head(down).session # session \/ run \notin {Chat!None, Head(down).message}
         THEN UNCHANGED <<sending, run, queue, up>>
         ELSE run' = Chat!None /\ UNCHANGED <<sending, queue, up>>
  BY <1>4 DEF Chat!Final, Chat!clientVars, Chat!gatewayVars, Chat!counters, Chat!historyVars
<1>6. /\ UNCHANGED <<sending, queue, up>>
      /\ run' = run \/ run' = Chat!None
      /\ run' = run => \/ session # sending.session
                       \/ run \notin {Chat!None, sending.message} \/ run = Chat!None
  BY <1>1, <1>2, <1>3, <1>5 DEF Mine
<1>7. /\ HasSend' = HasSend /\ HasTurn' = HasTurn /\ Given' = Given
      /\ HasAnswer <=> HasAnswer'
      /\ HasError <=> HasError'
  <2>1. HasSend' = HasSend /\ HasTurn' = HasTurn /\ Given' = Given
    BY <1>5, <1>6 DEF HasSend, HasTurn, Given
  <2>2. down[1].kind = "final"
    BY <1>1, <1>2
  <2>3. HasAnswer <=> HasAnswer'
    BY <1>2, <2>2 DEF HasAnswer
  <2>4. HasError <=> HasError'
    BY <1>2, <2>2 DEF HasError
  <2> QED
    BY <2>1, <2>3, <2>4
<1>8. Chat!TypeOK'
  <2>1. run' \in Chat!Message \cup {Chat!None}
    BY <1>0, <1>6, ChatTypes
  <2> QED
    BY <1>0, <1>2, <1>5, <1>6, <2>1 DEF Chat!TypeOK
<1>9. OnWire'
  BY <1>0, <1>1, <1>5, <1>6, <1>7 DEF OnWire
<1>10. OneRequest'
  <2>1. \A i \in DOMAIN down' : down'[i].kind \in {"ok", "error", "final"} => Mine(down'[i])
    BY <1>0, <1>2 DEF OneRequest
  <2>2. \A i, j \in DOMAIN down' :
         down'[i].kind \in {"ok", "error"} /\ down'[j].kind \in {"ok", "error", "final"}
         => j + 1 <= i + 1
    BY <1>0, <1>2 DEF OneRequest
  <2>3. \A i, j \in DOMAIN down' : j + 1 <= i + 1 => j <= i
    BY <1>2
  <2> QED
    BY <1>0, <1>4, <1>5, <1>6, <1>7, <2>1, <2>2, <2>3 DEF OneRequest, Mine
<1>11. Placed' /\ InTurn'
  BY <1>0, <1>5, <1>6, <1>7 DEF Placed, InTurn
<1>12. RunEnds'
  BY <1>0, <1>5, <1>6 DEF RunEnds
<1>13. Chat!NothingIsLost' /\ Chat!GivenOnce'
  BY <1>0, <1>5, <1>6 DEF Chat!NothingIsLost, Chat!GivenOnce
<1> QED
  BY <1>8, <1>9, <1>10, <1>11, <1>12, <1>13 DEF ChatInv

\* The gateway takes a frame off what comes up.
LEMMA ChatTakes ==
    ASSUME Chat!WebChatAssumption, ChatInv, up # <<>>, up' = Tail(up)
    PROVE  /\ up' \in Seq(Chat!Frames) /\ Head(up) \in Chat!Frames
           /\ \A i \in DOMAIN up' : i \in Nat /\ i + 1 \in DOMAIN up /\ up'[i] = up[i + 1]
           /\ Head(up).kind # "send" => (HasSend <=> HasSend')
           /\ Head(up).kind = "send" => HasSend /\ ~HasSend' /\ Mine(Head(up))
<1>0. OneRequest /\ Chat!TypeOK
  BY DEF ChatInv
<1>1. up \in Seq(Chat!Frames)
  BY <1>0, ChatTypes
<1>2. /\ up' \in Seq(Chat!Frames) /\ 1 \in DOMAIN up /\ Head(up) = up[1]
      /\ \A i \in DOMAIN up' : i \in Nat /\ i + 1 \in DOMAIN up /\ i + 1 # 1 /\ up'[i] = up[i + 1]
      /\ \A i \in DOMAIN up : i # 1 => \E k \in DOMAIN up' : i = k + 1 /\ up'[k] = up[i]
  <2>1. up' \in Seq(Chat!Frames) /\ Shorter(up, up')
    BY <1>1, Tailed
  <2> QED
    BY <2>1 DEF Shorter
<1>3. Head(up).kind # "send" => (HasSend <=> HasSend')
  BY <1>2 DEF HasSend
<1>4. ASSUME Head(up).kind = "send" PROVE HasSend /\ ~HasSend' /\ Mine(Head(up))
  <2>1. HasSend /\ Mine(Head(up))
    BY <1>0, <1>2, <1>4 DEF HasSend, OneRequest
  <2>2. \A j \in DOMAIN up : up[j].kind = "send" => j = 1
    BY <1>0, <1>2, <1>4 DEF OneRequest
  <2>3. ~HasSend'
    BY <1>2, <2>2 DEF HasSend
  <2> QED
    BY <2>1, <2>3
<1>5. Head(up) \in Chat!Frames
  BY <1>1, <1>2
<1> QED
  BY <1>2, <1>3, <1>4, <1>5

\* A frame is added to what comes down.
LEMMA ChatGives ==
    ASSUME Chat!WebChatAssumption, Chat!TypeOK, NEW f \in Chat!Frames, down' = Append(down, f)
    PROVE  /\ down' \in Seq(Chat!Frames) /\ down' # <<>> /\ Len(down) \in Nat
           /\ Len(down) + 1 \in DOMAIN down' /\ down'[Len(down) + 1] = f
           /\ \A i \in DOMAIN down : /\ i \in DOMAIN down' /\ down'[i] = down[i]
                                     /\ i \in Nat /\ i < Len(down) + 1
           /\ \A i \in DOMAIN down' : i \in DOMAIN down \/ i = Len(down) + 1
           /\ HasAnswer' <=> HasAnswer \/ f.kind \in {"ok", "error"}
           /\ HasError' <=> HasError \/ f.kind = "error"
           /\ HasFinal' <=> HasFinal \/ f.kind = "final"
<1>1. down \in Seq(Chat!Frames)
  BY ChatTypes
<1>2. /\ down' \in Seq(Chat!Frames) /\ down' # <<>> /\ Len(down) \in Nat
      /\ Len(down) + 1 \in DOMAIN down' /\ down'[Len(down) + 1] = f
      /\ \A i \in DOMAIN down : /\ i \in DOMAIN down' /\ down'[i] = down[i]
                                /\ i \in Nat /\ i < Len(down) + 1
      /\ \A i \in DOMAIN down' : i \in DOMAIN down \/ i = Len(down) + 1
  <2>1. down' \in Seq(Chat!Frames) /\ Longer(down, f, down')
    BY <1>1, Appended
  <2> QED
    BY <2>1 DEF Longer
<1>3. HasAnswer' <=> HasAnswer \/ f.kind \in {"ok", "error"}
  BY <1>2 DEF HasAnswer
<1>4. HasError' <=> HasError \/ f.kind = "error"
  BY <1>2 DEF HasError
<1>5. HasFinal' <=> HasFinal \/ f.kind = "final"
  BY <1>2 DEF HasFinal
<1> QED
  BY <1>2, <1>3, <1>4, <1>5


\* A connect request is answered.
LEMMA ChatConnects ==
    ASSUME Chat!WebChatAssumption, ChatInv, up # <<>>, up' = Tail(up),
           Head(up).kind = "connect", NEW sort \in {"hello", "refused"},
           down' = Append(down, Chat!Frame(sort, Chat!None, Head(up).session)),
           UNCHANGED <<wire, retry, connect, signing, connected, session, run, sending, queue,
                       draft, sends, accepted, sockets, typed, meddling, failed, discarded, upset>>
    PROVE  ChatInv'
<1>0. /\ Chat!TypeOK /\ OnWire /\ OneRequest /\ Chat!NothingIsLost /\ Chat!GivenOnce
      /\ Placed /\ InTurn /\ RunEnds
  BY DEF ChatInv
<1>1. /\ up' \in Seq(Chat!Frames) /\ Head(up) \in Chat!Frames
      /\ \A i \in DOMAIN up' : i \in Nat /\ i + 1 \in DOMAIN up /\ up'[i] = up[i + 1]
      /\ HasSend <=> HasSend'
  BY ChatTakes
<1> DEFINE f == Chat!Frame(sort, Chat!None, Head(up).session)
<1>2. f \in Chat!Frames /\ f.kind = sort
  BY <1>1 DEF Chat!Frame, Chat!Frames
<1> HIDE DEF f
<1>3. /\ down' \in Seq(Chat!Frames) /\ down'[Len(down) + 1] = f
      /\ \A i \in DOMAIN down : i \in DOMAIN down' /\ down'[i] = down[i]
      /\ \A i \in DOMAIN down' : i \in DOMAIN down \/ i = Len(down) + 1
      /\ HasAnswer' <=> HasAnswer
      /\ HasError' <=> HasError
      /\ HasFinal' <=> HasFinal
  <2>1. down' = Append(down, f)
    BY DEF f
  <2> QED
    BY <1>0, <1>2, <2>1, ChatGives
<1>4. (HasTurn <=> HasTurn') /\ Given' = Given
  BY DEF HasTurn, Given
<1>5. Chat!TypeOK'
  BY <1>0, <1>1, <1>3 DEF Chat!TypeOK
<1>6. OnWire'
  BY <1>0, <1>4 DEF OnWire
<1>7. OneRequest'
  <2>1. \A i \in DOMAIN up' : up'[i].kind = "send" => Mine(up'[i])
    BY <1>0, <1>1 DEF OneRequest
  <2>2. \A i, j \in DOMAIN up' : up'[i].kind = "send" /\ up'[j].kind = "send" => i = j
    <3> SUFFICES ASSUME NEW i \in DOMAIN up', NEW j \in DOMAIN up',
                        up'[i].kind = "send", up'[j].kind = "send"
                 PROVE  i = j
      OBVIOUS
    <3>1. i + 1 = j + 1 /\ i \in Nat /\ j \in Nat
      BY <1>0, <1>1 DEF OneRequest
    <3> QED
      BY <3>1
  <2>3. \A i \in DOMAIN down' : down'[i].kind \in {"ok", "error", "final"} =>
          i \in DOMAIN down /\ down'[i] = down[i]
    BY <1>2, <1>3
  <2>4. \A i \in DOMAIN down' : down'[i].kind \in {"ok", "error", "final"} => Mine(down'[i])
    BY <1>0, <2>3 DEF OneRequest
  <2>5. \A i, j \in DOMAIN down' :
         down'[i].kind \in {"ok", "error"} /\ down'[j].kind \in {"ok", "error", "final"} => j <= i
    BY <1>0, <2>3 DEF OneRequest
  <2> QED
    BY <1>0, <1>1, <1>3, <1>4, <2>1, <2>2, <2>4, <2>5 DEF OneRequest, Mine
<1>8. Placed' /\ InTurn' /\ RunEnds'
  BY <1>0, <1>1, <1>3, <1>4 DEF Placed, InTurn, RunEnds
<1>9. Chat!NothingIsLost' /\ Chat!GivenOnce'
  BY <1>0 DEF Chat!NothingIsLost, Chat!GivenOnce
<1> QED
  BY <1>5, <1>6, <1>7, <1>8, <1>9 DEF ChatInv

\* A message is accepted: its request is in the hands of a turn.
LEMMA ChatAccepts ==
    ASSUME Chat!WebChatAssumption, ChatInv, up # <<>>, up' = Tail(up), Head(up).kind = "send",
           sends' = sends \cup {[message |-> Head(up).message, session |-> Head(up).session,
                                 ended |-> FALSE, here |-> TRUE]},
           accepted' = Append(accepted, Head(up).message),
           UNCHANGED <<wire, retry, connect, signing, connected, session, run, sending, queue,
                       draft, down, sockets, typed, meddling, failed, discarded, upset>>
    PROVE  ChatInv'
<1>0. /\ Chat!TypeOK /\ OnWire /\ OneRequest /\ Chat!NothingIsLost /\ Chat!GivenOnce
      /\ Placed /\ InTurn /\ RunEnds
  BY DEF ChatInv
<1>1. /\ up' \in Seq(Chat!Frames) /\ Head(up) \in Chat!Frames
      /\ HasSend /\ ~HasSend' /\ Mine(Head(up))
  BY ChatTakes
<1>2. sending.message # Chat!None /\ connected /\ ~HasTurn /\ ~HasAnswer /\ ~HasFinal
  BY <1>0, <1>1 DEF OneRequest
<1>3. ~HasAnswer' /\ ~HasFinal'
  BY <1>2 DEF HasAnswer, HasFinal
<1>4. PICK m : m = sending.message
  OBVIOUS
<1> DEFINE t == [message |-> Head(up).message, session |-> Head(up).session, ended |-> FALSE,
                 here |-> TRUE]
<1>5. /\ m \in Chat!Message /\ Head(up).message = m
      /\ t \in [message : Chat!Message, session : User, ended : BOOLEAN, here : BOOLEAN]
      /\ t.here /\ ~t.ended /\ Mine(t)
  <2>1. m \in Chat!Message /\ Head(up).message = m /\ Head(up).session = sending.session
        /\ sending.session \in User
    BY <1>0, <1>1, <1>2, <1>4, ChatTypes DEF Mine
  <2> QED
    BY <1>4, <2>1 DEF Mine
<1> HIDE DEF t
<1>6. sends' = sends \cup {t} /\ t \in sends'
  BY DEF t
<1>7. /\ accepted' \in Seq(Chat!Message) /\ Len(accepted) \in Nat
      /\ Len(accepted) + 1 \in DOMAIN accepted' /\ accepted'[Len(accepted) + 1] = m
      /\ \A i \in DOMAIN accepted : /\ i \in DOMAIN accepted' /\ accepted'[i] = accepted[i]
                                    /\ i \in Nat /\ i < Len(accepted) + 1
      /\ \A i \in DOMAIN accepted' : i \in DOMAIN accepted \/ i = Len(accepted) + 1
  <2>1. accepted \in Seq(Chat!Message)
    BY <1>0, ChatTypes
  <2>2. accepted' = Append(accepted, m)
    BY <1>5
  <2>3. accepted' \in Seq(Chat!Message) /\ Longer(accepted, m, accepted')
    BY <1>5, <2>1, <2>2, Appended
  <2> QED
    BY <2>3 DEF Longer
<1>8. \A i \in DOMAIN accepted' : \/ i \in DOMAIN accepted /\ accepted'[i] = accepted[i]
                                  \/ i = Len(accepted) + 1 /\ accepted'[i] = m
  BY <1>7
<1>9. Given' = Given \cup {m}
  BY <1>7, <1>8 DEF Given
<1>10. Chat!TypeOK'
  BY <1>0, <1>1, <1>5, <1>6, <1>7 DEF Chat!TypeOK
<1>11. OnWire'
  BY <1>0, <1>1 DEF OnWire
<1>12. OneRequest'
  <2>1. \A i \in DOMAIN up' : up'[i].kind # "send"
    BY <1>1 DEF HasSend
  <2>2. \A u \in sends' : u.here => u = t
    BY <1>2, <1>6 DEF HasTurn
  <2>3. HasTurn'
    BY <1>5, <1>6 DEF HasTurn
  <2>4. \A i \in DOMAIN down' : down'[i].kind \notin {"ok", "error", "final"}
    BY <1>3 DEF HasAnswer, HasFinal
  <2>5. \A u \in sends' : u.here => Mine(u)'
    BY <1>5, <2>2 DEF Mine
  <2>6. sending'.message # Chat!None /\ connected'
    BY <1>2
  <2> QED
    BY <1>1, <1>3, <2>1, <2>2, <2>3, <2>4, <2>5, <2>6 DEF OneRequest
<1>13. m # Chat!None /\ m \in Nat /\ m <= typed /\ (m \in Given => m \in failed)
  BY <1>0, <1>1, <1>2, <1>4, <1>5, ChatNumbers DEF Placed
<1>14. Placed'
  <2>1. \A i \in DOMAIN accepted' : accepted'[i] <= typed
    BY <1>0, <1>8, <1>13 DEF Placed
  <2>2. /\ draft \in Given' => draft \in failed
        /\ \A i \in DOMAIN queue : queue[i] \in Given' => queue[i] \in failed
    BY <1>0, <1>4, <1>9, <1>13 DEF Placed
  <2> QED
    BY <1>0, <1>1, <1>4, <1>9, <2>1, <2>2 DEF Placed
<1>15. InTurn'
  <2> SUFFICES ASSUME failed = {}, upset = {} PROVE InTurn'
    BY DEF InTurn
  <2>1. \A i \in DOMAIN accepted : accepted[i] \in Nat /\ accepted[i] <= m /\ accepted[i] # m
    BY <1>0, <1>2, <1>4, <1>13, ChatValues DEF InTurn, Given
  <2>2. \A i \in DOMAIN accepted : accepted[i] < m
    BY <1>13, <2>1
  <2>3. \A i, j \in DOMAIN accepted' : i < j => i \in DOMAIN accepted
    BY <1>7
  <2>4. \A i, j \in DOMAIN accepted' : i < j => accepted'[i] < accepted'[j]
    BY <1>0, <1>8, <2>2, <2>3 DEF InTurn
  <2>5. \A i \in DOMAIN accepted' : accepted'[i] <= m
    BY <1>8, <1>13, <2>1
  <2>6. \A i \in DOMAIN accepted', j \in DOMAIN queue : accepted'[i] < queue[j]
    BY <1>0, <1>2, <1>4, <1>8 DEF InTurn
  <2>7. draft # Chat!None => \A i \in DOMAIN accepted' : accepted'[i] < draft
    BY <1>0, <1>2, <1>4, <1>8 DEF InTurn
  <2> QED
    BY <1>0, <1>2, <1>4, <2>4, <2>5, <2>6, <2>7 DEF InTurn
<1>16. RunEnds'
  <2>1. \E u \in sends' : u.here /\ ~u.ended
    BY <1>5, <1>6
  <2> QED
    BY <1>0, <2>1 DEF RunEnds
<1>17. Chat!NothingIsLost'
  <2>1. Chat!Among(accepted) \subseteq Chat!Among(accepted')
    BY <1>7 DEF Chat!Among
  <2> QED
    BY <1>0, <2>1 DEF Chat!NothingIsLost
<1>18. Chat!GivenOnce'
  <2> SUFFICES ASSUME NEW i \in DOMAIN accepted', NEW j \in DOMAIN accepted', i # j,
                      accepted'[i] = accepted'[j]
               PROVE  accepted'[i] \in failed
    BY DEF Chat!GivenOnce
  <2>1. CASE i \in DOMAIN accepted /\ j \in DOMAIN accepted
    BY <1>0, <1>7, <2>1 DEF Chat!GivenOnce
  <2>2. CASE ~(i \in DOMAIN accepted /\ j \in DOMAIN accepted)
    BY <1>7, <1>8, <1>13, <2>2 DEF Given
  <2> QED
    BY <2>1, <2>2
<1> QED
  BY <1>10, <1>11, <1>12, <1>14, <1>15, <1>16, <1>17, <1>18 DEF ChatInv

\* No handler thread is free: the request is answered with an error.
LEMMA ChatTurnedAway ==
    ASSUME Chat!WebChatAssumption, ChatInv, up # <<>>, up' = Tail(up), Head(up).kind = "send",
           down' = Append(down, Chat!Frame("error", Head(up).message, Head(up).session)),
           UNCHANGED <<wire, retry, connect, signing, connected, session, run, sending, queue,
                       draft, sends, accepted, sockets, typed, meddling, failed, discarded, upset>>
    PROVE  ChatInv'
<1>0. /\ Chat!TypeOK /\ OnWire /\ OneRequest /\ Chat!NothingIsLost /\ Chat!GivenOnce
      /\ Placed /\ InTurn /\ RunEnds
  BY DEF ChatInv
<1>1. /\ up' \in Seq(Chat!Frames) /\ Head(up) \in Chat!Frames
      /\ HasSend /\ ~HasSend' /\ Mine(Head(up))
  BY ChatTakes
<1>2. sending.message # Chat!None /\ connected /\ ~HasTurn /\ ~HasAnswer /\ ~HasFinal
  BY <1>0, <1>1 DEF OneRequest
<1> DEFINE f == Chat!Frame("error", Head(up).message, Head(up).session)
<1>3. f \in Chat!Frames /\ f.kind = "error" /\ Mine(f)
  BY <1>1 DEF Chat!Frame, Chat!Frames, Mine
<1> HIDE DEF f
<1>4. /\ down' \in Seq(Chat!Frames) /\ down'[Len(down) + 1] = f /\ Len(down) \in Nat
      /\ Len(down) + 1 \in DOMAIN down'
      /\ \A i \in DOMAIN down : i \in DOMAIN down' /\ down'[i] = down[i]
      /\ \A i \in DOMAIN down' : i \in DOMAIN down \/ i = Len(down) + 1
      /\ HasAnswer' /\ HasError' /\ ~HasFinal'
  <2>1. down' = Append(down, f)
    BY DEF f
  <2> QED
    BY <1>0, <1>2, <1>3, <2>1, ChatGives
<1>5. ~HasTurn' /\ Given' = Given
  BY <1>2 DEF HasTurn, Given
<1>6. Chat!TypeOK'
  BY <1>0, <1>1, <1>4 DEF Chat!TypeOK
<1>7. OnWire'
  BY <1>0, <1>5 DEF OnWire
<1>8. OneRequest'
  <2>1. \A i \in DOMAIN up' : up'[i].kind # "send"
    BY <1>1 DEF HasSend
  <2>2. \A t \in sends' : ~t.here
    BY <1>5 DEF HasTurn
  <2>3. \A i \in DOMAIN down' : down'[i].kind \in {"ok", "error", "final"} => i = Len(down) + 1
    BY <1>2, <1>4 DEF HasAnswer, HasFinal
  <2>4. Len(down) + 1 <= Len(down) + 1
    BY <1>4
  <2>5. \A i, j \in DOMAIN down' :
         down'[i].kind \in {"ok", "error"} /\ down'[j].kind \in {"ok", "error", "final"} => j <= i
    BY <2>3, <2>4
  <2>6. \A i \in DOMAIN down' : down'[i].kind \in {"ok", "error", "final"} => Mine(down'[i])
    BY <1>3, <1>4, <2>3 DEF Mine
  <2>7. sending'.message # Chat!None /\ connected'
    BY <1>2
  <2> QED
    BY <1>1, <1>4, <1>5, <2>1, <2>2, <2>5, <2>6, <2>7 DEF OneRequest, Mine
<1>9. Placed' /\ InTurn' /\ RunEnds'
  BY <1>0, <1>1, <1>4, <1>5 DEF Placed, InTurn, RunEnds
<1>10. Chat!NothingIsLost' /\ Chat!GivenOnce'
  BY <1>0 DEF Chat!NothingIsLost, Chat!GivenOnce
<1> QED
  BY <1>6, <1>7, <1>8, <1>9, <1>10 DEF ChatInv

LEMMA ChatReceives == ASSUME Chat!WebChatAssumption, ChatInv, Chat!Receive PROVE ChatInv'
<1>1. /\ UNCHANGED <<wire, retry, connect, signing, connected, session, run, sending, queue,
                     draft, sockets, typed, meddling, failed, discarded, upset>>
      /\ up # <<>> /\ up' = Tail(up)
      /\ \/ /\ Head(up).kind = "connect"
            /\ \E sort \in {"hello", "refused"} :
                 down' = Append(down, Chat!Frame(sort, Chat!None, Head(up).session))
            /\ UNCHANGED <<sends, accepted>>
         \/ /\ Head(up).kind = "send"
            /\ sends' = sends \cup {[message |-> Head(up).message, session |-> Head(up).session,
                                     ended |-> FALSE, here |-> TRUE]}
            /\ accepted' = Append(accepted, Head(up).message)
            /\ UNCHANGED down
         \/ /\ Head(up).kind = "send"
            /\ down' = Append(down, Chat!Frame("error", Head(up).message, Head(up).session))
            /\ UNCHANGED <<sends, accepted>>
  BY DEF Chat!Receive, Chat!Reply, Chat!clientVars, Chat!hostVars, Chat!counters,
         Chat!historyVars, Chat!gatewayVars
<1>2. CASE /\ Head(up).kind = "connect"
           /\ \E sort \in {"hello", "refused"} :
                down' = Append(down, Chat!Frame(sort, Chat!None, Head(up).session))
           /\ UNCHANGED <<sends, accepted>>
  BY <1>1, <1>2, ChatConnects
<1>3. CASE /\ Head(up).kind = "send"
           /\ sends' = sends \cup {[message |-> Head(up).message, session |-> Head(up).session,
                                    ended |-> FALSE, here |-> TRUE]}
           /\ accepted' = Append(accepted, Head(up).message)
           /\ UNCHANGED down
  BY <1>1, <1>3, ChatAccepts
<1>4. CASE /\ Head(up).kind = "send"
           /\ down' = Append(down, Chat!Frame("error", Head(up).message, Head(up).session))
           /\ UNCHANGED <<sends, accepted>>
  BY <1>1, <1>4, ChatTurnedAway
<1> QED
  BY <1>1, <1>2, <1>3, <1>4

\* An end event adds frames that end a turn behind those that come down, and changes
\* nothing else that is seen of the request.
Ending(f) ==
    /\ down' \in Seq(Chat!Frames)
    /\ \A i \in DOMAIN down : i \in DOMAIN down' /\ down'[i] = down[i]
    /\ \A i \in DOMAIN down' : i \in DOMAIN down \/ down'[i] = f
    /\ \E i \in DOMAIN down' : down'[i] = f

LEMMA EndsOnce ==
    ASSUME Chat!WebChatAssumption, Chat!TypeOK, NEW f \in Chat!Frames, down' = Append(down, f)
    PROVE  Ending(f)
<1>1. down' \in Seq(Chat!Frames) /\ Longer(down, f, down')
  BY ChatTypes, Appended
<1>2. \A i \in DOMAIN down' : i \in DOMAIN down \/ down'[i] = f
  BY <1>1 DEF Longer
<1> QED
  BY <1>1, <1>2 DEF Ending, Longer

LEMMA EndsTwice ==
    ASSUME Chat!WebChatAssumption, Chat!TypeOK, NEW f \in Chat!Frames, down' = down \o <<f, f>>
    PROVE  Ending(f)
<1> DEFINE e == <<f, f>>
<1>1. e \in Seq(Chat!Frames) /\ Len(e) = 2 /\ e[1] = f /\ e[2] = f
  OBVIOUS
<1> HIDE DEF e
<1>2. down \in Seq(Chat!Frames) /\ down' = down \o e
  BY ChatTypes DEF e
<1>3. /\ down \o e \in Seq(Chat!Frames) /\ Len(down \o e) = Len(down) + Len(e)
      /\ \A i \in 1..(Len(down) + Len(e)) :
           (down \o e)[i] = IF i <= Len(down) THEN down[i] ELSE e[i - Len(down)]
  BY <1>1, <1>2, ConcatProperties, Zenon
<1>4. down' \in Seq(Chat!Frames) /\ Len(down') = Len(down) + 2 /\ Len(down) \in Nat
  BY <1>1, <1>2, <1>3
<1>5. \A i \in 1..(Len(down) + 2) :
        down'[i] = IF i <= Len(down) THEN down[i] ELSE e[i - Len(down)]
  BY <1>1, <1>2, <1>3
<1>6. DOMAIN down = 1..Len(down) /\ DOMAIN down' = 1..(Len(down) + 2)
  BY <1>2, <1>4
<1>7. \A i \in 1..Len(down) : i \in 1..(Len(down) + 2) /\ down'[i] = down[i]
  BY <1>4, <1>5
<1>8. \A i \in 1..(Len(down) + 2) : i \in 1..Len(down) \/ down'[i] = f
  <2> SUFFICES ASSUME NEW i \in 1..(Len(down) + 2), i \notin 1..Len(down) PROVE down'[i] = f
    OBVIOUS
  <2> DEFINE k == i - Len(down)
  <2>1. ~(i <= Len(down)) /\ (k = 1 \/ k = 2)
    BY <1>4
  <2>2. down'[i] = e[k]
    BY <1>5, <2>1
  <2> QED
    BY <1>1, <2>1, <2>2
<1>9. Len(down) + 2 \in 1..(Len(down) + 2) /\ Len(down) + 2 \notin 1..Len(down)
  BY <1>4
<1> QED
  BY <1>4, <1>6, <1>7, <1>8, <1>9 DEF Ending

LEMMA ChatEnds ==
    ASSUME Chat!WebChatAssumption, ChatInv, NEW t \in sends, Chat!EndEvent(t) PROVE ChatInv'
<1>0. /\ Chat!TypeOK /\ OnWire /\ OneRequest /\ Chat!NothingIsLost /\ Chat!GivenOnce
      /\ Placed /\ InTurn /\ RunEnds
  BY DEF ChatInv
<1> DEFINE Sends == [message : Chat!Message, session : User, ended : BOOLEAN, here : BOOLEAN]
           u == [t EXCEPT !.ended = TRUE]
           f == Chat!Frame("final", t.message, t.session)
<1>1. sends \subseteq Sends
  BY <1>0 DEF Chat!TypeOK
<1>2. /\ u \in Sends /\ u.message = t.message /\ u.session = t.session /\ u.here = t.here
      /\ f \in Chat!Frames /\ f.kind = "final" /\ f.message = t.message /\ f.session = t.session
  BY <1>1 DEF Chat!Frame, Chat!Frames
<1>3. /\ UNCHANGED <<wire, retry, connect, signing, connected, session, run, sending, queue,
                     draft, up, accepted, sockets, typed, meddling, failed, discarded, upset>>
      /\ ~t.ended /\ sends' = (sends \ {t}) \cup {u}
      /\ ~t.here => down' = down
      /\ t.here => down' = Append(down, f) \/ down' = down \o <<f, f>>
  BY DEF Chat!EndEvent, Chat!clientVars, Chat!hostVars, Chat!counters, Chat!historyVars
<1> HIDE DEF u, f, Sends
<1>4. t.here => Ending(f)
  BY <1>0, <1>2, <1>3, EndsOnce, EndsTwice
<1>5. /\ (HasSend <=> HasSend') /\ Given' = Given
      /\ HasTurn <=> HasTurn'
  <2>1. (HasSend <=> HasSend') /\ Given' = Given
    BY <1>3 DEF HasSend, Given
  <2>2. HasTurn => HasTurn'
    BY <1>2, <1>3 DEF HasTurn
  <2>3. HasTurn' => HasTurn
    BY <1>2, <1>3 DEF HasTurn
  <2> QED
    BY <2>1, <2>2, <2>3
<1>6. /\ down' \in Seq(Chat!Frames)
      /\ (HasAnswer <=> HasAnswer') /\ (HasError <=> HasError')
      /\ HasFinal => HasFinal'
      /\ t.here => HasFinal'
      /\ ~t.here => (HasFinal <=> HasFinal')
      /\ \A i \in DOMAIN down' : \/ i \in DOMAIN down /\ down'[i] = down[i]
                                 \/ t.here /\ down'[i] = f
  <2>1. CASE t.here
    <3>1. Ending(f)
      BY <1>4, <2>1
    <3>2. /\ down' \in Seq(Chat!Frames)
          /\ \A i \in DOMAIN down : i \in DOMAIN down' /\ down'[i] = down[i]
          /\ \A i \in DOMAIN down' : i \in DOMAIN down \/ down'[i] = f
          /\ \E i \in DOMAIN down' : down'[i] = f
      BY <3>1 DEF Ending
    <3>3. HasAnswer <=> HasAnswer'
      BY <1>2, <3>2 DEF HasAnswer
    <3>4. HasError <=> HasError'
      BY <1>2, <3>2 DEF HasError
    <3>5. HasFinal'
      BY <1>2, <3>2 DEF HasFinal
    <3>6. \A i \in DOMAIN down' : \/ i \in DOMAIN down /\ down'[i] = down[i]
                                  \/ t.here /\ down'[i] = f
      BY <2>1, <3>2
    <3>7. down' \in Seq(Chat!Frames)
      BY <3>2
    <3> QED
      BY <2>1, <3>3, <3>4, <3>5, <3>6, <3>7, Zenon
  <2>2. CASE ~t.here
    <3>1. down' = down /\ down \in Seq(Chat!Frames)
      BY <1>0, <1>3, <2>2, ChatTypes
    <3>2. (HasAnswer <=> HasAnswer') /\ (HasError <=> HasError') /\ (HasFinal <=> HasFinal')
      BY <3>1 DEF HasAnswer, HasError, HasFinal
    <3> QED
      BY <2>2, <3>1, <3>2
  <2> QED
    BY <2>1, <2>2
<1>7. t.here => /\ HasTurn /\ Mine(t) /\ Mine(f) /\ ~HasSend /\ ~HasAnswer
                /\ sending.message # Chat!None
  <2> SUFFICES ASSUME t.here
               PROVE  /\ HasTurn /\ Mine(t) /\ Mine(f) /\ ~HasSend /\ ~HasAnswer
                      /\ sending.message # Chat!None
    OBVIOUS
  <2>1. HasTurn
    BY DEF HasTurn
  <2> QED
    BY <1>0, <1>2, <2>1 DEF OneRequest, Mine
<1>8. Chat!TypeOK'
  <2>1. sends' \subseteq Sends
    BY <1>1, <1>2, <1>3
  <2> QED
    BY <1>0, <1>3, <1>6, <2>1 DEF Chat!TypeOK, Sends
<1>9. OnWire'
  <2>1. down' # <<>> => down # <<>> \/ HasTurn
    BY <1>3, <1>7
  <2> QED
    BY <1>0, <1>3, <1>5, <2>1 DEF OnWire
<1>10. OneRequest'
  <2>1. \A v \in sends' : v.here => Mine(v)
    BY <1>0, <1>2, <1>3, <1>7 DEF OneRequest, Mine
  <2>2. \A v, w \in sends' : v.here /\ w.here => v = w
    BY <1>0, <1>2, <1>3 DEF OneRequest
  <2>3. \A i \in DOMAIN down' : down'[i].kind \in {"ok", "error", "final"} => Mine(down'[i])
    BY <1>0, <1>6, <1>7 DEF OneRequest
  <2>4. \A i, j \in DOMAIN down' :
         down'[i].kind \in {"ok", "error"} /\ down'[j].kind \in {"ok", "error", "final"} => j <= i
    <3>1. CASE t.here
      BY <1>6, <1>7, <3>1 DEF HasAnswer
    <3>2. CASE ~t.here
      BY <1>0, <1>3, <3>2 DEF OneRequest
    <3> QED
      BY <3>1, <3>2
  <2>5. HasFinal' => sending.message # Chat!None /\ ~HasSend
    <3>1. CASE t.here
      BY <1>7, <3>1
    <3>2. CASE ~t.here
      BY <1>0, <1>6, <3>2 DEF OneRequest
    <3> QED
      BY <3>1, <3>2
  <2>6. /\ HasSend' \/ HasTurn' \/ HasAnswer' \/ HasFinal' => sending.message # Chat!None
        /\ sending.message # Chat!None => connected /\ (HasSend' \/ HasTurn' \/ HasAnswer')
        /\ ~(HasSend' /\ HasTurn') /\ ~(HasSend' /\ HasAnswer') /\ ~(HasSend' /\ HasFinal')
        /\ ~(HasTurn' /\ HasAnswer')
    BY <1>0, <1>5, <1>6, <2>5 DEF OneRequest
  <2>7. /\ \A i \in DOMAIN up : up[i].kind = "send" => Mine(up[i])
        /\ \A i, j \in DOMAIN up : up[i].kind = "send" /\ up[j].kind = "send" => i = j
    BY <1>0 DEF OneRequest
  <2> QED
    BY <1>3, <2>1, <2>2, <2>3, <2>4, <2>6, <2>7 DEF OneRequest, Mine
<1>11. Placed' /\ InTurn'
  BY <1>0, <1>3, <1>5, <1>6 DEF Placed, InTurn
<1>12. RunEnds'
  <2> SUFFICES ASSUME upset = {}, run # Chat!None PROVE RunEnds'
    BY <1>3 DEF RunEnds
  <2>1. /\ sending.message # Chat!None /\ run = sending.message /\ session = sending.session
        /\ HasSend \/ HasFinal \/ HasError \/ \E v \in sends : v.here /\ ~v.ended
    BY <1>0 DEF RunEnds
  <2>2. (\E v \in sends : v.here /\ ~v.ended) /\ ~t.here => \E v \in sends' : v.here /\ ~v.ended
    BY <1>3
  <2>3. HasSend' \/ HasFinal' \/ HasError' \/ \E v \in sends' : v.here /\ ~v.ended
    BY <1>5, <1>6, <2>1, <2>2
  <2> QED
    BY <1>3, <2>1, <2>3 DEF RunEnds
<1>13. Chat!NothingIsLost' /\ Chat!GivenOnce'
  BY <1>0, <1>3 DEF Chat!NothingIsLost, Chat!GivenOnce
<1> QED
  BY <1>8, <1>9, <1>10, <1>11, <1>12, <1>13 DEF ChatInv

\* The response leaves nothing of the turn; without an end event before it, the run is
\* left behind.
LEMMA ChatResponds ==
    ASSUME Chat!WebChatAssumption, ChatInv, NEW t \in sends, Chat!Respond(t) PROVE ChatInv'
<1>0. /\ Chat!TypeOK /\ OnWire /\ OneRequest /\ Chat!NothingIsLost /\ Chat!GivenOnce
      /\ Placed /\ InTurn /\ RunEnds
  BY DEF ChatInv
<1>1. PICK sort \in {"ok", "error"} :
        /\ down' = IF t.here THEN Append(down, Chat!Frame(sort, t.message, t.session)) ELSE down
        /\ upset \subseteq upset' /\ upset' \subseteq upset \cup {"muted"}
        /\ sort = "ok" /\ upset' = {} => t.ended
  BY DEF Chat!Respond
<1> DEFINE f == Chat!Frame(sort, t.message, t.session)
<1>2. /\ UNCHANGED <<wire, retry, connect, signing, connected, session, run, sending, queue,
                     draft, up, accepted, sockets, typed, meddling, failed, discarded>>
      /\ sends' = sends \ {t}
  BY DEF Chat!Respond, Chat!clientVars, Chat!hostVars, Chat!counters
<1>3. /\ f \in Chat!Frames /\ f.kind = sort /\ f.message = t.message /\ f.session = t.session
  BY <1>0 DEF Chat!Frame, Chat!Frames, Chat!TypeOK
<1> HIDE DEF f
<1>4. (HasSend <=> HasSend') /\ Given' = Given
  BY <1>2 DEF HasSend, Given
<1>5. t.here => /\ HasTurn /\ Mine(t) /\ Mine(f) /\ ~HasSend /\ ~HasAnswer /\ ~HasTurn'
                /\ sending.message # Chat!None /\ connected
  <2> SUFFICES ASSUME t.here
               PROVE  /\ HasTurn /\ Mine(t) /\ Mine(f) /\ ~HasSend /\ ~HasAnswer /\ ~HasTurn'
                      /\ sending.message # Chat!None /\ connected
    OBVIOUS
  <2>1. HasTurn
    BY DEF HasTurn
  <2>2. ~HasTurn'
    BY <1>0, <1>2 DEF OneRequest, HasTurn
  <2> QED
    BY <1>0, <1>3, <2>1, <2>2 DEF OneRequest, Mine
<1>6. ~t.here => (HasTurn <=> HasTurn')
  BY <1>2 DEF HasTurn
<1>7. CASE t.here
  <2>1. /\ down' \in Seq(Chat!Frames) /\ down'[Len(down) + 1] = f /\ Len(down) \in Nat
        /\ \A i \in DOMAIN down : /\ i \in DOMAIN down' /\ down'[i] = down[i]
                                  /\ i \in Nat /\ i < Len(down) + 1
        /\ \A i \in DOMAIN down' : i \in DOMAIN down \/ i = Len(down) + 1
        /\ HasAnswer'
        /\ HasError' <=> sort = "error"
        /\ HasFinal' <=> HasFinal
    <3>1. down' = Append(down, f)
      BY <1>1, <1>7 DEF f
    <3>2. ~HasError
      BY <1>5, <1>7 DEF HasError, HasAnswer
    <3> QED
      BY <1>0, <1>3, <3>1, <3>2, ChatGives
  <2>2. Chat!TypeOK'
    <3>1. upset' \subseteq {"muted", "overview"} /\ sends' \subseteq sends
      BY <1>0, <1>1, <1>2 DEF Chat!TypeOK
    <3> QED
      BY <1>0, <1>2, <2>1, <3>1 DEF Chat!TypeOK
  <2>3. OnWire'
    BY <1>0, <1>2, <1>5, <1>7 DEF OnWire
  <2>4. OneRequest'
    <3>1. \A u \in sends' : ~u.here
      BY <1>5, <1>7 DEF HasTurn
    <3>2. \A i \in DOMAIN down' : down'[i].kind \in {"ok", "error"} => i = Len(down) + 1
      BY <1>5, <1>7, <2>1 DEF HasAnswer
    <3>3. \A i \in DOMAIN down' : i <= Len(down) + 1
      BY <2>1
    <3>4. \A i, j \in DOMAIN down' :
           down'[i].kind \in {"ok", "error"} /\ down'[j].kind \in {"ok", "error", "final"} => j <= i
      BY <3>2, <3>3
    <3>5. \A i \in DOMAIN down' : down'[i].kind \in {"ok", "error", "final"} => Mine(down'[i])
      BY <1>0, <1>5, <1>7, <2>1 DEF OneRequest
    <3>6. /\ sending.message # Chat!None /\ connected /\ ~HasSend' /\ ~HasTurn' /\ HasAnswer'
      BY <1>4, <1>5, <1>7, <2>1
    <3>7. /\ \A i \in DOMAIN up : up[i].kind = "send" => Mine(up[i])
          /\ \A i, j \in DOMAIN up : up[i].kind = "send" /\ up[j].kind = "send" => i = j
      BY <1>0 DEF OneRequest
    <3> QED
      BY <1>2, <3>1, <3>4, <3>5, <3>6, <3>7 DEF OneRequest, Mine
  <2>5. sending.message \in Given
    BY <1>0, <1>5, <1>7 DEF Placed, HasAnswer, HasError
  <2>6. Placed'
    BY <1>0, <1>2, <1>4, <2>5 DEF Placed
  <2>7. InTurn'
    BY <1>0, <1>1, <1>2 DEF InTurn
  <2>8. RunEnds'
    <3> SUFFICES ASSUME upset' = {}, run # Chat!None PROVE RunEnds'
      BY <1>2 DEF RunEnds
    <3>1. upset = {}
      BY <1>1
    <3>2. /\ sending.message # Chat!None /\ run = sending.message /\ session = sending.session
          /\ HasSend \/ HasFinal \/ HasError \/ \E v \in sends : v.here /\ ~v.ended
      BY <1>0, <3>1 DEF RunEnds
    <3>3. ~HasError
      BY <1>5, <1>7 DEF HasError, HasAnswer
    <3>4. \A v \in sends : v.here => v = t
      BY <1>0, <1>7 DEF OneRequest
    <3>5. HasFinal' \/ HasError'
      BY <1>1, <1>5, <1>7, <2>1, <3>2, <3>3, <3>4
    <3> QED
      BY <1>2, <3>2, <3>5 DEF RunEnds
  <2>9. Chat!NothingIsLost' /\ Chat!GivenOnce'
    BY <1>0, <1>2 DEF Chat!NothingIsLost, Chat!GivenOnce
  <2> QED
    BY <2>2, <2>3, <2>4, <2>6, <2>7, <2>8, <2>9 DEF ChatInv
<1>8. CASE ~t.here
  <2>1. down' = down
    BY <1>1, <1>8
  <2>2. (HasAnswer <=> HasAnswer') /\ (HasError <=> HasError') /\ (HasFinal <=> HasFinal')
    BY <2>1 DEF HasAnswer, HasError, HasFinal
  <2>3. Chat!TypeOK'
    <3>1. upset' \subseteq {"muted", "overview"} /\ sends' \subseteq sends
      BY <1>0, <1>1, <1>2 DEF Chat!TypeOK
    <3> QED
      BY <1>0, <1>2, <2>1, <3>1 DEF Chat!TypeOK
  <2>4. OnWire'
    BY <1>0, <1>2, <1>6, <1>8, <2>1 DEF OnWire
  <2>5. OneRequest'
    BY <1>0, <1>2, <1>4, <1>6, <1>8, <2>1, <2>2 DEF OneRequest, Mine
  <2>6. Placed' /\ InTurn'
    BY <1>0, <1>1, <1>2, <1>4, <2>2 DEF Placed, InTurn
  <2>7. RunEnds'
    <3>1. (\E v \in sends : v.here /\ ~v.ended) => \E v \in sends' : v.here /\ ~v.ended
      BY <1>2, <1>8
    <3> QED
      BY <1>0, <1>1, <1>2, <1>4, <2>2, <3>1 DEF RunEnds
  <2>8. Chat!NothingIsLost' /\ Chat!GivenOnce'
    BY <1>0, <1>2 DEF Chat!NothingIsLost, Chat!GivenOnce
  <2> QED
    BY <2>3, <2>4, <2>5, <2>6, <2>7, <2>8 DEF ChatInv
<1> QED
  BY <1>7, <1>8

LEMMA ChatStays == ASSUME ChatInv, UNCHANGED Chat!chatVars PROVE ChatInv'
<1>1. UNCHANGED <<wire, retry, connect, signing, connected, session, run, sending, queue,
                  draft, up, down, sends, accepted, sockets, typed, meddling, failed, discarded,
                  upset>>
  BY DEF Chat!chatVars, Chat!clientVars, Chat!hostVars, Chat!gatewayVars, Chat!counters,
         Chat!historyVars
<1>2. /\ Chat!TypeOK /\ OnWire /\ OneRequest /\ Chat!NothingIsLost /\ Chat!GivenOnce
      /\ Placed /\ InTurn /\ RunEnds
  BY DEF ChatInv
<1>3. Chat!TypeOK'
  BY <1>1, <1>2 DEF Chat!TypeOK
<1>4. /\ HasSend' = HasSend /\ HasTurn' = HasTurn /\ HasAnswer' = HasAnswer
      /\ HasError' = HasError /\ HasFinal' = HasFinal /\ Given' = Given
  BY <1>1 DEF HasSend, HasTurn, HasAnswer, HasError, HasFinal, Given
<1>5. OnWire' /\ OneRequest'
  BY <1>1, <1>2, <1>4 DEF OnWire, OneRequest, Mine
<1>6. Placed' /\ InTurn' /\ RunEnds'
  BY <1>1, <1>2, <1>4 DEF Placed, InTurn, RunEnds
<1>7. Chat!NothingIsLost' /\ Chat!GivenOnce'
  BY <1>1, <1>2 DEF Chat!NothingIsLost, Chat!GivenOnce
<1> QED
  BY <1>3, <1>5, <1>6, <1>7 DEF ChatInv

LEMMA ChatSteps ==
    ASSUME Chat!WebChatAssumption, ChatInv, [Chat!Next]_Chat!chatVars PROVE ChatInv'
<1>1. CASE Chat!Open \/ Chat!Opened \/ Chat!SendConnect
  BY <1>1, ChatWires
<1>2. CASE Chat!Signed
  BY <1>2, ChatSigned
<1>3. CASE Chat!Type
  BY <1>3, ChatType
<1>4. CASE Chat!Submit
  BY <1>4, ChatSubmit
<1>5. CASE Chat!Abort
  BY <1>5, ChatAbort
<1>6. ASSUME NEW m \in Chat!Message, Chat!RemoveQueued(m) PROVE ChatInv'
  BY <1>6, ChatRemoves
<1>7. ASSUME NEW s \in User, Chat!SwitchSession(s) PROVE ChatInv'
  BY <1>7, ChatSwitches
<1>8. CASE Chat!Closed \/ Chat!Reconnect
  BY <1>8, ChatCloses
<1>9. CASE Chat!Hello \/ Chat!Refused
  BY <1>9, ChatHears
<1>10. CASE Chat!Final
  BY <1>10, ChatFinal
<1>11. CASE Chat!Ok
  BY <1>11, ChatOk
<1>12. CASE Chat!Error
  BY <1>12, ChatErrs
<1>13. CASE Chat!Receive
  BY <1>13, ChatReceives
<1>14. ASSUME NEW t \in sends, Chat!EndEvent(t) PROVE ChatInv'
  BY <1>14, ChatEnds
<1>15. ASSUME NEW t \in sends, Chat!Respond(t) PROVE ChatInv'
  BY <1>15, ChatResponds
<1>16. CASE UNCHANGED Chat!chatVars
  BY <1>16, ChatStays
<1> QED
  BY <1>1, <1>2, <1>3, <1>4, <1>5, <1>6, <1>7, <1>8, <1>9, <1>10, <1>11, <1>12, <1>13, <1>14,
     <1>15, <1>16 DEF Chat!Next

LEMMA ChatMeans == ASSUME Chat!WebChatAssumption, ChatInv PROVE Chat!ChatAgrees
<1>0. /\ Chat!TypeOK /\ OnWire /\ OneRequest /\ Chat!NothingIsLost /\ Chat!GivenOnce
      /\ Placed /\ InTurn /\ RunEnds
  BY DEF ChatInv
<1>1. Chat!NeverGivesUp
  BY <1>0 DEF OnWire, Chat!NeverGivesUp
<1>2. Chat!AnswerIsComing
  <2> SUFFICES ASSUME sending.message # Chat!None PROVE Chat!AnswerIsComing
    BY DEF Chat!AnswerIsComing
  <2>1. wire # "none" /\ (HasSend \/ HasTurn \/ HasAnswer)
    BY <1>0 DEF OnWire, OneRequest
  <2>2. HasSend => \E f \in Chat!Among(up) : f.kind = "send" /\ f.message = sending.message
    BY <1>0 DEF OneRequest, HasSend, Mine, Chat!Among
  <2>3. HasTurn => \E t \in sends : t.here /\ t.message = sending.message
    BY <1>0 DEF OneRequest, HasTurn, Mine
  <2>4. HasAnswer =>
          \E f \in Chat!Among(down) : f.kind \in {"ok", "error"} /\ f.message = sending.message
    BY <1>0 DEF OneRequest, HasAnswer, Mine, Chat!Among
  <2> QED
    BY <2>1, <2>2, <2>3, <2>4 DEF Chat!AnswerIsComing
<1>3. Chat!GivenInOrder
  BY <1>0, ChatValues DEF InTurn, Chat!GivenInOrder
<1>4. Chat!QueueMovesOn
  BY <1>0 DEF InTurn, RunEnds, Chat!QueueMovesOn
<1> QED
  BY <1>0, <1>1, <1>2, <1>3, <1>4 DEF Chat!ChatAgrees

\* The chat of the control UI: a request that is open has its answer still to come,
\* nothing that was written is lost or given twice to the gateway without a failure, and
\* messages arrive in the order they were written (ui/src/ui/controllers/chat.ts,
\* ui/src/ui/app-chat.ts, ui/src/ui/gateway.ts).
THEOREM ChatAlwaysAgrees ==
    ASSUME Chat!WebChatAssumption PROVE Chat!Spec => [](Chat!TypeOK /\ Chat!ChatAgrees)
<1>1. Chat!Init => ChatInv
  BY ChatStarts
<1>2. ChatInv /\ [Chat!Next]_Chat!chatVars => ChatInv'
  BY ChatSteps
<1>3. ChatInv => Chat!TypeOK /\ Chat!ChatAgrees
  BY ChatMeans DEF ChatInv
<1> QED
  BY <1>1, <1>2, <1>3, PTL DEF Chat!Spec

(***************************************************************************)
(* The failover between keys.                                              *)
(***************************************************************************)

\* A cooldown grows up to the fifth failure: 5 to the power of at most 4.
LEMMA PowerIsNat == ASSUME NEW n \in 0..4 PROVE Keys!Power(n) \in Nat
<1> DEFINE Step(f) == [i \in 0..n |-> IF i = 0 THEN 1 ELSE 5 * f[i - 1]]
           g == [i \in 0..n |-> IF i = 0 THEN 1 ELSE IF i = 1 THEN 5 ELSE IF i = 2 THEN 25
                                ELSE IF i = 3 THEN 125 ELSE 625]
           f == CHOOSE x : x = Step(x)
<1>1. g = Step(g)
  <2>1. ASSUME NEW i \in 0..n
        PROVE  g[i] = IF i = 0 THEN 1 ELSE 5 * g[i - 1]
    <3>1. i = 0 \/ i = 1 \/ i = 2 \/ i = 3 \/ i = 4
      OBVIOUS
    <3>2. i # 0 => i - 1 \in 0..n
      OBVIOUS
    <3> QED
      BY <3>1, <3>2
  <2> QED
    BY <2>1
<1>2. f = Step(f)
  BY <1>1
<1>3. Keys!Power(n) = f[n]
  BY DEF Keys!Power
<1> HIDE DEF f, g
<1>4. \A i \in 0..n : f[i] = IF i = 0 THEN 1 ELSE 5 * f[i - 1]
  BY <1>2
<1>5. f[0] = 1
  BY <1>4
<1>6. n >= 1 => f[1] = 5 * f[0]
  BY <1>4
<1>7. n >= 2 => f[2] = 5 * f[1]
  BY <1>4
<1>8. n >= 3 => f[3] = 5 * f[2]
  BY <1>4
<1>9. n >= 4 => f[4] = 5 * f[3]
  BY <1>4
<1> QED
  BY <1>3, <1>5, <1>6, <1>7, <1>8, <1>9

UseRec == [stage : {"idle", "classify", "choose", "probe", "chain", "chainProbe",
                    "calling", "succeeded"},
           key : Keys!Keys \cup {"none"}, probe : BOOLEAN, free : SUBSET Keys!Index,
           cooled : SUBSET Keys!Index, late : BOOLEAN]
CooldownRec == [failures : Nat, until : Nat, failedAt : Nat, probedAt : Nat]

\* Profiles are looked at in their order; who calls has a key; whoever was found
\* free is, unless a failure came in between.
UseRight(s) ==
    /\ use[s].stage = "idle" => use[s].free = {} /\ use[s].cooled = {}
    /\ use[s].stage = "classify" =>
         \E n \in Nat : n < Len(Profiles) /\ use[s].free \cup use[s].cooled = 1..n
    /\ use[s].stage \in {"calling", "succeeded"} => use[s].key \in Keys!Keys
    /\ \A i \in use[s].free : use[s].late \/ ~Keys!IsInCooldown(Profiles[i])

\* While a key cools down the tracker knows of its last probe.
ProbeKnown(k) ==
    /\ cooldown[k].until = 0 \/ cooldown[k].probedAt >= probed[k].last
    /\ probed[k].times > 1 => probed[k].last - probed[k].before >= ProbeInterval

KeysInv ==
    /\ now \in 0..KeyTime
    /\ cooldown \in [Keys!Keys -> CooldownRec]
    /\ lastUsed \in [Keys!Keys -> 0..KeyTime]
    /\ pin \in [User -> Keys!Keys \cup {"none"}]
    /\ mutex \in User \cup {"none"}
    /\ use \in [User -> UseRec]
    /\ calls \in 0..MaxCalls
    /\ probed \in [Keys!Keys -> [last : 0..KeyTime, before : 0..KeyTime, times : Nat]]
    /\ \A s \in User : UseRight(s)
    /\ \A k \in Keys!Keys : ProbeKnown(k)
    /\ \A k \in Keys!Keys : probed[k].last <= now

\* A session is given a key that does not cool down, except for the two reasons.
CoolIsKept ==
    \A s \in User :
      (use'[s].stage = "calling" /\ use[s].stage # "calling") =>
         ~Keys!IsInCooldown(use'[s].key) \/ use'[s].probe \/ use[s].late

LEMMA FailedType ==
    ASSUME NEW state \in CooldownRec, NEW failure \in Keys!Kinds, NEW retryAfter \in Nat,
           now \in Nat
    PROVE  /\ Keys!Failed(state, failure, retryAfter) \in CooldownRec
           /\ Keys!Failed(state, failure, retryAfter).probedAt = now
<1> DEFINE old == state.failures > 0 /\ now - state.failedAt > FailureWindowDecay
           n == IF old THEN 1 ELSE state.failures + 1
           c == Keys!ComputeCooldown(failure, n)
<1>1. n \in Nat \ {0}
  BY DEF CooldownRec
<1> HIDE DEF n
<1>2. Keys!Least(n, 5) - 1 \in 0..4
  BY <1>1 DEF Keys!Least
<1>3. c \in Nat
  <2> DEFINE p == Keys!Power(Keys!Least(n, 5) - 1)
  <2>1. p \in Nat
    BY <1>2, PowerIsNat
  <2>2. c = CASE failure = "rateLimit" -> Keys!Least(60 * p, 3600)
              [] failure = "timeout" -> Keys!Least(30 * p, 300)
              [] failure = "modelNotFound" -> 0
    BY DEF Keys!ComputeCooldown
  <2> HIDE DEF p, c
  <2>3. failure \in {"rateLimit", "timeout", "modelNotFound"}
    BY DEF Keys!Kinds
  <2>4. Keys!Least(60 * p, 3600) \in Nat /\ Keys!Least(30 * p, 300) \in Nat
    BY <2>1 DEF Keys!Least
  <2>5. CASE failure = "rateLimit"
    BY <2>2, <2>4, <2>5
  <2>6. CASE failure = "timeout"
    BY <2>2, <2>4, <2>6
  <2>7. CASE failure = "modelNotFound"
    BY <2>2, <2>7
  <2> QED
    BY <2>3, <2>5, <2>6, <2>7
<1> DEFINE u == now + (IF retryAfter > 0 THEN retryAfter ELSE c)
<1> HIDE DEF c
<1>4. u \in Nat
  BY <1>3
<1>5. Keys!Failed(state, failure, retryAfter) =
        [failures |-> n, failedAt |-> now, probedAt |-> now, until |-> u]
  BY DEF Keys!Failed, n, c
<1> HIDE DEF u
<1> QED
  BY <1>1, <1>4, <1>5 DEF CooldownRec

\* A step of one session that reports nothing.
LEMMA UseMoves ==
    ASSUME KeysInv, NEW s \in User, NEW w \in UseRec,
           use' = [use EXCEPT ![s] = w],
           w.stage = "idle" => w.free = {} /\ w.cooled = {},
           w.stage = "classify" => \E n \in Nat : n < Len(Profiles) /\ w.free \cup w.cooled = 1..n,
           w.stage \in {"calling", "succeeded"} => w.key \in Keys!Keys,
           \A i \in w.free : w.late \/ ~Keys!IsInCooldown(Profiles[i]),
           w.stage = "calling" /\ use[s].stage # "calling" =>
              ~Keys!IsInCooldown(w.key) \/ w.probe \/ use[s].late,
           now' = now,
           cooldown' \in [Keys!Keys -> CooldownRec],
           \A k \in Keys!Keys : cooldown'[k].until \in {cooldown[k].until, 0},
           lastUsed' \in [Keys!Keys -> 0..KeyTime],
           pin' \in [User -> Keys!Keys \cup {"none"}],
           mutex' \in User \cup {"none"}, calls' \in 0..MaxCalls,
           probed' \in [Keys!Keys -> [last : 0..KeyTime, before : 0..KeyTime, times : Nat]],
           \A k \in Keys!Keys : ProbeKnown(k)' /\ probed'[k].last <= now
    PROVE  KeysInv' /\ CoolIsKept
<1>1. use' \in [User -> UseRec] /\ use'[s] = w /\ \A u \in User \ {s} : use'[u] = use[u]
  BY DEF KeysInv
<1>2. \A i \in Keys!Index : Profiles[i] \in Keys!Keys
  BY DEF Keys!Keys
<1>3. \A k \in Keys!Keys : ~(now < cooldown[k].until) => ~(now < cooldown'[k].until)
  <2> TAKE k \in Keys!Keys
  <2>1. now \in Nat /\ ~(now < 0)
    BY DEF KeysInv
  <2>2. cooldown'[k].until \in {cooldown[k].until, 0}
    OBVIOUS
  <2> QED
    BY <2>1, <2>2
<1>4. ASSUME NEW u \in User
      PROVE  UseRight(u)'
  <2>1. \A i \in use'[u].free : use'[u].late \/ ~(now' < cooldown'[Profiles[i]].until)
    <3>1. use'[u].free \subseteq Keys!Index
      BY <1>1 DEF UseRec
    <3>2. CASE u = s
      BY <1>1, <1>2, <1>3, <3>1, <3>2 DEF Keys!IsInCooldown
    <3>3. CASE u # s
      BY <1>1, <1>2, <1>3, <3>1, <3>3 DEF Keys!IsInCooldown, KeysInv, UseRight
    <3> QED
      BY <3>2, <3>3
  <2>2. CASE u = s
    BY <1>1, <2>1, <2>2 DEF UseRight, Keys!IsInCooldown
  <2>3. CASE u # s
    BY <1>1, <2>1, <2>3 DEF UseRight, Keys!IsInCooldown, KeysInv
  <2> QED
    BY <2>2, <2>3
<1>5. CoolIsKept
  BY <1>1 DEF CoolIsKept
<1> QED
  BY <1>1, <1>4, <1>5 DEF KeysInv

UseOf(k, probe, late) ==
    [Keys!NoUse EXCEPT !.stage = "calling", !.key = k, !.probe = probe, !.late = late]

LEMMA NoUseRight ==
    ASSUME NEW k \in Keys!Keys, NEW probe \in BOOLEAN, NEW late \in BOOLEAN
    PROVE  /\ UseOf(k, probe, late) \in UseRec
           /\ UseOf(k, probe, late).stage = "calling" /\ UseOf(k, probe, late).key = k
           /\ UseOf(k, probe, late).probe = probe /\ UseOf(k, probe, late).free = {}
           /\ Keys!NoUse \in UseRec /\ Keys!NoUse.stage = "idle"
           /\ Keys!NoUse.free = {} /\ Keys!NoUse.cooled = {}
  BY Zenon DEF UseRec, Keys!NoUse, UseOf

\* A key is given out: by the pin, by choice, for a probe, or from the chain.
LEMMA CallsKeep ==
    ASSUME KeysInv, NEW s \in User, NEW k \in Keys!Keys, NEW probe \in BOOLEAN,
           Keys!Calls(s, k, probe),
           ~Keys!IsInCooldown(k) \/ probe \/ use[s].late,
           now' = now,
           cooldown' \in [Keys!Keys -> CooldownRec],
           \A j \in Keys!Keys : cooldown'[j].until \in {cooldown[j].until, 0},
           lastUsed' \in [Keys!Keys -> 0..KeyTime],
           pin' \in [User -> Keys!Keys \cup {"none"}], calls' \in 0..MaxCalls,
           probed' \in [Keys!Keys -> [last : 0..KeyTime, before : 0..KeyTime, times : Nat]],
           \A j \in Keys!Keys : ProbeKnown(j)' /\ probed'[j].last <= now
    PROVE  KeysInv' /\ CoolIsKept
<1> DEFINE w == UseOf(k, probe, use[s].late)
<1>1. use' = [use EXCEPT ![s] = w] /\ mutex' = "none"
  BY Zenon DEF Keys!Calls, UseOf
<1>2. use[s].late \in BOOLEAN
  BY DEF KeysInv, UseRec
<1>3. w \in UseRec /\ w.stage = "calling" /\ w.key = k /\ w.probe = probe /\ w.free = {}
  BY <1>2, NoUseRight
<1> HIDE DEF w
<1> QED
  BY <1>1, <1>3, UseMoves

\* A session goes on to another stage.
LEMMA GoesKeep ==
    ASSUME KeysInv, NEW s \in User,
           NEW stage \in {"classify", "choose", "probe", "chain", "chainProbe", "succeeded"},
           Keys!Goes(s, stage),
           stage = "classify" => use[s].stage = "idle" /\ Len(Profiles) \in Nat \ {0},
           stage = "succeeded" => use[s].stage = "calling",
           now' = now,
           cooldown' \in [Keys!Keys -> CooldownRec],
           \A j \in Keys!Keys : cooldown'[j].until \in {cooldown[j].until, 0},
           lastUsed' \in [Keys!Keys -> 0..KeyTime],
           pin' \in [User -> Keys!Keys \cup {"none"}], calls' \in 0..MaxCalls,
           mutex' \in User \cup {"none"},
           probed' \in [Keys!Keys -> [last : 0..KeyTime, before : 0..KeyTime, times : Nat]],
           \A j \in Keys!Keys : ProbeKnown(j)' /\ probed'[j].last <= now
    PROVE  KeysInv' /\ CoolIsKept
<1> DEFINE w == [use[s] EXCEPT !.stage = stage]
<1>1. use' = [use EXCEPT ![s] = w]
  BY DEF Keys!Goes, KeysInv
<1>2. use[s] \in UseRec /\ UseRight(s)
  BY DEF KeysInv
<1>3. /\ w \in UseRec /\ w.stage = stage /\ w.key = use[s].key /\ w.free = use[s].free
      /\ w.cooled = use[s].cooled /\ w.late = use[s].late
  BY <1>2 DEF UseRec
<1> HIDE DEF w
<1>4. w.stage = "classify" => \E n \in Nat : n < Len(Profiles) /\ w.free \cup w.cooled = 1..n
  <2> HAVE w.stage = "classify"
  <2>1. 1..0 = {} /\ 0 \in Nat
    OBVIOUS
  <2>2. 0 < Len(Profiles)
    BY <1>3
  <2>3. w.free = {} /\ w.cooled = {}
    BY <1>2, <1>3 DEF UseRight
  <2> QED
    BY <2>1, <2>2, <2>3
<1>5. w.stage \in {"calling", "succeeded"} => w.key \in Keys!Keys
  BY <1>2, <1>3 DEF UseRight
<1>6. \A i \in w.free : w.late \/ ~Keys!IsInCooldown(Profiles[i])
  BY <1>2, <1>3 DEF UseRight
<1>7. w.stage # "idle" /\ w.stage # "calling"
  BY <1>3
<1> QED
  BY <1>1, <1>3, <1>4, <1>5, <1>6, <1>7, UseMoves

\* A probe, where the tracker allows it.
LEMMA ProbeKeeps ==
    ASSUME KeysInv, NEW k \in Keys!Keys, Keys!MayProbe(k), Keys!Probes(k), now' = now
    PROVE  /\ cooldown' \in [Keys!Keys -> CooldownRec]
           /\ \A j \in Keys!Keys : cooldown'[j].until \in {cooldown[j].until, 0}
           /\ probed' \in [Keys!Keys -> [last : 0..KeyTime, before : 0..KeyTime, times : Nat]]
           /\ \A j \in Keys!Keys : ProbeKnown(j)' /\ probed'[j].last <= now
<1> DEFINE c == [cooldown[k] EXCEPT !.probedAt = now]
           p == [last |-> now, before |-> probed[k].last, times |-> probed[k].times + 1]
<1>1. /\ cooldown[k] \in CooldownRec /\ now \in 0..KeyTime /\ now \in Nat
      /\ probed[k].last \in 0..KeyTime /\ probed[k].times \in Nat
      /\ cooldown \in [Keys!Keys -> CooldownRec] /\ ProbeKnown(k)
      /\ probed \in [Keys!Keys -> [last : 0..KeyTime, before : 0..KeyTime, times : Nat]]
      /\ cooldown[k].until \in Nat /\ cooldown[k].probedAt \in Nat
  BY DEF KeysInv, CooldownRec
<1>2. cooldown' = [cooldown EXCEPT ![k] = c] /\ probed' = [probed EXCEPT ![k] = p]
  BY <1>1 DEF Keys!Probes
<1>3. c \in CooldownRec /\ c.until = cooldown[k].until /\ c.probedAt = now
  BY <1>1 DEF CooldownRec
<1>4. /\ p \in [last : 0..KeyTime, before : 0..KeyTime, times : Nat]
      /\ p.last = now /\ p.before = probed[k].last
  BY <1>1
<1>5. now - probed[k].last >= ProbeInterval
  <2>1. cooldown[k].until # 0
    BY <1>1 DEF Keys!MayProbe, Keys!IsInCooldown
  <2>2. cooldown[k].probedAt >= probed[k].last
    BY <1>1, <2>1 DEF ProbeKnown
  <2>3. now - cooldown[k].probedAt >= ProbeInterval
    BY DEF Keys!MayProbe
  <2>4. ProbeInterval \in Nat
    BY GatewayPartsAssumption DEF GatewayPartsAssumption, Keys!FailoverAssumption
  <2> QED
    BY <1>1, <2>2, <2>3, <2>4
<1> HIDE DEF c, p
<1>6. /\ cooldown' \in [Keys!Keys -> CooldownRec] /\ cooldown'[k] = c
      /\ \A j \in Keys!Keys \ {k} : cooldown'[j] = cooldown[j]
      /\ probed' \in [Keys!Keys -> [last : 0..KeyTime, before : 0..KeyTime, times : Nat]]
      /\ probed'[k] = p /\ \A j \in Keys!Keys \ {k} : probed'[j] = probed[j]
  BY <1>1, <1>2, <1>3, <1>4
<1>7. ASSUME NEW j \in Keys!Keys
      PROVE  ProbeKnown(j)' /\ probed'[j].last <= now
  <2>1. CASE j = k
    BY <1>1, <1>3, <1>4, <1>5, <1>6, <2>1 DEF ProbeKnown
  <2>2. CASE j # k
    BY <1>6, <2>2 DEF ProbeKnown, KeysInv
  <2> QED
    BY <2>1, <2>2
<1> QED
  BY <1>3, <1>6, <1>7

LEMMA KeysKept ==
    ASSUME KeysInv
    PROVE  /\ now \in 0..KeyTime /\ now \in Nat /\ cooldown \in [Keys!Keys -> CooldownRec]
           /\ \A j \in Keys!Keys : cooldown[j].until \in {cooldown[j].until, 0}
           /\ lastUsed \in [Keys!Keys -> 0..KeyTime] /\ pin \in [User -> Keys!Keys \cup {"none"}]
           /\ calls \in 0..MaxCalls /\ mutex \in User \cup {"none"}
           /\ probed \in [Keys!Keys -> [last : 0..KeyTime, before : 0..KeyTime, times : Nat]]
           /\ \A j \in Keys!Keys : ProbeKnown(j) /\ probed[j].last <= now
  BY DEF KeysInv

LEMMA ClassifyInv ==
    ASSUME KeysInv, Keys!FailoverAssumption, NEW s \in User, Keys!Classify(s)
    PROVE  KeysInv' /\ CoolIsKept
<1> DEFINE u == use[s]
           i == Cardinality(u.free \cup u.cooled) + 1
           w == [u EXCEPT !.stage  = IF i = Len(Profiles) THEN "choose" ELSE u.stage,
                          !.free   = IF Keys!IsInCooldown(Profiles[i]) THEN u.free ELSE u.free \cup {i},
                          !.cooled = IF Keys!IsInCooldown(Profiles[i]) THEN u.cooled \cup {i} ELSE u.cooled]
<1>1. \A S : Keys!Cardinality(S) = Cardinality(S)
  BY DEF Keys!Cardinality, Cardinality
<1>2. /\ use' = [use EXCEPT ![s] = w] /\ u.stage = "classify"
      /\ UNCHANGED <<now, cooldown, lastUsed, pin, mutex, calls, probed>>
  BY <1>1 DEF Keys!Classify
<1>3. PICK n \in Nat : n < Len(Profiles) /\ u.free \cup u.cooled = 1..n
  BY <1>2 DEF KeysInv, UseRight
<1>4. i = n + 1 /\ i \in Keys!Index /\ Len(Profiles) \in Nat
  <2>1. Cardinality(1..n) = n
    <3>1. 1 \in Int /\ n \in Int
      OBVIOUS
    <3>2. Cardinality(1..n) = IF 1 > n THEN 0 ELSE n - 1 + 1
      BY <3>1, FS_Interval
    <3> QED
      BY <3>2
  <2>2. i = n + 1
    BY <1>3, <2>1
  <2>3. Len(Profiles) \in Nat
    BY DEF Keys!FailoverAssumption
  <2>4. n + 1 \in 1..Len(Profiles)
    BY <1>3, <2>3
  <2> HIDE DEF i
  <2> QED
    BY <2>2, <2>3, <2>4 DEF Keys!Index
<1>5. u \in UseRec /\ UseRight(s)
  BY DEF KeysInv
<1> HIDE DEF i
<1>6. /\ w.stage = IF i = Len(Profiles) THEN "choose" ELSE u.stage
      /\ w.free = IF Keys!IsInCooldown(Profiles[i]) THEN u.free ELSE u.free \cup {i}
      /\ w.cooled = IF Keys!IsInCooldown(Profiles[i]) THEN u.cooled \cup {i} ELSE u.cooled
      /\ w.late = u.late
  BY <1>5, Zenon DEF UseRec
<1>7. w \in UseRec
  <2>1. /\ (IF i = Len(Profiles) THEN "choose" ELSE u.stage)
             \in {"idle", "classify", "choose", "probe", "chain", "chainProbe", "calling", "succeeded"}
        /\ (IF Keys!IsInCooldown(Profiles[i]) THEN u.free ELSE u.free \cup {i}) \in SUBSET Keys!Index
        /\ (IF Keys!IsInCooldown(Profiles[i]) THEN u.cooled \cup {i} ELSE u.cooled) \in SUBSET Keys!Index
    BY <1>4, <1>5 DEF UseRec
  <2> QED
    BY <1>5, <2>1, Zenon DEF UseRec
<1> HIDE DEF w
<1>8. w.stage = "classify" => \E m \in Nat : m < Len(Profiles) /\ w.free \cup w.cooled = 1..m
  <2> HAVE w.stage = "classify"
  <2>1. i # Len(Profiles) /\ i \in Nat
    BY <1>3, <1>4, <1>6
  <2>2. i < Len(Profiles)
    BY <1>3, <1>4, <2>1
  <2>3. w.free \cup w.cooled = 1..i
    <3>1. w.free \cup w.cooled = (1..n) \cup {i}
      BY <1>3, <1>6
    <3> QED
      BY <1>4, <3>1
  <2> QED
    BY <2>1, <2>2, <2>3
<1>9. \A j \in w.free : w.late \/ ~Keys!IsInCooldown(Profiles[j])
  BY <1>5, <1>6 DEF UseRight
<1>10. w.stage \in {"choose", "classify"}
  BY <1>2, <1>6
<1> QED
  BY <1>2, <1>7, <1>8, <1>9, <1>10, KeysKept, UseMoves DEF ProbeKnown

LEMMA ResolveInv ==
    ASSUME KeysInv, Keys!FailoverAssumption, NEW s \in User,
           \/ Keys!TryPin(s) \/ Keys!Choose(s) \/ Keys!ProbeFirst(s)
           \/ Keys!TryChain(s) \/ Keys!ProbeChain(s)
    PROVE  KeysInv' /\ CoolIsKept
<1>1. use[s] \in UseRec /\ UseRight(s) /\ pin[s] \in Keys!Keys \cup {"none"} /\ now' = now
      /\ Keys!Fallback \in Keys!Keys /\ \A i \in Keys!Index : Profiles[i] \in Keys!Keys
  BY DEF KeysInv, Keys!TryPin, Keys!Choose, Keys!ProbeFirst, Keys!TryChain, Keys!ProbeChain, Keys!Keys
<1>2. Len(Profiles) \in Nat \ {0} /\ MaxCalls \in Nat /\ 1 \in Keys!Index /\ Profiles[1] \in Keys!Keys
  BY <1>1 DEF Keys!FailoverAssumption, Keys!Index
<1>3. CASE Keys!TryPin(s)
  <2>1. UNCHANGED <<now, cooldown, lastUsed, probed>> /\ calls' \in 0..MaxCalls
        /\ use[s].stage = "idle"
    BY <1>2, <1>3 DEF Keys!TryPin, KeysInv
  <2>2. CASE pin[s] \notin {"none", Keys!Fallback} /\ ~Keys!IsInCooldown(pin[s])
    <3>1. Keys!Calls(s, pin[s], FALSE) /\ UNCHANGED pin
      BY <1>3, <2>2 DEF Keys!TryPin
    <3> QED
      BY <1>1, <2>1, <2>2, <3>1, KeysKept, CallsKeep DEF ProbeKnown
  <2>3. CASE ~(pin[s] \notin {"none", Keys!Fallback} /\ ~Keys!IsInCooldown(pin[s]))
    <3>1. Keys!Goes(s, "classify") /\ mutex' = s
          /\ pin' = [pin EXCEPT ![s] = IF pin[s] = Keys!Fallback THEN pin[s] ELSE "none"]
      BY <1>3, <2>3 DEF Keys!TryPin
    <3>2. pin' \in [User -> Keys!Keys \cup {"none"}]
      BY <1>1, <3>1 DEF KeysInv
    <3> QED
      BY <1>2, <2>1, <3>1, <3>2, KeysKept, GoesKeep DEF ProbeKnown
  <2> QED
    BY <2>2, <2>3
<1>4. CASE Keys!Choose(s)
  <2>1. UNCHANGED <<now, cooldown, pin, calls, probed>>
    BY <1>4 DEF Keys!Choose
  <2>2. CASE use[s].free = {}
    <3>1. Keys!Goes(s, "probe") /\ UNCHANGED <<lastUsed, mutex>>
      BY <1>4, <2>2 DEF Keys!Choose
    <3> QED
      BY <2>1, <3>1, KeysKept, GoesKeep DEF ProbeKnown
  <2>3. CASE use[s].free # {}
    <3>1. PICK i \in use[s].free : /\ lastUsed' = [lastUsed EXCEPT ![Profiles[i]] = now]
                                   /\ Keys!Calls(s, Profiles[i], FALSE)
      BY <1>4, <2>3 DEF Keys!Choose
    <3>2. i \in Keys!Index /\ (use[s].late \/ ~Keys!IsInCooldown(Profiles[i]))
      BY <1>1 DEF UseRec, UseRight
    <3>3. lastUsed' \in [Keys!Keys -> 0..KeyTime]
      BY <1>1, <3>1, <3>2 DEF KeysInv
    <3> QED
      BY <1>1, <2>1, <3>1, <3>2, <3>3, KeysKept, CallsKeep DEF ProbeKnown
  <2> QED
    BY <2>2, <2>3
<1>5. CASE Keys!ProbeFirst(s)
  <2>1. UNCHANGED <<now, lastUsed, pin, calls>>
    BY <1>5 DEF Keys!ProbeFirst
  <2>2. CASE Keys!MayProbe(Profiles[1])
    <3>1. Keys!Probes(Profiles[1]) /\ Keys!Calls(s, Profiles[1], TRUE)
      BY <1>5, <2>2 DEF Keys!ProbeFirst
    <3> QED
      BY <1>1, <1>2, <2>1, <2>2, <3>1, KeysKept, ProbeKeeps, CallsKeep
  <2>3. CASE ~Keys!MayProbe(Profiles[1])
    <3>1. Keys!Goes(s, "chain") /\ mutex' = "none" /\ UNCHANGED <<cooldown, probed>>
      BY <1>5, <2>3 DEF Keys!ProbeFirst
    <3> QED
      BY <2>1, <3>1, KeysKept, GoesKeep DEF ProbeKnown
  <2> QED
    BY <2>2, <2>3
<1>6. CASE Keys!TryChain(s)
  <2>1. UNCHANGED <<now, cooldown, lastUsed, calls, probed>>
        /\ pin' = [pin EXCEPT ![s] = IF pin[s] = Keys!Fallback THEN "none" ELSE pin[s]]
    BY <1>6 DEF Keys!TryChain
  <2>2. pin' \in [User -> Keys!Keys \cup {"none"}]
    BY <1>1, <2>1 DEF KeysInv
  <2>3. CASE Keys!IsInCooldown(Keys!Fallback)
    <3>1. Keys!Goes(s, "chainProbe") /\ mutex' = s
      BY <1>6, <2>3 DEF Keys!TryChain
    <3> QED
      BY <2>1, <2>2, <3>1, KeysKept, GoesKeep DEF ProbeKnown
  <2>4. CASE ~Keys!IsInCooldown(Keys!Fallback)
    <3>1. Keys!Calls(s, Keys!Fallback, FALSE)
      BY <1>6, <2>4 DEF Keys!TryChain
    <3> QED
      BY <1>1, <2>1, <2>2, <2>4, <3>1, KeysKept, CallsKeep DEF ProbeKnown
  <2> QED
    BY <2>3, <2>4
<1>7. CASE Keys!ProbeChain(s)
  <2>1. UNCHANGED <<now, lastUsed, pin, calls>>
    BY <1>7 DEF Keys!ProbeChain
  <2>2. CASE Keys!MayProbe(Keys!Fallback)
    <3>1. Keys!Probes(Keys!Fallback) /\ Keys!Calls(s, Keys!Fallback, TRUE)
      BY <1>7, <2>2 DEF Keys!ProbeChain
    <3> QED
      BY <1>1, <2>1, <2>2, <3>1, KeysKept, ProbeKeeps, CallsKeep
  <2>3. CASE ~Keys!MayProbe(Keys!Fallback)
    <3>1. use' = [use EXCEPT ![s] = Keys!NoUse] /\ mutex' = "none" /\ UNCHANGED <<cooldown, probed>>
      BY <1>7, <2>3 DEF Keys!ProbeChain
    <3>2. /\ Keys!NoUse \in UseRec /\ Keys!NoUse.stage = "idle" /\ Keys!NoUse.free = {}
          /\ Keys!NoUse.cooled = {}
      BY <1>1, NoUseRight
    <3> QED
      BY <2>1, <3>1, <3>2, KeysKept, UseMoves DEF ProbeKnown
  <2> QED
    BY <2>2, <2>3
<1> QED
  BY <1>3, <1>4, <1>5, <1>6, <1>7

LEMMA ReportInv ==
    ASSUME KeysInv, Keys!FailoverAssumption, NEW s \in User,
           \/ Keys!CallSucceeds(s) \/ Keys!Pin(s) \/ Keys!ClearSessionPin(s)
    PROVE  KeysInv' /\ CoolIsKept
<1>1. use[s] \in UseRec /\ UseRight(s) /\ now' = now /\ now \in 0..KeyTime
  BY DEF KeysInv, Keys!CallSucceeds, Keys!Pin, Keys!ClearSessionPin
<1>2. CASE Keys!CallSucceeds(s)
  <2> DEFINE k == use[s].key
  <2>1. k \in Keys!Keys
    BY <1>1, <1>2 DEF UseRight, Keys!CallSucceeds
  <2>2. /\ cooldown' = [cooldown EXCEPT ![k] = Keys!NoState] /\ Keys!Goes(s, "succeeded")
        /\ UNCHANGED <<lastUsed, pin, mutex, calls, probed>> /\ use[s].stage = "calling"
    BY <1>2 DEF Keys!CallSucceeds
  <2>3. Keys!NoState \in CooldownRec /\ Keys!NoState.until = 0
    BY DEF CooldownRec, Keys!NoState
  <2> HIDE DEF k
  <2>4. /\ cooldown' \in [Keys!Keys -> CooldownRec] /\ cooldown'[k].until = 0
        /\ \A j \in Keys!Keys \ {k} : cooldown'[j] = cooldown[j]
    BY <2>1, <2>2, <2>3 DEF KeysInv
  <2>5. \A j \in Keys!Keys : ProbeKnown(j)' /\ probed'[j].last <= now
    BY <2>2, <2>4 DEF KeysInv, ProbeKnown
  <2>6. \A j \in Keys!Keys : cooldown'[j].until \in {cooldown[j].until, 0}
    BY <2>4
  <2> QED
    BY <1>1, <2>2, <2>4, <2>5, <2>6, KeysKept, GoesKeep
<1>3. CASE Keys!Pin(s)
  <2> DEFINE k == use[s].key
  <2>1. k \in Keys!Keys
    BY <1>1, <1>3 DEF UseRight, Keys!Pin
  <2>2. /\ lastUsed' = [lastUsed EXCEPT ![k] = now] /\ pin' = [pin EXCEPT ![s] = k]
        /\ use' = [use EXCEPT ![s] = Keys!NoUse] /\ UNCHANGED <<cooldown, mutex, calls, probed>>
    BY <1>3 DEF Keys!Pin
  <2> HIDE DEF k
  <2>3. lastUsed' \in [Keys!Keys -> 0..KeyTime] /\ pin' \in [User -> Keys!Keys \cup {"none"}]
    BY <1>1, <2>1, <2>2 DEF KeysInv
  <2>4. /\ Keys!NoUse \in UseRec /\ Keys!NoUse.stage = "idle" /\ Keys!NoUse.free = {}
        /\ Keys!NoUse.cooled = {}
    BY <2>1, NoUseRight
  <2> QED
    BY <1>1, <2>2, <2>3, <2>4, KeysKept, UseMoves DEF ProbeKnown
<1>4. CASE Keys!ClearSessionPin(s)
  <2>1. pin' \in [User -> Keys!Keys \cup {"none"}]
        /\ UNCHANGED <<now, cooldown, lastUsed, mutex, use, calls, probed>>
    BY <1>4 DEF Keys!ClearSessionPin, KeysInv
  <2> QED
    BY <2>1 DEF KeysInv, CoolIsKept, UseRight, ProbeKnown, Keys!IsInCooldown
<1> QED
  BY <1>2, <1>3, <1>4

LEMMA CallFailsInv ==
    ASSUME KeysInv, Keys!FailoverAssumption, NEW s \in User, Keys!CallFails(s)
    PROVE  KeysInv' /\ CoolIsKept
<1> DEFINE k == use[s].key
           Hit(u) == \E i \in use[u].free : Profiles[i] = k
<1>1. k \in Keys!Keys /\ use[s] \in UseRec /\ now \in 0..KeyTime /\ now \in Nat
  BY DEF KeysInv, UseRight, Keys!CallFails
<1>2. PICK failure \in Keys!Kinds, retryAfter \in {0, KeyTick} :
        cooldown' = [cooldown EXCEPT ![k] = Keys!Failed(cooldown[k], failure, retryAfter)]
  BY DEF Keys!CallFails
<1> DEFINE c == Keys!Failed(cooldown[k], failure, retryAfter)
<1>3. c \in CooldownRec /\ c.probedAt = now
  <2>1. retryAfter \in Nat /\ cooldown[k] \in CooldownRec
    BY <1>1 DEF Keys!FailoverAssumption, KeysInv
  <2> QED
    BY <1>1, <2>1, FailedType
<1>4. /\ use' = [u \in User |-> IF u = s THEN Keys!NoUse
                               ELSE IF Hit(u) THEN [use[u] EXCEPT !.late = TRUE] ELSE use[u]]
      /\ UNCHANGED <<now, lastUsed, pin, mutex, calls, probed>>
  BY DEF Keys!CallFails
<1>5. /\ Keys!NoUse \in UseRec /\ Keys!NoUse.stage = "idle" /\ Keys!NoUse.free = {}
      /\ Keys!NoUse.cooled = {}
  BY <1>1, NoUseRight
<1> HIDE DEF c, k
<1>6. /\ cooldown' \in [Keys!Keys -> CooldownRec] /\ cooldown'[k] = c
      /\ \A j \in Keys!Keys \ {k} : cooldown'[j] = cooldown[j]
  BY <1>1, <1>2, <1>3 DEF KeysInv, c
<1>7. ASSUME NEW u \in User
      PROVE  use'[u] \in UseRec /\ UseRight(u)' /\ use'[u].stage \in {use[u].stage, "idle"}
  <2>1. use[u] \in UseRec /\ UseRight(u)
    BY DEF KeysInv
  <2>2. CASE u = s
    BY <1>4, <1>5, <2>2 DEF UseRight
  <2>3. CASE u # s /\ Hit(u)
    <3> DEFINE w == [use[u] EXCEPT !.late = TRUE]
    <3>1. w \in UseRec /\ w.late /\ w.stage = use[u].stage /\ w.free = use[u].free
          /\ w.cooled = use[u].cooled /\ w.key = use[u].key
      BY <2>1 DEF UseRec
    <3>2. use'[u] = w
      BY <1>4, <2>3
    <3> HIDE DEF w
    <3> QED
      BY <2>1, <3>1, <3>2 DEF UseRight
  <2>4. CASE u # s /\ ~Hit(u)
    <3>1. use'[u] = use[u]
      BY <1>4, <2>4
    <3>2. \A i \in use[u].free : Profiles[i] \in Keys!Keys \ {k}
      BY <2>1, <2>4 DEF UseRec, Keys!Keys
    <3>3. \A i \in use[u].free : ~(now < cooldown[Profiles[i]].until) =>
                                    ~(now' < cooldown'[Profiles[i]].until)
      BY <1>4, <1>6, <3>2
    <3> QED
      BY <2>1, <3>1, <3>3 DEF UseRight, Keys!IsInCooldown
  <2> QED
    BY <2>2, <2>3, <2>4
<1>8. use' \in [User -> UseRec]
  BY <1>4, <1>7
<1>9. ASSUME NEW j \in Keys!Keys
      PROVE  ProbeKnown(j)'
  <2>1. CASE j = k
    BY <1>1, <1>3, <1>4, <1>6, <2>1 DEF KeysInv, ProbeKnown
  <2>2. CASE j # k
    BY <1>4, <1>6, <2>2 DEF KeysInv, ProbeKnown
  <2> QED
    BY <2>1, <2>2
<1>10. CoolIsKept
  BY <1>7 DEF CoolIsKept
<1> QED
  BY <1>4, <1>6, <1>7, <1>8, <1>9, <1>10 DEF KeysInv

LEMMA TimePassesInv ==
    ASSUME KeysInv, Keys!FailoverAssumption, Keys!TimePasses
    PROVE  KeysInv' /\ CoolIsKept
<1>1. /\ now' = now + KeyTick /\ now \in 0..KeyTime /\ now' \in 0..KeyTime /\ KeyTick \in Nat
      /\ UNCHANGED <<cooldown, lastUsed, pin, mutex, use, calls, probed>>
  BY DEF Keys!TimePasses, KeysInv, Keys!FailoverAssumption
<1>2. \A j \in Keys!Keys : cooldown[j].until \in Nat /\ probed[j].last \in Nat
  BY DEF KeysInv, CooldownRec
<1>3. \A j \in Keys!Keys : ~(now < cooldown[j].until) => ~(now' < cooldown[j].until)
  BY <1>1, <1>2
<1>4. \A j \in Keys!Keys : probed'[j].last <= now'
  BY <1>1, <1>2 DEF KeysInv
<1>5. ASSUME NEW u \in User
      PROVE  UseRight(u)'
  <2>1. use[u].free \subseteq Keys!Index /\ UseRight(u)
    BY DEF KeysInv, UseRec
  <2>2. \A i \in use[u].free : Profiles[i] \in Keys!Keys
    BY <2>1 DEF Keys!Keys
  <2> QED
    BY <1>1, <1>3, <2>1, <2>2 DEF UseRight, Keys!IsInCooldown
<1> QED
  BY <1>1, <1>4, <1>5 DEF KeysInv, CoolIsKept, ProbeKnown

LEMMA KeysNext ==
    ASSUME Keys!FailoverAssumption
    PROVE  KeysInv /\ [Keys!Next]_(Keys!failoverVars) => KeysInv' /\ CoolIsKept
<1> SUFFICES ASSUME KeysInv, [Keys!Next]_(Keys!failoverVars)
             PROVE  KeysInv' /\ CoolIsKept
  OBVIOUS
<1>1. CASE UNCHANGED Keys!failoverVars
  BY <1>1 DEF Keys!failoverVars, KeysInv, CoolIsKept, UseRight, ProbeKnown, Keys!IsInCooldown
<1> QED
  BY <1>1, ClassifyInv, ResolveInv, ReportInv, CallFailsInv, TimePassesInv DEF Keys!Next

\* The invariant the theorems below are drawn from.
THEOREM KeysInvAlways == ASSUME Keys!FailoverAssumption PROVE Keys!Spec => []KeysInv
<1>1. ASSUME Keys!Init
      PROVE  KeysInv
  <2>1. 0 \in 0..KeyTime /\ 0 \in 0..MaxCalls
    BY DEF Keys!FailoverAssumption
  <2>2. Keys!NoUse \in UseRec /\ Keys!NoUse.stage = "idle" /\ Keys!NoUse.free = {}
        /\ Keys!NoUse.cooled = {}
    BY NoUseRight DEF Keys!Keys
  <2>3. Keys!NoState \in CooldownRec /\ Keys!NoState.until = 0
    BY DEF CooldownRec, Keys!NoState
  <2> DEFINE p == [last |-> 0, before |-> 0, times |-> 0]
  <2>4. p \in [last : 0..KeyTime, before : 0..KeyTime, times : Nat] /\ p.last = 0 /\ ~(p.times > 1)
    BY <2>1
  <2>5. /\ now = 0 /\ cooldown = [k \in Keys!Keys |-> Keys!NoState] /\ lastUsed = [k \in Keys!Keys |-> 0]
        /\ pin = [s \in User |-> "none"] /\ mutex = "none" /\ use = [s \in User |-> Keys!NoUse]
        /\ calls = 0 /\ probed = [k \in Keys!Keys |-> p]
    BY <1>1 DEF Keys!Init
  <2> HIDE DEF p
  <2>6. \A s \in User : UseRight(s)
    BY <2>2, <2>5 DEF UseRight
  <2>7. \A k \in Keys!Keys : ProbeKnown(k) /\ probed[k].last <= now
    BY <2>3, <2>4, <2>5 DEF ProbeKnown
  <2> QED
    BY <2>1, <2>2, <2>3, <2>4, <2>5, <2>6, <2>7 DEF KeysInv
<1> QED
  BY <1>1, KeysNext, PTL DEF Keys!Spec

\* Probes of a key that cools down are ProbeInterval apart, for any number of sessions
\* and profiles (CooldownTracker::TryProbe).
THEOREM ProbesAlwaysSparse ==
    ASSUME Keys!FailoverAssumption PROVE Keys!Spec => [](Keys!TypeOK /\ Keys!ProbesAreSparse)
<1>1. KeysInv => Keys!TypeOK /\ Keys!ProbesAreSparse
  BY DEF KeysInv, UseRec, CooldownRec, ProbeKnown, Keys!TypeOK, Keys!ProbesAreSparse
<1> QED
  BY <1>1, KeysInvAlways, PTL

\* A session is not given a key that cools down, except to probe it, or when a failure
\* was reported after the key had been looked at (FailoverResolver::Resolve).
THEOREM CooldownAlwaysKept ==
    ASSUME Keys!FailoverAssumption PROVE Keys!Spec => Keys!CooldownIsKept
<1>1. KeysInv /\ [Keys!Next]_(Keys!failoverVars) =>
        [\A s \in User :
           (use'[s].stage = "calling" /\ use[s].stage # "calling") =>
             \/ ~Keys!IsInCooldown(use'[s].key)
             \/ use'[s].probe \/ use[s].late]_(Keys!failoverVars)
  BY KeysNext DEF CoolIsKept
<1> QED
  BY <1>1, KeysInvAlways, PTL DEF Keys!Spec, Keys!CooldownIsKept
================================================================================
