-------------------------------- MODULE WebChat --------------------------------
(***************************************************************************)
(* The chat of the control UI: the browser's WebSocket client, which       *)
(* reconnects (ui/src/ui/gateway.ts), and on top of it one message in      *)
(* flight, a queue for what is written meanwhile, and a draft that gets    *)
(* back what could not be sent (controllers/chat.ts, app-chat.ts,          *)
(* app-gateway.ts); at the other end chat.send of the gateway.             *)
(*                                                                         *)
(* A callback of the browser runs to its end, with the continuations it    *)
(* settles: each is one step.  Text on its way to the screen (deltas,      *)
(* history, tool cards) is left out.                                       *)
(***************************************************************************)
EXTENDS Naturals, Sequences, FiniteSets, SequencesExt

CONSTANTS Session,
          MaxMessages, MaxSockets, MaxGiven, MaxMeddling    \* bounds

WebChatAssumption ==
    Session # {} /\ {MaxMessages, MaxSockets, MaxGiven, MaxMeddling} \subseteq Nat

VARIABLES socket,        \* of the client: readyState, or none
          retry,         \* the reconnect timer is armed
          connect,       \* "armed": connectTimer runs; "sent": connectSent
          signing,       \* continuations of sendConnectInner yet to come
          connected,     \* host.connected
          session,       \* host.sessionKey
          run,           \* chatRunId: the message it was made for
          sending,       \* chatSending: the message in flight
          queue,         \* chatQueue
          draft,         \* chatMessage
          up, down,      \* frames on their way to the gateway and back
          turns,         \* chat.send at the gateway
          sockets, typed, meddling,   \* counters: sockets opened, messages typed, and
                         \* what else the user does
          accepted,      \* history: what the gateway was sent, in order
          failed,        \* history: messages whose request failed
          discarded,     \* history: drafts and queued messages that were dropped
          upset          \* history: what leaves chatRunId behind

clientVars  == <<socket, retry, connect, signing>>
hostVars    == <<connected, session, run, sending, queue, draft>>
gatewayVars == <<turns, accepted>>
counters == <<sockets, typed, meddling>>
historyVars == <<failed, discarded, upset>>
chatVars == <<clientVars, hostVars, up, down, gatewayVars, counters, historyVars>>

None == 0
Message == 1..MaxMessages
Idle == [message |-> None, session |-> CHOOSE s \in Session : TRUE, origin |-> "draft"]
Frames == [kind : {"connect", "send", "hello", "refused", "final", "ok", "error"},
           message : Message \cup {None}, session : Session]
Frame(kind, m, s) == [kind |-> kind, message |-> m, session |-> s]

TypeOK ==
    /\ socket \in {"none", "opening", "open", "closing"}
    /\ {retry, connected} \subseteq BOOLEAN
    /\ connect \in {"idle", "armed", "sent"} /\ signing \in 0..MaxSockets
    /\ session \in Session
    /\ {run, sending.message, draft} \subseteq Message \cup {None}
    /\ sending.session \in Session /\ sending.origin \in {"draft", "queue"}
    /\ queue \in Seq(Message) /\ {up, down} \subseteq Seq(Frames)
    /\ turns \subseteq [message : Message, session : Session, ended : BOOLEAN, here : BOOLEAN]
    /\ sockets \in 0..MaxSockets /\ typed \in 0..MaxMessages /\ meddling \in 0..MaxMeddling
    /\ accepted \in Seq(Message)
    /\ failed \subseteq Message /\ discarded \subseteq Message
    /\ upset \subseteq {"muted", "overview"}

Init ==
    /\ socket = "none" /\ retry = TRUE /\ connect = "idle" /\ signing = 0
    /\ connected = FALSE /\ session = Idle.session /\ run = None /\ sending = Idle
    /\ queue = <<>> /\ draft = None /\ up = <<>> /\ down = <<>> /\ turns = {}
    /\ sockets = 0 /\ typed = 0 /\ meddling = 0 /\ accepted = <<>>
    /\ failed = {} /\ discarded = {} /\ upset = {}

-----------------------------------------------------------------------------
(* The client                                                               *)

\* connect: at start, and when the reconnect timer fires
Open ==
    /\ retry /\ sockets < MaxSockets
    /\ retry' = FALSE /\ socket' = "opening" /\ sockets' = sockets + 1
    /\ UNCHANGED <<connect, signing, hostVars, up, down, gatewayVars, typed, meddling,
                   historyVars>>

\* queueConnect
Opened ==
    /\ socket = "opening"
    /\ socket' = "open" /\ connect' = "armed"
    /\ UNCHANGED <<retry, signing, hostVars, up, down, gatewayVars, counters,
                   historyVars>>

\* The challenge comes, or connectTimer fires; the identity is loaded and signed.
SendConnect ==
    /\ connect = "armed"
    /\ connect' = "sent" /\ signing' = signing + 1
    /\ UNCHANGED <<socket, retry, hostVars, up, down, gatewayVars, counters,
                   historyVars>>

\* The rest of sendConnectInner, on whatever socket there is by then.
Signed ==
    /\ signing > 0 /\ signing' = signing - 1
    /\ up' = IF socket = "open" THEN Append(up, Frame("connect", None, session)) ELSE up
    /\ socket' = IF socket = "opening" THEN "closing" ELSE socket
    /\ UNCHANGED <<retry, connect, hostVars, down, gatewayVars, counters, historyVars>>

-----------------------------------------------------------------------------
(* The chat                                                                 *)

IsChatBusy == sending.message # None \/ run # None

\* sendChatMessage, up to its await
SendNow(m, origin) ==
    /\ sending' = [message |-> m, session |-> session, origin |-> origin]
    /\ run' = m
    /\ up' = Append(up, Frame("send", m, session))

\* Fault: what could not be sent is not kept
FailForgetting ==
    /\ sending' = Idle /\ run' = None
    /\ failed' = failed \cup {sending.message}
    /\ UNCHANGED <<queue, draft, discarded>>

\* Its catch and finally, and who called it: the message goes back.
Failing ==
    /\ sending' = Idle /\ run' = None
    /\ failed' = failed \cup {sending.message}
    /\ IF sending.origin = "queue"
       THEN /\ queue' = Cons(sending.message, queue)
            /\ UNCHANGED <<draft, discarded>>
       ELSE /\ draft' = sending.message
            /\ discarded' = discarded \cup ({draft} \ {None})
            /\ UNCHANGED queue

\* flushChatQueue, when a run ends
Flush(busy) ==
    IF connected /\ ~busy /\ queue # <<>>
    THEN SendNow(Head(queue), "queue") /\ queue' = Tail(queue)
    ELSE UNCHANGED <<sending, run, queue, up>>

Type ==
    /\ draft = None /\ typed < MaxMessages
    /\ typed' = typed + 1 /\ draft' = typed + 1
    /\ UNCHANGED <<clientVars, connected, session, run, sending, queue, up, down, gatewayVars,
                   sockets, meddling, historyVars>>

\* handleSendChat; a socket that is not open refuses at once.
Submit ==
    /\ connected /\ draft # None
    /\ \/ /\ IsChatBusy
          /\ queue' = Append(queue, draft) /\ draft' = None
          /\ UNCHANGED <<sending, run, up, failed>>
       \/ /\ ~IsChatBusy /\ socket = "open"
          /\ SendNow(draft, "draft") /\ draft' = None
          /\ UNCHANGED <<queue, failed>>
       \/ /\ ~IsChatBusy /\ socket # "open"
          /\ failed' = failed \cup {draft}
          /\ UNCHANGED <<sending, run, up, queue, draft>>
    /\ UNCHANGED <<clientVars, connected, session, down, gatewayVars, counters,
                   discarded, upset>>

\* handleAbortChat, by the button or a word that stops; what it does to the
\* turn is among the ways in which turns end.
Abort ==
    /\ meddling < MaxMeddling /\ meddling' = meddling + 1
    /\ connected /\ draft # None
    /\ draft' = None /\ discarded' = discarded \cup {draft}
    /\ UNCHANGED <<clientVars, connected, session, run, sending, queue, up, down, gatewayVars,
                   sockets, typed, failed, upset>>

RemoveQueued(m) ==
    /\ meddling < MaxMeddling /\ meddling' = meddling + 1
    /\ \E i \in DOMAIN queue : queue[i] = m /\ queue' = RemoveAt(queue, i)
    /\ discarded' = discarded \cup {m}
    /\ UNCHANGED <<clientVars, connected, session, run, sending, draft, up, down, gatewayVars,
                   sockets, typed, failed, upset>>

\* The selector above the chat forgets the run; the field of the overview does
\* not.  Neither touches the queue.
SwitchSession(s) ==
    /\ meddling < MaxMeddling /\ meddling' = meddling + 1
    /\ connected /\ s # session
    /\ session' = s
    /\ draft' = None /\ discarded' = discarded \cup ({draft} \ {None})
    /\ \/ run' = None /\ UNCHANGED upset
       \/ UNCHANGED run /\ upset' = upset \cup {"overview"}
    /\ UNCHANGED <<clientVars, connected, sending, queue, up, down, gatewayVars, sockets, typed,
                   failed>>

-----------------------------------------------------------------------------
(* What the browser is told                                                 *)

\* The close event: flushPending, onClose, scheduleReconnect
Closed ==
    /\ socket # "none"
    /\ socket' = "none" /\ retry' = TRUE /\ connected' = FALSE
    /\ up' = <<>> /\ down' = <<>>
    /\ turns' = {[t EXCEPT !.here = FALSE] : t \in turns}
    /\ IF sending.message # None THEN Failing
       ELSE UNCHANGED <<sending, run, failed, queue, draft, discarded>>
    /\ UNCHANGED <<connect, signing, session, accepted, counters, upset>>

\* connectGateway with other settings: a new client, the old one is stopped.
Reconnect ==
    /\ sockets < MaxSockets
    /\ sockets' = sockets + 1
    /\ socket' = "opening" /\ retry' = FALSE /\ connect' = "idle" /\ signing' = 0
    /\ connected' = FALSE /\ up' = <<>> /\ down' = <<>>
    /\ turns' = {[t EXCEPT !.here = FALSE] : t \in turns}
    /\ IF sending.message # None THEN Failing
       ELSE UNCHANGED <<sending, run, failed, queue, draft, discarded>>
    /\ UNCHANGED <<session, accepted, typed, meddling, upset>>

Arrives(kind) == down # <<>> /\ Head(down).kind = kind /\ down' = Tail(down)

\* onHello: whatever ran before the connection was lost is forgotten.
Hello ==
    /\ Arrives("hello")
    /\ connected' = TRUE /\ run' = None
    /\ UNCHANGED <<clientVars, session, sending, queue, draft, up, gatewayVars, counters,
                   historyVars>>

Refused ==
    /\ Arrives("refused")
    /\ socket' = IF socket = "open" THEN "closing" ELSE socket
    /\ UNCHANGED <<retry, connect, signing, hostVars, up, gatewayVars, counters,
                   historyVars>>

\* handleChatEvent and handleTerminalChatEvent: of another session, or of
\* another run than the one there is, it ends nothing.
Final ==
    /\ Arrives("final")
    /\ IF Head(down).session # session \/ run \notin {None, Head(down).message}
       THEN UNCHANGED <<sending, run, queue, up>>
       ELSE \/ /\ connected /\ sending.message = None /\ queue # <<>> /\ Flush(FALSE)
            \/ /\ ~(connected /\ sending.message = None /\ queue # <<>>)
               /\ run' = None /\ UNCHANGED <<sending, queue, up>>
    /\ UNCHANGED <<clientVars, connected, session, draft, gatewayVars, counters,
                   historyVars>>

\* Fault: the response is not waited for with what was written meanwhile
OkAlone ==
    /\ Arrives("ok")
    /\ sending' = Idle
    /\ UNCHANGED <<clientVars, connected, session, run, queue, draft, up, gatewayVars, counters,
                   historyVars>>

\* The response: sendChatMessageNow goes on, and flushes unless a run is left.
Ok ==
    /\ Arrives("ok")
    /\ IF run = None /\ connected /\ queue # <<>> THEN Flush(FALSE)
       ELSE sending' = Idle /\ UNCHANGED <<run, queue, up>>
    /\ UNCHANGED <<clientVars, connected, session, draft, gatewayVars, counters,
                   historyVars>>

Error ==
    /\ Arrives("error")
    /\ Failing
    /\ UNCHANGED <<clientVars, connected, session, up, gatewayVars, counters, upset>>

-----------------------------------------------------------------------------
(* The gateway: each request in a thread of its own                         *)

Reply(frame) == down' = Append(down, frame)

Receive ==
    /\ up # <<>> /\ up' = Tail(up)
    /\ LET f == Head(up) IN
       \/ /\ f.kind = "connect"
          /\ \E kind \in {"hello", "refused"} : Reply(Frame(kind, None, f.session))
          /\ UNCHANGED gatewayVars
       \/ /\ f.kind = "send"    \* a slash command, or a turn of the agent
          /\ Len(accepted) < MaxGiven
          /\ turns' = turns \cup {[message |-> f.message, session |-> f.session, ended |-> FALSE,
                                   here |-> TRUE]}
          /\ accepted' = Append(accepted, f.message)
          /\ UNCHANGED down
       \/ /\ f.kind = "send"    \* no handler thread is free
          /\ Reply(Frame("error", f.message, f.session))
          /\ UNCHANGED gatewayVars
    /\ UNCHANGED <<clientVars, hostVars, counters, historyVars>>

\* The end event of a turn; two if the answer was empty
EndEvent(t) ==
    /\ ~t.ended
    /\ turns' = (turns \ {t}) \cup {[t EXCEPT !.ended = TRUE]}
    /\ \/ down' = IF t.here THEN Append(down, Frame("final", t.message, t.session)) ELSE down
       \/ /\ t.here
          /\ LET end == Frame("final", t.message, t.session) IN down' = down \o <<end, end>>
    /\ UNCHANGED <<clientVars, hostVars, up, accepted, counters, historyVars>>

\* The response comes after the end event.  A slash command has none, nor has
\* an answer whose last chunk was dropped or never came; a turn that throws may.
Respond(t) ==
    /\ turns' = turns \ {t}
    /\ \/ /\ down' = IF t.here THEN Append(down, Frame("ok", t.message, t.session)) ELSE down
          /\ upset' = upset \cup (IF t.ended THEN {} ELSE {"muted"})
       \/ /\ down' = IF t.here THEN Append(down, Frame("error", t.message, t.session)) ELSE down
          /\ UNCHANGED upset
    /\ UNCHANGED <<clientVars, hostVars, up, accepted, counters, failed, discarded>>

Next ==
    \/ Open \/ Opened \/ SendConnect \/ Signed \/ Type \/ Submit \/ Abort
    \/ \E m \in Message : RemoveQueued(m)
    \/ \E s \in Session : SwitchSession(s)
    \/ Closed \/ Reconnect \/ Hello \/ Refused \/ Final \/ Ok \/ Error \/ Receive
    \/ \E t \in turns : EndEvent(t) \/ Respond(t)

Spec == Init /\ [][Next]_chatVars

-----------------------------------------------------------------------------
(* Properties                                                               *)

Among(s) == {s[i] : i \in DOMAIN s}

\* A client that is not connected is on its way to be.
NeverGivesUp == socket = "none" <=> retry

\* A request has no timeout: while one is open, its answer is still to come.
AnswerIsComing ==
    sending.message # None =>
        /\ socket # "none"
        /\ socket = "open" =>
             \/ \E f \in Among(up) : f.kind = "send" /\ f.message = sending.message
             \/ \E t \in turns : t.here /\ t.message = sending.message
             \/ \E f \in Among(down) : f.kind \in {"ok", "error"} /\ f.message = sending.message

\* What was written is somewhere: in the field, in the queue, in flight, at the
\* gateway, or removed in a way the code knows of.
NothingIsLost ==
    \A m \in 1..typed :
        m \in Among(queue) \cup Among(accepted) \cup discarded \cup {draft, sending.message}

\* The gateway is given a message twice only if the first request seemed to fail.
GivenOnce ==
    \A i, j \in DOMAIN accepted :
        i # j /\ accepted[i] = accepted[j] => accepted[i] \in failed

\* Messages reach the gateway in the order they were written, unless a request
\* failed or a run was left behind.
GivenInOrder ==
    \A i, j \in DOMAIN accepted :
        i < j /\ accepted[i] > accepted[j] => failed # {} \/ upset # {}

\* Once everything has been answered the chat is free and its queue empty,
\* unless a request failed or something left the run behind.
QueueMovesOn ==
    (connected /\ sending.message = None /\ up = <<>> /\ down = <<>>) =>
        /\ run # None => upset # {}
        /\ queue # <<>> => failed # {} \/ upset # {}

ChatAgrees ==
    NeverGivesUp /\ AnswerIsComing /\ NothingIsLost /\ GivenOnce /\ GivenInOrder /\ QueueMovesOn
================================================================================
