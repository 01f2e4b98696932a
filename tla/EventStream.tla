------------------------------- MODULE EventStream -------------------------------
(***************************************************************************)
(* One response of the web API that streams (SseStream of                  *)
(* web/api_routes.cpp): a detached thread runs the turn and pushes chunks, *)
(* the last one being the terminal event; a thread of the HTTP server      *)
(* drains them into the socket, whose client may leave.                    *)
(*                                                                         *)
(* The HTTP library calls Drain again while it returns true, and sees      *)
(* between two calls that the client has gone.  A chunk is its number.     *)
(***************************************************************************)
EXTENDS Naturals, Sequences

CONSTANTS Size,            \* of each chunk in bytes; the last is the terminal event
          MaxQueuedBytes   \* kMaxQueuedBytes

StreamAssumption ==
    /\ Size \in Seq(Nat \ {0}) /\ Len(Size) > 0
    /\ MaxQueuedBytes \in Nat

VARIABLES chunks, bytes,   \* queued, and queued_bytes
          finished, dropped, cancelled,
          pusher,          \* the turn's thread: the next chunk, and its step
          drainer,         \* the server's thread, and the chunk in its hands
          peer,            \* the client
          route,           \* of the agent's own API or of the one for OpenAI's clients
          sent             \* history: chunks the client got

streamVars == <<chunks, bytes, finished, dropped, cancelled, pusher, drainer, peer, route, sent>>

Last == Len(Size)
SizeOf(queue) == LET f[i \in 0..Len(queue)] == IF i = 0 THEN 0 ELSE f[i - 1] + Size[queue[i]]
                 IN  f[Len(queue)]

TypeOK ==
    /\ chunks \in Seq(1..Last)
    /\ bytes \in Nat
    /\ finished \in BOOLEAN /\ dropped \in BOOLEAN /\ cancelled \in BOOLEAN
    /\ pusher \in [next : 1..(Last + 1), step : {"turn", "push", "over"}]
    /\ drainer \in [step : {"wait", "write", "loop", "again", "ended"}, chunk : 0..Last]
    /\ peer \in {"there", "gone"}
    /\ route \in {"agent", "openai"}
    /\ sent \in Seq(1..Last)

Init ==
    /\ chunks = <<>> /\ bytes = 0
    /\ finished = FALSE /\ dropped = FALSE /\ cancelled = FALSE
    /\ pusher = [next |-> 1, step |-> "turn"]
    /\ drainer = [step |-> "wait", chunk |-> 0]
    /\ peer = "there"
    /\ route \in {"agent", "openai"}
    /\ sent = <<>>

-----------------------------------------------------------------------------
(* The turn's thread                                                        *)

\* Push looks whether anybody wants more ...
LookAtCancelled ==
    /\ pusher.step = "turn" /\ pusher.next <= Last
    /\ pusher' = IF cancelled THEN [pusher EXCEPT !.next = @ + 1]
                 ELSE [pusher EXCEPT !.step = "push"]
    /\ UNCHANGED <<chunks, bytes, finished, dropped, cancelled, drainer, peer, route, sent>>

\* How many of the oldest chunks go when there is too much, one always stays.
Excess(queue) ==
    CHOOSE n \in 0..(Len(queue) - 1) :
        /\ n = Len(queue) - 1 \/ SizeOf(SubSeq(queue, n + 1, Len(queue))) <= MaxQueuedBytes
        /\ \A m \in 0..(n - 1) : SizeOf(SubSeq(queue, m + 1, Len(queue))) > MaxQueuedBytes

\* Fault: what is dropped stays on the account
PushForgetful ==
    /\ pusher.step = "push"
    /\ LET all  == Append(chunks, pusher.next)
           kept == SubSeq(all, Excess(all) + 1, Len(all))
       IN  /\ chunks' = kept
           /\ bytes' = bytes + Size[pusher.next]
           /\ dropped' = (dropped \/ Excess(all) > 0)
    /\ pusher' = [next |-> pusher.next + 1, step |-> "turn"]
    /\ UNCHANGED <<finished, cancelled, drainer, peer, route, sent>>

\* ... and pushes under the lock.
Push ==
    /\ pusher.step = "push"
    /\ LET all  == Append(chunks, pusher.next)
           kept == SubSeq(all, Excess(all) + 1, Len(all))
       IN  /\ chunks' = kept
           /\ bytes' = bytes + Size[pusher.next] - (SizeOf(all) - SizeOf(kept))
           /\ dropped' = (dropped \/ Excess(all) > 0)
    /\ pusher' = [next |-> pusher.next + 1, step |-> "turn"]
    /\ UNCHANGED <<finished, cancelled, drainer, peer, route, sent>>

\* A turn that fails goes on to an event that says so, which is the terminal
\* one; OpenAI's clients are told nothing.
TurnFails ==
    /\ pusher.step = "turn" /\ pusher.next < Last
    /\ pusher' = [pusher EXCEPT !.next = IF route = "agent" THEN Last ELSE Last + 1]
    /\ UNCHANGED <<chunks, bytes, finished, dropped, cancelled, drainer, peer, route, sent>>

Finish ==
    /\ pusher.step = "turn" /\ pusher.next = Last + 1
    /\ finished' = TRUE
    /\ pusher' = [pusher EXCEPT !.step = "over"]
    /\ UNCHANGED <<chunks, bytes, dropped, cancelled, drainer, peer, route, sent>>

-----------------------------------------------------------------------------
(* The server's thread: Drain                                               *)

\* The end of Drain: it is called again unless all has been said, or the client
\* was found gone.
AllSaid == drainer' = [step |-> IF finished \/ cancelled THEN "ended" ELSE "again", chunk |-> 0]

\* A chunk, or nothing within 30 s
TakeChunk ==
    /\ drainer.step \in {"wait", "loop"}
    /\ IF chunks # <<>>
       THEN /\ drainer' = [step |-> "write", chunk |-> Head(chunks)]
            /\ bytes' = bytes - Size[Head(chunks)]
            /\ chunks' = Tail(chunks)
       ELSE AllSaid /\ UNCHANGED <<chunks, bytes>>
    /\ UNCHANGED <<finished, dropped, cancelled, pusher, peer, route, sent>>

\* The lock is not held while the chunk is written.
Write ==
    /\ drainer.step = "write"
    /\ IF peer = "there"
       THEN /\ sent' = Append(sent, drainer.chunk)
            /\ drainer' = [step |-> "loop", chunk |-> 0]
            /\ UNCHANGED cancelled
       ELSE /\ cancelled' = TRUE
            /\ drainer' = [step |-> "ended", chunk |-> 0]
            /\ UNCHANGED sent
    /\ UNCHANGED <<chunks, bytes, finished, dropped, pusher, peer, route>>

\* The library, between two calls of Drain; the turn is not told.
CallAgain ==
    /\ drainer.step = "again"
    /\ drainer' = [drainer EXCEPT !.step = IF peer = "gone" THEN "ended" ELSE "wait"]
    /\ UNCHANGED <<chunks, bytes, finished, dropped, cancelled, pusher, peer, route, sent>>

ClientLeaves ==
    /\ peer = "there"
    /\ peer' = "gone"
    /\ UNCHANGED <<chunks, bytes, finished, dropped, cancelled, pusher, drainer, route, sent>>

TurnStep  == LookAtCancelled \/ Push \/ Finish
DrainStep == TakeChunk \/ Write \/ CallAgain

Next == TurnStep \/ TurnFails \/ DrainStep \/ ClientLeaves

Spec == Init /\ [][Next]_streamVars

\* Turns end, and the server's threads run.
Fairness == WF_streamVars(TurnStep) /\ WF_streamVars(DrainStep)

-----------------------------------------------------------------------------
(* Properties                                                               *)

\* The account of queued bytes is right, and within its limit or that of the
\* one chunk that is kept in any case, also when nobody drains any more.
QueueIsBounded ==
    /\ bytes = SizeOf(chunks)
    /\ bytes <= MaxQueuedBytes \/ Len(chunks) = 1

\* The client gets chunks in their order, and on the agent's own API a response
\* that has ended while he stayed ended with the terminal event, also when the
\* turn failed.
SentInOrder ==
    /\ \A i, j \in 1..Len(sent) : i < j => sent[i] < sent[j]
    /\ (drainer.step = "ended" /\ peer = "there" /\ route = "agent") =>
         sent # <<>> /\ sent[Len(sent)] = Last

\* Every response ends, also when its client leaves at any moment.
StreamsEnd == <>(drainer.step = "ended")
=================================================================================
