-------------------------------- MODULE WebTurns --------------------------------
(***************************************************************************)
(* Turns of one session that come over different ways at once: commands of *)
(* the queue (one at a time, by the lane of their session; the executor of *)
(* gateway_commands.cpp), and requests to the web API, plain or streaming  *)
(* (web/api_routes.cpp), which no lane orders.  Each appends its question  *)
(* to the transcript, reads the history it gives to the agent loop, and    *)
(* appends what came of it.  A job that a client runs (cron.run) is a turn *)
(* whose question is not written.                                          *)
(*                                                                         *)
(* The transcript is that of module SessionStore, without its files.       *)
(***************************************************************************)
EXTENDS Naturals, Sequences, FiniteSets, SequencesExt

CONSTANTS Ask,             \* turns, each with one question
          Limit,           \* how much history a turn is given
          MaxAnswers,      \* bound: messages a turn leaves
          MaxResets        \* bound

WebTurnsAssumption == Limit \in Nat \ {0} /\ {MaxAnswers, MaxResets} \subseteq Nat

VARIABLES transcript,      \* the session's messages: of which turn, and of what kind
          ask,             \* where each turn is, and the history it got
          past,            \* history: what the transcript held before the question
          disturbed,       \* history: another wrote between the two steps of a turn
          resets

webTurnVars == <<transcript, ask, past, disturbed, resets>>

Kinds == {"question", "answer"}
Said  == [of : Ask, kind : Kinds]
NewTurn == [stage |-> "idle", way |-> "none", given |-> <<>>]

TypeOK ==
    /\ transcript \in Seq(Said)
    /\ ask \in [Ask ->
         [stage : {"idle", "asked", "looked", "turn", "answering", "done"},
          way : {"none", "queue", "request", "stream", "job"}, given : Seq(Said)]]
    /\ past \in [Ask -> Seq(Said)]
    /\ disturbed \subseteq Ask
    /\ resets \in 0..MaxResets

Init ==
    /\ transcript = <<>>
    /\ ask = [a \in Ask |-> NewTurn]
    /\ past = [a \in Ask |-> <<>>]
    /\ disturbed = {}
    /\ resets = 0

Newest(n, messages) ==
    SubSeq(messages, (IF Len(messages) > n THEN Len(messages) - n ELSE 0) + 1, Len(messages))

\* Those whose question is in, or whose history is read, and the other not yet
Between == {a \in Ask : ask[a].stage \in {"asked", "looked"}}

Writes(a, kind) ==
    /\ transcript' = Append(transcript, [of |-> a, kind |-> kind])
    /\ disturbed' = disturbed \cup (Between \ {a})

-----------------------------------------------------------------------------
\* AppendMessage first: the queue's executor and /api/agent/request.  One
\* command of the queue runs at a time.
AskFirst(a) ==
    /\ ask[a].stage = "idle"
    /\ \E way \in {"queue", "request"} :
         /\ way = "queue" => ~\E b \in Ask : ask[b].way = "queue" /\ ask[b].stage # "done"
         /\ ask' = [ask EXCEPT ![a] = [@ EXCEPT !.stage = "asked", !.way = way]]
    /\ Writes(a, "question")
    /\ past' = [past EXCEPT ![a] = transcript]
    /\ UNCHANGED resets

\* Fault: the own question stays in
LookAll(a) ==
    /\ ask[a].stage = "asked"
    /\ ask' = [ask EXCEPT ![a] = [@ EXCEPT !.stage = "turn",
                                           !.given = Newest(Limit, transcript)]]
    /\ UNCHANGED <<transcript, past, disturbed, resets>>

\* ... GetHistory next, without its last message, which was the question.
ThenLook(a) ==
    /\ ask[a].stage = "asked"
    /\ ask' = [ask EXCEPT ![a] =
                [@ EXCEPT !.stage = "turn",
                          !.given = IF transcript = <<>> THEN <<>>
                                    ELSE Front(Newest(Limit, transcript))]]
    /\ UNCHANGED <<transcript, past, disturbed, resets>>

\* The other order: /api/agent/stream
LookFirst(a) ==
    /\ ask[a].stage = "idle"
    /\ ask' = [ask EXCEPT ![a] = [stage |-> "looked", way |-> "stream",
                                  given |-> Newest(Limit, transcript)]]
    /\ past' = [past EXCEPT ![a] = transcript]
    /\ UNCHANGED <<transcript, disturbed, resets>>

ThenAsk(a) ==
    /\ ask[a].stage = "looked"
    /\ Writes(a, "question")
    /\ ask' = [ask EXCEPT ![a].stage = "turn"]
    /\ UNCHANGED <<past, resets>>

\* cron.run: all of the history
RunJob(a) ==
    /\ ask[a].stage = "idle"
    /\ ask' = [ask EXCEPT ![a] = [stage |-> "turn", way |-> "job", given |-> transcript]]
    /\ past' = [past EXCEPT ![a] = transcript]
    /\ UNCHANGED <<transcript, disturbed, resets>>

\* ProcessMessage(Stream) returns, or throws: then nothing is appended.
TurnEnds(a) ==
    /\ ask[a].stage = "turn"
    /\ \E stage \in {"answering", "done"} :
         ask' = [ask EXCEPT ![a] = [NewTurn EXCEPT !.stage = stage, !.way = ask[a].way]]
    /\ past' = [past EXCEPT ![a] = <<>>]
    /\ UNCHANGED <<transcript, disturbed, resets>>

\* The new messages, one AppendMessage each
Answers(a) == Len(SelectSeq(transcript, LAMBDA m : m.of = a /\ m.kind = "answer"))
AppendAnswer(a) ==
    /\ ask[a].stage = "answering"
    /\ Writes(a, "answer")
    /\ \E stage \in {"answering", "done"} :
         /\ Answers(a) + 1 >= MaxAnswers => stage = "done"
         /\ ask' = [ask EXCEPT ![a].stage = stage]
    /\ UNCHANGED <<past, resets>>

\* ResetSession, by a client, at any moment
Reset ==
    /\ resets < MaxResets
    /\ resets' = resets + 1
    /\ transcript' = <<>>
    /\ disturbed' = disturbed \cup Between
    /\ UNCHANGED <<ask, past>>

Next ==
    \/ \E a \in Ask : \/ AskFirst(a) \/ ThenLook(a) \/ LookFirst(a) \/ ThenAsk(a)
                      \/ RunJob(a) \/ TurnEnds(a) \/ AppendAnswer(a)
    \/ Reset

Spec == Init /\ [][Next]_webTurnVars

-----------------------------------------------------------------------------
(* Properties                                                               *)

\* A turn is given the newest of what the session held before its question,
\* one message less by the ways that read the question back, unless another
\* turn or a reset wrote in between.  A stream, which does not read it back, is
\* never given its own question.
HistoryIsPast ==
    \A a \in Ask : ask[a].stage = "turn" =>
        IF ask[a].way \in {"stream", "job"}
        THEN /\ ask[a].given = IF ask[a].way = "job" THEN past[a] ELSE Newest(Limit, past[a])
             /\ \A i \in 1..Len(ask[a].given) : ask[a].given[i].of # a
        ELSE a \in disturbed \/ ask[a].given = Newest(Limit - 1, past[a])
=================================================================================
