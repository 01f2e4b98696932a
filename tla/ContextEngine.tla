------------------------------ MODULE ContextEngine ------------------------------
(***************************************************************************)
(* What the agent loop sends to the model: the history of the session, cut *)
(* to its newest messages, compacted, pruned and guarded against the       *)
(* context window (core/default_context_engine.cpp, context_pruner.cpp),   *)
(* the question, then every exchange of tool calls and their results, and  *)
(* half of it all again whenever the provider finds it too long.           *)
(*                                                                         *)
(* A message is its kind, the question or exchange it belongs to and its   *)
(* size; a result is small, long (and shortened by soft_prune) or wide (as *)
(* long, in so few lines that soft_prune leaves it).  No summary function  *)
(* is ever installed, so that compaction drops messages.                   *)
(***************************************************************************)
EXTENDS Naturals, FiniteSets, Sequences, SequencesExt

CONSTANTS HistoryLimit,    \* of GetHistory
          CompactMaxMessages, CompactKeepRecent,
          ProtectRecent, HardPruneAfter,
          ContextWindow,   \* less the reserve and the tokens of the answer
          MaxChunkTokens, Parts,       \* of the multi-stage compaction
          MaxOverflow,
          MaxTurns, MaxExchanges       \* bounds

ContextAssumption ==
    /\ {HistoryLimit, CompactMaxMessages, CompactKeepRecent, ContextWindow, MaxChunkTokens,
        Parts, MaxOverflow, MaxTurns, MaxExchanges} \subseteq Nat
    /\ ProtectRecent \in Nat \ {0}
    /\ HardPruneAfter \in Nat /\ HardPruneAfter >= ProtectRecent

VARIABLES transcript,      \* messages of the turns that are over
          request,         \* what goes to the model; empty between turns
          news,            \* new_messages, and the question before them
          turns, exchanges, \* numbers of them so far
          overflows        \* of this turn

contextVars == <<transcript, request, news, turns, exchanges, overflows>>

Kinds == {"prompt", "note", "question", "calls", "results", "answer"}
Sizes == {"small", "long", "wide", "short", "omitted"}
Messages == [kind : Kinds, of : Nat, size : Sizes]

Of(kind, n) == [kind |-> kind, of |-> n, size |-> "small"]
Prompt == Of("prompt", 0)
Note   == Of("note", 0)

TypeOK ==
    /\ {transcript, request, news} \subseteq Seq(Messages)
    /\ turns \in 0..MaxTurns /\ exchanges \in 0..MaxExchanges
    /\ overflows \in 0..MaxOverflow

Init ==
    /\ transcript = <<>> /\ request = <<>> /\ news = <<>>
    /\ turns = 0 /\ exchanges = 0 /\ overflows = 0

\* Roles; a message of tool results is the user's.
IsUser(m)      == m.kind \in {"question", "results"}
IsAssistant(m) == m.kind \in {"calls", "answer"}
IsSystem(m)    == m.kind \in {"prompt", "note"}

\* EstimateTokens
Tokens(m) == CASE m.size \in {"long", "wide"} -> 3 [] m.size = "short" -> 2 [] OTHER -> 1
EstimateTokens(messages) == FoldSeq(LAMBDA m, sum : sum + Tokens(m), 0, messages)

Newest(n, messages) ==
    SubSeq(messages, (IF Len(messages) > n THEN Len(messages) - n ELSE 0) + 1, Len(messages))

-----------------------------------------------------------------------------
(* Prune                                                                    *)

Assistants(h) == {i \in DOMAIN h : IsAssistant(h[i])}

\* Where the n last messages of the assistant begin; 0 if there are no more
Threshold(h, n) ==
    IF Cardinality(Assistants(h)) > n
    THEN CHOOSE i \in Assistants(h) : Cardinality({j \in Assistants(h) : j >= i}) = n
    ELSE 0

\* The first message of the user, and what is before it, is left alone.
IsBootstrap(h, i) == \A j \in 1..(i - 1) : ~IsUser(h[j])

\* Fault: recent results are pruned with the old ones
PruneAll(h) ==
    [i \in DOMAIN h |->
       IF h[i].kind # "results" \/ IsBootstrap(h, i) THEN h[i]
       ELSE IF h[i].size = "long" THEN [h[i] EXCEPT !.size = "short"] ELSE h[i]]

Prune(h) ==
    LET protected == Threshold(h, ProtectRecent)
        hard      == Threshold(h, HardPruneAfter)
    IN  [i \in DOMAIN h |->
           IF h[i].kind # "results" \/ i >= protected \/ IsBootstrap(h, i) THEN h[i]
           ELSE IF i < hard          THEN [h[i] EXCEPT !.size = "omitted"]
           ELSE IF h[i].size = "long" THEN [h[i] EXCEPT !.size = "short"]
           ELSE h[i]]

-----------------------------------------------------------------------------
(* Assemble and CompactOverflow                                             *)

AutoCompact(h) ==
    IF Len(h) > CompactMaxMessages /\ Len(h) > CompactKeepRecent
    THEN <<Note>> \o Newest(CompactKeepRecent, h) ELSE h

Guard(context) ==
    IF EstimateTokens(context) > ContextWindow /\ CompactKeepRecent < Len(context)
    THEN <<Prompt, Note>> \o Newest(CompactKeepRecent, context) ELSE context

Assemble(h, question) ==
    Guard(<<Prompt>> \o Prune(AutoCompact(h)) \o <<question>>)

\* Fault: half is kept, and the oldest half at that
CompactFromTheFront(messages) ==
    LET half == Len(messages) \div 2
    IN  <<Prompt, Note>> \o SubSeq(messages, 1, IF half > 2 THEN half ELSE 2)

\* Called with 0 to keep: half of the messages, two at least
CompactOverflow(messages) ==
    LET half == Len(messages) \div 2
    IN  <<Prompt, Note>> \o Newest(IF half > 2 THEN half ELSE 2, messages)

-----------------------------------------------------------------------------
(* What the local model server is sent                                      *)

\* The messages of a turn's request have text, or calls, or results.
Entry(m, role) == [role |-> role, plain |-> m.kind \notin {"calls", "results"}, of |-> <<m>>]

\* Only the first message may be the system's.
Entries(messages) ==
    [i \in DOMAIN messages |->
       LET m == messages[i] IN
       Entry(m, CASE m.kind = "results" -> "tool"
                  [] IsAssistant(m)     -> "assistant"
                  [] IsSystem(m) /\ i = 1 -> "system"
                  [] OTHER -> "user")]

\* Fault: messages are merged by the role they had before
SerializeEarly(messages) ==
    FoldLeft(LAMBDA out, i :
               LET e == Entries(messages)[i] IN
               IF /\ out # <<>> /\ e.plain /\ Last(out).plain
                  /\ Last(Last(out).of).kind = messages[i].kind
               THEN Append(Front(out), [Last(out) EXCEPT !.of = @ \o e.of])
               ELSE Append(out, e),
             <<>>, [i \in DOMAIN messages |-> i])

\* SerializeMessages: text of the same role that follows itself is merged.
SerializeMessages(messages) ==
    FoldLeft(LAMBDA out, e :
               IF out # <<>> /\ e.plain /\ Last(out).plain /\ e.role = Last(out).role
               THEN Append(Front(out), [Last(out) EXCEPT !.of = @ \o e.of])
               ELSE Append(out, e),
             <<>>, Entries(messages))

-----------------------------------------------------------------------------
(* Turns                                                                    *)

Begin ==
    /\ request = <<>> /\ turns < MaxTurns
    /\ turns' = turns + 1
    /\ LET question == Of("question", turns + 1) IN
       /\ news' = <<question>>
       /\ request' = Assemble(Newest(HistoryLimit - 1, transcript), question)
    /\ overflows' = 0
    /\ UNCHANGED <<transcript, exchanges>>

\* The model calls tools: the calls and their results go into the request.
Exchange ==
    /\ request # <<>> /\ exchanges < MaxExchanges
    /\ exchanges' = exchanges + 1
    /\ \E size \in {"small", "long", "wide"} :
         LET added == <<Of("calls", exchanges + 1),
                        [Of("results", exchanges + 1) EXCEPT !.size = size]>>
         IN  request' = request \o added /\ news' = news \o added
    /\ UNCHANGED <<transcript, turns, overflows>>

\* handle_provider_error
Overflows ==
    /\ request # <<>> /\ overflows < MaxOverflow
    /\ overflows' = overflows + 1
    /\ request' = CompactOverflow(request)
    /\ UNCHANGED <<transcript, news, turns, exchanges>>

\* The answer is kept with all that led to it.
Answer ==
    /\ request # <<>>
    /\ transcript' = transcript \o Append(news, Of("answer", turns))
    /\ request' = <<>> /\ news' = <<>> /\ overflows' = 0
    /\ UNCHANGED <<turns, exchanges>>

\* The turn throws: only its question is in the transcript.
Fail ==
    /\ request # <<>>
    /\ transcript' = Append(transcript, news[1])
    /\ request' = <<>> /\ news' = <<>> /\ overflows' = 0
    /\ UNCHANGED <<turns, exchanges>>

Next == Begin \/ Exchange \/ Overflows \/ Answer \/ Fail

Spec == Init /\ [][Next]_contextVars

-----------------------------------------------------------------------------
(* Multi-stage compaction: how a history is divided                         *)

\* ChunkByMaxTokens: a chunk ends before the message it has no room for; without a
\* limit everything is one chunk.
ChunkByMaxTokens(messages, max) ==
    IF messages # <<>> /\ max = 0 THEN <<messages>>
    ELSE FoldLeft(LAMBDA chunks, m :
                    IF chunks = <<>> \/ EstimateTokens(Last(chunks)) + Tokens(m) > max
                    THEN Append(chunks, <<m>>)
                    ELSE Append(Front(chunks), Append(Last(chunks), m)),
                  <<>>, messages)

\* SplitByTokenShare: a part ends with the message that fills its share; a single
\* part, or what is empty, is not divided.
SplitByTokenShare(messages, parts) ==
    IF parts <= 1 \/ messages = <<>> THEN <<messages>>
    ELSE LET share == LET s == EstimateTokens(messages) \div parts IN IF s > 1 THEN s ELSE 1
         IN  FoldLeft(LAMBDA result, m :
                        IF \/ result = <<>>
                           \/ EstimateTokens(Last(result)) >= share /\ Len(result) < parts
                        THEN Append(result, <<m>>)
                        ELSE Append(Front(result), Append(Last(result), m)),
                      <<>>, messages)

-----------------------------------------------------------------------------
(* Properties                                                               *)

Sent == SelectSeq(request, LAMBDA m : ~IsSystem(m))
Same(m, n) == m.kind = n.kind /\ m.of = n.of

\* Whatever has been cut: the request begins with the system prompt, and what
\* follows the system messages is the newest part of the conversation, in its
\* order and with nothing missing in between.
RequestIsNewest ==
    request # <<>> =>
      LET all  == transcript \o news
          from == Len(all) - Len(Sent)
          head == Len(request) - Len(Sent)
      IN  /\ request[1] = Prompt
          /\ \A i \in 1..head : IsSystem(request[i])
          /\ from >= 0 /\ \A i \in DOMAIN Sent : Same(Sent[i], all[from + i])

\* Calls are never without their results, and results without their calls only
\* where the conversation was cut, at its beginning.
PairsAreWhole ==
    \A i \in DOMAIN Sent :
      /\ Sent[i].kind = "calls" =>
           i < Len(Sent) /\ Same(Sent[i + 1], Of("results", Sent[i].of))
      /\ (Sent[i].kind = "results" /\ i > 1) => Same(Sent[i - 1], Of("calls", Sent[i].of))

\* The model is asked the question of the turn; only a provider that finds the
\* request too long after an exchange of this turn can make it disappear.
QuestionIsKept ==
    (request # <<>> /\ (overflows = 0 \/ Len(news) = 1)) =>
        \E i \in DOMAIN Sent : Same(Sent[i], news[1])

\* What was pruned is old: enough messages of the assistant come after it, and
\* nothing of the turn itself is pruned.
PrunedIsOld ==
    \A i \in DOMAIN Sent :
      LET later == Cardinality({j \in Assistants(Sent) : j > i}) IN
      /\ Sent[i].size \in {"short", "omitted"} => later >= ProtectRecent
      /\ Sent[i].size = "omitted" => later >= HardPruneAfter
      /\ \A j \in DOMAIN news : Same(Sent[i], news[j]) => Sent[i] = news[j]

\* Dividing a history loses nothing and keeps its order.  Chunks keep within
\* their limit, a single message excepted, and no two could have been one; a limit
\* of 0 is none.  The parts are no more than asked for, or one, and none is empty
\* but the single part of an empty history.
DivisionIsExact ==
    /\ \A max \in {0, MaxChunkTokens} :
         LET chunks == ChunkByMaxTokens(transcript, max) IN
         /\ FlattenSeq(chunks) = transcript
         /\ max = 0 => Len(chunks) <= 1
         /\ max > 0 => \A i \in DOMAIN chunks :
              /\ EstimateTokens(chunks[i]) <= max \/ Len(chunks[i]) = 1
              /\ i > 1 => EstimateTokens(chunks[i - 1]) + Tokens(chunks[i][1]) > max
    /\ \A parts \in 0..Parts :
         LET split == SplitByTokenShare(transcript, parts) IN
         /\ FlattenSeq(split) = transcript
         /\ Len(split) \in 1..(IF parts > 1 THEN parts ELSE 1)
         /\ \A i \in DOMAIN split : split[i] = <<>> => transcript = <<>>

\* What is sent is the whole request in its order; the system speaks first or
\* not at all, and no one speaks twice in a row.
TurnsAlternate ==
    LET sent == SerializeMessages(request) IN
    /\ FlattenSeq([i \in DOMAIN sent |-> sent[i].of]) = request
    /\ \A i \in DOMAIN sent : i > 1 =>
         /\ sent[i].role # "system"
         /\ sent[i].plain /\ sent[i - 1].plain => sent[i].role # sent[i - 1].role

ContextAgrees ==
    TurnsAlternate /\ RequestIsNewest /\ PairsAreWhole /\ QuestionIsKept /\ PrunedIsOld /\ DivisionIsExact
=================================================================================
