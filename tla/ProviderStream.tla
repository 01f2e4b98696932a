----------------------------- MODULE ProviderStream -----------------------------
(***************************************************************************)
(* A streaming call of a provider: the server's lines reach the write      *)
(* callback of libcurl cut anywhere, and are put together again, line by   *)
(* line, text being passed on at once and tool calls when they are         *)
(* complete (providers/anthropic_provider.cppm, llama_provider.cppm).      *)
(*                                                                         *)
(* An answer is a sequence of blocks, each in a number of pieces.  A line  *)
(* is two symbols and its end, so that a cut can fall within it, between   *)
(* lines, and between the carriage return and the line feed.               *)
(***************************************************************************)
EXTENDS Naturals, FiniteSets, Sequences, SequencesExt

CONSTANTS MaxBlocks, MaxPieces, Cuts    \* bounds: of an answer, and how many symbols come at once

Provider == {"anthropic", "llama"}
Block    == [kind : {"text", "thinking", "call"}, pieces : 1..MaxPieces]
Answers  == UNION {[1..n -> Block] : n \in 0..MaxBlocks}
Status   == {400, 401, 429, 500}
Bodies   == {"context", "billing", "rate", "other"}
Kinds    == {"context_overflow", "billing_error", "rate_limit", "auth_error",
             "transient", "unknown"}

VARIABLES provider,
          answer,        \* what the server means to say
          refusal,       \* or the status and body of its refusal
          unsent,        \* symbols still with the server
          buffer,        \* symbols of the line that is not complete
          parser,        \* event_type, and the calls that are pending
          said,          \* chunks the callback was given
          outcome        \* of curl_easy_perform, and of the call

streamVars == <<provider, answer, refusal, unsent, buffer, parser, said, outcome>>

Accepted == [status |-> 200, body |-> "other", newline |-> FALSE]
Chunk(kind, of) == [kind |-> kind, of |-> of]

TypeOK ==
    /\ provider \in Provider /\ answer \in Answers
    /\ refusal \in [status : Status, body : Bodies, newline : BOOLEAN] \cup {Accepted}
    /\ parser.event \in {"none", "content_block_start", "content_block_delta", "message_stop"}
    /\ \A c \in DOMAIN said : said[c].kind \in {"text", "thinking", "calls", "end"}
    /\ outcome \in {"open", "returned", "timed_out", "failed"} \cup Kinds

-----------------------------------------------------------------------------
(* The server                                                               *)

Line(tag, type, block, piece, kind) ==
    [tag |-> tag, type |-> type, block |-> block, piece |-> piece, kind |-> kind]
Blank == Line("blank", "none", 0, 0, "none")

AnthropicEvent(type, block, piece, kind) ==
    <<Line("event", type, 0, 0, "none"), Line("data", type, block, piece, kind), Blank>>

AnthropicLines(a) ==
    FlattenSeq([b \in DOMAIN a |->
        AnthropicEvent("content_block_start", b, 0, a[b].kind) \o
        FlattenSeq([p \in 1..a[b].pieces |->
                      AnthropicEvent("content_block_delta", b, p, a[b].kind)])])
    \o AnthropicEvent("message_stop", 0, 0, "none")

\* The local server may send the pieces of several blocks in turn.
LlamaPieces(a, inTurn) ==
    LET Data(b, p) == <<Line("data", "delta", b, p, a[b].kind), Blank>>
        Round(p) == FlattenSeq([b \in DOMAIN a |-> IF p <= a[b].pieces THEN Data(b, p) ELSE <<>>])
    IN  IF inTurn THEN FlattenSeq([p \in 1..MaxPieces |-> Round(p)])
        ELSE FlattenSeq([b \in DOMAIN a |->
                           FlattenSeq([p \in 1..a[b].pieces |-> Data(b, p)])])

LlamaLines(a, inTurn) ==
    LET reason == IF \E b \in DOMAIN a : a[b].kind = "call" THEN "tool_calls" ELSE "stop"
    IN  LlamaPieces(a, inTurn) \o <<Line("data", reason, 0, 0, "none"), Blank,
                                    Line("data", "[DONE]", 0, 0, "none"), Blank>>

\* Symbols of a line; a blank one is its end only
Symbols(line, crlf) ==
    LET at(part) == [line |-> line, part |-> part] IN
    (IF line = Blank THEN <<>> ELSE <<at("head"), at("tail")>>)
    \o (IF crlf THEN <<at("cr")>> ELSE <<>>) \o <<at("lf")>>

Bytes(lines, crlf) == FlattenSeq([i \in DOMAIN lines |-> Symbols(lines[i], crlf)])

\* The body of a refusal is one line, ended or not.
BodyBytes(r) ==
    LET all == Symbols(Line("body", "none", 0, 0, "none"), FALSE)
    IN  IF r.newline THEN all ELSE Front(all)

Init ==
    /\ provider \in Provider
    /\ \/ /\ refusal = Accepted
          /\ answer \in Answers
          /\ \E crlf, inTurn \in BOOLEAN :
               unsent = Bytes(IF provider = "llama" THEN LlamaLines(answer, inTurn)
                              ELSE AnthropicLines(answer), crlf)
       \/ /\ answer = <<>>
          /\ refusal \in [status : Status, body : Bodies, newline : BOOLEAN]
          /\ unsent = BodyBytes(refusal)
    /\ buffer = <<>> /\ said = <<>> /\ outcome = "open"
    /\ parser = [event |-> "none", pending |-> <<>>]

-----------------------------------------------------------------------------
(* The parsers                                                              *)

\* Pending calls, by the block they came in: pieces of arguments so far
AddPiece(pending, b, p) ==
    IF \E i \in DOMAIN pending : pending[i][1] = b
    THEN [i \in DOMAIN pending |->
            IF pending[i][1] = b THEN <<b, Append(pending[i][2], p)>> ELSE pending[i]]
    ELSE Append(pending, <<b, <<p>>>>)

\* The calls leave in one chunk; the local parser keeps them in a hash map.
Calls(pending) == IF pending = <<>> THEN <<>> ELSE <<Chunk("calls", ToSet(pending))>>

End == <<Chunk("end", {})>>

\* s: event, pending, and the chunks given to the callback.  An event without
\* a branch of its own, a thinking delta among them, is passed over.
AnthropicLine(s, line) ==
    CASE line.tag = "event" -> [s EXCEPT !.event = line.type]
      [] line.tag = "data" /\ s.event = "content_block_start" /\ line.kind = "call" ->
           [s EXCEPT !.pending = Append(@, <<line.block, <<>>>>)]
      [] line.tag = "data" /\ s.event = "content_block_delta" /\ line.kind = "text" ->
           [s EXCEPT !.out = Append(@, Chunk("text", {<<line.block, <<line.piece>>>>}))]
      [] line.tag = "data" /\ s.event = "content_block_delta" /\ line.kind = "call"
         /\ s.pending # <<>> ->
           [s EXCEPT !.pending = Append(Front(@), <<Last(@)[1], Append(Last(@)[2], line.piece)>>)]
      [] line.tag = "data" /\ s.event = "message_stop" ->
           [s EXCEPT !.pending = <<>>, !.out = @ \o Calls(s.pending) \o End]
      [] OTHER -> s

LlamaLine(s, line) ==
    CASE line.tag = "data" /\ line.type = "[DONE]" ->
           [s EXCEPT !.pending = <<>>, !.out = @ \o Calls(s.pending) \o End]
      [] line.tag = "data" /\ line.type = "delta" /\ line.kind = "call" ->
           [s EXCEPT !.pending = AddPiece(@, line.block, line.piece)]
      [] line.tag = "data" /\ line.type = "tool_calls" ->
           [s EXCEPT !.pending = <<>>, !.out = @ \o Calls(s.pending)]
      [] line.tag = "data" /\ line.type = "delta" /\ line.kind \in {"text", "thinking"} ->
           [s EXCEPT !.out = Append(@, Chunk(line.kind, {<<line.block, <<line.piece>>>>}))]
      [] OTHER -> s

\* What is before a line feed, less a carriage return; only a whole line means
\* anything, half a line is not even JSON.
Read(s, symbols) ==
    LET text == SelectSeq(symbols, LAMBDA x : x.part # "cr") IN
    IF Len(text) = 2 /\ text[1].part = "head" /\ text[2].part = "tail"
       /\ text[1].line = text[2].line
    THEN IF provider = "llama" THEN LlamaLine(s, text[1].line)
         ELSE AnthropicLine(s, text[1].line)
    ELSE s

Ends(symbols) == {i \in DOMAIN symbols : symbols[i].part = "lf"}
LastEnd(symbols) ==
    IF Ends(symbols) = {} THEN 0 ELSE CHOOSE i \in Ends(symbols) : \A j \in Ends(symbols) : j <= i

\* Every complete line of the symbols, in turn
Lines(symbols) ==
    FoldLeft(LAMBDA a, x : IF x.part = "lf" THEN [done |-> Append(a.done, a.open), open |-> <<>>]
                           ELSE [a EXCEPT !.open = Append(@, x)],
             [done |-> <<>>, open |-> <<>>], symbols).done

\* Fault: the line that is not complete is dropped
KeepNothing(symbols) == <<>>

Rest(symbols) == SubSeq(symbols, LastEnd(symbols) + 1, Len(symbols))

\* The write callback; libcurl calls it with some of the bytes.
Write(n) ==
    /\ outcome = "open" /\ n <= Len(unsent)
    /\ unsent' = SubSeq(unsent, n + 1, Len(unsent))
    /\ LET all == buffer \o SubSeq(unsent, 1, n)
           s == FoldLeft(Read, [event |-> parser.event, pending |-> parser.pending, out |-> said],
                         Lines(all))
       IN  /\ buffer' = Rest(all)
           /\ parser' = [event |-> s.event, pending |-> s.pending]
           /\ said' = s.out
    /\ UNCHANGED <<provider, answer, refusal, outcome>>

-----------------------------------------------------------------------------
(* The end of the call                                                      *)

\* ClassifyHttpError, for the statuses of the model; the body decides for 400.
ClassifyHttpError(status, body) ==
    CASE status = 429 -> "rate_limit"
      [] status = 401 -> "auth_error"
      [] status = 500 -> "transient"
      [] OTHER -> CASE body = "billing" -> "billing_error"
                    [] body = "context" -> "context_overflow"
                    [] body = "rate"    -> "rate_limit"
                    [] OTHER            -> "unknown"

\* What is left of the body by then: of a stream of Anthropic's nothing, and
\* of the local server's the line that was not ended.
BodySeen == IF provider = "llama" /\ buffer # <<>> THEN refusal.body ELSE "other"

\* The connection is closed, before the end of the answer perhaps, or fails.
Close ==
    /\ outcome = "open" /\ (refusal # Accepted => unsent = <<>>)
    /\ outcome' = IF refusal = Accepted THEN "returned"
                  ELSE ClassifyHttpError(refusal.status, BodySeen)
    /\ UNCHANGED <<provider, answer, refusal, unsent, buffer, parser, said>>

\* The two are told by their CURLcode.
Fail ==
    /\ outcome = "open"
    /\ outcome' \in {"timed_out", "failed"}
    /\ UNCHANGED <<provider, answer, refusal, unsent, buffer, parser, said>>

Next == (\E n \in Cuts : Write(n)) \/ Close \/ Fail

Spec == Init /\ [][Next]_streamVars

-----------------------------------------------------------------------------
(* Properties                                                               *)

\* What the caller should be given: the text in its order, then every call with
\* its whole arguments, then the end.  Anthropic's thinking is not passed on.
Meant ==
    LET pieces == FlattenSeq([b \in DOMAIN answer |->
                    [p \in 1..answer[b].pieces |-> Chunk(answer[b].kind, {<<b, <<p>>>>})]])
        calls == {<<b, [p \in 1..answer[b].pieces |-> p]>> :
                    b \in {c \in DOMAIN answer : answer[c].kind = "call"}}
        shown == SelectSeq(pieces, LAMBDA c : \/ c.kind = "text"
                                              \/ c.kind = "thinking" /\ provider = "llama")
    IN  shown \o (IF calls = {} THEN <<>> ELSE <<Chunk("calls", calls)>>) \o End

\* However the bytes are cut: nothing is said twice, cut short or merged.  An
\* answer that came to its end has been passed on as a whole, and one that did
\* not has had none of its calls passed on in part.  (Pieces sent in turn may
\* change their order among blocks.)
SaidIsMeant ==
    refusal = Accepted =>
        /\ ToSet(said) \subseteq ToSet(Meant) /\ Len(said) = Cardinality(ToSet(said))
        /\ unsent = <<>> /\ outcome = "open" => ToSet(said) = ToSet(Meant)
        /\ \A i, j \in DOMAIN said :
             i < j => /\ said[i].kind # "end"
                      /\ said[i].kind = "calls" => said[j].kind = "end"
                      /\ \A u \in said[i].of, v \in said[j].of :
                           u[1] = v[1] /\ said[i].kind = said[j].kind => u[2][1] < v[2][1]

\* The caller is told that the stream has ended only if it was told everything.
EndMeansAll ==
    (\E i \in DOMAIN said : said[i].kind = "end") => ToSet(said) = ToSet(Meant)

\* A refusal is called what it is, unless only its body says so and the stream
\* has used the body up: then it is "unknown".  Nothing is said in any case.
RefusalIsNamed ==
    refusal # Accepted =>
        /\ said = <<>>
        /\ outcome \in Kinds =>
             \/ outcome = ClassifyHttpError(refusal.status, refusal.body)
             \/ /\ outcome = "unknown" /\ refusal.status = 400
                /\ provider = "anthropic" \/ refusal.newline

StreamAgrees == SaidIsMeant /\ EndMeansAll /\ RefusalIsNamed
=================================================================================
