------------------------------ MODULE Answers ------------------------------
(***************************************************************************)
(* How an answer of the model is recorded.  The backend sends it as one     *)
(* body or as a stream of events, in either API's format; the proxy copies  *)
(* what it receives (responseCapture), takes the observation out of a whole *)
(* body (the non-streaming half of proxy/internal/proxy/obs.go) and parses  *)
(* its copy for the log (ParseAnthropicOutput and ParseOpenAIOutput of      *)
(* proxy/internal/logger/parse.go).  A respond node of the agent does the   *)
(* same as the response passes (streamLogger and parseNonStreamResponse of  *)
(* agent/internal/agent/executor.go).                                       *)
(*                                                                          *)
(* An answer is a sequence of content blocks.  Events are what the parsers  *)
(* decode from a data: line.  How a stream is cut for the client is         *)
(* ObsStream's matter; of it is taken over that the promise ObsStrip states *)
(* is kept when the pieces of text are long enough, and nothing otherwise.  *)
(***************************************************************************)
EXTENDS TagText, FiniteSets

CONSTANTS
  Char,        \* the characters of texts and of arguments
  OpenTag, CloseTag, Space,   \* as in ObsStream
  Braces,      \* "{}", the input of a tool call without arguments
  Answer,      \* the answers the backend may give
  MaxPiece,    \* bound on the text of one event
  MaxNoise     \* bound on the events the parsers do not look at

Kinds == {"text", "thinking", "tool"}
Block == [kind : Kinds, text : Seq(Char)]
Call == [id : Nat, args : Seq(Char)]

ASSUME TagAssumption ==
  OpenTag \in Seq(Char) \ {<< >>} /\ CloseTag \in Seq(Char) \ {<< >>}
ASSUME AnswerAssumption == Answer \subseteq Seq(Block) /\ Braces \in Seq(Char)
ASSUME BoundsAssumption == MaxPiece \in Nat /\ MaxNoise \in Nat

VARIABLES
  format, stream,   \* of the request
  answer,           \* what the model answers
  progress,         \* of each block: nothing sent (-1), or how much text
  wire,             \* the events received so far, responseCapture.buf
  noise,            \* how many of them say nothing
  accum,            \* what streamLogger has accumulated
  lineBuf,          \* the event it has not read to the end of its line yet
  phase,            \* "open", "complete", "broken"
  client,           \* the body written to the client
  summary,          \* what obsCapture.Finalize returned
  logged, recorded  \* the output in the proxy's log, in the agent's

backend == << format, stream, answer >>
ends == << client, summary, logged, recorded >>
vars == << backend, progress, wire, noise, accum, lineBuf, phase, ends >>

\* The text of the blocks of a kind, one after the other.
OfKind(blocks, kind, i) == IF blocks[i].kind = kind THEN blocks[i].text ELSE << >>
TextOf(blocks, kind) == FlattenSeq([i \in DOMAIN blocks |-> OfKind(blocks, kind, i)])

\* The element of a set of numbers that has k smaller ones there.
Rank(set, i) == Cardinality({j \in set : j < i})
Ranked(set, k) == CHOOSE i \in set : Rank(set, i) = k

\* The positions of the tool calls, and a block's index among them (from 0).
ToolsOf(blocks) == {i \in DOMAIN blocks : blocks[i].kind = "tool"}
IndexOf(blocks, i) == Rank(ToolsOf(blocks), i)

----------------------------------------------------------------------------
(* OutputLog, and its tool calls as they accumulate by index                *)

Output(content, reasoning, calls) ==
  [content |-> content, reasoning |-> reasoning, calls |-> calls]
NoOutput == Output(<< >>, << >>, << >>)

NoCalls == [i \in {} |-> << >>]
Nothing == Output(<< >>, << >>, NoCalls)

\* sortedToolCalls.
Sorted(calls) ==
  [k \in 1..Cardinality(DOMAIN calls) |-> calls[Ranked(DOMAIN calls, k - 1)]]

\* The calls with one of that index: a new one has the id and no arguments yet.
Begin(calls, index, id) ==
  [k \in DOMAIN calls \cup {index} |->
     IF k \in DOMAIN calls THEN calls[k] ELSE [id |-> id, args |-> << >>]]

MoreArgs(calls, index, args) == [calls EXCEPT ![index].args = @ \o args]

\* One piece of a call: the first of its index brings the id.  (Mutant: the
\* arguments go to the call of the last index.)
AddToLast(calls, piece) ==
  LET known == Begin(calls, piece.index, piece.id)
  IN  MoreArgs(known, Max(DOMAIN known), piece.args)
AddPiece(calls, piece) ==
  MoreArgs(Begin(calls, piece.index, piece.id), piece.index, piece.args)

\* parseOpenAISSE and accumOpenAIChunk, one chunk.
AddChunk(acc, e) ==
  Output(acc.content \o e.content, acc.reasoning \o e.reasoning,
         FoldLeft(AddPiece, acc.calls, e.calls))

\* parseAnthropicSSE and accumAnthropicChunk, one event: a call gets the index
\* after the last one, and arguments go to the call started last.
AddEvent(acc, e) ==
  LET last == Cardinality(DOMAIN acc.calls) - 1 IN
  IF e.type = "start" /\ e.kind = "tool"
  THEN [acc EXCEPT !.calls = Begin(@, last + 1, e.id)]
  ELSE IF e.type # "delta" THEN acc
  ELSE IF e.kind = "text" THEN [acc EXCEPT !.content = @ \o e.text]
  ELSE IF e.kind = "thinking" THEN [acc EXCEPT !.reasoning = @ \o e.text]
  ELSE IF last >= 0 THEN [acc EXCEPT !.calls = MoreArgs(@, last, e.text)]
  ELSE acc

Add(acc, e) == IF format = "anthropic" THEN AddEvent(acc, e) ELSE AddChunk(acc, e)
Flush(acc) == [acc EXCEPT !.calls = Sorted(@)]

ParseStream(events) == Flush(FoldLeft(Add, Nothing, events))

\* streamLogger at the end of its input: what is left in lineBuf is a line
\* too.  (Mutant: it is dropped.)
FlushWhole(acc, line) == Flush(acc)
FlushToLog(acc, line) == Flush(FoldLeft(Add, acc, line))

\* parseAnthropicJSON: blocks; parseOpenAIJSON: a message, which is an output.
InputOf(block) == IF block.text = << >> THEN Braces ELSE block.text
CallsOf(blocks, args(_)) ==
  [k \in 1..Cardinality(ToolsOf(blocks)) |->
     LET i == Ranked(ToolsOf(blocks), k - 1) IN [id |-> i, args |-> args(blocks[i])]]
ParseBlocks(blocks) ==
  Output(TextOf(blocks, "text"), TextOf(blocks, "thinking"), CallsOf(blocks, InputOf))
MessageOf(blocks) ==
  Output(TextOf(blocks, "text"), TextOf(blocks, "thinking"),
         CallsOf(blocks, LAMBDA b : b.text))

ParseBody(body) == IF format = "anthropic" THEN ParseBlocks(body) ELSE body
Body == IF format = "anthropic" THEN answer ELSE MessageOf(answer)

----------------------------------------------------------------------------
(* finalizeNonStreaming: the observation of a whole body                    *)

\* strings.TrimRight(text, "\n ").
TrimRight(text) ==
  LET ink == {i \in DOMAIN text : text[i] \notin Space}
  IN  IF ink = {} THEN << >> ELSE SubSeq(text, 1, Max(ink))

CutText(text) == IF Occurs(text, OpenTag) THEN TrimRight(Before(text, OpenTag)) ELSE text
Captured(text) == TrimSpace(Before(After(text, OpenTag), CloseTag), Space)

\* The text blocks with a tag, of which only the first is treated.  (Mutant:
\* blocks of any kind.)
AnyTagged(blocks) == {i \in DOMAIN blocks : Occurs(blocks[i].text, OpenTag)}
Tagged(blocks) ==
  {i \in DOMAIN blocks : blocks[i].kind = "text" /\ Occurs(blocks[i].text, OpenTag)}

StripBlocks(blocks) ==
  IF Tagged(blocks) = {} THEN blocks
  ELSE [blocks EXCEPT ![Min(Tagged(blocks))].text = CutText(@)]
BlocksObs(blocks) ==
  IF Tagged(blocks) = {} THEN << >> ELSE Captured(blocks[Min(Tagged(blocks))].text)

StripBody(body) ==
  IF format = "anthropic" THEN StripBlocks(body)
  ELSE [body EXCEPT !.content = CutText(@)]
BodyObs(body) ==
  IF format = "anthropic" THEN BlocksObs(body) ELSE Captured(body.content)

----------------------------------------------------------------------------
(* The backend sends the answer                                             *)

Init ==
  /\ format \in {"anthropic", "openai"} /\ stream \in BOOLEAN
  /\ answer \in Answer
  /\ progress = [i \in DOMAIN answer |-> -1]
  /\ wire = << >> /\ noise = 0 /\ accum = Nothing /\ lineBuf = << >>
  /\ phase = "open"
  /\ client = << >> /\ summary = << >> /\ logged = NoOutput /\ recorded = NoOutput

Done(i) == progress[i] = Len(answer[i].text)

\* Content blocks come one after the other.  Only the pieces of several calls
\* may alternate in the OpenAI format, in which they carry their index.
MaySend(i) ==
  \A j \in 1..(i - 1) :
    \/ Done(j)
    \/ format = "openai" /\ answer[i].kind = "tool" /\ answer[j].kind = "tool"
       /\ progress[j] >= 0

\* The newline that ends e's line may come with it or with the next event.
Receive(e) ==
  /\ wire' = Append(wire, e)
  /\ \/ accum' = Add(FoldLeft(Add, accum, lineBuf), e) /\ lineBuf' = << >>
     \/ accum' = FoldLeft(Add, accum, lineBuf) /\ lineBuf' = << e >>
  /\ UNCHANGED << backend, phase, ends >>

Piece(i, n) == SubSeq(answer[i].text, progress[i] + 1, progress[i] + n)

\* Anthropic: content_block_start, then deltas.
StartBlock(i) ==
  /\ phase = "open" /\ stream /\ format = "anthropic"
  /\ MaySend(i) /\ progress[i] = -1
  /\ progress' = [progress EXCEPT ![i] = 0]
  /\ Receive([type |-> "start", kind |-> answer[i].kind, id |-> i])
  /\ UNCHANGED noise

SendDelta(i, n) ==
  /\ phase = "open" /\ stream /\ format = "anthropic"
  /\ progress[i] >= 0 /\ progress[i] + n <= Len(answer[i].text)
  /\ MaySend(i)
  /\ progress' = [progress EXCEPT ![i] = @ + n]
  /\ Receive([type |-> "delta", kind |-> answer[i].kind, text |-> Piece(i, n)])
  /\ UNCHANGED noise

\* OpenAI: a chunk has a piece of one block; id and name come with the first
\* of a call only.
Chunk(i, first, text) ==
  LET at(kind) == IF answer[i].kind = kind THEN text ELSE << >> IN
  [content |-> at("text"), reasoning |-> at("thinking"),
   calls |-> IF answer[i].kind # "tool" THEN << >>
             ELSE << [index |-> IndexOf(answer, i), id |-> IF first THEN i ELSE 0,
                      args |-> text] >>]

SendChunk(i, n) ==
  /\ phase = "open" /\ stream /\ format = "openai"
  /\ MaySend(i)
  /\ LET first == progress[i] = -1
         begun == IF first THEN 0 ELSE progress[i]
     IN  /\ (n = 0 => first) /\ begun + n <= Len(answer[i].text)
         /\ progress' = [progress EXCEPT ![i] = begun + n]
         /\ Receive(Chunk(i, first, SubSeq(answer[i].text, begun + 1, begun + n)))
  /\ UNCHANGED noise

\* Pings, usage, lines that do not decode.
SendNoise ==
  /\ phase = "open" /\ stream /\ noise < MaxNoise
  /\ noise' = noise + 1
  /\ Receive(IF format = "anthropic" THEN [type |-> "other"]
             ELSE [content |-> << >>, reasoning |-> << >>, calls |-> << >>])
  /\ UNCHANGED progress

\* What obsCapture has taken out of a stream with that text.  When every piece
\* has at least one character less than the opening tag, no tag escapes it and
\* the observation is that of the text (ObsStrip, which ObsStream implements
\* then).  A tag in shorter pieces may: what is taken is then the observation
\* behind a later tag, or none.
TextPiece(e) ==
  IF format = "openai" THEN e.content
  ELSE IF e.type = "delta" /\ e.kind = "text" THEN e.text ELSE << >>
LongPieces ==
  \A k \in DOMAIN wire :
    TextPiece(wire[k]) # << >> => Len(TextPiece(wire[k])) >= Len(OpenTag) - 1
StreamObs(text) ==
  IF LongPieces THEN {Captured(text)}
  ELSE {Captured(SubSeq(text, k, Len(text))) : k \in 1..(Len(text) + 1)}

\* The end of a stream, or its breaking off: both loggers use what they have.
EndStream ==
  /\ phase = "open" /\ stream
  /\ phase' \in {"complete", "broken"}
  /\ phase' = "complete" => \A i \in DOMAIN answer : Done(i)
  /\ summary' \in StreamObs(ParseStream(wire).content)
  /\ logged' = ParseStream(wire)
  /\ recorded' = FlushToLog(accum, lineBuf)
  /\ UNCHANGED << backend, progress, wire, noise, accum, lineBuf, client >>

\* A whole body; one that breaks off does not decode and is passed on as it is.
EndBody ==
  /\ phase = "open" /\ ~stream
  /\ \/ /\ phase' = "complete"
        /\ client' = StripBody(Body) /\ summary' = BodyObs(Body)
        /\ logged' = ParseBody(Body) /\ recorded' = ParseBody(Body)
     \/ phase' = "broken" /\ UNCHANGED ends
  /\ UNCHANGED << backend, progress, wire, noise, accum, lineBuf >>

Next ==
  \/ \E i \in DOMAIN answer :
       \/ StartBlock(i)
       \/ \E n \in 1..MaxPiece : SendDelta(i, n)
       \/ \E n \in 0..MaxPiece : SendChunk(i, n)
  \/ SendNoise \/ EndStream \/ EndBody

Spec == Init /\ [][Next]_vars
----------------------------------------------------------------------------
(* What is recorded                                                         *)

TypeOK ==
  /\ answer \in Answer
  /\ progress \in [DOMAIN answer -> Int]
  /\ \A i \in DOMAIN answer : progress[i] \in -1..Len(answer[i].text)
  /\ noise \in 0..MaxNoise
  /\ accum.calls \in [DOMAIN accum.calls -> Call]
  /\ DOMAIN accum.calls = 0..(Cardinality(DOMAIN accum.calls) - 1)
  /\ \A o \in {logged, recorded} : o \in [content : Seq(Char), reasoning : Seq(Char), calls : Seq(Call)]
  /\ summary \in Seq(Char)

\* A call without arguments is recorded with "{}" or with nothing.
FillArgs(call) == [call EXCEPT !.args = IF @ = << >> THEN Braces ELSE @]
WithInput(out) == [out EXCEPT !.calls = [k \in DOMAIN @ |-> FillArgs(@[k])]]

\* "The full unmodified response is always available ... (for CompactLogger)":
\* however it is delivered and cut, the log has the whole answer, observation
\* included, with the calls in their order and each with its own arguments.
LoggedAsAnswered ==
  phase = "complete" => WithInput(logged) = ParseBlocks(answer)

\* Of an answer that breaks off the log has a beginning: no text out of order,
\* no call that was not made, and no argument under another call.
LoggedBeginning ==
  phase = "broken" =>
    /\ IsPrefix(logged.content, TextOf(answer, "text"))
    /\ IsPrefix(logged.reasoning, TextOf(answer, "thinking"))
    /\ \A k \in DOMAIN logged.calls :
         /\ logged.calls[k].id = ParseBlocks(answer).calls[k].id
         /\ IsPrefix(logged.calls[k].args, MessageOf(answer).calls[k].args)

\* The state of the accumulation, with both: what is logged is the answer, or a
\* beginning of it.
LogInv == TypeOK /\ LoggedAsAnswered /\ LoggedBeginning

\* The agent's log and the proxy's tell the same story, though one reads the
\* stream as it passes and the other parses a copy after its end.
BothLogsAgree == recorded = logged

\* Of a whole body the client gets everything but the observation: reasoning
\* and calls as they are, the text up to the tag, and no tag in any text unless
\* more than one block has one (stripObsAnthropicJSON stops at the first).
TextsOf(body) ==
  IF format = "anthropic"
  THEN {OfKind(body, "text", i) : i \in DOMAIN body} ELSE {body.content}
BodyCutAtTag ==
  (phase = "complete" /\ ~stream) =>
    LET got == ParseBody(client)
        all == ParseBody(Body)
    IN  /\ got.reasoning = all.reasoning /\ got.calls = all.calls
        /\ Cardinality(Tagged(answer)) <= 1 =>
             /\ \A text \in TextsOf(client) : ~Occurs(text, OpenTag)
             /\ IsPrefix(TrimRight(Before(all.content, OpenTag)), got.content)

\* Whole, or streamed in pieces that are long enough, the same answer leaves the
\* same observation: what stands between the tags, in text and not in reasoning,
\* closed or not.  (Where text follows in a later block the two differ: the
\* stream's end of an unclosed observation is the end of the answer, the body's
\* the end of the block.  They differ too where a tag begins in one block and
\* ends in another: a body has none then.)
LastText(i) == \A j \in DOMAIN answer : j > i => OfKind(answer, "text", j) = << >>
FirstTagIn(i) ==
  Before(TextOf(answer, "text"), OpenTag)
    = TextOf(SubSeq(answer, 1, i - 1), "text") \o Before(answer[i].text, OpenTag)
TagOnlyInLastText ==
  Occurs(TextOf(answer, "text"), OpenTag) =>
    \E i \in DOMAIN answer : Tagged(answer) = {i} /\ LastText(i) /\ FirstTagIn(i)
SameObservation ==
  (phase = "complete" /\ (stream => LongPieces) /\ TagOnlyInLastText) =>
    summary = Captured(TextOf(answer, "text"))

\* Of a whole body the observation is taken out, and only it; a stream in long
\* pieces leaves the same one.
CaptureInv == BodyCutAtTag /\ SameObservation
=============================================================================
