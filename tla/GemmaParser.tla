---------------------------- MODULE GemmaParser ----------------------------
(***************************************************************************)
(* The reasoning parser that the deployment patches into vLLM for Gemma 4   *)
(* (patches/gemma4_reasoning_parser.py on patches/basic_parsers.py): it     *)
(* divides a model's output into reasoning and content and removes the role *)
(* label at its start.  A whole output is divided by Whole; a streamed one  *)
(* delta by delta, by an instance that lives as long as the response.       *)
(*                                                                          *)
(* An output is a sequence of characters.  The special tokens <|channel>    *)
(* and <channel|> are one character each, Start and End: they are tokens of *)
(* their own and adjust_request keeps them in the text, so what the parser  *)
(* looks up among token ids and in the text is the same.                    *)
(***************************************************************************)
EXTENDS TagText

CONSTANTS
  Letter,      \* the characters of ordinary text
  Start, End,  \* start_token and end_token
  Label,       \* _THOUGHT_PREFIX
  Deltas,      \* the pieces in which the engine may deliver an output
  MaxLength,   \* bound on the length of an output
  None         \* Python's None

Special == {Start, End}

ASSUME TokenAssumption == Start # End /\ Special \cap Letter = {}
ASSUME LabelAssumption == Label \in Seq(Letter) /\ Label # << >>
ASSUME DeltaAssumption ==
  Deltas \subseteq Seq(Letter \cup Special) \ {<< >>} /\ MaxLength \in Nat
ASSUME NoneAssumption == None \notin Seq(Letter \cup Special)

Has(text, token) == Occurs(text, << token >>)

\* DeltaMessage.
Message(reasoning, content) == [reasoning |-> reasoning, content |-> content]
OrNone(text) == IF text = << >> THEN None ELSE text

VARIABLES
  output,     \* previous_text: what the model has generated
  buffer,     \* _reasoning_text
  stripped,   \* _prefix_stripped
  sent,       \* the messages returned, those of None left out
  finished,
  keptToken,  \* history: some delta was one of KeepsToken
  lostText    \* history: some delta was one of LosesText

parserVars == << output, buffer, stripped, sent, finished, keptToken, lostText >>

Text == Seq(Letter \cup Special)

ParserTypeOK ==
  /\ output \in Text /\ Len(output) <= MaxLength
  /\ buffer \in Text
  /\ stripped \in BOOLEAN /\ keptToken \in BOOLEAN /\ lostText \in BOOLEAN
  /\ sent \in Seq([reasoning : Text \cup {None}, content : (Text \ {<< >>}) \cup {None}])
  /\ finished \in BOOLEAN

ParserInit ==
  /\ output = << >> /\ buffer = << >> /\ stripped = FALSE
  /\ sent = << >> /\ finished = FALSE /\ keptToken = FALSE /\ lostText = FALSE

----------------------------------------------------------------------------
(* A whole output: extract_reasoning of the base class, and of Gemma        *)

StripLabel(text) ==
  IF IsPrefix(Label, text) THEN SubSeq(text, Len(Label) + 1, Len(text)) ELSE text

Divide(text) ==
  LET thought == IF Has(text, Start) THEN After(text, << Start >>) ELSE text
  IN  IF Has(thought, End)
      THEN Message(Before(thought, << End >>), OrNone(After(thought, << End >>)))
      ELSE Message(thought, None)

Whole(text) ==
  IF ~Has(text, Start) /\ ~Has(text, End)
  THEN Message(None, text)
  ELSE [Divide(text) EXCEPT !.reasoning = StripLabel(@)]

----------------------------------------------------------------------------
(* A delta: extract_reasoning_streaming of the base class                   *)

\* _end_after_start_in.  (Mutant: an end token in front of the start.)
EndBeforeStart(text) == Has(Before(text, << Start >>), End)
EndAfterStart(text) == Has(After(text, << Start >>), End)

\* The two special tokens are dropped when they come alone.
Base(previous, delta) ==
  IF Has(previous, Start)
  THEN IF Has(delta, End)
       THEN Message(Before(delta, << End >>), OrNone(After(delta, << End >>)))
       ELSE IF EndAfterStart(previous) THEN Message(None, delta)
       ELSE Message(delta, None)
  ELSE IF Has(delta, Start)
       THEN IF Has(delta, End)
            THEN Message(After(Before(delta, << End >>), << Start >>),
                         OrNone(After(delta, << End >>)))
            ELSE Message(delta, None)
       ELSE Message(None, delta)

----------------------------------------------------------------------------
(* Gemma's extract_reasoning_streaming: the text of the first messages is   *)
(* held back until it is known whether it begins with the label.            *)

Held(text) == IsPrefix(text, Label)

\* What is left of a piece when the label ends in it.
CutOff(text, piece) ==
  SubSeq(piece, Len(Label) - (Len(text) - Len(piece)) + 1, Len(piece))

\* The first text that is not held back.  When it was not the label after all,
\* it comes with what was held before.  (Mutant: it does not.)
ReleaseLast(text, piece) == IF IsPrefix(Label, text) THEN CutOff(text, piece) ELSE piece
Release(text, piece) == IF IsPrefix(Label, text) THEN CutOff(text, piece) ELSE text

\* The label alone is not held back in reasoning: it is stripped at once.
Awaits(message, text) ==
  Held(text) /\ ~(message.reasoning # None /\ text = Label)

Filtered(message, text) ==
  IF message.reasoning # None
  THEN [message EXCEPT !.reasoning = Release(text, @)]
  ELSE [message EXCEPT !.content = OrNone(Release(text, @))]

\* One message of the base class.  Once the label is dealt with messages pass
\* unchanged, and reasoning is still accumulated.
Handle(message) ==
  LET piece == IF message.reasoning # None THEN message.reasoning ELSE message.content
      text == buffer \o piece
  IN  /\ buffer' = IF stripped /\ message.reasoning = None THEN buffer ELSE text
      /\ IF stripped THEN sent' = Append(sent, message) /\ UNCHANGED stripped
         ELSE IF Awaits(message, text) THEN UNCHANGED << stripped, sent >>
         ELSE sent' = Append(sent, Filtered(message, text)) /\ stripped' = TRUE

Ordinary(text) ==
  FlattenSeq([i \in DOMAIN text |-> IF text[i] \in Special THEN << >> ELSE << text[i] >>])

\* Text that may still become the label.
Waiting(text) == Held(text) /\ text # Label

(* Two kinds of deltas of several tokens, told by what the engine delivers  *)
(* and not by what the parser does, that the properties have to set apart.  *)

\* A special token among text that is taken for text, token and all: the start
\* token without the end token, or the end token where there is no start token.
KeepsToken(delta) ==
  /\ Len(delta) > 1 /\ ~Has(output, Start)
  /\ Has(delta, Start) <=> ~Has(delta, End)

\* Text behind the end token when the reasoning is no more than a beginning of
\* the label; or text before a start token whose end token follows at once.
LosesText(delta) ==
  /\ Has(delta, End) /\ Has(output \o delta, Start)
  /\ \/ /\ After(delta, << End >>) # << >>
        /\ Waiting(Ordinary(output \o Before(delta, << End >>)))
     \/ Has(delta, Start) /\ delta[1] # Start

\* The outputs modelled: at most one channel, which may have been opened by
\* the prompt already, and content after it.
MayFollow(delta) ==
  LET all == output \o delta IN
  /\ Len(all) <= MaxLength
  /\ \A i, j \in DOMAIN all : all[i] \in Special /\ all[j] = all[i] => i = j
  /\ Has(all, End) => ~Has(After(all, << End >>), Start)

Generate(delta) ==
  /\ ~finished /\ MayFollow(delta)
  /\ output' = output \o delta
  /\ IF Len(delta) = 1 /\ delta[1] \in Special
     THEN UNCHANGED << buffer, stripped, sent >>
     ELSE Handle(Base(output, delta))
  /\ keptToken' = (keptToken \/ KeepsToken(delta))
  /\ lostText' = (lostText \/ LosesText(delta))
  /\ UNCHANGED finished

\* The response ends; nothing tells the parser.
Finish ==
  /\ ~finished /\ finished' = TRUE
  /\ UNCHANGED << output, buffer, stripped, sent, keptToken, lostText >>

ParserNext == Finish \/ \E delta \in Deltas : Generate(delta)

ParserSpec == ParserInit /\ [][ParserNext]_parserVars
----------------------------------------------------------------------------
(* What the client is sent                                                  *)

Given(value) == IF value = None THEN << >> ELSE value

SentReasoning == FlattenSeq([i \in DOMAIN sent |-> Given(sent[i].reasoning)])
SentContent == FlattenSeq([i \in DOMAIN sent |-> Given(sent[i].content)])
SentText ==
  FlattenSeq([i \in DOMAIN sent |-> Given(sent[i].reasoning) \o Given(sent[i].content)])

\* The reasoning of an output that opens with the start token.
Reasoning == Before(After(output, << Start >>), << End >>)
Begun == output # << >> /\ output[1] = Start

\* The text reaches the client in order, without the label at its start; only
\* what may still become the label is held back (extract_reasoning_streaming,
\* "Re-emit the full accumulated text to avoid data loss").  A delta of LosesText
\* ends that; behind one of KeepsToken the label may have stayed in.
NothingLost ==
  ~lostText =>
    IF stripped
    THEN \/ Ordinary(SentText) = StripLabel(Ordinary(output))
         \/ keptToken /\ Ordinary(SentText) = Ordinary(output)
    ELSE SentText = << >> /\ Held(Ordinary(output))

\* The state of the parser, with that.
ParserInv == ParserTypeOK /\ NothingLost

\* What the comment says, of every delta: no text is lost.
NoDataLoss ==
  Ordinary(SentText) \in {Ordinary(output), StripLabel(Ordinary(output))}
    \/ Held(Ordinary(output))

\* A streamed answer is divided as the same answer would be whole, once its
\* reasoning is more than a piece of the label, unless its start token came in
\* one delta with a part of its text only (extract_reasoning and
\* extract_reasoning_streaming).
StreamedAsWhole ==
  (Begun /\ ~Waiting(Reasoning) /\ ~keptToken) =>
    /\ SentReasoning = Whole(output).reasoning
    /\ SentContent = Given(Whole(output).content)
=============================================================================
