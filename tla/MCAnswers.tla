----------------------------- MODULE MCAnswers -----------------------------
(***************************************************************************)
(* Instances of Answers for TLC.  The tags are "<o:" and ">".  Pieces of    *)
(* text are of one character, too short for the capture, and of two, long   *)
(* enough; every text with a tag can be sent in pieces of two.              *)
(***************************************************************************)
EXTENDS Answers

MCChar == {"<", "o", ":", ">", "a", "b", "_", "{}"}
MCOpenTag == << "<", "o", ":" >>
MCCloseTag == << ">" >>
MCSpace == {"_"}
MCBraces == << "{}" >>

Text(t) == [kind |-> "text", text |-> t]
Thinking(t) == [kind |-> "thinking", text |-> t]
Tool(t) == [kind |-> "tool", text |-> t]

\* Observations with text around them, in the first or the last of several
\* blocks, in both, and in reasoning; a tag that begins in one block and ends in
\* another; calls with and without arguments.
MCAnswer ==
  {<< >>,
   << Text(<< >>) >>,
   << Text(<< "a", "_", "<", "o", ":", "_", "b", ">" >>) >>,
   << Text(<< "<", "o", ":", "a", ">", "b" >>) >>,
   << Thinking(<< "<", "o", ":" >>), Text(<< "a", "_", "<", "o", ":", "b" >>) >>,
   << Text(<< "a", "<" >>), Tool(<< "a" >>), Text(<< "o", ":", "<", "o", ":", ">" >>) >>,
   << Text(<< "a", "<", "o", ":" >>), Thinking(<< "b" >>), Text(<< "<", "o", ":", "a" >>) >>,
   << Thinking(<< "a" >>), Tool(<< "a", "b", "a" >>), Tool(<< "b", "b" >>), Tool(<< >>) >>,
   << Tool(<< >>), Tool(<< "<", "o", ":" >>), Text(<< "_", "<", "o", ":", "a", "b" >>) >>}
=============================================================================
