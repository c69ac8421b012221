--------------------------- MODULE MCGemmaParser ---------------------------
(***************************************************************************)
(* Instances of GemmaParser for TLC.  The label "thought\n" is shortened to *)
(* three characters; "x" is any other text.                                 *)
(***************************************************************************)
EXTENDS GemmaParser

MCLetter == {"t", "h", "n", "x"}
MCLabel == << "t", "h", "n" >>

\* Text in pieces that cut the label anywhere, and the special tokens alone.
TokenByToken ==
  {<< Start >>, << End >>, << "t", "h", "n" >>, << "t", "h" >>,
   << "h", "n", "x" >>} \cup {<< c >> : c \in MCLetter}

\* A special token with text on either side, or both tokens: what speculative
\* decoding and the diffusion model deliver (docker-compose.yml:47, 100, 153).
SeveralTokens ==
  {<< Start, "t", "h", "n" >>, << Start, "t" >>, << Start, "x" >>, << "x", Start >>,
   << "t", Start, "h" >>, << End, "x" >>, << "n", End >>, << "n", End, "x" >>,
   << "x", End, "x" >>, << "t", End, "h" >>, << Start, "t", "h", "n", End, "x" >>,
   << Start, "t", End, "x" >>, << Start, "x", End, "x" >>, << "x", Start, "t", End >>}

AnyDeltas == TokenByToken \cup SeveralTokens

\* For the run that shows the loss: the end token with the text behind it.
EndWithText == TokenByToken \cup {<< End, "x" >>}
=============================================================================
