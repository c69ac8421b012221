--------------------------- MODULE MCConversation ---------------------------
(***************************************************************************)
(* Instances of Conversation for TLC.                                       *)
(***************************************************************************)
EXTENDS Conversation

MCPart == {"s", "t", "q", "r", "png", "why", "a", "c", "result"}

\* No system prompt, one as a string, and one as an array of two texts.
MCSystem == {String(<< >>), String(<< "s" >>), Array(<< Text(<< "s" >>), Text(<< "t" >>) >>)}

\* A string, an array with a picture, and a picture alone.
MCUserTurn ==
  {String(<< "q" >>), Array(<< Picture(<< "png" >>), Text(<< "q" >>), Text(<< "r" >>) >>),
   Array(<< Picture(<< "png" >>) >>)}
MCModelTurn ==
  {t \in [reasoning : {<< >>, << "why" >>}, text : {<< >>, << "a" >>}, calls : {0, 2}] :
     t.text # << >> \/ t.calls > 0}
MCComment == {Empty, String(<< "c" >>)}
=============================================================================
