---------------------------- MODULE MCObsStream ----------------------------
(***************************************************************************)
(* Instances of ObsStream for TLC.  The tags are shortened to three        *)
(* characters, "<o>" and "</>", which share their first character as        *)
(* "<obs>" and "</obs>" do; "x" is ordinary text and "_" a space.           *)
(***************************************************************************)
EXTENDS ObsStream

MCChar == {"<", "o", ">", "/", "x", "_"}
MCOpenTag == << "<", "o", ">" >>
MCCloseTag == << "<", "/", ">" >>
MCSpace == {"_"}

Raw == [kind |-> "raw", of |-> "other", text |-> << >>]
Start(content) == [kind |-> "block_start", of |-> content, text |-> << >>]
Stop == [kind |-> "block_stop", of |-> "other", text |-> << >>]
Delta(content, text) == [kind |-> "delta", of |-> content, text |-> text]

TextDeltas(texts) == {Delta("text", t) : t \in texts}

\* For the run that shows the leak: every way of cutting the tags, one or two
\* characters to an event, and events with a whole tag, with text before it
\* and text behind it.
AnyTexts ==
  {<< a >> : a \in {"<", "o", ">", "/"}}
    \cup {<< a, b >> : a, b \in {"<", "o", ">", "/"}}
    \cup {<< "x", "<", "o", ">", "_" >>, << "x", "<", "o" >>}
AnyDeltas == TextDeltas(AnyTexts) \cup {Start("text")}

\* Texts of at least two characters, one less than the opening tag has
\* (LongDeltas), that cut the tags in every way such texts can, with text
\* before the tags, between them and behind them.
LongTexts ==
  {<< "x", "<" >>, << "o", ">" >>, << "<", "o" >>, << ">", "x" >>,
   << ">", "<" >>, << "<", "/" >>, << "/", ">" >>, << ">", "_", "<", "/" >>,
   << "<", "o", "<", "o" >>, << "x", "<", "o", ">", "_" >>}

\* Every kind of event.
MixedEvents ==
  TextDeltas(LongTexts)
    \cup {Raw, Start("text"), Start("thinking"), Start("other"), Stop,
          Delta("thinking", << "<", "o", ">" >>), Delta("other", << "x" >>)}
=============================================================================
