------------------------------ MODULE ObsStrip ------------------------------
(***************************************************************************)
(* What the proxy promises of a streamed answer (README: "strips it from    *)
(* the response (the client never sees it)"): the client is sent the text   *)
(* in front of the first opening tag, as it comes in or later but before    *)
(* the response ends, and the text between the tags becomes the summary.    *)
(* How the capture buffers and holds events back is left open.              *)
(***************************************************************************)
EXTENDS TagText

CONSTANTS OpenTag, CloseTag, Space,
          Texts       \* the pieces in which the answer arrives

VARIABLES
  input,      \* the answer text received from the backend
  output,     \* the answer text sent to the client
  summary,    \* the observation, empty until the response ends
  status      \* "open", "complete", or "broken": the stream broke off

vars == << input, output, summary, status >>

Visible(text) == Before(text, OpenTag)
Observation(text) ==
  TrimSpace(Before(After(text, OpenTag), CloseTag), Space)

Init ==
  /\ input = << >> /\ output = << >> /\ summary = << >>
  /\ status = "open"

\* More text arrives; some of what the client may see is sent on.
Receive ==
  /\ status = "open"
  /\ \E t \in Texts : input' = input \o t
  /\ IsPrefix(output, output') /\ IsPrefix(output', Visible(input'))
  /\ UNCHANGED << summary, status >>

\* The response ends: what was still owed to the client is sent.
Complete ==
  /\ status = "open" /\ status' = "complete"
  /\ output' = Visible(input)
  /\ summary' = Observation(input)
  /\ UNCHANGED input

\* The stream breaks off: the end of the text may be lost.
Break ==
  /\ status = "open" /\ status' = "broken"
  /\ IsPrefix(output, output') /\ IsPrefix(output', Visible(input))
  /\ summary' = Observation(input)
  /\ UNCHANGED input

Next == Receive \/ Complete \/ Break

Spec == Init /\ [][Next]_vars
=============================================================================
