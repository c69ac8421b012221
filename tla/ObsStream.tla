----------------------------- MODULE ObsStream -----------------------------
(***************************************************************************)
(* The streaming half of obsCapture (proxy/internal/proxy/obs.go): the      *)
(* response writer that cuts the <obs>...</obs> block out of a server-sent  *)
(* event stream while it is forwarded to the client.                        *)
(*                                                                          *)
(* One response.  The backend's events are numbered as they arrive; each    *)
(* action below is one Write that completes an event (drainSSE hands the    *)
(* event to handleSSEEvent before Write returns), one Write that leaves an  *)
(* unterminated event in sseBuf, or Finalize.  A Write of several events is *)
(* the same as several Writes: drainSSE takes them one at a time, in order. *)
(***************************************************************************)
EXTENDS TagText

CONSTANTS
  Char,        \* the characters of the response text
  OpenTag,     \* obsOpenTag, "<obs>"
  CloseTag,    \* obsCloseTag, "</obs>"
  Space,       \* the white space among Char
  Format,      \* mc.format: "anthropic" or "openai"
  Upstream,    \* the events the backend may send
  MaxEvents    \* bound on the events of one response

Kinds == {"raw", "block_start", "block_stop", "delta"}
Contents == {"text", "thinking", "other"}

\* An event: what handleSSEEvent decodes from its data: line.  "raw" stands
\* for an event without a data: line, with an undecodable one, or of a type
\* the capture does not look at; "of" is content_block.type or delta.type.
Event == [kind : Kinds, of : Contents, text : Seq(Char)]

ASSUME TagAssumption ==
  /\ OpenTag \in Seq(Char) /\ OpenTag # << >>
  /\ CloseTag \in Seq(Char) /\ CloseTag # << >>
ASSUME FormatAssumption == Format \in {"anthropic", "openai"}
ASSUME UpstreamAssumption == Upstream \subseteq Event
ASSUME BoundAssumption == MaxEvents \in Nat

\* What is written to the client: an event's number and the text it carries.
Items == [id : Nat \ {0}, text : Seq(Char)]
Item(n, text) == << [id |-> n, text |-> text] >>

VARIABLES
  inThink,     \* inside a thinking content block
  obsState,    \* "searching", "suppressing" or "done"
  heldEvent,   \* number of the event held back, 0 for nil
  heldText,    \* its text
  obsBuf,      \* the text captured so far
  sseBuf,      \* an unterminated event is buffered
  summary,     \* what Finalize returned
  phase,       \* "streaming" until Finalize, then "finalized"
  \* the two ends of the stream
  upstream,    \* events the backend has completed, in order
  client,      \* what the client was sent: number and text of each event
  \* history: the text given to handleTextDelta, the text that came out
  block,       \* the content block the backend is in ("none" between blocks)
  scanned, clientText

capture == << inThink, obsState, heldEvent, heldText, obsBuf >>
vars == << capture, sseBuf, summary, phase, upstream, client, block,
           scanned, clientText >>

TypeOK ==
  /\ inThink \in BOOLEAN
  /\ obsState \in {"searching", "suppressing", "done"}
  /\ heldEvent \in Nat
  /\ heldText \in Seq(Char)
  /\ obsBuf \in Seq(Char)
  /\ sseBuf \in BOOLEAN
  /\ summary \in Seq(Char)
  /\ phase \in {"streaming", "finalized"}
  /\ upstream \in Seq(Event)
  /\ client \in Seq(Items)
  /\ block \in {"none"} \cup Contents
  /\ scanned \in Seq(Char)
  /\ clientText \in Seq(Char)

Init ==
  /\ inThink = FALSE
  /\ obsState = "searching"
  /\ heldEvent = 0 /\ heldText = << >>
  /\ obsBuf = << >>
  /\ sseBuf = FALSE
  /\ summary = << >>
  /\ phase = "streaming"
  /\ upstream = << >> /\ client = << >>
  /\ block = "none"
  /\ scanned = << >> /\ clientText = << >>

----------------------------------------------------------------------------
(* The backend.  Anthropic streams are sequences of content blocks; deltas  *)
(* come inside a block and pings and message events anywhere.               *)

MaySend(e) ==
  /\ phase = "streaming"
  /\ Len(upstream) < MaxEvents
  /\ e \in Upstream
  /\ Format = "anthropic" =>
       /\ e.kind = "block_start" => block = "none"
       /\ e.kind \in {"block_stop", "delta"} => block # "none"

\* The event's number, its record, and the block it leaves the backend in.
Send(e) ==
  /\ MaySend(e)
  /\ upstream' = Append(upstream, e)
  /\ block' = IF e.kind = "block_start" THEN e.of
               ELSE IF e.kind = "block_stop" THEN "none" ELSE block
  /\ sseBuf' = FALSE
  /\ UNCHANGED << summary, phase >>

Now == Len(upstream) + 1

\* The first bytes of an event arrive without its blank line.
WritePartial ==
  /\ phase = "streaming"
  /\ Len(upstream) < MaxEvents
  /\ ~sseBuf
  /\ sseBuf' = TRUE
  /\ UNCHANGED << capture, summary, phase, upstream, client, block,
                  scanned, clientText >>

----------------------------------------------------------------------------
(* handleSSEEvent and handleAnthropicEvent                                  *)

\* The events whose text goes to handleTextDelta.
IsScanned(e) ==
  /\ e.kind = "delta" /\ e.of = "text"
  /\ IF Format = "anthropic" THEN ~inThink ELSE e.text # << >>

\* Every other event is written to the client as it came.
Forward(e) ==
  /\ Send(e)
  /\ ~IsScanned(e)
  /\ inThink' = IF Format = "anthropic" /\ e.kind \in {"block_start", "block_stop"}
                 THEN e.kind = "block_start" /\ e.of = "thinking"
                 ELSE inThink
  /\ client' = client \o Item(Now, e.text)
  /\ UNCHANGED << obsState, heldEvent, heldText, obsBuf, scanned, clientText >>

----------------------------------------------------------------------------
(* handleTextDelta writes at most two events, the held one first.           *)

TextOf(item) == IF item = << >> THEN << >> ELSE item[1].text

\* Mutant: the new event overtakes the held one.
EmitSwapped(first, second) ==
  /\ client' = client \o second \o first
  /\ clientText' = clientText \o TextOf(second) \o TextOf(first)

Emit(first, second) ==
  /\ client' = client \o first \o second
  /\ clientText' = clientText \o TextOf(first) \o TextOf(second)

\* The held event, if there is one.  (Mutants: written without asking whether
\* there is one; forgotten.)
HeldItemUnasked == Item(heldEvent, heldText)
HeldItemForgotten == << >>
HeldItem == IF heldEvent # 0 THEN Item(heldEvent, heldText) ELSE << >>

TextDelta(e) ==
  /\ Send(e)
  /\ IsScanned(e)
  /\ scanned' = scanned \o e.text
  /\ UNCHANGED inThink

\* case stateDone: everything after the closing tag is dropped.
DropText(e) ==
  /\ TextDelta(e)
  /\ obsState = "done"
  /\ UNCHANGED << obsState, heldEvent, heldText, obsBuf, client, clientText >>

\* Keep what precedes the closing tag, if it is there.
Capture(text) ==
  /\ obsBuf' = Before(text, CloseTag)
  /\ obsState' = IF Occurs(text, CloseTag) THEN "done" ELSE "suppressing"

\* case stateSuppressing.  (Mutant: the closing tag is looked for in the new
\* event alone.)
SuppressNewOnly(e) ==
  /\ TextDelta(e)
  /\ obsState = "suppressing"
  /\ obsBuf' = obsBuf \o Before(e.text, CloseTag)
  /\ obsState' = IF Occurs(e.text, CloseTag) THEN "done" ELSE "suppressing"
  /\ UNCHANGED << heldEvent, heldText, client, clientText >>

SuppressText(e) ==
  /\ TextDelta(e)
  /\ obsState = "suppressing"
  /\ Capture(obsBuf \o e.text)
  /\ UNCHANGED << heldEvent, heldText, client, clientText >>

\* The text searched for the opening tag.  (Mutant: the new text alone.)
CombinedNewOnly(text) == text
Combined(text) == TextOf(HeldItem) \o text

\* case stateSearching, no tag: the held event is released, and the new one
\* held in its place if the tag may begin in it.
Hold(e) ==
  /\ HasSuspiciousTail(e.text, OpenTag)
  /\ Emit(HeldItem, << >>)
  /\ heldEvent' = Now /\ heldText' = e.text

PassOn(e) ==
  /\ ~HasSuspiciousTail(e.text, OpenTag)
  /\ Emit(HeldItem, Item(Now, e.text))
  /\ heldEvent' = 0 /\ heldText' = << >>

SearchMiss(e) ==
  /\ TextDelta(e)
  /\ obsState = "searching"
  /\ ~Occurs(Combined(e.text), OpenTag)
  /\ Hold(e) \/ PassOn(e)
  /\ UNCHANGED << obsState, obsBuf >>

\* case stateSearching, tag found: the text before it goes out in the events
\* it came in, rebuilt; an event left with no text is not sent.
Rebuilt(n, text) == IF text = << >> THEN << >> ELSE Item(n, text)

EmitBefore(before) ==
  LET n == Len(TextOf(HeldItem))
  IN  IF heldEvent # 0 /\ Len(before) <= n
      THEN Emit(Rebuilt(heldEvent, before), << >>)
      ELSE Emit(HeldItem, Rebuilt(Now, SubSeq(before, n + 1, Len(before))))

SearchHit(e) ==
  /\ TextDelta(e)
  /\ obsState = "searching"
  /\ Occurs(Combined(e.text), OpenTag)
  /\ EmitBefore(Before(Combined(e.text), OpenTag))
  /\ heldEvent' = 0 /\ heldText' = << >>
  /\ Capture(After(Combined(e.text), OpenTag))

----------------------------------------------------------------------------
(* Finalize: an unterminated event is written as it is, without its blank   *)
(* line, and then the held event.  When both are written the held event     *)
(* runs on from the unterminated one, and whether the client can still      *)
(* decode it depends on where the stream broke off.                         *)

\* Mutant: nothing held is written.
DecodableNone == {<< >>}
Decodable == IF sseBuf THEN {heldText, << >>} ELSE {heldText}

Fragment == IF sseBuf THEN Item(Now, << >>) ELSE << >>

Finalize ==
  /\ phase = "streaming"
  /\ phase' = "finalized"
  /\ summary' = TrimSpace(obsBuf, Space)
  /\ IF heldEvent # 0 /\ obsState = "searching"
     THEN /\ \E text \in Decodable : Emit(Fragment, Item(heldEvent, text))
          /\ heldEvent' = 0
     ELSE /\ Emit(Fragment, << >>)
          /\ UNCHANGED heldEvent
  /\ UNCHANGED << inThink, obsState, heldText, obsBuf, sseBuf, upstream, block,
                  scanned >>

HandleEvent(e) ==
  Forward(e) \/ DropText(e) \/ SuppressText(e) \/ SearchMiss(e) \/ SearchHit(e)

Next == WritePartial \/ (\E e \in Upstream : HandleEvent(e)) \/ Finalize

\* The backend may stop at any time; once it has, forwardRequest returns and
\* forwardWithLogging calls Finalize.
Spec == Init /\ [][Next]_vars

----------------------------------------------------------------------------
(* What the stream must satisfy                                             *)

\* The events whose text is answer text, told from the backend's own block
\* structure rather than from the inThink flag.
InThinkingBlock(n) ==
  \E m \in 1..(n - 1) :
    /\ upstream[m].kind = "block_start" /\ upstream[m].of = "thinking"
    /\ \A k \in (m + 1)..(n - 1) : upstream[k].kind # "block_stop"

AnswerText(n) ==
  /\ n \in DOMAIN upstream
  /\ upstream[n].kind = "delta" /\ upstream[n].of = "text"
  /\ IF Format = "anthropic" THEN ~InThinkingBlock(n)
                             ELSE upstream[n].text # << >>

\* No answer text is lost or repeated while no tag has been found: what the
\* client has, followed by what is held back, is all the text so far; and
\* once the response is finalized nothing is held back, unless the stream
\* broke off inside an event (handleTextDelta, Finalize).
NoTextLost ==
  obsState = "searching" =>
    IF phase = "streaming" THEN clientText \o heldText = scanned
                           ELSE sseBuf \/ clientText = scanned

\* Once a tag has been found, the answer was cut at that tag and at no other
\* place, and obsBuf is what the model wrote between the tags, however the
\* text was divided into events (the cutting in handleTextDelta).
CutAtTag ==
  obsState # "searching" =>
    \E i \in Occurrences(scanned, OpenTag) :
      LET rest == SubSeq(scanned, i + Len(OpenTag), Len(scanned))
      IN  /\ clientText = SubSeq(scanned, 1, i - 1)
          /\ obsState = "done" <=> Occurs(rest, CloseTag)
          /\ obsBuf = Before(rest, CloseTag)

Answers == {n \in DOMAIN upstream : AnswerText(n)}
Others == DOMAIN upstream \ Answers

\* Only one event is ever held back, the last answer text, and only when the
\* opening tag may begin in it: the capture adds no other delay.
HeldOnlyOnSuspicion ==
  (heldEvent # 0 /\ phase = "streaming") =>
    /\ obsState = "searching"
    /\ heldEvent \in Answers
    /\ \A n \in Answers : n <= heldEvent
    /\ heldText = upstream[heldEvent].text
    /\ HasSuspiciousTail(heldText, OpenTag)

\* Thinking, tool input, pings and message events reach the client unchanged
\* (forwarded at once, never scanned).
OthersUntouched ==
  \A n \in Others :
    \E i \in DOMAIN client : client[i] = [id |-> n, text |-> upstream[n].text]

\* Event n may reach the client later than event m that came after it: n is
\* answer text whose end may begin the tag, m is not answer text (the stop of
\* n's own block, message_stop, [DONE], or the fragment the stream broke off
\* in), and no answer text came between the two.
MayBeOvertaken(n, m) ==
  /\ n \in Answers /\ HasSuspiciousTail(upstream[n].text, OpenTag)
  /\ n < m /\ Answers \cap n..m = {n}

\* Every two events reach the client in the order in which the backend sent
\* them, and none twice, but for the held event: it is written with the next
\* answer text or at the end, and the events up to then go before it.
OvertakenOnlyWhileHeld ==
  \A i, j \in DOMAIN client :
    i < j => \/ client[i].id < client[j].id
             \/ MayBeOvertaken(client[j].id, client[i].id)

\* What the client may notice of the search for the tag: of all events only
\* answer text that may begin the tag is late, it is late by no answer text,
\* and nothing else is delayed, changed, dropped or overtaken (the order of
\* the writes in handleAnthropicEvent, handleTextDelta and Finalize).
OnlyHeldTextIsLate ==
  HeldOnlyOnSuspicion /\ OthersUntouched /\ OvertakenOnlyWhileHeld

\* The client never sees the opening tag in the answer.
NoTagReachesClient == ~Occurs(clientText, OpenTag)

\* Strip: the capture keeps the promise of ObsStrip when every piece of text
\* has at least one character less than the opening tag (LongDeltas); a tag
\* cut into three pieces gets through.
LongDeltas ==
  \A e \in Upstream :
    (e.kind = "delta" /\ e.of = "text" /\ (Format = "openai" => e.text # << >>))
      => Len(e.text) >= Len(OpenTag) - 1

Status == IF phase = "streaming" THEN "open"
          ELSE IF sseBuf THEN "broken" ELSE "complete"

Strip == INSTANCE ObsStrip WITH
  Texts <- {e.text : e \in Upstream},
  input <- scanned, output <- clientText, status <- Status

StripSpec == Strip!Spec

=============================================================================
