---------------------------- MODULE StreamProofs ----------------------------
(***************************************************************************)
(* Proofs about the two filters that a stream of text passes through: the  *)
(* proxy's extraction of observations (ObsStream), for every alphabet,     *)
(* every pair of tags, every set of events the backend may send and every  *)
(* bound on their number; and the reasoning parser (GemmaParser), for      *)
(* every alphabet, label, set of deltas and length.                        *)
(***************************************************************************)
EXTENDS ObsStream, GemmaParser, TagTextProofs, FiniteSetTheorems

(* What one handler writes to the client                                    *)

\* At most one event, with the text it carries.
IsOutput(item, text) ==
  /\ item \in Seq(Items) /\ text \in Seq(Char)
  /\ TextOf(item) = text

LEMMA ItemOutput ==
  ASSUME NEW n \in Nat \ {0}, NEW text \in Seq(Char)
  PROVE  IsOutput(Item(n, text), text) /\ IsOutput(Rebuilt(n, text), text)
<1>1. [id |-> n, text |-> text] \in Items
  BY DEF Items
<1>2. Item(n, text) \in Seq(Items) /\ TextOf(Item(n, text)) = text
  BY <1>1 DEF Item, TextOf
<1>3. << >> \in Seq(Items)
  BY EmptySeq
<1> QED
  BY <1>2, <1>3 DEF IsOutput, Rebuilt, TextOf

LEMMA NoOutput == IsOutput(<< >>, << >>)
BY EmptySeq DEF IsOutput, TextOf

LEMMA HeldOutput ==
  ASSUME TypeOK
  PROVE  IsOutput(HeldItem, IF heldEvent # 0 THEN heldText ELSE << >>)
BY ItemOutput, NoOutput DEF TypeOK, HeldItem

LEMMA ConcatChars ==
  \A s, t, u \in Seq(Char) : (s \o t) \o u = s \o (t \o u)
<1> SUFFICES ASSUME NEW s \in Seq(Char), NEW t \in Seq(Char), NEW u \in Seq(Char)
             PROVE  (s \o t) \o u = s \o (t \o u)
  OBVIOUS
<1> QED
  BY ConcatAssociative

LEMMA EmitOutput ==
  ASSUME TypeOK, NEW a, NEW b, NEW s, NEW t,
         IsOutput(a, s), IsOutput(b, t), Emit(a, b)
  PROVE  /\ client' \in Seq(Items)
         /\ clientText' \in Seq(Char)
         /\ clientText' = (clientText \o s) \o t
<1>1. client \o a \in Seq(Items) /\ clientText \o s \in Seq(Char)
  BY ConcatProperties DEF TypeOK, IsOutput
<1>2. (client \o a) \o b \in Seq(Items) /\ (clientText \o s) \o t \in Seq(Char)
  BY <1>1, ConcatProperties DEF IsOutput
<1> QED
  BY <1>2 DEF Emit, IsOutput

LEMMA CombinedType ==
  ASSUME TypeOK, NEW text \in Seq(Char)
  PROVE  /\ Combined(text) \in Seq(Char)
         /\ Combined(text) = (IF heldEvent # 0 THEN heldText ELSE << >>) \o text
<1>1. TextOf(HeldItem) = (IF heldEvent # 0 THEN heldText ELSE << >>)
  BY HeldOutput DEF IsOutput
<1>2. (IF heldEvent # 0 THEN heldText ELSE << >>) \in Seq(Char)
  BY EmptySeq DEF TypeOK
<1> QED
  BY <1>1, <1>2, ConcatProperties DEF Combined

\* What SearchHit writes is the text before the tag, however it is divided
\* between the held and the new event.
LEMMA EmitBeforeOutput ==
  ASSUME TypeOK, Now \in Nat \ {0},
         NEW text \in Seq(Char), NEW k \in 0..Len(Combined(text)),
         EmitBefore(SubSeq(Combined(text), 1, k))
  PROVE  /\ client' \in Seq(Items)
         /\ clientText' = clientText \o SubSeq(Combined(text), 1, k)
<1> DEFINE h == IF heldEvent # 0 THEN heldText ELSE << >>
           all == Combined(text)
           before == SubSeq(all, 1, k)
           rest == SubSeq(before, Len(h) + 1, Len(before))
<1>1. /\ h \in Seq(Char) /\ all \in Seq(Char) /\ all = h \o text
      /\ Len(h) \in Nat /\ Len(text) \in Nat /\ Len(all) = Len(h) + Len(text)
      /\ TextOf(HeldItem) = h
  <2>1. TextOf(HeldItem) = h /\ h \in Seq(Char)
    BY HeldOutput DEF IsOutput
  <2>2. all \in Seq(Char) /\ all = h \o text
    BY CombinedType
  <2> HIDE DEF h, all
  <2> QED
    BY <2>1, <2>2, ConcatProperties, LenProperties
<1>2. before \in Seq(Char) /\ Len(before) = k
  <2>1. \A i \in 1..k : all[i] \in Char
    BY <1>1, ElementOfSeq
  <2> QED
    BY <1>1, <2>1, SubSeqProperties
<1>3. rest \in Seq(Char)
  <2>1. \A i \in (Len(h) + 1)..Len(before) : before[i] \in Char
    BY <1>1, <1>2, ElementOfSeq
  <2> QED
    BY <1>1, <1>2, <2>1, SubSeqProperties
<1>4. clientText \in Seq(Char) /\ heldEvent \in Nat
  BY DEF TypeOK
<1> HIDE DEF h, all, before, rest
<1>5. CASE heldEvent # 0 /\ Len(before) <= Len(h)
  <2>1. Emit(Rebuilt(heldEvent, before), << >>)
    BY <1>1, <1>5 DEF EmitBefore, before, all
  <2>2. IsOutput(Rebuilt(heldEvent, before), before)
    BY <1>2, <1>4, <1>5, ItemOutput
  <2>3. /\ client' \in Seq(Items)
        /\ clientText' = (clientText \o before) \o << >>
    BY <2>1, <2>2, EmitOutput, NoOutput
  <2>4. clientText \o before \in Seq(Char)
    BY <1>2, <1>4, ConcatProperties
  <2>5. (clientText \o before) \o << >> = clientText \o before
    BY <2>4, ConcatEmptySeq
  <2> QED
    BY <2>3, <2>5 DEF before, all
<1>6. CASE ~(heldEvent # 0 /\ Len(before) <= Len(h))
  <2>1. Emit(HeldItem, Rebuilt(Now, rest))
    BY <1>1, <1>6 DEF EmitBefore, before, all, rest
  <2>0. IsOutput(HeldItem, h) /\ IsOutput(Rebuilt(Now, rest), rest)
    BY <1>3, HeldOutput, ItemOutput DEF h
  <2>2. /\ client' \in Seq(Items)
        /\ clientText' = (clientText \o h) \o rest
    BY <2>0, <2>1, EmitOutput
  <2>3. Len(h) <= k
    BY <1>1, <1>2, <1>6, EmptySeq DEF h
  <2>4. h \o rest = before
    <3>1. SubSeq(before, 1, Len(h)) = h
      <4>1. CASE Len(h) = 0
        BY <4>1, <1>1, EmptySeq, SubSeqEmpty
      <4>2. CASE Len(h) # 0
        <5>1. SubSeq(before, 1, Len(h)) = SubSeq(all, 1, Len(h))
          BY <1>1, <1>2, <2>3, <4>2, SubSeqOfSubSeq DEF before
        <5>2. SubSeq(all, 1, Len(h)) = SubSeq(h, 1, Len(h))
          BY <1>1, <4>2, SubSeqOfConcat1
        <5> QED
          BY <5>1, <5>2, <1>1, SubSeqFull
      <4> QED
        BY <4>1, <4>2
    <3>2. SubSeq(before, 1, Len(h)) \o rest = SubSeq(before, 1, Len(before))
      <4>1. 1 \in 1..(Len(before) + 1) /\ Len(h) \in (1 - 1)..Len(before)
            /\ Len(before) \in Len(h)..Len(before)
        BY <1>1, <1>2, <2>3
      <4> QED
        BY <4>1, <1>2, ConcatAdjacentSubSeq DEF rest
    <3> QED
      BY <3>1, <3>2, <1>2, SubSeqFull
  <2>5. (clientText \o h) \o rest = clientText \o (h \o rest)
    <3>1. clientText \in Seq(Char) /\ h \in Seq(Char) /\ rest \in Seq(Char)
      BY <1>1, <1>3, <1>4
    <3> QED
      BY ONLY <3>1, ConcatChars
  <2> QED
    BY <2>2, <2>4, <2>5 DEF before, all
<1> QED
  BY <1>5, <1>6

----------------------------------------------------------------------------
(* Type correctness                                                         *)

\* What every event handler does to the variables that Send writes.
LEMMA SendType ==
  ASSUME TypeOK, NEW e, Send(e)
  PROVE  /\ e \in Event /\ e.text \in Seq(Char)
         /\ upstream' \in Seq(Event)
         /\ block' \in {"none"} \cup Contents
         /\ sseBuf' = FALSE /\ summary' = summary /\ phase' = phase
         /\ phase = "streaming"
         /\ Now \in Nat \ {0}
<1>1. e \in Event
  BY UpstreamAssumption DEF Send, MaySend
<1>2. upstream' \in Seq(Event)
  BY <1>1, AppendProperties DEF TypeOK, Send
<1>3. Len(upstream) \in Nat
  BY LenProperties DEF TypeOK
<1> QED
  BY <1>1, <1>2, <1>3 DEF Send, MaySend, TypeOK, Event, Now

\* Init and every action keep TypeOK.
LEMMA TypeInit == Init => TypeOK
<1>1. << >> \in Seq(Char) /\ << >> \in Seq(Event) /\ << >> \in Seq(Items)
  BY EmptySeq
<1>2. 0 \in Nat
  OBVIOUS
<1> QED
  BY <1>1, <1>2, Zenon DEF Init, TypeOK

LEMMA TypeNext == TypeOK /\ [Next]_vars => TypeOK'
<1> SUFFICES ASSUME TypeOK, [Next]_vars
             PROVE  TypeOK'
  OBVIOUS
<1>1. CASE WritePartial
  BY <1>1 DEF WritePartial, TypeOK, capture
<1>2. ASSUME NEW e \in Upstream, Forward(e)
      PROVE  TypeOK'
  <2>1. Send(e)
    BY <1>2 DEF Forward
  <2>2. Item(Now, e.text) \in Seq(Items)
    BY <2>1, SendType, ItemOutput DEF IsOutput
  <2>3. client' \in Seq(Items)
    BY <1>2, <2>2, ConcatProperties DEF Forward, TypeOK
  <2>4. inThink' \in BOOLEAN
    BY <1>2 DEF Forward, TypeOK
  <2> QED
    BY <1>2, <2>1, <2>3, <2>4, SendType DEF Forward, TypeOK
<1>3. ASSUME NEW e \in Upstream, TextDelta(e)
      PROVE  /\ Send(e) /\ scanned' \in Seq(Char) /\ inThink' = inThink
             /\ e.text \in Seq(Char)
  BY <1>3, SendType, ConcatProperties DEF TextDelta, TypeOK
<1>4. ASSUME NEW e \in Upstream, DropText(e)
      PROVE  TypeOK'
  BY <1>3, <1>4, SendType DEF DropText, TypeOK
<1>5. ASSUME NEW e \in Upstream, SuppressText(e)
      PROVE  TypeOK'
  <2>1. TextDelta(e)
    BY <1>5 DEF SuppressText
  <2>2. obsBuf \o e.text \in Seq(Char)
    BY <2>1, <1>3, ConcatProperties DEF TypeOK
  <2>3. obsBuf' \in Seq(Char) /\ obsState' \in {"suppressing", "done"}
    BY <1>5, <2>2, CutProperties, TagAssumption DEF SuppressText, Capture
  <2> QED
    BY <1>3, <1>5, <2>1, <2>3, SendType DEF SuppressText, TypeOK
<1>6. ASSUME NEW e \in Upstream, SearchMiss(e)
      PROVE  TypeOK'
  <2>1. /\ TextDelta(e) /\ Send(e) /\ e.text \in Seq(Char)
        /\ Now \in Nat \ {0}
    BY <1>3, <1>6, SendType DEF SearchMiss
  <2>2. /\ client' \in Seq(Items) /\ clientText' \in Seq(Char)
        /\ heldEvent' \in Nat /\ heldText' \in Seq(Char)
    <3>1. CASE Hold(e)
      BY <3>1, <2>1, EmitOutput, HeldOutput, NoOutput DEF Hold
    <3>2. CASE PassOn(e)
      BY <3>2, <2>1, EmitOutput, HeldOutput, ItemOutput, EmptySeq DEF PassOn
    <3> QED
      BY <3>1, <3>2, <1>6 DEF SearchMiss
  <2> QED
    BY <1>3, <1>6, <2>1, <2>2, SendType DEF SearchMiss, TypeOK
<1>7. ASSUME NEW e \in Upstream, SearchHit(e)
      PROVE  TypeOK'
  <2> DEFINE all == Combined(e.text)
  <2>1. /\ TextDelta(e) /\ Send(e) /\ e.text \in Seq(Char)
        /\ Now \in Nat \ {0}
    BY <1>3, <1>7, SendType DEF SearchHit
  <2>2. all \in Seq(Char) /\ After(all, OpenTag) \in Seq(Char)
    BY <2>1, CombinedType, CutProperties, TagAssumption
  <2>3. obsBuf' \in Seq(Char) /\ obsState' \in {"suppressing", "done"}
    BY <1>7, <2>2, CutProperties, TagAssumption DEF SearchHit, Capture
  <2>4. client' \in Seq(Items) /\ clientText' \in Seq(Char)
    <3>1. FirstAt(all, OpenTag) \in 1..Len(all) /\ Len(all) \in Nat
      BY <1>7, <2>2, FirstAtProperties, TagAssumption, LenProperties DEF SearchHit
    <3> DEFINE k == FirstAt(all, OpenTag) - 1
    <3>2. k \in 0..Len(all)
      BY <3>1
    <3>3. EmitBefore(SubSeq(all, 1, k))
      BY <1>7 DEF SearchHit, Before
    <3>4. SubSeq(all, 1, k) \in Seq(Char)
      BY <1>7, <2>2, CutProperties, TagAssumption DEF SearchHit, Before
    <3> HIDE DEF k
    <3>5. /\ client' \in Seq(Items)
          /\ clientText' = clientText \o SubSeq(all, 1, k)
      BY <2>1, <3>2, <3>3, EmitBeforeOutput
    <3> QED
      BY <3>4, <3>5, ConcatProperties DEF TypeOK
  <2> QED
    BY <1>3, <1>7, <2>1, <2>3, <2>4, SendType, EmptySeq DEF SearchHit, TypeOK
<1>8. CASE Finalize
  <2>1. summary' \in Seq(Char)
    BY <1>8, TrimSpaceType DEF Finalize, TypeOK
  <2>2. IsOutput(Fragment, << >>)
    <3>1. Now \in Nat \ {0}
      BY LenProperties DEF Now, TypeOK
    <3> QED
      BY <3>1, ItemOutput, NoOutput, EmptySeq DEF Fragment
  <2>3. /\ client' \in Seq(Items) /\ clientText' \in Seq(Char)
        /\ heldEvent' \in Nat
    <3>1. CASE heldEvent # 0 /\ obsState = "searching"
      <4>1. PICK text \in Decodable : Emit(Fragment, Item(heldEvent, text))
        BY <1>8, <3>1 DEF Finalize
      <4>2. text \in Seq(Char) /\ heldEvent \in Nat \ {0}
        BY <3>1, EmptySeq DEF Decodable, TypeOK
      <4> QED
        BY <1>8, <3>1, <4>1, <4>2, <2>2, EmitOutput, ItemOutput DEF Finalize
    <3>2. CASE ~(heldEvent # 0 /\ obsState = "searching")
      BY <1>8, <3>2, <2>2, EmitOutput, NoOutput DEF Finalize, TypeOK
    <3> QED
      BY <3>1, <3>2
  <2> QED
    BY <1>8, <2>1, <2>3 DEF Finalize, TypeOK
<1>9. CASE UNCHANGED vars
  BY <1>9 DEF vars, capture, TypeOK
<1> QED
  BY <1>1, <1>2, <1>4, <1>5, <1>6, <1>7, <1>8, <1>9 DEF Next, HandleEvent

\* Every variable keeps to its type.
THEOREM TypeCorrect == Spec => []TypeOK
BY TypeInit, TypeNext, PTL DEF Spec

----------------------------------------------------------------------------
(* No text is lost, and the answer is cut at a tag, however the text is     *)
(* divided into events.                                                     *)

\* The inductive invariant: the two properties, what the capture keeps while
\* it searches, and the client's text being the beginning of the answer.
CutInv ==
  /\ TypeOK
  /\ (phase = "streaming" /\ heldEvent = 0) => heldText = << >>
  /\ heldEvent # 0 => obsState = "searching"
  /\ obsState = "searching" =>
       obsBuf = << >> /\ IsPrefix(clientText, scanned)
  /\ NoTextLost
  /\ CutAtTag

LEMMA CutInit == Init => CutInv
<1> SUFFICES ASSUME Init
             PROVE  CutInv
  OBVIOUS
<1>1. TypeOK /\ << >> \in Seq(Char)
  BY TypeInit, EmptySeq
<1>2. << >> \o << >> = << >> /\ IsPrefix(<< >>, << >>)
  BY <1>1, ConcatEmptySeq, PrefixOfConcat
<1> QED
  BY <1>1, <1>2 DEF Init, CutInv, NoTextLost, CutAtTag

\* An event that is not answer text.
LEMMA CutOther ==
  ASSUME CutInv, TypeOK', phase = "streaming",
         UNCHANGED << obsState, heldEvent, heldText, obsBuf, phase,
                      scanned, clientText >>
  PROVE  CutInv'
BY DEF CutInv, NoTextLost, CutAtTag

\* A place where the answer was cut stays one as the answer grows.
LEMMA CutStays ==
  ASSUME NEW text \in Seq(Char), scanned \in Seq(Char),
         scanned' = scanned \o text, NEW i \in Occurrences(scanned, OpenTag)
  PROVE  LET rest == SubSeq(scanned, i + Len(OpenTag), Len(scanned))
         IN  /\ i \in Occurrences(scanned', OpenTag)
             /\ SubSeq(scanned', 1, i - 1) = SubSeq(scanned, 1, i - 1)
             /\ SubSeq(scanned', i + Len(OpenTag), Len(scanned')) = rest \o text
             /\ rest \in Seq(Char)
<1> DEFINE all == scanned \o text
<1>1. OpenTag \in Seq(Char) /\ OpenTag # << >>
  BY TagAssumption
<1>2. /\ i \in Occurrences(all, OpenTag)
      /\ SubSeq(all, 1, i - 1) = SubSeq(scanned, 1, i - 1)
      /\ SubSeq(all, i + Len(OpenTag), Len(all))
           = SubSeq(scanned, i + Len(OpenTag), Len(scanned)) \o text
      /\ SubSeq(scanned, i + Len(OpenTag), Len(scanned)) \in Seq(Char)
  BY <1>1, OccurrenceGrows
<1>3. scanned' = all
  OBVIOUS
<1> HIDE DEF all
<1> QED
  BY <1>2, <1>3

LEMMA CutDropText ==
  ASSUME CutInv, TypeOK', NEW e \in Upstream, DropText(e)
  PROVE  CutInv'
<1>1. /\ obsState = "done" /\ scanned' = scanned \o e.text
      /\ UNCHANGED << obsState, heldEvent, heldText, obsBuf, phase, clientText >>
      /\ e.text \in Seq(Char) /\ scanned \in Seq(Char) /\ heldEvent = 0
  BY SendType DEF DropText, TextDelta, CutInv, TypeOK
<1>2. PICK i \in Occurrences(scanned, OpenTag) :
        LET rest == SubSeq(scanned, i + Len(OpenTag), Len(scanned))
        IN  /\ clientText = SubSeq(scanned, 1, i - 1)
            /\ obsState = "done" <=> Occurs(rest, CloseTag)
            /\ obsBuf = Before(rest, CloseTag)
  BY <1>1 DEF CutInv, CutAtTag
<1> DEFINE rest == SubSeq(scanned, i + Len(OpenTag), Len(scanned))
<1>3. /\ i \in Occurrences(scanned', OpenTag)
      /\ SubSeq(scanned', 1, i - 1) = SubSeq(scanned, 1, i - 1)
      /\ SubSeq(scanned', i + Len(OpenTag), Len(scanned')) = rest \o e.text
      /\ rest \in Seq(Char)
  BY <1>1, CutStays
<1> HIDE DEF rest
<1>4. Occurs(rest, CloseTag)
  BY <1>1, <1>2 DEF rest
<1>5. /\ Occurs(rest \o e.text, CloseTag)
      /\ Before(rest \o e.text, CloseTag) = Before(rest, CloseTag)
  BY <1>1, <1>3, <1>4, CutGrows, TagAssumption
<1>6. CutAtTag'
  BY <1>1, <1>2, <1>3, <1>4, <1>5 DEF CutAtTag, rest
<1> QED
  BY <1>1, <1>6 DEF CutInv, NoTextLost

LEMMA CutSuppressText ==
  ASSUME CutInv, TypeOK', NEW e \in Upstream, SuppressText(e)
  PROVE  CutInv'
<1>1. /\ obsState = "suppressing" /\ scanned' = scanned \o e.text
      /\ UNCHANGED << heldEvent, heldText, phase, clientText >>
      /\ Capture(obsBuf \o e.text)
      /\ e.text \in Seq(Char) /\ scanned \in Seq(Char) /\ heldEvent = 0
  BY SendType DEF SuppressText, TextDelta, CutInv, TypeOK
<1>2. PICK i \in Occurrences(scanned, OpenTag) :
        LET rest == SubSeq(scanned, i + Len(OpenTag), Len(scanned))
        IN  /\ clientText = SubSeq(scanned, 1, i - 1)
            /\ obsState = "done" <=> Occurs(rest, CloseTag)
            /\ obsBuf = Before(rest, CloseTag)
  BY <1>1 DEF CutInv, CutAtTag
<1> DEFINE rest == SubSeq(scanned, i + Len(OpenTag), Len(scanned))
<1>3. /\ i \in Occurrences(scanned', OpenTag)
      /\ SubSeq(scanned', 1, i - 1) = SubSeq(scanned, 1, i - 1)
      /\ SubSeq(scanned', i + Len(OpenTag), Len(scanned')) = rest \o e.text
      /\ rest \in Seq(Char)
  BY <1>1, CutStays
<1> HIDE DEF rest
<1>4. obsBuf = rest
  BY <1>1, <1>2 DEF rest, Before
<1>5. /\ obsBuf' = Before(rest \o e.text, CloseTag)
      /\ obsState' = "done" <=> Occurs(rest \o e.text, CloseTag)
      /\ obsState' \in {"suppressing", "done"}
  BY <1>1, <1>4 DEF Capture
<1>6. CutAtTag'
  BY <1>1, <1>2, <1>3, <1>5 DEF CutAtTag, rest
<1> QED
  BY <1>1, <1>5, <1>6 DEF CutInv, NoTextLost

\* What the capture holds and has sent, while it searches.
LEMMA SearchingText ==
  ASSUME CutInv, phase = "streaming", obsState = "searching",
         NEW text \in Seq(Char)
  PROVE  /\ scanned = clientText \o heldText
         /\ heldText = IF heldEvent # 0 THEN heldText ELSE << >>
         /\ Combined(text) = heldText \o text
         /\ clientText \in Seq(Char) /\ heldText \in Seq(Char)
         /\ scanned \in Seq(Char)
BY CombinedType DEF CutInv, NoTextLost, TypeOK

LEMMA CutSearchMiss ==
  ASSUME CutInv, TypeOK', NEW e \in Upstream, SearchMiss(e)
  PROVE  CutInv'
<1>1. /\ obsState = "searching" /\ scanned' = scanned \o e.text
      /\ phase = "streaming" /\ UNCHANGED << obsState, obsBuf, phase >>
      /\ e.text \in Seq(Char) /\ TypeOK /\ Now \in Nat \ {0}
      /\ obsBuf = << >>
  BY SendType DEF SearchMiss, TextDelta, CutInv
<1>2. /\ scanned = clientText \o heldText
      /\ heldText = IF heldEvent # 0 THEN heldText ELSE << >>
      /\ clientText \in Seq(Char) /\ heldText \in Seq(Char)
      /\ scanned \in Seq(Char) /\ scanned' \in Seq(Char)
  BY <1>1, SearchingText, ConcatProperties
<1>3. IsOutput(HeldItem, heldText)
  BY <1>1, <1>2, HeldOutput
<1>4. CASE Hold(e)
  <2>1. clientText' = (clientText \o heldText) \o << >>
    <3>1. Emit(HeldItem, << >>)
      BY <1>4 DEF Hold
    <3> QED
      BY <1>1, <1>3, <3>1, NoOutput, EmitOutput
  <2>2. clientText' = scanned
    BY <2>1, <1>2, ConcatEmptySeq
  <2>3. clientText' \o heldText' = scanned' /\ heldEvent' # 0
    BY <1>1, <1>4, <2>2 DEF Hold
  <2>4. IsPrefix(clientText', scanned')
    BY <1>1, <1>2, <2>2, PrefixOfConcat
  <2> QED
    BY <1>1, <2>3, <2>4 DEF CutInv, NoTextLost, CutAtTag
<1>5. CASE PassOn(e)
  <2>1. clientText' = (clientText \o heldText) \o e.text
    <3>1. IsOutput(Item(Now, e.text), e.text)
      BY <1>1, ItemOutput
    <3>2. Emit(HeldItem, Item(Now, e.text))
      BY <1>5 DEF PassOn
    <3>3. PICK new, text : new = Item(Now, e.text) /\ text = e.text
      OBVIOUS
    <3>4. clientText' = (clientText \o heldText) \o text
      BY <1>1, <1>3, <3>1, <3>2, <3>3, EmitOutput
    <3> QED
      BY <3>3, <3>4
  <2>2. clientText' = scanned' /\ heldText' = << >> /\ heldEvent' = 0
    BY <2>1, <1>1, <1>2, <1>5 DEF PassOn
  <2>3. clientText' \o heldText' = scanned'
    BY <1>2, <2>2, ConcatEmptySeq
  <2>4. IsPrefix(clientText', scanned')
    BY <1>2, <2>2, PrefixOfConcat, EmptySeq
  <2> QED
    BY <1>1, <2>2, <2>3, <2>4 DEF CutInv, NoTextLost, CutAtTag
<1> QED
  BY <1>4, <1>5 DEF SearchMiss

LEMMA CutSearchHit ==
  ASSUME CutInv, TypeOK', NEW e \in Upstream, SearchHit(e)
  PROVE  CutInv'
<1> DEFINE all == heldText \o e.text
           f == FirstAt(all, OpenTag)
           i == Len(clientText) + f
           rest == After(all, OpenTag)
<1>1. /\ obsState = "searching" /\ scanned' = scanned \o e.text
      /\ phase = "streaming" /\ phase' = phase
      /\ e.text \in Seq(Char) /\ TypeOK /\ Now \in Nat \ {0}
  BY SendType DEF SearchHit, TextDelta, CutInv
<1>2. /\ scanned = clientText \o heldText
      /\ Combined(e.text) = all
      /\ clientText \in Seq(Char) /\ heldText \in Seq(Char)
      /\ scanned \in Seq(Char)
  BY <1>1, SearchingText
<1>3. /\ Occurs(all, OpenTag)
      /\ EmitBefore(Before(all, OpenTag))
      /\ Capture(rest)
      /\ heldEvent' = 0 /\ heldText' = << >>
  BY <1>2 DEF SearchHit
<1>4. /\ all \in Seq(Char) /\ Len(all) \in Nat /\ Len(clientText) \in Nat
      /\ OpenTag \in Seq(Char) /\ OpenTag # << >>
      /\ Len(OpenTag) \in Nat \ {0}
  BY <1>1, <1>2, ConcatProperties, LenProperties, TagAssumption, EmptySeq
<1>5. scanned' = clientText \o all
  <2>0. clientText \in Seq(Char) /\ heldText \in Seq(Char) /\ e.text \in Seq(Char)
    BY <1>1, <1>2
  <2>1. ASSUME NEW t \in Seq(Char)
        PROVE  (clientText \o heldText) \o t = clientText \o (heldText \o t)
    BY <2>0, ConcatChars, Zenon
  <2> QED
    BY <2>0, <2>1, <1>1, <1>2
<1> HIDE DEF all
<1>6. /\ f \in 1..Len(all) /\ OccursAt(all, OpenTag, f)
      /\ f + Len(OpenTag) - 1 <= Len(all)
      /\ Before(all, OpenTag) = SubSeq(all, 1, f - 1)
      /\ rest = SubSeq(all, f + Len(OpenTag), Len(all))
  BY <1>3, <1>4, FirstAtProperties, CutProperties DEF Before, After
<1> HIDE DEF f, rest
<1>7. clientText' = clientText \o SubSeq(all, 1, f - 1)
  <2> DEFINE k == f - 1
  <2>1. k \in 0..Len(Combined(e.text))
    BY <1>2, <1>4, <1>6
  <2>2. EmitBefore(SubSeq(Combined(e.text), 1, k))
    BY <1>2, <1>3, <1>6
  <2> HIDE DEF k
  <2>3. clientText' = clientText \o SubSeq(Combined(e.text), 1, k)
    BY <1>1, <2>1, <2>2, EmitBeforeOutput
  <2> QED
    BY <1>2, <2>3 DEF k
<1>8. i \in Occurrences(scanned', OpenTag)
  <2>1. OccursAt(clientText \o all, OpenTag, i)
    BY <1>2, <1>4, <1>6, OccursAtRight
  <2>2. Len(clientText \o all) = Len(clientText) + Len(all)
    BY <1>2, <1>4, ConcatProperties
  <2>3. i \in 1..Len(clientText \o all)
    BY <1>4, <1>6, <2>2
  <2> QED
    BY <1>5, <2>1, <2>3 DEF Occurrences
<1>9. clientText' = SubSeq(scanned', 1, i - 1)
  <2>1. /\ f \in 1..(Len(all) + 1)
        /\ clientText \in Seq(Char) /\ all \in Seq(Char)
    BY <1>2, <1>4, <1>6
  <2>2. SubSeq(clientText \o all, 1, Len(clientText) + f - 1)
          = clientText \o SubSeq(all, 1, f - 1)
    BY <2>1, SubSeqShift
  <2>3. Len(clientText) + f - 1 = i - 1
    BY <1>4, <1>6
  <2> HIDE DEF i
  <2> QED
    BY <2>2, <2>3, <1>5, <1>7
<1>10. SubSeq(scanned', i + Len(OpenTag), Len(scanned')) = rest
  <2> DEFINE m == f + Len(OpenTag)
  <2>1. /\ m \in 1..(Len(all) + 1)
        /\ clientText \in Seq(Char) /\ all \in Seq(Char)
    BY <1>2, <1>4, <1>6
  <2>2. Len(clientText) + m = i + Len(OpenTag)
    BY <1>4, <1>6
  <2> HIDE DEF m, i
  <2>3. SubSeq(clientText \o all, Len(clientText) + m, Len(clientText \o all))
          = SubSeq(all, m, Len(all))
    BY <2>1, SubSeqShift
  <2>4. SubSeq(all, m, Len(all)) = rest
    BY <1>6 DEF m
  <2> QED
    BY <2>2, <2>3, <2>4, <1>5
<1> HIDE DEF i
<1>11. /\ obsBuf' = Before(rest, CloseTag)
       /\ obsState' = "done" <=> Occurs(rest, CloseTag)
       /\ obsState' # "searching"
  BY <1>3 DEF Capture
<1>12. CutAtTag'
  BY <1>8, <1>9, <1>10, <1>11 DEF CutAtTag
<1> QED
  BY <1>1, <1>3, <1>11, <1>12 DEF CutInv, NoTextLost

LEMMA CutFinalize ==
  ASSUME CutInv, TypeOK', Finalize
  PROVE  CutInv'
<1>1. /\ phase = "streaming" /\ phase' = "finalized"
      /\ UNCHANGED << obsState, heldText, obsBuf, sseBuf, scanned >>
      /\ TypeOK /\ heldText \in Seq(Char) /\ clientText \in Seq(Char)
      /\ heldEvent \in Nat /\ scanned \in Seq(Char)
  BY DEF Finalize, CutInv, TypeOK
<1>2. IsOutput(Fragment, << >>)
  <2>1. Now \in Nat \ {0}
    BY <1>1, LenProperties DEF Now, TypeOK
  <2> QED
    BY <2>1, ItemOutput, NoOutput, EmptySeq DEF Fragment
<1>3. CASE heldEvent # 0 /\ obsState = "searching"
  <2>1. PICK text \in Decodable : Emit(Fragment, Item(heldEvent, text))
    BY <1>3 DEF Finalize
  <2>2. /\ text \in Seq(Char) /\ text \in {heldText, << >>}
        /\ ~sseBuf => text = heldText
    BY <1>1, EmptySeq DEF Decodable
  <2>3. clientText' = (clientText \o << >>) \o text
    <3>1. IsOutput(Item(heldEvent, text), text)
      BY <1>1, <1>3, <2>2, ItemOutput
    <3>2. TypeOK
      BY <1>1
    <3> DEFINE a == Fragment
               b == Item(heldEvent, text)
               s == << >>
    <3>3. IsOutput(a, s) /\ IsOutput(b, text) /\ Emit(a, b)
      BY <1>2, <2>1, <3>1
    <3> HIDE DEF a, b, s
    <3>4. clientText' = (clientText \o s) \o text
      BY <3>2, <3>3, EmitOutput
    <3> QED
      BY <3>4 DEF s
  <2>4. clientText' = clientText \o text
    BY <1>1, <2>3, ConcatEmptySeq
  <2>5. scanned = clientText \o heldText
    BY <1>1, <1>3 DEF CutInv, NoTextLost
  <2>6. IsPrefix(clientText', scanned)
    <3>1. clientText \o << >> = clientText
      BY <1>1, ConcatEmptySeq
    <3> QED
      BY <1>1, <2>2, <2>4, <2>5, <3>1, PrefixOfConcat, EmptySeq
  <2>7. heldEvent' = 0
    BY <1>3 DEF Finalize
  <2> QED
    BY <1>1, <1>3, <2>2, <2>4, <2>5, <2>6, <2>7 DEF CutInv, NoTextLost, CutAtTag
<1>4. CASE ~(heldEvent # 0 /\ obsState = "searching")
  <2>1. Emit(Fragment, << >>) /\ heldEvent' = heldEvent
    BY <1>4 DEF Finalize
  <2>2. clientText' = (clientText \o << >>) \o << >>
    BY <1>1, <1>2, <2>1, NoOutput, EmitOutput
  <2>3. clientText' = clientText
    BY <1>1, <2>2, ConcatEmptySeq
  <2>4. heldEvent = 0 /\ heldText = << >>
    BY <1>1, <1>4 DEF CutInv
  <2>5. obsState = "searching" => clientText = scanned
    BY <1>1, <2>4, ConcatEmptySeq DEF CutInv, NoTextLost
  <2> QED
    BY <1>1, <2>1, <2>3, <2>4, <2>5 DEF CutInv, NoTextLost, CutAtTag
<1> QED
  BY <1>3, <1>4

LEMMA CutNext == CutInv /\ [Next]_vars => CutInv'
<1> SUFFICES ASSUME CutInv, [Next]_vars
             PROVE  CutInv'
  OBVIOUS
<1>1. TypeOK'
  BY TypeNext DEF CutInv
<1>2. CASE WritePartial
  BY <1>1, <1>2, CutOther DEF WritePartial, capture
<1>3. ASSUME NEW e \in Upstream, Forward(e)
      PROVE  CutInv'
  BY <1>1, <1>3, CutOther DEF Forward, Send, MaySend
<1>4. CASE UNCHANGED vars
  BY <1>1, <1>4 DEF vars, capture, CutInv, NoTextLost, CutAtTag
<1> QED
  BY <1>1, <1>2, <1>3, <1>4, CutDropText, CutSuppressText, CutSearchMiss,
     CutSearchHit, CutFinalize DEF Next, HandleEvent

\* No answer text is lost or repeated while no tag has been found, and none
\* is held back at the end of a response that did not break off.
THEOREM NoTextLostAlways == Spec => []NoTextLost
<1>1. CutInv => NoTextLost
  BY DEF CutInv
<1> QED
  BY <1>1, CutInit, CutNext, PTL DEF Spec

\* However the answer is divided into events, once the capture has found a
\* tag the answer is cut at an occurrence of it, and the captured text is
\* what lies between that tag and the closing tag.
THEOREM CutAtTagAlways == Spec => []CutAtTag
<1>1. CutInv => CutAtTag
  BY DEF CutInv
<1> QED
  BY <1>1, CutInit, CutNext, PTL DEF Spec

----------------------------------------------------------------------------
(* Deltas at least as long as the opening tag less one character: the       *)
(* answer is cut at the first tag, and the capture implements ObsStrip.     *)

\* The text searched for the tag always begins where a tag might: no tag
\* begins in what the client already has.  That is so because the held text is
\* long enough to hold all of a tag but its last character, and when nothing
\* is held the answer does not end with part of a tag.
Searched ==
  (obsState = "searching" /\ phase = "streaming") =>
    IF heldEvent # 0
    THEN Len(heldText) >= Len(OpenTag) - 1
    ELSE \A k \in 1..(Len(OpenTag) - 1) : ~EndsWithPrefix(scanned, OpenTag, k)

\* The captured text is always what follows the first tag, up to the first
\* closing tag behind it.
CutAtFirst ==
  /\ obsState = "searching" <=> ~Occurs(scanned, OpenTag)
  /\ obsState = "done" <=> Occurs(After(scanned, OpenTag), CloseTag)
  /\ obsBuf = Before(After(scanned, OpenTag), CloseTag)
  /\ obsState # "searching" => clientText = Before(scanned, OpenTag)

SummaryInv ==
  summary = IF phase = "streaming" THEN << >> ELSE TrimSpace(obsBuf, Space)

StripInv == CutInv /\ Searched /\ CutAtFirst /\ SummaryInv

\* An event that is not answer text.
LEMMA StripOther ==
  ASSUME StripInv, CutInv',
         UNCHANGED << obsState, heldEvent, heldText, obsBuf, phase,
                      scanned, clientText, summary >>
  PROVE  StripInv'
BY DEF StripInv, Searched, CutAtFirst, SummaryInv

LEMMA StripInit == Init => StripInv
<1> SUFFICES ASSUME Init
             PROVE  StripInv
  OBVIOUS
<1>1. CutInv
  BY CutInit
<1>2. \A k \in 1..(Len(OpenTag) - 1) : ~EndsWithPrefix(<< >>, OpenTag, k)
  BY TagAssumption DEF EndsWithPrefix
<1> QED
  BY <1>1, <1>2, NoTagInNothing
    DEF Init, StripInv, Searched, CutAtFirst, SummaryInv

LEMMA StripDropText ==
  ASSUME StripInv, CutInv', NEW e \in Upstream, DropText(e)
  PROVE  StripInv'
<1> DEFINE rest == After(scanned, OpenTag)
<1>1. /\ obsState = "done" /\ scanned' = scanned \o e.text
      /\ UNCHANGED << obsState, heldEvent, heldText, obsBuf, phase, clientText,
                      summary >>
      /\ e.text \in Seq(Char) /\ scanned \in Seq(Char)
  BY SendType DEF DropText, TextDelta, StripInv, CutInv, TypeOK
<1>2. /\ Occurs(scanned, OpenTag) /\ Occurs(rest, CloseTag)
      /\ obsBuf = Before(rest, CloseTag)
      /\ clientText = Before(scanned, OpenTag)
  BY <1>1 DEF StripInv, CutAtFirst
<1>3. /\ Occurs(scanned', OpenTag)
      /\ Before(scanned', OpenTag) = Before(scanned, OpenTag)
      /\ After(scanned', OpenTag) = rest \o e.text
      /\ rest \in Seq(Char)
  BY <1>1, <1>2, CutGrows, CutProperties, TagAssumption
<1> HIDE DEF rest
<1>4. /\ Occurs(rest \o e.text, CloseTag)
      /\ Before(rest \o e.text, CloseTag) = Before(rest, CloseTag)
  BY <1>1, <1>2, <1>3, CutGrows, TagAssumption
<1> QED
  BY <1>1, <1>2, <1>3, <1>4 DEF StripInv, Searched, CutAtFirst, SummaryInv

LEMMA StripSuppressText ==
  ASSUME StripInv, CutInv', NEW e \in Upstream, SuppressText(e)
  PROVE  StripInv'
<1> DEFINE rest == After(scanned, OpenTag)
<1>1. /\ obsState = "suppressing" /\ scanned' = scanned \o e.text
      /\ UNCHANGED << heldEvent, heldText, phase, clientText, summary >>
      /\ Capture(obsBuf \o e.text) /\ phase = "streaming"
      /\ e.text \in Seq(Char) /\ scanned \in Seq(Char)
  BY SendType DEF SuppressText, TextDelta, StripInv, CutInv, TypeOK
<1>2. /\ Occurs(scanned, OpenTag) /\ ~Occurs(rest, CloseTag)
      /\ obsBuf = Before(rest, CloseTag)
      /\ clientText = Before(scanned, OpenTag)
  BY <1>1 DEF StripInv, CutAtFirst
<1>3. /\ Occurs(scanned', OpenTag)
      /\ Before(scanned', OpenTag) = Before(scanned, OpenTag)
      /\ After(scanned', OpenTag) = rest \o e.text
  BY <1>1, <1>2, CutGrows, TagAssumption
<1> HIDE DEF rest
<1>4. obsBuf = rest
  BY <1>2 DEF Before
<1>5. /\ obsBuf' = Before(rest \o e.text, CloseTag)
      /\ obsState' = "done" <=> Occurs(rest \o e.text, CloseTag)
      /\ obsState' \in {"suppressing", "done"}
  BY <1>1, <1>4 DEF Capture
<1>6. CutAtFirst'
  BY <1>1, <1>2, <1>3, <1>5 DEF CutAtFirst
<1>7. Searched' /\ SummaryInv'
  BY <1>1, <1>5 DEF StripInv, Searched, SummaryInv
<1> QED
  BY <1>6, <1>7 DEF StripInv

\* While the capture searches, cutting the whole answer is cutting what it
\* has at hand: the held text and the new one.
LEMMA SearchIsLocal ==
  ASSUME StripInv, phase = "streaming", obsState = "searching",
         NEW text \in Seq(Char)
  PROVE  LET all == Combined(text)
             whole == scanned \o text
         IN  /\ all \in Seq(Char)
             /\ Occurs(whole, OpenTag) <=> Occurs(all, OpenTag)
             /\ Before(whole, OpenTag) = clientText \o Before(all, OpenTag)
             /\ After(whole, OpenTag) = After(all, OpenTag)
<1> DEFINE all == heldText \o text
<1>1. /\ scanned = clientText \o heldText
      /\ heldText = IF heldEvent # 0 THEN heldText ELSE << >>
      /\ Combined(text) = all
      /\ clientText \in Seq(Char) /\ heldText \in Seq(Char)
      /\ scanned \in Seq(Char)
  BY SearchingText DEF StripInv
<1>2. OpenTag \in Seq(Char) /\ OpenTag # << >> /\ all \in Seq(Char)
  BY <1>1, TagAssumption, ConcatProperties
<1>3. scanned \o text = clientText \o all
  <2>1. (clientText \o heldText) \o text = clientText \o (heldText \o text)
    <3>1. clientText \in Seq(Char) /\ heldText \in Seq(Char) /\ text \in Seq(Char)
      BY <1>1
    <3> QED
      BY ONLY <3>1, ConcatChars
  <2> QED
    BY <1>1, <2>1
<1>4. ~Occurs(scanned, OpenTag)
  BY DEF StripInv, CutAtFirst
<1>5. \A i \in Occurrences(clientText \o all, OpenTag) : i > Len(clientText)
  <2>1. CASE heldEvent # 0
    <3>1. Len(heldText) >= Len(OpenTag) - 1 /\ ~Occurs(clientText \o heldText, OpenTag)
      BY <1>1, <1>4, <2>1 DEF StripInv, Searched
    <3> QED
      BY <3>1, <1>1, <1>2, NoSpan
  <2>2. CASE heldEvent = 0
    <3>1. heldText = << >> /\ all = text /\ scanned = clientText
      BY <1>1, <2>2, ConcatEmptySeq
    <3>2. \A k \in 1..(Len(OpenTag) - 1) : ~EndsWithPrefix(clientText, OpenTag, k)
      BY <2>2, <3>1 DEF StripInv, Searched
    <3> HIDE DEF all
    <3>3. \A i \in Occurrences(clientText \o text, OpenTag) : i > Len(clientText)
      BY <1>1, <1>2, <1>4, <3>1, <3>2, NoTailNoSpan
    <3> QED
      BY <3>1, <3>3
  <2> QED
    BY <2>1, <2>2
<1> HIDE DEF all
<1>6. /\ Occurs(clientText \o all, OpenTag) <=> Occurs(all, OpenTag)
      /\ Before(clientText \o all, OpenTag) = clientText \o Before(all, OpenTag)
      /\ After(clientText \o all, OpenTag) = After(all, OpenTag)
  BY <1>1, <1>2, <1>5, CutShift
<1> QED
  BY <1>1, <1>2, <1>3, <1>6

LEMMA StripSearchMiss ==
  ASSUME LongDeltas, StripInv, CutInv', NEW e \in Upstream, SearchMiss(e)
  PROVE  StripInv'
<1>1. /\ obsState = "searching" /\ scanned' = scanned \o e.text
      /\ phase = "streaming" /\ UNCHANGED << obsState, obsBuf, phase, summary >>
      /\ e.text \in Seq(Char) /\ scanned \in Seq(Char) /\ Now \in Nat \ {0}
      /\ ~Occurs(Combined(e.text), OpenTag) /\ IsScanned(e)
  BY SendType DEF SearchMiss, TextDelta, StripInv, CutInv, TypeOK
<1>2. ~Occurs(scanned', OpenTag)
  BY <1>1, SearchIsLocal
<1>3. /\ ~Occurs(scanned, OpenTag)
      /\ After(scanned', OpenTag) = After(scanned, OpenTag)
  BY <1>1, <1>2 DEF StripInv, CutAtFirst, After
<1>4. Len(e.text) >= Len(OpenTag) - 1
  BY <1>1 DEF LongDeltas, IsScanned
<1>5. Searched'
  <2>1. CASE Hold(e)
    BY <1>1, <1>4, <2>1 DEF Hold, Searched
  <2>2. CASE PassOn(e)
    <3>1. ASSUME NEW k \in 1..(Len(OpenTag) - 1)
          PROVE  ~EndsWithPrefix(scanned', OpenTag, k)
      <4>1. /\ k \in Nat /\ k \in 1..Len(OpenTag) /\ k <= Len(e.text)
            /\ OpenTag \in Seq(Char) /\ e.text \in Seq(Char)
        BY <1>1, <1>4, TagAssumption, LenProperties
      <4>2. ~EndsWithPrefix(e.text, OpenTag, k)
        BY <2>2, <4>1 DEF PassOn, HasSuspiciousTail
      <4>3. EndsWithPrefix(scanned \o e.text, OpenTag, k)
              <=> EndsWithPrefix(e.text, OpenTag, k)
        BY <1>1, <4>1, TailIsLocal
      <4> QED
        BY <1>1, <4>2, <4>3
    <3>2. heldEvent' = 0
      BY <2>2 DEF PassOn
    <3> QED
      BY <3>1, <3>2 DEF Searched
  <2> QED
    BY <2>1, <2>2 DEF SearchMiss
<1>6. CutAtFirst' /\ SummaryInv'
  BY <1>1, <1>2, <1>3 DEF StripInv, CutAtFirst, SummaryInv
<1> QED
  BY <1>5, <1>6 DEF StripInv

LEMMA StripSearchHit ==
  ASSUME StripInv, CutInv', NEW e \in Upstream, SearchHit(e)
  PROVE  StripInv'
<1> DEFINE all == Combined(e.text)
           rest == After(all, OpenTag)
<1>1. /\ obsState = "searching" /\ scanned' = scanned \o e.text
      /\ phase = "streaming" /\ UNCHANGED << phase, summary >>
      /\ e.text \in Seq(Char) /\ Now \in Nat \ {0} /\ TypeOK
      /\ Occurs(all, OpenTag) /\ Capture(rest)
      /\ EmitBefore(Before(all, OpenTag))
  BY SendType DEF SearchHit, TextDelta, StripInv, CutInv
<1>2. /\ all \in Seq(Char) /\ Occurs(scanned', OpenTag)
      /\ Before(scanned', OpenTag) = clientText \o Before(all, OpenTag)
      /\ After(scanned', OpenTag) = rest
  BY <1>1, SearchIsLocal
<1>3. clientText' = clientText \o Before(all, OpenTag)
  <2> DEFINE k == FirstAt(all, OpenTag) - 1
  <2>1. FirstAt(all, OpenTag) \in 1..Len(all) /\ Len(all) \in Nat
    BY <1>1, <1>2, FirstAtProperties, TagAssumption, LenProperties
  <2>2. k \in 0..Len(all)
    BY <2>1
  <2>3. Before(all, OpenTag) = SubSeq(all, 1, k)
    BY <1>1 DEF Before
  <2> HIDE DEF k
  <2> QED
    BY <1>1, <2>2, <2>3, EmitBeforeOutput
<1> HIDE DEF rest
<1>4. /\ obsBuf' = Before(rest, CloseTag)
      /\ obsState' = "done" <=> Occurs(rest, CloseTag)
      /\ obsState' \in {"suppressing", "done"}
  BY <1>1 DEF Capture
<1> QED
  BY <1>1, <1>2, <1>3, <1>4 DEF StripInv, Searched, CutAtFirst, SummaryInv

LEMMA StripFinalize ==
  ASSUME StripInv, CutInv', Finalize
  PROVE  StripInv'
<1>1. /\ phase = "streaming" /\ phase' = "finalized"
      /\ UNCHANGED << obsState, obsBuf, scanned >>
      /\ summary' = TrimSpace(obsBuf, Space)
  BY DEF Finalize
<1>2. obsState # "searching" => clientText' = clientText
  <2>1. ASSUME obsState # "searching"
        PROVE  clientText' = clientText
    <3>1. Emit(Fragment, << >>)
      BY <2>1 DEF Finalize
    <3>2. clientText \in Seq(Char) /\ TextOf(Fragment) = << >>
      BY DEF StripInv, CutInv, TypeOK, TextOf, Fragment, Item
    <3> QED
      BY <3>1, <3>2, ConcatEmptySeq DEF Emit, TextOf
  <2> QED
    BY <2>1
<1> QED
  BY <1>1, <1>2 DEF StripInv, Searched, CutAtFirst, SummaryInv

LEMMA StripNext == ASSUME LongDeltas PROVE StripInv /\ [Next]_vars => StripInv'
<1> SUFFICES ASSUME StripInv, [Next]_vars
             PROVE  StripInv'
  OBVIOUS
<1>1. CutInv'
  BY CutNext DEF StripInv
<1>2. CASE WritePartial
  BY <1>1, <1>2, StripOther DEF WritePartial, capture
<1>3. ASSUME NEW e \in Upstream, Forward(e)
      PROVE  StripInv'
  BY <1>1, <1>3, StripOther DEF Forward, Send
<1>4. CASE UNCHANGED vars
  BY <1>1, <1>4, StripOther DEF vars, capture
<1> QED
  BY <1>1, <1>2, <1>3, <1>4, StripDropText, StripSuppressText,
     StripSearchMiss, StripSearchHit, StripFinalize DEF Next, HandleEvent

\* The client has no more than the text in front of the first tag.
OnlyVisible ==
  /\ IsPrefix(clientText, Before(scanned, OpenTag))
  /\ ~Occurs(clientText, OpenTag)

LEMMA ClientSeesVisible == StripInv => OnlyVisible
<1> SUFFICES ASSUME StripInv
             PROVE  /\ IsPrefix(clientText, Before(scanned, OpenTag))
                    /\ ~Occurs(clientText, OpenTag)
  BY DEF OnlyVisible
<1>1. clientText \in Seq(Char) /\ scanned \in Seq(Char)
  BY DEF StripInv, CutInv, TypeOK
<1>2. CASE obsState = "searching"
  <2>1. /\ ~Occurs(scanned, OpenTag) /\ Before(scanned, OpenTag) = scanned
        /\ IsPrefix(clientText, scanned)
    BY <1>2 DEF StripInv, CutInv, CutAtFirst, Before
  <2> QED
    BY <1>1, <2>1, NoTagInPrefix, TagAssumption
<1>3. CASE obsState # "searching"
  <2>1. clientText = Before(scanned, OpenTag)
    BY <1>3 DEF StripInv, CutAtFirst
  <2> QED
    BY <1>1, <2>1, PrefixOfConcat, NoTagBefore, TagAssumption
<1> QED
  BY <1>2, <1>3

\* When every piece of answer text has at least one character less than the
\* opening tag, the client never sees the tag: no piece of it that is sent can
\* become the beginning of a tag, however the model divides its answer.
THEOREM TagNeverReachesClient ==
  ASSUME LongDeltas
  PROVE  Spec => []NoTagReachesClient
<1>1. StripInv => NoTagReachesClient
  BY ClientSeesVisible DEF OnlyVisible, NoTagReachesClient
<1> QED
  BY <1>1, StripInit, StripNext, PTL DEF Spec

\* Nothing the client has been sent is taken back or changed.
LEMMA EmitGrows ==
  ASSUME TypeOK, NEW a, NEW b, NEW s, NEW t,
         IsOutput(a, s), IsOutput(b, t), Emit(a, b)
  PROVE  IsPrefix(clientText, clientText')
<1>1. clientText' = (clientText \o s) \o t
  BY EmitOutput
<1>2. clientText \in Seq(Char) /\ s \in Seq(Char) /\ t \in Seq(Char)
  BY DEF TypeOK, IsOutput
<1>3. (clientText \o s) \o t = clientText \o (s \o t)
  BY <1>2, ConcatChars, Zenon
<1>4. s \o t \in Seq(Char)
  BY <1>2, ConcatProperties
<1> QED
  BY <1>1, <1>2, <1>3, <1>4, PrefixOfConcat

LEMMA OutputGrows ==
  ASSUME TypeOK, NEW e \in Upstream, TextDelta(e),
         DropText(e) \/ SuppressText(e) \/ SearchMiss(e) \/ SearchHit(e)
  PROVE  IsPrefix(clientText, clientText')
<1>1. /\ clientText \in Seq(Char) /\ e.text \in Seq(Char)
      /\ Now \in Nat \ {0}
  BY SendType DEF TextDelta, TypeOK
<1>2. CASE DropText(e) \/ SuppressText(e)
  <2>1. clientText' = clientText
    BY <1>2 DEF DropText, SuppressText
  <2> QED
    BY <1>1, <2>1, PrefixOfConcat
<1>3. CASE SearchMiss(e)
  <2>1. CASE Hold(e)
    BY <2>1, HeldOutput, NoOutput, EmitGrows DEF Hold
  <2>2. CASE PassOn(e)
    BY <2>2, <1>1, HeldOutput, ItemOutput, EmitGrows DEF PassOn
  <2> QED
    BY <1>3, <2>1, <2>2 DEF SearchMiss
<1>4. CASE SearchHit(e)
  <2> DEFINE all == Combined(e.text)
             k == FirstAt(all, OpenTag) - 1
  <2>1. all \in Seq(Char) /\ Occurs(all, OpenTag)
    BY <1>1, <1>4, CombinedType DEF SearchHit
  <2>2. FirstAt(all, OpenTag) \in 1..Len(all) /\ Len(all) \in Nat
    BY <2>1, FirstAtProperties, TagAssumption, LenProperties
  <2>3. /\ k \in 0..Len(all) /\ Before(all, OpenTag) = SubSeq(all, 1, k)
        /\ SubSeq(all, 1, k) \in Seq(Char)
    <3>1. Before(all, OpenTag) \in Seq(Char)
      BY <2>1, CutProperties, TagAssumption
    <3> QED
      BY <2>1, <2>2, <3>1 DEF Before
  <2> HIDE DEF k
  <2>4. clientText' = clientText \o SubSeq(all, 1, k)
    BY <1>1, <1>4, <2>3, EmitBeforeOutput DEF SearchHit
  <2> QED
    BY <1>1, <2>3, <2>4, PrefixOfConcat
<1> QED
  BY <1>2, <1>3, <1>4

LEMMA FinalOutputGrows ==
  ASSUME TypeOK, Finalize
  PROVE  IsPrefix(clientText, clientText')
<1>1. IsOutput(Fragment, << >>)
  <2>1. Now \in Nat \ {0}
    BY LenProperties DEF Now, TypeOK
  <2> QED
    BY <2>1, ItemOutput, NoOutput, EmptySeq DEF Fragment
<1>2. CASE heldEvent # 0 /\ obsState = "searching"
  <2>1. PICK text \in Decodable : Emit(Fragment, Item(heldEvent, text))
    BY <1>2 DEF Finalize
  <2>2. text \in Seq(Char) /\ heldEvent \in Nat \ {0}
    BY <1>2, EmptySeq DEF Decodable, TypeOK
  <2>3. IsOutput(Item(heldEvent, text), text)
    BY <2>2, ItemOutput
  <2> QED
    BY <1>1, <2>1, <2>3, EmitGrows
<1>3. CASE ~(heldEvent # 0 /\ obsState = "searching")
  BY <1>1, <1>3, NoOutput, EmitGrows DEF Finalize
<1> QED
  BY <1>2, <1>3

LEMMA ClientStillSeesVisible == StripInv' => OnlyVisible'
BY ClientSeesVisible, PTL

\* ObsStrip looks for the tag in the same way.
LEMMA StripOperators ==
  ASSUME NEW s, NEW t
  PROVE  /\ Strip!IsPrefix(s, t) <=> IsPrefix(s, t)
         /\ Strip!Visible(s) = Before(s, OpenTag)
         /\ Strip!Observation(s)
              = TrimSpace(Before(After(s, OpenTag), CloseTag), Space)
<1>1. ASSUME NEW u, NEW v
      PROVE  /\ Strip!Before(u, v) = Before(u, v)
             /\ Strip!After(u, v) = After(u, v)
  BY DEF Strip!Before, Before, Strip!After, After, Strip!FirstAt, FirstAt,
         Strip!Min, Min, Strip!Occurs, Occurs, Strip!Occurrences, Occurrences,
         Strip!OccursAt, OccursAt
<1>2. ASSUME NEW u
      PROVE  Strip!TrimSpace(u, Space) = TrimSpace(u, Space)
  BY DEF Strip!TrimSpace, TrimSpace, Strip!Min, Min, Strip!Max, Max
<1> QED
  BY <1>1, <1>2 DEF Strip!Visible, Strip!Observation, Strip!IsPrefix, IsPrefix

\* One step of the capture is one step of ObsStrip, or changes nothing that
\* ObsStrip speaks of.
LEMMA StripStep ==
  ASSUME LongDeltas, StripInv, StripInv', [Next]_vars
  PROVE  [Strip!Next]_(Strip!vars)
<1>1. /\ TypeOK /\ clientText \in Seq(Char) /\ scanned \in Seq(Char)
      /\ clientText' \in Seq(Char) /\ scanned' \in Seq(Char)
  BY DEF StripInv, CutInv, TypeOK
<1>2. CASE WritePartial
  <2>1. Status' = Status
    BY <1>2 DEF WritePartial, Status
  <2> QED
    BY <1>2, <2>1 DEF WritePartial, Strip!vars
<1>3. ASSUME NEW e \in Upstream, Forward(e)
      PROVE  Strip!vars' = Strip!vars
  <2>1. Status' = Status
    BY <1>3 DEF Forward, Send, MaySend, Status
  <2> QED
    BY <1>3, <2>1 DEF Forward, Send, Strip!vars
<1>4. ASSUME NEW e \in Upstream,
             DropText(e) \/ SuppressText(e) \/ SearchMiss(e) \/ SearchHit(e)
      PROVE  Strip!Receive
  <2>1. TextDelta(e)
    BY <1>4 DEF DropText, SuppressText, SearchMiss, SearchHit
  <2>2. Status = "open" /\ Status' = "open" /\ summary' = summary
    BY <2>1 DEF TextDelta, Send, MaySend, Status
  <2>3. scanned' = scanned \o e.text
    BY <2>1 DEF TextDelta
  <2>4. IsPrefix(clientText, clientText')
    BY <1>1, <1>4, <2>1, OutputGrows
  <2>5. IsPrefix(clientText', Before(scanned', OpenTag))
    BY ClientStillSeesVisible DEF OnlyVisible
  <2> QED
    BY <2>2, <2>3, <2>4, <2>5, StripOperators DEF Strip!Receive
<1>5. CASE Finalize
  <2>1. /\ Status = "open" /\ Status' = (IF sseBuf THEN "broken" ELSE "complete")
        /\ phase = "streaming" /\ phase' # "streaming"
        /\ summary' = TrimSpace(obsBuf, Space) /\ UNCHANGED << scanned, obsState, sseBuf >>
    BY <1>5 DEF Finalize, Status
  <2>2. summary' = Strip!Observation(scanned)
    BY <2>1, StripOperators DEF StripInv, CutAtFirst
  <2>3. CASE ~sseBuf
    <3>1. clientText' = Before(scanned, OpenTag)
      <4>1. CASE obsState = "searching"
        <5>1. NoTextLost' /\ ~Occurs(scanned, OpenTag)
          BY <4>1 DEF StripInv, CutInv, CutAtFirst
        <5> QED
          BY <2>1, <2>3, <4>1, <5>1 DEF NoTextLost, Before
      <4>2. CASE obsState # "searching"
        BY <2>1, <4>2 DEF StripInv, CutAtFirst
      <4> QED
        BY <4>1, <4>2
    <3> QED
      BY <2>1, <2>2, <2>3, <3>1, StripOperators DEF Strip!Complete, Strip!Next
  <2>4. CASE sseBuf
    <3>1. IsPrefix(clientText, clientText')
      BY <1>1, <1>5, FinalOutputGrows
    <3>2. IsPrefix(clientText', Before(scanned, OpenTag))
      BY <2>1, ClientStillSeesVisible DEF OnlyVisible
    <3> QED
      BY <2>1, <2>2, <2>4, <3>1, <3>2, StripOperators DEF Strip!Break, Strip!Next
  <2> QED
    BY <2>3, <2>4
<1>6. CASE UNCHANGED vars
  <2>1. Status' = Status
    BY <1>6 DEF vars, Status
  <2> QED
    BY <1>6, <2>1 DEF vars, Strip!vars
<1> QED
  BY <1>2, <1>3, <1>4, <1>5, <1>6 DEF Next, HandleEvent, Strip!Next

LEMMA StripStart == Init => Strip!Init
BY DEF Init, Strip!Init, Status

\* The capture implements ObsStrip, what the proxy's README promises of a
\* stream: the client gets the text in front of the first opening tag, all of
\* it by the time the response ends (unless the stream breaks off inside an
\* event), and the text between the tags becomes the summary.
THEOREM CaptureStrips ==
  ASSUME LongDeltas
  PROVE  Spec => StripSpec
<1>1. StripInv /\ StripInv' /\ [Next]_vars => [Strip!Next]_(Strip!vars)
  BY StripStep
<1> QED
  BY <1>1, StripInit, StripNext, StripStart, PTL DEF Spec, StripSpec, Strip!Spec

----------------------------------------------------------------------------
(* Nothing is delayed, changed or overtaken but answer text that may begin  *)
(* the tag.                                                                 *)

\* The capture knows whether it is inside a thinking block.
BlockInv ==
  Format = "anthropic" =>
    /\ inThink <=> block = "thinking"
    /\ block = "thinking" <=> InThinkingBlock(Now)

\* What has been sent came from the backend, and is not what is held back.
SentInv ==
  /\ heldEvent # 0 => phase = "streaming"
  /\ phase = "streaming" =>
       \A i \in DOMAIN client : client[i].id \in (1..Len(upstream)) \ {heldEvent}

\* MayBeOvertaken and OvertakenOnlyWhileHeld, of given answers and events.
Overtakes(n, m, answers, events) ==
  /\ n \in answers /\ HasSuspiciousTail(events[n].text, OpenTag)
  /\ n < m /\ answers \cap n..m = {n}

Placed(items, answers, events) ==
  \A i, j \in DOMAIN items :
    i < j => \/ items[i].id < items[j].id
             \/ Overtakes(items[j].id, items[i].id, answers, events)

LEMMA PlacedClient ==
  /\ OvertakenOnlyWhileHeld <=> Placed(client, Answers, upstream)
  /\ OvertakenOnlyWhileHeld' <=> Placed(client', Answers', upstream')
BY DEF OvertakenOnlyWhileHeld, MayBeOvertaken, Placed, Overtakes

OrderInv == CutInv /\ BlockInv /\ SentInv /\ OnlyHeldTextIsLate

LEMMA OrderInit == Init => OrderInv
<1> SUFFICES ASSUME Init
             PROVE  OrderInv
  OBVIOUS
<1>1. CutInv
  BY CutInit
<1>2. /\ DOMAIN upstream = {} /\ DOMAIN client = {} /\ Now = 1
  BY DEF Init, Now
<1>3. BlockInv
  BY <1>2 DEF Init, BlockInv, InThinkingBlock
<1>4. SentInv
  BY <1>2 DEF Init, SentInv
<1>5. OnlyHeldTextIsLate
  BY <1>2 DEF Init, OnlyHeldTextIsLate, HeldOnlyOnSuspicion, OthersUntouched,
              OvertakenOnlyWhileHeld, Others, Answers
<1> QED
  BY <1>1, <1>3, <1>4, <1>5 DEF OrderInv

\* The events that came before stay what they were.
LEMMA EventSent ==
  ASSUME TypeOK, NEW e, Send(e), NEW n \in Nat \ {0}, n = Now
  PROVE  /\ Len(upstream) = n - 1 /\ DOMAIN upstream = 1..(n - 1)
         /\ DOMAIN upstream' = 1..n
         /\ upstream'[n] = e
         /\ \A m \in 1..(n - 1) : upstream'[m] = upstream[m]
         /\ Now' = n + 1
<1>1. e \in Event /\ upstream \in Seq(Event) /\ Len(upstream) \in Nat
      /\ upstream' = Append(upstream, e)
  BY SendType, LenProperties DEF Send, TypeOK
<1>2. /\ Len(upstream') = Len(upstream) + 1 /\ upstream' \in Seq(Event)
      /\ \A m \in 1..Len(upstream) : upstream'[m] = upstream[m]
      /\ upstream'[Len(upstream) + 1] = e
  BY <1>1, AppendProperties
<1>3. Len(upstream) = n - 1
  BY <1>1 DEF Now
<1> QED
  BY <1>1, <1>2, <1>3, LenProperties DEF Now

LEMMA ThinkingStays ==
  ASSUME TypeOK, NEW e, Send(e), NEW n \in Nat \ {0}, n = Now, NEW m \in 1..n
  PROVE  InThinkingBlock(m)' <=> InThinkingBlock(m)
<1>1. \A k \in 1..(m - 1) : upstream'[k] = upstream[k]
  BY EventSent
<1> QED
  BY <1>1 DEF InThinkingBlock

LEMMA ThinkingNext ==
  ASSUME TypeOK, NEW e, Send(e)
  PROVE  InThinkingBlock(Now)' <=>
           \/ e.kind = "block_start" /\ e.of = "thinking"
           \/ e.kind # "block_stop" /\ InThinkingBlock(Now)
<1>1. PICK n \in Nat \ {0} : n = Now
  BY SendType
<1>2. /\ upstream'[n] = e /\ Now' = n + 1
      /\ \A k \in 1..(n - 1) : upstream'[k] = upstream[k]
  BY <1>1, EventSent
<1> DEFINE Opens(m, ev) == ev[m].kind = "block_start" /\ ev[m].of = "thinking"
<1>3. InThinkingBlock(Now) <=>
        \E m \in 1..(n - 1) : Opens(m, upstream)
          /\ \A k \in (m + 1)..(n - 1) : upstream[k].kind # "block_stop"
  BY <1>1 DEF InThinkingBlock
<1>4. InThinkingBlock(Now)' <=>
        \E m \in 1..n : Opens(m, upstream')
          /\ \A k \in (m + 1)..n : upstream'[k].kind # "block_stop"
  BY <1>1, <1>2 DEF InThinkingBlock
<1>5. 1..n = (1..(n - 1)) \cup {n}
  BY <1>1
<1>6. \A m \in 1..(n - 1) : (m + 1)..n = ((m + 1)..(n - 1)) \cup {n}
  BY <1>1
<1>7. (n + 1)..n = {}
  BY <1>1
<1>8. \A m \in 1..(n - 1) : \A k \in (m + 1)..(n - 1) : k \in 1..(n - 1)
  BY <1>1
<1>9. CASE e.kind = "block_start" /\ e.of = "thinking"
  BY <1>2, <1>4, <1>5, <1>7, <1>9
<1>10. CASE ~(e.kind = "block_start" /\ e.of = "thinking")
  <2>1. InThinkingBlock(Now)' <=>
          \E m \in 1..(n - 1) : Opens(m, upstream')
            /\ \A k \in (m + 1)..n : upstream'[k].kind # "block_stop"
    BY <1>2, <1>4, <1>5, <1>10
  <2>2. ASSUME NEW m \in 1..(n - 1)
        PROVE  (/\ Opens(m, upstream')
                /\ \A k \in (m + 1)..n : upstream'[k].kind # "block_stop")
               <=> /\ e.kind # "block_stop" /\ Opens(m, upstream)
                   /\ \A k \in (m + 1)..(n - 1) : upstream[k].kind # "block_stop"
    BY <1>2, <1>6, <1>8
  <2> HIDE DEF Opens
  <2> QED
    BY <1>3, <1>10, <2>1, <2>2
<1> QED
  BY <1>9, <1>10

\* The capture scans the answer and nothing else.
LEMMA AnswersNext ==
  ASSUME TypeOK, BlockInv, NEW e, Send(e), NEW n \in Nat \ {0}, n = Now
  PROVE  /\ Answers \subseteq 1..(n - 1) /\ Others \subseteq 1..(n - 1)
         /\ Answers' = IF IsScanned(e) THEN Answers \cup {n} ELSE Answers
         /\ Others' = IF IsScanned(e) THEN Others ELSE Others \cup {n}
<1>1. /\ DOMAIN upstream = 1..(n - 1) /\ DOMAIN upstream' = 1..n
      /\ upstream'[n] = e /\ n \notin 1..(n - 1)
      /\ \A m \in 1..(n - 1) : upstream'[m] = upstream[m]
      /\ 1..n = (1..(n - 1)) \cup {n}
  BY EventSent
<1>2. \A m \in 1..n : InThinkingBlock(m)' <=> InThinkingBlock(m)
  BY ThinkingStays
<1>3. ASSUME NEW m \in 1..(n - 1)
      PROVE  AnswerText(m)' <=> AnswerText(m)
  BY <1>1, <1>2, <1>3 DEF AnswerText
<1>4. AnswerText(n)' <=> IsScanned(e)
  <2>1. InThinkingBlock(n)' <=> InThinkingBlock(n)
    BY <1>1, <1>2
  <2>2. InThinkingBlock(n) <=> InThinkingBlock(Now)
    OBVIOUS
  <2>3. Format = "anthropic" => (inThink <=> InThinkingBlock(n)')
    BY <2>1, <2>2 DEF BlockInv
  <2> QED
    BY <1>1, <2>3 DEF AnswerText, IsScanned
<1>5. Answers \subseteq 1..(n - 1) /\ Others \subseteq 1..(n - 1)
  BY <1>1 DEF Answers, Others
<1>6. Answers' = IF IsScanned(e) THEN Answers \cup {n} ELSE Answers
  BY <1>1, <1>3, <1>4 DEF Answers
<1> QED
  BY <1>1, <1>5, <1>6 DEF Others

\* Every event leaves the capture knowing its block.
LEMMA BlockNext ==
  ASSUME TypeOK, BlockInv, NEW e \in Upstream, Send(e),
         inThink' = IF Format = "anthropic" /\ e.kind \in {"block_start", "block_stop"}
                    THEN e.kind = "block_start" /\ e.of = "thinking"
                    ELSE inThink
  PROVE  BlockInv'
<1> SUFFICES ASSUME Format = "anthropic"
             PROVE  /\ inThink' <=> block' = "thinking"
                    /\ block' = "thinking" <=> InThinkingBlock(Now)'
  BY DEF BlockInv
<1>1. /\ inThink <=> block = "thinking"
      /\ block = "thinking" <=> InThinkingBlock(Now)
      /\ e.kind = "block_start" => block = "none"
      /\ block' = IF e.kind = "block_start" THEN e.of
                  ELSE IF e.kind = "block_stop" THEN "none" ELSE block
  BY DEF BlockInv, Send, MaySend
<1>2. InThinkingBlock(Now)' <=>
        \/ e.kind = "block_start" /\ e.of = "thinking"
        \/ e.kind # "block_stop" /\ InThinkingBlock(Now)
  BY ThinkingNext
<1>3. CASE e.kind = "block_start"
  BY <1>1, <1>2, <1>3
<1>4. CASE e.kind = "block_stop"
  BY <1>1, <1>2, <1>4
<1>5. CASE e.kind \notin {"block_start", "block_stop"}
  BY <1>1, <1>2, <1>5
<1> QED
  BY <1>3, <1>4, <1>5

\* What is written of one event: nothing, or the event with some text.
IsPart(part, n) ==
  part = << >> \/ (n # 0 /\ \E text \in Seq(Char) : part = Item(n, text))

LEMMA PartAppended ==
  ASSUME NEW past \in Seq(Items), NEW n \in Nat, NEW part, IsPart(part, n)
  PROVE  /\ past \o part \in Seq(Items)
         /\ \A i \in DOMAIN past : i \in DOMAIN (past \o part) /\ (past \o part)[i] = past[i]
         /\ \A i \in DOMAIN (past \o part) :
              i \in DOMAIN past \/ (i = Len(past) + 1 /\ (past \o part)[i].id = n)
<1>1. CASE part = << >>
  BY <1>1, ConcatEmptySeq
<1>2. CASE part # << >>
  <2>1. PICK text \in Seq(Char) : part = Item(n, text)
    BY <1>2 DEF IsPart
  <2> DEFINE x == [id |-> n, text |-> text]
  <2>2. x \in Items /\ x.id = n
    BY <1>2 DEF IsPart, Items
  <2>3. part = << x >>
    BY <2>1 DEF Item
  <2> HIDE DEF x
  <2>4. past \o << x >> = Append(past, x)
    BY <2>2
  <2>5. /\ Append(past, x) \in Seq(Items)
        /\ Len(Append(past, x)) = Len(past) + 1
        /\ \A i \in 1..Len(past) : Append(past, x)[i] = past[i]
        /\ Append(past, x)[Len(past) + 1] = x
    BY <2>2, AppendProperties
  <2>6. /\ DOMAIN Append(past, x) = 1..(Len(past) + 1) /\ DOMAIN past = 1..Len(past)
        /\ Len(past) \in Nat
    BY <2>5, LenProperties
  <2> QED
    BY <2>2, <2>3, <2>4, <2>5, <2>6
<1> QED
  BY <1>1, <1>2

\* A part goes behind what was sent before it, when it is later or may be
\* overtaken.
LEMMA PartPlaced ==
  ASSUME NEW past \in Seq(Items), NEW n \in Nat, NEW part, IsPart(part, n),
         NEW answers, NEW events, Placed(past, answers, events),
         part # << >> =>
           \A i \in DOMAIN past : past[i].id < n \/ Overtakes(n, past[i].id, answers, events)
  PROVE  Placed(past \o part, answers, events)
<1> DEFINE new == past \o part
<1>1. /\ \A i \in DOMAIN past : i \in DOMAIN new /\ new[i] = past[i]
      /\ \A i \in DOMAIN new : i \in DOMAIN past \/ (i = Len(past) + 1 /\ new[i].id = n)
      /\ DOMAIN past = 1..Len(past) /\ Len(past) \in Nat
      /\ part = << >> => new = past
  BY PartAppended, LenProperties, ConcatEmptySeq
<1> HIDE DEF new
<1> SUFFICES ASSUME NEW i \in DOMAIN new, NEW j \in DOMAIN new, i < j
             PROVE  \/ new[i].id < new[j].id
                    \/ Overtakes(new[j].id, new[i].id, answers, events)
  BY DEF Placed, new
<1>2. CASE j \in DOMAIN past
  <2>1. i \in DOMAIN past
    BY <1>1, <1>2
  <2> QED
    BY <1>1, <1>2, <2>1 DEF Placed
<1>3. CASE j \notin DOMAIN past
  <2>1. j = Len(past) + 1 /\ new[j].id = n /\ part # << >>
    BY <1>1, <1>3
  <2>2. i \in DOMAIN past
    BY <1>1, <2>1
  <2> QED
    BY <1>1, <2>1, <2>2
<1> QED
  BY <1>2, <1>3

\* An event that comes in leaves what was sent before it in its place.
LEMMA PlacedStays ==
  ASSUME NEW past \in Seq(Items), NEW n \in Nat, NEW answers \in SUBSET (1..(n - 1)),
         NEW more \in {answers, answers \cup {n}}, NEW events, NEW events2,
         \A m \in 1..(n - 1) : events2[m] = events[m],
         \A i \in DOMAIN past : past[i].id \in 1..(n - 1),
         Placed(past, answers, events)
  PROVE  Placed(past, more, events2)
<1> SUFFICES ASSUME NEW i \in DOMAIN past, NEW j \in DOMAIN past, i < j,
                    ~(past[i].id < past[j].id)
             PROVE  Overtakes(past[j].id, past[i].id, more, events2)
  BY DEF Placed
<1>1. PICK a \in 1..(n - 1) : a = past[j].id
  OBVIOUS
<1>2. PICK b \in 1..(n - 1) : b = past[i].id
  OBVIOUS
<1>3. Overtakes(a, b, answers, events)
  BY <1>1, <1>2 DEF Placed
<1>4. n \notin a..b
  BY <1>2
<1>5. more \cap a..b = answers \cap a..b
  BY <1>4
<1>6. a \in more /\ events2[a] = events[a]
  BY <1>3 DEF Overtakes
<1> QED
  BY <1>1, <1>2, <1>3, <1>5, <1>6 DEF Overtakes

\* An event that is not answer text goes out at once.
LEMMA OrderForward ==
  ASSUME OrderInv, CutInv', NEW e \in Upstream, Forward(e)
  PROVE  OrderInv'
<1> DEFINE x == Item(Now, e.text)
<1>1. PICK n \in Nat \ {0} : n = Now
  BY SendType DEF Forward, OrderInv, CutInv
<1>2. /\ Send(e) /\ TypeOK /\ ~IsScanned(e) /\ client' = client \o x
      /\ UNCHANGED << obsState, heldEvent, heldText, phase >>
      /\ phase = "streaming" /\ e.text \in Seq(Char)
      /\ client \in Seq(Items) /\ heldEvent \in Nat
  BY SendType DEF Forward, OrderInv, CutInv, TypeOK
<1>3. /\ Len(upstream) = n - 1 /\ DOMAIN upstream = 1..(n - 1)
      /\ Len(upstream') = n
      /\ upstream'[n] = e /\ \A m \in 1..(n - 1) : upstream'[m] = upstream[m]
  BY <1>1, <1>2, EventSent, LenProperties DEF Now
<1>4. /\ Answers \subseteq 1..(n - 1) /\ Others \subseteq 1..(n - 1)
      /\ Answers' = Answers /\ Others' = Others \cup {n}
  BY <1>1, <1>2, AnswersNext DEF OrderInv
<1>5. IsPart(x, n) /\ x = << [id |-> n, text |-> e.text] >>
  BY <1>1, <1>2 DEF IsPart, Item
<1> HIDE DEF x
<1>6. /\ \A i \in DOMAIN client : i \in DOMAIN client' /\ client'[i] = client[i]
      /\ \A i \in DOMAIN client' :
           i \in DOMAIN client \/ (i = Len(client) + 1 /\ client'[i].id = n)
  BY <1>2, <1>5, PartAppended
<1>7. \A i \in DOMAIN client : client[i].id \in 1..(n - 1) /\ client[i].id # heldEvent
  BY <1>2, <1>3 DEF OrderInv, SentInv
<1>8. BlockInv'
  BY <1>2, BlockNext DEF Forward, OrderInv
<1>9. heldEvent # 0 => heldEvent \in 1..(n - 1)
  BY <1>2, <1>4 DEF OrderInv, OnlyHeldTextIsLate, HeldOnlyOnSuspicion
<1>10. SentInv'
  <2>1. n # heldEvent /\ n \in 1..n
    BY <1>1, <1>9
  <2>2. \A i \in DOMAIN client' : client'[i].id \in 1..n /\ client'[i].id # heldEvent
    BY <1>6, <1>7, <2>1
  <2> QED
    BY <1>2, <1>3, <2>2 DEF OrderInv, SentInv
<1>11. HeldOnlyOnSuspicion'
  BY <1>2, <1>3, <1>4, <1>9 DEF OrderInv, OnlyHeldTextIsLate, HeldOnlyOnSuspicion
<1>12. Placed(client', Answers', upstream')
  <2>1. Placed(client, Answers, upstream)
    BY PlacedClient DEF OrderInv, OnlyHeldTextIsLate
  <2>2. Placed(client, Answers', upstream')
    BY <1>2, <1>3, <1>4, <1>7, <2>1, PlacedStays
  <2>3. \A i \in DOMAIN client : client[i].id < n
    BY <1>7
  <2> QED
    BY <1>2, <1>5, <2>2, <2>3, PartPlaced
<1>13. ASSUME NEW m \in Others'
       PROVE  \E i \in DOMAIN client' : client'[i] = [id |-> m, text |-> upstream'[m].text]
  <2>1. CASE m = n
    <3>1. client' = Append(client, [id |-> n, text |-> e.text])
      BY <1>2, <1>5
    <3>2. [id |-> n, text |-> e.text] \in Items
      BY <1>2 DEF Items
    <3>3. /\ client'[Len(client) + 1] = [id |-> n, text |-> e.text]
          /\ Len(client) + 1 \in DOMAIN client'
      BY <1>2, <3>1, <3>2, AppendProperties, LenProperties
    <3> QED
      BY <1>3, <2>1, <3>3
  <2>2. CASE m # n
    <3>1. m \in Others /\ upstream'[m] = upstream[m]
      BY <1>3, <1>4, <2>2
    <3>2. PICK i \in DOMAIN client : client[i] = [id |-> m, text |-> upstream[m].text]
      BY <3>1 DEF OrderInv, OnlyHeldTextIsLate, OthersUntouched
    <3> QED
      BY <1>6, <3>1, <3>2
  <2> QED
    BY <2>1, <2>2
<1> QED
  BY <1>8, <1>10, <1>11, <1>12, <1>13, PlacedClient
    DEF OrderInv, OnlyHeldTextIsLate, OthersUntouched

\* What came after the event held back is not answer text.
LEMMA HeldOvertaken ==
  ASSUME TypeOK, OnlyHeldTextIsLate, phase = "streaming", heldEvent # 0,
         NEW m \in Nat, m # heldEvent
  PROVE  m < heldEvent \/ Overtakes(heldEvent, m, Answers, upstream)
<1>1. /\ heldEvent \in Nat /\ heldEvent \in Answers
      /\ \A k \in Answers : k <= heldEvent
      /\ HasSuspiciousTail(upstream[heldEvent].text, OpenTag)
  BY DEF TypeOK, OnlyHeldTextIsLate, HeldOnlyOnSuspicion
<1>2. ASSUME heldEvent < m
      PROVE  Answers \cap heldEvent..m = {heldEvent}
  BY <1>1, <1>2
<1> QED
  BY <1>1, <1>2 DEF Overtakes

\* Answer text: what was held goes out before what has come in, and what has
\* come in is held only when a tag may begin in it.
LEMMA OrderText ==
  ASSUME OrderInv, CutInv', NEW e \in Upstream, TextDelta(e),
         NEW first, NEW second, client' = client \o first \o second,
         IsPart(first, heldEvent), IsPart(second, Now),
         heldEvent' \in {0, Now},
         heldEvent' # 0 => /\ second = << >>
                           /\ obsState' = "searching" /\ heldText' = e.text
                           /\ HasSuspiciousTail(e.text, OpenTag)
  PROVE  OrderInv'
<1> DEFINE mid == client \o first
<1>1. PICK n \in Nat \ {0} : n = Now
  BY SendType DEF TextDelta, OrderInv, CutInv
<1>2. /\ Send(e) /\ TypeOK /\ IsScanned(e) /\ client' = mid \o second
      /\ phase = "streaming" /\ phase' = phase /\ e.text \in Seq(Char)
      /\ client \in Seq(Items) /\ heldEvent \in Nat /\ inThink' = inThink
      /\ IsPart(second, n)
  BY <1>1, SendType DEF TextDelta, OrderInv, CutInv, TypeOK
<1>3. /\ Len(upstream) = n - 1 /\ DOMAIN upstream = 1..(n - 1)
      /\ Len(upstream') = n
      /\ upstream'[n] = e /\ \A m \in 1..(n - 1) : upstream'[m] = upstream[m]
  <2>1. /\ Len(upstream) = n - 1 /\ DOMAIN upstream = 1..(n - 1)
        /\ DOMAIN upstream' = 1..n /\ upstream'[n] = e
        /\ \A m \in 1..(n - 1) : upstream'[m] = upstream[m]
    BY <1>1, <1>2, EventSent
  <2>2. upstream' \in Seq(Event)
    BY <1>2, SendType
  <2>3. Len(upstream') = n
    BY <2>1, <2>2, LenProperties
  <2> QED
    BY <2>1, <2>3
<1>4. /\ Answers \subseteq 1..(n - 1) /\ Others \subseteq 1..(n - 1)
      /\ Answers' = Answers \cup {n} /\ Others' = Others
  BY <1>1, <1>2, AnswersNext DEF OrderInv
<1>5. /\ mid \in Seq(Items)
      /\ \A i \in DOMAIN client : i \in DOMAIN mid /\ mid[i] = client[i]
      /\ \A i \in DOMAIN mid :
           i \in DOMAIN client \/ (i = Len(client) + 1 /\ mid[i].id = heldEvent)
  BY <1>2, PartAppended
<1>6. /\ first = << >> => mid = client
      /\ first # << >> => heldEvent # 0
      /\ second # << >> => n # 0
  BY <1>2, ConcatEmptySeq DEF IsPart
<1>7. /\ \A i \in DOMAIN mid : i \in DOMAIN client' /\ client'[i] = mid[i]
      /\ \A i \in DOMAIN client' :
           i \in DOMAIN mid \/ (i = Len(mid) + 1 /\ client'[i].id = n)
      /\ second = << >> => client' = mid
  <2> HIDE DEF mid
  <2> QED
    BY <1>2, <1>5, PartAppended, ConcatEmptySeq
<1>8. \A i \in DOMAIN client : client[i].id \in 1..(n - 1) /\ client[i].id # heldEvent
  BY <1>2, <1>3 DEF OrderInv, SentInv
<1>9. heldEvent # 0 =>
        /\ heldEvent \in Answers /\ heldEvent \in 1..(n - 1)
        /\ \A m \in Answers : m <= heldEvent
  <2>1. heldEvent # 0 =>
          heldEvent \in Answers /\ \A m \in Answers : m <= heldEvent
    BY <1>2 DEF OrderInv, OnlyHeldTextIsLate, HeldOnlyOnSuspicion
  <2> QED
    BY <1>4, <2>1
<1>10. Placed(client, Answers, upstream)
  BY PlacedClient DEF OrderInv, OnlyHeldTextIsLate
<1> HIDE DEF mid
<1>11. \A i \in DOMAIN mid : mid[i].id \in 1..(n - 1)
  <2> SUFFICES ASSUME NEW i \in DOMAIN mid
               PROVE  mid[i].id \in 1..(n - 1)
    OBVIOUS
  <2>1. CASE i \in DOMAIN client
    BY <1>5, <1>8, <2>1
  <2>2. CASE i \notin DOMAIN client
    BY <1>5, <1>6, <1>9, <2>2
  <2> QED
    BY <2>1, <2>2
<1>12. Placed(mid, Answers, upstream)
  <2>1. first # << >> =>
          \A i \in DOMAIN client :
            \/ client[i].id < heldEvent
            \/ Overtakes(heldEvent, client[i].id, Answers, upstream)
    BY <1>2, <1>6, <1>8, HeldOvertaken DEF OrderInv
  <2> QED
    BY <1>2, <1>10, <2>1, PartPlaced DEF mid
<1>13. Placed(client', Answers', upstream')
  <2>1. \A i \in DOMAIN mid : mid[i].id < n
    BY <1>11
  <2>2. Placed(mid, Answers', upstream')
    BY <1>3, <1>4, <1>5, <1>11, <1>12, PlacedStays
  <2> QED
    BY <1>2, <1>5, <2>1, <2>2, PartPlaced
<1>14. BlockInv'
  <2>1. e.kind = "delta"
    BY <1>2 DEF IsScanned
  <2> QED
    BY <1>2, <2>1, BlockNext DEF OrderInv
<1>15. SentInv'
  <2>1. CASE heldEvent' = 0
    <3>1. \A i \in DOMAIN client' : client'[i].id \in 1..n
      BY <1>1, <1>7, <1>11
    <3> QED
      BY <1>2, <1>3, <2>1, <3>1 DEF SentInv
  <2>2. CASE heldEvent' # 0
    <3>1. client' = mid /\ heldEvent' = n
      BY <1>1, <1>7, <2>2
    <3>2. \A i \in DOMAIN client' : client'[i].id \in 1..n /\ client'[i].id # n
      BY <1>11, <3>1
    <3> QED
      BY <1>2, <1>3, <3>1, <3>2 DEF SentInv
  <2> QED
    BY <2>1, <2>2
<1>16. HeldOnlyOnSuspicion'
  <2> SUFFICES ASSUME heldEvent' # 0
               PROVE  /\ obsState' = "searching"
                      /\ heldEvent' \in Answers'
                      /\ \A m \in Answers' : m <= heldEvent'
                      /\ heldText' = upstream'[heldEvent'].text
                      /\ HasSuspiciousTail(heldText', OpenTag)
    BY DEF HeldOnlyOnSuspicion
  <2>1. heldEvent' = n
    BY <1>1
  <2> QED
    BY <1>3, <1>4, <2>1
<1>17. \A m \in Others' :
         \E i \in DOMAIN client' : client'[i] = [id |-> m, text |-> upstream'[m].text]
  <2> SUFFICES ASSUME NEW m \in Others
               PROVE  \E i \in DOMAIN client' :
                        client'[i] = [id |-> m, text |-> upstream'[m].text]
    BY <1>4
  <2>1. PICK i \in DOMAIN client : client[i] = [id |-> m, text |-> upstream[m].text]
    BY DEF OrderInv, OnlyHeldTextIsLate, OthersUntouched
  <2>2. i \in DOMAIN client' /\ client'[i] = client[i]
    BY <1>5, <1>7
  <2> QED
    BY <1>3, <1>4, <2>1, <2>2
<1> QED
  BY <1>13, <1>14, <1>15, <1>16, <1>17, PlacedClient
    DEF OrderInv, OnlyHeldTextIsLate, OthersUntouched

\* What handleTextDelta writes are such parts.
LEMMA HeldPart == TypeOK => IsPart(HeldItem, heldEvent)
BY DEF TypeOK, HeldItem, IsPart

LEMMA RebuiltPart ==
  ASSUME NEW n \in Nat \ {0}, NEW text \in Seq(Char)
  PROVE  IsPart(Rebuilt(n, text), n) /\ IsPart(Item(n, text), n) /\ IsPart(<< >>, n)
BY DEF Rebuilt, IsPart

LEMMA OrderTextDelta ==
  ASSUME OrderInv, CutInv', NEW e \in Upstream,
         DropText(e) \/ SuppressText(e) \/ SearchMiss(e) \/ SearchHit(e)
  PROVE  OrderInv'
<1>1. /\ TextDelta(e) /\ TypeOK /\ heldEvent \in Nat /\ heldText \in Seq(Char)
      /\ e.text \in Seq(Char) /\ Now \in Nat \ {0} /\ client \in Seq(Items)
  BY SendType DEF DropText, SuppressText, SearchMiss, SearchHit, TextDelta,
                  OrderInv, CutInv, TypeOK
<1>2. CASE DropText(e) \/ SuppressText(e)
  <2>1. heldEvent = 0 /\ heldEvent' = 0 /\ client' = client
    BY <1>2 DEF DropText, SuppressText, OrderInv, CutInv
  <2>2. client' = client \o << >> \o << >>
    BY <1>1, <2>1, ConcatEmptySeq
  <2>3. IsPart(<< >>, heldEvent) /\ IsPart(<< >>, Now)
    BY DEF IsPart
  <2> QED
    BY <1>1, <2>1, <2>2, <2>3, OrderText
<1>3. CASE SearchMiss(e)
  <2>1. CASE Hold(e)
    <3>1. /\ client' = client \o HeldItem \o << >>
          /\ heldEvent' = Now /\ heldText' = e.text
          /\ HasSuspiciousTail(e.text, OpenTag) /\ obsState' = "searching"
      BY <1>3, <2>1 DEF Hold, Emit, SearchMiss
    <3> QED
      BY <1>1, <3>1, HeldPart, OrderText DEF IsPart
  <2>2. CASE PassOn(e)
    <3>1. client' = client \o HeldItem \o Item(Now, e.text) /\ heldEvent' = 0
      BY <2>2 DEF PassOn, Emit
    <3> QED
      BY <1>1, <3>1, HeldPart, RebuiltPart, OrderText
  <2> QED
    BY <1>3, <2>1, <2>2 DEF SearchMiss
<1>4. CASE SearchHit(e)
  <2> DEFINE all == Combined(e.text)
             before == Before(all, OpenTag)
             n == Len(TextOf(HeldItem))
             rest == SubSeq(before, n + 1, Len(before))
  <2>1. before \in Seq(Char) /\ heldEvent' = 0 /\ EmitBefore(before)
    BY <1>1, <1>4, CombinedType, CutProperties, TagAssumption DEF SearchHit
  <2> HIDE DEF before
  <2>2. CASE heldEvent # 0 /\ Len(before) <= n
    <3>1. client' = client \o Rebuilt(heldEvent, before) \o << >>
      BY <2>1, <2>2 DEF EmitBefore, Emit
    <3>2. IsPart(Rebuilt(heldEvent, before), heldEvent)
      BY <1>1, <2>1, <2>2, RebuiltPart
    <3>3. IsPart(<< >>, Now)
      BY DEF IsPart
    <3> QED
      BY <1>1, <2>1, <3>1, <3>2, <3>3, OrderText
  <2>3. CASE ~(heldEvent # 0 /\ Len(before) <= n)
    <3>1. client' = client \o HeldItem \o Rebuilt(Now, rest)
      BY <2>1, <2>3 DEF EmitBefore, Emit
    <3>2. rest \in Seq(Char)
      <4>1. n \in Nat /\ Len(before) \in Nat
        BY <1>1, <2>1, HeldOutput, LenProperties DEF IsOutput
      <4>2. \A i \in (n + 1)..Len(before) : before[i] \in Char
        BY <2>1, <4>1, ElementOfSeq
      <4> QED
        BY <2>1, <4>1, <4>2, SubSeqProperties
    <3> HIDE DEF rest
    <3>3. IsPart(Rebuilt(Now, rest), Now)
      BY <1>1, <3>2, RebuiltPart
    <3> QED
      BY <1>1, <2>1, <3>1, <3>3, HeldPart, OrderText
  <2> QED
    BY <2>2, <2>3
<1> QED
  BY <1>2, <1>3, <1>4

\* At the end what is held goes out; what is left of an unterminated event is
\* no event of the backend's.
LEMMA OrderFinalize ==
  ASSUME OrderInv, CutInv', Finalize
  PROVE  OrderInv'
<1> DEFINE mid == client \o Fragment
<1>1. /\ TypeOK /\ phase = "streaming" /\ phase' = "finalized"
      /\ client \in Seq(Items) /\ heldEvent \in Nat /\ heldText \in Seq(Char)
      /\ UNCHANGED << upstream, block, inThink >>
      /\ heldEvent' = 0
  BY DEF Finalize, OrderInv, CutInv, TypeOK
<1>2. PICK n \in Nat \ {0} :
        n = Now /\ Len(upstream) = n - 1 /\ DOMAIN upstream = 1..(n - 1)
  <2>1. Len(upstream) \in Nat /\ DOMAIN upstream = 1..Len(upstream)
    BY <1>1, LenProperties DEF TypeOK
  <2>2. Now \in Nat \ {0} /\ Len(upstream) = Now - 1
    BY <2>1 DEF Now
  <2> QED
    BY <2>1, <2>2
<1>3. Answers' = Answers /\ Others' = Others
  <2>1. \A m : AnswerText(m)' <=> AnswerText(m)
    BY <1>1 DEF AnswerText, InThinkingBlock
  <2> QED
    BY <1>1, <2>1 DEF Answers, Others
<1>4. PICK last : /\ client' = mid \o last
                  /\ IsPart(last, heldEvent)
  <2>1. CASE heldEvent # 0 /\ obsState = "searching"
    <3>1. PICK text \in Decodable : client' = mid \o Item(heldEvent, text)
      BY <2>1 DEF Finalize, Emit
    <3>2. text \in Seq(Char)
      BY <1>1, EmptySeq DEF Decodable
    <3> QED
      BY <2>1, <3>1, <3>2 DEF IsPart
  <2>2. CASE ~(heldEvent # 0 /\ obsState = "searching")
    <3>1. client' = mid \o << >>
      BY <2>2 DEF Finalize, Emit
    <3> QED
      BY <3>1 DEF IsPart
  <2> QED
    BY <2>1, <2>2
<1>5. IsPart(Fragment, n)
  BY <1>2, EmptySeq DEF IsPart, Fragment
<1>6. /\ mid \in Seq(Items)
      /\ \A i \in DOMAIN client : i \in DOMAIN mid /\ mid[i] = client[i]
      /\ \A i \in DOMAIN mid :
           i \in DOMAIN client \/ (i = Len(client) + 1 /\ mid[i].id = n)
  BY <1>1, <1>5, PartAppended
<1>7. Placed(mid, Answers, upstream)
  <2>1. Placed(client, Answers, upstream)
    BY PlacedClient DEF OrderInv, OnlyHeldTextIsLate
  <2>2. \A i \in DOMAIN client : client[i].id < n
    BY <1>1, <1>2 DEF OrderInv, SentInv
  <2> QED
    BY <1>1, <1>5, <2>1, <2>2, PartPlaced
<1> HIDE DEF mid
<1>8. \A i \in DOMAIN mid : i \in DOMAIN client' /\ client'[i] = mid[i]
  BY <1>1, <1>4, <1>6, PartAppended
<1>9. heldEvent # 0 =>
        \A i \in DOMAIN mid : \/ mid[i].id < heldEvent
                              \/ Overtakes(heldEvent, mid[i].id, Answers, upstream)
  <2> SUFFICES ASSUME heldEvent # 0, NEW i \in DOMAIN mid
               PROVE  \/ mid[i].id < heldEvent
                      \/ Overtakes(heldEvent, mid[i].id, Answers, upstream)
    OBVIOUS
  <2>1. heldEvent \in 1..(n - 1)
    BY <1>1, <1>2 DEF OrderInv, OnlyHeldTextIsLate, HeldOnlyOnSuspicion, Answers
  <2>2. mid[i].id \in Nat /\ mid[i].id # heldEvent
    <3>1. CASE i \in DOMAIN client
      <4>1. client[i].id \in (1..(n - 1)) \ {heldEvent}
        BY <1>1, <1>2, <3>1 DEF OrderInv, SentInv
      <4> QED
        BY <1>6, <3>1, <4>1
    <3>2. CASE i \notin DOMAIN client
      BY <1>2, <1>6, <2>1, <3>2
    <3> QED
      BY <3>1, <3>2
  <2> QED
    BY <1>1, <2>2, HeldOvertaken DEF OrderInv
<1>10. Placed(client', Answers', upstream')
  <2>1. Placed(mid \o last, Answers, upstream)
    BY <1>1, <1>4, <1>6, <1>7, <1>9, PartPlaced DEF IsPart
  <2> QED
    BY <1>1, <1>3, <1>4, <2>1
<1>11. \A m \in Others' :
         \E i \in DOMAIN client' : client'[i] = [id |-> m, text |-> upstream'[m].text]
  <2> SUFFICES ASSUME NEW m \in Others
               PROVE  \E i \in DOMAIN client' :
                        client'[i] = [id |-> m, text |-> upstream[m].text]
    BY <1>1, <1>3
  <2>1. PICK i \in DOMAIN client : client[i] = [id |-> m, text |-> upstream[m].text]
    BY DEF OrderInv, OnlyHeldTextIsLate, OthersUntouched
  <2>2. i \in DOMAIN client' /\ client'[i] = client[i]
    BY <1>6, <1>8
  <2> QED
    BY <2>1, <2>2
<1>12. BlockInv' /\ SentInv' /\ HeldOnlyOnSuspicion'
  <2>1. InThinkingBlock(Now)' <=> InThinkingBlock(Now)
    BY <1>1 DEF InThinkingBlock, Now
  <2> QED
    BY <1>1, <2>1 DEF OrderInv, BlockInv, SentInv, HeldOnlyOnSuspicion
<1> QED
  BY <1>10, <1>11, <1>12, PlacedClient
    DEF OrderInv, OnlyHeldTextIsLate, OthersUntouched

LEMMA OrderSame ==
  ASSUME OrderInv, CutInv',
         UNCHANGED << inThink, obsState, heldEvent, heldText, phase,
                      upstream, client, block >>
  PROVE  OrderInv'
<1>1. \A m : InThinkingBlock(m)' <=> InThinkingBlock(m)
  BY DEF InThinkingBlock
<1>2. Now' = Now /\ (InThinkingBlock(Now)' <=> InThinkingBlock(Now))
  BY DEF InThinkingBlock, Now
<1>3. Answers' = Answers /\ Others' = Others
  BY <1>1 DEF Answers, Others, AnswerText
<1>4. BlockInv' /\ SentInv'
  BY <1>2 DEF OrderInv, BlockInv, SentInv
<1>5. OnlyHeldTextIsLate'
  BY <1>3 DEF OrderInv, OnlyHeldTextIsLate, HeldOnlyOnSuspicion, OthersUntouched,
              OvertakenOnlyWhileHeld, MayBeOvertaken
<1> QED
  BY <1>4, <1>5 DEF OrderInv

LEMMA OrderNext == OrderInv /\ [Next]_vars => OrderInv'
<1> SUFFICES ASSUME OrderInv, [Next]_vars
             PROVE  OrderInv'
  OBVIOUS
<1>1. CutInv'
  BY CutNext DEF OrderInv
<1>2. CASE WritePartial
  BY <1>1, <1>2, OrderSame DEF WritePartial, capture
<1>3. CASE UNCHANGED vars
  BY <1>1, <1>3, OrderSame DEF vars, capture
<1> QED
  BY <1>1, <1>2, <1>3, OrderForward, OrderTextDelta, OrderFinalize
    DEF Next, HandleEvent

\* Whatever the backend sends, in every format and however it divides its
\* text: no event reaches the client twice, thinking, tool input and all other
\* events reach it unchanged, and any two events in the backend's order, but
\* for the last answer text when a tag may begin in it: that one is held back,
\* and everything but answer text may go before it (its own block's stop and
\* the end of the message among them).
THEOREM OnlyHeldTextIsEverLate == Spec => []OnlyHeldTextIsLate
<1>1. OrderInv => OnlyHeldTextIsLate
  BY DEF OrderInv
<1> QED
  BY <1>1, OrderInit, OrderNext, PTL DEF Spec
----------------------------------------------------------------------------
(* GemmaParser: a text without its special tokens                           *)

\* Letters are not tokens, and the label is a text.
LEMMA LettersAreText ==
  /\ Seq(Letter) \subseteq Text /\ Label \in Text /\ Start \in Special /\ End \in Special
  /\ \A c \in Letter : c \notin Special
BY TokenAssumption, LabelAssumption DEF Text, Special

\* What a text without its special tokens is.
LEMMA OrdinaryType == ASSUME NEW s \in Text PROVE Ordinary(s) \in Seq(Letter)
<1> PICK f : f = [i \in DOMAIN s |-> IF s[i] \in Special THEN << >> ELSE << s[i] >>]
  OBVIOUS
<1>1. DOMAIN f = 1..Len(s) /\ Len(s) \in Nat
  BY DEF Text
<1>2. ASSUME NEW i \in 1..Len(s) PROVE f[i] \in Seq(Letter)
  BY DEF Text
<1>3. f \in Seq(Seq(Letter))
  BY <1>1, <1>2
<1> QED
  BY <1>3, FlattenAppend DEF Ordinary

LEMMA OrdinaryConcat ==
  ASSUME NEW s \in Text, NEW u \in Text
  PROVE  Ordinary(s \o u) = Ordinary(s) \o Ordinary(u)
<1> DEFINE Parts(t) == [i \in DOMAIN t |-> IF t[i] \in Special THEN << >> ELSE << t[i] >>]
<1>1. ASSUME NEW t \in Text PROVE Parts(t) \in Seq(Seq(Letter)) /\ Len(Parts(t)) = Len(t)
  <2>1. ASSUME NEW i \in 1..Len(t) PROVE Parts(t)[i] \in Seq(Letter)
    BY DEF Text
  <2>2. DOMAIN Parts(t) = 1..Len(t) /\ Len(t) \in Nat
    BY DEF Text
  <2> HIDE DEF Parts
  <2>3. Parts(t) = [i \in 1..Len(t) |-> Parts(t)[i]]
    BY <2>2 DEF Parts
  <2> QED
    BY <2>1, <2>2, <2>3
<1>2. s \o u \in Text /\ Len(s \o u) = Len(s) + Len(u) /\ Len(s) \in Nat /\ Len(u) \in Nat
  BY DEF Text
<1>3. ASSUME NEW i \in 1..(Len(s) + Len(u))
      PROVE  Parts(s \o u)[i] = (Parts(s) \o Parts(u))[i]
  <2>1. CASE i \in 1..Len(s)
    <3>1. (s \o u)[i] = s[i] /\ i \in DOMAIN s /\ i \in DOMAIN (s \o u)
      BY <2>1 DEF Text
    <3>2. (Parts(s) \o Parts(u))[i] = Parts(s)[i]
      BY <1>1, <2>1
    <3> QED
      BY <3>1, <3>2
  <2>2. CASE i \notin 1..Len(s)
    <3>1. PICK k \in 1..Len(u) : i = Len(s) + k
      <4>1. i - Len(s) \in 1..Len(u) /\ i = Len(s) + (i - Len(s))
        BY <1>2, <2>2
      <4> QED
        BY <4>1
    <3>2. (s \o u)[i] = u[k] /\ k \in DOMAIN u /\ i \in DOMAIN (s \o u)
      BY <3>1 DEF Text
    <3>3. (Parts(s) \o Parts(u))[i] = Parts(u)[k]
      BY <1>1, <3>1
    <3> QED
      BY <3>2, <3>3
  <2> QED
    BY <2>1, <2>2
<1>4. Parts(s \o u) = Parts(s) \o Parts(u)
  <2> PICK a : a = Parts(s \o u)
    OBVIOUS
  <2> PICK b : b = Parts(s) \o Parts(u)
    OBVIOUS
  <2> HIDE DEF Parts
  <2>1. a \in Seq(Seq(Letter)) /\ Len(a) = Len(s) + Len(u)
    BY <1>1, <1>2
  <2>2. b \in Seq(Seq(Letter)) /\ Len(b) = Len(s) + Len(u)
    <3>1. PICK c \in Seq(Seq(Letter)) : c = Parts(s) /\ Len(c) = Len(s)
      BY <1>1
    <3>2. PICK d \in Seq(Seq(Letter)) : d = Parts(u) /\ Len(d) = Len(u)
      BY <1>1
    <3>3. c \o d \in Seq(Seq(Letter)) /\ Len(c \o d) = Len(c) + Len(d)
      BY Joined
    <3>4. b = c \o d
      BY <3>1, <3>2
    <3> QED
      BY <3>1, <3>2, <3>3, <3>4
  <2>3. \A i \in 1..(Len(s) + Len(u)) : a[i] = b[i]
    BY <1>3
  <2>4. a = b
    BY ONLY <2>1, <2>2, <2>3
  <2> QED
    BY <2>4
<1>5. FlattenSeq(Parts(s) \o Parts(u)) = FlattenSeq(Parts(s)) \o FlattenSeq(Parts(u))
  <2> HIDE DEF Parts
  <2> QED
    BY <1>1, FlattenConcat
<1> QED
  BY <1>4, <1>5 DEF Ordinary

LEMMA OrdinaryOne ==
  /\ Ordinary(<< >>) = << >>
  /\ \A token \in Special : Ordinary(<< token >>) = << >>
  /\ \A c \in Letter : Ordinary(<< c >>) = << c >>
<1>1. ASSUME NEW c PROVE FlattenSeq(<< c >>) = c
  BY DEF FlattenSeq
<1>2. FlattenSeq(<< >>) = << >>
  BY DEF FlattenSeq
<1>3. Ordinary(<< >>) = << >>
  <2>1. [i \in DOMAIN << >> |-> IF << >>[i] \in Special THEN << >> ELSE << << >>[i] >>] = << >>
    OBVIOUS
  <2> QED
    BY <1>2, <2>1 DEF Ordinary
<1>4. ASSUME NEW c
      PROVE  Ordinary(<< c >>) = IF c \in Special THEN << >> ELSE << c >>
  <2> PICK p : p = IF c \in Special THEN << >> ELSE << c >>
    OBVIOUS
  <2>1. [i \in DOMAIN << c >> |-> IF << c >>[i] \in Special THEN << >> ELSE << << c >>[i] >>]
           = << p >>
    OBVIOUS
  <2> QED
    BY <1>1, <2>1 DEF Ordinary
<1> QED
  BY <1>3, <1>4, LettersAreText

LEMMA OrdinaryLetters == ASSUME NEW s \in Seq(Letter) PROVE Ordinary(s) = s
<1> DEFINE S == {i \in 0..Len(s) : Ordinary(SubSeq(s, 1, i)) = SubSeq(s, 1, i)}
<1>1. 0 \in S
  <2>1. SubSeq(s, 1, 0) = << >>
    OBVIOUS
  <2>2. Ordinary(SubSeq(s, 1, 0)) = SubSeq(s, 1, 0)
    BY <2>1, OrdinaryOne
  <2> QED
    BY <2>2
<1>2. ASSUME NEW i \in 1..Len(s), i - 1 \in S
      PROVE  i \in S
  <2>1. PICK p : p = SubSeq(s, 1, i - 1)
    OBVIOUS
  <2>2. p \in Seq(Letter) /\ s[i] \in Letter /\ SubSeq(s, 1, i) = p \o << s[i] >>
    BY <2>1
  <2>3. p \in Text /\ << s[i] >> \in Text
    BY <2>2 DEF Text
  <2>4. Ordinary(p \o << s[i] >>) = Ordinary(p) \o Ordinary(<< s[i] >>)
    BY <2>3, OrdinaryConcat
  <2>5. Ordinary(p) = p /\ Ordinary(<< s[i] >>) = << s[i] >>
    BY <1>2, <2>1, <2>2, OrdinaryOne
  <2>6. Ordinary(SubSeq(s, 1, i)) = SubSeq(s, 1, i)
    BY <2>2, <2>4, <2>5
  <2> QED
    BY <2>6
<1>3. Len(s) \in S
  <2> HIDE DEF S
  <2>1. Len(s) \in Nat /\ Len(s) \in 0..Len(s)
    OBVIOUS
  <2>2. \A i \in 0..Len(s) : i \in S
    BY <1>1, <1>2, <2>1, InductionUpTo
  <2> QED
    BY <2>1, <2>2
<1>4. SubSeq(s, 1, Len(s)) = s
  OBVIOUS
<1> QED
  BY <1>3, <1>4
----------------------------------------------------------------------------
(* The label at the beginning of a text                                     *)

LEMMA PrefixIs ==
  ASSUME NEW s \in Text, NEW t \in Text
  PROVE  IsPrefix(s, t) <=> Len(s) <= Len(t) /\ \A j \in 1..Len(s) : s[j] = t[j]
<1>1. SubSeq(s, 1, Len(s)) = s
  BY DEF Text
<1>2. CASE Len(s) <= Len(t)
  <2>1. Len(s) \in 0..Len(t)
    BY <1>2 DEF Text
  <2> PICK p : p = SubSeq(t, 1, Len(s))
    OBVIOUS
  <2>2. p \in Text /\ Len(p) = Len(s) /\ \A j \in 1..Len(s) : p[j] = t[j]
    BY <2>1 DEF Text
  <2>3. s = p <=> \A j \in 1..Len(s) : s[j] = t[j]
    BY <2>2 DEF Text
  <2> QED
    BY <1>1, <1>2, <2>3 DEF IsPrefix
<1>3. CASE ~(Len(s) <= Len(t))
  BY <1>3 DEF IsPrefix
<1> QED
  BY <1>2, <1>3

\* The beginning of the label consists of letters and is no longer than it.
LEMMA HeldIs ==
  ASSUME NEW s \in Text, Held(s)
  PROVE  /\ s \in Seq(Letter) /\ Len(s) <= Len(Label)
         /\ \A j \in 1..Len(s) : s[j] = Label[j]
         /\ s # Label => Len(s) < Len(Label)
<1>1. Len(s) <= Len(Label) /\ \A j \in 1..Len(s) : s[j] = Label[j]
  BY PrefixIs, LettersAreText DEF Held
<1>2. Len(s) \in Nat /\ Len(Label) \in Nat /\ Label \in Seq(Letter)
  BY LabelAssumption DEF Text
<1>3. s \in Seq(Letter)
  BY <1>1, <1>2 DEF Text
<1>4. Len(s) = Len(Label) => s = Label
  BY <1>1, <1>2, <1>3
<1> QED
  BY <1>1, <1>2, <1>3, <1>4

\* Once a text is not waited for, what follows it changes nothing in it.
LEMMA LabelSettled ==
  ASSUME NEW s \in Text, NEW u \in Text, ~Waiting(s)
  PROVE  /\ StripLabel(s) \in Text
         /\ StripLabel(s \o u) = StripLabel(s) \o u
         /\ ~Waiting(s \o u)
<1>1. /\ s \o u \in Text /\ Label \in Text
      /\ Len(s \o u) = Len(s) + Len(u) /\ \A j \in 1..Len(s) : (s \o u)[j] = s[j]
      /\ Len(s) \in Nat /\ Len(u) \in Nat /\ Len(Label) \in Nat
  BY LettersAreText DEF Text
<1>2. CASE IsPrefix(Label, s)
  <2>1. Len(Label) <= Len(s) /\ \A j \in 1..Len(Label) : Label[j] = s[j]
    BY <1>1, <1>2, PrefixIs
  <2>2. IsPrefix(Label, s \o u)
    <3> PICK v \in Text : v = s \o u
      BY <1>1
    <3>1. Len(Label) <= Len(v) /\ \A j \in 1..Len(Label) : Label[j] = v[j]
      BY <1>1, <2>1
    <3> QED
      BY <1>1, <3>1, PrefixIs
  <2>3. Len(Label) + 1 \in 1..(Len(s) + 1)
    BY <1>1, <2>1
  <2>4. /\ SubSeq(s \o u, Len(Label) + 1, Len(s \o u)) = SubSeq(s, Len(Label) + 1, Len(s)) \o u
        /\ SubSeq(s, Len(Label) + 1, Len(s)) \in Text
    BY <2>3, TailGrows DEF Text
  <2>5. ~Waiting(s \o u)
    <3>1. Waiting(s \o u) => Len(s \o u) < Len(Label)
      BY <1>1, HeldIs DEF Waiting
    <3> QED
      BY <1>1, <2>1, <3>1
  <2> QED
    BY <1>2, <2>2, <2>4, <2>5 DEF StripLabel
<1>3. CASE ~IsPrefix(Label, s)
  <2>1. ~Held(s)
    <3>1. SUFFICES ASSUME Held(s) PROVE FALSE
      OBVIOUS
    <3>2. s = Label
      BY <3>1 DEF Waiting
    <3>3. IsPrefix(Label, Label)
      BY <1>1, PrefixIs
    <3> QED
      BY <1>3, <3>2, <3>3
  <2>2. PICK k \in Nat : k \in 1..Len(s) /\ (k \notin 1..Len(Label) \/ s[k] # Label[k])
    <3>1. ~(Len(s) <= Len(Label) /\ \A j \in 1..Len(s) : s[j] = Label[j])
      BY <1>1, <2>1, PrefixIs DEF Held
    <3>2. CASE Len(s) > Len(Label)
      BY <1>1, <3>2
    <3>3. CASE ~(Len(s) > Len(Label))
      BY <1>1, <3>1, <3>3
    <3> QED
      BY <3>2, <3>3
  <2>3. PICK j \in 1..Len(s) : (j \in 1..Len(Label)) /\ s[j] # Label[j]
    <3>1. CASE Len(Label) <= Len(s)
      <4>1. ~(\A j \in 1..Len(Label) : Label[j] = s[j])
        BY <1>1, <1>3, <3>1, PrefixIs
      <4> QED
        BY <1>1, <3>1, <4>1
    <3>2. CASE ~(Len(Label) <= Len(s))
      BY <1>1, <2>2, <3>2
    <3> QED
      BY <3>1, <3>2
  <2>4. j \in 1..Len(s \o u) /\ (s \o u)[j] = s[j]
    BY <1>1
  <2>5. ~IsPrefix(Label, s \o u)
    BY <1>1, <2>3, <2>4, PrefixIs
  <2>6. ~Held(s \o u)
    BY <1>1, <2>3, <2>4, PrefixIs DEF Held
  <2> QED
    BY <1>3, <2>5, <2>6 DEF StripLabel, Waiting
<1> QED
  BY <1>2, <1>3

\* The text released is all there is but the label, though it was held back in
\* an earlier message.
LEMMA ReleaseIs ==
  ASSUME NEW b \in Text, NEW p \in Text, Held(b)
  PROVE  Release(b \o p, p) = StripLabel(b \o p)
<1>1. /\ b \o p \in Text /\ Label \in Text /\ Len(b \o p) = Len(b) + Len(p)
      /\ Len(b) \in Nat /\ Len(p) \in Nat /\ Len(Label) \in Nat
  BY LettersAreText DEF Text
<1>2. CASE IsPrefix(Label, b \o p)
  <2>1. Len(b) <= Len(Label)
    BY HeldIs
  <2>2. Len(Label) <= Len(b) + Len(p)
    BY <1>1, <1>2, PrefixIs
  <2>3. PICK i \in Nat : i = Len(Label) - Len(b) + 1
    BY <1>1, <2>1
  <2>4. i \in 1..(Len(p) + 1)
    BY <1>1, <2>1, <2>2, <2>3
  <2>5. SubSeq(b \o p, Len(b) + i, Len(b \o p)) = SubSeq(p, i, Len(p))
    BY <2>4, SubSeqShift DEF Text
  <2>6. Len(b) + i = Len(Label) + 1 /\ Len(Label) - (Len(b \o p) - Len(p)) + 1 = i
    BY <1>1, <2>3
  <2> QED
    BY <1>2, <2>5, <2>6 DEF Release, CutOff, StripLabel
<1>3. CASE ~IsPrefix(Label, b \o p)
  BY <1>3 DEF Release, StripLabel
<1> QED
  BY <1>2, <1>3
----------------------------------------------------------------------------
(* The special tokens in a text                                             *)

LEMMA HasIs ==
  ASSUME NEW s \in Text, NEW token \in Special
  PROVE  Has(s, token) <=> \E i \in 1..Len(s) : s[i] = token
<1>1. ASSUME NEW i \in 1..Len(s)
      PROVE  OccursAt(s, << token >>, i) <=> s[i] = token
  <2>1. Len(<< token >>) = 1 /\ << token >>[1] = token /\ i \in Nat /\ Len(s) \in Nat
    BY DEF Text
  <2>2. \A j \in 1..1 : j = 1
    OBVIOUS
  <2>3. i + 1 - 1 = i
    OBVIOUS
  <2> QED
    BY <2>1, <2>2, <2>3 DEF OccursAt
<1> QED
  BY <1>1 DEF Has, Occurs, Occurrences

\* A text is cut at a token of which there is none in front.
LEMMA CutAtToken ==
  ASSUME NEW r \in Text, NEW c \in Text, NEW token \in Special, ~Has(r, token)
  PROVE  /\ r \o << token >> \o c \in Text
         /\ Has(r \o << token >> \o c, token)
         /\ Before(r \o << token >> \o c, << token >>) = r
         /\ After(r \o << token >> \o c, << token >>) = c
<1> PICK v : v = << token >> \o c
  OBVIOUS
<1> PICK t : t = << token >>
  OBVIOUS
<1> PICK s : s = r \o v
  OBVIOUS
<1>1. /\ t \in Text /\ t # << >> /\ v \in Text /\ Len(t) = 1 /\ t[1] = token
      /\ Len(v) = Len(c) + 1 /\ v[1] = token /\ SubSeq(v, 2, Len(v)) = c
      /\ SubSeq(v, 1, 0) = << >>
      /\ Len(v) \in Nat /\ Len(r) \in Nat
  BY DEF Text
<1>2. /\ s \in Text /\ s = r \o << token >> \o c
      /\ \A i \in 1..Len(r) : s[i] = r[i]
      /\ s[Len(r) + 1] = token /\ Len(s) = Len(r) + Len(v)
  BY DEF Text
<1>3. \A i \in Occurrences(s, t) : i > Len(r)
  <2> SUFFICES ASSUME NEW i \in Occurrences(s, t), ~(i > Len(r)) PROVE FALSE
    OBVIOUS
  <2>1. i \in 1..Len(s) /\ s[i] = token
    <3>1. i \in 1..Len(s) /\ s[i + 1 - 1] = t[1]
      BY <1>1 DEF Occurrences, OccursAt
    <3> QED
      BY <1>1, <3>1
  <2>2. i \in 1..Len(r) /\ r[i] = token
    BY <1>1, <1>2, <2>1
  <2> QED
    BY <2>2, HasIs
<1>4. 1 \in Occurrences(v, t)
  <2>1. 1 \in 1..Len(v) /\ 1 + 1 - 1 <= Len(v) /\ \A j \in 1..1 : v[1 + j - 1] = t[j]
    BY <1>1
  <2> QED
    BY <1>1, <2>1 DEF Occurrences, OccursAt
<1>5. Occurs(v, t) /\ FirstAt(v, t) = 1
  <2>1. Occurs(v, t)
    BY <1>4 DEF Occurs
  <2>2. FirstAt(v, t) \in 1..Len(v) /\ \A i \in Occurrences(v, t) : FirstAt(v, t) <= i
    BY <1>1, <2>1, FirstAtProperties DEF Text
  <2> QED
    BY <1>4, <2>1, <2>2
<1>6. Before(v, t) = << >> /\ After(v, t) = c
  <2>1. Before(v, t) = SubSeq(v, 1, FirstAt(v, t) - 1)
    BY <1>5 DEF Before
  <2>2. After(v, t) = SubSeq(v, FirstAt(v, t) + Len(t), Len(v))
    BY <1>5 DEF After
  <2>3. FirstAt(v, t) - 1 = 0 /\ FirstAt(v, t) + Len(t) = 2
    BY <1>1, <1>5
  <2> QED
    BY <1>1, <2>1, <2>2, <2>3
<1>7. /\ Occurs(s, t) <=> Occurs(v, t)
      /\ Before(s, t) = r \o Before(v, t)
      /\ After(s, t) = After(v, t)
  <2> PICK C : C = Letter \cup Special
    OBVIOUS
  <2>1. r \in Seq(C) /\ v \in Seq(C) /\ t \in Seq(C) /\ t # << >>
    BY <1>1 DEF Text
  <2>2. \A i \in Occurrences(r \o v, t) : i > Len(r)
    BY <1>3
  <2>3. /\ Occurs(r \o v, t) <=> Occurs(v, t)
        /\ Before(r \o v, t) = r \o Before(v, t)
        /\ After(r \o v, t) = After(v, t)
    BY ONLY <2>1, <2>2, CutShift
  <2> QED
    BY <2>3
<1>8. r \o << >> = r
  BY DEF Text
<1> QED
  BY <1>2, <1>5, <1>6, <1>7, <1>8 DEF Has

\* Every text with a token is cut so.
LEMMA TokenCuts ==
  ASSUME NEW s \in Text, NEW token \in Special, Has(s, token)
  PROVE  \E r, c \in Text : s = r \o << token >> \o c /\ ~Has(r, token)
<1> PICK t : t = << token >>
  OBVIOUS
<1>1. t \in Text /\ t # << >> /\ Len(t) = 1 /\ t[1] = token /\ Occurs(s, t) /\ Len(s) \in Nat
  BY DEF Text, Has
<1> PICK i : i = FirstAt(s, t)
  OBVIOUS
<1>2. i \in 1..Len(s) /\ s[i] = token
  <2>1. i \in 1..Len(s) /\ OccursAt(s, t, i)
    BY <1>1, FirstAtProperties DEF Text
  <2>2. s[i + 1 - 1] = t[1]
    BY <1>1, <2>1 DEF OccursAt
  <2> QED
    BY <1>1, <2>1, <2>2
<1> PICK r : r = SubSeq(s, 1, i - 1)
  OBVIOUS
<1> PICK c : c = SubSeq(s, i + 1, Len(s))
  OBVIOUS
<1>3. r \in Text /\ c \in Text
  <2> PICK C : C = Letter \cup Special
    OBVIOUS
  <2>1. s \in Seq(C) /\ i \in 1..Len(s) /\ Len(s) \in Nat
    BY <1>1, <1>2 DEF Text
  <2>2. SubSeq(s, 1, i - 1) \in Seq(C) /\ SubSeq(s, i + 1, Len(s)) \in Seq(C)
    BY ONLY <2>1
  <2> QED
    BY <2>2 DEF Text
<1>4. s = r \o << token >> \o c
  BY <1>2, SplitAt DEF Text
<1>5. ~Has(r, token)
  <2>1. r = Before(s, t)
    BY <1>1 DEF Before
  <2> QED
    BY <1>1, <2>1, NoTagBefore DEF Has, Text
<1> QED
  BY <1>3, <1>4, <1>5

\* A text without either token consists of letters.
LEMMA NoTokenIsLetters ==
  ASSUME NEW s \in Text, ~Has(s, Start), ~Has(s, End)
  PROVE  s \in Seq(Letter)
<1>1. \A i \in 1..Len(s) : s[i] # Start /\ s[i] # End
  BY HasIs, LettersAreText
<1>2. \A i \in 1..Len(s) : s[i] \in Letter
  BY <1>1 DEF Text, Special
<1> QED
  BY <1>2 DEF Text

LEMMA LettersHaveNoToken ==
  ASSUME NEW s \in Seq(Letter), NEW token \in Special
  PROVE  ~Has(s, token)
<1>1. s \in Text /\ \A i \in 1..Len(s) : s[i] \in Letter
  BY LettersAreText
<1> QED
  BY <1>1, HasIs, LettersAreText

LEMMA TextJoins ==
  ASSUME NEW a \in Text, NEW b \in Text
  PROVE  a \o b \in Text /\ a \o << >> = a /\ << >> \o a = a /\ << >> \in Text
BY DEF Text

LEMMA TextRegroups ==
  ASSUME NEW a \in Text, NEW b \in Text, NEW c \in Text
  PROVE  Regroups(a, b, c)
BY DEF Regroups, Text

LEMMA EndIsText == << End >> \in Text /\ \A s \in Seq(Letter) : s \in Text
BY LettersAreText DEF Text

\* How the thought is divided, when text follows.
LEMMA ThoughtGrows ==
  ASSUME NEW t \in Text, ~Has(t, End), NEW d \in Seq(Letter)
  PROVE  /\ ~Has(t \o d, End)
         /\ Before(t \o d, << End >>) = t \o d /\ After(t \o d, << End >>) = << >>
<1> PICK s : s = t \o d
  OBVIOUS
<1>1. /\ d \in Text /\ s \in Text /\ Len(s) = Len(t) + Len(d) /\ Len(t) \in Nat /\ Len(d) \in Nat
      /\ \A i \in 1..Len(t) : s[i] = t[i]
      /\ \A i \in 1..Len(d) : s[Len(t) + i] = d[i] /\ d[i] \in Letter
  BY LettersAreText DEF Text
<1>2. ~Has(s, End)
  <2> SUFFICES ASSUME NEW i \in 1..Len(s), s[i] = End PROVE FALSE
    BY <1>1, HasIs, LettersAreText
  <2>1. CASE i \in 1..Len(t)
    BY <1>1, <2>1, HasIs, LettersAreText
  <2>2. CASE i \notin 1..Len(t)
    <3>1. PICK k \in 1..Len(d) : i = Len(t) + k
      BY <1>1, <2>2
    <3> QED
      BY <1>1, <3>1, LettersAreText
  <2> QED
    BY <2>1, <2>2
<1> QED
  BY <1>2 DEF Has, Before, After

LEMMA ThoughtEnds ==
  ASSUME NEW t \in Text, ~Has(t, End), NEW r \in Seq(Letter), NEW c \in Text
  PROVE  /\ Has(t \o (r \o << End >> \o c), End)
         /\ Before(t \o (r \o << End >> \o c), << End >>) = t \o r
         /\ After(t \o (r \o << End >> \o c), << End >>) = c
<1> PICK e \in Text : e = << End >>
  BY EndIsText
<1> PICK u \in Text : u = t \o r
  BY EndIsText, TextJoins
<1>1. /\ t \in Text /\ r \in Text /\ e \in Text /\ c \in Text /\ u \in Text
      /\ e \o c \in Text /\ r \o e \in Text /\ u = t \o r
  BY EndIsText, TextJoins
<1>2. t \o ((r \o e) \o c) = (u \o e) \o c
  <2> PICK f \in Text : f = e \o c
    BY <1>1
  <2>1. Regroups(r, e, c) /\ Regroups(t, r, f) /\ Regroups(u, e, c)
    BY <1>1, TextRegroups
  <2>2. /\ (r \o e) \o c = r \o f
        /\ t \o (r \o f) = (t \o r) \o f
    BY <2>1 DEF Regroups
  <2>3. (u \o e) \o c = u \o f
    BY <2>1 DEF Regroups
  <2> QED
    BY ONLY <1>1, <2>1, <2>2, <2>3
<1>3. ~Has(u, End)
  BY ThoughtGrows
<1>4. /\ Has((u \o e) \o c, End) /\ Before((u \o e) \o c, e) = u
      /\ After((u \o e) \o c, e) = c
  BY <1>3, CutAtToken, LettersAreText
<1> QED
  BY <1>2, <1>4
----------------------------------------------------------------------------
(* One delta                                                                *)

LEMMA StripType ==
  /\ \A s \in Text : StripLabel(s) \in Text
  /\ \A s \in Seq(Letter) : StripLabel(s) \in Seq(Letter)
<1>1. Len(Label) + 1 \in Nat \ {0}
  BY LabelAssumption
<1>2. ASSUME NEW C, NEW s \in Seq(C) PROVE SubSeq(s, Len(Label) + 1, Len(s)) \in Seq(C)
  BY <1>1
<1> QED
  BY <1>2 DEF StripLabel, Text

\* There is one of each token at most.
LEMMA TokenOnce ==
  ASSUME output \in Text, NEW delta \in Text, MayFollow(delta),
         NEW token \in Special, Has(output, token)
  PROVE  ~Has(delta, token)
<1> SUFFICES ASSUME Has(delta, token) PROVE FALSE
  OBVIOUS
<1> PICK all : all = output \o delta
  OBVIOUS
<1>1. /\ Len(all) = Len(output) + Len(delta) /\ Len(output) \in Nat /\ Len(delta) \in Nat
      /\ DOMAIN all = 1..Len(all)
      /\ \A i \in 1..Len(output) : all[i] = output[i]
      /\ \A i \in 1..Len(delta) : all[Len(output) + i] = delta[i]
  BY DEF Text
<1>2. PICK i \in 1..Len(output) : output[i] = token
  BY HasIs
<1>3. PICK k \in 1..Len(delta) : delta[k] = token
  BY HasIs
<1> PICK j : j = Len(output) + k
  OBVIOUS
<1>4. i \in DOMAIN all /\ j \in DOMAIN all /\ i # j /\ all[i] = token /\ all[j] = token
  BY <1>1, <1>2, <1>3
<1>5. \A x, y \in DOMAIN all : all[x] \in Special /\ all[y] = all[x] => x = y
  BY DEF MayFollow
<1> QED
  BY <1>4, <1>5

\* A delta with the end token, in its parts: the text in front of the reasoning
\* with the start token, the reasoning and the content.
LEMMA EndParts ==
  ASSUME output \in Text, NEW delta \in Text, MayFollow(delta), Has(delta, End),
         Has(output, Start) \/ Has(delta, Start)
  PROVE  \E q \in Text, r \in Seq(Letter), c \in Text :
           /\ delta = (q \o r) \o << End >> \o c
           /\ Before(delta, << End >>) = q \o r /\ After(delta, << End >>) = c
           /\ Has(delta, Start) =>
                /\ After(Before(delta, << End >>), << Start >>) = r
                /\ \E p \in Text : q = p \o << Start >> /\ ~Has(p, Start)
           /\ ~Has(delta, Start) => q = << >>
<1>1. PICK h \in Text, c \in Text : delta = h \o << End >> \o c /\ ~Has(h, End)
  BY TokenCuts, LettersAreText
<1>2. Before(delta, << End >>) = h /\ After(delta, << End >>) = c
  BY <1>1, CutAtToken, LettersAreText
<1>3. /\ Len(h) \in Nat /\ Len(delta) \in Nat /\ Len(h) <= Len(delta)
      /\ \A i \in 1..Len(h) : delta[i] = h[i]
  BY <1>1, EndIsText DEF Text
<1>4. CASE ~Has(delta, Start)
  <2>1. ~Has(h, Start)
    <3> SUFFICES ASSUME Has(h, Start) PROVE FALSE
      OBVIOUS
    <3>1. PICK i \in 1..Len(h) : h[i] = Start
      BY HasIs, LettersAreText
    <3>2. i \in 1..Len(delta) /\ delta[i] = Start
      BY <1>3, <3>1
    <3> QED
      BY <1>4, <3>2, HasIs, LettersAreText
  <2>2. h \in Seq(Letter)
    BY <1>1, <2>1, NoTokenIsLetters
  <2>3. << >> \in Text /\ << >> \o h = h
    BY TextJoins
  <2> PICK q \in Text : q = << >>
    BY <2>3
  <2>4. q \o h = h
    BY <2>3
  <2>5. delta = (q \o h) \o << End >> \o c
    BY <1>1, <2>4
  <2> QED
    BY <1>2, <1>4, <2>2, <2>4, <2>5
<1>5. CASE Has(delta, Start)
  <2> PICK all : all = output \o delta
    OBVIOUS
  <2>1. /\ all \in Text /\ \A i \in DOMAIN all : i \in Nat
        /\ \A i, j \in DOMAIN all : all[i] \in Special /\ all[j] = all[i] => i = j
        /\ Has(all, End) => ~Has(After(all, << End >>), Start)
    BY TextJoins DEF MayFollow, Text
  <2>2. \A i, j \in 1..Len(delta) : delta[i] \in Special /\ delta[j] = delta[i] => i = j
    <3> TAKE i, j \in 1..Len(delta)
    <3> HAVE delta[i] \in Special /\ delta[j] = delta[i]
    <3>1. /\ Len(output) \in Nat /\ Len(delta) \in Nat
          /\ Len(output) + i \in DOMAIN all /\ Len(output) + j \in DOMAIN all
          /\ all[Len(output) + i] = delta[i] /\ all[Len(output) + j] = delta[j]
      BY DEF Text
    <3>2. Len(output) + i = Len(output) + j
      BY <2>1, <3>1
    <3> QED
      BY <3>1, <3>2
  <2>3. Has(h, Start)
    <3> SUFFICES ASSUME ~Has(h, Start) PROVE FALSE
      OBVIOUS
    <3>1. ~Has(output, End)
      BY TokenOnce, LettersAreText
    <3>2. h \in Seq(Letter)
      BY <1>1, NoTokenIsLetters
    <3>3. Has(all, End) /\ After(all, << End >>) = c
      <4>1. /\ Has(output \o (h \o << End >> \o c), End)
            /\ After(output \o (h \o << End >> \o c), << End >>) = c
        BY ONLY <3>1, <3>2, output \in Text, c \in Text, ThoughtEnds
      <4> PICK w : w = h \o << End >> \o c
        OBVIOUS
      <4> QED
        BY <1>1, <4>1
    <3>4. ~Has(c, Start)
      BY <2>1, <3>3
    <3>5. PICK i \in 1..Len(delta) : delta[i] = Start
      BY <1>5, HasIs, LettersAreText
    <3>6. /\ Len(h) \in Nat /\ Len(c) \in Nat /\ Len(delta) = Len(h) + 1 + Len(c)
          /\ delta[Len(h) + 1] = End
          /\ \A k \in 1..Len(c) : delta[Len(h) + 1 + k] = c[k]
      BY <1>1, EndIsText DEF Text
    <3>7. i # Len(h) + 1
      BY <3>5, <3>6, TokenAssumption
    <3>8. CASE i \in 1..Len(h)
      <4>1. h[i] = Start
        BY <1>3, <3>5, <3>8
      <4> QED
        BY <3>8, <4>1, HasIs, LettersAreText
    <3>9. CASE i > Len(h) + 1
      <4> PICK k : k = i - (Len(h) + 1)
        OBVIOUS
      <4>2. k \in 1..Len(c) /\ Len(h) + 1 + k = i
        BY <3>5, <3>6, <3>9
      <4>1. c[k] = Start
        BY <3>5, <3>6, <4>2
      <4> QED
        BY <3>4, <4>1, <4>2, HasIs, LettersAreText
    <3> QED
      BY <3>5, <3>6, <3>7, <3>8, <3>9
  <2>4. PICK p \in Text, r \in Text : h = p \o << Start >> \o r /\ ~Has(p, Start)
    BY <2>3, TokenCuts, LettersAreText
  <2>5. After(h, << Start >>) = r
    BY <2>4, CutAtToken, LettersAreText
  <2>10. << Start >> \in Text
    BY LettersAreText DEF Text
  <2>11. p \o << Start >> \in Text
    BY <2>10, TextJoins
  <2> PICK q \in Text : q = p \o << Start >>
    BY <2>11
  <2>6. /\ Len(p) \in Nat /\ Len(r) \in Nat /\ Len(h) = Len(p) + 1 + Len(r)
        /\ h[Len(p) + 1] = Start
        /\ \A k \in 1..Len(r) : h[Len(p) + 1 + k] = r[k]
    BY <2>4, LettersAreText DEF Text
  <2>7. ~Has(r, Start) /\ ~Has(r, End)
    <3> SUFFICES ASSUME NEW k \in 1..Len(r), r[k] = Start \/ r[k] = End PROVE FALSE
      BY HasIs, LettersAreText
    <3>1. Len(p) + 1 + k \in 1..Len(h) /\ h[Len(p) + 1 + k] = r[k]
      BY <2>6
    <3>2. CASE r[k] = End
      BY <1>1, <3>1, <3>2, HasIs, LettersAreText
    <3>3. CASE r[k] = Start
      <4>1. /\ Len(p) + 1 + k \in 1..Len(delta) /\ Len(p) + 1 \in 1..Len(delta)
            /\ delta[Len(p) + 1 + k] = Start /\ delta[Len(p) + 1] = Start
        BY <1>3, <2>6, <3>1, <3>3
      <4>2. Len(p) + 1 + k = Len(p) + 1
        BY <2>2, <4>1, LettersAreText
      <4> QED
        BY <2>6, <4>2
    <3> QED
      BY <3>2, <3>3
  <2>8. r \in Seq(Letter)
    BY <2>7, NoTokenIsLetters
  <2>9. h = q \o r /\ delta = (q \o r) \o << End >> \o c
    BY <1>1, <2>4
  <2> QED
    BY <1>2, <1>5, <2>4, <2>5, <2>8, <2>9
<1> QED
  BY <1>4, <1>5

\* What the base class makes of a delta that it divides; unless it loses text,
\* nothing of the delta is left out, and the reasoning is long enough.
Divided(delta, r, c) ==
  /\ Base(output, delta) = Message(r, OrNone(c))
  /\ ~LosesText(delta) =>
       /\ Ordinary(delta) = r \o Ordinary(c)
       /\ c = << >> \/ ~Waiting(Ordinary(output) \o r)

LEMMA DividedIs ==
  ASSUME output \in Text, NEW delta \in Text, MayFollow(delta), Has(delta, End),
         Has(output, Start) \/ Has(delta, Start)
  PROVE  \E r \in Seq(Letter), c \in Text : Divided(delta, r, c)
<1>1. PICK q \in Text, r \in Seq(Letter), c \in Text :
           /\ delta = (q \o r) \o << End >> \o c
           /\ Before(delta, << End >>) = q \o r /\ After(delta, << End >>) = c
           /\ Has(delta, Start) =>
                /\ After(Before(delta, << End >>), << Start >>) = r
                /\ \E p \in Text : q = p \o << Start >> /\ ~Has(p, Start)
           /\ ~Has(delta, Start) => q = << >>
  BY EndParts
<1>2. Base(output, delta) = Message(r, OrNone(c))
  <2>1. CASE Has(output, Start)
    <3>1. ~Has(delta, Start)
      BY <2>1, TokenOnce, LettersAreText
    <3>2. q \o r = r
      BY <1>1, <3>1, EndIsText, TextJoins
    <3>3. Before(delta, << End >>) = r
      BY <1>1, <3>2
    <3> QED
      BY <1>1, <2>1, <3>3 DEF Base
  <2>2. CASE ~Has(output, Start)
    BY <1>1, <2>2 DEF Base
  <2> QED
    BY <2>1, <2>2
<1>3. ASSUME ~LosesText(delta)
      PROVE  Ordinary(delta) = r \o Ordinary(c) /\ (c = << >> \/ ~Waiting(Ordinary(output) \o r))
  <2>1. Ordinary(q) = << >>
    <3>1. CASE ~Has(delta, Start)
      BY <1>1, <3>1, OrdinaryOne
    <3>2. CASE Has(delta, Start)
      <4>1. PICK p \in Text : q = p \o << Start >> /\ ~Has(p, Start)
        BY <1>1, <3>2
      <4>2. delta[1] = Start
        <5>1. Has(output \o delta, Start)
          <6>1. PICK i \in 1..Len(delta) : delta[i] = Start
            BY <3>2, HasIs, LettersAreText
          <6> PICK all \in Text : all = output \o delta
            BY TextJoins
          <6>2. /\ Len(output) + i \in 1..Len(all) /\ all[Len(output) + i] = Start
            BY <6>1 DEF Text
          <6>3. Has(all, Start)
            BY <6>2, HasIs, LettersAreText
          <6> QED
            BY <6>3
        <5> QED
          BY <1>3, <3>2, <5>1 DEF LosesText
      <4>3. p = << >>
        <5> SUFFICES ASSUME p # << >> PROVE FALSE
          OBVIOUS
        <5>1. 1 \in 1..Len(p) /\ Len(p) \in Nat
          BY DEF Text
        <5>2. << Start >> \in Text /\ q \in Text /\ q[1] = p[1] /\ 1 \in 1..Len(q)
          BY <4>1, <5>1, LettersAreText DEF Text
        <5>3. delta[1] = q[1]
          BY <1>1, <5>2, EndIsText DEF Text
        <5> QED
          BY <4>1, <4>2, <5>1, <5>2, <5>3, HasIs, LettersAreText
      <4>4. << >> \o << Start >> = << Start >>
        OBVIOUS
      <4>5. q = << Start >>
        BY <4>1, <4>3, <4>4
      <4> QED
        BY <4>5, OrdinaryOne, LettersAreText
    <3> QED
      BY <3>1, <3>2
  <2>2. r \in Text /\ Ordinary(q \o r) = r
    <3>1. r \in Text
      BY EndIsText
    <3>2. Ordinary(q \o r) = Ordinary(q) \o Ordinary(r)
      BY <3>1, OrdinaryConcat
    <3>3. Ordinary(r) = r /\ << >> \o r = r
      BY <3>1, OrdinaryLetters, TextJoins
    <3> QED
      BY <2>1, <3>1, <3>2, <3>3
  <2> PICK h \in Text : h = q \o r
    BY <2>2, TextJoins
  <2>3. Ordinary(delta) = r \o Ordinary(c)
    <3> PICK k \in Text : k = << End >>
      BY EndIsText
    <3> PICK hk \in Text : hk = h \o k
      BY TextJoins
    <3>1. delta = hk \o c
      BY <1>1
    <3>2. Ordinary(hk \o c) = Ordinary(hk) \o Ordinary(c)
      BY OrdinaryConcat
    <3>3. Ordinary(h \o k) = Ordinary(h) \o Ordinary(k)
      BY OrdinaryConcat
    <3>4. Ordinary(k) = << >> /\ Ordinary(h) = r /\ r \o << >> = r
      BY <2>2, OrdinaryOne, LettersAreText, TextJoins
    <3> QED
      BY <3>1, <3>2, <3>3, <3>4
  <2>4. c = << >> \/ ~Waiting(Ordinary(output) \o r)
    <3>1. Has(output \o delta, Start)
      <4> PICK all \in Text : all = output \o delta
        BY TextJoins
      <4>1. \E i \in 1..Len(all) : all[i] = Start
        <5>1. CASE Has(output, Start)
          <6>1. PICK i \in 1..Len(output) : output[i] = Start
            BY <5>1, HasIs, LettersAreText
          <6>2. i \in 1..Len(all) /\ all[i] = Start
            BY <6>1 DEF Text
          <6> QED
            BY <6>2
        <5>2. CASE Has(delta, Start)
          <6>1. PICK i \in 1..Len(delta) : delta[i] = Start
            BY <5>2, HasIs, LettersAreText
          <6>2. Len(output) + i \in 1..Len(all) /\ all[Len(output) + i] = Start
            BY <6>1 DEF Text
          <6> QED
            BY <6>2
        <5> QED
          BY <5>1, <5>2
      <4>2. Has(all, Start)
        BY <4>1, HasIs, LettersAreText
      <4> QED
        BY <4>2
    <3>2. Ordinary(output \o h) = Ordinary(output) \o r
      <4>1. Ordinary(output \o h) = Ordinary(output) \o Ordinary(h)
        BY OrdinaryConcat
      <4>2. Ordinary(h) = r
        BY <2>2
      <4> QED
        BY <4>1, <4>2
    <3>3. c = << >> \/ ~Waiting(Ordinary(output \o h))
      BY <1>1, <1>3, <3>1 DEF LosesText
    <3> QED
      BY <3>2, <3>3
  <2> QED
    BY <2>3, <2>4
<1> QED
  BY <1>2, <1>3 DEF Divided

\* What the base class makes of the deltas that are not a special token alone: it
\* divides them, or passes them on as one text.
LEMMA BaseIs ==
  ASSUME output \in Text, NEW delta \in Deltas, MayFollow(delta),
         ~(Len(delta) = 1 /\ delta[1] \in Special)
  PROVE  /\ delta \in Text /\ delta # << >>
         /\ \/ /\ \/ Base(output, delta) = Message(delta, None)
                  \/ Base(output, delta) = Message(None, delta)
               /\ ~KeepsToken(delta) => delta \in Seq(Letter)
            \/ \E r \in Seq(Letter), c \in Text : Divided(delta, r, c)
<1>1. delta \in Text /\ delta # << >>
  BY DeltaAssumption DEF Text
<1>2. CASE Has(delta, End) /\ (Has(output, Start) \/ Has(delta, Start))
  BY <1>1, <1>2, DividedIs
<1>3. CASE ~Has(delta, End) /\ Has(output, Start)
  <2>1. ~Has(delta, Start)
    BY <1>1, <1>3, TokenOnce, LettersAreText
  <2>2. delta \in Seq(Letter)
    BY <1>1, <1>3, <2>1, NoTokenIsLetters
  <2>3. Base(output, delta) = Message(delta, None) \/ Base(output, delta) = Message(None, delta)
    BY <1>3 DEF Base
  <2> QED
    BY <1>1, <2>2, <2>3
<1>4. CASE ~Has(output, Start) /\ ~(Has(delta, End) /\ Has(delta, Start))
  <2>1. Base(output, delta) = Message(delta, None) \/ Base(output, delta) = Message(None, delta)
    BY <1>4 DEF Base
  <2>2. ASSUME ~KeepsToken(delta) PROVE delta \in Seq(Letter)
    <3>1. CASE ~Has(delta, Start) /\ ~Has(delta, End)
      BY <1>1, <3>1, NoTokenIsLetters
    <3>2. CASE Has(delta, Start) \/ Has(delta, End)
      <4>2. Len(delta) \in Nat \ {0}
        BY <1>1 DEF Text
      <4>3. ~(Len(delta) > 1)
        BY <1>4, <2>2, <3>2 DEF KeepsToken
      <4>4. Len(delta) = 1
        <5> PICK n : n = Len(delta)
          OBVIOUS
        <5>1. n \in Nat /\ n # 0 /\ ~(n > 1)
          BY <4>2, <4>3
        <5>2. n = 1
          BY ONLY <5>1
        <5> QED
          BY <5>2
      <4>5. \E i \in 1..Len(delta) : delta[i] \in Special
        BY <1>1, <3>2, HasIs, LettersAreText
      <4>6. delta[1] \in Special
        BY <4>4, <4>5
      <4> QED
        BY <4>4, <4>6
    <3> QED
      BY <3>1, <3>2
  <2> QED
    BY <1>1, <2>1, <2>2
<1> QED
  BY <1>2, <1>3, <1>4

Messages == [reasoning : Text \cup {None}, content : (Text \ {<< >>}) \cup {None}]
Said(m) == Given(m.reasoning) \o Given(m.content)

LEMMA GivenIs ==
  /\ Given(None) = << >> /\ \A s \in Text : Given(s) = s /\ Given(OrNone(s)) = s
  /\ \A s \in Text : OrNone(s) \in (Text \ {<< >>}) \cup {None}
  /\ \A s \in Text : s # None
BY NoneAssumption DEF Given, OrNone, Text

\* What has been sent, when a message more is.
LEMMA SentMore ==
  ASSUME sent \in Seq(Messages), NEW m \in Messages, sent' = Append(sent, m)
  PROVE  /\ SentReasoning \in Text /\ SentContent \in Text /\ SentText \in Text
         /\ SentReasoning' = SentReasoning \o Given(m.reasoning)
         /\ SentContent' = SentContent \o Given(m.content)
         /\ SentText' = SentText \o Said(m)
<1>1. \A n \in Messages : Given(n.reasoning) \in Text /\ Given(n.content) \in Text /\ Said(n) \in Text
  <2> TAKE n \in Messages
  <2>1. Given(n.reasoning) \in Text /\ Given(n.content) \in Text
    BY DEF Messages, Given, Text
  <2> QED
    BY <2>1 DEF Said, Text
<1>2. ASSUME NEW g \in [Messages -> Text]
      PROVE  /\ FlattenSeq(Mapped(g, sent)) \in Text
             /\ FlattenSeq(Mapped(g, sent')) = FlattenSeq(Mapped(g, sent)) \o g[m]
  <2> PICK C : C = Letter \cup Special
    OBVIOUS
  <2>1. Text = Seq(C) /\ g[m] \in Seq(C) /\ g \in [Messages -> Seq(C)]
    BY DEF Text
  <2>2. /\ Mapped(g, sent) \in Seq(Seq(C))
        /\ Mapped(g, sent') = Append(Mapped(g, sent), g[m])
    <3> PICK s \in Seq(Messages) : s = sent
      OBVIOUS
    <3>1. Mapped(g, s) \in Seq(Seq(C)) /\ Mapped(g, Append(s, m)) = Append(Mapped(g, s), g[m])
      <4>1. IsMap(g, Messages, Seq(C))
        BY <2>1 DEF IsMap
      <4> QED
        BY <4>1, MapAppend
    <3> QED
      BY <3>1
  <2> QED
    BY <2>1, <2>2, FlattenAppend
<1>3. /\ SentReasoning \in Text /\ SentReasoning' = SentReasoning \o Given(m.reasoning)
  <2> PICK g \in [Messages -> Text] : g = [n \in Messages |-> Given(n.reasoning)]
    BY <1>1
  <2>1. /\ Mapped(g, sent) = [i \in DOMAIN sent |-> Given(sent[i].reasoning)]
        /\ Mapped(g, sent') = [i \in DOMAIN sent' |-> Given(sent'[i].reasoning)]
    BY DEF Mapped
  <2> QED
    BY <1>2, <2>1 DEF SentReasoning
<1>4. /\ SentContent \in Text /\ SentContent' = SentContent \o Given(m.content)
  <2> PICK g \in [Messages -> Text] : g = [n \in Messages |-> Given(n.content)]
    BY <1>1
  <2>1. /\ Mapped(g, sent) = [i \in DOMAIN sent |-> Given(sent[i].content)]
        /\ Mapped(g, sent') = [i \in DOMAIN sent' |-> Given(sent'[i].content)]
    BY DEF Mapped
  <2> QED
    BY <1>2, <2>1 DEF SentContent
<1>5. /\ SentText \in Text /\ SentText' = SentText \o Said(m)
  <2> PICK g \in [Messages -> Text] : g = [n \in Messages |-> Said(n)]
    BY <1>1
  <2>1. /\ Mapped(g, sent) = [i \in DOMAIN sent |-> Said(sent[i])]
        /\ Mapped(g, sent') = [i \in DOMAIN sent' |-> Said(sent'[i])]
    BY DEF Mapped
  <2> QED
    BY <1>2, <2>1 DEF SentText, Said
<1> QED
  BY <1>3, <1>4, <1>5
----------------------------------------------------------------------------
(* No text is lost                                                          *)

\* What the client has been sent is the text without the label, or with it when
\* a token was kept; or nothing has been sent, and the buffer holds the text.
PartInv ==
  /\ ~stripped => sent = << >> /\ Held(buffer) /\ (lostText \/ buffer = Ordinary(output))
  /\ stripped /\ ~lostText =>
       /\ \/ Ordinary(SentText) = StripLabel(Ordinary(output))
          \/ keptToken /\ Ordinary(SentText) = Ordinary(output)
       /\ keptToken \/ ~Waiting(Ordinary(output))
StreamInv == ParserTypeOK /\ PartInv

LEMMA NothingSent == ASSUME sent = << >> PROVE SentText = << >> /\ SentReasoning = << >> /\ SentContent = << >>
<1>1. FlattenSeq(<< >>) = << >>
  BY DEF FlattenSeq
<1>2. /\ [i \in DOMAIN sent |-> Given(sent[i].reasoning)] = << >>
      /\ [i \in DOMAIN sent |-> Given(sent[i].content)] = << >>
      /\ [i \in DOMAIN sent |-> Given(sent[i].reasoning) \o Given(sent[i].content)] = << >>
  OBVIOUS
<1> QED
  BY <1>1, <1>2 DEF SentText, SentReasoning, SentContent

LEMMA EmptyHeld == Held(<< >>)
<1>1. << >> \in Text /\ Len(<< >>) = 0 /\ Label \in Text /\ Len(Label) \in Nat
  BY LettersAreText DEF Text
<1> PICK e : e = << >>
  OBVIOUS
<1>2. Len(e) <= Len(Label) /\ \A j \in 1..Len(e) : e[j] = Label[j]
  BY <1>1
<1>3. IsPrefix(e, Label)
  BY <1>1, <1>2, PrefixIs
<1> QED
  BY <1>3 DEF Held

LEMMA StreamInit == ParserInit => StreamInv
<1> SUFFICES ASSUME ParserInit PROVE StreamInv
  OBVIOUS
<1>1. Held(<< >>)
  BY EmptyHeld
<1>2. Ordinary(output) = << >>
  BY OrdinaryOne DEF ParserInit
<1>3. ParserTypeOK
  <2>1. << >> \in Text /\ Len(<< >>) = 0 /\ MaxLength \in Nat
    BY DeltaAssumption DEF Text
  <2>2. << >> \in Seq([reasoning : Text \cup {None}, content : (Text \ {<< >>}) \cup {None}])
    OBVIOUS
  <2>3. output \in Text /\ Len(output) <= MaxLength /\ buffer \in Text
    BY <2>1 DEF ParserInit
  <2>4. stripped \in BOOLEAN /\ finished \in BOOLEAN /\ keptToken \in BOOLEAN /\ lostText \in BOOLEAN
    BY DEF ParserInit
  <2>5. sent \in Seq([reasoning : Text \cup {None}, content : (Text \ {<< >>}) \cup {None}])
    BY <2>2 DEF ParserInit
  <2> QED
    BY <2>3, <2>4, <2>5 DEF ParserTypeOK
<1> QED
  BY <1>1, <1>2, <1>3 DEF ParserInit, StreamInv, PartInv

\* Messages of the two fields.
LEMMA MessageType ==
  ASSUME NEW r \in Text, NEW c \in Text
  PROVE  /\ Message(r, None) \in Messages /\ Said(Message(r, None)) = r
         /\ Message(r, OrNone(c)) \in Messages /\ Said(Message(r, OrNone(c))) = r \o c
         /\ Message(None, OrNone(c)) \in Messages /\ Said(Message(None, OrNone(c))) = c
<1>1. r # None /\ OrNone(c) \in (Text \ {<< >>}) \cup {None}
  BY GivenIs
<1>2. /\ Message(r, None) \in Messages /\ Message(r, OrNone(c)) \in Messages
      /\ Message(None, OrNone(c)) \in Messages
  BY <1>1 DEF Message, Messages
<1>3. /\ Given(r) = r /\ Given(OrNone(c)) = c /\ Given(None) = << >>
      /\ r \o << >> = r /\ << >> \o c = c
  BY GivenIs DEF Text
<1> QED
  BY <1>2, <1>3 DEF Message, Said

\* The text of a message of the base class is the delta's.
LEMMA MessageSays ==
  ASSUME output \in Text, NEW delta \in Deltas, MayFollow(delta),
         ~(Len(delta) = 1 /\ delta[1] \in Special),
         NEW m, m = Base(output, delta)
  PROVE  /\ m \in Messages
         /\ m.reasoning # None => m.reasoning \in Text
         /\ m.reasoning = None => m.content \in Text
         /\ ~LosesText(delta) => Ordinary(Said(m)) = Ordinary(delta)
<1>1. delta \in Text /\ delta # << >>
  BY BaseIs
<1>2. CASE m = Message(delta, None) \/ m = Message(None, delta)
  <2>1. delta \o << >> = delta /\ << >> \o delta = delta /\ delta # None
    BY <1>1, GivenIs DEF Text
  <2>2. Given(None) = << >> /\ Given(delta) = delta
    BY <1>1, GivenIs
  <2>3. CASE m = Message(delta, None)
    <3>1. m.reasoning = delta /\ m.content = None /\ m \in Messages
      BY <1>1, <2>3 DEF Message, Messages
    <3> QED
      BY <1>1, <2>1, <2>2, <3>1 DEF Said
  <2>4. CASE m = Message(None, delta)
    <3>1. m.reasoning = None /\ m.content = delta /\ m \in Messages
      BY <1>1, <2>4 DEF Message, Messages
    <3> QED
      BY <1>1, <2>1, <2>2, <3>1 DEF Said
  <2> QED
    BY <1>2, <2>3, <2>4
<1>3. ASSUME NEW r \in Seq(Letter), NEW c \in Text, Divided(delta, r, c)
      PROVE  /\ m \in Messages /\ m.reasoning \in Text
             /\ ~LosesText(delta) => Ordinary(Said(m)) = Ordinary(delta)
  <2>1. r \in Text /\ r \o c \in Text /\ m = Message(r, OrNone(c))
    BY <1>3, EndIsText, TextJoins DEF Divided
  <2>2. m.reasoning = r /\ m \in Messages /\ Said(m) = r \o c
    <3>1. Message(r, OrNone(c)) \in Messages /\ Said(Message(r, OrNone(c))) = r \o c
      BY <2>1, MessageType
    <3>2. m.reasoning = r
      BY <2>1 DEF Message
    <3> QED
      BY <2>1, <3>1, <3>2
  <2>3. Ordinary(r \o c) = r \o Ordinary(c)
    <3>1. Ordinary(r \o c) = Ordinary(r) \o Ordinary(c) /\ Ordinary(r) = r
      BY <2>1, OrdinaryConcat, OrdinaryLetters
    <3> QED
      BY <3>1
  <2> QED
    BY <1>3, <2>1, <2>2, <2>3 DEF Divided
<1>4. m.reasoning \in Text => m.reasoning # None
  BY GivenIs
<1> QED
  BY <1>2, <1>3, <1>4, BaseIs, GivenIs

\* Together with the text before, in both of its forms.
LEMMA GeneratedGrows ==
  ASSUME output \in Text, NEW delta \in Text, output' = output \o delta
  PROVE  /\ output' \in Text
         /\ Ordinary(output') = Ordinary(output) \o Ordinary(delta)
         /\ Ordinary(output) \in Seq(Letter) /\ Ordinary(delta) \in Seq(Letter)
<1>1. output \o delta \in Text
  BY DEF Text
<1>2. Ordinary(output \o delta) = Ordinary(output) \o Ordinary(delta)
  BY OrdinaryConcat
<1> PICK o \in Text : o = output
  OBVIOUS
<1> PICK n : n = output'
  OBVIOUS
<1>3. n \in Text /\ n = o \o delta
  BY <1>1
<1>4. Ordinary(n) = Ordinary(o) \o Ordinary(delta)
  BY <1>2, <1>3
<1>5. Ordinary(o) \in Seq(Letter) /\ Ordinary(delta) \in Seq(Letter)
  BY OrdinaryType
<1> QED
  BY <1>3, <1>4, <1>5 DEF Ordinary

\* The first text of one kind: what is held back, and what is released.
LEMMA ReasoningHandled ==
  ASSUME NEW b \in Text, Held(b), NEW d \in Text, NEW content
  PROVE  /\ Awaits(Message(d, content), b \o d) <=> Waiting(b \o d)
         /\ Filtered(Message(d, content), b \o d) = Message(StripLabel(b \o d), content)
<1> PICK m : m = Message(d, content)
  OBVIOUS
<1> PICK t : t = b \o d
  OBVIOUS
<1>1. m.reasoning = d /\ d # None
  BY GivenIs DEF Message
<1>2. Release(t, d) = StripLabel(t)
  BY ReleaseIs
<1>3. Filtered(m, t) = Message(StripLabel(t), content)
  <2>1. Filtered(m, t) = [m EXCEPT !.reasoning = Release(t, @)]
    BY <1>1 DEF Filtered
  <2> QED
    BY <1>1, <1>2, <2>1 DEF Message
<1>4. Awaits(m, t) <=> Waiting(t)
  BY <1>1 DEF Awaits, Waiting
<1> QED
  BY <1>3, <1>4

LEMMA ContentHandled ==
  ASSUME NEW b \in Text, Held(b), NEW d \in Text
  PROVE  /\ Awaits(Message(None, d), b \o d) <=> Held(b \o d)
         /\ Filtered(Message(None, d), b \o d) = Message(None, OrNone(StripLabel(b \o d)))
<1> PICK m : m = Message(None, d)
  OBVIOUS
<1> PICK t : t = b \o d
  OBVIOUS
<1>1. m.reasoning = None /\ m.content = d
  BY DEF Message
<1>2. Release(t, d) = StripLabel(t)
  BY ReleaseIs
<1>3. Filtered(m, t) = Message(None, OrNone(StripLabel(t)))
  <2>1. Filtered(m, t) = [m EXCEPT !.content = OrNone(Release(t, @))]
    BY <1>1 DEF Filtered
  <2> QED
    BY <1>1, <1>2, <2>1 DEF Message
<1>4. Awaits(m, t) <=> Held(t)
  BY <1>1 DEF Awaits
<1> QED
  BY <1>3, <1>4

\* What is handled in a delta: the text that becomes part of the output.
Piece(m) == IF m.reasoning # None THEN m.reasoning ELSE m.content

\* The label is taken from the text with its tokens as from the text without
\* them, or is not found.
LEMMA StripOrdinary ==
  ASSUME NEW w \in Text
  PROVE  \/ Ordinary(StripLabel(w)) = StripLabel(Ordinary(w))
         \/ Ordinary(StripLabel(w)) = Ordinary(w)
<1>1. CASE IsPrefix(Label, w)
  <2> PICK v : v = SubSeq(w, Len(Label) + 1, Len(w))
    OBVIOUS
  <2>1. /\ Len(Label) \in Nat /\ Len(w) \in Nat /\ Label \in Text /\ Len(Label) <= Len(w)
        /\ \A j \in 1..Len(Label) : Label[j] = w[j]
    BY <1>1, PrefixIs, LettersAreText, LabelAssumption DEF Text
  <2>2. v \in Text /\ Len(v) = Len(w) - Len(Label) /\ \A j \in 1..Len(v) : v[j] = w[Len(Label) + j]
    BY <2>1 DEF Text
  <2>3. w = Label \o v
    <3> PICK n : n = Label \o v
      OBVIOUS
    <3>1. /\ n \in Text /\ Len(n) = Len(w) /\ \A j \in 1..Len(Label) : n[j] = Label[j]
          /\ \A j \in 1..Len(v) : n[Len(Label) + j] = v[j]
      BY <2>1, <2>2 DEF Text
    <3>2. ASSUME NEW j \in 1..Len(w) PROVE n[j] = w[j]
      <4>1. CASE j \in 1..Len(Label)
        BY <2>1, <3>1, <4>1
      <4>2. CASE j \notin 1..Len(Label)
        <5>1. j - Len(Label) \in 1..Len(v) /\ Len(Label) + (j - Len(Label)) = j
          BY <2>1, <2>2, <4>2
        <5> QED
          BY <2>2, <3>1, <5>1
      <4> QED
        BY <4>1, <4>2
    <3> QED
      BY <3>1, <3>2 DEF Text
  <2>4. ~Waiting(Label) /\ StripLabel(Label) = << >>
    <3>1. IsPrefix(Label, Label)
      BY <2>1, PrefixIs
    <3>2. SubSeq(Label, Len(Label) + 1, Len(Label)) = << >>
      BY LabelAssumption
    <3> QED
      BY <3>1, <3>2 DEF Waiting, StripLabel
  <2>5. \A u \in Text : StripLabel(Label \o u) = u
    <3> TAKE u \in Text
    <3>1. StripLabel(Label \o u) = StripLabel(Label) \o u
      BY <2>1, <2>4, LabelSettled
    <3> QED
      BY <2>4, <3>1, TextJoins
  <2> PICK y \in Text : y = Ordinary(v)
    BY <2>2, OrdinaryType, EndIsText
  <2>6. Ordinary(w) = Label \o y
    <3>1. Ordinary(Label \o v) = Ordinary(Label) \o Ordinary(v) /\ Ordinary(Label) = Label
      BY <2>1, <2>2, OrdinaryConcat, OrdinaryLetters, LabelAssumption
    <3> QED
      BY <2>3, <3>1
  <2>7. StripLabel(w) = v
    BY <2>2, <2>3, <2>5
  <2>8. StripLabel(Ordinary(w)) = y
    BY <2>5, <2>6
  <2> QED
    BY <2>7, <2>8
<1>2. CASE ~IsPrefix(Label, w)
  BY <1>2 DEF StripLabel
<1> QED
  BY <1>1, <1>2

\* What is sent of w is all of it, with the label only where a token was kept.
Sends(s, w, kept) ==
  /\ s = StripLabel(w) \/ (kept /\ s = w)
  /\ kept \/ ~Waiting(w)

\* A text passed on as one, while nothing has been sent.
LEMMA FirstWhole ==
  ASSUME NEW delta \in Text, NEW b \in Text, Held(b),
         NEW m, m = Message(delta, None) \/ m = Message(None, delta)
  PROVE  /\ Piece(m) = delta
         /\ Awaits(m, b \o delta) =>
              Held(b \o delta) /\ b \o delta = b \o Ordinary(delta)
         /\ ~Awaits(m, b \o delta) =>
              /\ Filtered(m, b \o delta) \in Messages
              /\ \A kept \in BOOLEAN : (~kept => delta \in Seq(Letter)) =>
                   Sends(Ordinary(Said(Filtered(m, b \o delta))), b \o Ordinary(delta), kept)
<1> PICK w \in Text : w = b \o delta
  BY TextJoins
<1> PICK a \in Text : a = StripLabel(w)
  BY StripType
<1>1. Piece(m) = delta
  BY GivenIs DEF Message, Piece
<1>2. Ordinary(w) = b \o Ordinary(delta)
  <2>1. Ordinary(b \o delta) = Ordinary(b) \o Ordinary(delta) /\ Ordinary(b) = b
    BY OrdinaryConcat, OrdinaryLetters, HeldIs
  <2> QED
    BY <2>1
<1>3. ASSUME Held(w) PROVE w = b \o Ordinary(delta)
  <2>1. Ordinary(w) = w
    BY <1>3, HeldIs, OrdinaryLetters
  <2> QED
    BY <1>2, <2>1
<1>4. /\ Awaits(m, w) => Held(w)
      /\ Waiting(w) => Awaits(m, w)
      /\ ~Awaits(m, w) => Filtered(m, w) \in Messages /\ Said(Filtered(m, w)) = a
  <2>1. CASE m = Message(delta, None)
    <3>1. /\ Awaits(m, w) <=> Waiting(w)
          /\ Filtered(m, w) = Message(a, None)
      BY <2>1, ReasoningHandled
    <3>2. Message(a, None) \in Messages /\ Said(Message(a, None)) = a
      BY TextJoins, MessageType
    <3> QED
      BY <3>1, <3>2 DEF Waiting
  <2>2. CASE m = Message(None, delta)
    <3>1. /\ Awaits(m, w) <=> Held(w)
          /\ Filtered(m, w) = Message(None, OrNone(a))
      BY <2>2, ContentHandled
    <3>2. Message(None, OrNone(a)) \in Messages /\ Said(Message(None, OrNone(a))) = a
      BY TextJoins, MessageType
    <3> QED
      BY <3>1, <3>2 DEF Waiting
  <2> QED
    BY <2>1, <2>2
<1>5. ASSUME NEW kept \in BOOLEAN, ~kept => delta \in Seq(Letter), ~Awaits(m, w)
      PROVE  Sends(Ordinary(a), Ordinary(w), kept)
  <2>1. CASE kept
    BY <2>1, StripOrdinary DEF Sends
  <2>2. CASE ~kept
    <3>1. w \in Seq(Letter)
      BY <1>5, <2>2, HeldIs
    <3>2. a \in Seq(Letter) /\ Ordinary(w) = w
      BY <3>1, StripType, OrdinaryLetters
    <3>3. Ordinary(a) = a
      BY <3>2, OrdinaryLetters
    <3> QED
      BY <1>4, <1>5, <3>2, <3>3 DEF Sends
  <2> QED
    BY <2>1, <2>2
<1>6. ~Awaits(m, w) =>
        /\ Filtered(m, w) \in Messages
        /\ \A kept \in BOOLEAN : (~kept => delta \in Seq(Letter)) =>
             Sends(Ordinary(Said(Filtered(m, w))), b \o Ordinary(delta), kept)
  BY <1>2, <1>4, <1>5
<1> QED
  BY <1>1, <1>3, <1>4, <1>6

\* A delta that is divided, while nothing has been sent.
LEMMA FirstDivided ==
  ASSUME NEW r \in Seq(Letter), NEW c \in Text, NEW b \in Text, Held(b),
         NEW m, m = Message(r, OrNone(c))
  PROVE  /\ Piece(m) = r
         /\ Awaits(m, b \o r) <=> Waiting(b \o r)
         /\ ~Waiting(b \o r) =>
              /\ Filtered(m, b \o r) \in Messages
              /\ Filtered(m, b \o r) = Message(StripLabel(b \o r), OrNone(c))
              /\ Sends(Ordinary(Said(Filtered(m, b \o r))), b \o (r \o Ordinary(c)), FALSE)
<1>1. r \in Text /\ b \in Seq(Letter)
  BY EndIsText, HeldIs
<1>10. b \o r \in Seq(Letter)
  BY <1>1
<1> PICK w \in Seq(Letter) : w = b \o r
  BY <1>10
<1> PICK d \in Text : d = Ordinary(c)
  BY OrdinaryType, EndIsText
<1> PICK a \in Seq(Letter) : a = StripLabel(w)
  BY StripType
<1>2. w \in Text /\ a \in Text
  BY EndIsText
<1>3. Piece(m) = r
  BY <1>1, GivenIs DEF Message, Piece
<1>4. /\ Awaits(m, w) <=> Waiting(w)
      /\ Filtered(m, w) = Message(a, OrNone(c))
  BY <1>1, ReasoningHandled
<1>5. Message(a, OrNone(c)) \in Messages /\ Said(Message(a, OrNone(c))) = a \o c
  BY <1>2, MessageType
<1>6. Ordinary(a \o c) = a \o d
  <2>1. Ordinary(a \o c) = Ordinary(a) \o Ordinary(c) /\ Ordinary(a) = a
    BY <1>2, OrdinaryConcat, OrdinaryLetters
  <2> QED
    BY <2>1
<1>7. b \o (r \o d) = w \o d
  <2>1. Regroups(b, r, d)
    BY <1>1, TextRegroups
  <2> QED
    BY <2>1 DEF Regroups
<1>8. ~Waiting(w) => StripLabel(w \o d) = a \o d /\ ~Waiting(w \o d)
  BY <1>2, LabelSettled
<1>9. ~Waiting(w) => Sends(Ordinary(Said(Filtered(m, w))), b \o (r \o d), FALSE)
  <2> PICK s : s = Ordinary(Said(Filtered(m, w)))
    OBVIOUS
  <2> PICK v : v = w \o d
    OBVIOUS
  <2>1. s = a \o d
    BY <1>4, <1>5, <1>6
  <2>2. ~Waiting(w) => Sends(s, v, FALSE)
    BY <1>8, <2>1 DEF Sends
  <2> QED
    BY <1>7, <2>2
<1> QED
  BY <1>3, <1>4, <1>5, <1>9

\* While nothing has been sent: the text is held back as a whole, or it is sent
\* as a whole but for the label.
LEMMA FirstMessage ==
  ASSUME output \in Text, NEW delta \in Deltas, MayFollow(delta),
         ~(Len(delta) = 1 /\ delta[1] \in Special),
         NEW b \in Text, Held(b), NEW m, m = Base(output, delta)
  PROVE  /\ Piece(m) \in Text
         /\ Awaits(m, b \o Piece(m)) => Held(b \o Piece(m))
         /\ ~Awaits(m, b \o Piece(m)) => Filtered(m, b \o Piece(m)) \in Messages
         /\ ~LosesText(delta) /\ b = Ordinary(output) =>
              /\ Awaits(m, b \o Piece(m)) => b \o Piece(m) = b \o Ordinary(delta)
              /\ ~Awaits(m, b \o Piece(m)) =>
                   Sends(Ordinary(Said(Filtered(m, b \o Piece(m)))),
                         b \o Ordinary(delta), KeepsToken(delta))
<1>1. delta \in Text
  BY BaseIs
<1>2. CASE /\ m = Message(delta, None) \/ m = Message(None, delta)
           /\ ~KeepsToken(delta) => delta \in Seq(Letter)
  <2>1. KeepsToken(delta) \in BOOLEAN
    BY DEF KeepsToken
  <2>2. /\ Piece(m) = delta
        /\ Awaits(m, b \o delta) => Held(b \o delta) /\ b \o delta = b \o Ordinary(delta)
        /\ ~Awaits(m, b \o delta) =>
              /\ Filtered(m, b \o delta) \in Messages
              /\ Sends(Ordinary(Said(Filtered(m, b \o delta))), b \o Ordinary(delta),
                       KeepsToken(delta))
    BY <1>1, <1>2, <2>1, FirstWhole
  <2> QED
    BY <1>1, <2>2
<1>3. ASSUME NEW r \in Seq(Letter), NEW c \in Text, Divided(delta, r, c)
      PROVE  /\ Piece(m) \in Text
             /\ Awaits(m, b \o Piece(m)) => Held(b \o Piece(m))
             /\ ~Awaits(m, b \o Piece(m)) => Filtered(m, b \o Piece(m)) \in Messages
             /\ ~LosesText(delta) /\ b = Ordinary(output) =>
                  /\ Awaits(m, b \o Piece(m)) => b \o Piece(m) = b \o Ordinary(delta)
                  /\ ~Awaits(m, b \o Piece(m)) =>
                       Sends(Ordinary(Said(Filtered(m, b \o Piece(m)))),
                             b \o Ordinary(delta), KeepsToken(delta))
  <2>1. r \in Text /\ m = Message(r, OrNone(c))
    BY <1>3, EndIsText DEF Divided
  <2>2. /\ Piece(m) = r
        /\ Awaits(m, b \o r) <=> Waiting(b \o r)
        /\ ~Waiting(b \o r) =>
              /\ Filtered(m, b \o r) \in Messages
              /\ Sends(Ordinary(Said(Filtered(m, b \o r))), b \o (r \o Ordinary(c)), FALSE)
    BY <2>1, FirstDivided
  <2>3. Waiting(b \o r) => Held(b \o r)
    BY DEF Waiting
  <2>4. ASSUME ~LosesText(delta), b = Ordinary(output)
        PROVE  /\ Waiting(b \o r) => b \o r = b \o Ordinary(delta)
               /\ ~Waiting(b \o r) =>
                    Sends(Ordinary(Said(Filtered(m, b \o r))), b \o Ordinary(delta),
                          KeepsToken(delta))
    <3>1. Ordinary(delta) = r \o Ordinary(c) /\ (c = << >> \/ ~Waiting(b \o r))
      BY <1>3, <2>4 DEF Divided
    <3>2. ASSUME Waiting(b \o r) PROVE b \o r = b \o Ordinary(delta)
      <4>1. Ordinary(c) = << >>
        BY <3>1, <3>2, OrdinaryOne
      <4>2. r \o << >> = r
        BY <2>1, TextJoins
      <4>3. Ordinary(delta) = r
        BY <3>1, <4>1, <4>2
      <4> QED
        BY <4>3
    <3>3. \A s, w : Sends(s, w, FALSE) => Sends(s, w, KeepsToken(delta))
      BY DEF Sends
    <3>4. ASSUME ~Waiting(b \o r)
          PROVE  Sends(Ordinary(Said(Filtered(m, b \o r))), b \o Ordinary(delta), KeepsToken(delta))
      <4> PICK s : s = Ordinary(Said(Filtered(m, b \o r)))
        OBVIOUS
      <4> PICK w : w = b \o (r \o Ordinary(c))
        OBVIOUS
      <4>1. Sends(s, w, FALSE) /\ w = b \o Ordinary(delta)
        BY <2>2, <3>1, <3>4
      <4> QED
        BY <3>3, <4>1
    <3> QED
      BY <3>2, <3>4
  <2> QED
    BY <2>1, <2>2, <2>3, <2>4
<1> QED
  BY <1>2, <1>3, BaseIs

\* One message of the base class.
LEMMA HandleIs ==
  ASSUME NEW m, Handle(m)
  PROVE  /\ buffer' = IF stripped /\ m.reasoning = None THEN buffer ELSE buffer \o Piece(m)
         /\ stripped => sent' = Append(sent, m) /\ stripped' = stripped
         /\ ~stripped /\ Awaits(m, buffer \o Piece(m)) => stripped' = stripped /\ sent' = sent
         /\ ~stripped /\ ~Awaits(m, buffer \o Piece(m)) =>
              sent' = Append(sent, Filtered(m, buffer \o Piece(m))) /\ stripped' = TRUE
<1> PICK p : p = Piece(m)
  OBVIOUS
<1>1. /\ buffer' = IF stripped /\ m.reasoning = None THEN buffer ELSE buffer \o p
      /\ IF stripped THEN sent' = Append(sent, m) /\ UNCHANGED stripped
         ELSE IF Awaits(m, buffer \o p) THEN UNCHANGED << stripped, sent >>
         ELSE sent' = Append(sent, Filtered(m, buffer \o p)) /\ stripped' = TRUE
  BY DEF Handle, Piece
<1>2. CASE stripped
  BY <1>1, <1>2
<1>3. CASE ~stripped /\ Awaits(m, buffer \o p)
  BY <1>1, <1>3
<1>4. CASE ~stripped /\ ~Awaits(m, buffer \o p)
  BY <1>1, <1>4
<1> QED
  BY <1>1, <1>2, <1>3, <1>4

LEMMA SaidType == \A m \in Messages : Said(m) \in Text
<1> TAKE m \in Messages
<1>1. Given(m.reasoning) \in Text /\ Given(m.content) \in Text
  BY DEF Messages, Given, Text
<1> QED
  BY <1>1, TextJoins DEF Said

LEMMA NoneMore ==
  ASSUME sent' = sent
  PROVE  /\ SentText' = SentText /\ SentReasoning' = SentReasoning
         /\ SentContent' = SentContent
BY DEF SentText, SentReasoning, SentContent

\* What has been sent, when a text more is passed on.
LEMMA SendsMore ==
  ASSUME NEW s \in Text, NEW o \in Text, NEW d \in Text, NEW kept \in BOOLEAN, Sends(s, o, kept)
  PROVE  Sends(s \o d, o \o d, kept)
<1>1. CASE ~Waiting(o)
  <2>1. StripLabel(o \o d) = StripLabel(o) \o d /\ ~Waiting(o \o d)
    BY <1>1, LabelSettled
  <2>2. CASE s = StripLabel(o)
    BY <2>1, <2>2 DEF Sends
  <2>3. CASE s # StripLabel(o)
    <3>1. s = o /\ kept
      BY <2>3 DEF Sends
    <3>2. s \o d = o \o d
      BY <3>1
    <3> PICK x : x = o \o d
      OBVIOUS
    <3>3. Sends(x, x, kept)
      BY <3>1 DEF Sends
    <3> QED
      BY <3>2, <3>3
  <2> QED
    BY <2>2, <2>3
<1>2. CASE Waiting(o)
  <2>1. kept
    BY <1>2 DEF Sends
  <2>2. StripLabel(o) = o
    <3>1. Label \in Text /\ Len(o) < Len(Label) /\ Len(o) \in Nat /\ Len(Label) \in Nat
      BY <1>2, HeldIs, LettersAreText DEF Waiting, Text
    <3>2. ~IsPrefix(Label, o)
      BY <3>1, PrefixIs
    <3> QED
      BY <3>2 DEF StripLabel
  <2>3. s = o
    BY <2>2 DEF Sends
  <2> PICK x : x = o \o d
    OBVIOUS
  <2>4. Sends(x, x, kept) /\ s \o d = x
    BY <2>1, <2>3 DEF Sends
  <2> QED
    BY <2>4
<1> QED
  BY <1>1, <1>2

LEMMA GenerateKeeps ==
  ASSUME StreamInv, NEW delta \in Deltas, Generate(delta)
  PROVE  StreamInv'
<1>1. /\ output \in Text /\ delta \in Text /\ output' = output \o delta
      /\ buffer \in Text /\ stripped \in BOOLEAN /\ sent \in Seq(Messages)
      /\ finished \in BOOLEAN /\ finished' = finished /\ Len(output') <= MaxLength
      /\ keptToken \in BOOLEAN /\ lostText \in BOOLEAN
      /\ MayFollow(delta)
  BY DeltaAssumption DEF StreamInv, ParserTypeOK, Messages, Generate, MayFollow, Text
<1>2. /\ keptToken' = (keptToken \/ KeepsToken(delta))
      /\ lostText' = (lostText \/ LosesText(delta))
      /\ keptToken' \in BOOLEAN /\ lostText' \in BOOLEAN
  <2>1. KeepsToken(delta) \in BOOLEAN /\ LosesText(delta) \in BOOLEAN
    BY DEF KeepsToken, LosesText
  <2> QED
    BY <1>1, <2>1 DEF Generate
<1> PICK o \in Seq(Letter) : o = Ordinary(output)
  BY <1>1, OrdinaryType
<1> PICK d \in Seq(Letter) : d = Ordinary(delta)
  BY <1>1, OrdinaryType
<1>3. output' \in Text /\ Ordinary(output)' = o \o d /\ o \in Text /\ d \in Text
  <2>1. output' \in Text /\ Ordinary(output') = Ordinary(output) \o Ordinary(delta)
    BY <1>1, GeneratedGrows
  <2> QED
    BY <2>1, EndIsText DEF Ordinary
<1>4. /\ ~stripped => sent = << >> /\ Held(buffer) /\ (lostText \/ buffer = o)
      /\ stripped /\ ~lostText => Sends(Ordinary(SentText), o, keptToken)
  BY DEF StreamInv, PartInv, Sends
<1>5. SUFFICES /\ buffer' \in Text /\ stripped' \in BOOLEAN /\ sent' \in Seq(Messages)
               /\ ~stripped' => /\ sent' = << >> /\ Held(buffer')
                                /\ lostText' \/ buffer' = o \o d
               /\ stripped' /\ ~lostText' => Sends(Ordinary(SentText)', o \o d, keptToken')
  <2>1. ASSUME buffer' \in Text, stripped' \in BOOLEAN, sent' \in Seq(Messages)
        PROVE  ParserTypeOK'
    BY <1>1, <1>2, <1>3, <2>1 DEF ParserTypeOK, Messages, Text
  <2>2. ASSUME ~stripped' => /\ sent' = << >> /\ Held(buffer')
                             /\ lostText' \/ buffer' = o \o d,
               stripped' /\ ~lostText' => Sends(Ordinary(SentText)', o \o d, keptToken')
        PROVE  PartInv'
    <3> PICK n : n = o \o d
      OBVIOUS
    <3>1. /\ Ordinary(output)' = n
          /\ ~stripped' => sent' = << >> /\ Held(buffer') /\ (lostText' \/ buffer' = n)
          /\ stripped' /\ ~lostText' => Sends(Ordinary(SentText)', n, keptToken')
      BY <1>3, <2>2
    <3>2. /\ StripLabel(Ordinary(output))' = StripLabel(n)
          /\ Waiting(Ordinary(output))' <=> Waiting(n)
          /\ Held(buffer)' <=> Held(buffer')
      BY <3>1 DEF StripLabel, Waiting, Held, IsPrefix
    <3> QED
      BY <3>1, <3>2 DEF PartInv, Sends
  <2> QED
    BY <2>1, <2>2 DEF StreamInv
<1>6. CASE Len(delta) = 1 /\ delta[1] \in Special
  <2>1. buffer' = buffer /\ stripped' = stripped /\ sent' = sent
    BY <1>6 DEF Generate
  <2>2. o \o d = o
    <3>1. delta = << delta[1] >>
      BY <1>1, <1>6 DEF Text
    <3>2. d = << >>
      BY <1>6, <3>1, OrdinaryOne
    <3> QED
      BY <3>2
  <2>3. Ordinary(SentText)' = Ordinary(SentText)
    BY <2>1, NoneMore DEF Ordinary
  <2>4. ~stripped' => sent' = << >> /\ Held(buffer') /\ (lostText' \/ buffer' = o \o d)
    BY <1>2, <1>4, <2>1, <2>2
  <2>5. stripped' /\ ~lostText' => Sends(Ordinary(SentText)', o \o d, keptToken')
    <3> SUFFICES ASSUME stripped', ~lostText' PROVE Sends(Ordinary(SentText)', o \o d, keptToken')
      OBVIOUS
    <3>1. Sends(Ordinary(SentText), o, keptToken)
      BY <1>2, <1>4, <2>1
    <3>2. Sends(Ordinary(SentText), o, keptToken')
      BY <1>1, <1>2, <3>1 DEF Sends
    <3> QED
      BY <2>2, <2>3, <3>2
  <2> QED
    BY <1>1, <2>1, <2>4, <2>5
<1>7. CASE ~(Len(delta) = 1 /\ delta[1] \in Special)
  <2> PICK m : m = Base(output, delta)
    OBVIOUS
  <2>1. Handle(m)
    BY <1>7 DEF Generate
  <2>2. m \in Messages /\ (~LosesText(delta) => Ordinary(Said(m)) = d)
    BY <1>1, <1>7, MessageSays
  <2>3. CASE stripped
    <3>1. /\ sent' = Append(sent, m) /\ stripped' = stripped
          /\ buffer' = IF stripped /\ m.reasoning = None THEN buffer ELSE buffer \o Piece(m)
      BY <2>1, <2>3, HandleIs
    <3>2. buffer' \in Text
      <4>1. m.reasoning # None => Piece(m) \in Text
        BY <2>2 DEF Messages, Piece
      <4>2. CASE m.reasoning = None
        BY <1>1, <2>3, <3>1, <4>2
      <4>3. CASE m.reasoning # None
        BY <1>1, <2>3, <3>1, <4>1, <4>3, TextJoins
      <4> QED
        BY <4>2, <4>3
    <3>3. sent' \in Seq(Messages)
      BY <1>1, <2>2, <3>1
    <3>4. SentText \in Text /\ Said(m) \in Text /\ SentText' = SentText \o Said(m)
      <4>1. SentText \in Text /\ SentText' = SentText \o Said(m)
        BY <1>1, <2>2, <3>1, SentMore
      <4>2. Said(m) \in Text
        BY <2>2, SaidType
      <4> QED
        BY <4>1, <4>2
    <3>5. ~lostText' => Ordinary(SentText)' = Ordinary(SentText) \o d
      <4> PICK s \in Text : s = SentText
        BY <3>4
      <4> PICK u \in Text : u = Said(m)
        BY <3>4
      <4>1. Ordinary(s \o u) = Ordinary(s) \o Ordinary(u)
        BY OrdinaryConcat
      <4>2. SentText' = s \o u
        BY <3>4
      <4>3. Ordinary(SentText)' = Ordinary(s \o u)
        BY <4>2 DEF Ordinary
      <4> QED
        BY <1>2, <2>2, <4>1, <4>3
    <3>6. ~lostText' => Sends(Ordinary(SentText)', o \o d, keptToken')
      <4> SUFFICES ASSUME ~lostText' PROVE Sends(Ordinary(SentText)', o \o d, keptToken')
        OBVIOUS
      <4> PICK s \in Text : s = Ordinary(SentText)
        BY <3>4, OrdinaryType, EndIsText
      <4>1. Sends(s, o, keptToken)
        BY <1>2, <1>4, <2>3
      <4>2. Sends(s, o, keptToken')
        BY <1>1, <1>2, <4>1 DEF Sends
      <4>3. Sends(s \o d, o \o d, keptToken')
        BY <1>2, <1>3, <4>2, SendsMore
      <4> QED
        BY <3>5, <4>3
    <3> QED
      BY <1>1, <2>3, <3>1, <3>2, <3>3, <3>6
  <2>4. CASE ~stripped
    <3> PICK p : p = Piece(m)
      OBVIOUS
    <3> PICK t : t = buffer \o p
      OBVIOUS
    <3>1. sent = << >> /\ Held(buffer) /\ (lostText \/ buffer = o)
      BY <1>4, <2>4
    <3>2. /\ p \in Text
          /\ Awaits(m, t) => Held(t)
          /\ ~Awaits(m, t) => Filtered(m, t) \in Messages
          /\ ~LosesText(delta) /\ buffer = o =>
               /\ Awaits(m, t) => t = o \o d
               /\ ~Awaits(m, t) =>
                    Sends(Ordinary(Said(Filtered(m, t))), o \o d, KeepsToken(delta))
      BY <1>1, <1>7, <3>1, FirstMessage
    <3>3. /\ buffer' = t /\ t \in Text
          /\ Awaits(m, t) => stripped' = stripped /\ sent' = sent
          /\ ~Awaits(m, t) => sent' = Append(sent, Filtered(m, t)) /\ stripped' = TRUE
      BY <1>1, <2>1, <2>4, <3>2, HandleIs, TextJoins
    <3>4. CASE Awaits(m, t)
      <4>1. stripped' = stripped /\ sent' = sent /\ Held(buffer')
        BY <3>2, <3>3, <3>4
      <4>2. stripped' \in BOOLEAN /\ ~stripped' /\ buffer' \in Text
        BY <1>1, <2>4, <3>3, <4>1
      <4>3. sent' = << >> /\ sent' \in Seq(Messages)
        BY <1>1, <3>1, <4>1
      <4>4. lostText' \/ buffer' = o \o d
        BY <1>1, <1>2, <3>1, <3>2, <3>3, <3>4
      <4> QED
        BY <4>1, <4>2, <4>3, <4>4
    <3>5. CASE ~Awaits(m, t)
      <4> PICK f \in Messages : f = Filtered(m, t)
        BY <3>2, <3>5
      <4>1. sent' = Append(sent, f) /\ stripped' = TRUE
        BY <3>3, <3>5
      <4>2. sent' \in Seq(Messages)
        BY <1>1, <4>1
      <4>3. SentText' = SentText \o Said(f) /\ SentText = << >>
        BY <1>1, <3>1, <4>1, SentMore, NothingSent
      <4>4. SentText' = Said(f)
        BY <4>3, SaidType, TextJoins
      <4>5. Ordinary(SentText)' = Ordinary(Said(f))
        BY <4>4 DEF Ordinary
      <4>6. ~lostText' => Sends(Ordinary(SentText)', o \o d, keptToken')
        <5> SUFFICES ASSUME ~lostText' PROVE Sends(Ordinary(SentText)', o \o d, keptToken')
          OBVIOUS
        <5> PICK s : s = Ordinary(SentText)'
          OBVIOUS
        <5> PICK n : n = o \o d
          OBVIOUS
        <5>1. ~LosesText(delta) /\ buffer = o
          BY <1>1, <1>2, <3>1
        <5>2. Sends(s, n, KeepsToken(delta))
          BY <3>2, <3>5, <4>5, <5>1
        <5>3. Sends(s, n, keptToken')
          BY <1>2, <5>2 DEF Sends
        <5> QED
          BY <5>3
      <4> QED
        BY <3>3, <4>1, <4>2, <4>6
    <3> QED
      BY <3>4, <3>5
  <2> QED
    BY <1>1, <2>3, <2>4
<1> QED
  BY <1>6, <1>7

LEMMA StreamKept == ASSUME StreamInv, [ParserNext]_parserVars PROVE StreamInv'
<1>1. CASE Finish
  <2>1. /\ output' = output /\ buffer' = buffer /\ stripped' = stripped /\ sent' = sent
        /\ finished' = TRUE /\ keptToken' = keptToken /\ lostText' = lostText
    BY <1>1 DEF Finish
  <2>2. ParserTypeOK'
    BY <2>1 DEF StreamInv, ParserTypeOK
  <2>3. PartInv'
    BY <2>1, NoneMore DEF StreamInv, PartInv, Ordinary, StripLabel, Waiting, Held, IsPrefix
  <2> QED
    BY <2>2, <2>3 DEF StreamInv
<1>2. CASE UNCHANGED parserVars
  <2>1. /\ output' = output /\ buffer' = buffer /\ stripped' = stripped /\ sent' = sent
        /\ finished' = finished /\ keptToken' = keptToken /\ lostText' = lostText
    BY <1>2 DEF parserVars
  <2>2. ParserTypeOK'
    BY <2>1 DEF StreamInv, ParserTypeOK
  <2>3. PartInv'
    BY <2>1, NoneMore DEF StreamInv, PartInv, Ordinary, StripLabel, Waiting, Held, IsPrefix
  <2> QED
    BY <2>2, <2>3 DEF StreamInv
<1> QED
  BY <1>1, <1>2, GenerateKeeps DEF ParserNext

\* All of the text reaches the client or is held back, whatever the deltas, until
\* one of LosesText comes.
THEOREM NoTextIsLost == ParserSpec => []ParserInv
<1>1. StreamInv => ParserInv
  <2> SUFFICES ASSUME StreamInv PROVE ParserInv
    OBVIOUS
  <2>1. CASE stripped
    BY <2>1 DEF StreamInv, PartInv, ParserInv, NothingLost
  <2>2. CASE ~stripped
    BY <2>2, NothingSent DEF StreamInv, PartInv, ParserInv, NothingLost
  <2> QED
    BY <2>1, <2>2
<1> QED
  BY <1>1, StreamInit, StreamKept, PTL DEF ParserSpec

\* An output that opens with the start token is that token and the thought.
LEMMA OpensWith ==
  ASSUME NEW t \in Text
  PROVE  /\ << Start >> \o t \in Text /\ << Start >> \o t # << >>
         /\ (<< Start >> \o t)[1] = Start
         /\ Has(<< Start >> \o t, Start) /\ After(<< Start >> \o t, << Start >>) = t
<1>5. << Start >> \in Text /\ << >> \in Seq(Letter)
  BY LettersAreText DEF Text
<1> PICK e \in Text : e = << Start >>
  BY <1>5
<1> PICK n \in Seq(Letter) : n = << >>
  BY <1>5
<1>1. n \in Text /\ ~Has(n, Start)
  BY LettersHaveNoToken, LettersAreText
<1>2. (n \o e) \o t = e \o t
  BY TextJoins
<1>4. Has((n \o e) \o t, Start) /\ After((n \o e) \o t, e) = t
  BY <1>1, CutAtToken, LettersAreText
<1>3. << Start >> \o t \in Text /\ (<< Start >> \o t)[1] = Start /\ << Start >> \o t # << >>
  BY LettersAreText DEF Text
<1> QED
  BY <1>2, <1>3, <1>4

LEMMA Opened ==
  ASSUME NEW o \in Text, o # << >>, o[1] = Start
  PROVE  \E t \in Text : o = << Start >> \o t /\ After(o, << Start >>) = t
<1> PICK t : t = SubSeq(o, 2, Len(o))
  OBVIOUS
<1>1. t \in Text /\ 1 \in 1..Len(o)
  BY DEF Text
<1>2. o = SubSeq(o, 1, 1 - 1) \o << o[1] >> \o SubSeq(o, 1 + 1, Len(o))
  BY <1>1, SplitAt DEF Text
<1>3. SubSeq(o, 1, 1 - 1) = << >> /\ 1 + 1 = 2
  BY DEF Text
<1>4. o = << Start >> \o t
  BY <1>2, <1>3
<1> QED
  BY <1>1, <1>4, OpensWith

LEMMA ThoughtEnded ==
  ASSUME NEW t \in Text, Has(t, End), NEW d \in Text
  PROVE  /\ Has(t \o d, End) /\ After(t, << End >>) \in Text
         /\ Before(t \o d, << End >>) = Before(t, << End >>)
         /\ After(t \o d, << End >>) = After(t, << End >>) \o d
<1> PICK e \in Text : e = << End >>
  BY EndIsText
<1>1. PICK r \in Text, c \in Text : t = (r \o e) \o c /\ ~Has(r, End)
  BY TokenCuts, LettersAreText
<1>2. Before(t, e) = r /\ After(t, e) = c
  BY <1>1, CutAtToken, LettersAreText
<1> PICK v \in Text : v = c \o d
  BY TextJoins
<1>3. t \o d = (r \o e) \o v
  <2> PICK w \in Text : w = r \o e
    BY TextJoins
  <2>3. Regroups(w, c, d)
    BY TextRegroups
  <2>1. (w \o c) \o d = w \o (c \o d)
    BY ONLY <2>3 DEF Regroups
  <2>2. ((r \o e) \o c) \o d = (r \o e) \o (c \o d)
    BY <2>1
  <2> QED
    BY <1>1, <2>2
<1>4. /\ Has((r \o e) \o v, End) /\ Before((r \o e) \o v, e) = r
      /\ After((r \o e) \o v, e) = v
  BY <1>1, CutAtToken, LettersAreText
<1> QED
  BY <1>2, <1>3, <1>4

\* How the reasoning of an output that opens with the start token is passed on:
\* while it may be the label it is in the buffer; after that what has been sent
\* is divided at the end token.
DividedAs(thought) ==
  IF Waiting(Before(thought, << End >>))
  THEN ~Has(thought, End) =>
         ~stripped /\ sent = << >> /\ buffer = Before(thought, << End >>)
  ELSE /\ stripped
       /\ SentReasoning = StripLabel(Before(thought, << End >>))
       /\ SentContent = After(thought, << End >>)
DivideInv ==
  /\ output = << >> => ~stripped /\ sent = << >> /\ buffer = << >>
  /\ Begun /\ ~keptToken => DividedAs(After(output, << Start >>))

\* The message made of a delta of reasoning.
LEMMA BaseOfThought ==
  ASSUME NEW t \in Text, output = << Start >> \o t,
         NEW delta \in Deltas, ~(Len(delta) = 1 /\ delta[1] \in Special)
  PROVE  /\ Has(t, End) /\ ~Has(delta, End) => Base(output, delta) = Message(None, delta)
         /\ ~Has(t, End) /\ ~Has(delta, End) => Base(output, delta) = Message(delta, None)
         /\ Has(delta, End) =>
              Base(output, delta)
                = Message(Before(delta, << End >>), OrNone(After(delta, << End >>)))
<1>1. Has(output, Start) /\ After(output, << Start >>) = t
  BY OpensWith
<1>2. EndAfterStart(output) <=> Has(t, End)
  BY <1>1 DEF EndAfterStart
<1> QED
  BY <1>1, <1>2 DEF Base

\* A message more, once messages pass unchanged.
LEMMA Passed ==
  ASSUME sent \in Seq(Messages), stripped, NEW m \in Messages, Handle(m)
  PROVE  /\ stripped' /\ SentReasoning \in Text /\ SentContent \in Text
         /\ SentReasoning' = SentReasoning \o Given(m.reasoning)
         /\ SentContent' = SentContent \o Given(m.content)
<1>1. sent' = Append(sent, m) /\ stripped' = stripped
  BY HandleIs
<1>2. stripped'
  BY <1>1
<1> QED
  BY <1>1, <1>2, SentMore

\* The first one.
LEMMA PassedFirst ==
  ASSUME sent = << >>, ~stripped, NEW m, Handle(m), ~Awaits(m, buffer \o Piece(m)),
         NEW f \in Messages, f = Filtered(m, buffer \o Piece(m))
  PROVE  /\ stripped' /\ SentReasoning' = Given(f.reasoning)
         /\ SentContent' = Given(f.content)
<1>1. sent' = Append(sent, f) /\ stripped'
  BY HandleIs
<1>2. sent \in Seq(Messages)
  OBVIOUS
<1>3. /\ SentReasoning' = SentReasoning \o Given(f.reasoning)
      /\ SentContent' = SentContent \o Given(f.content)
  BY <1>1, <1>2, SentMore
<1>4. SentReasoning = << >> /\ SentContent = << >>
  BY NothingSent
<1>5. Given(f.reasoning) \in Text /\ Given(f.content) \in Text
  BY DEF Messages, Given, Text
<1>6. << >> \o Given(f.reasoning) = Given(f.reasoning) /\ << >> \o Given(f.content) = Given(f.content)
  BY <1>5, TextJoins
<1> QED
  BY <1>1, <1>3, <1>4, <1>6

\* A token alone changes nothing; and the start token comes first.
LEMMA TokenAlone ==
  ASSUME NEW delta \in Deltas, Generate(delta), Len(delta) = 1, delta[1] \in Special
  PROVE  /\ stripped' = stripped /\ sent' = sent /\ buffer' = buffer
         /\ delta = << delta[1] >> /\ Has(delta, delta[1])
<1>1. delta \in Text
  BY DeltaAssumption DEF Text
<1>2. 1 \in 1..Len(delta)
  OBVIOUS
<1> QED
  BY <1>1, <1>2, HasIs DEF Generate, Text

\* The thought grows: text behind its end.
LEMMA ContentMore ==
  ASSUME StreamInv, NEW t \in Text, output = << Start >> \o t,
         DividedAs(t), Has(t, End), NEW delta \in Deltas, Generate(delta)
  PROVE  DividedAs(t \o delta)'
<1>1. /\ output \in Text /\ delta \in Text /\ sent \in Seq(Messages) /\ MayFollow(delta)
  BY DeltaAssumption DEF StreamInv, ParserTypeOK, Messages, Generate, Text
<1>2. Has(output, Start) /\ Has(output, End)
  <2>1. EndAfterStart(output) /\ Has(output, Start)
    BY OpensWith DEF EndAfterStart
  <2>2. PICK i \in 1..Len(t) : t[i] = End
    BY HasIs, LettersAreText
  <2>3. i + 1 \in 1..Len(output) /\ output[i + 1] = End
    <3>1. << Start >> \in Text /\ Len(<< Start >>) = 1 /\ Len(t) \in Nat
      BY LettersAreText DEF Text
    <3> PICK e \in Text : e = << Start >>
      BY <3>1
    <3>2. output = e \o t /\ Len(e) = 1
      BY <3>1
    <3>3. Len(e \o t) = 1 + Len(t) /\ (e \o t)[1 + i] = t[i]
      BY <3>2, Joined DEF Text
    <3> QED
      BY <2>2, <3>1, <3>2, <3>3
  <2> QED
    BY <1>1, <2>1, <2>3, HasIs, LettersAreText
<1>3. ~Has(delta, Start) /\ ~Has(delta, End)
  BY <1>1, <1>2, TokenOnce, LettersAreText
<1>4. ~(Len(delta) = 1 /\ delta[1] \in Special)
  <2> SUFFICES ASSUME Len(delta) = 1, delta[1] \in Special PROVE FALSE
    OBVIOUS
  <2> QED
    BY <1>3, TokenAlone DEF Special
<1> PICK n \in Text : n = t \o delta
  BY <1>1, TextJoins
<1>5. /\ Has(n, End) /\ Before(n, << End >>) = Before(t, << End >>)
      /\ After(n, << End >>) = After(t, << End >>) \o delta
  BY <1>1, ThoughtEnded
<1>6. CASE Waiting(Before(t, << End >>))
  BY <1>5, <1>6 DEF DividedAs
<1>7. CASE ~Waiting(Before(t, << End >>))
  <2>1. /\ stripped /\ SentReasoning = StripLabel(Before(t, << End >>))
        /\ SentContent = After(t, << End >>)
    BY <1>7 DEF DividedAs
  <2> PICK m : m = Base(output, delta)
    OBVIOUS
  <2>2. m = Message(None, delta)
    BY <1>3, <1>4, BaseOfThought
  <2>3. Handle(m)
    BY <1>4 DEF Generate
  <2>4. m \in Messages /\ Given(m.reasoning) = << >> /\ Given(m.content) = delta
    <3>1. m \in Messages
      BY <1>1, <1>4, MessageSays
    <3>2. m.reasoning = None /\ m.content = delta
      BY <2>2 DEF Message
    <3> QED
      BY <1>1, <3>1, <3>2, GivenIs
  <2>5. /\ stripped' /\ SentReasoning \in Text
        /\ SentReasoning' = SentReasoning \o << >>
        /\ SentContent' = SentContent \o delta
    BY <1>1, <2>1, <2>3, <2>4, Passed
  <2>6. SentReasoning' = SentReasoning
    BY <2>5, TextJoins
  <2>7. /\ SentReasoning' = StripLabel(Before(n, << End >>))
        /\ SentContent' = After(n, << End >>)
        /\ ~Waiting(Before(n, << End >>))
    BY <1>5, <1>7, <2>1, <2>5, <2>6
  <2> QED
    BY <2>5, <2>7 DEF DividedAs
<1> QED
  BY <1>6, <1>7

\* ... more of the reasoning, ...
LEMMA ReasoningMore ==
  ASSUME StreamInv, NEW t \in Text, output = << Start >> \o t,
         DividedAs(t), ~Has(t, End), NEW delta \in Deltas, Generate(delta),
         delta \in Seq(Letter)
  PROVE  DividedAs(t \o delta)'
<1>1. /\ t \o delta \in Text /\ delta \in Text /\ sent \in Seq(Messages)
      /\ Before(t, << End >>) = t /\ After(t, << End >>) = << >>
      /\ output \in Text /\ MayFollow(delta)
  BY EndIsText, TextJoins
     DEF StreamInv, ParserTypeOK, Messages, Has, Before, After, Generate, Text
<1>2. ~(Len(delta) = 1 /\ delta[1] \in Special)
  BY LettersAreText
<1>3. ~Has(delta, End)
  BY LettersHaveNoToken, LettersAreText
<1> PICK n \in Text : n = t \o delta
  BY <1>1
<1>4. ~Has(n, End) /\ Before(n, << End >>) = n /\ After(n, << End >>) = << >>
  BY ThoughtGrows
<1> PICK m : m = Base(output, delta)
  OBVIOUS
<1>5. m = Message(delta, None) /\ m \in Messages
  BY <1>1, <1>2, <1>3, BaseOfThought, MessageSays
<1>6. Handle(m)
  BY <1>2 DEF Generate
<1>7. m.reasoning = delta /\ m.content = None /\ delta # None /\ Piece(m) = delta
  BY <1>1, <1>5, GivenIs DEF Message, Piece
<1>8. CASE Waiting(t)
  <2>1. ~stripped /\ sent = << >> /\ buffer = t /\ Held(t)
    BY <1>1, <1>8 DEF DividedAs, Waiting
  <2>2. /\ Awaits(m, n) <=> Waiting(n)
        /\ Filtered(m, n) = Message(StripLabel(n), None)
    BY <1>1, <1>5, <2>1, ReasoningHandled
  <2>3. buffer \o Piece(m) = n
    BY <1>7, <2>1
  <2>4. CASE Waiting(n)
    <3>1. stripped' = stripped /\ sent' = sent /\ buffer' = n
      BY <1>6, <2>1, <2>2, <2>3, <2>4, HandleIs
    <3>2. ~stripped' /\ sent' = << >>
      BY <2>1, <3>1
    <3> QED
      BY <1>4, <2>4, <3>1, <3>2 DEF DividedAs
  <2>5. CASE ~Waiting(n)
    <3> PICK f : f = Filtered(m, n)
      OBVIOUS
    <3>1. StripLabel(n) \in Text
      BY StripType
    <3>2. f \in Messages /\ f.reasoning = StripLabel(n) /\ f.content = None
      <4>1. Message(StripLabel(n), None) \in Messages
        BY <3>1, TextJoins, MessageType
      <4> QED
        BY <2>2, <4>1 DEF Message
    <3>3. Given(f.reasoning) = StripLabel(n) /\ Given(f.content) = << >>
      BY <3>1, <3>2, GivenIs
    <3>4. stripped' /\ SentReasoning' = StripLabel(n) /\ SentContent' = << >>
      BY <1>6, <2>1, <2>2, <2>3, <2>5, <3>2, <3>3, PassedFirst
    <3> QED
      BY <1>4, <2>5, <3>4 DEF DividedAs
  <2> QED
    BY <2>4, <2>5
<1>9. CASE ~Waiting(t)
  <2>1. stripped /\ SentReasoning = StripLabel(t) /\ SentContent = << >>
    BY <1>1, <1>9 DEF DividedAs
  <2>2. Given(m.reasoning) = delta /\ Given(m.content) = << >>
    BY <1>1, <1>7, GivenIs
  <2>3. /\ stripped' /\ SentReasoning' = StripLabel(t) \o delta
        /\ SentContent' = << >> \o << >>
    BY <1>1, <1>5, <1>6, <2>1, <2>2, Passed
  <2>4. StripLabel(n) = StripLabel(t) \o delta /\ ~Waiting(n)
    BY <1>1, <1>9, LabelSettled
  <2>5. << >> \o << >> = << >>
    BY EndIsText, TextJoins
  <2>6. SentReasoning' = StripLabel(n) /\ SentContent' = << >>
    BY <2>3, <2>4, <2>5
  <2> QED
    BY <1>4, <2>3, <2>4, <2>6 DEF DividedAs
<1> QED
  BY <1>8, <1>9

\* ... and its end, in a message with the last reasoning and the first content.
LEMMA ThoughtDivided ==
  ASSUME sent \in Seq(Messages), NEW t \in Text, DividedAs(t), ~Has(t, End),
         NEW r \in Seq(Letter), NEW c \in Text,
         NEW m \in Messages, m = Message(r, OrNone(c)), Handle(m)
  PROVE  DividedAs(t \o (r \o << End >> \o c))'
<1> PICK n : n = t \o (r \o << End >> \o c)
  OBVIOUS
<1> PICK s \in Text : s = t \o r
  BY EndIsText, TextJoins
<1>1. Before(t, << End >>) = t /\ After(t, << End >>) = << >>
  BY DEF Has, Before, After
<1>2. Has(n, End) /\ Before(n, << End >>) = s /\ After(n, << End >>) = c
  <2>1. t \in Text /\ ~Has(t, End) /\ r \in Seq(Letter) /\ c \in Text
    OBVIOUS
  <2>2. /\ Has(t \o (r \o << End >> \o c), End)
        /\ Before(t \o (r \o << End >> \o c), << End >>) = t \o r
        /\ After(t \o (r \o << End >> \o c), << End >>) = c
    BY ONLY <2>1, ThoughtEnds
  <2> QED
    BY <2>2
<1>3. r \in Text /\ m.reasoning = r /\ m.content = OrNone(c) /\ r # None /\ Piece(m) = r
  BY EndIsText, GivenIs DEF Message, Piece
<1>4. Given(m.reasoning) = r /\ Given(m.content) = c /\ Given(OrNone(c)) = c
  BY <1>3, GivenIs
<1>5. CASE Waiting(s)
  BY <1>2, <1>5 DEF DividedAs
<1>6. CASE ~Waiting(s) /\ Waiting(t)
  <2>1. ~stripped /\ sent = << >> /\ buffer = t /\ Held(t)
    BY <1>1, <1>6 DEF DividedAs, Waiting
  <2>2. /\ ~Awaits(m, s)
        /\ Filtered(m, s) = Message(StripLabel(s), OrNone(c))
    BY <1>3, <1>6, <2>1, ReasoningHandled
  <2>3. buffer \o Piece(m) = s
    BY <1>3, <2>1
  <2> PICK f : f = Filtered(m, s)
    OBVIOUS
  <2>4. StripLabel(s) \in Text
    BY StripType
  <2>5. f \in Messages /\ f.reasoning = StripLabel(s) /\ f.content = OrNone(c)
    <3>1. Message(StripLabel(s), OrNone(c)) \in Messages
      BY <2>4, MessageType
    <3> QED
      BY <2>2, <3>1 DEF Message
  <2>6. Given(f.reasoning) = StripLabel(s) /\ Given(f.content) = c
    BY <1>4, <2>4, <2>5, GivenIs
  <2>7. stripped' /\ SentReasoning' = StripLabel(s) /\ SentContent' = c
    BY <2>1, <2>2, <2>3, <2>5, <2>6, PassedFirst
  <2> QED
    BY <1>2, <1>6, <2>7 DEF DividedAs
<1>7. CASE ~Waiting(t)
  <2>1. stripped /\ SentReasoning = StripLabel(t) /\ SentContent = << >>
    BY <1>1, <1>7 DEF DividedAs
  <2>2. /\ stripped' /\ SentReasoning' = StripLabel(t) \o r
        /\ SentContent' = << >> \o c
    BY <1>4, <2>1, Passed
  <2>3. StripLabel(s) = StripLabel(t) \o r /\ ~Waiting(s)
    BY <1>3, <1>7, LabelSettled
  <2>4. << >> \o c = c
    BY TextJoins
  <2>5. SentReasoning' = StripLabel(s) /\ SentContent' = c
    BY <2>2, <2>3, <2>4
  <2> QED
    BY <1>2, <2>2, <2>3, <2>5 DEF DividedAs
<1> QED
  BY <1>5, <1>6, <1>7

LEMMA ReasoningEnds ==
  ASSUME StreamInv, NEW t \in Text, output = << Start >> \o t,
         DividedAs(t), ~Has(t, End), NEW delta \in Deltas, Generate(delta),
         Has(delta, End)
  PROVE  DividedAs(t \o delta)'
<1>1. /\ sent \in Seq(Messages) /\ delta \in Text /\ t \o delta \in Text
      /\ Before(t, << End >>) = t /\ After(t, << End >>) = << >>
      /\ output \in Text /\ MayFollow(delta)
  <2>1. delta \in Text /\ output \in Text /\ MayFollow(delta)
    BY DeltaAssumption DEF StreamInv, ParserTypeOK, Generate, Text
  <2> QED
    BY <2>1, TextJoins DEF StreamInv, ParserTypeOK, Messages, Has, Before, After
<1> PICK n \in Text : n = t \o delta
  BY <1>1
<1>2. CASE Len(delta) = 1 /\ delta[1] \in Special
  <2>1. stripped' = stripped /\ sent' = sent /\ buffer' = buffer
    BY <1>2, TokenAlone
  <2>2. delta = << End >>
    <3>1. PICK i \in 1..Len(delta) : delta[i] = End
      BY <1>1, HasIs, LettersAreText
    <3> QED
      BY <1>1, <1>2, <3>1 DEF Text
  <2>3. Has(n, End) /\ Before(n, << End >>) = t /\ After(n, << End >>) = << >>
    <3> PICK z \in Text : z = << >>
      BY TextJoins
    <3>1. t \o << End >> \o z \in Text /\ (t \o << End >>) \o z = t \o << End >>
      BY EndIsText, TextJoins
    <3>2. n = t \o << End >> \o z
      BY <2>2, <3>1
    <3>3. /\ Has(t \o << End >> \o z, End) /\ Before(t \o << End >> \o z, << End >>) = t
          /\ After(t \o << End >> \o z, << End >>) = z
      BY CutAtToken, LettersAreText
    <3> PICK w : w = t \o << End >> \o z
      OBVIOUS
    <3>4. /\ Has(w, End) /\ Before(w, << End >>) = t /\ After(w, << End >>) = z
      BY <3>3
    <3>5. n = w
      BY <3>2
    <3> QED
      BY <3>4, <3>5
  <2>4. CASE Waiting(t)
    BY <2>3, <2>4 DEF DividedAs
  <2>5. CASE ~Waiting(t)
    <3>1. stripped /\ SentReasoning = StripLabel(t) /\ SentContent = << >>
      BY <1>1, <2>5 DEF DividedAs
    <3>2. stripped' /\ SentReasoning' = StripLabel(t) /\ SentContent' = << >>
      <4>1. stripped'
        BY <2>1, <3>1
      <4>2. SentReasoning' = SentReasoning /\ SentContent' = SentContent
        BY <2>1, NoneMore
      <4> QED
        BY <3>1, <4>1, <4>2
    <3> QED
      BY <2>3, <2>5, <3>2 DEF DividedAs
  <2> QED
    BY <2>4, <2>5
<1>3. CASE ~(Len(delta) = 1 /\ delta[1] \in Special)
  <2>1. Has(output, Start)
    BY OpensWith
  <2>2. ~Has(delta, Start)
    BY <1>1, <2>1, TokenOnce, LettersAreText
  <2>3. PICK q \in Text, r \in Seq(Letter), c \in Text :
           /\ delta = (q \o r) \o << End >> \o c
           /\ Before(delta, << End >>) = q \o r /\ After(delta, << End >>) = c
           /\ Has(delta, Start) =>
                /\ After(Before(delta, << End >>), << Start >>) = r
                /\ \E p \in Text : q = p \o << Start >> /\ ~Has(p, Start)
           /\ ~Has(delta, Start) => q = << >>
    BY <1>1, <2>1, EndParts
  <2>4. q \o r = r
    BY <2>2, <2>3, EndIsText, TextJoins
  <2>5. /\ delta = r \o << End >> \o c
        /\ Before(delta, << End >>) = r /\ After(delta, << End >>) = c
    BY <2>3, <2>4
  <2> PICK m : m = Base(output, delta)
    OBVIOUS
  <2>6. m = Message(r, OrNone(c)) /\ m \in Messages
    BY <1>1, <1>3, <2>5, BaseOfThought, MessageSays
  <2>7. Handle(m)
    BY <1>3 DEF Generate
  <2>8. DividedAs(t \o (r \o << End >> \o c))'
    BY <1>1, <2>6, <2>7, ThoughtDivided
  <2> PICK w : w = r \o << End >> \o c
    OBVIOUS
  <2>9. DividedAs(t \o w)'
    BY <2>8 DEF DividedAs
  <2>10. n = t \o w
    BY <2>5
  <2> QED
    BY <2>9, <2>10 DEF DividedAs
<1> QED
  BY <1>2, <1>3

LEMMA DivideKept ==
  ASSUME StreamInv, DivideInv, NEW delta \in Deltas, Generate(delta)
  PROVE  DivideInv'
<1>1. /\ output \in Text /\ delta \in Text /\ delta # << >> /\ output' = output \o delta
      /\ output' \in Text /\ output' # << >> /\ MayFollow(delta)
  <2>1. /\ output \in Text /\ delta \in Text /\ delta # << >> /\ output' = output \o delta
        /\ MayFollow(delta)
    BY DeltaAssumption DEF StreamInv, ParserTypeOK, Generate, Text
  <2> PICK o \in Text : o = output
    BY <2>1
  <2>2. o \o delta \in Text /\ o \o delta # << >>
    BY <2>1 DEF Text
  <2> QED
    BY <2>1, <2>2
<1>2. SUFFICES ASSUME Begun', ~keptToken' PROVE DividedAs(After(output, << Start >>))'
  BY <1>1 DEF DivideInv
<1>3. output'[1] = Start /\ ~keptToken /\ ~KeepsToken(delta)
  BY <1>2 DEF Begun, Generate
<1>4. CASE output = << >>
  <2>1. ~stripped /\ sent = << >> /\ buffer = << >>
    BY <1>4 DEF DivideInv
  <2>2. delta[1] = Start /\ 1 \in 1..Len(delta) /\ output' = delta
    <3>1. << >> \o delta = delta
      BY <1>1, TextJoins
    <3> QED
      BY <1>1, <1>3, <1>4, <3>1 DEF Text
  <2>3. Has(delta, Start) /\ ~Has(output, Start)
    <3>1. << >> \in Seq(Letter)
      OBVIOUS
    <3> QED
      BY <1>1, <1>4, <2>2, <3>1, HasIs, LettersHaveNoToken, LettersAreText
  <2>4. << >> \in Seq(Letter)
    OBVIOUS
  <2> PICK z \in Seq(Letter) : z = << >>
    BY <2>4
  <2>5. z \in Text /\ ~Has(z, End) /\ Before(z, << End >>) = z /\ Waiting(z)
    <3>1. ~Has(z, End)
      BY LettersHaveNoToken, LettersAreText
    <3>2. Before(z, << End >>) = z
      BY <3>1 DEF Has, Before
    <3>3. Waiting(z)
      BY EmptyHeld, LabelAssumption DEF Waiting
    <3> QED
      BY <3>1, <3>2, <3>3, EndIsText
  <2>6. CASE ~Has(delta, End)
    <3>1. Len(delta) = 1
      <4>1. ~(Len(delta) > 1)
        BY <1>3, <2>3, <2>6 DEF KeepsToken
      <4> PICK n : n = Len(delta)
        OBVIOUS
      <4>2. n \in Nat /\ 1 \in 1..n /\ ~(n > 1)
        BY <1>1, <2>2, <4>1 DEF Text
      <4>3. n = 1
        BY ONLY <4>2
      <4> QED
        BY <4>3
    <3>2. Len(delta) = 1 /\ delta[1] \in Special /\ delta = << Start >>
      BY <1>1, <2>2, <3>1, LettersAreText DEF Text
    <3>3. stripped' = stripped /\ sent' = sent /\ buffer' = buffer
      BY <3>2, TokenAlone
    <3>4. output' = << Start >> \o z
      BY <2>2, <3>2
    <3>5. After(output', << Start >>) = z
      BY <2>5, <3>4, OpensWith
    <3>6. ~stripped' /\ sent' = << >> /\ buffer' = z
      BY <2>1, <3>3
    <3>7. DividedAs(z)'
      BY <2>5, <3>6 DEF DividedAs
    <3> QED
      BY <3>5, <3>7 DEF DividedAs
  <2>7. CASE Has(delta, End)
    <3>1. PICK q \in Text, r \in Seq(Letter), c \in Text :
             /\ delta = (q \o r) \o << End >> \o c
             /\ Before(delta, << End >>) = q \o r /\ After(delta, << End >>) = c
             /\ Has(delta, Start) =>
                  /\ After(Before(delta, << End >>), << Start >>) = r
                  /\ \E p \in Text : q = p \o << Start >> /\ ~Has(p, Start)
             /\ ~Has(delta, Start) => q = << >>
      BY <1>1, <2>3, <2>7, EndParts
    <3>2. PICK p \in Text : q = p \o << Start >> /\ ~Has(p, Start)
      BY <2>3, <3>1
    <3>3. p = << >>
      <4> SUFFICES ASSUME p # << >> PROVE FALSE
        OBVIOUS
      <4>1. 1 \in 1..Len(p) /\ Len(p) \in Nat
        BY DEF Text
      <4>2. << Start >> \in Text /\ q \in Text /\ q[1] = p[1] /\ 1 \in 1..Len(q)
        BY <3>2, <4>1, LettersAreText DEF Text
      <4>3. delta[1] = q[1]
        BY <3>1, <4>2, EndIsText DEF Text
      <4> QED
        BY <2>2, <3>2, <4>1, <4>2, <4>3, HasIs, LettersAreText
    <3>13. << Start >> \in Text
      BY LettersAreText DEF Text
    <3> PICK e \in Text : e = << Start >>
      BY <3>13
    <3> PICK k \in Text : k = << End >>
      BY EndIsText
    <3> PICK u \in Text : u = (r \o k) \o c
      BY EndIsText, TextJoins
    <3>4. delta = e \o u
      <4>1. q = e
        <5>1. << >> \o e = e
          BY TextJoins
        <5> QED
          BY <3>2, <3>3, <5>1
      <4> PICK rk \in Text : rk = r \o k
        BY EndIsText, TextJoins
      <4>2. Regroups(e, r, k) /\ Regroups(e, rk, c)
        BY EndIsText, TextRegroups
      <4>3. (e \o r) \o k = e \o rk /\ (e \o rk) \o c = e \o (rk \o c)
        BY <4>2 DEF Regroups
      <4> QED
        BY <3>1, <4>1, <4>3
    <3>5. After(output', << Start >>) = u
      BY <2>2, <3>4, OpensWith
    <3> PICK m : m = Base(output, delta)
      OBVIOUS
    <3>6. ~(Len(delta) = 1 /\ delta[1] \in Special)
      <4>1. Len(u) >= 1 /\ Len(u) \in Nat
        BY EndIsText DEF Text
      <4>2. Len(e) = 1 /\ Len(delta) = Len(e) + Len(u)
        BY <3>4 DEF Text
      <4> QED
        BY <4>1, <4>2
    <3>7. m = Message(r, OrNone(c)) /\ m \in Messages /\ Handle(m)
      <4>1. m = Message(r, OrNone(c))
        BY <2>3, <2>7, <3>1 DEF Base
      <4>2. m \in Messages
        BY <1>1, <3>6, MessageSays
      <4>3. Handle(m)
        BY <3>6 DEF Generate
      <4> QED
        BY <4>1, <4>2, <4>3
    <3>8. DividedAs(z)
      BY <2>1, <2>5 DEF DividedAs
    <3>9. sent \in Seq(Messages)
      BY DEF StreamInv, ParserTypeOK, Messages
    <3>10. DividedAs(z \o (r \o << End >> \o c))'
      BY <2>5, <3>7, <3>8, <3>9, ThoughtDivided
    <3>11. z \o u = u
      BY TextJoins
    <3>12. DividedAs(z \o u)'
      BY <3>10 DEF DividedAs
    <3> QED
      BY <3>5, <3>11, <3>12 DEF DividedAs
  <2> QED
    BY <2>6, <2>7
<1>5. CASE output # << >>
  <2>1. output[1] = Start
    <3> PICK o \in Text : o = output
      BY <1>1
    <3>1. o # << >> /\ (o \o delta)[1] = Start
      BY <1>1, <1>3, <1>5
    <3>2. o[1] = Start
      BY <1>1, <3>1 DEF Text
    <3> QED
      BY <3>2
  <2>2. PICK t \in Text : output = << Start >> \o t /\ After(output, << Start >>) = t
    BY <1>1, <1>5, <2>1, Opened
  <2>3. DividedAs(t)
    BY <1>3, <1>5, <2>1, <2>2 DEF DivideInv, Begun
  <2>4. DividedAs(t \o delta)'
    <3>1. CASE Has(t, End)
      BY <2>2, <2>3, <3>1, ContentMore
    <3>2. CASE ~Has(t, End) /\ Has(delta, End)
      BY <2>2, <2>3, <3>2, ReasoningEnds
    <3>3. CASE ~Has(t, End) /\ ~Has(delta, End)
      <4>1. Has(output, Start)
        BY <2>2, OpensWith
      <4>2. ~Has(delta, Start)
        BY <1>1, <4>1, TokenOnce, LettersAreText
      <4>3. delta \in Seq(Letter)
        BY <1>1, <3>3, <4>2, NoTokenIsLetters
      <4> QED
        BY <2>2, <2>3, <3>3, <4>3, ReasoningMore
    <3> QED
      BY <3>1, <3>2, <3>3
  <2> PICK n \in Text : n = t \o delta
    BY <1>1, TextJoins
  <2>5. After(output', << Start >>) = n
    <3>4. << Start >> \in Text
      BY LettersAreText DEF Text
    <3> PICK e \in Text : e = << Start >>
      BY <3>4
    <3>1. Regroups(e, t, delta)
      BY <1>1, TextRegroups
    <3>2. (e \o t) \o delta = e \o n
      BY <3>1 DEF Regroups
    <3>3. output' = << Start >> \o n
      BY <1>1, <2>2, <3>2
    <3> QED
      BY <3>3, OpensWith
  <2>6. DividedAs(n)'
    BY <2>4 DEF DividedAs
  <2> QED
    BY <2>5, <2>6 DEF DividedAs
<1> QED
  BY <1>4, <1>5

\* Streamed, an output that opens with the start token is divided as it would be
\* whole, unless the start token came in one delta with a part of its text only.
THEOREM StreamDividesAsWhole == ParserSpec => []StreamedAsWhole
<1>1. ParserInit => DivideInv
  BY DEF ParserInit, DivideInv, Begun
<1>2. StreamInv /\ DivideInv /\ [ParserNext]_parserVars => DivideInv'
  <2> SUFFICES ASSUME StreamInv, DivideInv, [ParserNext]_parserVars PROVE DivideInv'
    OBVIOUS
  <2>1. CASE ParserNext /\ ~Finish
    BY <2>1, DivideKept DEF ParserNext
  <2>2. CASE Finish \/ UNCHANGED parserVars
    <3>1. /\ output' = output /\ buffer' = buffer /\ stripped' = stripped /\ sent' = sent
          /\ keptToken' = keptToken
      BY <2>2 DEF Finish, parserVars
    <3>2. SentReasoning' = SentReasoning /\ SentContent' = SentContent
      BY <3>1, NoneMore
    <3> QED
      BY <3>1, <3>2 DEF DivideInv, DividedAs, Begun
  <2> QED
    BY <2>1, <2>2
<1>3. StreamInv /\ DivideInv => StreamedAsWhole
  <2> SUFFICES ASSUME StreamInv, DivideInv, Begun, ~Waiting(Reasoning), ~keptToken
               PROVE  /\ SentReasoning = Whole(output).reasoning
                      /\ SentContent = Given(Whole(output).content)
    BY DEF StreamedAsWhole
  <2>1. output \in Text /\ output # << >> /\ output[1] = Start
    BY DEF StreamInv, ParserTypeOK, Begun
  <2>2. PICK t \in Text : output = << Start >> \o t /\ After(output, << Start >>) = t
    BY <2>1, Opened
  <2>3. Has(output, Start)
    BY <2>2, OpensWith
  <2> PICK r : r = Before(t, << End >>)
    OBVIOUS
  <2> PICK c : c = After(t, << End >>)
    OBVIOUS
  <2>4. ~Waiting(r) /\ SentReasoning = StripLabel(r) /\ SentContent = c
    BY <2>2 DEF DivideInv, DividedAs, Reasoning
  <2>5. Whole(output) = [Divide(output) EXCEPT !.reasoning = StripLabel(@)]
    BY <2>3 DEF Whole
  <2>6. CASE Has(t, End)
    <3>1. c \in Text
      BY <2>6, ThoughtEnded, EndIsText
    <3>2. Divide(output) = Message(r, OrNone(c))
      BY <2>2, <2>3, <2>6 DEF Divide
    <3>3. Whole(output).reasoning = StripLabel(r) /\ Whole(output).content = OrNone(c)
      BY <2>5, <3>2 DEF Message
    <3> QED
      BY <2>4, <3>1, <3>3, GivenIs
  <2>7. CASE ~Has(t, End)
    <3>1. r = t /\ c = << >>
      BY <2>7 DEF Has, Before, After
    <3>2. Divide(output) = Message(t, None)
      BY <2>2, <2>3, <2>7 DEF Divide
    <3>3. Whole(output).reasoning = StripLabel(t) /\ Whole(output).content = None
      BY <2>5, <3>2 DEF Message
    <3> QED
      BY <2>4, <3>1, <3>3, GivenIs
  <2> QED
    BY <2>6, <2>7
<1> QED
  BY <1>1, <1>2, <1>3, StreamInit, StreamKept, PTL DEF ParserSpec
=============================================================================
