----------------------- MODULE ConversationMemoryProofs -----------------------
(***************************************************************************)
(* Proofs about what a conversation goes through, for any contents and any  *)
(* number of turns (Conversation), and about the memories that are looked   *)
(* up for it, for any sessions, memories and distances (MemoryLoop).  The   *)
(* two share no state; the proofs about Conversation come first.            *)
(***************************************************************************)
EXTENDS Conversation, MemoryLoop, TagTextProofs, FiniteSetTheorems

(* What translations are about                                              *)

AnyPart == Part \cup {Instruction, Reminder}
Types == {"text", "image", "thinking", "redacted_thinking", "tool_use", "tool_result"}
BlockSet == [type : Types, text : Seq(AnyPart), id : Nat]
ContentSet == [string : BOOLEAN, blocks : Seq(BlockSet)]
MessageSet == [role : {"user", "assistant"}, content : ContentSet]
ChatSet == [role : {"system", "user", "assistant", "tool"}, content : ContentSet,
            reasoning : Seq(AnyPart), calls : Seq(Nat), answers : Nat]

LEMMA PartsAreAny == Seq(Part) \subseteq Seq(AnyPart) /\ Instruction \in AnyPart /\ Reminder \in AnyPart
BY DEF AnyPart

LEMMA BlockTypes ==
  ASSUME NEW t \in Seq(AnyPart), NEW id \in Nat
  PROVE  /\ Text(t) \in BlockSet /\ Thinking(t) \in BlockSet /\ Picture(t) \in BlockSet
         /\ ToolUse(id) \in BlockSet /\ ToolResult(id, t) \in BlockSet
BY DEF Text, Thinking, Picture, ToolUse, ToolResult, Block, BlockSet, Types

\* The selections of blocks, as what is gathered of each block.
TypeTaker(type) == [b \in BlockSet |-> When(b.type = type, b)]
OtherTaker(types) == [b \in BlockSet |-> When(b.type \notin types, b)]
TextTaker(type) == [b \in BlockSet |-> IF b.type = type THEN b.text ELSE << >>]
IdTaker(type) == [b \in BlockSet |-> When(b.type = type, b.id)]

LEMMA Takers ==
  ASSUME NEW type, NEW types
  PROVE  /\ IsMap(TypeTaker(type), BlockSet, Seq(BlockSet))
         /\ IsMap(OtherTaker(types), BlockSet, Seq(BlockSet))
         /\ IsMap(TextTaker(type), BlockSet, Seq(AnyPart))
         /\ IsMap(IdTaker(type), BlockSet, Seq(Nat))
<1>1. \A b \in BlockSet : /\ When(b.type = type, b) \in Seq(BlockSet)
                          /\ When(b.type \notin types, b) \in Seq(BlockSet)
  BY DEF When
<1>2. \A b \in BlockSet : b.text \in Seq(AnyPart) /\ b.id \in Nat
  BY DEF BlockSet
<1>3. \A b \in BlockSet : /\ (IF b.type = type THEN b.text ELSE << >>) \in Seq(AnyPart)
                          /\ When(b.type = type, b.id) \in Seq(Nat)
  BY <1>2 DEF When
<1> QED
  BY <1>1, <1>3 DEF IsMap, TypeTaker, OtherTaker, TextTaker, IdTaker

LEMMA Taken ==
  ASSUME NEW s \in Seq(BlockSet), NEW type, NEW types
  PROVE  /\ OfType(s, type) = Gathered(TypeTaker(type), s)
         /\ OtherThan(s, types) = Gathered(OtherTaker(types), s)
         /\ JoinOf(s, type) = Gathered(TextTaker(type), s)
         /\ IdsOf(s, type) = Gathered(IdTaker(type), s)
<1>1. \A i \in DOMAIN s : s[i] \in BlockSet
  OBVIOUS
<1>2. /\ Mapped(TypeTaker(type), s) = [i \in DOMAIN s |-> When(s[i].type = type, s[i])]
      /\ Mapped(OtherTaker(types), s) = [i \in DOMAIN s |-> When(s[i].type \notin types, s[i])]
      /\ Mapped(TextTaker(type), s) = [i \in DOMAIN s |-> IF s[i].type = type THEN s[i].text ELSE << >>]
      /\ Mapped(IdTaker(type), s) = [i \in DOMAIN s |-> When(s[i].type = type, s[i].id)]
  BY <1>1 DEF Mapped, TypeTaker, OtherTaker, TextTaker, IdTaker
<1> QED
  BY <1>2 DEF Gathered, OfType, OtherThan, JoinOf, IdsOf, Concat

LEMMA TakenType ==
  ASSUME NEW s \in Seq(BlockSet), NEW type, NEW types
  PROVE  /\ OfType(s, type) \in Seq(BlockSet) /\ OtherThan(s, types) \in Seq(BlockSet)
         /\ JoinOf(s, type) \in Seq(AnyPart) /\ IdsOf(s, type) \in Seq(Nat)
<1>1. /\ IsMap(TypeTaker(type), BlockSet, Seq(BlockSet))
      /\ IsMap(OtherTaker(types), BlockSet, Seq(BlockSet))
      /\ IsMap(TextTaker(type), BlockSet, Seq(AnyPart))
      /\ IsMap(IdTaker(type), BlockSet, Seq(Nat))
  BY Takers
<1>2. Gathered(TypeTaker(type), s) \in Seq(BlockSet)
  BY <1>1, GatherType
<1>3. Gathered(OtherTaker(types), s) \in Seq(BlockSet)
  BY <1>1, GatherType
<1>4. Gathered(TextTaker(type), s) \in Seq(AnyPart)
  BY <1>1, GatherType
<1>5. Gathered(IdTaker(type), s) \in Seq(Nat)
  BY <1>1, GatherType
<1> QED
  BY <1>2, <1>3, <1>4, <1>5, Taken

LEMMA TakenOfNothing ==
  ASSUME NEW type, NEW types
  PROVE  /\ OfType(<< >>, type) = << >> /\ OtherThan(<< >>, types) = << >>
         /\ JoinOf(<< >>, type) = << >> /\ IdsOf(<< >>, type) = << >>
<1>1. << >> \in Seq(BlockSet)
  OBVIOUS
<1> QED
  BY <1>1, Taken, GatherNothing

LEMMA TakenOfOne ==
  ASSUME NEW b \in BlockSet, NEW type, NEW types
  PROVE  /\ OfType(<< b >>, type) = When(b.type = type, b)
         /\ OtherThan(<< b >>, types) = When(b.type \notin types, b)
         /\ JoinOf(<< b >>, type) = IF b.type = type THEN b.text ELSE << >>
         /\ IdsOf(<< b >>, type) = When(b.type = type, b.id)
<1>1. << b >> \in Seq(BlockSet)
  OBVIOUS
<1>2. /\ IsMap(TypeTaker(type), BlockSet, Seq(BlockSet))
      /\ IsMap(OtherTaker(types), BlockSet, Seq(BlockSet))
      /\ IsMap(TextTaker(type), BlockSet, Seq(AnyPart))
      /\ IsMap(IdTaker(type), BlockSet, Seq(Nat))
  BY Takers
<1>3. Gathered(TypeTaker(type), << b >>) = TypeTaker(type)[b]
  BY <1>2, GatherOne
<1>4. Gathered(OtherTaker(types), << b >>) = OtherTaker(types)[b]
  BY <1>2, GatherOne
<1>5. Gathered(TextTaker(type), << b >>) = TextTaker(type)[b]
  <2>1. IsMap(TextTaker(type), BlockSet, Seq(AnyPart)) /\ b \in BlockSet
    BY <1>2
  <2> QED
    BY ONLY <2>1, GatherOne
<1>6. Gathered(IdTaker(type), << b >>) = IdTaker(type)[b]
  BY <1>2, GatherOne
<1>7. /\ TypeTaker(type)[b] = When(b.type = type, b)
      /\ OtherTaker(types)[b] = When(b.type \notin types, b)
      /\ TextTaker(type)[b] = IF b.type = type THEN b.text ELSE << >>
      /\ IdTaker(type)[b] = When(b.type = type, b.id)
  BY DEF TypeTaker, OtherTaker, TextTaker, IdTaker
<1>8. /\ OfType(<< b >>, type) = Gathered(TypeTaker(type), << b >>)
      /\ OtherThan(<< b >>, types) = Gathered(OtherTaker(types), << b >>)
      /\ JoinOf(<< b >>, type) = Gathered(TextTaker(type), << b >>)
      /\ IdsOf(<< b >>, type) = Gathered(IdTaker(type), << b >>)
  BY <1>1, Taken
<1> QED
  BY ONLY <1>3, <1>4, <1>5, <1>6, <1>7, <1>8

LEMMA TakenOfJoin ==
  ASSUME NEW a \in Seq(BlockSet), NEW b \in Seq(BlockSet), NEW type, NEW types
  PROVE  /\ OfType(a \o b, type) = OfType(a, type) \o OfType(b, type)
         /\ OtherThan(a \o b, types) = OtherThan(a, types) \o OtherThan(b, types)
         /\ JoinOf(a \o b, type) = JoinOf(a, type) \o JoinOf(b, type)
         /\ IdsOf(a \o b, type) = IdsOf(a, type) \o IdsOf(b, type)
<1>1. a \o b \in Seq(BlockSet)
  OBVIOUS
<1>2. /\ IsMap(TypeTaker(type), BlockSet, Seq(BlockSet))
      /\ IsMap(OtherTaker(types), BlockSet, Seq(BlockSet))
      /\ IsMap(TextTaker(type), BlockSet, Seq(AnyPart))
      /\ IsMap(IdTaker(type), BlockSet, Seq(Nat))
  BY Takers
<1>7. ASSUME NEW T, NEW g, IsMap(g, BlockSet, Seq(T))
      PROVE  Gathered(g, a \o b) = Gathered(g, a) \o Gathered(g, b)
  <2>1. a \in Seq(BlockSet) /\ b \in Seq(BlockSet) /\ IsMap(g, BlockSet, Seq(T))
    BY <1>7
  <2> QED
    BY ONLY <2>1, GatherJoin
<1>3. Gathered(TypeTaker(type), a \o b) = Gathered(TypeTaker(type), a) \o Gathered(TypeTaker(type), b)
  BY <1>2, <1>7
<1>4. Gathered(OtherTaker(types), a \o b) = Gathered(OtherTaker(types), a) \o Gathered(OtherTaker(types), b)
  BY <1>2, <1>7
<1>5. Gathered(TextTaker(type), a \o b) = Gathered(TextTaker(type), a) \o Gathered(TextTaker(type), b)
  BY <1>2, <1>7
<1>6. Gathered(IdTaker(type), a \o b) = Gathered(IdTaker(type), a) \o Gathered(IdTaker(type), b)
  BY <1>2, <1>7
<1> QED
  BY <1>1, <1>3, <1>4, <1>5, <1>6, Taken

LEMMA JoinedTwo ==
  ASSUME NEW a \in Seq(BlockSet), NEW b \in Seq(BlockSet), NEW type
  PROVE  /\ OfType(a \o b, type) = OfType(a, type) \o OfType(b, type)
         /\ JoinOf(a \o b, type) = JoinOf(a, type) \o JoinOf(b, type)
         /\ IdsOf(a \o b, type) = IdsOf(a, type) \o IdsOf(b, type)
<1>1. /\ OfType(a \o b, type) = OfType(a, type) \o OfType(b, type)
      /\ OtherThan(a \o b, {}) = OtherThan(a, {}) \o OtherThan(b, {})
      /\ JoinOf(a \o b, type) = JoinOf(a, type) \o JoinOf(b, type)
      /\ IdsOf(a \o b, type) = IdsOf(a, type) \o IdsOf(b, type)
  BY TakenOfJoin
<1> QED
  BY <1>1

LEMMA OthersOfTwo ==
  ASSUME NEW a \in Seq(BlockSet), NEW b \in Seq(BlockSet), NEW types
  PROVE  OtherThan(a \o b, types) = OtherThan(a, types) \o OtherThan(b, types)
<1>1. /\ OfType(a \o b, "text") = OfType(a, "text") \o OfType(b, "text")
      /\ OtherThan(a \o b, types) = OtherThan(a, types) \o OtherThan(b, types)
      /\ JoinOf(a \o b, "text") = JoinOf(a, "text") \o JoinOf(b, "text")
      /\ IdsOf(a \o b, "text") = IdsOf(a, "text") \o IdsOf(b, "text")
  BY TakenOfJoin
<1> QED
  BY <1>1

\* Of blocks of other types nothing is taken, and of blocks of the type all.
LEMMA NoneTaken ==
  ASSUME NEW s \in Seq(BlockSet), NEW type, \A i \in 1..Len(s) : s[i].type # type
  PROVE  OfType(s, type) = << >> /\ JoinOf(s, type) = << >> /\ IdsOf(s, type) = << >>
<1>1. \A i \in 1..Len(s) : s[i] \in BlockSet
  OBVIOUS
<1>2. \A i \in 1..Len(s) : /\ TypeTaker(type)[s[i]] = << >> /\ TextTaker(type)[s[i]] = << >>
                           /\ IdTaker(type)[s[i]] = << >>
  BY <1>1 DEF TypeTaker, TextTaker, IdTaker, When
<1>3. /\ IsMap(TypeTaker(type), BlockSet, Seq(BlockSet))
      /\ IsMap(TextTaker(type), BlockSet, Seq(AnyPart))
      /\ IsMap(IdTaker(type), BlockSet, Seq(Nat))
  BY Takers
<1>4. Gathered(TypeTaker(type), s) = << >>
  BY <1>2, <1>3, GatherNone
<1>5. Gathered(TextTaker(type), s) = << >>
  BY <1>2, <1>3, GatherNone
<1>6. Gathered(IdTaker(type), s) = << >>
  BY <1>2, <1>3, GatherNone
<1> QED
  BY <1>4, <1>5, <1>6, Taken

LEMMA AllTaken ==
  ASSUME NEW s \in Seq(BlockSet), NEW type, \A i \in 1..Len(s) : s[i].type = type
  PROVE  OfType(s, type) = s
<1>1. \A i \in 1..Len(s) : s[i] \in BlockSet
  OBVIOUS
<1>2. \A i \in 1..Len(s) : TypeTaker(type)[s[i]] = << s[i] >>
  BY <1>1 DEF TypeTaker, When
<1> QED
  BY <1>2, Takers, Taken, GatherAll

LEMMA OthersTaken ==
  ASSUME NEW s \in Seq(BlockSet), NEW types
  PROVE  /\ (\A i \in 1..Len(s) : s[i].type \notin types) => OtherThan(s, types) = s
         /\ (\A i \in 1..Len(s) : s[i].type \in types) => OtherThan(s, types) = << >>
<1>1. \A i \in 1..Len(s) : s[i] \in BlockSet
  OBVIOUS
<1>2. IsMap(OtherTaker(types), BlockSet, Seq(BlockSet)) /\ OtherThan(s, types) = Gathered(OtherTaker(types), s)
  BY Takers, Taken
<1>3. ASSUME \A i \in 1..Len(s) : s[i].type \notin types
      PROVE  OtherThan(s, types) = s
  <2>1. \A i \in 1..Len(s) : OtherTaker(types)[s[i]] = << s[i] >>
    BY <1>1, <1>3 DEF OtherTaker, When
  <2> QED
    BY <1>2, <2>1, GatherAll
<1>4. ASSUME \A i \in 1..Len(s) : s[i].type \in types
      PROVE  OtherThan(s, types) = << >>
  <2>1. \A i \in 1..Len(s) : OtherTaker(types)[s[i]] = << >>
    BY <1>1, <1>4 DEF OtherTaker, When
  <2> QED
    BY <1>2, <2>1, GatherNone
<1> QED
  BY <1>3, <1>4

----------------------------------------------------------------------------
(* The conversations there are                                              *)

\* What a turn may be, by who speaks.
TurnSet ==
  {t \in [by : {"user", "tools", "model"}, content : Content({"text", "image"}),
          reasoning : Seq(Part), calls : Seq(Nat)] :
     /\ t.content.string => t.content = String(t.content.blocks[1].text)
     /\ t.by # "user" => t.content \in Content({"text"})
     /\ t.by # "model" => t.reasoning = << >>
     /\ t.by = "user" => t.calls = << >>
     /\ t.by = "tools" => t.calls # << >>}

\* Tools answer the calls just made, all of them, and the model speaks when it
\* is asked.
InTurn(said) ==
  \A i \in 1..Len(said) :
    /\ said[i].by = "tools" <=> (i > 1 /\ said[i - 1].by = "model" /\ said[i - 1].calls # << >>)
    /\ said[i].by = "tools" => ToSet(said[i].calls) = ToSet(said[i - 1].calls)
    /\ said[i].by = "model" => i > 1 /\ said[i - 1].by # "model"

LEMMA ContentTypes ==
  /\ Content({"text"}) \subseteq Content({"text", "image"})
  /\ Content({"text", "image"}) \subseteq ContentSet
<1>1. [type : {"text"}, text : Seq(Part), id : {0}]
        \subseteq [type : {"text", "image"}, text : Seq(Part), id : {0}]
  OBVIOUS
<1>2. [type : {"text", "image"}, text : Seq(Part), id : {0}] \subseteq BlockSet
  BY PartsAreAny DEF BlockSet, Types
<1>3. \A A, B : A \subseteq B => Seq(A) \subseteq Seq(B)
  OBVIOUS
<1>4. /\ Seq([type : {"text"}, text : Seq(Part), id : {0}])
           \subseteq Seq([type : {"text", "image"}, text : Seq(Part), id : {0}])
      /\ Seq([type : {"text", "image"}, text : Seq(Part), id : {0}]) \subseteq Seq(BlockSet)
  BY <1>1, <1>2, <1>3
<1> QED
  BY <1>4 DEF Content, ContentSet

LEMMA MemberType == \A S : \A s \in Seq(S) : \A k \in 1..Len(s) : s[k] \in S
OBVIOUS

LEMMA SameSequence ==
  ASSUME NEW S, NEW s \in Seq(S), NEW t \in Seq(S), Len(s) = Len(t),
         \A i \in 1..Len(s) : s[i] = t[i]
  PROVE  s = t
OBVIOUS

LEMMA FunctionIsSeq ==
  \A S : \A n \in Nat : \A f \in [1..n -> S] : f \in Seq(S) /\ Len(f) = n
OBVIOUS

LEMMA StringType ==
  ASSUME NEW t \in Seq(AnyPart)
  PROVE  String(t) \in ContentSet /\ String(t).blocks = << Text(t) >> /\ String(t).string
<1>1. Text(t) \in BlockSet
  BY BlockTypes
<1> QED
  BY <1>1 DEF String, ContentSet

LEMMA ArrayType ==
  ASSUME NEW s \in Seq(BlockSet)
  PROVE  Array(s) \in ContentSet /\ Array(s).blocks = s /\ ~Array(s).string
BY DEF Array, ContentSet

\* A turn of the user or of tools has a content as the client has it.
LEMMA TurnFields ==
  ASSUME NEW t \in TurnSet
  PROVE  /\ t.by \in {"user", "tools", "model"} /\ t.content \in ContentSet
         /\ t.content.blocks \in Seq(BlockSet) /\ t.reasoning \in Seq(AnyPart)
         /\ t.calls \in Seq(Nat)
         /\ t.content.string \in BOOLEAN
         /\ t.content.string => t.content = String(t.content.blocks[1].text)
         /\ t.content.string => /\ Len(t.content.blocks) = 1
                                /\ t.content.blocks[1].text \in Seq(Part)
         /\ \A k \in 1..Len(t.content.blocks) :
              /\ t.content.blocks[k] \in BlockSet
              /\ t.content.blocks[k].type \in {"text", "image"}
              /\ t.content.blocks[k].text \in Seq(Part)
              /\ t.by # "user" => t.content.blocks[k].type = "text"
         /\ t.by # "model" => t.reasoning = << >>
         /\ t.by = "user" => t.calls = << >>
         /\ t.by = "tools" => t.calls # << >>
<1>1. /\ t.by \in {"user", "tools", "model"} /\ t.content \in Content({"text", "image"})
      /\ t.reasoning \in Seq(Part) /\ t.calls \in Seq(Nat)
      /\ t.content.string => t.content = String(t.content.blocks[1].text)
      /\ t.by # "user" => t.content \in Content({"text"})
      /\ t.by # "model" => t.reasoning = << >>
      /\ t.by = "user" => t.calls = << >>
      /\ t.by = "tools" => t.calls # << >>
  BY DEF TurnSet
<1>2. /\ t.content \in ContentSet /\ t.reasoning \in Seq(AnyPart)
  BY <1>1, ContentTypes, PartsAreAny
<1>3. t.content.blocks \in Seq(BlockSet) /\ t.content.string \in BOOLEAN
  BY <1>2 DEF ContentSet
<1>4. t.content.blocks \in Seq([type : {"text", "image"}, text : Seq(Part), id : {0}])
  BY <1>1 DEF Content
<1>5. t.by # "user" => t.content.blocks \in Seq([type : {"text"}, text : Seq(Part), id : {0}])
  BY <1>1 DEF Content
<1>6. \A k \in 1..Len(t.content.blocks) :
        /\ t.content.blocks[k] \in BlockSet
        /\ t.content.blocks[k].type \in {"text", "image"}
        /\ t.content.blocks[k].text \in Seq(Part)
        /\ t.by # "user" => t.content.blocks[k].type = "text"
  <2> TAKE k \in 1..Len(t.content.blocks)
  <2>1. t.content.blocks[k] \in BlockSet
    BY <1>3
  <2>2. t.content.blocks[k] \in [type : {"text", "image"}, text : Seq(Part), id : {0}]
    BY <1>4, MemberType
  <2>3. t.by # "user" => t.content.blocks[k] \in [type : {"text"}, text : Seq(Part), id : {0}]
    BY <1>5, MemberType
  <2> QED
    BY <2>1, <2>2, <2>3
<1>7. t.content.string => /\ Len(t.content.blocks) = 1 /\ t.content.blocks[1].text \in Seq(Part)
  <2> SUFFICES ASSUME t.content.string
               PROVE  Len(t.content.blocks) = 1 /\ t.content.blocks[1].text \in Seq(Part)
    OBVIOUS
  <2>1. Len(t.content.blocks) = 1
    BY <1>1 DEF String
  <2> QED
    BY <1>6, <2>1
<1> QED
  BY <1>1, <1>2, <1>3, <1>6, <1>7

----------------------------------------------------------------------------
(* A turn in either format                                                  *)

ResultsOf(calls) == [i \in DOMAIN calls |-> ToolResult(calls[i], << "result" >>)]
Uses(calls) == [i \in DOMAIN calls |-> ToolUse(calls[i])]
Answers(calls) == [i \in DOMAIN calls |-> Answer(calls[i], String(<< "result" >>))]
Reasoned(t) == IF t.reasoning = << >> THEN << >> ELSE << Thinking(t.reasoning) >>

LEMMA ResultText == << "result" >> \in Seq(Part) /\ << "result" >> \in Seq(AnyPart)
<1>1. << "result" >> \in Seq(Part)
  BY PartAssumption
<1> QED
  BY <1>1, PartsAreAny

LEMMA CallTypes ==
  ASSUME NEW calls \in Seq(Nat)
  PROVE  /\ ResultsOf(calls) \in Seq(BlockSet) /\ Len(ResultsOf(calls)) = Len(calls)
         /\ Uses(calls) \in Seq(BlockSet) /\ Len(Uses(calls)) = Len(calls)
         /\ Answers(calls) \in Seq(ChatSet) /\ Len(Answers(calls)) = Len(calls)
         /\ \A i \in 1..Len(calls) :
              /\ calls[i] \in Nat
              /\ ResultsOf(calls)[i] = ToolResult(calls[i], << "result" >>)
              /\ Uses(calls)[i] = ToolUse(calls[i])
              /\ Answers(calls)[i] = Answer(calls[i], String(<< "result" >>))
<1>1. DOMAIN calls = 1..Len(calls) /\ Len(calls) \in Nat /\ \A i \in 1..Len(calls) : calls[i] \in Nat
  OBVIOUS
<1>2. String(<< "result" >>) \in ContentSet
  BY ResultText, StringType
<1>3. \A i \in 1..Len(calls) :
        /\ ToolResult(calls[i], << "result" >>) \in BlockSet
        /\ ToolUse(calls[i]) \in BlockSet
        /\ Answer(calls[i], String(<< "result" >>)) \in ChatSet
  <2> TAKE i \in 1..Len(calls)
  <2>1. calls[i] \in Nat
    BY <1>1
  <2>2. ToolResult(calls[i], << "result" >>) \in BlockSet /\ ToolUse(calls[i]) \in BlockSet
    BY <2>1, ResultText, BlockTypes
  <2>3. << >> \in Seq(AnyPart) /\ << >> \in Seq(Nat)
    OBVIOUS
  <2>4. Answer(calls[i], String(<< "result" >>)) \in ChatSet
    BY <1>2, <2>1, <2>3 DEF Answer, Chat, ChatSet
  <2> QED
    BY <2>2, <2>4
<1>4. /\ ResultsOf(calls) \in [1..Len(calls) -> BlockSet]
      /\ Uses(calls) \in [1..Len(calls) -> BlockSet]
      /\ Answers(calls) \in [1..Len(calls) -> ChatSet]
  BY <1>1, <1>3 DEF ResultsOf, Uses, Answers
<1>5. \A i \in 1..Len(calls) :
        /\ ResultsOf(calls)[i] = ToolResult(calls[i], << "result" >>)
        /\ Uses(calls)[i] = ToolUse(calls[i])
        /\ Answers(calls)[i] = Answer(calls[i], String(<< "result" >>))
  BY <1>1 DEF ResultsOf, Uses, Answers
<1>6. /\ ResultsOf(calls) \in Seq(BlockSet) /\ Len(ResultsOf(calls)) = Len(calls)
      /\ Uses(calls) \in Seq(BlockSet) /\ Len(Uses(calls)) = Len(calls)
      /\ Answers(calls) \in Seq(ChatSet) /\ Len(Answers(calls)) = Len(calls)
  BY <1>1, <1>4, FunctionIsSeq
<1> QED
  BY <1>1, <1>5, <1>6

LEMMA ReasonedType ==
  ASSUME NEW t \in TurnSet
  PROVE  /\ Reasoned(t) \in Seq(BlockSet)
         /\ \A i \in 1..Len(Reasoned(t)) : Reasoned(t)[i].type = "thinking"
<1>1. Thinking(t.reasoning) \in BlockSet
  BY TurnFields, BlockTypes
<1>2. Thinking(t.reasoning).type = "thinking"
  BY DEF Thinking, Block
<1>3. CASE t.reasoning = << >>
  BY <1>3 DEF Reasoned
<1>4. CASE t.reasoning # << >>
  <2> PICK b \in BlockSet : b = Thinking(t.reasoning)
    BY <1>1
  <2>1. Reasoned(t) = << b >> /\ b.type = "thinking"
    BY <1>2, <1>4 DEF Reasoned
  <2>2. << b >> \in Seq(BlockSet) /\ Len(<< b >>) = 1 /\ << b >>[1] = b
    OBVIOUS
  <2> QED
    BY <2>1, <2>2
<1> QED
  BY <1>3, <1>4

\* What the client sends for a turn in Anthropic's format.
LEMMA AnthropicTurn ==
  ASSUME NEW t \in TurnSet
  PROVE  /\ AsAnthropic(t) \in MessageSet
         /\ AsAnthropic(t).role = "assistant" <=> t.by = "model"
         /\ t.by = "user" => AsAnthropic(t) = Message("user", t.content)
         /\ t.by = "tools" =>
              AsAnthropic(t) = Message("user", Array(ResultsOf(t.calls) \o t.content.blocks))
         /\ t.by = "model" =>
              AsAnthropic(t) = Message("assistant",
                                 Array((Reasoned(t) \o t.content.blocks) \o Uses(t.calls)))
         /\ ResultsOf(t.calls) \o t.content.blocks \in Seq(BlockSet)
         /\ (Reasoned(t) \o t.content.blocks) \o Uses(t.calls) \in Seq(BlockSet)
<1>1. /\ t.content \in ContentSet /\ t.content.blocks \in Seq(BlockSet)
      /\ t.by \in {"user", "tools", "model"}
  BY TurnFields
<1>2. /\ ResultsOf(t.calls) \in Seq(BlockSet) /\ Uses(t.calls) \in Seq(BlockSet)
      /\ Reasoned(t) \in Seq(BlockSet)
  BY TurnFields, CallTypes, ReasonedType
<1>3. /\ ResultsOf(t.calls) \o t.content.blocks \in Seq(BlockSet)
      /\ (Reasoned(t) \o t.content.blocks) \o Uses(t.calls) \in Seq(BlockSet)
  BY <1>1, <1>2
<1>4. \A c \in ContentSet : /\ Message("user", c) \in MessageSet /\ Message("user", c).role = "user"
                            /\ Message("assistant", c) \in MessageSet
                            /\ Message("assistant", c).role = "assistant"
  BY DEF Message, MessageSet
<1>5. /\ Array(ResultsOf(t.calls) \o t.content.blocks) \in ContentSet
      /\ Array((Reasoned(t) \o t.content.blocks) \o Uses(t.calls)) \in ContentSet
  BY <1>3, ArrayType
<1>6. CASE t.by = "user"
  <2>1. AsAnthropic(t) = Message("user", t.content)
    BY <1>6 DEF AsAnthropic
  <2> QED
    BY <1>1, <1>3, <1>4, <1>6, <2>1
<1>7. CASE t.by = "tools"
  <2>1. OfType(t.content.blocks, "text") = t.content.blocks
    BY <1>1, <1>7, TurnFields, AllTaken
  <2>2. AsAnthropic(t) = Message("user", Array(ResultsOf(t.calls) \o t.content.blocks))
    BY <1>7, <2>1 DEF AsAnthropic, ResultsOf
  <2> QED
    BY <1>3, <1>4, <1>5, <1>7, <2>2
<1>8. CASE t.by = "model"
  <2>1. AsAnthropic(t) = Message("assistant",
                           Array((Reasoned(t) \o t.content.blocks) \o Uses(t.calls)))
    BY <1>8 DEF AsAnthropic, Reasoned, Uses
  <2> QED
    BY <1>3, <1>4, <1>5, <1>8, <2>1
<1> QED
  BY <1>1, <1>6, <1>7, <1>8

LEMMA TextType == ASSUME NEW c \in ContentSet PROVE TextOf(c) \in Seq(AnyPart)
<1>1. c.blocks \in Seq(BlockSet)
  BY DEF ContentSet
<1> QED
  BY <1>1, TakenType DEF TextOf

LEMMA SaidType ==
  ASSUME NEW role \in {"system", "user", "assistant", "tool"}, NEW c \in ContentSet
  PROVE  Said(role, c) \in ChatSet
<1>1. << >> \in Seq(AnyPart) /\ << >> \in Seq(Nat)
  OBVIOUS
<1> QED
  BY <1>1 DEF Said, Chat, ChatSet

\* And in OpenAI's.
Commented(t) == IF t.content.blocks = << >> THEN << >> ELSE << Said("user", t.content) >>
Spoken(t) == Chat("assistant", String(TextOf(t.content)), t.reasoning, t.calls, 0)

LEMMA OpenAITurn ==
  ASSUME NEW t \in TurnSet
  PROVE  /\ AsOpenAI(t) \in Seq(ChatSet) /\ AsOpenAI(t) # << >>
         /\ t.by = "user" => AsOpenAI(t) = << Said("user", t.content) >>
         /\ t.by = "tools" => AsOpenAI(t) = Answers(t.calls) \o Commented(t)
         /\ t.by = "model" => AsOpenAI(t) = << Spoken(t) >>
         /\ Said("user", t.content) \in ChatSet /\ Spoken(t) \in ChatSet
         /\ Commented(t) \in Seq(ChatSet)
<1>1. /\ t.content \in ContentSet /\ t.calls \in Seq(Nat) /\ t.reasoning \in Seq(AnyPart)
      /\ t.by \in {"user", "tools", "model"}
      /\ t.by = "tools" => t.calls # << >>
  BY TurnFields
<1>2. Answers(t.calls) \in Seq(ChatSet) /\ Len(Answers(t.calls)) = Len(t.calls)
  BY <1>1, CallTypes
<1>3. Said("user", t.content) \in ChatSet
  BY <1>1, SaidType
<1>4. Spoken(t) \in ChatSet
  <2>1. String(TextOf(t.content)) \in ContentSet
    BY <1>1, TextType, StringType
  <2> QED
    BY <1>1, <2>1 DEF Spoken, Chat, ChatSet
<1>5. Commented(t) \in Seq(ChatSet)
  BY <1>3 DEF Commented
<1>6. CASE t.by = "user"
  <2>1. AsOpenAI(t) = << Said("user", t.content) >>
    BY <1>6 DEF AsOpenAI
  <2> QED
    BY <1>3, <1>4, <1>5, <1>6, <2>1
<1>7. CASE t.by = "tools"
  <2>1. AsOpenAI(t) = Answers(t.calls) \o Commented(t)
    BY <1>7 DEF AsOpenAI, Answers, Commented
  <2>2. Len(t.calls) > 0
    BY <1>1, <1>7
  <2>3. /\ Answers(t.calls) \o Commented(t) \in Seq(ChatSet)
        /\ Answers(t.calls) \o Commented(t) # << >>
    <3>1. Len(Answers(t.calls)) > 0
      BY <1>2, <2>2
    <3> QED
      BY <1>2, <1>5, <3>1
  <2> QED
    BY <1>3, <1>4, <1>5, <1>7, <2>1, <2>3
<1>8. CASE t.by = "model"
  <2>1. AsOpenAI(t) = << Spoken(t) >>
    BY <1>8 DEF AsOpenAI, Spoken
  <2>2. << Spoken(t) >> \in Seq(ChatSet) /\ << Spoken(t) >> # << >>
    BY <1>4
  <2> QED
    BY <1>3, <1>4, <1>5, <1>8, <2>1, <2>2
<1> QED
  BY <1>1, <1>6, <1>7, <1>8

----------------------------------------------------------------------------
(* The conversations the client and the model have                          *)

LEMMA SetOfSeq ==
  ASSUME NEW T, NEW s \in Seq(T)
  PROVE  /\ Cardinality(ToSet(s)) \in Nat /\ ToSet(s) \subseteq T
         /\ ToSet(s) = {} <=> s = << >>
<1>1. DOMAIN s = 1..Len(s) /\ Len(s) \in Nat /\ \A i \in 1..Len(s) : s[i] \in T
  OBVIOUS
<1>2. s \in [1..Len(s) -> ToSet(s)] /\ \A x \in ToSet(s) : \E i \in 1..Len(s) : s[i] = x
  BY <1>1 DEF ToSet
<1>3. s \in Surjection(1..Len(s), ToSet(s))
  BY <1>2 DEF Surjection
<1>4. IsFiniteSet(1..Len(s))
  BY <1>1, FS_Interval
<1>5. Cardinality(ToSet(s)) \in Nat
  BY <1>3, <1>4, FS_Surjection, FS_CardinalityType
<1>6. ToSet(s) \subseteq T
  BY <1>1 DEF ToSet
<1>7. ToSet(s) = {} <=> s = << >>
  <2>1. s # << >> => 1 \in 1..Len(s)
    BY <1>1
  <2>2. s # << >> => s[1] \in ToSet(s)
    BY <1>1, <2>1 DEF ToSet
  <2>3. s = << >> => DOMAIN s = {}
    BY <1>1
  <2>4. s = << >> => ToSet(s) = {}
    BY <2>3 DEF ToSet
  <2> QED
    BY <2>2, <2>4
<1> QED
  BY <1>5, <1>6, <1>7

LastTurn(said) == IF said = << >> THEN Nobody ELSE said[Len(said)]

LEMMA InTurnAppend ==
  ASSUME NEW said \in Seq(TurnSet), InTurn(said), NEW t \in TurnSet,
         t.by = "tools" <=> (LastTurn(said).by = "model" /\ LastTurn(said).calls # << >>),
         t.by = "tools" => ToSet(t.calls) = ToSet(LastTurn(said).calls),
         t.by = "model" => said # << >> /\ LastTurn(said).by # "model"
  PROVE  Append(said, t) \in Seq(TurnSet) /\ InTurn(Append(said, t))
<1> PICK n \in Nat : n = Len(said)
  OBVIOUS
<1> PICK s : s = Append(said, t)
  OBVIOUS
<1>1. /\ s \in Seq(TurnSet) /\ Len(s) = n + 1 /\ s[n + 1] = t
      /\ \A i \in 1..n : s[i] = said[i]
      /\ said = << >> <=> n = 0
  OBVIOUS
<1>2. LastTurn(said) = IF n = 0 THEN Nobody ELSE s[n]
  BY <1>1 DEF LastTurn
<1>3. Nobody.by = "nobody"
  BY DEF Nobody, Turn
<1>4. ASSUME NEW i \in 1..(n + 1)
      PROVE  /\ s[i].by = "tools" <=> (i > 1 /\ s[i - 1].by = "model" /\ s[i - 1].calls # << >>)
             /\ s[i].by = "tools" => ToSet(s[i].calls) = ToSet(s[i - 1].calls)
             /\ s[i].by = "model" => i > 1 /\ s[i - 1].by # "model"
  <2>1. CASE i \in 1..n
    <3>1. s[i] = said[i] /\ (i > 1 => s[i - 1] = said[i - 1])
      BY <1>1, <2>1
    <3>2. /\ said[i].by = "tools" <=> (i > 1 /\ said[i - 1].by = "model" /\ said[i - 1].calls # << >>)
          /\ said[i].by = "tools" => ToSet(said[i].calls) = ToSet(said[i - 1].calls)
          /\ said[i].by = "model" => i > 1 /\ said[i - 1].by # "model"
      BY <2>1 DEF InTurn
    <3>3. CASE i > 1
      BY <3>1, <3>2, <3>3
    <3>4. CASE ~(i > 1)
      BY <3>1, <3>2, <3>4
    <3> QED
      BY <3>3, <3>4
  <2>2. CASE i = n + 1 /\ n = 0
    <3>1. s[i] = t /\ ~(i > 1) /\ said = << >> /\ LastTurn(said).by = "nobody"
      BY <1>1, <1>2, <1>3, <2>2
    <3> QED
      BY <3>1
  <2>3. CASE i = n + 1 /\ n # 0
    <3>1. s[i] = t /\ i > 1 /\ i - 1 = n /\ said # << >> /\ LastTurn(said) = s[n]
      BY <1>1, <1>2, <2>3
    <3> QED
      BY <3>1
  <2> QED
    BY <2>1, <2>2, <2>3
<1>5. InTurn(s)
  BY <1>1, <1>4 DEF InTurn
<1> QED
  BY <1>1, <1>5

LEMMA SystemType ==
  ASSUME NEW c \in System
  PROVE  /\ c \in ContentSet /\ TextOf(c) \in Seq(AnyPart)
         /\ c.string => c = String(c.blocks[1].text)
         /\ c.blocks \in Seq([type : {"text"}, text : Seq(Part), id : {0}])
<1>1. IsContent(c, {"text"})
  BY ClientAssumption
<1>2. c \in ContentSet
  BY <1>1, ContentTypes DEF IsContent
<1> QED
  BY <1>1, <1>2, TextType DEF IsContent, Content

\* The turns there may be next.
LEMMA UserTurnType ==
  ASSUME NEW c \in UserTurn
  PROVE  /\ Turn("user", c, << >>, << >>) \in TurnSet
         /\ Turn("user", c, << >>, << >>).by = "user"
<1>1. /\ c \in Content({"text", "image"})
      /\ c.string => c = String(c.blocks[1].text)
  BY ClientAssumption DEF IsContent
<1>2. << >> \in Seq(Part) /\ << >> \in Seq(Nat)
  OBVIOUS
<1> QED
  BY <1>1, <1>2 DEF Turn, TurnSet

LEMMA ToolsTurnType ==
  ASSUME NEW c \in Comment, NEW calls \in Seq(Nat), calls # << >>
  PROVE  /\ Turn("tools", c, << >>, calls) \in TurnSet
         /\ Turn("tools", c, << >>, calls).by = "tools"
         /\ Turn("tools", c, << >>, calls).calls = calls
<1>1. /\ c \in Content({"text"}) /\ c \in Content({"text", "image"})
      /\ c.string => c = String(c.blocks[1].text)
  BY ClientAssumption, ContentTypes DEF IsContent
<1>2. << >> \in Seq(Part)
  OBVIOUS
<1> QED
  BY <1>1, <1>2 DEF Turn, TurnSet

LEMMA ModelTurnType ==
  ASSUME NEW m \in ModelTurn, NEW calls \in Seq(Nat),
         NEW c, c = IF m.text = << >> THEN Empty ELSE Array(<< Text(m.text) >>)
  PROVE  /\ Turn("model", c, m.reasoning, calls) \in TurnSet
         /\ Turn("model", c, m.reasoning, calls).by = "model"
<1>1. m.reasoning \in Seq(Part) /\ m.text \in Seq(Part)
  BY ModelAssumption
<1> PICK B : B = [type : {"text"}, text : Seq(Part), id : {0}]
  OBVIOUS
<1>2. Text(m.text) \in B
  BY <1>1 DEF Text, Block
<1>3. << >> \in Seq(B) /\ << Text(m.text) >> \in Seq(B)
  BY <1>2
<1>4. Content({"text"}) = [string : BOOLEAN, blocks : Seq(B)]
  BY DEF Content
<1>5. Empty \in Content({"text"}) /\ ~Empty.string
  BY <1>3, <1>4 DEF Empty, Array
<1>6. Array(<< Text(m.text) >>) \in Content({"text"}) /\ ~Array(<< Text(m.text) >>).string
  BY <1>3, <1>4 DEF Array
<1>7. c \in Content({"text"}) /\ ~c.string /\ c \in Content({"text", "image"})
  BY <1>5, <1>6, ContentTypes
<1> QED
  BY <1>1, <1>7 DEF Turn, TurnSet

LEMMA MessagesType ==
  ASSUME NEW said \in Seq(TurnSet)
  PROVE  /\ MessagesOf(said) \in Seq(MessageSet) /\ Len(MessagesOf(said)) = Len(said)
         /\ DOMAIN MessagesOf(said) = 1..Len(said)
         /\ \A i \in 1..Len(said) : MessagesOf(said)[i] = AsAnthropic(said[i]) /\ said[i] \in TurnSet
<1>1. DOMAIN said = 1..Len(said) /\ Len(said) \in Nat /\ \A i \in 1..Len(said) : said[i] \in TurnSet
  OBVIOUS
<1>2. \A i \in 1..Len(said) : AsAnthropic(said[i]) \in MessageSet
  BY <1>1, AnthropicTurn
<1>3. MessagesOf(said) = [i \in 1..Len(said) |-> AsAnthropic(said[i])]
  BY <1>1 DEF MessagesOf
<1>4. MessagesOf(said) \in [1..Len(said) -> MessageSet]
  BY <1>2, <1>3
<1>5. MessagesOf(said) \in Seq(MessageSet) /\ Len(MessagesOf(said)) = Len(said)
  BY <1>1, <1>4, FunctionIsSeq
<1> QED
  BY <1>1, <1>3, <1>5

\* The OpenAI messages of all turns.
OpenAITaker == [t \in TurnSet |-> AsOpenAI(t)]
LEMMA OpenAITakes ==
  /\ IsMap(OpenAITaker, TurnSet, Seq(ChatSet))
  /\ \A said \in Seq(TurnSet) :
       /\ Gathered(OpenAITaker, said) \in Seq(ChatSet)
       /\ FlattenSeq([i \in DOMAIN said |-> AsOpenAI(said[i])]) = Gathered(OpenAITaker, said)
<1>1. IsMap(OpenAITaker, TurnSet, Seq(ChatSet))
  BY OpenAITurn DEF IsMap, OpenAITaker
<1>2. ASSUME NEW said \in Seq(TurnSet)
      PROVE  /\ Gathered(OpenAITaker, said) \in Seq(ChatSet)
             /\ FlattenSeq([i \in DOMAIN said |-> AsOpenAI(said[i])]) = Gathered(OpenAITaker, said)
  <2>1. Gathered(OpenAITaker, said) \in Seq(ChatSet)
    BY <1>1, GatherType
  <2>2. \A i \in DOMAIN said : said[i] \in TurnSet
    OBVIOUS
  <2>3. Mapped(OpenAITaker, said) = [i \in DOMAIN said |-> AsOpenAI(said[i])]
    BY <2>2 DEF Mapped, OpenAITaker
  <2> QED
    BY <2>1, <2>3 DEF Gathered
<1> QED
  BY <1>1, <1>2

SystemSaid == IF TextOf(system) = << >> THEN << >> ELSE << Said("system", system) >>
LEMMA ChatsType ==
  ASSUME NEW said \in Seq(TurnSet), system \in System
  PROVE  /\ ChatsOf(said) = SystemSaid \o Gathered(OpenAITaker, said)
         /\ SystemSaid \in Seq(ChatSet)
         /\ ChatsOf(said) \in Seq(ChatSet)
<1>1. SystemSaid \in Seq(ChatSet)
  BY SystemType, SaidType DEF SystemSaid
<1>2. ChatsOf(said) = SystemSaid \o Gathered(OpenAITaker, said)
  BY OpenAITakes DEF ChatsOf, SystemSaid
<1>3. Gathered(OpenAITaker, said) \in Seq(ChatSet)
  BY OpenAITakes
<1>4. SystemSaid \o Gathered(OpenAITaker, said) \in Seq(ChatSet)
  BY <1>1, <1>3
<1> QED
  BY <1>1, <1>2, <1>4

LEMMA FlattenedClassified ==
  ASSUME NEW said \in Seq(TurnSet), NEW c \in System
  PROVE  \E T : AnthropicMessagesToChat(c, MessagesOf(said)) \in Seq(T)
<1>1. SystemMessage(c) \in Seq(ChatSet)
  <2>1. String(TextOf(c)) \in ContentSet
    BY SystemType, StringType
  <2> QED
    BY <2>1, SaidType DEF SystemMessage
<1>2. ASSUME NEW i \in 1..Len(said)
      PROVE  Said(MessagesOf(said)[i].role, String(TextOf(MessagesOf(said)[i].content))) \in ChatSet
  <2>1. MessagesOf(said)[i] \in MessageSet
    BY MessagesType, MemberType
  <2>2. MessagesOf(said)[i].role \in {"system", "user", "assistant", "tool"}
    BY <2>1 DEF MessageSet
  <2>3. MessagesOf(said)[i].content \in ContentSet
    BY <2>1 DEF MessageSet
  <2>4. String(TextOf(MessagesOf(said)[i].content)) \in ContentSet
    BY <2>3, TextType, StringType
  <2> QED
    BY <2>2, <2>4, SaidType
<1> DEFINE flat == [i \in DOMAIN MessagesOf(said) |->
                      Said(MessagesOf(said)[i].role, String(TextOf(MessagesOf(said)[i].content)))]
<1>3. DOMAIN MessagesOf(said) = 1..Len(said) /\ Len(said) \in Nat
  BY MessagesType
<1>4. flat \in [1..Len(said) -> ChatSet]
  BY <1>2, <1>3
<1>5. flat \in Seq(ChatSet)
  <2> HIDE DEF flat
  <2> QED
    BY <1>3, <1>4, FunctionIsSeq
<1>6. AnthropicMessagesToChat(c, MessagesOf(said)) = SystemMessage(c) \o flat
  BY DEF AnthropicMessagesToChat
<1> HIDE DEF flat
<1>7. SystemMessage(c) \o flat \in Seq(ChatSet)
  BY <1>1, <1>5
<1> QED
  BY <1>6, <1>7

LEMMA WindowBounded ==
  ASSUME NEW T, NEW msgs \in Seq(T)
  PROVE  Len(LastOf(msgs)) <= WindowSize
<1>1. WindowSize \in Nat /\ Len(msgs) \in Nat
  BY BoundAssumption
<1>2. CASE Len(msgs) > WindowSize
  <2> DEFINE l == Len(msgs) - WindowSize + 1
  <2>3. l \in Nat \ {0}
    BY <1>1, <1>2
  <2> PICK k \in Nat \ {0} : k = l
    BY <2>3
  <2>1. Len(SubSeq(msgs, k, Len(msgs))) = Len(msgs) - k + 1
    BY <1>1, <1>2
  <2>2. LastOf(msgs) = SubSeq(msgs, k, Len(msgs))
    BY <1>2 DEF LastOf
  <2> QED
    BY <1>1, <2>1, <2>2
<1>3. CASE ~(Len(msgs) > WindowSize)
  <2>1. LastOf(msgs) = msgs
    BY <1>3 DEF LastOf
  <2> QED
    BY <1>1, <1>3, <2>1
<1> QED
  BY <1>2, <1>3

----------------------------------------------------------------------------
(* The conversation is always one that can be had                           *)

\* A request is under way only if the client or its tools have said something,
\* and what was forwarded is what the router makes of it.
TurnsInv ==
  /\ ConversationTypeOK
  /\ turns \in Seq(TurnSet) /\ InTurn(turns)
  /\ phase \in {"classifying", "classified", "model"} => turns # << >> /\ Latest.by # "model"
  /\ (phase = "model" /\ api = "anthropic") =>
        forwarded.messages = StripPriorThinkingBlocks(Messages)

LEMMA NothingSaid == << >> \in Seq(TurnSet) /\ InTurn(<< >>) /\ Len(<< >>) = 0
<1>1. << >> \in Seq(TurnSet) /\ Len(<< >>) = 0 /\ \A i \in 1..0 : FALSE
  OBVIOUS
<1> QED
  BY ONLY <1>1 DEF InTurn

LEMMA TurnsBegin ==
  ASSUME ConversationInit
  PROVE  TurnsInv
<1>1. /\ api \in {"anthropic", "openai"} /\ system \in System
      /\ turns = << >> /\ window = << >> /\ phase = "client" /\ verdict = ""
      /\ forwarded = NotYet
  BY DEF ConversationInit
<1>2. mute \in BOOLEAN
  BY DEF ConversationInit
<1>3. gone \in BOOLEAN
  BY DEF ConversationInit
<1>4. WindowSize \in Nat /\ MaxTurns \in Nat
  BY BoundAssumption
<1>5. NotYet.thinking \in BOOLEAN
  BY DEF NotYet
<1>6. Len(turns) <= MaxTurns /\ Len(window) <= WindowSize
  <2>1. Len(<< >>) = 0
    OBVIOUS
  <2>2. turns = << >> /\ window = << >>
    BY <1>1
  <2> QED
    BY ONLY <1>4, <2>1, <2>2
<1>7. ConversationTypeOK
  <2>1. /\ phase \in {"client", "classifying", "classified", "model", "failed"}
        /\ verdict \in Outcomes \cup {""}
    BY <1>1
  <2>2. forwarded.thinking \in BOOLEAN
    BY <1>1, <1>5
  <2> QED
    BY ONLY <1>1, <1>2, <1>3, <1>6, <2>1, <2>2, Zenon DEF ConversationTypeOK
<1>8. turns \in Seq(TurnSet) /\ InTurn(turns)
  BY <1>1, NothingSaid
<1> QED
  BY ONLY <1>1, <1>7, <1>8 DEF TurnsInv

\* A request arrives.
LEMMA SendKeeps ==
  ASSUME TurnsInv, MaySpeak, NEW t \in TurnSet, Send(t), t.by # "model",
         t.by = "tools" <=> (Latest.by = "model" /\ Latest.calls # << >>),
         t.by = "tools" => ToSet(t.calls) = ToSet(Latest.calls)
  PROVE  TurnsInv'
<1>1. /\ turns \in Seq(TurnSet) /\ InTurn(turns) /\ Latest = LastTurn(turns)
      /\ turns' = Append(turns, t)
  BY DEF TurnsInv, Latest, LastTurn, Send
<1>2. Append(turns, t) \in Seq(TurnSet) /\ InTurn(Append(turns, t))
  BY <1>1, InTurnAppend
<1>3. /\ Append(turns, t) # << >> /\ Len(Append(turns, t)) = Len(turns) + 1
      /\ Append(turns, t)[Len(Append(turns, t))] = t
  BY <1>1
<1>4. Latest'.by # "model"
  BY <1>1, <1>3 DEF Latest
<1>5. Len(turns') <= MaxTurns
  <2>1. Len(turns) \in Nat /\ Len(turns) < MaxTurns /\ MaxTurns \in Nat
    BY <1>1, BoundAssumption DEF MaySpeak
  <2> QED
    BY <1>1, <1>3, <2>1
<1>6. Len(window') <= WindowSize
  <2> DEFINE said == Append(turns, t)
             msgs == IF api = "anthropic"
                     THEN AnthropicMessagesToChat(system, MessagesOf(said)) ELSE ChatsOf(said)
  <2>1. window' = LastOf(msgs)
    BY DEF Send
  <2>2. said \in Seq(TurnSet) /\ system \in System
    BY <1>2 DEF TurnsInv, ConversationTypeOK
  <2> HIDE DEF said
  <2>3. \E T : msgs \in Seq(T)
    BY <2>2, FlattenedClassified, ChatsType
  <2> HIDE DEF msgs
  <2> QED
    BY <2>1, <2>3, WindowBounded
<1>7. /\ api' = api /\ system' = system /\ mute' = mute /\ gone' = gone /\ verdict' = verdict
      /\ forwarded' = forwarded /\ phase' = "classifying"
  BY DEF Send
<1>8. ConversationTypeOK'
  BY <1>5, <1>6, <1>7 DEF TurnsInv, ConversationTypeOK
<1> QED
  BY <1>1, <1>2, <1>3, <1>4, <1>7, <1>8 DEF TurnsInv

LEMMA UserSaysKeeps ==
  ASSUME TurnsInv, NEW c \in UserTurn, UserSays(c)
  PROVE  TurnsInv'
<1> PICK t : t = Turn("user", c, << >>, << >>)
  OBVIOUS
<1>1. t \in TurnSet /\ t.by = "user"
  BY UserTurnType
<1>2. Send(t) /\ MaySpeak /\ Pending = {}
  BY DEF UserSays
<1>3. ~(Latest.by = "model" /\ Latest.calls # << >>)
  <2> SUFFICES ASSUME Latest.by = "model", Latest.calls # << >>
               PROVE  FALSE
    OBVIOUS
  <2>1. turns # << >>
    BY DEF Latest, Nobody, Turn
  <2>2. turns \in Seq(TurnSet)
    BY DEF TurnsInv
  <2>3. Latest \in TurnSet
    BY <2>1, <2>2 DEF Latest
  <2>4. Latest.calls \in Seq(Nat) /\ ToSet(Latest.calls) = {}
    BY <1>2, <2>3, TurnFields DEF Pending
  <2> QED
    BY <2>4, SetOfSeq
<1> QED
  BY <1>1, <1>2, <1>3, SendKeeps

LEMMA ToolsReturnKeeps ==
  ASSUME TurnsInv, NEW c \in Comment, NEW order \in SetToSeqs(Pending), ToolsReturn(order, c)
  PROVE  TurnsInv'
<1>1. MaySpeak /\ Pending # {} /\ ToSet(order) = Pending /\ Send(Turn("tools", c, << >>, order))
  BY DEF ToolsReturn
<1>2. Latest.by = "model" /\ Pending = ToSet(Latest.calls)
  BY <1>1 DEF Pending
<1>3. Latest.calls \in Seq(Nat)
  <2>1. turns # << >>
    BY <1>2 DEF Latest, Nobody, Turn
  <2>2. turns \in Seq(TurnSet)
    BY DEF TurnsInv
  <2>3. Latest \in TurnSet
    BY <2>1, <2>2 DEF Latest
  <2> QED
    BY <2>3, TurnFields
<1>4. /\ Cardinality(Pending) \in Nat /\ Pending \subseteq Nat /\ Latest.calls # << >>
  BY <1>1, <1>2, <1>3, SetOfSeq
<1>5. order \in [1..Cardinality(Pending) -> Pending]
  BY DEF SetToSeqs
<1>6. order \in [1..Cardinality(Pending) -> Nat]
  BY <1>4, <1>5
<1>7. order \in Seq(Nat)
  BY <1>4, <1>6, FunctionIsSeq
<1>8. order # << >>
  BY <1>1, <1>7, SetOfSeq
<1> PICK t : t = Turn("tools", c, << >>, order)
  OBVIOUS
<1>9. t \in TurnSet /\ t.by = "tools" /\ t.calls = order
  BY <1>7, <1>8, ToolsTurnType
<1> QED
  BY <1>1, <1>2, <1>4, <1>9, SendKeeps

LEMMA ModelAnswersKeeps ==
  ASSUME TurnsInv, NEW m \in ModelTurn, ModelAnswers(m)
  PROVE  TurnsInv'
<1> PICK calls : calls = [i \in 1..m.calls |-> 10 * Len(turns) + i]
  OBVIOUS
<1> PICK c : c = IF m.text = << >> THEN Empty ELSE Array(<< Text(m.text) >>)
  OBVIOUS
<1> PICK t : t = Turn("model", c, m.reasoning, calls)
  OBVIOUS
<1>1. /\ turns \in Seq(TurnSet) /\ InTurn(turns) /\ Len(turns) \in Nat
      /\ Latest = LastTurn(turns)
  BY DEF TurnsInv, Latest, LastTurn
<1>2. calls \in Seq(Nat)
  <2>1. m.calls \in Nat
    BY ModelAssumption
  <2>2. \A i \in 1..m.calls : 10 * Len(turns) + i \in Nat
    BY <1>1, <2>1
  <2>3. calls \in [1..m.calls -> Nat]
    BY <2>2
  <2> QED
    BY <2>1, <2>3, FunctionIsSeq
<1>3. t \in TurnSet /\ t.by = "model"
  BY <1>2, ModelTurnType
<1>4. turns # << >> /\ Latest.by # "model"
  BY DEF TurnsInv, ModelAnswers
<1>5. /\ turns' = Append(turns, t) /\ phase' = "client" /\ window' = << >> /\ verdict' = ""
      /\ forwarded' = NotYet /\ api' = api /\ system' = system /\ mute' = mute /\ gone' = gone
      /\ Len(turns) < MaxTurns
  BY DEF ModelAnswers
<1>6. Append(turns, t) \in Seq(TurnSet) /\ InTurn(Append(turns, t))
  BY <1>1, <1>3, <1>4, InTurnAppend
<1>7. Len(turns') <= MaxTurns /\ Len(window') <= WindowSize
  <2>1. MaxTurns \in Nat /\ WindowSize \in Nat /\ Len(<< >>) = 0
    BY BoundAssumption
  <2>2. Len(Append(turns, t)) = Len(turns) + 1 /\ Len(turns) \in Nat
    BY <1>1
  <2>3. turns' = Append(turns, t) /\ Len(turns) < MaxTurns
    BY <1>5
  <2>4. window' = << >>
    BY <1>5
  <2>5. Len(turns') <= MaxTurns
    BY ONLY <2>1, <2>2, <2>3
  <2>6. Len(window') <= WindowSize
    BY ONLY <2>1, <2>4
  <2> QED
    BY <2>5, <2>6
<1>8. NotYet.thinking \in BOOLEAN
  BY DEF NotYet
<1>9. ConversationTypeOK'
  BY <1>5, <1>7, <1>8 DEF TurnsInv, ConversationTypeOK
<1> QED
  BY <1>5, <1>6, <1>9 DEF TurnsInv

LEMMA ClassifyKeeps ==
  ASSUME TurnsInv, NEW outcome \in Outcomes, Classify(outcome)
  PROVE  TurnsInv'
<1>1. /\ client' = client /\ mute' = mute /\ gone' = gone /\ window' = window
      /\ forwarded' = forwarded /\ phase' = "classified" /\ verdict' = outcome
      /\ phase = "classifying"
  BY DEF Classify
<1>2. api' = api /\ system' = system /\ turns' = turns /\ Latest' = Latest
  BY <1>1 DEF client, Latest
<1>3. ConversationTypeOK'
  BY <1>1, <1>2 DEF TurnsInv, ConversationTypeOK
<1> QED
  BY <1>1, <1>2, <1>3 DEF TurnsInv

LEMMA ForwardKeeps ==
  ASSUME TurnsInv, Forward
  PROVE  TurnsInv'
<1>1. /\ client' = client /\ mute' = mute /\ gone' = gone /\ window' = window
      /\ verdict' = verdict /\ phase' \in {"failed", "model"} /\ phase = "classified"
      /\ forwarded' =
           [messages |-> IF api = "anthropic" THEN StripPriorThinkingBlocks(Messages) ELSE Chats,
            thinking |-> Thinks(verdict)]
  BY DEF Forward
<1>2. api' = api /\ system' = system /\ turns' = turns /\ Latest' = Latest /\ Messages' = Messages
  BY <1>1 DEF client, Latest, Messages
<1>3. Thinks(verdict) \in BOOLEAN
  BY DEF Thinks
<1>4. /\ forwarded'.thinking \in BOOLEAN
      /\ api = "anthropic" => forwarded'.messages = StripPriorThinkingBlocks(Messages)
  BY <1>1, <1>3
<1>5. ConversationTypeOK'
  BY <1>1, <1>2, <1>4 DEF TurnsInv, ConversationTypeOK
<1>6. ((phase = "model" /\ api = "anthropic") =>
         forwarded.messages = StripPriorThinkingBlocks(Messages))'
  BY <1>2, <1>4
<1> QED
  BY <1>1, <1>2, <1>5, <1>6 DEF TurnsInv

LEMMA DisconnectKeeps ==
  ASSUME TurnsInv, Disconnect
  PROVE  TurnsInv'
<1>1. /\ client' = client /\ mute' = mute /\ gone' = TRUE /\ window' = window
      /\ forwarded' = forwarded /\ phase' = phase /\ verdict' = verdict
  BY DEF Disconnect
<1>2. /\ api' = api /\ system' = system /\ turns' = turns /\ Latest' = Latest
      /\ Messages' = Messages
  BY <1>1 DEF client, Latest, Messages
<1>3. ConversationTypeOK'
  BY <1>1, <1>2 DEF TurnsInv, ConversationTypeOK
<1> QED
  BY <1>1, <1>2, <1>3 DEF TurnsInv

LEMMA TurnsKept ==
  ASSUME TurnsInv, [ConversationNext]_conversationVars
  PROVE  TurnsInv'
<1>1. ASSUME NEW c \in UserTurn, UserSays(c) PROVE TurnsInv'
  BY <1>1, UserSaysKeeps
<1>2. ASSUME NEW c \in Comment, NEW order \in SetToSeqs(Pending), ToolsReturn(order, c)
      PROVE  TurnsInv'
  BY <1>2, ToolsReturnKeeps
<1>3. ASSUME NEW outcome \in Outcomes, Classify(outcome) PROVE TurnsInv'
  BY <1>3, ClassifyKeeps
<1>4. CASE Forward
  BY <1>4, ForwardKeeps
<1>5. CASE Disconnect
  BY <1>5, DisconnectKeeps
<1>6. ASSUME NEW m \in ModelTurn, ModelAnswers(m) PROVE TurnsInv'
  BY <1>6, ModelAnswersKeeps
<1>7. CASE UNCHANGED conversationVars
  <2>1. /\ client' = client /\ mute' = mute /\ gone' = gone /\ window' = window
        /\ forwarded' = forwarded /\ phase' = phase /\ verdict' = verdict
    BY <1>7 DEF conversationVars
  <2>2. /\ api' = api /\ system' = system /\ turns' = turns /\ Latest' = Latest
        /\ Messages' = Messages
    BY <2>1 DEF client, Latest, Messages
  <2>3. ConversationTypeOK'
    BY <2>1, <2>2 DEF TurnsInv, ConversationTypeOK
  <2> QED
    BY <2>1, <2>2, <2>3 DEF TurnsInv
<1> QED
  BY <1>1, <1>2, <1>3, <1>4, <1>5, <1>6, <1>7 DEF ConversationNext

LEMMA TurnsAlways == ConversationSpec => []TurnsInv
<1>1. ConversationInit => TurnsInv
  BY TurnsBegin
<1>2. TurnsInv /\ [ConversationNext]_conversationVars => TurnsInv'
  BY TurnsKept
<1> QED
  BY <1>1, <1>2, PTL DEF ConversationSpec

----------------------------------------------------------------------------
(* What the router forwards                                                 *)

\* The blocks of all messages.
BlocksTaker == [m \in MessageSet |-> m.content.blocks]
LEMMA AllBlocksTaken ==
  /\ IsMap(BlocksTaker, MessageSet, Seq(BlockSet))
  /\ \A msgs \in Seq(MessageSet) : /\ AllBlocks(msgs) = Gathered(BlocksTaker, msgs)
                                   /\ AllBlocks(msgs) \in Seq(BlockSet)
<1>1. IsMap(BlocksTaker, MessageSet, Seq(BlockSet))
  BY DEF IsMap, BlocksTaker, MessageSet, ContentSet
<1>2. ASSUME NEW msgs \in Seq(MessageSet)
      PROVE  AllBlocks(msgs) = Gathered(BlocksTaker, msgs) /\ AllBlocks(msgs) \in Seq(BlockSet)
  <2>1. \A i \in DOMAIN msgs : msgs[i] \in MessageSet
    OBVIOUS
  <2>2. Mapped(BlocksTaker, msgs) = [i \in DOMAIN msgs |-> msgs[i].content.blocks]
    BY <2>1 DEF Mapped, BlocksTaker
  <2>3. Gathered(BlocksTaker, msgs) \in Seq(BlockSet)
    BY <1>1, GatherType
  <2> QED
    BY <2>2, <2>3 DEF Gathered, AllBlocks
<1> QED
  BY <1>1, <1>2

OthersOfMessage(types) == [m \in MessageSet |-> OtherThan(m.content.blocks, types)]
LEMMA OthersOfAll ==
  ASSUME NEW msgs \in Seq(MessageSet), NEW types
  PROVE  OtherThan(AllBlocks(msgs), types) = Gathered(OthersOfMessage(types), msgs)
<1> PICK k : k = OthersOfMessage(types)
  OBVIOUS
<1> PICK g : g = OtherTaker(types)
  OBVIOUS
<1>1. IsMap(BlocksTaker, MessageSet, Seq(BlockSet)) /\ IsMap(g, BlockSet, Seq(BlockSet))
  BY AllBlocksTaken, Takers
<1>2. \A m \in MessageSet : k[m] = Gathered(g, BlocksTaker[m])
  <2> TAKE m \in MessageSet
  <2>1. m.content.blocks \in Seq(BlockSet) /\ BlocksTaker[m] = m.content.blocks
    BY DEF MessageSet, ContentSet, BlocksTaker
  <2>2. OtherThan(m.content.blocks, types) = Gathered(g, m.content.blocks)
    BY <2>1, Taken
  <2> QED
    BY <2>1, <2>2 DEF OthersOfMessage
<1>3. Gathered(g, Gathered(BlocksTaker, msgs)) = Gathered(k, msgs)
  BY <1>1, <1>2, GatherTwice
<1>4. AllBlocks(msgs) = Gathered(BlocksTaker, msgs) /\ AllBlocks(msgs) \in Seq(BlockSet)
  BY AllBlocksTaken
<1>5. OtherThan(AllBlocks(msgs), types) = Gathered(g, AllBlocks(msgs))
  BY <1>4, Taken
<1> QED
  BY <1>3, <1>4, <1>5

LEMMA OtherMembers ==
  ASSUME NEW s \in Seq(BlockSet), NEW types
  PROVE  /\ \A i \in 1..Len(OtherThan(s, types)) : OtherThan(s, types)[i].type \notin types
         /\ OtherThan(OtherThan(s, types), types) = OtherThan(s, types)
<1> DEFINE P == {b \in BlockSet : b.type \notin types}
<1>1. ASSUME NEW b \in BlockSet
      PROVE  When(b.type \notin types, b) \in Seq(P)
  <2>1. CASE b.type \in types
    BY <2>1 DEF When
  <2>2. CASE b.type \notin types
    <3>1. b \in P
      BY <2>2
    <3> HIDE DEF P
    <3>2. << b >> \in Seq(P)
      BY <3>1
    <3> QED
      BY <2>2, <3>2 DEF When
  <2> QED
    BY <2>1, <2>2
<1>2. IsMap(OtherTaker(types), BlockSet, Seq(P))
  BY <1>1 DEF IsMap, OtherTaker
<1> PICK o : o = OtherThan(s, types)
  OBVIOUS
<1>3. o \in Seq(P)
  <2> HIDE DEF P
  <2> QED
    BY <1>2, GatherType, Taken
<1>4. \A i \in 1..Len(o) : o[i].type \notin types
  <2> TAKE i \in 1..Len(o)
  <2>1. o[i] \in P
    BY <1>3
  <2> QED
    BY <2>1
<1>5. o \in Seq(BlockSet)
  BY TakenType
<1> HIDE DEF P
<1>6. OtherThan(o, types) = o
  BY <1>4, <1>5, OthersTaken
<1> QED
  BY <1>4, <1>6

\* No reasoning is in what the client says.
LEMMA ClientHasNoThinking ==
  ASSUME NEW t \in TurnSet, t.by # "model"
  PROVE  OfType(AsAnthropic(t).content.blocks, "thinking") = << >>
<1> PICK b : b = t.content.blocks
  OBVIOUS
<1> PICK r : r = ResultsOf(t.calls)
  OBVIOUS
<1>1. b \in Seq(BlockSet) /\ \A k \in 1..Len(b) : b[k].type \in {"text", "image"}
  BY TurnFields
<1>2. OfType(b, "thinking") = << >>
  <2>1. \A k \in 1..Len(b) : b[k].type # "thinking"
    BY <1>1
  <2> QED
    BY <1>1, <2>1, NoneTaken
<1>3. r \in Seq(BlockSet) /\ OfType(r, "thinking") = << >>
  <2>1. /\ t.calls \in Seq(Nat) /\ r \in Seq(BlockSet) /\ Len(r) = Len(t.calls)
        /\ \A k \in 1..Len(t.calls) : r[k] = ToolResult(t.calls[k], << "result" >>)
    BY TurnFields, CallTypes
  <2>3. \A id, x : ToolResult(id, x).type = "tool_result"
    BY DEF ToolResult, Block
  <2>2. \A k \in 1..Len(r) : r[k].type # "thinking"
    BY <2>1, <2>3
  <2> QED
    BY <2>1, <2>2, NoneTaken
<1>4. OfType(r \o b, "thinking") = << >> \o << >>
  <2>1. OfType(r \o b, "thinking") = OfType(r, "thinking") \o OfType(b, "thinking")
    <3>1. r \in Seq(BlockSet) /\ b \in Seq(BlockSet)
      BY <1>1, <1>3
    <3> QED
      BY ONLY <3>1, JoinedTwo
  <2> QED
    BY ONLY <1>2, <1>3, <2>1
<1>5. /\ t.by \in {"user", "tools"}
      /\ t.by = "user" => AsAnthropic(t) = Message("user", t.content)
      /\ t.by = "tools" => AsAnthropic(t) = Message("user", Array(r \o b))
  BY TurnFields, AnthropicTurn
<1>6. t.by = "user" => AsAnthropic(t).content.blocks = b
  BY <1>5 DEF Message
<1>7. t.by = "tools" => AsAnthropic(t).content.blocks = r \o b
  <2>1. \A x : Message("user", Array(x)).content.blocks = x
    BY DEF Message, Array
  <2> QED
    BY <1>5, <2>1
<1>8. << >> \o << >> = << >>
  OBVIOUS
<1> QED
  BY <1>2, <1>4, <1>5, <1>6, <1>7, <1>8

\* Reasoning is taken out of a message, and nothing else.
Stripped(m) == [m EXCEPT !.content.blocks = OtherThan(@, ThinkingTypes)]
LEMMA StripOne ==
  ASSUME NEW m \in MessageSet
  PROVE  /\ Stripped(m) \in MessageSet
         /\ Stripped(m).content.blocks = OtherThan(m.content.blocks, ThinkingTypes)
         /\ OtherThan(Stripped(m).content.blocks, ThinkingTypes)
              = OtherThan(m.content.blocks, ThinkingTypes)
         /\ OfType(Stripped(m).content.blocks, "thinking") = << >>
<1> PICK o : o = OtherThan(m.content.blocks, ThinkingTypes)
  OBVIOUS
<1>1. m.content.blocks \in Seq(BlockSet) /\ m.content \in ContentSet
  BY DEF MessageSet, ContentSet
<1>2. /\ o \in Seq(BlockSet) /\ OtherThan(o, ThinkingTypes) = o
      /\ \A i \in 1..Len(o) : o[i].type \notin ThinkingTypes
  BY <1>1, TakenType, OtherMembers
<1>3. OfType(o, "thinking") = << >>
  <2>1. \A i \in 1..Len(o) : o[i].type # "thinking"
    BY <1>2 DEF ThinkingTypes
  <2> QED
    BY <1>2, <2>1, NoneTaken
<1>4. Stripped(m).content.blocks = o /\ Stripped(m) \in MessageSet
  BY <1>1, <1>2 DEF Stripped, MessageSet, ContentSet
<1> QED
  BY <1>2, <1>3, <1>4

LEMMA RouterStrips ==
  ASSUME NEW said \in Seq(TurnSet),
         NEW last, last = Max({0} \cup {i \in DOMAIN said : said[i].by = "model"}),
         NEW M, M = MessagesOf(said), NEW S, S = StripPriorThinkingBlocks(M)
  PROVE  /\ OtherThan(AllBlocks(S), ThinkingTypes) = OtherThan(AllBlocks(M), ThinkingTypes)
         /\ \A i \in DOMAIN M :
              OfType(S[i].content.blocks, "thinking") =
                IF i = last THEN OfType(M[i].content.blocks, "thinking") ELSE << >>
<1> PICK n \in Nat : n = Len(said)
  OBVIOUS
<1>1. /\ M \in Seq(MessageSet) /\ Len(M) = n /\ DOMAIN M = 1..n /\ DOMAIN said = 1..n
      /\ \A i \in 1..n : M[i] = AsAnthropic(said[i]) /\ said[i] \in TurnSet /\ M[i] \in MessageSet
  <2>1. /\ M \in Seq(MessageSet) /\ Len(M) = n /\ DOMAIN M = 1..n
        /\ \A i \in 1..n : M[i] = AsAnthropic(said[i]) /\ said[i] \in TurnSet
    BY MessagesType
  <2>2. \A i \in 1..n : M[i] \in MessageSet
    BY <2>1, MemberType
  <2> QED
    BY <2>1, <2>2
<1>2. \A i \in 1..n : M[i].role = "assistant" <=> said[i].by = "model"
  BY <1>1, AnthropicTurn
<1>3. last = LastAssistant(M)
  <2>1. {i \in DOMAIN said : said[i].by = "model"} = {i \in DOMAIN M : M[i].role = "assistant"}
    BY <1>1, <1>2
  <2> QED
    BY <2>1 DEF LastAssistant
<1>4. /\ DOMAIN S = 1..n
      /\ \A i \in 1..n :
           S[i] = IF M[i].role # "assistant" \/ i = last \/ M[i].content.string
                  THEN M[i] ELSE Stripped(M[i])
  BY <1>1, <1>3 DEF StripPriorThinkingBlocks, Stripped
<1>5. ASSUME NEW i \in 1..n
      PROVE  /\ S[i] \in MessageSet
             /\ OtherThan(S[i].content.blocks, ThinkingTypes)
                  = OtherThan(M[i].content.blocks, ThinkingTypes)
             /\ OfType(S[i].content.blocks, "thinking") =
                  IF i = last THEN OfType(M[i].content.blocks, "thinking") ELSE << >>
  <2>1. CASE said[i].by # "model"
    <3>1. S[i] = M[i] /\ OfType(M[i].content.blocks, "thinking") = << >>
      BY <1>1, <1>2, <1>4, <2>1, ClientHasNoThinking
    <3> QED
      BY <1>1, <3>1
  <2>2. CASE said[i].by = "model" /\ i = last
    <3>1. S[i] = M[i]
      BY <1>4, <2>2
    <3> QED
      BY <1>1, <2>2, <3>1
  <2>3. CASE said[i].by = "model" /\ i # last
    <3>1. ~M[i].content.string
      <4>1. M[i] = Message("assistant", Array((Reasoned(said[i]) \o said[i].content.blocks)
                                                \o Uses(said[i].calls)))
        BY <1>1, <2>3, AnthropicTurn
      <4> QED
        BY <4>1 DEF Message, Array
    <3>2. S[i] = Stripped(M[i])
      BY <1>2, <1>4, <2>3, <3>1
    <3> QED
      BY <1>1, <2>3, <3>2, StripOne
  <2> QED
    BY <2>1, <2>2, <2>3
<1>6. S \in Seq(MessageSet)
  <2>1. S = [i \in 1..n |-> S[i]]
    BY <1>4 DEF StripPriorThinkingBlocks
  <2>2. S \in [1..n -> MessageSet]
    BY <1>5, <2>1
  <2> QED
    BY <2>2, FunctionIsSeq
<1>7. OtherThan(AllBlocks(S), ThinkingTypes) = OtherThan(AllBlocks(M), ThinkingTypes)
  <2> PICK k : k = OthersOfMessage(ThinkingTypes)
    OBVIOUS
  <2>1. \A m \in MessageSet : k[m] = OtherThan(m.content.blocks, ThinkingTypes)
    BY DEF OthersOfMessage
  <2>2. \A i \in DOMAIN S : k[S[i]] = k[M[i]]
    BY <1>1, <1>4, <1>5, <2>1
  <2>3. Gathered(k, S) = Gathered(k, M)
    BY <1>1, <1>4, <2>2, GatherSame
  <2> QED
    BY <1>1, <1>6, <2>3, OthersOfAll
<1> QED
  BY <1>1, <1>5, <1>7

\* Of the model's reasoning the router forwards that of its last message alone,
\* and everything else as it is (stripPriorThinkingBlocks).
THEOREM RouterAlwaysKeepsLatest == ConversationSpec => []RouterKeepsLatest
<1>1. ASSUME TurnsInv
      PROVE  RouterKeepsLatest
  <2> SUFFICES ASSUME phase = "model", api = "anthropic"
               PROVE  LET last == Max({0} \cup {i \in DOMAIN turns : turns[i].by = "model"}) IN
                      /\ OtherThan(AllBlocks(forwarded.messages), ThinkingTypes) =
                           OtherThan(AllBlocks(Messages), ThinkingTypes)
                      /\ \A i \in DOMAIN Messages :
                           OfType(forwarded.messages[i].content.blocks, "thinking") =
                             IF i = last THEN OfType(Messages[i].content.blocks, "thinking") ELSE << >>
    BY DEF RouterKeepsLatest
  <2>1. /\ turns \in Seq(TurnSet) /\ Messages = MessagesOf(turns)
        /\ forwarded.messages = StripPriorThinkingBlocks(Messages)
    BY <1>1 DEF TurnsInv, Messages
  <2> PICK last : last = Max({0} \cup {i \in DOMAIN turns : turns[i].by = "model"})
    OBVIOUS
  <2> PICK S : S = forwarded.messages
    OBVIOUS
  <2>2. /\ OtherThan(AllBlocks(S), ThinkingTypes) = OtherThan(AllBlocks(Messages), ThinkingTypes)
        /\ \A i \in DOMAIN Messages :
             OfType(S[i].content.blocks, "thinking") =
               IF i = last THEN OfType(Messages[i].content.blocks, "thinking") ELSE << >>
    BY <2>1, RouterStrips
  <2> QED
    BY <2>2
<1> QED
  BY <1>1, TurnsAlways, PTL

----------------------------------------------------------------------------
(* A turn in the log                                                        *)

LEMMA TextOfString ==
  ASSUME NEW t \in Seq(AnyPart)
  PROVE  TextOf(String(t)) = t
<1>1. String(t).blocks = << Text(t) >> /\ Text(t) \in BlockSet
  BY StringType, BlockTypes
<1>2. Text(t).type = "text" /\ Text(t).text = t
  BY DEF Text, Block
<1>3. JoinOf(<< Text(t) >>, "text") = t
  BY <1>1, <1>2, TakenOfOne
<1> QED
  BY <1>1, <1>3 DEF TextOf

Logged(c) == When(c.role # "user" \/ TextOf(c.content) # << >>, [c EXCEPT !.content = TextOf(@)])
LoggedSet == [role : {"system", "user", "assistant", "tool"}, content : Seq(AnyPart),
              reasoning : Seq(AnyPart), calls : Seq(Nat), answers : Nat]
LoggedTaker == [c \in ChatSet |-> Logged(c)]

LEMMA LoggedTakes ==
  /\ IsMap(LoggedTaker, ChatSet, Seq(LoggedSet))
  /\ \A chats \in Seq(ChatSet) : InLog(chats) = Gathered(LoggedTaker, chats)
<1>1. ASSUME NEW c \in ChatSet
      PROVE  Logged(c) \in Seq(LoggedSet)
  <2> PICK l : l = [c EXCEPT !.content = TextOf(@)]
    OBVIOUS
  <2>1. TextOf(c.content) \in Seq(AnyPart)
    BY TextType DEF ChatSet
  <2>2. l \in LoggedSet
    BY <2>1 DEF ChatSet, LoggedSet
  <2>3. << l >> \in Seq(LoggedSet) /\ << >> \in Seq(LoggedSet)
    BY <2>2
  <2> QED
    BY <2>3 DEF Logged, When
<1>2. IsMap(LoggedTaker, ChatSet, Seq(LoggedSet))
  BY <1>1 DEF IsMap, LoggedTaker
<1>3. ASSUME NEW chats \in Seq(ChatSet)
      PROVE  InLog(chats) = Gathered(LoggedTaker, chats)
  <2>1. \A i \in DOMAIN chats : chats[i] \in ChatSet
    OBVIOUS
  <2>2. Mapped(LoggedTaker, chats) = [i \in DOMAIN chats |-> Logged(chats[i])]
    BY <2>1 DEF Mapped, LoggedTaker
  <2> QED
    BY <2>2 DEF Gathered, InLog, Logged
<1> QED
  BY <1>2, <1>3

LEMMA InLogJoins ==
  ASSUME NEW a \in Seq(ChatSet), NEW b \in Seq(ChatSet), NEW c \in ChatSet
  PROVE  /\ InLog(a \o b) = InLog(a) \o InLog(b)
         /\ InLog(a) \in Seq(LoggedSet)
         /\ InLog(<< c >>) = Logged(c) /\ InLog(<< >>) = << >>
<1>1. IsMap(LoggedTaker, ChatSet, Seq(LoggedSet))
  BY LoggedTakes
<1>2. a \o b \in Seq(ChatSet) /\ << c >> \in Seq(ChatSet) /\ << >> \in Seq(ChatSet)
  OBVIOUS
<1>3. Gathered(LoggedTaker, a \o b) = Gathered(LoggedTaker, a) \o Gathered(LoggedTaker, b)
  BY <1>1, GatherJoin
<1>4. Gathered(LoggedTaker, a) \in Seq(LoggedSet)
  BY <1>1, GatherType
<1>5. Gathered(LoggedTaker, << c >>) = Logged(c)
  BY <1>1, GatherOne DEF LoggedTaker
<1> QED
  BY <1>2, <1>3, <1>4, <1>5, GatherNothing, LoggedTakes

LEMMA InLogSaid ==
  ASSUME NEW role \in {"system", "user"}, NEW c \in ContentSet
  PROVE  InLog(<< Said(role, c) >>) =
           When(role # "user" \/ TextOf(c) # << >>, Chat(role, TextOf(c), << >>, << >>, 0))
<1>1. Said(role, c) \in ChatSet
  BY SaidType
<1>2. InLog(<< Said(role, c) >>) = Logged(Said(role, c))
  <2>1. << >> \in Seq(ChatSet)
    OBVIOUS
  <2> QED
    BY <1>1, <2>1, InLogJoins
<1>3. /\ Said(role, c).role = role /\ Said(role, c).content = c
      /\ [Said(role, c) EXCEPT !.content = TextOf(@)] = Chat(role, TextOf(c), << >>, << >>, 0)
  BY DEF Said, Chat
<1> QED
  BY <1>2, <1>3 DEF Logged

\* The blocks of a turn of tools, and of one of the model.
LEMMA OfResults ==
  ASSUME NEW calls \in Seq(Nat)
  PROVE  /\ OfType(ResultsOf(calls), "tool_result") = ResultsOf(calls)
         /\ JoinOf(ResultsOf(calls), "text") = << >>
         /\ IdsOf(Uses(calls), "tool_use") = calls
         /\ JoinOf(Uses(calls), "text") = << >> /\ JoinOf(Uses(calls), "thinking") = << >>
<1> PICK r : r = ResultsOf(calls)
  OBVIOUS
<1> PICK u : u = Uses(calls)
  OBVIOUS
<1>1. /\ r \in Seq(BlockSet) /\ Len(r) = Len(calls) /\ u \in Seq(BlockSet) /\ Len(u) = Len(calls)
      /\ \A i \in 1..Len(calls) :
           /\ calls[i] \in Nat /\ r[i] = ToolResult(calls[i], << "result" >>)
           /\ u[i] = ToolUse(calls[i])
  BY CallTypes
<1>2. \A id, t : ToolResult(id, t).type = "tool_result" /\ ToolUse(id).type = "tool_use"
                 /\ ToolUse(id).id = id
  BY DEF ToolResult, ToolUse, Block
<1>3. /\ \A i \in 1..Len(r) : r[i].type = "tool_result"
      /\ \A i \in 1..Len(u) : u[i].type = "tool_use" /\ u[i].id = calls[i]
  BY <1>1, <1>2
<1>4. OfType(r, "tool_result") = r
  BY <1>1, <1>3, AllTaken
<1>5. JoinOf(r, "text") = << >>
  <2>1. \A i \in 1..Len(r) : r[i].type # "text"
    BY <1>3
  <2> QED
    BY <1>1, <2>1, NoneTaken
<1>6. JoinOf(u, "text") = << >> /\ JoinOf(u, "thinking") = << >>
  <2>1. \A i \in 1..Len(u) : u[i].type # "text" /\ u[i].type # "thinking"
    BY <1>3
  <2> QED
    BY <1>1, <2>1, NoneTaken
<1>7. IdsOf(u, "tool_use") = calls
  <2> PICK g : g = IdTaker("tool_use")
    OBVIOUS
  <2> PICK Numbers : Numbers = Nat
    OBVIOUS
  <2> PICK h : h = [id \in Numbers |-> << id >>]
    OBVIOUS
  <2>1. \A i \in 1..Len(u) : u[i] \in BlockSet
    BY <1>1
  <2>2. DOMAIN u = 1..Len(u) /\ DOMAIN calls = 1..Len(calls) /\ Len(u) = Len(calls)
    BY <1>1
  <2>3. \A i \in DOMAIN u : g[u[i]] = h[calls[i]]
    BY <1>1, <1>3, <2>1, <2>2 DEF IdTaker, When
  <2>4. Gathered(g, u) = Gathered(h, calls)
    BY ONLY <2>2, <2>3, GatherSame
  <2>5. /\ calls \in Seq(Numbers) /\ IsMap(h, Numbers, Seq(Numbers))
        /\ \A i \in 1..Len(calls) : h[calls[i]] = << calls[i] >>
    BY <1>1 DEF IsMap
  <2>6. Gathered(h, calls) = calls
    BY ONLY <2>5, GatherAll
  <2>7. IdsOf(u, "tool_use") = Gathered(g, u)
    BY <1>1, Taken
  <2> QED
    BY <2>4, <2>6, <2>7
<1> QED
  BY <1>4, <1>5, <1>6, <1>7

\* The log of a message is a sequence of messages of the log.
Answered(results) == [i \in DOMAIN results |-> Answer(results[i].id, String(results[i].text))]
TextSaid(text) == IF text = << >> THEN << >> ELSE << Said("user", String(text)) >>

LEMMA AnsweredType ==
  ASSUME NEW results \in Seq(BlockSet)
  PROVE  Answered(results) \in Seq(ChatSet) /\ Len(Answered(results)) = Len(results)
<1>1. DOMAIN results = 1..Len(results) /\ Len(results) \in Nat
  OBVIOUS
<1>2. \A i \in 1..Len(results) : Answer(results[i].id, String(results[i].text)) \in ChatSet
  <2> TAKE i \in 1..Len(results)
  <2>1. results[i] \in BlockSet
    BY MemberType
  <2>2. results[i].text \in Seq(AnyPart) /\ results[i].id \in Nat
    BY <2>1 DEF BlockSet
  <2>3. String(results[i].text) \in ContentSet
    BY <2>2, StringType
  <2>4. << >> \in Seq(AnyPart) /\ << >> \in Seq(Nat)
    OBVIOUS
  <2> QED
    BY <2>2, <2>3, <2>4 DEF Answer, Chat, ChatSet
<1>3. Answered(results) \in [1..Len(results) -> ChatSet]
  BY <1>1, <1>2 DEF Answered
<1> QED
  BY <1>1, <1>3, FunctionIsSeq

LEMMA TextSaidLogged ==
  ASSUME NEW text \in Seq(AnyPart)
  PROVE  /\ TextSaid(text) \in Seq(ChatSet)
         /\ InLog(TextSaid(text)) = When(text # << >>, Chat("user", text, << >>, << >>, 0))
<1>1. String(text) \in ContentSet /\ TextOf(String(text)) = text
  BY StringType, TextOfString
<1>2. Said("user", String(text)) \in ChatSet
  BY <1>1, SaidType
<1>3. InLog(<< Said("user", String(text)) >>) = When(text # << >>, Chat("user", text, << >>, << >>, 0))
  BY <1>1, InLogSaid
<1>4. InLog(<< >>) = << >>
  <2>1. << >> \in Seq(ChatSet)
    OBVIOUS
  <2> QED
    BY <1>2, <2>1, InLogJoins
<1>5. TextSaid(text) \in Seq(ChatSet)
  BY <1>2 DEF TextSaid
<1>6. CASE text = << >>
  BY <1>4, <1>5, <1>6 DEF TextSaid, When
<1>7. CASE text # << >>
  BY <1>3, <1>5, <1>7 DEF TextSaid
<1> QED
  BY <1>6, <1>7

LEMMA LogUserIs ==
  ASSUME NEW blocks \in Seq(BlockSet)
  PROVE  /\ LogUser(blocks) = Answered(OfType(blocks, "tool_result")) \o TextSaid(JoinOf(blocks, "text"))
         /\ LogUser(blocks) \in Seq(ChatSet)
<1>1. OfType(blocks, "tool_result") \in Seq(BlockSet) /\ JoinOf(blocks, "text") \in Seq(AnyPart)
  BY TakenType
<1>2. Answered(OfType(blocks, "tool_result")) \in Seq(ChatSet)
  BY <1>1, AnsweredType
<1>3. TextSaid(JoinOf(blocks, "text")) \in Seq(ChatSet)
  BY <1>1, TextSaidLogged
<1>4. LogUser(blocks) = Answered(OfType(blocks, "tool_result")) \o TextSaid(JoinOf(blocks, "text"))
  BY DEF LogUser, Answered, TextSaid
<1>5. Answered(OfType(blocks, "tool_result")) \o TextSaid(JoinOf(blocks, "text")) \in Seq(ChatSet)
  BY <1>2, <1>3
<1> QED
  BY <1>4, <1>5

LEMMA LogMessageType ==
  ASSUME NEW m \in MessageSet
  PROVE  LogMessage(m) \in Seq(ChatSet)
<1>1. m.role \in {"system", "user", "assistant", "tool"} /\ m.content \in ContentSet
  BY DEF MessageSet
<1>2. m.content.blocks \in Seq(BlockSet)
  BY <1>1 DEF ContentSet
<1>3. << Said(m.role, m.content) >> \in Seq(ChatSet)
  BY <1>1, SaidType
<1>4. LogUser(m.content.blocks) \in Seq(ChatSet)
  BY <1>2, LogUserIs
<1>5. LogAssistant(m.content.blocks) \in Seq(ChatSet)
  <2>1. /\ JoinOf(m.content.blocks, "text") \in Seq(AnyPart)
        /\ JoinOf(m.content.blocks, "thinking") \in Seq(AnyPart)
        /\ IdsOf(m.content.blocks, "tool_use") \in Seq(Nat)
    BY <1>2, TakenType
  <2>2. String(JoinOf(m.content.blocks, "text")) \in ContentSet
    BY <2>1, StringType
  <2> QED
    BY <2>1, <2>2 DEF LogAssistant, Chat, ChatSet
<1> QED
  BY <1>3, <1>4, <1>5 DEF LogMessage

\* A turn of the user is logged alike in both formats.
LEMMA UserLogged ==
  ASSUME NEW t \in TurnSet, t.by = "user"
  PROVE  InLog(LogMessage(AsAnthropic(t))) = InLog(AsOpenAI(t))
<1> PICK c : c = t.content
  OBVIOUS
<1>1. /\ AsAnthropic(t) = Message("user", c) /\ AsOpenAI(t) = << Said("user", c) >>
      /\ c \in ContentSet /\ c.blocks \in Seq(BlockSet)
      /\ \A k \in 1..Len(c.blocks) : c.blocks[k].type \in {"text", "image"}
  BY AnthropicTurn, OpenAITurn, TurnFields
<1>2. Message("user", c).content = c /\ Message("user", c).role = "user"
  BY DEF Message
<1>3. CASE c.string
  BY <1>1, <1>2, <1>3 DEF LogMessage
<1>4. CASE ~c.string
  <2>1. LogMessage(Message("user", c)) = LogUser(c.blocks)
    BY <1>2, <1>4 DEF LogMessage
  <2>2. OfType(c.blocks, "tool_result") = << >>
    <3>1. \A k \in 1..Len(c.blocks) : c.blocks[k].type # "tool_result"
      BY <1>1
    <3> QED
      BY <1>1, <3>1, NoneTaken
  <2> PICK text : text = JoinOf(c.blocks, "text")
    OBVIOUS
  <2>3. text \in Seq(AnyPart) /\ text = TextOf(c)
    BY <1>1, TakenType DEF TextOf
  <2>4. LogUser(c.blocks) = Answered(<< >>) \o TextSaid(text)
    BY <1>1, <2>2, LogUserIs
  <2>5. Answered(<< >>) = << >> /\ TextSaid(text) \in Seq(ChatSet)
    BY <2>3, TextSaidLogged DEF Answered
  <2>6. << >> \o TextSaid(text) = TextSaid(text)
    BY <2>5
  <2>7. InLog(TextSaid(text)) = When(text # << >>, Chat("user", text, << >>, << >>, 0))
    BY <2>3, TextSaidLogged
  <2>8. InLog(<< Said("user", c) >>) = When(text # << >>, Chat("user", text, << >>, << >>, 0))
    BY <1>1, <2>3, InLogSaid
  <2> QED
    BY <1>1, <2>1, <2>4, <2>5, <2>6, <2>7, <2>8
<1> QED
  BY <1>3, <1>4

\* A turn of tools too: the results are answers, and the client's comment
\* comes after them.
LEMMA ResultsAnswered ==
  ASSUME NEW calls \in Seq(Nat)
  PROVE  Answered(ResultsOf(calls)) = Answers(calls)
<1> PICK r : r = ResultsOf(calls)
  OBVIOUS
<1>1. r \in Seq(BlockSet) /\ Len(r) = Len(calls) /\ DOMAIN r = 1..Len(r) /\ DOMAIN calls = 1..Len(calls)
  BY CallTypes
<1>2. \A i \in 1..Len(calls) : r[i] = ToolResult(calls[i], << "result" >>)
  BY CallTypes
<1>3. \A id, x : ToolResult(id, x).id = id /\ ToolResult(id, x).text = x
  BY DEF ToolResult, Block
<1>4. \A i \in 1..Len(calls) : r[i].id = calls[i] /\ r[i].text = << "result" >>
  BY <1>2, <1>3
<1> QED
  BY <1>1, <1>4 DEF Answered, Answers

LEMMA ToolsLogged ==
  ASSUME NEW t \in TurnSet, t.by = "tools"
  PROVE  InLog(LogMessage(AsAnthropic(t))) = InLog(AsOpenAI(t))
<1> PICK b : b = t.content.blocks
  OBVIOUS
<1> PICK r : r = ResultsOf(t.calls)
  OBVIOUS
<1> PICK a : a = Answers(t.calls)
  OBVIOUS
<1> PICK text : text = JoinOf(b, "text")
  OBVIOUS
<1>1. /\ b \in Seq(BlockSet) /\ r \in Seq(BlockSet) /\ a \in Seq(ChatSet)
      /\ t.content \in ContentSet /\ t.calls \in Seq(Nat)
      /\ \A k \in 1..Len(b) : b[k].type \in {"text", "image"}
  BY TurnFields, CallTypes
<1>2. /\ AsAnthropic(t) = Message("user", Array(r \o b)) /\ r \o b \in Seq(BlockSet)
      /\ AsOpenAI(t) = a \o Commented(t) /\ Commented(t) \in Seq(ChatSet)
  BY AnthropicTurn, OpenAITurn
<1>3. text \in Seq(AnyPart) /\ text = TextOf(t.content)
  BY <1>1, TakenType DEF TextOf
<1>4. LogMessage(Message("user", Array(r \o b))) = LogUser(r \o b)
  <2>1. /\ Message("user", Array(r \o b)).content = Array(r \o b)
        /\ Message("user", Array(r \o b)).role = "user"
        /\ Array(r \o b).blocks = r \o b /\ ~Array(r \o b).string
    BY DEF Message, Array
  <2> QED
    BY <2>1 DEF LogMessage
<1>5. OfType(r \o b, "tool_result") = r
  <2>1. OfType(r \o b, "tool_result") = OfType(r, "tool_result") \o OfType(b, "tool_result")
    <3>1. r \in Seq(BlockSet) /\ b \in Seq(BlockSet)
      BY <1>1
    <3> QED
      BY ONLY <3>1, JoinedTwo
  <2>2. OfType(r, "tool_result") = r
    BY <1>1, OfResults
  <2>3. OfType(b, "tool_result") = << >>
    <3>1. \A k \in 1..Len(b) : b[k].type # "tool_result"
      BY <1>1
    <3> QED
      BY <1>1, <3>1, NoneTaken
  <2>4. r \o << >> = r
    BY <1>1
  <2> QED
    BY <2>1, <2>2, <2>3, <2>4
<1>6. JoinOf(r \o b, "text") = text
  <2>1. JoinOf(r \o b, "text") = JoinOf(r, "text") \o JoinOf(b, "text")
    <3>1. r \in Seq(BlockSet) /\ b \in Seq(BlockSet)
      BY <1>1
    <3> QED
      BY ONLY <3>1, JoinedTwo
  <2>2. JoinOf(r, "text") = << >>
    BY <1>1, OfResults
  <2>3. << >> \o text = text
    BY <1>3
  <2> QED
    BY <2>1, <2>2, <2>3
<1>7. LogUser(r \o b) = a \o TextSaid(text)
  <2>1. Answered(r) = a
    BY <1>1, ResultsAnswered
  <2> QED
    BY <1>2, <1>5, <1>6, <2>1, LogUserIs
<1>8. InLog(TextSaid(text)) = When(text # << >>, Chat("user", text, << >>, << >>, 0))
  BY <1>3, TextSaidLogged
<1>9. InLog(Commented(t)) = When(text # << >>, Chat("user", text, << >>, << >>, 0))
  <2>1. CASE b = << >>
    <3>1. text = << >>
      BY <2>1, TakenOfNothing
    <3>2. Commented(t) = << >>
      BY <2>1 DEF Commented
    <3>3. InLog(<< >>) = << >>
      <4>1. Said("user", t.content) \in ChatSet
        BY <1>1, SaidType
      <4> QED
        BY <1>1, <4>1, InLogJoins
    <3> QED
      BY <3>1, <3>2, <3>3 DEF When
  <2>2. CASE b # << >>
    <3>1. Commented(t) = << Said("user", t.content) >>
      BY <2>2 DEF Commented
    <3> QED
      BY <1>1, <1>3, <3>1, InLogSaid
  <2> QED
    BY <2>1, <2>2
<1>10. TextSaid(text) \in Seq(ChatSet) /\ Said("user", t.content) \in ChatSet
  BY <1>1, <1>3, TextSaidLogged, SaidType
<1>11. /\ InLog(a \o TextSaid(text)) = InLog(a) \o InLog(TextSaid(text))
       /\ InLog(a \o Commented(t)) = InLog(a) \o InLog(Commented(t))
  BY ONLY <1>1, <1>2, <1>10, InLogJoins
<1> QED
  BY <1>2, <1>4, <1>7, <1>8, <1>9, <1>11

\* What the model said is one message, with its text, reasoning and calls.
LEMMA ModelLogged ==
  ASSUME NEW t \in TurnSet, t.by = "model"
  PROVE  LogMessage(AsAnthropic(t)) = AsOpenAI(t)
<1> PICK b : b = t.content.blocks
  OBVIOUS
<1> PICK u : u = Uses(t.calls)
  OBVIOUS
<1> PICK r : r = Reasoned(t)
  OBVIOUS
<1> PICK s : s = (r \o b) \o u
  OBVIOUS
<1>1. /\ b \in Seq(BlockSet) /\ r \in Seq(BlockSet) /\ u \in Seq(BlockSet)
      /\ t.content \in ContentSet /\ t.calls \in Seq(Nat) /\ t.reasoning \in Seq(AnyPart)
      /\ \A k \in 1..Len(b) : b[k].type = "text"
      /\ \A k \in 1..Len(r) : r[k].type = "thinking"
  BY TurnFields, CallTypes, ReasonedType
<1>2. /\ AsAnthropic(t) = Message("assistant", Array(s)) /\ AsOpenAI(t) = << Spoken(t) >>
      /\ s \in Seq(BlockSet) /\ r \o b \in Seq(BlockSet)
  BY <1>1, AnthropicTurn, OpenAITurn
<1>3. LogMessage(Message("assistant", Array(s))) = LogAssistant(s)
  <2>1. /\ Message("assistant", Array(s)).content = Array(s)
        /\ Message("assistant", Array(s)).role = "assistant"
        /\ Array(s).blocks = s /\ ~Array(s).string
    BY DEF Message, Array
  <2> QED
    BY <2>1 DEF LogMessage
<1>4. /\ JoinOf(s, "text") = (JoinOf(r, "text") \o JoinOf(b, "text")) \o JoinOf(u, "text")
      /\ JoinOf(s, "thinking") = (JoinOf(r, "thinking") \o JoinOf(b, "thinking")) \o JoinOf(u, "thinking")
      /\ IdsOf(s, "tool_use") = (IdsOf(r, "tool_use") \o IdsOf(b, "tool_use")) \o IdsOf(u, "tool_use")
  <2> PICK d : d = r \o b
    OBVIOUS
  <2>1. d = r \o b /\ s = d \o u
    OBVIOUS
  <2>2. d \in Seq(BlockSet)
    BY <1>2
  <2>3. u \in Seq(BlockSet)
    BY <1>1
  <2>13. r \in Seq(BlockSet) /\ b \in Seq(BlockSet)
    BY <1>1
  <2>4. JoinOf(r \o b, "text") = JoinOf(r, "text") \o JoinOf(b, "text")
    BY ONLY <2>13, JoinedTwo
  <2>5. JoinOf(r \o b, "thinking") = JoinOf(r, "thinking") \o JoinOf(b, "thinking")
    BY ONLY <2>13, JoinedTwo
  <2>6. IdsOf(r \o b, "tool_use") = IdsOf(r, "tool_use") \o IdsOf(b, "tool_use")
    BY ONLY <2>13, JoinedTwo
  <2>7. JoinOf(d \o u, "text") = JoinOf(d, "text") \o JoinOf(u, "text")
    BY ONLY <2>2, <2>3, JoinedTwo
  <2>8. JoinOf(d \o u, "thinking") = JoinOf(d, "thinking") \o JoinOf(u, "thinking")
    BY ONLY <2>2, <2>3, JoinedTwo
  <2>9. IdsOf(d \o u, "tool_use") = IdsOf(d, "tool_use") \o IdsOf(u, "tool_use")
    BY ONLY <2>2, <2>3, JoinedTwo
  <2>10. JoinOf(s, "text") = (JoinOf(r, "text") \o JoinOf(b, "text")) \o JoinOf(u, "text")
    BY ONLY <2>1, <2>4, <2>7, Zenon
  <2>11. JoinOf(s, "thinking") = (JoinOf(r, "thinking") \o JoinOf(b, "thinking")) \o JoinOf(u, "thinking")
    BY ONLY <2>1, <2>5, <2>8, Zenon
  <2>12. IdsOf(s, "tool_use") = (IdsOf(r, "tool_use") \o IdsOf(b, "tool_use")) \o IdsOf(u, "tool_use")
    BY ONLY <2>1, <2>6, <2>9, Zenon
  <2> QED
    BY ONLY <2>10, <2>11, <2>12
<1>5. JoinOf(r, "text") = << >> /\ IdsOf(r, "tool_use") = << >>
  <2>1. \A k \in 1..Len(r) : r[k].type # "text" /\ r[k].type # "tool_use"
    BY <1>1
  <2> QED
    BY <1>1, <2>1, NoneTaken
<1>6. JoinOf(b, "thinking") = << >> /\ IdsOf(b, "tool_use") = << >>
  <2>1. \A k \in 1..Len(b) : b[k].type # "thinking" /\ b[k].type # "tool_use"
    BY <1>1
  <2> QED
    BY <1>1, <2>1, NoneTaken
<1>7. /\ JoinOf(u, "text") = << >> /\ JoinOf(u, "thinking") = << >>
      /\ IdsOf(u, "tool_use") = t.calls
  BY <1>1, OfResults
<1>8. JoinOf(r, "thinking") = t.reasoning
  <2>1. CASE t.reasoning = << >>
    BY <2>1, TakenOfNothing DEF Reasoned
  <2>2. CASE t.reasoning # << >>
    <3>1. /\ Thinking(t.reasoning) \in BlockSet /\ Thinking(t.reasoning).type = "thinking"
          /\ Thinking(t.reasoning).text = t.reasoning
      BY <1>1, BlockTypes DEF Thinking, Block
    <3> PICK x : x = Thinking(t.reasoning)
      OBVIOUS
    <3>2. r = << x >>
      BY <2>2 DEF Reasoned
    <3>3. JoinOf(<< x >>, "thinking") = IF x.type = "thinking" THEN x.text ELSE << >>
      BY <3>1, TakenOfOne
    <3> QED
      BY <3>1, <3>2, <3>3
  <2> QED
    BY <2>1, <2>2
<1>9. JoinOf(b, "text") = TextOf(t.content) /\ TextOf(t.content) \in Seq(AnyPart)
  BY <1>1, TextType DEF TextOf
<1>10. /\ (<< >> \o TextOf(t.content)) \o << >> = TextOf(t.content)
       /\ (t.reasoning \o << >>) \o << >> = t.reasoning
       /\ (<< >> \o << >>) \o t.calls = t.calls
  BY <1>1, <1>9
<1>11. JoinOf(s, "text") = TextOf(t.content)
  BY <1>4, <1>5, <1>7, <1>9, <1>10
<1>12. JoinOf(s, "thinking") = t.reasoning
  BY <1>4, <1>6, <1>7, <1>8, <1>10
<1>13. IdsOf(s, "tool_use") = t.calls
  BY <1>4, <1>5, <1>6, <1>7, <1>10
<1> QED
  BY <1>2, <1>3, <1>11, <1>12, <1>13 DEF LogAssistant, Spoken

LEMMA TurnLogged ==
  ASSUME NEW t \in TurnSet
  PROVE  InLog(LogMessage(AsAnthropic(t))) = InLog(AsOpenAI(t))
<1>1. t.by \in {"user", "tools", "model"}
  BY TurnFields
<1> QED
  BY <1>1, UserLogged, ToolsLogged, ModelLogged

\* The log of a conversation, turn by turn.
LogTaker == [m \in MessageSet |-> LogMessage(m)]
TurnLogTaker == [t \in TurnSet |-> LogMessage(AsAnthropic(t))]

LEMMA LogTakes ==
  /\ IsMap(LogTaker, MessageSet, Seq(ChatSet)) /\ IsMap(TurnLogTaker, TurnSet, Seq(ChatSet))
  /\ \A msgs \in Seq(MessageSet) :
       FlattenSeq([i \in DOMAIN msgs |-> LogMessage(msgs[i])]) = Gathered(LogTaker, msgs)
<1>1. IsMap(LogTaker, MessageSet, Seq(ChatSet))
  BY LogMessageType DEF IsMap, LogTaker
<1>2. IsMap(TurnLogTaker, TurnSet, Seq(ChatSet))
  BY AnthropicTurn, LogMessageType DEF IsMap, TurnLogTaker
<1>3. ASSUME NEW msgs \in Seq(MessageSet)
      PROVE  FlattenSeq([i \in DOMAIN msgs |-> LogMessage(msgs[i])]) = Gathered(LogTaker, msgs)
  <2>1. \A i \in DOMAIN msgs : msgs[i] \in MessageSet
    OBVIOUS
  <2>2. Mapped(LogTaker, msgs) = [i \in DOMAIN msgs |-> LogMessage(msgs[i])]
    BY <2>1 DEF Mapped, LogTaker
  <2> QED
    BY <2>2 DEF Gathered
<1> QED
  BY <1>1, <1>2, <1>3

LEMMA LogOfTurns ==
  ASSUME NEW said \in Seq(TurnSet)
  PROVE  /\ Gathered(LogTaker, MessagesOf(said)) = Gathered(TurnLogTaker, said)
         /\ Gathered(TurnLogTaker, said) \in Seq(ChatSet)
<1>1. /\ DOMAIN MessagesOf(said) = DOMAIN said
      /\ \A i \in DOMAIN said : MessagesOf(said)[i] = AsAnthropic(said[i]) /\ said[i] \in TurnSet
  BY DEF MessagesOf
<1>2. \A i \in DOMAIN said : LogTaker[MessagesOf(said)[i]] = TurnLogTaker[said[i]]
  BY <1>1, AnthropicTurn DEF LogTaker, TurnLogTaker
<1>3. Gathered(LogTaker, MessagesOf(said)) = Gathered(TurnLogTaker, said)
  BY <1>1, <1>2, GatherSame
<1> QED
  BY <1>3, LogTakes, GatherType

LEMMA SystemLogged ==
  ASSUME system \in System
  PROVE  /\ InLog(SystemMessage(system)) = InLog(SystemSaid)
         /\ SystemMessage(system) \in Seq(ChatSet)
<1>1. system \in ContentSet /\ TextOf(system) \in Seq(AnyPart)
  BY SystemType
<1>2. String(TextOf(system)) \in ContentSet /\ TextOf(String(TextOf(system))) = TextOf(system)
  BY <1>1, StringType, TextOfString
<1>3. InLog(<< Said("system", system) >>) = When(TRUE, Chat("system", TextOf(system), << >>, << >>, 0))
  BY <1>1, InLogSaid
<1>4. InLog(<< Said("system", String(TextOf(system))) >>)
        = When(TRUE, Chat("system", TextOf(system), << >>, << >>, 0))
  BY <1>2, InLogSaid
<1>5. << Said("system", String(TextOf(system))) >> \in Seq(ChatSet) /\ << >> \in Seq(ChatSet)
  BY <1>2, SaidType
<1> QED
  BY <1>3, <1>4, <1>5 DEF SystemMessage, SystemSaid

\* The same conversation is logged alike in both formats.
LEMMA LoggedAlike ==
  ASSUME NEW said \in Seq(TurnSet), system \in System
  PROVE  InLog(ParseAnthropicMessages(system, MessagesOf(said))) = InLog(ChatsOf(said))
<1> PICK k : k = [t \in TurnSet |-> InLog(AsOpenAI(t))]
  OBVIOUS
<1> PICK a : a = Gathered(TurnLogTaker, said)
  OBVIOUS
<1> PICK o : o = Gathered(OpenAITaker, said)
  OBVIOUS
<1>1. IsMap(TurnLogTaker, TurnSet, Seq(ChatSet)) /\ IsMap(LoggedTaker, ChatSet, Seq(LoggedSet))
  BY LogTakes, LoggedTakes
<1>2. IsMap(OpenAITaker, TurnSet, Seq(ChatSet))
  BY OpenAITakes
<1>3. a \in Seq(ChatSet) /\ o \in Seq(ChatSet)
  BY LogOfTurns, OpenAITakes
<1>4. \A t \in TurnSet : k[t] = Gathered(LoggedTaker, TurnLogTaker[t])
  <2> TAKE t \in TurnSet
  <2>1. TurnLogTaker[t] = LogMessage(AsAnthropic(t)) /\ TurnLogTaker[t] \in Seq(ChatSet)
    BY <1>1 DEF TurnLogTaker, IsMap
  <2>2. InLog(TurnLogTaker[t]) = Gathered(LoggedTaker, TurnLogTaker[t])
    BY <2>1, LoggedTakes
  <2> QED
    BY <2>1, <2>2, TurnLogged
<1>5. \A t \in TurnSet : k[t] = Gathered(LoggedTaker, OpenAITaker[t])
  <2> TAKE t \in TurnSet
  <2>1. OpenAITaker[t] = AsOpenAI(t) /\ OpenAITaker[t] \in Seq(ChatSet)
    BY <1>2 DEF OpenAITaker, IsMap
  <2>2. InLog(OpenAITaker[t]) = Gathered(LoggedTaker, OpenAITaker[t])
    BY <2>1, LoggedTakes
  <2> QED
    BY <2>1, <2>2
<1>6. Gathered(LoggedTaker, a) = Gathered(k, said)
  BY <1>1, <1>4, GatherTwice
<1>7. Gathered(LoggedTaker, o) = Gathered(k, said)
  BY <1>1, <1>2, <1>5, GatherTwice
<1>8. InLog(a) = InLog(o)
  BY <1>3, <1>6, <1>7, LoggedTakes
<1>9. ParseAnthropicMessages(system, MessagesOf(said)) = SystemMessage(system) \o a
  BY MessagesType, LogTakes, LogOfTurns DEF ParseAnthropicMessages
<1>10. ChatsOf(said) = SystemSaid \o o /\ SystemSaid \in Seq(ChatSet)
  BY ChatsType
<1>11. SystemMessage(system) \in Seq(ChatSet) /\ InLog(SystemMessage(system)) = InLog(SystemSaid)
  BY SystemLogged
<1>12. ASSUME NEW x \in Seq(ChatSet), NEW y \in Seq(ChatSet)
       PROVE  InLog(x \o y) = InLog(x) \o InLog(y)
  <2>1. \E c : c \in ChatSet
    <3>1. Empty \in ContentSet
      BY DEF Empty, Array, ContentSet
    <3> QED
      BY <3>1, SaidType
  <2> QED
    BY <2>1, InLogJoins
<1>13. InLog(SystemMessage(system) \o a) = InLog(SystemMessage(system)) \o InLog(a)
  BY <1>3, <1>11, <1>12
<1>14. InLog(SystemSaid \o o) = InLog(SystemSaid) \o InLog(o)
  BY <1>3, <1>10, <1>12
<1> QED
  BY <1>8, <1>9, <1>10, <1>11, <1>13, <1>14

----------------------------------------------------------------------------
(* From request to request                                                  *)

\* What a text with one part more is, and the blocks it is among.
AddedAt(a, s, i, part) ==
  /\ a \in Seq(BlockSet) /\ Len(a) = Len(s)
  /\ a[i] = [s[i] EXCEPT !.text = Append(@, part)]
  /\ \A k \in 1..Len(s) : k # i => a[k] = s[k]

LEMMA AddAtIs ==
  ASSUME NEW s \in Seq(BlockSet), NEW i \in 1..Len(s), NEW part \in AnyPart,
         NEW a, a = AddAt(s, i, part)
  PROVE  AddedAt(a, s, i, part)
<1> PICK x : x = [s[i] EXCEPT !.text = Append(@, part)]
  OBVIOUS
<1>1. s[i] \in BlockSet
  OBVIOUS
<1>2. s[i].text \in Seq(AnyPart)
  BY <1>1 DEF BlockSet
<1>3. Append(s[i].text, part) \in Seq(AnyPart)
  BY <1>2
<1>4. x \in BlockSet
  BY <1>1, <1>3 DEF BlockSet
<1>5. AddAt(s, i, part) = [s EXCEPT ![i] = x]
  BY DEF AddAt
<1>6. s \in Seq(BlockSet) /\ i \in 1..Len(s) /\ x \in BlockSet
  BY <1>4
<1>7. /\ [s EXCEPT ![i] = x] \in Seq(BlockSet) /\ Len([s EXCEPT ![i] = x]) = Len(s)
      /\ \A k \in 1..Len(s) : [s EXCEPT ![i] = x][k] = IF k = i THEN x ELSE s[k]
  BY ONLY <1>6, ExceptSeq
<1> QED
  BY ONLY <1>5, <1>6, <1>7, a = AddAt(s, i, part), x = [s[i] EXCEPT !.text = Append(@, part)]
     DEF AddedAt

LEMMA PositionsIn ==
  ASSUME NEW s \in Seq(BlockSet), NEW type
  PROVE  Positions(s, type) # {} => Max(Positions(s, type)) \in 1..Len(s)
                                    /\ s[Max(Positions(s, type))].type = type
<1>1. DOMAIN s = 1..Len(s) /\ Len(s) \in Nat
  OBVIOUS
<1>2. Positions(s, type) \in SUBSET (1..Len(s))
  BY <1>1 DEF Positions
<1>3. Positions(s, type) # {} => Max(Positions(s, type)) \in Positions(s, type)
  BY <1>1, <1>2, MaxOfPositions
<1> QED
  BY <1>1, <1>2, <1>3 DEF Positions

LEMMA AddToLastType ==
  ASSUME NEW s \in Seq(BlockSet), NEW type, NEW part \in AnyPart
  PROVE  AddToLast(s, type, part) \in Seq(BlockSet)
<1>1. CASE Positions(s, type) = {}
  <2>1. << part >> \in Seq(AnyPart)
    OBVIOUS
  <2>2. Text(<< part >>) \in BlockSet
    BY <2>1, BlockTypes
  <2>3. Append(s, Text(<< part >>)) \in Seq(BlockSet)
    BY <2>2
  <2> QED
    BY <1>1, <2>3 DEF AddToLast
<1>2. CASE Positions(s, type) # {}
  <2>1. AddAt(s, Max(Positions(s, type)), part) \in Seq(BlockSet)
    BY <1>2, PositionsIn, AddAtIs DEF AddedAt
  <2> QED
    BY <1>2, <2>1 DEF AddToLast
<1> QED
  BY <1>1, <1>2

LEMMA WithBlocks ==
  ASSUME NEW c \in ContentSet, NEW s \in Seq(BlockSet)
  PROVE  /\ [c EXCEPT !.blocks = s] \in ContentSet
         /\ [c EXCEPT !.blocks = s].blocks = s /\ [c EXCEPT !.blocks = s].string = c.string
BY DEF ContentSet

LEMMA MessageWith ==
  ASSUME NEW m \in MessageSet, NEW s \in Seq(BlockSet)
  PROVE  /\ [m EXCEPT !.content.blocks = s] \in MessageSet
         /\ [m EXCEPT !.content.blocks = s].content = [m.content EXCEPT !.blocks = s]
         /\ [m EXCEPT !.content.blocks = s].role = m.role
<1> PICK c : c = [m.content EXCEPT !.blocks = s]
  OBVIOUS
<1>1. m.content \in ContentSet
  BY DEF MessageSet
<1>2. c \in ContentSet
  BY <1>1, WithBlocks
<1>3. [m EXCEPT !.content.blocks = s] = [m EXCEPT !.content = c]
  OBVIOUS
<1>4. [m EXCEPT !.content = c] \in MessageSet /\ [m EXCEPT !.content = c].content = c
      /\ [m EXCEPT !.content = c].role = m.role
  BY <1>2 DEF MessageSet
<1> QED
  BY <1>3, <1>4

\* A message with the reminder in it.
RemindedBlocks(m) ==
  IF m.content.string THEN AddAt(m.content.blocks, 1, Reminder)
  ELSE IF Positions(m.content.blocks, "tool_result") # {}
       THEN AddToLast(m.content.blocks, "tool_result", Reminder)
       ELSE Append(m.content.blocks, Text(<< Reminder >>))
Reminded(m) == IF m.role = "user" THEN RemindUser(m) ELSE m

LEMMA RemindedType ==
  ASSUME NEW m \in MessageSet, m.content.string => 1 \in 1..Len(m.content.blocks)
  PROVE  /\ RemindedBlocks(m) \in Seq(BlockSet)
         /\ RemindUser(m) = [m EXCEPT !.content.blocks = RemindedBlocks(m)]
         /\ Reminded(m) \in MessageSet /\ Reminded(m).role = m.role
<1> PICK s : s = m.content.blocks
  OBVIOUS
<1>1. m.content \in ContentSet /\ s \in Seq(BlockSet)
  BY DEF MessageSet, ContentSet
<1>2. Reminder \in AnyPart
  BY PartsAreAny
<1>3. m.content.string => AddAt(s, 1, Reminder) \in Seq(BlockSet)
  BY <1>1, <1>2, AddAtIs DEF AddedAt
<1>4. AddToLast(s, "tool_result", Reminder) \in Seq(BlockSet)
  BY <1>1, <1>2, AddToLastType
<1>5. Append(s, Text(<< Reminder >>)) \in Seq(BlockSet)
  <2>1. << Reminder >> \in Seq(AnyPart)
    BY <1>2
  <2>2. Text(<< Reminder >>) \in BlockSet
    BY <2>1, BlockTypes
  <2> QED
    BY <1>1, <2>2
<1>6. RemindedBlocks(m) \in Seq(BlockSet)
  BY <1>3, <1>4, <1>5 DEF RemindedBlocks
<1>7. RemindUser(m) = [m EXCEPT !.content.blocks = RemindedBlocks(m)]
  BY DEF RemindUser, RemindedBlocks
<1>8. [m EXCEPT !.content.blocks = RemindedBlocks(m)] \in MessageSet
      /\ [m EXCEPT !.content.blocks = RemindedBlocks(m)].role = m.role
  BY <1>6, MessageWith
<1> QED
  BY <1>6, <1>7, <1>8 DEF Reminded

LEMMA TurnReminded ==
  ASSUME NEW t \in TurnSet
  PROVE  Reminded(AsAnthropic(t)) \in MessageSet
<1>1. AsAnthropic(t) \in MessageSet
  BY AnthropicTurn
<1>2. AsAnthropic(t).content.string => 1 \in 1..Len(AsAnthropic(t).content.blocks)
  <2>1. \A role, c : Message(role, c).content = c
    BY DEF Message
  <2>2. \A s : ~Array(s).string
    BY DEF Array
  <2>3. t.by \in {"user", "tools", "model"} /\ (t.content.string => Len(t.content.blocks) = 1)
    BY TurnFields
  <2>4. CASE t.by = "user"
    <3>1. AsAnthropic(t).content = t.content
      BY <2>1, <2>4, AnthropicTurn
    <3> QED
      BY <2>3, <3>1
  <2>5. CASE t.by # "user"
    BY <2>1, <2>2, <2>3, <2>5, AnthropicTurn
  <2> QED
    BY <2>4, <2>5
<1> QED
  BY <1>1, <1>2, RemindedType

LEMMA SplitInTwo ==
  ASSUME NEW T, NEW s \in Seq(T), NEW n \in 1..Len(s)
  PROVE  /\ SubSeq(s, 1, n) \in Seq(T) /\ SubSeq(s, n + 1, Len(s)) \in Seq(T)
         /\ s = SubSeq(s, 1, n) \o SubSeq(s, n + 1, Len(s))
         /\ Len(SubSeq(s, 1, n)) = n /\ \A i \in 1..n : SubSeq(s, 1, n)[i] = s[i]
         /\ Len(SubSeq(s, n + 1, Len(s))) = Len(s) - n
         /\ n < Len(s) => SubSeq(s, n + 1, Len(s))[1] = s[n + 1]
<1> PICK m \in Nat : m = Len(s)
  OBVIOUS
<1> PICK a : a = SubSeq(s, 1, n)
  OBVIOUS
<1> PICK b : b = SubSeq(s, n + 1, m)
  OBVIOUS
<1>1. a \in Seq(T) /\ Len(a) = n /\ \A i \in 1..n : a[i] = s[i]
  OBVIOUS
<1>2. b \in Seq(T) /\ Len(b) = m - n /\ \A i \in 1..(m - n) : b[i] = s[n + i]
  OBVIOUS
<1> PICK c : c = a \o b
  OBVIOUS
<1>3. /\ c \in Seq(T) /\ Len(c) = m
      /\ \A i \in 1..n : c[i] = a[i]
      /\ \A i \in (n + 1)..m : c[i] = b[i - n]
  BY <1>1, <1>2
<1>4. \A i \in 1..m : c[i] = s[i]
  <2> TAKE i \in 1..m
  <2>1. CASE i \in 1..n
    BY <1>1, <1>3, <2>1
  <2>2. CASE i \notin 1..n
    <3>1. i \in (n + 1)..m /\ i - n \in 1..(m - n) /\ n + (i - n) = i
      BY <2>2
    <3> QED
      BY <1>2, <1>3, <3>1
  <2> QED
    BY <2>1, <2>2
<1>5. s = c
  BY <1>3, <1>4, SameSequence
<1>6. n < m => b[1] = s[n + 1]
  BY <1>2
<1> QED
  BY <1>1, <1>2, <1>5, <1>6

LEMMA PrefixByMembers ==
  ASSUME NEW T, NEW s \in Seq(T), NEW t \in Seq(T), Len(s) <= Len(t),
         \A i \in 1..Len(s) : s[i] = t[i]
  PROVE  IsPrefix(s, t)
<1> PICK n \in Nat : n = Len(s)
  OBVIOUS
<1> PICK a : a = SubSeq(s, 1, n)
  OBVIOUS
<1> PICK b : b = SubSeq(t, 1, n)
  OBVIOUS
<1>1. a \in Seq(T) /\ Len(a) = n /\ \A i \in 1..n : a[i] = s[i]
  OBVIOUS
<1>2. b \in Seq(T) /\ Len(b) = n /\ \A i \in 1..n : b[i] = t[i]
  OBVIOUS
<1>3. a = b
  BY <1>1, <1>2, SameSequence
<1> QED
  BY <1>3 DEF IsPrefix

\* The Anthropic log, reminders and all, turn by turn.
RemindedTaker == [t \in TurnSet |-> LogMessage(Reminded(AsAnthropic(t)))]

LEMMA AnthropicLogIs ==
  ASSUME NEW said \in Seq(TurnSet)
  PROVE  /\ AnthropicLog(said)
              = SystemMessage(InjectAnthropicSystem(system)) \o Gathered(RemindedTaker, said)
         /\ IsMap(RemindedTaker, TurnSet, Seq(ChatSet))
<1> PICK msgs : msgs = MessagesOf(said)
  OBVIOUS
<1> PICK sent : sent = RemindAnthropic(msgs)
  OBVIOUS
<1>1. IsMap(RemindedTaker, TurnSet, Seq(ChatSet))
  BY TurnReminded, LogMessageType DEF IsMap, RemindedTaker
<1>2. /\ DOMAIN msgs = DOMAIN said
      /\ \A i \in DOMAIN said : msgs[i] = AsAnthropic(said[i]) /\ said[i] \in TurnSet
  BY DEF MessagesOf
<1>3. /\ DOMAIN sent = DOMAIN said
      /\ \A i \in DOMAIN said : sent[i] = Reminded(AsAnthropic(said[i]))
  BY <1>2 DEF RemindAnthropic, Reminded
<1>4. [i \in DOMAIN sent |-> LogMessage(sent[i])] = Mapped(RemindedTaker, said)
  BY <1>2, <1>3 DEF Mapped, RemindedTaker
<1> QED
  BY <1>1, <1>4 DEF AnthropicLog, ParseAnthropicMessages, Gathered

LEMMA InjectedSystemType ==
  ASSUME system \in System
  PROVE  SystemMessage(InjectAnthropicSystem(system)) \in Seq(ChatSet)
<1> PICK c : c = InjectAnthropicSystem(system)
  OBVIOUS
<1>1. system \in ContentSet
  BY SystemType
<1>2. system.blocks \in Seq(BlockSet)
  BY <1>1 DEF ContentSet
<1>3. AddToLast(system.blocks, "text", Instruction) \in Seq(BlockSet)
  BY <1>2, PartsAreAny, AddToLastType
<1>4. c \in ContentSet
  BY <1>1, <1>3, WithBlocks DEF InjectAnthropicSystem
<1>5. String(TextOf(c)) \in ContentSet
  BY <1>4, TextType, StringType
<1> QED
  BY <1>5, SaidType DEF SystemMessage

LEMMA AnthropicLogContinues ==
  ASSUME NEW said \in Seq(TurnSet), system \in System, NEW n \in 1..Len(said)
  PROVE  IsPrefix(AnthropicLog(SubSeq(said, 1, n)), AnthropicLog(said))
<1> PICK a : a = SubSeq(said, 1, n)
  OBVIOUS
<1> PICK b : b = SubSeq(said, n + 1, Len(said))
  OBVIOUS
<1> PICK s : s = SystemMessage(InjectAnthropicSystem(system))
  OBVIOUS
<1> PICK x : x = Gathered(RemindedTaker, a)
  OBVIOUS
<1> PICK y : y = Gathered(RemindedTaker, b)
  OBVIOUS
<1>1. a \in Seq(TurnSet) /\ b \in Seq(TurnSet) /\ said = a \o b
  BY SplitInTwo
<1>2. IsMap(RemindedTaker, TurnSet, Seq(ChatSet))
  BY AnthropicLogIs
<1>3. Gathered(RemindedTaker, a \o b) = x \o y
  <2>1. a \in Seq(TurnSet) /\ b \in Seq(TurnSet)
    BY <1>1
  <2>2. Gathered(RemindedTaker, a \o b) = Gathered(RemindedTaker, a) \o Gathered(RemindedTaker, b)
    BY ONLY <1>2, <2>1, GatherJoin
  <2> QED
    BY <2>2
<1>4. s \in Seq(ChatSet)
  BY InjectedSystemType
<1>5. x \in Seq(ChatSet)
  BY <1>1, <1>2, GatherType
<1>6. y \in Seq(ChatSet)
  BY <1>1, <1>2, GatherType
<1>7. AnthropicLog(a) = s \o x /\ AnthropicLog(said) = s \o (x \o y)
  BY <1>1, <1>3, AnthropicLogIs
<1>8. Regroups(s, x, y)
  BY <1>4, <1>5, <1>6, Concatenating, Regrouping
<1>9. s \o (x \o y) = (s \o x) \o y
  BY <1>8 DEF Regroups
<1>10. s \o x \in Seq(ChatSet)
  BY <1>4, <1>5
<1>11. IsPrefix(s \o x, (s \o x) \o y)
  BY <1>6, <1>10, PrefixOfConcat
<1> QED
  BY <1>7, <1>9, <1>11

\* Reminding one OpenAI message behind another depends on where a run of
\* answers ends, and on nothing else that comes later.
RemindedChat(msgs, i) ==
  IF Reminds(msgs, i)
  THEN [msgs[i] EXCEPT !.content.blocks = AddAt(@, 1, Reminder)] ELSE msgs[i]
LEMMA RemindedPrefix ==
  ASSUME NEW x \in Seq(ChatSet), NEW y \in Seq(ChatSet), x # << >>,
         x[Len(x)].role = "tool" /\ y # << >> => y[1].role # "tool"
  PROVE  IsPrefix(RemindOpenAI(x), RemindOpenAI(x \o y))
<1> PICK z : z = x \o y
  OBVIOUS
<1> PICK m \in Nat : m = Len(x)
  OBVIOUS
<1> PICK n \in Nat : n = Len(y)
  OBVIOUS
<1>1. /\ m >= 1 /\ Len(z) = m + n /\ z \in Seq(ChatSet)
      /\ \A i \in 1..m : z[i] = x[i]
      /\ \A i \in 1..n : z[m + i] = y[i]
  OBVIOUS
<1>2. \A i \in 1..m : Reminds(z, i) <=> Reminds(x, i)
  <2> TAKE i \in 1..m
  <2>1. CASE i < m
    <3>1. i + 1 \in 1..m /\ i # Len(x) /\ i # Len(z)
      BY <1>1, <2>1
    <3>2. z[i] = x[i] /\ z[i + 1] = x[i + 1]
      BY <1>1, <3>1
    <3> QED
      BY <3>1, <3>2 DEF Reminds
  <2>2. CASE i = m
    <3>1. z[i] = x[i] /\ i = Len(x)
      BY <1>1, <2>2
    <3>2. x[i].role = "tool" => i = Len(z) \/ z[i + 1].role # "tool"
      <4>1. CASE n = 0
        BY <1>1, <2>2, <4>1
      <4>2. CASE n # 0
        <5>1. 1 \in 1..n /\ y # << >>
          BY <4>2
        <5>2. z[m + 1] = y[1]
          BY <1>1, <5>1
        <5> QED
          BY <2>2, <3>1, <5>1, <5>2
      <4> QED
        BY <4>1, <4>2
    <3> QED
      BY <3>1, <3>2 DEF Reminds
  <2> QED
    BY <2>1, <2>2
<1> PICK f : f = RemindOpenAI(x)
  OBVIOUS
<1> PICK g : g = RemindOpenAI(z)
  OBVIOUS
<1>3. /\ f = [i \in 1..m |-> RemindedChat(x, i)]
      /\ g = [i \in 1..(m + n) |-> RemindedChat(z, i)]
  <2>1. DOMAIN x = 1..m /\ DOMAIN z = 1..(m + n)
    BY <1>1
  <2> QED
    BY <2>1 DEF RemindOpenAI, RemindedChat
<1>4. \A i \in 1..m : f[i] = g[i]
  <2> TAKE i \in 1..m
  <2>1. i \in 1..(m + n)
    OBVIOUS
  <2>2. f[i] = RemindedChat(x, i)
    BY <1>3
  <2>3. g[i] = RemindedChat(z, i)
    BY <1>3, <2>1
  <2>4. x[i] = z[i]
    BY <1>1
  <2> QED
    BY <1>2, <2>2, <2>3, <2>4 DEF RemindedChat
<1> PICK S : S = {f[i] : i \in 1..m} \cup {g[i] : i \in 1..(m + n)}
  OBVIOUS
<1>5. f \in [1..m -> S] /\ g \in [1..(m + n) -> S]
  <2>1. f \in [1..m -> S]
    BY <1>3
  <2>2. g \in [1..(m + n) -> S]
    BY <1>3
  <2> QED
    BY <2>1, <2>2
<1>6. f \in Seq(S) /\ Len(f) = m /\ g \in Seq(S) /\ Len(g) = m + n
  <2> PICK k \in Nat : k = m + n
    OBVIOUS
  <2>1. f \in Seq(S) /\ Len(f) = m
    BY <1>5, FunctionIsSeq
  <2>2. g \in [1..k -> S]
    BY <1>5
  <2>3. g \in Seq(S) /\ Len(g) = k
    <3>1. k \in Nat
      OBVIOUS
    <3> QED
      BY ONLY <2>2, <3>1, FunctionIsSeq
  <2> QED
    BY <2>1, <2>3
<1>7. IsPrefix(f, g)
  <2>1. Len(f) <= Len(g) /\ \A i \in 1..Len(f) : f[i] = g[i]
    BY <1>4, <1>6
  <2> QED
    BY <1>6, <2>1, PrefixByMembers
<1> QED
  BY <1>7

\* The system message with the instruction.
OpenAIHead ==
  Said("system", String(Append(IF system.string THEN TextOf(system) ELSE << >>, Instruction)))

LEMMA OpenAIHeadType ==
  ASSUME system \in System
  PROVE  OpenAIHead \in ChatSet /\ OpenAIHead.role = "system"
<1>1. TextOf(system) \in Seq(AnyPart) /\ << >> \in Seq(AnyPart) /\ Instruction \in AnyPart
  BY SystemType, PartsAreAny
<1>2. Append(IF system.string THEN TextOf(system) ELSE << >>, Instruction) \in Seq(AnyPart)
  BY <1>1
<1>3. OpenAIHead \in ChatSet
  BY <1>2, StringType, SaidType DEF OpenAIHead
<1> QED
  BY <1>3 DEF OpenAIHead, Said, Chat

\* The first and the last message of a turn.
LEMMA TurnEnds ==
  ASSUME NEW t \in TurnSet, t.by # "tools"
  PROVE  /\ Len(AsOpenAI(t)) = 1 /\ AsOpenAI(t)[1].role # "tool"
         /\ t.by = "user" => AsOpenAI(t)[1].role = "user"
<1>1. t.by \in {"user", "tools", "model"}
  BY TurnFields
<1>2. Said("user", t.content).role = "user" /\ Spoken(t).role = "assistant"
  BY DEF Said, Spoken, Chat
<1>3. CASE t.by = "user"
  <2>1. AsOpenAI(t) = << Said("user", t.content) >>
    BY <1>3, OpenAITurn
  <2> QED
    BY <1>2, <2>1
<1>4. CASE t.by = "model"
  <2>1. AsOpenAI(t) = << Spoken(t) >>
    BY <1>4, OpenAITurn
  <2> QED
    BY <1>2, <1>4, <2>1
<1> QED
  BY <1>1, <1>3, <1>4

LEMMA EndsOfJoin ==
  ASSUME NEW T, NEW a \in Seq(T), NEW b \in Seq(T), Len(a) = 1
  PROVE  Len(a \o b) >= 1 /\ (a \o b)[1] = a[1] /\ Len(b \o a) >= 1 /\ (b \o a)[Len(b \o a)] = a[1]
<1> PICK n \in Nat : n = Len(b)
  OBVIOUS
<1>1. Len(a \o b) = Len(a) + Len(b) /\ Len(b \o a) = Len(b) + Len(a)
  BY ConcatProperties
<1>2. (a \o b)[1] = a[1]
  <2>1. 1 \in 1..(Len(a) + Len(b)) /\ 1 <= Len(a)
    OBVIOUS
  <2> QED
    BY <2>1, ConcatProperties
<1>3. (b \o a)[n + 1] = a[1]
  <2>1. n + 1 \in 1..(Len(b) + Len(a)) /\ ~(n + 1 <= Len(b)) /\ (n + 1) - Len(b) = 1
    OBVIOUS
  <2>2. (b \o a)[n + 1] = a[(n + 1) - Len(b)]
    BY <2>1, ConcatProperties
  <2> QED
    BY <2>1, <2>2
<1> QED
  BY <1>1, <1>2, <1>3

LEMMA HeadAndTail ==
  ASSUME NEW T, NEW s \in Seq(T), s # << >>
  PROVE  /\ SubSeq(s, 2, Len(s)) \in Seq(T) /\ s[1] \in T
         /\ s = << s[1] >> \o SubSeq(s, 2, Len(s))
<1> PICK a : a = SubSeq(s, 1, 1)
  OBVIOUS
<1>1. Len(s) \in Nat /\ Len(s) >= 1
  OBVIOUS
<1>2. 1 \in 1..Len(s) /\ 1 + 1 = 2
  BY <1>1
<1>3. a \in Seq(T) /\ Len(a) = 1 /\ a[1] = s[1]
  BY <1>2, SplitInTwo
<1>4. a = << a[1] >>
  BY ONLY <1>3
<1>5. s = SubSeq(s, 1, 1) \o SubSeq(s, 1 + 1, Len(s)) /\ SubSeq(s, 1 + 1, Len(s)) \in Seq(T)
  BY <1>2, SplitInTwo
<1>6. s[1] \in T
  BY <1>2
<1> QED
  BY <1>2, <1>3, <1>4, <1>5, <1>6

LEMMA OpenAIAfter ==
  ASSUME NEW t \in TurnSet, NEW r \in Seq(TurnSet)
  PROVE  Gathered(OpenAITaker, << t >> \o r) = AsOpenAI(t) \o Gathered(OpenAITaker, r)
<1> PICK h : h = << t >>
  OBVIOUS
<1>1. IsMap(OpenAITaker, TurnSet, Seq(ChatSet)) /\ OpenAITaker[t] = AsOpenAI(t)
  BY OpenAITakes DEF OpenAITaker
<1>2. h \in Seq(TurnSet) /\ r \in Seq(TurnSet) /\ IsMap(OpenAITaker, TurnSet, Seq(ChatSet))
  BY <1>1
<1>3. Gathered(OpenAITaker, h \o r) = Gathered(OpenAITaker, h) \o Gathered(OpenAITaker, r)
  BY ONLY <1>2, GatherJoin
<1>4. Gathered(OpenAITaker, << t >>) = OpenAITaker[t]
  BY <1>1, GatherOne
<1> QED
  BY <1>1, <1>3, <1>4

LEMMA OpenAIEnds ==
  ASSUME NEW said \in Seq(TurnSet), said # << >>
  PROVE  /\ Gathered(OpenAITaker, said) \in Seq(ChatSet)
         /\ said[1].by # "tools" =>
              /\ Len(Gathered(OpenAITaker, said)) >= 1
              /\ Gathered(OpenAITaker, said)[1] = AsOpenAI(said[1])[1]
         /\ said[Len(said)].by # "tools" =>
              /\ Len(Gathered(OpenAITaker, said)) >= 1
              /\ Gathered(OpenAITaker, said)[Len(Gathered(OpenAITaker, said))]
                   = AsOpenAI(said[Len(said)])[1]
<1> PICK n \in Nat : n = Len(said)
  OBVIOUS
<1>1. n >= 1 /\ said[1] \in TurnSet /\ said[n] \in TurnSet
  OBVIOUS
<1>2. IsMap(OpenAITaker, TurnSet, Seq(ChatSet))
  BY OpenAITakes
<1>3. \A t \in TurnSet : OpenAITaker[t] = AsOpenAI(t) /\ AsOpenAI(t) \in Seq(ChatSet)
  BY OpenAITurn DEF OpenAITaker
<1>4. ASSUME said[1].by # "tools"
      PROVE  /\ Len(Gathered(OpenAITaker, said)) >= 1
             /\ Gathered(OpenAITaker, said)[1] = AsOpenAI(said[1])[1]
  <2> PICK r : r = SubSeq(said, 2, n)
    OBVIOUS
  <2> PICK t \in TurnSet : t = said[1]
    BY <1>1
  <2>1. r \in Seq(TurnSet) /\ said = << t >> \o r
    BY <1>1, HeadAndTail
  <2>2. Gathered(OpenAITaker, << t >> \o r) = AsOpenAI(t) \o Gathered(OpenAITaker, r)
    BY <2>1, OpenAIAfter
  <2>5. Gathered(OpenAITaker, r) \in Seq(ChatSet) /\ AsOpenAI(t) \in Seq(ChatSet)
    BY <1>3, <2>1, OpenAITakes
  <2>6. Len(AsOpenAI(t)) = 1
    BY <1>4, TurnEnds
  <2>7. /\ Len(AsOpenAI(t) \o Gathered(OpenAITaker, r)) >= 1
        /\ (AsOpenAI(t) \o Gathered(OpenAITaker, r))[1] = AsOpenAI(t)[1]
    BY <2>5, <2>6, EndsOfJoin
  <2> QED
    BY <2>1, <2>2, <2>7
<1>5. ASSUME said[n].by # "tools"
      PROVE  /\ Len(Gathered(OpenAITaker, said)) >= 1
             /\ Gathered(OpenAITaker, said)[Len(Gathered(OpenAITaker, said))]
                  = AsOpenAI(said[n])[1]
  <2> PICK r : r = SubSeq(said, 1, n - 1)
    OBVIOUS
  <2> PICK t \in TurnSet : t = said[n]
    BY <1>1
  <2>1. r \in Seq(TurnSet) /\ said = Append(r, t)
    BY <1>1
  <2>2. Gathered(OpenAITaker, Append(r, t)) = Gathered(OpenAITaker, r) \o AsOpenAI(t)
    <3>1. r \in Seq(TurnSet) /\ t \in TurnSet
      BY <2>1
    <3>2. Gathered(OpenAITaker, Append(r, t)) = Gathered(OpenAITaker, r) \o OpenAITaker[t]
      BY ONLY <1>2, <3>1, GatherAppend
    <3> QED
      BY <1>3, <3>2
  <2>3. Gathered(OpenAITaker, r) \in Seq(ChatSet) /\ AsOpenAI(t) \in Seq(ChatSet)
    BY <1>3, <2>1, OpenAITakes
  <2>4. Len(AsOpenAI(t)) = 1
    BY <1>5, TurnEnds
  <2> PICK q : q = Gathered(OpenAITaker, r) \o AsOpenAI(t)
    OBVIOUS
  <2>5. Len(q) >= 1 /\ q[Len(q)] = AsOpenAI(t)[1]
    BY <2>3, <2>4, EndsOfJoin
  <2>6. Gathered(OpenAITaker, said) = q
    BY <2>1, <2>2
  <2> QED
    BY <2>5, <2>6
<1> QED
  BY <1>4, <1>5, OpenAITakes

LEMMA ReplaceHead ==
  ASSUME NEW T, NEW s \in Seq(T), NEW x \in T, NEW y \in T
  PROVE  /\ << x >> \o s \in Seq(T) /\ << x >> \o s # << >> /\ (<< x >> \o s)[1] = x
         /\ [<< x >> \o s EXCEPT ![1] = y] = << y >> \o s
<1> PICK n \in Nat : n = Len(s)
  OBVIOUS
<1> PICK a : a = << x >> \o s
  OBVIOUS
<1> PICK b : b = << y >> \o s
  OBVIOUS
<1>1. a \in Seq(T) /\ Len(a) = 1 + n /\ a[1] = x /\ \A i \in 2..(1 + n) : a[i] = s[i - 1]
  OBVIOUS
<1>2. b \in Seq(T) /\ Len(b) = 1 + n /\ b[1] = y /\ \A i \in 2..(1 + n) : b[i] = s[i - 1]
  OBVIOUS
<1> PICK c : c = [a EXCEPT ![1] = y]
  OBVIOUS
<1>3. c \in Seq(T) /\ Len(c) = 1 + n
      /\ \A i \in 1..(1 + n) : c[i] = IF i = 1 THEN y ELSE a[i]
  <2>1. a \in Seq(T) /\ 1 \in 1..Len(a) /\ Len(a) = 1 + n /\ y \in T
    BY <1>1
  <2>2. /\ [a EXCEPT ![1] = y] \in Seq(T)
        /\ Len([a EXCEPT ![1] = y]) = Len(a)
        /\ \A i \in 1..Len(a) : [a EXCEPT ![1] = y][i] = IF i = 1 THEN y ELSE a[i]
    BY ONLY <2>1, ExceptSeq
  <2> QED
    BY <2>1, <2>2
<1>4. \A i \in 1..(1 + n) : i = 1 \/ i \in 2..(1 + n)
  OBVIOUS
<1>5. \A i \in 1..(1 + n) : b[i] = c[i]
  <2> TAKE i \in 1..(1 + n)
  <2>1. CASE i = 1
    BY <1>2, <1>3, <2>1
  <2>2. CASE i \in 2..(1 + n)
    <3>1. i # 1
      BY <2>2
    <3> QED
      BY ONLY <1>1, <1>2, <1>3, <2>2, <3>1, i \in 1..(1 + n)
  <2> QED
    BY <1>4, <2>1, <2>2
<1>6. b = c
  <2>1. Len(b) = 1 + n /\ Len(c) = 1 + n
    BY <1>2, <1>3
  <2>2. b \in Seq(T) /\ c \in Seq(T) /\ Len(b) = Len(c) /\ \A i \in 1..Len(b) : b[i] = c[i]
    BY <1>2, <1>3, <1>5, <2>1
  <2> QED
    BY ONLY <2>2, SameSequence
<1>7. a \in Seq(T) /\ a # << >> /\ a[1] = x
  BY <1>1
<1> QED
  BY <1>6, <1>7

LEMMA FirstIsUser ==
  ASSUME NEW said \in Seq(TurnSet), InTurn(said), said # << >>
  PROVE  said[1].by = "user"
<1>1. 1 \in 1..Len(said)
  OBVIOUS
<1>2. said[1] \in TurnSet
  BY <1>1
<1>3. said[1].by # "tools" /\ said[1].by # "model"
  BY <1>1 DEF InTurn
<1> QED
  BY <1>2, <1>3, TurnFields

LEMMA OpenAIInjected ==
  ASSUME NEW said \in Seq(TurnSet), InTurn(said), said # << >>, system \in System
  PROVE  InjectOpenAISystem(ChatsOf(said)) = << OpenAIHead >> \o Gathered(OpenAITaker, said)
<1> PICK s \in Seq(ChatSet) : s = Gathered(OpenAITaker, said)
  BY OpenAIEnds
<1>1. ChatsOf(said) = SystemSaid \o s
  BY ChatsType
<1>2. OpenAIHead \in ChatSet
  BY OpenAIHeadType
<1>3. CASE TextOf(system) = << >>
  <2>1. SystemSaid \o s = s
    BY <1>3 DEF SystemSaid
  <2>2. Len(s) >= 1 /\ s[1] = AsOpenAI(said[1])[1]
    BY FirstIsUser, OpenAIEnds
  <2>3. s[1].role = "user" /\ s # << >>
    <3>1. said[1] \in TurnSet
      BY MemberType
    <3> QED
      BY <2>2, <3>1, FirstIsUser, TurnEnds
  <2>4. OpenAIHead = Said("system", String(<< Instruction >>))
    <3>1. Append(<< >>, Instruction) = << Instruction >>
      OBVIOUS
    <3> QED
      BY <1>3, <3>1 DEF OpenAIHead
  <2> QED
    BY <1>1, <2>1, <2>3, <2>4 DEF InjectOpenAISystem
<1>4. CASE TextOf(system) # << >>
  <2> PICK x : x = Said("system", system)
    OBVIOUS
  <2>1. SystemSaid = << x >>
    BY <1>4 DEF SystemSaid
  <2>2. x \in ChatSet
    BY SystemType, SaidType
  <2> PICK msgs : msgs = << x >> \o s
    OBVIOUS
  <2>3. /\ msgs # << >> /\ msgs[1] = x
        /\ [msgs EXCEPT ![1] = OpenAIHead] = << OpenAIHead >> \o s
    BY <1>2, <2>2, ReplaceHead
  <2>4. x.role = "system" /\ x.content = system
    BY DEF Said, Chat
  <2>5. [x EXCEPT !.content = String(Append(IF system.string THEN TextOf(system) ELSE << >>, Instruction))]
          = OpenAIHead
    BY DEF OpenAIHead, Said, Chat
  <2>6. InjectOpenAISystem(msgs)
          = [msgs EXCEPT ![1] = [x EXCEPT !.content =
               String(Append(IF system.string THEN TextOf(system) ELSE << >>, Instruction))]]
    <3>1. InjectOpenAISystem(msgs)
            = [msgs EXCEPT ![1].content =
                 String(Append(IF @.string THEN TextOf(@) ELSE << >>, Instruction))]
      BY <2>3, <2>4 DEF InjectOpenAISystem
    <3>2. msgs[1].content = system /\ msgs[1] = x
      BY <2>3, <2>4
    <3> QED
      BY ONLY <3>1, <3>2
  <2> QED
    BY <1>1, <2>1, <2>3, <2>5, <2>6
<1> QED
  BY <1>3, <1>4

LEMMA LastOfJoin ==
  ASSUME NEW T, NEW a \in Seq(T), NEW b \in Seq(T), Len(b) >= 1
  PROVE  (a \o b)[Len(a \o b)] = b[Len(b)]
<1> PICK m \in Nat : m = Len(a)
  OBVIOUS
<1> PICK n \in Nat : n = Len(b)
  OBVIOUS
<1>1. Len(a \o b) = Len(a) + Len(b)
  BY ConcatProperties
<1>2. m + n \in 1..(Len(a) + Len(b)) /\ ~(m + n <= Len(a)) /\ (m + n) - Len(a) = n
  OBVIOUS
<1>3. (a \o b)[m + n] = b[(m + n) - Len(a)]
  BY <1>2, ConcatProperties
<1> QED
  BY <1>1, <1>2, <1>3

LEMMA OpenAILogContinues ==
  ASSUME NEW said \in Seq(TurnSet), InTurn(said), system \in System, NEW n \in 1..Len(said)
  PROVE  IsPrefix(OpenAILog(SubSeq(said, 1, n)), OpenAILog(said))
<1> PICK a : a = SubSeq(said, 1, n)
  OBVIOUS
<1> PICK b : b = SubSeq(said, n + 1, Len(said))
  OBVIOUS
<1> PICK x : x = Gathered(OpenAITaker, a)
  OBVIOUS
<1> PICK y : y = Gathered(OpenAITaker, b)
  OBVIOUS
<1> PICK h : h = << OpenAIHead >>
  OBVIOUS
<1>1. /\ a \in Seq(TurnSet) /\ b \in Seq(TurnSet) /\ said = a \o b
      /\ Len(a) = n /\ \A i \in 1..n : a[i] = said[i]
      /\ Len(b) = Len(said) - n
      /\ n < Len(said) => b[1] = said[n + 1]
  BY SplitInTwo
<1>13. a \in Seq(TurnSet) /\ n >= 1 /\ Len(said) >= 1
  BY <1>1
<1>12. Len(a) = n /\ \A i \in 1..n : a[i] = said[i]
  BY <1>1
<1>2. a # << >> /\ said # << >>
  <2>1. Len(<< >>) = 0
    OBVIOUS
  <2>2. n >= 1 /\ Len(said) >= 1 /\ Len(a) = n /\ n \in Nat
    BY <1>12, <1>13
  <2>3. a # << >>
    BY ONLY <2>1, <2>2
  <2>4. said # << >>
    BY ONLY <2>1, <2>2
  <2> QED
    BY <2>3, <2>4
<1>3. InTurn(a)
  <2> SUFFICES ASSUME NEW i \in 1..n
               PROVE  /\ a[i].by = "tools" <=> (i > 1 /\ a[i - 1].by = "model" /\ a[i - 1].calls # << >>)
                      /\ a[i].by = "tools" => ToSet(a[i].calls) = ToSet(a[i - 1].calls)
                      /\ a[i].by = "model" => i > 1 /\ a[i - 1].by # "model"
    BY <1>12 DEF InTurn
  <2>1. i \in 1..Len(said) /\ a[i] = said[i] /\ (i > 1 => i - 1 \in 1..n)
    BY <1>12
  <2>2. i > 1 => a[i - 1] = said[i - 1]
    BY <1>12, <2>1
  <2>3. /\ said[i].by = "tools" <=> (i > 1 /\ said[i - 1].by = "model" /\ said[i - 1].calls # << >>)
        /\ said[i].by = "tools" => ToSet(said[i].calls) = ToSet(said[i - 1].calls)
        /\ said[i].by = "model" => i > 1 /\ said[i - 1].by # "model"
    BY <2>1 DEF InTurn
  <2> QED
    BY ONLY <2>1, <2>2, <2>3
<1>4. x \in Seq(ChatSet) /\ y \in Seq(ChatSet) /\ h \in Seq(ChatSet)
  <2>1. a \in Seq(TurnSet) /\ b \in Seq(TurnSet)
    BY <1>1
  <2>2. h \in Seq(ChatSet)
    BY OpenAIHeadType
  <2> QED
    BY <2>1, <2>2, OpenAITakes
<1>5. Gathered(OpenAITaker, said) = x \o y
  <2>1. IsMap(OpenAITaker, TurnSet, Seq(ChatSet)) /\ a \in Seq(TurnSet) /\ b \in Seq(TurnSet)
    BY <1>1, OpenAITakes
  <2>2. Gathered(OpenAITaker, a \o b) = Gathered(OpenAITaker, a) \o Gathered(OpenAITaker, b)
    BY ONLY <2>1, GatherJoin
  <2> QED
    BY <1>1, <2>2
<1>6. h \o (x \o y) = (h \o x) \o y
  <2>1. Regroups(h, x, y)
    BY <1>4, Concatenating, Regrouping
  <2> QED
    BY <2>1 DEF Regroups
<1>7. OpenAILog(a) = RemindOpenAI(h \o x)
  BY <1>1, <1>2, <1>3, OpenAIInjected DEF OpenAILog
<1>8. OpenAILog(said) = RemindOpenAI((h \o x) \o y)
  BY <1>2, <1>5, <1>6, OpenAIInjected DEF OpenAILog
<1>9. h \o x \in Seq(ChatSet) /\ h \o x # << >>
  BY <1>4
<1>10. ASSUME (h \o x)[Len(h \o x)].role = "tool", y # << >>
       PROVE  y[1].role # "tool"
  <2>1. a[n].by = "tools"
    <3>1. SUFFICES ASSUME a[n].by # "tools" PROVE FALSE
      OBVIOUS
    <3>2. Len(x) >= 1 /\ x[Len(x)] = AsOpenAI(a[n])[1]
      BY <1>1, <1>2, <3>1, OpenAIEnds
    <3>3. (h \o x)[Len(h \o x)] = x[Len(x)]
      BY <1>4, <3>2, LastOfJoin
    <3>4. a[n] \in TurnSet
      BY <1>1
    <3>5. AsOpenAI(a[n])[1].role # "tool"
      BY <3>1, <3>4, TurnEnds
    <3> QED
      BY <1>10, <3>2, <3>3, <3>5
  <2>2. b # << >>
    BY <1>10, GatherNothing
  <2>3. n < Len(said) /\ b[1] = said[n + 1]
    BY <1>1, <2>2
  <2>4. said[n].by = "tools" /\ n + 1 \in 1..Len(said)
    BY <1>1, <2>1, <2>3
  <2>5. said[n + 1].by # "tools"
    BY <2>4 DEF InTurn
  <2>6. y[1] = AsOpenAI(b[1])[1]
    BY <1>1, <2>2, <2>3, <2>5, OpenAIEnds
  <2>7. b[1] \in TurnSet
    BY <1>1, <2>2
  <2> QED
    BY <2>3, <2>5, <2>6, <2>7, TurnEnds
<1>11. IsPrefix(RemindOpenAI(h \o x), RemindOpenAI((h \o x) \o y))
  BY <1>4, <1>9, <1>10, RemindedPrefix
<1> QED
  BY <1>7, <1>8, <1>11

\* In every reachable state: one conversation has one log, in either format and
\* from request to request (the proxy's InjectSystemPrompt and
\* ParseAnthropicMessages).
THEOREM LogAlwaysOne == ConversationSpec => []LogInv
<1>1. ASSUME TurnsInv PROVE LogIndependentOfAPI
  <2>1. turns \in Seq(TurnSet) /\ system \in System
    BY <1>1 DEF TurnsInv, ConversationTypeOK
  <2> QED
    BY <2>1, LoggedAlike DEF LogIndependentOfAPI, Messages, Chats
<1>2. ASSUME TurnsInv PROVE LogContinues
  <2>1. turns \in Seq(TurnSet) /\ system \in System /\ InTurn(turns)
    BY <1>2 DEF TurnsInv, ConversationTypeOK
  <2> QED
    BY <2>1, AnthropicLogContinues, OpenAILogContinues DEF LogContinues, Continued
<1>3. TurnsInv => LogInv
  BY <1>1, <1>2 DEF LogInv
<1> QED
  BY <1>3, TurnsAlways, PTL

----------------------------------------------------------------------------
(* What injection adds                                                      *)

Marks == {Instruction, Reminder}
PlainBlocks == [type : Types, text : Seq(Part), id : Nat]

LEMMA MarksApart ==
  /\ Instruction # Reminder /\ Instruction \in AnyPart /\ Reminder \in AnyPart
  /\ \A p \in Part : p \in AnyPart /\ p \notin Marks
  /\ \A p \in Marks : p \in AnyPart /\ p \notin Part
<1>1. Instruction # Reminder
  BY DEF Instruction, Reminder
<1>2. Part \cap {Instruction, Reminder} = {}
  BY PartAssumption
<1> QED
  BY <1>1, <1>2 DEF AnyPart, Marks

LEMMA PlainAreBlocks == PlainBlocks \subseteq BlockSet /\ Seq(PlainBlocks) \subseteq Seq(BlockSet)
<1>1. PlainBlocks \subseteq BlockSet
  BY PartsAreAny DEF PlainBlocks, BlockSet
<1>2. \A A, B : A \subseteq B => Seq(A) \subseteq Seq(B)
  OBVIOUS
<1> QED
  BY <1>1, <1>2

\* Parts of a text, as what is gathered of each part.
KeptTaker == [p \in AnyPart |-> When(p \notin Marks, p)]
PartTaker(part) == [p \in AnyPart |-> When(p = part, part)]

LEMMA PartTakers ==
  /\ IsMap(KeptTaker, AnyPart, Seq(AnyPart))
  /\ \A part \in AnyPart : IsMap(PartTaker(part), AnyPart, Seq(AnyPart))
BY DEF IsMap, KeptTaker, PartTaker, When

LEMMA PartsTaken ==
  ASSUME NEW t \in Seq(AnyPart), NEW part \in AnyPart
  PROVE  /\ Without(t) = Gathered(KeptTaker, t) /\ Without(t) \in Seq(AnyPart)
         /\ Times(t, part) = Len(Gathered(PartTaker(part), t))
         /\ Gathered(PartTaker(part), t) \in Seq(AnyPart)
<1>1. \A i \in DOMAIN t : t[i] \in AnyPart
  OBVIOUS
<1>2. Mapped(KeptTaker, t) = [i \in DOMAIN t |-> When(t[i] \notin {Instruction, Reminder}, t[i])]
  BY <1>1 DEF Mapped, KeptTaker, Marks
<1>3. Mapped(PartTaker(part), t) = [i \in DOMAIN t |-> When(t[i] = part, part)]
  BY <1>1 DEF Mapped, PartTaker
<1>4. Gathered(KeptTaker, t) \in Seq(AnyPart)
  BY PartTakers, GatherType
<1>5. Gathered(PartTaker(part), t) \in Seq(AnyPart)
  BY PartTakers, GatherType
<1> QED
  BY <1>2, <1>3, <1>4, <1>5 DEF Gathered, Without, Times

\* A text of the client's or the model's has no mark.
LEMMA PlainText ==
  ASSUME NEW t \in Seq(Part)
  PROVE  /\ Without(t) = t /\ t \in Seq(AnyPart)
         /\ \A p \in Marks : Gathered(PartTaker(p), t) = << >>
<1>1. t \in Seq(AnyPart) /\ \A i \in 1..Len(t) : t[i] \in Part
  BY PartsAreAny
<1>2. \A i \in 1..Len(t) : KeptTaker[t[i]] = << t[i] >>
  BY <1>1, MarksApart DEF KeptTaker, When
<1>3. Gathered(KeptTaker, t) = t
  BY <1>1, <1>2, PartTakers, GatherAll
<1>4. ASSUME NEW p \in Marks
      PROVE  Gathered(PartTaker(p), t) = << >>
  <2>1. \A i \in 1..Len(t) : PartTaker(p)[t[i]] = << >>
    <3> TAKE i \in 1..Len(t)
    <3>1. t[i] \in AnyPart /\ t[i] # p
      BY <1>1, MarksApart
    <3> QED
      BY <3>1 DEF PartTaker, When
  <2>2. IsMap(PartTaker(p), AnyPart, Seq(AnyPart))
    BY MarksApart, PartTakers
  <2> QED
    BY <1>1, <2>1, <2>2, GatherNone
<1>5. Without(t) = Gathered(KeptTaker, t)
  BY <1>1, MarksApart, PartsTaken
<1> QED
  BY <1>1, <1>3, <1>4, <1>5

LEMMA MarkedText ==
  ASSUME NEW t \in Seq(AnyPart), NEW mark \in Marks, NEW p \in Marks
  PROVE  /\ Append(t, mark) \in Seq(AnyPart)
         /\ Without(Append(t, mark)) = Without(t)
         /\ Gathered(PartTaker(p), Append(t, mark)) = Gathered(PartTaker(p), t) \o When(mark = p, p)
<1>1. mark \in AnyPart /\ p \in AnyPart
  BY MarksApart
<1>2. Append(t, mark) \in Seq(AnyPart)
  BY <1>1
<1>3. Gathered(KeptTaker, Append(t, mark)) = Gathered(KeptTaker, t) \o KeptTaker[mark]
  <2>1. IsMap(KeptTaker, AnyPart, Seq(AnyPart)) /\ t \in Seq(AnyPart) /\ mark \in AnyPart
    BY <1>1, PartTakers
  <2> QED
    BY ONLY <2>1, GatherAppend
<1>4. KeptTaker[mark] = << >>
  BY <1>1 DEF KeptTaker, When
<1>5. Without(t) = Gathered(KeptTaker, t) /\ Without(t) \in Seq(AnyPart)
  BY <1>1, PartsTaken
<1>6. Without(Append(t, mark)) = Gathered(KeptTaker, Append(t, mark))
  BY <1>1, <1>2, PartsTaken
<1>7. Without(t) \o << >> = Without(t)
  BY <1>5
<1>8. Gathered(PartTaker(p), Append(t, mark)) = Gathered(PartTaker(p), t) \o PartTaker(p)[mark]
  <2>1. IsMap(PartTaker(p), AnyPart, Seq(AnyPart))
    BY <1>1, PartTakers
  <2> QED
    BY <1>1, <2>1, GatherAppend
<1>9. PartTaker(p)[mark] = When(mark = p, p)
  BY <1>1 DEF PartTaker
<1> QED
  BY <1>2, <1>3, <1>4, <1>5, <1>6, <1>7, <1>8, <1>9

\* What is left of a block without marks.
CleanOf(b) == When(b.type # "text" \/ Without(b.text) # << >>, [b EXCEPT !.text = Without(@)])
CleanTaker == [b \in BlockSet |-> CleanOf(b)]

LEMMA CleanTakes ==
  /\ IsMap(CleanTaker, BlockSet, Seq(BlockSet))
  /\ \A c \in ContentSet : Clean(c) = Gathered(CleanTaker, c.blocks)
<1>1. ASSUME NEW b \in BlockSet
      PROVE  CleanOf(b) \in Seq(BlockSet)
  <2>1. b.text \in Seq(AnyPart)
    BY DEF BlockSet
  <2>2. Without(b.text) \in Seq(AnyPart)
    BY <2>1, MarksApart, PartsTaken
  <2> PICK x : x = [b EXCEPT !.text = Without(@)]
    OBVIOUS
  <2>3. x \in BlockSet
    BY <2>2 DEF BlockSet
  <2>4. << x >> \in Seq(BlockSet) /\ << >> \in Seq(BlockSet)
    BY <2>3
  <2> QED
    BY <2>4 DEF CleanOf, When
<1>2. IsMap(CleanTaker, BlockSet, Seq(BlockSet))
  BY <1>1 DEF IsMap, CleanTaker
<1>3. ASSUME NEW c \in ContentSet
      PROVE  Clean(c) = Gathered(CleanTaker, c.blocks)
  <2> PICK s : s = c.blocks
    OBVIOUS
  <2>1. s \in Seq(BlockSet)
    BY DEF ContentSet
  <2>2. \A i \in DOMAIN s : s[i] \in BlockSet
    BY <2>1
  <2> PICK x : x = [i \in DOMAIN s |-> [s[i] EXCEPT !.text = Without(@)]]
    OBVIOUS
  <2>3. DOMAIN x = DOMAIN s
    OBVIOUS
  <2>4. \A i \in DOMAIN s : /\ x[i] = [s[i] EXCEPT !.text = Without(@)]
                            /\ x[i].type = s[i].type /\ x[i].text = Without(s[i].text)
    BY <2>2 DEF BlockSet
  <2>5. \A i \in DOMAIN s : CleanTaker[s[i]] = When(x[i].type # "text" \/ x[i].text # << >>, x[i])
    BY <2>2, <2>4 DEF CleanTaker, CleanOf
  <2>6. Mapped(CleanTaker, s) = [i \in DOMAIN x |-> When(x[i].type # "text" \/ x[i].text # << >>, x[i])]
    BY <2>3, <2>5 DEF Mapped
  <2> QED
    BY <2>6 DEF Gathered, Clean
<1> QED
  BY <1>2, <1>3

LEMMA MarkedClean ==
  ASSUME NEW b \in BlockSet, NEW mark \in Marks,
         NEW x, x = [b EXCEPT !.text = Append(@, mark)]
  PROVE  x \in BlockSet /\ CleanTaker[x] = CleanTaker[b]
<1>1. b.text \in Seq(AnyPart)
  BY DEF BlockSet
<1>2. Append(b.text, mark) \in Seq(AnyPart) /\ Without(Append(b.text, mark)) = Without(b.text)
  BY <1>1, MarkedText
<1>3. x \in BlockSet /\ x.type = b.type /\ x.text = Append(b.text, mark)
  BY <1>2 DEF BlockSet
<1>4. [x EXCEPT !.text = Without(@)] = [b EXCEPT !.text = Without(@)]
  <2>1. Without(x.text) = Without(b.text)
    BY <1>2, <1>3
  <2> QED
    BY <2>1 DEF BlockSet
<1>5. CleanOf(x) = CleanOf(b)
  BY <1>2, <1>3, <1>4 DEF CleanOf
<1> QED
  BY <1>3, <1>5 DEF CleanTaker

\* Cleaning removes the marks injection puts in.
LEMMA AddedClean ==
  ASSUME NEW s \in Seq(BlockSet), NEW mark \in Marks
  PROVE  /\ \A i \in 1..Len(s) : Gathered(CleanTaker, AddAt(s, i, mark)) = Gathered(CleanTaker, s)
         /\ Gathered(CleanTaker, Append(s, Text(<< mark >>))) = Gathered(CleanTaker, s)
<1>1. mark \in AnyPart
  BY MarksApart
<1>2. ASSUME NEW i \in 1..Len(s)
      PROVE  Gathered(CleanTaker, AddAt(s, i, mark)) = Gathered(CleanTaker, s)
  <2> PICK a : a = AddAt(s, i, mark)
    OBVIOUS
  <2>7. /\ s \in Seq(BlockSet) /\ i \in 1..Len(s) /\ mark \in AnyPart
        /\ a = AddAt(s, i, mark)
    BY <1>1
  <2>1. /\ a \in Seq(BlockSet) /\ Len(a) = Len(s)
        /\ a[i] = [s[i] EXCEPT !.text = Append(@, mark)]
        /\ \A k \in 1..Len(s) : k # i => a[k] = s[k]
    <3>1. AddedAt(a, s, i, mark)
      BY ONLY <2>7, AddAtIs
    <3> QED
      BY ONLY <3>1 DEF AddedAt
  <2>2. DOMAIN a = 1..Len(s) /\ DOMAIN s = 1..Len(s)
    BY <2>1
  <2>3. CleanTaker[a[i]] = CleanTaker[s[i]]
    <3>1. /\ s[i] \in BlockSet /\ mark \in Marks
          /\ a[i] = [s[i] EXCEPT !.text = Append(@, mark)]
      BY <2>1
    <3> QED
      BY ONLY <3>1, MarkedClean
  <2>4. \A k \in DOMAIN a : CleanTaker[a[k]] = CleanTaker[s[k]]
    BY <2>1, <2>2, <2>3
  <2>5. DOMAIN a = DOMAIN s
    BY <2>2
  <2>6. Gathered(CleanTaker, a) = Gathered(CleanTaker, s)
    BY ONLY <2>4, <2>5, GatherSame
  <2> QED
    BY <2>6
<1>3. Gathered(CleanTaker, Append(s, Text(<< mark >>))) = Gathered(CleanTaker, s)
  <2> PICK x : x = Text(<< mark >>)
    OBVIOUS
  <2>1. << >> \in Seq(AnyPart) /\ << >> \in Seq(Part) /\ Append(<< >>, mark) = << mark >>
    BY <1>1
  <2>9. Without(Append(<< >>, mark)) = Without(<< >>) /\ Append(<< >>, mark) \in Seq(AnyPart)
    <3>1. << >> \in Seq(AnyPart) /\ mark \in Marks
      BY <2>1
    <3> QED
      BY ONLY <3>1, MarkedText
  <2>10. Without(<< >>) = << >>
    <3>1. << >> \in Seq(Part)
      BY <2>1
    <3> QED
      BY ONLY <3>1, PlainText
  <2>2. << mark >> \in Seq(AnyPart) /\ Without(<< mark >>) = << >>
    BY <2>1, <2>9, <2>10
  <2>3. x \in BlockSet /\ x.type = "text" /\ x.text = << mark >>
    BY <2>2, BlockTypes DEF Text, Block
  <2>4. CleanTaker[x] = << >>
    BY <2>2, <2>3 DEF CleanTaker, CleanOf, When
  <2>8. IsMap(CleanTaker, BlockSet, Seq(BlockSet)) /\ s \in Seq(BlockSet) /\ x \in BlockSet
    BY <2>3, CleanTakes
  <2>5. Gathered(CleanTaker, Append(s, x)) = Gathered(CleanTaker, s) \o CleanTaker[x]
    BY ONLY <2>8, GatherAppend
  <2>6. Gathered(CleanTaker, s) \in Seq(BlockSet)
    BY ONLY <2>8, GatherType
  <2>7. Gathered(CleanTaker, s) \o << >> = Gathered(CleanTaker, s)
    BY <2>6
  <2> QED
    BY <2>4, <2>5, <2>7
<1> QED
  BY <1>2, <1>3

\* How often a mark is in the texts of blocks, as what is gathered of each.
WholeTaker == [b \in BlockSet |-> b.text]
CountTaker(p) == [b \in BlockSet |-> Gathered(PartTaker(p), b.text)]
TextCountTaker(p) ==
  [b \in BlockSet |-> IF b.type = "text" THEN Gathered(PartTaker(p), b.text) ELSE << >>]
WholeText(s) == Concat([i \in DOMAIN s |-> s[i].text])

LEMMA CountTakes ==
  ASSUME NEW p \in Marks
  PROVE  /\ IsMap(PartTaker(p), AnyPart, Seq(AnyPart))
         /\ IsMap(WholeTaker, BlockSet, Seq(AnyPart))
         /\ IsMap(CountTaker(p), BlockSet, Seq(AnyPart))
         /\ IsMap(TextCountTaker(p), BlockSet, Seq(AnyPart))
<1>1. p \in AnyPart
  BY MarksApart
<1>2. \A b \in BlockSet : b.text \in Seq(AnyPart)
  BY DEF BlockSet
<1>3. \A b \in BlockSet : Gathered(PartTaker(p), b.text) \in Seq(AnyPart)
  BY <1>1, <1>2, PartsTaken
<1>4. IsMap(WholeTaker, BlockSet, Seq(AnyPart))
  BY <1>2 DEF IsMap, WholeTaker
<1>5. IsMap(CountTaker(p), BlockSet, Seq(AnyPart))
  BY <1>3 DEF IsMap, CountTaker
<1>6. \A b \in BlockSet : (IF b.type = "text" THEN Gathered(PartTaker(p), b.text) ELSE << >>) \in Seq(AnyPart)
  BY <1>3
<1>7. IsMap(TextCountTaker(p), BlockSet, Seq(AnyPart))
  BY <1>6 DEF IsMap, TextCountTaker
<1> QED
  BY <1>1, <1>4, <1>5, <1>7, PartTakers

LEMMA Counts ==
  ASSUME NEW s \in Seq(BlockSet), NEW p \in Marks
  PROVE  /\ Times(WholeText(s), p) = Len(Gathered(CountTaker(p), s))
         /\ Times(JoinOf(s, "text"), p) = Len(Gathered(TextCountTaker(p), s))
<1> PICK g : g = PartTaker(p)
  OBVIOUS
<1> PICK w : w = WholeTaker
  OBVIOUS
<1> PICK x : x = TextTaker("text")
  OBVIOUS
<1>1. p \in AnyPart
  BY MarksApart
<1>2. IsMap(g, AnyPart, Seq(AnyPart)) /\ IsMap(w, BlockSet, Seq(AnyPart))
  BY CountTakes
<1>3. IsMap(x, BlockSet, Seq(AnyPart))
  BY Takers
<1>4. Gathered(g, << >>) = << >>
  BY GatherNothing
<1>5. \A b \in BlockSet : CountTaker(p)[b] = Gathered(g, w[b])
  BY DEF CountTaker, WholeTaker
<1>6. \A b \in BlockSet : TextCountTaker(p)[b] = Gathered(g, x[b])
  BY <1>4 DEF TextCountTaker, TextTaker
<1>7. Gathered(g, Gathered(w, s)) = Gathered(CountTaker(p), s)
  <2>1. s \in Seq(BlockSet)
    OBVIOUS
  <2> QED
    BY ONLY <1>2, <1>5, <2>1, GatherTwice
<1>8. Gathered(g, Gathered(x, s)) = Gathered(TextCountTaker(p), s)
  <2>1. s \in Seq(BlockSet)
    OBVIOUS
  <2> QED
    BY ONLY <1>2, <1>3, <1>6, <2>1, GatherTwice
<1>9. WholeText(s) = Gathered(w, s)
  <2>1. \A i \in DOMAIN s : s[i] \in BlockSet
    OBVIOUS
  <2>2. Mapped(WholeTaker, s) = [i \in DOMAIN s |-> s[i].text]
    BY <2>1 DEF Mapped, WholeTaker
  <2> QED
    BY <2>2 DEF WholeText, Concat, Gathered
<1>10. JoinOf(s, "text") = Gathered(x, s)
  BY Taken
<1>11. Gathered(w, s) \in Seq(AnyPart)
  BY <1>2, GatherType
<1>12. Gathered(x, s) \in Seq(AnyPart)
  BY <1>3, GatherType
<1>13. Times(Gathered(w, s), p) = Len(Gathered(g, Gathered(w, s)))
  BY <1>1, <1>11, PartsTaken
<1>14. Times(Gathered(x, s), p) = Len(Gathered(g, Gathered(x, s)))
  BY <1>1, <1>12, PartsTaken
<1> QED
  BY <1>7, <1>8, <1>9, <1>10, <1>13, <1>14

LEMMA GatherSingle ==
  ASSUME NEW M, NEW T, NEW g, IsMap(g, M, Seq(T)), NEW s \in Seq(M), NEW i \in 1..Len(s),
         \A j \in 1..Len(s) : j # i => g[s[j]] = << >>
  PROVE  Gathered(g, s) = g[s[i]]
<1> PICK m \in M : m = s[i]
  OBVIOUS
<1> PICK n \in Nat : n = Len(s)
  OBVIOUS
<1> PICK a : a = SubSeq(s, 1, i - 1)
  OBVIOUS
<1> PICK c : c = SubSeq(s, i + 1, n)
  OBVIOUS
<1>1. a \in Seq(M) /\ Len(a) = i - 1 /\ \A j \in 1..(i - 1) : a[j] = s[j]
  OBVIOUS
<1>2. c \in Seq(M) /\ Len(c) = n - i /\ \A j \in 1..(n - i) : c[j] = s[i + j]
  OBVIOUS
<1>3. s = a \o << m >> \o c
  BY SplitAt
<1>4. a \o << m >> = Append(a, m) /\ Append(a, m) \in Seq(M)
  BY <1>1
<1>5. Gathered(g, a) = << >>
  <2>1. \A j \in 1..Len(a) : g[a[j]] = << >>
    <3> TAKE j \in 1..Len(a)
    <3>1. j \in 1..(i - 1) /\ j \in 1..Len(s) /\ j # i
      BY <1>1
    <3> QED
      BY <1>1, <3>1
  <2>2. a \in Seq(M)
    BY <1>1
  <2> QED
    BY <2>1, <2>2, GatherNone
<1>6. Gathered(g, c) = << >>
  <2>1. \A j \in 1..Len(c) : g[c[j]] = << >>
    <3> TAKE j \in 1..Len(c)
    <3>1. j \in 1..(n - i) /\ i + j \in 1..Len(s) /\ i + j # i
      BY <1>2
    <3> QED
      BY <1>2, <3>1
  <2>2. c \in Seq(M)
    BY <1>2
  <2> QED
    BY <2>1, <2>2, GatherNone
<1>7. g[m] \in Seq(T)
  BY DEF IsMap
<1>8. Gathered(g, Append(a, m)) = << >> \o g[m]
  <2>1. a \in Seq(M) /\ m \in M /\ IsMap(g, M, Seq(T))
    BY <1>1
  <2>2. Gathered(g, Append(a, m)) = Gathered(g, a) \o g[m]
    BY ONLY <2>1, GatherAppend
  <2> QED
    BY <1>5, <2>2
<1>9. << >> \o g[m] = g[m] /\ g[m] \o << >> = g[m]
  BY <1>7
<1> PICK d : d = Append(a, m)
  OBVIOUS
<1>10. Gathered(g, d \o c) = Gathered(g, d) \o Gathered(g, c)
  <2>1. d \in Seq(M) /\ c \in Seq(M) /\ IsMap(g, M, Seq(T))
    BY <1>2, <1>4
  <2> QED
    BY ONLY <2>1, GatherJoin
<1> QED
  BY <1>3, <1>4, <1>6, <1>8, <1>9, <1>10

\* Texts without marks have none.
LEMMA PlainCounts ==
  ASSUME NEW s \in Seq(PlainBlocks), NEW p \in Marks
  PROVE  /\ s \in Seq(BlockSet)
         /\ \A i \in 1..Len(s) : CountTaker(p)[s[i]] = << >> /\ TextCountTaker(p)[s[i]] = << >>
         /\ Gathered(CountTaker(p), s) = << >> /\ Gathered(TextCountTaker(p), s) = << >>
<1>1. s \in Seq(BlockSet)
  BY PlainAreBlocks
<1>2. ASSUME NEW i \in 1..Len(s)
      PROVE  CountTaker(p)[s[i]] = << >> /\ TextCountTaker(p)[s[i]] = << >>
  <2>1. s[i] \in PlainBlocks /\ s[i] \in BlockSet
    BY <1>1
  <2>2. s[i].text \in Seq(Part)
    BY <2>1 DEF PlainBlocks
  <2>3. Gathered(PartTaker(p), s[i].text) = << >>
    BY <2>2, PlainText
  <2> QED
    BY <2>1, <2>3 DEF CountTaker, TextCountTaker
<1>3. Gathered(CountTaker(p), s) = << >>
  <2>1. IsMap(CountTaker(p), BlockSet, Seq(AnyPart))
    BY CountTakes
  <2> QED
    BY <1>1, <1>2, <2>1, GatherNone
<1>4. Gathered(TextCountTaker(p), s) = << >>
  <2>1. IsMap(TextCountTaker(p), BlockSet, Seq(AnyPart))
    BY CountTakes
  <2> QED
    BY <1>1, <1>2, <2>1, GatherNone
<1> QED
  BY <1>1, <1>2, <1>3, <1>4

LEMMA MarkedCount ==
  ASSUME NEW b \in PlainBlocks, NEW mark \in Marks, NEW p \in Marks,
         NEW x, x = [b EXCEPT !.text = Append(@, mark)]
  PROVE  /\ x \in BlockSet /\ CountTaker(p)[x] = When(mark = p, p)
         /\ b.type = "text" => TextCountTaker(p)[x] = When(mark = p, p)
<1>1. b \in BlockSet /\ b.text \in Seq(Part)
  BY PlainAreBlocks DEF PlainBlocks
<1>2. b.text \in Seq(AnyPart) /\ Gathered(PartTaker(p), b.text) = << >>
  BY <1>1, PlainText
<1>3. /\ Append(b.text, mark) \in Seq(AnyPart)
      /\ Gathered(PartTaker(p), Append(b.text, mark)) = << >> \o When(mark = p, p)
  <2> PICK t : t = b.text
    OBVIOUS
  <2>1. t \in Seq(AnyPart) /\ mark \in Marks /\ p \in Marks
    BY <1>2
  <2>2. /\ Append(t, mark) \in Seq(AnyPart)
        /\ Gathered(PartTaker(p), Append(t, mark)) = Gathered(PartTaker(p), t) \o When(mark = p, p)
    BY ONLY <2>1, MarkedText
  <2> QED
    BY <1>2, <2>2
<1>4. << >> \o When(mark = p, p) = When(mark = p, p)
  <2>1. When(mark = p, p) \in Seq(Marks)
    BY DEF When
  <2> QED
    BY <2>1
<1>5. x \in BlockSet /\ x.text = Append(b.text, mark) /\ x.type = b.type
  BY <1>1, <1>3 DEF BlockSet
<1> QED
  BY <1>3, <1>4, <1>5 DEF CountTaker, TextCountTaker

\* A mark put into a text without marks is there once, and no other is.
LEMMA AddAtCounts ==
  ASSUME NEW s \in Seq(PlainBlocks), NEW i \in 1..Len(s), NEW mark \in Marks, NEW p \in Marks
  PROVE  /\ Gathered(CountTaker(p), AddAt(s, i, mark)) = When(mark = p, p)
         /\ s[i].type = "text" => Gathered(TextCountTaker(p), AddAt(s, i, mark)) = When(mark = p, p)
<1> PICK a : a = AddAt(s, i, mark)
  OBVIOUS
<1>1. s \in Seq(BlockSet) /\ i \in 1..Len(s) /\ mark \in AnyPart /\ a = AddAt(s, i, mark)
  BY PlainAreBlocks, MarksApart
<1>3. /\ a \in Seq(BlockSet) /\ Len(a) = Len(s)
      /\ a[i] = [s[i] EXCEPT !.text = Append(@, mark)]
      /\ \A k \in 1..Len(s) : k # i => a[k] = s[k]
  <2>1. AddedAt(a, s, i, mark)
    BY ONLY <1>1, AddAtIs
  <2> QED
    BY ONLY <2>1 DEF AddedAt
<1>4. /\ CountTaker(p)[a[i]] = When(mark = p, p)
      /\ s[i].type = "text" => TextCountTaker(p)[a[i]] = When(mark = p, p)
  <2>1. s[i] \in PlainBlocks
    OBVIOUS
  <2> QED
    BY <1>3, <2>1, MarkedCount
<1>5. \A k \in 1..Len(a) : k # i => CountTaker(p)[a[k]] = << >> /\ TextCountTaker(p)[a[k]] = << >>
  BY <1>3, PlainCounts
<1>6. Gathered(CountTaker(p), a) = CountTaker(p)[a[i]]
  <2>1. IsMap(CountTaker(p), BlockSet, Seq(AnyPart)) /\ a \in Seq(BlockSet) /\ i \in 1..Len(a)
    BY <1>3, CountTakes
  <2>2. \A k \in 1..Len(a) : k # i => CountTaker(p)[a[k]] = << >>
    BY <1>5
  <2> QED
    BY ONLY <2>1, <2>2, GatherSingle
<1>7. Gathered(TextCountTaker(p), a) = TextCountTaker(p)[a[i]]
  <2>1. IsMap(TextCountTaker(p), BlockSet, Seq(AnyPart)) /\ a \in Seq(BlockSet) /\ i \in 1..Len(a)
    BY <1>3, CountTakes
  <2>2. \A k \in 1..Len(a) : k # i => TextCountTaker(p)[a[k]] = << >>
    BY <1>5
  <2> QED
    BY ONLY <2>1, <2>2, GatherSingle
<1> QED
  BY <1>4, <1>6, <1>7

LEMMA AddNewCounts ==
  ASSUME NEW s \in Seq(PlainBlocks), NEW mark \in Marks, NEW p \in Marks
  PROVE  /\ Append(s, Text(<< mark >>)) \in Seq(BlockSet)
         /\ Gathered(CountTaker(p), Append(s, Text(<< mark >>))) = When(mark = p, p)
         /\ Gathered(TextCountTaker(p), Append(s, Text(<< mark >>))) = When(mark = p, p)
<1> PICK x : x = Text(<< mark >>)
  OBVIOUS
<1> PICK b : b = Text(<< >>)
  OBVIOUS
<1>1. << >> \in Seq(Part) /\ Append(<< >>, mark) = << mark >>
  OBVIOUS
<1>2. b \in PlainBlocks /\ b.type = "text" /\ x = [b EXCEPT !.text = Append(@, mark)]
  BY <1>1 DEF Text, Block, PlainBlocks, Types
<1>3. /\ x \in BlockSet /\ CountTaker(p)[x] = When(mark = p, p)
      /\ TextCountTaker(p)[x] = When(mark = p, p)
  <2>1. /\ b \in PlainBlocks /\ mark \in Marks /\ p \in Marks
        /\ x = [b EXCEPT !.text = Append(@, mark)]
    BY <1>2
  <2>2. /\ x \in BlockSet /\ CountTaker(p)[x] = When(mark = p, p)
        /\ b.type = "text" => TextCountTaker(p)[x] = When(mark = p, p)
    BY ONLY <2>1, MarkedCount
  <2> QED
    BY <1>2, <2>2
<1>4. /\ s \in Seq(BlockSet)
      /\ Gathered(CountTaker(p), s) = << >> /\ Gathered(TextCountTaker(p), s) = << >>
  BY PlainCounts
<1>5. Gathered(CountTaker(p), Append(s, x)) = Gathered(CountTaker(p), s) \o CountTaker(p)[x]
  <2>1. IsMap(CountTaker(p), BlockSet, Seq(AnyPart)) /\ s \in Seq(BlockSet) /\ x \in BlockSet
    BY <1>3, <1>4, CountTakes
  <2> QED
    BY ONLY <2>1, GatherAppend
<1>6. Gathered(TextCountTaker(p), Append(s, x)) = Gathered(TextCountTaker(p), s) \o TextCountTaker(p)[x]
  <2>1. IsMap(TextCountTaker(p), BlockSet, Seq(AnyPart)) /\ s \in Seq(BlockSet) /\ x \in BlockSet
    BY <1>3, <1>4, CountTakes
  <2> QED
    BY ONLY <2>1, GatherAppend
<1>7. << >> \o When(mark = p, p) = When(mark = p, p)
  <2>1. When(mark = p, p) \in Seq(Marks)
    BY DEF When
  <2> QED
    BY <2>1
<1>8. Append(s, x) \in Seq(BlockSet)
  BY <1>3, <1>4
<1> QED
  BY <1>3, <1>4, <1>5, <1>6, <1>7, <1>8

\* The same where the mark goes into the last block of a type, if there is one.
LEMMA AddToLastAdds ==
  ASSUME NEW s \in Seq(PlainBlocks), NEW type, NEW mark \in Marks, NEW p \in Marks
  PROVE  LET a == AddToLast(s, type, mark) IN
         /\ a \in Seq(BlockSet) /\ Gathered(CleanTaker, a) = Gathered(CleanTaker, s)
         /\ Gathered(CountTaker(p), a) = When(mark = p, p)
         /\ type = "text" => Gathered(TextCountTaker(p), a) = When(mark = p, p)
<1>1. s \in Seq(BlockSet) /\ mark \in AnyPart
  BY PlainAreBlocks, MarksApart
<1>2. CASE Positions(s, type) = {}
  <2> PICK a : a = Append(s, Text(<< mark >>))
    OBVIOUS
  <2>1. /\ a \in Seq(BlockSet) /\ Gathered(CountTaker(p), a) = When(mark = p, p)
        /\ Gathered(TextCountTaker(p), a) = When(mark = p, p)
    BY AddNewCounts
  <2>2. Gathered(CleanTaker, a) = Gathered(CleanTaker, s)
    BY <1>1, AddedClean
  <2>3. AddToLast(s, type, mark) = a
    BY <1>2 DEF AddToLast
  <2> QED
    BY <2>1, <2>2, <2>3
<1>3. CASE Positions(s, type) # {}
  <2> PICK i : i = Max(Positions(s, type))
    OBVIOUS
  <2>1. i \in 1..Len(s) /\ s[i].type = type
    <3>1. s \in Seq(BlockSet)
      BY <1>1
    <3> QED
      BY ONLY <1>3, <3>1, PositionsIn, i = Max(Positions(s, type))
  <2> PICK a : a = AddAt(s, i, mark)
    OBVIOUS
  <2>2. a \in Seq(BlockSet)
    <3>1. s \in Seq(BlockSet) /\ i \in 1..Len(s) /\ mark \in AnyPart
      BY <1>1, <2>1
    <3>2. AddAt(s, i, mark) \in Seq(BlockSet)
      BY ONLY <3>1, AddAtIs DEF AddedAt
    <3> QED
      BY <3>2
  <2>3. Gathered(CleanTaker, a) = Gathered(CleanTaker, s)
    BY <1>1, <2>1, AddedClean
  <2>4. /\ Gathered(CountTaker(p), a) = When(mark = p, p)
        /\ type = "text" => Gathered(TextCountTaker(p), a) = When(mark = p, p)
    BY <2>1, AddAtCounts
  <2>5. AddToLast(s, type, mark) = a
    BY <1>3 DEF AddToLast
  <2> QED
    BY <2>2, <2>3, <2>4, <2>5
<1> QED
  BY <1>2, <1>3

LEMMA Once == \A p : Len(When(TRUE, p)) = 1 /\ \A q : q # p => When(p = q, q) = << >>
<1>1. \A p : Len(<< p >>) = 1
  OBVIOUS
<1> QED
  BY <1>1 DEF When

\* Into the system prompt of an Anthropic request.
LEMMA SystemInjected ==
  ASSUME NEW c \in System
  PROVE  /\ Times(TextOf(InjectAnthropicSystem(c)), Instruction) = 1
         /\ Clean(InjectAnthropicSystem(c)) = Clean(c)
<1> PICK s : s = c.blocks
  OBVIOUS
<1> PICK a : a = AddToLast(s, "text", Instruction)
  OBVIOUS
<1> PICK d : d = InjectAnthropicSystem(c)
  OBVIOUS
<1>1. [type : {"text"}, text : Seq(Part), id : {0}] \subseteq PlainBlocks
  BY DEF PlainBlocks, Types
<1>2. \A A, B : A \subseteq B => Seq(A) \subseteq Seq(B)
  OBVIOUS
<1>3. s \in Seq(PlainBlocks) /\ c \in ContentSet
  BY <1>1, <1>2, SystemType
<1>4. Instruction \in Marks
  BY DEF Marks
<1>5. /\ a \in Seq(BlockSet) /\ Gathered(CleanTaker, a) = Gathered(CleanTaker, s)
      /\ Gathered(TextCountTaker(Instruction), a) = When(Instruction = Instruction, Instruction)
  BY ONLY <1>3, <1>4, AddToLastAdds, a = AddToLast(s, "text", Instruction)
<1>6. d = [c EXCEPT !.blocks = a]
  BY DEF InjectAnthropicSystem
<1>7. d \in ContentSet /\ d.blocks = a
  BY <1>3, <1>5, <1>6, WithBlocks
<1>8. Clean(d) = Clean(c)
  BY <1>3, <1>5, <1>7, CleanTakes
<1>9. Times(TextOf(d), Instruction) = Len(Gathered(TextCountTaker(Instruction), a))
  <2>1. Times(JoinOf(a, "text"), Instruction) = Len(Gathered(TextCountTaker(Instruction), a))
    BY <1>4, <1>5, Counts
  <2> QED
    BY <1>7, <2>1 DEF TextOf
<1>10. Len(When(Instruction = Instruction, Instruction)) = 1
  BY Once
<1> QED
  BY <1>5, <1>8, <1>9, <1>10

\* Into a message of an Anthropic request.
LEMMA MessageReminded ==
  ASSUME NEW m \in MessageSet, m.content.blocks \in Seq(PlainBlocks),
         m.content.string => 1 \in 1..Len(m.content.blocks)
  PROVE  /\ Reminded(m).role = m.role
         /\ Times(AllTextOf(Reminded(m)), Reminder) = IF m.role = "user" THEN 1 ELSE 0
         /\ Clean(Reminded(m).content) = Clean(m.content)
<1> PICK s : s = m.content.blocks
  OBVIOUS
<1> PICK r : r = RemindedBlocks(m)
  OBVIOUS
<1>1. s \in Seq(BlockSet) /\ s \in Seq(PlainBlocks) /\ m.content \in ContentSet
  BY PlainAreBlocks DEF MessageSet
<1>2. Reminder \in Marks
  BY DEF Marks
<1>3. r \in Seq(BlockSet) /\ RemindUser(m) = [m EXCEPT !.content.blocks = r]
  BY RemindedType
<1>4. Reminded(m).role = m.role
  BY RemindedType
<1>5. /\ Gathered(CleanTaker, r) = Gathered(CleanTaker, s)
      /\ Gathered(CountTaker(Reminder), r) = When(Reminder = Reminder, Reminder)
  <2>0. /\ m.content.string => r = AddAt(s, 1, Reminder) /\ 1 \in 1..Len(s)
        /\ ~m.content.string =>
             r = IF Positions(s, "tool_result") # {} THEN AddToLast(s, "tool_result", Reminder)
                 ELSE Append(s, Text(<< Reminder >>))
    BY DEF RemindedBlocks
  <2>1. CASE m.content.string
    <3>1. s \in Seq(PlainBlocks) /\ s \in Seq(BlockSet) /\ 1 \in 1..Len(s)
      BY <1>1, <2>0, <2>1
    <3>2. Gathered(CountTaker(Reminder), AddAt(s, 1, Reminder)) = When(Reminder = Reminder, Reminder)
      BY ONLY <1>2, <3>1, AddAtCounts
    <3>3. Gathered(CleanTaker, AddAt(s, 1, Reminder)) = Gathered(CleanTaker, s)
      BY ONLY <1>2, <3>1, AddedClean
    <3> QED
      BY <2>0, <2>1, <3>2, <3>3
  <2>2. CASE ~m.content.string /\ Positions(s, "tool_result") # {}
    <3>1. r = AddToLast(s, "tool_result", Reminder)
      BY <2>0, <2>2
    <3> QED
      BY ONLY <1>1, <1>2, <3>1, AddToLastAdds
  <2>3. CASE ~m.content.string /\ Positions(s, "tool_result") = {}
    <3>1. r = Append(s, Text(<< Reminder >>))
      BY <2>0, <2>3
    <3>2. Gathered(CountTaker(Reminder), r) = When(Reminder = Reminder, Reminder)
      BY ONLY <1>1, <1>2, <3>1, AddNewCounts
    <3>3. Gathered(CleanTaker, r) = Gathered(CleanTaker, s)
      BY ONLY <1>1, <1>2, <3>1, AddedClean
    <3> QED
      BY <3>2, <3>3
  <2> QED
    BY <2>1, <2>2, <2>3
<1>6. Gathered(CountTaker(Reminder), s) = << >> /\ Len(<< >>) = 0
  <2>1. Len(<< >>) = 0
    OBVIOUS
  <2> QED
    BY <1>1, <1>2, <2>1, PlainCounts
<1>7. Len(When(Reminder = Reminder, Reminder)) = 1
  BY Once
<1>8. /\ Times(WholeText(s), Reminder) = 0
      /\ Times(WholeText(r), Reminder) = 1
  <2>1. Times(WholeText(s), Reminder) = Len(Gathered(CountTaker(Reminder), s))
    BY <1>1, <1>2, Counts
  <2>2. Times(WholeText(r), Reminder) = Len(Gathered(CountTaker(Reminder), r))
    BY <1>2, <1>3, Counts
  <2> QED
    BY ONLY <1>5, <1>6, <1>7, <2>1, <2>2
<1>9. \A x : AllTextOf(x) = WholeText(x.content.blocks)
  BY DEF AllTextOf, WholeText
<1>10. CASE m.role = "user"
  <2>1. Reminded(m) = [m EXCEPT !.content.blocks = r]
    BY <1>3, <1>10 DEF Reminded
  <2>2. Reminded(m).content = [m.content EXCEPT !.blocks = r]
    BY <1>3, <2>1, MessageWith
  <2>3. Reminded(m).content \in ContentSet /\ Reminded(m).content.blocks = r
    BY <1>1, <1>3, <2>2, WithBlocks
  <2>4. Clean(Reminded(m).content) = Clean(m.content)
    BY <1>1, <1>5, <2>3, CleanTakes
  <2> QED
    BY <1>4, <1>8, <1>9, <1>10, <2>3, <2>4
<1>11. CASE m.role # "user"
  <2>1. Reminded(m) = m
    BY <1>11 DEF Reminded
  <2> QED
    BY <1>8, <1>9, <1>11, <2>1
<1> QED
  BY <1>10, <1>11

\* What the client sends of a turn has no mark.
LEMMA PlainTurn ==
  ASSUME NEW t \in TurnSet
  PROVE  /\ AsAnthropic(t).content.blocks \in Seq(PlainBlocks)
         /\ t.content.blocks \in Seq(PlainBlocks)
         /\ AsAnthropic(t).content.string => 1 \in 1..Len(AsAnthropic(t).content.blocks)
<1>1. \A role, c : Message(role, c).content = c
  BY DEF Message
<1>2. \A s : Array(s).blocks = s /\ ~Array(s).string
  BY DEF Array
<1>3. /\ t.by \in {"user", "tools", "model"} /\ t.calls \in Seq(Nat)
      /\ t.content \in Content({"text", "image"}) /\ t.reasoning \in Seq(Part)
  BY DEF TurnSet
<1>4. t.content.blocks \in Seq(PlainBlocks)
  <2> PICK B : B = [type : {"text", "image"}, text : Seq(Part), id : {0}]
    OBVIOUS
  <2>1. B \subseteq PlainBlocks
    BY DEF PlainBlocks, Types
  <2>2. Seq(B) \subseteq Seq(PlainBlocks)
    <3>1. \A C, D : C \subseteq D => Seq(C) \subseteq Seq(D)
      OBVIOUS
    <3> QED
      BY ONLY <2>1, <3>1
  <2>3. t.content \in [string : BOOLEAN, blocks : Seq(B)]
    BY <1>3 DEF Content
  <2>4. t.content.blocks \in Seq(B)
    BY ONLY <2>3
  <2> QED
    BY ONLY <2>2, <2>4
<1>5. \A x \in Seq(Part) : \A id \in Nat :
        ToolResult(id, x) \in PlainBlocks /\ ToolUse(id) \in PlainBlocks /\ Thinking(x) \in PlainBlocks
  BY DEF ToolResult, ToolUse, Thinking, Block, PlainBlocks, Types
<1> PICK calls : calls = t.calls
  OBVIOUS
<1>6. DOMAIN calls = 1..Len(calls) /\ Len(calls) \in Nat /\ \A i \in 1..Len(calls) : calls[i] \in Nat
  BY <1>3
<1>7. ResultsOf(calls) \in Seq(PlainBlocks)
  <2>1. ResultsOf(calls) = [i \in 1..Len(calls) |-> ToolResult(calls[i], << "result" >>)]
    BY <1>6 DEF ResultsOf
  <2>2. ResultsOf(calls) \in [1..Len(calls) -> PlainBlocks]
    BY <1>5, <1>6, <2>1, ResultText
  <2> QED
    BY <1>6, <2>2, FunctionIsSeq
<1>8. Uses(calls) \in Seq(PlainBlocks)
  <2>1. Uses(calls) = [i \in 1..Len(calls) |-> ToolUse(calls[i])]
    BY <1>6 DEF Uses
  <2>2. Uses(calls) \in [1..Len(calls) -> PlainBlocks]
    BY <1>5, <1>6, <2>1, ResultText
  <2> QED
    BY <1>6, <2>2, FunctionIsSeq
<1>9. Reasoned(t) \in Seq(PlainBlocks)
  <2>1. Thinking(t.reasoning) \in PlainBlocks
    BY <1>3, <1>5
  <2>2. << Thinking(t.reasoning) >> \in Seq(PlainBlocks) /\ << >> \in Seq(PlainBlocks)
    BY <2>1
  <2> QED
    BY <2>2 DEF Reasoned
<1>10. \A x, y \in Seq(PlainBlocks) : x \o y \in Seq(PlainBlocks)
  OBVIOUS
<1>11. CASE t.by = "user"
  <2>1. AsAnthropic(t).content = t.content
    BY <1>1, <1>11, AnthropicTurn
  <2> QED
    BY <1>4, <2>1, TurnFields
<1>12. CASE t.by = "tools"
  <2>1. AsAnthropic(t).content = Array(ResultsOf(t.calls) \o t.content.blocks)
    BY <1>1, <1>12, AnthropicTurn
  <2>2. ResultsOf(t.calls) \o t.content.blocks \in Seq(PlainBlocks)
    BY <1>4, <1>7, <1>10
  <2> QED
    BY <1>2, <1>4, <2>1, <2>2
<1>13. CASE t.by = "model"
  <2>1. AsAnthropic(t).content = Array((Reasoned(t) \o t.content.blocks) \o Uses(t.calls))
    BY <1>1, <1>13, AnthropicTurn
  <2>2. Reasoned(t) \o t.content.blocks \in Seq(PlainBlocks)
    BY <1>4, <1>9, <1>10
  <2>3. (Reasoned(t) \o t.content.blocks) \o Uses(t.calls) \in Seq(PlainBlocks)
    BY <1>8, <1>10, <2>2
  <2> QED
    BY <1>2, <1>4, <2>1, <2>3
<1> QED
  BY <1>3, <1>11, <1>12, <1>13

\* A message of the OpenAI format without marks.
PlainChats ==
  {c \in ChatSet : /\ c.content.blocks \in Seq(PlainBlocks)
                   /\ c.content.string => Len(c.content.blocks) = 1}
PlainTaker == [b \in PlainBlocks |-> IF b.type = "text" THEN b.text ELSE << >>]

LEMMA PlainJoin == ASSUME NEW s \in Seq(PlainBlocks) PROVE JoinOf(s, "text") \in Seq(Part)
<1>1. \A b \in PlainBlocks : b.text \in Seq(Part)
  BY DEF PlainBlocks
<1>2. << >> \in Seq(Part)
  OBVIOUS
<1>3. IsMap(PlainTaker, PlainBlocks, Seq(Part))
  BY <1>1, <1>2 DEF IsMap, PlainTaker
<1>4. Gathered(PlainTaker, s) \in Seq(Part)
  BY <1>3, GatherType
<1>5. \A i \in DOMAIN s : s[i] \in PlainBlocks
  OBVIOUS
<1>6. Mapped(PlainTaker, s) = [i \in DOMAIN s |-> IF s[i].type = "text" THEN s[i].text ELSE << >>]
  BY <1>5 DEF Mapped, PlainTaker
<1> QED
  BY <1>4, <1>6 DEF Gathered, JoinOf, Concat

LEMMA PlainString ==
  ASSUME NEW t \in Seq(Part)
  PROVE  String(t).blocks \in Seq(PlainBlocks) /\ Len(String(t).blocks) = 1
<1> PICK b : b = Text(t)
  OBVIOUS
<1>1. b \in PlainBlocks
  BY DEF Text, Block, PlainBlocks, Types
<1>2. << b >> \in Seq(PlainBlocks) /\ Len(<< b >>) = 1
  BY <1>1
<1> QED
  BY <1>2 DEF String

LEMMA PlainTurnChats ==
  ASSUME NEW t \in TurnSet
  PROVE  AsOpenAI(t) \in Seq(PlainChats)
<1> PICK S : S = PlainChats
  OBVIOUS
<1>1. \A role, c, r, calls, id : Chat(role, c, r, calls, id).content = c
  BY DEF Chat
<1>2. \A c \in ChatSet : /\ c.content.blocks \in Seq(PlainBlocks)
                         /\ c.content.string => Len(c.content.blocks) = 1
                         => c \in S
  BY DEF PlainChats
<1>3. /\ t.by \in {"user", "tools", "model"} /\ t.calls \in Seq(Nat)
      /\ t.content.string => Len(t.content.blocks) = 1
  BY TurnFields
<1>4. t.content.blocks \in Seq(PlainBlocks)
  BY PlainTurn
<1>5. Said("user", t.content) \in S
  <2>1. Said("user", t.content) \in ChatSet /\ Said("user", t.content).content = t.content
    BY <1>1, OpenAITurn DEF Said
  <2> QED
    BY ONLY <1>2, <1>3, <1>4, <2>1
<1>6. Spoken(t) \in S
  <2>1. Spoken(t) \in ChatSet /\ Spoken(t).content = String(TextOf(t.content))
    BY <1>1, OpenAITurn DEF Spoken
  <2>2. TextOf(t.content) \in Seq(Part)
    BY <1>4, PlainJoin DEF TextOf
  <2>3. /\ String(TextOf(t.content)).blocks \in Seq(PlainBlocks)
        /\ Len(String(TextOf(t.content)).blocks) = 1
    BY ONLY <2>2, PlainString
  <2> QED
    BY ONLY <1>2, <2>1, <2>3
<1>7. Commented(t) \in Seq(S)
  BY <1>5 DEF Commented
<1>8. Answers(t.calls) \in Seq(S)
  <2> PICK calls \in Seq(Nat) : calls = t.calls
    BY <1>3
  <2> PICK n \in Nat : n = Len(calls)
    OBVIOUS
  <2>1. /\ Answers(calls) \in Seq(ChatSet) /\ Len(Answers(calls)) = n
        /\ \A i \in 1..n : Answers(calls)[i] = Answer(calls[i], String(<< "result" >>))
    BY CallTypes
  <2>2. /\ String(<< "result" >>).blocks \in Seq(PlainBlocks)
        /\ Len(String(<< "result" >>).blocks) = 1
    BY ResultText, PlainString
  <2>3. \A i \in 1..n : Answers(calls)[i] \in S
    <3> TAKE i \in 1..n
    <3>1. Answers(calls)[i] \in ChatSet
      BY <2>1
    <3>2. Answers(calls)[i].content = String(<< "result" >>)
      BY <1>1, <2>1 DEF Answer
    <3> QED
      BY ONLY <1>2, <2>2, <3>1, <3>2
  <2>4. Answers(calls) \in [1..n -> S]
    <3>1. Answers(calls) = [i \in 1..n |-> Answers(calls)[i]]
      <4> PICK a : a = Answers(calls)
        OBVIOUS
      <4>1. a \in Seq(ChatSet) /\ Len(a) = n
        BY <2>1
      <4>2. a = [i \in 1..n |-> a[i]]
        BY ONLY <4>1
      <4> QED
        BY <4>2
    <3> QED
      BY <2>3, <3>1
  <2> QED
    BY <2>4, FunctionIsSeq
<1>9. CASE t.by = "user"
  <2>1. << Said("user", t.content) >> \in Seq(S)
    BY <1>5
  <2> QED
    BY <1>9, <2>1, OpenAITurn
<1>10. CASE t.by = "tools"
  <2>1. Answers(t.calls) \o Commented(t) \in Seq(S)
    BY <1>7, <1>8
  <2> QED
    BY <1>10, <2>1, OpenAITurn
<1>11. CASE t.by = "model"
  <2>1. << Spoken(t) >> \in Seq(S)
    BY <1>6
  <2> QED
    BY <1>11, <2>1, OpenAITurn
<1> QED
  BY <1>3, <1>9, <1>10, <1>11

LEMMA PlainConversation ==
  ASSUME NEW said \in Seq(TurnSet)
  PROVE  Gathered(OpenAITaker, said) \in Seq(PlainChats)
<1>1. IsMap(OpenAITaker, TurnSet, Seq(PlainChats))
  BY PlainTurnChats DEF IsMap, OpenAITaker
<1> QED
  BY <1>1, GatherType

\* A reminder is all that is added to a message of the OpenAI format.
LEMMA ChatReminded ==
  ASSUME NEW msgs, NEW i, msgs[i] \in PlainChats
  PROVE  /\ Clean(RemindedChat(msgs, i).content) = Clean(msgs[i].content)
         /\ Times(AllTextOf(RemindedChat(msgs, i)), Instruction) = 0
<1> PICK c \in PlainChats : c = msgs[i]
  OBVIOUS
<1> PICK s : s = c.content.blocks
  OBVIOUS
<1>1. /\ c.content \in ContentSet /\ s \in Seq(PlainBlocks)
      /\ c.content.string => Len(s) = 1
      /\ c \in ChatSet
  BY DEF PlainChats, ChatSet
<1>2. s \in Seq(BlockSet)
  BY <1>1, PlainAreBlocks
<1>3. Instruction \in Marks /\ Reminder \in Marks /\ Instruction # Reminder
  BY MarksApart DEF Marks
<1>4. \A x : AllTextOf(x) = WholeText(x.content.blocks)
  BY DEF AllTextOf, WholeText
<1>5. Len(<< >>) = 0
  OBVIOUS
<1>6. CASE Reminds(msgs, i)
  <2> PICK a : a = AddAt(s, 1, Reminder)
    OBVIOUS
  <2>1. 1 \in 1..Len(s)
    <3>1. Len(s) = 1
      BY <1>1, <1>6 DEF Reminds
    <3> QED
      BY <3>1
  <2>2. Gathered(CountTaker(Instruction), AddAt(s, 1, Reminder)) = When(Reminder = Instruction, Instruction)
    <3>1. s \in Seq(PlainBlocks) /\ 1 \in 1..Len(s)
      BY <1>1, <2>1
    <3> QED
      BY ONLY <1>3, <3>1, AddAtCounts
  <2>3. Gathered(CleanTaker, AddAt(s, 1, Reminder)) = Gathered(CleanTaker, s)
    <3>1. s \in Seq(BlockSet) /\ 1 \in 1..Len(s)
      BY <1>2, <2>1
    <3> QED
      BY ONLY <1>3, <3>1, AddedClean
  <2>4. AddAt(s, 1, Reminder) \in Seq(BlockSet)
    <3>1. s \in Seq(BlockSet) /\ 1 \in 1..Len(s) /\ Reminder \in AnyPart
      BY <1>2, <2>1, PartsAreAny
    <3> QED
      BY ONLY <3>1, AddAtIs DEF AddedAt
  <2>5. Gathered(CountTaker(Instruction), a) = << >>
    BY <1>3, <2>2 DEF When
  <2> PICK d : d = RemindedChat(msgs, i)
    OBVIOUS
  <2>6. d = [c EXCEPT !.content.blocks = a]
    BY <1>6 DEF RemindedChat
  <2> PICK e : e = [c.content EXCEPT !.blocks = a]
    OBVIOUS
  <2>7. d.content = e
    <3>1. d = [c EXCEPT !.content = e]
      BY <2>6
    <3> QED
      BY <1>1, <3>1 DEF ChatSet
  <2>8. e \in ContentSet /\ e.blocks = a
    BY <1>1, <2>4, WithBlocks
  <2>9. Clean(d.content) = Clean(c.content)
    BY <1>1, <2>3, <2>7, <2>8, CleanTakes
  <2>10. Times(WholeText(a), Instruction) = Len(Gathered(CountTaker(Instruction), a))
    BY <1>3, <2>4, Counts
  <2>11. Times(AllTextOf(d), Instruction) = 0
    BY <1>4, <1>5, <2>5, <2>7, <2>8, <2>10
  <2> QED
    BY <2>9, <2>11
<1>7. CASE ~Reminds(msgs, i)
  <2>1. RemindedChat(msgs, i) = c
    BY <1>7 DEF RemindedChat
  <2>2. Gathered(CountTaker(Instruction), s) = << >>
    BY <1>1, <1>3, PlainCounts
  <2>3. Times(WholeText(s), Instruction) = Len(Gathered(CountTaker(Instruction), s))
    BY <1>2, <1>3, Counts
  <2>4. Times(AllTextOf(c), Instruction) = 0
    BY <1>4, <1>5, <2>2, <2>3
  <2> QED
    BY <2>1, <2>4
<1> QED
  BY <1>6, <1>7

\* The system message of the OpenAI format has the instruction behind the text
\* of the client's.
LEMMA HeadInjected ==
  ASSUME system \in System, system.string
  PROVE  /\ Times(TextOf(OpenAIHead.content), Instruction) = 1
         /\ Clean(OpenAIHead.content) = Clean(system)
<1> PICK t : t = system.blocks[1].text
  OBVIOUS
<1>1. system = String(t) /\ t \in Seq(Part)
  <2>1. system = String(t)
    BY SystemType
  <2> PICK B : B = [type : {"text"}, text : Seq(Part), id : {0}]
    OBVIOUS
  <2> PICK s : s = system.blocks
    OBVIOUS
  <2>2. s \in Seq(B)
    BY SystemType
  <2>3. Len(s) = 1
    <3>1. s = << Text(t) >>
      BY ONLY <2>1, s = system.blocks DEF String
    <3> QED
      BY <3>1
  <2>4. s[1] \in B
    <3>1. 1 \in 1..Len(s)
      BY <2>3
    <3> QED
      BY <2>2, <3>1, MemberType
  <2> QED
    BY <2>1, <2>4
<1>2. t \in Seq(AnyPart)
  BY <1>1, PartsAreAny
<1>3. TextOf(system) = t
  BY <1>1, <1>2, TextOfString
<1> PICK x : x = Append(t, Instruction)
  OBVIOUS
<1>4. OpenAIHead.content = String(x)
  BY <1>3 DEF OpenAIHead, Said, Chat
<1>5. Instruction \in Marks
  BY DEF Marks
<1>6. /\ x \in Seq(AnyPart)
      /\ Gathered(PartTaker(Instruction), x)
           = Gathered(PartTaker(Instruction), t) \o When(Instruction = Instruction, Instruction)
  BY ONLY <1>2, <1>5, MarkedText, x = Append(t, Instruction)
<1>7. Gathered(PartTaker(Instruction), t) = << >>
  BY <1>1, <1>5, PlainText
<1>8. Len(<< >> \o When(Instruction = Instruction, Instruction)) = 1
  <2>1. When(Instruction = Instruction, Instruction) = << Instruction >>
    BY DEF When
  <2>2. Len(<< >> \o << Instruction >>) = 1
    OBVIOUS
  <2> QED
    BY <2>1, <2>2
<1>9. Times(x, Instruction) = Len(Gathered(PartTaker(Instruction), x))
  BY <1>6, MarksApart, PartsTaken
<1>10. TextOf(String(x)) = x
  BY <1>6, TextOfString
<1>11. Times(TextOf(OpenAIHead.content), Instruction) = 1
  BY <1>4, <1>6, <1>7, <1>8, <1>9, <1>10
<1> PICK b : b = Text(t)
  OBVIOUS
<1> PICK d : d = Text(x)
  OBVIOUS
<1>12. d = [b EXCEPT !.text = Append(@, Instruction)] /\ b \in BlockSet
  <2>1. b \in BlockSet
    BY <1>2, BlockTypes
  <2>2. b.text = t
    BY DEF Text, Block
  <2>3. d = [b EXCEPT !.text = x]
    BY ONLY b = Text(t), d = Text(x) DEF Text, Block
  <2> QED
    BY ONLY <2>1, <2>2, <2>3, x = Append(t, Instruction)
<1>13. d \in BlockSet /\ CleanTaker[d] = CleanTaker[b]
  BY ONLY <1>5, <1>12, MarkedClean
<1>14. /\ String(t) \in ContentSet /\ String(t).blocks = << b >>
       /\ String(x) \in ContentSet /\ String(x).blocks = << d >>
  BY <1>2, <1>6, StringType
<1>15. /\ Gathered(CleanTaker, << b >>) = CleanTaker[b]
       /\ Gathered(CleanTaker, << d >>) = CleanTaker[d]
  <2>1. IsMap(CleanTaker, BlockSet, Seq(BlockSet)) /\ b \in BlockSet /\ d \in BlockSet
    BY <1>12, <1>13, CleanTakes
  <2> QED
    BY ONLY <2>1, GatherOne
<1>16. Clean(String(x)) = Clean(String(t))
  <2>1. Clean(String(t)) = Gathered(CleanTaker, << b >>)
    BY <1>14, CleanTakes
  <2>2. Clean(String(x)) = Gathered(CleanTaker, << d >>)
    BY <1>14, CleanTakes
  <2> QED
    BY <1>13, <1>15, <2>1, <2>2
<1> QED
  BY <1>1, <1>4, <1>11, <1>16

\* Into an OpenAI request.
LEMMA OpenAIAdded ==
  ASSUME turns \in Seq(TurnSet), InTurn(turns), turns # << >>, system \in System, system.string
  PROVE  LET first == Len(InjectedOpenAI) - Len(Chats) IN
         /\ Times(TextOf(InjectedOpenAI[1].content), Instruction) = 1
         /\ \A i \in DOMAIN Tail(InjectedOpenAI) :
              Times(AllTextOf(Tail(InjectedOpenAI)[i]), Instruction) = 0
         /\ \A i \in DOMAIN Chats :
              Clean(InjectedOpenAI[first + i].content) = Clean(Chats[i].content)
<1> PICK g : g = Gathered(OpenAITaker, turns)
  OBVIOUS
<1> PICK n \in Nat : n = Len(g)
  BY PlainConversation
<1> PICK msgs : msgs = << OpenAIHead >> \o g
  OBVIOUS
<1> PICK log : log = InjectedOpenAI
  OBVIOUS
<1>1. g \in Seq(PlainChats) /\ g \in Seq(ChatSet) /\ OpenAIHead \in ChatSet
  BY PlainConversation, OpenAITakes, OpenAIHeadType
<1>2. /\ msgs \in Seq(ChatSet) /\ Len(msgs) = 1 + n /\ msgs[1] = OpenAIHead
      /\ \A i \in 1..n : msgs[1 + i] = g[i]
  BY <1>1
<1>3. \A i \in 1..n : msgs[1 + i] \in PlainChats
  BY <1>1, <1>2
<1>4. log = [i \in 1..(1 + n) |-> RemindedChat(msgs, i)]
  <2>1. DOMAIN msgs = 1..(1 + n)
    BY <1>2
  <2>2. log = RemindOpenAI(msgs)
    BY OpenAIInjected DEF InjectedOpenAI, OpenAILog
  <2> QED
    BY <2>1, <2>2 DEF RemindOpenAI, RemindedChat
<1>5. /\ log[1] = OpenAIHead
      /\ \A i \in 1..n : log[1 + i] = RemindedChat(msgs, 1 + i)
  <2>1. 1 \in 1..(1 + n) /\ \A i \in 1..n : 1 + i \in 1..(1 + n)
    OBVIOUS
  <2>2. ~Reminds(msgs, 1)
    BY <1>2, OpenAIHeadType DEF Reminds
  <2>3. RemindedChat(msgs, 1) = OpenAIHead
    BY <1>2, <2>2 DEF RemindedChat
  <2> QED
    BY <1>4, <2>1, <2>3
<1>6. /\ Len(log) = 1 + n /\ DOMAIN Tail(log) = 1..n
      /\ \A i \in 1..n : Tail(log)[i] = log[1 + i]
  <2> PICK S : S = {RemindedChat(msgs, i) : i \in 1..(1 + n)}
    OBVIOUS
  <2>1. log \in [1..(1 + n) -> S]
    BY <1>4
  <2> PICK m \in Nat : m = 1 + n
    OBVIOUS
  <2>2. log \in Seq(S) /\ Len(log) = m
    <3>1. log \in [1..m -> S] /\ m \in Nat
      BY <2>1
    <3> QED
      BY ONLY <3>1, FunctionIsSeq
  <2>3. log \in Seq(S) /\ Len(log) = 1 + n /\ n \in Nat
    BY <2>2
  <2> QED
    BY ONLY <2>3
<1>7. \A i \in 1..n : /\ Clean(log[1 + i].content) = Clean(g[i].content)
                      /\ Times(AllTextOf(log[1 + i]), Instruction) = 0
  <2> TAKE i \in 1..n
  <2> PICK k : k = 1 + i
    OBVIOUS
  <2>1. msgs[k] \in PlainChats
    BY <1>3
  <2>2. /\ Clean(RemindedChat(msgs, k).content) = Clean(msgs[k].content)
        /\ Times(AllTextOf(RemindedChat(msgs, k)), Instruction) = 0
    BY ONLY <2>1, ChatReminded
  <2>3. log[k] = RemindedChat(msgs, k) /\ msgs[k] = g[i]
    BY <1>2, <1>5
  <2> QED
    BY ONLY <2>2, <2>3, k = 1 + i
<1>8. Times(TextOf(log[1].content), Instruction) = 1 /\ Clean(log[1].content) = Clean(system)
  BY <1>5, HeadInjected
<1>9. \A i \in DOMAIN Chats : Clean(log[(Len(log) - Len(Chats)) + i].content) = Clean(Chats[i].content)
  <2>1. Chats = SystemSaid \o g
    BY ChatsType DEF Chats
  <2>2. CASE TextOf(system) = << >>
    <3>1. Chats = g
      BY <1>1, <2>1, <2>2 DEF SystemSaid
    <3>2. DOMAIN Chats = 1..n /\ Len(log) - Len(Chats) = 1
      BY <1>1, <1>6, <3>1
    <3> QED
      BY <1>7, <3>1, <3>2
  <2>3. CASE TextOf(system) # << >>
    <3> PICK x : x = Said("system", system)
      OBVIOUS
    <3>1. x \in ChatSet /\ x.content = system
      BY SystemType, SaidType DEF Said, Chat
    <3>2. Chats = << x >> \o g
      BY <2>1, <2>3 DEF SystemSaid
    <3>3. /\ DOMAIN Chats = 1..(1 + n) /\ Len(Chats) = 1 + n /\ Chats[1] = x
          /\ \A i \in 1..n : Chats[1 + i] = g[i]
      BY <1>1, <3>1, <3>2
    <3>4. \A i \in 1..(1 + n) : (Len(log) - Len(Chats)) + i = i
      BY <1>6, <3>3
    <3> TAKE i \in DOMAIN Chats
    <3>5. CASE i = 1
      BY <1>8, <3>1, <3>3, <3>4, <3>5
    <3>6. CASE i # 1
      <4>1. i - 1 \in 1..n /\ 1 + (i - 1) = i
        BY <3>3, <3>6
      <4>2. Clean(log[i].content) = Clean(g[i - 1].content) /\ Chats[i] = g[i - 1]
        BY <1>7, <3>3, <4>1
      <4> QED
        BY <3>3, <3>4, <4>2
    <3> QED
      BY <3>5, <3>6
  <2> QED
    BY <2>2, <2>3
<1> QED
  BY <1>6, <1>7, <1>8, <1>9

LEMMA MessagesAdded ==
  ASSUME turns \in Seq(TurnSet)
  PROVE  \A i \in DOMAIN Messages :
           /\ FromProxy[i].role = Messages[i].role
           /\ Times(AllTextOf(FromProxy[i]), Reminder) = IF Messages[i].role = "user" THEN 1 ELSE 0
           /\ Clean(FromProxy[i].content) = Clean(Messages[i].content)
<1> TAKE i \in DOMAIN Messages
<1>1. i \in 1..Len(turns)
  BY MessagesType DEF Messages
<1> PICK t \in TurnSet : t = turns[i]
  BY <1>1, MemberType
<1> PICK m \in MessageSet : m = AsAnthropic(t)
  BY AnthropicTurn
<1>2. Messages[i] = m
  BY <1>1, MessagesType DEF Messages
<1>3. FromProxy[i] = Reminded(m)
  BY <1>2 DEF FromProxy, RemindAnthropic, Reminded
<1>4. m.content.blocks \in Seq(PlainBlocks) /\ (m.content.string => 1 \in 1..Len(m.content.blocks))
  BY PlainTurn
<1>5. /\ Reminded(m).role = m.role
      /\ Times(AllTextOf(Reminded(m)), Reminder) = IF m.role = "user" THEN 1 ELSE 0
      /\ Clean(Reminded(m).content) = Clean(m.content)
  BY <1>4, MessageReminded
<1> QED
  BY <1>2, <1>3, <1>5

\* In every reachable state: whatever the conversation, injection adds the
\* instruction once and a reminder to each message of the user, and replaces,
\* moves and drops no text of the client's or the model's (InjectSystemPrompt
\* and InjectUserReminder of the proxy).
THEOREM InjectionAlwaysOnlyAdds == ConversationSpec => []InjectionOnlyAdds
<1>1. ASSUME TurnsInv, Arriving PROVE
        /\ turns \in Seq(TurnSet) /\ InTurn(turns) /\ turns # << >> /\ system \in System
  BY <1>1 DEF TurnsInv, ConversationTypeOK, Arriving
<1>2. ASSUME TurnsInv PROVE InjectionOnlyAdds
  <2> SUFFICES ASSUME Arriving
               PROVE  /\ Times(TextOf(InjectAnthropicSystem(system)), Instruction) = 1
                      /\ Clean(InjectAnthropicSystem(system)) = Clean(system)
                      /\ \A i \in DOMAIN Messages :
                           /\ FromProxy[i].role = Messages[i].role
                           /\ Times(AllTextOf(FromProxy[i]), Reminder)
                                = IF Messages[i].role = "user" THEN 1 ELSE 0
                           /\ Clean(FromProxy[i].content) = Clean(Messages[i].content)
                      /\ system.string =>
                           LET first == Len(InjectedOpenAI) - Len(Chats) IN
                           /\ Times(TextOf(InjectedOpenAI[1].content), Instruction) = 1
                           /\ \A i \in DOMAIN Tail(InjectedOpenAI) :
                                Times(AllTextOf(Tail(InjectedOpenAI)[i]), Instruction) = 0
                           /\ \A i \in DOMAIN Chats :
                                Clean(InjectedOpenAI[first + i].content) = Clean(Chats[i].content)
    BY DEF InjectionOnlyAdds
  <2> QED
    BY <1>1, <1>2, SystemInjected, MessagesAdded, OpenAIAdded
<1>3. TurnsInv => InjectionOnlyAdds
  BY <1>2
<1> QED
  BY <1>3, TurnsAlways, PTL

----------------------------------------------------------------------------
(* What the agent makes of a conversation                                   *)

\* The role of the last of these, as chatMessagesToAnthropic looks back for it.
RoleBefore(chats) == IF chats = << >> THEN "" ELSE chats[Len(chats)].role
\* What it computes before its i-th message.
Converts(out, chats, n) ==
  out = [i \in 0..n |->
           IF i = 0 THEN << >>
           ELSE AddMessage(out[i - 1], chats[i], IF i = 1 THEN "" ELSE chats[i - 1].role)]

LEMMA ConvertsExists ==
  ASSUME NEW chats, NEW n \in Nat
  PROVE  \E out : Converts(out, chats, n)
<1> DEFINE S == {k \in 0..n : \E out : Converts(out, chats, k)}
<1>1. 0 \in S
  <2> DEFINE out == [i \in 0..0 |-> << >>]
  <2>1. Converts(out, chats, 0)
    BY DEF Converts
  <2> HIDE DEF out
  <2> QED
    BY <2>1
<1>2. ASSUME NEW k \in 1..n, k - 1 \in S
      PROVE  k \in S
  <2>1. PICK g : Converts(g, chats, k - 1)
    BY <1>2
  <2> DEFINE Role(i) == IF i = 1 THEN "" ELSE chats[i - 1].role
             f == [i \in 0..k |-> IF i = 0 THEN << >> ELSE AddMessage(g[i - 1], chats[i], Role(i))]
  <2>2. \A i \in 0..k : i # 0 => f[i - 1] = g[i - 1]
    <3> TAKE i \in 0..k
    <3>1. HAVE i # 0
    <3>2. i - 1 \in 0..k /\ i - 1 \in 0..(k - 1)
      BY <3>1
    <3>3. g[i - 1] = IF i - 1 = 0 THEN << >> ELSE AddMessage(g[(i - 1) - 1], chats[i - 1], Role(i - 1))
      BY <2>1, <3>2 DEF Converts
    <3>4. f[i - 1] = IF i - 1 = 0 THEN << >> ELSE AddMessage(g[(i - 1) - 1], chats[i - 1], Role(i - 1))
      BY <3>2
    <3> QED
      BY <3>3, <3>4
  <2>3. Converts(f, chats, k)
    BY <2>2 DEF Converts
  <2> HIDE DEF f
  <2> QED
    BY <2>3
<1> HIDE DEF S
<1>3. n \in S
  BY <1>1, <1>2, InductionUpTo
<1> QED
  BY <1>3 DEF S

LEMMA ConvertedIs ==
  ASSUME NEW chats
  PROVE  \A n \in Nat : Len(chats) = n =>
           \E out : Converts(out, chats, n) /\ ChatMessagesToAnthropic(chats) = out[n]
<1> SUFFICES ASSUME NEW n \in Nat, Len(chats) = n
             PROVE  \E out : Converts(out, chats, n) /\ ChatMessagesToAnthropic(chats) = out[n]
  OBVIOUS
<1> DEFINE c == CHOOSE out : Converts(out, chats, n)
<1>1. Converts(c, chats, n)
  BY ConvertsExists
<1>2. ChatMessagesToAnthropic(chats) = c[n]
  BY DEF ChatMessagesToAnthropic, Converts
<1> QED
  BY <1>1, <1>2

\* One message more.
LEMMA ConvertAppend ==
  ASSUME NEW s \in Seq(ChatSet), NEW m \in ChatSet
  PROVE  /\ ChatMessagesToAnthropic(Append(s, m)) =
              AddMessage(ChatMessagesToAnthropic(s), m, RoleBefore(s))
         /\ ChatMessagesToAnthropic(<< >>) = << >>
<1> PICK n : n = Len(s)
  OBVIOUS
<1> PICK t : t = Append(s, m)
  OBVIOUS
<1>1. n \in Nat /\ Len(t) = n + 1 /\ t[n + 1] = m /\ \A i \in 1..n : t[i] = s[i]
  OBVIOUS
<1>2. PICK c : Converts(c, s, n) /\ ChatMessagesToAnthropic(s) = c[n]
  BY <1>1, ConvertedIs
<1>3. PICK d : Converts(d, t, n + 1) /\ ChatMessagesToAnthropic(t) = d[n + 1]
  <2>1. n + 1 \in Nat /\ Len(t) = n + 1
    BY <1>1
  <2> QED
    BY ONLY <2>1, ConvertedIs
<1> DEFINE S == {i \in 0..n : c[i] = d[i]}
<1>4. /\ \A i \in 0..n : c[i] = IF i = 0 THEN << >>
           ELSE AddMessage(c[i - 1], s[i], IF i = 1 THEN "" ELSE s[i - 1].role)
      /\ \A i \in 0..(n + 1) : d[i] = IF i = 0 THEN << >>
           ELSE AddMessage(d[i - 1], t[i], IF i = 1 THEN "" ELSE t[i - 1].role)
  BY <1>2, <1>3 DEF Converts
<1>5. 0 \in S
  <2>1. 0 \in 0..n /\ 0 \in 0..(n + 1)
    BY <1>1
  <2>2. c[0] = << >> /\ d[0] = << >>
    BY ONLY <1>4, <2>1
  <2> QED
    BY <2>1, <2>2
<1>6. ASSUME NEW i \in 1..n, i - 1 \in S
      PROVE  i \in S
  <2>1. i \in 0..n /\ i \in 0..(n + 1) /\ i # 0 /\ (i # 1 => i - 1 \in 1..n)
    BY <1>1
  <2>2. c[i - 1] = d[i - 1] /\ t[i] = s[i] /\ (i # 1 => t[i - 1] = s[i - 1])
    BY <1>1, <1>6, <2>1
  <2>3. c[i] = AddMessage(c[i - 1], s[i], IF i = 1 THEN "" ELSE s[i - 1].role)
    BY <1>4, <2>1
  <2>4. d[i] = AddMessage(d[i - 1], t[i], IF i = 1 THEN "" ELSE t[i - 1].role)
    BY <1>4, <2>1
  <2>5. c[i] = d[i]
    BY <2>2, <2>3, <2>4
  <2> QED
    BY <2>1, <2>5
<1>7. c[n] = d[n]
  <2> HIDE DEF S
  <2>1. \A i \in 0..n : i \in S
    BY <1>1, <1>5, <1>6, InductionUpTo
  <2> QED
    BY <1>1, <2>1 DEF S
<1>8. d[n + 1] = AddMessage(d[n], m, IF n = 0 THEN "" ELSE s[n].role)
  <2>1. n + 1 \in 0..(n + 1) /\ n + 1 # 0 /\ (n + 1) - 1 = n /\ (n + 1 = 1 <=> n = 0)
        /\ (n # 0 => n \in 1..n)
    BY <1>1
  <2>2. d[n + 1] = AddMessage(d[n], m, IF n + 1 = 1 THEN "" ELSE t[n].role)
    <3> PICK k : k = n + 1
      OBVIOUS
    <3>1. k \in 0..(n + 1) /\ k # 0 /\ k - 1 = n /\ t[k] = m
      BY <1>1, <2>1
    <3>2. d[k] = AddMessage(d[k - 1], t[k], IF k = 1 THEN "" ELSE t[k - 1].role)
      BY ONLY <1>4, <3>1
    <3> QED
      BY <3>1, <3>2
  <2>3. n # 0 => t[n].role = s[n].role
    BY <1>1, <2>1
  <2> QED
    BY <2>1, <2>2, <2>3
<1>9. RoleBefore(s) = IF n = 0 THEN "" ELSE s[n].role
  BY DEF RoleBefore
<1>10. ChatMessagesToAnthropic(<< >>) = << >>
  <2> PICK e : e = << >>
    OBVIOUS
  <2>1. Len(e) = 0
    OBVIOUS
  <2>2. PICK c0 : Converts(c0, e, 0) /\ ChatMessagesToAnthropic(e) = c0[0]
    BY <2>1, ConvertedIs
  <2>3. c0[0] = << >>
    BY <2>2 DEF Converts
  <2> QED
    BY <2>2, <2>3
<1> QED
  BY <1>2, <1>3, <1>7, <1>8, <1>9, <1>10

\* What becomes of a message on its own, and of an answer behind another.
Converted(m) ==
  IF m.role = "system" THEN << >>
  ELSE IF m.role = "user" THEN << Message("user", m.content) >>
  ELSE IF m.role = "assistant" THEN << Message("assistant", Array(AssistantBlocks(m))) >>
  ELSE << Message("user", Array(<< ResultBlock(m) >>)) >>
WithBlock(msgs, b) == [msgs EXCEPT ![Len(msgs)].content.blocks = Append(@, b)]
BehindAnswer(m, previous) == m.role = "tool" /\ previous = "tool"

LEMMA AddMessageIs ==
  ASSUME NEW out, NEW m \in ChatSet, NEW previous
  PROVE  /\ BehindAnswer(m, previous) => AddMessage(out, m, previous) = WithBlock(out, ResultBlock(m))
         /\ ~BehindAnswer(m, previous) /\ m.role # "system" =>
              AddMessage(out, m, previous) = Append(out, Converted(m)[1])
         /\ m.role = "system" => AddMessage(out, m, previous) = out /\ Converted(m) = << >>
<1>1. m.role \in {"system", "user", "assistant", "tool"}
  BY DEF ChatSet
<1>2. CASE m.role = "system"
  BY <1>2 DEF AddMessage, Converted, BehindAnswer
<1>3. CASE m.role = "user"
  BY <1>3 DEF AddMessage, Converted, BehindAnswer
<1>4. CASE m.role = "assistant"
  BY <1>4 DEF AddMessage, Converted, BehindAnswer
<1>5. CASE m.role = "tool" /\ previous = "tool"
  BY <1>5 DEF AddMessage, Converted, BehindAnswer, WithBlock
<1>6. CASE m.role = "tool" /\ previous # "tool"
  BY <1>6 DEF AddMessage, Converted, BehindAnswer
<1> QED
  BY <1>1, <1>2, <1>3, <1>4, <1>5, <1>6

LEMMA AssistantBlocksIs ==
  ASSUME NEW m \in ChatSet
  PROVE  /\ AssistantBlocks(m) \in Seq(BlockSet)
         /\ ~m.content.string => AssistantBlocks(m) = m.content.blocks \o Uses(m.calls)
<1> PICK b : b = m.content.blocks
  OBVIOUS
<1> DEFINE g == [x \in BlockSet |-> When(~m.content.string \/ x.text # << >>, x)]
<1>1. b \in Seq(BlockSet) /\ m.calls \in Seq(Nat)
  BY DEF ChatSet, ContentSet
<1>2. \A x \in BlockSet : g[x] \in Seq(BlockSet)
  BY DEF When
<1>3. IsMap(g, BlockSet, Seq(BlockSet))
  BY <1>2 DEF IsMap
<1>4. \A i \in DOMAIN b : b[i] \in BlockSet
  BY <1>1
<1>5. Gathered(g, b) = FlattenSeq([i \in DOMAIN b |-> When(~m.content.string \/ b[i].text # << >>, b[i])])
  <2>1. Mapped(g, b) = [i \in DOMAIN b |-> When(~m.content.string \/ b[i].text # << >>, b[i])]
    BY <1>4 DEF Mapped
  <2> QED
    BY <2>1 DEF Gathered
<1>6. ~m.content.string => \A i \in 1..Len(b) : g[b[i]] = << b[i] >>
  BY <1>1 DEF When
<1> HIDE DEF g
<1>7. Gathered(g, b) \in Seq(BlockSet)
  BY <1>1, <1>3, GatherType
<1>8. ~m.content.string => Gathered(g, b) = b
  <2> SUFFICES ASSUME ~m.content.string
               PROVE  Gathered(g, b) = b
    OBVIOUS
  <2>1. IsMap(g, BlockSet, Seq(BlockSet)) /\ b \in Seq(BlockSet)
    BY <1>1, <1>3
  <2>2. \A i \in 1..Len(b) : g[b[i]] = << b[i] >>
    BY <1>6
  <2> QED
    BY ONLY <2>1, <2>2, GatherAll
<1>9. AssistantBlocks(m) = Gathered(g, b) \o Uses(m.calls)
  BY <1>5 DEF AssistantBlocks, Uses
<1>10. Uses(m.calls) \in Seq(BlockSet)
  BY <1>1, CallTypes
<1>11. Gathered(g, b) \o Uses(m.calls) \in Seq(BlockSet)
  BY ONLY <1>7, <1>10
<1> QED
  BY ONLY <1>8, <1>9, <1>11, b = m.content.blocks

LEMMA ConvertedType ==
  ASSUME NEW m \in ChatSet
  PROVE  /\ Converted(m) \in Seq(MessageSet)
         /\ m.role # "system" => Len(Converted(m)) = 1
         /\ ResultBlock(m) \in BlockSet
<1>1. m.content \in ContentSet /\ m.answers \in Nat
  BY DEF ChatSet
<1>2. ResultBlock(m) \in BlockSet
  BY <1>1, TextType, BlockTypes DEF ResultBlock
<1>3. Array(<< ResultBlock(m) >>) \in ContentSet
  <2>1. << ResultBlock(m) >> \in Seq(BlockSet)
    BY <1>2
  <2> QED
    BY <2>1, ArrayType
<1>4. Array(AssistantBlocks(m)) \in ContentSet
  BY AssistantBlocksIs, ArrayType
<1>5. \A c \in ContentSet : Message("user", c) \in MessageSet /\ Message("assistant", c) \in MessageSet
  BY DEF Message, MessageSet
<1>6. \A x \in MessageSet : << x >> \in Seq(MessageSet) /\ Len(<< x >>) = 1
  OBVIOUS
<1>7. << >> \in Seq(MessageSet)
  OBVIOUS
<1> QED
  BY <1>1, <1>2, <1>3, <1>4, <1>5, <1>6, <1>7 DEF Converted

\* A block goes into the last message.
LEMMA WithBlockIs ==
  ASSUME NEW a \in Seq(MessageSet), NEW b \in Seq(MessageSet), b # << >>, NEW x \in BlockSet
  PROVE  /\ WithBlock(b, x) \in Seq(MessageSet) /\ Len(WithBlock(b, x)) = Len(b)
         /\ WithBlock(a \o b, x) = a \o WithBlock(b, x)
         /\ Len(b) = 1 => WithBlock(b, x) =
              << [b[1] EXCEPT !.content.blocks = Append(@, x)] >>
<1> PICK k : k = Len(a)
  OBVIOUS
<1> PICK n : n = Len(b)
  OBVIOUS
<1>1. k \in Nat /\ n \in Nat \ {0} /\ n \in 1..n
  OBVIOUS
<1> PICK y : y = [b[n] EXCEPT !.content.blocks = Append(@, x)]
  OBVIOUS
<1>2. b[n] \in MessageSet
  BY <1>1
<1>3. y \in MessageSet
  <2> PICK z : z = b[n]
    OBVIOUS
  <2>1. z \in MessageSet /\ z.content.blocks \in Seq(BlockSet)
    BY <1>2 DEF MessageSet, ContentSet
  <2>2. Append(z.content.blocks, x) \in Seq(BlockSet)
    BY ONLY <2>1, x \in BlockSet
  <2>3. [z EXCEPT !.content.blocks = Append(z.content.blocks, x)] \in MessageSet
    BY <2>1, <2>2, MessageWith
  <2> QED
    BY <2>3
<1>4. WithBlock(b, x) = [b EXCEPT ![n] = y]
  BY DEF WithBlock
<1>5. [b EXCEPT ![n] = y] \in Seq(MessageSet) /\ Len([b EXCEPT ![n] = y]) = n
  BY <1>1, <1>3
<1> PICK ab : ab = a \o b
  OBVIOUS
<1>6. ab \in Seq(MessageSet) /\ Len(ab) = k + n /\ ab[k + n] = b[n]
      /\ \A i \in 1..k : ab[i] = a[i]
  BY <1>1, Joined
<1>7. WithBlock(ab, x) = [ab EXCEPT ![k + n] = y]
  BY <1>6 DEF WithBlock
<1>8. [ab EXCEPT ![k + n] = y] = a \o [b EXCEPT ![n] = y]
  <2> PICK c : c = [b EXCEPT ![n] = y]
    OBVIOUS
  <2> PICK d : d = [ab EXCEPT ![k + n] = y]
    OBVIOUS
  <2>1. c \in Seq(MessageSet) /\ Len(c) = n /\ c[n] = y /\ \A i \in 1..n : i # n => c[i] = b[i]
    BY ONLY <1>1, <1>3, b \in Seq(MessageSet), n = Len(b), c = [b EXCEPT ![n] = y]
  <2>2. d \in Seq(MessageSet) /\ Len(d) = k + n /\ d[k + n] = y
        /\ \A i \in 1..(k + n) : i # k + n => d[i] = ab[i]
    <3> PICK l : l = k + n
      OBVIOUS
    <3>1. ab \in Seq(MessageSet) /\ l = Len(ab) /\ l \in 1..l
      BY <1>1, <1>6
    <3>2. d = [ab EXCEPT ![l] = y]
      OBVIOUS
    <3>3. d \in Seq(MessageSet) /\ Len(d) = l /\ d[l] = y /\ \A i \in 1..l : i # l => d[i] = ab[i]
      BY ONLY <1>3, <3>1, <3>2
    <3> QED
      BY ONLY <3>3, l = k + n
  <2> PICK ac : ac = a \o c
    OBVIOUS
  <2>3. /\ ac \in Seq(MessageSet) /\ Len(ac) = k + n
        /\ \A i \in 1..k : ac[i] = a[i]
        /\ \A i \in 1..n : ac[k + i] = c[i]
    BY <2>1, Joined
  <2>4. \A i \in 1..n : ab[k + i] = b[i]
    BY Joined
  <2>5. \A i \in 1..(k + n) : d[i] = ac[i]
    <3> TAKE i \in 1..(k + n)
    <3>1. CASE i \in 1..k
      <4>1. i # k + n
        BY <1>1, <3>1
      <4> QED
        BY ONLY <1>6, <2>2, <2>3, <3>1, <4>1, i \in 1..(k + n)
    <3>2. CASE i \notin 1..k
      <4> PICK j : j = i - k
        OBVIOUS
      <4>1. j \in 1..n /\ i = k + j /\ (j = n <=> i = k + n)
        BY ONLY <1>1, <3>2, i \in 1..(k + n), j = i - k
      <4> QED
        BY ONLY <2>1, <2>2, <2>3, <2>4, <4>1, i \in 1..(k + n)
    <3> QED
      BY <3>1, <3>2
  <2>6. d = ac
    BY ONLY <2>2, <2>3, <2>5
  <2> QED
    BY <2>6
<1>9. n = 1 => [b EXCEPT ![n] = y] = << y >>
  <2> SUFFICES ASSUME n = 1 PROVE [b EXCEPT ![1] = y] = << y >>
    OBVIOUS
  <2>1. [b EXCEPT ![1] = y] \in Seq(MessageSet) /\ Len([b EXCEPT ![1] = y]) = 1
        /\ [b EXCEPT ![1] = y][1] = y
    <3>1. b \in Seq(MessageSet) /\ Len(b) = 1
      BY <1>1
    <3> QED
      BY ONLY <1>3, <3>1
  <2> QED
    BY ONLY <2>1
<1> QED
  BY <1>4, <1>5, <1>7, <1>8, <1>9

\* One message more, in what follows.
NextConverted(s, m, r, new) ==
  /\ BehindAnswer(m, r) => new = WithBlock(ChatMessagesToAnthropic(s), ResultBlock(m))
  /\ ~BehindAnswer(m, r) => new = ChatMessagesToAnthropic(s) \o Converted(m)

LEMMA ConvertType ==
  /\ ChatMessagesToAnthropic(<< >>) = << >>
  /\ \A s \in Seq(ChatSet) :
       /\ ChatMessagesToAnthropic(s) \in Seq(MessageSet)
       /\ RoleBefore(s) = "tool" => ChatMessagesToAnthropic(s) # << >>
       /\ \A m \in ChatSet :
            /\ NextConverted(s, m, RoleBefore(s), ChatMessagesToAnthropic(Append(s, m)))
            /\ RoleBefore(Append(s, m)) = m.role
<1> DEFINE S == {s \in Seq(ChatSet) :
                   /\ ChatMessagesToAnthropic(s) \in Seq(MessageSet)
                   /\ RoleBefore(s) = "tool" => ChatMessagesToAnthropic(s) # << >>}
<1>1. \A s \in Seq(ChatSet), m \in ChatSet : RoleBefore(Append(s, m)) = m.role
  <2> TAKE s \in Seq(ChatSet), m \in ChatSet
  <2>1. Append(s, m) # << >> /\ Append(s, m)[Len(Append(s, m))] = m
    OBVIOUS
  <2> QED
    BY <2>1 DEF RoleBefore
<1>2. ASSUME NEW s \in Seq(ChatSet), s \in S, NEW m \in ChatSet
      PROVE  /\ NextConverted(s, m, RoleBefore(s), ChatMessagesToAnthropic(Append(s, m)))
             /\ ChatMessagesToAnthropic(Append(s, m)) \in Seq(MessageSet)
             /\ m.role = "tool" => ChatMessagesToAnthropic(Append(s, m)) # << >>
  <2> PICK r : r = RoleBefore(s)
    OBVIOUS
  <2> PICK o : o = ChatMessagesToAnthropic(s)
    OBVIOUS
  <2> PICK p : p = ChatMessagesToAnthropic(Append(s, m))
    OBVIOUS
  <2>1. p = AddMessage(o, m, r)
    BY ConvertAppend
  <2>2. o \in Seq(MessageSet) /\ (r = "tool" => o # << >>)
    BY <1>2
  <2>3. /\ Converted(m) \in Seq(MessageSet) /\ (m.role # "system" => Len(Converted(m)) = 1)
        /\ ResultBlock(m) \in BlockSet
    BY ConvertedType
  <2>4. CASE BehindAnswer(m, r)
    <3>1. p = WithBlock(o, ResultBlock(m))
      BY <2>1, <2>4, AddMessageIs
    <3>2. o # << >>
      BY <2>2, <2>4 DEF BehindAnswer
    <3>3. WithBlock(o, ResultBlock(m)) \in Seq(MessageSet) /\ Len(WithBlock(o, ResultBlock(m))) = Len(o)
      BY <2>2, <2>3, <3>2, WithBlockIs
    <3>4. p \in Seq(MessageSet) /\ p # << >>
      BY <2>2, <3>1, <3>2, <3>3
    <3> QED
      BY <2>4, <3>1, <3>4 DEF NextConverted
  <2>5. CASE ~BehindAnswer(m, r) /\ m.role = "system"
    <3>1. p = o /\ Converted(m) = << >>
      BY <2>1, <2>5, AddMessageIs
    <3>2. o \o << >> = o
      BY ONLY <2>2
    <3> QED
      BY <2>2, <2>5, <3>1, <3>2 DEF NextConverted
  <2>6. CASE ~BehindAnswer(m, r) /\ m.role # "system"
    <3> PICK x : x = Converted(m)[1]
      OBVIOUS
    <3>1. AddMessage(o, m, r) = Append(o, x)
      <4>1. \A out, previous : ~BehindAnswer(m, previous) /\ m.role # "system" =>
              AddMessage(out, m, previous) = Append(out, Converted(m)[1])
        BY ONLY m \in ChatSet, AddMessageIs
      <4> QED
        BY ONLY <2>6, <4>1, x = Converted(m)[1]
    <3>2. x \in MessageSet /\ Converted(m) = << x >>
      <4> PICK c : c = Converted(m)
        OBVIOUS
      <4>1. c \in Seq(MessageSet) /\ Len(c) = 1 /\ x = c[1]
        BY <2>3, <2>6
      <4>2. x \in MessageSet
        <5>1. c[1] \in MessageSet
          <6>1. c \in Seq(MessageSet) /\ 1 \in 1..Len(c)
            BY <4>1
          <6> QED
            BY ONLY <6>1, MemberType
        <5> QED
          BY <4>1, <5>1
      <4>3. << x >> \in Seq(MessageSet) /\ Len(<< x >>) = Len(c) /\ \A i \in 1..Len(c) : << x >>[i] = c[i]
        BY ONLY <4>1, <4>2
      <4>4. << x >> = c
        BY ONLY <4>1, <4>3, SameSequence
      <4> QED
        BY <4>2, <4>4
    <3>3. Append(o, x) = o \o << x >> /\ Append(o, x) \in Seq(MessageSet) /\ Append(o, x) # << >>
      BY ONLY <2>2, <3>2
    <3>4. p = o \o Converted(m) /\ p \in Seq(MessageSet) /\ p # << >>
      BY ONLY <2>1, <3>1, <3>2, <3>3
    <3>5. NextConverted(s, m, r, p)
      BY <2>6, <3>4 DEF NextConverted
    <3> QED
      BY <3>4, <3>5
  <2> QED
    BY <2>4, <2>5, <2>6
<1>3. ChatMessagesToAnthropic(<< >>) = << >>
  <2>2. PICK m : m \in ChatSet
    <3>1. << >> \in Seq(BlockSet)
      OBVIOUS
    <3>2. Empty \in ContentSet
      BY <3>1, ArrayType DEF Empty
    <3> QED
      BY <3>2, SaidType
  <2>3. << >> \in Seq(ChatSet)
    OBVIOUS
  <2> QED
    BY <2>2, <2>3, ConvertAppend
<1>4. << >> \in S
  <2>1. << >> \in Seq(ChatSet) /\ << >> \in Seq(MessageSet) /\ RoleBefore(<< >>) = ""
    BY DEF RoleBefore
  <2> QED
    BY <1>3, <2>1
<1>5. \A s \in Seq(ChatSet), m \in ChatSet : s \in S => Append(s, m) \in S
  <2> TAKE s \in Seq(ChatSet), m \in ChatSet
  <2> HAVE s \in S
  <2>1. Append(s, m) \in Seq(ChatSet)
    OBVIOUS
  <2>2. /\ ChatMessagesToAnthropic(Append(s, m)) \in Seq(MessageSet)
        /\ m.role = "tool" => ChatMessagesToAnthropic(Append(s, m)) # << >>
    <3> HIDE DEF S
    <3> QED
      BY <1>2
  <2> QED
    BY <1>1, <2>1, <2>2
<1>6. \A s \in Seq(ChatSet) : s \in S
  <2> HIDE DEF S
  <2> QED
    BY <1>4, <1>5, SeqInduction
<1> QED
  <2>1. ASSUME NEW s \in Seq(ChatSet)
        PROVE  /\ ChatMessagesToAnthropic(s) \in Seq(MessageSet)
               /\ RoleBefore(s) = "tool" => ChatMessagesToAnthropic(s) # << >>
               /\ \A m \in ChatSet :
                    NextConverted(s, m, RoleBefore(s), ChatMessagesToAnthropic(Append(s, m)))
    <3>1. s \in S
      BY <1>6
    <3>2. \A m \in ChatSet :
            NextConverted(s, m, RoleBefore(s), ChatMessagesToAnthropic(Append(s, m)))
      <4> HIDE DEF S
      <4> QED
        BY <1>2, <3>1
    <3> QED
      BY <3>1, <3>2
  <2> QED
    BY <1>1, <1>3, <2>1

\* Messages behind others are converted as on their own, unless an answer
\* follows one.
Apart(a, b) == b # << >> /\ RoleBefore(a) = "tool" => b[1].role # "tool"
ConvertsApart(a, b) ==
  Apart(a, b) => ChatMessagesToAnthropic(a \o b) =
                   ChatMessagesToAnthropic(a) \o ChatMessagesToAnthropic(b)

LEMMA ConvertJoin ==
  ASSUME NEW a \in Seq(ChatSet)
  PROVE  \A b \in Seq(ChatSet) : ConvertsApart(a, b)
<1> PICK A : A = ChatMessagesToAnthropic(a)
  OBVIOUS
<1> DEFINE S == {b \in Seq(ChatSet) : ConvertsApart(a, b)}
<1>1. A \in Seq(MessageSet) /\ ChatMessagesToAnthropic(<< >>) = << >>
  BY ConvertType
<1>2. << >> \in S
  <2>1. << >> \in Seq(ChatSet) /\ a \o << >> = a
    OBVIOUS
  <2>2. A \o << >> = A
    BY ONLY <1>1
  <2> QED
    BY <1>1, <2>1, <2>2 DEF ConvertsApart
<1>3. ASSUME NEW b \in Seq(ChatSet), NEW m \in ChatSet, ConvertsApart(a, b), Apart(a, Append(b, m))
      PROVE  ChatMessagesToAnthropic(a \o Append(b, m)) = A \o ChatMessagesToAnthropic(Append(b, m))
  <2> PICK B : B = ChatMessagesToAnthropic(b)
    OBVIOUS
  <2> PICK c : c = Converted(m)
    OBVIOUS
  <2> PICK x : x = ResultBlock(m)
    OBVIOUS
  <2>1. /\ a \o b \in Seq(ChatSet) /\ a \o Append(b, m) = Append(a \o b, m)
        /\ b # << >> => /\ Append(b, m)[1] = b[1] /\ Append(b, m) # << >>
                        /\ (a \o b)[Len(a \o b)] = b[Len(b)] /\ a \o b # << >>
        /\ b = << >> => Append(b, m)[1] = m /\ Append(b, m) # << >> /\ a \o b = a
    <3>1. a \o b \in Seq(ChatSet) /\ a \o Append(b, m) = Append(a \o b, m)
      OBVIOUS
    <3>2. CASE b = << >>
      <4>1. Append(b, m)[1] = m /\ Append(b, m) # << >>
        BY <3>2
      <4>2. a \o b = a
        BY <3>2
      <4> QED
        BY <3>1, <3>2, <4>1, <4>2
    <3>3. CASE b # << >>
      <4>1. Append(b, m)[1] = b[1] /\ Append(b, m) # << >>
        BY <3>3
      <4>2. (a \o b)[Len(a \o b)] = b[Len(b)] /\ a \o b # << >>
        <5> PICK n, k : n = Len(b) /\ k = Len(a)
          OBVIOUS
        <5>1. n \in 1..n /\ k \in Nat /\ n \in Nat
          BY <3>3
        <5>2. Len(a \o b) = k + n /\ (a \o b)[k + n] = b[n]
          BY <5>1, Joined
        <5> QED
          BY <5>1, <5>2
      <4> QED
        BY <3>1, <3>3, <4>1, <4>2
    <3> QED
      BY <3>2, <3>3
  <2>2. Apart(a, b) /\ (b # << >> => RoleBefore(a \o b) = RoleBefore(b))
    <3> PICK bb, ab : bb = Append(b, m) /\ ab = a \o b
      OBVIOUS
    <3>1. b # << >> => /\ bb[1] = b[1] /\ bb # << >>
                       /\ ab[Len(ab)] = b[Len(b)] /\ ab # << >>
      BY <2>1
    <3>2. bb # << >> /\ RoleBefore(a) = "tool" => bb[1].role # "tool"
      BY <1>3 DEF Apart
    <3>3. Apart(a, b)
      BY ONLY <3>1, <3>2 DEF Apart
    <3>4. b # << >> => RoleBefore(ab) = RoleBefore(b)
      BY ONLY <3>1 DEF RoleBefore
    <3> QED
      BY <3>3, <3>4
  <2>3. ChatMessagesToAnthropic(a \o b) = A \o B /\ B \in Seq(MessageSet)
    BY <1>3, <2>2, ConvertType DEF ConvertsApart
  <2>4. c \in Seq(MessageSet) /\ x \in BlockSet
    BY ConvertedType
  <2> PICK r : r = RoleBefore(a \o b)
    OBVIOUS
  <2> PICK q : q = RoleBefore(b)
    OBVIOUS
  <2> PICK bm : bm = ChatMessagesToAnthropic(Append(b, m))
    OBVIOUS
  <2> PICK abm : abm = ChatMessagesToAnthropic(Append(a \o b, m))
    OBVIOUS
  <2>5. /\ BehindAnswer(m, q) => bm = WithBlock(B, x)
        /\ ~BehindAnswer(m, q) => bm = B \o c
    <3>1. NextConverted(b, m, q, bm)
      BY ConvertType
    <3> QED
      BY <3>1 DEF NextConverted
  <2>6. /\ BehindAnswer(m, r) => abm = WithBlock(A \o B, x)
        /\ ~BehindAnswer(m, r) => abm = (A \o B) \o c
    <3>1. NextConverted(a \o b, m, r, abm)
      BY <2>1, ConvertType
    <3> QED
      BY <2>3, <3>1 DEF NextConverted
  <2>7. CASE b = << >>
    <3>1. ~BehindAnswer(m, q) /\ ~BehindAnswer(m, r)
      BY <1>3, <2>1, <2>7 DEF Apart, BehindAnswer, RoleBefore
    <3>2. B = << >>
      BY <1>1, <2>7
    <3>3. A \o << >> = A /\ << >> \o c = c
      BY ONLY <1>1, <2>4
    <3>4. bm = c /\ abm = A \o c
      BY <2>5, <2>6, <3>1, <3>2, <3>3
    <3> QED
      BY <2>1, <3>4
  <2>8. CASE b # << >>
    <3>1. r = q
      BY <2>2, <2>8
    <3>2. CASE BehindAnswer(m, q)
      <4>1. B # << >>
        <5>1. RoleBefore(b) = "tool"
          BY <3>2 DEF BehindAnswer
        <5> QED
          BY <5>1, ConvertType
      <4>2. WithBlock(A \o B, x) = A \o WithBlock(B, x)
        BY <1>1, <2>3, <2>4, <4>1, WithBlockIs
      <4> QED
        BY <2>1, <2>5, <2>6, <3>1, <3>2, <4>2
    <3>3. CASE ~BehindAnswer(m, q)
      <4>1. (A \o B) \o c = A \o (B \o c)
        BY ONLY <1>1, <2>3, <2>4
      <4> QED
        BY <2>1, <2>5, <2>6, <3>1, <3>3, <4>1
    <3> QED
      BY <3>2, <3>3
  <2> QED
    BY <2>7, <2>8
<1>4. \A b \in Seq(ChatSet), m \in ChatSet : b \in S => Append(b, m) \in S
  <2> TAKE b \in Seq(ChatSet), m \in ChatSet
  <2> HAVE b \in S
  <2>1. Append(b, m) \in Seq(ChatSet)
    OBVIOUS
  <2>2. ConvertsApart(a, b)
    OBVIOUS
  <2> HIDE DEF S
  <2>3. ConvertsApart(a, Append(b, m))
    BY <1>3, <2>2 DEF ConvertsApart
  <2> QED
    BY <2>1, <2>3 DEF S
<1>5. \A b \in Seq(ChatSet) : b \in S
  <2> HIDE DEF S
  <2> QED
    BY <1>2, <1>4, SeqInduction
<1> QED
  BY <1>5

\* A function of each member, as what is gathered of it.
LEMMA MapGathers ==
  ASSUME NEW M, NEW T, NEW h, IsMap(h, M, T),
         NEW g, IsMap(g, M, Seq(T)), \A m \in M : g[m] = << h[m] >>
  PROVE  \A s \in Seq(M) : Gathered(g, s) = Mapped(h, s)
<1>1. IsMap(g, M, Seq(T))
  OBVIOUS
<1> DEFINE S == {s \in Seq(M) : Gathered(g, s) = Mapped(h, s)}
<1>2. << >> \in S
  <2>1. Mapped(h, << >>) = << >>
    BY DEF Mapped
  <2> QED
    BY <2>1, GatherNothing
<1>3. ASSUME NEW q \in Seq(M), NEW m \in M, q \in S
      PROVE  Append(q, m) \in S
  <2>1. Append(q, m) \in Seq(M)
    OBVIOUS
  <2>2. Gathered(g, Append(q, m)) = Gathered(g, q) \o g[m]
    BY ONLY <1>1, q \in Seq(M), m \in M, GatherAppend
  <2>3. Mapped(h, q) \in Seq(T) /\ Mapped(h, Append(q, m)) = Append(Mapped(h, q), h[m])
    BY ONLY IsMap(h, M, T), q \in Seq(M), m \in M, MapAppend
  <2>4. h[m] \in T /\ g[m] = << h[m] >> /\ Gathered(g, q) = Mapped(h, q)
    BY <1>3 DEF IsMap
  <2>5. Mapped(h, q) \o << h[m] >> = Append(Mapped(h, q), h[m])
    BY ONLY <2>3, <2>4
  <2>6. Gathered(g, Append(q, m)) = Mapped(h, Append(q, m))
    BY ONLY <2>2, <2>3, <2>4, <2>5
  <2> QED
    BY <2>1, <2>6
<1>4. \A s \in Seq(M) : s \in S
  <2> HIDE DEF S
  <2> QED
    BY <1>2, <1>3, SeqInduction
<1> QED
  BY <1>4

\* Decoding a block takes the source from a picture.
DecodedOne(b) == IF b.type = "image" THEN Picture(<< >>) ELSE b
DecodeTaker == [b \in BlockSet |-> << DecodedOne(b) >>]

LEMMA DecodeTakes ==
  /\ IsMap(DecodeTaker, BlockSet, Seq(BlockSet))
  /\ \A s \in Seq(BlockSet) :
       /\ Decoded(s) = Gathered(DecodeTaker, s) /\ Decoded(s) \in Seq(BlockSet)
       /\ Len(Decoded(s)) = Len(s)
       /\ \A i \in 1..Len(s) : Decoded(s)[i].type = s[i].type
<1> DEFINE h == [b \in BlockSet |-> DecodedOne(b)]
<1>1. \A b \in BlockSet : DecodedOne(b) \in BlockSet /\ DecodedOne(b).type = b.type
  <2>1. << >> \in Seq(AnyPart) /\ Picture(<< >>).type = "image"
    BY DEF Picture, Block
  <2> QED
    BY <2>1, BlockTypes DEF DecodedOne
<1>2. IsMap(h, BlockSet, BlockSet)
  BY <1>1 DEF IsMap
<1>3. IsMap(DecodeTaker, BlockSet, Seq(BlockSet)) /\ \A b \in BlockSet : DecodeTaker[b] = << h[b] >>
  BY <1>1 DEF IsMap, DecodeTaker
<1>4. \A s \in Seq(BlockSet) : Decoded(s) = Mapped(h, s)
  <2> TAKE s \in Seq(BlockSet)
  <2>1. \A i \in DOMAIN s : s[i] \in BlockSet
    OBVIOUS
  <2> QED
    BY <2>1 DEF Decoded, Mapped, DecodedOne
<1>5. \A b \in BlockSet : h[b].type = b.type
  BY <1>1
<1> HIDE DEF h
<1>6. \A s \in Seq(BlockSet) : Gathered(DecodeTaker, s) = Mapped(h, s)
  BY ONLY <1>2, <1>3, MapGathers
<1>7. ASSUME NEW s \in Seq(BlockSet)
      PROVE  /\ Decoded(s) \in Seq(BlockSet) /\ Len(Decoded(s)) = Len(s)
             /\ \A i \in 1..Len(s) : Decoded(s)[i].type = s[i].type
  <2>1. /\ Mapped(h, s) \in Seq(BlockSet) /\ Len(Mapped(h, s)) = Len(s)
        /\ \A i \in 1..Len(s) : Mapped(h, s)[i] = h[s[i]]
    BY ONLY <1>2, s \in Seq(BlockSet), MapType
  <2>2. \A i \in 1..Len(s) : s[i] \in BlockSet
    BY MemberType
  <2> QED
    BY <1>4, <1>5, <2>1, <2>2
<1> QED
  BY <1>3, <1>4, <1>6, <1>7

LEMMA DecodeJoin ==
  ASSUME NEW a \in Seq(BlockSet), NEW b \in Seq(BlockSet)
  PROVE  Decoded(a \o b) = Decoded(a) \o Decoded(b)
<1>1. IsMap(DecodeTaker, BlockSet, Seq(BlockSet)) /\ a \in Seq(BlockSet) /\ b \in Seq(BlockSet)
  BY DecodeTakes
<1>2. Gathered(DecodeTaker, a \o b) = Gathered(DecodeTaker, a) \o Gathered(DecodeTaker, b)
  BY ONLY <1>1, GatherJoin
<1>3. a \o b \in Seq(BlockSet)
  OBVIOUS
<1> QED
  BY <1>1, <1>2, <1>3, DecodeTakes

LEMMA DecodeSame ==
  ASSUME NEW s \in Seq(BlockSet), \A i \in 1..Len(s) : s[i].type # "image"
  PROVE  Decoded(s) = s
<1>1. DOMAIN s = 1..Len(s) /\ s = [i \in DOMAIN s |-> s[i]]
  OBVIOUS
<1> QED
  BY <1>1 DEF Decoded

\* A turn in the agent: what its blocks become, reasoning still with them.
AgentTurn(t) ==
  LET m == AsAnthropic(t)
  IN  IF m.role = "user" THEN UserToChat(m.content) ELSE AssistantToChat(m.content)
Unsourced(c) == [c EXCEPT !.blocks = Decoded(@)]
UserChats(c) == IF c.blocks = << >> THEN << >> ELSE << Said("user", Unsourced(c)) >>
Replied(t, blocks) == Chat("assistant", Array(blocks), << >>, t.calls, 0)

LEMMA ArrayWith ==
  ASSUME NEW b \in Seq(BlockSet), NEW d \in Seq(BlockSet)
  PROVE  [Array(b) EXCEPT !.blocks = d] = Array(d)
<1> PICK e : e = [Array(b) EXCEPT !.blocks = d]
  OBVIOUS
<1>1. Array(b) \in ContentSet /\ ~Array(b).string /\ Array(d) \in ContentSet
      /\ Array(d).blocks = d /\ ~Array(d).string
  BY ArrayType
<1>2. e \in ContentSet /\ e.blocks = d /\ e.string = Array(b).string
  BY <1>1, WithBlocks
<1>3. e.string = Array(d).string
  BY <1>1, <1>2 DEF ContentSet
<1>4. e = Array(d)
  <2> PICK f : f = Array(d)
    OBVIOUS
  <2>1. e \in ContentSet /\ f \in ContentSet /\ e.blocks = f.blocks /\ e.string = f.string
    BY <1>1, <1>2, <1>3
  <2>2. e = f
    BY ONLY <2>1 DEF ContentSet
  <2> QED
    BY <2>2
<1> QED
  BY <1>4

LEMMA UnsourcedArray ==
  ASSUME NEW b \in Seq(BlockSet)
  PROVE  Unsourced(Array(b)) = Array(Decoded(b)) /\ Array(b).blocks = b /\ ~Array(b).string
<1> PICK d : d = Decoded(b)
  OBVIOUS
<1>1. Array(b).blocks = b /\ ~Array(b).string
  BY DEF Array
<1>2. [Array(b) EXCEPT !.blocks = d] = Array(d)
  <2>1. d \in Seq(BlockSet)
    BY DecodeTakes
  <2> QED
    BY <2>1, ArrayWith
<1>3. Unsourced(Array(b)) = [Array(b) EXCEPT !.blocks = d]
  BY <1>1 DEF Unsourced
<1> QED
  BY <1>1, <1>2, <1>3

LEMMA UserToChatIs ==
  ASSUME NEW c, ~c.string, NEW r \in Seq(BlockSet), NEW p \in Seq(BlockSet), c.blocks = r \o p,
         \A i \in 1..Len(r) : r[i].type = "tool_result",
         \A i \in 1..Len(p) : p[i].type \in {"text", "image"}
  PROVE  UserToChat(c) =
           Answered(r) \o IF p = << >> THEN << >> ELSE << Said("user", Array(Decoded(p))) >>
<1> PICK d : d = Decoded(p)
  OBVIOUS
<1>1. d \in Seq(BlockSet) /\ Len(d) = Len(p) /\ \A i \in 1..Len(d) : d[i].type \in {"text", "image"}
  BY DecodeTakes
<1>2. Decoded(c.blocks) = r \o d
  <2>1. Decoded(r \o p) = Decoded(r) \o Decoded(p)
    BY ONLY r \in Seq(BlockSet), p \in Seq(BlockSet), DecodeJoin
  <2>2. \A i \in 1..Len(r) : r[i].type # "image"
    OBVIOUS
  <2>3. Decoded(r) = r
    BY <2>2, DecodeSame
  <2> QED
    BY <2>1, <2>3
<1>3. OfType(r \o d, "tool_result") = r
  <2>1. OfType(r \o d, "tool_result") = OfType(r, "tool_result") \o OfType(d, "tool_result")
    BY ONLY r \in Seq(BlockSet), <1>1, JoinedTwo
  <2>2. OfType(r, "tool_result") = r
    BY AllTaken
  <2>3. OfType(d, "tool_result") = << >>
    <3>1. \A i \in 1..Len(d) : d[i].type # "tool_result"
      BY <1>1
    <3> QED
      BY <1>1, <3>1, NoneTaken
  <2>4. r \o << >> = r
    OBVIOUS
  <2> QED
    BY <2>1, <2>2, <2>3, <2>4
<1>4. OtherThan(r \o d, {"tool_result"}) = d
  <2>1. OtherThan(r \o d, {"tool_result"})
          = OtherThan(r, {"tool_result"}) \o OtherThan(d, {"tool_result"})
    <3>1. r \in Seq(BlockSet) /\ d \in Seq(BlockSet)
      BY <1>1
    <3> QED
      BY ONLY <3>1, OthersOfTwo
  <2>2. OtherThan(r, {"tool_result"}) = << >>
    <3>1. \A i \in 1..Len(r) : r[i].type \in {"tool_result"}
      OBVIOUS
    <3> QED
      BY <3>1, OthersTaken
  <2>3. OtherThan(d, {"tool_result"}) = d
    <3>1. \A i \in 1..Len(d) : d[i].type \notin {"tool_result"}
      BY <1>1
    <3> QED
      BY <1>1, <3>1, OthersTaken
  <2>4. << >> \o d = d
    BY <1>1
  <2> QED
    BY <2>1, <2>2, <2>3, <2>4
<1>5. d = << >> <=> p = << >>
  <2>1. Len(d) = 0 <=> Len(p) = 0
    BY <1>1
  <2>2. (Len(d) = 0 <=> d = << >>) /\ (Len(p) = 0 <=> p = << >>)
    BY <1>1
  <2> QED
    BY <2>1, <2>2
<1>6. UserToChat(c) = Answered(r) \o IF d = << >> THEN << >> ELSE << Said("user", Array(d)) >>
  BY <1>2, <1>3, <1>4 DEF UserToChat, Answered
<1> QED
  BY <1>5, <1>6

LEMMA UserTurnChats ==
  ASSUME NEW t \in TurnSet, t.by = "user"
  PROVE  AgentTurn(t) = UserChats(t.content)
<1> PICK c : c = t.content
  OBVIOUS
<1> PICK b : b = c.blocks
  OBVIOUS
<1>1. /\ c \in ContentSet /\ b \in Seq(BlockSet) /\ c.string \in BOOLEAN
      /\ c.string => c = String(b[1].text) /\ Len(b) = 1
      /\ \A k \in 1..Len(b) : b[k].type \in {"text", "image"}
  BY TurnFields
<1>2. AgentTurn(t) = UserToChat(c)
  <2>1. AsAnthropic(t) = Message("user", c)
    BY AnthropicTurn
  <2>2. Message("user", c).role = "user" /\ Message("user", c).content = c
    BY DEF Message
  <2> QED
    BY <2>1, <2>2 DEF AgentTurn
<1>3. CASE c.string
  <2>1. UserToChat(c) = << Said("user", c) >>
    BY <1>3 DEF UserToChat
  <2>2. Decoded(b) = b
    <3> PICK x : x = b[1].text
      OBVIOUS
    <3>1. b = << Text(x) >>
      BY <1>1, <1>3 DEF String
    <3>2. Text(x).type = "text"
      BY DEF Text, Block
    <3>3. \A i \in 1..Len(b) : b[i].type # "image"
      BY <3>1, <3>2
    <3> QED
      BY <1>1, <3>3, DecodeSame
  <2>3. Unsourced(c) = c
    BY <1>1, <2>2 DEF Unsourced, ContentSet
  <2>4. b # << >>
    BY <1>1, <1>3
  <2> QED
    BY <1>2, <2>1, <2>3, <2>4 DEF UserChats
<1>4. CASE ~c.string
  <2> PICK e : e = << >>
    OBVIOUS
  <2>1. e \in Seq(BlockSet) /\ c.blocks = e \o b /\ \A i \in 1..Len(e) : e[i].type = "tool_result"
    BY <1>1
  <2>2. UserToChat(c) =
          Answered(e) \o IF b = << >> THEN << >> ELSE << Said("user", Array(Decoded(b))) >>
    <3>1. /\ ~c.string /\ e \in Seq(BlockSet) /\ b \in Seq(BlockSet) /\ c.blocks = e \o b
          /\ \A i \in 1..Len(e) : e[i].type = "tool_result"
          /\ \A i \in 1..Len(b) : b[i].type \in {"text", "image"}
      BY <1>1, <1>4, <2>1
    <3> QED
      BY ONLY <3>1, UserToChatIs
  <2>3. Answered(e) = << >>
    BY DEF Answered
  <2>4. Array(Decoded(b)) = Unsourced(c)
    <3>1. c = Array(b)
      BY <1>1, <1>4 DEF Array, ContentSet
    <3> QED
      BY <1>1, <3>1, UnsourcedArray
  <2>5. << >> \o << >> = << >> /\ << >> \o << Said("user", Unsourced(c)) >> = << Said("user", Unsourced(c)) >>
    OBVIOUS
  <2> QED
    BY <1>2, <2>2, <2>3, <2>4, <2>5 DEF UserChats
<1> QED
  BY <1>3, <1>4

LEMMA ToolsTurnChats ==
  ASSUME NEW t \in TurnSet, t.by = "tools"
  PROVE  AgentTurn(t) = Answers(t.calls) \o UserChats(Array(t.content.blocks))
<1> PICK b : b = t.content.blocks
  OBVIOUS
<1> PICK r : r = ResultsOf(t.calls)
  OBVIOUS
<1>1. /\ b \in Seq(BlockSet) /\ t.calls \in Seq(Nat)
      /\ \A k \in 1..Len(b) : b[k].type \in {"text", "image"}
  BY TurnFields
<1>2. r \in Seq(BlockSet) /\ \A i \in 1..Len(r) : r[i].type = "tool_result"
  <2>1. /\ r \in Seq(BlockSet) /\ Len(r) = Len(t.calls)
        /\ \A k \in 1..Len(t.calls) : r[k] = ToolResult(t.calls[k], << "result" >>)
    BY <1>1, CallTypes
  <2>2. \A id, x : ToolResult(id, x).type = "tool_result"
    BY DEF ToolResult, Block
  <2> QED
    BY <2>1, <2>2
<1> PICK c : c = Array(r \o b)
  OBVIOUS
<1>3. ~c.string /\ c.blocks = r \o b
  BY DEF Array
<1>4. AgentTurn(t) = UserToChat(c)
  <2>1. AsAnthropic(t) = Message("user", c)
    BY AnthropicTurn
  <2>2. Message("user", c).role = "user" /\ Message("user", c).content = c
    BY DEF Message
  <2> QED
    BY <2>1, <2>2 DEF AgentTurn
<1>5. UserToChat(c) =
        Answered(r) \o IF b = << >> THEN << >> ELSE << Said("user", Array(Decoded(b))) >>
  BY <1>1, <1>2, <1>3, UserToChatIs
<1>6. Answered(r) = Answers(t.calls)
  BY <1>1, ResultsAnswered
<1>7. Array(Decoded(b)) = Unsourced(Array(b)) /\ Array(b).blocks = b
  BY <1>1, UnsourcedArray
<1> QED
  BY <1>4, <1>5, <1>6, <1>7 DEF UserChats

LEMMA ModelTurnChats ==
  ASSUME NEW t \in TurnSet, t.by = "model"
  PROVE  AgentTurn(t) = << Replied(t, Reasoned(t) \o t.content.blocks) >>
<1> PICK b : b = t.content.blocks
  OBVIOUS
<1> PICK r : r = Reasoned(t)
  OBVIOUS
<1> PICK u : u = Uses(t.calls)
  OBVIOUS
<1> PICK d : d = r \o b
  OBVIOUS
<1> PICK c : c = Array(d \o u)
  OBVIOUS
<1>1. /\ b \in Seq(BlockSet) /\ r \in Seq(BlockSet) /\ u \in Seq(BlockSet) /\ t.calls \in Seq(Nat)
      /\ \A k \in 1..Len(b) : b[k].type = "text"
      /\ \A k \in 1..Len(r) : r[k].type = "thinking"
      /\ Len(u) = Len(t.calls) /\ \A k \in 1..Len(t.calls) : u[k] = ToolUse(t.calls[k])
  BY TurnFields, ReasonedType, CallTypes
<1>2. \A k \in 1..Len(u) : u[k].type = "tool_use"
  <2>1. \A id : ToolUse(id).type = "tool_use"
    BY DEF ToolUse, Block
  <2> QED
    BY <1>1, <2>1
<1>3. d \in Seq(BlockSet) /\ \A k \in 1..Len(d) : d[k].type \in {"text", "thinking"}
  <2>1. d \in Seq(BlockSet) /\ Len(d) = Len(r) + Len(b)
        /\ (\A k \in 1..Len(r) : d[k] = r[k]) /\ (\A k \in 1..Len(b) : d[Len(r) + k] = b[k])
    BY <1>1, Joined
  <2> PICK n, m : n = Len(r) /\ m = Len(b)
    OBVIOUS
  <2>2. n \in Nat /\ m \in Nat
    BY <1>1
  <2>3. \A k \in 1..Len(d) : d[k].type \in {"text", "thinking"}
    <3> TAKE k \in 1..Len(d)
    <3>1. CASE k \in 1..n
      BY <1>1, <2>1, <3>1
    <3>2. CASE k \notin 1..n
      <4> PICK j : j = k - n
        OBVIOUS
      <4>1. j \in 1..m /\ k = n + j
        <5>1. k \in 1..Len(d) /\ Len(d) = n + m
          BY <2>1
        <5>2. k \in Nat /\ 1 <= k /\ k <= n + m
          BY ONLY <2>2, <5>1
        <5> QED
          BY ONLY <2>2, <3>2, <5>2, j = k - n
      <4> QED
        <5>1. d[n + j] = b[j] /\ b[j].type = "text"
          BY <1>1, <2>1, <4>1
        <5> QED
          BY ONLY <4>1, <5>1
    <3> QED
      BY <3>1, <3>2
  <2> QED
    BY <2>1, <2>3
<1>4. d \o u \in Seq(BlockSet) /\ ~c.string /\ c.blocks = d \o u
  <2>1. d \o u \in Seq(BlockSet)
    BY ONLY <1>1, <1>3
  <2> QED
    BY <2>1, UnsourcedArray
<1>5. AgentTurn(t) = AssistantToChat(c)
  <2>1. AsAnthropic(t) = Message("assistant", c)
    BY AnthropicTurn
  <2>2. Message("assistant", c).role = "assistant" /\ Message("assistant", c).content = c
    BY DEF Message
  <2> QED
    BY <2>1, <2>2 DEF AgentTurn
<1>6. Decoded(d \o u) = d \o u
  <2>1. Decoded(d \o u) = Decoded(d) \o Decoded(u)
    BY ONLY <1>1, <1>3, DecodeJoin
  <2>2. Decoded(d) = d
    <3>1. \A i \in 1..Len(d) : d[i].type # "image"
      BY <1>3
    <3> QED
      BY <1>3, <3>1, DecodeSame
  <2>3. Decoded(u) = u
    <3>1. \A i \in 1..Len(u) : u[i].type # "image"
      BY <1>2
    <3> QED
      BY <1>1, <3>1, DecodeSame
  <2> QED
    BY <2>1, <2>2, <2>3
<1>7. /\ OtherThan(d \o u, {"tool_use"}) = OtherThan(d, {"tool_use"}) \o OtherThan(u, {"tool_use"})
      /\ IdsOf(d \o u, "tool_use") = IdsOf(d, "tool_use") \o IdsOf(u, "tool_use")
  <2>1. /\ OfType(d \o u, "tool_use") = OfType(d, "tool_use") \o OfType(u, "tool_use")
        /\ OtherThan(d \o u, {"tool_use"}) = OtherThan(d, {"tool_use"}) \o OtherThan(u, {"tool_use"})
        /\ JoinOf(d \o u, "tool_use") = JoinOf(d, "tool_use") \o JoinOf(u, "tool_use")
        /\ IdsOf(d \o u, "tool_use") = IdsOf(d, "tool_use") \o IdsOf(u, "tool_use")
    <3>1. d \in Seq(BlockSet) /\ u \in Seq(BlockSet)
      BY <1>1, <1>3
    <3> QED
      BY ONLY <3>1, TakenOfJoin
  <2> QED
    BY <2>1
<1>8. OtherThan(d, {"tool_use"}) = d /\ IdsOf(d, "tool_use") = << >>
  <2>1. \A i \in 1..Len(d) : d[i].type \notin {"tool_use"} /\ d[i].type # "tool_use"
    BY <1>3
  <2>2. OtherThan(d, {"tool_use"}) = d
    BY <1>3, <2>1, OthersTaken
  <2>3. IdsOf(d, "tool_use") = << >>
    BY <1>3, <2>1, NoneTaken
  <2> QED
    BY <2>2, <2>3
<1>9. OtherThan(u, {"tool_use"}) = << >> /\ IdsOf(u, "tool_use") = t.calls
  <2>1. \A i \in 1..Len(u) : u[i].type \in {"tool_use"}
    BY <1>2
  <2>2. OtherThan(u, {"tool_use"}) = << >>
    <3>1. u \in Seq(BlockSet)
      BY <1>1
    <3> QED
      BY ONLY <2>1, <3>1, OthersTaken
  <2>3. IdsOf(u, "tool_use") = t.calls
    BY <1>1, OfResults
  <2> QED
    BY <2>2, <2>3
<1>10. d \o << >> = d /\ << >> \o t.calls = t.calls
  BY <1>1, <1>3
<1>11. OtherThan(Decoded(c.blocks), {"tool_use"}) = d /\ IdsOf(c.blocks, "tool_use") = t.calls
  BY <1>4, <1>6, <1>7, <1>8, <1>9, <1>10
<1> QED
  BY <1>4, <1>5, <1>11 DEF AssistantToChat, Replied

\* Reasoning is taken from a message of the agent's; most have none.
StrippedChat(c) == [c EXCEPT !.reasoning = << >>, !.content.blocks = OtherThan(@, ThinkingTypes)]
Unreasoned(c) ==
  /\ c \in ChatSet /\ c.reasoning = << >>
  /\ OtherThan(c.content.blocks, ThinkingTypes) = c.content.blocks

LEMMA StrippedType ==
  ASSUME NEW c \in ChatSet
  PROVE  /\ StrippedChat(c) \in ChatSet /\ StrippedChat(c).role = c.role
         /\ Unreasoned(c) => StrippedChat(c) = c
<1> PICK o : o = OtherThan(c.content.blocks, ThinkingTypes)
  OBVIOUS
<1>1. c.content \in ContentSet /\ c.content.blocks \in Seq(BlockSet)
  BY DEF ChatSet, ContentSet
<1>2. o \in Seq(BlockSet)
  BY <1>1, TakenType
<1> PICK k : k = [c.content EXCEPT !.blocks = o]
  OBVIOUS
<1>3. k \in ContentSet /\ (o = c.content.blocks => k = c.content)
  <2>1. k \in ContentSet /\ k.blocks = o /\ k.string = c.content.string
    BY <1>1, <1>2, WithBlocks
  <2>2. o = c.content.blocks => k = c.content
    BY ONLY <1>1, <2>1 DEF ContentSet
  <2> QED
    BY <2>1, <2>2
<1> PICK e : e = << >>
  OBVIOUS
<1>4. e \in Seq(AnyPart)
  OBVIOUS
<1>5. StrippedChat(c) = [c EXCEPT !.reasoning = e, !.content = k]
  BY DEF StrippedChat
<1> PICK d : d = [c EXCEPT !.reasoning = e, !.content = k]
  OBVIOUS
<1>6. d \in ChatSet /\ d.role = c.role /\ d.reasoning = e /\ d.content = k
      /\ d.calls = c.calls /\ d.answers = c.answers
  BY ONLY c \in ChatSet, <1>3, <1>4, d = [c EXCEPT !.reasoning = e, !.content = k] DEF ChatSet
<1>7. Unreasoned(c) => d = c
  <2> SUFFICES ASSUME Unreasoned(c)
               PROVE  d = c
    OBVIOUS
  <2>1. c.reasoning = e /\ k = c.content
    BY <1>3 DEF Unreasoned
  <2> QED
    BY ONLY <1>6, <2>1, c \in ChatSet DEF ChatSet
<1> QED
  BY <1>5, <1>6, <1>7

StripTaker == [c \in ChatSet |-> << StrippedChat(c) >>]
LEMMA StripTakes ==
  /\ IsMap(StripTaker, ChatSet, Seq(ChatSet))
  /\ \A s \in Seq(ChatSet) :
       /\ StripAllThinking(s) = Gathered(StripTaker, s) /\ StripAllThinking(s) \in Seq(ChatSet)
       /\ (\A i \in 1..Len(s) : Unreasoned(s[i])) => StripAllThinking(s) = s
<1> DEFINE h == [c \in ChatSet |-> StrippedChat(c)]
<1>1. IsMap(h, ChatSet, ChatSet)
  BY StrippedType DEF IsMap
<1>2. IsMap(StripTaker, ChatSet, Seq(ChatSet)) /\ \A c \in ChatSet : StripTaker[c] = << h[c] >>
  BY StrippedType DEF IsMap, StripTaker
<1>3. \A s \in Seq(ChatSet) : StripAllThinking(s) = Mapped(h, s)
  <2> TAKE s \in Seq(ChatSet)
  <2>1. \A i \in DOMAIN s : s[i] \in ChatSet
    OBVIOUS
  <2> QED
    BY <2>1 DEF StripAllThinking, Mapped, StrippedChat
<1> HIDE DEF h
<1>4. \A s \in Seq(ChatSet) : Gathered(StripTaker, s) = Mapped(h, s)
  BY ONLY <1>1, <1>2, MapGathers
<1>5. ASSUME NEW s \in Seq(ChatSet)
      PROVE  /\ StripAllThinking(s) \in Seq(ChatSet)
             /\ (\A i \in 1..Len(s) : Unreasoned(s[i])) => StripAllThinking(s) = s
  <2>1. /\ Mapped(h, s) \in Seq(ChatSet) /\ Len(Mapped(h, s)) = Len(s)
        /\ \A i \in 1..Len(s) : Mapped(h, s)[i] = h[s[i]]
    BY ONLY <1>1, s \in Seq(ChatSet), MapType
  <2>2. ASSUME \A i \in 1..Len(s) : Unreasoned(s[i])
        PROVE  Mapped(h, s) = s
    <3>1. \A i \in 1..Len(s) : h[s[i]] = s[i]
      <4> TAKE i \in 1..Len(s)
      <4>1. s[i] \in ChatSet
        BY MemberType
      <4>2. StrippedChat(s[i]) = s[i]
        BY <2>2, <4>1, StrippedType
      <4> QED
        BY <4>1, <4>2 DEF h
    <3> PICK m : m = Mapped(h, s)
      OBVIOUS
    <3>2. m \in Seq(ChatSet) /\ Len(m) = Len(s) /\ \A i \in 1..Len(s) : m[i] = s[i]
      BY <2>1, <3>1
    <3>3. m = s
      BY ONLY <3>2, s \in Seq(ChatSet)
    <3> QED
      BY <3>3
  <2> QED
    BY <1>3, <2>1, <2>2
<1> QED
  BY <1>2, <1>3, <1>4, <1>5

LEMMA StripOneChat ==
  ASSUME NEW c \in ChatSet
  PROVE  StripAllThinking(<< c >>) = << StrippedChat(c) >>
<1>1. IsMap(StripTaker, ChatSet, Seq(ChatSet)) /\ c \in ChatSet
  BY StripTakes
<1>2. Gathered(StripTaker, << c >>) = StripTaker[c]
  BY ONLY <1>1, GatherOne
<1>3. << c >> \in Seq(ChatSet)
  OBVIOUS
<1> QED
  BY <1>2, <1>3, StripTakes DEF StripTaker

\* The chats of tools and users carry none.
LEMMA UserChatsType ==
  ASSUME NEW c \in ContentSet, \A i \in 1..Len(c.blocks) : c.blocks[i].type \in {"text", "image"}
  PROVE  /\ UserChats(c) \in Seq(ChatSet) /\ Unsourced(c) \in ContentSet
         /\ Unsourced(c).blocks = Decoded(c.blocks)
         /\ \A i \in 1..Len(UserChats(c)) : Unreasoned(UserChats(c)[i]) /\ UserChats(c)[i].role = "user"
<1> PICK d : d = Decoded(c.blocks)
  OBVIOUS
<1>1. c.blocks \in Seq(BlockSet)
  BY DEF ContentSet
<1>2. d \in Seq(BlockSet) /\ Len(d) = Len(c.blocks)
      /\ \A i \in 1..Len(c.blocks) : d[i].type = c.blocks[i].type
  BY <1>1, DecodeTakes
<1>3. Unsourced(c) \in ContentSet /\ Unsourced(c).blocks = d
  <2>1. Unsourced(c) = [c EXCEPT !.blocks = d]
    BY DEF Unsourced
  <2> QED
    BY <1>2, <2>1, WithBlocks
<1> PICK x : x = Said("user", Unsourced(c))
  OBVIOUS
<1>4. x \in ChatSet /\ x.reasoning = << >> /\ x.role = "user" /\ x.content = Unsourced(c)
  BY <1>3, SaidType DEF Said, Chat
<1>5. OtherThan(d, ThinkingTypes) = d
  <2>1. \A i \in 1..Len(d) : d[i].type \notin ThinkingTypes
    BY <1>2 DEF ThinkingTypes
  <2> QED
    BY <1>2, <2>1, OthersTaken
<1>6. Unreasoned(x)
  BY <1>3, <1>4, <1>5 DEF Unreasoned
<1>7. CASE c.blocks = << >>
  <2>1. UserChats(c) = << >>
    BY <1>7 DEF UserChats
  <2> QED
    BY <1>3, <2>1
<1>8. CASE c.blocks # << >>
  <2>1. UserChats(c) = << x >>
    BY <1>8 DEF UserChats
  <2>2. << x >> \in Seq(ChatSet) /\ Len(<< x >>) = 1 /\ << x >>[1] = x
    BY <1>4
  <2> QED
    BY <1>3, <1>4, <1>6, <2>1, <2>2
<1> QED
  BY <1>7, <1>8

LEMMA AnswersPlain ==
  ASSUME NEW calls \in Seq(Nat)
  PROVE  \A i \in 1..Len(Answers(calls)) :
           Unreasoned(Answers(calls)[i]) /\ Answers(calls)[i].role = "tool"
<1> PICK a : a = Answers(calls)
  OBVIOUS
<1> PICK k : k = String(<< "result" >>)
  OBVIOUS
<1>1. /\ a \in Seq(ChatSet) /\ Len(a) = Len(calls)
      /\ \A i \in 1..Len(calls) : a[i] = Answer(calls[i], k)
  BY CallTypes
<1>2. \A id : Answer(id, k).reasoning = << >> /\ Answer(id, k).content = k /\ Answer(id, k).role = "tool"
  BY DEF Answer, Chat
<1>3. OtherThan(k.blocks, ThinkingTypes) = k.blocks
  <2> PICK b : b = Text(<< "result" >>)
    OBVIOUS
  <2>1. k.blocks = << b >> /\ b \in BlockSet
    BY ResultText, StringType, BlockTypes
  <2>2. b.type \notin ThinkingTypes
    BY DEF Text, Block, ThinkingTypes
  <2>3. << b >> \in Seq(BlockSet) /\ \A i \in 1..Len(<< b >>) : << b >>[i].type \notin ThinkingTypes
    BY <2>1, <2>2
  <2> QED
    BY <2>1, <2>3, OthersTaken
<1>4. \A i \in 1..Len(a) : Unreasoned(a[i]) /\ a[i].role = "tool"
  <2> TAKE i \in 1..Len(a)
  <2>1. a[i] \in ChatSet
    BY <1>1, MemberType
  <2>2. a[i] = Answer(calls[i], k)
    BY <1>1
  <2> QED
    BY <1>2, <1>3, <2>1, <2>2 DEF Unreasoned
<1> QED
  BY <1>4

\* A turn in the agent, reasoning removed.
TurnChats(t) ==
  IF t.by = "user" THEN UserChats(t.content)
  ELSE IF t.by = "tools" THEN Answers(t.calls) \o UserChats(Array(t.content.blocks))
  ELSE << Replied(t, t.content.blocks) >>

\* What the content of a turn is, as an array.
LEMMA TurnArray ==
  ASSUME NEW t \in TurnSet
  PROVE  /\ t.content.blocks \in Seq(BlockSet) /\ t.content \in ContentSet
         /\ Array(t.content.blocks) \in ContentSet
         /\ Array(t.content.blocks).blocks = t.content.blocks
         /\ \A i \in 1..Len(t.content.blocks) : t.content.blocks[i].type \in {"text", "image"}
         /\ UserChats(t.content) \in Seq(ChatSet)
         /\ UserChats(Array(t.content.blocks)) \in Seq(ChatSet)
<1> PICK b : b = t.content.blocks
  OBVIOUS
<1> PICK c : c = t.content
  OBVIOUS
<1> PICK a : a = Array(b)
  OBVIOUS
<1>1. /\ b \in Seq(BlockSet) /\ c \in ContentSet /\ c.blocks = b
      /\ \A i \in 1..Len(b) : b[i].type \in {"text", "image"}
  BY TurnFields
<1>2. a \in ContentSet /\ a.blocks = b
  BY <1>1, ArrayType
<1>3. UserChats(c) \in Seq(ChatSet)
  BY <1>1, UserChatsType
<1>4. UserChats(a) \in Seq(ChatSet)
  BY <1>1, <1>2, UserChatsType
<1> QED
  BY <1>1, <1>2, <1>3, <1>4

LEMMA RepliedType ==
  ASSUME NEW t \in TurnSet, NEW b \in Seq(BlockSet)
  PROVE  /\ Replied(t, b) \in ChatSet /\ Replied(t, b).role = "assistant"
         /\ Replied(t, b).content = Array(b) /\ Replied(t, b).calls = t.calls
         /\ StrippedChat(Replied(t, b)) = Replied(t, OtherThan(b, ThinkingTypes))
<1> PICK k : k = Array(b)
  OBVIOUS
<1> PICK o : o = OtherThan(b, ThinkingTypes)
  OBVIOUS
<1> PICK e : e = << >>
  OBVIOUS
<1> PICK calls : calls = t.calls
  OBVIOUS
<1>1. k \in ContentSet /\ k.blocks = b /\ ~k.string /\ calls \in Seq(Nat)
  BY ArrayType, TurnFields
<1>2. o \in Seq(BlockSet)
  BY TakenType
<1>3. e \in Seq(AnyPart)
  OBVIOUS
<1>4. \A c \in ContentSet :
        /\ Chat("assistant", c, e, calls, 0) \in ChatSet
        /\ Chat("assistant", c, e, calls, 0).role = "assistant"
        /\ Chat("assistant", c, e, calls, 0).content = c
        /\ Chat("assistant", c, e, calls, 0).calls = calls
        /\ Chat("assistant", c, e, calls, 0).reasoning = e
        /\ Chat("assistant", c, e, calls, 0).answers = 0
  BY <1>1, <1>3 DEF Chat, ChatSet
<1>5. [k EXCEPT !.blocks = o] = Array(o) /\ Array(o) \in ContentSet
  BY <1>2, ArrayWith, ArrayType
<1> PICK r : r = Replied(t, b)
  OBVIOUS
<1>6. r = Chat("assistant", k, e, calls, 0) /\ Replied(t, o) = Chat("assistant", Array(o), e, calls, 0)
  BY DEF Replied
<1>7. StrippedChat(r) = [r EXCEPT !.reasoning = e, !.content = Array(o)]
  <2>1. r.content.blocks = b /\ r.content = k
    BY <1>1, <1>4, <1>6
  <2>2. StrippedChat(r) = [r EXCEPT !.reasoning = e, !.content = [r.content EXCEPT !.blocks = o]]
    BY <2>1 DEF StrippedChat
  <2> QED
    BY <1>5, <2>1, <2>2
<1>8. StrippedChat(r) = Replied(t, o)
  <2> PICK k2 : k2 = Array(o)
    OBVIOUS
  <2> PICK s : s = [r EXCEPT !.reasoning = e, !.content = k2]
    OBVIOUS
  <2> PICK q : q = Replied(t, o)
    OBVIOUS
  <2>1. /\ r \in ChatSet /\ r.role = "assistant" /\ r.calls = calls /\ r.answers = 0
        /\ k2 \in ContentSet
    BY <1>1, <1>4, <1>5, <1>6
  <2>2. /\ s \in ChatSet /\ s.role = r.role /\ s.content = k2 /\ s.reasoning = e
        /\ s.calls = r.calls /\ s.answers = r.answers
    BY ONLY <2>1, <1>3, s = [r EXCEPT !.reasoning = e, !.content = k2] DEF ChatSet
  <2>3. /\ q \in ChatSet /\ q.role = "assistant" /\ q.content = k2 /\ q.reasoning = e
        /\ q.calls = calls /\ q.answers = 0
    BY <1>4, <1>5, <1>6
  <2>4. /\ s \in ChatSet /\ q \in ChatSet /\ s.role = q.role /\ s.content = q.content
        /\ s.reasoning = q.reasoning /\ s.calls = q.calls /\ s.answers = q.answers
    BY <2>1, <2>2, <2>3
  <2>5. s = q
    BY ONLY <2>4 DEF ChatSet
  <2> QED
    BY <1>7, <2>5
<1> QED
  BY <1>1, <1>4, <1>6, <1>8

LEMMA TurnChatsType ==
  ASSUME NEW t \in TurnSet
  PROVE  /\ TurnChats(t) \in Seq(ChatSet) /\ AgentTurn(t) \in Seq(ChatSet)
         /\ StripAllThinking(AgentTurn(t)) = TurnChats(t)
<1> PICK b : b = t.content.blocks
  OBVIOUS
<1>1. t.by \in {"user", "tools", "model"} /\ t.calls \in Seq(Nat)
  BY TurnFields
<1>2. CASE t.by = "user"
  <2> PICK u : u = UserChats(t.content)
    OBVIOUS
  <2>1. u \in Seq(ChatSet) /\ \A i \in 1..Len(u) : Unreasoned(u[i])
    BY TurnArray, UserChatsType
  <2>2. AgentTurn(t) = u /\ TurnChats(t) = u
    BY <1>2, UserTurnChats DEF TurnChats
  <2> QED
    BY <2>1, <2>2, StripTakes
<1>3. CASE t.by = "tools"
  <2> PICK u : u = UserChats(Array(b))
    OBVIOUS
  <2> PICK a : a = Answers(t.calls)
    OBVIOUS
  <2>1. u \in Seq(ChatSet) /\ \A i \in 1..Len(u) : Unreasoned(u[i])
    BY TurnArray, UserChatsType
  <2>2. a \in Seq(ChatSet) /\ \A i \in 1..Len(a) : Unreasoned(a[i])
    BY <1>1, CallTypes, AnswersPlain
  <2>3. AgentTurn(t) = a \o u /\ TurnChats(t) = a \o u
    BY <1>3, ToolsTurnChats DEF TurnChats
  <2>4. a \o u \in Seq(ChatSet)
    BY ONLY <2>1, <2>2
  <2>5. StripAllThinking(a \o u) = StripAllThinking(a) \o StripAllThinking(u)
    <3>1. IsMap(StripTaker, ChatSet, Seq(ChatSet)) /\ a \in Seq(ChatSet) /\ u \in Seq(ChatSet)
      BY <2>1, <2>2, StripTakes
    <3>2. Gathered(StripTaker, a \o u) = Gathered(StripTaker, a) \o Gathered(StripTaker, u)
      BY ONLY <3>1, GatherJoin
    <3> QED
      BY <2>4, <3>1, <3>2, StripTakes
  <2>6. StripAllThinking(a) = a /\ StripAllThinking(u) = u
    BY <2>1, <2>2, StripTakes
  <2> QED
    BY <2>3, <2>4, <2>5, <2>6
<1>4. CASE t.by = "model"
  <2> PICK r : r = Reasoned(t)
    OBVIOUS
  <2> PICK d : d = r \o b
    OBVIOUS
  <2>1. /\ b \in Seq(BlockSet) /\ r \in Seq(BlockSet)
        /\ \A k \in 1..Len(b) : b[k].type = "text"
        /\ \A k \in 1..Len(r) : r[k].type = "thinking"
    BY <1>4, TurnFields, ReasonedType
  <2>2. d \in Seq(BlockSet)
    BY ONLY <2>1, d = r \o b
  <2>3. OtherThan(d, ThinkingTypes) = b
    <3>1. OtherThan(d, ThinkingTypes) = OtherThan(r, ThinkingTypes) \o OtherThan(b, ThinkingTypes)
      <4>1. /\ OfType(r \o b, "text") = OfType(r, "text") \o OfType(b, "text")
            /\ OtherThan(r \o b, ThinkingTypes) = OtherThan(r, ThinkingTypes) \o OtherThan(b, ThinkingTypes)
            /\ JoinOf(r \o b, "text") = JoinOf(r, "text") \o JoinOf(b, "text")
            /\ IdsOf(r \o b, "text") = IdsOf(r, "text") \o IdsOf(b, "text")
        BY ONLY <2>1, TakenOfJoin
      <4> QED
        BY <4>1
    <3>2. OtherThan(r, ThinkingTypes) = << >>
      <4>1. \A k \in 1..Len(r) : r[k].type \in ThinkingTypes
        BY <2>1 DEF ThinkingTypes
      <4> QED
        BY <2>1, <4>1, OthersTaken
    <3>3. OtherThan(b, ThinkingTypes) = b
      <4>1. \A k \in 1..Len(b) : b[k].type \notin ThinkingTypes
        BY <2>1 DEF ThinkingTypes
      <4> QED
        BY <2>1, <4>1, OthersTaken
    <3>4. << >> \o b = b
      BY <2>1
    <3> QED
      BY <3>1, <3>2, <3>3, <3>4
  <2>4. AgentTurn(t) = << Replied(t, d) >> /\ TurnChats(t) = << Replied(t, b) >>
    BY <1>4, ModelTurnChats DEF TurnChats
  <2>5. Replied(t, d) \in ChatSet /\ Replied(t, b) \in ChatSet
        /\ StrippedChat(Replied(t, d)) = Replied(t, b)
    BY <2>1, <2>2, <2>3, RepliedType
  <2>6. \A x \in ChatSet : << x >> \in Seq(ChatSet)
    OBVIOUS
  <2> QED
    BY <2>4, <2>5, <2>6, StripOneChat
<1> QED
  BY <1>1, <1>2, <1>3, <1>4

\* A message of the agent's on its own, and the message of an array.
LEMMA ConvertOne ==
  ASSUME NEW c \in ChatSet
  PROVE  ChatMessagesToAnthropic(<< c >>) = Converted(c)
<1> PICK e : e = << >>
  OBVIOUS
<1> PICK new : new = ChatMessagesToAnthropic(Append(e, c))
  OBVIOUS
<1>1. e \in Seq(ChatSet) /\ Append(e, c) = << c >>
  OBVIOUS
<1>2. NextConverted(e, c, RoleBefore(e), new)
  BY <1>1, ConvertType
<1>3. ~BehindAnswer(c, RoleBefore(e))
  BY DEF RoleBefore, BehindAnswer
<1>4. ChatMessagesToAnthropic(e) = << >> /\ Converted(c) \in Seq(MessageSet)
  BY ConvertType, ConvertedType
<1>5. << >> \o Converted(c) = Converted(c)
  BY ONLY <1>4
<1> QED
  BY <1>1, <1>2, <1>3, <1>4, <1>5 DEF NextConverted

LEMMA UserMessageIs ==
  ASSUME NEW c \in ContentSet
  PROVE  Message("user", c) \in MessageSet /\ Message("user", c).content = c
         /\ Message("user", c).role = "user"
BY DEF Message, MessageSet

\* One block more in a message of the user's.
LEMMA UserMessageWith ==
  ASSUME NEW b \in Seq(BlockSet), NEW x \in BlockSet
  PROVE  [Message("user", Array(b)) EXCEPT !.content.blocks = Append(@, x)]
           = Message("user", Array(Append(b, x)))
<1> PICK d : d = Append(b, x)
  OBVIOUS
<1> PICK m : m = Message("user", Array(b))
  OBVIOUS
<1> PICK n : n = Message("user", Array(d))
  OBVIOUS
<1> PICK e : e = [m EXCEPT !.content.blocks = d]
  OBVIOUS
<1>1. d \in Seq(BlockSet)
  BY ONLY b \in Seq(BlockSet), x \in BlockSet, d = Append(b, x)
<1>2. Array(b) \in ContentSet /\ Array(b).blocks = b /\ Array(d) \in ContentSet
  BY <1>1, ArrayType
<1>3. /\ m \in MessageSet /\ m.content = Array(b) /\ m.role = "user"
      /\ n \in MessageSet /\ n.content = Array(d) /\ n.role = "user"
  BY <1>2, UserMessageIs
<1>4. e \in MessageSet /\ e.content = [m.content EXCEPT !.blocks = d] /\ e.role = m.role
  BY <1>1, <1>3, MessageWith
<1>5. [m.content EXCEPT !.blocks = d] = Array(d)
  <2>1. [Array(b) EXCEPT !.blocks = d] = Array(d)
    BY <1>1, ArrayWith
  <2> QED
    BY <1>3, <2>1
<1>6. e \in MessageSet /\ n \in MessageSet /\ e.content = n.content /\ e.role = n.role
  BY <1>3, <1>4, <1>5
<1>7. e = n
  BY ONLY <1>6 DEF MessageSet
<1>8. [m EXCEPT !.content.blocks = Append(@, x)] = e
  BY <1>2, <1>3
<1> QED
  BY <1>7, <1>8

\* The answers of a turn become the results of one message.
LEMMA AnswerConverted ==
  ASSUME NEW id \in Nat
  PROVE  LET a == Answer(id, String(<< "result" >>))
             x == ToolResult(id, << "result" >>)
         IN  /\ a \in ChatSet /\ a.role = "tool" /\ x \in BlockSet
             /\ ResultBlock(a) = x /\ Converted(a) = << Message("user", Array(<< x >>)) >>
<1> DEFINE k == String(<< "result" >>)
           a == Answer(id, k)
           x == ToolResult(id, << "result" >>)
<1>1. k \in ContentSet /\ TextOf(k) = << "result" >> /\ x \in BlockSet
  BY ResultText, StringType, TextOfString, BlockTypes
<1>2. << >> \in Seq(AnyPart) /\ << >> \in Seq(Nat)
  OBVIOUS
<1> HIDE DEF k
<1>3. a \in ChatSet /\ a.role = "tool" /\ a.content = k /\ a.answers = id
  BY <1>1, <1>2 DEF Answer, Chat, ChatSet
<1>4. ResultBlock(a) = x
  BY <1>1, <1>3 DEF ResultBlock
<1>5. Converted(a) = << Message("user", Array(<< x >>)) >>
  BY <1>3, <1>4 DEF Converted
<1> QED
  BY <1>1, <1>3, <1>4, <1>5 DEF k

LEMMA AnswersConverted ==
  \A calls \in Seq(Nat) : calls # << >> =>
    /\ ChatMessagesToAnthropic(Answers(calls)) = << Message("user", Array(ResultsOf(calls))) >>
    /\ Answers(calls) # << >> /\ RoleBefore(Answers(calls)) = "tool"
<1> DEFINE S == {q \in Seq(Nat) : q # << >> =>
                   /\ ChatMessagesToAnthropic(Answers(q)) = << Message("user", Array(ResultsOf(q))) >>
                   /\ Answers(q) # << >> /\ RoleBefore(Answers(q)) = "tool"}
<1>1. << >> \in S
  OBVIOUS
<1>2. ASSUME NEW q \in Seq(Nat), NEW id \in Nat, q \in S
      PROVE  Append(q, id) \in S
  <2> DEFINE a == Answer(id, String(<< "result" >>))
             x == ToolResult(id, << "result" >>)
  <2> PICK c : c = Answers(q)
    OBVIOUS
  <2> PICK r : r = ResultsOf(q)
    OBVIOUS
  <2> PICK q2 : q2 = Append(q, id)
    OBVIOUS
  <2>1. a \in ChatSet /\ a.role = "tool" /\ x \in BlockSet /\ ResultBlock(a) = x
        /\ Converted(a) = << Message("user", Array(<< x >>)) >>
    BY AnswerConverted
  <2>2. /\ c \in Seq(ChatSet) /\ Len(c) = Len(q) /\ r \in Seq(BlockSet) /\ Len(r) = Len(q)
        /\ \A i \in 1..Len(q) : /\ r[i] = ToolResult(q[i], << "result" >>)
                                /\ c[i] = Answer(q[i], String(<< "result" >>))
    BY CallTypes
  <2>3. q2 \in Seq(Nat) /\ q2 # << >> /\ Len(q2) = Len(q) + 1 /\ q2[Len(q) + 1] = id
        /\ \A i \in 1..Len(q) : q2[i] = q[i]
    OBVIOUS
  <2>4. /\ Answers(q2) \in Seq(ChatSet) /\ Len(Answers(q2)) = Len(q2)
        /\ ResultsOf(q2) \in Seq(BlockSet) /\ Len(ResultsOf(q2)) = Len(q2)
        /\ \A i \in 1..Len(q2) : /\ ResultsOf(q2)[i] = ToolResult(q2[i], << "result" >>)
                                 /\ Answers(q2)[i] = Answer(q2[i], String(<< "result" >>))
    BY <2>3, CallTypes
  <2> HIDE DEF a, x, S
  <2>5. Answers(q2) = Append(c, a)
    <3> PICK n : n = Len(q)
      OBVIOUS
    <3>1. n \in Nat /\ 1..(n + 1) = 1..n \cup {n + 1}
      OBVIOUS
    <3>2. /\ Append(c, a) \in Seq(ChatSet) /\ Len(Append(c, a)) = n + 1
          /\ Append(c, a)[n + 1] = a /\ \A i \in 1..n : Append(c, a)[i] = c[i]
      BY <2>1, <2>2, <3>1
    <3>3. \A i \in 1..(n + 1) : Answers(q2)[i] = Append(c, a)[i]
      <4> TAKE i \in 1..(n + 1)
      <4>1. i \in 1..Len(q2) /\ (i \in 1..n \/ i = n + 1)
        BY <2>3, <3>1
      <4>2. Answers(q2)[i] = Answer(q2[i], String(<< "result" >>))
        BY <2>4, <4>1
      <4> QED
        BY <2>2, <2>3, <3>2, <4>1, <4>2 DEF a
    <3>4. Answers(q2) \in Seq(ChatSet) /\ Len(Answers(q2)) = n + 1
      BY <2>3, <2>4
    <3> QED
      BY <3>2, <3>3, <3>4, SameSequence
  <2>6. ResultsOf(q2) = Append(r, x)
    <3> PICK n : n = Len(q)
      OBVIOUS
    <3>1. n \in Nat /\ 1..(n + 1) = 1..n \cup {n + 1}
      OBVIOUS
    <3>2. /\ Append(r, x) \in Seq(BlockSet) /\ Len(Append(r, x)) = n + 1
          /\ Append(r, x)[n + 1] = x /\ \A i \in 1..n : Append(r, x)[i] = r[i]
      BY <2>1, <2>2, <3>1
    <3>3. \A i \in 1..(n + 1) : ResultsOf(q2)[i] = Append(r, x)[i]
      <4> TAKE i \in 1..(n + 1)
      <4>1. i \in 1..Len(q2) /\ (i \in 1..n \/ i = n + 1)
        BY <2>3, <3>1
      <4>2. ResultsOf(q2)[i] = ToolResult(q2[i], << "result" >>)
        BY <2>4, <4>1
      <4> QED
        BY <2>2, <2>3, <3>2, <4>1, <4>2 DEF x
    <3>4. ResultsOf(q2) \in Seq(BlockSet) /\ Len(ResultsOf(q2)) = n + 1
      BY <2>3, <2>4
    <3> QED
      BY <3>2, <3>3, <3>4, SameSequence
  <2>7. RoleBefore(Append(c, a)) = "tool" /\ Append(c, a) # << >>
    <3>1. RoleBefore(Append(c, a)) = a.role
      BY <2>1, <2>2, ConvertType
    <3>2. Append(c, a) # << >>
      BY ONLY <2>1, <2>2
    <3> QED
      BY <2>1, <3>1, <3>2
  <2> PICK new : new = ChatMessagesToAnthropic(Append(c, a))
    OBVIOUS
  <2>8. NextConverted(c, a, RoleBefore(c), new)
    BY <2>1, <2>2, ConvertType
  <2>9. new = << Message("user", Array(Append(r, x))) >>
    <3>1. CASE q = << >>
      <4>1. c = << >> /\ r = << >>
        BY <2>2, <3>1
      <4>2. ~BehindAnswer(a, RoleBefore(c))
        BY <4>1 DEF RoleBefore, BehindAnswer
      <4>3. ChatMessagesToAnthropic(c) = << >>
        BY <4>1, ConvertType
      <4>4. << >> \o Converted(a) = Converted(a) /\ Append(r, x) = << x >>
        BY <2>1, <4>1
      <4> QED
        BY <2>1, <2>8, <4>2, <4>3, <4>4 DEF NextConverted
    <3>2. CASE q # << >>
      <4> PICK m : m = Message("user", Array(r))
        OBVIOUS
      <4>1. ChatMessagesToAnthropic(c) = << m >> /\ RoleBefore(c) = "tool"
        BY <1>2, <3>2 DEF S
      <4>2. new = WithBlock(<< m >>, x)
        BY <2>1, <2>8, <4>1 DEF NextConverted, BehindAnswer
      <4>3. m \in MessageSet
        BY <2>2, ArrayType, UserMessageIs
      <4>4. << m >> \in Seq(MessageSet) /\ << m >> # << >> /\ Len(<< m >>) = 1 /\ << m >>[1] = m
        BY <4>3
      <4> PICK e, b : e = << >> /\ b = << m >>
        OBVIOUS
      <4>5. e \in Seq(MessageSet) /\ b \in Seq(MessageSet) /\ b # << >> /\ x \in BlockSet /\ Len(b) = 1
        BY <2>1, <4>4
      <4>6. WithBlock(b, x) = << [b[1] EXCEPT !.content.blocks = Append(@, x)] >>
        BY ONLY <4>5, WithBlockIs
      <4>7. [m EXCEPT !.content.blocks = Append(@, x)] = Message("user", Array(Append(r, x)))
        BY <2>1, <2>2, UserMessageWith
      <4> QED
        BY <4>2, <4>4, <4>6, <4>7
    <3> QED
      BY <3>1, <3>2
  <2> QED
    BY <2>3, <2>5, <2>6, <2>7, <2>9 DEF S
<1>3. \A q \in Seq(Nat) : q \in S
  <2> HIDE DEF S
  <2> QED
    BY <1>1, <1>2, SeqInduction
<1> QED
  BY <1>3

\* A turn as the agent sends it on.
UserMessages(c) == IF c.blocks = << >> THEN << >> ELSE << Message("user", Unsourced(c)) >>
TurnMessages(t) ==
  IF t.by = "user" THEN UserMessages(t.content)
  ELSE IF t.by = "tools"
  THEN << Message("user", Array(ResultsOf(t.calls))) >> \o UserMessages(Array(t.content.blocks))
  ELSE << Message("assistant", Array(t.content.blocks \o Uses(t.calls))) >>

LEMMA UserConverted ==
  ASSUME NEW c \in ContentSet, \A i \in 1..Len(c.blocks) : c.blocks[i].type \in {"text", "image"}
  PROVE  /\ ChatMessagesToAnthropic(UserChats(c)) = UserMessages(c)
         /\ UserMessages(c) \in Seq(MessageSet)
         /\ UserChats(c) # << >> => UserChats(c)[1].role # "tool"
<1> PICK u : u = Unsourced(c)
  OBVIOUS
<1> PICK x : x = Said("user", u)
  OBVIOUS
<1>1. u \in ContentSet
  BY UserChatsType
<1>2. x \in ChatSet /\ x.role = "user" /\ x.content = u
  BY <1>1, SaidType DEF Said, Chat
<1>3. CASE c.blocks = << >>
  BY <1>3, ConvertType DEF UserChats, UserMessages
<1>4. CASE c.blocks # << >>
  <2>1. UserChats(c) = << x >> /\ UserMessages(c) = << Message("user", u) >>
    BY <1>4 DEF UserChats, UserMessages
  <2>2. Converted(x) = << Message("user", u) >>
    BY <1>2 DEF Converted
  <2>3. << x >>[1] = x /\ Converted(x) \in Seq(MessageSet)
    BY <1>2, ConvertedType
  <2> QED
    BY <1>2, <2>1, <2>2, <2>3, ConvertOne
<1> QED
  BY <1>3, <1>4

LEMMA TurnConverted ==
  ASSUME NEW t \in TurnSet
  PROVE  /\ ChatMessagesToAnthropic(TurnChats(t)) = TurnMessages(t)
         /\ TurnMessages(t) \in Seq(MessageSet)
         /\ TurnChats(t) # << >> /\ t.by # "tools" => TurnChats(t)[1].role # "tool"
         /\ t.by = "model" => TurnChats(t) # << >> /\ RoleBefore(TurnChats(t)) # "tool"
<1> PICK b : b = t.content.blocks
  OBVIOUS
<1> PICK calls : calls = t.calls
  OBVIOUS
<1>1. t.by \in {"user", "tools", "model"} /\ calls \in Seq(Nat) /\ (t.by = "tools" => calls # << >>)
      /\ b \in Seq(BlockSet)
  BY TurnFields
<1>2. CASE t.by = "user"
  <2> PICK c : c = t.content
    OBVIOUS
  <2>1. c \in ContentSet /\ \A i \in 1..Len(c.blocks) : c.blocks[i].type \in {"text", "image"}
    BY TurnArray
  <2>2. TurnChats(t) = UserChats(c) /\ TurnMessages(t) = UserMessages(c)
    BY <1>2 DEF TurnChats, TurnMessages
  <2> QED
    BY <1>2, <2>1, <2>2, UserConverted
<1>3. CASE t.by = "tools"
  <2> PICK c : c = Array(b)
    OBVIOUS
  <2> PICK u : u = UserChats(c)
    OBVIOUS
  <2> PICK a : a = Answers(calls)
    OBVIOUS
  <2> PICK m : m = Message("user", Array(ResultsOf(calls)))
    OBVIOUS
  <2> PICK n : n = UserMessages(c)
    OBVIOUS
  <2>1. c \in ContentSet /\ (\A i \in 1..Len(c.blocks) : c.blocks[i].type \in {"text", "image"})
        /\ u \in Seq(ChatSet)
    BY TurnArray
  <2>2. ChatMessagesToAnthropic(u) = n /\ n \in Seq(MessageSet) /\ (u # << >> => u[1].role # "tool")
    BY <2>1, UserConverted
  <2>3. a \in Seq(ChatSet) /\ ResultsOf(calls) \in Seq(BlockSet)
    BY <1>1, CallTypes
  <2>4. ChatMessagesToAnthropic(a) = << m >>
    BY <1>1, <1>3, AnswersConverted
  <2>5. << m >> \in Seq(MessageSet)
    <3>1. m \in MessageSet
      BY <2>3, ArrayType, UserMessageIs
    <3> QED
      BY <3>1
  <2>6. ConvertsApart(a, u)
    BY <2>1, <2>3, ConvertJoin
  <2>7. ChatMessagesToAnthropic(a \o u) = << m >> \o n
    BY <2>2, <2>4, <2>6 DEF ConvertsApart, Apart
  <2>8. << m >> \o n \in Seq(MessageSet)
    BY ONLY <2>2, <2>5
  <2>9. TurnChats(t) = a \o u /\ TurnMessages(t) = << m >> \o n
    BY <1>3 DEF TurnChats, TurnMessages
  <2> QED
    BY <1>3, <2>7, <2>8, <2>9
<1>4. CASE t.by = "model"
  <2> PICK r : r = Replied(t, b)
    OBVIOUS
  <2>1. r \in ChatSet /\ r.role = "assistant" /\ r.content = Array(b) /\ r.calls = calls
    BY <1>1, RepliedType
  <2>2. Array(b).blocks = b /\ ~Array(b).string
    BY <1>1, ArrayType
  <2>3. AssistantBlocks(r) = b \o Uses(calls)
    BY <2>1, <2>2, AssistantBlocksIs
  <2>4. Converted(r) = << Message("assistant", Array(b \o Uses(calls))) >>
    BY <2>1, <2>3 DEF Converted
  <2>5. TurnChats(t) = << r >> /\ TurnMessages(t) = << Message("assistant", Array(b \o Uses(calls))) >>
    BY <1>4 DEF TurnChats, TurnMessages
  <2>6. << r >> # << >> /\ << r >>[1] = r /\ Len(<< r >>) = 1
    OBVIOUS
  <2>7. RoleBefore(<< r >>) = "assistant"
    BY <2>1, <2>6 DEF RoleBefore
  <2>8. Converted(r) \in Seq(MessageSet)
    BY <2>1, ConvertedType
  <2> QED
    BY <1>4, <2>1, <2>4, <2>5, <2>6, <2>7, <2>8, ConvertOne
<1> QED
  BY <1>1, <1>2, <1>3, <1>4

AnthropicTaker == [t \in TurnSet |-> << AsAnthropic(t) >>]
AgentTurnTaker == [t \in TurnSet |-> AgentTurn(t)]
TurnChatsTaker == [t \in TurnSet |-> TurnChats(t)]
TurnMessagesTaker == [t \in TurnSet |-> TurnMessages(t)]

LEMMA AgentTakers ==
  /\ IsMap(AgentTurnTaker, TurnSet, Seq(ChatSet)) /\ IsMap(TurnChatsTaker, TurnSet, Seq(ChatSet))
  /\ IsMap(TurnMessagesTaker, TurnSet, Seq(MessageSet))
<1>1. IsMap(AgentTurnTaker, TurnSet, Seq(ChatSet)) /\ IsMap(TurnChatsTaker, TurnSet, Seq(ChatSet))
  BY TurnChatsType DEF IsMap, AgentTurnTaker, TurnChatsTaker
<1>2. IsMap(TurnMessagesTaker, TurnSet, Seq(MessageSet))
  BY TurnConverted DEF IsMap, TurnMessagesTaker
<1> QED
  BY <1>1, <1>2

LEMMA MessagesGathered ==
  /\ IsMap(AnthropicTaker, TurnSet, Seq(MessageSet))
  /\ \A said \in Seq(TurnSet) : MessagesOf(said) = Gathered(AnthropicTaker, said)
<1> DEFINE h == [t \in TurnSet |-> AsAnthropic(t)]
<1>1. IsMap(h, TurnSet, MessageSet)
  BY AnthropicTurn DEF IsMap
<1>2. /\ IsMap(AnthropicTaker, TurnSet, Seq(MessageSet))
      /\ \A t \in TurnSet : AnthropicTaker[t] = << h[t] >>
  BY AnthropicTurn DEF IsMap, AnthropicTaker
<1>3. \A said \in Seq(TurnSet) : MessagesOf(said) = Mapped(h, said)
  <2> TAKE said \in Seq(TurnSet)
  <2>1. \A i \in DOMAIN said : said[i] \in TurnSet
    OBVIOUS
  <2> QED
    BY <2>1 DEF MessagesOf, Mapped
<1> HIDE DEF h
<1>4. \A s \in Seq(TurnSet) : Gathered(AnthropicTaker, s) = Mapped(h, s)
  BY ONLY <1>1, <1>2, MapGathers
<1> QED
  BY <1>2, <1>3, <1>4

\* The system prompt is no message of the model's API.
LEMMA SystemChat ==
  ASSUME system \in System
  PROVE  /\ SystemMessage(system) \in Seq(ChatSet)
         /\ StripAllThinking(SystemMessage(system)) = SystemMessage(system)
         /\ ChatMessagesToAnthropic(SystemMessage(system)) = << >>
         /\ RoleBefore(SystemMessage(system)) # "tool"
<1> PICK x : x = TextOf(system)
  OBVIOUS
<1> PICK k : k = String(x)
  OBVIOUS
<1> PICK c : c = Said("system", k)
  OBVIOUS
<1> PICK b : b = Text(x)
  OBVIOUS
<1>1. x \in Seq(AnyPart)
  BY SystemType
<1>2. k \in ContentSet /\ k.blocks = << b >> /\ b \in BlockSet
  BY <1>1, StringType, BlockTypes
<1>3. c \in ChatSet /\ c.role = "system" /\ c.content = k /\ c.reasoning = << >>
  BY <1>2, SaidType DEF Said, Chat
<1>4. OtherThan(<< b >>, ThinkingTypes) = << b >>
  <2>1. b.type \notin ThinkingTypes
    BY DEF Text, Block, ThinkingTypes
  <2>2. << b >> \in Seq(BlockSet) /\ \A i \in 1..Len(<< b >>) : << b >>[i].type \notin ThinkingTypes
    BY <1>2, <2>1
  <2> QED
    BY <2>2, OthersTaken
<1>5. Unreasoned(c)
  BY <1>2, <1>3, <1>4 DEF Unreasoned
<1>6. CASE x = << >>
  <2>1. SystemMessage(system) = << >>
    BY <1>6 DEF SystemMessage
  <2>2. << >> \in Seq(ChatSet) /\ \A i \in 1..Len(<< >>) : Unreasoned(<< >>[i])
    OBVIOUS
  <2>3. StripAllThinking(<< >>) = << >>
    BY <2>2, StripTakes
  <2> QED
    BY <2>1, <2>2, <2>3, ConvertType DEF RoleBefore
<1>7. CASE x # << >>
  <2>1. SystemMessage(system) = << c >>
    BY <1>7 DEF SystemMessage
  <2>2. << c >> \in Seq(ChatSet) /\ Len(<< c >>) = 1 /\ << c >>[1] = c /\ << c >> # << >>
    BY <1>3
  <2>3. StripAllThinking(<< c >>) = << c >>
    BY <1>3, <1>5, StripOneChat, StrippedType
  <2>4. ChatMessagesToAnthropic(<< c >>) = << >>
    BY <1>3, ConvertOne DEF Converted
  <2>5. RoleBefore(<< c >>) = "system"
    BY <1>3, <2>2 DEF RoleBefore
  <2> QED
    BY <2>1, <2>2, <2>3, <2>4, <2>5
<1> QED
  BY <1>6, <1>7

LEMMA InAgentIs ==
  ASSUME turns \in Seq(TurnSet), system \in System
  PROVE  InAgent = SystemMessage(system) \o Gathered(TurnChatsTaker, turns)
<1> PICK s : s = SystemMessage(system)
  OBVIOUS
<1> PICK g : g = Gathered(AgentTurnTaker, turns)
  OBVIOUS
<1>1. AnthropicToChatMessages(system, Messages) = s \o g
  <2> PICK msgs : msgs = Messages
    OBVIOUS
  <2>1. /\ DOMAIN msgs = DOMAIN turns
        /\ \A i \in DOMAIN turns : msgs[i] = AsAnthropic(turns[i]) /\ turns[i] \in TurnSet
    BY DEF Messages, MessagesOf
  <2>2. [i \in DOMAIN msgs |->
           IF msgs[i].role = "user" THEN UserToChat(msgs[i].content)
           ELSE AssistantToChat(msgs[i].content)] = Mapped(AgentTurnTaker, turns)
    BY <2>1 DEF Mapped, AgentTurnTaker, AgentTurn
  <2> QED
    BY <2>2 DEF AnthropicToChatMessages, Gathered
<1>2. g \in Seq(ChatSet)
  <2>1. IsMap(AgentTurnTaker, TurnSet, Seq(ChatSet)) /\ turns \in Seq(TurnSet)
    BY AgentTakers
  <2>2. Gathered(AgentTurnTaker, turns) \in Seq(ChatSet)
    BY ONLY <2>1, GatherType
  <2> QED
    BY <2>2
<1>3. s \in Seq(ChatSet) /\ StripAllThinking(s) = s
  BY SystemChat
<1>4. IsMap(StripTaker, ChatSet, Seq(ChatSet)) /\ s \in Seq(ChatSet) /\ g \in Seq(ChatSet)
  BY <1>2, <1>3, StripTakes
<1>5. StripAllThinking(s \o g) = s \o StripAllThinking(g)
  <2>1. Gathered(StripTaker, s \o g) = Gathered(StripTaker, s) \o Gathered(StripTaker, g)
    BY ONLY <1>4, GatherJoin
  <2>2. s \o g \in Seq(ChatSet)
    BY ONLY <1>4
  <2> QED
    BY <1>3, <1>4, <2>1, <2>2, StripTakes
<1>6. StripAllThinking(g) = Gathered(TurnChatsTaker, turns)
  <2>1. \A t \in TurnSet : TurnChatsTaker[t] = Gathered(StripTaker, AgentTurnTaker[t])
    BY TurnChatsType, StripTakes DEF TurnChatsTaker, AgentTurnTaker
  <2>2. /\ IsMap(AgentTurnTaker, TurnSet, Seq(ChatSet)) /\ IsMap(StripTaker, ChatSet, Seq(ChatSet))
        /\ turns \in Seq(TurnSet)
    BY AgentTakers, <1>4
  <2>3. Gathered(StripTaker, Gathered(AgentTurnTaker, turns)) = Gathered(TurnChatsTaker, turns)
    BY ONLY <2>1, <2>2, GatherTwice
  <2> QED
    BY <1>4, <2>3, StripTakes
<1> QED
  BY <1>1, <1>5, <1>6 DEF InAgent

\* What a conversation is without its last turn.
LEMMA InTurnBefore ==
  ASSUME NEW s \in Seq(TurnSet), NEW t \in TurnSet, InTurn(Append(s, t))
  PROVE  /\ InTurn(s)
         /\ t.by = "tools" <=> (LastTurn(s).by = "model" /\ LastTurn(s).calls # << >>)
         /\ t.by = "tools" => ToSet(t.calls) = ToSet(LastTurn(s).calls)
         /\ t.by = "model" => LastTurn(s).by # "model"
         /\ LastTurn(Append(s, t)) = t
<1> PICK n : n = Len(s)
  OBVIOUS
<1> PICK a : a = Append(s, t)
  OBVIOUS
<1>1. n \in Nat /\ Len(a) = n + 1 /\ a[n + 1] = t /\ a # << >> /\ \A i \in 1..n : a[i] = s[i]
  OBVIOUS
<1>2. \A i \in 1..(n + 1) :
        /\ a[i].by = "tools" <=> (i > 1 /\ a[i - 1].by = "model" /\ a[i - 1].calls # << >>)
        /\ a[i].by = "tools" => ToSet(a[i].calls) = ToSet(a[i - 1].calls)
        /\ a[i].by = "model" => i > 1 /\ a[i - 1].by # "model"
  BY <1>1 DEF InTurn
<1>3. InTurn(s)
  <2> SUFFICES ASSUME NEW i \in 1..n
               PROVE  /\ s[i].by = "tools" <=> (i > 1 /\ s[i - 1].by = "model" /\ s[i - 1].calls # << >>)
                      /\ s[i].by = "tools" => ToSet(s[i].calls) = ToSet(s[i - 1].calls)
                      /\ s[i].by = "model" => i > 1 /\ s[i - 1].by # "model"
    BY DEF InTurn
  <2>1. i \in 1..(n + 1) /\ a[i] = s[i] /\ (i > 1 => a[i - 1] = s[i - 1])
    BY <1>1
  <2>2. /\ a[i].by = "tools" <=> (i > 1 /\ a[i - 1].by = "model" /\ a[i - 1].calls # << >>)
        /\ a[i].by = "tools" => ToSet(a[i].calls) = ToSet(a[i - 1].calls)
        /\ a[i].by = "model" => i > 1 /\ a[i - 1].by # "model"
    BY <1>2, <2>1
  <2>3. CASE i > 1
    BY ONLY <2>1, <2>2, <2>3
  <2>4. CASE ~(i > 1)
    BY ONLY <2>1, <2>2, <2>4
  <2> QED
    BY <2>3, <2>4
<1>4. LastTurn(a) = t
  BY <1>1 DEF LastTurn
<1>5. /\ t.by = "tools" <=> (n + 1 > 1 /\ a[n].by = "model" /\ a[n].calls # << >>)
      /\ t.by = "tools" => ToSet(t.calls) = ToSet(a[n].calls)
      /\ t.by = "model" => n + 1 > 1 /\ a[n].by # "model"
  <2>1. n + 1 \in 1..(n + 1) /\ (n + 1) - 1 = n
    BY <1>1
  <2> QED
    BY <1>1, <1>2, <2>1
<1>6. CASE s = << >>
  <2>1. n = 0 /\ LastTurn(s).by # "model"
    BY <1>6 DEF LastTurn, Nobody, Turn
  <2> QED
    BY <1>3, <1>4, <1>5, <2>1
<1>7. CASE s # << >>
  <2>1. n \in 1..n /\ n + 1 > 1
    BY <1>1, <1>7
  <2>2. LastTurn(s) = a[n]
    BY <1>1, <1>7, <2>1 DEF LastTurn
  <2> QED
    BY <1>3, <1>4, <1>5, <2>1, <2>2
<1> QED
  BY <1>6, <1>7

\* The agent's messages are converted turn by turn: a message of tools never
\* follows that of the turn before.
LEMMA TurnsConverted ==
  ASSUME NEW o \in Seq(ChatSet), ChatMessagesToAnthropic(o) = << >>, RoleBefore(o) # "tool"
  PROVE  \A said \in Seq(TurnSet) : InTurn(said) =>
           /\ ChatMessagesToAnthropic(o \o Gathered(TurnChatsTaker, said))
                = Gathered(TurnMessagesTaker, said)
           /\ RoleBefore(o \o Gathered(TurnChatsTaker, said)) = "tool" => LastTurn(said).by # "model"
<1> DEFINE Good(s) ==
             /\ ChatMessagesToAnthropic(o \o Gathered(TurnChatsTaker, s)) = Gathered(TurnMessagesTaker, s)
             /\ RoleBefore(o \o Gathered(TurnChatsTaker, s)) = "tool" => LastTurn(s).by # "model"
           S == {s \in Seq(TurnSet) : InTurn(s) => Good(s)}
<1>1. << >> \in S
  <2>1. Gathered(TurnChatsTaker, << >>) = << >> /\ Gathered(TurnMessagesTaker, << >>) = << >>
    BY GatherNothing
  <2>2. o \o << >> = o /\ << >> \in Seq(TurnSet)
    OBVIOUS
  <2> QED
    BY <2>1, <2>2
<1>2. ASSUME NEW s \in Seq(TurnSet), NEW t \in TurnSet, s \in S
      PROVE  Append(s, t) \in S
  <2> PICK st : st = Append(s, t)
    OBVIOUS
  <2>1. st \in Seq(TurnSet)
    OBVIOUS
  <2> SUFFICES ASSUME InTurn(st)
               PROVE  Good(st)
    BY <2>1
  <2>2. /\ InTurn(s) /\ LastTurn(st) = t
        /\ t.by = "tools" => LastTurn(s).by = "model"
    BY InTurnBefore
  <2>3. Good(s)
    BY <1>2, <2>2
  <2> HIDE DEF S
  <2> PICK g : g = Gathered(TurnChatsTaker, s)
    OBVIOUS
  <2> PICK m : m = Gathered(TurnMessagesTaker, s)
    OBVIOUS
  <2> PICK c : c = TurnChats(t)
    OBVIOUS
  <2> PICK n : n = TurnMessages(t)
    OBVIOUS
  <2>4. /\ IsMap(TurnChatsTaker, TurnSet, Seq(ChatSet)) /\ IsMap(TurnMessagesTaker, TurnSet, Seq(MessageSet))
        /\ s \in Seq(TurnSet) /\ t \in TurnSet
    BY AgentTakers
  <2>5. g \in Seq(ChatSet) /\ Gathered(TurnChatsTaker, Append(s, t)) = g \o TurnChatsTaker[t]
    <3>1. /\ Gathered(TurnChatsTaker, s) \in Seq(ChatSet)
          /\ Gathered(TurnChatsTaker, Append(s, t)) = Gathered(TurnChatsTaker, s) \o TurnChatsTaker[t]
      BY ONLY <2>4, GatherAppend
    <3> QED
      BY <3>1
  <2>6. m \in Seq(MessageSet) /\ Gathered(TurnMessagesTaker, Append(s, t)) = m \o TurnMessagesTaker[t]
    <3>1. /\ Gathered(TurnMessagesTaker, s) \in Seq(MessageSet)
          /\ Gathered(TurnMessagesTaker, Append(s, t)) = Gathered(TurnMessagesTaker, s) \o TurnMessagesTaker[t]
      BY ONLY <2>4, GatherAppend
    <3> QED
      BY <3>1
  <2>7. /\ Gathered(TurnChatsTaker, st) = g \o c /\ Gathered(TurnMessagesTaker, st) = m \o n
    BY <2>5, <2>6 DEF TurnChatsTaker, TurnMessagesTaker
  <2>8. /\ c \in Seq(ChatSet) /\ ChatMessagesToAnthropic(c) = n /\ n \in Seq(MessageSet)
        /\ c # << >> /\ t.by # "tools" => c[1].role # "tool"
        /\ t.by = "model" => c # << >> /\ RoleBefore(c) # "tool"
    BY TurnChatsType, TurnConverted
  <2> PICK og : og = o \o g
    OBVIOUS
  <2>9. og \in Seq(ChatSet) /\ o \o (g \o c) = og \o c
    <3>1. o \in Seq(ChatSet) /\ g \in Seq(ChatSet) /\ c \in Seq(ChatSet) /\ og = o \o g
      BY <2>5, <2>8
    <3>2. og \in Seq(ChatSet)
      BY ONLY <3>1
    <3>3. o \o (g \o c) = (o \o g) \o c
      BY ONLY <3>1, SMTT(30)
    <3> QED
      BY <3>1, <3>2, <3>3
  <2>10. ChatMessagesToAnthropic(og) = m /\ (RoleBefore(og) = "tool" => LastTurn(s).by # "model")
    BY <2>3
  <2>11. Apart(og, c)
    <3>1. RoleBefore(og) = "tool" => t.by # "tools"
      BY <2>2, <2>10
    <3> QED
      BY <2>8, <3>1 DEF Apart
  <2>12. ChatMessagesToAnthropic(og \o c) = m \o n
    <3>1. ConvertsApart(og, c)
      BY <2>8, <2>9, ConvertJoin
    <3> QED
      BY <2>8, <2>10, <2>11, <3>1 DEF ConvertsApart
  <2>13. RoleBefore(og \o c) = "tool" => t.by # "model"
    <3> SUFFICES ASSUME t.by = "model"
                 PROVE  RoleBefore(og \o c) # "tool"
      OBVIOUS
    <3>1. c # << >> /\ RoleBefore(c) # "tool"
      BY <2>8
    <3>2. Len(c) >= 1
      BY <2>8, <3>1
    <3>3. (og \o c)[Len(og \o c)] = c[Len(c)]
      BY <2>8, <2>9, <3>2, LastOfJoin
    <3>4. og \o c # << >>
      BY ONLY <2>8, <2>9, <3>1
    <3> QED
      BY <3>1, <3>3, <3>4 DEF RoleBefore
  <2> QED
    BY <2>2, <2>7, <2>9, <2>12, <2>13
<1>3. \A s \in Seq(TurnSet) : s \in S
  <2> HIDE DEF S
  <2> QED
    BY <1>1, <1>2, SeqInduction
<1> QED
  BY <1>3

LEMMA FromAgentIs ==
  ASSUME turns \in Seq(TurnSet), InTurn(turns), system \in System
  PROVE  FromAgent = Gathered(TurnMessagesTaker, turns) /\ FromAgent \in Seq(MessageSet)
<1> PICK o : o = SystemMessage(system)
  OBVIOUS
<1>1. o \in Seq(ChatSet) /\ ChatMessagesToAnthropic(o) = << >> /\ RoleBefore(o) # "tool"
  BY SystemChat
<1>2. InAgent = o \o Gathered(TurnChatsTaker, turns)
  BY InAgentIs
<1>3. ChatMessagesToAnthropic(o \o Gathered(TurnChatsTaker, turns)) = Gathered(TurnMessagesTaker, turns)
  BY <1>1, TurnsConverted
<1>4. Gathered(TurnMessagesTaker, turns) \in Seq(MessageSet)
  <2>1. IsMap(TurnMessagesTaker, TurnSet, Seq(MessageSet)) /\ turns \in Seq(TurnSet)
    BY AgentTakers
  <2> QED
    BY ONLY <2>1, GatherType
<1> QED
  BY <1>2, <1>3, <1>4 DEF FromAgent

\* What the agent keeps of a turn: all but reasoning.
OthersOfTurn == [t \in TurnSet |-> OtherThan(AsAnthropic(t).content.blocks, ThinkingTypes)]
DecodedOfTurn == [t \in TurnSet |-> Decoded(OthersOfTurn[t])]

LEMMA OthersOfTurnType ==
  /\ IsMap(OthersOfTurn, TurnSet, Seq(BlockSet)) /\ IsMap(DecodedOfTurn, TurnSet, Seq(BlockSet))
  /\ \A types : IsMap(OthersOfMessage(types), MessageSet, Seq(BlockSet))
<1>1. \A m \in MessageSet : m.content.blocks \in Seq(BlockSet)
  BY DEF MessageSet, ContentSet
<1>2. \A types : \A m \in MessageSet : OtherThan(m.content.blocks, types) \in Seq(BlockSet)
  BY <1>1, TakenType
<1>3. \A t \in TurnSet : OthersOfTurn[t] \in Seq(BlockSet)
  BY <1>2, AnthropicTurn DEF OthersOfTurn
<1>4. \A t \in TurnSet : Decoded(OthersOfTurn[t]) \in Seq(BlockSet)
  BY <1>3, DecodeTakes
<1>5. IsMap(OthersOfTurn, TurnSet, Seq(BlockSet))
  BY <1>3 DEF IsMap, OthersOfTurn
<1>6. IsMap(DecodedOfTurn, TurnSet, Seq(BlockSet))
  BY <1>4 DEF IsMap, DecodedOfTurn
<1>7. \A types : IsMap(OthersOfMessage(types), MessageSet, Seq(BlockSet))
  BY <1>2 DEF IsMap, OthersOfMessage
<1> QED
  BY <1>5, <1>6, <1>7

\* The blocks of one message, and what is kept of them.
LEMMA OneMessageBlocks ==
  ASSUME NEW role \in {"user", "assistant"}, NEW c \in ContentSet
  PROVE  /\ << Message(role, c) >> \in Seq(MessageSet)
         /\ Gathered(BlocksTaker, << Message(role, c) >>) = c.blocks
<1> PICK m : m = Message(role, c)
  OBVIOUS
<1>1. m \in MessageSet /\ m.content = c
  BY DEF Message, MessageSet
<1>2. IsMap(BlocksTaker, MessageSet, Seq(BlockSet)) /\ m \in MessageSet
  BY <1>1, AllBlocksTaken
<1>3. Gathered(BlocksTaker, << m >>) = BlocksTaker[m]
  BY ONLY <1>2, GatherOne
<1>4. << m >> \in Seq(MessageSet)
  BY <1>1
<1> QED
  BY <1>1, <1>3, <1>4 DEF BlocksTaker

LEMMA UserBlocks ==
  ASSUME NEW c \in ContentSet, \A i \in 1..Len(c.blocks) : c.blocks[i].type \in {"text", "image"}
  PROVE  /\ Gathered(BlocksTaker, UserMessages(c)) = Decoded(c.blocks)
         /\ Decoded(OtherThan(c.blocks, ThinkingTypes)) = Decoded(c.blocks)
<1>1. c.blocks \in Seq(BlockSet)
  BY DEF ContentSet
<1>2. OtherThan(c.blocks, ThinkingTypes) = c.blocks
  <2>1. \A i \in 1..Len(c.blocks) : c.blocks[i].type \notin ThinkingTypes
    BY DEF ThinkingTypes
  <2> QED
    BY <1>1, <2>1, OthersTaken
<1>3. CASE c.blocks = << >>
  <2>1. Decoded(<< >>) = << >>
    BY DEF Decoded
  <2>2. UserMessages(c) = << >>
    BY <1>3 DEF UserMessages
  <2> QED
    BY <1>2, <1>3, <2>1, <2>2, GatherNothing
<1>4. CASE c.blocks # << >>
  <2> PICK u : u = Unsourced(c)
    OBVIOUS
  <2>1. u \in ContentSet /\ u.blocks = Decoded(c.blocks)
    BY UserChatsType
  <2>2. UserMessages(c) = << Message("user", u) >>
    BY <1>4 DEF UserMessages
  <2> QED
    BY <1>2, <2>1, <2>2, OneMessageBlocks
<1> QED
  BY <1>3, <1>4

LEMMA TurnKept ==
  ASSUME NEW t \in TurnSet
  PROVE  DecodedOfTurn[t] = Gathered(BlocksTaker, TurnMessages(t))
<1> PICK b : b = t.content.blocks
  OBVIOUS
<1> PICK calls : calls = t.calls
  OBVIOUS
<1>1. t.by \in {"user", "tools", "model"} /\ calls \in Seq(Nat) /\ b \in Seq(BlockSet)
  BY TurnFields
<1>2. DecodedOfTurn[t] = Decoded(OtherThan(AsAnthropic(t).content.blocks, ThinkingTypes))
  BY DEF DecodedOfTurn, OthersOfTurn
<1>3. CASE t.by = "user"
  <2> PICK c : c = t.content
    OBVIOUS
  <2>1. c \in ContentSet /\ \A i \in 1..Len(c.blocks) : c.blocks[i].type \in {"text", "image"}
    BY TurnArray
  <2>2. AsAnthropic(t).content.blocks = c.blocks
    BY <1>3, <2>1, AnthropicTurn, UserMessageIs
  <2>3. TurnMessages(t) = UserMessages(c)
    BY <1>3 DEF TurnMessages
  <2> QED
    BY <1>2, <2>1, <2>2, <2>3, UserBlocks
<1>4. CASE t.by = "tools"
  <2> PICK c : c = Array(b)
    OBVIOUS
  <2> PICK r : r = ResultsOf(calls)
    OBVIOUS
  <2> PICK m : m = Message("user", Array(r))
    OBVIOUS
  <2>1. c \in ContentSet /\ c.blocks = b
        /\ \A i \in 1..Len(c.blocks) : c.blocks[i].type \in {"text", "image"}
    BY TurnArray
  <2>2. /\ Gathered(BlocksTaker, UserMessages(c)) = Decoded(b)
        /\ Decoded(OtherThan(b, ThinkingTypes)) = Decoded(b) /\ UserMessages(c) \in Seq(MessageSet)
    BY <2>1, UserBlocks, UserConverted
  <2>3. r \in Seq(BlockSet) /\ \A i \in 1..Len(r) : r[i].type = "tool_result"
    <3>1. /\ r \in Seq(BlockSet) /\ Len(r) = Len(calls)
          /\ \A k \in 1..Len(calls) : r[k] = ToolResult(calls[k], << "result" >>)
      BY <1>1, CallTypes
    <3>2. \A id, x : ToolResult(id, x).type = "tool_result"
      BY DEF ToolResult, Block
    <3> QED
      BY <3>1, <3>2
  <2>4. OtherThan(r, ThinkingTypes) = r /\ Decoded(r) = r
    <3>1. \A i \in 1..Len(r) : r[i].type \notin ThinkingTypes /\ r[i].type # "image"
      BY <2>3 DEF ThinkingTypes
    <3>2. OtherThan(r, ThinkingTypes) = r
      BY <2>3, <3>1, OthersTaken
    <3>3. Decoded(r) = r
      BY <2>3, <3>1, DecodeSame
    <3> QED
      BY <3>2, <3>3
  <2> PICK o : o = OtherThan(b, ThinkingTypes)
    OBVIOUS
  <2>5. o \in Seq(BlockSet)
    BY <1>1, TakenType
  <2>6. Decoded(OtherThan(r \o b, ThinkingTypes)) = r \o Decoded(b)
    <3>1. OtherThan(r \o b, ThinkingTypes) = r \o o
      <4>1. OtherThan(r \o b, ThinkingTypes) = OtherThan(r, ThinkingTypes) \o OtherThan(b, ThinkingTypes)
        BY <1>1, <2>3, OthersOfTwo
      <4> QED
        BY <2>4, <4>1
    <3>2. Decoded(r \o o) = Decoded(r) \o Decoded(o)
      BY ONLY <2>3, <2>5, DecodeJoin
    <3> QED
      BY <2>2, <2>4, <3>1, <3>2
  <2>7. AsAnthropic(t).content.blocks = r \o b
    <3>1. AsAnthropic(t) = Message("user", Array(r \o b)) /\ r \o b \in Seq(BlockSet)
      BY <1>4, AnthropicTurn
    <3> QED
      BY <3>1, ArrayType, UserMessageIs
  <2>8. << m >> \in Seq(MessageSet) /\ Gathered(BlocksTaker, << m >>) = r
    BY <2>3, ArrayType, OneMessageBlocks
  <2>9. Gathered(BlocksTaker, << m >> \o UserMessages(c)) = r \o Decoded(b)
    <3> PICK x : x = << m >>
      OBVIOUS
    <3> PICK y : y = UserMessages(c)
      OBVIOUS
    <3>1. IsMap(BlocksTaker, MessageSet, Seq(BlockSet)) /\ x \in Seq(MessageSet) /\ y \in Seq(MessageSet)
      BY <2>2, <2>8, AllBlocksTaken
    <3>2. Gathered(BlocksTaker, x \o y) = Gathered(BlocksTaker, x) \o Gathered(BlocksTaker, y)
      BY ONLY <3>1, GatherJoin
    <3> QED
      BY <2>2, <2>8, <3>2
  <2>10. TurnMessages(t) = << m >> \o UserMessages(c)
    BY <1>4 DEF TurnMessages
  <2> QED
    BY <1>2, <2>6, <2>7, <2>9, <2>10
<1>5. CASE t.by = "model"
  <2> PICK r : r = Reasoned(t)
    OBVIOUS
  <2> PICK u : u = Uses(calls)
    OBVIOUS
  <2>1. /\ r \in Seq(BlockSet) /\ u \in Seq(BlockSet)
        /\ \A k \in 1..Len(b) : b[k].type = "text"
        /\ \A k \in 1..Len(r) : r[k].type = "thinking"
        /\ Len(u) = Len(calls) /\ \A k \in 1..Len(calls) : u[k] = ToolUse(calls[k])
    BY <1>1, <1>5, TurnFields, ReasonedType, CallTypes
  <2>2. \A k \in 1..Len(u) : u[k].type = "tool_use"
    <3>1. \A id : ToolUse(id).type = "tool_use"
      BY DEF ToolUse, Block
    <3> QED
      BY <2>1, <3>1
  <2>3. OtherThan(r, ThinkingTypes) = << >>
    <3>1. \A k \in 1..Len(r) : r[k].type \in ThinkingTypes
      BY <2>1 DEF ThinkingTypes
    <3> QED
      BY <2>1, <3>1, OthersTaken
  <2>4. OtherThan(b, ThinkingTypes) = b /\ Decoded(b) = b
    <3>1. \A i \in 1..Len(b) : b[i].type \notin ThinkingTypes /\ b[i].type # "image"
      BY <2>1 DEF ThinkingTypes
    <3>2. OtherThan(b, ThinkingTypes) = b
      BY <1>1, <3>1, OthersTaken
    <3>3. Decoded(b) = b
      BY <1>1, <3>1, DecodeSame
    <3> QED
      BY <3>2, <3>3
  <2>5. OtherThan(u, ThinkingTypes) = u /\ Decoded(u) = u
    <3>1. \A i \in 1..Len(u) : u[i].type \notin ThinkingTypes /\ u[i].type # "image"
      BY <2>2 DEF ThinkingTypes
    <3>2. OtherThan(u, ThinkingTypes) = u
      BY <2>1, <3>1, OthersTaken
    <3>3. Decoded(u) = u
      BY <2>1, <3>1, DecodeSame
    <3> QED
      BY <3>2, <3>3
  <2> PICK rb : rb = r \o b
    OBVIOUS
  <2>6. rb \in Seq(BlockSet) /\ << >> \o b = b /\ b \o u \in Seq(BlockSet)
    BY ONLY <1>1, <2>1, rb = r \o b
  <2>7. OtherThan(rb, ThinkingTypes) = b
    <3>1. OtherThan(r \o b, ThinkingTypes) = OtherThan(r, ThinkingTypes) \o OtherThan(b, ThinkingTypes)
      <4>1. r \in Seq(BlockSet) /\ b \in Seq(BlockSet)
        BY <1>1, <2>1
      <4> QED
        BY ONLY <4>1, OthersOfTwo
    <3> QED
      BY <2>3, <2>4, <2>6, <3>1
  <2>8. OtherThan(rb \o u, ThinkingTypes) = b \o u
    <3>1. OtherThan(rb \o u, ThinkingTypes) = OtherThan(rb, ThinkingTypes) \o OtherThan(u, ThinkingTypes)
      <4>1. rb \in Seq(BlockSet) /\ u \in Seq(BlockSet)
        BY <2>1, <2>6
      <4> QED
        BY ONLY <4>1, OthersOfTwo
    <3> QED
      BY <2>5, <2>7, <3>1
  <2>9. Decoded(b \o u) = b \o u
    <3>1. Decoded(b \o u) = Decoded(b) \o Decoded(u)
      BY <1>1, <2>1, DecodeJoin
    <3> QED
      BY <2>4, <2>5, <3>1
  <2>10. AsAnthropic(t).content.blocks = rb \o u
    <3>1. AsAnthropic(t) = Message("assistant", Array(rb \o u)) /\ rb \o u \in Seq(BlockSet)
      BY <1>5, AnthropicTurn
    <3> QED
      <4>1. \A k : Message("assistant", k).content = k
        BY DEF Message
      <4> QED
        BY ONLY <3>1, <4>1, ArrayType
  <2>11. TurnMessages(t) = << Message("assistant", Array(b \o u)) >>
    BY <1>5 DEF TurnMessages
  <2>12. Gathered(BlocksTaker, << Message("assistant", Array(b \o u)) >>) = b \o u
    BY <2>6, ArrayType, OneMessageBlocks
  <2> QED
    BY <1>2, <2>8, <2>9, <2>10, <2>11, <2>12
<1> QED
  BY <1>1, <1>3, <1>4, <1>5

LEMMA BlocksKept ==
  ASSUME turns \in Seq(TurnSet), InTurn(turns), system \in System
  PROVE  AllBlocks(FromAgent) = Decoded(OtherThan(AllBlocks(Messages), ThinkingTypes))
<1>1. AllBlocks(FromAgent) = Gathered(DecodedOfTurn, turns)
  <2>1. FromAgent = Gathered(TurnMessagesTaker, turns) /\ FromAgent \in Seq(MessageSet)
    BY FromAgentIs
  <2>2. AllBlocks(FromAgent) = Gathered(BlocksTaker, FromAgent)
    BY <2>1, AllBlocksTaken
  <2>3. /\ IsMap(TurnMessagesTaker, TurnSet, Seq(MessageSet)) /\ IsMap(BlocksTaker, MessageSet, Seq(BlockSet))
        /\ turns \in Seq(TurnSet)
    BY AgentTakers, AllBlocksTaken
  <2>4. \A t \in TurnSet : DecodedOfTurn[t] = Gathered(BlocksTaker, TurnMessagesTaker[t])
    BY TurnKept DEF TurnMessagesTaker
  <2>5. Gathered(BlocksTaker, Gathered(TurnMessagesTaker, turns)) = Gathered(DecodedOfTurn, turns)
    BY ONLY <2>3, <2>4, GatherTwice
  <2> QED
    BY <2>1, <2>2, <2>5
<1> PICK g : g = OthersOfMessage(ThinkingTypes)
  OBVIOUS
<1>2. OtherThan(AllBlocks(Messages), ThinkingTypes) = Gathered(OthersOfTurn, turns)
  <2>1. Messages = Gathered(AnthropicTaker, turns) /\ Messages \in Seq(MessageSet)
    BY MessagesGathered, MessagesType DEF Messages
  <2>2. OtherThan(AllBlocks(Messages), ThinkingTypes) = Gathered(g, Messages)
    BY <2>1, OthersOfAll
  <2>3. /\ IsMap(AnthropicTaker, TurnSet, Seq(MessageSet)) /\ IsMap(g, MessageSet, Seq(BlockSet))
        /\ turns \in Seq(TurnSet)
    BY MessagesGathered, OthersOfTurnType
  <2>4. ASSUME NEW t \in TurnSet
        PROVE  OthersOfTurn[t] = Gathered(g, AnthropicTaker[t])
    <3> PICK m : m = AsAnthropic(t)
      OBVIOUS
    <3>1. IsMap(g, MessageSet, Seq(BlockSet)) /\ m \in MessageSet
      BY <2>3, AnthropicTurn
    <3>2. Gathered(g, << m >>) = g[m]
      BY ONLY <3>1, GatherOne
    <3> QED
      BY <3>1, <3>2 DEF OthersOfTurn, AnthropicTaker, OthersOfMessage
  <2>5. Gathered(g, Gathered(AnthropicTaker, turns)) = Gathered(OthersOfTurn, turns)
    BY ONLY <2>3, <2>4, GatherTwice
  <2> QED
    BY <2>1, <2>2, <2>5
<1>3. Decoded(Gathered(OthersOfTurn, turns)) = Gathered(DecodedOfTurn, turns)
  <2>1. /\ IsMap(OthersOfTurn, TurnSet, Seq(BlockSet)) /\ IsMap(DecodeTaker, BlockSet, Seq(BlockSet))
        /\ turns \in Seq(TurnSet)
    BY OthersOfTurnType, DecodeTakes
  <2>2. \A t \in TurnSet : DecodedOfTurn[t] = Gathered(DecodeTaker, OthersOfTurn[t])
    <3>1. \A t \in TurnSet : OthersOfTurn[t] \in Seq(BlockSet)
      BY OthersOfTurnType DEF IsMap
    <3> QED
      BY <3>1, DecodeTakes DEF DecodedOfTurn
  <2>3. Gathered(DecodeTaker, Gathered(OthersOfTurn, turns)) = Gathered(DecodedOfTurn, turns)
    BY ONLY <2>1, <2>2, GatherTwice
  <2>4. Gathered(OthersOfTurn, turns) \in Seq(BlockSet)
    BY ONLY <2>1, GatherType
  <2> QED
    BY <2>3, <2>4, DecodeTakes
<1> QED
  BY <1>1, <1>2, <1>3

\* The texts of system prompts among the messages of the agent.
SystemTaker == [c \in ChatSet |-> IF c.role = "system" THEN TextOf(c.content) ELSE << >>]
SystemOfTurn == [t \in TurnSet |-> Gathered(SystemTaker, TurnChats(t))]

LEMMA SystemTakes ==
  /\ IsMap(SystemTaker, ChatSet, Seq(AnyPart))
  /\ \A s \in Seq(ChatSet) :
       /\ Gathered(SystemTaker, s) = Concat([i \in DOMAIN s |->
            IF s[i].role = "system" THEN TextOf(s[i].content) ELSE << >>])
       /\ (\A i \in 1..Len(s) : s[i].role # "system") => Gathered(SystemTaker, s) = << >>
<1>1. \A c \in ChatSet : (IF c.role = "system" THEN TextOf(c.content) ELSE << >>) \in Seq(AnyPart)
  <2> TAKE c \in ChatSet
  <2>1. c.content \in ContentSet
    BY DEF ChatSet
  <2>2. TextOf(c.content) \in Seq(AnyPart) /\ << >> \in Seq(AnyPart)
    BY <2>1, TextType
  <2> QED
    BY <2>2
<1>2. IsMap(SystemTaker, ChatSet, Seq(AnyPart))
  BY <1>1 DEF IsMap, SystemTaker
<1>3. ASSUME NEW s \in Seq(ChatSet)
      PROVE  Gathered(SystemTaker, s) = Concat([i \in DOMAIN s |->
               IF s[i].role = "system" THEN TextOf(s[i].content) ELSE << >>])
  <2>1. \A i \in DOMAIN s : s[i] \in ChatSet
    OBVIOUS
  <2>2. Mapped(SystemTaker, s) =
          [i \in DOMAIN s |-> IF s[i].role = "system" THEN TextOf(s[i].content) ELSE << >>]
    BY <2>1 DEF Mapped, SystemTaker
  <2> QED
    BY <2>2 DEF Gathered, Concat
<1>4. ASSUME NEW s \in Seq(ChatSet), \A i \in 1..Len(s) : s[i].role # "system"
      PROVE  Gathered(SystemTaker, s) = << >>
  <2>1. \A i \in 1..Len(s) : SystemTaker[s[i]] = << >>
    <3> TAKE i \in 1..Len(s)
    <3>1. s[i] \in ChatSet
      BY MemberType
    <3> QED
      BY <1>4, <3>1 DEF SystemTaker
  <2>2. IsMap(SystemTaker, ChatSet, Seq(AnyPart)) /\ s \in Seq(ChatSet)
    BY <1>2
  <2> QED
    BY ONLY <2>1, <2>2, GatherNone
<1> QED
  BY <1>2, <1>3, <1>4

LEMMA NoSystemInTurn ==
  ASSUME NEW t \in TurnSet
  PROVE  Gathered(SystemTaker, TurnChats(t)) = << >>
<1> PICK b : b = t.content.blocks
  OBVIOUS
<1>1. t.by \in {"user", "tools", "model"} /\ t.calls \in Seq(Nat) /\ b \in Seq(BlockSet)
  BY TurnFields
<1>2. ASSUME NEW c \in ContentSet, \A i \in 1..Len(c.blocks) : c.blocks[i].type \in {"text", "image"}
      PROVE  UserChats(c) \in Seq(ChatSet) /\ Gathered(SystemTaker, UserChats(c)) = << >>
  <2>1. UserChats(c) \in Seq(ChatSet) /\ \A i \in 1..Len(UserChats(c)) : UserChats(c)[i].role # "system"
    BY <1>2, UserChatsType
  <2> QED
    BY <2>1, SystemTakes
<1>3. CASE t.by = "user"
  <2>1. t.content \in ContentSet
        /\ \A i \in 1..Len(t.content.blocks) : t.content.blocks[i].type \in {"text", "image"}
    BY TurnArray
  <2> QED
    BY <1>2, <1>3, <2>1 DEF TurnChats
<1>4. CASE t.by = "tools"
  <2> PICK c : c = Array(b)
    OBVIOUS
  <2> PICK u : u = UserChats(c)
    OBVIOUS
  <2> PICK a : a = Answers(t.calls)
    OBVIOUS
  <2>1. c \in ContentSet /\ \A i \in 1..Len(c.blocks) : c.blocks[i].type \in {"text", "image"}
    BY TurnArray
  <2>2. u \in Seq(ChatSet) /\ Gathered(SystemTaker, u) = << >>
    BY <1>2, <2>1
  <2>3. a \in Seq(ChatSet) /\ \A i \in 1..Len(a) : a[i].role # "system"
    BY <1>1, CallTypes, AnswersPlain
  <2>4. Gathered(SystemTaker, a) = << >>
    BY <2>3, SystemTakes
  <2>5. IsMap(SystemTaker, ChatSet, Seq(AnyPart)) /\ a \in Seq(ChatSet) /\ u \in Seq(ChatSet)
    BY <2>2, <2>3, SystemTakes
  <2>6. Gathered(SystemTaker, a \o u) = Gathered(SystemTaker, a) \o Gathered(SystemTaker, u)
    BY ONLY <2>5, GatherJoin
  <2>7. TurnChats(t) = a \o u /\ << >> \o << >> = << >>
    BY <1>4 DEF TurnChats
  <2> QED
    BY <2>2, <2>4, <2>6, <2>7
<1>5. CASE t.by = "model"
  <2> PICK r : r = Replied(t, b)
    OBVIOUS
  <2>1. r \in ChatSet /\ r.role # "system"
    BY <1>1, RepliedType
  <2>2. TurnChats(t) = << r >>
    BY <1>5 DEF TurnChats
  <2>3. << r >> \in Seq(ChatSet) /\ \A i \in 1..Len(<< r >>) : << r >>[i].role # "system"
    BY <2>1
  <2> QED
    BY <2>2, <2>3, SystemTakes
<1> QED
  BY <1>1, <1>3, <1>4, <1>5

LEMMA SystemKept ==
  ASSUME turns \in Seq(TurnSet), system \in System
  PROVE  Concat([i \in DOMAIN InAgent |->
           IF InAgent[i].role = "system" THEN TextOf(InAgent[i].content) ELSE << >>]) = TextOf(system)
<1> PICK x : x = TextOf(system)
  OBVIOUS
<1> PICK s : s = SystemMessage(system)
  OBVIOUS
<1> PICK g : g = Gathered(TurnChatsTaker, turns)
  OBVIOUS
<1>1. x \in Seq(AnyPart) /\ s \in Seq(ChatSet)
  BY SystemType, SystemChat
<1>2. IsMap(TurnChatsTaker, TurnSet, Seq(ChatSet)) /\ turns \in Seq(TurnSet)
      /\ IsMap(SystemTaker, ChatSet, Seq(AnyPart))
  BY AgentTakers, SystemTakes
<1>3. g \in Seq(ChatSet)
  <2>1. Gathered(TurnChatsTaker, turns) \in Seq(ChatSet)
    BY ONLY <1>2, GatherType
  <2> QED
    BY <2>1
<1>4. Gathered(SystemTaker, g) = << >>
  <2>1. \A t \in TurnSet : SystemOfTurn[t] = Gathered(SystemTaker, TurnChatsTaker[t])
    BY DEF SystemOfTurn, TurnChatsTaker
  <2>2. Gathered(SystemTaker, Gathered(TurnChatsTaker, turns)) = Gathered(SystemOfTurn, turns)
    BY ONLY <1>2, <2>1, GatherTwice
  <2>3. \A t \in TurnSet : SystemOfTurn[t] = << >>
    BY NoSystemInTurn DEF SystemOfTurn
  <2>4. IsMap(SystemOfTurn, TurnSet, Seq(AnyPart))
    <3>1. << >> \in Seq(AnyPart) /\ SystemOfTurn = [t \in TurnSet |-> SystemOfTurn[t]]
      BY DEF SystemOfTurn
    <3> QED
      BY <2>3, <3>1 DEF IsMap
  <2>5. \A i \in 1..Len(turns) : SystemOfTurn[turns[i]] = << >>
    BY <2>3, MemberType
  <2>6. IsMap(SystemOfTurn, TurnSet, Seq(AnyPart)) /\ turns \in Seq(TurnSet)
    BY <2>4
  <2>7. Gathered(SystemOfTurn, turns) = << >>
    BY ONLY <2>5, <2>6, GatherNone
  <2> QED
    BY <2>2, <2>7
<1>5. Gathered(SystemTaker, s) = x
  <2>1. CASE x = << >>
    BY <2>1, GatherNothing DEF SystemMessage
  <2>2. CASE x # << >>
    <3> PICK c : c = Said("system", String(x))
      OBVIOUS
    <3>1. c \in ChatSet /\ c.role = "system" /\ c.content = String(x)
      BY <1>1, StringType, SaidType DEF Said, Chat
    <3>2. IsMap(SystemTaker, ChatSet, Seq(AnyPart)) /\ c \in ChatSet
      BY <1>2, <3>1
    <3>3. Gathered(SystemTaker, << c >>) = SystemTaker[c]
      BY ONLY <3>2, GatherOne
    <3>4. SystemTaker[c] = x
      BY <1>1, <3>1, TextOfString DEF SystemTaker
    <3>5. s = << c >>
      BY <2>2 DEF SystemMessage
    <3> QED
      BY <3>3, <3>4, <3>5
  <2> QED
    BY <2>1, <2>2
<1>6. Gathered(SystemTaker, s \o g) = x
  <2>1. IsMap(SystemTaker, ChatSet, Seq(AnyPart)) /\ s \in Seq(ChatSet) /\ g \in Seq(ChatSet)
    BY <1>1, <1>2, <1>3
  <2>2. Gathered(SystemTaker, s \o g) = Gathered(SystemTaker, s) \o Gathered(SystemTaker, g)
    BY ONLY <2>1, GatherJoin
  <2>3. x \o << >> = x
    BY <1>1
  <2> QED
    BY <1>4, <1>5, <2>2, <2>3
<1>7. InAgent = s \o g /\ s \o g \in Seq(ChatSet)
  <2>1. s \o g \in Seq(ChatSet)
    BY ONLY <1>1, <1>3
  <2> QED
    BY <2>1, InAgentIs
<1> QED
  BY <1>6, <1>7, SystemTakes

----------------------------------------------------------------------------
(* Calls next to their results                                              *)

IdSet(blocks, type) == {blocks[k].id : k \in Positions(blocks, type)}
MadeBy(m) == IdSet(m.content.blocks, "tool_use")
AnsweredBy(m) == IdSet(m.content.blocks, "tool_result")

\* Messages that answer, each, what the one before has called, the first of
\* them these calls; and what is left to answer after them.
FollowOn(open, msgs) ==
  \A i \in 1..Len(msgs) : AnsweredBy(msgs[i]) = IF i = 1 THEN open ELSE MadeBy(msgs[i - 1])
StillOpen(open, msgs) == IF msgs = << >> THEN open ELSE MadeBy(msgs[Len(msgs)])
Follows(open, msgs, left) == FollowOn(open, msgs) /\ StillOpen(open, msgs) = left

LEMMA FollowsNothing == \A open : Follows(open, << >>, open)
<1>1. Len(<< >>) = 0 /\ 1..0 = {}
  OBVIOUS
<1> QED
  BY <1>1 DEF Follows, FollowOn, StillOpen

LEMMA FollowsOne ==
  ASSUME NEW m
  PROVE  Follows(AnsweredBy(m), << m >>, MadeBy(m))
<1>1. Len(<< m >>) = 1 /\ << m >>[1] = m /\ << m >> # << >> /\ 1..1 = {1}
  OBVIOUS
<1> QED
  BY <1>1 DEF Follows, FollowOn, StillOpen

LEMMA FollowsJoin ==
  ASSUME NEW a \in Seq(MessageSet), NEW b \in Seq(MessageSet), NEW open, NEW left, NEW end,
         Follows(open, a, left), Follows(left, b, end)
  PROVE  Follows(open, a \o b, end)
<1> PICK n : n = Len(a)
  OBVIOUS
<1> PICK k : k = Len(b)
  OBVIOUS
<1> PICK c : c = a \o b
  OBVIOUS
<1>1. /\ n \in Nat /\ k \in Nat /\ Len(c) = n + k
      /\ (\A i \in 1..n : c[i] = a[i]) /\ (\A i \in 1..k : c[n + i] = b[i])
  BY Joined
<1>2. /\ \A i \in 1..n : AnsweredBy(a[i]) = IF i = 1 THEN open ELSE MadeBy(a[i - 1])
      /\ \A i \in 1..k : AnsweredBy(b[i]) = IF i = 1 THEN left ELSE MadeBy(b[i - 1])
  BY DEF Follows, FollowOn
<1>3. /\ n = 0 => left = open
      /\ n > 0 => left = MadeBy(a[n])
      /\ k = 0 => end = left
      /\ k > 0 => end = MadeBy(b[k])
  <2>1. (n = 0 <=> a = << >>) /\ (k = 0 <=> b = << >>)
    OBVIOUS
  <2> QED
    BY <1>1, <2>1 DEF Follows, StillOpen
<1>4. FollowOn(open, c)
  <2> SUFFICES ASSUME NEW i \in 1..(n + k)
               PROVE  AnsweredBy(c[i]) = IF i = 1 THEN open ELSE MadeBy(c[i - 1])
    BY <1>1 DEF FollowOn
  <2>1. CASE i \in 1..n
    <3>1. c[i] = a[i] /\ (i # 1 => c[i - 1] = a[i - 1])
      BY <1>1, <2>1
    <3> QED
      BY <1>2, <2>1, <3>1
  <2>2. CASE i \notin 1..n
    <3> PICK j : j = i - n
      OBVIOUS
    <3>1. j \in 1..k /\ i = n + j
      BY <1>1, <2>2
    <3>2. AnsweredBy(c[i]) = IF j = 1 THEN left ELSE MadeBy(b[j - 1])
      BY <1>1, <1>2, <3>1
    <3>3. CASE j = 1
      <4>1. n > 0 => i # 1 /\ c[i - 1] = a[n]
        <5>1. i - 1 = n
          BY <1>1, <3>1, <3>3
        <5>2. n > 0 => n \in 1..n /\ i # 1
          BY <1>1, <3>1, <3>3
        <5> QED
          BY <1>1, <5>1, <5>2
      <4>2. n = 0 => i = 1
        BY <3>1, <3>3
      <4> QED
        BY <1>1, <1>3, <3>2, <3>3, <4>1, <4>2
    <3>4. CASE j # 1
      <4>1. j - 1 \in 1..k /\ i - 1 = n + (j - 1) /\ i # 1
        BY <1>1, <3>1, <3>4
      <4>2. c[i - 1] = b[j - 1]
        BY <1>1, <4>1
      <4> QED
        BY <3>2, <3>4, <4>1, <4>2
    <3> QED
      BY <3>3, <3>4
  <2> QED
    BY <2>1, <2>2
<1>5. StillOpen(open, c) = end
  <2>1. c = << >> <=> Len(c) = 0
    BY <1>1
  <2>2. CASE k > 0
    <3>1. k \in 1..k /\ c # << >> /\ c[n + k] = b[k]
      BY <1>1, <2>1, <2>2
    <3> QED
      BY <1>1, <1>3, <2>2, <3>1 DEF StillOpen
  <2>3. CASE k = 0 /\ n > 0
    <3>1. n \in 1..n /\ c # << >> /\ c[n] = a[n] /\ Len(c) = n
      BY <1>1, <2>1, <2>3
    <3> QED
      BY <1>3, <2>3, <3>1 DEF StillOpen
  <2>4. CASE k = 0 /\ n = 0
    <3>1. c = << >>
      BY <1>1, <2>1, <2>4
    <3> QED
      BY <1>3, <2>4, <3>1 DEF StillOpen
  <2> QED
    BY <1>1, <2>2, <2>3, <2>4
<1> QED
  BY <1>4, <1>5 DEF Follows

\* Messages with the same calls and results in the same places.
LEMMA FollowsSame ==
  ASSUME NEW a, NEW b, NEW open, NEW left, Follows(open, a, left),
         Len(a) \in Nat, Len(b) = Len(a), a = << >> <=> b = << >>, a # << >> => Len(a) \in 1..Len(a),
         \A i \in 1..Len(a) : AnsweredBy(b[i]) = AnsweredBy(a[i]) /\ MadeBy(b[i]) = MadeBy(a[i])
  PROVE  Follows(open, b, left)
<1> PICK n \in Nat : n = Len(a)
  OBVIOUS
<1>1. \A i \in 1..n : AnsweredBy(a[i]) = IF i = 1 THEN open ELSE MadeBy(a[i - 1])
  BY DEF Follows, FollowOn
<1>2. \A i \in 1..n : AnsweredBy(b[i]) = IF i = 1 THEN open ELSE MadeBy(b[i - 1])
  <2> TAKE i \in 1..n
  <2>1. i # 1 => i - 1 \in 1..n
    OBVIOUS
  <2> QED
    BY <1>1, <2>1
<1>3. StillOpen(open, b) = left
  BY DEF Follows, StillOpen
<1> QED
  BY <1>2, <1>3 DEF Follows, FollowOn

\* Which is what Paired says, of a conversation no call is left in.
LEMMA FollowsPaired ==
  ASSUME NEW msgs \in Seq(MessageSet), Follows({}, msgs, {})
  PROVE  Paired(msgs)
<1> PICK n \in Nat : n = Len(msgs)
  OBVIOUS
<1>1. DOMAIN msgs = 1..n
  OBVIOUS
<1>2. \A i \in 1..n : AnsweredBy(msgs[i]) = IF i = 1 THEN {} ELSE MadeBy(msgs[i - 1])
  BY DEF Follows, FollowOn
<1>3. n > 0 => MadeBy(msgs[n]) = {}
  <2>1. n > 0 => msgs # << >>
    OBVIOUS
  <2> QED
    BY <2>1 DEF Follows, StillOpen
<1> SUFFICES ASSUME NEW i \in 1..n
             PROVE  /\ AnsweredBy(msgs[i]) = IF i - 1 \in 1..n THEN MadeBy(msgs[i - 1]) ELSE {}
                    /\ i = n => (IF i \in 1..n THEN MadeBy(msgs[i]) ELSE {}) = {}
  BY <1>1 DEF Paired, MadeBy, AnsweredBy, IdSet
<1>4. i = 1 <=> i - 1 \notin 1..n
  OBVIOUS
<1>5. i = n => n > 0
  OBVIOUS
<1> QED
  BY <1>2, <1>3, <1>4, <1>5

\* The calls a turn is to answer, and those it leaves to the next.
Opening(t) == IF t.by = "tools" THEN ToSet(t.calls) ELSE {}
Closing(t) == IF t.by = "model" THEN ToSet(t.calls) ELSE {}

LEMMA TurnsFollow ==
  ASSUME NEW g, IsMap(g, TurnSet, Seq(MessageSet)),
         \A t \in TurnSet : Follows(Opening(t), g[t], Closing(t))
  PROVE  \A said \in Seq(TurnSet) :
           InTurn(said) => Follows({}, Gathered(g, said), Closing(LastTurn(said)))
<1> DEFINE S == {s \in Seq(TurnSet) :
                   InTurn(s) => Follows({}, Gathered(g, s), Closing(LastTurn(s)))}
<1>1. << >> \in S
  <2>1. Gathered(g, << >>) = << >> /\ << >> \in Seq(TurnSet)
    BY GatherNothing
  <2>2. Closing(LastTurn(<< >>)) = {}
    BY DEF LastTurn, Closing, Nobody, Turn
  <2> QED
    BY <2>1, <2>2, FollowsNothing
<1>2. ASSUME NEW s \in Seq(TurnSet), NEW t \in TurnSet, s \in S
      PROVE  Append(s, t) \in S
  <2> PICK st : st = Append(s, t)
    OBVIOUS
  <2>1. st \in Seq(TurnSet)
    OBVIOUS
  <2> SUFFICES ASSUME InTurn(st)
               PROVE  Follows({}, Gathered(g, st), Closing(LastTurn(st)))
    BY <2>1
  <2>2. /\ InTurn(s) /\ LastTurn(st) = t
        /\ t.by = "tools" <=> (LastTurn(s).by = "model" /\ LastTurn(s).calls # << >>)
        /\ t.by = "tools" => ToSet(t.calls) = ToSet(LastTurn(s).calls)
    BY InTurnBefore
  <2>3. Follows({}, Gathered(g, s), Closing(LastTurn(s)))
    BY <1>2, <2>2
  <2> HIDE DEF S
  <2>4. Closing(LastTurn(s)) = Opening(t)
    <3>1. ToSet(<< >>) = {}
      BY DEF ToSet
    <3> QED
      BY <2>2, <3>1 DEF Closing, Opening
  <2> PICK x : x = Gathered(g, s)
    OBVIOUS
  <2> PICK y : y = g[t]
    OBVIOUS
  <2>5. x \in Seq(MessageSet) /\ Gathered(g, st) = x \o y
    <3>1. IsMap(g, TurnSet, Seq(MessageSet)) /\ s \in Seq(TurnSet) /\ t \in TurnSet
      OBVIOUS
    <3>2. Gathered(g, s) \in Seq(MessageSet) /\ Gathered(g, Append(s, t)) = Gathered(g, s) \o g[t]
      BY ONLY <3>1, GatherAppend
    <3> QED
      BY <3>2
  <2>6. y \in Seq(MessageSet)
    BY DEF IsMap
  <2>7. Follows({}, x, Opening(t)) /\ Follows(Opening(t), y, Closing(t))
    BY <2>3, <2>4
  <2>8. Follows({}, x \o y, Closing(t))
    BY <2>5, <2>6, <2>7, FollowsJoin
  <2> QED
    BY <2>2, <2>5, <2>8
<1>3. \A s \in Seq(TurnSet) : s \in S
  <2> HIDE DEF S
  <2> QED
    BY <1>1, <1>2, SeqInduction
<1> QED
  BY <1>3

\* The ids of the calls among blocks, or of the results.
LEMMA IdSetIs ==
  ASSUME NEW s \in Seq(BlockSet), NEW type
  PROVE  /\ \A k \in 1..Len(s) : s[k].type = type => s[k].id \in IdSet(s, type)
         /\ \A id \in IdSet(s, type) : \E k \in 1..Len(s) : s[k].type = type /\ s[k].id = id
<1>1. DOMAIN s = 1..Len(s)
  OBVIOUS
<1> QED
  BY <1>1 DEF IdSet, Positions

LEMMA IdsJoin ==
  ASSUME NEW a \in Seq(BlockSet), NEW b \in Seq(BlockSet), NEW type
  PROVE  IdSet(a \o b, type) = IdSet(a, type) \cup IdSet(b, type)
<1> PICK n : n = Len(a)
  OBVIOUS
<1> PICK m : m = Len(b)
  OBVIOUS
<1> PICK c : c = a \o b
  OBVIOUS
<1>1. /\ n \in Nat /\ m \in Nat /\ c \in Seq(BlockSet) /\ Len(c) = n + m
      /\ (\A i \in 1..n : c[i] = a[i]) /\ (\A i \in 1..m : c[n + i] = b[i])
  BY Joined
<1>2. ASSUME NEW id \in IdSet(c, type)
      PROVE  id \in IdSet(a, type) \cup IdSet(b, type)
  <2>1. PICK k \in 1..(n + m) : c[k].type = type /\ c[k].id = id
    <3>1. \E k \in 1..Len(c) : c[k].type = type /\ c[k].id = id
      <4>1. c \in Seq(BlockSet) /\ id \in IdSet(c, type)
        BY <1>1
      <4>2. \A x \in IdSet(c, type) : \E k \in 1..Len(c) : c[k].type = type /\ c[k].id = x
        BY ONLY <4>1, IdSetIs
      <4> QED
        BY ONLY <4>1, <4>2
    <3> QED
      BY <1>1, <3>1
  <2>2. CASE k \in 1..n
    <3>1. a[k].type = type /\ a[k].id = id
      BY <1>1, <2>1, <2>2
    <3> QED
      BY <2>2, <3>1, IdSetIs
  <2>3. CASE k \notin 1..n
    <3> PICK j : j = k - n
      OBVIOUS
    <3>1. j \in 1..m /\ k = n + j
      BY <1>1, <2>3
    <3>2. b[j].type = type /\ b[j].id = id
      BY <1>1, <2>1, <3>1
    <3> QED
      BY <3>1, <3>2, IdSetIs
  <2> QED
    BY <2>2, <2>3
<1>3. ASSUME NEW id \in IdSet(a, type)
      PROVE  id \in IdSet(c, type)
  <2>1. PICK k \in 1..n : a[k].type = type /\ a[k].id = id
    BY IdSetIs
  <2>2. k \in 1..(n + m) /\ c[k] = a[k]
    BY <1>1
  <2> QED
    <3>1. k \in 1..Len(c) /\ c[k].type = type /\ c[k].id = id /\ c \in Seq(BlockSet)
      BY <1>1, <2>1, <2>2
    <3> QED
      BY ONLY <3>1, IdSetIs
<1>4. ASSUME NEW id \in IdSet(b, type)
      PROVE  id \in IdSet(c, type)
  <2>1. PICK k \in 1..m : b[k].type = type /\ b[k].id = id
    BY IdSetIs
  <2>2. n + k \in 1..(n + m) /\ c[n + k] = b[k]
    BY <1>1
  <2> QED
    BY <1>1, <2>1, <2>2, IdSetIs
<1> QED
  BY <1>2, <1>3, <1>4

LEMMA IdsNone ==
  ASSUME NEW s \in Seq(BlockSet), NEW type, \A i \in 1..Len(s) : s[i].type # type
  PROVE  IdSet(s, type) = {}
BY IdSetIs

LEMMA IdsSame ==
  ASSUME NEW s \in Seq(BlockSet), NEW r \in Seq(BlockSet), Len(r) = Len(s), NEW type,
         \A i \in 1..Len(s) : r[i].type = s[i].type /\ r[i].id = s[i].id
  PROVE  IdSet(r, type) = IdSet(s, type)
<1>1. DOMAIN s = 1..Len(s) /\ DOMAIN r = 1..Len(s)
  OBVIOUS
<1> QED
  BY <1>1 DEF IdSet, Positions

LEMMA IdsOfCalls ==
  ASSUME NEW calls \in Seq(Nat)
  PROVE  /\ IdSet(ResultsOf(calls), "tool_result") = ToSet(calls)
         /\ IdSet(ResultsOf(calls), "tool_use") = {}
         /\ IdSet(Uses(calls), "tool_use") = ToSet(calls)
         /\ IdSet(Uses(calls), "tool_result") = {}
<1> PICK n : n = Len(calls)
  OBVIOUS
<1> PICK r : r = ResultsOf(calls)
  OBVIOUS
<1> PICK u : u = Uses(calls)
  OBVIOUS
<1>1. /\ r \in Seq(BlockSet) /\ Len(r) = n /\ u \in Seq(BlockSet) /\ Len(u) = n
      /\ \A i \in 1..n : r[i] = ToolResult(calls[i], << "result" >>) /\ u[i] = ToolUse(calls[i])
  BY CallTypes
<1>2. \A id, x : /\ ToolResult(id, x).type = "tool_result" /\ ToolResult(id, x).id = id
                 /\ ToolUse(id).type = "tool_use" /\ ToolUse(id).id = id
  BY DEF ToolResult, ToolUse, Block
<1>3. \A i \in 1..n : /\ r[i].type = "tool_result" /\ r[i].id = calls[i]
                      /\ u[i].type = "tool_use" /\ u[i].id = calls[i]
  BY <1>1, <1>2
<1>4. DOMAIN r = 1..n /\ DOMAIN u = 1..n /\ DOMAIN calls = 1..n
  BY <1>1
<1>5. ToSet(calls) = {calls[i] : i \in 1..n}
  BY <1>4 DEF ToSet
<1>6. IdSet(r, "tool_result") = {calls[i] : i \in 1..n} /\ IdSet(u, "tool_use") = {calls[i] : i \in 1..n}
  <2>1. Positions(r, "tool_result") = 1..n /\ Positions(u, "tool_use") = 1..n
    BY <1>3, <1>4 DEF Positions
  <2>2. /\ IdSet(r, "tool_result") = {r[i].id : i \in 1..n}
        /\ IdSet(u, "tool_use") = {u[i].id : i \in 1..n}
    BY ONLY <2>1 DEF IdSet
  <2> QED
    BY ONLY <1>3, <2>2
<1>7. IdSet(r, "tool_use") = {} /\ IdSet(u, "tool_result") = {}
  <2>1. \A i \in 1..Len(r) : r[i].type # "tool_use"
    BY <1>1, <1>3
  <2>2. \A i \in 1..Len(u) : u[i].type # "tool_result"
    BY <1>1, <1>3
  <2> QED
    BY <1>1, <2>1, <2>2, IdsNone
<1> QED
  BY <1>5, <1>6, <1>7

LEMMA IdsKept ==
  ASSUME NEW types, NEW type, type \notin types
  PROVE  \A s \in Seq(BlockSet) : IdSet(OtherThan(s, types), type) = IdSet(s, type)
<1> DEFINE S == {s \in Seq(BlockSet) : IdSet(OtherThan(s, types), type) = IdSet(s, type)}
<1>1. << >> \in S
  <2>1. OtherThan(<< >>, types) = << >> /\ << >> \in Seq(BlockSet)
    BY TakenOfNothing
  <2> QED
    BY <2>1
<1>2. ASSUME NEW s \in Seq(BlockSet), NEW b \in BlockSet, s \in S
      PROVE  Append(s, b) \in S
  <2> PICK one : one = << b >>
    OBVIOUS
  <2> PICK w : w = OtherThan(one, types)
    OBVIOUS
  <2> PICK o : o = OtherThan(s, types)
    OBVIOUS
  <2>1. one \in Seq(BlockSet) /\ Append(s, b) = s \o one /\ s \o one \in Seq(BlockSet)
    OBVIOUS
  <2>2. o \in Seq(BlockSet) /\ w \in Seq(BlockSet)
    BY <2>1, TakenType
  <2>3. IdSet(o, type) = IdSet(s, type)
    BY <1>2
  <2> HIDE DEF S
  <2>4. OtherThan(s \o one, types) = o \o w
    <3>1. OtherThan(s \o one, types) = OtherThan(s, types) \o OtherThan(one, types)
      BY <2>1, OthersOfTwo
    <3> QED
      BY <3>1
  <2>5. IdSet(w, type) = IdSet(one, type)
    <3>1. w = When(b.type \notin types, b)
      BY TakenOfOne
    <3>2. CASE b.type \notin types
      BY <3>1, <3>2 DEF When
    <3>3. CASE b.type \in types
      <4>1. w = << >>
        BY <3>1, <3>3 DEF When
      <4>2. (\A i \in 1..Len(one) : one[i].type # type) /\ \A i \in 1..Len(w) : w[i].type # type
        <5>1. b.type # type
          BY <3>3
        <5>2. Len(one) = 1 /\ one[1] = b /\ 1..1 = {1} /\ Len(<< >>) = 0 /\ 1..0 = {}
          OBVIOUS
        <5> QED
          BY <4>1, <5>1, <5>2
      <4> QED
        BY <2>1, <2>2, <4>2, IdsNone
    <3> QED
      BY <3>2, <3>3
  <2>6. IdSet(o \o w, type) = IdSet(o, type) \cup IdSet(w, type)
    BY ONLY <2>2, IdsJoin
  <2>7. IdSet(s \o one, type) = IdSet(s, type) \cup IdSet(one, type)
    <3>1. s \in Seq(BlockSet) /\ one \in Seq(BlockSet)
      BY <2>1
    <3> QED
      BY ONLY <3>1, IdsJoin
  <2> QED
    BY <2>1, <2>3, <2>4, <2>5, <2>6, <2>7 DEF S
<1>3. \A s \in Seq(BlockSet) : s \in S
  <2> HIDE DEF S
  <2> QED
    BY <1>1, <1>2, SeqInduction
<1> QED
  BY <1>3

\* No call and no result among what the user says.
LEMMA UserIds ==
  ASSUME NEW s \in Seq(BlockSet), \A i \in 1..Len(s) : s[i].type \in {"text", "image", "thinking"}
  PROVE  IdSet(s, "tool_use") = {} /\ IdSet(s, "tool_result") = {}
BY IdsNone

LEMMA OneMessageIds ==
  ASSUME NEW role, NEW b \in Seq(BlockSet)
  PROVE  /\ MadeBy(Message(role, Array(b))) = IdSet(b, "tool_use")
         /\ AnsweredBy(Message(role, Array(b))) = IdSet(b, "tool_result")
<1>1. Message(role, Array(b)).content.blocks = b
  BY DEF Message, Array
<1> QED
  BY <1>1 DEF MadeBy, AnsweredBy

\* A turn of the tools answers the calls of the model's, and calls nothing.
LEMMA ToolIds ==
  ASSUME NEW calls \in Seq(Nat), NEW b \in Seq(BlockSet),
         \A i \in 1..Len(b) : b[i].type \in {"text", "image", "thinking"}
  PROVE  /\ IdSet(ResultsOf(calls) \o b, "tool_result") = ToSet(calls)
         /\ IdSet(ResultsOf(calls) \o b, "tool_use") = {}
         /\ IdSet(b \o Uses(calls), "tool_use") = ToSet(calls)
         /\ IdSet(b \o Uses(calls), "tool_result") = {}
<1> PICK r : r = ResultsOf(calls)
  OBVIOUS
<1> PICK u : u = Uses(calls)
  OBVIOUS
<1>1. r \in Seq(BlockSet) /\ u \in Seq(BlockSet)
  BY CallTypes
<1>2. /\ IdSet(r, "tool_result") = ToSet(calls) /\ IdSet(r, "tool_use") = {}
      /\ IdSet(u, "tool_use") = ToSet(calls) /\ IdSet(u, "tool_result") = {}
  BY IdsOfCalls
<1>3. IdSet(b, "tool_use") = {} /\ IdSet(b, "tool_result") = {}
  BY UserIds
<1>4. /\ IdSet(r \o b, "tool_result") = IdSet(r, "tool_result") \cup IdSet(b, "tool_result")
      /\ IdSet(r \o b, "tool_use") = IdSet(r, "tool_use") \cup IdSet(b, "tool_use")
  BY <1>1, IdsJoin
<1>5. /\ IdSet(b \o u, "tool_result") = IdSet(b, "tool_result") \cup IdSet(u, "tool_result")
      /\ IdSet(b \o u, "tool_use") = IdSet(b, "tool_use") \cup IdSet(u, "tool_use")
  BY <1>1, IdsJoin
<1>6. \A A : A \cup {} = A /\ {} \cup A = A
  OBVIOUS
<1>7. /\ IdSet(r \o b, "tool_result") = ToSet(calls) /\ IdSet(r \o b, "tool_use") = {}
      /\ IdSet(b \o u, "tool_use") = ToSet(calls) /\ IdSet(b \o u, "tool_result") = {}
  BY ONLY <1>2, <1>3, <1>4, <1>5, <1>6
<1> QED
  BY <1>7

LEMMA TurnIds ==
  ASSUME NEW t \in TurnSet
  PROVE  AnsweredBy(AsAnthropic(t)) = Opening(t) /\ MadeBy(AsAnthropic(t)) = Closing(t)
<1> PICK b : b = t.content.blocks
  OBVIOUS
<1> PICK calls : calls = t.calls
  OBVIOUS
<1> PICK m : m = AsAnthropic(t)
  OBVIOUS
<1>1. /\ t.by \in {"user", "tools", "model"} /\ calls \in Seq(Nat) /\ b \in Seq(BlockSet)
      /\ \A i \in 1..Len(b) : b[i].type \in {"text", "image", "thinking"}
  BY TurnFields
<1>2. CASE t.by = "user"
  <2>1. m = Message("user", t.content)
    BY <1>2, AnthropicTurn
  <2>2. m.content.blocks = b
    BY <2>1 DEF Message
  <2>3. Opening(t) = {} /\ Closing(t) = {}
    BY <1>2 DEF Opening, Closing
  <2> QED
    BY <1>1, <2>2, <2>3, UserIds DEF MadeBy, AnsweredBy
<1>3. CASE t.by = "tools"
  <2>1. m = Message("user", Array(ResultsOf(calls) \o b)) /\ ResultsOf(calls) \o b \in Seq(BlockSet)
    BY <1>3, AnthropicTurn
  <2>2. /\ IdSet(ResultsOf(calls) \o b, "tool_result") = ToSet(calls)
        /\ IdSet(ResultsOf(calls) \o b, "tool_use") = {}
    BY <1>1, ToolIds
  <2>3. MadeBy(m) = {} /\ AnsweredBy(m) = ToSet(calls)
    BY <2>1, <2>2, OneMessageIds
  <2>4. Opening(t) = ToSet(calls) /\ Closing(t) = {}
    BY <1>3 DEF Opening, Closing
  <2> QED
    BY <2>3, <2>4
<1>4. CASE t.by = "model"
  <2> PICK rb : rb = Reasoned(t) \o b
    OBVIOUS
  <2>1. m = Message("assistant", Array(rb \o Uses(calls))) /\ rb \o Uses(calls) \in Seq(BlockSet)
    BY <1>4, AnthropicTurn
  <2>2. rb \in Seq(BlockSet) /\ \A i \in 1..Len(rb) : rb[i].type \in {"text", "image", "thinking"}
    <3> PICK r : r = Reasoned(t)
      OBVIOUS
    <3>1. r \in Seq(BlockSet) /\ \A i \in 1..Len(r) : r[i].type \in {"text", "image", "thinking"}
      BY ReasonedType
    <3> PICK n, k : n = Len(r) /\ k = Len(b)
      OBVIOUS
    <3>2. /\ n \in Nat /\ k \in Nat /\ rb \in Seq(BlockSet) /\ Len(rb) = n + k
          /\ (\A i \in 1..n : rb[i] = r[i]) /\ (\A i \in 1..k : rb[n + i] = b[i])
      BY <1>1, <3>1, Joined
    <3>3. \A i \in 1..(n + k) : rb[i].type \in {"text", "image", "thinking"}
      <4> TAKE i \in 1..(n + k)
      <4>1. CASE i \in 1..n
        BY <3>1, <3>2, <4>1
      <4>2. CASE i \notin 1..n
        <5> PICK j : j = i - n
          OBVIOUS
        <5>1. j \in 1..k /\ i = n + j
          BY <3>2, <4>2
        <5> QED
          BY <1>1, <3>2, <5>1
      <4> QED
        BY <4>1, <4>2
    <3> QED
      BY <3>2, <3>3
  <2>3. /\ IdSet(rb \o Uses(calls), "tool_use") = ToSet(calls)
        /\ IdSet(rb \o Uses(calls), "tool_result") = {}
    <3>1. calls \in Seq(Nat) /\ rb \in Seq(BlockSet)
          /\ \A i \in 1..Len(rb) : rb[i].type \in {"text", "image", "thinking"}
      BY <1>1, <2>2
    <3> QED
      BY ONLY <3>1, ToolIds
  <2>4. MadeBy(m) = ToSet(calls) /\ AnsweredBy(m) = {}
    <3> PICK z : z = rb \o Uses(calls)
      OBVIOUS
    <3>1. z \in Seq(BlockSet) /\ m = Message("assistant", Array(z))
      BY <2>1
    <3>2. /\ MadeBy(Message("assistant", Array(z))) = IdSet(z, "tool_use")
          /\ AnsweredBy(Message("assistant", Array(z))) = IdSet(z, "tool_result")
      BY ONLY <3>1, OneMessageIds
    <3> QED
      BY <2>3, <3>1, <3>2
  <2>5. Opening(t) = {} /\ Closing(t) = ToSet(calls)
    BY <1>4 DEF Opening, Closing
  <2> QED
    BY <2>4, <2>5
<1> QED
  BY <1>1, <1>2, <1>3, <1>4

\* The same holds of what the agent makes of it.
LEMMA UserMessagesFollow ==
  ASSUME NEW c \in ContentSet, \A i \in 1..Len(c.blocks) : c.blocks[i].type \in {"text", "image"}
  PROVE  Follows({}, UserMessages(c), {})
<1>1. CASE c.blocks = << >>
  BY <1>1, FollowsNothing DEF UserMessages
<1>2. CASE c.blocks # << >>
  <2> PICK u : u = Unsourced(c)
    OBVIOUS
  <2> PICK m : m = Message("user", u)
    OBVIOUS
  <2> PICK d : d = Decoded(c.blocks)
    OBVIOUS
  <2>1. c.blocks \in Seq(BlockSet)
    BY DEF ContentSet
  <2>2. /\ d \in Seq(BlockSet) /\ Len(d) = Len(c.blocks)
        /\ \A i \in 1..Len(d) : d[i].type \in {"text", "image", "thinking"}
    BY <2>1, DecodeTakes
  <2>3. u.blocks = d
    BY UserChatsType
  <2>4. m.content.blocks = d
    BY <2>3 DEF Message
  <2>5. AnsweredBy(m) = {} /\ MadeBy(m) = {}
    BY <2>2, <2>4, UserIds DEF MadeBy, AnsweredBy
  <2>6. UserMessages(c) = << m >>
    BY <1>2 DEF UserMessages
  <2> QED
    BY <2>5, <2>6, FollowsOne
<1> QED
  BY <1>1, <1>2

LEMMA TurnMessagesFollow ==
  ASSUME NEW t \in TurnSet
  PROVE  Follows(Opening(t), TurnMessages(t), Closing(t))
<1> PICK b : b = t.content.blocks
  OBVIOUS
<1> PICK calls : calls = t.calls
  OBVIOUS
<1>1. /\ t.by \in {"user", "tools", "model"} /\ calls \in Seq(Nat) /\ b \in Seq(BlockSet)
      /\ \A i \in 1..Len(b) : b[i].type \in {"text", "image", "thinking"}
  BY TurnFields
<1>2. CASE t.by = "user"
  <2>1. t.content \in ContentSet
        /\ \A i \in 1..Len(t.content.blocks) : t.content.blocks[i].type \in {"text", "image"}
    BY TurnArray
  <2>2. Opening(t) = {} /\ Closing(t) = {} /\ TurnMessages(t) = UserMessages(t.content)
    BY <1>2 DEF Opening, Closing, TurnMessages
  <2> QED
    BY <2>1, <2>2, UserMessagesFollow
<1>3. CASE t.by = "tools"
  <2> PICK c : c = Array(b)
    OBVIOUS
  <2> PICK r : r = ResultsOf(calls)
    OBVIOUS
  <2> PICK m : m = Message("user", Array(r))
    OBVIOUS
  <2> PICK x : x = << m >>
    OBVIOUS
  <2> PICK y : y = UserMessages(c)
    OBVIOUS
  <2>1. c \in ContentSet /\ \A i \in 1..Len(c.blocks) : c.blocks[i].type \in {"text", "image"}
    BY TurnArray
  <2>2. Follows({}, y, {}) /\ y \in Seq(MessageSet)
    BY <2>1, UserMessagesFollow, UserConverted
  <2>3. r \in Seq(BlockSet) /\ IdSet(r, "tool_result") = ToSet(calls) /\ IdSet(r, "tool_use") = {}
    BY <1>1, CallTypes, IdsOfCalls
  <2>4. AnsweredBy(m) = ToSet(calls) /\ MadeBy(m) = {}
    BY <2>3, OneMessageIds
  <2>5. Follows(ToSet(calls), x, {})
    BY <2>4, FollowsOne
  <2>6. x \in Seq(MessageSet)
    BY <2>3, ArrayType, OneMessageBlocks
  <2>7. Follows(ToSet(calls), x \o y, {})
    BY <2>2, <2>5, <2>6, FollowsJoin
  <2>8. TurnMessages(t) = x \o y
    BY <1>3 DEF TurnMessages
  <2>9. Opening(t) = ToSet(calls) /\ Closing(t) = {}
    BY <1>3 DEF Opening, Closing
  <2> QED
    BY <2>7, <2>8, <2>9
<1>4. CASE t.by = "model"
  <2> PICK u : u = b \o Uses(calls)
    OBVIOUS
  <2> PICK m : m = Message("assistant", Array(u))
    OBVIOUS
  <2>1. u \in Seq(BlockSet)
    <3>1. Uses(calls) \in Seq(BlockSet)
      BY <1>1, CallTypes
    <3> QED
      BY ONLY <1>1, <3>1, u = b \o Uses(calls)
  <2>2. IdSet(u, "tool_use") = ToSet(calls) /\ IdSet(u, "tool_result") = {}
    BY <1>1, ToolIds
  <2>3. AnsweredBy(m) = {} /\ MadeBy(m) = ToSet(calls)
    BY <2>1, <2>2, OneMessageIds
  <2>4. Follows({}, << m >>, ToSet(calls))
    BY <2>3, FollowsOne
  <2>5. TurnMessages(t) = << m >>
    BY <1>4 DEF TurnMessages
  <2>6. Opening(t) = {} /\ Closing(t) = ToSet(calls)
    BY <1>4 DEF Opening, Closing
  <2> QED
    BY <2>4, <2>5, <2>6
<1> QED
  BY <1>1, <1>2, <1>3, <1>4

\* A reminder is no call and no result, and changes the id of none.
LEMMA AddedIds ==
  ASSUME NEW s \in Seq(BlockSet), NEW part \in AnyPart, NEW type, type # "text"
  PROVE  /\ \A i \in 1..Len(s) : IdSet(AddAt(s, i, part), type) = IdSet(s, type)
         /\ IdSet(Append(s, Text(<< part >>)), type) = IdSet(s, type)
         /\ \A of : IdSet(AddToLast(s, of, part), type) = IdSet(s, type)
<1>1. ASSUME NEW i \in 1..Len(s)
      PROVE  IdSet(AddAt(s, i, part), type) = IdSet(s, type)
  <2> PICK a : a = AddAt(s, i, part)
    OBVIOUS
  <2>1. AddedAt(a, s, i, part)
    BY AddAtIs
  <2>2. /\ a \in Seq(BlockSet) /\ Len(a) = Len(s) /\ a[i] = [s[i] EXCEPT !.text = Append(@, part)]
        /\ \A k \in 1..Len(s) : k # i => a[k] = s[k]
    BY <2>1 DEF AddedAt
  <2>3. s[i] \in BlockSet
    BY MemberType
  <2>4. a[i].type = s[i].type /\ a[i].id = s[i].id
    BY <2>2, <2>3 DEF BlockSet
  <2>5. \A k \in 1..Len(s) : a[k].type = s[k].type /\ a[k].id = s[k].id
    BY <2>2, <2>4
  <2> QED
    BY <2>2, <2>5, IdsSame
<1>2. IdSet(Append(s, Text(<< part >>)), type) = IdSet(s, type)
  <2> PICK b : b = Text(<< part >>)
    OBVIOUS
  <2> PICK one : one = << b >>
    OBVIOUS
  <2>1. b \in BlockSet /\ b.type = "text"
    <3>1. << part >> \in Seq(AnyPart)
      OBVIOUS
    <3>2. b \in BlockSet
      BY <3>1, BlockTypes
    <3> QED
      BY <3>2 DEF Text, Block
  <2>2. one \in Seq(BlockSet) /\ Append(s, b) = s \o one
    BY <2>1
  <2>3. IdSet(one, type) = {}
    <3>1. Len(one) = 1 /\ one[1] = b /\ 1..1 = {1}
      OBVIOUS
    <3>2. \A i \in 1..Len(one) : one[i].type # type
      BY <2>1, <3>1
    <3> QED
      BY <2>2, <3>2, IdsNone
  <2>4. IdSet(s \o one, type) = IdSet(s, type) \cup IdSet(one, type)
    <3>1. s \in Seq(BlockSet) /\ one \in Seq(BlockSet)
      BY <2>2
    <3> QED
      BY ONLY <3>1, IdsJoin
  <2>5. IdSet(s, type) \cup {} = IdSet(s, type)
    OBVIOUS
  <2>6. IdSet(s \o one, type) = IdSet(s, type)
    BY ONLY <2>3, <2>4, <2>5
  <2> QED
    BY <2>2, <2>6
<1>3. ASSUME NEW of
      PROVE  IdSet(AddToLast(s, of, part), type) = IdSet(s, type)
  <2>1. CASE Positions(s, of) = {}
    BY <1>2, <2>1 DEF AddToLast
  <2>2. CASE Positions(s, of) # {}
    <3> PICK i : i = Max(Positions(s, of))
      OBVIOUS
    <3>1. i \in 1..Len(s)
      BY <2>2, PositionsIn
    <3>2. AddToLast(s, of, part) = AddAt(s, i, part)
      BY <2>2 DEF AddToLast
    <3> QED
      BY <1>1, <3>1, <3>2
  <2> QED
    BY <2>1, <2>2
<1> QED
  BY <1>1, <1>2, <1>3

LEMMA RemindedIds ==
  ASSUME NEW m \in MessageSet, m.content.string => 1 \in 1..Len(m.content.blocks)
  PROVE  /\ Reminded(m) \in MessageSet
         /\ AnsweredBy(Reminded(m)) = AnsweredBy(m) /\ MadeBy(Reminded(m)) = MadeBy(m)
<1> PICK s : s = m.content.blocks
  OBVIOUS
<1> PICK r : r = RemindedBlocks(m)
  OBVIOUS
<1>1. /\ r \in Seq(BlockSet) /\ RemindUser(m) = [m EXCEPT !.content.blocks = r]
      /\ Reminded(m) \in MessageSet
  BY RemindedType
<1>2. s \in Seq(BlockSet) /\ Reminder \in AnyPart /\ m.content \in ContentSet
  BY PartsAreAny DEF MessageSet, ContentSet
<1>3. ASSUME NEW type, type # "text"
      PROVE  IdSet(r, type) = IdSet(s, type)
  <2>1. /\ \A i \in 1..Len(s) : IdSet(AddAt(s, i, Reminder), type) = IdSet(s, type)
        /\ IdSet(Append(s, Text(<< Reminder >>)), type) = IdSet(s, type)
        /\ IdSet(AddToLast(s, "tool_result", Reminder), type) = IdSet(s, type)
    BY <1>2, <1>3, AddedIds
  <2> QED
    BY <2>1 DEF RemindedBlocks
<1>4. [m EXCEPT !.content.blocks = r].content.blocks = r
  <2>1. [m EXCEPT !.content.blocks = r].content = [m.content EXCEPT !.blocks = r]
    BY <1>1, MessageWith
  <2>2. [m.content EXCEPT !.blocks = r].blocks = r
    BY <1>1, <1>2, WithBlocks
  <2> QED
    BY <2>1, <2>2
<1>5. CASE m.role = "user"
  <2>1. Reminded(m).content.blocks = r
    BY <1>1, <1>4, <1>5 DEF Reminded
  <2>2. IdSet(r, "tool_use") = IdSet(s, "tool_use") /\ IdSet(r, "tool_result") = IdSet(s, "tool_result")
    BY <1>3
  <2> QED
    BY <1>1, <2>1, <2>2 DEF MadeBy, AnsweredBy
<1>6. CASE m.role # "user"
  BY <1>1, <1>6 DEF Reminded
<1> QED
  BY <1>5, <1>6

LEMMA StrippedIds ==
  ASSUME NEW m \in MessageSet
  PROVE  AnsweredBy(Stripped(m)) = AnsweredBy(m) /\ MadeBy(Stripped(m)) = MadeBy(m)
<1> PICK s : s = m.content.blocks
  OBVIOUS
<1> PICK o : o = OtherThan(s, ThinkingTypes)
  OBVIOUS
<1>1. Stripped(m).content.blocks = o /\ s \in Seq(BlockSet)
  BY StripOne DEF MessageSet, ContentSet
<1>2. "tool_use" \notin ThinkingTypes /\ "tool_result" \notin ThinkingTypes
  BY DEF ThinkingTypes
<1>3. IdSet(o, "tool_use") = IdSet(s, "tool_use")
  BY <1>1, <1>2, IdsKept
<1>4. IdSet(o, "tool_result") = IdSet(s, "tool_result")
  BY <1>1, <1>2, IdsKept
<1> QED
  BY <1>1, <1>3, <1>4 DEF MadeBy, AnsweredBy

\* Messages of the same number, the calls and results of each where they were.
LEMMA PairedAlike ==
  ASSUME NEW a \in Seq(MessageSet), NEW b \in Seq(MessageSet), Follows({}, a, {}), Len(b) = Len(a),
         \A i \in 1..Len(a) : AnsweredBy(b[i]) = AnsweredBy(a[i]) /\ MadeBy(b[i]) = MadeBy(a[i])
  PROVE  Paired(b)
<1>1. /\ Len(a) \in Nat /\ (a = << >> <=> Len(a) = 0) /\ (b = << >> <=> Len(b) = 0)
  OBVIOUS
<1>2. (a = << >> <=> b = << >>) /\ (a # << >> => Len(a) \in 1..Len(a))
  BY <1>1
<1>3. Follows({}, b, {})
  BY <1>1, <1>2, FollowsSame
<1> QED
  BY <1>3, FollowsPaired

LEMMA CallsPaired ==
  ASSUME turns \in Seq(TurnSet), InTurn(turns), system \in System, LastTurn(turns).by # "model"
  PROVE  Paired(FromAgent) /\ Paired(FromProxy) /\ Paired(FromRouter)
<1> PICK M : M = Messages
  OBVIOUS
<1> PICK n \in Nat : n = Len(turns)
  OBVIOUS
<1>1. /\ M \in Seq(MessageSet) /\ Len(M) = n /\ DOMAIN M = 1..n
      /\ \A i \in 1..n : M[i] = AsAnthropic(turns[i]) /\ turns[i] \in TurnSet /\ M[i] \in MessageSet
  BY MessagesType, MemberType DEF Messages
<1>2. Closing(LastTurn(turns)) = {}
  BY DEF Closing
<1>3. Follows({}, M, {})
  <2>1. IsMap(AnthropicTaker, TurnSet, Seq(MessageSet)) /\ M = Gathered(AnthropicTaker, turns)
    BY MessagesGathered DEF Messages
  <2>2. ASSUME NEW t \in TurnSet
        PROVE  Follows(Opening(t), AnthropicTaker[t], Closing(t))
    BY TurnIds, FollowsOne DEF AnthropicTaker
  <2>3. Follows({}, Gathered(AnthropicTaker, turns), Closing(LastTurn(turns)))
    BY <2>1, <2>2, TurnsFollow
  <2> QED
    BY <1>2, <2>1, <2>3
<1>4. Paired(FromAgent)
  <2>1. FromAgent = Gathered(TurnMessagesTaker, turns) /\ FromAgent \in Seq(MessageSet)
    BY FromAgentIs
  <2>2. IsMap(TurnMessagesTaker, TurnSet, Seq(MessageSet))
    BY AgentTakers
  <2>3. \A t \in TurnSet : Follows(Opening(t), TurnMessagesTaker[t], Closing(t))
    BY TurnMessagesFollow DEF TurnMessagesTaker
  <2>4. Follows({}, Gathered(TurnMessagesTaker, turns), Closing(LastTurn(turns)))
    BY <2>2, <2>3, TurnsFollow
  <2> QED
    BY <1>2, <2>1, <2>4, FollowsPaired
<1>5. Paired(FromProxy)
  <2> PICK b : b = FromProxy
    OBVIOUS
  <2>1. b = [i \in 1..n |-> Reminded(M[i])]
    BY <1>1 DEF FromProxy, RemindAnthropic, Reminded
  <2>2. ASSUME NEW i \in 1..n
        PROVE  /\ Reminded(M[i]) \in MessageSet
               /\ AnsweredBy(Reminded(M[i])) = AnsweredBy(M[i]) /\ MadeBy(Reminded(M[i])) = MadeBy(M[i])
    <3>1. M[i] \in MessageSet /\ (M[i].content.string => 1 \in 1..Len(M[i].content.blocks))
      BY <1>1, PlainTurn
    <3> QED
      BY <3>1, RemindedIds
  <2>3. b \in [1..n -> MessageSet]
    BY <2>1, <2>2
  <2>4. b \in Seq(MessageSet) /\ Len(b) = n
    BY <2>3, FunctionIsSeq
  <2>5. \A i \in 1..n : AnsweredBy(b[i]) = AnsweredBy(M[i]) /\ MadeBy(b[i]) = MadeBy(M[i])
    BY <2>1, <2>2
  <2> QED
    BY <1>1, <1>3, <2>4, <2>5, PairedAlike
<1>6. Paired(FromRouter)
  <2> PICK b : b = FromRouter
    OBVIOUS
  <2> DEFINE Spares(i) == M[i].role # "assistant" \/ i = LastAssistant(M) \/ M[i].content.string
  <2>1. b = [i \in 1..n |-> IF Spares(i) THEN M[i] ELSE Stripped(M[i])]
    BY <1>1 DEF FromRouter, StripPriorThinkingBlocks, Stripped
  <2> HIDE DEF Spares
  <2>2. ASSUME NEW i \in 1..n
        PROVE  /\ Stripped(M[i]) \in MessageSet
               /\ AnsweredBy(Stripped(M[i])) = AnsweredBy(M[i]) /\ MadeBy(Stripped(M[i])) = MadeBy(M[i])
    BY <1>1, StripOne, StrippedIds
  <2>3. b \in [1..n -> MessageSet]
    BY <1>1, <2>1, <2>2
  <2>4. b \in Seq(MessageSet) /\ Len(b) = n
    BY <2>3, FunctionIsSeq
  <2>5. \A i \in 1..n : AnsweredBy(b[i]) = AnsweredBy(M[i]) /\ MadeBy(b[i]) = MadeBy(M[i])
    BY <2>1, <2>2
  <2> QED
    BY <1>1, <1>3, <2>4, <2>5, PairedAlike
<1> QED
  BY <1>4, <1>5, <1>6

\* However a request is translated, its calls and their results stay where the
\* API wants them (CallsStayPaired), and the agent's conversion to its own
\* format and back keeps every block but reasoning and every text of a system
\* prompt (AgentKeepsAll), for any contents, calls and number of turns.
THEOREM TranslationAlwaysKeeps == ConversationSpec => []TranslationInv
<1>1. ASSUME TurnsInv, Arriving
      PROVE  /\ turns \in Seq(TurnSet) /\ InTurn(turns) /\ system \in System
             /\ LastTurn(turns).by # "model"
  <2>1. turns # << >> /\ Latest.by # "model"
    BY <1>1 DEF TurnsInv, Arriving
  <2>2. LastTurn(turns) = Latest
    BY DEF LastTurn, Latest
  <2> QED
    BY <1>1, <2>1, <2>2 DEF TurnsInv, ConversationTypeOK
<1>2. ASSUME TurnsInv PROVE CallsStayPaired
  BY <1>1, <1>2, CallsPaired DEF CallsStayPaired
<1>3. ASSUME TurnsInv PROVE AgentKeepsAll
  BY <1>1, <1>3, BlocksKept, SystemKept DEF AgentKeepsAll
<1>4. TurnsInv => TranslationInv
  BY <1>2, <1>3 DEF TranslationInv, TurnsInv
<1> QED
  BY <1>4, TurnsAlways, PTL

----------------------------------------------------------------------------
(* Ranking by distance                                                      *)

\* The lesser of two numbers.
LEMMA MinOfTwo ==
  ASSUME NEW a \in Int, NEW b \in Int
  PROVE  /\ Min({a, b}) \in {a, b} /\ Min({a, b}) <= a /\ Min({a, b}) <= b
<1>1. \E x \in {a, b} : \A y \in {a, b} : x <= y
  <2>1. CASE a <= b
    BY <2>1
  <2>2. CASE b <= a
    BY <2>2
  <2> QED
    BY <2>1, <2>2
<1> QED
  BY <1>1 DEF Min

\* Of two elements the one at the smaller distance has the lower rank.
LEMMA CloserRanksLower ==
  ASSUME NEW S, IsFiniteSet(S), NEW d, \A x \in S : d[x] \in Int,
         NEW a \in S, NEW b \in S, d[a] < d[b]
  PROVE  Cardinality(Closer(S, a, d)) < Cardinality(Closer(S, b, d))
<1> DEFINE A == Closer(S, a, d)
           B == Closer(S, b, d)
<1>1. A \in SUBSET S /\ B \in SUBSET S /\ a \notin A /\ A \cup {a} \in SUBSET B
  BY DEF Closer
<1> HIDE DEF A, B
<1>2. IsFiniteSet(A) /\ IsFiniteSet(B)
  BY <1>1, FS_Subset
<1>3. Cardinality(A \cup {a}) = Cardinality(A) + 1 /\ IsFiniteSet(A \cup {a})
  BY <1>1, <1>2, FS_AddElement
<1>4. Cardinality(A \cup {a}) <= Cardinality(B)
  BY <1>1, <1>2, FS_Subset
<1>5. Cardinality(A) \in Nat /\ Cardinality(B) \in Nat
  BY <1>2, FS_CardinalityType
<1> QED
  BY <1>3, <1>4, <1>5 DEF A, B

\* What is ranked is there, and nothing twice.
LEMMA Ranking ==
  ASSUME NEW S, IsFiniteSet(S), NEW d, \A x \in S : d[x] \in Int,
         \A a, b \in S : d[a] = d[b] => a = b
  PROVE  LET f == NearestFirst(S, d)
         IN  f \in Seq(S) /\ IsInjective(f) /\ ToSet(f) = S
<1> DEFINE n == Cardinality(S)
           rank(x) == Cardinality(Closer(S, x, d))
           r == [x \in S |-> rank(x) + 1]
           f == NearestFirst(S, d)
<1>1. n \in Nat
  BY FS_CardinalityType
<1>2. \A x \in S : rank(x) \in Nat /\ rank(x) < n
  <2> TAKE x \in S
  <2>1. Closer(S, x, d) \in SUBSET (S \ {x})
    BY DEF Closer
  <2>2. IsFiniteSet(S \ {x}) /\ Cardinality(S \ {x}) = n - 1
    BY FS_RemoveElement
  <2>3. IsFiniteSet(Closer(S, x, d)) /\ rank(x) <= n - 1
    BY <2>1, <2>2, FS_Subset
  <2>4. rank(x) \in Nat
    BY <2>3, FS_CardinalityType
  <2> HIDE DEF rank, n
  <2> QED
    BY <1>1, <2>3, <2>4
<1>3. \A a, b \in S : rank(a) = rank(b) => a = b
  <2> SUFFICES ASSUME NEW a \in S, NEW b \in S, a # b
               PROVE  rank(a) # rank(b)
    OBVIOUS
  <2>1. d[a] < d[b] \/ d[b] < d[a]
    OBVIOUS
  <2>2. rank(a) < rank(b) \/ rank(b) < rank(a)
    BY <2>1, CloserRanksLower
  <2>3. rank(a) \in Nat /\ rank(b) \in Nat
    BY <1>2
  <2> HIDE DEF rank
  <2> QED
    BY <2>2, <2>3
<1> HIDE DEF rank, n
<1>4. r \in [S -> 1..n]
  BY <1>1, <1>2
<1>5. IsInjective(r)
  BY <1>2, <1>3 DEF IsInjective
<1>6. r \in Injection(S, 1..n)
  <2> HIDE DEF r
  <2> QED
    BY <1>4, <1>5 DEF Injection
<1>7. IsFiniteSet(1..n) /\ Cardinality(1..n) = n
  BY <1>1, FS_Interval
<1>8. r \in Surjection(S, 1..n)
  <2> HIDE DEF r
  <2> QED
    BY <1>6, <1>7, FS_Injection DEF n
<1>9. \A i \in 1..n : \E x \in S : rank(x) = i - 1
  <2> TAKE i \in 1..n
  <2>1. PICK x \in S : r[x] = i
    <3> HIDE DEF r
    <3> QED
      BY <1>8 DEF Surjection
  <2>2. rank(x) + 1 = i
    BY <2>1
  <2> QED
    BY <1>2, <2>2
<1>10. f = [i \in 1..n |-> CHOOSE x \in S : rank(x) = i - 1]
  BY DEF NearestFirst, n, rank
<1> HIDE DEF f
<1>11. \A i \in 1..n : f[i] \in S /\ rank(f[i]) = i - 1
  BY <1>9, <1>10
<1>12. DOMAIN f = 1..n /\ f \in [1..n -> S]
  BY <1>10, <1>11
<1>13. f \in Seq(S)
  BY <1>1, <1>12
<1>14. IsInjective(f)
  <2> SUFFICES ASSUME NEW i \in 1..n, NEW j \in 1..n, f[i] = f[j]
               PROVE  i = j
    BY <1>12 DEF IsInjective
  <2>1. i - 1 = j - 1
    BY <1>11
  <2> QED
    BY <2>1
<1>15. ASSUME NEW x \in S
       PROVE  x \in ToSet(f)
  <2> DEFINE i == rank(x) + 1
  <2>1. i \in 1..n /\ i - 1 = rank(x)
    BY <1>1, <1>2
  <2> HIDE DEF i
  <2>2. f[i] \in S /\ rank(f[i]) = rank(x)
    BY <1>11, <2>1
  <2>3. f[i] = x
    BY <1>3, <2>2
  <2> QED
    BY <1>12, <2>1, <2>3 DEF ToSet
<1> QED
  BY <1>11, <1>12, <1>13, <1>14, <1>15 DEF ToSet, f

----------------------------------------------------------------------------
(* Sequences of ids                                                         *)

\* What a sequence made of two holds, and when it holds nothing twice.
LEMMA Joining ==
  ASSUME NEW S, NEW a \in Seq(S), NEW b \in Seq(S)
  PROVE  /\ a \o b \in Seq(S) /\ ToSet(a \o b) = ToSet(a) \cup ToSet(b)
         /\ IsInjective(a) /\ IsInjective(b) /\ ToSet(a) \cap ToSet(b) = {}
              => IsInjective(a \o b)
<1> DEFINE c == a \o b
<1> PICK m : m = Len(a)
  OBVIOUS
<1> PICK n : n = Len(b)
  OBVIOUS
<1>1. /\ c \in Seq(S) /\ DOMAIN c = 1..(m + n) /\ m \in Nat /\ n \in Nat
      /\ DOMAIN a = 1..m /\ DOMAIN b = 1..n
  OBVIOUS
<1>2. /\ \A i \in 1..m : i \in 1..(m + n) /\ c[i] = a[i]
      /\ \A i \in 1..n : i + m \in 1..(m + n) /\ c[i + m] = b[i]
  OBVIOUS
<1>3. \A k \in 1..(m + n) : k \in 1..m \/ \E i \in 1..n : k = i + m
  <2> TAKE k \in 1..(m + n)
  <2>1. k \in 1..m \/ (k - m \in 1..n /\ k = (k - m) + m)
    BY <1>1
  <2> QED
    BY <2>1
<1> HIDE DEF c
<1>4. ASSUME NEW k \in 1..(m + n)
      PROVE  c[k] \in ToSet(a) \cup ToSet(b)
  <2>1. CASE k \in 1..m
    BY <1>1, <1>2, <2>1 DEF ToSet
  <2>2. CASE \E i \in 1..n : k = i + m
    <3>1. PICK i \in 1..n : k = i + m
      BY <2>2
    <3>2. c[k] = b[i]
      BY <1>2, <3>1
    <3> QED
      BY <1>1, <3>2 DEF ToSet
  <2> QED
    BY <1>3, <2>1, <2>2
<1>5. ToSet(c) = ToSet(a) \cup ToSet(b)
  <2>1. ASSUME NEW i \in 1..n
        PROVE  b[i] \in ToSet(c)
    <3>1. i + m \in DOMAIN c /\ c[i + m] = b[i]
      BY <1>1, <1>2
    <3> QED
      BY <3>1 DEF ToSet
  <2>2. ASSUME NEW i \in 1..m
        PROVE  a[i] \in ToSet(c)
    BY <1>1, <1>2 DEF ToSet
  <2> QED
    BY <1>1, <1>4, <2>1, <2>2 DEF ToSet
<1>6. ASSUME IsInjective(a), IsInjective(b), ToSet(a) \cap ToSet(b) = {},
             NEW k \in 1..(m + n), NEW l \in 1..(m + n), c[k] = c[l]
      PROVE  k = l
  <2> DEFINE InA(x) == x \in 1..m
             InB(x) == \E j \in 1..n : x = j + m
  <2>1. ASSUME NEW i \in 1..m, NEW j \in 1..n
        PROVE  c[i] # c[j + m]
    <3>1. c[i] \in ToSet(a) /\ c[j + m] \in ToSet(b)
      <4>1. c[i] = a[i] /\ c[j + m] = b[j]
        BY <1>2
      <4> QED
        BY <1>1, <4>1 DEF ToSet
    <3> QED
      BY <1>6, <3>1
  <2>2. CASE InA(k) /\ InA(l)
    BY <1>1, <1>2, <1>6, <2>2 DEF IsInjective
  <2>3. CASE InB(k) /\ InB(l)
    <3>1. PICK i \in 1..n, j \in 1..n : k = i + m /\ l = j + m
      BY <2>3
    <3>2. b[i] = b[j]
      <4>1. c[k] = b[i] /\ c[l] = b[j]
        BY <1>2, <3>1
      <4> QED
        BY <1>6, <4>1
    <3>3. i = j
      BY <1>1, <1>6, <3>2 DEF IsInjective
    <3> QED
      BY <3>1, <3>3
  <2>4. CASE InA(k) /\ InB(l)
    BY <1>6, <2>1, <2>4
  <2>5. CASE InA(l) /\ InB(k)
    BY <1>6, <2>1, <2>5
  <2>6. (InA(k) \/ InB(k)) /\ (InA(l) \/ InB(l))
    BY <1>3
  <2> HIDE DEF InA, InB
  <2> QED
    BY <2>2, <2>3, <2>4, <2>5, <2>6
<1>7. IsInjective(a) /\ IsInjective(b) /\ ToSet(a) \cap ToSet(b) = {} => IsInjective(c)
  BY <1>1, <1>6 DEF IsInjective
<1> QED
  BY <1>1, <1>5, <1>7 DEF c

\* The empty sequence holds nothing, and nothing twice.
LEMMA Nothing ==
  ToSet(<< >>) = {} /\ IsInjective(<< >>)
BY DEF ToSet, IsInjective

----------------------------------------------------------------------------
(* What a search answers                                                    *)

\* Finitely many memories have finitely many ids, and no more.
LEMMA IdsFinite ==
  ASSUME NEW S, IsFiniteSet(S)
  PROVE  /\ IsFiniteSet({m.id : m \in S})
         /\ Cardinality({m.id : m \in S}) <= Cardinality(S)
<1> DEFINE f == [m \in S |-> m.id]
           T == {m.id : m \in S}
<1>1. f \in Surjection(S, T)
  BY DEF Surjection
<1> QED
  BY <1>1, FS_Surjection

\* The ids a question may be answered with, each an id with a distance.
LEMMA FoundIds ==
  ASSUME stored \subseteq Memories, IsFiniteSet(stored), NEW q \in Query
  PROVE  LET ids == {m.id : m \in Matching(q)}
             d == Distance[q.prompt]
         IN  /\ ids \subseteq Ids /\ IsFiniteSet(ids)
             /\ \A id \in ids : d[id] \in Int
             /\ \A a, b \in ids : d[a] = d[b] => a = b
<1>1. Matching(q) \subseteq stored
  BY DEF Matching
<1>2. IsFiniteSet(Matching(q))
  BY <1>1, FS_Subset
<1>3. IsFiniteSet({m.id : m \in Matching(q)})
  BY <1>2, IdsFinite
<1>4. {m.id : m \in Matching(q)} \subseteq Ids
  BY <1>1, MemoryAssumption
<1>5. q.prompt \in Prompts
  BY DEF Query
<1> QED
  BY <1>3, <1>4, <1>5, DistanceAssumption

\* An answer holds ids not left out, each once.
LEMMA AnswerWell ==
  ASSUME stored \subseteq Memories, IsFiniteSet(stored), NEW q \in Query
  PROVE  /\ Results(q) \in Seq(Ids) /\ IsInjective(Results(q))
         /\ ToSet(Results(q)) = {id \in Nearest(q, FetchN(q)) :
              id \notin q.exclude /\ Distance[q.prompt][id] <= Threshold}
         /\ ToSet(Results(q)) \cap q.exclude = {}
<1> DEFINE ids == {m.id : m \in Matching(q)}
           d == Distance[q.prompt]
           S == {id \in Nearest(q, FetchN(q)) : id \notin q.exclude /\ d[id] <= Threshold}
<1>1. S \subseteq ids
  BY DEF Nearest
<1>2. /\ ids \subseteq Ids /\ IsFiniteSet(ids)
      /\ \A id \in ids : d[id] \in Int
      /\ \A a, b \in ids : d[a] = d[b] => a = b
  BY FoundIds
<1>3. Results(q) = NearestFirst(S, d)
  BY DEF Results
<1>4. S \cap q.exclude = {}
  OBVIOUS
<1>5. Results(q) \in Seq(S) /\ IsInjective(Results(q)) /\ ToSet(Results(q)) = S
  <2> HIDE DEF S, ids, d
  <2>1. IsFiniteSet(S)
    BY <1>1, <1>2, FS_Subset
  <2> QED
    BY <1>1, <1>2, <1>3, <2>1, Ranking
<1>6. S \subseteq Ids
  <2> HIDE DEF S, ids, d
  <2> QED
    BY <1>1, <1>2
<1>7. Results(q) \in Seq(Ids)
  <2> HIDE DEF S
  <2> QED
    BY <1>5, <1>6
<1> QED
  BY <1>4, <1>5, <1>7

----------------------------------------------------------------------------
(* What is shown in a session                                               *)

\* While a session's hook waits, its question leaves out what the session has
\* seen; an answer has nothing seen before and nothing twice; and an answer that
\* is recorded but not printed is seen and not shown.
HookInv(s) ==
  /\ hook[s] \in {"asking", "answered"} =>
       query[s] \in Query /\ query[s].exclude = ToSet(seen[s])
  /\ hook[s] = "answered" =>
       IsInjective(response[s]) /\ ToSet(response[s]) \cap ToSet(seen[s]) = {}
  /\ hook[s] = "recorded" =>
       /\ IsInjective(response[s]) /\ ToSet(response[s]) \subseteq ToSet(seen[s])
       /\ ToSet(response[s]) \cap ToSet(shown[s]) = {}

\* The invariant of one session, and of them all with the collection.
SessionInv(s) ==
  IsInjective(shown[s]) /\ ToSet(shown[s]) \subseteq ToSet(seen[s]) /\ HookInv(s)
IInv == TypeOK /\ IsFiniteSet(stored) /\ \A s \in Sessions : SessionInv(s)

LEMMA InitInv == Init => IInv
<1> SUFFICES ASSUME Init PROVE IInv
  OBVIOUS
<1>1. TypeOK
  BY BoundsAssumption DEF Init, TypeOK
<1>2. IsFiniteSet(stored)
  BY FS_EmptySet DEF Init
<1>3. \A s \in Sessions : SessionInv(s)
  BY Nothing DEF Init, SessionInv, HookInv
<1> QED
  BY <1>1, <1>2, <1>3 DEF IInv

\* What a session's hook leaves alone stays well.
LEMMA SessionUntouched ==
  ASSUME NEW t \in Sessions, SessionInv(t),
         hook'[t] = hook[t], query'[t] = query[t], response'[t] = response[t],
         seen'[t] = seen[t], shown'[t] = shown[t]
  PROVE  SessionInv(t)'
BY DEF SessionInv, HookInv

\* A hook that ends leaves the session's record well.
LEMMA EndKeeps ==
  ASSUME IInv, NEW s \in Sessions, End(s), UNCHANGED << server, stored, seen, shown, prompts >>
  PROVE  IInv'
<1>1. TypeOK'
  BY DEF IInv, TypeOK, End
<1>2. ASSUME NEW t \in Sessions
      PROVE  SessionInv(t)'
  <2>1. CASE t = s
    BY <2>1 DEF IInv, TypeOK, End, SessionInv, HookInv
  <2>2. CASE t # s
    BY <2>2, SessionUntouched DEF IInv, TypeOK, End
  <2> QED
    BY <2>1, <2>2
<1> QED
  BY <1>1, <1>2 DEF IInv

\* A post that is ingested replaces the memory of its id.
LEMMA IngestKeeps ==
  ASSUME IInv, NEW m \in Memories, Ingest(m)
  PROVE  IInv'
<1>1. /\ stored' \subseteq Memories /\ IsFiniteSet(stored')
      /\ \A a, b \in stored' : a.id = b.id => a = b
  <2>1. CASE m.type = ""
    BY <2>1 DEF Ingest, IInv, TypeOK
  <2>2. CASE m.type # ""
    <3> DEFINE kept == {old \in stored : old.id # m.id}
    <3>1. stored' = kept \cup {m}
      BY <2>2 DEF Ingest, Upsert
    <3>2. IsFiniteSet(kept)
      BY FS_Subset DEF IInv
    <3>3. IsFiniteSet(kept \cup {m})
      BY <3>2, FS_AddElement
    <3> QED
      BY <3>1, <3>3 DEF IInv, TypeOK
  <2> QED
    BY <2>1, <2>2
<1>2. TypeOK'
  BY <1>1 DEF Ingest, IInv, TypeOK
<1>3. ASSUME NEW t \in Sessions
      PROVE  SessionInv(t)'
  BY SessionUntouched DEF Ingest, IInv
<1> QED
  BY <1>1, <1>2, <1>3 DEF IInv

\* An answer has nothing that the question left out.
LEMMA SearchKeeps ==
  ASSUME IInv, NEW s \in Sessions, Search(s)
  PROVE  IInv'
<1> PICK answer : answer = IF server = "up" THEN Results(query[s]) ELSE << >>
  OBVIOUS
<1>1. response' = [response EXCEPT ![s] = answer]
  BY DEF Search
<1>2. query[s] \in Query /\ query[s].exclude = ToSet(seen[s])
  BY DEF Search, IInv, SessionInv, HookInv
<1>3. /\ answer \in Seq(Ids) /\ IsInjective(answer)
      /\ ToSet(answer) \cap query[s].exclude = {}
  <2>1. CASE server = "up"
    BY <1>2, <2>1, AnswerWell DEF IInv, TypeOK
  <2>2. CASE server # "up"
    BY <2>2, Nothing
  <2> QED
    BY <2>1, <2>2
<1>4. TypeOK'
  BY <1>1, <1>3 DEF Search, IInv, TypeOK
<1>5. ASSUME NEW t \in Sessions
      PROVE  SessionInv(t)'
  <2>1. CASE t = s
    <3>1. hook'[s] = "answered" /\ response'[s] = answer
      BY <1>1 DEF Search, IInv, TypeOK
    <3> QED
      BY <1>2, <1>3, <2>1, <3>1 DEF Search, IInv, SessionInv, HookInv
  <2>2. CASE t # s
    BY <1>1, <2>2, SessionUntouched DEF Search, IInv, TypeOK
  <2> QED
    BY <2>1, <2>2
<1> QED
  BY <1>4, <1>5 DEF Search, IInv

\* A question leaves out what its session has seen.
LEMMA AskKeeps ==
  ASSUME IInv, NEW s \in Sessions, NEW p \in Prompts, Ask(s, p)
  PROVE  IInv'
<1> DEFINE q == [prompt |-> p, exclude |-> ToSet(seen[s]), user |-> UserOf[s],
                 project |-> Encoded(DirectoryOf[s])]
<1>1. q \in Query /\ q.exclude = ToSet(seen[s])
  <2>1. ToSet(seen[s]) \subseteq Ids
    BY DEF IInv, TypeOK, ToSet
  <2>2. UserOf[s] \in Range(UserOf)
    BY SessionAssumption DEF Range
  <2> QED
    BY <2>1, <2>2 DEF Query
<1>2. query' = [query EXCEPT ![s] = q]
  BY DEF Ask
<1> HIDE DEF q
<1>3. TypeOK'
  <2>1. prompts' \in 0..MaxPrompts
    BY BoundsAssumption DEF Ask, IInv, TypeOK
  <2> QED
    BY <1>1, <1>2, <2>1 DEF Ask, IInv, TypeOK
<1>4. ASSUME NEW t \in Sessions
      PROVE  SessionInv(t)'
  <2>1. CASE t = s
    <3>1. hook'[s] = "asking" /\ query'[s] = q
      BY <1>2 DEF Ask, IInv, TypeOK
    <3> QED
      BY <1>1, <2>1, <3>1 DEF Ask, IInv, SessionInv, HookInv
  <2>2. CASE t # s
    BY <1>2, <2>2, SessionUntouched DEF Ask, IInv, TypeOK
  <2> QED
    BY <2>1, <2>2
<1> QED
  BY <1>3, <1>4 DEF Ask, IInv

\* What is recorded was not seen, so not shown.
LEMMA RecordKeeps ==
  ASSUME IInv, NEW s \in Sessions, Record(s)
  PROVE  IInv'
<1> PICK all : all = seen[s] \o response[s]
  OBVIOUS
<1>1. seen' = [seen EXCEPT ![s] = all]
  BY DEF Record, SeenAlso
<1>2. all \in Seq(Ids) /\ ToSet(all) = ToSet(seen[s]) \cup ToSet(response[s])
  BY Joining DEF IInv, TypeOK
<1>3. TypeOK'
  BY <1>1, <1>2 DEF Record, IInv, TypeOK
<1>4. ASSUME NEW t \in Sessions
      PROVE  SessionInv(t)'
  <2>1. CASE t = s
    <3>1. hook'[s] = "recorded" /\ seen'[s] = all
      BY <1>1 DEF Record, IInv, TypeOK
    <3> QED
      BY <1>2, <2>1, <3>1 DEF Record, IInv, SessionInv, HookInv
  <2>2. CASE t # s
    BY <1>1, <2>2, SessionUntouched DEF Record, IInv, TypeOK
  <2> QED
    BY <2>1, <2>2
<1> QED
  BY <1>3, <1>4 DEF Record, IInv

\* What is shown is new, each once, and seen.
LEMMA ShowKeeps ==
  ASSUME IInv, NEW s \in Sessions, Show(s)
  PROVE  IInv'
<1> PICK all : all = shown[s] \o response[s]
  OBVIOUS
<1>1. shown' = [shown EXCEPT ![s] = all]
  BY DEF Show
<1>2. /\ all \in Seq(Ids) /\ ToSet(all) = ToSet(shown[s]) \cup ToSet(response[s])
      /\ IsInjective(shown[s]) /\ IsInjective(response[s])
           /\ ToSet(shown[s]) \cap ToSet(response[s]) = {} => IsInjective(all)
  BY Joining DEF IInv, TypeOK
<1>3. IsInjective(all) /\ ToSet(all) \subseteq ToSet(seen[s])
  BY <1>2 DEF Show, IInv, SessionInv, HookInv
<1>4. TypeOK'
  BY <1>1, <1>2 DEF Show, End, IInv, TypeOK
<1>5. ASSUME NEW t \in Sessions
      PROVE  SessionInv(t)'
  <2>1. CASE t = s
    <3>1. hook'[s] = "idle" /\ shown'[s] = all
      BY <1>1 DEF Show, End, IInv, TypeOK
    <3> QED
      BY <1>3, <2>1, <3>1 DEF Show, SessionInv, HookInv
  <2>2. CASE t # s
    BY <1>1, <2>2, SessionUntouched DEF Show, End, IInv, TypeOK
  <2> QED
    BY <2>1, <2>2
<1> QED
  BY <1>4, <1>5 DEF Show, IInv

LEMMA NextInv == IInv /\ [Next]_vars => IInv'
<1> SUFFICES ASSUME IInv, [Next]_vars PROVE IInv'
  OBVIOUS
<1>1. ASSUME NEW state \in {"up", "down", "mute", "broken"}, ServerBecomes(state)
      PROVE  IInv'
  <2>1. \A t \in Sessions : SessionInv(t)'
    BY <1>1, SessionUntouched DEF ServerBecomes, IInv
  <2> QED
    BY <1>1, <2>1 DEF ServerBecomes, IInv, TypeOK
<1>2. ASSUME NEW m \in Memories, Ingest(m)
      PROVE  IInv'
  BY <1>2, IngestKeeps
<1>3. ASSUME NEW s \in Sessions, Search(s)
      PROVE  IInv'
  BY <1>3, SearchKeeps
<1>4. ASSUME NEW s \in Sessions, HookGoesOn(s) \/ Interrupt(s)
      PROVE  IInv'
  <2>1. CASE GiveUp(s) \/ ShowNothing(s) \/ Interrupt(s)
    BY <2>1, EndKeeps DEF GiveUp, ShowNothing, Interrupt
  <2>2. CASE Record(s)
    BY <2>2, RecordKeeps
  <2>3. CASE Show(s)
    BY <2>3, ShowKeeps
  <2> QED
    BY <1>4, <2>1, <2>2, <2>3 DEF HookGoesOn
<1>5. ASSUME NEW s \in Sessions, NEW p \in Prompts, Ask(s, p)
      PROVE  IInv'
  BY <1>5, AskKeeps
<1>6. CASE UNCHANGED vars
  <2>1. \A t \in Sessions : SessionInv(t)'
    BY <1>6, SessionUntouched DEF vars, IInv
  <2> QED
    BY <1>6, <2>1 DEF vars, IInv, TypeOK
<1> QED
  BY <1>1, <1>2, <1>3, <1>4, <1>5, <1>6 DEF Next

LEMMA AlwaysInv == Spec => []IInv
BY InitInv, NextInv, PTL DEF Spec

\* Whatever is interrupted, ingested again, or becomes of the server and its
\* answers, no memory is shown twice in a session, and a session's file covers
\* what was shown in it.
THEOREM LoopAlwaysInOrder == Spec => []LoopInv
<1>1. IInv => LoopInv
  BY DEF IInv, LoopInv, ShownOnce, SessionInv
<1> QED
  BY <1>1, AlwaysInv, PTL

----------------------------------------------------------------------------
(* What a search finds                                                      *)

\* A sequence holds finitely many things.
LEMMA SeqFinite ==
  ASSUME NEW S, NEW f \in Seq(S)
  PROVE  IsFiniteSet(ToSet(f))
<1>1. f \in Surjection(1..Len(f), ToSet(f))
  BY DEF Surjection, ToSet
<1> QED
  BY <1>1, FS_Surjection, FS_Interval

\* A memory that matches, and has fewer than N nearer that the question does not
\* leave out, is among those fetched: those left out are fetched on top.
LEMMA Fetched ==
  ASSUME stored \subseteq Memories, IsFiniteSet(stored), NEW q \in Query,
         IsFiniteSet(q.exclude), NEW m \in Matching(q),
         Cardinality(Nearer(q, m, Matching(q))) < N
  PROVE  m.id \in Nearest(q, FetchN(q))
<1> DEFINE found == Matching(q)
           near == Nearer(q, m, found)
           ids == {x.id : x \in found}
           d == Distance[q.prompt]
           closer == Closer(ids, m.id, d)
           new == {x.id : x \in near}
<1>1. found \in SUBSET stored /\ near \in SUBSET found
  BY DEF Matching, Nearer
<1>2. IsFiniteSet(found) /\ IsFiniteSet(near) /\ Cardinality(found) <= Cardinality(stored)
  BY <1>1, FS_Subset
<1>3. /\ IsFiniteSet(ids) /\ Cardinality(ids) <= Cardinality(found)
      /\ IsFiniteSet(new) /\ Cardinality(new) <= Cardinality(near)
  BY <1>2, IdsFinite
<1>4. /\ \A id \in ids : d[id] \in Int
      /\ m.id \in ids
  BY FoundIds
<1>5. closer \in SUBSET (ids \ {m.id}) /\ closer \in SUBSET (new \cup q.exclude)
  BY <1>4 DEF Closer, Nearer
<1> HIDE DEF found, near, ids, d, closer, new
<1>6. IsFiniteSet(ids \ {m.id}) /\ Cardinality(ids \ {m.id}) = Cardinality(ids) - 1
  BY <1>3, <1>4, FS_RemoveElement
<1>7. IsFiniteSet(closer) /\ Cardinality(closer) <= Cardinality(ids) - 1
  BY <1>5, <1>6, FS_Subset
<1>8. /\ IsFiniteSet(new \cup q.exclude)
      /\ Cardinality(new \cup q.exclude)
           = Cardinality(new) + Cardinality(q.exclude) - Cardinality(new \cap q.exclude)
      /\ IsFiniteSet(new \cap q.exclude)
  BY <1>3, FS_Union, FS_Intersection
<1>9. Cardinality(closer) <= Cardinality(new \cup q.exclude)
  BY <1>5, <1>8, FS_Subset
<1>10. /\ Cardinality(closer) \in Nat /\ Cardinality(new) \in Nat
       /\ Cardinality(q.exclude) \in Nat /\ Cardinality(new \cap q.exclude) \in Nat
       /\ Cardinality(ids) \in Nat /\ Cardinality(found) \in Nat
       /\ Cardinality(near) \in Nat /\ Cardinality(stored) \in Nat
  BY <1>2, <1>3, <1>7, <1>8, FS_CardinalityType
<1>11. N \in Nat /\ Cardinality(near) < N
  BY BoundsAssumption DEF near, found
<1>12. /\ Cardinality(closer) < N + Cardinality(q.exclude)
       /\ Cardinality(closer) < Cardinality(stored)
  BY <1>2, <1>3, <1>7, <1>8, <1>9, <1>10, <1>11
<1>13. FetchN(q) \in {N + Cardinality(q.exclude), Cardinality(stored)}
  <2>1. N + Cardinality(q.exclude) \in Int /\ Cardinality(stored) \in Int
    BY <1>10, <1>11
  <2> QED
    BY <2>1, MinOfTwo DEF FetchN
<1>14. Cardinality(closer) < FetchN(q)
  BY <1>12, <1>13
<1> QED
  BY <1>4, <1>14 DEF Nearest, closer, ids, found, d

\* Only a search answers a hook that asks.
LEMMA AnswersBySearch ==
  ASSUME IInv, [Next]_vars, NEW s \in Sessions, Answering(s)
  PROVE  Search(s)
<1> USE DEF Answering, IInv, TypeOK
<1>1. ASSUME NEW state \in {"up", "down", "mute", "broken"}, ServerBecomes(state)
      PROVE  FALSE
  BY <1>1 DEF ServerBecomes
<1>2. ASSUME NEW m \in Memories, Ingest(m)
      PROVE  FALSE
  BY <1>2 DEF Ingest
<1>3. ASSUME NEW t \in Sessions, Search(t)
      PROVE  t = s
  BY <1>3 DEF Search
<1>4. ASSUME NEW t \in Sessions, HookGoesOn(t) \/ Interrupt(t)
      PROVE  FALSE
  <2>1. CASE End(t)
    BY <2>1 DEF End
  <2>2. CASE Record(t)
    BY <2>2 DEF Record
  <2> QED
    BY <1>4, <2>1, <2>2 DEF HookGoesOn, GiveUp, Show, ShowNothing, Interrupt
<1>5. ASSUME NEW t \in Sessions, NEW p \in Prompts, Ask(t, p)
      PROVE  FALSE
  BY <1>5 DEF Ask
<1>6. CASE UNCHANGED vars
  BY <1>6 DEF vars
<1> QED
  BY <1>1, <1>2, <1>3, <1>4, <1>5, <1>6 DEF Next

\* What a session has seen takes no room from what it has not: whatever it has
\* seen and however many memories there are, one that matches, is near enough
\* and is among the N nearest unseen is in the answer.
THEOREM NearestAlwaysFound == Spec => NearestNotMissed
<1>1. ASSUME IInv, [Next]_vars, NEW s \in Sessions, Answering(s)
      PROVE  AnswersWith(s, Matching(query[s]))
  <2>1. Search(s)
    BY <1>1, AnswersBySearch
  <2>2. PICK q : q = query[s]
    OBVIOUS
  <2>3. response'[s] = Results(q)
    BY <1>1, <2>1, <2>2 DEF Search, Answering, IInv, TypeOK
  <2>4. q \in Query /\ q.exclude = ToSet(seen[s])
    BY <1>1, <2>2 DEF Answering, IInv, SessionInv, HookInv
  <2>5. stored \subseteq Memories /\ IsFiniteSet(stored) /\ seen[s] \in Seq(Ids)
    BY <1>1 DEF IInv, TypeOK
  <2>6. IsFiniteSet(q.exclude)
    BY <2>4, <2>5, SeqFinite
  <2>7. ASSUME NEW m \in Matching(q), m.id \notin q.exclude,
               Distance[q.prompt][m.id] <= Threshold,
               Cardinality(Nearer(q, m, Matching(q))) < N
        PROVE  m.id \in ToSet(response'[s])
    <3>1. m.id \in Nearest(q, FetchN(q))
      BY <2>4, <2>5, <2>6, <2>7, Fetched
    <3> QED
      BY <2>3, <2>4, <2>5, <2>7, <3>1, AnswerWell
  <2> QED
    BY <2>2, <2>7 DEF AnswersWith
<1>2. IInv /\ [Next]_vars
        => [\A s \in Sessions : Answering(s) => AnswersWith(s, Matching(query[s]))]_vars
  BY <1>1
<1> QED
  BY <1>2, AlwaysInv, PTL DEF Spec, NearestNotMissed
==============================================================================
