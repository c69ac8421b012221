------------------------------ MODULE Formats ------------------------------
(***************************************************************************)
(* The translations a conversation goes through, as operators on it:        *)
(*   - the proxy's injection of the observation instruction and reminder,   *)
(*     in either API's format (proxy/internal/proxy/obs.go);                *)
(*   - the proxy's translation of a request for its log                     *)
(*     (ParseAnthropicMessages of proxy/internal/logger/parse.go);          *)
(*   - the thinking router's flattening of it for the classifier, and its   *)
(*     removal of earlier reasoning (router/internal/router/types.go);      *)
(*   - the agent's conversion from the Anthropic format to its own and back *)
(*     (agent/internal/agent/anthropic.go), and its removal of reasoning    *)
(*     (history.go).                                                        *)
(*                                                                          *)
(* A text is a sequence of parts; separators between joined texts are left  *)
(* out.  The content of a message is a string or an array of blocks: here a *)
(* string is one text block, marked as such.                                *)
(***************************************************************************)
EXTENDS Integers, SequencesExt

Block(type, text, id) == [type |-> type, text |-> text, id |-> id]
Text(t) == Block("text", t, 0)
Thinking(t) == Block("thinking", t, 0)
Picture(source) == Block("image", source, 0)
ToolUse(id) == Block("tool_use", << >>, id)
ToolResult(id, t) == Block("tool_result", t, id)

Array(blocks) == [string |-> FALSE, blocks |-> blocks]
String(t) == [string |-> TRUE, blocks |-> << Text(t) >>]
Empty == Array(<< >>)

\* What is taken of a sequence is put together element by element.
When(test, x) == IF test THEN << x >> ELSE << >>
OfType(blocks, type) ==
  FlattenSeq([i \in DOMAIN blocks |-> When(blocks[i].type = type, blocks[i])])
OtherThan(blocks, types) ==
  FlattenSeq([i \in DOMAIN blocks |-> When(blocks[i].type \notin types, blocks[i])])
Concat(texts) == FlattenSeq(texts)
JoinOf(blocks, type) ==
  Concat([i \in DOMAIN blocks |-> IF blocks[i].type = type THEN blocks[i].text ELSE << >>])
TextOf(content) == JoinOf(content.blocks, "text")
IdsOf(blocks, type) ==
  FlattenSeq([i \in DOMAIN blocks |-> When(blocks[i].type = type, blocks[i].id)])

\* A message of the Anthropic API, and one of the OpenAI API, which is also
\* ChatMessage of the agent and Message of the log.
Message(role, content) == [role |-> role, content |-> content]
Chat(role, content, reasoning, calls, answers) ==
  [role |-> role, content |-> content, reasoning |-> reasoning, calls |-> calls,
   answers |-> answers]
Said(role, content) == Chat(role, content, << >>, << >>, 0)
Answer(id, content) == Chat("tool", content, << >>, << >>, id)

----------------------------------------------------------------------------
(* Injection: a part is added to a text of the client's.                    *)

Instruction == "instruction"
Reminder == "reminder"

Positions(blocks, type) == {i \in DOMAIN blocks : blocks[i].type = type}
AddAt(blocks, i, part) == [blocks EXCEPT ![i].text = Append(@, part)]
AddToLast(blocks, type, part) ==
  IF Positions(blocks, type) = {} THEN Append(blocks, Text(<< part >>))
  ELSE AddAt(blocks, Max(Positions(blocks, type)), part)

\* injectAnthropicSystem; no system prompt is an empty string.
InjectAnthropicSystem(system) ==
  [system EXCEPT !.blocks = AddToLast(@, "text", Instruction)]

\* injectAnthropicUserReminder on one message, injectIntoLastToolResult.
\* (Mutant: every block of a message is reminded.)
RemindEveryBlock(m) ==
  [m EXCEPT !.content.blocks = [i \in DOMAIN @ |-> [@[i] EXCEPT !.text = Append(@, Reminder)]]]
RemindUser(m) ==
  [m EXCEPT !.content.blocks =
     IF m.content.string THEN AddAt(@, 1, Reminder)
     ELSE IF Positions(@, "tool_result") # {} THEN AddToLast(@, "tool_result", Reminder)
     ELSE Append(@, Text(<< Reminder >>))]
RemindAnthropic(msgs) ==
  [i \in DOMAIN msgs |-> IF msgs[i].role = "user" THEN RemindUser(msgs[i]) ELSE msgs[i]]

\* injectOpenAISystem.  A system message whose content is an array is replaced:
\* its content does not decode as a string, and the error is not looked at.
InjectOpenAISystem(msgs) ==
  IF msgs = << >> THEN msgs
  ELSE IF msgs[1].role # "system"
       THEN << Said("system", String(<< Instruction >>)) >> \o msgs
  ELSE [msgs EXCEPT ![1].content =
          String(Append(IF @.string THEN TextOf(@) ELSE << >>, Instruction))]

\* injectOpenAIUserReminder: string contents only, and of consecutive tool
\* messages the last.  (Mutant: the last message of the conversation only.)
RemindLatest(msgs, i) == i = Len(msgs) /\ msgs[i].role \in {"user", "tool"} /\ msgs[i].content.string
Reminds(msgs, i) ==
  /\ msgs[i].content.string
  /\ \/ msgs[i].role = "user"
     \/ msgs[i].role = "tool" /\ (i = Len(msgs) \/ msgs[i + 1].role # "tool")
RemindOpenAI(msgs) ==
  [i \in DOMAIN msgs |->
     IF Reminds(msgs, i)
     THEN [msgs[i] EXCEPT !.content.blocks = AddAt(@, 1, Reminder)] ELSE msgs[i]]

----------------------------------------------------------------------------
(* The log                                                                  *)

\* convertAnthropicUserBlocks: the text last, and no message without any.
LogUser(blocks) ==
  LET results == OfType(blocks, "tool_result")
      text == JoinOf(blocks, "text")
  IN  [i \in DOMAIN results |-> Answer(results[i].id, String(results[i].text))]
        \o IF text = << >> THEN << >> ELSE << Said("user", String(text)) >>

\* convertAnthropicAssistantBlocks.
LogAssistant(blocks) ==
  << Chat("assistant", String(JoinOf(blocks, "text")), JoinOf(blocks, "thinking"),
          IdsOf(blocks, "tool_use"), 0) >>

\* convertAnthropicMessage, ParseAnthropicMessages.
LogMessage(m) ==
  IF m.content.string THEN << Said(m.role, m.content) >>
  ELSE IF m.role = "user" THEN LogUser(m.content.blocks)
  ELSE LogAssistant(m.content.blocks)
SystemMessage(system) ==
  IF TextOf(system) = << >> THEN << >> ELSE << Said("system", String(TextOf(system))) >>
ParseAnthropicMessages(system, msgs) ==
  SystemMessage(system) \o FlattenSeq([i \in DOMAIN msgs |-> LogMessage(msgs[i])])

----------------------------------------------------------------------------
(* The thinking router                                                      *)

\* anthropicMessagesToChat: text only, whatever the blocks are.
AnthropicMessagesToChat(system, msgs) ==
  SystemMessage(system)
    \o [i \in DOMAIN msgs |-> Said(msgs[i].role, String(TextOf(msgs[i].content)))]

\* stripPriorThinkingBlocks.  (Mutant: the last message is spared, whoever it
\* is from.)
ThinkingTypes == {"thinking", "redacted_thinking"}
SparedMessage(msgs) == Len(msgs)
LastAssistant(msgs) == Max({0} \cup {i \in DOMAIN msgs : msgs[i].role = "assistant"})
StripPriorThinkingBlocks(msgs) ==
  [i \in DOMAIN msgs |->
     IF msgs[i].role # "assistant" \/ i = LastAssistant(msgs) \/ msgs[i].content.string
     THEN msgs[i]
     ELSE [msgs[i] EXCEPT !.content.blocks = OtherThan(@, ThinkingTypes)]]

----------------------------------------------------------------------------
(* The agent                                                                *)

\* decodeAnthropicBlocks: a block is what AnthropicContentBlock has fields for,
\* and for the source of a picture it has none.
Decoded(blocks) ==
  [i \in DOMAIN blocks |-> IF blocks[i].type = "image" THEN Picture(<< >>) ELSE blocks[i]]

\* convertAnthropicUserMsg.
UserToChat(content) ==
  LET blocks == Decoded(content.blocks)
      results == OfType(blocks, "tool_result")
      others == OtherThan(blocks, {"tool_result"})
  IN  IF content.string THEN << Said("user", content) >>
      ELSE [i \in DOMAIN results |-> Answer(results[i].id, String(results[i].text))]
             \o IF others = << >> THEN << >> ELSE << Said("user", Array(others)) >>

\* convertAnthropicAssistantMsg.
AssistantToChat(content) ==
  IF content.string THEN << Said("assistant", content) >>
  ELSE << Chat("assistant", Array(OtherThan(Decoded(content.blocks), {"tool_use"})), << >>,
               IdsOf(content.blocks, "tool_use"), 0) >>

AnthropicToChatMessages(system, msgs) ==
  SystemMessage(system)
    \o FlattenSeq([i \in DOMAIN msgs |->
         IF msgs[i].role = "user" THEN UserToChat(msgs[i].content)
         ELSE AssistantToChat(msgs[i].content)])

\* StripAllThinking.
StripAllThinking(chats) ==
  [i \in DOMAIN chats |->
     [chats[i] EXCEPT !.reasoning = << >>, !.content.blocks = OtherThan(@, ThinkingTypes)]]

\* toolMsgToResultBlock, assistantToAnthropicBlocks.
ResultBlock(m) == ToolResult(m.answers, TextOf(m.content))
AssistantBlocks(m) ==
  LET sent == m.content.blocks
  IN  FlattenSeq([i \in DOMAIN sent |->
                    When(~m.content.string \/ sent[i].text # << >>, sent[i])])
        \o [i \in DOMAIN m.calls |-> ToolUse(m.calls[i])]

\* chatMessagesToAnthropic: consecutive tool messages make one user message.
\* (Mutant: each makes its own.)
AddMessageEach(out, m, previous) ==
  CASE m.role = "system" -> out
    [] m.role = "user" -> Append(out, Message("user", m.content))
    [] m.role = "assistant" -> Append(out, Message("assistant", Array(AssistantBlocks(m))))
    [] m.role = "tool" -> Append(out, Message("user", Array(<< ResultBlock(m) >>)))
AddMessage(out, m, previous) ==
  CASE m.role = "system" -> out
    [] m.role = "user" -> Append(out, Message("user", m.content))
    [] m.role = "assistant" -> Append(out, Message("assistant", Array(AssistantBlocks(m))))
    [] m.role = "tool" /\ previous = "tool" ->
         [out EXCEPT ![Len(out)].content.blocks = Append(@, ResultBlock(m))]
    [] m.role = "tool" /\ previous # "tool" ->
         Append(out, Message("user", Array(<< ResultBlock(m) >>)))
ChatMessagesToAnthropic(chats) ==
  LET out[i \in 0..Len(chats)] ==
        IF i = 0 THEN << >>
        ELSE AddMessage(out[i - 1], chats[i], IF i = 1 THEN "" ELSE chats[i - 1].role)
  IN  out[Len(chats)]
=============================================================================
