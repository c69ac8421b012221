---------------------------- MODULE Conversation ----------------------------
(***************************************************************************)
(* A conversation over several requests.  The API has no state: with every  *)
(* request the client sends the conversation from its beginning, and what   *)
(* stands between it and the model translates it from its beginning again.  *)
(* The module has the client, the model and the thinking router, which has  *)
(* the model classify a request before it forwards it                       *)
(* (router/internal/router/proxy.go and classify.go); the translations of   *)
(* the proxy and of the agent are operators on the conversation (Formats).  *)
(***************************************************************************)
EXTENDS Formats, FiniteSets

CONSTANTS
  Part,        \* what the texts of the client and the model consist of
  System,      \* the system prompts a client may have, as contents
  UserTurn,    \* what the client may say, as contents
  ModelTurn,   \* what the model may answer: reasoning, text, number of calls
  Comment,     \* what the client may add to the results of tools
  WindowSize,  \* ROUTER_WINDOW_SIZE
  MaxTurns     \* bound on the turns of the conversation

\* Texts do not hold what the proxy adds to them; a content is a string or an
\* array of blocks of some types.
ASSUME PartAssumption == "result" \in Part /\ Part \cap {Instruction, Reminder} = {}
Content(types) == [string : BOOLEAN, blocks : Seq([type : types, text : Seq(Part), id : {0}])]
IsContent(c, types) ==
  /\ c \in Content(types)
  /\ c.string => c = String(c.blocks[1].text)

ASSUME ClientAssumption ==
  /\ \A c \in System \cup Comment : IsContent(c, {"text"})
  /\ \A c \in UserTurn : IsContent(c, {"text", "image"})
ASSUME ModelAssumption ==
  /\ ModelTurn \subseteq [reasoning : Seq(Part), text : Seq(Part), calls : Nat]
  /\ \A t \in ModelTurn : t.text # << >> \/ t.calls > 0
ASSUME BoundAssumption == WindowSize \in Nat \ {0} /\ MaxTurns \in Nat

VARIABLES
  api,        \* "anthropic" or "openai", which decides the router's handler
  system,     \* the client's system prompt
  turns,      \* the conversation so far
  mute,       \* the model accepts the classifier's request and never answers it
  gone,       \* the client has gone, r.Context() is cancelled
  phase,      \* "client", "classifying", "classified", "model", "failed"
  window,     \* the messages the classifier is shown
  verdict,    \* what it said
  forwarded   \* what the router forwarded

client == << api, system, turns >>
conversationVars == << client, mute, gone, phase, window, verdict, forwarded >>

\* A turn: who speaks, and what; the calls made or answered, by their ids.
Turn(by, content, reasoning, calls) ==
  [by |-> by, content |-> content, reasoning |-> reasoning, calls |-> calls]

Nobody == Turn("nobody", Empty, << >>, << >>)
Latest == IF turns = << >> THEN Nobody ELSE turns[Len(turns)]
Pending == IF Latest.by = "model" THEN ToSet(Latest.calls) ELSE {}

----------------------------------------------------------------------------
(* How the client sends its conversation in either format                   *)

AsAnthropic(t) ==
  IF t.by = "user" THEN Message("user", t.content)
  ELSE IF t.by = "tools"
  THEN Message("user", Array([i \in DOMAIN t.calls |-> ToolResult(t.calls[i], << "result" >>)]
                                \o OfType(t.content.blocks, "text")))
  ELSE Message("assistant",
         Array((IF t.reasoning = << >> THEN << >> ELSE << Thinking(t.reasoning) >>)
                 \o t.content.blocks \o [i \in DOMAIN t.calls |-> ToolUse(t.calls[i])]))

AsOpenAI(t) ==
  IF t.by = "user" THEN << Said("user", t.content) >>
  ELSE IF t.by = "tools"
  THEN [i \in DOMAIN t.calls |-> Answer(t.calls[i], String(<< "result" >>))]
         \o IF t.content.blocks = << >> THEN << >> ELSE << Said("user", t.content) >>
  ELSE << Chat("assistant", String(TextOf(t.content)), t.reasoning, t.calls, 0) >>

MessagesOf(said) == [i \in DOMAIN said |-> AsAnthropic(said[i])]
ChatsOf(said) ==
  (IF TextOf(system) = << >> THEN << >> ELSE << Said("system", system) >>)
    \o FlattenSeq([i \in DOMAIN said |-> AsOpenAI(said[i])])
Messages == MessagesOf(turns)
Chats == ChatsOf(turns)

----------------------------------------------------------------------------
NotYet == [messages |-> << >>, thinking |-> TRUE]
ConversationInit ==
  /\ api \in {"anthropic", "openai"} /\ system \in System
  /\ turns = << >> /\ mute \in BOOLEAN /\ gone = FALSE /\ phase = "client"
  /\ window = << >> /\ verdict = "" /\ forwarded = NotYet

\* classify's messages, but for the routing prompt.
LastOf(msgs) ==
  IF Len(msgs) > WindowSize THEN SubSeq(msgs, Len(msgs) - WindowSize + 1, Len(msgs)) ELSE msgs

\* A request: its handler decodes it and asks for its classification.
Send(t) ==
  /\ turns' = Append(turns, t)
  /\ phase' = "classifying"
  /\ LET said == Append(turns, t) IN
     window' = LastOf(IF api = "anthropic"
                      THEN AnthropicMessagesToChat(system, MessagesOf(said)) ELSE ChatsOf(said))
  /\ UNCHANGED << api, system, mute, gone, verdict, forwarded >>

MaySpeak == phase = "client" /\ Len(turns) < MaxTurns /\ ~gone
UserSays(content) ==
  /\ MaySpeak /\ Pending = {}
  /\ Send(Turn("user", content, << >>, << >>))

\* Every call is answered, in whatever order the tools return.
ToolsReturn(order, comment) ==
  /\ MaySpeak /\ Pending # {}
  /\ ToSet(order) = Pending /\ Len(order) = Cardinality(Pending)
  /\ Send(Turn("tools", comment, << >>, order))

\* Whatever else the model says is as good as DIRECT.
Outcomes == {"REASONING", "DIRECT", "error"}

\* classify has no timeout of its own; its request ends with the client's.
\* (Mutant: it does not.)
ClassifyDetached(outcome) ==
  /\ phase = "classifying"
  /\ ~mute
  /\ verdict' = outcome
  /\ phase' = "classified"
  /\ UNCHANGED << client, mute, gone, window, forwarded >>
Classify(outcome) ==
  /\ phase = "classifying"
  /\ \/ ~mute
     \/ gone /\ outcome = "error"
  /\ verdict' = outcome
  /\ phase' = "classified"
  /\ UNCHANGED << client, mute, gone, window, forwarded >>

\* An error is taken for TRUE.
Thinks(outcome) == outcome \in {"REASONING", "error"}

\* The handler goes on whatever classify returned; the request may fail, and
\* does when the client has gone.
Forward ==
  /\ phase = "classified"
  /\ \/ phase' = "failed"
     \/ phase' = "model" /\ ~gone
  /\ forwarded' =
       [messages |-> IF api = "anthropic" THEN StripPriorThinkingBlocks(Messages) ELSE Chats,
        thinking |-> Thinks(verdict)]
  /\ UNCHANGED << client, mute, gone, window, verdict >>

Disconnect ==
  /\ phase \in {"classifying", "classified"} /\ ~gone
  /\ gone' = TRUE
  /\ UNCHANGED << client, mute, phase, window, verdict, forwarded >>

\* The client keeps what the model answers, and gives its calls fresh ids.
ModelAnswers(t) ==
  /\ phase = "model"
  /\ Len(turns) < MaxTurns
  /\ turns' = Append(turns,
       Turn("model", IF t.text = << >> THEN Empty ELSE Array(<< Text(t.text) >>), t.reasoning,
            [i \in 1..t.calls |-> 10 * Len(turns) + i]))
  /\ phase' = "client"
  /\ window' = << >> /\ verdict' = "" /\ forwarded' = NotYet
  /\ UNCHANGED << api, system, mute, gone >>

ConversationNext ==
  \/ \E c \in UserTurn : UserSays(c)
  \/ \E c \in Comment : \E order \in SetToSeqs(Pending) : ToolsReturn(order, c)
  \/ \E outcome \in Outcomes : Classify(outcome)
  \/ Forward \/ Disconnect
  \/ \E t \in ModelTurn : ModelAnswers(t)

\* The router goes on as soon as it can; the model answers unless it is mute.
ConversationSpec == ConversationInit /\ [][ConversationNext]_conversationVars
             /\ WF_conversationVars(\E o \in Outcomes : Classify(o))
             /\ WF_conversationVars(Forward)
----------------------------------------------------------------------------
(* What the translations keep                                               *)

ConversationTypeOK ==
  /\ api \in {"anthropic", "openai"} /\ system \in System
  /\ Len(turns) <= MaxTurns
  /\ mute \in BOOLEAN /\ gone \in BOOLEAN
  /\ phase \in {"client", "classifying", "classified", "model", "failed"}
  /\ Len(window) <= WindowSize
  /\ verdict \in Outcomes \cup {""}
  /\ forwarded.thinking \in BOOLEAN

\* The conversation changes with the arrival of a request only.
Arriving == phase = "classifying" /\ ~gone

\* In the agent, after the removal of reasoning; and on its way to the model.
InAgent == StripAllThinking(AnthropicToChatMessages(system, Messages))
FromAgent == ChatMessagesToAnthropic(InAgent)
FromProxy == RemindAnthropic(Messages)
FromRouter == StripPriorThinkingBlocks(Messages)

\* Each call is answered in the very next message, which answers nothing else;
\* the conversation may end with calls.
Paired(msgs) ==
  \A i \in DOMAIN msgs :
    LET ids(j, type) == {msgs[j].content.blocks[k].id :
                           k \in Positions(msgs[j].content.blocks, type)}
        made(j) == IF j \in DOMAIN msgs THEN ids(j, "tool_use") ELSE {}
        answered(j) == ids(j, "tool_result")
    IN  /\ answered(i) = made(i - 1)
        /\ i = Len(msgs) => made(i) = {} \/ Pending # {}

\* However it is translated, on every request the calls and their results are
\* where the API wants them, though a message with results may be split and
\* tools return in any order.
CallsStayPaired ==
  Arriving => Paired(FromAgent) /\ Paired(FromProxy) /\ Paired(FromRouter)

\* Blocks in the order of a conversation, whichever messages they are in.
AllBlocks(msgs) == FlattenSeq([i \in DOMAIN msgs |-> msgs[i].content.blocks])

\* The agent loses nothing of a conversation but reasoning, which it is to
\* remove, and the sources of pictures; system prompts included.
AgentKeepsAll ==
  Arriving =>
    /\ AllBlocks(FromAgent) = Decoded(OtherThan(AllBlocks(Messages), ThinkingTypes))
    /\ Concat([i \in DOMAIN InAgent |->
         IF InAgent[i].role = "system" THEN TextOf(InAgent[i].content) ELSE << >>]) = TextOf(system)

\* The state of a conversation, with both: translation keeps every block, and
\* calls next to their results.
TranslationInv == ConversationTypeOK /\ CallsStayPaired /\ AgentKeepsAll

\* The log does not depend on the client's API: the same conversation is logged
\* alike in both formats, reasoning and calls included, but for messages with
\* pictures alone, of which the Anthropic half logs nothing.
InLog(chats) ==
  FlattenSeq([i \in DOMAIN chats |->
                When(chats[i].role # "user" \/ TextOf(chats[i].content) # << >>,
                     [chats[i] EXCEPT !.content = TextOf(@)])])
LogIndependentOfAPI ==
  Arriving => InLog(ParseAnthropicMessages(system, Messages)) = InLog(Chats)

\* The log of a request begins with the log of the one before, instruction and
\* reminders included, so that messages are shared between sessions (O(n)
\* storage) and a session is found to continue another.
AnthropicLog(said) ==
  ParseAnthropicMessages(InjectAnthropicSystem(system), RemindAnthropic(MessagesOf(said)))
OpenAILog(said) == RemindOpenAI(InjectOpenAISystem(ChatsOf(said)))
Continued(said) == \A n \in 1..Len(said) :
  LET before == SubSeq(said, 1, n)
  IN  /\ IsPrefix(AnthropicLog(before), AnthropicLog(said))
      /\ IsPrefix(OpenAILog(before), OpenAILog(said))
LogContinues == Arriving => Continued(turns)

\* One conversation, one log: in either format, and from request to request.
LogInv == LogIndependentOfAPI /\ LogContinues

\* Without what was injected, the model gets what the client sent: no text is
\* replaced, moved or lost.  The instruction is there exactly once, and in the
\* Anthropic format a reminder in every message of the user.  (In the OpenAI
\* format of a client whose system prompt is a string.)
Without(t) ==
  FlattenSeq([i \in DOMAIN t |-> When(t[i] \notin {Instruction, Reminder}, t[i])])
Clean(content) ==
  LET clean == [i \in DOMAIN content.blocks |-> [content.blocks[i] EXCEPT !.text = Without(@)]]
  IN  FlattenSeq([i \in DOMAIN clean |->
                    When(clean[i].type # "text" \/ clean[i].text # << >>, clean[i])])
Times(text, part) == Len(FlattenSeq([i \in DOMAIN text |-> When(text[i] = part, part)]))
AllTextOf(m) == Concat([i \in DOMAIN m.content.blocks |-> m.content.blocks[i].text])
InjectedOpenAI == OpenAILog(turns)
InjectionOnlyAdds ==
  Arriving =>
    /\ Times(TextOf(InjectAnthropicSystem(system)), Instruction) = 1
    /\ Clean(InjectAnthropicSystem(system)) = Clean(system)
    /\ \A i \in DOMAIN Messages :
         /\ FromProxy[i].role = Messages[i].role
         /\ Times(AllTextOf(FromProxy[i]), Reminder) = IF Messages[i].role = "user" THEN 1 ELSE 0
         /\ Clean(FromProxy[i].content) = Clean(Messages[i].content)
    /\ system.string =>
         LET first == Len(InjectedOpenAI) - Len(Chats) IN
         /\ Times(TextOf(InjectedOpenAI[1].content), Instruction) = 1
         /\ \A i \in DOMAIN Tail(InjectedOpenAI) :
              Times(AllTextOf(Tail(InjectedOpenAI)[i]), Instruction) = 0
         /\ \A i \in DOMAIN Chats :
              Clean(InjectedOpenAI[first + i].content) = Clean(Chats[i].content)

\* Of the model's reasoning the router forwards that of its last message alone,
\* and everything else as it is; a tool loop under way keeps the reasoning
\* that made its latest calls.
RouterKeepsLatest ==
  (phase = "model" /\ api = "anthropic") =>
    LET last == Max({0} \cup {i \in DOMAIN turns : turns[i].by = "model"}) IN
    /\ OtherThan(AllBlocks(forwarded.messages), ThinkingTypes) =
         OtherThan(AllBlocks(Messages), ThinkingTypes)
    /\ \A i \in DOMAIN Messages :
         OfType(forwarded.messages[i].content.blocks, "thinking") =
           IF i = last THEN OfType(Messages[i].content.blocks, "thinking") ELSE << >>

\* A request is forwarded in the end, if the classifier answers, fails or the
\* client loses patience.
RequestGoesOn ==
  (phase = "classifying" /\ (~mute \/ gone)) ~> phase \in {"model", "failed"}
=============================================================================
