# lazy-vllm in TLA+

A verification development for lazy-vllm, a set of small services around a
vLLM backend: a logging proxy, a thinking router, an agent executor, a memory
server and some tools. The modules here model the parts of it where things run
concurrently, fail, depend on how a stream is cut into pieces, or translate a
conversation from one shape to another. TLC checks them on small instances.
TLAPS proves, for every instance, the invariants of all modules, what no step of
the migration and of a search may do, and that the streaming capture implements
its abstract specification.

`PROJECT.json` maps every definition to the source lines it stands for and
lists the runs, the mutants that show each property has teeth, the findings,
the hazards and the theorems.

## The system

A request passes through some of these:

    client -> proxy -> (router ->) vLLM          answers stream back
                |-> SQLite session log
                |-> memory server   <- hook of the user's next prompt
    agent command -> graph executor -> proxy -> vLLM

### Observation capture (`proxy/internal/proxy/obs.go`)

*State*, per response: the bytes of an unfinished event (`sseBuf`), whether the
stream is inside a thinking block, the state `searching`, `suppressing` or
`done`, one held-back event with its text, and the captured text.
*Operations*: `Write` (splits the stream into events and handles each one),
`Finalize` (writes what is left over, returns the observation); for whole
bodies a different path that edits the JSON once.
*Interacts*: it is the `ResponseWriter` that `forwardRequest` copies the
backend's answer into; `forwardWithLogging` calls `Finalize` after that.
*Hard*: text arrives in pieces that may cut a tag anywhere; one event is held
back; the stream may break off inside an event.
*Correct when*: the client gets exactly the text in front of the tag, in order,
and nothing of the tag; events other than answer text are untouched and on
time, and of answer text only what may begin the tag is late; the observation is
the text between the tags; the two paths agree.

### Session log (`proxy/internal/logger/compact.go`, `handlers.go`, `memory_client.go`)

*State*: a SQLite database (`tools`, `messages`, `sessions`,
`session_messages`, `raw_requests`), the connection pool of `database/sql`, and
per request the local variables of its handler.
*Operations*: `StoreTools`, `StartSession`, `StoreRawRequest`, `StoreMessage`,
`AddMessageToSession` (two statements), `SetSessionSummary`, the readers
`GetSession` and `ListSessions`; `ingestToMemory` in a goroutine nobody waits
for.
*Interacts*: every request's handler runs them in turn, around the forwarding
of the request; the log viewer reads.
*Hard*: no transaction spans two statements, handlers run concurrently, any
statement may fail and errors are logged or dropped, foreign keys are switched
on for a single connection, the proxy may be killed.
*Correct when*: a session's messages are numbered without gaps, in the order
of the conversation, and readable; failures lose messages but never corrupt;
logging never stops a request from being served.

### Schema migration (`compact.go`, `NewCompact`, `migrateCompact`)

*State*: which tables and columns there are, the row of `schema_version`.
*Operations*: the statements of the migration, each committed by itself.
*Hard*: a crash or a failing statement between two of them, and the next start.
*Correct when*: a log that opens has the whole schema; rows logged since
version 3 are never dropped (those of versions 1 and 2 are, by intent); an
interrupted migration is taken up again.

### Routing and rewriting (`handlers.go`, `server.go`, `context.go`, `config.go`, `obs.go`)

*State*: the configuration; per request the body being rewritten.
*Operations*: choice of provider and backend, `-FLASH` variants, thinking
budget, routing rules by token count, attribution, and the injection of the
observation instruction and its reminder into the conversation.
*Hard*: rewriting happens in several passes over two copies of the body;
failing lookups have defaults; a conversation has several shapes, and every
request repeats it.
*Correct when*: the backend called serves the model named in the body sent to
it, each rewriting reaches the body that is sent, and what is injected adds to
the conversation without losing or moving anything of it.

### Models endpoint (`models.go`)

*State*: a channel of results, one goroutine per backend, a `WaitGroup`.
*Hard*: answers come in any order; a backend may fail or not answer.
*Correct when*: every model of an answering backend is listed once, with its
clone, whatever the order; the request ends and leaves no goroutine behind.

### Parsing (`logger/parse.go`; `executor.go` in the agent)

*State*: the content, reasoning and tool calls accumulated from a stream.
*Operations*: the same translation of an answer four times, whole and
streamed, for two formats; the agent does it again while the response passes.
*Hard*: tool calls come in interleaved pieces under an index; streams break off.
*Correct when*: the logged answer is the one the model gave, or a beginning of
it, and both logs agree.

### Agent graphs (`agent/internal/agent/executor.go`, `llm.go`, `history.go`, `types.go`)

*State*: a `PipelineCtx` for each `Run` (messages, outputs of nodes, thinking
mode, backend), the working messages of a tool loop, an errgroup.
*Operations*: `Run` over route, chain, scatter and respond nodes; `DeepCopy`
and `Merge`; `callModel`.
*Interacts*: branches run `Run` themselves in goroutines, meet in the errgroup
and share the context it cancels.
*Hard*: branches fail and are cancelled in any order; history has rules about
reasoning; a window cuts conversations.
*Correct when*: the model is sent well-formed conversations that show it the
reasoning of the turn under way and no other; a scatter merges all branches or
reports what failed first; the run returns and leaves nothing running; the
client is answered once.

### Agent conversions (`anthropic.go`, `history.go`) and request log (`disk_logger.go`)

Conversion between the message formats and back, removal of reasoning; a list
of calls under a mutex.
*Correct when*: a conversion and its inverse lose nothing and leave calls next
to their results.

### Thinking router (`router/internal/router`)

*Operations*: flatten the conversation, have the model classify it, strip
earlier reasoning, set the template arguments, forward.
*Hard*: the classification may fail, or not return before the client goes.
*Correct when*: whatever becomes of the classification, the request is
forwarded; earlier reasoning never reaches the model, the latest does.

### Memory server and its hook (`memory/server.py`, `memory/hooks/user-prompt-submit.sh`)

*State*: a Chroma collection keyed by session; for each editor session a file
of the memories it was shown.
*Operations*: `/ingest` (insert or replace), `/search` with exclusions; the
hook of a prompt asks, records and prints.
*Interacts*: the proxy posts what its capture took out of answers; the hook
asks for it in later sessions.
*Hard*: posts are lost, late and repeated; the server is down or silent; the
prompt is interrupted at any point of the hook.
*Correct when*: what is relevant, of this project and new to the session is
shown, once, and a prompt never waits for the server.

### Gemma parser (`patches/gemma4_reasoning_parser.py`, `basic_parsers.py`)

*State*: the reasoning accumulated, whether its label was stripped.
*Hard*: deltas cut the label anywhere, and have special tokens with text on
either side: the deployment decodes speculatively (three tokens,
`docker-compose.yml:47`, `:153`) or by diffusion (a canvas of 256, `:100`); text
is held back until it is known whether it is the label.
*Correct when*: no text is lost, and a streamed answer is divided as the same
answer is whole.

### The rest

The log viewer (`ui.go`), the synthetic review server and client, the core
temperature exporter, scripts, deployment: see *Not modelled*.

## Modules

| module | models | |
|---|---|---|
| `TagText` | `strings.Index`, `Cut`, `TrimSpace`, `hasSuspiciousTail` | operators on sequences |
| `ObsStream` | the streaming capture | one action per outcome of an event, `WritePartial`, `Finalize` |
| `ObsStrip` | what the capture promises | abstract specification, refined by `ObsStream` |
| `Answers` | recording an answer: whole-body capture, both parsers, the agent's logger | a backend that sends an answer in pieces, `EndStream`, `EndBody` |
| `SessionLog` | handlers, database, pool, memory posts | one action per SQL statement |
| `MemoryLoop` | proxy's posts, memory server, hook | concurrent editor sessions |
| `Migration` | opening the database | the migration as a list of statements |
| `ProxyFront` | list of models, then a request for one of them | goroutines and channel of `HandleModels`; the passes of the handlers |
| `Formats` | translations of conversations: injection, log, router, agent | operators |
| `Conversation` | client, model and router over several requests, through `Formats` | turns, classification, forwarding |
| `AgentGraph` | the graph executor | one action per call, turn, edge and goroutine event |
| `GemmaParser` | the reasoning parser, whole and streamed | one action per delta |
| `MC...` | instances for TLC | |
| `TagTextProofs` | lemmas about cutting texts and joining sequences | no theorem of its own |
| `StreamProofs` | theorems about the two streams that are cut anywhere, `ObsStream` and `GemmaParser` | |
| `SessionLogProofs`, `MigrationProofs`, `AgentGraphProofs`, `ProxyFrontProofs`, `AnswersProofs` | theorems about the module of that name | the inductive invariants are defined here |
| `ConversationMemoryProofs` | theorems about `Conversation` with `Formats`, and about `MemoryLoop` | |

What meets where: `ObsStream` and `Answers` are the two halves of the capture;
`Answers` uses the promise of the first, `ObsStrip`, for what streaming leaves,
where the first is shown to keep it: when the pieces of text are long enough
(`LongPieces`). What shorter pieces leave is open there (`StreamObs`).
`SessionLog` takes the output that `Answers` logs as given and posts what the
capture found; `MemoryLoop` begins with that post. `ProxyFront` composes the
list a client is shown with the request it then makes. `Conversation` composes
the router with everything that rewrites the same conversation on its way.

How they correspond to the code:

* **ObsStream.** An event has a number, a kind and its text; JSON and SSE
  framing are left out. `Upstream` is the set of events the backend may send,
  constrained by the block structure of Anthropic streams. `Forward` is
  `handleSSEEvent` for all that is not scanned; `DropText`, `SuppressText`,
  `SearchMiss` (with `Hold`, `PassOn`) and `SearchHit` (with `EmitBefore`) are
  the cases of `handleTextDelta`. `client` is what was written, with event
  numbers; `scanned` and `clientText` are history variables, the text in and
  the text out. When the stream breaks off inside an event while another is
  held back, the fragment is written in front of the held event without a blank
  line; whether the client can decode what follows depends on the fragment, so
  both outcomes are in the model (`Decodable`).
* **SessionLog.** `Handle(r)` is `forwardWithLogging`, one statement a step,
  with the continuation each error has in the code. `Fails(r)` stands for any
  error of SQLite. Every statement is run on some connection of `pool`:
  `"keyed"` is the one `NewCompact` configured, `"bare"` those opened later,
  which do not enforce foreign keys. `messages` and `tools` hold bodies
  themselves; their SHA-256 is taken to be injective. The reply of a request is
  chosen from `Replies`, with upstream errors among them.
* **Migration.** `Program(v)` is the list of statements `migrateCompact(v)`
  runs; `FailStatement`, `Crash`, `Stop` and `Start` happen between any two.
  `UseLog` stands for requests being logged. The database may have been left at
  any version. What versions 1 and 2 looked like the repository no longer says:
  they have any of this schema's tables but `raw_requests`, with rows that refer
  to each other in any way (`legacy`), and the program for them drops all of it.
* **AgentGraph.** A graph is data: nodes with their kind and policy, edges with
  the set of outputs their condition accepts. Messages have an author, a turn,
  their tool calls and whether they carry reasoning, not a text. Threads are
  the request's `Run` and its branches; `Cancelled` is the context each one
  has. `BranchFactory` and `Merge` are code of the graph's author, modelled as
  `agent/DESIGN.md` uses them: a deep copy with a task appended, and one
  message with the results. A response to the client counts as one write.
* **Answers.** An answer is a sequence of blocks (text, thinking, tool). `StartBlock`
  and `SendDelta` are the Anthropic events, `SendChunk` the OpenAI chunks; tool
  calls may be sent interleaved. `wire` is the copy that `responseCapture`
  keeps, parsed by `ParseStream` after the end; `accum` is the state of
  `streamLogger`, which reads line by line and flushes at the end (`FlushToLog`).
  `StripBody` is `finalizeNonStreaming`. Anthropic's and OpenAI's parsers of
  streams share `Add`: they differ in what they decode, not in what they keep.
* **MemoryLoop.** `Posted` is what the proxy posts, with the project decoded
  from the URL (`context.go`); `Memories` has posts of other clients of
  `/ingest` too. A memory is its type and its distance from each prompt.
  `Interrupt` is the user's; the record (`seen`) outlives the hook.
* **ProxyFront.** A model's name is a base name and the number of `-FLASH`
  suffixes. Each goroutine of `HandleModels` is an element of `active` until its
  deferred `wg.Done`; `silent` backends accept a connection and never answer.
  The body of a request is what the handlers touch of it: model, template
  arguments, budget, instruction. Two passes, `extractModel` and
  `injectDisableThinking`, each take a suffix off.
* **Formats, Conversation.** A text is a sequence of parts, a message's content
  a string or an array of blocks; separators between joined texts are left out.
  With every request the client sends the conversation from its beginning, so
  each invariant speaks about every translation of the conversation as it is on
  arrival (`Arriving`). The agent's conversions are checked one behind the other.
* **GemmaParser.** `Base` is the base class on one delta, `Handle` Gemma's
  treatment of the message it returns; `output` is `previous_text`. Special
  tokens have a character of their own. A delta may be of one or of several
  tokens, with text on either side of a special one; `keptToken` and `lostText`
  are history variables, set by what the engine delivered (`KeepsToken`,
  `LosesText`), which tell the deltas apart for which the code does not do what
  it means to.

## Runs

| run | expected | shows |
|---|---|---|
| `obs_mixed` | pass | every kind of event, texts cut into pieces of at least tag length minus one: text kept, cut at the tag, observation captured, `ObsStrip` implemented; only suspicious text is late, and overtaken by nothing but events that are not answer text; the rest is untouched and in order (`OnlyHeldTextIsLate`) |
| `obs_leak` | violation | a tag in three pieces reaches the client |
| `answers_delivered` | pass | answers in both formats, whole and in pieces, breaking off anywhere: the log has the answer or a beginning of it (`LogInv`), the agent's log the same; a whole body loses the observation only, and leaves the one a stream in long pieces would (`CaptureInv`) |
| `log_chains` | pass | two requests, two failing statements, a crash: chains contiguous, in order, resolvable, complete unless something failed; memory never ahead of the log; liveness: a request is forwarded whatever the log does |
| `schema_opens` | pass | databases of versions 0 to 6, three faults, three crashes, six starts: what opens is whole (`SchemaInv`), no row is dropped but those versions 1 and 2 left (`KeepsRows`), refusal has a cause |
| `proxy_front` | pass | backends answering, failing and silent in any order, then a request: the list is complete (`ListInv`), what it lists is served, thinking is off or bounded as asked and other providers' requests stay as they are (`BodyInv`); liveness: the list comes when all backends have answered or the client goes |
| `conversation` | pass | five turns in either format: no text, call or result is lost or moved by any translation (`TranslationInv`), injection only adds, one conversation gives one log, each continuing the one before (`LogInv`), the router keeps the latest reasoning; liveness: a request goes on whatever the classifier does |
| `agent_research` | pass | route, chain, scatter over up to two branches, chain, respond, with a scatter no edge leaves and a branch whose edge leads nowhere; failures and cancellation anywhere: conversations are well formed and show the reasoning of the turn (`ThinkingInv`), nothing is left behind (`RunInv`), branches merge all or nothing; liveness: the run returns |
| `gemma_deltas` | pass | outputs of up to seven characters in deltas of one and several tokens: no text is lost but by deltas of `LosesText` (`ParserInv`), streamed is divided as whole but behind deltas of `KeepsToken` |
| `gemma_loss` | violation | an end token and text behind it in one delta, while the reasoning is empty or begins the label: the text is lost |
| `memory_seen` | pass | two editor sessions, three prompts, posts lost and repeated, the server down, silent or broken, interruptions: nothing is shown twice (`LoopInv`), nothing near is missed for what was seen; liveness: a prompt goes on |
| `memory_blind` | violation | the hook never finds what the proxy posted |

Invariants named `...Inv` are conjunctions: of the module's type invariant
(`TypeOK`), of safety properties about the same state that are defined in front
of them, or of both.

**Bounds and why they are enough.**

* `MaxEvents` is 5 in `obs_mixed`, with tags of three characters and pieces of
  at least two (`LongDeltas`): a tag can be cut in two at either place, with text
  before and behind it, and the closing tag behind it in the same or later
  events; five events also give room for a thinking block and a text block, and
  for a held event that is overtaken by the stop of its block. The two tags
  share their first character as the real ones do. `obs_mixed` is in Anthropic's
  format; pieces of one character and OpenAI's format are in `obs_leak` and in
  the theorems, which need `LongDeltas` only where *Proofs* says so.
* `answers_delivered`: nine answers with the observation in the first, the last
  and several blocks, in reasoning, unclosed and absent, up to three tool calls
  with and without arguments; `MaxPiece` 2 cuts texts and arguments everywhere,
  `MaxNoise` 1 puts an event the parsers skip at every place. The opening tag
  has three characters, so that it can begin in one block and end in another,
  and pieces of one are too short for the capture, pieces of two long enough.
* `Requests` is two with a message in common, which is enough for every pair of
  statements of two handlers to interleave; the rows without a session, which
  several handlers share, get two writers. `MaxFaults` 2 lets one fault hide
  behind another; `MaxCrashes` 1, as handlers do not survive a crash.
* `MaxStarts` 6 with `MaxCrashes` 3 lets a database of version 0 be interrupted
  in each of the parts of the migration and finished afterwards.
* `proxy_front`: two URLs, so that answers come in both orders and lists
  overlap; one model listed twice, one configured twice, one not configured, an
  entry without an id; names with up to two suffixes; `Counts` below, at and
  above each rule's threshold; limits of 0, 1 and more tokens.
* `conversation`: `MaxTurns` 5 is a question, calls, their results, an answer
  and another question, or two rounds of calls; two calls give two orders of results. `WindowSize`
  2 is smaller than the conversation.
* Two branches, one tool turn of up to two calls for each chain (`MaxTurns`,
  `MaxCalls`): an error can come before, during and after the other branch's
  call of the model, and both can fail.
* `gemma_deltas`: a label of three characters, pieces that end inside it, on
  its end and behind it, each token alone, with text in front, behind and on
  both sides, and both in one delta; `MaxLength` 7 leaves room for both tokens
  and text behind the label and the end token.
* `memory_seen`: four memories, `N` 1, so that one memory seen is enough to
  fill the answer if it counted; `MaxPrompts` 3 over both sessions.

Deadlock checking is off in every run: a response that is finalized, a request
that is done or forwarded, a graph that has returned, an output that is
finished, and a model that has used up its bounds have no further steps.

**Fairness.** `SessionLog!FairSpec` is weak fairness of each handler: the Go
scheduler runs its goroutine, SQLite answers or fails every statement, and
forwarding ends because the backend answers or the client goes away. Arrival,
crashes, opening connections and the memory post are not fair.
`AgentGraph!FairSpec` is weak fairness of each thread, of its return to the
errgroup, and of forking and gathering: goroutines are scheduled and a call of
the model answers or fails. The model has no time limit, so this assumes
that vLLM does not hang for ever. `RunReturns` needs `MaxTurns` too: nothing
in the code ends a chain whose model keeps calling tools.
`ProxyFront!Spec` is weak fairness of each goroutine, of the collecting loop and
of the handler's steps; a backend that is not silent answers or fails, a silent
one returns an error only when the client has gone. Nothing obliges the client
to go. `Conversation!ConversationSpec` is weak fairness of the classification, which a mute
model disables until the client goes, and of the forwarding; client and model
are not fair. `MemoryLoop!Spec` is weak fairness of each hook: its process is
scheduled and curl's `--max-time` passes; the server is not fair.

## Proofs

Each theorem holds for every value of the constants that meets the modules'
assumptions and the hypotheses named with it. Except where noted, each follows
from an inductive invariant: the property alone does not survive a step.

**`StreamProofs`**: any alphabet, tags, format and cutting of the stream.

* `TypeCorrect`, `NoTextLostAlways`, `CutAtTagAlways`, from `CutInv`. `CutAtTag`
  speaks about the state after the tag has been found and needs to know, from
  before, that what was sent and what is held together is all the text, and
  that nothing is held once the search is over.
* `TagNeverReachesClient` and `CaptureStrips` (every step of the capture is one
  of `ObsStrip` or a stutter), under `LongDeltas`, from `StripInv`. It adds
  where the search stands (`Searched`): what is held is long enough for all of
  a tag but its last character, or nothing is held and the text does not end
  with part of a tag. `LongDeltas` is a claim about the backend, which the code
  does not enforce; run `obs_leak` shows that it is needed.
* `OnlyHeldTextIsEverLate`, from `OrderInv`, which adds that the capture knows
  whether it is in a thinking block, and that nothing sent is what is held. Of
  two events sent the first came first, or the second is answer text that may
  begin the tag and the first is none, with no answer text between them.

They rest on facts about cutting a text at the first occurrence of a tag, and
about cutting it again after more text has come, which `TagTextProofs` proves
without induction over sequences.

* `NoTextIsLost` and `StreamDividesAsWhole`, about the Gemma parser, for deltas
  of one and of several tokens, with no hypothesis about them: what the code
  does wrong is set apart by the state, `lostText` and `keptToken`. `StreamInv`
  follows the label: what is sent, without tokens, is the text without the
  label, or nothing is sent and the buffer holds the text, which is a beginning
  of the label. `DivideInv` adds where the text is divided (`DividedAs`): as
  long as no end token has come all that is sent is reasoning, and afterwards
  what was sent is what the parser of whole answers makes of the text
  (`StreamedAsWhole`).

**`SessionLogProofs`**: any number of requests, faults and crashes.

* `LogTypeCorrect`, `ChainContiguousAlways`, `HashesResolveAlways`. `LogInv` is
  type correctness, `RowsInv` (the rows are finitely many, numbered contiguously
  and refer to stored messages) and, for each handler, what it knows at its step
  (`HandlerOK`): between storing a message and adding it, the message is in the
  database, and a session handle means that the session's row exists. The
  sequence number a handler holds may be stale, and is 0 after a failing
  `SELECT`; contiguity holds because `UNIQUE(session_id, sequence)` rejects
  every stale number, and a number that is not stale is the next one.
* `ChainInOrderAlways`, `CompleteUnlessFailedAlways`, `MemoryFollowsLogAlways`,
  from `HistoryInv`, which adds for each handler that what it has still to store
  is a suffix of what was said, that its rows embed in order into what it has
  taken up, that it has stored all of that as long as no statement of its own
  failed, and that the memory server has at most one post of it, made when it
  was done.

**`MigrationProofs`**: any number of starts, faults and crashes.
`SchemaAlwaysWhole`, `RefusedOnlyIncoherentAlways` and `RowsAlwaysKept` (an
action property), from `MigrationInv` and, for what versions 1 and 2 left,
`LegacyInv`: a version of this schema is recorded behind the `DROP`s only, so a
start that skips them finds nothing of the old tables, unless a `DROP` failed. The program of a start at version v is a
tail of that of an empty database, so one number (`Pos`) says how far the whole
migration has come; from it follow the version, the tables and the columns
(`Staged`). Two versions are kept apart because two claims are about different
starts: one in which no read of the version ever failed, one in which nothing
failed this time whatever failed before (`StagedVersion`).

**`AgentGraphProofs`**: any graphs, any number of branches.

* `RunAlwaysWhole`, `ErrorIsCauseAlways`, `MergedAllOrNothingAlways`, from
  `ControlInv`: where each thread is and at what kind of node, branches run only
  while the main thread waits, and an error that is a cancellation had one
  before it (`GroupInv`).
* `HistoryCleanAlways`, with the same invariant.
* `InputAlwaysAnswered`, under `WindowsSpanTurns`, from `TurnInv`: the working
  messages of a turn are the history and what has been said since; between calls
  of the model everything is answered, and what a window leaves out makes no
  calls, because the window is at least as long as a turn.
* `ThinkingAlwaysInTurn`, under `WindowsSpanTurns`, `AllStrip` and
  `OneClassifier`: the history carries no reasoning, and a thread thinks as the
  classifier last said but between its answer and the edge (`ModeInv`).

The hypotheses are about the graph, which the agent's author writes; the
executor accepts others, and the properties say of which graphs they speak. The
graph of `agent_research` meets all three.

**`ProxyFrontProofs`**: any configuration, lists and requests.

* `BodiesAlwaysFit`, under `FractionOfMax`: with `THINKING_BUDGET=1` a budget
  takes all the client allows, and the proxy does not check the variable.
* `ListAlwaysComplete`, under `NoFlashListed`, from `GatherInv` (who is running,
  who has answered, and that the channel holds no more results than that) and
  `MergeInv` (what is merged and what is in the channel is all that was listed).
  A backend that lists a name with the suffix would have it cloned again.
* `ListedAlwaysServed`, under `ListsItsModel` too: a backend serves the name
  `BACKENDS_MAP` gives it, as vLLM's `--served-model-name` has it.

**`ConversationMemoryProofs`, about `Conversation`**: conversations of any
length, with any texts and any number of calls.

* `TranslationAlwaysKeeps`, `LogAlwaysOne`, `InjectionAlwaysOnlyAdds`,
  `RouterAlwaysKeepsLatest`, from `TurnsInv`: the turns are a conversation a client can have (whose turns are
  whole messages, numbered calls and their answers), and what the router has
  forwarded is what it makes of the client's messages. The second part is what
  `RouterKeepsLatest` needs, which speaks about a step after the one that made
  the messages; the first is what all of them need, and no step of the router
  disturbs it.
* What remains is about operators, for all conversations: what of a message is
  logged, reminded, stripped, and what is left when the additions are taken out.
  Such facts need an induction over a sequence, which is done with a set in the
  place of a predicate (`SeqInduction`); most follow from what is taken of each
  single element (`GatherJoin`, `GatherFlat`, `GatherTwice`, `GatherSame` of
  `TagTextProofs`), so that two translations agree when they take the same of
  every turn. That the log continues is that each request adds a suffix: the
  translation of `h \o x` begins with that of `h`, and a reminder depends on a
  message and the one before it.
* `TranslationAlwaysKeeps` is about the agent's conversion too, which appends
  to the message before when an answer follows an answer (`ChatMessagesToAnthropic`)
  and so is not put together from what it makes of each message. It is where no
  answer follows an answer across the seam (`ConvertJoin`); the answers of one
  turn stand together behind the calls of the model, so the conversion is put
  together from that of each turn (`TurnsConverted`). From there, what is kept
  is shown turn by turn (`TurnKept`). Calls and results are followed from
  message to message: what a sequence of messages answers at its beginning and
  leaves open at its end (`Follows`) is joined like the messages are, a turn of
  tools answers what the turn before has left open, and a conversation on its
  way leaves nothing open. The proxy and the router change no call and no
  result of any message (`RemindedIds`, `StrippedIds`), so that what holds of
  the client's messages holds of theirs.

**`ConversationMemoryProofs`, about `MemoryLoop`**: any sessions, memories,
distances and failures.
`LoopAlwaysInOrder`, from `IInv`: while a session's hook waits, its question
excludes exactly what the session has seen, so that an answer has nothing seen
before; an answer recorded and not printed is seen and not shown.
`NearestAlwaysFound` is about steps: the N nearest of a set that has k excluded
members are among its N + k nearest, proved by counting.

**`AnswersProofs`**: any answers, cutting and alternation of calls.

* `LogsAlwaysAgree`, from `CopyInv`: what the agent's logger has accumulated,
  with the line it is waiting for the end of, is what the copy of the events
  says.
* `LoggedIsAnswer`, from `ReadInv`: reading the copy gives, of each block, as
  much as has been sent of it (`Received`), and blocks are sent in order
  (`OrderInv`), but for calls that alternate, which are begun in order. That the
  index of a call is its rank among the calls begun, and that sorting by index
  gives them in order, is `RankedIs` and `RanksBegin`. The types of what is
  accumulated are a second invariant (`AccumInv`), which rests on the first.
* `ObservationTaken`, from the same: how cutting one block's text changes the
  text of all. What it says of whole bodies holds for all texts and tags; what
  it says of streams, for those whose pieces of text have at least one character
  less than the opening tag (`LongPieces`), because only then the capture is
  shown to find the tag (`CaptureStrips`; run `obs_leak` shows it missing one).

`FoldLeft` and `FlattenSeq` are defined recursively. The lemmas that unfold them
by one element (`ReadMore`, `FlattenGrows`, and `FoldExists`, `FlattenChain` in
`TagTextProofs`) first
show that the recursion has a solution, by induction up to a number with a set
in the place of a predicate (`InductionUpTo`); the modules themselves declare no
recursive operator.

Looking for the proofs changed some definitions:

* `MergedAllOrNothing` was false for graphs that scatter more than once; it
  speaks now about the results of the scatter just gathered.
* What the edges of a graph may be is an assumption of `AgentGraph` now
  (`IsGraph`).
* A tag that begins in one text block and ends in another is none in a whole
  body, and one in the stream of the same answer. The properties of `Answers`
  were false for such answers, which its run did not have; they say so now, and
  the run has them.
* What `Formats` and `Conversation` select from a sequence they put together
  element by element (`When`), and `ChatMessagesToAnthropic` is a recursive
  function, where a fold had been. What a text and a content may be are
  assumptions of `Conversation` now (`PartAssumption`, `ClientAssumption`,
  `ModelAssumption`).
* `Status` of `ObsStream` had overlapping cases; `OthersUntouched`, the results
  of `MemoryLoop` and the tokens of `GemmaParser` are stated without selecting
  from sequences, for which the provers know no definition.

Checked by TLC only: everything about liveness and fairness, which is out of
this prover's reach.

## Findings

* **obs_leak** A tag in three pieces passes: `handleTextDelta` holds back one
  event only and looks for the tag in two.
* **gemma_loss** A delta with the end token and text behind it gives a message
  of reasoning and content; while the reasoning is empty or a strict beginning of
  the label (`<|channel>`, then `<channel|>text`), the parser holds the whole
  message back and the content is never sent (`gemma4_reasoning_parser.py:221`).
  The comment below that says "Re-emit the full accumulated text to avoid data
  loss". Deltas of several tokens are what the deployment is set up for
  (`docker-compose.yml:47`, `:100`, `:153`).
* **memory_blind** The hook searches for the project by the base64url encoding
  of its directory, the proxy posts the directory decoded, and the server
  compares for equality: no memory of the proxy is ever found by the hook.

Seen while modelling, without a run of their own (the invariants are stated
for the other cases, and say so where they are defined):

* A text delta that is held back reaches the client behind whatever comes before
  the next text delta or the end: behind its own `content_block_stop`, and behind
  `message_stop` or `[DONE]` (`obs.go:154-156`, `175-188`, `456-457`), where a
  client may not expect one. An answer that ends in `<` is enough.
  `OnlyHeldTextIsLate` allows this and nothing more (`MayBeOvertaken`).
* `injectOpenAISystem` (`obs.go:719`) writes the instruction over a system
  prompt that is an array of parts; `InjectionOnlyAdds` is about strings there.
* A crash between `ALTER TABLE` and the recording of its version makes every
  later start fail with a duplicate column (`compact.go:235`);
  `RefusedOnlyIncoherent` has this as the one cause besides a failing statement.
  A read of the version that fails counts as version 0, whose migration drops
  the tables (`misread`).
* `ListSessions` calls sessions terminal that are under way or whose backend
  failed. When `StartSession` failed, messages are stored under the session id
  `""`, where foreign keys are not enforced (`compact.go:145`).
* Only the first text block with a tag is cleaned in a whole body
  (`BodyCutAtTag`).
* A request whose body names a model with a routing rule goes to the target's
  backend with the source's name. The first rule that is reached wins, not the
  highest threshold. Models that a backend lists and `BACKENDS_MAP` does not
  name are listed, and go to the first backend (`ListedIsServed`).
* Counting tokens has neither the client's context nor a timeout
  (`handlers.go:293`).
* A window of an agent counts the messages of the turn under way too and may
  cut off its own reasoning and calls (`ThinkingOnlyInTurn`). `DeepCopy` leaves
  `BackendURL` out, so that a branch made with it cannot call the model.
* The agent's conversion drops the sources of pictures; the Anthropic log drops
  messages of pictures alone; the router's classifier is shown an empty message
  for a turn of tool results (`AgentKeepsAll`, `LogIndependentOfAPI`).
* The Gemma parser lets the start token through in a delta that has text behind
  it and no end token: `<|channel>thought` in one delta is sent as reasoning,
  token and label, though its docstring says that it strips the label
  (`basic_parsers.py:167`). So it does with an end token among text where the
  prompt opened the channel and no start token came. `StreamedAsWhole` leaves
  such deltas out (`KeepsToken`). Besides the loss that `gemma_loss` shows, text
  in front of a channel that opens and closes in one delta is lost
  (`LosesText`).
* A search may return more than `n` memories, up to as many more as were
  excluded. A memory recorded by a hook that is then interrupted is not shown
  again.

## Not modelled

Byte-level formats (JSON, SSE framing), HTTP, logging, metrics and pages. The
log viewer reads and renders; `ListSessions` and `GetTools` are reads. The MCP
tool `search_memories` is one more reader of the collection. The router's
generic proxy passes requests through. The agent's request log is an append
under one mutex, saved after the run. The Python evaluation scripts, the
browser client, deployment files, the agent command and the core temperature
exporter are I/O without state. The synthetic review server moves and rewrites
JSON files for a single reviewer; its race is listed as a hazard.

SQLite and Chroma are taken to be correct and durable for committed statements;
the distances of memories from a prompt are distinct. Hashes do not collide.
Random session ids are fresh. Scatter branches have no scatter nodes of their
own: a nested errgroup behaves as the outer one does. A scatter node without a
`ScatterConfig` is a mistake of the graph's author that fails the run at once,
as an unknown node does. The agent command runs its graph without a client:
`AnsweredOnce` is about runs that have one. The conversations modelled are
those of clients that answer every call, as both APIs demand.

## Plan

The components that keep state are modelled; what is left to add is small: the
review server (label against archive and approve), `ListSessions`. Every
invariant that a run checks is proved.
