----------------------------- MODULE AgentGraph -----------------------------
(***************************************************************************)
(* The executor of agent graphs (agent/internal/agent/executor.go, with     *)
(* callModel of llm.go and the history rules of history.go): Graph.Run      *)
(* walks the nodes of a graph for one request; a scatter node runs several  *)
(* branches, each a Run of its own in a goroutine of an errgroup.           *)
(*                                                                          *)
(* Threads are "main", the Run of the request, and the branches of its      *)
(* scatter nodes.  What a thread does between two calls of the model is its *)
(* own affair; threads meet in the errgroup only: its first error, and the  *)
(* context that the error cancels.                                          *)
(***************************************************************************)
EXTENDS Integers, Sequences, FiniteSets

CONSTANTS
  Branches,       \* the branches a BranchFactory may make
  MainGraph,      \* the graph of the request
  SubGraph,       \* the graph of every branch
  Contents,       \* what the model may say
  Upper,          \* strings.TrimSpace(strings.ToUpper(content)) of each
  MaxCalls,       \* bound on the tool calls of one response
  MaxTurns,       \* bound on the tool turns of one chain
  None            \* nil, no output, no error

Threads == {"main"} \cup Branches
Kinds == {"route", "chain", "scatter", "respond"}
Places == {"idle", "enter", "route", "call", "tools", "edge", "wait", "respond",
           "done", "failed", "joined"}
Errors == {"unknown node", "no backend", "backend", "cancelled", "no edge", "branch"}
Outputs == Contents \cup {Upper[c] : c \in Contents} \cup {""}

\* Graph, Node and Edge: "think" is Agent.ThinkingMode, "strip" and "window"
\* the HistoryPolicy, "on" the outputs an edge's Condition holds for, and
\* "classifies" whether its Transform sets pctx.ThinkingMode from the output.
Policy == [kind : Kinds, think : {"unset", "on", "off"}, strip : BOOLEAN, window : Nat]
NodesOf(g) ==
  {g.entry} \cup DOMAIN g.nodes
    \cup UNION {{g.edges[i].from, g.edges[i].to} : i \in DOMAIN g.edges}
IsGraph(g) ==
  /\ g.nodes # << >>
  /\ \A n \in DOMAIN g.nodes : g.nodes[n] \in Policy
  /\ g.edges \in Seq([from : NodesOf(g), to : NodesOf(g), on : SUBSET Outputs,
                     classifies : BOOLEAN])
Nodes == NodesOf(MainGraph) \cup NodesOf(SubGraph)

ASSUME GraphAssumption ==
  /\ IsGraph(MainGraph) /\ IsGraph(SubGraph)
  /\ \A n \in DOMAIN SubGraph.nodes : SubGraph.nodes[n].kind # "scatter"
  /\ "main" \notin Branches /\ None \notin Threads \cup Outputs \cup Errors
ASSUME BoundsAssumption == MaxCalls \in Nat /\ MaxTurns \in Nat

\* A message: who produced it, at which turn of which node, whether it carries
\* reasoning, how many tool calls it makes, and which call it answers.
Message ==
  [role : {"user", "assistant", "tool"}, by : Threads \cup {"client", "merge"},
   node : Nodes \cup {None}, turn : Nat, reasoning : BOOLEAN,
   calls : Nat, answers : Nat]

Said(role, by, node, turn, reasoning, calls, answers) ==
  [role |-> role, by |-> by, node |-> node, turn |-> turn,
   reasoning |-> reasoning, calls |-> calls, answers |-> answers]

Prompt == Said("user", "client", None, 0, FALSE, 0, 0)
Task(b) == Said("user", b, None, 0, FALSE, 0, 0)
Results == Said("user", "merge", None, 0, FALSE, 0, 0)

VARIABLES
  pc,            \* where each thread is
  node,          \* nodeID of each Run
  \* its PipelineCtx
  messages, outputs, thinking, backendURL,
  \* the tool loop of its chain
  working, iteration, calls,
  error,         \* why a Run failed
  \* the errgroup
  active,        \* the branches of the scatter under way
  groupErr,      \* the branch whose error came first, which cancels egCtx
  completed,     \* completedCtxs
  \* the client
  gone,          \* the request's context is cancelled
  written        \* who wrote responses to the client

pipeline == << messages, outputs, thinking, backendURL >>
loop == << working, iteration, calls >>
group == << active, groupErr, completed >>
vars == << pc, node, pipeline, loop, error, group, gone, written >>

TypeOK ==
  /\ pc \in [Threads -> Places]
  /\ node \in [Threads -> Nodes \cup {None}]
  /\ messages \in [Threads -> Seq(Message)]
  /\ outputs \in [Threads -> [Nodes -> Outputs \cup {None}]]
  /\ thinking \in [Threads -> {"unset", "on", "off"}]
  /\ backendURL \in [Threads -> BOOLEAN]
  /\ working \in [Threads -> Seq(Message)]
  /\ iteration \in [Threads -> Nat]
  /\ calls \in [Threads -> Nat]
  /\ error \in [Threads -> Errors \cup {None}]
  /\ active \subseteq Branches
  /\ groupErr \in Branches \cup {None}
  /\ completed \subseteq active
  /\ gone \in BOOLEAN
  /\ written \in Seq(Threads)

Init ==
  /\ pc = [t \in Threads |-> IF t = "main" THEN "enter" ELSE "idle"]
  /\ node = [t \in Threads |-> IF t = "main" THEN MainGraph.entry ELSE None]
  /\ messages = [t \in Threads |-> IF t = "main" THEN << Prompt >> ELSE << >>]
  /\ outputs = [t \in Threads |-> [n \in Nodes |-> None]]
  /\ thinking = [t \in Threads |-> "unset"]
  /\ backendURL = [t \in Threads |-> t = "main"]
  /\ working = [t \in Threads |-> << >>]
  /\ iteration = [t \in Threads |-> 0]
  /\ calls = [t \in Threads |-> 0]
  /\ error = [t \in Threads |-> None]
  /\ active = {} /\ groupErr = None /\ completed = {}
  /\ gone = FALSE /\ written = << >>

----------------------------------------------------------------------------
(* Threads                                                                  *)

At(t, place) == pc[t] = place
Goto(t, place) == pc' = [pc EXCEPT ![t] = place]
Graph(t) == IF t = "main" THEN MainGraph ELSE SubGraph
Agent(t) == Graph(t).nodes[node[t]]

\* ctx, or egCtx for a branch.
Cancelled(t) == gone \/ (t # "main" /\ groupErr # None)

\* The Run returns an error.
Fail(t, why) ==
  /\ Goto(t, "failed")
  /\ error' = [error EXCEPT ![t] = why]

\* The client goes away.
CancelRequest ==
  /\ ~gone /\ ~At("main", "done") /\ ~At("main", "failed")
  /\ gone' = TRUE
  /\ UNCHANGED << pc, node, pipeline, loop, error, group, written >>

----------------------------------------------------------------------------
(* Graph.Run: look the node up, and start with it                           *)

EnterUnknown(t) ==
  /\ At(t, "enter")
  /\ node[t] \notin DOMAIN Graph(t).nodes
  /\ Fail(t, "unknown node")
  /\ UNCHANGED << node, pipeline, loop, group, gone, written >>

EnterNode(t) ==
  /\ At(t, "enter")
  /\ node[t] \in DOMAIN Graph(t).nodes
  /\ Agent(t).kind \in {"route", "respond"}
  /\ Goto(t, Agent(t).kind)
  /\ UNCHANGED << node, pipeline, loop, error, group, gone, written >>

\* runChain works on a copy of the messages.
EnterChain(t) ==
  /\ At(t, "enter")
  /\ node[t] \in DOMAIN Graph(t).nodes
  /\ Agent(t).kind = "chain"
  /\ Goto(t, "call")
  /\ working' = [working EXCEPT ![t] = messages[t]]
  /\ iteration' = [iteration EXCEPT ![t] = 0]
  /\ UNCHANGED << node, pipeline, calls, error, group, gone, written >>

\* runScatter: every branch gets a deep copy of the context and a task of its
\* own.  DeepCopy leaves the backend's URL out; its graph's BranchFactory may
\* set it or not.
Fork(branches, setsURL) ==
  /\ active' = branches /\ groupErr' = None /\ completed' = {}
  /\ pc' = [t \in Threads |-> IF t = "main" THEN "wait"
                              ELSE IF t \in branches THEN "enter" ELSE "idle"]
  /\ node' = [t \in Threads |-> IF t \in branches THEN SubGraph.entry ELSE node[t]]
  /\ messages' = [t \in Threads |-> IF t \in branches
                                    THEN Append(messages["main"], Task(t))
                                    ELSE messages[t]]
  /\ outputs' = [t \in Threads |-> IF t \in branches THEN outputs["main"] ELSE outputs[t]]
  /\ thinking' = [t \in Threads |-> IF t \in branches THEN thinking["main"] ELSE thinking[t]]
  /\ backendURL' = [t \in Threads |-> IF t \in branches THEN setsURL ELSE backendURL[t]]

EnterScatter ==
  /\ At("main", "enter")
  /\ node["main"] \in DOMAIN MainGraph.nodes
  /\ Agent("main").kind = "scatter"
  /\ \E branches \in SUBSET Branches, setsURL \in BOOLEAN : Fork(branches, setsURL)
  /\ UNCHANGED << loop, error, gone, written >>

----------------------------------------------------------------------------
(* callModel                                                                *)

\* The last n messages, all of them if n is 0.
ApplyWindow(msgs, n) ==
  IF n = 0 \/ Len(msgs) <= n THEN msgs ELSE SubSeq(msgs, Len(msgs) - n + 1, Len(msgs))

\* resolveThinking.
Thinks(t) ==
  IF Agent(t).think # "unset" THEN Agent(t).think = "on" ELSE thinking[t] # "off"

\* What the model is sent.
Input(t) ==
  ApplyWindow(IF At(t, "route") THEN messages[t] ELSE working[t], Agent(t).window)

Calling(t) == At(t, "route") \/ At(t, "call")
Answered(t) == Calling(t) /\ backendURL[t] /\ ~Cancelled(t)

CallFails(t) ==
  /\ Calling(t)
  /\ \/ ~backendURL[t] /\ Fail(t, "no backend")
     \/ backendURL[t] /\ Cancelled(t) /\ Fail(t, "cancelled")
     \/ Answered(t) /\ Fail(t, "backend")
  /\ UNCHANGED << node, pipeline, loop, group, gone, written >>

SetOutput(t, output) == outputs' = [outputs EXCEPT ![t][node[t]] = output]

\* runRoute
Route(t) ==
  /\ At(t, "route") /\ Answered(t)
  /\ \E c \in Contents : SetOutput(t, Upper[c])
  /\ Goto(t, "edge")
  /\ UNCHANGED << node, messages, thinking, backendURL, loop, error, group, gone, written >>

\* runChain, a turn with tool calls: the message goes into the working
\* messages with its reasoning.
Speaks(t, n, reasoning) ==
  Said("assistant", t, node[t], iteration[t], reasoning, n, 0)

ToolTurn(t) ==
  /\ At(t, "call") /\ Answered(t)
  /\ iteration[t] < MaxTurns
  /\ \E n \in 1..MaxCalls :
       /\ working' = [working EXCEPT ![t] = Append(@, Speaks(t, n, Thinks(t)))]
       /\ calls' = [calls EXCEPT ![t] = n]
  /\ Goto(t, "tools")
  /\ UNCHANGED << node, pipeline, iteration, error, group, gone, written >>

\* Each call is executed; a failing or unknown tool answers with its error.
\* (Mutant: it does not answer.)
AnswersOf(t) ==
  [k \in 1..calls[t] |-> Said("tool", t, node[t], iteration[t], FALSE, 0, k)]

RunToolsUnanswered(t) ==
  /\ At(t, "tools")
  /\ \E k \in 0..calls[t] :
       working' = [working EXCEPT ![t] = @ \o SubSeq(AnswersOf(t), 1, k)]
  /\ calls' = [calls EXCEPT ![t] = 0]
  /\ iteration' = [iteration EXCEPT ![t] = @ + 1]
  /\ Goto(t, "call")
  /\ UNCHANGED << node, pipeline, error, group, gone, written >>

RunTools(t) ==
  /\ At(t, "tools")
  /\ working' = [working EXCEPT ![t] = @ \o AnswersOf(t)]
  /\ calls' = [calls EXCEPT ![t] = 0]
  /\ iteration' = [iteration EXCEPT ![t] = @ + 1]
  /\ Goto(t, "call")
  /\ UNCHANGED << node, pipeline, error, group, gone, written >>

\* The final turn: the answer alone is committed, without its reasoning if the
\* policy says so.  (Mutant: with the working messages.)
CommitWorking(t, answer) ==
  messages' = [messages EXCEPT ![t] = Append(working[t], answer)]
Commit(t, answer) ==
  messages' = [messages EXCEPT ![t] = Append(@, answer)]

\* Mutant: reasoning is never stripped.
StripNever(t, reasoning) == reasoning
StripOnCommit(t, reasoning) == reasoning /\ ~Agent(t).strip

FinalTurn(t) ==
  /\ At(t, "call") /\ Answered(t)
  /\ Commit(t, Speaks(t, 0, StripOnCommit(t, Thinks(t))))
  /\ \E c \in Contents : SetOutput(t, c)
  /\ Goto(t, "edge")
  /\ UNCHANGED << node, thinking, backendURL, loop, error, group, gone, written >>

----------------------------------------------------------------------------
(* Edges                                                                    *)

OutputOf(t) == outputs[t][node[t]]

\* findEdge: the first edge from the node whose condition holds.
Matching(t) ==
  {i \in DOMAIN Graph(t).edges :
     Graph(t).edges[i].from = node[t] /\ OutputOf(t) \in Graph(t).edges[i].on}
FirstEdge(t) ==
  Graph(t).edges[CHOOSE i \in Matching(t) : \A j \in Matching(t) : i <= j]

\* The Transform of a classifying edge.  
ModeFor(output) == IF output = "REASONING" THEN "on" ELSE "off"

FollowEdge(t) ==
  /\ At(t, "edge") /\ Matching(t) # {}
  /\ thinking' = IF FirstEdge(t).classifies
                 THEN [thinking EXCEPT ![t] = ModeFor(OutputOf(t))]
                 ELSE thinking
  /\ node' = [node EXCEPT ![t] = FirstEdge(t).to]
  /\ Goto(t, "enter")
  /\ UNCHANGED << messages, outputs, backendURL, loop, error, group, gone, written >>

\* No edge: a chain or a route ends the Run, a scatter fails it.
NoEdge(t) ==
  /\ At(t, "edge") /\ Matching(t) = {}
  /\ IF Agent(t).kind = "scatter"
     THEN Fail(t, "no edge")
     ELSE Goto(t, "done") /\ UNCHANGED error
  /\ UNCHANGED << node, pipeline, loop, group, gone, written >>

----------------------------------------------------------------------------
(* The errgroup                                                             *)

\* A branch returns from its goroutine; the first error is kept and cancels
\* the others.  (Mutant: the last one is kept.)
KeepFirst(b) == groupErr' = IF groupErr = None THEN b ELSE groupErr

JoinGroupLast(b) ==
  /\ b \in Branches
  /\ Goto(b, "joined")
  /\ \/ At(b, "done") /\ completed' = completed \cup {b} /\ UNCHANGED groupErr
     \/ At(b, "failed") /\ groupErr' = b /\ UNCHANGED completed
  /\ UNCHANGED << node, pipeline, loop, error, active, gone, written >>
JoinGroup(b) ==
  /\ b \in Branches
  /\ Goto(b, "joined")
  /\ \/ At(b, "done") /\ completed' = completed \cup {b} /\ UNCHANGED groupErr
     \/ At(b, "failed") /\ KeepFirst(b) /\ UNCHANGED completed
  /\ UNCHANGED << node, pipeline, loop, error, active, gone, written >>

\* eg.Wait returns when all branches have.  (Mutants: as soon as one has
\* failed; as soon as one has returned; only when all have completed.)
WaitForFirst == groupErr # None \/ \A b \in active : At(b, "joined")
WaitForAny == active = {} \/ \E b \in active : At(b, "joined")
WaitForCompleted == completed = active
WaitOver == \A b \in active : At(b, "joined")

\* Merge folds the results back into the context of the parent; with no
\* branches it is not called.
GatherAll ==
  /\ At("main", "wait") /\ WaitOver
  /\ IF groupErr # None
     THEN Fail("main", "branch") /\ UNCHANGED << messages, outputs >>
     ELSE /\ messages' = IF active = {} THEN messages
                         ELSE [messages EXCEPT !["main"] = Append(@, Results)]
          /\ SetOutput("main", "")
          /\ Goto("main", "edge") /\ UNCHANGED error
  /\ UNCHANGED << node, thinking, backendURL, loop, group, gone, written >>

----------------------------------------------------------------------------
(* runRespond: the request is proxied; a branch writes to a writer that     *)
(* drops it.                                                                *)

Write(t) == written' = IF t = "main" THEN Append(written, t) ELSE written

Respond(t) ==
  /\ At(t, "respond")
  /\ Write(t)
  /\ \/ backendURL[t] /\ ~Cancelled(t) /\ Goto(t, "done") /\ UNCHANGED error
     \/ Fail(t, IF Cancelled(t) THEN "cancelled" ELSE "backend")
  /\ UNCHANGED << node, pipeline, loop, group, gone >>

----------------------------------------------------------------------------
Step(t) ==
  \/ EnterUnknown(t) \/ EnterNode(t) \/ EnterChain(t)
  \/ CallFails(t) \/ Route(t) \/ ToolTurn(t) \/ RunTools(t) \/ FinalTurn(t)
  \/ FollowEdge(t) \/ NoEdge(t) \/ Respond(t)

Next ==
  \/ \E t \in Threads : Step(t) \/ JoinGroup(t)
  \/ EnterScatter \/ GatherAll \/ CancelRequest

Spec == Init /\ [][Next]_vars

\* Goroutines are scheduled, the model answers or fails, tools return.
FairSpec ==
  /\ Spec
  /\ \A t \in Threads : WF_vars(Step(t)) /\ WF_vars(JoinGroup(t))
  /\ WF_vars(EnterScatter) /\ WF_vars(GatherAll)
----------------------------------------------------------------------------
(* What a run must satisfy                                                  *)

Returned(t) == At(t, "done") \/ At(t, "failed") \/ At(t, "joined")

\* A tool message answers a call made in a message before it, and the calls of
\* a message are answered, in order, right behind it.
Answers(tool, said) ==
  /\ said.role = "assistant"
  /\ << said.by, said.node, said.turn >> = << tool.by, tool.node, tool.turn >>
  /\ tool.answers \in 1..said.calls

WellFormed(msgs) ==
  \A i \in DOMAIN msgs :
    /\ msgs[i].role = "tool" => \E j \in 1..(i - 1) : Answers(msgs[i], msgs[j])
    /\ \A k \in 1..msgs[i].calls :
         i + k <= Len(msgs) /\ msgs[i + k].role = "tool" /\ msgs[i + k].answers = k

\* The windows of chain nodes are wide enough for a turn of MaxTurns tool turns
\* (a window of 0 is none).
WindowsSpanTurns ==
  \A g \in {MainGraph, SubGraph} : \A n \in DOMAIN g.nodes :
    g.nodes[n].kind = "chain" =>
      g.nodes[n].window = 0 \/ g.nodes[n].window >= MaxTurns * (MaxCalls + 1)

\* Whatever tools do, the model is only ever sent conversations in which every
\* tool call has its answer and every answer its call (runChain, applyWindow),
\* as long as windows span turns.
InputWellFormed == \A t \in Threads : Calling(t) => WellFormed(Input(t))

\* All agents drop reasoning when their answer is committed.
AllStrip ==
  \A g \in {MainGraph, SubGraph} : \A n \in DOMAIN g.nodes :
    g.nodes[n].kind = "chain" => g.nodes[n].strip

\* The model sees its own reasoning of the turn under way and none of an
\* earlier turn, its own or that of a branch or a parent (DESIGN.md, rules 1
\* and 2, if all agents strip and windows, which count the messages of the turn
\* too, span turns).
ThinkingOnlyInTurn ==
  \A t \in Threads : Calling(t) =>
    LET cut == IF At(t, "call") THEN Len(working[t]) - Len(Input(t)) ELSE 0 IN
    \A i \in DOMAIN Input(t) :
      Input(t)[i].reasoning <=>
        (i + cut > Len(messages[t]) /\ Input(t)[i].role = "assistant" /\ Thinks(t))

\* Of a turn only the answer is kept: no tool call and no tool answer ever
\* enters the history that later nodes and branches get (DESIGN.md, rule 3).
HistoryClean ==
  \A t \in Threads : \A i \in DOMAIN messages[t] :
    messages[t][i].role # "tool" /\ messages[t][i].calls = 0

\* When the Run of the request has returned, none of its branches runs on,
\* though the first error already decided its result (runScatter).
NothingLeftRunning ==
  Returned("main") => \A b \in Branches : At(b, "idle") \/ At(b, "joined")

\* The error reported for a scatter is what went wrong first, never the
\* cancellation that followed from it.
ReportedErrorIsCause ==
  (groupErr # None /\ ~gone) => error[groupErr] # "cancelled"

\* Results of branches reach the parent all together or not at all: the Run
\* goes on from a scatter only when every branch has completed without error,
\* and the merged results are then the last thing in its history.
MergedAllOrNothing ==
  (At("main", "edge") /\ Agent("main").kind = "scatter") =>
    /\ completed = active
    /\ \A b \in active : At(b, "joined") /\ error[b] = None
    /\ active # {} => messages["main"][Len(messages["main"])] = Results

\* The client is answered at most once, and only by the end of the request's
\* own Run, though branches may have respond nodes too.
AnsweredOnce ==
  Len(written) <= 1 /\ (written # << >> => written = << "main" >> /\ Returned("main"))

\* The classifying edges are those of the node "classify".
OneClassifier ==
  /\ "classify" \in Nodes
  /\ \A g \in {MainGraph, SubGraph} : \A i \in DOMAIN g.edges :
       g.edges[i].classifies <=> g.edges[i].from = "classify"

\* Where an edge classifies, what follows thinks as the classification said.
ThinkingAsClassified ==
  \A t \in Threads :
    (Calling(t) /\ Agent(t).think = "unset" /\ outputs[t]["classify"] # None)
      => (Thinks(t) <=> outputs[t]["classify"] = "REASONING")

\* What a call of the model shows of reasoning, and whether it asks for more.
ThinkingInv == ThinkingOnlyInTurn /\ ThinkingAsClassified

\* The state of the run and its branches; nothing of it is left behind, and the
\* client has one answer.
RunInv == TypeOK /\ NothingLeftRunning /\ AnsweredOnce

\* Every Run returns, branches that fail or are cancelled included, once the
\* model stops calling tools.
RunReturns == <>(Returned("main"))
=============================================================================
