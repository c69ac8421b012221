-------------------------- MODULE AgentGraphProofs --------------------------
(***************************************************************************)
(* Proofs about AgentGraph: what every run of every graph keeps, with any   *)
(* number of branches and whatever the model and its tools do.              *)
(***************************************************************************)
EXTENDS AgentGraph, SequenceTheorems, WellFoundedInduction, TLAPS

----------------------------------------------------------------------------
(* Facts about graphs and messages                                          *)

LEMMA GraphFacts ==
  ASSUME NEW t \in Threads
  PROVE  /\ \A n \in DOMAIN Graph(t).nodes : n \in Nodes /\ Graph(t).nodes[n] \in Policy
         /\ Graph(t).entry \in Nodes
         /\ DOMAIN Graph(t).edges = 1..Len(Graph(t).edges)
         /\ Len(Graph(t).edges) \in Nat
         /\ \A i \in DOMAIN Graph(t).edges :
              /\ Graph(t).edges[i].to \in Nodes
              /\ Graph(t).edges[i].classifies \in BOOLEAN
<1> DEFINE g == Graph(t)
           Edges == [from : NodesOf(g), to : NodesOf(g), on : SUBSET Outputs,
                     classifies : BOOLEAN]
<1>1. IsGraph(g) /\ NodesOf(g) \subseteq Nodes
  BY GraphAssumption DEF Graph, Nodes
<1>2. g.edges \in Seq(Edges)
  BY <1>1 DEF IsGraph
<1>3. \A i \in 1..Len(g.edges) : g.edges[i] \in Edges
  BY <1>2, ElementOfSeq
<1>4. DOMAIN g.edges = 1..Len(g.edges) /\ Len(g.edges) \in Nat
  BY <1>2, LenProperties
<1>5. g.entry \in Nodes /\ DOMAIN g.nodes \subseteq Nodes
  BY <1>1 DEF NodesOf
<1>6. \A n \in DOMAIN g.nodes : g.nodes[n] \in Policy
  BY <1>1 DEF IsGraph
<1>7. \A i \in DOMAIN g.edges : g.edges[i].to \in Nodes /\ g.edges[i].classifies \in BOOLEAN
  BY <1>1, <1>3, <1>4
<1> QED
  BY <1>4, <1>5, <1>6, <1>7

\* findEdge returns one of the edges that match.
LEMMA FirstEdgeMatches ==
  ASSUME NEW t \in Threads, Matching(t) # {}
  PROVE  \E i \in Matching(t) :
           /\ FirstEdge(t) = Graph(t).edges[i]
           /\ \A j \in Matching(t) : i <= j
<1> DEFINE R == {ss \in Nat \X Nat : ss[1] < ss[2]}
<1>1. IsWellFoundedOn(R, Nat)
  BY NatLessThanWellFounded DEF OpToRel
<1> HIDE DEF R
<1>2. Matching(t) \subseteq Nat
  BY GraphFacts DEF Matching
<1>3. PICK i \in Matching(t) : \A j \in Matching(t) : << j, i >> \notin R
  BY <1>1, <1>2, WFMin
<1>4. ASSUME NEW j \in Matching(t) PROVE i <= j
  <2>1. i \in Nat /\ j \in Nat /\ << j, i >> \notin R
    BY <1>2, <1>3
  <2>2. ~(j < i)
    BY <2>1 DEF R
  <2> QED
    BY <2>1, <2>2
<1> QED
  BY <1>4 DEF FirstEdge

LEMMA FunctionIsSeq ==
  ASSUME NEW S, NEW n \in Nat, NEW s \in [1..n -> S]
  PROVE  s \in Seq(S) /\ Len(s) = n
<1>1. s \in Seq(S)
  BY SeqDef
<1>2. Len(s) \in Nat /\ DOMAIN s = 1..Len(s) /\ DOMAIN s = 1..n
  BY <1>1, LenProperties
<1>3. Len(s) = n
  BY <1>2
<1> QED
  BY <1>1, <1>3

LEMMA OutputSet ==
  ASSUME NEW f \in [Threads -> [Nodes -> Outputs \cup {None}]],
         NEW t \in Threads, NEW n \in Nodes, NEW output \in Outputs
  PROVE  [f EXCEPT ![t][n] = output] \in [Threads -> [Nodes -> Outputs \cup {None}]]
<1>1. [f[t] EXCEPT ![n] = output] \in [Nodes -> Outputs \cup {None}]
  OBVIOUS
<1> QED
  BY <1>1

LEMMA SaidType ==
  ASSUME NEW role \in {"user", "assistant", "tool"}, NEW by \in Threads \cup {"client", "merge"},
         NEW n \in Nodes \cup {None}, NEW turn \in Nat, NEW reasoning \in BOOLEAN,
         NEW k \in Nat, NEW answers \in Nat
  PROVE  Said(role, by, n, turn, reasoning, k, answers) \in Message
BY DEF Said, Message

LEMMA FixedMessages ==
  Prompt \in Message /\ Results \in Message /\ \A b \in Branches : Task(b) \in Message
BY SaidType DEF Prompt, Results, Task, Threads

----------------------------------------------------------------------------
(* Types                                                                    *)

\* Every place at which a thread looks at its node: the node is one of its
\* graph's, of the kind the place belongs to.
NodeInv ==
  \A t \in Threads :
    pc[t] \in {"route", "call", "tools", "edge", "wait", "respond"} =>
      /\ node[t] \in DOMAIN Graph(t).nodes
      /\ At(t, "route") => Agent(t).kind = "route"
      /\ At(t, "call") \/ At(t, "tools") => Agent(t).kind = "chain"
      /\ At(t, "respond") => Agent(t).kind = "respond"
      /\ At(t, "wait") => Agent(t).kind = "scatter"
      /\ At(t, "edge") => Agent(t).kind \in {"route", "chain", "scatter"}

\* Branches run only while the main thread waits for them, and those that are
\* not of the scatter under way are idle.
PlaceInv ==
  /\ pc["main"] \notin {"idle", "joined"}
  /\ \A b \in Branches :
       /\ pc[b] # "wait"
       /\ At(b, "idle") <=> b \notin active
       /\ At("main", "wait") \/ At(b, "idle") \/ At(b, "joined")

\* The errgroup: who has completed, and what its first error says.
GroupInv ==
  /\ completed = {b \in active : At(b, "joined") /\ error[b] = None}
  /\ groupErr # None =>
       /\ At("main", "wait") \/ At("main", "failed")
       /\ At(groupErr, "joined") /\ error[groupErr] # None
       /\ gone \/ error[groupErr] # "cancelled"
  /\ \A b \in Branches :
       /\ At(b, "failed") => error[b] # None
       /\ error[b] # None => At(b, "failed") \/ (At(b, "joined") /\ groupErr # None)
       /\ error[b] = "cancelled" => gone \/ groupErr # None

\* The client's answer is the last thing of the Run.
AnswerInv ==
  written = << >> \/ (written = << "main" >> /\ (At("main", "done") \/ At("main", "failed")))

\* The inductive invariant of the control: RunInv and the claims about errors
\* and results follow from it.
ControlInv == TypeOK /\ NodeInv /\ PlaceInv /\ GroupInv /\ AnswerInv /\ MergedAllOrNothing

LEMMA InitControl == Init => ControlInv
<1> SUFFICES ASSUME Init PROVE ControlInv
  OBVIOUS
<1>1. << Prompt >> \in Seq(Message) /\ << >> \in Seq(Message) /\ << >> \in Seq(Threads)
  BY FixedMessages, EmptySeq
<1>2. messages \in [Threads -> Seq(Message)] /\ working \in [Threads -> Seq(Message)]
  BY <1>1 DEF Init
<1>3. node \in [Threads -> Nodes \cup {None}]
  BY GraphFacts DEF Init, Graph, Threads
<1>4. TypeOK
  BY <1>1, <1>2, <1>3 DEF Init, TypeOK, Places
<1>5. NodeInv
  BY DEF Init, NodeInv
<1>6. PlaceInv
  BY GraphAssumption DEF Init, PlaceInv, At, Threads
<1>6a. GroupInv
  <2>1. \A b \in Branches : error[b] = None /\ pc[b] = "idle"
    BY GraphAssumption DEF Init, Threads
  <2>2. None \notin Errors
    BY GraphAssumption
  <2> QED
    BY <2>1, <2>2 DEF Init, GroupInv, At, Errors
<1>7. AnswerInv /\ MergedAllOrNothing
  BY DEF Init, AnswerInv, MergedAllOrNothing, At, Threads
<1> QED
  BY <1>4, <1>5, <1>6, <1>6a, <1>7 DEF ControlInv

\* One step of one thread.
LEMMA StepTypes ==
  ASSUME TypeOK, NodeInv, NEW t \in Threads, Step(t)
  PROVE  TypeOK'
<1> USE DEF TypeOK, At, Goto, pipeline, loop, group
<1>1. CASE EnterUnknown(t)
  BY <1>1 DEF EnterUnknown, Fail, Places, Errors
<1>2. CASE EnterNode(t)
  BY <1>2 DEF EnterNode, Places
<1>3. CASE EnterChain(t)
  BY <1>3 DEF EnterChain, Places
<1>4. CASE CallFails(t)
  BY <1>4 DEF CallFails, Fail, Places, Errors
<1>5. CASE Route(t)
  <2>1. node[t] \in Nodes
    BY <1>5, GraphFacts DEF Route, NodeInv
  <2>2. PICK c \in Contents : SetOutput(t, Upper[c])
    BY <1>5 DEF Route
  <2>3. Upper[c] \in Outputs
    BY DEF Outputs
  <2>4. outputs' \in [Threads -> [Nodes -> Outputs \cup {None}]]
    BY <2>1, <2>2, <2>3 DEF SetOutput
  <2> QED
    BY <1>5, <2>4 DEF Route, Places
<1>6. CASE ToolTurn(t)
  <2>1. node[t] \in Nodes
    BY <1>6, GraphFacts DEF ToolTurn, NodeInv
  <2>2. PICK n \in 1..MaxCalls :
          /\ working' = [working EXCEPT ![t] = Append(@, Speaks(t, n, Thinks(t)))]
          /\ calls' = [calls EXCEPT ![t] = n]
    BY <1>6 DEF ToolTurn
  <2>3. n \in Nat
    BY BoundsAssumption
  <2>4. Thinks(t) \in BOOLEAN
    BY DEF Thinks
  <2>5. Speaks(t, n, Thinks(t)) \in Message
    BY <2>1, <2>3, <2>4, SaidType DEF Speaks
  <2>6. Append(working[t], Speaks(t, n, Thinks(t))) \in Seq(Message)
    BY <2>5, AppendProperties
  <2>7. working' \in [Threads -> Seq(Message)] /\ calls' \in [Threads -> Nat]
    BY <2>2, <2>3, <2>6
  <2> QED
    BY <1>6, <2>7 DEF ToolTurn, Places
<1>7. CASE RunTools(t)
  <2>1. node[t] \in Nodes
    BY <1>7, GraphFacts DEF RunTools, NodeInv
  <2>2. ASSUME NEW k \in 1..calls[t]
        PROVE  Said("tool", t, node[t], iteration[t], FALSE, 0, k) \in Message
    <3>1. k \in Nat /\ iteration[t] \in Nat /\ 0 \in Nat
      OBVIOUS
    <3> QED
      BY <2>1, <3>1, SaidType
  <2>3. AnswersOf(t) \in [1..calls[t] -> Message]
    BY <2>2 DEF AnswersOf
  <2>3a. AnswersOf(t) \in Seq(Message)
    BY <2>3, FunctionIsSeq
  <2>4. working[t] \o AnswersOf(t) \in Seq(Message)
    BY <2>3a, ConcatProperties
  <2>5. /\ working' \in [Threads -> Seq(Message)] /\ calls' \in [Threads -> Nat]
        /\ iteration' \in [Threads -> Nat]
    BY <1>7, <2>4 DEF RunTools
  <2> QED
    BY <1>7, <2>5 DEF RunTools, Places
<1>8. CASE FinalTurn(t)
  <2>1. node[t] \in Nodes
    BY <1>8, GraphFacts DEF FinalTurn, NodeInv
  <2> DEFINE answer == Speaks(t, 0, StripOnCommit(t, Thinks(t)))
  <2>2. StripOnCommit(t, Thinks(t)) \in BOOLEAN
    BY DEF StripOnCommit, Thinks
  <2>3. answer \in Message
    BY <2>1, <2>2, SaidType DEF Speaks
  <2> HIDE DEF answer
  <2>4. messages' \in [Threads -> Seq(Message)]
    <3>1. Append(messages[t], answer) \in Seq(Message)
      BY <2>3, AppendProperties
    <3>2. messages' = [messages EXCEPT ![t] = Append(messages[t], answer)]
      BY <1>8 DEF FinalTurn, Commit, answer
    <3> QED
      BY <3>1, <3>2
  <2>5. outputs' \in [Threads -> [Nodes -> Outputs \cup {None}]]
    <3>1. PICK c \in Contents : SetOutput(t, c)
      BY <1>8 DEF FinalTurn
    <3> QED
      BY <2>1, <3>1 DEF SetOutput, Outputs
  <2> QED
    BY <1>8, <2>4, <2>5 DEF FinalTurn, Places
<1>9. CASE FollowEdge(t)
  <2>1. PICK i \in Matching(t) : FirstEdge(t) = Graph(t).edges[i]
    BY <1>9, FirstEdgeMatches DEF FollowEdge
  <2>2. FirstEdge(t).to \in Nodes
    BY <2>1, GraphFacts DEF Matching
  <2>3. ModeFor(OutputOf(t)) \in {"unset", "on", "off"}
    BY DEF ModeFor
  <2>4. thinking' \in [Threads -> {"unset", "on", "off"}]
    BY <1>9, <2>3 DEF FollowEdge
  <2> QED
    BY <1>9, <2>2, <2>4 DEF FollowEdge, Places
<1>10. CASE NoEdge(t)
  BY <1>10 DEF NoEdge, Fail, Places, Errors
<1>11. CASE Respond(t)
  <2>1. written' \in Seq(Threads)
    BY <1>11, AppendProperties DEF Respond, Write
  <2>2. pc' \in [Threads -> Places] /\ error' \in [Threads -> Errors \cup {None}]
    BY <1>11 DEF Respond, Fail, Places, Errors
  <2> QED
    BY <1>11, <2>1, <2>2 DEF Respond
<1> QED
  BY <1>1, <1>2, <1>3, <1>4, <1>5, <1>6, <1>7, <1>8, <1>9, <1>10, <1>11 DEF Step

\* A step of the errgroup, and the client that goes away.
LEMMA GroupTypes ==
  ASSUME TypeOK, NodeInv, PlaceInv,
         \/ \E t \in Threads : JoinGroup(t)
         \/ EnterScatter \/ GatherAll \/ CancelRequest
  PROVE  TypeOK'
<1> USE DEF TypeOK, At, Goto, pipeline, loop, group
<1>1. ASSUME NEW t \in Threads, JoinGroup(t) PROVE TypeOK'
  <2>1. completed' \subseteq active'
    BY <1>1 DEF JoinGroup, PlaceInv
  <2>2. groupErr' \in Branches \cup {None}
    BY <1>1 DEF JoinGroup, KeepFirst
  <2> QED
    BY <1>1, <2>1, <2>2 DEF JoinGroup, Places
<1>2. CASE EnterScatter
  <2>1. PICK branches \in SUBSET Branches, setsURL \in BOOLEAN : Fork(branches, setsURL)
    BY <1>2 DEF EnterScatter
  <2>2. "main" \in Threads /\ Branches \subseteq Threads /\ \A t \in branches : t # "main"
    BY GraphAssumption DEF Threads
  <2>3. SubGraph.entry \in Nodes
    BY GraphFacts, GraphAssumption DEF Graph, Nodes, NodesOf
  <2>4. \A b \in branches : Append(messages["main"], Task(b)) \in Seq(Message)
    BY <2>2, FixedMessages, AppendProperties
  <2>5. messages' \in [Threads -> Seq(Message)]
    BY <2>1, <2>4 DEF Fork
  <2>6. /\ pc' \in [Threads -> Places] /\ node' \in [Threads -> Nodes \cup {None}]
        /\ outputs' \in [Threads -> [Nodes -> Outputs \cup {None}]]
        /\ thinking' \in [Threads -> {"unset", "on", "off"}]
        /\ backendURL' \in [Threads -> BOOLEAN]
    BY <2>1, <2>2, <2>3 DEF Fork, Places
  <2> QED
    BY <1>2, <2>1, <2>5, <2>6 DEF EnterScatter, Fork
<1>3. CASE GatherAll
  <2>1. "main" \in Threads /\ node["main"] \in Nodes
    BY <1>3, GraphFacts DEF GatherAll, NodeInv, Threads
  <2>2. Append(messages["main"], Results) \in Seq(Message)
    BY <2>1, FixedMessages, AppendProperties
  <2>3. messages' \in [Threads -> Seq(Message)]
    <3>1. \/ messages' = messages
          \/ messages' = [messages EXCEPT !["main"] = Append(@, Results)]
      BY <1>3 DEF GatherAll
    <3> QED
      BY <2>2, <3>1
  <2>4. outputs' \in [Threads -> [Nodes -> Outputs \cup {None}]]
    <3>1. \/ outputs' = outputs
          \/ outputs' = [outputs EXCEPT !["main"][node["main"]] = ""]
      BY <1>3 DEF GatherAll, SetOutput
    <3>2. "" \in Outputs
      BY DEF Outputs
    <3>3. outputs \in [Threads -> [Nodes -> Outputs \cup {None}]]
      OBVIOUS
    <3>4. [outputs EXCEPT !["main"][node["main"]] = ""]
             \in [Threads -> [Nodes -> Outputs \cup {None}]]
      BY ONLY <2>1, <3>2, <3>3, OutputSet
    <3> QED
      BY ONLY <3>1, <3>3, <3>4
  <2>5. pc' \in [Threads -> Places] /\ error' \in [Threads -> Errors \cup {None}]
    BY <1>3, <2>1 DEF GatherAll, Fail, Places, Errors
  <2> QED
    BY <1>3, <2>3, <2>4, <2>5 DEF GatherAll
<1>4. CASE CancelRequest
  BY <1>4 DEF CancelRequest
<1> QED
  BY <1>1, <1>2, <1>3, <1>4

----------------------------------------------------------------------------
(* Control                                                                  *)

Running == {"enter", "route", "call", "tools", "edge", "respond"}

\* What a step of a Run may change: its own state, never the errgroup's; it
\* goes on, ends, or fails with a reason, which is the cancellation only if
\* there was one.
LEMMA StepShape ==
  ASSUME TypeOK, NEW t \in Threads, Step(t)
  PROVE  /\ UNCHANGED << active, groupErr, completed, gone >>
         /\ pc[t] \in Running
         /\ \A u \in Threads \ {t} :
              /\ pc'[u] = pc[u] /\ error'[u] = error[u] /\ node'[u] = node[u]
              /\ messages'[u] = messages[u] /\ outputs'[u] = outputs[u]
              /\ thinking'[u] = thinking[u] /\ working'[u] = working[u]
              /\ iteration'[u] = iteration[u] /\ calls'[u] = calls[u]
         /\ \/ pc'[t] \in Running \cup {"done"} /\ error'[t] = error[t]
            \/ /\ pc'[t] = "failed" /\ error'[t] \in Errors
               /\ error'[t] = "cancelled" => Cancelled(t)
<1> USE DEF TypeOK, At, Goto, pipeline, loop, group, Running
<1>1. CASE EnterUnknown(t)
  BY <1>1 DEF EnterUnknown, Fail, Errors
<1>2. CASE EnterNode(t)
  BY <1>2 DEF EnterNode
<1>3. CASE EnterChain(t)
  BY <1>3 DEF EnterChain
<1>4. CASE CallFails(t)
  BY <1>4 DEF CallFails, Calling, Fail, Errors
<1>5. CASE Route(t)
  BY <1>5 DEF Route, SetOutput
<1>6. CASE ToolTurn(t)
  BY <1>6 DEF ToolTurn
<1>7. CASE RunTools(t)
  BY <1>7 DEF RunTools
<1>8. CASE FinalTurn(t)
  BY <1>8 DEF FinalTurn, Commit, SetOutput
<1>9. CASE FollowEdge(t)
  BY <1>9 DEF FollowEdge
<1>10. CASE NoEdge(t)
  BY <1>10 DEF NoEdge, Fail, Errors
<1>11. CASE Respond(t)
  BY <1>11 DEF Respond, Fail, Errors
<1> QED
  BY <1>1, <1>2, <1>3, <1>4, <1>5, <1>6, <1>7, <1>8, <1>9, <1>10, <1>11 DEF Step

LEMMA StepNode ==
  ASSUME TypeOK, NodeInv, NEW t \in Threads, Step(t)
  PROVE  NodeInv'
<1> USE DEF TypeOK, At, Goto, pipeline, loop, group, Agent
<1>1. CASE EnterUnknown(t)
  BY <1>1 DEF EnterUnknown, Fail, NodeInv
<1>2. CASE EnterNode(t)
  BY <1>2 DEF EnterNode, NodeInv
<1>3. CASE EnterChain(t)
  BY <1>3 DEF EnterChain, NodeInv
<1>4. CASE CallFails(t)
  BY <1>4 DEF CallFails, Calling, Fail, NodeInv
<1>5. CASE Route(t)
  BY <1>5 DEF Route, NodeInv
<1>6. CASE ToolTurn(t)
  BY <1>6 DEF ToolTurn, NodeInv
<1>7. CASE RunTools(t)
  BY <1>7 DEF RunTools, NodeInv
<1>8. CASE FinalTurn(t)
  BY <1>8 DEF FinalTurn, NodeInv
<1>9. CASE FollowEdge(t)
  BY <1>9 DEF FollowEdge, NodeInv
<1>10. CASE NoEdge(t)
  <2>1. /\ node' = node
        /\ pc' = [pc EXCEPT ![t] = "failed"] \/ pc' = [pc EXCEPT ![t] = "done"]
    BY <1>10 DEF NoEdge, Fail
  <2> QED
    BY <2>1 DEF NodeInv
<1>11. CASE Respond(t)
  BY <1>11 DEF Respond, Fail, NodeInv
<1> QED
  BY <1>1, <1>2, <1>3, <1>4, <1>5, <1>6, <1>7, <1>8, <1>9, <1>10, <1>11 DEF Step

LEMMA StepControl ==
  ASSUME ControlInv, NEW t \in Threads, Step(t)
  PROVE  ControlInv'
<1> USE DEF ControlInv, At
<1>1. TypeOK' /\ NodeInv'
  BY StepTypes, StepNode
<1>2. "main" \in Threads /\ Branches \subseteq Threads /\ "main" \notin Branches
  BY GraphAssumption DEF Threads
<1>3. None \notin Errors /\ None \notin Branches
  BY GraphAssumption DEF Threads
<1> DEFINE Shape == 
        /\ UNCHANGED << active, groupErr, completed, gone >>
        /\ pc[t] \in Running
        /\ \A u \in Threads \ {t} : pc'[u] = pc[u] /\ error'[u] = error[u]
        /\ \/ pc'[t] \in Running \cup {"done"} /\ error'[t] = error[t]
           \/ /\ pc'[t] = "failed" /\ error'[t] \in Errors
              /\ error'[t] = "cancelled" => Cancelled(t)
<1>4. Shape
  BY StepShape
<1>5. PlaceInv'
  BY <1>2, <1>4 DEF PlaceInv, Running
<1>6. GroupInv'
  <2>1. completed' = {b \in active' : pc'[b] = "joined" /\ error'[b] = None}
    <3>1. completed = {b \in active : pc[b] = "joined" /\ error[b] = None}
      BY DEF GroupInv
    <3>2. active \subseteq Threads /\ active' = active /\ completed' = completed
      BY <1>2, <1>4 DEF TypeOK
    <3>3. ASSUME NEW u \in Threads, u # t
          PROVE  pc'[u] = pc[u] /\ error'[u] = error[u]
      BY <1>4, <3>3
    <3>4. pc[t] # "joined" /\ pc'[t] # "joined"
      BY <1>4 DEF Running
    <3> QED
      BY ONLY <3>1, <3>2, <3>3, <3>4
  <2>2. groupErr' # None =>
       /\ pc'["main"] \in {"wait", "failed"}
       /\ pc'[groupErr'] = "joined" /\ error'[groupErr'] # None
       /\ gone' \/ error'[groupErr'] # "cancelled"
    BY <1>2, <1>3, <1>4 DEF GroupInv, Running, TypeOK
  <2>3. ASSUME NEW b \in Branches
        PROVE  /\ pc'[b] = "failed" => error'[b] # None
               /\ error'[b] # None => \/ pc'[b] = "failed"
                                      \/ pc'[b] = "joined" /\ groupErr' # None
               /\ error'[b] = "cancelled" => gone' \/ groupErr' # None
    <3>1. /\ pc[b] = "failed" => error[b] # None
          /\ error[b] # None => pc[b] = "failed" \/ (pc[b] = "joined" /\ groupErr # None)
          /\ error[b] = "cancelled" => gone \/ groupErr # None
      BY DEF GroupInv
    <3>2. groupErr' = groupErr /\ gone' = gone
      BY <1>4
    <3>3. CASE b # t
      <4>1. pc'[b] = pc[b] /\ error'[b] = error[b]
        BY <1>2, <1>4, <3>3
      <4> QED
        BY <3>1, <3>2, <4>1
    <3>4. CASE b = t /\ error'[t] = error[t]
      <4>1. error[t] = None
        BY <1>4, <3>1, <3>4 DEF Running
      <4>2. pc'[t] # "failed"
        BY <1>3, <1>4, <3>4, <4>1 DEF Running
      <4>3. None # "cancelled"
        BY <1>3 DEF Errors
      <4> QED
        BY <3>4, <4>1, <4>2, <4>3
    <3>5. CASE b = t /\ error'[t] # error[t]
      <4>1. /\ pc'[t] = "failed" /\ error'[t] \in Errors
            /\ error'[t] = "cancelled" => Cancelled(t)
        BY <1>4, <3>5
      <4>2. t # "main"
        BY <1>2, <3>5
      <4>3. error'[t] = "cancelled" => gone \/ groupErr # None
        BY <4>1, <4>2 DEF Cancelled
      <4> QED
        BY <1>3, <3>2, <3>5, <4>1, <4>3
    <3> QED
      BY <3>3, <3>4, <3>5
  <2> QED
    BY <2>1, <2>2, <2>3 DEF GroupInv
<1>7. AnswerInv'
  <2>1. CASE Respond(t) /\ t = "main"
    <3>1. pc["main"] = "respond" /\ written' = Append(written, "main")
      BY <2>1 DEF Respond, Write
    <3>2. written = << >>
      BY <3>1 DEF AnswerInv
    <3>3. written' = << "main" >>
      BY <3>1, <3>2
    <3>4. pc'["main"] \in {"done", "failed"}
      BY <1>2, <2>1 DEF Respond, Goto, Fail, TypeOK
    <3> QED
      BY <3>3, <3>4 DEF AnswerInv
  <2>2. CASE ~(Respond(t) /\ t = "main")
    <3>1. UNCHANGED written
      BY <2>2 DEF Step, EnterUnknown, EnterNode, EnterChain, CallFails, Route, ToolTurn,
                  RunTools, FinalTurn, FollowEdge, NoEdge, Respond, Write
    <3>2. t = "main" => written = << >>
      BY <1>4 DEF AnswerInv, Running
    <3> QED
      BY <1>2, <1>4, <3>1, <3>2 DEF AnswerInv
  <2> QED
    BY <2>1, <2>2
<1>8. MergedAllOrNothing'
  <2> SUFFICES ASSUME pc'["main"] = "edge", Agent("main")'.kind = "scatter"
               PROVE  MergedAllOrNothing'
    BY DEF MergedAllOrNothing
  <2>1. t # "main"
    <3> SUFFICES ASSUME t = "main" PROVE FALSE
      OBVIOUS
    <3>1. CASE Route(t) \/ FinalTurn(t)
      BY <3>1 DEF Route, FinalTurn, NodeInv, Agent, Graph
    <3>2. CASE ~(Route(t) \/ FinalTurn(t))
      <4>1. pc["main"] # "edge" => pc'["main"] # "edge"
        BY <3>2 DEF Step, EnterUnknown, EnterNode, EnterChain, CallFails, ToolTurn, RunTools,
                    FollowEdge, NoEdge, Respond, Goto, Fail, TypeOK
      <4>2. pc["main"] = "edge" => pc'["main"] # "edge"
        BY <3>2 DEF Step, EnterUnknown, EnterNode, EnterChain, CallFails, ToolTurn, RunTools,
                    FollowEdge, NoEdge, Respond, Goto, Fail, TypeOK, Calling
      <4> QED
        BY <4>1, <4>2
    <3> QED
      BY <3>1, <3>2
  <2>2. FALSE
    BY <1>2, <1>4, <2>1 DEF PlaceInv, Running, Threads
  <2> QED
    BY <2>2
<1> QED
  BY <1>1, <1>5, <1>6, <1>7, <1>8

LEMMA JoinControl ==
  ASSUME ControlInv, NEW b \in Threads, JoinGroup(b)
  PROVE  ControlInv'
<1> USE DEF ControlInv, At
<1>1. TypeOK'
  BY GroupTypes
<1>2. /\ b \in Branches /\ b # "main" /\ "main" \in Threads /\ Branches \subseteq Threads
      /\ "main" \notin Branches /\ None \notin Branches /\ None \notin Errors
  BY GraphAssumption DEF JoinGroup, Threads
<1>3. /\ pc' = [pc EXCEPT ![b] = "joined"]
      /\ UNCHANGED << node, messages, error, active, gone, written >>
      /\ pc[b] \in {"done", "failed"}
  BY DEF JoinGroup, Goto, pipeline
<1>4. pc["main"] = "wait" /\ pc'["main"] = "wait"
  BY <1>2, <1>3 DEF PlaceInv, TypeOK
<1>5. NodeInv'
  BY <1>3 DEF NodeInv, TypeOK, Agent
<1>6. PlaceInv'
  BY <1>2, <1>3, <1>4 DEF PlaceInv, TypeOK
<1>7. GroupInv'
  <2>1. CASE pc[b] = "done" /\ completed' = completed \cup {b} /\ UNCHANGED groupErr
    <3>1. error[b] = None /\ b \in active
      BY <1>2, <2>1 DEF GroupInv, PlaceInv
    <3>2. completed' = {a \in active' : pc'[a] = "joined" /\ error'[a] = None}
      BY <1>2, <1>3, <2>1, <3>1 DEF GroupInv, TypeOK
    <3> QED
      BY <1>2, <1>3, <1>4, <2>1, <3>1, <3>2 DEF GroupInv, TypeOK
  <2>2. CASE pc[b] = "failed" /\ KeepFirst(b) /\ UNCHANGED completed
    <3>1. error[b] # None
      BY <1>2, <2>2 DEF GroupInv
    <3>2. completed' = {a \in active' : pc'[a] = "joined" /\ error'[a] = None}
      BY <1>2, <1>3, <2>2, <3>1 DEF GroupInv, TypeOK
    <3> QED
      BY <1>2, <1>3, <1>4, <2>2, <3>1, <3>2 DEF GroupInv, TypeOK, KeepFirst
  <2> QED
    BY <2>1, <2>2 DEF JoinGroup
<1>8. AnswerInv'
  BY <1>3, <1>4 DEF AnswerInv
<1>9. MergedAllOrNothing'
  BY <1>4 DEF MergedAllOrNothing
<1> QED
  BY <1>1, <1>5, <1>6, <1>7, <1>8, <1>9

LEMMA ScatterControl ==
  ASSUME ControlInv, EnterScatter
  PROVE  ControlInv'
<1> USE DEF ControlInv, At
<1>1. TypeOK'
  BY GroupTypes
<1>2. /\ "main" \in Threads /\ Branches \subseteq Threads
      /\ "main" \notin Branches /\ None \notin Branches /\ None \notin Errors
  BY GraphAssumption DEF Threads
<1>3. PICK branches \in SUBSET Branches, setsURL \in BOOLEAN : Fork(branches, setsURL)
  BY DEF EnterScatter
<1>4. /\ active' = branches /\ groupErr' = None /\ completed' = {}
      /\ UNCHANGED << error, gone, written >>
      /\ pc["main"] = "enter" /\ pc'["main"] = "wait"
      /\ \A b \in Branches : pc'[b] = IF b \in branches THEN "enter" ELSE "idle"
      /\ node'["main"] = node["main"]
  BY <1>2, <1>3 DEF EnterScatter, Fork
<1>5. NodeInv'
  BY <1>2, <1>4 DEF EnterScatter, NodeInv, Agent, Graph, Threads
<1>6. PlaceInv'
  BY <1>4 DEF PlaceInv
<1>7. \A b \in Branches : error[b] = None
  BY <1>2, <1>4 DEF GroupInv, PlaceInv
<1>8. GroupInv'
  BY <1>2, <1>4, <1>7 DEF GroupInv, Errors
<1>9. AnswerInv'
  BY <1>4 DEF AnswerInv
<1>10. MergedAllOrNothing'
  BY <1>4 DEF MergedAllOrNothing
<1> QED
  BY <1>1, <1>5, <1>6, <1>8, <1>9, <1>10

LEMMA GatherControl ==
  ASSUME ControlInv, GatherAll
  PROVE  ControlInv'
<1> USE DEF ControlInv, At
<1>1. TypeOK'
  BY GroupTypes
<1>2. /\ "main" \in Threads /\ Branches \subseteq Threads
      /\ "main" \notin Branches /\ None \notin Branches /\ None \notin Errors
  BY GraphAssumption DEF Threads
<1>3. /\ pc["main"] = "wait"
      /\ \A b \in active : pc[b] = "joined"
      /\ UNCHANGED << node, active, groupErr, completed, gone, written >>
      /\ \A b \in Branches : pc'[b] = pc[b] /\ error'[b] = error[b]
      /\ pc'["main"] = IF groupErr # None THEN "failed" ELSE "edge"
  BY <1>2 DEF GatherAll, WaitOver, Fail, Goto, group, TypeOK
<1>4. NodeInv'
  <2>1. \A u \in Threads : u = "main" \/ pc'[u] = pc[u]
    BY <1>3 DEF Threads
  <2>2. \A u \in Threads : node'[u] = node[u] /\ Agent(u)' = Agent(u)
    BY <1>3 DEF Agent, Graph
  <2>3. node["main"] \in DOMAIN Graph("main").nodes /\ Agent("main").kind = "scatter"
    BY <1>2, <1>3 DEF NodeInv
  <2> QED
    BY <1>3, <2>1, <2>2, <2>3 DEF NodeInv
<1>5. PlaceInv'
  BY <1>3 DEF PlaceInv
<1>6. GroupInv'
  <2>1. completed' = {b \in active' : pc'[b] = "joined" /\ error'[b] = None}
    BY <1>3 DEF GroupInv, TypeOK
  <2> QED
    BY <1>2, <1>3, <2>1 DEF GroupInv, TypeOK
<1>7. AnswerInv'
  BY <1>3 DEF AnswerInv
<1>8. MergedAllOrNothing'
  <2> SUFFICES ASSUME pc'["main"] = "edge"
               PROVE  /\ completed' = active'
                      /\ \A b \in active' : pc'[b] = "joined" /\ error'[b] = None
                      /\ active' # {} => messages'["main"][Len(messages'["main"])] = Results
    BY DEF MergedAllOrNothing
  <2>1. groupErr = None
    BY <1>3
  <2>2. \A b \in active : error[b] = None
    BY <1>3, <2>1 DEF GroupInv, TypeOK
  <2>3. active # {} => messages'["main"] = Append(messages["main"], Results)
    BY <1>2, <2>1 DEF GatherAll, TypeOK
  <2>4. messages["main"] \in Seq(Message) /\ Results \in Message
    BY <1>2, FixedMessages DEF TypeOK
  <2>5. active # {} => messages'["main"][Len(messages'["main"])] = Results
    BY <2>3, <2>4, AppendProperties
  <2>6. completed = {b \in active : pc[b] = "joined" /\ error[b] = None}
    BY DEF GroupInv
  <2>7. completed' = active'
    BY <1>3, <2>2, <2>6
  <2>8. \A b \in active' : pc'[b] = "joined" /\ error'[b] = None
    BY <1>3, <2>2 DEF TypeOK
  <2>9. active' = active
    BY <1>3
  <2> QED
    BY <2>5, <2>7, <2>8, <2>9
<1> QED
  BY <1>1, <1>4, <1>5, <1>6, <1>7, <1>8

LEMMA ControlStep == ControlInv /\ [Next]_vars => ControlInv'
<1> SUFFICES ASSUME ControlInv, [Next]_vars PROVE ControlInv'
  OBVIOUS
<1>1. CASE CancelRequest
  <2>1. TypeOK'
    BY <1>1, GroupTypes DEF ControlInv
  <2>2. UNCHANGED << pc, node, messages, error, active, groupErr, completed, written >> /\ gone'
    BY <1>1 DEF CancelRequest, pipeline, group
  <2>3. NodeInv' /\ PlaceInv' /\ AnswerInv' /\ MergedAllOrNothing'
    BY <2>2 DEF ControlInv, NodeInv, PlaceInv, AnswerInv, MergedAllOrNothing, At, Agent
  <2>4. GroupInv'
    BY <2>2 DEF ControlInv, GroupInv, At
  <2> QED
    BY <2>1, <2>3, <2>4 DEF ControlInv
<1>2. CASE UNCHANGED vars
  <2>1. TypeOK'
    BY <1>2 DEF ControlInv, TypeOK, vars, pipeline, loop, group
  <2>2. NodeInv' /\ PlaceInv' /\ AnswerInv' /\ MergedAllOrNothing' /\ GroupInv'
    BY <1>2 DEF ControlInv, NodeInv, PlaceInv, AnswerInv, MergedAllOrNothing, GroupInv, At, Agent,
                vars, pipeline, loop, group
  <2> QED
    BY <2>1, <2>2 DEF ControlInv
<1> QED
  BY <1>1, <1>2, StepControl, JoinControl, ScatterControl, GatherControl DEF Next

LEMMA ControlAlways == Spec => []ControlInv
BY InitControl, ControlStep, PTL DEF Spec

\* The run of a request keeps its types; when it has returned, no branch of it
\* runs on (Graph.Run and runScatter: errgroup.Wait comes before every return);
\* and the client is answered once at most, by the Run itself (runRespond),
\* for all graphs and any number of scatters and branches.
THEOREM RunAlwaysWhole == Spec => []RunInv
<1>1. ControlInv => RunInv
  <2> SUFFICES ASSUME ControlInv PROVE RunInv
    OBVIOUS
  <2>1. NothingLeftRunning
    BY DEF ControlInv, PlaceInv, NothingLeftRunning, Returned, At
  <2>2. AnsweredOnce
    <3>1. Len(<< >>) = 0 /\ Len(<< "main" >>) = 1
      OBVIOUS
    <3> QED
      BY <3>1 DEF ControlInv, AnswerInv, AnsweredOnce, Returned
  <2> QED
    BY <2>1, <2>2 DEF RunInv, ControlInv
<1> QED
  BY <1>1, ControlAlways, PTL

\* The error that a scatter reports is its cause: never the cancellation that
\* egCtx spread to the other branches (runScatter's errgroup), unless the
\* client went away itself.
THEOREM ErrorIsCauseAlways == Spec => []ReportedErrorIsCause
<1>1. ControlInv => ReportedErrorIsCause
  BY DEF ControlInv, GroupInv, ReportedErrorIsCause
<1> QED
  BY <1>1, ControlAlways, PTL

\* A Run goes on from a scatter only with the results of all its branches,
\* merged last into its history (runScatter and Merge), however often the
\* graph scatters.
THEOREM MergedAllOrNothingAlways == Spec => []MergedAllOrNothing
<1>1. ControlInv => MergedAllOrNothing
  BY DEF ControlInv
<1> QED
  BY <1>1, ControlAlways, PTL

----------------------------------------------------------------------------
(* History                                                                  *)

LEMMA InitClean == Init => HistoryClean
<1> SUFFICES ASSUME Init, NEW t \in Threads, NEW i \in DOMAIN messages[t]
             PROVE  messages[t][i].role # "tool" /\ messages[t][i].calls = 0
  BY DEF HistoryClean
<1>1. CASE t = "main"
  <2>1. messages[t] = << Prompt >>
    BY <1>1 DEF Init
  <2>2. messages[t][i] = Prompt
    BY <2>1
  <2> QED
    BY <2>2 DEF Prompt, Said
<1>2. CASE t # "main"
  BY <1>2 DEF Init
<1> QED
  BY <1>1, <1>2

\* A history grows by answers, tasks and merged results, and a branch begins
\* with its parent's.
LEMMA HistoryStep ==
  ASSUME ControlInv, [Next]_vars, NEW t \in Threads, messages'[t] # messages[t]
  PROVE  \E m \in Message :
           /\ m.role # "tool" /\ m.calls = 0
           /\ \/ /\ FinalTurn(t)
                 /\ m = Speaks(t, 0, StripOnCommit(t, Thinks(t)))
                 /\ messages' = [messages EXCEPT ![t] = Append(@, m)]
              \/ /\ GatherAll /\ t = "main" /\ m = Results
                 /\ messages'[t] = Append(messages[t], m)
              \/ /\ EnterScatter /\ t \in Branches /\ m = Task(t)
                 /\ messages'[t] = Append(messages["main"], m)
<1> USE DEF ControlInv, TypeOK
<1>1. ASSUME NEW u \in Threads, Step(u)
      PROVE  FinalTurn(t)
  <2>1. u = t
    BY <1>1, StepShape
  <2> QED
    BY <1>1, <2>1 DEF Step, EnterUnknown, EnterNode, EnterChain, CallFails, Route, ToolTurn,
                      RunTools, FollowEdge, NoEdge, Respond, pipeline
<1>2. CASE FinalTurn(t)
  <2> DEFINE m == Speaks(t, 0, StripOnCommit(t, Thinks(t)))
  <2>1. node[t] \in Nodes
    BY <1>2, GraphFacts DEF FinalTurn, NodeInv, At
  <2>2. StripOnCommit(t, Thinks(t)) \in BOOLEAN
    BY DEF StripOnCommit, Thinks
  <2>3. m \in Message
    BY <2>1, <2>2, SaidType DEF Speaks
  <2>4. m.role # "tool" /\ m.calls = 0
    BY DEF Speaks, Said
  <2>5. messages' = [messages EXCEPT ![t] = Append(@, m)]
    BY <1>2 DEF FinalTurn, Commit
  <2> QED
    BY <1>2, <2>3, <2>4, <2>5
<1>3. CASE GatherAll
  <2>1. t = "main" /\ messages'[t] = Append(messages[t], Results)
    <3>1. \/ messages' = messages
          \/ messages' = [messages EXCEPT !["main"] = Append(@, Results)]
      BY <1>3 DEF GatherAll
    <3>2. messages \in [Threads -> Seq(Message)] /\ messages'[t] # messages[t]
      OBVIOUS
    <3> QED
      BY ONLY <3>1, <3>2
  <2> QED
    BY <1>3, <2>1, FixedMessages DEF Results, Said
<1>4. CASE EnterScatter
  <2>1. t \in Branches /\ messages'[t] = Append(messages["main"], Task(t))
    BY <1>4 DEF EnterScatter, Fork
  <2> QED
    BY <1>4, <2>1, FixedMessages DEF Task, Said
<1>5. ~CancelRequest /\ ~(\E u \in Threads : JoinGroup(u)) /\ ~UNCHANGED vars
  BY DEF CancelRequest, JoinGroup, vars, pipeline
<1> QED
  BY <1>1, <1>2, <1>3, <1>4, <1>5 DEF Next

LEMMA CleanStep == ControlInv /\ HistoryClean /\ [Next]_vars => HistoryClean'
<1> SUFFICES ASSUME ControlInv, HistoryClean, [Next]_vars,
                    NEW t \in Threads, NEW i \in DOMAIN messages'[t]
             PROVE  messages'[t][i].role # "tool" /\ messages'[t][i].calls = 0
  BY DEF HistoryClean
<1>1. CASE messages'[t] = messages[t]
  BY <1>1 DEF HistoryClean
<1>2. CASE messages'[t] # messages[t]
  <2>1. PICK m \in Message, u \in Threads :
          /\ m.role # "tool" /\ m.calls = 0
          /\ messages'[t] = Append(messages[u], m)
    BY <1>2, HistoryStep DEF ControlInv, TypeOK, Threads
  <2>2. messages[u] \in Seq(Message)
    BY DEF ControlInv, TypeOK
  <2>3. /\ Len(messages[u]) \in Nat /\ DOMAIN messages[u] = 1..Len(messages[u])
        /\ DOMAIN messages'[t] = 1..(Len(messages[u]) + 1)
        /\ messages'[t][Len(messages[u]) + 1] = m
        /\ \A j \in 1..Len(messages[u]) : messages'[t][j] = messages[u][j]
    BY <2>1, <2>2, AppendProperties, LenProperties
  <2>4. CASE i = Len(messages[u]) + 1
    BY <2>1, <2>3, <2>4
  <2>5. CASE i # Len(messages[u]) + 1
    <3>1. i \in DOMAIN messages[u] /\ messages'[t][i] = messages[u][i]
      BY <2>3, <2>5
    <3> QED
      BY <3>1 DEF HistoryClean
  <2> QED
    BY <2>4, <2>5
<1> QED
  BY <1>1, <1>2

LEMMA CleanAlways == Spec => [](ControlInv /\ HistoryClean)
<1>1. ControlInv /\ HistoryClean /\ [Next]_vars => (ControlInv /\ HistoryClean)'
  BY ControlStep, CleanStep
<1> QED
  BY <1>1, InitControl, InitClean, PTL DEF Spec

\* Of a turn only the answer is kept (runChain, DESIGN.md rule 3): for all
\* graphs, and whatever tools a model calls, no call and no tool's answer
\* enters the history of the Run or of a branch.
THEOREM HistoryCleanAlways == Spec => []HistoryClean
BY CleanAlways, PTL

----------------------------------------------------------------------------
(* Turns                                                                    *)

\* WellFormed, of the first n messages.
WellFormedUpTo(msgs, n) ==
  \A i \in 1..n :
    /\ msgs[i].role = "tool" => \E j \in 1..(i - 1) : Answers(msgs[i], msgs[j])
    /\ \A k \in 1..msgs[i].calls :
         i + k <= n /\ msgs[i + k].role = "tool" /\ msgs[i + k].answers = k

LEMMA WellFormedWhole ==
  ASSUME NEW w \in Seq(Message)
  PROVE  WellFormed(w) <=> WellFormedUpTo(w, Len(w))
BY LenProperties DEF WellFormed, WellFormedUpTo

\* Messages put behind the first n change nothing for those.
LEMMA WellFormedGrows ==
  ASSUME NEW w, NEW v, NEW n \in Nat, WellFormedUpTo(w, n),
         \A i \in 1..n : v[i] = w[i] /\ w[i].calls \in Nat
  PROVE  WellFormedUpTo(v, n)
<1> SUFFICES ASSUME NEW i \in 1..n
             PROVE  /\ v[i].role = "tool" => \E j \in 1..(i - 1) : Answers(v[i], v[j])
                    /\ \A k \in 1..v[i].calls :
                         i + k <= n /\ v[i + k].role = "tool" /\ v[i + k].answers = k
  BY DEF WellFormedUpTo
<1>1. ASSUME v[i].role = "tool" PROVE \E j \in 1..(i - 1) : Answers(v[i], v[j])
  <2>1. PICK j \in 1..(i - 1) : Answers(w[i], w[j])
    BY <1>1 DEF WellFormedUpTo
  <2>2. j \in 1..n /\ v[j] = w[j] /\ v[i] = w[i]
    OBVIOUS
  <2> QED
    BY <2>1, <2>2
<1>2. ASSUME NEW k \in 1..v[i].calls
      PROVE  i + k <= n /\ v[i + k].role = "tool" /\ v[i + k].answers = k
  <2>1. k \in 1..w[i].calls /\ k \in Nat \ {0}
    OBVIOUS
  <2>2. i + k <= n /\ w[i + k].role = "tool" /\ w[i + k].answers = k
    BY <2>1 DEF WellFormedUpTo
  <2>3. i + k \in 1..n
    BY <2>1, <2>2
  <2> QED
    BY <2>2, <2>3
<1> QED
  BY <1>1, <1>2

\* A message with calls, and behind it their answers in order.
LEMMA TurnWellFormed ==
  ASSUME NEW w, NEW n \in Nat, NEW c \in Nat, WellFormedUpTo(w, n),
         w[n + 1].role = "assistant", w[n + 1].calls = c,
         \A k \in 1..c :
           /\ w[n + 1 + k].role = "tool" /\ w[n + 1 + k].answers = k
           /\ w[n + 1 + k].calls = 0
           /\ << w[n + 1].by, w[n + 1].node, w[n + 1].turn >>
                = << w[n + 1 + k].by, w[n + 1 + k].node, w[n + 1 + k].turn >>
  PROVE  WellFormedUpTo(w, n + 1 + c)
<1> SUFFICES ASSUME NEW i \in 1..(n + 1 + c)
             PROVE  /\ w[i].role = "tool" => \E j \in 1..(i - 1) : Answers(w[i], w[j])
                    /\ \A k \in 1..w[i].calls :
                         i + k <= n + 1 + c /\ w[i + k].role = "tool" /\ w[i + k].answers = k
  BY DEF WellFormedUpTo
<1>1. CASE i <= n
  BY <1>1 DEF WellFormedUpTo
<1>2. CASE i = n + 1
  BY <1>2
<1>3. CASE i > n + 1
  <2>1. PICK k \in 1..c : i = n + 1 + k
    <3>1. i - (n + 1) \in 1..c /\ i = n + 1 + (i - (n + 1))
      BY <1>3
    <3> QED
      BY <3>1
  <2>2. Answers(w[i], w[n + 1])
    BY <2>1 DEF Answers
  <2>3. n + 1 \in 1..(i - 1)
    BY <1>3
  <2>4. w[i].calls = 0
    BY <2>1
  <2> QED
    BY <2>2, <2>3, <2>4
<1> QED
  BY <1>1, <1>2, <1>3

\* The messages behind the first ones.
LEMMA SuffixProperties ==
  ASSUME NEW w \in Seq(Message), NEW cut \in 0..Len(w)
  PROVE  /\ SubSeq(w, cut + 1, Len(w)) \in Seq(Message)
         /\ Len(SubSeq(w, cut + 1, Len(w))) = Len(w) - cut
         /\ \A i \in 1..(Len(w) - cut) : SubSeq(w, cut + 1, Len(w))[i] = w[i + cut]
<1> DEFINE v == SubSeq(w, cut + 1, Len(w))
<1>1. Len(w) \in Nat /\ DOMAIN w = 1..Len(w) /\ \A i \in 1..Len(w) : w[i] \in Message
  BY LenProperties
<1>2. /\ v \in Seq(Message) /\ Len(v) = Len(w) - cut
      /\ \A i \in 1..(Len(w) - cut) : v[i] = w[i + cut]
  <2>1. \A i \in (cut + 1)..Len(w) : w[i] \in Message
    BY <1>1
  <2>2. /\ v \in Seq(Message)
        /\ Len(v) = IF cut + 1 <= Len(w) THEN Len(w) - (cut + 1) + 1 ELSE 0
        /\ \A i \in 1..(Len(w) - (cut + 1) + 1) : v[i] = w[cut + 1 + i - 1]
    BY <1>1, <2>1, SubSeqProperties
  <2> HIDE DEF v
  <2>3. Len(v) = Len(w) - cut
    <3>1. CASE cut + 1 <= Len(w)
      BY <1>1, <2>2, <3>1
    <3>2. CASE ~(cut + 1 <= Len(w))
      <4>1. cut = Len(w) /\ Len(w) - cut = 0
        <5>1. Len(w) \in Nat /\ cut \in Int /\ cut <= Len(w)
          BY <1>1
        <5>2. ~(cut + 1 <= Len(w))
          BY <3>2
        <5> QED
          BY ONLY <5>1, <5>2
      <4>2. Len(v) = 0
        BY <2>2, <3>2
      <4> QED
        BY <4>1, <4>2
    <3> QED
      BY <3>1, <3>2
  <2>4. ASSUME NEW i \in 1..(Len(w) - cut) PROVE v[i] = w[i + cut]
    <3>1. i \in 1..(Len(w) - (cut + 1) + 1) /\ cut + 1 + i - 1 = i + cut
      BY <1>1
    <3>2. v[i] = w[cut + 1 + i - 1]
      BY <2>2, <3>1
    <3> QED
      BY <3>1, <3>2
  <2> QED
    BY <2>2, <2>3, <2>4
<1> QED
  BY <1>2

\* A window cuts nothing apart if what it leaves out makes no calls.
LEMMA WindowWellFormed ==
  ASSUME NEW w \in Seq(Message), WellFormed(w), NEW cut \in 0..Len(w),
         \A i \in 1..cut : w[i].calls = 0
  PROVE  WellFormed(SubSeq(w, cut + 1, Len(w)))
<1> DEFINE v == SubSeq(w, cut + 1, Len(w))
<1>1. Len(w) \in Nat /\ DOMAIN w = 1..Len(w) /\ \A i \in 1..Len(w) : w[i] \in Message
  BY LenProperties
<1>2. /\ v \in Seq(Message) /\ Len(v) = Len(w) - cut
      /\ \A i \in 1..(Len(w) - cut) : v[i] = w[i + cut]
  BY SuffixProperties
<1>2a. DOMAIN v = 1..(Len(w) - cut)
  BY <1>2, LenProperties
<1> SUFFICES WellFormed(v)
  OBVIOUS
<1> HIDE DEF v
<1> SUFFICES ASSUME NEW i \in 1..(Len(w) - cut)
             PROVE  /\ v[i].role = "tool" => \E j \in 1..(i - 1) : Answers(v[i], v[j])
                    /\ \A k \in 1..v[i].calls :
                         i + k <= Len(v) /\ v[i + k].role = "tool" /\ v[i + k].answers = k
  BY <1>2a DEF WellFormed
<1>3. i + cut \in 1..Len(w) /\ v[i] = w[i + cut] /\ w[i + cut] \in Message
  <2>1. i \in Nat /\ cut \in Nat /\ i >= 1 /\ i <= Len(w) - cut
    BY <1>1
  <2>2. i + cut \in 1..Len(w)
    BY <1>1, <2>1
  <2> QED
    BY <1>1, <1>2, <2>2
<1>4. ASSUME v[i].role = "tool" PROVE \E j \in 1..(i - 1) : Answers(v[i], v[j])
  <2>1. PICK m \in 1..(i + cut - 1) : Answers(w[i + cut], w[m])
    BY <1>1, <1>3, <1>4 DEF WellFormed
  <2>2. w[m].calls # 0
    BY <2>1 DEF Answers
  <2>3. m > cut
    BY <1>1, <2>2
  <2>4. m - cut \in 1..(i - 1) /\ v[m - cut] = w[m]
    BY <1>1, <1>2, <2>3
  <2> QED
    BY <1>3, <2>1, <2>4
<1>5. ASSUME NEW k \in 1..v[i].calls
      PROVE  i + k <= Len(v) /\ v[i + k].role = "tool" /\ v[i + k].answers = k
  <2>1. k \in 1..w[i + cut].calls /\ k \in Nat \ {0}
    BY <1>3 DEF Message
  <2>2. /\ i + cut + k <= Len(w) /\ w[i + cut + k].role = "tool"
        /\ w[i + cut + k].answers = k
    BY <1>1, <1>3, <2>1 DEF WellFormed
  <2>3. i + k \in 1..(Len(w) - cut) /\ (i + k) + cut = i + cut + k
    BY <1>1, <2>1, <2>2
  <2> QED
    BY <1>1, <1>2, <2>2, <2>3
<1> QED
  BY <1>4, <1>5

\* The working messages of a turn: the history, and behind it what has been
\* said since, with reasoning where the agent thinks; in between two calls of
\* the model everything is answered, and in front of the tools all but the
\* last message is.
TurnOK(t) ==
  /\ Len(messages[t]) <= Len(working[t])
  /\ iteration[t] <= MaxTurns
  /\ \A i \in 1..Len(messages[t]) : working[t][i] = messages[t][i]
  /\ \A i \in (Len(messages[t]) + 1)..Len(working[t]) :
       working[t][i].reasoning <=> (working[t][i].role = "assistant" /\ Thinks(t))
  /\ At(t, "call") =>
       /\ WellFormedUpTo(working[t], Len(working[t]))
       /\ Len(working[t]) <= Len(messages[t]) + iteration[t] * (MaxCalls + 1)
  /\ At(t, "tools") =>
       /\ calls[t] \in 1..MaxCalls /\ iteration[t] < MaxTurns
       /\ Len(working[t]) > Len(messages[t])
       /\ WellFormedUpTo(working[t], Len(working[t]) - 1)
       /\ working[t][Len(working[t])] = Speaks(t, calls[t], Thinks(t))
       /\ Len(working[t]) - 1 <= Len(messages[t]) + iteration[t] * (MaxCalls + 1)

TurnInv == \A t \in Threads : At(t, "call") \/ At(t, "tools") => TurnOK(t)

LEMMA InitTurn == Init => TurnInv
BY DEF Init, TurnInv, At

\* Nobody but the thread itself has a hand in its turn.
LEMMA TurnFrame ==
  ASSUME ControlInv, [Next]_vars, NEW t \in Threads, pc'[t] \in {"call", "tools"}
  PROVE  \/ EnterChain(t) \/ ToolTurn(t) \/ RunTools(t)
         \/ /\ pc'[t] = pc[t] /\ messages'[t] = messages[t] /\ working'[t] = working[t]
            /\ iteration'[t] = iteration[t] /\ calls'[t] = calls[t]
            /\ thinking'[t] = thinking[t] /\ node'[t] = node[t]
<1> DEFINE Same == /\ pc'[t] = pc[t] /\ messages'[t] = messages[t] /\ working'[t] = working[t]
                   /\ iteration'[t] = iteration[t] /\ calls'[t] = calls[t]
                   /\ thinking'[t] = thinking[t] /\ node'[t] = node[t]
<1>1. CASE Step(t)
  <2>1. EnterChain(t) \/ ToolTurn(t) \/ RunTools(t)
    BY <1>1 DEF Step, EnterUnknown, EnterNode, CallFails, Route, FinalTurn, FollowEdge, NoEdge,
                Respond, Goto, Fail, At, Agent, ControlInv, TypeOK
  <2> QED
    BY <2>1
<1>2. ASSUME NEW u \in Threads, u # t, Step(u) PROVE Same
  BY <1>2, StepShape DEF ControlInv
<1>3. ASSUME NEW u \in Threads, JoinGroup(u) PROVE Same
  BY <1>3 DEF JoinGroup, Goto, pipeline, loop, ControlInv, TypeOK
<1>4. CASE EnterScatter
  BY <1>4 DEF EnterScatter, Fork
<1>5. CASE GatherAll
  <2>1. t # "main"
    BY <1>5 DEF GatherAll, Goto, Fail, ControlInv, TypeOK
  <2> QED
    BY <1>5, <2>1 DEF GatherAll, Goto, Fail, loop, ControlInv, TypeOK
<1>6. CASE CancelRequest \/ UNCHANGED vars
  BY <1>6 DEF CancelRequest, vars, pipeline, loop
<1> QED
  BY <1>1, <1>2, <1>3, <1>4, <1>5, <1>6 DEF Next

\* One more turn fits where a turn fits.
LEMMA SpanGrows ==
  ASSUME NEW i \in Nat, NEW c \in Nat
  PROVE  /\ (i + 1) * (c + 1) = i * (c + 1) + c + 1
         /\ i * (c + 1) \in Nat
BY SMT

LEMMA SpanBound ==
  ASSUME NEW i \in Nat, NEW m \in Nat, NEW c \in Nat, i <= m
  PROVE  i * (c + 1) <= m * (c + 1)
BY SMT

LEMMA TurnEnters ==
  ASSUME ControlInv, HistoryClean, NEW t \in Threads, EnterChain(t)
  PROVE  TurnOK(t)'
<1> DEFINE m == messages[t]
<1>1. m \in Seq(Message) /\ Len(m) \in Nat /\ DOMAIN m = 1..Len(m)
  BY LenProperties DEF ControlInv, TypeOK
<1>2. /\ messages'[t] = m /\ working'[t] = m /\ iteration'[t] = 0 /\ pc'[t] = "call"
  BY DEF EnterChain, pipeline, Goto, ControlInv, TypeOK
<1>3. \A i \in 1..Len(m) : m[i].role # "tool" /\ m[i].calls = 0
  BY <1>1 DEF HistoryClean
<1>4. WellFormedUpTo(m, Len(m))
  BY <1>3 DEF WellFormedUpTo
<1>5. 0 * (MaxCalls + 1) = 0 /\ 0 <= MaxTurns
  BY BoundsAssumption
<1> HIDE DEF m
<1> QED
  BY <1>1, <1>2, <1>4, <1>5 DEF TurnOK, At

LEMMA TurnSpeaks ==
  ASSUME ControlInv, NEW t \in Threads, At(t, "call"), TurnOK(t), ToolTurn(t)
  PROVE  TurnOK(t)'
<1> DEFINE w == working[t]
           l == Len(working[t])
           n == Len(messages[t])
           s == iteration[t] * (MaxCalls + 1)
<1>1. /\ w \in Seq(Message) /\ l \in Nat /\ n \in Nat /\ iteration[t] \in Nat
      /\ \A i \in 1..l : w[i] \in Message
  BY LenProperties, ElementOfSeq DEF ControlInv, TypeOK
<1>2. PICK c \in 1..MaxCalls :
        /\ working' = [working EXCEPT ![t] = Append(@, Speaks(t, c, Thinks(t)))]
        /\ calls' = [calls EXCEPT ![t] = c]
  BY DEF ToolTurn
<1> DEFINE m == Speaks(t, c, Thinks(t))
           v == Append(w, m)
<1>3. /\ working'[t] = v /\ calls'[t] = c /\ pc'[t] = "tools"
      /\ messages'[t] = messages[t] /\ iteration'[t] = iteration[t]
      /\ thinking'[t] = thinking[t] /\ node'[t] = node[t]
  BY <1>2 DEF ToolTurn, pipeline, Goto, ControlInv, TypeOK
<1>4. Thinks(t)' = Thinks(t) /\ Thinks(t) \in BOOLEAN
  BY <1>3 DEF Thinks, Agent
<1>5. Speaks(t, c, Thinks(t))' = m
  BY <1>3, <1>4 DEF Speaks
<1>6. m \in Message
  <2>1. node[t] \in Nodes
    BY GraphFacts DEF ControlInv, NodeInv, At
  <2>2. c \in Nat
    BY BoundsAssumption
  <2> QED
    BY <1>1, <1>4, <2>1, <2>2, SaidType DEF Speaks
<1>7. m.role = "assistant" /\ (m.reasoning <=> Thinks(t))
  BY DEF Speaks, Said
<1> HIDE DEF m
<1>8. Len(v) = l + 1 /\ v[l + 1] = m /\ \A i \in 1..l : v[i] = w[i]
  BY <1>1, <1>6, AppendProperties
<1> HIDE DEF w, l, n, v, s
<1>9. /\ n <= l /\ l <= n + s /\ WellFormedUpTo(w, l) /\ iteration[t] < MaxTurns
      /\ \A i \in 1..n : w[i] = messages[t][i]
      /\ \A i \in (n + 1)..l : w[i].reasoning <=> (w[i].role = "assistant" /\ Thinks(t))
  BY DEF TurnOK, w, l, n, s, ToolTurn, At
<1>10. \A i \in 1..n : v[i] = messages[t][i]
  BY <1>1, <1>8, <1>9
<1>11. ASSUME NEW i \in (n + 1)..Len(v)
       PROVE  v[i].reasoning <=> (v[i].role = "assistant" /\ Thinks(t))
  <2>1. CASE i = l + 1
    BY <1>7, <1>8, <2>1
  <2>2. CASE i # l + 1
    <3>1. i \in (n + 1)..l /\ v[i] = w[i]
      BY <1>1, <1>8, <2>2
    <3> QED
      BY <1>9, <3>1
  <2> QED
    BY <2>1, <2>2
<1>12. WellFormedUpTo(v, l)
  BY <1>1, <1>8, <1>9, WellFormedGrows DEF Message
<1>13. (l + 1) - 1 = l /\ l + 1 > n
  BY <1>1, <1>9
<1> QED
  BY <1>1, <1>3, <1>4, <1>5, <1>8, <1>9, <1>10, <1>11, <1>12, <1>13 DEF TurnOK, At, n, s

LEMMA TurnAnswers ==
  ASSUME ControlInv, NEW t \in Threads, At(t, "tools"), TurnOK(t), RunTools(t)
  PROVE  TurnOK(t)'
<1> DEFINE w == working[t]
           l == Len(working[t])
           n == Len(messages[t])
           s == iteration[t] * (MaxCalls + 1)
           c == calls[t]
           a == AnswersOf(t)
           v == w \o a
<1>1. /\ w \in Seq(Message) /\ l \in Nat /\ n \in Nat /\ iteration[t] \in Nat
      /\ c \in Nat /\ MaxCalls \in Nat /\ MaxTurns \in Nat
      /\ \A i \in 1..l : w[i] \in Message
  BY LenProperties, ElementOfSeq, BoundsAssumption DEF ControlInv, TypeOK
<1>2. /\ working'[t] = v /\ pc'[t] = "call" /\ iteration'[t] = iteration[t] + 1
      /\ messages'[t] = messages[t] /\ thinking'[t] = thinking[t] /\ node'[t] = node[t]
  BY DEF RunTools, pipeline, Goto, ControlInv, TypeOK
<1>3. Thinks(t)' = Thinks(t)
  BY <1>2 DEF Thinks, Agent
<1>4. node[t] \in Nodes
  BY GraphFacts DEF ControlInv, NodeInv, At
<1>5. ASSUME NEW k \in 1..c
      PROVE  a[k] = Said("tool", t, node[t], iteration[t], FALSE, 0, k) /\ a[k] \in Message
  <2>1. a[k] = Said("tool", t, node[t], iteration[t], FALSE, 0, k)
    BY DEF AnswersOf
  <2>2. k \in Nat /\ 0 \in Nat
    BY <1>1
  <2>3. "tool" \in {"user", "assistant", "tool"} /\ iteration[t] \in Nat
        /\ t \in Threads \cup {"client", "merge"} /\ node[t] \in Nodes \cup {None}
        /\ FALSE \in BOOLEAN
    BY <1>1, <1>4
  <2>4. Said("tool", t, node[t], iteration[t], FALSE, 0, k) \in Message
    BY ONLY <2>2, <2>3, SaidType
  <2> QED
    BY <2>1, <2>4
<1>6. a \in Seq(Message) /\ Len(a) = c
  <2>1. a \in [1..c -> Message]
    BY <1>5 DEF AnswersOf
  <2> QED
    BY <1>1, <2>1, FunctionIsSeq
<1>7. ASSUME NEW k \in 1..c
      PROVE  /\ a[k].role = "tool" /\ a[k].by = t /\ a[k].node = node[t]
             /\ a[k].turn = iteration[t] /\ a[k].reasoning = FALSE /\ a[k].calls = 0
             /\ a[k].answers = k
  <2>1. a[k] = Said("tool", t, node[t], iteration[t], FALSE, 0, k)
    BY <1>5
  <2> HIDE DEF a
  <2> QED
    BY <2>1 DEF Said
<1> HIDE DEF a, w, l, c
<1>8. /\ Len(v) = l + c
      /\ \A i \in 1..l : v[i] = w[i]
      /\ \A k \in 1..c : v[l + k] = a[k]
  <2>1. /\ Len(v) = l + c
        /\ \A i \in 1..(l + c) : v[i] = IF i <= l THEN w[i] ELSE a[i - l]
    <3>1. l = Len(w)
      BY DEF l, w
    <3> QED
      BY <1>1, <1>6, <3>1, ConcatProperties
  <2> HIDE DEF v
  <2>2. ASSUME NEW k \in 1..c PROVE v[l + k] = a[k]
    <3>1. l + k \in 1..(l + c) /\ ~(l + k <= l) /\ (l + k) - l = k
      BY <1>1
    <3> QED
      BY <2>1, <3>1
  <2>3. ASSUME NEW i \in 1..l PROVE v[i] = w[i]
    <3>1. i \in 1..(l + c) /\ i <= l
      BY <1>1
    <3> QED
      BY <2>1, <3>1
  <2> QED
    BY <2>1, <2>2, <2>3
<1> HIDE DEF n, v, s
<1>9. /\ l > n /\ l - 1 <= n + s /\ WellFormedUpTo(w, l - 1) /\ c \in 1..MaxCalls
      /\ iteration[t] < MaxTurns
      /\ w[l] = Speaks(t, c, Thinks(t))
      /\ \A i \in 1..n : w[i] = messages[t][i]
      /\ \A i \in (n + 1)..l : w[i].reasoning <=> (w[i].role = "assistant" /\ Thinks(t))
  BY DEF TurnOK, w, l, n, s, c, At
<1>10. \A i \in 1..n : v[i] = messages[t][i]
  BY <1>1, <1>8, <1>9
<1>11. ASSUME NEW i \in (n + 1)..(l + c)
       PROVE  v[i].reasoning <=> (v[i].role = "assistant" /\ Thinks(t))
  <2>1. CASE i <= l
    <3>1. i \in (n + 1)..l /\ v[i] = w[i]
      BY <1>1, <1>8, <2>1
    <3> QED
      BY <1>9, <3>1
  <2>2. CASE i > l
    <3>1. i - l \in 1..c /\ i = l + (i - l)
      BY <1>1, <2>2
    <3>2. v[i] = a[i - l]
      BY <1>8, <3>1
    <3> QED
      BY <1>7, <3>1, <3>2
  <2> QED
    BY <1>1, <2>1, <2>2
<1>12. WellFormedUpTo(v, l - 1)
  <2>1. l - 1 \in Nat
    BY <1>1, <1>9
  <2>2. ASSUME NEW i \in 1..(l - 1) PROVE v[i] = w[i] /\ w[i].calls \in Nat
    <3>1. i \in 1..l
      BY <1>1
    <3> QED
      BY <1>1, <1>8, <3>1 DEF Message
  <2> QED
    BY <1>9, <2>1, <2>2, WellFormedGrows
<1>13. WellFormedUpTo(v, (l - 1) + 1 + c)
  <2> DEFINE d == l - 1
  <2>1. d \in Nat /\ d + 1 = l
    BY <1>1, <1>9
  <2> HIDE DEF d
  <2>2. v[d + 1].role = "assistant" /\ v[d + 1].calls = c /\ v[d + 1].by = t
        /\ v[d + 1].node = node[t] /\ v[d + 1].turn = iteration[t]
    <3>1. l \in 1..l
      BY <1>1, <1>9
    <3>2. v[d + 1] = Speaks(t, c, Thinks(t))
      BY <1>8, <1>9, <2>1, <3>1
    <3> QED
      BY <3>2 DEF Speaks, Said
  <2>3. ASSUME NEW k \in 1..c
        PROVE  /\ v[d + 1 + k].role = "tool" /\ v[d + 1 + k].answers = k
               /\ v[d + 1 + k].calls = 0
               /\ << v[d + 1].by, v[d + 1].node, v[d + 1].turn >>
                    = << v[d + 1 + k].by, v[d + 1 + k].node, v[d + 1 + k].turn >>
    <3>1. v[d + 1 + k] = a[k]
      BY <1>8, <2>1
    <3>2. /\ a[k].role = "tool" /\ a[k].by = t /\ a[k].node = node[t]
          /\ a[k].turn = iteration[t] /\ a[k].calls = 0 /\ a[k].answers = k
      BY <1>7
    <3> QED
      BY ONLY <2>2, <3>1, <3>2
  <2>4. WellFormedUpTo(v, d)
    BY <1>12 DEF d
  <2>5. WellFormedUpTo(v, d + 1 + c)
    BY <1>1, <2>1, <2>2, <2>3, <2>4, TurnWellFormed
  <2> QED
    BY <2>5 DEF d
<1>14. (l - 1) + 1 + c = l + c
  BY <1>1
<1>15. l + c <= n + (iteration[t] + 1) * (MaxCalls + 1)
  <2>1. (iteration[t] + 1) * (MaxCalls + 1) = s + MaxCalls + 1 /\ s \in Nat
    BY <1>1, SpanGrows DEF s
  <2> HIDE DEF s
  <2>2. l <= n + s + 1 /\ c <= MaxCalls
    BY <1>1, <1>9, <2>1
  <2> QED
    BY <1>1, <2>1, <2>2
<1>16. n <= l + c /\ iteration[t] + 1 <= MaxTurns
  BY <1>1, <1>9
<1> QED
  BY <1>2, <1>3, <1>8, <1>10, <1>11, <1>13, <1>14, <1>15, <1>16 DEF TurnOK, At, n

LEMMA TurnStep == ControlInv /\ HistoryClean /\ TurnInv /\ [Next]_vars => TurnInv'
<1> SUFFICES ASSUME ControlInv, HistoryClean, TurnInv, [Next]_vars,
                    NEW t \in Threads, pc'[t] \in {"call", "tools"}
             PROVE  TurnOK(t)'
  BY DEF TurnInv, At
<1>1. CASE EnterChain(t)
  BY <1>1, TurnEnters
<1>2. CASE ToolTurn(t)
  BY <1>2, TurnSpeaks DEF ToolTurn, TurnInv
<1>3. CASE RunTools(t)
  BY <1>3, TurnAnswers DEF RunTools, TurnInv
<1>4. CASE /\ pc'[t] = pc[t] /\ messages'[t] = messages[t] /\ working'[t] = working[t]
           /\ iteration'[t] = iteration[t] /\ calls'[t] = calls[t]
           /\ thinking'[t] = thinking[t] /\ node'[t] = node[t]
  <2>1. TurnOK(t)
    BY <1>4 DEF TurnInv, At
  <2>2. Thinks(t)' = Thinks(t)
    BY <1>4 DEF Thinks, Agent
  <2>3. Speaks(t, calls[t], Thinks(t))' = Speaks(t, calls[t], Thinks(t))
    BY <1>4, <2>2 DEF Speaks
  <2> QED
    BY <1>4, <2>1, <2>2, <2>3 DEF TurnOK, At
<1> QED
  BY <1>1, <1>2, <1>3, <1>4, TurnFrame

LEMMA TurnAlways == Spec => [](ControlInv /\ HistoryClean /\ TurnInv)
<1>1. ControlInv /\ HistoryClean /\ TurnInv /\ [Next]_vars
        => (ControlInv /\ HistoryClean /\ TurnInv)'
  BY ControlStep, CleanStep, TurnStep
<1> QED
  BY <1>1, InitControl, InitClean, InitTurn, PTL DEF Spec

----------------------------------------------------------------------------
(* What the model is sent                                                   *)

\* The window leaves out the first messages, none if it is wide enough.
LEMMA WindowCuts ==
  ASSUME NEW w \in Seq(Message), NEW n \in Nat
  PROVE  \E cut \in 0..Len(w) :
           /\ Len(w) - Len(ApplyWindow(w, n)) = cut
           /\ DOMAIN ApplyWindow(w, n) = 1..(Len(w) - cut)
           /\ \A i \in 1..(Len(w) - cut) : ApplyWindow(w, n)[i] = w[i + cut]
           /\ cut > 0 => n # 0 /\ cut = Len(w) - n
           /\ (WellFormed(w) /\ \A i \in 1..cut : w[i].calls = 0)
                => WellFormed(ApplyWindow(w, n))
<1> DEFINE P(cut) ==
             /\ Len(w) - Len(ApplyWindow(w, n)) = cut
             /\ DOMAIN ApplyWindow(w, n) = 1..(Len(w) - cut)
             /\ \A i \in 1..(Len(w) - cut) : ApplyWindow(w, n)[i] = w[i + cut]
             /\ cut > 0 => n # 0 /\ cut = Len(w) - n
             /\ (WellFormed(w) /\ \A i \in 1..cut : w[i].calls = 0)
                  => WellFormed(ApplyWindow(w, n))
<1>1. Len(w) \in Nat /\ DOMAIN w = 1..Len(w)
  BY LenProperties
<1>2. CASE n = 0 \/ Len(w) <= n
  <2>1. ApplyWindow(w, n) = w
    BY <1>2 DEF ApplyWindow
  <2>2. Len(w) - Len(w) = 0 /\ Len(w) - 0 = Len(w) /\ 0 \in 0..Len(w)
    BY <1>1
  <2>3. \A i \in 1..Len(w) : i + 0 = i
    BY <1>1
  <2>4. P(0)
    BY <1>1, <2>1, <2>2, <2>3
  <2> QED
    BY <2>2, <2>4
<1>3. CASE n # 0 /\ Len(w) > n
  <2> DEFINE c == Len(w) - n
             v == ApplyWindow(w, n)
  <2>1. c \in 0..Len(w) /\ Len(w) - c = n
    BY <1>1, <1>3
  <2>2. v = SubSeq(w, c + 1, Len(w))
    BY <1>1, <1>3 DEF ApplyWindow
  <2> HIDE DEF v, c
  <2>3. v \in Seq(Message) /\ Len(v) = Len(w) - c /\ \A i \in 1..(Len(w) - c) : v[i] = w[i + c]
    BY <2>1, <2>2, SuffixProperties
  <2>4. DOMAIN v = 1..(Len(w) - c)
    BY <2>3, LenProperties
  <2>5. (WellFormed(w) /\ \A i \in 1..c : w[i].calls = 0) => WellFormed(v)
    BY <2>1, <2>2, WindowWellFormed
  <2>6. Len(w) - Len(v) = c
    BY <1>1, <2>1, <2>3
  <2>7. n # 0 /\ c = Len(w) - n
    BY <1>3 DEF c
  <2>8. P(c)
    BY <2>3, <2>4, <2>5, <2>6, <2>7 DEF v
  <2> QED
    BY <2>1, <2>8
<1>4. (n = 0 \/ Len(w) <= n) \/ (n # 0 /\ Len(w) > n)
  BY <1>1
<1> QED
  BY <1>2, <1>3, <1>4, Zenon

LEMMA CleanIsWellFormed ==
  ASSUME HistoryClean, NEW t \in Threads
  PROVE  WellFormed(messages[t])
BY DEF HistoryClean, WellFormed

\* A chain's window begins in its history.
LEMMA WindowInHistory ==
  ASSUME WindowsSpanTurns, ControlInv, TurnInv, NEW t \in Threads, At(t, "call"),
         NEW cut \in Nat,
         cut > 0 => Agent(t).window # 0 /\ cut = Len(working[t]) - Agent(t).window
  PROVE  cut <= Len(messages[t])
<1> DEFINE n == Agent(t).window
<1>1. /\ node[t] \in DOMAIN Graph(t).nodes /\ Agent(t).kind = "chain"
      /\ Graph(t) \in {MainGraph, SubGraph}
  BY DEF ControlInv, NodeInv, At, Graph
<1>2. n = 0 \/ n >= MaxTurns * (MaxCalls + 1)
  BY <1>1 DEF WindowsSpanTurns, Agent
<1>3. n \in Nat
  BY <1>1, GraphFacts DEF Agent, Policy
<1>4. /\ Len(working[t]) \in Nat /\ Len(messages[t]) \in Nat /\ iteration[t] \in Nat
      /\ iteration[t] <= MaxTurns
      /\ Len(working[t]) <= Len(messages[t]) + iteration[t] * (MaxCalls + 1)
  BY LenProperties DEF ControlInv, TypeOK, TurnInv, TurnOK
<1> DEFINE s == iteration[t] * (MaxCalls + 1)
           m == MaxTurns * (MaxCalls + 1)
<1>5. s \in Nat /\ m \in Nat /\ s <= m
  BY <1>4, BoundsAssumption, SpanGrows, SpanBound
<1> HIDE DEF n, s, m
<1>6. n = 0 \/ n >= m
  BY <1>2 DEF n, m
<1>7. Len(working[t]) <= Len(messages[t]) + s
  BY <1>4 DEF s
<1>8. cut > 0 => n # 0 /\ cut = Len(working[t]) - n
  BY DEF n
<1> QED
  BY <1>3, <1>4, <1>5, <1>6, <1>7, <1>8

LEMMA InputAlwaysWellFormed ==
  ASSUME WindowsSpanTurns
  PROVE  ControlInv /\ HistoryClean /\ TurnInv => InputWellFormed
<1> SUFFICES ASSUME ControlInv, HistoryClean, TurnInv, NEW t \in Threads, Calling(t)
             PROVE  WellFormed(Input(t))
  BY DEF InputWellFormed
<1>1. Agent(t).window \in Nat
  BY GraphFacts DEF Calling, ControlInv, NodeInv, At, Agent, Policy
<1>2. /\ messages[t] \in Seq(Message) /\ working[t] \in Seq(Message)
      /\ Len(messages[t]) \in Nat /\ DOMAIN messages[t] = 1..Len(messages[t])
      /\ Len(working[t]) \in Nat
  BY LenProperties DEF ControlInv, TypeOK
<1>3. CASE At(t, "route")
  <2>1. Input(t) = ApplyWindow(messages[t], Agent(t).window)
    BY <1>3 DEF Input
  <2>2. \A i \in 1..Len(messages[t]) : messages[t][i].calls = 0
    BY <1>2 DEF HistoryClean
  <2>3. WellFormed(messages[t])
    BY CleanIsWellFormed
  <2> DEFINE w == messages[t]
             n == Agent(t).window
  <2>4. w \in Seq(Message) /\ n \in Nat /\ WellFormed(w) /\ Len(w) \in Nat
        /\ \A i \in 1..Len(w) : w[i].calls = 0
    BY <1>1, <1>2, <2>2, <2>3
  <2> HIDE DEF w, n
  <2>5. \E c \in 0..Len(w) : 
            (WellFormed(w) /\ \A i \in 1..c : w[i].calls = 0) => WellFormed(ApplyWindow(w, n))
    BY ONLY <2>4, WindowCuts
  <2>6. \A c \in 0..Len(w) : \A i \in 1..c : i \in 1..Len(w)
    BY <2>4
  <2>7. WellFormed(ApplyWindow(w, n))
    BY ONLY <2>4, <2>5, <2>6
  <2> QED
    BY <2>1, <2>7 DEF w, n
<1>4. CASE At(t, "call")
  <2>1. Input(t) = ApplyWindow(working[t], Agent(t).window)
    BY <1>4 DEF Input, At
  <2>2. PICK cut \in 0..Len(working[t]) :
          /\ cut > 0 => Agent(t).window # 0 /\ cut = Len(working[t]) - Agent(t).window
          /\ (WellFormed(working[t]) /\ \A i \in 1..cut : working[t][i].calls = 0)
               => WellFormed(ApplyWindow(working[t], Agent(t).window))
    <3> DEFINE w == working[t]
               n == Agent(t).window
    <3>1. w \in Seq(Message) /\ n \in Nat
      BY <1>1, <1>2
    <3> HIDE DEF w, n
    <3>2. \E c \in 0..Len(w) :
            /\ c > 0 => n # 0 /\ c = Len(w) - n
            /\ (WellFormed(w) /\ \A i \in 1..c : w[i].calls = 0)
                 => WellFormed(ApplyWindow(w, n))
      BY ONLY <3>1, WindowCuts
    <3> QED
      BY <3>2 DEF w, n
  <2>3. cut \in Nat /\ cut <= Len(messages[t])
    BY <1>2, <1>4, <2>2, WindowInHistory
  <2>4. WellFormed(working[t]) /\ \A i \in 1..Len(messages[t]) : working[t][i] = messages[t][i]
    BY <1>2, <1>4, WellFormedWhole DEF TurnInv, TurnOK
  <2>5. \A i \in 1..cut : working[t][i].calls = 0
    BY <1>2, <2>3, <2>4 DEF HistoryClean
  <2> QED
    BY <2>1, <2>2, <2>4, <2>5
<1> QED
  BY <1>3, <1>4 DEF Calling

\* Whatever tools a model calls, at whichever node of the Run or of a branch,
\* and whatever they answer: the model is only sent conversations in which
\* every call has its answer and every answer its call (runChain, applyWindow),
\* if windows are wide enough for a turn.
THEOREM InputAlwaysAnswered ==
  ASSUME WindowsSpanTurns
  PROVE  Spec => []InputWellFormed
BY InputAlwaysWellFormed, TurnAlways, PTL

----------------------------------------------------------------------------
(* Reasoning                                                                *)

\* What agents that strip leave in a history.
NoReasoningKept ==
  \A t \in Threads : \A i \in DOMAIN messages[t] : ~messages[t][i].reasoning

LEMMA InitStripped == Init => NoReasoningKept
<1> SUFFICES ASSUME Init, NEW t \in Threads, NEW i \in DOMAIN messages[t]
             PROVE  ~messages[t][i].reasoning
  BY DEF NoReasoningKept
<1>1. CASE t = "main"
  <2>1. messages[t] = << Prompt >>
    BY <1>1 DEF Init
  <2>2. messages[t][i] = Prompt
    BY <2>1
  <2> QED
    BY <2>2 DEF Prompt, Said
<1>2. CASE t # "main"
  BY <1>2 DEF Init
<1> QED
  BY <1>1, <1>2

LEMMA StrippedStep ==
  ASSUME AllStrip
  PROVE  ControlInv /\ NoReasoningKept /\ [Next]_vars => NoReasoningKept'
<1> SUFFICES ASSUME ControlInv, NoReasoningKept, [Next]_vars,
                    NEW t \in Threads, NEW i \in DOMAIN messages'[t]
             PROVE  ~messages'[t][i].reasoning
  BY DEF NoReasoningKept
<1>1. CASE messages'[t] = messages[t]
  BY <1>1 DEF NoReasoningKept
<1>2. CASE messages'[t] # messages[t]
  <2>1. PICK m \in Message :
          \/ /\ FinalTurn(t)
             /\ m = Speaks(t, 0, StripOnCommit(t, Thinks(t)))
             /\ messages' = [messages EXCEPT ![t] = Append(@, m)]
          \/ /\ GatherAll /\ t = "main" /\ m = Results
             /\ messages'[t] = Append(messages[t], m)
          \/ /\ EnterScatter /\ t \in Branches /\ m = Task(t)
             /\ messages'[t] = Append(messages["main"], m)
    BY <1>2, HistoryStep
  <2>2. ~m.reasoning
    <3>1. CASE FinalTurn(t) /\ m = Speaks(t, 0, StripOnCommit(t, Thinks(t)))
      <4>1. Agent(t).strip
        BY <3>1 DEF FinalTurn, ControlInv, NodeInv, At, AllStrip, Agent, Graph
      <4>2. StripOnCommit(t, Thinks(t)) = FALSE
        BY <4>1 DEF StripOnCommit
      <4> QED
        BY <3>1, <4>2 DEF Speaks, Said
    <3>2. CASE m = Results \/ m = Task(t)
      BY <3>2 DEF Results, Task, Said
    <3> QED
      BY <2>1, <3>1, <3>2
  <2>3. PICK u \in Threads : messages'[t] = Append(messages[u], m)
    BY <2>1 DEF ControlInv, TypeOK, Threads
  <2>4. messages[u] \in Seq(Message)
    BY DEF ControlInv, TypeOK
  <2>5. /\ Len(messages[u]) \in Nat /\ DOMAIN messages[u] = 1..Len(messages[u])
        /\ DOMAIN messages'[t] = 1..(Len(messages[u]) + 1)
        /\ messages'[t][Len(messages[u]) + 1] = m
        /\ \A j \in 1..Len(messages[u]) : messages'[t][j] = messages[u][j]
    BY <2>3, <2>4, AppendProperties, LenProperties
  <2>6. CASE i = Len(messages[u]) + 1
    BY <2>2, <2>5, <2>6
  <2>7. CASE i # Len(messages[u]) + 1
    <3>1. i \in DOMAIN messages[u] /\ messages'[t][i] = messages[u][i]
      BY <2>5, <2>7
    <3> QED
      BY <3>1 DEF NoReasoningKept
  <2> QED
    BY <2>6, <2>7
<1> QED
  BY <1>1, <1>2

LEMMA ReasoningInTurn ==
  ASSUME WindowsSpanTurns
  PROVE  ControlInv /\ TurnInv /\ NoReasoningKept => ThinkingOnlyInTurn
<1> SUFFICES ASSUME ControlInv, TurnInv, NoReasoningKept, NEW t \in Threads, Calling(t),
                    NEW i \in DOMAIN Input(t)
             PROVE  LET cut == IF At(t, "call") THEN Len(working[t]) - Len(Input(t)) ELSE 0 IN
                    Input(t)[i].reasoning <=>
                      (i + cut > Len(messages[t]) /\ Input(t)[i].role = "assistant" /\ Thinks(t))
  BY DEF ThinkingOnlyInTurn
<1> DEFINE n == Agent(t).window
           h == messages[t]
           w == working[t]
<1>1. n \in Nat
  BY GraphFacts DEF Calling, ControlInv, NodeInv, At, Agent, Policy
<1>2. /\ h \in Seq(Message) /\ w \in Seq(Message)
      /\ Len(h) \in Nat /\ DOMAIN h = 1..Len(h) /\ Len(w) \in Nat
  BY LenProperties DEF ControlInv, TypeOK
<1>3. \A j \in 1..Len(h) : ~h[j].reasoning
  BY <1>2 DEF NoReasoningKept
<1>4. CASE At(t, "route")
  <2>1. Input(t) = ApplyWindow(h, n) /\ ~At(t, "call")
    BY <1>4 DEF Input, At
  <2> HIDE DEF n, h, w
  <2>2. PICK c \in 0..Len(h) :
          /\ DOMAIN ApplyWindow(h, n) = 1..(Len(h) - c)
          /\ \A j \in 1..(Len(h) - c) : ApplyWindow(h, n)[j] = h[j + c]
    BY ONLY <1>1, <1>2, WindowCuts
  <2>3. i \in 1..(Len(h) - c) /\ Input(t)[i] = h[i + c]
    BY <2>1, <2>2
  <2>4. i + c \in 1..Len(h) /\ ~(i + 0 > Len(h))
    BY <1>2, <2>3
  <2>5. ~Input(t)[i].reasoning
    BY <1>3, <2>3, <2>4
  <2> QED
    BY <2>1, <2>4, <2>5 DEF h
<1>5. CASE At(t, "call")
  <2>1. Input(t) = ApplyWindow(w, n)
    BY <1>5 DEF Input, At
  <2>2. /\ \A j \in 1..Len(h) : w[j] = h[j]
        /\ \A j \in (Len(h) + 1)..Len(w) :
             w[j].reasoning <=> (w[j].role = "assistant" /\ Thinks(t))
    BY <1>5 DEF TurnInv, TurnOK
  <2> HIDE DEF n, h, w
  <2>3. PICK c \in 0..Len(w) :
          /\ Len(w) - Len(ApplyWindow(w, n)) = c
          /\ DOMAIN ApplyWindow(w, n) = 1..(Len(w) - c)
          /\ \A j \in 1..(Len(w) - c) : ApplyWindow(w, n)[j] = w[j + c]
          /\ c > 0 => n # 0 /\ c = Len(w) - n
    BY ONLY <1>1, <1>2, WindowCuts
  <2>4. i \in 1..(Len(w) - c) /\ Input(t)[i] = w[i + c]
    BY <2>1, <2>3
  <2>5. i + c \in 1..Len(w)
    BY <1>2, <2>4
  <2>6. Input(t)[i].reasoning <=>
          (i + c > Len(h) /\ Input(t)[i].role = "assistant" /\ Thinks(t))
    <3>1. CASE i + c > Len(h)
      <4>1. i + c \in (Len(h) + 1)..Len(w)
        BY <1>2, <2>5, <3>1
      <4> QED
        BY <2>2, <2>4, <3>1, <4>1
    <3>2. CASE ~(i + c > Len(h))
      <4>1. i + c \in 1..Len(h)
        BY <1>2, <2>5, <3>2
      <4>2. ~w[i + c].reasoning
        BY <1>3, <2>2, <4>1
      <4> QED
        BY <2>4, <3>2, <4>2
    <3> QED
      BY <3>1, <3>2
  <2>7. Len(working[t]) - Len(Input(t)) = c
    BY <2>1, <2>3 DEF w
  <2> QED
    BY <1>5, <2>6, <2>7 DEF h
<1> QED
  BY <1>4, <1>5 DEF Calling

\* A thread that goes on thinks as the classifier last said, but between the
\* classifier's answer and the edge that passes it on.
ModeInv ==
  \A t \in Threads :
    (pc[t] \in Running \cup {"wait"} /\ outputs[t]["classify"] # None) =>
      \/ thinking[t] = ModeFor(outputs[t]["classify"])
      \/ At(t, "edge") /\ node[t] = "classify"

LEMMA InitMode ==
  ASSUME OneClassifier
  PROVE  Init => ModeInv
BY DEF Init, ModeInv, OneClassifier

LEMMA ModeStep ==
  ASSUME OneClassifier
  PROVE  ControlInv /\ ModeInv /\ [Next]_vars => ModeInv'
<1> SUFFICES ASSUME ControlInv, ModeInv, [Next]_vars, NEW t \in Threads,
                    pc'[t] \in Running \cup {"wait"}, outputs'[t]["classify"] # None
             PROVE  \/ thinking'[t] = ModeFor(outputs'[t]["classify"])
                    \/ pc'[t] = "edge" /\ node'[t] = "classify"
  BY DEF ModeInv, At, ModeFor
<1> USE DEF ControlInv, TypeOK, At, Goto, Running, pipeline, loop, group
<1>1. CASE /\ pc[t] \in Running \cup {"wait"} /\ outputs'[t] = outputs[t]
           /\ thinking'[t] = thinking[t]
           /\ (pc'[t] = pc[t] /\ node'[t] = node[t]) \/ pc[t] # "edge"
  BY <1>1 DEF ModeInv
<1>2. ASSUME NEW output \in Outputs, SetOutput(t, output), pc'[t] = "edge",
             pc[t] \in {"route", "call", "wait"}, node'[t] = node[t], thinking'[t] = thinking[t]
      PROVE  \/ thinking'[t] = ModeFor(outputs'[t]["classify"])
             \/ pc'[t] = "edge" /\ node'[t] = "classify"
  <2>1. CASE node[t] = "classify"
    BY <1>2, <2>1
  <2>2. CASE node[t] # "classify"
    <3>1. outputs'[t]["classify"] = outputs[t]["classify"]
      BY <1>2, <2>2 DEF SetOutput, OneClassifier
    <3> QED
      BY <1>2, <3>1 DEF ModeInv
  <2> QED
    BY <2>1, <2>2
<1>3. CASE Step(t)
  <2>1. CASE EnterUnknown(t) \/ EnterNode(t) \/ EnterChain(t) \/ ToolTurn(t) \/ RunTools(t)
    BY <1>1, <2>1 DEF EnterUnknown, EnterNode, EnterChain, ToolTurn, RunTools, Fail
  <2>2. CASE CallFails(t) \/ NoEdge(t) \/ Respond(t)
    BY <2>2 DEF CallFails, NoEdge, Respond, Fail
  <2>3. CASE Route(t)
    <3>1. PICK c \in Contents : SetOutput(t, Upper[c])
      BY <2>3 DEF Route
    <3>2. Upper[c] \in Outputs
      BY DEF Outputs
    <3> QED
      BY <1>2, <2>3, <3>1, <3>2 DEF Route
  <2>4. CASE FinalTurn(t)
    <3>1. PICK c \in Contents : SetOutput(t, c)
      BY <2>4 DEF FinalTurn
    <3>2. c \in Outputs
      BY DEF Outputs
    <3> QED
      BY <1>2, <2>4, <3>1, <3>2 DEF FinalTurn
  <2>5. CASE FollowEdge(t)
    <3>1. PICK i \in Matching(t) : FirstEdge(t) = Graph(t).edges[i]
      BY <2>5, FirstEdgeMatches DEF FollowEdge
    <3>2. FirstEdge(t).classifies <=> node[t] = "classify"
      BY <3>1 DEF Matching, OneClassifier, Graph
    <3>3. CASE node[t] = "classify"
      <4>1. thinking'[t] = ModeFor(outputs[t]["classify"])
        BY <2>5, <3>2, <3>3 DEF FollowEdge, OutputOf
      <4> QED
        BY <2>5, <4>1 DEF FollowEdge
    <3>4. CASE node[t] # "classify"
      BY <2>5, <3>2, <3>4 DEF FollowEdge, ModeInv
    <3> QED
      BY <3>3, <3>4
  <2> QED
    BY <1>3, <2>1, <2>2, <2>3, <2>4, <2>5 DEF Step
<1>4. ASSUME NEW u \in Threads, u # t, Step(u)
      PROVE  \/ thinking'[t] = ModeFor(outputs'[t]["classify"])
             \/ pc'[t] = "edge" /\ node'[t] = "classify"
  BY <1>1, <1>4, StepShape
<1>5. ASSUME NEW u \in Threads, JoinGroup(u)
      PROVE  \/ thinking'[t] = ModeFor(outputs'[t]["classify"])
             \/ pc'[t] = "edge" /\ node'[t] = "classify"
  BY <1>1, <1>5 DEF JoinGroup
<1>6. CASE EnterScatter
  <2>1. /\ pc["main"] = "enter" /\ "main" \in Threads
        /\ outputs'[t] = outputs["main"] \/ (t = "main" /\ outputs'[t] = outputs[t])
        /\ thinking'[t] = thinking["main"] \/ (t = "main" /\ thinking'[t] = thinking[t])
    BY <1>6 DEF EnterScatter, Fork, Threads
  <2> QED
    BY <2>1 DEF ModeInv
<1>7. CASE GatherAll
  <2>1. CASE t = "main"
    <3>1. groupErr = None
      BY <1>7, <2>1 DEF GatherAll, Fail
    <3>2. PICK output \in Outputs : SetOutput(t, output)
      <4>1. SetOutput("main", "")
        BY <1>7, <3>1 DEF GatherAll
      <4>2. "" \in Outputs
        BY DEF Outputs
      <4> QED
        BY ONLY <2>1, <4>1, <4>2
    <3>3. pc'[t] = "edge" /\ pc[t] = "wait" /\ node'[t] = node[t] /\ thinking'[t] = thinking[t]
      BY <1>7, <2>1, <3>1 DEF GatherAll
    <3> QED
      BY ONLY <1>2, <3>2, <3>3
  <2>2. CASE t # "main"
    <3>0. pc'[t] = pc[t]
      <4>1. pc' = [pc EXCEPT !["main"] = "failed"] \/ pc' = [pc EXCEPT !["main"] = "edge"]
        BY <1>7 DEF GatherAll, Fail, Goto
      <4> QED
        BY <2>2, <4>1
    <3>1. node'[t] = node[t] /\ thinking'[t] = thinking[t]
      BY <1>7 DEF GatherAll
    <3>2. outputs'[t] = outputs[t]
      BY <1>7, <2>2 DEF GatherAll, SetOutput
    <3> QED
      BY <1>1, <3>0, <3>1, <3>2
  <2> QED
    BY <2>1, <2>2
<1>8. CASE CancelRequest \/ UNCHANGED vars
  BY <1>1, <1>8 DEF CancelRequest, vars
<1> QED
  BY <1>3, <1>4, <1>5, <1>6, <1>7, <1>8 DEF Next

LEMMA ModeFollowed == ControlInv /\ ModeInv => ThinkingAsClassified
<1> SUFFICES ASSUME ControlInv, ModeInv, NEW t \in Threads, Calling(t),
                    Agent(t).think = "unset", outputs[t]["classify"] # None
             PROVE  Thinks(t) <=> outputs[t]["classify"] = "REASONING"
  BY DEF ThinkingAsClassified
<1>1. thinking[t] = ModeFor(outputs[t]["classify"])
  BY DEF ModeInv, Calling, At, Running
<1> QED
  BY <1>1 DEF Thinks, ModeFor

\* The model sees the reasoning of the turn under way and no other, its own or
\* that of a branch or a parent, and is asked for reasoning exactly where the
\* classifier said so (runChain, StripAllThinking, resolveThinking): for all
\* graphs with one classifier whose agents strip and whose windows span turns.
THEOREM ThinkingAlwaysInTurn ==
  ASSUME WindowsSpanTurns, AllStrip, OneClassifier
  PROVE  Spec => []ThinkingInv
<1> DEFINE Inv == ControlInv /\ HistoryClean /\ TurnInv /\ NoReasoningKept /\ ModeInv
<1>1. Init => Inv
  BY InitControl, InitClean, InitTurn, InitStripped, InitMode
<1>2. Inv /\ [Next]_vars => Inv'
  BY ControlStep, CleanStep, TurnStep, StrippedStep, ModeStep
<1>3. Inv => ThinkingInv
  BY ReasoningInTurn, ModeFollowed DEF ThinkingInv
<1> QED
  BY <1>1, <1>2, <1>3, PTL DEF Spec
=============================================================================
