---------------------------- MODULE MCAgentGraph ----------------------------
(***************************************************************************)
(* Instances of AgentGraph for TLC: the graphs of agent/DESIGN.md and of    *)
(* agent/internal/graphs/registry.go.                                       *)
(***************************************************************************)
EXTENDS AgentGraph, TLC

CONSTANTS b1, b2, nil

TwoBranches == {b1, b2}
MCContents == {" reasoning", "DIRECT", "UNSURE"}
MCUpper == (" reasoning" :> "REASONING") @@ ("DIRECT" :> "DIRECT")
             @@ ("UNSURE" :> "UNSURE")

A(kind, think, strip, window) ==
  [kind |-> kind, think |-> think, strip |-> strip, window |-> window]
Edge(from, to, on, classifies) ==
  [from |-> from, to |-> to, on |-> on, classifies |-> classifies]
Always(from, to) == Edge(from, to, Outputs, FALSE)

\* Classify, and for reasoning plan, scatter and gather; then answer.  An
\* answer of the classifier that nobody expects leads to a scatter that no edge
\* leaves.  The window of the last agent is as wide as a turn of two calls and
\* one message more.
Research ==
  [entry |-> "classify",
   nodes |-> ("classify" :> A("route", "off", FALSE, 0))
          @@ ("plan" :> A("chain", "unset", TRUE, 0))
          @@ ("explore" :> A("scatter", "unset", FALSE, 0))
          @@ ("stray" :> A("scatter", "unset", FALSE, 0))
          @@ ("answer" :> A("chain", "unset", TRUE, 4))
          @@ ("reply" :> A("respond", "unset", FALSE, 0)),
   edges |-> << Edge("classify", "plan", {"REASONING"}, TRUE),
                Edge("classify", "stray", {"UNSURE"}, TRUE),
                Edge("classify", "answer", Outputs, TRUE),
                Always("plan", "explore"), Always("explore", "answer"),
                Always("answer", "reply") >>]

\* A branch with a respond node of its own, and an edge to a node there is not.
Worker ==
  [entry |-> "worker",
   nodes |-> ("worker" :> A("chain", "unset", TRUE, 0))
          @@ ("note" :> A("respond", "unset", FALSE, 0)),
   edges |-> << Edge("worker", "nowhere", {"UNSURE"}, FALSE),
                Edge("worker", "note", {"DIRECT"}, FALSE) >>]

\* These graphs are of the kind that the claims about reasoning and windows
\* are made for.
ASSUME ResearchAssumption == WindowsSpanTurns /\ AllStrip /\ OneClassifier
=============================================================================
