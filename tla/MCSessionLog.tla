---------------------------- MODULE MCSessionLog ----------------------------
(***************************************************************************)
(* Instances of SessionLog for TLC: two requests whose conversations share  *)
(* their first message.                                                     *)
(***************************************************************************)
EXTENDS SessionLog, TLC

CONSTANTS r1, r2, tools1, obs1, none

Ask == [role |-> "user", text |-> "ask"]
More == [role |-> "user", text |-> "more"]
Said == [role |-> "assistant", text |-> "said"]
Failure == [role |-> "assistant", text |-> ""]

MCRequests == {r1, r2}
MCMessages == {Ask, More, Said, Failure}
MCToolSets == {tools1}
MCToolsOf == (r1 :> tools1) @@ (r2 :> none)
MCObservations == {obs1}

\* r1 has a short history, r2 begins.
Short == (r1 :> << Ask, More >>) @@ (r2 :> << Ask >>)

\* An answer with an observation, and what is logged when the backend fails.
TwoReplies == {[message |-> Said, obs |-> obs1], [message |-> Failure, obs |-> none]}
=============================================================================
