---------------------------- MODULE MCProxyFront ----------------------------
(***************************************************************************)
(* Instances of ProxyFront for TLC.  Two URLs serve three configured models *)
(* and list one model twice, one that no configuration names and an entry   *)
(* without an id.                                                           *)
(***************************************************************************)
EXTENDS ProxyFront

M(base) == Name(base, 0)
Backend(base, url, count, obs, budget) ==
  [name |-> M(base), url |-> url, count |-> count, obs |-> obs, budget |-> budget]
Rule(source, threshold, target) ==
  [source |-> M(source), threshold |-> threshold, target |-> M(target)]

MCLists ==
  ("u1" :> << M("small"), NoId, M("shared") >>) @@
  ("u2" :> << M("shared"), M("large"), M("extra"), NoId >>)

MCBackends ==
  << Backend("small", "u1", TRUE, TRUE, TRUE), Backend("large", "u2", FALSE, FALSE, TRUE),
     Backend("shared", "u2", TRUE, TRUE, FALSE), Backend("small", "u2", FALSE, FALSE, FALSE) >>
MCProviders == {[name |-> "remote", url |-> "u3", count |-> TRUE, obs |-> TRUE]}
MCRules == << Rule("shared", 10, "small"), Rule("small", 20, "large"),
              Rule("small", 10, "shared") >>

MCConfigs ==
  {[backends |-> MCBackends, providers |-> MCProviders, rules |-> MCRules, logging |-> l] :
     l \in BOOLEAN}
    \cup {[backends |-> << >>, providers |-> {}, rules |-> << >>, logging |-> FALSE]}

MCRequests ==
  {[handler |-> "chat", provider |-> p, model |-> m, effort |-> e, maxTokens |-> t,
    thinking |-> k, template |-> "client's"] :
     p \in {"", "remote"}, m \in [base : {"small", "shared", "extra"}, flash : 0..2],
     e \in {"", "none", "low"}, t \in {0, 1, 100}, k \in {"", "disabled"}}
  \cup
  {[handler |-> "generic", provider |-> p, model |-> m, effort |-> e, maxTokens |-> 100,
    thinking |-> k, template |-> "client's"] :
     p \in {"", "local", "remote", "malformed"},
     m \in [base : {"large"}, flash : 0..1] \cup {NoName},
     e \in {"", "none"}, k \in {"", "disabled"}}

ASSUME DeploymentAssumption == NoFlashListed /\ ListsItsModel /\ FractionOfMax
=============================================================================
