----------------------------- MODULE MemoryLoop -----------------------------
(***************************************************************************)
(* What becomes of an observation: the proxy posts it with the project its  *)
(* client's URL names (extractAttribution of proxy/internal/proxy/          *)
(* context.go, memory_client.go), the memory server stores it               *)
(* (memory/server.py), and at a later prompt the hook of the editor         *)
(* (memory/hooks/user-prompt-submit.sh) asks for what is relevant and has   *)
(* not been shown in its session yet.                                       *)
(*                                                                          *)
(* The hook runs before every prompt of an editor session and the session   *)
(* waits for it; sessions run side by side.  The file of what a session has *)
(* seen outlives the hook.  A memory's text matters by its type and its     *)
(* distance from a prompt only.                                             *)
(***************************************************************************)
EXTENDS Integers, FiniteSets, SequencesExt

CONSTANTS
  Sessions,    \* the editor sessions
  UserOf, DirectoryOf,  \* $USER (possibly empty) and $PWD of each
  Prompts,
  Ids,         \* the ids of proxy sessions
  Memories,    \* what may be posted to /ingest
  Distance,    \* of a memory from a prompt
  Threshold, N,
  MaxPrompts   \* bound on the prompts

\* A project is named by its directory, or by that in base64url.
Encoded(directory) == [directory |-> directory, encoded |-> TRUE]

\* What the proxy posts for a session of a client configured as
\* scripts/docker-run-claude.sh does: extractAttribution decodes the project.
Decode(project) == [project EXCEPT !.encoded = FALSE]
Posted(id, user, directory, type) ==
  [id |-> id, user |-> user, project |-> Decode(Encoded(directory)), type |-> type]

ASSUME MemoryAssumption ==
  \A m \in Memories : m.id \in Ids /\ m.type \in {"decision", "fact", "none", ""}
ASSUME SessionAssumption == DOMAIN UserOf = Sessions
ASSUME DistanceAssumption ==
  /\ Threshold \in Int
  /\ \A p \in Prompts :
       /\ \A id \in Ids : Distance[p][id] \in Int
       /\ \A a, b \in Ids : Distance[p][a] = Distance[p][b] => a = b
ASSUME BoundsAssumption == N \in Nat \ {0} /\ MaxPrompts \in Nat

VARIABLES
  server,    \* "up", "down", "mute" (accepts and never answers), "broken" (its
             \* queries raise)
  stored,    \* the collection
  hook,      \* of each session: "idle", "asking", "answered", "recorded"
  query,     \* the request of its hook
  response,  \* the ids answered
  seen,      \* its SEEN_FILE
  shown,     \* the memories put before its prompts so far
  prompts    \* how many there were

vars == << server, stored, hook, query, response, seen, shown, prompts >>

Query == [prompt : Prompts, exclude : SUBSET Ids, user : Range(UserOf),
          project : {Encoded(DirectoryOf[s]) : s \in Sessions}]
NoQuery == [prompt |-> "none"]

TypeOK ==
  /\ server \in {"up", "down", "mute", "broken"}
  /\ stored \subseteq Memories /\ \A a, b \in stored : a.id = b.id => a = b
  /\ hook \in [Sessions -> {"idle", "asking", "answered", "recorded"}]
  /\ query \in [Sessions -> Query \cup {NoQuery}]
  /\ response \in [Sessions -> Seq(Ids)]
  /\ seen \in [Sessions -> Seq(Ids)] /\ shown \in [Sessions -> Seq(Ids)]
  /\ prompts \in 0..MaxPrompts

Init ==
  /\ server \in {"up", "down"} /\ stored = {}
  /\ hook = [s \in Sessions |-> "idle"] /\ query = [s \in Sessions |-> NoQuery]
  /\ response = [s \in Sessions |-> << >>]
  /\ seen = [s \in Sessions |-> << >>] /\ shown = [s \in Sessions |-> << >>]
  /\ prompts = 0

----------------------------------------------------------------------------
(* The memory server.  Its handlers do not wait between looking at the      *)
(* collection and using what they saw, and the collection is on disk.       *)

ServerBecomes(state) ==
  /\ server # state /\ server' = state
  /\ UNCHANGED << stored, hook, query, response, seen, shown, prompts >>

\* handle_ingest: an upsert, but without a type nothing is stored.  A post that
\* is lost never comes; one may come again.
Upsert(m) == stored' = {old \in stored : old.id # m.id} \cup {m}
Ingest(m) ==
  /\ server \in {"up", "broken"}
  /\ IF m.type = "" THEN UNCHANGED stored ELSE Upsert(m)
  /\ UNCHANGED << server, hook, query, response, seen, shown, prompts >>

\* The where clause of handle_search.
Matching(q) ==
  {m \in stored : /\ m.type \in {"decision", "fact"}
                  /\ q.user # "" => m.user = q.user
                  /\ m.project = q.project}

\* Ids are ranked by their distance.
Closer(ids, id, d) == {other \in ids : d[other] < d[id]}
NearestFirst(ids, d) ==
  [i \in 1..Cardinality(ids) |-> CHOOSE id \in ids : Cardinality(Closer(ids, id, d)) = i - 1]

\* collection.query: the n nearest of those.
Nearest(q, n) ==
  LET ids == {m.id : m \in Matching(q)}
  IN  {id \in ids : Cardinality(Closer(ids, id, Distance[q.prompt])) < n}

\* As many more are fetched as may be left out again.  (Mutant: they are not.)
FetchAsAsked(q) == Min({N, Cardinality(stored)})
FetchN(q) == Min({N + Cardinality(q.exclude), Cardinality(stored)})

Results(q) ==
  LET d == Distance[q.prompt]
  IN  NearestFirst({id \in Nearest(q, FetchN(q)) : id \notin q.exclude /\ d[id] <= Threshold}, d)

\* handle_search: errors of the query are answered with nothing.
Search(s) ==
  /\ hook[s] = "asking" /\ server \in {"up", "broken"}
  /\ response' = [response EXCEPT ![s] = IF server = "up" THEN Results(query[s]) ELSE << >>]
  /\ hook' = [hook EXCEPT ![s] = "answered"]
  /\ UNCHANGED << server, stored, query, seen, shown, prompts >>

----------------------------------------------------------------------------
(* The hook                                                                 *)

Ask(s, prompt) ==
  /\ hook[s] = "idle" /\ prompts < MaxPrompts
  /\ prompts' = prompts + 1
  /\ query' = [query EXCEPT ![s] =
       [prompt |-> prompt, exclude |-> ToSet(seen[s]), user |-> UserOf[s],
        project |-> Encoded(DirectoryOf[s])]]
  /\ hook' = [hook EXCEPT ![s] = "asking"]
  /\ UNCHANGED << server, stored, response, seen, shown >>

End(s) ==
  /\ hook' = [hook EXCEPT ![s] = "idle"]
  /\ query' = [query EXCEPT ![s] = NoQuery]
  /\ response' = [response EXCEPT ![s] = << >>]

\* curl fails, or gives up after --max-time.  (Mutant: there is no --max-time.)
GiveUpIfRefused(s) ==
  /\ hook[s] = "asking" /\ server = "down" /\ End(s)
  /\ UNCHANGED << server, stored, seen, shown, prompts >>
GiveUp(s) ==
  /\ hook[s] = "asking" /\ End(s)
  /\ UNCHANGED << server, stored, seen, shown, prompts >>

\* The ids are appended to the file, then the text is printed.  (Mutant: the
\* file is written anew.)
SeenNow(old, new) == new
SeenAlso(old, new) == old \o new
Record(s) ==
  /\ hook[s] = "answered" /\ response[s] # << >>
  /\ seen' = [seen EXCEPT ![s] = SeenAlso(@, response[s])]
  /\ hook' = [hook EXCEPT ![s] = "recorded"]
  /\ UNCHANGED << server, stored, query, response, shown, prompts >>
Show(s) ==
  /\ hook[s] = "recorded"
  /\ shown' = [shown EXCEPT ![s] = @ \o response[s]]
  /\ End(s)
  /\ UNCHANGED << server, stored, seen, prompts >>
ShowNothing(s) ==
  /\ hook[s] = "answered" /\ response[s] = << >> /\ End(s)
  /\ UNCHANGED << server, stored, seen, shown, prompts >>

\* The user interrupts the prompt while its hook runs.
Interrupt(s) ==
  /\ hook[s] # "idle" /\ End(s)
  /\ UNCHANGED << server, stored, seen, shown, prompts >>

HookGoesOn(s) == GiveUp(s) \/ Record(s) \/ Show(s) \/ ShowNothing(s)

Next ==
  \/ \E state \in {"up", "down", "mute", "broken"} : ServerBecomes(state)
  \/ \E m \in Memories : Ingest(m)
  \/ \E s \in Sessions :
       \/ Search(s) \/ HookGoesOn(s) \/ Interrupt(s)
       \/ \E p \in Prompts : Ask(s, p)

\* The hook's process is scheduled, and curl's clock runs.
Spec == Init /\ [][Next]_vars /\ \A s \in Sessions : WF_vars(HookGoesOn(s))
----------------------------------------------------------------------------
(* What the loop promises                                                   *)

\* "Record injected IDs so they aren't injected again this session": whatever
\* is interrupted or ingested again, and whatever answers are lost, no memory
\* is shown twice in a session.
ShownOnce == \A s \in Sessions : IsInjective(shown[s])

\* The state of the loop, with that; a session's record covers what it showed.
LoopInv ==
  /\ TypeOK /\ ShownOnce
  /\ \A s \in Sessions : ToSet(shown[s]) \subseteq ToSet(seen[s])

\* Nearer than m, and as good as m for the session of q.
Nearer(q, m, among) ==
  {other \in among : other.id \notin q.exclude /\ Distance[q.prompt][other.id] < Distance[q.prompt][m.id]}
Answering(s) == server = "up" /\ hook[s] = "asking" /\ hook'[s] = "answered"
AnswersWith(s, among) ==
  \A m \in among :
    (m.id \notin query[s].exclude /\ Distance[query[s].prompt][m.id] <= Threshold
       /\ Cardinality(Nearer(query[s], m, among)) < N) => m.id \in ToSet(response'[s])

\* What a session has seen takes no room from what it has not: a memory that
\* matches, is near enough and is among the N nearest unseen is always found.
NearestNotMissed ==
  [][\A s \in Sessions : Answering(s) => AnswersWith(s, Matching(query[s]))]_vars

\* The hook never holds up a prompt, whatever becomes of the server.
PromptGoesOn == \A s \in Sessions : (hook[s] # "idle") ~> (hook[s] = "idle")

\* memory/install.sh:60, "Relevant memories are automatically injected at the
\* start of each turn": those of earlier sessions of this user in this directory
\* are found.
Own(s) ==
  {m \in stored : m.type \in {"decision", "fact"}
     /\ \E id \in Ids : m = Posted(id, UserOf[s], DirectoryOf[s], m.type)}
OwnFound ==
  [][\A s \in Sessions : Answering(s) => AnswersWith(s, Own(s))]_vars
=============================================================================
