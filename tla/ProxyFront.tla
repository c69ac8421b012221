----------------------------- MODULE ProxyFront -----------------------------
(***************************************************************************)
(* What a client of the proxy finds at its front: the list of models, which *)
(* HandleModels gathers from all backends at once (models.go), and the      *)
(* handling of a request for one of them up to its forwarding (the handlers *)
(* of handlers.go, server.go, and the attribution of context.go).           *)
(*                                                                          *)
(* The two are composed: a client picks the model of its request, also from *)
(* what it was shown, and the promise of the list is kept or not when the   *)
(* request is forwarded.                                                    *)
(***************************************************************************)
EXTENDS Integers, FiniteSets, SequencesExt

CONSTANTS
  Configs,       \* the configurations to start with (config.Config)
  Lists,         \* what the backend at each URL answers to GET /v1/models
  Requests,      \* the requests a client may send
  Counts,        \* the token counts a backend may return
  FractionTenths \* THINKING_BUDGET, in tenths

\* A model's name: a base name, and how often "-FLASH" follows.
Names == [base : STRING, flash : Nat]
Name(base, flash) == [base |-> base, flash |-> flash]
NoName == Name("", 0)
IsFlashModel(model) == model.flash > 0
StripFlash(model) == IF IsFlashModel(model) THEN Name(model.base, model.flash - 1) ELSE model

Pending == [status |-> "pending", data |-> << >>]
Failed == [status |-> "failed", data |-> << >>]
Listing(u) == [status |-> "ok", data |-> Lists[u]]
NoBudget == -1
NoCount == 0
DefaultMaxTokens == 32000

ASSUME FractionAssumption == FractionTenths \in 0..10
ASSUME CountsAssumption == Counts \subseteq Nat
ASSUME ListAssumption == \A u \in DOMAIN Lists : Lists[u] \in Seq(Names)

\* config.Config, of which the URLs of backends are those in Lists.
Backends ==
  [name : Names, url : DOMAIN Lists, count : BOOLEAN, obs : BOOLEAN, budget : BOOLEAN]
Providers == [name : STRING, url : STRING, count : BOOLEAN, obs : BOOLEAN]
Rules == [source : Names, threshold : Nat, target : Names]
ASSUME ConfigAssumption ==
  Configs \subseteq [backends : Seq(Backends), providers : SUBSET Providers,
                     rules : Seq(Rules), logging : BOOLEAN]
ASSUME RequestAssumption ==
  Requests \subseteq [handler : STRING, provider : STRING, model : Names,
                      effort : STRING, maxTokens : Int, thinking : STRING,
                      template : STRING]

VARIABLES
  server,      \* the Server: backends, providers, rules, logging
  silent,      \* the URLs that accept connections and never answer
  gone,        \* the client has gone, r.Context() is cancelled
  phase,       \* "idle", "collecting", "listed", "asked", "counted",
               \* "forwarded", "refused"
  result,      \* what each goroutine got
  active,      \* those wg waits for
  ch, closed,  \* the channel of results
  merged,      \* and in the end the list the client gets
  request, tokenCount,
  sent         \* where the request went, and as what

fanout == << result, active, ch, closed >>
vars == << server, silent, gone, phase, fanout, merged, request, tokenCount, sent >>

Nobody == [handler |-> "none"]

\* uniqueURLs, as a set.
URLs == {server.backends[i].url : i \in DOMAIN server.backends}

Init ==
  /\ server \in Configs
  /\ silent \in SUBSET URLs
  /\ gone = FALSE /\ phase = "idle"
  /\ result = [u \in URLs |-> Pending] /\ active = {} /\ ch = << >> /\ closed = FALSE
  /\ merged = << >> /\ request = Nobody /\ tokenCount = NoCount /\ sent = Nobody

----------------------------------------------------------------------------
(* HandleModels.  An entry of a list has a name as its id, or none (NoId).  *)

NoId == Name("no id", 0)
Ids(entries) == {entries[i] : i \in DOMAIN entries} \ {NoId}

HandleModels ==
  /\ phase = "idle"
  /\ IF URLs = {} THEN phase' = "refused" /\ UNCHANGED active
     ELSE phase' = "collecting" /\ active' = URLs
  /\ UNCHANGED << server, silent, gone, result, ch, closed, merged, request, tokenCount, sent >>

\* A goroutine gets its backend's list, or an error; it always sends one result.
\* (Mutant: the context is not passed on.)
Send(u, res) ==
  /\ result' = [result EXCEPT ![u] = res]
  /\ ch' = Append(ch, res)
  /\ UNCHANGED << server, silent, gone, phase, active, closed, merged, request, tokenCount, sent >>

QueryWithoutContext(u) ==
  /\ u \in active /\ result[u] = Pending
  /\ u \notin silent /\ (Send(u, Listing(u)) \/ Send(u, Failed))
Query(u) ==
  /\ u \in active /\ result[u] = Pending
  /\ \/ u \notin silent /\ Send(u, Listing(u))
     \/ (u \notin silent \/ gone) /\ Send(u, Failed)

\* wg.Done, deferred.
Return(u) ==
  /\ u \in active /\ result[u] # Pending
  /\ active' = active \ {u}
  /\ UNCHANGED << server, silent, gone, phase, result, ch, closed, merged, request, tokenCount, sent >>

\* wg.Wait.  (Mutant: no wait for the last.)
WaitForMost(waiting) == Cardinality(waiting) <= 1
WaitForAll(waiting) == waiting = {}

CloseChannel ==
  /\ phase = "collecting" /\ ~closed /\ WaitForAll(active)
  /\ closed' = TRUE
  /\ UNCHANGED << server, silent, gone, phase, result, active, ch, merged, request, tokenCount, sent >>

\* Models listed by an earlier answer, or twice, are left out.
AddUnseen(entries, e) == IF e \in Ids(entries) THEN entries ELSE Append(entries, e)

Collect ==
  /\ phase = "collecting" /\ ch # << >>
  /\ ch' = Tail(ch)
  /\ merged' = FoldLeft(AddUnseen, merged, Head(ch).data)
  /\ UNCHANGED << server, silent, gone, phase, result, active, closed, request, tokenCount, sent >>

\* cloneModelWithFlash, and injectFlashModels.
CloneOf(e) == IF e = NoId THEN << >> ELSE << Name(e.base, e.flash + 1) >>
InjectFlashModels(entries) == FlattenSeq([i \in DOMAIN entries |-> << entries[i] >> \o CloneOf(entries[i])])

WriteList ==
  /\ phase = "collecting" /\ ch = << >> /\ closed
  /\ phase' = "listed"
  /\ merged' = InjectFlashModels(merged)
  /\ UNCHANGED << server, silent, gone, fanout, request, tokenCount, sent >>

Disconnect ==
  /\ phase = "collecting" /\ ~gone
  /\ gone' = TRUE
  /\ UNCHANGED << server, silent, phase, fanout, merged, request, tokenCount, sent >>

----------------------------------------------------------------------------
(* The request.  Its path names a provider, or is anonymous (""), or is     *)
(* neither ("malformed").                                                   *)

NoBackend == [name |-> NoName, url |-> "", count |-> FALSE, obs |-> FALSE, budget |-> FALSE]

\* findBackend: the first of its name, else the first.
FindBackend(model) ==
  LET named == {i \in DOMAIN server.backends : server.backends[i].name = model}
  IN  IF named # {} THEN server.backends[Min(named)]
      ELSE IF server.backends # << >> THEN server.backends[1] ELSE NoBackend

\* (Mutant: the name is looked up as the client writes it.)
BackendAsWritten(model) == FindBackend(model)
OwnBackend(model) == FindBackend(StripFlash(model))

Provider(name) == CHOOSE p \in server.providers : p.name = name
Known(name) == name \in {"", "local"} \cup {p.name : p \in server.providers}
IsLocal(r) == r.provider \in {"", "local"}

\* AttributionMiddleware refuses what names no provider it knows.
Ask(r) ==
  /\ phase = "listed" /\ ~gone
  /\ request' = r
  /\ phase' = IF Known(r.provider) THEN "asked" ELSE "refused"
  /\ UNCHANGED << server, silent, gone, fanout, merged, tokenCount, sent >>

Counted(r) ==
  /\ r.handler # "generic"
  /\ IF IsLocal(r) THEN OwnBackend(r.model).count ELSE Provider(r.provider).count

\* countAnthropicTokens, countOpenAITokens: 0 when counting fails; the request
\* to count has no context of the client's and no timeout.
CountTokens ==
  /\ phase = "asked"
  /\ IF Counted(request)
     THEN /\ IsLocal(request) => OwnBackend(request.model).url \notin silent
          /\ tokenCount' \in Counts \cup {NoCount}
     ELSE tokenCount' = NoCount
  /\ phase' = "counted"
  /\ UNCHANGED << server, silent, gone, fanout, merged, request, sent >>

EffortTokens == [minimal |-> 128, low |-> 256, medium |-> 1024, high |-> 4096, xhigh |-> 8192]
EffortTokenBudget(effort) == IF effort \in DOMAIN EffortTokens THEN EffortTokens[effort] ELSE 32000

\* extractMaxTokens; computeThinkingBudget.
MaxTokens(r) == IF r.maxTokens > 0 THEN r.maxTokens ELSE DefaultMaxTokens
ThinkingBudget(r) ==
  Min({EffortTokenBudget(r.effort), (MaxTokens(r) * FractionTenths) \div 10})

\* effectiveFlash.  (Mutant: the suffix alone.)
FlashOnly(r) == IsFlashModel(r.model)
EffectiveFlash(r) == IsFlashModel(r.model) \/ r.effort = "none" \/ r.thinking = "disabled"

IsProbe(r) == r.maxTokens = 1
Instructs(r, wanted) == wanted /\ server.logging /\ ~IsProbe(r)

\* The body that is forwarded, of what the handlers touch.
Body(model, template, budget, instruction) ==
  [model |-> model, template |-> template, budget |-> budget, instruction |-> instruction]
AsSent(r) == Body(r.model, r.template, NoBudget, FALSE)

\* injectDisableThinking: the client's chat_template_kwargs are replaced.
DisableThinking(body) == [body EXCEPT !.template = "no thinking", !.model = StripFlash(@)]

\* A request for a provider keeps its model, and nothing but the instruction
\* is added.
RemoteBody(r) ==
  [AsSent(r) EXCEPT !.instruction =
     r.handler # "generic" /\ Instructs(r, Provider(r.provider).obs)]

\* extractModel takes one suffix off, injectDisableThinking one more.
LocalBody(r) ==
  LET own == OwnBackend(r.model)
      clean == [AsSent(r) EXCEPT !.model = StripFlash(@)]
  IN  IF r.handler = "generic"
      THEN IF IsFlashModel(r.model) \/ r.thinking = "disabled"
           THEN DisableThinking(AsSent(r)) ELSE clean
      ELSE IF EffectiveFlash(r) THEN DisableThinking(clean)
      ELSE [clean EXCEPT
              !.instruction = Instructs(r, own.obs),
              !.budget = IF own.budget THEN ThinkingBudget(r) ELSE @]

\* The first rule of the model whose threshold is reached.
Applies(rule, r) == rule.source = StripFlash(r.model) /\ tokenCount >= rule.threshold
Applying(r) ==
  IF r.handler = "generic" THEN {}
  ELSE {i \in DOMAIN server.rules : Applies(server.rules[i], r)}
LocalURL(r) ==
  IF Applying(r) = {} THEN OwnBackend(r.model).url
  ELSE FindBackend(server.rules[Min(Applying(r))].target).url

Forward ==
  /\ phase = "counted"
  /\ phase' = "forwarded"
  /\ sent' = IF IsLocal(request)
             THEN [url |-> LocalURL(request), body |-> LocalBody(request)]
             ELSE [url |-> Provider(request.provider).url, body |-> RemoteBody(request)]
  /\ UNCHANGED << server, silent, gone, fanout, merged, request, tokenCount >>

Next ==
  \/ HandleModels \/ CloseChannel \/ Collect \/ WriteList \/ Disconnect
  \/ \E u \in URLs : Query(u) \/ Return(u)
  \/ \E r \in Requests : Ask(r)
  \/ CountTokens \/ Forward

\* Goroutines that can run do run; a backend that is not silent answers.
Fairness ==
  /\ \A u \in DOMAIN Lists : WF_vars(u \in URLs /\ Query(u)) /\ WF_vars(u \in URLs /\ Return(u))
  /\ WF_vars(CloseChannel) /\ WF_vars(Collect) /\ WF_vars(WriteList)
  /\ WF_vars(CountTokens) /\ WF_vars(Forward)
Spec == Init /\ [][Next]_vars /\ Fairness
----------------------------------------------------------------------------
TypeOK ==
  /\ server \in Configs /\ silent \subseteq URLs /\ gone \in BOOLEAN
  /\ phase \in {"idle", "collecting", "listed", "asked", "counted", "forwarded", "refused"}
  /\ \A u \in URLs : result[u] \in {Pending, Failed, Listing(u)}
  /\ active \subseteq URLs /\ closed \in BOOLEAN
  /\ Len(ch) <= Cardinality(URLs)
  /\ request \in Requests \cup {Nobody} /\ tokenCount \in Counts \cup {NoCount}
  /\ sent = Nobody \/ sent.url \in DOMAIN Lists \cup {p.url : p \in server.providers}

Answering == {u \in URLs : result[u].status = "ok"}
HasOnce(entries, e) == Cardinality({i \in DOMAIN entries : entries[i] = e}) = 1
InSome(e) == \E u \in Answering : e \in Ids(Lists[u])

\* "Lists available models (includes -FLASH variants)": in whatever order the
\* backends answer, whichever fail, and whether or not the client waits, the
\* list has every model of every backend that answered exactly once, its clone
\* directly behind it, and nothing else.  (Of backends that list no name with
\* the suffix themselves.)
CompleteList ==
  phase \in {"listed", "asked", "counted", "forwarded"} =>
    /\ \A u \in Answering : \A e \in Ids(Lists[u]) : HasOnce(merged, e)
    /\ \A i \in DOMAIN merged : merged[i] # NoId =>
         IF IsFlashModel(merged[i])
         THEN i > 1 /\ merged[i - 1] = StripFlash(merged[i])
         ELSE InSome(merged[i]) /\ merged[i + 1] = Name(merged[i].base, 1)

\* No goroutine of HandleModels outlives it, nor finds the channel closed.
NoneLeftBehind ==
  closed => active = {} /\ \A u \in URLs : result[u] # Pending

\* The state of the gathering, with both: the list is complete and the
\* goroutines that made it are gone.
ListInv == TypeOK /\ CompleteList /\ NoneLeftBehind

Forwarded == phase = "forwarded"
Overridden == \E i \in DOMAIN server.rules :
  /\ server.rules[i].source = sent.body.model /\ tokenCount >= server.rules[i].threshold
  /\ sent.url = FindBackend(server.rules[i].target).url

\* A model from the list, clone or not, is served: its request reaches a
\* backend under a name that this backend lists, unless a routing rule whose
\* threshold was reached sends it elsewhere.  (Models that a backend lists and
\* BACKENDS_MAP does not name go to the first backend.)
ListedIsServed ==
  (Forwarded /\ IsLocal(request) /\ request.model \in Ids(merged)
     /\ \E i \in DOMAIN server.backends : server.backends[i].name = Name(request.model.base, 0)) =>
    sent.body.model \in Ids(Lists[sent.url]) \/ Overridden

\* A request that is not to think, whether by its model, its effort or its
\* "thinking" field, is told so and gets neither a budget nor the instruction;
\* any other keeps the client's template arguments.
NoThinkingAtAll ==
  (Forwarded /\ IsLocal(request)) =>
    LET off == \/ request.model.flash > 0 \/ request.thinking = "disabled"
               \/ request.effort = "none" /\ request.handler # "generic"
    IN  IF off THEN sent.body = Body(sent.body.model, "no thinking", NoBudget, FALSE)
        ELSE sent.body.template = request.template

\* The thinking budget leaves room for an answer in what the client allows.
RoomForAnswer ==
  (Forwarded /\ sent.body.budget # NoBudget) =>
    /\ sent.body.budget >= 0
    /\ request.maxTokens > 0 => sent.body.budget < request.maxTokens

\* What is meant for another provider goes to it and nowhere else, with model,
\* template arguments and thinking as the client has them.
ProviderUntouched ==
  (Forwarded /\ ~IsLocal(request)) =>
    /\ \E p \in server.providers : p.name = request.provider /\ p.url = sent.url
    /\ [sent.body EXCEPT !.instruction = FALSE] = AsSent(request)

\* Every pass over the body reaches what is sent, and none reaches a body it is
\* not for.
BodyInv == NoThinkingAtAll /\ RoomForAnswer /\ ProviderUntouched

\* What the properties of the list and of the bodies take for granted of the
\* deployment: that no backend lists a name with the suffix, that a backend
\* lists the model it is configured for (the first of its name), and that
\* THINKING_BUDGET, which the proxy reads without checking it, is less than 1.
NoFlashListed == \A u \in DOMAIN Lists : \A e \in Ids(Lists[u]) : ~IsFlashModel(e)
ListsItsModel ==
  \A c \in Configs : \A i \in DOMAIN c.backends :
    \/ \E j \in 1..(i - 1) : c.backends[j].name = c.backends[i].name
    \/ c.backends[i].name \in Ids(Lists[c.backends[i].url])
FractionOfMax == FractionTenths < 10

\* The list is answered once every backend has, and when the client goes,
\* silent backends or not.
EventuallyListed ==
  (phase = "collecting" /\ (silent = {} \/ gone)) ~> phase = "listed"
=============================================================================
