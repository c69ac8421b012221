-------------------------- MODULE ProxyFrontProofs --------------------------
(***************************************************************************)
(* Proofs about ProxyFront, for any configuration of backends, providers    *)
(* and rules, any lists of the backends and any requests.                   *)
(***************************************************************************)
EXTENDS ProxyFront, TagTextProofs, FiniteSetTheorems

(* What is forwarded                                                        *)

\* The bodies that are forwarded fit their requests, and a request that is
\* being handled names a provider that is known.
RequestInv ==
  /\ server \in Configs
  /\ phase \in {"asked", "counted", "forwarded"} =>
       request \in Requests /\ Known(request.provider)
  /\ BodyInv

\* The thinking budget is a natural number below the client's max_tokens.
LEMMA BudgetFits ==
  ASSUME FractionOfMax, NEW r \in Requests
  PROVE  /\ ThinkingBudget(r) \in Nat
         /\ r.maxTokens > 0 => ThinkingBudget(r) < r.maxTokens
<1> DEFINE most == MaxTokens(r)
           effort == EffortTokenBudget(r.effort)
           cap == (most * FractionTenths) \div 10
<1>1. /\ most \in Nat \ {0} /\ r.maxTokens \in Int
      /\ r.maxTokens > 0 => most = r.maxTokens
  BY RequestAssumption DEF MaxTokens, DefaultMaxTokens
<1>2. effort \in Nat
  <2>1. DOMAIN EffortTokens = {"minimal", "low", "medium", "high", "xhigh"}
    BY DEF EffortTokens
  <2>2. \A e \in DOMAIN EffortTokens : EffortTokens[e] \in Nat
    BY <2>1 DEF EffortTokens
  <2> QED
    BY <2>2 DEF EffortTokenBudget
<1> HIDE DEF most, effort
<1>3. FractionTenths \in 0..9
  BY FractionAssumption DEF FractionOfMax
<1>4. cap \in Nat /\ cap < most
  <2>1. CASE FractionTenths = 0
    BY <1>1, <2>1
  <2>2. CASE FractionTenths # 0
    <3>1. most * FractionTenths \in Nat /\ most * FractionTenths <= most * 9
      BY <1>1, <1>3
    <3>2. ASSUME NEW a \in Nat, NEW b \in Nat \ {0}, a <= b * 9
          PROVE  a \div 10 \in Nat /\ a \div 10 < b
      BY <3>2
    <3> QED
      BY <1>1, <3>1, <3>2
  <2> QED
    BY <2>1, <2>2
<1> HIDE DEF cap
<1>5. Min({effort, cap}) \in {effort, cap} /\ Min({effort, cap}) <= cap
  BY <1>2, <1>4, MinOfNats
<1>6. ThinkingBudget(r) = Min({effort, cap})
  BY DEF ThinkingBudget, most, effort, cap
<1> QED
  BY <1>1, <1>2, <1>4, <1>5, <1>6

\* A body made for a local backend is one of four.
LEMMA LocalBodies ==
  ASSUME FractionOfMax, NEW r \in Requests
  PROVE  LET off == \/ r.model.flash > 0 \/ r.thinking = "disabled"
                    \/ r.effort = "none" /\ r.handler # "generic"
             b == LocalBody(r)
         IN  /\ off => \E m : b = Body(m, "no thinking", NoBudget, FALSE)
             /\ ~off => \E m, i : \/ b = Body(m, r.template, NoBudget, i)
                                  \/ b = Body(m, r.template, ThinkingBudget(r), i)
<1>1. CASE r.handler = "generic"
  BY <1>1 DEF LocalBody, DisableThinking, AsSent, Body, IsFlashModel
<1>2. CASE r.handler # "generic"
  BY <1>2 DEF LocalBody, DisableThinking, AsSent, Body, IsFlashModel, EffectiveFlash
<1> QED
  BY <1>1, <1>2

LEMMA BodyParts ==
  ASSUME NEW m, NEW t, NEW b, NEW i, NEW body, body = Body(m, t, b, i)
  PROVE  body.model = m /\ body.template = t /\ body.budget = b
BY DEF Body

LEMMA WithoutInstruction ==
  ASSUME NEW m, NEW t, NEW b, NEW i
  PROVE  [Body(m, t, b, i) EXCEPT !.instruction = FALSE] = Body(m, t, b, FALSE)
<1>1. PICK no : no = FALSE
  OBVIOUS
<1>2. [Body(m, t, b, i) EXCEPT !.instruction = no] = Body(m, t, b, no)
  BY DEF Body
<1> QED
  BY <1>1, <1>2, Zenon

LEMMA RequestInit == Init => RequestInv
BY DEF Init, RequestInv, BodyInv, NoThinkingAtAll, RoomForAnswer, ProviderUntouched,
       Forwarded

LEMMA RequestForward ==
  ASSUME FractionOfMax, RequestInv, Forward
  PROVE  RequestInv'
<1>1. /\ request' = request /\ server' = server /\ phase' = "forwarded"
      /\ request \in Requests /\ Known(request.provider)
  BY DEF Forward, RequestInv
<1>2. CASE IsLocal(request)
  <2>1. sent'.body = LocalBody(request) /\ IsLocal(request)'
    BY <1>1, <1>2 DEF Forward, IsLocal
  <2> DEFINE off == \/ request.model.flash > 0 \/ request.thinking = "disabled"
                    \/ request.effort = "none" /\ request.handler # "generic"
  <2>2. /\ off => \E m : sent'.body = Body(m, "no thinking", NoBudget, FALSE)
        /\ ~off => \E m, i :
             \/ sent'.body = Body(m, request.template, NoBudget, i)
             \/ sent'.body = Body(m, request.template, ThinkingBudget(request), i)
    BY <1>1, <2>1, LocalBodies
  <2> HIDE DEF off
  <2>3. PICK b : b = sent'.body
    OBVIOUS
  <2>4. NoThinkingAtAll'
    <3>1. ASSUME off
          PROVE  b = Body(b.model, "no thinking", NoBudget, FALSE)
      <4>1. PICK m : b = Body(m, "no thinking", NoBudget, FALSE)
        BY <2>2, <2>3, <3>1
      <4> QED
        BY <4>1 DEF Body
    <3>2. ASSUME ~off
          PROVE  b.template = request.template
      <4>1. PICK m, i : \/ b = Body(m, request.template, NoBudget, i)
                        \/ b = Body(m, request.template, ThinkingBudget(request), i)
        BY <2>2, <2>3, <3>2
      <4> QED
        BY <4>1, BodyParts
    <3> QED
      BY <1>1, <2>3, <3>1, <3>2 DEF NoThinkingAtAll, off
  <2>5. RoomForAnswer'
    <3>1. CASE off
      <4>1. PICK m : b = Body(m, "no thinking", NoBudget, FALSE)
        BY <2>2, <2>3, <3>1
      <4>2. b.budget = NoBudget
        BY <4>1 DEF Body
      <4> QED
        BY <1>1, <2>3, <4>2 DEF RoomForAnswer
    <3>2. CASE ~off
      <4>1. PICK m, i : \/ b = Body(m, request.template, NoBudget, i)
                        \/ b = Body(m, request.template, ThinkingBudget(request), i)
        BY <2>2, <2>3, <3>2
      <4>2. b.budget \in {NoBudget, ThinkingBudget(request)}
        BY <4>1, BodyParts
      <4> QED
        BY <1>1, <2>3, <4>2, BudgetFits DEF RoomForAnswer, NoBudget
    <3> QED
      BY <3>1, <3>2
  <2> QED
    BY <1>1, <2>1, <2>4, <2>5 DEF RequestInv, BodyInv, ProviderUntouched, Known
<1>3. CASE ~IsLocal(request)
  <2>1. /\ sent'.body = RemoteBody(request) /\ ~IsLocal(request)'
        /\ sent'.url = Provider(request.provider).url
    BY <1>1, <1>3 DEF Forward, IsLocal
  <2>2. PICK i : RemoteBody(request) = Body(request.model, request.template, NoBudget, i)
    BY DEF RemoteBody, AsSent, Body
  <2>3. \E p \in server.providers : p.name = request.provider
    BY <1>1, <1>3 DEF Known, IsLocal
  <2>4. /\ Provider(request.provider) \in server.providers
        /\ Provider(request.provider).name = request.provider
    BY <2>3 DEF Provider
  <2>5. NoThinkingAtAll'
    BY <2>1 DEF NoThinkingAtAll
  <2>6. RoomForAnswer'
    BY <2>1, <2>2 DEF RoomForAnswer, Body
  <2>7. ProviderUntouched'
    <3>1. PICK b : b = sent'.body
      OBVIOUS
    <3>2. b = Body(request.model, request.template, NoBudget, i)
      BY <2>1, <2>2, <3>1
    <3>3. [b EXCEPT !.instruction = FALSE] = AsSent(request)
      <4>1. [Body(request.model, request.template, NoBudget, i) EXCEPT !.instruction = FALSE]
              = AsSent(request)
        BY WithoutInstruction, Zenon DEF AsSent
      <4> QED
        BY <3>2, <4>1
    <3>4. [sent'.body EXCEPT !.instruction = FALSE] = AsSent(request)
      BY <3>1, <3>3
    <3>5. AsSent(request)' = AsSent(request)
      BY <1>1 DEF AsSent
    <3>6. \E p \in server.providers : p.name = request.provider /\ p.url = sent'.url
      BY <2>1, <2>4
    <3> QED
      BY <1>1, <3>4, <3>5, <3>6 DEF ProviderUntouched
  <2> QED
    BY <1>1, <2>5, <2>6, <2>7 DEF RequestInv, BodyInv, Known
<1> QED
  BY <1>2, <1>3

LEMMA RequestNext == ASSUME FractionOfMax PROVE RequestInv /\ [Next]_vars => RequestInv'
<1> SUFFICES ASSUME RequestInv, [Next]_vars
             PROVE  RequestInv'
  OBVIOUS
<1> USE DEF RequestInv
<1>1. ASSUME UNCHANGED << server, request, sent >>,
             phase' = phase \/ phase' \in {"collecting", "listed", "refused"}
      PROVE  RequestInv'
  BY <1>1 DEF BodyInv, NoThinkingAtAll, RoomForAnswer, ProviderUntouched, Forwarded,
              IsLocal, Known
<1>2. CASE HandleModels \/ CloseChannel \/ Collect \/ WriteList \/ Disconnect
  BY <1>1, <1>2 DEF HandleModels, CloseChannel, Collect, WriteList, Disconnect, fanout
<1>3. CASE \E u \in URLs : Query(u) \/ Return(u)
  BY <1>1, <1>3 DEF Query, Send, Return
<1>4. ASSUME NEW r \in Requests, Ask(r)
      PROVE  RequestInv'
  BY <1>4 DEF Ask, BodyInv, NoThinkingAtAll, RoomForAnswer, ProviderUntouched, Forwarded,
              Known
<1>5. CASE CountTokens
  BY <1>5 DEF CountTokens, BodyInv, NoThinkingAtAll, RoomForAnswer, ProviderUntouched,
              Forwarded, Known
<1>6. CASE UNCHANGED vars
  BY <1>1, <1>6 DEF vars
<1> QED
  BY <1>2, <1>3, <1>4, <1>5, <1>6, RequestForward DEF Next

\* Whatever the client asks and however the proxy is configured: a request
\* that is not to think is told so and gets neither a budget nor the
\* instruction, a thinking budget leaves room for an answer (THINKING_BUDGET
\* being less than 1, which the proxy does not check), and a request for
\* another provider goes there as it is.
THEOREM BodiesAlwaysFit ==
  ASSUME FractionOfMax
  PROVE  Spec => []BodyInv
<1>1. RequestInv => BodyInv
  BY DEF RequestInv
<1> QED
  BY <1>1, RequestInit, RequestNext, PTL DEF Spec
----------------------------------------------------------------------------
(* The list as a value: merging without repetitions, and the clones         *)

\* The merging of a list is a chain of additions.
LEMMA AdditionsChain ==
  ASSUME NEW base \in Seq(Names), NEW seq \in Seq(Names)
  PROVE  \E c \in [0..Len(seq) -> Seq(Names)] :
           /\ c[0] = base /\ c[Len(seq)] = FoldLeft(AddUnseen, base, seq)
           /\ \A i \in 1..Len(seq) : c[i] = AddUnseen(c[i - 1], seq[i])
<1> DEFINE n == Len(seq)
           V == Seq(Names)
           step == [p \in V \X (1..n) |-> AddUnseen(p[1], seq[p[2]])]
           Is(F) == F = [s \in SUBSET (1..n) |->
                           IF s = {} THEN base ELSE AddUnseen(F[s \ {Max(s)}], seq[Max(s)])]
<1>1. n \in Nat /\ DOMAIN seq = 1..n /\ \A i \in 1..n : seq[i] \in Names
  OBVIOUS
<1>2. \A m \in V, e \in Names : AddUnseen(m, e) \in V
  BY DEF AddUnseen
<1>3. step \in [V \X (1..n) -> V]
  BY <1>1, <1>2
<1>4. \A m \in V, i \in 1..n : step[<< m, i >>] = AddUnseen(m, seq[i])
  OBVIOUS
<1>5. FoldLeft(AddUnseen, base, seq) = (CHOOSE F : Is(F))[1..n]
  BY <1>1 DEF FoldLeft, MapThenFoldSet
<1>0. base \in V /\ n \in Nat
  BY <1>1
<1> HIDE DEF step, V, n
<1>6. PICK G : IsFold(G, V, base, n, step)
  BY <1>0, <1>3, FoldExists
<1>7. ASSUME NEW s \in SUBSET (1..n), s # {}
      PROVE  Max(s) \in 1..n /\ s \ {Max(s)} \in SUBSET (1..n)
  BY <1>1, <1>7, MaxOfPositions
<1>8. \A s \in SUBSET (1..n) :
        G[s] = IF s = {} THEN base ELSE AddUnseen(G[s \ {Max(s)}], seq[Max(s)])
  <2> TAKE s \in SUBSET (1..n)
  <2>1. CASE s = {}
    BY <1>6, <2>1 DEF IsFold
  <2>2. CASE s # {}
    <3>1. Max(s) \in 1..n /\ s \ {Max(s)} \in SUBSET (1..n)
      BY <1>7, <2>2
    <3>2. step[<< G[s \ {Max(s)}], Max(s) >>] = AddUnseen(G[s \ {Max(s)}], seq[Max(s)])
      BY <1>4, <1>6, <3>1 DEF IsFold
    <3> QED
      BY <1>6, <2>2, <3>2 DEF IsFold
  <2> QED
    BY <2>1, <2>2
<1>9. Is(G)
  BY <1>6, <1>8 DEF IsFold
<1> DEFINE F == CHOOSE F : Is(F)
<1>10. Is(F)
  <2> HIDE DEF Is
  <2> QED
    BY <1>9
<1> HIDE DEF F
<1>11. \A s \in SUBSET (1..n) :
         F[s] = IF s = {} THEN base ELSE AddUnseen(F[s \ {Max(s)}], seq[Max(s)])
  BY <1>10
<1> DEFINE c == [i \in 0..n |-> F[1..i]]
<1>12. \A i \in 0..n : 1..i \in SUBSET (1..n)
  BY <1>1
<1>13. c[0] = base /\ c[n] = F[1..n]
  <2>1. 0 \in 0..n /\ n \in 0..n /\ 1..0 = {}
    BY <1>1
  <2>2. F[{}] = base
    BY <1>11, <1>12, <2>1
  <2> QED
    BY <2>1, <2>2
<1>14. ASSUME NEW i \in 1..n
       PROVE  c[i] = AddUnseen(c[i - 1], seq[i])
  <2>1. i \in Nat \ {0} /\ i \in 0..n /\ i - 1 \in 0..n
    BY <1>1
  <2>2. Max(1..i) = i /\ (1..i) \ {i} = 1..(i - 1) /\ 1..i # {}
    BY <2>1, MaxUpTo
  <2>3. 1..i \in SUBSET (1..n)
    BY <1>12, <2>1
  <2>4. F[1..i] = AddUnseen(F[1..(i - 1)], seq[i])
    BY <1>11, <2>2, <2>3
  <2> QED
    BY <2>1, <2>4
<1>15. c \in [0..n -> V]
  <2> DEFINE S == {i \in 0..n : c[i] \in V}
  <2>1. 0 \in S
    BY <1>1, <1>13 DEF V
  <2>2. ASSUME NEW i \in 1..n, i - 1 \in S
        PROVE  i \in S
    <3>1. c[i - 1] \in V /\ i \in 0..n /\ seq[i] \in Names
      BY <1>1, <2>2
    <3> HIDE DEF c
    <3>2. c[i] \in V
      BY <1>2, <1>14, <3>1
    <3> QED
      BY <3>1, <3>2
  <2> HIDE DEF S
  <2>3. \A i \in 0..n : i \in S
    BY <1>1, <2>1, <2>2, InductionUpTo
  <2> QED
    BY <2>3 DEF S
<1>16. c[n] = FoldLeft(AddUnseen, base, seq)
  BY <1>5, <1>13 DEF F
<1> HIDE DEF c
<1> QED
  BY <1>13, <1>14, <1>15, <1>16 DEF V, n

\* Every name of a list is there once.
EachOnce(entries) ==
  \A i, j \in DOMAIN entries : entries[i] # NoId /\ entries[i] = entries[j] => i = j

\* What is merged has the names of both, and each once if it had.
LEMMA Merging ==
  ASSUME NEW base \in Seq(Names), NEW seq \in Seq(Names), EachOnce(base)
  PROVE  LET m == FoldLeft(AddUnseen, base, seq)
         IN  m \in Seq(Names) /\ EachOnce(m) /\ Ids(m) = Ids(base) \cup Ids(seq)
<1>1. PICK c \in [0..Len(seq) -> Seq(Names)] :
        /\ c[0] = base /\ c[Len(seq)] = FoldLeft(AddUnseen, base, seq)
        /\ \A i \in 1..Len(seq) : c[i] = AddUnseen(c[i - 1], seq[i])
  BY AdditionsChain
<1> DEFINE Upto(i) == {seq[j] : j \in 1..i} \ {NoId}
           S == {i \in 0..Len(seq) : EachOnce(c[i]) /\ Ids(c[i]) = Ids(base) \cup Upto(i)}
<1>2. 0 \in S
  <2>1. Upto(0) = {}
    OBVIOUS
  <2> QED
    BY <1>1, <2>1
<1>3. ASSUME NEW i \in 1..Len(seq), i - 1 \in S
      PROVE  i \in S
  <2> DEFINE m == c[i - 1]
             e == seq[i]
  <2>1. /\ m \in Seq(Names) /\ EachOnce(m) /\ Ids(m) = Ids(base) \cup Upto(i - 1)
        /\ c[i] = AddUnseen(m, e) /\ i \in 0..Len(seq) /\ e \in Names
    BY <1>1, <1>3
  <2>2. Upto(i) = (Upto(i - 1) \cup {e}) \ {NoId}
    <3>1. 1..i = (1..(i - 1)) \cup {i}
      OBVIOUS
    <3> QED
      BY <3>1
  <2> HIDE DEF m, e, Upto
  <2>3. CASE e \in Ids(m)
    <3>1. c[i] = m
      BY <2>1, <2>3 DEF AddUnseen
    <3>2. e # NoId
      BY <2>3 DEF Ids
    <3> QED
      BY <2>1, <2>2, <2>3, <3>1, <3>2
  <2>4. CASE e \notin Ids(m)
    <3>1. c[i] = Append(m, e)
      BY <2>1, <2>4 DEF AddUnseen
    <3>2. /\ DOMAIN Append(m, e) = DOMAIN m \cup {Len(m) + 1}
          /\ \A k \in DOMAIN m : Append(m, e)[k] = m[k]
          /\ Append(m, e)[Len(m) + 1] = e
      BY <2>1
    <3>3. Ids(Append(m, e)) = (Ids(m) \cup {e}) \ {NoId}
      BY <3>2 DEF Ids
    <3>4. EachOnce(Append(m, e))
      BY <2>1, <2>4, <3>2 DEF EachOnce, Ids
    <3>5. NoId \notin Ids(base)
      BY DEF Ids
    <3>6. Ids(Append(m, e)) = Ids(base) \cup Upto(i)
      BY <2>1, <2>2, <3>3, <3>5
    <3> QED
      BY <2>1, <3>1, <3>4, <3>6
  <2> QED
    BY <2>3, <2>4
<1> HIDE DEF S
<1>4. \A i \in 0..Len(seq) : i \in S
  <2>1. Len(seq) \in Nat
    OBVIOUS
  <2> QED
    BY <1>2, <1>3, <2>1, InductionUpTo
<1>5. Len(seq) \in S
  <2>1. Len(seq) \in Nat
    OBVIOUS
  <2> QED
    BY <1>4, <2>1
<1>6. Upto(Len(seq)) = Ids(seq)
  BY DEF Ids
<1> QED
  BY <1>1, <1>5, <1>6 DEF S

\* out lists the given names, none of which is a clone's: each once, its clone
\* directly behind it, and no other clone.
WellListed(out, names) ==
  /\ out \in Seq(Names)
  /\ \A k \in DOMAIN out : out[k] # NoId =>
       IF IsFlashModel(out[k])
       THEN k > 1 /\ out[k].flash = 1 /\ out[k - 1] = StripFlash(out[k])
       ELSE k < Len(out) /\ out[k + 1] = Name(out[k].base, 1) /\ out[k] \in names
  /\ \A e \in names : \E k \in DOMAIN out : out[k] = e
  /\ \A k, l \in DOMAIN out :
       out[k] # NoId /\ ~IsFlashModel(out[k]) /\ out[k] = out[l] => k = l

LEMMA InjectionStep ==
  ASSUME NEW out, NEW names, WellListed(out, names),
         NEW e \in Names, ~IsFlashModel(e), e \notin names
  PROVE  WellListed(out \o (<< e >> \o CloneOf(e)), (names \cup {e}) \ {NoId})
<1> DEFINE L == Len(out)
           both == (names \cup {e}) \ {NoId}
<1>1. PICK w : w = out \o (<< e >> \o CloneOf(e))
  OBVIOUS
<1>2. out \in Seq(Names) /\ L \in Nat /\ DOMAIN out = 1..L /\ e \in Names
      /\ e.flash = 0 /\ StripFlash(e) = e /\ ~IsFlashModel(e)
  BY DEF WellListed, IsFlashModel, StripFlash, Names
<1>3. /\ w \in Seq(Names)
      /\ \A k \in 1..L : w[k] = out[k]
      /\ w[L + 1] = e
      /\ e = NoId => Len(w) = L + 1
      /\ e # NoId => Len(w) = L + 2 /\ w[L + 2] = Name(e.base, 1)
  <2>1. CASE e = NoId
    <3>1. CloneOf(e) = << >>
      BY <2>1 DEF CloneOf
    <3>2. << e >> \o << >> = << e >>
      BY <1>2
    <3>3. w = out \o << e >>
      BY <1>1, <3>1, <3>2
    <3>4. << e >> \in Seq(Names) /\ Len(<< e >>) = 1 /\ << e >>[1] = e
      BY <1>2
    <3> QED
      BY <1>2, <2>1, <3>3, <3>4, Joined
  <2>2. CASE e # NoId
    <3>1. CloneOf(e) = << Name(e.base, 1) >>
      BY <1>2, <2>2 DEF CloneOf
    <3>2. PICK d : d = Name(e.base, 1)
      OBVIOUS
    <3>3. d \in Names
      BY <1>2, <3>2 DEF Name, Names
    <3>4. PICK b : b = << e >> \o << d >>
      OBVIOUS
    <3>5. b \in Seq(Names) /\ Len(b) = 2 /\ b[1] = e /\ b[2] = d
      BY <1>2, <3>3, <3>4
    <3>6. w = out \o b
      BY <1>1, <3>1, <3>2, <3>4
    <3>7. /\ w \in Seq(Names) /\ Len(w) = L + Len(b)
          /\ \A k \in 1..L : w[k] = out[k]
          /\ \A k \in 1..Len(b) : w[L + k] = b[k]
      <4>1. out \in Seq(Names) /\ b \in Seq(Names)
        BY <1>2, <3>5
      <4>2. /\ out \o b \in Seq(Names) /\ Len(out \o b) = L + Len(b)
            /\ \A k \in 1..L : (out \o b)[k] = out[k]
            /\ \A k \in 1..Len(b) : (out \o b)[L + k] = b[k]
        BY <4>1, Joined
      <4> QED
        BY <3>6, <4>2
    <3>8. w[L + 1] = b[1] /\ w[L + 2] = b[2]
      BY <3>5, <3>7
    <3> QED
      BY <2>2, <3>2, <3>5, <3>7, <3>8
  <2> QED
    BY <2>1, <2>2
<1> HIDE DEF L
<1>4. PICK n : n = Len(w)
  OBVIOUS
<1>5. /\ DOMAIN w = 1..n /\ L \in Nat /\ n \in Nat
      /\ e = NoId => n = L + 1
      /\ e # NoId => n = L + 2
  BY <1>2, <1>3, <1>4
\* The clone.
<1>6. ASSUME e # NoId
      PROVE  /\ Name(e.base, 1) # NoId /\ IsFlashModel(Name(e.base, 1))
             /\ Name(e.base, 1).flash = 1 /\ StripFlash(Name(e.base, 1)) = e
  <2>1. e = Name(e.base, 0)
    BY <1>2 DEF Names, Name
  <2>2. Name(e.base, 1).flash = 1 /\ Name(e.base, 1).base = e.base
    BY DEF Name
  <2>3. NoId.flash = 0
    BY DEF NoId, Name
  <2> QED
    BY <2>1, <2>2, <2>3 DEF IsFlashModel, StripFlash
\* What was listed is not listed again.
<1>7. ASSUME NEW k \in 1..L, out[k] # NoId, ~IsFlashModel(out[k])
      PROVE  out[k] # e /\ out[k] \in both
  BY <1>2, <1>7 DEF WellListed
<1>8. ASSUME NEW k \in DOMAIN w, w[k] # NoId
      PROVE  IF IsFlashModel(w[k])
             THEN k > 1 /\ w[k].flash = 1 /\ w[k - 1] = StripFlash(w[k])
             ELSE /\ k < n /\ w[k + 1] = Name(w[k].base, 1)
                  /\ w[k] \in both
  <2>1. CASE k \in 1..L
    <3>1. w[k] = out[k]
      BY <1>3, <2>1
    <3>2. CASE IsFlashModel(out[k])
      <4>1. k > 1 /\ out[k].flash = 1 /\ out[k - 1] = StripFlash(out[k])
        BY <1>2, <1>8, <2>1, <3>1, <3>2 DEF WellListed
      <4>2. k - 1 \in 1..L
        BY <1>2, <2>1, <4>1
      <4> QED
        BY <1>3, <3>1, <3>2, <4>1, <4>2
    <3>3. CASE ~IsFlashModel(out[k])
      <4>1. k < L /\ out[k + 1] = Name(out[k].base, 1)
        BY <1>2, <1>8, <2>1, <3>1, <3>3 DEF WellListed, L
      <4>2. k + 1 \in 1..L /\ k < n
        BY <1>5, <2>1, <4>1
      <4>3. out[k] \in both
        BY <1>7, <1>8, <2>1, <3>1, <3>3
      <4> QED
        BY <1>3, <3>1, <3>3, <4>1, <4>2, <4>3
    <3> QED
      BY <3>2, <3>3
  <2>2. CASE k = L + 1
    <3>1. w[k] = e /\ e # NoId /\ k < n /\ w[k + 1] = Name(e.base, 1)
      BY <1>3, <1>5, <1>8, <2>2
    <3> QED
      BY <1>2, <3>1
  <2>3. CASE k = L + 2
    <3>1. e # NoId /\ w[k] = Name(e.base, 1) /\ k > 1 /\ w[k - 1] = e
      BY <1>3, <1>5, <2>3
    <3> QED
      BY <1>6, <3>1
  <2> QED
    BY <1>5, <2>1, <2>2, <2>3
<1>9. ASSUME NEW x \in both
      PROVE  \E k \in DOMAIN w : w[k] = x
  <2>1. CASE x = e
    <3>1. L + 1 \in DOMAIN w
      BY <1>5
    <3> QED
      BY <1>3, <2>1, <3>1
  <2>2. CASE x # e
    <3>1. PICK k \in DOMAIN out : out[k] = x
      BY <1>9, <2>2 DEF WellListed
    <3>2. k \in 1..L /\ k \in DOMAIN w
      BY <1>2, <1>3, <1>5, <3>1
    <3> QED
      BY <1>3, <3>1, <3>2
  <2> QED
    BY <2>1, <2>2
<1>10. ASSUME NEW k \in DOMAIN w, w[k] # NoId, ~IsFlashModel(w[k])
       PROVE  k \in 1..L \/ k = L + 1
  <2>1. k # L + 2
    <3> SUFFICES ASSUME k = L + 2
                 PROVE  FALSE
      OBVIOUS
    <3>1. e # NoId /\ w[k] = Name(e.base, 1)
      BY <1>3, <1>5
    <3> QED
      BY <1>6, <1>10, <3>1
  <2> QED
    BY <1>5, <2>1
<1>11. ASSUME NEW k \in DOMAIN w, NEW l \in DOMAIN w,
              w[k] # NoId, ~IsFlashModel(w[k]), w[k] = w[l]
       PROVE  k = l
  <2>1. (k \in 1..L \/ k = L + 1) /\ (l \in 1..L \/ l = L + 1)
    BY <1>10, <1>11
  <2>2. CASE k \in 1..L /\ l \in 1..L
    BY <1>2, <1>3, <1>11, <2>2 DEF WellListed
  <2>3. CASE k \in 1..L /\ l = L + 1
    BY <1>3, <1>7, <1>11, <2>3
  <2>4. CASE k = L + 1 /\ l \in 1..L
    BY <1>3, <1>7, <1>11, <2>4
  <2> QED
    BY <2>1, <2>2, <2>3, <2>4
<1>12. WellListed(w, both)
  BY <1>3, <1>4, <1>8, <1>9, <1>11 DEF WellListed
<1> QED
  BY <1>1, <1>12

\* The list with its clones.
LEMMA Injecting ==
  ASSUME NEW entries \in Seq(Names), EachOnce(entries),
         \A j \in DOMAIN entries : ~IsFlashModel(entries[j])
  PROVE  WellListed(InjectFlashModels(entries), Ids(entries))
<1> DEFINE n == Len(entries)
           seqs == [i \in DOMAIN entries |-> << entries[i] >> \o CloneOf(entries[i])]
           Upto(i) == {entries[j] : j \in 1..i} \ {NoId}
<1>1. n \in Nat /\ DOMAIN entries = 1..n
  OBVIOUS
<1>2. WellListed(<< >>, Upto(0))
  <2>1. Upto(0) = {}
    OBVIOUS
  <2> HIDE DEF Upto
  <2> QED
    BY <2>1 DEF WellListed
<1>3. ASSUME NEW i \in 1..n, NEW out, WellListed(out, Upto(i - 1))
      PROVE  WellListed(out \o (<< entries[i] >> \o CloneOf(entries[i])), Upto(i))
  <2>1. PICK e : e = entries[i]
    OBVIOUS
  <2>2. e \in Names /\ ~IsFlashModel(e)
    BY <1>1, <2>1
  <2>3. Upto(i) = (Upto(i - 1) \cup {e}) \ {NoId}
    <3>1. 1..i = (1..(i - 1)) \cup {i}
      BY <1>1
    <3> QED
      BY <2>1, <3>1
  <2>4. e \notin Upto(i - 1)
    <3>1. ASSUME NEW j \in 1..(i - 1), entries[j] # NoId, entries[j] = e
          PROVE  FALSE
      <4>1. j \in DOMAIN entries /\ i \in DOMAIN entries /\ j # i
        BY <1>1
      <4> QED
        BY <2>1, <3>1, <4>1 DEF EachOnce
    <3> QED
      BY <3>1
  <2> HIDE DEF Upto
  <2>5. WellListed(out \o (<< e >> \o CloneOf(e)), (Upto(i - 1) \cup {e}) \ {NoId})
    BY <1>3, <2>2, <2>4, InjectionStep
  <2> QED
    BY <2>1, <2>3, <2>5
<1>4. seqs \in Seq(Seq(Names)) /\ Len(seqs) = n
  <2>1. ASSUME NEW i \in 1..n
        PROVE  << entries[i] >> \o CloneOf(entries[i]) \in Seq(Names)
    <3>1. entries[i] \in Names
      OBVIOUS
    <3>2. Name(entries[i].base, entries[i].flash + 1) \in Names
      BY <3>1 DEF Names, Name
    <3>3. CloneOf(entries[i]) \in Seq(Names)
      BY <3>2 DEF CloneOf
    <3> QED
      BY <3>1, <3>3
  <2>2. seqs \in [1..n -> Seq(Names)]
    BY <1>1, <2>1
  <2> HIDE DEF seqs
  <2> QED
    BY <1>1, <2>2
<1>5. \A i \in 1..n : seqs[i] = << entries[i] >> \o CloneOf(entries[i])
  BY <1>1
<1>6. InjectFlashModels(entries) = FlattenSeq(seqs)
  BY DEF InjectFlashModels
<1>7. Upto(n) = Ids(entries)
  BY <1>1 DEF Ids
<1> HIDE DEF seqs, n, Upto
<1>8. CASE n = 0
  <2>1. seqs = << >> /\ FlattenSeq(seqs) = << >>
    BY <1>4, <1>8 DEF FlattenSeq
  <2> QED
    BY <1>2, <1>6, <1>7, <1>8, <2>1
<1>9. CASE n # 0
  <2>1. seqs # << >>
    BY <1>4, <1>9
  <2>2. PICK c \in [1..n -> Seq(Names)] :
          /\ c[1] = seqs[1] /\ c[n] = FlattenSeq(seqs)
          /\ \A i \in 2..n : c[i] = c[i - 1] \o seqs[i]
    BY <1>4, <2>1, FlattenChain
  <2> DEFINE S == {i \in 0..n : i # 0 => WellListed(c[i], Upto(i))}
  <2>3. 0 \in S
    BY <1>1
  <2>4. ASSUME NEW i \in 1..n, i - 1 \in S
        PROVE  i \in S
    <3>1. i \in 0..n
      BY <1>1
    <3>2. CASE i = 1
      <4>1. WellListed(<< >>, Upto(i - 1))
        BY <1>2, <3>2
      <4>2. WellListed(<< >> \o (<< entries[i] >> \o CloneOf(entries[i])), Upto(i))
        BY <1>3, <4>1
      <4>3. << >> \o seqs[i] = seqs[i]
        BY <1>4
      <4>4. WellListed(c[i], Upto(i))
        BY <1>5, <2>2, <3>2, <4>2, <4>3
      <4> QED
        BY <3>1, <4>4
    <3>3. CASE i # 1
      <4>1. WellListed(c[i - 1], Upto(i - 1)) /\ i \in 2..n
        BY <1>1, <2>4, <3>3
      <4>2. WellListed(c[i - 1] \o (<< entries[i] >> \o CloneOf(entries[i])), Upto(i))
        BY <1>3, <4>1
      <4>3. WellListed(c[i], Upto(i))
        BY <1>5, <2>2, <4>1, <4>2
      <4> QED
        BY <3>1, <4>3
    <3> QED
      BY <3>2, <3>3
  <2> HIDE DEF S
  <2>5. \A i \in 0..n : i \in S
    BY <1>1, <2>3, <2>4, InductionUpTo
  <2>6. WellListed(c[n], Upto(n))
    BY <1>1, <1>9, <2>5 DEF S
  <2> QED
    BY <1>6, <1>7, <2>2, <2>6
<1> QED
  BY <1>8, <1>9

----------------------------------------------------------------------------
(* The gathering of the list                                                *)

Past == {"listed", "asked", "counted", "forwarded"}
Answered == {u \in URLs : result[u] # Pending}
Results == [status : {"pending", "failed", "ok"}, data : Seq(Names)]

\* What a phase says about the goroutines, the channel and the list; a result
\* in the channel is one that a goroutine sent.
GatherInv ==
  /\ server \in Configs /\ silent \subseteq URLs /\ gone \in BOOLEAN
  /\ phase \in {"idle", "collecting", "refused"} \cup Past
  /\ DOMAIN result = URLs /\ \A u \in URLs : result[u] \in {Pending, Failed, Listing(u)}
  /\ active \subseteq URLs /\ closed \in BOOLEAN
  /\ ch \in Seq(Results) /\ Len(ch) <= Cardinality(Answered)
  /\ NoneLeftBehind
  /\ phase = "idle" => ~closed /\ ch = << >> /\ merged = << >> /\ Answered = {}
  /\ phase # "collecting" => active = {}
  /\ phase = "collecting" => URLs \ Answered \subseteq active
  /\ phase \in {"collecting"} \cup Past => URLs # {}
  /\ phase \in Past => closed /\ ch = << >>

\* The names that came from a backend are those merged and those in the
\* channel; once written, the list has them with their clones.
Listed == UNION {Ids(Lists[u]) : u \in Answering}
InChannel == UNION {Ids(ch[k].data) : k \in DOMAIN ch}
MergeInv ==
  /\ phase \in {"idle", "collecting"} =>
       /\ merged \in Seq(Names) /\ EachOnce(merged)
       /\ Ids(merged) \cup InChannel = Listed
  /\ phase \in Past => WellListed(merged, Listed)

LEMMA URLsListed ==
  ASSUME server \in Configs
  PROVE  URLs \subseteq DOMAIN Lists /\ IsFiniteSet(URLs)
<1> DEFINE n == Len(server.backends)
           f == [i \in 1..n |-> server.backends[i].url]
<1>1. server.backends \in Seq(Backends) /\ n \in Nat /\ DOMAIN server.backends = 1..n
  BY ConfigAssumption
<1>2. \A i \in 1..n : server.backends[i].url \in DOMAIN Lists
  <2>1. \A i \in 1..n : server.backends[i] \in Backends
    BY <1>1
  <2> QED
    BY <2>1 DEF Backends
<1>3. URLs = {server.backends[i].url : i \in 1..n}
  BY <1>1 DEF URLs
<1>4. f \in Surjection(1..n, URLs)
  <2>1. f \in [1..n -> URLs] /\ \A u \in URLs : \E i \in 1..n : f[i] = u
    BY <1>3
  <2> HIDE DEF f
  <2> QED
    BY <2>1 DEF Surjection
<1>5. IsFiniteSet(1..n)
  BY <1>1, FS_Interval
<1> HIDE DEF f
<1>6. IsFiniteSet(URLs)
  BY <1>4, <1>5, FS_Surjection
<1> QED
  BY <1>2, <1>3, <1>6

\* The three kinds of result are told apart.
LEMMA ResultKinds ==
  /\ Pending.status = "pending" /\ Pending.data = << >>
  /\ Failed.status = "failed" /\ Failed.data = << >>
  /\ \A u : Listing(u).status = "ok" /\ Listing(u).data = Lists[u]
  /\ Failed # Pending /\ \A u : Listing(u) # Pending
<1>1. /\ Pending.status = "pending" /\ Pending.data = << >>
      /\ Failed.status = "failed" /\ Failed.data = << >>
  BY DEF Pending, Failed
<1>2. \A u : Listing(u).status = "ok" /\ Listing(u).data = Lists[u]
  BY DEF Listing
<1> QED
  BY <1>1, <1>2

\* No name is in an empty list.
LEMMA NoIds == Ids(<< >>) = {}
BY DEF Ids

LEMMA GatherInit == Init => GatherInv /\ MergeInv
<1> SUFFICES ASSUME Init
             PROVE  GatherInv /\ MergeInv
  OBVIOUS
<1>1. Answered = {} /\ Answering = {}
  BY ResultKinds DEF Init, Answered, Answering
<1>2. GatherInv
  <2>1. Cardinality(Answered) = 0
    BY <1>1, FS_EmptySet
  <2>2. ch \in Seq(Results) /\ Len(ch) = 0
    BY DEF Init
  <2>3. /\ DOMAIN result = URLs /\ \A u \in URLs : result[u] = Pending
        /\ server \in Configs /\ silent \subseteq URLs /\ gone = FALSE /\ phase = "idle"
        /\ active = {} /\ ch = << >> /\ closed = FALSE /\ merged = << >>
    BY DEF Init
  <2>4. Len(ch) <= Cardinality(Answered)
    BY <2>1, <2>2
  <2>5. NoneLeftBehind
    BY <2>3 DEF NoneLeftBehind
  <2> QED
    BY <1>1, <2>2, <2>3, <2>4, <2>5 DEF GatherInv, Past
<1>3. Listed = {} /\ InChannel = {} /\ Ids(merged) = {} /\ EachOnce(merged)
  BY <1>1 DEF Init, Listed, InChannel, Ids, EachOnce
<1>4. merged \in Seq(Names)
  BY DEF Init
<1> QED
  BY <1>2, <1>3, <1>4 DEF MergeInv, Init, Past

\* A step that leaves the goroutines and the list alone.
LEMMA GatherFrame ==
  ASSUME GatherInv, MergeInv, UNCHANGED << server, silent, fanout, merged >>,
         gone' \in BOOLEAN,
         \/ phase' = phase
         \/ phase \in Past /\ phase' \in Past \cup {"refused"}
  PROVE  GatherInv' /\ MergeInv'
<1>1. UNCHANGED << server, silent, result, active, ch, closed, merged >>
  BY DEF fanout
<1>2. URLs' = URLs
  BY <1>1 DEF URLs
<1>3. Answered' = Answered /\ Answering' = Answering
  BY <1>1, <1>2 DEF Answered, Answering
<1>4. Listed' = Listed /\ InChannel' = InChannel /\ NoneLeftBehind' = NoneLeftBehind
  BY <1>1, <1>2, <1>3 DEF Listed, InChannel, NoneLeftBehind
<1>5. GatherInv'
  BY <1>1, <1>2, <1>3, <1>4 DEF GatherInv, Past
<1>6. MergeInv'
  BY <1>1, <1>4 DEF MergeInv, GatherInv, Past
<1> QED
  BY <1>5, <1>6

LEMMA GatherBegin == ASSUME GatherInv, MergeInv, HandleModels PROVE GatherInv' /\ MergeInv'
<1>1. UNCHANGED << server, silent, gone, result, ch, closed, merged >> /\ phase = "idle"
  BY DEF HandleModels
<1>2. URLs' = URLs
  BY <1>1 DEF URLs
<1>3. Answered' = Answered /\ Answering' = Answering
  BY <1>1, <1>2 DEF Answered, Answering
<1>4. Listed' = Listed /\ InChannel' = InChannel
  BY <1>1, <1>2, <1>3 DEF Listed, InChannel
<1>5. GatherInv'
  <2>1. CASE URLs = {}
    BY <1>1, <1>2, <1>3, <2>1 DEF GatherInv, Past, HandleModels, NoneLeftBehind
  <2>2. CASE URLs # {}
    BY <1>1, <1>2, <1>3, <2>2 DEF GatherInv, Past, HandleModels, NoneLeftBehind
  <2> QED
    BY <2>1, <2>2
<1>6. MergeInv'
  <2>1. phase' \in {"refused", "collecting"}
    BY DEF HandleModels
  <2> QED
    BY <1>1, <1>4, <2>1 DEF MergeInv, Past
<1> QED
  BY <1>5, <1>6

LEMMA GatherSend ==
  ASSUME GatherInv, MergeInv, NEW u \in URLs, NEW res, u \in active, result[u] = Pending,
         res = Failed \/ res = Listing(u), Send(u, res)
  PROVE  GatherInv' /\ MergeInv'
<1>1. /\ UNCHANGED << server, silent, gone, phase, active, closed, merged >>
      /\ result' = [result EXCEPT ![u] = res] /\ ch' = Append(ch, res)
  BY DEF Send
<1>2. URLs' = URLs
  BY <1>1 DEF URLs
<1>3. phase = "collecting" /\ ~closed
  BY DEF GatherInv, NoneLeftBehind
<1>4. URLs \subseteq DOMAIN Lists /\ IsFiniteSet(URLs)
  BY URLsListed DEF GatherInv
<1>5. /\ res \in Results /\ res # Pending
      /\ res.data = IF res.status = "ok" THEN Lists[u] ELSE << >>
      /\ res.status \in {"ok", "failed"}
  <2>1. Lists[u] \in Seq(Names)
    BY <1>4, ListAssumption
  <2>2. CASE res = Failed
    BY <2>2, ResultKinds DEF Results, Failed
  <2>3. CASE res = Listing(u)
    BY <2>1, <2>3, ResultKinds DEF Results, Listing
  <2> QED
    BY <2>2, <2>3
<1>6. /\ DOMAIN result' = URLs /\ result'[u] = res
      /\ \A v \in URLs \ {u} : result'[v] = result[v]
  BY <1>1 DEF GatherInv
<1>7. /\ Answered' = Answered \cup {u} /\ u \notin Answered
      /\ Answering' = IF res.status = "ok" THEN Answering \cup {u} ELSE Answering
  BY <1>2, <1>5, <1>6, ResultKinds DEF Answered, Answering
<1>8. Answered \in SUBSET URLs /\ IsFiniteSet(Answered) /\ Cardinality(Answered) \in Nat
  BY <1>4, FS_Subset, FS_CardinalityType DEF Answered
<1>9. Cardinality(Answered') = Cardinality(Answered) + 1
  BY <1>7, <1>8, FS_AddElement
<1>10. ch' \in Seq(Results) /\ Len(ch') <= Cardinality(Answered')
  BY <1>1, <1>5, <1>8, <1>9 DEF GatherInv
<1>11. GatherInv'
  BY <1>1, <1>2, <1>3, <1>5, <1>6, <1>7, <1>10 DEF GatherInv, NoneLeftBehind, Past
<1>12. InChannel' = InChannel \cup Ids(res.data)
  <2>1. /\ DOMAIN ch' = DOMAIN ch \cup {Len(ch) + 1}
        /\ \A k \in DOMAIN ch : ch'[k] = ch[k]
        /\ ch'[Len(ch) + 1] = res
    BY <1>1, <1>5 DEF GatherInv
  <2> QED
    BY <2>1 DEF InChannel
<1>13. Listed' = Listed \cup Ids(res.data)
  <2>1. CASE res.status = "ok"
    BY <1>5, <1>7, <2>1 DEF Listed
  <2>2. CASE res.status # "ok"
    BY <1>5, <1>7, <2>2, NoIds DEF Listed
  <2> QED
    BY <2>1, <2>2
<1>14. MergeInv'
  BY <1>1, <1>3, <1>12, <1>13 DEF MergeInv, Past
<1> QED
  BY <1>11, <1>14

LEMMA GatherReturn ==
  ASSUME GatherInv, MergeInv, NEW u \in URLs, Return(u)
  PROVE  GatherInv' /\ MergeInv'
<1>1. /\ UNCHANGED << server, silent, gone, phase, result, ch, closed, merged >>
      /\ u \in active /\ u \in Answered /\ active' = active \ {u}
  BY DEF Return, Answered
<1>2. URLs' = URLs
  BY <1>1 DEF URLs
<1>3. Answered' = Answered /\ Answering' = Answering
  BY <1>1, <1>2 DEF Answered, Answering
<1>4. Listed' = Listed /\ InChannel' = InChannel
  BY <1>1, <1>2, <1>3 DEF Listed, InChannel
<1>5. phase = "collecting" /\ ~closed
  BY <1>1 DEF GatherInv, NoneLeftBehind
<1>6. GatherInv'
  BY <1>1, <1>2, <1>3, <1>5 DEF GatherInv, NoneLeftBehind, Past
<1> QED
  BY <1>1, <1>4, <1>6 DEF MergeInv

LEMMA GatherClose ==
  ASSUME GatherInv, MergeInv, CloseChannel
  PROVE  GatherInv' /\ MergeInv'
<1>1. /\ UNCHANGED << server, silent, gone, phase, result, active, ch, merged >>
      /\ closed' = TRUE /\ phase = "collecting" /\ active = {}
  BY DEF CloseChannel, WaitForAll
<1>2. URLs' = URLs
  BY <1>1 DEF URLs
<1>3. Answered' = Answered /\ Answering' = Answering
  BY <1>1, <1>2 DEF Answered, Answering
<1>4. Listed' = Listed /\ InChannel' = InChannel
  BY <1>1, <1>2, <1>3 DEF Listed, InChannel
<1>5. \A u \in URLs : result[u] # Pending
  BY <1>1 DEF GatherInv, Answered
<1>6. GatherInv'
  BY <1>1, <1>2, <1>3, <1>5 DEF GatherInv, NoneLeftBehind, Past
<1> QED
  BY <1>1, <1>4, <1>6 DEF MergeInv

LEMMA GatherCollect ==
  ASSUME GatherInv, MergeInv, Collect
  PROVE  GatherInv' /\ MergeInv'
<1>1. /\ UNCHANGED << server, silent, gone, phase, result, active, closed >>
      /\ ch' = Tail(ch) /\ phase = "collecting" /\ ch # << >>
      /\ merged' = FoldLeft(AddUnseen, merged, Head(ch).data)
  BY DEF Collect
<1>2. URLs' = URLs
  BY <1>1 DEF URLs
<1>3. Answered' = Answered /\ Answering' = Answering
  BY <1>1, <1>2 DEF Answered, Answering
<1>4. Listed' = Listed
  BY <1>1, <1>3 DEF Listed
<1>5. ch \in Seq(Results) /\ Head(ch) = ch[1] /\ Len(ch) \in Nat \ {0} /\ 1 \in DOMAIN ch
  BY <1>1 DEF GatherInv
<1>6. Head(ch).data \in Seq(Names)
  <2>1. ch[1] \in Results
    BY <1>5
  <2> QED
    BY <1>5, <2>1 DEF Results
<1>7. /\ Tail(ch) \in Seq(Results) /\ Len(Tail(ch)) = Len(ch) - 1
      /\ \A k \in 1..(Len(ch) - 1) : Tail(ch)[k] = ch[k + 1]
  BY <1>1, <1>5
<1>8. InChannel = Ids(Head(ch).data) \cup InChannel'
  <2>1. DOMAIN ch = 1..Len(ch) /\ DOMAIN ch' = 1..(Len(ch) - 1)
    BY <1>1, <1>5, <1>7
  <2>2. ASSUME NEW k \in DOMAIN ch, k # 1
        PROVE  k - 1 \in DOMAIN ch' /\ ch'[k - 1] = ch[k]
    <3>1. PICK n : n = Len(ch)
      OBVIOUS
    <3>2. k - 1 \in 1..(n - 1) /\ (k - 1) + 1 = k
      BY <1>5, <2>1, <2>2, <3>1
    <3> QED
      BY <1>1, <1>7, <2>1, <3>1, <3>2
  <2>3. ASSUME NEW k \in DOMAIN ch'
        PROVE  k + 1 \in DOMAIN ch /\ ch'[k] = ch[k + 1]
    <3>1. PICK n : n = Len(ch)
      OBVIOUS
    <3>2. k \in 1..(n - 1) /\ k + 1 \in 1..n
      BY <1>5, <2>1, <2>3, <3>1
    <3> QED
      BY <1>1, <1>7, <2>1, <3>1, <3>2
  <2>4. InChannel' = UNION {Ids(ch'[k].data) : k \in DOMAIN ch'}
    BY DEF InChannel
  <2>5. ASSUME NEW x \in InChannel
        PROVE  x \in Ids(Head(ch).data) \cup InChannel'
    <3>1. PICK k \in DOMAIN ch : x \in Ids(ch[k].data)
      BY <2>5 DEF InChannel
    <3> QED
      BY <1>5, <2>2, <2>4, <3>1
  <2>6. ASSUME NEW x \in InChannel'
        PROVE  x \in InChannel
    <3>1. PICK k \in DOMAIN ch' : x \in Ids(ch'[k].data)
      BY <2>4, <2>6
    <3> QED
      BY <2>3, <3>1 DEF InChannel
  <2>7. Ids(Head(ch).data) \subseteq InChannel
    BY <1>5 DEF InChannel
  <2> QED
    BY <2>5, <2>6, <2>7
<1>9. /\ merged' \in Seq(Names) /\ EachOnce(merged')
      /\ Ids(merged') = Ids(merged) \cup Ids(Head(ch).data)
  BY <1>1, <1>6, Merging DEF MergeInv
<1>10. Cardinality(Answered) \in Nat
  <2>1. Answered \in SUBSET URLs /\ IsFiniteSet(URLs)
    BY URLsListed DEF GatherInv, Answered
  <2> QED
    BY <2>1, FS_Subset, FS_CardinalityType
<1>11. GatherInv'
  BY <1>1, <1>2, <1>3, <1>5, <1>7, <1>10 DEF GatherInv, NoneLeftBehind, Past
<1>12. MergeInv'
  BY <1>1, <1>4, <1>8, <1>9 DEF MergeInv, Past
<1> QED
  BY <1>11, <1>12

LEMMA GatherWrite ==
  ASSUME NoFlashListed, GatherInv, MergeInv, WriteList
  PROVE  GatherInv' /\ MergeInv'
<1>1. /\ UNCHANGED << server, silent, gone, result, active, ch, closed >>
      /\ phase = "collecting" /\ phase' = "listed" /\ ch = << >> /\ closed
      /\ merged' = InjectFlashModels(merged)
  BY DEF WriteList, fanout
<1>2. URLs' = URLs
  BY <1>1 DEF URLs
<1>3. Answered' = Answered /\ Answering' = Answering
  BY <1>1, <1>2 DEF Answered, Answering
<1>4. Listed' = Listed
  BY <1>1, <1>3 DEF Listed
<1>5. /\ merged \in Seq(Names) /\ EachOnce(merged) /\ Ids(merged) = Listed
  <2>1. DOMAIN ch = {}
    BY <1>1
  <2>2. InChannel = {}
    BY <2>1 DEF InChannel
  <2> QED
    BY <1>1, <2>2 DEF MergeInv
<1>6. \A e \in Listed : ~IsFlashModel(e)
  <2>1. Answering \subseteq DOMAIN Lists
    BY URLsListed DEF GatherInv, Answering
  <2> QED
    BY <2>1 DEF Listed, NoFlashListed
<1>7. \A j \in DOMAIN merged : ~IsFlashModel(merged[j])
  <2>1. ~IsFlashModel(NoId)
    BY DEF IsFlashModel, NoId, Name
  <2> QED
    BY <1>5, <1>6, <2>1 DEF Ids
<1>8. WellListed(merged', Listed)
  BY <1>1, <1>5, <1>7, Injecting
<1>9. GatherInv'
  BY <1>1, <1>2, <1>3 DEF GatherInv, NoneLeftBehind, Past
<1> QED
  BY <1>1, <1>4, <1>8, <1>9 DEF MergeInv

LEMMA GatherNext ==
  ASSUME NoFlashListed
  PROVE  GatherInv /\ MergeInv /\ [Next]_vars => GatherInv' /\ MergeInv'
<1> SUFFICES ASSUME GatherInv, MergeInv, [Next]_vars
             PROVE  GatherInv' /\ MergeInv'
  OBVIOUS
<1>1. CASE HandleModels
  BY <1>1, GatherBegin
<1>2. CASE CloseChannel
  BY <1>2, GatherClose
<1>3. CASE Collect
  BY <1>3, GatherCollect
<1>4. CASE WriteList
  BY <1>4, GatherWrite
<1>5. CASE Disconnect
  BY <1>5, GatherFrame DEF Disconnect
<1>6. ASSUME NEW u \in URLs, Query(u)
      PROVE  GatherInv' /\ MergeInv'
  <2>1. u \in active /\ result[u] = Pending /\ \E res \in {Failed, Listing(u)} : Send(u, res)
    BY <1>6 DEF Query
  <2> QED
    BY <2>1, GatherSend
<1>7. ASSUME NEW u \in URLs, Return(u)
      PROVE  GatherInv' /\ MergeInv'
  BY <1>7, GatherReturn
<1>8. ASSUME NEW r \in Requests, Ask(r)
      PROVE  GatherInv' /\ MergeInv'
  BY <1>8, GatherFrame DEF Ask, Past, GatherInv
<1>9. CASE CountTokens
  BY <1>9, GatherFrame DEF CountTokens, Past, GatherInv
<1>10. CASE Forward
  BY <1>10, GatherFrame DEF Forward, Past, GatherInv
<1>11. CASE UNCHANGED vars
  BY <1>11, GatherFrame DEF vars, GatherInv
<1> QED
  BY <1>1, <1>2, <1>3, <1>4, <1>5, <1>6, <1>7, <1>8, <1>9, <1>10, <1>11 DEF Next

\* A backend that is found is one of the server's; for a name that one of them
\* has it is the first of that name.
LEMMA BackendFound ==
  ASSUME server \in Configs, NEW model
  PROVE  /\ server.backends # << >> => FindBackend(model).url \in URLs
         /\ (\E i \in DOMAIN server.backends : server.backends[i].name = model) =>
              \E i \in DOMAIN server.backends :
                /\ FindBackend(model) = server.backends[i]
                /\ server.backends[i].name = model
                /\ \A j \in 1..(i - 1) : server.backends[j].name # model
<1> DEFINE n == Len(server.backends)
           named == {i \in DOMAIN server.backends : server.backends[i].name = model}
<1>1. n \in Nat /\ DOMAIN server.backends = 1..n
  BY ConfigAssumption
<1>2. ASSUME named # {}
      PROVE  \E i \in DOMAIN server.backends :
                /\ FindBackend(model) = server.backends[i]
                /\ server.backends[i].name = model
                /\ \A j \in 1..(i - 1) : server.backends[j].name # model
  <2>1. named \in SUBSET Nat
    BY <1>1
  <2>2. Min(named) \in named /\ \A j \in named : Min(named) <= j
    BY <1>2, <2>1, MinOfNats
  <2>3. FindBackend(model) = server.backends[Min(named)]
    BY <1>2 DEF FindBackend
  <2>4. PICK i : i = Min(named)
    OBVIOUS
  <2>5. i \in 1..n /\ server.backends[i].name = model
    BY <1>1, <2>2, <2>4
  <2>6. ASSUME NEW j \in 1..(i - 1)
        PROVE  server.backends[j].name # model
    <3>1. j \in 1..n /\ ~(i <= j)
      BY <1>1, <2>5
    <3>2. j \notin named
      BY <2>2, <2>4, <3>1
    <3> QED
      BY <1>1, <3>1, <3>2
  <2> QED
    BY <1>1, <2>3, <2>4, <2>5, <2>6
<1>3. ASSUME server.backends # << >>
      PROVE  FindBackend(model).url \in URLs
  <2>1. 1 \in DOMAIN server.backends
    <3>1. server.backends \in Seq(Backends)
      BY ConfigAssumption
    <3> QED
      BY <1>3, <3>1
  <2>2. CASE named = {}
    BY <1>3, <2>1, <2>2 DEF FindBackend, URLs
  <2>3. CASE named # {}
    BY <1>2, <2>3 DEF URLs
  <2> QED
    BY <2>2, <2>3
<1> QED
  BY <1>2, <1>3

\* Where a local request goes.
LEMMA LocalPlace ==
  ASSUME server \in Configs, URLs # {}, NEW r
  PROVE  LocalURL(r) \in URLs
<1>1. server.backends # << >>
  BY DEF URLs
<1> QED
  BY <1>1, BackendFound DEF LocalURL, OwnBackend

SentInv ==
  /\ request \in Requests \cup {Nobody} /\ tokenCount \in Counts \cup {NoCount}
  /\ phase \in {"asked", "counted", "forwarded"} =>
       request \in Requests /\ Known(request.provider)
  /\ sent = Nobody \/ sent.url \in DOMAIN Lists \cup {p.url : p \in server.providers}

LEMMA SentInit == Init => SentInv
BY DEF Init, SentInv

LEMMA SentFrame ==
  ASSUME SentInv, UNCHANGED << server, request, tokenCount, sent >>,
         phase' = phase \/ phase' \notin {"asked", "counted", "forwarded"}
  PROVE  SentInv'
BY DEF SentInv, Known

LEMMA SentNext == GatherInv /\ SentInv /\ [Next]_vars => SentInv'
<1> SUFFICES ASSUME GatherInv, SentInv, [Next]_vars
             PROVE  SentInv'
  OBVIOUS
<1>1. CASE HandleModels \/ CloseChannel \/ Collect \/ WriteList \/ Disconnect
  BY <1>1, SentFrame DEF HandleModels, CloseChannel, Collect, WriteList, Disconnect
<1>2. CASE \E u \in URLs : Query(u) \/ Return(u)
  BY <1>2, SentFrame DEF Query, Send, Return
<1>3. ASSUME NEW r \in Requests, Ask(r)
      PROVE  SentInv'
  BY <1>3 DEF Ask, SentInv, Known
<1>4. CASE CountTokens
  BY <1>4 DEF CountTokens, SentInv, Known
<1>5. CASE Forward
  <2>1. /\ UNCHANGED << server, request, tokenCount >> /\ phase = "counted"
        /\ phase' = "forwarded" /\ request \in Requests /\ Known(request.provider)
    BY <1>5 DEF Forward, SentInv
  <2>2. server \in Configs /\ URLs # {}
    BY <2>1 DEF GatherInv, Past
  <2>3. sent'.url \in DOMAIN Lists \cup {p.url : p \in server.providers}
    <3>1. CASE IsLocal(request)
      <4>1. sent'.url = LocalURL(request)
        BY <1>5, <3>1 DEF Forward
      <4> QED
        BY <2>2, <4>1, LocalPlace, URLsListed
    <3>2. CASE ~IsLocal(request)
      <4>1. sent'.url = Provider(request.provider).url
        BY <1>5, <3>2 DEF Forward
      <4>2. \E p \in server.providers : p.name = request.provider
        BY <2>1, <3>2 DEF Known, IsLocal
      <4>3. Provider(request.provider) \in server.providers
        BY <4>2 DEF Provider
      <4> QED
        BY <4>1, <4>3
    <3> QED
      BY <3>1, <3>2
  <2> QED
    BY <2>1, <2>3 DEF SentInv, Known
<1>6. CASE UNCHANGED vars
  BY <1>6, SentFrame DEF vars
<1> QED
  BY <1>1, <1>2, <1>3, <1>4, <1>5, <1>6 DEF Next

\* A well-made list is what the promise asks for.
LEMMA ListMeansComplete ==
  ASSUME NoFlashListed, GatherInv, MergeInv
  PROVE  CompleteList
<1> SUFFICES ASSUME phase \in Past
             PROVE  /\ \A u \in Answering : \A e \in Ids(Lists[u]) : HasOnce(merged, e)
                    /\ \A i \in DOMAIN merged : merged[i] # NoId =>
                         IF IsFlashModel(merged[i])
                         THEN i > 1 /\ merged[i - 1] = StripFlash(merged[i])
                         ELSE InSome(merged[i]) /\ merged[i + 1] = Name(merged[i].base, 1)
  BY DEF CompleteList, Past
<1>1. WellListed(merged, Listed)
  BY DEF MergeInv
<1>2. ASSUME NEW u \in Answering, NEW e \in Ids(Lists[u])
      PROVE  HasOnce(merged, e)
  <2>1. e \in Listed /\ e # NoId
    BY <1>2 DEF Listed, Ids
  <2>2. ~IsFlashModel(e)
    <3>1. u \in DOMAIN Lists
      BY <1>2, URLsListed DEF GatherInv, Answering
    <3> QED
      BY <1>2, <3>1 DEF NoFlashListed
  <2>3. PICK k \in DOMAIN merged : merged[k] = e
    BY <1>1, <2>1 DEF WellListed
  <2>4. \A l \in DOMAIN merged : merged[l] = e => k = l
    BY <1>1, <2>1, <2>2, <2>3 DEF WellListed
  <2>5. {i \in DOMAIN merged : merged[i] = e} = {k}
    BY <2>3, <2>4
  <2>6. Cardinality({k}) = 1
    BY FS_Singleton
  <2> QED
    BY <2>5, <2>6 DEF HasOnce
<1>3. ASSUME NEW e \in Listed
      PROVE  InSome(e)
  BY <1>3 DEF Listed, InSome
<1> QED
  BY <1>1, <1>2, <1>3 DEF WellListed

\* Every model of every backend that answered is listed exactly once, with its
\* clone behind it and nothing else, however the goroutines of HandleModels are
\* scheduled, whichever backends fail or stay silent and whether or not the
\* client waits; and none of these goroutines is left behind or finds the
\* channel closed.
THEOREM ListAlwaysComplete ==
  ASSUME NoFlashListed
  PROVE  Spec => []ListInv
<1>1. Init => GatherInv /\ MergeInv /\ SentInv
  BY GatherInit, SentInit
<1>2. GatherInv /\ MergeInv /\ SentInv /\ [Next]_vars => GatherInv' /\ MergeInv' /\ SentInv'
  BY GatherNext, SentNext
<1>3. GatherInv /\ MergeInv /\ SentInv => ListInv
  <2> SUFFICES ASSUME GatherInv, MergeInv, SentInv
               PROVE  ListInv
    OBVIOUS
  <2>1. Len(ch) <= Cardinality(URLs)
    <3>1. IsFiniteSet(URLs) /\ Answered \in SUBSET URLs
      BY URLsListed DEF GatherInv, Answered
    <3>2. /\ Cardinality(Answered) <= Cardinality(URLs)
          /\ Cardinality(Answered) \in Nat /\ Cardinality(URLs) \in Nat
      BY <3>1, FS_Subset, FS_CardinalityType
    <3>3. Len(ch) \in Nat /\ Len(ch) <= Cardinality(Answered)
      BY DEF GatherInv
    <3> QED
      BY <3>2, <3>3
  <2>2. TypeOK
    BY <2>1 DEF TypeOK, GatherInv, SentInv, Past
  <2>3. CompleteList /\ NoneLeftBehind
    BY ListMeansComplete DEF GatherInv
  <2> QED
    BY <2>2, <2>3 DEF ListInv
<1> QED
  BY <1>1, <1>2, <1>3, PTL DEF Spec

----------------------------------------------------------------------------
(* The models of the list and the requests for them                         *)

\* A name of a well-made list is an original's or its clone's.
LEMMA AtMostOneSuffix ==
  ASSUME NEW names, WellListed(merged, names), NEW model \in Ids(merged)
  PROVE  model \in Names /\ model.flash \in {0, 1} /\ StripFlash(model) = Name(model.base, 0)
<1>1. PICK k \in DOMAIN merged : merged[k] = model /\ merged[k] # NoId
  BY DEF Ids
<1>2. model \in Names
  BY <1>1 DEF WellListed
<1>3. model.flash \in {0, 1}
  <2>1. IsFlashModel(model) => model.flash = 1
    BY <1>1 DEF WellListed
  <2>2. model.flash \in Nat
    BY <1>2 DEF Names
  <2> QED
    BY <2>1, <2>2 DEF IsFlashModel
<1>4. StripFlash(model) = Name(model.base, 0)
  <2>1. CASE model.flash = 0
    BY <1>2, <2>1 DEF StripFlash, IsFlashModel, Names, Name
  <2>2. CASE model.flash = 1
    BY <2>2 DEF StripFlash, IsFlashModel
  <2> QED
    BY <1>3, <2>1, <2>2
<1> QED
  BY <1>2, <1>3, <1>4

\* All passes over the body together take the one suffix off.
LEMMA LocalModel ==
  ASSUME NEW r, NEW clean, StripFlash(r.model) = clean, StripFlash(clean) = clean
  PROVE  LocalBody(r).model = clean
<1>1. CASE r.handler = "generic"
  BY <1>1 DEF LocalBody, DisableThinking, AsSent, Body
<1>2. CASE r.handler # "generic"
  BY <1>2 DEF LocalBody, DisableThinking, AsSent, Body
<1> QED
  BY <1>1, <1>2

ServedInv == GatherInv /\ MergeInv /\ SentInv /\ ListedIsServed

LEMMA ServedForward ==
  ASSUME ListsItsModel, ServedInv, Forward
  PROVE  ListedIsServed'
<1>1. /\ UNCHANGED << server, request, merged, tokenCount >>
      /\ phase = "counted" /\ server \in Configs /\ WellListed(merged, Listed)
  BY DEF Forward, ServedInv, GatherInv, MergeInv, Past
<1> SUFFICES ASSUME IsLocal(request), request.model \in Ids(merged),
                    \E i \in DOMAIN server.backends :
                      server.backends[i].name = Name(request.model.base, 0)
             PROVE  sent'.body.model \in Ids(Lists[sent'.url]) \/ Overridden'
  BY <1>1 DEF ListedIsServed, IsLocal
<1>2. PICK clean : clean = Name(request.model.base, 0)
  OBVIOUS
<1>3. StripFlash(request.model) = clean /\ StripFlash(clean) = clean
  BY <1>1, <1>2, AtMostOneSuffix DEF StripFlash, IsFlashModel, Name
<1>4. /\ sent'.url = LocalURL(request)
      /\ sent'.body = LocalBody(request) /\ sent'.body.model = clean
  BY <1>3, LocalModel DEF Forward
<1>5. CASE Applying(request) = {}
  <2>1. sent'.url = FindBackend(clean).url
    BY <1>3, <1>4, <1>5 DEF LocalURL, OwnBackend
  <2>2. PICK i \in DOMAIN server.backends :
          /\ FindBackend(clean) = server.backends[i] /\ server.backends[i].name = clean
          /\ \A j \in 1..(i - 1) : server.backends[j].name # clean
    BY <1>1, <1>2, BackendFound
  <2>3. clean \in Ids(Lists[server.backends[i].url])
    BY <1>1, <2>2 DEF ListsItsModel
  <2> QED
    BY <1>4, <2>1, <2>2, <2>3
<1>6. CASE Applying(request) # {}
  <2>0. PICK i : i = Min(Applying(request))
    OBVIOUS
  <2>1. request.handler # "generic"
    BY <1>6 DEF Applying
  <2>2. Applying(request) \in SUBSET Nat
    <3>1. server.rules \in Seq(Rules)
      BY <1>1, ConfigAssumption
    <3>2. DOMAIN server.rules \in SUBSET Nat
      BY <3>1
    <3> QED
      BY <3>2 DEF Applying
  <2>3. i \in Applying(request)
    BY <1>6, <2>0, <2>2, MinOfNats
  <2>4. /\ i \in DOMAIN server.rules /\ server.rules[i].source = clean
        /\ tokenCount >= server.rules[i].threshold
    BY <1>3, <2>1, <2>3 DEF Applying, Applies
  <2>5. sent'.url = FindBackend(server.rules[i].target).url
    BY <1>4, <1>6, <2>0 DEF LocalURL
  <2>6. FindBackend(server.rules[i].target)' = FindBackend(server.rules[i].target)
    BY <1>1 DEF FindBackend
  <2> QED
    BY <1>1, <1>4, <2>4, <2>5, <2>6 DEF Overridden
<1> QED
  BY <1>5, <1>6

LEMMA ServedNext ==
  ASSUME NoFlashListed, ListsItsModel
  PROVE  ServedInv /\ [Next]_vars => ServedInv'
<1> SUFFICES ASSUME ServedInv, [Next]_vars
             PROVE  ListedIsServed'
  BY GatherNext, SentNext DEF ServedInv
<1>1. CASE HandleModels \/ CloseChannel \/ Collect \/ WriteList
  BY <1>1 DEF HandleModels, CloseChannel, Collect, WriteList, ListedIsServed, Forwarded
<1>2. CASE Disconnect
  BY <1>2 DEF Disconnect, ListedIsServed, Forwarded
<1>3. CASE \E u \in URLs : Query(u) \/ Return(u)
  BY <1>3 DEF Query, Send, Return, ListedIsServed, Forwarded, ServedInv, GatherInv
<1>4. ASSUME NEW r \in Requests, Ask(r)
      PROVE  ListedIsServed'
  BY <1>4 DEF Ask, ListedIsServed, Forwarded
<1>5. CASE CountTokens
  BY <1>5 DEF CountTokens, ListedIsServed, Forwarded
<1>6. CASE Forward
  BY <1>6, ServedForward
<1>7. CASE UNCHANGED vars
  BY <1>7 DEF vars, ServedInv, ListedIsServed, Forwarded, IsLocal, Overridden, FindBackend
<1> QED
  BY <1>1, <1>2, <1>3, <1>4, <1>5, <1>6, <1>7 DEF Next

\* What the proxy lists it serves: a request for a model of the list, clone or
\* not, reaches a backend under a name which that backend lists, if not a rule
\* whose threshold was reached sends it elsewhere.  (For a configuration whose
\* backends list the models they are configured for.)
THEOREM ListedAlwaysServed ==
  ASSUME NoFlashListed, ListsItsModel
  PROVE  Spec => []ListedIsServed
<1>1. Init => ServedInv
  <2>1. Init => ListedIsServed
    BY DEF Init, ListedIsServed, Forwarded
  <2> QED
    BY <2>1, GatherInit, SentInit DEF ServedInv
<1>2. ServedInv => ListedIsServed
  BY DEF ServedInv
<1> QED
  BY <1>1, <1>2, ServedNext, PTL DEF Spec
=============================================================================
