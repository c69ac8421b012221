--------------------------- MODULE AnswersProofs ---------------------------
(***************************************************************************)
(* Proofs about Answers, for every answer, however it is cut into events    *)
(* and its tool calls alternate: both logs agree, they have the answer or   *)
(* a beginning of it, and of a whole body only the observation is taken     *)
(* out.                                                                     *)
(***************************************************************************)
EXTENDS Answers, TagTextProofs, FiniteSetTheorems, TLAPS

----------------------------------------------------------------------------
(* Reading events: a fold, one event after the other                        *)

\* The function of which FoldLeft(Add, base, seq) is a value.
IsReading(F, base, n, seq) ==
  F = [s \in SUBSET (1..n) |->
         IF s = {} THEN base ELSE Add(F[s \ {Max(s)}], seq[Max(s)])]

\* There is one.
LEMMA ReadingExists ==
  ASSUME NEW base, NEW n \in Nat, NEW seq
  PROVE  \E F : IsReading(F, base, n, seq)
<1> DEFINE S == {k \in 0..n : \E F : IsReading(F, base, k, seq)}
<1>1. 0 \in S
  <2> DEFINE F == [s \in SUBSET (1..0) |-> base]
  <2>1. SUBSET (1..0) = {{}}
    OBVIOUS
  <2>2. IsReading(F, base, 0, seq)
    BY <2>1 DEF IsReading
  <2> HIDE DEF F
  <2> QED
    BY <2>2
<1>2. ASSUME NEW k \in 1..n, k - 1 \in S
      PROVE  k \in S
  <2>1. PICK G : IsReading(G, base, k - 1, seq)
    BY <1>2
  <2>2. \A s \in SUBSET (1..(k - 1)) :
          G[s] = IF s = {} THEN base ELSE Add(G[s \ {Max(s)}], seq[Max(s)])
    BY <2>1 DEF IsReading
  <2> DEFINE F == [s \in SUBSET (1..k) |->
                     IF k \in s THEN Add(G[s \ {k}], seq[k]) ELSE G[s]]
  <2>3. ASSUME NEW s \in SUBSET (1..k)
        PROVE  F[s] = IF s = {} THEN base ELSE Add(F[s \ {Max(s)}], seq[Max(s)])
    <3>1. CASE s = {}
      <4>1. {} \in SUBSET (1..(k - 1)) /\ k \notin {}
        OBVIOUS
      <4> QED
        BY <2>2, <3>1, <4>1
    <3>2. CASE s # {} /\ k \in s
      <4>1. k \in Nat
        OBVIOUS
      <4>2. Max(s) \in s /\ k <= Max(s)
        BY <3>2, <4>1, MaxOfPositions
      <4>3. Max(s) = k
        <5>1. Max(s) \in 1..k
          BY <4>2
        <5> HIDE DEF F
        <5> QED
          BY <4>2, <5>1
      <4>4. F[s \ {k}] = G[s \ {k}]
        OBVIOUS
      <4>5. F[s] = Add(G[s \ {k}], seq[k])
        BY <3>2
      <4> HIDE DEF F
      <4> QED
        BY <3>2, <4>3, <4>4, <4>5
    <3>3. CASE s # {} /\ k \notin s
      <4>1. s \in SUBSET (1..(k - 1)) /\ s \ {Max(s)} \in SUBSET (1..(k - 1))
            /\ k \notin s \ {Max(s)} /\ s \ {Max(s)} \in SUBSET (1..k)
        <5>1. \A r \in SUBSET (1..k) : k \notin r => r \in SUBSET (1..(k - 1))
          OBVIOUS
        <5> QED
          BY <3>3, <5>1
      <4>2. F[s] = G[s] /\ F[s \ {Max(s)}] = G[s \ {Max(s)}]
        BY <3>3, <4>1
      <4>3. G[s] = Add(G[s \ {Max(s)}], seq[Max(s)])
        BY <2>2, <3>3, <4>1
      <4> HIDE DEF F
      <4> QED
        BY <3>3, <4>2, <4>3
    <3> QED
      BY <3>1, <3>2, <3>3
  <2>4. F = [s \in SUBSET (1..k) |-> F[s]]
    OBVIOUS
  <2> HIDE DEF F
  <2>5. IsReading(F, base, k, seq)
    BY <2>3, <2>4 DEF IsReading
  <2> QED
    BY <2>5
<1> HIDE DEF S
<1>3. n \in S
  BY <1>1, <1>2, InductionUpTo
<1> QED
  BY <1>3 DEF S

ReadFrom(base, seq) == FoldLeft(Add, base, seq)

\* FoldLeft is a value of it.
LEMMA ReadingOf ==
  ASSUME NEW base, NEW n \in Nat, NEW seq, DOMAIN seq = 1..n
  PROVE  \E F : IsReading(F, base, n, seq) /\ ReadFrom(base, seq) = F[1..n]
<1> DEFINE F == CHOOSE F : IsReading(F, base, n, seq)
<1>1. ReadFrom(base, seq) = F[1..n]
  BY DEF ReadFrom, FoldLeft, MapThenFoldSet, IsReading
<1>2. IsReading(F, base, n, seq)
  BY ReadingExists
<1> HIDE DEF F
<1> QED
  BY <1>1, <1>2

\* Its values on initial segments.
LEMMA ReadingUpTo ==
  ASSUME NEW base, NEW n \in Nat, NEW seq, NEW F, IsReading(F, base, n, seq)
  PROVE  /\ F[1..0] = base
         /\ \A i \in 1..n : F[1..i] = Add(F[1..(i - 1)], seq[i])
<1>1. \A s \in SUBSET (1..n) :
        F[s] = IF s = {} THEN base ELSE Add(F[s \ {Max(s)}], seq[Max(s)])
  BY DEF IsReading
<1>2. F[1..0] = base
  <2>1. 1..0 = {}
    OBVIOUS
  <2> QED
    BY <1>1, <2>1
<1>3. ASSUME NEW i \in 1..n
      PROVE  F[1..i] = Add(F[1..(i - 1)], seq[i])
  <2>1. i \in Nat \ {0} /\ 1..i \in SUBSET (1..n)
    OBVIOUS
  <2>2. Max(1..i) = i /\ (1..i) \ {i} = 1..(i - 1) /\ 1..i # {}
    BY <2>1, MaxUpTo
  <2> QED
    BY <1>1, <2>1, <2>2
<1> QED
  BY <1>2, <1>3

\* Nothing is read of no event, and an event is read after those before it.
LEMMA ReadNone == ASSUME NEW base PROVE ReadFrom(base, << >>) = base
<1>1. DOMAIN << >> = 1..0
  OBVIOUS
<1>2. PICK F : IsReading(F, base, 0, << >>) /\ ReadFrom(base, << >>) = F[1..0]
  BY <1>1, ReadingOf
<1> QED
  BY <1>2, ReadingUpTo

LEMMA ReadMore ==
  ASSUME NEW base, NEW n \in Nat, NEW seq, DOMAIN seq = 1..n,
         NEW m \in Nat, m = n + 1, NEW more, DOMAIN more = 1..m,
         \A i \in 1..n : more[i] = seq[i]
  PROVE  ReadFrom(base, more) = Add(ReadFrom(base, seq), more[m])
<1>1. m \in 1..m /\ m - 1 = n /\ \A i \in 1..n : i \in 1..m
  OBVIOUS
<1>2. PICK F : IsReading(F, base, n, seq) /\ ReadFrom(base, seq) = F[1..n]
  BY ReadingOf
<1>3. PICK G : IsReading(G, base, m, more) /\ ReadFrom(base, more) = G[1..m]
  BY ReadingOf
<1>4. F[1..0] = base /\ \A i \in 1..n : F[1..i] = Add(F[1..(i - 1)], seq[i])
  BY <1>1, <1>2, ReadingUpTo, SMTT(30)
<1>5. G[1..0] = base /\ \A i \in 1..m : G[1..i] = Add(G[1..(i - 1)], more[i])
  BY <1>1, <1>3, ReadingUpTo, SMTT(30)
<1> DEFINE S == {i \in 0..n : G[1..i] = F[1..i]}
<1>6. 0 \in S
  BY <1>1, <1>4, <1>5
<1>7. ASSUME NEW i \in 1..n, i - 1 \in S
      PROVE  i \in S
  <2>0. more[i] = seq[i]
    OBVIOUS
  <2>1. i \in 0..n /\ i \in 1..m
    BY <1>1
  <2>2. G[1..(i - 1)] = F[1..(i - 1)]
    BY <1>7
  <2>3. G[1..i] = Add(G[1..(i - 1)], more[i]) /\ F[1..i] = Add(F[1..(i - 1)], seq[i])
    BY <1>4, <1>5, <2>1
  <2> QED
    BY <2>0, <2>1, <2>2, <2>3
<1>8. G[1..n] = F[1..n]
  <2> HIDE DEF S
  <2>1. n \in S
    BY <1>1, <1>6, <1>7, InductionUpTo, SMTT(30)
  <2> QED
    BY <2>1 DEF S
<1>9. G[1..m] = Add(G[1..n], more[m])
  BY <1>1, <1>5
<1> QED
  BY <1>2, <1>3, <1>8, <1>9

LEMMA ReadOne == ASSUME NEW base, NEW e PROVE ReadFrom(base, << e >>) = Add(base, e)
<1>1. PICK none : none = << >>
  OBVIOUS
<1>2. PICK one : one = << e >>
  OBVIOUS
<1>3. PICK n \in Nat : n = 0
  OBVIOUS
<1>4. PICK m \in Nat : m = n + 1
  OBVIOUS
<1>5. /\ DOMAIN none = 1..n /\ DOMAIN one = 1..m /\ one[m] = e
      /\ \A i \in 1..n : one[i] = none[i]
  BY <1>1, <1>2, <1>3, <1>4
<1>6. ReadFrom(base, one) = Add(ReadFrom(base, none), one[m])
  BY <1>4, <1>5, ReadMore
<1> QED
  BY <1>1, <1>2, <1>5, <1>6, ReadNone

\* A sequence of whatever.
IsSeq(seq) == \E T : seq \in Seq(T)

LEMMA ReadAppend ==
  ASSUME NEW base, NEW seq, IsSeq(seq), NEW e
  PROVE  /\ IsSeq(Append(seq, e))
         /\ ReadFrom(base, Append(seq, e)) = Add(ReadFrom(base, seq), e)
<1>1. PICK T : seq \in Seq(T)
  BY DEF IsSeq
<1> DEFINE U == T \cup {e}
<1>2. seq \in Seq(U) /\ e \in U
  BY <1>1
<1> HIDE DEF U
<1>3. PICK n \in Nat : n = Len(seq)
  BY <1>2
<1>4. PICK m \in Nat : m = n + 1
  OBVIOUS
<1>5. PICK more : more = Append(seq, e)
  OBVIOUS
<1>6. /\ DOMAIN seq = 1..n /\ DOMAIN more = 1..m /\ more[m] = e
      /\ \A i \in 1..n : more[i] = seq[i]
      /\ more \in Seq(U)
  BY <1>2, <1>3, <1>4, <1>5
<1>7. ReadFrom(base, more) = Add(ReadFrom(base, seq), more[m])
  BY <1>4, <1>6, ReadMore
<1> QED
  BY <1>5, <1>6, <1>7 DEF IsSeq

\* What is read depends on the format of the request only, which never changes.
LEMMA ReadFrame ==
  ASSUME format' = format
  PROVE  /\ (ReadFrom(accum, lineBuf))' = ReadFrom(accum', lineBuf')
         /\ (ReadFrom(Nothing, wire))' = ReadFrom(Nothing, wire')
BY DEF ReadFrom, FoldLeft, MapThenFoldSet, Add, AddEvent, AddChunk

----------------------------------------------------------------------------
(* One story in both logs                                                   *)

\* What streamLogger has accumulated, with the line it is waiting for the end
\* of, is what the copy of the events says.
CopyInv ==
  /\ IsSeq(wire)
  /\ lineBuf = << >> \/ \E e : lineBuf = << e >>
  /\ ReadFrom(accum, lineBuf) = ReadFrom(Nothing, wire)

\* The same, and that the logs agree.
AgreeInv == CopyInv /\ BothLogsAgree

LEMMA AgreeInit == Init => AgreeInv
<1> SUFFICES ASSUME Init PROVE AgreeInv
  OBVIOUS
<1>1. IsSeq(<< >>)
  <2>1. << >> \in Seq({})
    OBVIOUS
  <2> QED
    BY <2>1 DEF IsSeq
<1> QED
  BY <1>1 DEF Init, AgreeInv, CopyInv, BothLogsAgree

\* An event is added to the copy and, at once or with the next one, to what is
\* accumulated.
LEMMA CopyReceive ==
  ASSUME CopyInv, NEW e, Receive(e)
  PROVE  CopyInv' /\ ReadFrom(Nothing, wire)' = Add(ReadFrom(Nothing, wire), e)
<1>1. format' = format /\ wire' = Append(wire, e)
  BY DEF Receive, backend
<1>2. IsSeq(wire') /\ ReadFrom(Nothing, wire') = Add(ReadFrom(Nothing, wire), e)
  BY <1>1, ReadAppend DEF CopyInv
<1>3. ReadFrom(accum, lineBuf) = ReadFrom(Nothing, wire)
  BY DEF CopyInv
<1>4. /\ lineBuf' = << >> \/ \E f : lineBuf' = << f >>
      /\ ReadFrom(accum', lineBuf') = Add(ReadFrom(accum, lineBuf), e)
  <2>1. CASE accum' = Add(ReadFrom(accum, lineBuf), e) /\ lineBuf' = << >>
    BY <2>1, ReadNone
  <2>2. CASE accum' = ReadFrom(accum, lineBuf) /\ lineBuf' = << e >>
    BY <2>2, ReadOne
  <2> QED
    BY <2>1, <2>2 DEF Receive, ReadFrom
<1>5. /\ (ReadFrom(accum, lineBuf))' = ReadFrom(accum', lineBuf')
      /\ (ReadFrom(Nothing, wire))' = ReadFrom(Nothing, wire')
  BY <1>1, ReadFrame
<1> QED
  BY <1>2, <1>3, <1>4, <1>5 DEF CopyInv

LEMMA AgreeNext == AgreeInv /\ [Next]_vars => AgreeInv'
<1> SUFFICES ASSUME AgreeInv, [Next]_vars PROVE AgreeInv'
  OBVIOUS
<1>1. ASSUME NEW e, Receive(e)
      PROVE  AgreeInv'
  BY <1>1, CopyReceive DEF AgreeInv, BothLogsAgree, Receive, ends
<1>2. ASSUME UNCHANGED << format, wire, accum, lineBuf >>
      PROVE  CopyInv'
  BY <1>2, ReadFrame DEF AgreeInv, CopyInv
<1>3. ASSUME NEW i \in DOMAIN answer, StartBlock(i)
      PROVE  AgreeInv'
  BY <1>1, <1>3 DEF StartBlock
<1>4. ASSUME NEW i \in DOMAIN answer, NEW n, SendDelta(i, n)
      PROVE  AgreeInv'
  BY <1>1, <1>4 DEF SendDelta
<1>5. ASSUME NEW i \in DOMAIN answer, NEW n, SendChunk(i, n)
      PROVE  AgreeInv'
  BY <1>1, <1>5 DEF SendChunk
<1>6. CASE SendNoise
  BY <1>1, <1>6 DEF SendNoise
<1>7. CASE EndStream
  <2>1. CopyInv'
    BY <1>2, <1>7 DEF EndStream, backend
  <2>2. recorded' = logged'
    BY <1>7 DEF EndStream, ParseStream, FlushToLog, AgreeInv, CopyInv, ReadFrom
  <2> QED
    BY <2>1, <2>2 DEF AgreeInv, BothLogsAgree
<1>8. CASE EndBody
  <2>1. CopyInv'
    BY <1>2, <1>8 DEF EndBody, backend
  <2>2. recorded' = logged'
    BY <1>8 DEF EndBody, AgreeInv, BothLogsAgree, ends
  <2> QED
    BY <2>1, <2>2 DEF AgreeInv, BothLogsAgree
<1>9. CASE UNCHANGED vars
  BY <1>2, <1>9 DEF vars, backend, ends, AgreeInv, BothLogsAgree
<1> QED
  BY <1>3, <1>4, <1>5, <1>6, <1>7, <1>8, <1>9 DEF Next

\* Whatever the answer, its events and the lines they come in, the agent's log
\* (streamLogger, which reads as the stream passes) and the proxy's (which
\* parses a copy at its end) have the same output.
THEOREM LogsAlwaysAgree == Spec => []BothLogsAgree
<1>1. AgreeInv => BothLogsAgree
  BY DEF AgreeInv
<1> QED
  BY <1>1, AgreeInit, AgreeNext, PTL DEF Spec

----------------------------------------------------------------------------
(* Ranks                                                                    *)

\* S is a set of numbers up to n; they are counted from 0.
LEMMA Ranks ==
  ASSUME NEW n \in Nat, NEW S \in SUBSET (0..n)
  PROVE  /\ IsFiniteSet(S) /\ Cardinality(S) \in Nat
         /\ \A i \in S : Rank(S, i) \in 0..(Cardinality(S) - 1)
         /\ \A i, j \in S : i < j => Rank(S, i) < Rank(S, j)
<1>1. IsFiniteSet(S) /\ Cardinality(S) \in Nat
  <2>1. IsFiniteSet(0..n)
    BY FS_Interval
  <2>2. IsFiniteSet(S)
    BY <2>1, FS_Subset
  <2> QED
    BY <2>2, FS_CardinalityType
<1>2. ASSUME NEW A \in SUBSET S, NEW B \in SUBSET S, A \subseteq B, NEW x \in B, x \notin A
      PROVE  Cardinality(A) \in Nat /\ Cardinality(B) \in Nat /\ Cardinality(A) < Cardinality(B)
  <2>1. IsFiniteSet(B) /\ IsFiniteSet(A)
    BY <1>1, FS_Subset
  <2>2. Cardinality(A) \in Nat /\ Cardinality(B) \in Nat
    BY <2>1, FS_CardinalityType
  <2>3. Cardinality(A) <= Cardinality(B) /\ (Cardinality(B) = Cardinality(A) => B = A)
    <3>1. A \in SUBSET B
      BY <1>2
    <3> QED
      BY <2>1, <3>1, FS_Subset
  <2>4. A # B
    BY <1>2
  <2> QED
    BY <2>2, <2>3, <2>4
<1>3. ASSUME NEW i \in S
      PROVE  Rank(S, i) \in 0..(Cardinality(S) - 1)
  <2> DEFINE A == {j \in S : j < i}
  <2>1. A \in SUBSET S /\ S \in SUBSET S /\ i \notin A
    OBVIOUS
  <2> HIDE DEF A
  <2>2. Cardinality(A) \in Nat /\ Cardinality(A) < Cardinality(S)
    BY <1>2, <2>1
  <2> QED
    BY <1>1, <2>2 DEF Rank, A
<1>4. ASSUME NEW i \in S, NEW j \in S, i < j
      PROVE  Rank(S, i) < Rank(S, j)
  <2> DEFINE A == {k \in S : k < i}
             B == {k \in S : k < j}
  <2>0. \A k \in S : k \in Nat
    OBVIOUS
  <2>1. A \in SUBSET S /\ B \in SUBSET S /\ A \subseteq B /\ i \notin A /\ i \in B
    <3>1. \A k \in S : k < i => k < j
      BY <1>4, <2>0
    <3>2. ~(i < i)
      BY <2>0
    <3> QED
      BY <1>4, <3>1, <3>2
  <2> HIDE DEF A, B
  <2>2. Cardinality(A) < Cardinality(B)
    BY <1>2, <2>1
  <2> QED
    BY <2>2 DEF Rank, A, B
<1> QED
  BY <1>1, <1>3, <1>4

\* Every number below the size of the set is the rank of one element.
LEMMA RankedIs ==
  ASSUME NEW n \in Nat, NEW S \in SUBSET (0..n)
  PROVE  /\ \A i \in S : Ranked(S, Rank(S, i)) = i
         /\ \A k \in 0..(Cardinality(S) - 1) : Ranked(S, k) \in S /\ Rank(S, Ranked(S, k)) = k
<1>1. /\ IsFiniteSet(S) /\ Cardinality(S) \in Nat
      /\ \A i \in S : Rank(S, i) \in 0..(Cardinality(S) - 1)
      /\ \A i, j \in S : i < j => Rank(S, i) < Rank(S, j)
  BY Ranks
<1>2. \A i, j \in S : Rank(S, i) = Rank(S, j) => i = j
  <2> SUFFICES ASSUME NEW i \in S, NEW j \in S, Rank(S, i) = Rank(S, j)
               PROVE  i = j
    OBVIOUS
  <2>1. i \in Int /\ j \in Int /\ Rank(S, i) \in Int /\ Rank(S, j) \in Int
    BY <1>1
  <2>2. ~(i < j) /\ ~(j < i)
    BY <1>1, <2>1
  <2> QED
    BY <2>1, <2>2
<1>3. \A k \in 0..(Cardinality(S) - 1) : \E i \in S : Rank(S, i) = k
  <2> DEFINE T == 0..(Cardinality(S) - 1)
             f == [i \in S |-> Rank(S, i)]
  <2>1. IsFiniteSet(T) /\ Cardinality(T) = Cardinality(S)
    <3>1. ASSUME NEW c \in Nat
          PROVE  IsFiniteSet(0..(c - 1)) /\ Cardinality(0..(c - 1)) = c
      BY FS_Interval
    <3> QED
      BY <1>1, <3>1
  <2>2. f \in Injection(S, T)
    BY <1>1, <1>2 DEF Injection, IsInjective
  <2> HIDE DEF T, f
  <2>3. f \in Surjection(S, T)
    BY <2>1, <2>2, FS_Injection
  <2> QED
    BY <2>3 DEF T, f, Surjection
<1> QED
  BY <1>2, <1>3 DEF Ranked

\* Of a beginning T of S, the elements have the same ranks; they are the first.
StartsWith(S, T) == T \subseteq S /\ \A i \in T, j \in S : j < i => j \in T

LEMMA RanksBegin ==
  ASSUME NEW n \in Nat, NEW S \in SUBSET (0..n), NEW T, StartsWith(S, T)
  PROVE  /\ \A i \in T : Rank(S, i) \in 0..(Cardinality(T) - 1)
         /\ \A k \in 0..(Cardinality(T) - 1) :
              k \in 0..(Cardinality(S) - 1) /\ Ranked(S, k) \in T
         /\ \A i \in S : (i \notin T /\ StartsWith(S, T \cup {i})) => Rank(S, i) = Cardinality(T)
         /\ \A i \in T : (\A j \in T : j <= i) => Rank(S, i) = Cardinality(T) - 1
<1>1. T \in SUBSET (0..n) /\ T \in SUBSET S
  BY DEF StartsWith
<1>2. /\ Cardinality(T) \in Nat /\ IsFiniteSet(T)
      /\ \A i \in T : Rank(T, i) \in 0..(Cardinality(T) - 1)
  BY <1>1, Ranks
<1>3. \A i \in T : Rank(S, i) = Rank(T, i)
  <2> TAKE i \in T
  <2>1. {j \in S : j < i} = {j \in T : j < i}
    BY <1>1 DEF StartsWith
  <2> QED
    BY <2>1 DEF Rank
<1>4. \A k \in 0..(Cardinality(T) - 1) : \E i \in T : Rank(T, i) = k
  BY <1>1, RankedIs
<1>5. \A i \in S : Ranked(S, Rank(S, i)) = i
  BY RankedIs
<1>6. \A k \in 0..(Cardinality(T) - 1) :
        k \in 0..(Cardinality(S) - 1) /\ Ranked(S, k) \in T
  <2> TAKE k \in 0..(Cardinality(T) - 1)
  <2>1. PICK i \in T : Rank(T, i) = k
    BY <1>4
  <2>2. i \in S /\ Rank(S, i) = k
    BY <1>1, <1>3, <2>1
  <2>3. k \in 0..(Cardinality(S) - 1)
    BY <2>2, Ranks
  <2> QED
    BY <1>5, <2>2, <2>3
<1>7. ASSUME NEW i \in S, i \notin T, StartsWith(S, T \cup {i})
      PROVE  Rank(S, i) = Cardinality(T)
  <2>1. {j \in S : j < i} = T
    <3>1. \A j \in T : j < i
      <4> SUFFICES ASSUME NEW j \in T PROVE j < i
        OBVIOUS
      <4>1. j \in 0..n /\ i \in 0..n /\ j # i
        BY <1>1, <1>7
      <4>2. ~(i < j)
        BY <1>7 DEF StartsWith
      <4> QED
        BY <4>1, <4>2
    <3>2. \A j \in S : j < i => j \in T
      <4> SUFFICES ASSUME NEW j \in S, j < i PROVE j \in T
        OBVIOUS
      <4>1. j # i
        BY <1>1
      <4> QED
        BY <1>7, <4>1 DEF StartsWith
    <3> QED
      BY <1>1, <3>1, <3>2
  <2> QED
    BY <2>1 DEF Rank
<1>8. ASSUME NEW i \in T, \A j \in T : j <= i
      PROVE  Rank(S, i) = Cardinality(T) - 1
  <2>0. \A j \in T : j \in Nat
    BY <1>1
  <2>1. {j \in T : j < i} = T \ {i}
    <3>1. \A j \in T : j < i <=> j # i
      BY <1>8, <2>0
    <3> QED
      BY <3>1
  <2>2. Cardinality(T \ {i}) = Cardinality(T) - 1
    BY <1>2, FS_RemoveElement
  <2>3. Rank(T, i) = Cardinality(T) - 1
    BY <2>1, <2>2 DEF Rank
  <2> QED
    BY <1>3, <2>3
<1> QED
  BY <1>2, <1>3, <1>6, <1>7, <1>8

LEMMA RankOfLast ==
  ASSUME NEW n \in Nat, NEW S \in SUBSET (0..n), NEW T, StartsWith(S, T),
         NEW i \in T, \A j \in T : j <= i
  PROVE  Rank(S, i) = Cardinality(T) - 1
BY RanksBegin

\* In an initial segment every number has itself for a rank.
LEMMA RankedUpTo ==
  ASSUME NEW n \in Nat, NEW k \in 0..(n - 1)
  PROVE  Ranked(0..(n - 1), k) = k
<1>1. n # 0 /\ n \in Nat /\ n - 1 \in Nat /\ 0..(n - 1) \in SUBSET (0..(n - 1))
  OBVIOUS
<1>2. {j \in 0..(n - 1) : j < k} = 0..(k - 1)
  OBVIOUS
<1>3. Cardinality(0..(k - 1)) = k
  BY FS_Interval
<1>4. Rank(0..(n - 1), k) = k
  BY <1>2, <1>3 DEF Rank
<1>5. Ranked(0..(n - 1), Rank(0..(n - 1), k)) = k
  BY <1>1, RankedIs
<1> QED
  BY <1>4, <1>5

----------------------------------------------------------------------------
(* What has been received of an answer                                      *)

\* Of block i; of all the text of a kind; of the calls, which are numbered in
\* the order of their blocks.
Sent(i) == SubSeq(answer[i].text, 1, progress[i])
SentOf(kind) == [i \in DOMAIN answer |-> IF answer[i].kind = kind THEN Sent(i) ELSE << >>]
TextSent(kind) == FlattenSeq(SentOf(kind))

Tools == ToolsOf(answer)
Begun == {i \in Tools : progress[i] >= 0}
CallOf(i) == [id |-> i, args |-> Sent(i)]
CallsSent == [k \in 0..(Cardinality(Begun) - 1) |-> CallOf(Ranked(Tools, k))]

Received == Output(TextSent("text"), TextSent("thinking"), CallsSent)

\* What is sent of the blocks keeps their order.
OrderInv ==
  /\ answer \in Seq(Block)
  /\ progress \in [DOMAIN answer -> Int]
  /\ \A i \in DOMAIN answer : progress[i] \in -1..Len(answer[i].text)
  /\ \A i \in DOMAIN answer : progress[i] >= 0 => MaySend(i)

LEMMA BlockType ==
  ASSUME OrderInv, NEW i \in DOMAIN answer
  PROVE  /\ answer[i].text \in Seq(Char) /\ answer[i].kind \in Kinds
         /\ Len(answer[i].text) \in Nat /\ i \in 1..Len(answer) /\ i \in Nat
         /\ progress[i] \in Int /\ progress[i] \in -1..Len(answer[i].text)
<1>1. i \in 1..Len(answer) /\ answer[i] \in Block /\ i \in Nat
  BY DEF OrderInv
<1> QED
  BY <1>1 DEF OrderInv, Block

\* A beginning of a text, and how it grows.
LEMMA PieceAdded ==
  ASSUME NEW s \in Seq(Char), NEW a \in 0..Len(s), NEW b \in a..Len(s)
  PROVE  /\ SubSeq(s, 1, b) \in Seq(Char) /\ SubSeq(s, a + 1, b) \in Seq(Char)
         /\ SubSeq(s, 1, b) = SubSeq(s, 1, a) \o SubSeq(s, a + 1, b)
         /\ SubSeq(s, 1, 0) = << >> /\ SubSeq(s, 1, -1) = << >>
         /\ SubSeq(s, 1, Len(s)) = s
<1>1. /\ SubSeq(s, 1, b) \in Seq(Char) /\ SubSeq(s, a + 1, b) \in Seq(Char)
      /\ SubSeq(s, 1, a) \in Seq(Char)
      /\ Len(SubSeq(s, 1, b)) = b /\ Len(SubSeq(s, 1, a)) = a
      /\ Len(SubSeq(s, a + 1, b)) = b - a
      /\ \A i \in 1..b : SubSeq(s, 1, b)[i] = s[i]
      /\ \A i \in 1..a : SubSeq(s, 1, a)[i] = s[i]
      /\ \A i \in 1..(b - a) : SubSeq(s, a + 1, b)[i] = s[a + i]
  BY SMTT(30)
<1>2. PICK p : p = SubSeq(s, 1, b)
  OBVIOUS
<1>3. PICK q : q = SubSeq(s, 1, a)
  OBVIOUS
<1>4. PICK r : r = SubSeq(s, a + 1, b)
  OBVIOUS
<1>5. p = q \o r
  <2>1. /\ p \in Seq(Char) /\ q \in Seq(Char) /\ r \in Seq(Char)
        /\ Len(p) = b /\ Len(q) = a /\ Len(r) = b - a
        /\ \A i \in 1..b : p[i] = s[i]
        /\ \A i \in 1..a : q[i] = s[i]
        /\ \A i \in 1..(b - a) : r[i] = s[a + i]
    BY <1>1, <1>2, <1>3, <1>4
  <2>2. PICK w : w = q \o r
    OBVIOUS
  <2>3. /\ w \in Seq(Char) /\ Len(w) = b
        /\ \A i \in 1..a : w[i] = q[i]
        /\ \A i \in 1..(b - a) : w[a + i] = r[i]
    <3>1. /\ q \o r \in Seq(Char) /\ Len(q \o r) = Len(q) + Len(r)
          /\ \A i \in 1..Len(q) : (q \o r)[i] = q[i]
          /\ \A i \in 1..Len(r) : (q \o r)[Len(q) + i] = r[i]
      <4>1. q \in Seq(Char) /\ r \in Seq(Char)
        BY <2>1
      <4> QED
        BY <4>1, Joined
    <3> QED
      BY <2>1, <2>2, <3>1
  <2>4. ASSUME NEW i \in 1..b
        PROVE  p[i] = w[i]
    <3>1. CASE i <= a
      BY <2>1, <2>3, <3>1
    <3>2. CASE i > a
      <4>1. i - a \in 1..(b - a) /\ a + (i - a) = i
        BY <3>2
      <4>2. w[a + (i - a)] = r[i - a] /\ r[i - a] = s[a + (i - a)]
        BY <2>1, <2>3, <4>1
      <4> QED
        BY <2>1, <4>1, <4>2
    <3> QED
      BY <3>1, <3>2
  <2>5. p = w
    BY <2>1, <2>3, <2>4
  <2> QED
    BY <2>2, <2>5
<1>6. SubSeq(s, 1, 0) = << >> /\ SubSeq(s, 1, -1) = << >> /\ SubSeq(s, 1, Len(s)) = s
  OBVIOUS
<1> QED
  BY <1>1, <1>2, <1>3, <1>4, <1>5, <1>6

LEMMA SentType ==
  ASSUME OrderInv, NEW i \in DOMAIN answer
  PROVE  Sent(i) \in Seq(Char) /\ (progress[i] <= 0 => Sent(i) = << >>)
<1>1. PICK s : s = answer[i].text
  OBVIOUS
<1>2. PICK p : p = progress[i]
  OBVIOUS
<1>3. s \in Seq(Char) /\ p \in -1..Len(s)
  BY <1>1, <1>2, BlockType
<1>4. CASE p = -1
  <2>1. SubSeq(s, 1, -1) = << >>
    BY <1>3, PieceAdded
  <2> QED
    BY <1>1, <1>2, <1>4, <2>1 DEF Sent
<1>5. CASE p \in 0..Len(s)
  <2>1. SubSeq(s, 1, p) \in Seq(Char) /\ SubSeq(s, 1, 0) = << >>
    <3>1. 0 \in 0..Len(s) /\ p \in 0..Len(s)
      BY <1>3, <1>5
    <3> QED
      BY <1>3, <3>1, PieceAdded
  <2> QED
    BY <1>1, <1>2, <1>5, <2>1 DEF Sent
<1> QED
  BY <1>3, <1>4, <1>5

LEMMA SentOfType ==
  ASSUME OrderInv, NEW kind
  PROVE  /\ SentOf(kind) \in Seq(Seq(Char)) /\ Len(SentOf(kind)) = Len(answer)
         /\ DOMAIN answer = 1..Len(answer) /\ Len(answer) \in Nat
<1>1. DOMAIN answer = 1..Len(answer) /\ Len(answer) \in Nat
  BY DEF OrderInv
<1>2. \A i \in 1..Len(answer) : SentOf(kind)[i] \in Seq(Char)
  BY <1>1, SentType DEF SentOf
<1>3. SentOf(kind) = [i \in 1..Len(answer) |-> SentOf(kind)[i]]
  BY <1>1 DEF SentOf
<1>4. PICK f : f = SentOf(kind)
  OBVIOUS
<1>5. f \in Seq(Seq(Char)) /\ Len(f) = Len(answer)
  BY <1>1, <1>2, <1>3, <1>4
<1> QED
  BY <1>1, <1>4, <1>5

\* A flattened sequence, when its last part that says anything grows.
LEMMA FlattenGrows ==
  ASSUME NEW f \in Seq(Seq(Char)), NEW g \in Seq(Seq(Char)), Len(g) = Len(f),
         NEW i \in 1..Len(f), \A j \in 1..Len(f) : j # i => g[j] = f[j],
         NEW piece \in Seq(Char), g[i] = f[i] \o piece,
         \A j \in 1..Len(f) : j > i => f[j] = << >>
  PROVE  FlattenSeq(g) = FlattenSeq(f) \o piece
<1>1. PICK pre \in Seq(Char) : DifferAt(i, FlattenSeq(f), FlattenSeq(g), f, g, Len(f), pre, Seq(Char))
  BY FlattenReplace
<1>2. f[i] \in Seq(Char)
  OBVIOUS
<1>3. Grouped(Seq(Char)) /\ Closed(Seq(Char))
  BY Concatenating
<1>4. PICK a : a = f[i]
  OBVIOUS
<1>5. PICK post \in Seq(Char) :
        /\ FlattenSeq(f) = (pre \o a) \o post
        /\ FlattenSeq(g) = (pre \o (a \o piece)) \o post
        /\ post = << >>
  BY <1>1, <1>4 DEF DifferAt
<1>6. pre \o a \in Seq(Char) /\ pre \o (a \o piece) \in Seq(Char)
  BY <1>2, <1>3, <1>4 DEF Closed
<1>7. (pre \o a) \o << >> = pre \o a /\ (pre \o (a \o piece)) \o << >> = pre \o (a \o piece)
  BY <1>3, <1>6 DEF Grouped
<1>8. Regroups(pre, a, piece)
  BY <1>2, <1>3, <1>4, Regrouping
<1> QED
  BY <1>5, <1>7, <1>8 DEF Regroups

\* More of block i is sent, up to its p-th character.
Advancing(i, p) ==
  /\ i \in DOMAIN answer /\ MaySend(i) /\ p \in 0..Len(answer[i].text)
  /\ progress[i] < p
  /\ progress' = [progress EXCEPT ![i] = p]
  /\ answer' = answer /\ format' = format
PieceTo(i, p) ==
  SubSeq(answer[i].text, (IF progress[i] = -1 THEN 0 ELSE progress[i]) + 1, p)

LEMMA ProgressAdvance ==
  ASSUME OrderInv, NEW i, NEW p, Advancing(i, p)
  PROVE  /\ i \in DOMAIN answer /\ DOMAIN answer = 1..Len(answer) /\ Len(answer) \in Nat
         /\ progress' \in [DOMAIN answer -> Int] /\ progress'[i] = p
         /\ \A j \in DOMAIN answer : j # i => progress'[j] = progress[j]
         /\ p \in Nat /\ progress[i] < p /\ ~Done(i)
         /\ progress[i] \in -1..Len(answer[i].text)
<1>1. /\ i \in DOMAIN answer /\ DOMAIN answer = 1..Len(answer) /\ Len(answer) \in Nat
      /\ progress \in [DOMAIN answer -> Int]
      /\ p \in 0..Len(answer[i].text) /\ progress[i] < p
      /\ progress' = [progress EXCEPT ![i] = p]
  <2>1. DOMAIN answer = 1..Len(answer) /\ Len(answer) \in Nat
    BY DEF OrderInv
  <2>2. progress \in [DOMAIN answer -> Int]
    BY DEF OrderInv
  <2> QED
    BY <2>1, <2>2 DEF Advancing
<1>2. Len(answer[i].text) \in Nat /\ progress[i] \in -1..Len(answer[i].text)
  BY <1>1, BlockType
<1>3. p \in Nat /\ ~Done(i)
  BY <1>1, <1>2 DEF Done
<1> QED
  BY <1>1, <1>2, <1>3

LEMMA OrderAdvance ==
  ASSUME OrderInv, NEW i, NEW p, Advancing(i, p)
  PROVE  OrderInv'
<1>1. /\ i \in DOMAIN answer
      /\ progress' \in [DOMAIN answer -> Int] /\ progress'[i] = p
      /\ \A j \in DOMAIN answer : j # i => progress'[j] = progress[j]
      /\ p \in Nat /\ progress[i] < p /\ ~Done(i)
      /\ DOMAIN answer = 1..Len(answer)
  BY ProgressAdvance
<1>2. /\ answer' = answer /\ format' = format /\ MaySend(i)
      /\ p \in 0..Len(answer[i].text)
  BY DEF Advancing
<1>3. \A j \in DOMAIN answer : progress'[j] \in -1..Len(answer'[j].text)
  <2> TAKE j \in DOMAIN answer
  <2>1. CASE j = i
    <3>1. Len(answer[i].text) \in Nat
      BY <1>1, BlockType
    <3> QED
      BY <1>1, <1>2, <2>1, <3>1
  <2>2. CASE j # i
    BY <1>1, <1>2, <2>2 DEF OrderInv
  <2> QED
    BY <2>1, <2>2
<1>4. ASSUME NEW j \in DOMAIN answer, progress'[j] >= 0
      PROVE  MaySend(j)'
  <2>1. MaySend(j)
    <3>1. CASE j = i
      BY <1>2, <3>1
    <3>2. CASE j # i
      BY <1>1, <1>4, <3>2 DEF OrderInv
    <3> QED
      BY <3>1, <3>2
  <2>2. ASSUME NEW l \in 1..(j - 1)
        PROVE  \/ Done(l)'
               \/ format' = "openai" /\ answer'[j].kind = "tool" /\ answer'[l].kind = "tool"
                  /\ progress'[l] >= 0
    <3>1. l \in DOMAIN answer /\ progress[l] \in Int
      <4>1. Len(answer) \in Nat /\ l \in 1..Len(answer)
        BY <1>1, ProgressAdvance
      <4>2. progress \in [DOMAIN answer -> Int]
        BY DEF OrderInv
      <4> QED
        BY <1>1, <4>1, <4>2
    <3>2. \/ Done(l)
          \/ format = "openai" /\ answer[j].kind = "tool" /\ answer[l].kind = "tool"
             /\ progress[l] >= 0
      BY <2>1 DEF MaySend
    <3>3. CASE l = i
      <4>1. progress'[l] >= 0
        BY <1>1, <3>3
      <4> QED
        BY <1>1, <1>2, <3>2, <3>3, <4>1
    <3>4. CASE l # i
      <4>1. progress'[l] = progress[l]
        BY <1>1, <3>1, <3>4
      <4> QED
        BY <1>2, <3>2, <4>1 DEF Done
    <3> QED
      BY <3>3, <3>4
  <2> QED
    BY <2>2 DEF MaySend
<1> QED
  BY <1>1, <1>2, <1>3, <1>4 DEF OrderInv

LEMMA SentAdvance ==
  ASSUME OrderInv, NEW i, NEW p, Advancing(i, p)
  PROVE  /\ PieceTo(i, p) \in Seq(Char)
         /\ Sent(i)' = Sent(i) \o PieceTo(i, p)
         /\ \A j \in DOMAIN answer : j # i => Sent(j)' = Sent(j)
<1>1. /\ i \in DOMAIN answer /\ progress'[i] = p
      /\ \A j \in DOMAIN answer : j # i => progress'[j] = progress[j]
      /\ p \in Nat /\ progress[i] < p
      /\ progress[i] \in -1..Len(answer[i].text)
  BY ProgressAdvance
<1>2. answer' = answer /\ p \in 0..Len(answer[i].text)
  BY DEF Advancing
<1>3. \A j \in DOMAIN answer : j # i => Sent(j)' = Sent(j)
  BY <1>1, <1>2 DEF Sent
<1>4. PICK s \in Seq(Char) : s = answer[i].text
  BY <1>1, BlockType
<1>5. PICK a : a = IF progress[i] = -1 THEN 0 ELSE progress[i]
  OBVIOUS
<1>6. a \in 0..Len(s) /\ p \in a..Len(s)
  BY <1>1, <1>2, <1>4, <1>5
<1>7. /\ SubSeq(s, a + 1, p) \in Seq(Char)
      /\ SubSeq(s, 1, p) = SubSeq(s, 1, a) \o SubSeq(s, a + 1, p)
      /\ SubSeq(s, 1, 0) = << >> /\ SubSeq(s, 1, -1) = << >>
  BY <1>6, PieceAdded
<1>8. Sent(i) = SubSeq(s, 1, a)
  BY <1>4, <1>5, <1>7 DEF Sent
<1>9. Sent(i)' = SubSeq(s, 1, p)
  BY <1>1, <1>2, <1>4 DEF Sent
<1>10. PieceTo(i, p) = SubSeq(s, a + 1, p)
  BY <1>4, <1>5 DEF PieceTo
<1> QED
  BY <1>3, <1>7, <1>8, <1>9, <1>10

\* Text comes at the end of what has been sent of its kind.
LEMMA TextAdvance ==
  ASSUME OrderInv, NEW i, NEW p, Advancing(i, p), NEW kind, kind # "tool"
  PROVE  /\ answer[i].kind = kind => TextSent(kind)' = TextSent(kind) \o PieceTo(i, p)
         /\ answer[i].kind # kind => TextSent(kind)' = TextSent(kind)
<1>1. /\ i \in DOMAIN answer /\ DOMAIN answer = 1..Len(answer) /\ ~Done(i)
      /\ answer' = answer
  BY ProgressAdvance DEF Advancing
<1>2. PICK f : f = SentOf(kind)
  OBVIOUS
<1>3. PICK g : g = SentOf(kind)'
  OBVIOUS
<1>4. f \in Seq(Seq(Char)) /\ Len(f) = Len(answer)
  BY <1>2, SentOfType
<1>5. \A j \in DOMAIN answer : f[j] = IF answer[j].kind = kind THEN Sent(j) ELSE << >>
  BY <1>2 DEF SentOf
<1>6. \A j \in DOMAIN answer : g[j] = IF answer[j].kind = kind THEN Sent(j)' ELSE << >>
  BY <1>1, <1>3 DEF SentOf
<1>7. /\ PieceTo(i, p) \in Seq(Char) /\ Sent(i)' = Sent(i) \o PieceTo(i, p)
      /\ \A j \in DOMAIN answer : j # i => Sent(j)' = Sent(j)
  BY SentAdvance
<1>8. \A j \in DOMAIN answer : j # i => g[j] = f[j]
  BY <1>5, <1>6, <1>7
<1>9. g \in Seq(Seq(Char)) /\ Len(g) = Len(answer)
  <2>1. Sent(i) \in Seq(Char)
    BY <1>1, SentType
  <2>2. Sent(i) \o PieceTo(i, p) \in Seq(Char)
    BY <1>7, <2>1
  <2>3. << >> \in Seq(Char)
    OBVIOUS
  <2>4. g[i] \in Seq(Char)
    BY <1>1, <1>6, <1>7, <2>2, <2>3
  <2>5. PICK n \in Nat : n = Len(answer)
    BY <1>4, SentOfType
  <2>6. \A j \in 1..n : f[j] \in Seq(Char)
    BY <1>4, <2>5
  <2>7. \A j \in 1..n : g[j] \in Seq(Char)
    BY <1>1, <1>8, <2>4, <2>5, <2>6
  <2>8. g = [j \in 1..n |-> g[j]]
    BY <1>1, <1>3, <2>5 DEF SentOf
  <2> QED
    BY <2>5, <2>7, <2>8
<1>10. ASSUME answer[i].kind # kind
       PROVE  g = f
  <2>1. g[i] = f[i]
    BY <1>1, <1>5, <1>6, <1>10
  <2>2. \A j \in DOMAIN answer : g[j] = f[j]
    BY <1>8, <2>1
  <2>3. f = [j \in DOMAIN answer |-> f[j]] /\ g = [j \in DOMAIN answer |-> g[j]]
    BY <1>1, <1>2, <1>3 DEF SentOf
  <2> QED
    BY <2>2, <2>3
<1>11. ASSUME answer[i].kind = kind
       PROVE  FlattenSeq(g) = FlattenSeq(f) \o PieceTo(i, p)
  <2>1. g[i] = f[i] \o PieceTo(i, p)
    BY <1>1, <1>5, <1>6, <1>7, <1>11
  <2>2. ASSUME NEW j \in DOMAIN answer, j > i
        PROVE  f[j] = << >>
    <3>1. CASE progress[j] >= 0
      <4>1. MaySend(j)
        BY <3>1 DEF OrderInv
      <4>2. i \in 1..(j - 1)
        BY <1>1, <2>2
      <4>3. answer[i].kind = "tool"
        BY <1>1, <4>1, <4>2 DEF MaySend
      <4> QED
        BY <1>11, <4>3
    <3>2. CASE ~(progress[j] >= 0)
      <4>1. progress[j] <= 0
        BY <3>2, BlockType
      <4>2. Sent(j) = << >>
        BY <4>1, SentType
      <4> QED
        BY <1>5, <4>2
    <3> QED
      BY <3>1, <3>2
  <2>3. DOMAIN answer = 1..Len(f) /\ Len(g) = Len(f) /\ i \in 1..Len(f)
    BY <1>1, <1>4, <1>9
  <2>4. /\ \A j \in 1..Len(f) : j # i => g[j] = f[j]
        /\ \A j \in 1..Len(f) : j > i => f[j] = << >>
    BY <1>8, <2>2, <2>3
  <2> QED
    BY <1>4, <1>9, <1>7, <2>1, <2>3, <2>4, FlattenGrows
<1> QED
  BY <1>2, <1>3, <1>10, <1>11 DEF TextSent

\* The calls that have begun are the first ones.
LEMMA BegunFirst ==
  ASSUME OrderInv
  PROVE  /\ Tools \in SUBSET (0..Len(answer)) /\ Len(answer) \in Nat
         /\ StartsWith(Tools, Begun)
         /\ IsFiniteSet(Begun) /\ Cardinality(Begun) \in Nat
         /\ \A i \in Tools : i \in DOMAIN answer /\ answer[i].kind = "tool" /\ i \in Nat
<1>1. DOMAIN answer = 1..Len(answer) /\ Len(answer) \in Nat
  BY DEF OrderInv
<1>2. /\ Tools \in SUBSET (0..Len(answer))
      /\ \A i \in Tools : i \in DOMAIN answer /\ answer[i].kind = "tool" /\ i \in Nat
  BY <1>1 DEF Tools, ToolsOf
<1>3. ASSUME NEW i \in Begun, NEW j \in Tools, j < i
      PROVE  j \in Begun
  <2>1. MaySend(i) /\ j \in 1..(i - 1) /\ j \in DOMAIN answer
    <3>1. i \in DOMAIN answer /\ progress[i] >= 0 /\ i \in 1..Len(answer) /\ j \in 1..Len(answer)
      BY <1>1, <1>2 DEF Begun
    <3> QED
      BY <1>1, <1>3, <3>1 DEF OrderInv
  <2>2. Done(j) \/ progress[j] >= 0
    BY <2>1 DEF MaySend
  <2>3. progress[j] >= 0
    BY <2>1, <2>2, BlockType DEF Done
  <2> QED
    BY <1>3, <2>3 DEF Begun
<1>4. Begun \in SUBSET Tools
  BY DEF Begun
<1>5. IsFiniteSet(Begun) /\ Cardinality(Begun) \in Nat
  <2>1. IsFiniteSet(Tools)
    BY <1>1, <1>2, Ranks
  <2> QED
    BY <1>4, <2>1, FS_Subset, FS_CardinalityType
<1> QED
  BY <1>1, <1>2, <1>3, <1>4, <1>5 DEF StartsWith

LEMMA CallsBegun ==
  ASSUME OrderInv
  PROVE  /\ \A k \in 0..(Cardinality(Begun) - 1) :
              /\ Ranked(Tools, k) \in Begun /\ Ranked(Tools, k) \in Tools
              /\ Rank(Tools, Ranked(Tools, k)) = k
              /\ k \in 0..(Cardinality(Tools) - 1)
         /\ \A i \in Tools : Ranked(Tools, Rank(Tools, i)) = i
         /\ \A i \in Begun : Rank(Tools, i) \in 0..(Cardinality(Begun) - 1)
<1>1. PICK n \in Nat : Tools \in SUBSET (0..n)
  BY BegunFirst
<1>2. StartsWith(Tools, Begun)
  BY BegunFirst
<1>3. /\ \A i \in Tools : Ranked(Tools, Rank(Tools, i)) = i
      /\ \A k \in 0..(Cardinality(Tools) - 1) :
           Ranked(Tools, k) \in Tools /\ Rank(Tools, Ranked(Tools, k)) = k
  BY <1>1, RankedIs
<1>4. /\ \A i \in Begun : Rank(Tools, i) \in 0..(Cardinality(Begun) - 1)
      /\ \A k \in 0..(Cardinality(Begun) - 1) :
           k \in 0..(Cardinality(Tools) - 1) /\ Ranked(Tools, k) \in Begun
  BY <1>1, <1>2, RanksBegin
<1> QED
  BY <1>3, <1>4

\* What is not a tool call leaves the calls alone.
LEMMA CallsUntouched ==
  ASSUME OrderInv, NEW i, NEW p, Advancing(i, p), answer[i].kind # "tool"
  PROVE  CallsSent' = CallsSent
<1>1. /\ answer' = answer /\ i \in DOMAIN answer
      /\ \A j \in DOMAIN answer : j # i => progress'[j] = progress[j]
      /\ \A j \in DOMAIN answer : j # i => Sent(j)' = Sent(j)
  BY ProgressAdvance, SentAdvance DEF Advancing
<1>2. Tools' = Tools
  BY <1>1 DEF Tools, ToolsOf
<1>3. \A j \in Tools : j \in DOMAIN answer /\ j # i
  BY DEF Tools, ToolsOf
<1>4. Begun' = Begun
  BY <1>1, <1>2, <1>3 DEF Begun
<1>5. \A k \in 0..(Cardinality(Begun) - 1) : CallOf(Ranked(Tools, k))' = CallOf(Ranked(Tools, k))
  <2> TAKE k \in 0..(Cardinality(Begun) - 1)
  <2>1. PICK j : j = Ranked(Tools, k)
    OBVIOUS
  <2>2. Ranked(Tools, k)' = j /\ j \in Tools
    BY <1>2, <2>1, CallsBegun DEF Ranked, Rank
  <2>3. Sent(j)' = Sent(j)
    BY <1>1, <1>3, <2>2
  <2> QED
    BY <2>1, <2>2, <2>3 DEF CallOf, Sent
<1> QED
  BY <1>2, <1>4, <1>5 DEF CallsSent

\* Arguments of calls other than i's are as before.
LEMMA OtherCalls ==
  ASSUME OrderInv, NEW i, NEW p, Advancing(i, p)
  PROVE  /\ Tools' = Tools
         /\ \A j \in Tools : j # i => CallOf(j)' = CallOf(j)
         /\ CallOf(i)' = [id |-> i, args |-> Sent(i) \o PieceTo(i, p)]
         /\ \A k : Ranked(Tools, k)' = Ranked(Tools, k)
         /\ CallsSent' = [k \in 0..(Cardinality(Begun') - 1) |-> CallOf(Ranked(Tools, k))']
<1>1. /\ answer' = answer /\ i \in DOMAIN answer
      /\ Sent(i)' = Sent(i) \o PieceTo(i, p)
      /\ \A j \in DOMAIN answer : j # i => Sent(j)' = Sent(j)
  BY SentAdvance DEF Advancing
<1>2. Tools' = Tools
  BY <1>1 DEF Tools, ToolsOf
<1>3. \A j \in Tools : j \in DOMAIN answer
  BY DEF Tools, ToolsOf
<1>4. \A k : Ranked(Tools, k)' = Ranked(Tools, k)
  BY <1>2 DEF Ranked, Rank
<1>5. CallsSent' = [k \in 0..(Cardinality(Begun') - 1) |-> CallOf(Ranked(Tools, k))']
  BY DEF CallsSent
<1> QED
  BY <1>1, <1>2, <1>3, <1>4, <1>5 DEF CallOf

LEMMA CallStarted ==
  ASSUME OrderInv, NEW i, NEW p, Advancing(i, p), answer[i].kind = "tool", progress[i] = -1
  PROVE  /\ Rank(Tools, i) = Cardinality(Begun) /\ Cardinality(Begun) \in Nat
         /\ Begun' = Begun \cup {i} /\ i \notin Begun
         /\ CallsSent' = MoreArgs(Begin(CallsSent, Cardinality(Begun), i), Cardinality(Begun),
                               PieceTo(i, p))
<1>1. /\ i \in DOMAIN answer /\ MaySend(i) /\ DOMAIN answer = 1..Len(answer)
      /\ \A j \in DOMAIN answer : j # i => progress'[j] = progress[j]
      /\ progress'[i] = p /\ p \in Nat
  BY ProgressAdvance DEF Advancing
<1>2. i \in Tools /\ i \notin Begun
  BY <1>1 DEF Tools, ToolsOf, Begun
<1>3. /\ StartsWith(Tools, Begun) /\ IsFiniteSet(Begun) /\ Cardinality(Begun) \in Nat
      /\ \A j \in Tools : j \in DOMAIN answer /\ j \in Nat
  BY BegunFirst
<1>4. StartsWith(Tools, Begun \cup {i})
  <2>1. ASSUME NEW j \in Tools, j < i
        PROVE  j \in Begun
    <3>1. j \in 1..(i - 1)
      BY <1>1, <1>3, <2>1
    <3>2. progress[j] >= 0
      BY <1>1, <1>3, <3>1, BlockType DEF MaySend, Done
    <3> QED
      BY <3>2 DEF Begun
  <2> QED
    BY <1>2, <1>3, <2>1 DEF StartsWith
<1>5. Rank(Tools, i) = Cardinality(Begun)
  <2>1. PICK n \in Nat : Tools \in SUBSET (0..n)
    BY BegunFirst
  <2> QED
    BY <1>2, <1>3, <1>4, <2>1, RanksBegin
<1>6. Begun' = Begun \cup {i}
  <2>1. Tools' = Tools
    BY OtherCalls
  <2> QED
    BY <1>1, <1>2, <1>3, <2>1 DEF Begun
<1>7. Cardinality(Begun') = Cardinality(Begun) + 1
  BY <1>2, <1>3, <1>6, FS_AddElement
<1>8. PICK c \in Nat : c = Cardinality(Begun)
  BY <1>3
<1>9. PICK piece \in Seq(Char) : piece = PieceTo(i, p)
  BY SentAdvance
<1>10. CallOf(i)' = [id |-> i, args |-> piece]
  <2>1. Sent(i) = << >>
    BY <1>1, SentType
  <2>2. << >> \o piece = piece
    OBVIOUS
  <2> QED
    BY <1>9, <2>1, <2>2, OtherCalls
<1>11. PICK C : C = CallsSent
  OBVIOUS
<1>12. C = [k \in 0..(c - 1) |-> CallOf(Ranked(Tools, k))]
  BY <1>8, <1>11 DEF CallsSent
<1>13. CallsSent' = [k \in 0..c |-> IF k = c THEN [id |-> i, args |-> piece] ELSE C[k]]
  <2>1. Ranked(Tools, c) = i
    BY <1>2, <1>5, <1>8, CallsBegun
  <2>2. ASSUME NEW k \in 0..c, k # c
        PROVE  CallOf(Ranked(Tools, k))' = C[k]
    <3>1. k \in 0..(c - 1)
      BY <2>2
    <3>2. PICK j : j = Ranked(Tools, k)
      OBVIOUS
    <3>3. j \in Begun /\ j \in Tools /\ j # i
      BY <1>2, <1>8, <3>1, <3>2, CallsBegun
    <3>4. CallOf(j)' = CallOf(j) /\ Ranked(Tools, k)' = j
      BY <3>2, <3>3, OtherCalls
    <3>5. C[k] = CallOf(j)
      BY <1>12, <3>1, <3>2
    <3> QED
      BY <3>4, <3>5 DEF CallOf, Sent
  <2>3. CallOf(Ranked(Tools, c))' = [id |-> i, args |-> piece]
    <3>1. Ranked(Tools, c)' = i
      BY <2>1, OtherCalls
    <3> QED
      BY <1>10, <3>1 DEF CallOf, Sent
  <2>4. CallsSent' = [k \in 0..c |-> CallOf(Ranked(Tools, k))']
    <3>1. Cardinality(Begun') - 1 = c
      BY <1>7, <1>8
    <3> QED
      BY <3>1, OtherCalls
  <2> QED
    BY <2>2, <2>3, <2>4
<1>14. CallsSent' = [Begin(C, c, i) EXCEPT ![c].args = @ \o piece]
  <2>1. DOMAIN C = 0..(c - 1)
    BY <1>12
  <2>2. << >> \o piece = piece
    OBVIOUS
  <2>3. (0..(c - 1)) \cup {c} = 0..c /\ c \notin 0..(c - 1) /\ \A k \in 0..c : k # c => k \in 0..(c - 1)
    OBVIOUS
  <2>4. Begin(C, c, i) = [k \in 0..c |-> IF k = c THEN [id |-> i, args |-> << >>] ELSE C[k]]
    BY <2>1, <2>3 DEF Begin
  <2>5. PICK B : B = [k \in 0..c |-> IF k = c THEN [id |-> i, args |-> << >>] ELSE C[k]]
    OBVIOUS
  <2>6. [B EXCEPT ![c].args = @ \o piece]
          = [k \in 0..c |-> IF k = c THEN [id |-> i, args |-> piece] ELSE C[k]]
    <3>1. DOMAIN B = 0..c /\ c \in 0..c /\ B[c] = [id |-> i, args |-> << >>]
          /\ \A k \in 0..c : k # c => B[k] = C[k]
      BY <2>5
    <3>2. [B[c] EXCEPT !.args = @ \o piece] = [id |-> i, args |-> piece]
      BY <2>2, <3>1
    <3> QED
      BY <3>1, <3>2
  <2> QED
    BY <1>13, <2>4, <2>5, <2>6
<1> QED
  BY <1>2, <1>3, <1>5, <1>6, <1>8, <1>9, <1>11, <1>14 DEF MoreArgs

LEMMA CallContinued ==
  ASSUME OrderInv, NEW i, NEW p, Advancing(i, p), answer[i].kind = "tool", progress[i] >= 0
  PROVE  /\ Rank(Tools, i) \in 0..(Cardinality(Begun) - 1)
         /\ DOMAIN CallsSent = 0..(Cardinality(Begun) - 1)
         /\ CallsSent' = MoreArgs(CallsSent, Rank(Tools, i), PieceTo(i, p))
         /\ format = "anthropic" => Rank(Tools, i) = Cardinality(Begun) - 1
<1>1. /\ i \in DOMAIN answer /\ DOMAIN answer = 1..Len(answer) /\ ~Done(i)
      /\ \A j \in DOMAIN answer : j # i => progress'[j] = progress[j]
      /\ progress'[i] = p /\ p \in Nat
  BY ProgressAdvance DEF Advancing
<1>2. i \in Begun /\ i \in Tools /\ i \in Nat
  BY <1>1, BlockType DEF Tools, ToolsOf, Begun
<1>3. /\ StartsWith(Tools, Begun) /\ Cardinality(Begun) \in Nat
      /\ \A j \in Tools : j \in DOMAIN answer /\ j \in Nat
  BY BegunFirst
<1>4. Begun' = Begun
  <2>1. Tools' = Tools
    BY OtherCalls
  <2> QED
    BY <1>1, <1>2, <1>3, <2>1 DEF Begun
<1>5. PICK r : r = Rank(Tools, i)
  OBVIOUS
<1>6. r \in 0..(Cardinality(Begun) - 1) /\ Ranked(Tools, r) = i
  BY <1>2, <1>5, CallsBegun
<1>7. ASSUME format = "anthropic"
      PROVE  r = Cardinality(Begun) - 1
  <2>1. ASSUME NEW j \in Begun
        PROVE  j <= i
    <3>1. j \in DOMAIN answer /\ progress[j] >= 0 /\ j \in Nat
      BY <1>3 DEF Begun
    <3>2. MaySend(j)
      BY <3>1 DEF OrderInv
    <3>3. ~(i \in 1..(j - 1))
      BY <1>1, <1>7, <3>2 DEF MaySend
    <3>4. i \in 1..Len(answer)
      BY <1>1
    <3> QED
      BY <3>1, <3>3, <3>4
  <2>2. PICK n \in Nat : Tools \in SUBSET (0..n)
    BY BegunFirst
  <2>3. StartsWith(Tools, Begun) /\ i \in Begun
    BY <1>2, <1>3
  <2>4. Rank(Tools, i) = Cardinality(Begun) - 1
    BY ONLY <2>1, <2>2, <2>3, RankOfLast
  <2> QED
    BY <1>5, <2>4
<1>8. PICK C : C = CallsSent
  OBVIOUS
<1>9. C = [k \in 0..(Cardinality(Begun) - 1) |-> CallOf(Ranked(Tools, k))]
  BY <1>8 DEF CallsSent
<1>10. PICK piece \in Seq(Char) : piece = PieceTo(i, p)
  BY SentAdvance
<1>11. C[r] = [id |-> i, args |-> Sent(i)] /\ CallOf(i)' = [id |-> i, args |-> Sent(i) \o piece]
  BY <1>6, <1>9, <1>10, OtherCalls DEF CallOf
<1>12. CallsSent' = [k \in 0..(Cardinality(Begun) - 1) |->
                       IF k = r THEN [id |-> i, args |-> Sent(i) \o piece] ELSE C[k]]
  <2>1. ASSUME NEW k \in 0..(Cardinality(Begun) - 1), k # r
        PROVE  CallOf(Ranked(Tools, k))' = C[k]
    <3>1. PICK j : j = Ranked(Tools, k)
      OBVIOUS
    <3>2. j \in Tools /\ Rank(Tools, j) = k
      BY <3>1, CallsBegun
    <3>3. j # i
      BY <1>5, <2>1, <3>2
    <3>4. CallOf(j)' = CallOf(j) /\ Ranked(Tools, k)' = j
      BY <3>1, <3>2, <3>3, OtherCalls
    <3>5. C[k] = CallOf(j)
      BY <1>9, <3>1
    <3> QED
      BY <3>4, <3>5 DEF CallOf, Sent
  <2>2. CallOf(Ranked(Tools, r))' = [id |-> i, args |-> Sent(i) \o piece]
    <3>1. Ranked(Tools, r)' = i
      BY <1>6, OtherCalls
    <3> QED
      BY <1>11, <3>1 DEF CallOf, Sent
  <2>3. CallsSent' = [k \in 0..(Cardinality(Begun) - 1) |-> CallOf(Ranked(Tools, k))']
    BY <1>4, OtherCalls
  <2> QED
    BY <2>1, <2>2, <2>3
<1>13. CallsSent' = [C EXCEPT ![r].args = @ \o piece]
  <2>1. DOMAIN C = 0..(Cardinality(Begun) - 1)
    BY <1>9
  <2>2. [C[r] EXCEPT !.args = @ \o piece] = [id |-> i, args |-> Sent(i) \o piece]
    <3>1. PICK sent \in Seq(Char) : sent = Sent(i)
      BY <1>1, SentType
    <3>2. C[r] = [id |-> i, args |-> sent]
      BY <1>11, <3>1
    <3>3. C[r].args \o piece = sent \o piece
      BY <3>2
    <3>4. PICK longer : longer = sent \o piece
      OBVIOUS
    <3>5. [C[r] EXCEPT !.args = longer] = [id |-> i, args |-> longer]
      BY <3>2
    <3> QED
      BY <3>1, <3>3, <3>4, <3>5
  <2>3. C = [k \in 0..(Cardinality(Begun) - 1) |-> C[k]]
    BY <1>9
  <2> QED
    BY <1>6, <1>12, <2>1, <2>2, <2>3
<1>14. DOMAIN CallsSent = 0..(Cardinality(Begun) - 1)
  BY DEF CallsSent
<1> QED
  BY <1>5, <1>6, <1>7, <1>8, <1>10, <1>13, <1>14 DEF MoreArgs

\* Pieces of calls that come with one chunk: none, or one.
IsAdding(F, base, n, seq) ==
  F = [s \in SUBSET (1..n) |->
         IF s = {} THEN base ELSE AddPiece(F[s \ {Max(s)}], seq[Max(s)])]

LEMMA PiecesNone == ASSUME NEW calls PROVE FoldLeft(AddPiece, calls, << >>) = calls
<1> DEFINE F == CHOOSE F : IsAdding(F, calls, 0, << >>)
<1>1. FoldLeft(AddPiece, calls, << >>) = F[1..0]
  <2>1. DOMAIN << >> = 1..0
    OBVIOUS
  <2> QED
    BY <2>1 DEF FoldLeft, MapThenFoldSet, IsAdding
<1>2. IsAdding(F, calls, 0, << >>)
  <2> DEFINE G == [s \in SUBSET (1..0) |-> calls]
  <2>1. SUBSET (1..0) = {{}}
    OBVIOUS
  <2>2. IsAdding(G, calls, 0, << >>)
    BY <2>1 DEF IsAdding
  <2> HIDE DEF G
  <2> QED
    BY <2>2
<1> HIDE DEF F
<1>3. {} \in SUBSET (1..0) /\ 1..0 = {}
  OBVIOUS
<1>4. F[{}] = calls
  BY <1>2, <1>3 DEF IsAdding
<1> QED
  BY <1>1, <1>3, <1>4

LEMMA PiecesOne ==
  ASSUME NEW calls, NEW piece
  PROVE  FoldLeft(AddPiece, calls, << piece >>) = AddPiece(calls, piece)
<1> DEFINE seq == << piece >>
           F == CHOOSE F : IsAdding(F, calls, 1, seq)
<1>1. FoldLeft(AddPiece, calls, seq) = F[1..1]
  <2>1. DOMAIN seq = 1..1
    OBVIOUS
  <2> QED
    BY <2>1 DEF FoldLeft, MapThenFoldSet, IsAdding
<1>2. /\ {} \in SUBSET (1..1) /\ 1..1 \in SUBSET (1..1) /\ 1..1 # {} /\ seq[1] = piece
      /\ \A s \in SUBSET (1..1) : s # {} => s = 1..1
  <2>1. 1..1 = {1}
    OBVIOUS
  <2> QED
    BY <2>1
<1>3. Max(1..1) = 1 /\ (1..1) \ {1} = {}
  <2>1. 1 \in Nat \ {0} /\ 1..(1 - 1) = {}
    OBVIOUS
  <2> QED
    BY <2>1, MaxUpTo
<1> HIDE DEF seq
<1>4. IsAdding(F, calls, 1, seq)
  <2> DEFINE G == [s \in SUBSET (1..1) |-> IF s = {} THEN calls ELSE AddPiece(calls, piece)]
  <2>1. \A s \in SUBSET (1..1) :
          G[s] = IF s = {} THEN calls ELSE AddPiece(G[s \ {Max(s)}], seq[Max(s)])
    BY <1>2, <1>3
  <2>2. G = [s \in SUBSET (1..1) |-> G[s]]
    OBVIOUS
  <2> HIDE DEF G
  <2>3. IsAdding(G, calls, 1, seq)
    BY <2>1, <2>2 DEF IsAdding
  <2> QED
    BY <2>3
<1> HIDE DEF F
<1>5. F[{}] = calls
  BY <1>2, <1>4 DEF IsAdding
<1>6. F[1..1] = AddPiece(F[{}], piece)
  <2>1. \A s \in SUBSET (1..1) :
          F[s] = IF s = {} THEN calls ELSE AddPiece(F[s \ {Max(s)}], seq[Max(s)])
    BY <1>4 DEF IsAdding
  <2>2. F[1..1] = AddPiece(F[(1..1) \ {Max(1..1)}], seq[Max(1..1)])
    BY <1>2, <2>1
  <2> QED
    BY <1>2, <1>3, <2>2
<1> QED
  BY <1>1, <1>5, <1>6 DEF seq

----------------------------------------------------------------------------
(* Each event brings what it says                                           *)

LEMMA TextSentType == ASSUME OrderInv, NEW kind PROVE TextSent(kind) \in Seq(Char)
<1>1. PICK f \in Seq(Seq(Char)) : f = SentOf(kind)
  BY SentOfType
<1>2. PICK c : IsChain(c, f, Len(f), Seq(Char)) /\ c[Len(f)] = FlattenSeq(f)
  BY FlattenFromNothing
<1>3. Len(f) \in 0..Len(f)
  OBVIOUS
<1>4. FlattenSeq(f) \in Seq(Char)
  BY <1>2, <1>3 DEF IsChain
<1> QED
  BY <1>1, <1>4 DEF TextSent

\* The events of the Anthropic format, added to n calls.
LEMMA AddStart ==
  ASSUME NEW t, NEW r, NEW n \in Nat, NEW calls, DOMAIN calls = 0..(n - 1), NEW i, NEW kind
  PROVE  AddEvent(Output(t, r, calls), [type |-> "start", kind |-> kind, id |-> i])
           = Output(t, r, IF kind = "tool" THEN Begin(calls, n, i) ELSE calls)
<1>1. Cardinality(DOMAIN calls) = n
  BY FS_Interval
<1>2. PICK acc : acc = Output(t, r, calls)
  OBVIOUS
<1>3. acc = [content |-> t, reasoning |-> r, calls |-> calls] /\ acc.calls = calls
  BY <1>2 DEF Output
<1>4. CASE kind = "tool"
  <2>1. AddEvent(acc, [type |-> "start", kind |-> kind, id |-> i]) = Output(t, r, Begin(calls, n, i))
    BY <1>1, <1>3, <1>4 DEF AddEvent, Output
  <2> QED
    BY <1>2, <1>4, <2>1
<1>5. CASE kind # "tool"
  <2>1. AddEvent(acc, [type |-> "start", kind |-> kind, id |-> i]) = acc
    BY <1>5 DEF AddEvent
  <2> QED
    BY <1>2, <1>5, <2>1
<1> QED
  BY <1>4, <1>5

DeltaAdds(t, r, n, calls, kind, text) ==
  AddEvent(Output(t, r, calls), [type |-> "delta", kind |-> kind, text |-> text])
    = Output(IF kind = "text" THEN t \o text ELSE t,
             IF kind = "thinking" THEN r \o text ELSE r,
             IF kind = "tool" THEN MoreArgs(calls, n - 1, text) ELSE calls)

LEMMA AddDelta ==
  ASSUME NEW t, NEW r, NEW n \in Nat, NEW calls, DOMAIN calls = 0..(n - 1),
         NEW kind \in Kinds, kind = "tool" => n > 0, NEW text
  PROVE  DeltaAdds(t, r, n, calls, kind, text)
<1>1. Cardinality(DOMAIN calls) = n
  BY FS_Interval
<1>2. PICK acc : acc = Output(t, r, calls)
  OBVIOUS
<1>3. /\ acc = [content |-> t, reasoning |-> r, calls |-> calls]
      /\ acc.content = t /\ acc.reasoning = r /\ acc.calls = calls
  BY <1>2 DEF Output
<1>4. PICK e : e = [type |-> "delta", kind |-> kind, text |-> text]
  OBVIOUS
<1>5. CASE kind = "text"
  <2>1. AddEvent(acc, e) = Output(t \o text, r, calls)
    BY <1>3, <1>4, <1>5 DEF AddEvent, Output
  <2> QED
    BY <1>2, <1>4, <1>5, <2>1 DEF DeltaAdds
<1>6. CASE kind = "thinking"
  <2>1. AddEvent(acc, e) = Output(t, r \o text, calls)
    BY <1>3, <1>4, <1>6 DEF AddEvent, Output
  <2> QED
    BY <1>2, <1>4, <1>6, <2>1 DEF DeltaAdds
<1>7. CASE kind = "tool"
  <2>1. AddEvent(acc, e) = Output(t, r, MoreArgs(calls, n - 1, text))
    BY <1>1, <1>3, <1>4, <1>7 DEF AddEvent, Output
  <2> QED
    BY <1>2, <1>4, <1>7, <2>1 DEF DeltaAdds
<1> QED
  BY <1>5, <1>6, <1>7 DEF Kinds, DeltaAdds

LEMMA AddNothing ==
  ASSUME NEW calls, NEW c, c \notin DOMAIN calls, NEW i
  PROVE  MoreArgs(Begin(calls, c, i), c, << >>) = Begin(calls, c, i)
<1>1. PICK B : B = Begin(calls, c, i)
  OBVIOUS
<1>2. B = [k \in DOMAIN calls \cup {c} |->
             IF k \in DOMAIN calls THEN calls[k] ELSE [id |-> i, args |-> << >>]]
  BY <1>1 DEF Begin
<1>3. c \in DOMAIN B /\ B[c] = [id |-> i, args |-> << >>] /\ B = [k \in DOMAIN B |-> B[k]]
  BY <1>2
<1>4. << >> \o << >> = << >>
  OBVIOUS
<1>5. [B[c] EXCEPT !.args = @ \o << >>] = B[c]
  BY <1>3, <1>4
<1> QED
  BY <1>1, <1>3, <1>5 DEF MoreArgs

\* What has been received changes in one place.
LEMMA ReceivedAdvance ==
  ASSUME OrderInv, NEW i, NEW p, Advancing(i, p)
  PROVE  /\ answer[i].kind \in Kinds
         /\ answer[i].kind = "text" =>
              Received' = Output(TextSent("text") \o PieceTo(i, p), TextSent("thinking"), CallsSent)
         /\ answer[i].kind = "thinking" =>
              Received' = Output(TextSent("text"), TextSent("thinking") \o PieceTo(i, p), CallsSent)
         /\ answer[i].kind = "tool" =>
              Received' = Output(TextSent("text"), TextSent("thinking"), CallsSent')
<1>1. answer[i].kind \in Kinds
  BY BlockType DEF Advancing
<1>2. \A kind \in {"text", "thinking"} :
        /\ answer[i].kind = kind => TextSent(kind)' = TextSent(kind) \o PieceTo(i, p)
        /\ answer[i].kind # kind => TextSent(kind)' = TextSent(kind)
  BY TextAdvance
<1>3. answer[i].kind # "tool" => CallsSent' = CallsSent
  BY CallsUntouched
<1>4. Received' = Output(TextSent("text")', TextSent("thinking")', CallsSent')
  BY DEF Received, Output
<1> QED
  BY <1>1, <1>2, <1>3, <1>4

LEMMA CallsAre ==
  ASSUME OrderInv
  PROVE  DOMAIN CallsSent = 0..(Cardinality(Begun) - 1) /\ Cardinality(Begun) \in Nat
BY BegunFirst DEF CallsSent

LEMMA StartRead ==
  ASSUME OrderInv, NEW i \in DOMAIN answer, StartBlock(i)
  PROVE  /\ OrderInv'
         /\ Received' = AddEvent(Received, [type |-> "start", kind |-> answer[i].kind, id |-> i])
<1>1. Advancing(i, 0)
  <2>1. 0 \in 0..Len(answer[i].text)
    BY BlockType
  <2> QED
    BY <2>1 DEF StartBlock, Receive, backend, Advancing
<1>2. progress[i] = -1
  BY DEF StartBlock
<1>3. PieceTo(i, 0) = << >>
  BY <1>2, BlockType DEF PieceTo
<1>4. \A kind : TextSent(kind) \o << >> = TextSent(kind)
  BY TextSentType
<1>5. PICK n \in Nat : n = Cardinality(Begun) /\ DOMAIN CallsSent = 0..(n - 1)
  BY CallsAre
<1>6. PICK kind \in Kinds : kind = answer[i].kind
  BY <1>1, ReceivedAdvance
<1>0. OrderInv'
  BY <1>1, OrderAdvance
<1>9. PICK t, r, calls :
        /\ t = TextSent("text") /\ r = TextSent("thinking") /\ calls = CallsSent
        /\ DOMAIN calls = 0..(n - 1)
  BY <1>5
<1>7. CASE kind = "tool"
  <2>1. CallsSent' = Begin(CallsSent, n, i)
    <3>1. CallsSent' = MoreArgs(Begin(CallsSent, n, i), n, << >>)
      BY <1>1, <1>2, <1>3, <1>5, <1>6, <1>7, CallStarted
    <3>2. n \notin DOMAIN CallsSent
      BY <1>5
    <3> QED
      BY <3>1, <3>2, AddNothing
  <2>2. Received' = Output(TextSent("text"), TextSent("thinking"), CallsSent')
    BY <1>1, <1>6, <1>7, ReceivedAdvance
  <2>3. AddEvent(Received, [type |-> "start", kind |-> "tool", id |-> i])
          = Output(TextSent("text"), TextSent("thinking"), Begin(CallsSent, n, i))
    <3>1. AddEvent(Output(t, r, calls), [type |-> "start", kind |-> "tool", id |-> i])
            = Output(t, r, Begin(calls, n, i))
      BY <1>7, <1>9, AddStart
    <3> QED
      BY <1>9, <3>1 DEF Received
  <2> QED
    BY <1>0, <1>6, <1>7, <2>1, <2>2, <2>3
<1>8. CASE kind \in {"text", "thinking"}
  <2>1. Received' = Output(TextSent("text"), TextSent("thinking"), CallsSent)
    <3>1. CASE kind = "text"
      BY <1>1, <1>3, <1>4, <1>6, <3>1, ReceivedAdvance
    <3>2. CASE kind = "thinking"
      BY <1>1, <1>3, <1>4, <1>6, <3>2, ReceivedAdvance
    <3> QED
      BY <1>8, <3>1, <3>2
  <2>2. AddEvent(Received, [type |-> "start", kind |-> kind, id |-> i])
          = Output(TextSent("text"), TextSent("thinking"), CallsSent)
    <3>1. AddEvent(Output(t, r, calls), [type |-> "start", kind |-> kind, id |-> i])
            = Output(t, r, calls)
      BY <1>8, <1>9, AddStart
    <3> QED
      BY <1>9, <3>1 DEF Received
  <2> QED
    BY <1>0, <1>6, <2>1, <2>2
<1> QED
  BY <1>6, <1>7, <1>8 DEF Kinds

LEMMA DeltaRead ==
  ASSUME OrderInv, NEW i \in DOMAIN answer, NEW n \in Nat \ {0}, SendDelta(i, n)
  PROVE  /\ OrderInv'
         /\ Received' = AddEvent(Received, [type |-> "delta", kind |-> answer[i].kind,
                                            text |-> Piece(i, n)])
<1> PICK p : p = progress[i] + n
  OBVIOUS
<1>1. progress[i] \in Int /\ progress[i] >= 0 /\ p <= Len(answer[i].text)
  BY BlockType DEF SendDelta
<1>2. Advancing(i, p)
  <2>1. Len(answer[i].text) \in Nat
    BY BlockType
  <2>2. p \in 0..Len(answer[i].text) /\ progress[i] < p
    BY <1>1, <2>1
  <2>3. progress' = [progress EXCEPT ![i] = p]
    BY DEF SendDelta
  <2> QED
    BY <2>2, <2>3 DEF SendDelta, Receive, backend, Advancing
<1>3. PICK piece : piece = Piece(i, n) /\ piece = PieceTo(i, p)
  <2>1. Piece(i, n) = PieceTo(i, p)
    <3>1. (IF progress[i] = -1 THEN 0 ELSE progress[i]) = progress[i] /\ p = progress[i] + n
      BY <1>1
    <3> QED
      BY <3>1 DEF Piece, PieceTo
  <2> QED
    BY <2>1
<1>4. PICK kind \in Kinds : kind = answer[i].kind
  BY <1>2, ReceivedAdvance
<1>5. PICK c \in Nat : c = Cardinality(Begun) /\ DOMAIN CallsSent = 0..(c - 1)
  BY CallsAre
<1>6. PICK t, r, calls :
        /\ t = TextSent("text") /\ r = TextSent("thinking") /\ calls = CallsSent
        /\ DOMAIN calls = 0..(c - 1)
  BY <1>5
<1>7. kind = "tool" => c > 0 /\ CallsSent' = MoreArgs(calls, c - 1, piece)
  <2> SUFFICES ASSUME kind = "tool" PROVE c > 0 /\ CallsSent' = MoreArgs(calls, c - 1, piece)
    OBVIOUS
  <2>1. /\ Rank(Tools, i) \in 0..(c - 1) /\ Rank(Tools, i) = c - 1
        /\ CallsSent' = MoreArgs(CallsSent, Rank(Tools, i), PieceTo(i, p))
    BY <1>1, <1>2, <1>4, <1>5, CallContinued DEF SendDelta
  <2> QED
    BY <1>3, <1>6, <2>1
<1>8. Received' = Output(IF kind = "text" THEN t \o piece ELSE t,
                         IF kind = "thinking" THEN r \o piece ELSE r,
                         IF kind = "tool" THEN MoreArgs(calls, c - 1, piece) ELSE calls)
  <2>1. CASE kind = "text"
    BY <1>2, <1>3, <1>4, <1>6, <2>1, ReceivedAdvance
  <2>2. CASE kind = "thinking"
    BY <1>2, <1>3, <1>4, <1>6, <2>2, ReceivedAdvance
  <2>3. CASE kind = "tool"
    BY <1>2, <1>4, <1>6, <1>7, <2>3, ReceivedAdvance
  <2> QED
    BY <2>1, <2>2, <2>3 DEF Kinds
<1>9. AddEvent(Output(t, r, calls), [type |-> "delta", kind |-> kind, text |-> piece])
        = Output(IF kind = "text" THEN t \o piece ELSE t,
                 IF kind = "thinking" THEN r \o piece ELSE r,
                 IF kind = "tool" THEN MoreArgs(calls, c - 1, piece) ELSE calls)
  <2>1. DOMAIN calls = 0..(c - 1) /\ (kind = "tool" => c > 0)
    BY <1>6, <1>7
  <2>2. DeltaAdds(t, r, c, calls, kind, piece)
    BY <2>1, AddDelta
  <2> QED
    BY <2>2 DEF DeltaAdds
<1>10. Received = Output(t, r, calls)
  BY <1>6 DEF Received
<1> QED
  BY <1>2, <1>3, <1>4, <1>8, <1>9, <1>10, OrderAdvance

\* The chunks of the OpenAI format.
LEMMA ChunkRead ==
  ASSUME OrderInv, NEW i \in DOMAIN answer, NEW n \in Nat, SendChunk(i, n),
         NEW first, first <=> progress[i] = -1,
         NEW begun, begun = IF first THEN 0 ELSE progress[i]
  PROVE  /\ OrderInv'
         /\ Received' = AddChunk(Received, Chunk(i, first, SubSeq(answer[i].text, begun + 1, begun + n)))
<1> PICK p : p = begun + n
  OBVIOUS
<1>1. progress[i] \in -1..Len(answer[i].text) /\ Len(answer[i].text) \in Nat /\ begun \in Nat
  BY BlockType
<1>2. Advancing(i, p)
  <2>1. progress' = [progress EXCEPT ![i] = p] /\ p <= Len(answer[i].text) /\ (n = 0 => first)
    BY DEF SendChunk
  <2>2. p \in 0..Len(answer[i].text) /\ progress[i] < p
    BY <1>1, <2>1
  <2> QED
    BY <2>1, <2>2 DEF SendChunk, Receive, backend, Advancing
<1>3. PICK piece \in Seq(Char) :
        piece = SubSeq(answer[i].text, begun + 1, begun + n) /\ piece = PieceTo(i, p)
  BY <1>2, SentAdvance DEF PieceTo
<1>4. PICK kind \in Kinds : kind = answer[i].kind
  BY <1>2, ReceivedAdvance
<1>5. PICK c \in Nat : c = Cardinality(Begun) /\ DOMAIN CallsSent = 0..(c - 1)
  BY CallsAre
<1>6. PICK t \in Seq(Char), r \in Seq(Char) : t = TextSent("text") /\ r = TextSent("thinking")
  BY TextSentType
<1>7. PICK calls : calls = CallsSent /\ DOMAIN calls = 0..(c - 1)
  BY <1>5
<1>8. Received = Output(t, r, calls)
  BY <1>6, <1>7 DEF Received
<1>9. t \o << >> = t /\ r \o << >> = r
  OBVIOUS
<1>10. PICK e : e = Chunk(i, first, piece)
  OBVIOUS
<1>11. /\ e.content = IF kind = "text" THEN piece ELSE << >>
       /\ e.reasoning = IF kind = "thinking" THEN piece ELSE << >>
       /\ e.calls = IF kind # "tool" THEN << >>
                    ELSE << [index |-> IndexOf(answer, i), id |-> IF first THEN i ELSE 0,
                             args |-> piece] >>
  BY <1>4, <1>10 DEF Chunk
<1>12. AddChunk(Received, e)
         = Output(t \o e.content, r \o e.reasoning, FoldLeft(AddPiece, calls, e.calls))
  BY <1>8 DEF AddChunk, Output
<1>13. Received' = AddChunk(Received, e)
  <2>1. CASE kind = "text"
    <3>1. FoldLeft(AddPiece, calls, e.calls) = calls
      BY <1>11, <2>1, PiecesNone
    <3>2. Received' = Output(t \o piece, r, calls)
      BY <1>2, <1>3, <1>4, <1>6, <1>7, <2>1, ReceivedAdvance
    <3> QED
      BY <1>9, <1>11, <1>12, <2>1, <3>1, <3>2
  <2>2. CASE kind = "thinking"
    <3>1. FoldLeft(AddPiece, calls, e.calls) = calls
      BY <1>11, <2>2, PiecesNone
    <3>2. Received' = Output(t, r \o piece, calls)
      BY <1>2, <1>3, <1>4, <1>6, <1>7, <2>2, ReceivedAdvance
    <3> QED
      BY <1>9, <1>11, <1>12, <2>2, <3>1, <3>2
  <2>3. CASE kind = "tool"
    <3>1. PICK index : index = IndexOf(answer, i) /\ index = Rank(Tools, i)
      BY DEF IndexOf, Tools
    <3>2. PICK id : id = IF first THEN i ELSE 0
      OBVIOUS
    <3>3. FoldLeft(AddPiece, calls, e.calls) = MoreArgs(Begin(calls, index, id), index, piece)
      <4>1. PICK new : new = [index |-> index, id |-> id, args |-> piece]
        OBVIOUS
      <4>2. e.calls = << new >>
        BY <1>11, <2>3, <3>1, <3>2, <4>1
      <4>3. FoldLeft(AddPiece, calls, << new >>) = AddPiece(calls, new)
        BY PiecesOne
      <4>4. AddPiece(calls, new) = MoreArgs(Begin(calls, index, id), index, piece)
        BY <4>1 DEF AddPiece
      <4> QED
        BY <4>2, <4>3, <4>4
    <3>4. CallsSent' = MoreArgs(Begin(calls, index, id), index, piece)
      <4>1. CASE first
        BY <1>2, <1>3, <1>4, <1>5, <1>7, <2>3, <3>1, <3>2, <4>1, CallStarted
      <4>2. CASE ~first
        <5>1. /\ index \in 0..(c - 1)
              /\ CallsSent' = MoreArgs(calls, index, piece)
          <6>1. progress[i] >= 0
            BY <1>1, <4>2
          <6> QED
            BY <1>2, <1>3, <1>4, <1>5, <1>7, <2>3, <3>1, <6>1, CallContinued
        <5>2. calls = [k \in 0..(c - 1) |-> calls[k]]
          BY <1>5, <1>7 DEF CallsSent
        <5>3. Begin(calls, index, id) = calls
          <6>1. DOMAIN calls \cup {index} = DOMAIN calls
            BY <1>7, <5>1
          <6> QED
            BY <1>7, <5>2, <6>1 DEF Begin
        <5> QED
          BY <5>1, <5>3
      <4> QED
        BY <4>1, <4>2
    <3>5. Received' = Output(t, r, CallsSent')
      BY <1>2, <1>4, <1>6, <2>3, ReceivedAdvance
    <3> QED
      BY <1>9, <1>11, <1>12, <2>3, <3>3, <3>4, <3>5
  <2> QED
    BY <2>1, <2>2, <2>3 DEF Kinds
<1> QED
  BY <1>2, <1>3, <1>10, <1>13, OrderAdvance

----------------------------------------------------------------------------
(* What is read is what has been received                                   *)

LEMMA FlattenEmpty ==
  ASSUME NEW f \in Seq(Seq(Char)), \A i \in 1..Len(f) : f[i] = << >>
  PROVE  FlattenSeq(f) = << >>
<1>1. CASE f = << >>
  BY <1>1 DEF FlattenSeq
<1>2. CASE f # << >>
  <2>1. PICK i \in 1..Len(f) : i = 1
    BY <1>2
  <2>2. PICK pre \in Seq(Char) :
          /\ DifferAt(i, FlattenSeq(f), FlattenSeq(f), f, f, Len(f), pre, Seq(Char))
          /\ pre = FlattenSeq(SubSeq(f, 1, i - 1))
    BY FlattenReplace
  <2>3. pre = << >>
    <3>1. SubSeq(f, 1, i - 1) = << >>
      BY <2>1
    <3>2. FlattenSeq(<< >>) = << >>
      BY DEF FlattenSeq
    <3> QED
      BY <2>2, <3>1, <3>2
  <2>4. PICK post : FlattenSeq(f) = (pre \o f[i]) \o post /\ post = << >>
    BY <2>2 DEF DifferAt
  <2>5. (<< >> \o << >>) \o << >> = << >>
    OBVIOUS
  <2> QED
    BY <2>3, <2>4, <2>5
<1> QED
  BY <1>1, <1>2

LEMMA ReceivedNothing ==
  ASSUME OrderInv, \A i \in DOMAIN answer : progress[i] = -1
  PROVE  Received = Nothing
<1>1. ASSUME NEW kind
      PROVE  TextSent(kind) = << >>
  <2>1. PICK f \in Seq(Seq(Char)) : f = SentOf(kind) /\ DOMAIN answer = 1..Len(f)
    BY SentOfType
  <2>2. \A i \in 1..Len(f) : f[i] = << >>
    BY <2>1, SentType DEF SentOf
  <2>3. FlattenSeq(f) = << >>
    BY <2>2, FlattenEmpty
  <2> QED
    BY <2>1, <2>3 DEF TextSent
<1>2. CallsSent = NoCalls
  <2>1. Begun = {}
    BY DEF Begun, Tools, ToolsOf
  <2>2. Cardinality(Begun) = 0
    BY <2>1, FS_EmptySet
  <2>3. 0..(0 - 1) = {}
    OBVIOUS
  <2> QED
    BY <2>2, <2>3 DEF CallsSent, NoCalls
<1> QED
  BY <1>1, <1>2 DEF Received, Nothing

\* Calls numbered from 0 on.
Numbered(calls) ==
  /\ calls \in [DOMAIN calls -> Call]
  /\ DOMAIN calls = 0..(Cardinality(DOMAIN calls) - 1)

LEMMA CallsSentType ==
  ASSUME OrderInv
  PROVE  /\ Numbered(CallsSent)
         /\ CallsSent = [k \in 0..(Cardinality(Begun) - 1) |->
                           [id |-> Ranked(Tools, k), args |-> Sent(Ranked(Tools, k))]]
         /\ \A k \in 0..(Cardinality(Begun) - 1) : CallsSent[k] \in Call
<1>1. PICK c \in Nat : c = Cardinality(Begun) /\ DOMAIN CallsSent = 0..(c - 1)
  BY CallsAre
<1>2. Cardinality(0..(c - 1)) = c
  BY FS_Interval
<1>3. CallsSent = [k \in 0..(c - 1) |-> [id |-> Ranked(Tools, k), args |-> Sent(Ranked(Tools, k))]]
  BY <1>1 DEF CallsSent, CallOf
<1>4. ASSUME NEW k \in 0..(c - 1)
      PROVE  CallsSent[k] \in Call
  <2>1. PICK i : i = Ranked(Tools, k) /\ i \in Tools
    BY <1>1, CallsBegun
  <2>2. i \in DOMAIN answer /\ i \in Nat
    BY <2>1, BegunFirst
  <2>3. Sent(i) \in Seq(Char)
    BY <2>2, SentType
  <2>4. CallsSent[k] = [id |-> i, args |-> Sent(i)]
    BY <1>3, <2>1
  <2> QED
    BY <2>2, <2>3, <2>4 DEF Call
<1>5. PICK C : C = CallsSent
  OBVIOUS
<1>6. C \in [0..(c - 1) -> Call]
  <2>1. C = [k \in 0..(c - 1) |-> C[k]]
    BY <1>3, <1>5
  <2> QED
    BY <1>4, <1>5, <2>1
<1> QED
  BY <1>1, <1>2, <1>3, <1>4, <1>5, <1>6 DEF Numbered

\* Nothing is recorded before the end, and then what was received.
EndInv ==
  /\ phase \in {"open", "complete", "broken"} /\ stream \in BOOLEAN
  /\ (phase = "open" \/ (phase = "broken" /\ ~stream)) =>
       ends = << << >>, << >>, NoOutput, NoOutput >>
  /\ (phase # "open" /\ stream) =>
       /\ logged = Flush(Received) /\ summary \in StreamObs(Received.content)
       /\ phase = "complete" => \A i \in DOMAIN answer : Done(i)
  /\ (phase = "complete" /\ ~stream) =>
       client = StripBody(Body) /\ summary = BodyObs(Body) /\ logged = ParseBody(Body)

ReadInv ==
  /\ answer \in Answer /\ noise \in 0..MaxNoise
  /\ OrderInv /\ AgreeInv
  /\ ReadFrom(Nothing, wire) = Received
  /\ EndInv

LEMMA ReadInit == Init => ReadInv
<1> SUFFICES ASSUME Init PROVE ReadInv
  OBVIOUS
<1>1. answer \in Answer /\ answer \in Seq(Block)
  BY AnswerAssumption DEF Init
<1>2. OrderInv
  <2>1. progress = [i \in DOMAIN answer |-> -1]
    BY DEF Init
  <2>2. DOMAIN answer = 1..Len(answer) /\ \A i \in DOMAIN answer : Len(answer[i].text) \in Nat
    BY <1>1 DEF Block
  <2> QED
    BY <1>1, <2>1, <2>2 DEF OrderInv
<1>3. Received = Nothing
  BY <1>2, ReceivedNothing DEF Init
<1>4. ReadFrom(Nothing, wire) = Nothing
  BY ReadNone DEF Init
<1>5. 0 \in 0..MaxNoise
  BY BoundsAssumption
<1> QED
  BY <1>1, <1>2, <1>3, <1>4, <1>5, AgreeInit DEF Init, ReadInv, EndInv, ends

\* An event that brings what it says.
LEMMA ReadReceive ==
  ASSUME ReadInv, NEW e, Receive(e), phase = "open", noise' \in 0..MaxNoise,
         OrderInv', Received' = Add(Received, e)
  PROVE  ReadInv'
<1>1. CopyInv' /\ ReadFrom(Nothing, wire)' = Add(ReadFrom(Nothing, wire), e)
  BY CopyReceive DEF ReadInv, AgreeInv
<1>2. ReadFrom(Nothing, wire)' = Received'
  BY <1>1 DEF ReadInv
<1>3. /\ answer' = answer /\ stream' = stream /\ phase' = phase /\ ends' = ends
      /\ logged' = logged /\ recorded' = recorded
  BY DEF Receive, backend, ends
<1>4. EndInv'
  BY <1>3 DEF ReadInv, EndInv
<1>5. BothLogsAgree'
  BY <1>3 DEF ReadInv, AgreeInv, BothLogsAgree
<1> QED
  BY <1>1, <1>2, <1>3, <1>4, <1>5 DEF ReadInv, AgreeInv

LEMMA ReadNext == ReadInv /\ [Next]_vars => ReadInv'
<1> SUFFICES ASSUME ReadInv, [Next]_vars PROVE ReadInv'
  OBVIOUS
<1>1. AgreeInv'
  BY AgreeNext DEF ReadInv
<1>2. ASSUME UNCHANGED << backend, progress, wire, noise >>, EndInv'
      PROVE  ReadInv'
  <2>1. OrderInv' /\ Received' = Received
    <3>1. OrderInv' <=> OrderInv
      BY <1>2 DEF OrderInv, MaySend, Done, backend
    <3>2. Received' = Received
      BY <1>2 DEF Received, TextSent, SentOf, Sent, CallsSent, CallOf, Begun, Tools, backend
    <3> QED
      BY <3>1, <3>2 DEF ReadInv
  <2>2. ReadFrom(Nothing, wire)' = ReadFrom(Nothing, wire)
    BY <1>2, ReadFrame DEF backend
  <2> QED
    BY <1>1, <1>2, <2>1, <2>2 DEF ReadInv, backend
<1>3. ASSUME NEW i \in DOMAIN answer, StartBlock(i)
      PROVE  ReadInv'
  <2>1. PICK e : e = [type |-> "start", kind |-> answer[i].kind, id |-> i]
    OBVIOUS
  <2>2. OrderInv' /\ Received' = AddEvent(Received, e)
    BY <1>3, <2>1, StartRead DEF ReadInv
  <2>3. /\ Receive(e) /\ format = "anthropic" /\ phase = "open" /\ noise' \in 0..MaxNoise
    BY <1>3, <2>1 DEF StartBlock, ReadInv
  <2> QED
    BY <2>2, <2>3, ReadReceive DEF Add
<1>4. ASSUME NEW i \in DOMAIN answer, NEW n \in 1..MaxPiece, SendDelta(i, n)
      PROVE  ReadInv'
  <2>1. PICK e : e = [type |-> "delta", kind |-> answer[i].kind, text |-> Piece(i, n)]
    OBVIOUS
  <2>2. OrderInv' /\ Received' = AddEvent(Received, e)
    <3>1. n \in Nat \ {0}
      BY BoundsAssumption
    <3> QED
      BY <1>4, <2>1, <3>1, DeltaRead DEF ReadInv
  <2>3. /\ Receive(e) /\ format = "anthropic" /\ phase = "open" /\ noise' \in 0..MaxNoise
    BY <1>4, <2>1 DEF SendDelta, ReadInv
  <2> QED
    BY <2>2, <2>3, ReadReceive DEF Add
<1>5. ASSUME NEW i \in DOMAIN answer, NEW n \in 0..MaxPiece, SendChunk(i, n)
      PROVE  ReadInv'
  <2>1. PICK first : first <=> progress[i] = -1
    OBVIOUS
  <2>2. PICK begun : begun = IF first THEN 0 ELSE progress[i]
    OBVIOUS
  <2>3. PICK e : e = Chunk(i, first, SubSeq(answer[i].text, begun + 1, begun + n))
    OBVIOUS
  <2>4. OrderInv' /\ Received' = AddChunk(Received, e)
    <3>1. n \in Nat
      BY BoundsAssumption
    <3> QED
      BY <1>5, <2>1, <2>2, <2>3, <3>1, ChunkRead DEF ReadInv
  <2>5. /\ Receive(e) /\ format = "openai" /\ phase = "open" /\ noise' \in 0..MaxNoise
    BY <1>5, <2>1, <2>2, <2>3 DEF SendChunk, ReadInv
  <2> QED
    BY <2>4, <2>5, ReadReceive DEF Add
<1>6. CASE SendNoise
  <2>1. PICK e : e = IF format = "anthropic" THEN [type |-> "other"]
                     ELSE [content |-> << >>, reasoning |-> << >>, calls |-> << >>]
    OBVIOUS
  <2>2. Receive(e) /\ phase = "open" /\ noise' = noise + 1 /\ noise < MaxNoise
        /\ progress' = progress /\ answer' = answer
    BY <1>6, <2>1 DEF SendNoise, Receive, backend
  <2>3. noise' \in 0..MaxNoise
    BY <2>2, BoundsAssumption DEF ReadInv
  <2>4. OrderInv' /\ Received' = Received
    <3>1. format' = format
      BY <2>2 DEF Receive, backend
    <3>2. OrderInv' <=> OrderInv
      BY <2>2, <3>1 DEF OrderInv, MaySend, Done
    <3>3. Received' = Received
      BY <2>2 DEF Received, TextSent, SentOf, Sent, CallsSent, CallOf, Begun, Tools
    <3> QED
      BY <3>2, <3>3 DEF ReadInv
  <2>5. Add(Received, e) = Received
    <3>1. CASE format = "anthropic"
      <4>1. e.type = "other"
        BY <2>1, <3>1
      <4> QED
        BY <3>1, <4>1 DEF Add, AddEvent
    <3>2. CASE format # "anthropic"
      <4>1. e.content = << >> /\ e.reasoning = << >> /\ e.calls = << >>
        BY <2>1, <3>2
      <4>2. PICK t \in Seq(Char), r \in Seq(Char) : t = TextSent("text") /\ r = TextSent("thinking")
        BY TextSentType DEF ReadInv
      <4>3. t \o << >> = t /\ r \o << >> = r
        OBVIOUS
      <4>4. FoldLeft(AddPiece, CallsSent, << >>) = CallsSent
        BY PiecesNone
      <4>5. /\ Received = Output(t, r, CallsSent)
            /\ Received.content = t /\ Received.reasoning = r /\ Received.calls = CallsSent
        BY <4>2 DEF Received, Output
      <4>6. AddChunk(Received, e) = Output(t, r, CallsSent)
        BY <4>1, <4>3, <4>4, <4>5 DEF AddChunk
      <4> QED
        BY <3>2, <4>5, <4>6 DEF Add
    <3> QED
      BY <3>1, <3>2
  <2> QED
    BY <2>2, <2>3, <2>4, <2>5, ReadReceive
<1>7. CASE EndStream
  <2>1. logged' = Flush(Received) /\ summary' \in StreamObs(Flush(Received).content)
    BY <1>7 DEF EndStream, ParseStream, ReadInv, ReadFrom
  <2>2. Flush(Received).content = Received.content
    BY DEF Flush, Received, Output
  <2>3. UNCHANGED << backend, progress, wire, noise >> /\ stream
        /\ phase' \in {"complete", "broken"}
        /\ (phase' = "complete" => \A i \in DOMAIN answer : Done(i))
    BY <1>7 DEF EndStream
  <2>4. Received' = Received
    BY <2>3 DEF Received, TextSent, SentOf, Sent, CallsSent, CallOf, Begun, Tools, backend
  <2>5. phase' = "complete" => \A i \in DOMAIN answer' : Done(i)'
    BY <2>3 DEF Done, backend
  <2>6. Flush(Received)' = Flush(Received)
    BY <2>4 DEF Flush, Sorted, Ranked, Rank
  <2>7. StreamObs(Received.content)' = StreamObs(Received.content)
    BY <2>3, <2>4 DEF StreamObs, LongPieces, TextPiece, Captured, backend
  <2>8. EndInv'
    BY <2>1, <2>2, <2>3, <2>4, <2>5, <2>6, <2>7 DEF EndInv, backend, ReadInv
  <2> QED
    BY <1>2, <2>3, <2>8
<1>8. CASE EndBody
  <2>1. UNCHANGED << backend, progress, wire, noise >> /\ ~stream /\ phase = "open"
    BY <1>8 DEF EndBody
  <2>2. Body' = Body /\ format' = format
    BY <2>1 DEF Body, MessageOf, CallsOf, TextOf, backend
  <2>3. EndInv'
    BY <1>8, <2>1, <2>2
       DEF EndBody, EndInv, ReadInv, backend, ends, StripBody, BodyObs, ParseBody
  <2> QED
    BY <1>2, <2>1, <2>3
<1>9. CASE UNCHANGED vars
  <2>1. EndInv'
    <3>1. Received' = Received /\ Body' = Body
      BY <1>9 DEF Received, TextSent, SentOf, Sent, CallsSent, CallOf, Begun, Tools, backend,
                  vars, Body, MessageOf, CallsOf, TextOf
    <3>2. EndInv' <=> EndInv
      BY <1>9, <3>1 DEF EndInv, Done, vars, backend, ends, StripBody, BodyObs, ParseBody, Flush, Captured,
                           StreamObs, LongPieces, TextPiece
    <3> QED
      BY <3>2 DEF ReadInv
  <2> QED
    BY <1>2, <1>9, <2>1 DEF vars
<1> QED
  BY <1>3, <1>4, <1>5, <1>6, <1>7, <1>8, <1>9 DEF Next

----------------------------------------------------------------------------
(* What is logged is the answer, or a beginning of it                       *)

Outputs == [content : Seq(Char), reasoning : Seq(Char), calls : Seq(Call)]

LEMMA OutputType ==
  ASSUME NEW t \in Seq(Char), NEW r \in Seq(Char), NEW calls \in Seq(Call)
  PROVE  /\ Output(t, r, calls) \in Outputs
         /\ Output(t, r, calls).content = t /\ Output(t, r, calls).reasoning = r
         /\ Output(t, r, calls).calls = calls
BY DEF Output, Outputs

\* All the text of a kind, as parts one for each block.
TextsOfKind(kind) == [i \in DOMAIN answer |-> OfKind(answer, kind, i)]

LEMMA TextOfType ==
  ASSUME OrderInv, NEW kind
  PROVE  /\ TextsOfKind(kind) \in Seq(Seq(Char)) /\ Len(TextsOfKind(kind)) = Len(answer)
         /\ TextOf(answer, kind) = FlattenSeq(TextsOfKind(kind))
         /\ TextOf(answer, kind) \in Seq(Char)
<1>1. DOMAIN answer = 1..Len(answer) /\ Len(answer) \in Nat
  BY DEF OrderInv
<1>2. \A i \in DOMAIN answer : OfKind(answer, kind, i) \in Seq(Char)
  BY BlockType DEF OfKind
<1>3. PICK f : f = TextsOfKind(kind)
  OBVIOUS
<1>4. f \in Seq(Seq(Char)) /\ Len(f) = Len(answer)
  BY <1>1, <1>2, <1>3 DEF TextsOfKind
<1>5. PICK c : IsChain(c, f, Len(f), Seq(Char)) /\ c[Len(f)] = FlattenSeq(f)
  BY <1>4, FlattenFromNothing
<1>6. Len(f) \in 0..Len(f)
  BY <1>1, <1>4
<1>7. FlattenSeq(f) \in Seq(Char)
  BY <1>5, <1>6 DEF IsChain
<1> QED
  BY <1>3, <1>4, <1>7 DEF TextOf, TextsOfKind

\* The calls in their order, with whatever arguments.
CallsWith(n, args) ==
  [k \in 1..n |-> [id |-> Ranked(Tools, k - 1), args |-> args[Ranked(Tools, k - 1)]]]

LEMMA CallsWithType ==
  ASSUME OrderInv, NEW args \in [DOMAIN answer -> Seq(Char)],
         NEW n \in Nat, n <= Cardinality(Tools)
  PROVE  /\ CallsWith(n, args) \in Seq(Call)
         /\ DOMAIN CallsWith(n, args) = 1..n
         /\ \A k \in 1..n :
              /\ Ranked(Tools, k - 1) \in DOMAIN answer
              /\ CallsWith(n, args)[k].id = Ranked(Tools, k - 1)
              /\ CallsWith(n, args)[k].args = args[Ranked(Tools, k - 1)]
<1>1. PICK m \in Nat : Tools \in SUBSET (0..m)
  BY BegunFirst
<1>2. Cardinality(Tools) \in Nat
  BY <1>1, Ranks
<1>3. ASSUME NEW k \in 1..n
      PROVE  Ranked(Tools, k - 1) \in DOMAIN answer /\ Ranked(Tools, k - 1) \in Nat
  <2>1. k - 1 \in 0..(Cardinality(Tools) - 1)
    BY <1>2
  <2>2. Ranked(Tools, k - 1) \in Tools
    BY <1>1, <2>1, RankedIs
  <2> QED
    BY <2>2, BegunFirst
<1>4. ASSUME NEW k \in 1..n
      PROVE  /\ CallsWith(n, args)[k] \in Call
             /\ CallsWith(n, args)[k].id = Ranked(Tools, k - 1)
             /\ CallsWith(n, args)[k].args = args[Ranked(Tools, k - 1)]
  BY <1>3 DEF CallsWith, Call
<1>5. CallsWith(n, args) = [k \in 1..n |-> CallsWith(n, args)[k]]
  BY DEF CallsWith
<1>6. PICK f : f = CallsWith(n, args)
  OBVIOUS
<1>7. f \in Seq(Call) /\ DOMAIN f = 1..n
  <2>1. \A k \in 1..n : f[k] \in Call
    BY <1>4, <1>6
  <2>2. f = [k \in 1..n |-> f[k]]
    BY <1>5, <1>6
  <2> QED
    BY <2>1, <2>2
<1> QED
  BY <1>3, <1>4, <1>6, <1>7

SentArgs == [i \in DOMAIN answer |-> Sent(i)]
OwnArgs == [i \in DOMAIN answer |-> answer[i].text]
Inputs == [i \in DOMAIN answer |-> InputOf(answer[i])]

LEMMA ArgsType ==
  ASSUME OrderInv
  PROVE  /\ SentArgs \in [DOMAIN answer -> Seq(Char)]
         /\ OwnArgs \in [DOMAIN answer -> Seq(Char)]
         /\ Inputs \in [DOMAIN answer -> Seq(Char)]
<1>1. \A i \in DOMAIN answer : Sent(i) \in Seq(Char)
  BY SentType
<1>2. \A i \in DOMAIN answer : answer[i].text \in Seq(Char)
  BY BlockType
<1>3. \A i \in DOMAIN answer : InputOf(answer[i]) \in Seq(Char)
  BY <1>2, AnswerAssumption DEF InputOf
<1> QED
  BY <1>1, <1>2, <1>3 DEF SentArgs, OwnArgs, Inputs

LEMMA CountCalls ==
  ASSUME OrderInv
  PROVE  /\ Cardinality(Tools) \in Nat /\ Cardinality(Begun) \in Nat
         /\ Cardinality(Begun) <= Cardinality(Tools)
<1>1. PICK n \in Nat : Tools \in SUBSET (0..n)
  BY BegunFirst
<1>2. Cardinality(Tools) \in Nat /\ IsFiniteSet(Tools)
  BY <1>1, Ranks
<1>3. Begun \in SUBSET Tools
  BY DEF Begun
<1> QED
  BY <1>2, <1>3, BegunFirst, FS_Subset

\* The outputs that are logged.
LEMMA FlushIs ==
  ASSUME OrderInv
  PROVE  Flush(Received) = Output(TextSent("text"), TextSent("thinking"),
                                  CallsWith(Cardinality(Begun), SentArgs))
<1>1. PICK c \in Nat : c = Cardinality(Begun) /\ DOMAIN CallsSent = 0..(c - 1)
  BY CallsAre
<1>2. Cardinality(0..(c - 1)) = c
  BY FS_Interval
<1>3. ASSUME NEW k \in 1..c
      PROVE  CallsSent[Ranked(0..(c - 1), k - 1)]
               = [id |-> Ranked(Tools, k - 1), args |-> SentArgs[Ranked(Tools, k - 1)]]
  <2>1. k - 1 \in 0..(c - 1)
    OBVIOUS
  <2>2. Ranked(0..(c - 1), k - 1) = k - 1
    BY <2>1, RankedUpTo
  <2>3. PICK i : i = Ranked(Tools, k - 1) /\ i \in DOMAIN answer
    BY <1>1, <2>1, CallsBegun, BegunFirst
  <2>4. CallsSent[k - 1] = [id |-> i, args |-> Sent(i)]
    BY <1>1, <2>1, <2>3, CallsSentType
  <2> QED
    BY <2>2, <2>3, <2>4 DEF SentArgs
<1>4. Sorted(CallsSent) = CallsWith(c, SentArgs)
  BY <1>1, <1>2, <1>3 DEF Sorted, CallsWith
<1>5. Flush(Received) = Output(TextSent("text"), TextSent("thinking"), Sorted(CallsSent))
  BY DEF Flush, Received, Output
<1> QED
  BY <1>1, <1>4, <1>5

LEMMA ParsedIs ==
  ASSUME OrderInv
  PROVE  /\ ParseBlocks(answer) = Output(TextOf(answer, "text"), TextOf(answer, "thinking"),
                                         CallsWith(Cardinality(Tools), Inputs))
         /\ MessageOf(answer) = Output(TextOf(answer, "text"), TextOf(answer, "thinking"),
                                       CallsWith(Cardinality(Tools), OwnArgs))
<1>1. ASSUME NEW k \in 1..Cardinality(Tools)
      PROVE  /\ Inputs[Ranked(Tools, k - 1)] = InputOf(answer[Ranked(Tools, k - 1)])
             /\ OwnArgs[Ranked(Tools, k - 1)] = answer[Ranked(Tools, k - 1)].text
  <2>1. Ranked(Tools, k - 1) \in DOMAIN answer
    BY CountCalls, ArgsType, CallsWithType
  <2> QED
    BY <2>1 DEF Inputs, OwnArgs
<1>2. CallsOf(answer, InputOf) = CallsWith(Cardinality(Tools), Inputs)
  BY <1>1 DEF CallsOf, CallsWith, Tools
<1>3. CallsOf(answer, LAMBDA b : b.text) = CallsWith(Cardinality(Tools), OwnArgs)
  BY <1>1 DEF CallsOf, CallsWith, Tools
<1> QED
  BY <1>2, <1>3 DEF ParseBlocks, MessageOf

\* No arguments and "{}" are the same.
Filled(args) == [i \in DOMAIN answer |-> IF args[i] = << >> THEN Braces ELSE args[i]]

LEMMA FilledIs ==
  ASSUME OrderInv
  PROVE  Filled(OwnArgs) = Inputs /\ Filled(Inputs) = Inputs
<1>1. \A i \in DOMAIN answer :
        /\ OwnArgs[i] = answer[i].text
        /\ Inputs[i] = IF answer[i].text = << >> THEN Braces ELSE answer[i].text
  BY DEF OwnArgs, Inputs, InputOf
<1>2. \A i \in DOMAIN answer :
        /\ (IF OwnArgs[i] = << >> THEN Braces ELSE OwnArgs[i]) = Inputs[i]
        /\ (IF Inputs[i] = << >> THEN Braces ELSE Inputs[i]) = Inputs[i]
  BY <1>1
<1>3. Inputs = [i \in DOMAIN answer |-> Inputs[i]]
  BY DEF Inputs
<1> QED
  BY <1>2, <1>3 DEF Filled

LEMMA WithInputIs ==
  ASSUME OrderInv, NEW t, NEW r, NEW args \in [DOMAIN answer -> Seq(Char)],
         NEW n \in Nat, n <= Cardinality(Tools)
  PROVE  WithInput(Output(t, r, CallsWith(n, args))) = Output(t, r, CallsWith(n, Filled(args)))
<1>1. PICK calls : calls = CallsWith(n, args)
  OBVIOUS
<1>2. DOMAIN calls = 1..n
  BY <1>1 DEF CallsWith
<1>3. PICK out : out = Output(t, r, calls)
  OBVIOUS
<1>4. /\ out = [content |-> t, reasoning |-> r, calls |-> calls] /\ out.calls = calls
  BY <1>3 DEF Output
<1>5. ASSUME NEW k \in 1..n
      PROVE  FillArgs(calls[k]) = [id |-> Ranked(Tools, k - 1), args |-> Filled(args)[Ranked(Tools, k - 1)]]
  <2>1. PICK i : i = Ranked(Tools, k - 1) /\ i \in DOMAIN answer
    BY CallsWithType
  <2>2. calls[k] = [id |-> i, args |-> args[i]]
    BY <1>1, <2>1 DEF CallsWith
  <2>3. Filled(args)[i] = IF args[i] = << >> THEN Braces ELSE args[i]
    BY <2>1 DEF Filled
  <2> QED
    BY <2>1, <2>2, <2>3 DEF FillArgs
<1>6. [k \in 1..n |-> FillArgs(calls[k])] = CallsWith(n, Filled(args))
  BY <1>5 DEF CallsWith
<1>7. WithInput(out) = [out EXCEPT !.calls = [k \in 1..n |-> FillArgs(calls[k])]]
  BY <1>2, <1>4 DEF WithInput
<1>8. WithInput(out) = Output(t, r, CallsWith(n, Filled(args)))
  BY <1>4, <1>6, <1>7 DEF Output
<1> QED
  BY <1>1, <1>3, <1>8

\* All of it has been sent.
LEMMA AllSent ==
  ASSUME OrderInv, \A i \in DOMAIN answer : Done(i)
  PROVE  /\ \A kind : TextSent(kind) = TextOf(answer, kind)
         /\ SentArgs = OwnArgs /\ Begun = Tools
<1>1. ASSUME NEW i \in DOMAIN answer
      PROVE  Sent(i) = answer[i].text /\ progress[i] >= 0
  <2>1. PICK s \in Seq(Char) : s = answer[i].text
    BY BlockType
  <2>2. progress[i] = Len(s) /\ Len(s) \in Nat
    BY <2>1 DEF Done
  <2>3. SubSeq(s, 1, Len(s)) = s
    BY <2>1
  <2> QED
    BY <2>1, <2>2, <2>3 DEF Sent
<1>2. ASSUME NEW kind
      PROVE  TextSent(kind) = TextOf(answer, kind)
  <2>1. SentOf(kind) = TextsOfKind(kind)
    BY <1>1 DEF SentOf, TextsOfKind, OfKind
  <2> QED
    BY <2>1, TextOfType DEF TextSent
<1>3. SentArgs = OwnArgs
  BY <1>1 DEF SentArgs, OwnArgs
<1>4. Begun = Tools
  BY <1>1 DEF Begun, Tools, ToolsOf
<1> QED
  BY <1>2, <1>3, <1>4

LEMMA LoggedWhole == ReadInv => LoggedAsAnswered
<1> SUFFICES ASSUME ReadInv, phase = "complete" PROVE WithInput(logged) = ParseBlocks(answer)
  BY DEF LoggedAsAnswered
<1>1. OrderInv
  BY DEF ReadInv
<1>2. PICK c \in Nat : c = Cardinality(Tools) /\ c <= Cardinality(Tools)
  BY <1>1, CountCalls
<1>3. PICK t, r : t = TextOf(answer, "text") /\ r = TextOf(answer, "thinking")
  OBVIOUS
<1>4. /\ WithInput(Output(t, r, CallsWith(c, OwnArgs))) = Output(t, r, CallsWith(c, Inputs))
      /\ WithInput(Output(t, r, CallsWith(c, Inputs))) = Output(t, r, CallsWith(c, Inputs))
  <2>1. OwnArgs \in [DOMAIN answer -> Seq(Char)] /\ Inputs \in [DOMAIN answer -> Seq(Char)]
    BY <1>1, ArgsType
  <2>2. /\ WithInput(Output(t, r, CallsWith(c, OwnArgs))) = Output(t, r, CallsWith(c, Filled(OwnArgs)))
        /\ WithInput(Output(t, r, CallsWith(c, Inputs))) = Output(t, r, CallsWith(c, Filled(Inputs)))
    BY <1>1, <1>2, <2>1, WithInputIs
  <2> QED
    BY <1>1, <2>2, FilledIs
<1>5. /\ ParseBlocks(answer) = Output(t, r, CallsWith(c, Inputs))
      /\ MessageOf(answer) = Output(t, r, CallsWith(c, OwnArgs))
  BY <1>1, <1>2, <1>3, ParsedIs
<1>6. logged = Output(t, r, CallsWith(c, OwnArgs)) \/ logged = Output(t, r, CallsWith(c, Inputs))
  <2>1. CASE stream
    <3>1. logged = Flush(Received) /\ \A i \in DOMAIN answer : Done(i)
      BY <2>1 DEF ReadInv, EndInv
    <3> QED
      BY <1>1, <1>2, <1>3, <3>1, AllSent, FlushIs
  <2>2. CASE ~stream
    <3>1. logged = ParseBody(Body)
      BY <2>2 DEF ReadInv, EndInv
    <3> QED
      BY <1>5, <3>1 DEF ParseBody, Body
  <2> QED
    BY <2>1, <2>2
<1> QED
  BY <1>4, <1>5, <1>6

\* What has been sent of a kind is a beginning of it.
LEMMA SentPrefix ==
  ASSUME OrderInv, NEW kind, kind # "tool"
  PROVE  IsPrefix(TextSent(kind), TextOf(answer, kind))
<1>1. PICK f \in Seq(Seq(Char)) : f = SentOf(kind) /\ DOMAIN answer = 1..Len(f)
  BY SentOfType
<1>2. PICK g \in Seq(Seq(Char)) : g = TextsOfKind(kind) /\ Len(g) = Len(f)
  BY <1>1, TextOfType, SentOfType
<1>3. \A i \in DOMAIN answer :
        /\ f[i] = IF answer[i].kind = kind THEN Sent(i) ELSE << >>
        /\ g[i] = IF answer[i].kind = kind THEN answer[i].text ELSE << >>
  BY <1>1, <1>2 DEF SentOf, TextsOfKind, OfKind
<1> DEFINE Started == {i \in DOMAIN answer : answer[i].kind = kind /\ progress[i] >= 0}
<1>4. \A i \in DOMAIN answer : i \notin Started => f[i] = << >>
  <2> TAKE i \in DOMAIN answer
  <2>1. progress[i] \in Int
    BY BlockType
  <2>2. answer[i].kind = kind /\ ~(progress[i] >= 0) => Sent(i) = << >>
    BY <2>1, SentType
  <2> QED
    BY <1>3, <2>2
<1>5. PICK a, b : a = FlattenSeq(f) /\ b = FlattenSeq(g) /\ b \in Seq(Char)
  BY <1>2, TextOfType
<1>6. \E end \in Seq(Char) : a \in Seq(Char) /\ b = a \o end
  <2>1. CASE Started = {}
    <3>1. FlattenSeq(f) = << >>
      BY <1>1, <1>4, <2>1, FlattenEmpty
    <3>2. << >> \in Seq(Char) /\ << >> \o b = b
      BY <1>5
    <3> QED
      BY <1>5, <3>1, <3>2
  <2>2. CASE Started # {}
    <3>1. PICK i \in DOMAIN answer : i \in Started /\ \A j \in Started : j <= i
      <4>1. Started \in SUBSET (1..Len(f)) /\ Len(f) \in Nat
        BY <1>1
      <4> HIDE DEF Started
      <4>2. Max(Started) \in Started /\ \A j \in Started : j <= Max(Started)
        BY <2>2, <4>1, MaxOfPositions
      <4> QED
        BY <1>1, <4>1, <4>2
    <3>2. answer[i].kind = kind /\ progress[i] >= 0 /\ MaySend(i) /\ i \in 1..Len(f)
      BY <1>1, <3>1 DEF OrderInv
    <3>3. \A j \in 1..Len(f) : (j < i => g[j] = f[j]) /\ (j > i => f[j] = << >>)
      <4> TAKE j \in 1..Len(f)
      <4>1. ASSUME j < i
            PROVE  g[j] = f[j]
        <5>1. j \in 1..(i - 1) /\ j \in DOMAIN answer
          BY <1>1, <3>2, <4>1
        <5>2. Done(j)
          BY <3>2, <5>1 DEF MaySend
        <5>3. PICK s \in Seq(Char) : s = answer[j].text
          BY <5>1, BlockType
        <5>4. SubSeq(s, 1, Len(s)) = s
          OBVIOUS
        <5>5. Sent(j) = answer[j].text
          BY <5>2, <5>3, <5>4 DEF Done, Sent
        <5> QED
          BY <1>3, <5>1, <5>5
      <4>2. ASSUME j > i
            PROVE  f[j] = << >>
        <5>1. j \notin Started /\ j \in DOMAIN answer
          <6> HIDE DEF Started
          <6> QED
            BY <1>1, <3>1, <3>2, <4>2
        <5> QED
          BY <1>4, <5>1
      <4> QED
        BY <4>1, <4>2
    <3>4. PICK rest \in Seq(Char) : g[i] = f[i] \o rest
      <4>1. PICK s \in Seq(Char) : s = answer[i].text
        BY BlockType
      <4>2. progress[i] \in 0..Len(s) /\ Len(s) \in progress[i]..Len(s)
        BY <3>2, <4>1, BlockType
      <4>3. PICK p : p = progress[i]
        OBVIOUS
      <4>4. /\ SubSeq(s, p + 1, Len(s)) \in Seq(Char)
            /\ SubSeq(s, 1, Len(s)) = SubSeq(s, 1, p) \o SubSeq(s, p + 1, Len(s))
            /\ SubSeq(s, 1, Len(s)) = s
        BY <4>2, <4>3, PieceAdded
      <4>5. f[i] = SubSeq(s, 1, p) /\ g[i] = s
        BY <1>3, <3>2, <4>1, <4>3 DEF Sent
      <4> QED
        BY <4>4, <4>5
    <3>5. \E end \in Seq(Char) : FlattenSeq(g) = FlattenSeq(f) \o end
      BY <1>2, <3>2, <3>3, <3>4, FlattenPrefix
    <3>6. FlattenSeq(f) \in Seq(Char)
      BY <1>1, TextSentType DEF TextSent
    <3> QED
      BY <1>5, <3>5, <3>6
  <2> QED
    BY <2>1, <2>2
<1>7. IsPrefix(a, b)
  <2>1. PICK end \in Seq(Char) : a \in Seq(Char) /\ b = a \o end
    BY <1>6
  <2> QED
    BY <2>1, PrefixOfConcat
<1> QED
  BY <1>1, <1>2, <1>5, <1>7, TextOfType DEF TextSent

LEMMA PartPrefix ==
  ASSUME OrderInv, NEW i \in DOMAIN answer
  PROVE  IsPrefix(Sent(i), answer[i].text)
<1>1. PICK s \in Seq(Char) : s = answer[i].text
  BY BlockType
<1>2. CASE progress[i] >= 0
  <2>1. PICK p : p = progress[i]
    OBVIOUS
  <2>2. p \in 0..Len(s) /\ Len(s) \in p..Len(s)
    BY <1>1, <1>2, <2>1, BlockType
  <2>3. PICK a \in Seq(Char), b \in Seq(Char) : a = SubSeq(s, 1, p) /\ s = a \o b
    <3>1. /\ SubSeq(s, p + 1, Len(s)) \in Seq(Char) /\ SubSeq(s, 1, p) \in Seq(Char)
          /\ SubSeq(s, 1, Len(s)) = SubSeq(s, 1, p) \o SubSeq(s, p + 1, Len(s))
          /\ SubSeq(s, 1, Len(s)) = s
      <4>1. p \in p..Len(s)
        BY <2>2
      <4> QED
        BY <2>2, <4>1, PieceAdded
    <3> QED
      BY <3>1
  <2>4. IsPrefix(a, a \o b)
    BY PrefixOfConcat
  <2> QED
    BY <1>1, <2>1, <2>3, <2>4 DEF Sent
<1>3. CASE ~(progress[i] >= 0)
  <2>1. progress[i] <= 0
    BY <1>3, BlockType
  <2>2. Sent(i) = << >>
    BY <2>1, SentType
  <2>3. << >> \o s = s /\ << >> \in Seq(Char)
    OBVIOUS
  <2>4. IsPrefix(<< >>, << >> \o s)
    BY <2>3, PrefixOfConcat
  <2> QED
    BY <1>1, <2>2, <2>3, <2>4
<1> QED
  BY <1>2, <1>3

LEMMA LoggedBroken == ReadInv => LoggedBeginning
<1> SUFFICES ASSUME ReadInv, phase = "broken"
             PROVE  /\ IsPrefix(logged.content, TextOf(answer, "text"))
                    /\ IsPrefix(logged.reasoning, TextOf(answer, "thinking"))
                    /\ \A k \in DOMAIN logged.calls :
                         /\ logged.calls[k].id = ParseBlocks(answer).calls[k].id
                         /\ IsPrefix(logged.calls[k].args, MessageOf(answer).calls[k].args)
  BY DEF LoggedBeginning
<1>1. OrderInv
  BY DEF ReadInv
<1>2. PICK n \in Nat, c \in Nat :
        /\ n = Cardinality(Tools) /\ c = Cardinality(Begun)
        /\ n <= Cardinality(Tools) /\ c <= Cardinality(Tools) /\ c <= n
  BY <1>1, CountCalls
<1>3. CASE stream
  <2>1. logged = Flush(Received)
    BY <1>3 DEF ReadInv, EndInv
  <2>2. logged = Output(TextSent("text"), TextSent("thinking"), CallsWith(c, SentArgs))
    BY <1>1, <1>2, <2>1, FlushIs
  <2>3. /\ logged.content = TextSent("text") /\ logged.reasoning = TextSent("thinking")
        /\ logged.calls = CallsWith(c, SentArgs)
    BY <2>2 DEF Output
  <2>4. /\ IsPrefix(TextSent("text"), TextOf(answer, "text"))
        /\ IsPrefix(TextSent("thinking"), TextOf(answer, "thinking"))
    BY <1>1, SentPrefix
  <2>5. /\ ParseBlocks(answer).calls = CallsWith(n, Inputs)
        /\ MessageOf(answer).calls = CallsWith(n, OwnArgs)
    BY <1>1, <1>2, ParsedIs DEF Output
  <2>6. /\ SentArgs \in [DOMAIN answer -> Seq(Char)] /\ OwnArgs \in [DOMAIN answer -> Seq(Char)]
        /\ Inputs \in [DOMAIN answer -> Seq(Char)]
    BY <1>1, ArgsType
  <2>7. /\ DOMAIN CallsWith(c, SentArgs) = 1..c
        /\ \A k \in 1..c :
             /\ Ranked(Tools, k - 1) \in DOMAIN answer
             /\ CallsWith(c, SentArgs)[k].id = Ranked(Tools, k - 1)
             /\ CallsWith(c, SentArgs)[k].args = SentArgs[Ranked(Tools, k - 1)]
    BY <1>1, <1>2, <2>6, CallsWithType
  <2>8. \A k \in 1..n : CallsWith(n, Inputs)[k].id = Ranked(Tools, k - 1)
    BY <1>1, <1>2, <2>6, CallsWithType
  <2>9. \A k \in 1..n : CallsWith(n, OwnArgs)[k].args = OwnArgs[Ranked(Tools, k - 1)]
    BY <1>1, <1>2, <2>6, CallsWithType
  <2>10. ASSUME NEW k \in 1..c
         PROVE  /\ CallsWith(c, SentArgs)[k].id = CallsWith(n, Inputs)[k].id
                /\ IsPrefix(CallsWith(c, SentArgs)[k].args, CallsWith(n, OwnArgs)[k].args)
    <3>1. k \in 1..n
      BY <1>2
    <3>2. PICK i : i = Ranked(Tools, k - 1) /\ i \in DOMAIN answer
      BY <2>7
    <3>3. SentArgs[i] = Sent(i) /\ OwnArgs[i] = answer[i].text
      BY <3>2 DEF SentArgs, OwnArgs
    <3>4. IsPrefix(Sent(i), answer[i].text)
      BY <1>1, <3>2, PartPrefix
    <3> QED
      BY <2>7, <2>8, <2>9, <3>1, <3>2, <3>3, <3>4
  <2> QED
    BY <2>3, <2>4, <2>5, <2>7, <2>10
<1>4. CASE ~stream
  <2>1. logged = NoOutput
    BY <1>4 DEF ReadInv, EndInv, ends
  <2>2. logged.content = << >> /\ logged.reasoning = << >> /\ logged.calls = << >>
    BY <2>1 DEF NoOutput, Output
  <2>3. ASSUME NEW s \in Seq(Char)
        PROVE  IsPrefix(<< >>, s)
    <3>1. << >> \o s = s /\ << >> \in Seq(Char)
      OBVIOUS
    <3>2. IsPrefix(<< >>, << >> \o s)
      BY <3>1, PrefixOfConcat
    <3> QED
      BY <3>1, <3>2
  <2>4. TextOf(answer, "text") \in Seq(Char) /\ TextOf(answer, "thinking") \in Seq(Char)
    BY <1>1, TextOfType
  <2>5. DOMAIN << >> = {}
    OBVIOUS
  <2> QED
    BY <2>2, <2>3, <2>4, <2>5
<1> QED
  BY <1>3, <1>4

\* The types of what is recorded.
LEMMA CapturedType == ASSUME NEW s \in Seq(Char) PROVE Captured(s) \in Seq(Char)
<1>1. OpenTag \in Seq(Char) /\ OpenTag # << >> /\ CloseTag \in Seq(Char) /\ CloseTag # << >>
  BY TagAssumption
<1>2. After(s, OpenTag) \in Seq(Char)
  BY <1>1, CutProperties
<1>3. Before(After(s, OpenTag), CloseTag) \in Seq(Char)
  BY <1>1, <1>2, CutProperties
<1> QED
  BY <1>3, TrimSpaceType DEF Captured

LEMMA StreamObsType ==
  ASSUME NEW s \in Seq(Char), NEW o \in StreamObs(s)
  PROVE  o \in Seq(Char)
<1>1. CASE LongPieces
  BY <1>1, CapturedType DEF StreamObs
<1>2. CASE ~LongPieces
  <2>1. PICK k \in 1..(Len(s) + 1) : o = Captured(SubSeq(s, k, Len(s)))
    BY <1>2 DEF StreamObs
  <2>2. SubSeq(s, k, Len(s)) \in Seq(Char)
    BY <2>1
  <2> QED
    BY <2>1, <2>2, CapturedType
<1> QED
  BY <1>1, <1>2

LEMMA RecordedType ==
  ASSUME ReadInv
  PROVE  logged \in Outputs /\ summary \in Seq(Char)
<1>1. OrderInv
  BY DEF ReadInv
<1>2. /\ Cardinality(Tools) \in Nat /\ Cardinality(Begun) \in Nat
      /\ Cardinality(Begun) <= Cardinality(Tools) /\ Cardinality(Tools) <= Cardinality(Tools)
  BY <1>1, CountCalls
<1>3. /\ SentArgs \in [DOMAIN answer -> Seq(Char)] /\ OwnArgs \in [DOMAIN answer -> Seq(Char)]
      /\ Inputs \in [DOMAIN answer -> Seq(Char)]
  BY <1>1, ArgsType
<1>4. /\ CallsWith(Cardinality(Begun), SentArgs) \in Seq(Call)
      /\ CallsWith(Cardinality(Tools), OwnArgs) \in Seq(Call)
      /\ CallsWith(Cardinality(Tools), Inputs) \in Seq(Call)
  BY <1>1, <1>2, <1>3, CallsWithType
<1>5. \A kind : TextSent(kind) \in Seq(Char) /\ TextOf(answer, kind) \in Seq(Char)
  BY <1>1, TextSentType, TextOfType
<1>6. CASE phase = "open" \/ (phase = "broken" /\ ~stream)
  <2>1. logged = NoOutput /\ summary = << >>
    BY <1>6 DEF ReadInv, EndInv, ends
  <2>2. << >> \in Seq(Char) /\ << >> \in Seq(Call)
    OBVIOUS
  <2> QED
    BY <2>1, <2>2, OutputType DEF NoOutput
<1>7. CASE phase # "open" /\ stream
  <2>1. logged = Flush(Received) /\ summary \in StreamObs(Received.content)
    BY <1>7 DEF ReadInv, EndInv
  <2>2. Received.content = TextSent("text")
    BY DEF Received, Output
  <2>3. logged = Output(TextSent("text"), TextSent("thinking"), CallsWith(Cardinality(Begun), SentArgs))
    BY <1>1, <2>1, FlushIs
  <2>4. summary \in Seq(Char)
    BY <1>5, <2>1, <2>2, StreamObsType
  <2> QED
    BY <1>4, <1>5, <2>3, <2>4, OutputType
<1>8. CASE phase = "complete" /\ ~stream
  <2>1. logged = ParseBody(Body) /\ summary = BodyObs(Body)
    BY <1>8 DEF ReadInv, EndInv
  <2>2. ParseBlocks(answer) \in Outputs /\ MessageOf(answer) \in Outputs
        /\ MessageOf(answer).content \in Seq(Char)
    BY <1>1, <1>4, <1>5, ParsedIs, OutputType
  <2>3. logged \in Outputs
    BY <2>1, <2>2 DEF ParseBody, Body
  <2>4. BlocksObs(answer) \in Seq(Char)
    <3>1. CASE Tagged(answer) = {}
      BY <3>1 DEF BlocksObs
    <3>2. CASE Tagged(answer) # {}
      <4>1. Tagged(answer) \in SUBSET Nat
        BY <1>1, BlockType DEF Tagged
      <4>2. Min(Tagged(answer)) \in Tagged(answer)
        BY <3>2, <4>1, MinOfNats
      <4>3. answer[Min(Tagged(answer))].text \in Seq(Char)
        BY <1>1, <4>2, BlockType DEF Tagged
      <4> QED
        BY <3>2, <4>3, CapturedType DEF BlocksObs
    <3> QED
      BY <3>1, <3>2
  <2>5. Captured(MessageOf(answer).content) \in Seq(Char)
    BY <2>2, CapturedType
  <2> QED
    BY <2>1, <2>3, <2>4, <2>5 DEF BodyObs, Body
<1> QED
  BY <1>6, <1>7, <1>8 DEF ReadInv, EndInv

\* What streamLogger has accumulated is what was received, now or before the
\* last event.
AccumInv == Numbered(accum.calls)
ReceivedTyped == Numbered(CallsSent)

LEMMA ReceivedIsTyped == ReadInv => ReceivedTyped
BY CallsSentType DEF ReadInv, ReceivedTyped

LEMMA AccumInit == Init => AccumInv
<1> SUFFICES ASSUME Init PROVE AccumInv
  OBVIOUS
<1>1. accum.calls = NoCalls
  BY DEF Init, Nothing, Output
<1>2. NoCalls \in [{} -> Call] /\ DOMAIN NoCalls = {} /\ Cardinality({}) = 0 /\ 0..(0 - 1) = {}
  BY FS_EmptySet DEF NoCalls
<1> QED
  BY <1>1, <1>2 DEF AccumInv, Numbered

LEMMA AccumNext ==
  AccumInv /\ ReadInv /\ ReadInv' /\ ReceivedTyped /\ ReceivedTyped' /\ [Next]_vars => AccumInv'
<1> SUFFICES ASSUME AccumInv, ReadInv, ReadInv', ReceivedTyped, ReceivedTyped', [Next]_vars
             PROVE  AccumInv'
  OBVIOUS
<1>1. ASSUME NEW e, Receive(e)
      PROVE  AccumInv'
  <2>1. format' = format
    BY <1>1 DEF Receive, backend
  <2>2. ReadFrom(accum, lineBuf) = Received /\ ReadFrom(accum', lineBuf') = Received'
    <3>1. ReadFrom(accum, lineBuf)' = ReadFrom(accum', lineBuf')
      BY <2>1, ReadFrame
    <3> QED
      BY <3>1 DEF ReadInv, AgreeInv, CopyInv
  <2>3. \/ accum' = ReadFrom(accum', lineBuf')
        \/ accum' = ReadFrom(accum, lineBuf)
    <3>1. CASE lineBuf' = << >>
      BY <3>1, ReadNone
    <3>2. CASE accum' = ReadFrom(accum, lineBuf)
      BY <3>2
    <3> QED
      BY <1>1, <3>1, <3>2 DEF Receive, ReadFrom
  <2>4. accum'.calls = CallsSent \/ accum'.calls = CallsSent'
    BY <2>2, <2>3 DEF Received, Output
  <2> QED
    BY <2>4 DEF AccumInv, ReceivedTyped, Numbered
<1>2. ASSUME accum' = accum
      PROVE  AccumInv'
  BY <1>2 DEF AccumInv, Numbered
<1> QED
  BY <1>1, <1>2 DEF Next, StartBlock, SendDelta, SendChunk, SendNoise, EndStream, EndBody, vars

LEMMA LogHolds == ReadInv /\ AccumInv => LogInv
<1> SUFFICES ASSUME ReadInv, AccumInv PROVE LogInv
  OBVIOUS
<1>1. logged \in Outputs /\ summary \in Seq(Char) /\ recorded = logged
  BY RecordedType DEF ReadInv, AgreeInv, BothLogsAgree
<1>2. TypeOK
  BY <1>1 DEF TypeOK, ReadInv, OrderInv, AccumInv, Numbered, Outputs
<1> QED
  BY <1>2, LoggedWhole, LoggedBroken DEF LogInv

\* The log has the whole answer, observation included, with each call's own
\* arguments, however it was delivered; of one that broke off, a beginning.
THEOREM LoggedIsAnswer == Spec => []LogInv
<1>1. Spec => []ReadInv
  BY ReadInit, ReadNext, PTL DEF Spec
<1>2. ReadInv => ReceivedTyped
  BY ReceivedIsTyped
<1> QED
  BY <1>1, <1>2, AccumInit, AccumNext, LogHolds, PTL DEF Spec

----------------------------------------------------------------------------
(* The observation is cut out of a whole body, and nothing else             *)

LEMMA TagsAreTexts ==
  OpenTag \in Seq(Char) /\ OpenTag # << >> /\ CloseTag \in Seq(Char) /\ CloseTag # << >>
BY TagAssumption

LEMMA PrefixByChars ==
  ASSUME NEW s \in Seq(Char), NEW t \in Seq(Char), Len(s) <= Len(t),
         \A j \in 1..Len(s) : s[j] = t[j]
  PROVE  IsPrefix(s, t)
<1>1. SubSeq(s, 1, Len(s)) = s /\ Len(s) \in 0..Len(t) /\ Len(t) \in Len(s)..Len(t)
  OBVIOUS
<1>2. PICK p : p = SubSeq(t, 1, Len(s))
  OBVIOUS
<1>3. p \in Seq(Char) /\ Len(p) = Len(s) /\ \A j \in 1..Len(s) : p[j] = t[j]
  BY <1>1, <1>2
<1>4. p = s
  BY <1>3
<1> QED
  BY <1>1, <1>2, <1>4 DEF IsPrefix

\* TrimRight ends at the last character that is not white space.
LEMMA TrimRightIs ==
  ASSUME NEW s \in Seq(Char)
  PROVE  /\ TrimRight(s) \in Seq(Char) /\ Len(TrimRight(s)) \in 0..Len(s)
         /\ \A j \in 1..Len(TrimRight(s)) : TrimRight(s)[j] = s[j]
         /\ Len(TrimRight(s)) # 0 => s[Len(TrimRight(s))] \notin Space
         /\ \A j \in 1..Len(s) : s[j] \notin Space => j <= Len(TrimRight(s))
<1> DEFINE ink == {i \in DOMAIN s : s[i] \notin Space}
<1>1. ink \in SUBSET (1..Len(s)) /\ Len(s) \in Nat /\ DOMAIN s = 1..Len(s)
  OBVIOUS
<1>2. CASE ink = {}
  <2>1. TrimRight(s) = << >>
    BY <1>2 DEF TrimRight
  <2>2. \A j \in 1..Len(s) : s[j] \in Space
    BY <1>1, <1>2
  <2> QED
    BY <1>1, <2>1, <2>2
<1>3. CASE ink # {}
  <2>1. PICK m : m = Max(ink)
    OBVIOUS
  <2>2. m \in ink /\ \A k \in ink : k <= m
    <3> HIDE DEF ink
    <3> QED
      BY <1>1, <1>3, <2>1, MaxOfPositions
  <2>3. TrimRight(s) = SubSeq(s, 1, m)
    BY <1>3, <2>1 DEF TrimRight
  <2>4. m \in 1..Len(s) /\ s[m] \notin Space /\ \A j \in 1..Len(s) : s[j] \notin Space => j <= m
    BY <1>1, <2>2
  <2>5. PICK p : p = SubSeq(s, 1, m)
    OBVIOUS
  <2>6. p \in Seq(Char) /\ Len(p) = m /\ \A j \in 1..m : p[j] = s[j]
    BY <2>4, <2>5
  <2> QED
    BY <2>3, <2>4, <2>5, <2>6
<1> QED
  BY <1>2, <1>3

LEMMA BeforeIs ==
  ASSUME NEW s \in Seq(Char)
  PROVE  /\ Before(s, OpenTag) \in Seq(Char) /\ Len(Before(s, OpenTag)) \in 0..Len(s)
         /\ Occurs(s, OpenTag) => Len(Before(s, OpenTag)) = FirstAt(s, OpenTag) - 1
         /\ \A j \in 1..Len(Before(s, OpenTag)) : Before(s, OpenTag)[j] = s[j]
<1>1. CASE ~Occurs(s, OpenTag)
  <2>1. Before(s, OpenTag) = s
    BY <1>1 DEF Before
  <2> QED
    BY <1>1, <2>1
<1>2. CASE Occurs(s, OpenTag)
  <2>1. PICK n : n = FirstAt(s, OpenTag) - 1
    OBVIOUS
  <2>2. n \in 0..Len(s)
    <3>1. FirstAt(s, OpenTag) \in 1..Len(s)
      BY <1>2, TagsAreTexts, FirstAtProperties
    <3> QED
      BY <2>1, <3>1
  <2>3. Before(s, OpenTag) = SubSeq(s, 1, n)
    BY <1>2, <2>1 DEF Before
  <2>4. PICK p : p = SubSeq(s, 1, n)
    OBVIOUS
  <2>5. p \in Seq(Char) /\ Len(p) = n /\ \A j \in 1..n : p[j] = s[j]
    BY <2>2, <2>4
  <2> QED
    BY <2>1, <2>2, <2>3, <2>4, <2>5
<1> QED
  BY <1>1, <1>2

LEMMA TrimmedBeforePrefix ==
  ASSUME NEW s \in Seq(Char)
  PROVE  IsPrefix(TrimRight(Before(s, OpenTag)), s)
<1>1. PICK b \in Seq(Char) : b = Before(s, OpenTag)
  BY BeforeIs
<1>2. Len(b) \in 0..Len(s) /\ \A j \in 1..Len(b) : b[j] = s[j]
  BY <1>1, BeforeIs
<1>3. PICK w \in Seq(Char) : w = TrimRight(b)
  BY TrimRightIs
<1>4. Len(w) \in 0..Len(b) /\ \A j \in 1..Len(w) : w[j] = b[j]
  BY <1>3, TrimRightIs
<1>5. Len(w) <= Len(s) /\ \A j \in 1..Len(w) : w[j] = s[j]
  BY <1>2, <1>4
<1> QED
  BY <1>1, <1>3, <1>5, PrefixByChars

LEMMA CutTextIs ==
  ASSUME NEW s \in Seq(Char)
  PROVE  CutText(s) \in Seq(Char) /\ ~Occurs(CutText(s), OpenTag)
<1>1. CASE ~Occurs(s, OpenTag)
  BY <1>1 DEF CutText
<1>2. CASE Occurs(s, OpenTag)
  <2>1. PICK b \in Seq(Char) : b = Before(s, OpenTag)
    BY BeforeIs
  <2>2. ~Occurs(b, OpenTag)
    BY <2>1, TagsAreTexts, NoTagBefore
  <2>3. PICK w \in Seq(Char) : w = TrimRight(b)
    BY TrimRightIs
  <2>4. IsPrefix(w, b)
    <3>1. Len(w) <= Len(b) /\ \A j \in 1..Len(w) : w[j] = b[j]
      BY <2>3, TrimRightIs
    <3> QED
      BY <3>1, PrefixByChars
  <2>5. ~Occurs(w, OpenTag)
    BY <2>2, <2>4, TagsAreTexts, NoTagInPrefix
  <2> QED
    BY <1>2, <2>1, <2>3, <2>5 DEF CutText
<1> QED
  BY <1>1, <1>2

\* A tag in a part is one of the whole.
LEMMA TagOfPart ==
  ASSUME NEW pre \in Seq(Char), NEW s \in Seq(Char), NEW post \in Seq(Char),
         Occurs(s, OpenTag)
  PROVE  /\ pre \o s \in Seq(Char) /\ (pre \o s) \o post \in Seq(Char)
         /\ Occurs(pre \o s, OpenTag) /\ Occurs((pre \o s) \o post, OpenTag)
         /\ FirstAt((pre \o s) \o post, OpenTag) <= Len(pre) + FirstAt(s, OpenTag)
<1>1. PICK ps \in Seq(Char) : ps = pre \o s
  BY Concatenating DEF Closed
<1>2. PICK f : f = FirstAt(s, OpenTag)
  OBVIOUS
<1>3. f \in 1..Len(s) /\ OccursAt(s, OpenTag, f) /\ f \in Nat \ {0} /\ Len(pre) \in Nat
  BY <1>2, TagsAreTexts, FirstAtProperties
<1>4. OccursAt(pre \o s, OpenTag, Len(pre) + f)
  BY <1>3, TagsAreTexts, OccursAtRight
<1>5. Len(ps) = Len(pre) + Len(s)
  BY <1>1
<1>6. Len(pre) + f \in Occurrences(ps, OpenTag)
  BY <1>1, <1>3, <1>4, <1>5 DEF Occurrences
<1>7. PICK all \in Seq(Char) : all = ps \o post
  BY Concatenating DEF Closed
<1>8. Len(pre) + f \in Occurrences(all, OpenTag)
  BY <1>6, <1>7, TagsAreTexts, OccurrenceGrows
<1>9. Occurs(ps, OpenTag) /\ Occurs(all, OpenTag)
  BY <1>6, <1>8 DEF Occurs
<1>10. FirstAt(all, OpenTag) <= Len(pre) + f
  BY <1>8, <1>9, TagsAreTexts, FirstAtProperties
<1> QED
  BY <1>1, <1>2, <1>7, <1>9, <1>10

\* When the text is cut in one of its parts, what stands before its first tag
\* stays, but for white space.
LEMMA CutKeepsTextBefore ==
  ASSUME NEW pre \in Seq(Char), NEW s \in Seq(Char), NEW post \in Seq(Char),
         Occurs(s, OpenTag)
  PROVE  IsPrefix(TrimRight(Before((pre \o s) \o post, OpenTag)),
                  (pre \o CutText(s)) \o post)
<1>1. PICK all \in Seq(Char) :
        /\ all = (pre \o s) \o post /\ Occurs(all, OpenTag)
        /\ FirstAt(all, OpenTag) <= Len(pre) + FirstAt(s, OpenTag)
  BY TagOfPart
<1>2. PICK b \in Seq(Char) : b = Before(s, OpenTag)
  BY BeforeIs
<1>3. PICK c \in Seq(Char) : c = CutText(s) /\ c = TrimRight(b)
  BY <1>2, CutTextIs DEF CutText
<1>4. PICK got \in Seq(Char) : got = (pre \o c) \o post
  BY Concatenating DEF Closed
<1>5. PICK ab \in Seq(Char) : ab = Before(all, OpenTag)
  BY BeforeIs
<1>6. PICK w \in Seq(Char) : w = TrimRight(ab)
  BY TrimRightIs
<1>7. /\ Len(b) \in 0..Len(s) /\ Len(b) = FirstAt(s, OpenTag) - 1
      /\ \A j \in 1..Len(b) : b[j] = s[j]
  BY <1>2, BeforeIs
<1>8. /\ Len(c) \in 0..Len(b)
      /\ \A j \in 1..Len(c) : c[j] = b[j]
      /\ \A j \in 1..Len(b) : b[j] \notin Space => j <= Len(c)
  BY <1>3, TrimRightIs
<1>9. /\ Len(ab) = FirstAt(all, OpenTag) - 1 /\ Len(ab) \in 0..Len(all)
      /\ \A j \in 1..Len(ab) : ab[j] = all[j]
  BY <1>1, <1>5, BeforeIs
<1>10. /\ Len(w) \in 0..Len(ab)
       /\ \A j \in 1..Len(w) : w[j] = ab[j]
       /\ Len(w) # 0 => ab[Len(w)] \notin Space
  BY <1>6, TrimRightIs
<1>11. /\ Len(all) = (Len(pre) + Len(s)) + Len(post)
       /\ \A j \in 1..Len(pre) : all[j] = pre[j]
       /\ \A j \in 1..Len(s) : all[Len(pre) + j] = s[j]
  <2>1. PICK ps \in Seq(Char) : ps = pre \o s
    BY Concatenating DEF Closed
  <2>2. /\ Len(ps) = Len(pre) + Len(s)
        /\ \A j \in 1..Len(pre) : ps[j] = pre[j]
        /\ \A j \in 1..Len(s) : ps[Len(pre) + j] = s[j]
    BY <2>1, Joined
  <2>3. /\ Len(all) = Len(ps) + Len(post) /\ \A j \in 1..Len(ps) : all[j] = ps[j]
    BY <1>1, <2>1, Joined
  <2>4. Len(pre) \in Nat /\ Len(s) \in Nat
    OBVIOUS
  <2>5. /\ \A j \in 1..Len(pre) : j \in 1..Len(ps)
        /\ \A j \in 1..Len(s) : Len(pre) + j \in 1..Len(ps)
    BY <2>2, <2>4
  <2> QED
    BY <2>2, <2>3, <2>5
<1>12. /\ Len(got) = (Len(pre) + Len(c)) + Len(post)
       /\ \A j \in 1..Len(pre) : got[j] = pre[j]
       /\ \A j \in 1..Len(c) : got[Len(pre) + j] = c[j]
  <2>1. PICK pc \in Seq(Char) : pc = pre \o c
    BY Concatenating DEF Closed
  <2>2. /\ Len(pc) = Len(pre) + Len(c)
        /\ \A j \in 1..Len(pre) : pc[j] = pre[j]
        /\ \A j \in 1..Len(c) : pc[Len(pre) + j] = c[j]
    BY <2>1, Joined
  <2>3. /\ Len(got) = Len(pc) + Len(post) /\ \A j \in 1..Len(pc) : got[j] = pc[j]
    BY <1>4, <2>1, Joined
  <2>4. Len(pre) \in Nat /\ Len(c) \in Nat
    OBVIOUS
  <2>5. /\ \A j \in 1..Len(pre) : j \in 1..Len(pc)
        /\ \A j \in 1..Len(c) : Len(pre) + j \in 1..Len(pc)
    BY <2>2, <2>4
  <2> QED
    BY <2>2, <2>3, <2>5
<1>13. /\ Len(pre) \in Nat /\ Len(s) \in Nat /\ Len(post) \in Nat
       /\ Len(w) \in Nat /\ Len(ab) \in Nat /\ Len(b) \in Nat /\ Len(c) \in Nat
  OBVIOUS
<1>14. Len(ab) <= Len(pre) + Len(b)
  <2>1. FirstAt(all, OpenTag) \in Int /\ FirstAt(s, OpenTag) \in Int
    <3>1. \A text \in Seq(Char) : Occurs(text, OpenTag) => FirstAt(text, OpenTag) \in 1..Len(text)
      <4> TAKE text \in Seq(Char)
      <4>1. ASSUME Occurs(text, OpenTag) PROVE FirstAt(text, OpenTag) \in 1..Len(text)
        BY <4>1, TagsAreTexts, FirstAtProperties
      <4> QED
        BY <4>1
    <3>2. FirstAt(all, OpenTag) \in 1..Len(all) /\ FirstAt(s, OpenTag) \in 1..Len(s)
      BY <1>1, <3>1
    <3> QED
      BY <3>2
  <2> QED
    BY <1>1, <1>7, <1>9, <1>13, <2>1, SMTT(30)
<1>15. Len(w) <= Len(pre) + Len(c)
  <2> SUFFICES ASSUME Len(w) > Len(pre) + Len(c) PROVE FALSE
    BY <1>8, <1>10, <1>13
  <2>1. PICK k : k = Len(w) - Len(pre)
    OBVIOUS
  <2>2. k \in 1..Len(b) /\ Len(w) = Len(pre) + k /\ Len(w) \in 1..Len(ab) /\ k > Len(c)
    BY <1>8, <1>10, <1>13, <1>14, <2>1
  <2>3. ab[Len(w)] \notin Space /\ ab[Len(w)] = all[Len(pre) + k]
    BY <1>9, <1>10, <2>2
  <2>4. all[Len(pre) + k] = b[k]
    <3>1. k \in 1..Len(s)
      BY <1>7, <1>13, <2>2
    <3> QED
      BY <1>7, <1>11, <2>2, <3>1
  <2>5. k <= Len(c)
    BY <1>8, <2>2, <2>3, <2>4
  <2> QED
    BY <1>8, <2>2, <2>5
<1>16. ASSUME NEW j \in 1..Len(w)
       PROVE  w[j] = got[j]
  <2>1. w[j] = all[j]
    BY <1>9, <1>10
  <2>2. CASE j <= Len(pre)
    <3>1. j \in 1..Len(pre)
      BY <1>13, <2>2
    <3> QED
      BY <1>11, <1>12, <2>1, <3>1
  <2>3. CASE j > Len(pre)
    <3>1. PICK k : k = j - Len(pre)
      OBVIOUS
    <3>2. k \in 1..Len(c) /\ k \in 1..Len(b) /\ k \in 1..Len(s) /\ j = Len(pre) + k
      BY <1>7, <1>8, <1>10, <1>13, <1>15, <2>3, <3>1
    <3>3. all[Len(pre) + k] = s[k] /\ got[Len(pre) + k] = c[k] /\ c[k] = b[k] /\ b[k] = s[k]
      BY <1>7, <1>8, <1>11, <1>12, <3>2
    <3> QED
      BY <2>1, <3>2, <3>3
  <2> QED
    BY <1>13, <2>2, <2>3
<1>17. Len(w) <= Len(got)
  BY <1>8, <1>10, <1>12, <1>13, <1>15
<1>18. IsPrefix(w, got)
  BY <1>16, <1>17, PrefixByChars
<1> QED
  BY <1>1, <1>3, <1>4, <1>5, <1>6, <1>18

\* The answer with another text in block i.
WithText(i, text) == [answer EXCEPT ![i].text = text]

LEMMA WithTextIs ==
  ASSUME OrderInv, NEW i \in DOMAIN answer, NEW text \in Seq(Char)
  PROVE  /\ DOMAIN WithText(i, text) = DOMAIN answer
         /\ \A j \in DOMAIN answer : j # i => WithText(i, text)[j] = answer[j]
         /\ WithText(i, text)[i].kind = answer[i].kind /\ WithText(i, text)[i].text = text
<1>1. answer[i] \in Block
  BY DEF OrderInv
<1>2. PICK b : b = [answer[i] EXCEPT !.text = text]
  OBVIOUS
<1>3. b.kind = answer[i].kind /\ b.text = text
  BY <1>1, <1>2 DEF Block
<1>4. WithText(i, text) = [answer EXCEPT ![i] = b]
  BY <1>2 DEF WithText
<1>5. answer \in Seq(Block)
  BY DEF OrderInv
<1> QED
  BY <1>3, <1>4, <1>5

\* The texts of a kind around the one of block i.
Around(i, pre, post, a, b, text) ==
  a = (pre \o answer[i].text) \o post /\ b = (pre \o text) \o post

LEMMA TextAround ==
  ASSUME OrderInv, NEW i \in DOMAIN answer, answer[i].kind = "text", NEW text \in Seq(Char)
  PROVE  \E pre \in Seq(Char), post \in Seq(Char) :
           /\ pre = TextOf(SubSeq(answer, 1, i - 1), "text")
           /\ Around(i, pre, post, TextOf(answer, "text"), TextOf(WithText(i, text), "text"), text)
           /\ LastText(i) => post = << >>
<1>1. PICK new : new = WithText(i, text)
  OBVIOUS
<1>2. /\ DOMAIN new = DOMAIN answer /\ \A j \in DOMAIN answer : j # i => new[j] = answer[j]
      /\ new[i].kind = answer[i].kind /\ new[i].text = text
  BY <1>1, WithTextIs
<1>3. PICK f \in Seq(Seq(Char)) :
        /\ f = TextsOfKind("text") /\ Len(f) = Len(answer) /\ TextOf(answer, "text") = FlattenSeq(f)
  BY TextOfType
<1>4. DOMAIN answer = 1..Len(f) /\ i \in 1..Len(f) /\ Len(f) \in Nat
  BY <1>3 DEF OrderInv
<1>5. PICK g : g = [j \in DOMAIN new |-> OfKind(new, "text", j)]
  OBVIOUS
<1>6. \A j \in 1..Len(f) : f[j] = OfKind(answer, "text", j) /\ g[j] = OfKind(new, "text", j)
  BY <1>2, <1>3, <1>4, <1>5 DEF TextsOfKind
<1>7. /\ f[i] = answer[i].text /\ g[i] = text
      /\ \A j \in 1..Len(f) : j # i => g[j] = f[j]
  BY <1>2, <1>4, <1>6 DEF OfKind
<1>8. g \in Seq(Seq(Char)) /\ Len(g) = Len(f)
  <2>1. PICK n \in Nat : n = Len(f)
    BY <1>4
  <2>2. \A j \in 1..n : f[j] \in Seq(Char)
    BY <1>3, <2>1
  <2>3. \A j \in 1..n : g[j] \in Seq(Char)
    BY <1>7, <2>1, <2>2
  <2>4. g = [j \in 1..n |-> g[j]]
    BY <1>2, <1>4, <1>5, <2>1
  <2> QED
    BY <2>1, <2>3, <2>4
<1>9. PICK pre \in Seq(Char) :
        /\ pre = FlattenSeq(SubSeq(f, 1, i - 1))
        /\ DifferAt(i, FlattenSeq(f), FlattenSeq(g), f, g, Len(f), pre, Seq(Char))
  BY <1>3, <1>4, <1>7, <1>8, FlattenReplace
<1>10. PICK post \in Seq(Char) :
         /\ FlattenSeq(f) = (pre \o answer[i].text) \o post
         /\ FlattenSeq(g) = (pre \o text) \o post
         /\ (\A j \in 1..Len(f) : j > i => f[j] = << >>) => post = << >>
  BY <1>7, <1>9 DEF DifferAt
<1>11. pre = TextOf(SubSeq(answer, 1, i - 1), "text")
  <2>1. PICK k \in Nat : k = i - 1 /\ k <= Len(f)
    BY <1>4
  <2>2. PICK head : head = SubSeq(answer, 1, k)
    OBVIOUS
  <2>3. DOMAIN head = 1..k /\ \A j \in 1..k : head[j] = answer[j]
    <3>1. answer \in Seq(Block) /\ Len(answer) = Len(f)
      BY <1>3 DEF OrderInv
    <3> QED
      BY <2>1, <2>2, <3>1
  <2>4. SubSeq(f, 1, k) = [j \in 1..k |-> f[j]]
    <3>1. PICK h : h = SubSeq(f, 1, k)
      OBVIOUS
    <3>2. h \in Seq(Seq(Char)) /\ Len(h) = k /\ \A j \in 1..k : h[j] = f[j]
      BY <2>1, <3>1
    <3> QED
      BY <3>1, <3>2
  <2>5. \A j \in 1..k : f[j] = OfKind(head, "text", j)
    <3> TAKE j \in 1..k
    <3>1. j \in 1..Len(f)
      BY <1>4, <2>1
    <3> QED
      BY <1>6, <2>3, <3>1 DEF OfKind
  <2>6. SubSeq(f, 1, k) = [j \in DOMAIN head |-> OfKind(head, "text", j)]
    BY <2>3, <2>4, <2>5
  <2> QED
    BY <1>9, <2>1, <2>2, <2>6 DEF TextOf
<1>12. LastText(i) => post = << >>
  <2>1. LastText(i) => \A j \in 1..Len(f) : j > i => f[j] = << >>
    BY <1>4, <1>6 DEF LastText
  <2> QED
    BY <1>10, <2>1
<1>13. TextOf(new, "text") = FlattenSeq(g)
  BY <1>5 DEF TextOf
<1> QED
  BY <1>1, <1>3, <1>10, <1>11, <1>12, <1>13 DEF Around

\* Reasoning and calls are as they were.
LEMMA OthersKept ==
  ASSUME OrderInv, NEW i \in DOMAIN answer, answer[i].kind = "text", NEW text \in Seq(Char)
  PROVE  /\ TextOf(WithText(i, text), "thinking") = TextOf(answer, "thinking")
         /\ CallsOf(WithText(i, text), InputOf) = CallsOf(answer, InputOf)
<1>1. PICK new : new = WithText(i, text)
  OBVIOUS
<1>2. /\ DOMAIN new = DOMAIN answer /\ \A j \in DOMAIN answer : j # i => new[j] = answer[j]
      /\ new[i].kind = answer[i].kind
  BY <1>1, WithTextIs
<1>3. \A j \in DOMAIN answer : OfKind(new, "thinking", j) = OfKind(answer, "thinking", j)
  BY <1>2 DEF OfKind
<1>4. TextOf(new, "thinking") = TextOf(answer, "thinking")
  BY <1>2, <1>3 DEF TextOf
<1>5. ToolsOf(new) = Tools
  BY <1>2 DEF ToolsOf, Tools
<1>6. \A j \in Tools : new[j] = answer[j]
  BY <1>2 DEF ToolsOf, Tools
<1>7. ASSUME NEW k \in 1..Cardinality(Tools)
      PROVE  new[Ranked(Tools, k - 1)] = answer[Ranked(Tools, k - 1)]
  <2>1. PICK n \in Nat : Tools \in SUBSET (0..n)
    BY BegunFirst
  <2>2. k - 1 \in 0..(Cardinality(Tools) - 1)
    BY CountCalls
  <2>3. Ranked(Tools, k - 1) \in Tools
    BY <2>1, <2>2, RankedIs
  <2> QED
    BY <1>6, <2>3
<1>8. CallsOf(new, InputOf) = CallsOf(answer, InputOf)
  BY <1>5, <1>7 DEF CallsOf, Tools
<1> QED
  BY <1>1, <1>4, <1>8

\* The block whose text is treated.
LEMMA FirstTagged ==
  ASSUME OrderInv, Tagged(answer) # {}
  PROVE  /\ Min(Tagged(answer)) \in Tagged(answer) /\ IsFiniteSet(Tagged(answer))
         /\ Min(Tagged(answer)) \in DOMAIN answer
         /\ answer[Min(Tagged(answer))].kind = "text"
         /\ answer[Min(Tagged(answer))].text \in Seq(Char)
         /\ Occurs(answer[Min(Tagged(answer))].text, OpenTag)
         /\ Cardinality(Tagged(answer)) <= 1 =>
              \A j \in Tagged(answer) : j = Min(Tagged(answer))
<1>1. Tagged(answer) \in SUBSET Nat /\ Tagged(answer) \in SUBSET (1..Len(answer)) /\ Len(answer) \in Nat
  BY DEF Tagged, OrderInv
<1>2. PICK i : i = Min(Tagged(answer)) /\ i \in Tagged(answer)
  BY <1>1, MinOfNats
<1>3. IsFiniteSet(Tagged(answer))
  <2>1. IsFiniteSet(1..Len(answer))
    BY <1>1, FS_Interval
  <2> QED
    BY <1>1, <2>1, FS_Subset
<1>4. i \in DOMAIN answer /\ answer[i].kind = "text" /\ Occurs(answer[i].text, OpenTag)
  BY <1>2 DEF Tagged
<1>5. answer[i].text \in Seq(Char)
  BY <1>4, BlockType
<1>6. ASSUME Cardinality(Tagged(answer)) <= 1, NEW j \in Tagged(answer), j # i
      PROVE  FALSE
  <2>1. {i, j} \in SUBSET Tagged(answer)
    BY <1>2
  <2>2. Cardinality({i, j}) <= Cardinality(Tagged(answer)) /\ Cardinality(Tagged(answer)) \in Nat
        /\ Cardinality({i, j}) \in Nat
    BY <1>3, <2>1, FS_Subset, FS_CardinalityType
  <2>3. Cardinality({i} \cup {j}) = Cardinality({i}) + 1
    <3>1. IsFiniteSet({i}) /\ j \notin {i}
      BY <1>6, FS_Singleton
    <3> QED
      BY <3>1, FS_AddElement
  <2>4. Cardinality({i}) = 1 /\ {i} \cup {j} = {i, j}
    BY FS_Singleton
  <2> QED
    BY <1>6, <2>2, <2>3, <2>4
<1> QED
  BY <1>2, <1>3, <1>4, <1>5, <1>6

LEMMA BodyCut == ReadInv => BodyCutAtTag
<1> DEFINE got == ParseBody(client)
           all == ParseBody(Body)
<1> SUFFICES ASSUME ReadInv, phase = "complete", ~stream
             PROVE  /\ got.reasoning = all.reasoning /\ got.calls = all.calls
                    /\ Cardinality(Tagged(answer)) <= 1 =>
                         /\ \A text \in TextsOf(client) : ~Occurs(text, OpenTag)
                         /\ IsPrefix(TrimRight(Before(all.content, OpenTag)), got.content)
  BY DEF BodyCutAtTag
<1>1. OrderInv /\ client = StripBody(Body)
  BY DEF ReadInv, EndInv
<1>2. PICK t \in Seq(Char) : t = TextOf(answer, "text")
  BY <1>1, TextOfType
<1>3. CASE format # "anthropic"
  <2>1. PICK body : body = MessageOf(answer) /\ body = Body /\ body = all
    BY <1>3 DEF Body, ParseBody
  <2>2. PICK calls : body = [content |-> t, reasoning |-> TextOf(answer, "thinking"), calls |-> calls]
    BY <1>1, <1>2, <2>1, ParsedIs DEF Output
  <2>3. got = client /\ client = [body EXCEPT !.content = CutText(body.content)]
    BY <1>1, <1>3, <2>1 DEF StripBody, ParseBody
  <2>4. /\ got.reasoning = body.reasoning /\ got.calls = body.calls /\ got.content = CutText(t)
        /\ body.content = t
    BY <2>2, <2>3
  <2>5. \A text \in TextsOf(client) : ~Occurs(text, OpenTag)
    <3>1. TextsOf(client) = {CutText(t)}
      BY <1>3, <2>3, <2>4 DEF TextsOf
    <3> QED
      BY <3>1, CutTextIs
  <2>6. IsPrefix(TrimRight(Before(t, OpenTag)), CutText(t))
    <3>1. CASE Occurs(t, OpenTag)
      <4>1. PICK b \in Seq(Char) : b = Before(t, OpenTag)
        BY BeforeIs
      <4>2. TrimRight(b) \in Seq(Char)
        BY TrimRightIs
      <4>3. IsPrefix(TrimRight(b), TrimRight(b))
        BY <4>2, PrefixOfConcat
      <4> QED
        BY <3>1, <4>1, <4>3 DEF CutText
    <3>2. CASE ~Occurs(t, OpenTag)
      BY <3>2, TrimmedBeforePrefix DEF CutText
    <3> QED
      BY <3>1, <3>2
  <2> QED
    BY <2>1, <2>4, <2>5, <2>6
<1>4. CASE format = "anthropic" /\ Tagged(answer) = {}
  <2>1. client = answer /\ got = all
    BY <1>1, <1>4 DEF StripBody, Body, StripBlocks
  <2>2. all.content = t
    BY <1>1, <1>2, <1>4, ParsedIs DEF ParseBody, Body, Output
  <2>3. \A text \in TextsOf(client) : ~Occurs(text, OpenTag)
    <3>1. \A j \in DOMAIN answer : ~Occurs(OfKind(answer, "text", j), OpenTag)
      BY <1>4, NoTagInNothing DEF OfKind, Tagged
    <3> QED
      BY <1>4, <2>1, <3>1 DEF TextsOf
  <2>4. IsPrefix(TrimRight(Before(t, OpenTag)), t)
    BY TrimmedBeforePrefix
  <2> QED
    BY <2>1, <2>2, <2>3, <2>4
<1>5. CASE format = "anthropic" /\ Tagged(answer) # {}
  <2>1. PICK i \in DOMAIN answer :
          /\ i = Min(Tagged(answer)) /\ answer[i].kind = "text" /\ answer[i].text \in Seq(Char)
          /\ Occurs(answer[i].text, OpenTag)
          /\ Cardinality(Tagged(answer)) <= 1 => \A j \in Tagged(answer) : j = i
    BY <1>1, <1>5, FirstTagged
  <2>2. PICK s \in Seq(Char) : s = answer[i].text
    BY <2>1
  <2>3. PICK cut \in Seq(Char) : cut = CutText(s) /\ ~Occurs(cut, OpenTag)
    BY CutTextIs
  <2>4. client = WithText(i, cut)
    BY <1>1, <1>5, <2>1, <2>2, <2>3 DEF StripBody, Body, StripBlocks, WithText
  <2>5. got = ParseBlocks(client) /\ all = ParseBlocks(answer)
    BY <1>5 DEF ParseBody, Body
  <2>6. got.reasoning = all.reasoning /\ got.calls = all.calls
        /\ got.content = TextOf(client, "text") /\ all.content = TextOf(answer, "text")
    <3>1. /\ TextOf(client, "thinking") = TextOf(answer, "thinking")
          /\ CallsOf(client, InputOf) = CallsOf(answer, InputOf)
      BY <1>1, <2>1, <2>4, OthersKept
    <3> QED
      BY <2>5, <3>1 DEF ParseBlocks, Output
  <2>7. ASSUME Cardinality(Tagged(answer)) <= 1, NEW j \in DOMAIN client
        PROVE  ~Occurs(OfKind(client, "text", j), OpenTag)
    <3>1. /\ DOMAIN client = DOMAIN answer
          /\ \A k \in DOMAIN answer : k # i => client[k] = answer[k]
          /\ client[i].text = cut
      BY <1>1, <2>1, <2>4, WithTextIs
    <3>2. CASE j = i
      BY <2>3, <3>1, <3>2, NoTagInNothing DEF OfKind
    <3>3. CASE j # i
      <4>1. client[j] = answer[j] /\ j \in DOMAIN answer /\ j \notin Tagged(answer)
        BY <2>1, <2>7, <3>1, <3>3
      <4> QED
        BY <4>1, NoTagInNothing DEF OfKind, Tagged
    <3> QED
      BY <3>2, <3>3
  <2>8. IsPrefix(TrimRight(Before(all.content, OpenTag)), got.content)
    <3>1. PICK pre \in Seq(Char), post \in Seq(Char) :
            Around(i, pre, post, TextOf(answer, "text"), TextOf(client, "text"), cut)
      BY <1>1, <2>1, <2>4, TextAround
    <3>2. IsPrefix(TrimRight(Before((pre \o s) \o post, OpenTag)), (pre \o CutText(s)) \o post)
      BY <2>1, <2>2, CutKeepsTextBefore
    <3> QED
      BY <2>2, <2>3, <2>6, <3>1, <3>2 DEF Around
  <2> QED
    BY <1>5, <2>6, <2>7, <2>8 DEF TextsOf
<1> QED
  BY <1>3, <1>4, <1>5

\* A text without a tag has no observation.
LEMMA NothingCaptured ==
  ASSUME NEW s, ~Occurs(s, OpenTag)
  PROVE  Captured(s) = << >>
<1>1. After(s, OpenTag) = << >>
  BY DEF After
<1>2. Before(<< >>, CloseTag) = << >>
  BY NoTagInNothing
<1>3. TrimSpace(<< >>, Space) = << >>
  <2>1. Len(<< >>) = 0 /\ 1..0 = {}
    OBVIOUS
  <2> QED
    BY <2>1 DEF TrimSpace
<1> QED
  BY <1>1, <1>2, <1>3 DEF Captured

LEMMA Observed == ReadInv => SameObservation
<1> SUFFICES ASSUME ReadInv, phase = "complete", stream => LongPieces, TagOnlyInLastText
             PROVE  summary = Captured(TextOf(answer, "text"))
  BY DEF SameObservation
<1>1. OrderInv
  BY DEF ReadInv
<1>2. CASE stream
  <2>1. summary = Captured(Received.content) /\ \A i \in DOMAIN answer : Done(i)
    BY <1>2 DEF ReadInv, EndInv, StreamObs
  <2>2. Received.content = TextSent("text")
    BY DEF Received, Output
  <2>3. TextSent("text") = TextOf(answer, "text")
    BY <1>1, <2>1, AllSent
  <2> QED
    BY <2>1, <2>2, <2>3
<1>3. CASE ~stream /\ format # "anthropic"
  <2>1. summary = Captured(MessageOf(answer).content)
    BY <1>3 DEF ReadInv, EndInv, BodyObs, Body
  <2> QED
    BY <1>1, <2>1, ParsedIs DEF Output
<1>4. CASE ~stream /\ format = "anthropic"
  <2>1. summary = BlocksObs(answer)
    BY <1>4 DEF ReadInv, EndInv, BodyObs, Body
  <2>2. CASE Tagged(answer) = {}
    <3>1. ~Occurs(TextOf(answer, "text"), OpenTag)
      BY <2>2 DEF TagOnlyInLastText
    <3> QED
      BY <2>1, <2>2, <3>1, NothingCaptured DEF BlocksObs
  <2>3. CASE Tagged(answer) # {}
    <3>1. PICK i \in DOMAIN answer :
            /\ i = Min(Tagged(answer)) /\ i \in Tagged(answer)
            /\ answer[i].kind = "text" /\ answer[i].text \in Seq(Char)
            /\ Occurs(answer[i].text, OpenTag)
      BY <1>1, <2>3, FirstTagged
    <3>2. PICK s \in Seq(Char) : s = answer[i].text
      BY <3>1
    <3>3. PICK pre \in Seq(Char), post \in Seq(Char) :
            /\ pre = TextOf(SubSeq(answer, 1, i - 1), "text")
            /\ TextOf(answer, "text") = (pre \o s) \o post
            /\ LastText(i) => post = << >>
      <4>1. PICK pre \in Seq(Char), post \in Seq(Char) :
              /\ pre = TextOf(SubSeq(answer, 1, i - 1), "text")
              /\ Around(i, pre, post, TextOf(answer, "text"), TextOf(WithText(i, s), "text"), s)
              /\ LastText(i) => post = << >>
        BY <1>1, <3>1, <3>2, TextAround
      <4> QED
        BY <3>2, <4>1 DEF Around
    <3>4. Occurs((pre \o s) \o post, OpenTag) /\ Occurs(pre \o s, OpenTag) /\ pre \o s \in Seq(Char)
      BY <3>1, <3>2, TagOfPart
    <3>5. LastText(i) /\ FirstTagIn(i)
      <4>1. PICK j \in DOMAIN answer : Tagged(answer) = {j} /\ LastText(j) /\ FirstTagIn(j)
        BY <3>3, <3>4 DEF TagOnlyInLastText
      <4>2. j = i
        BY <3>1, <4>1
      <4> QED
        BY <4>1, <4>2
    <3>6. (pre \o s) \o << >> = pre \o s
      BY <3>4
    <3>7. TextOf(answer, "text") = pre \o s /\ Before(pre \o s, OpenTag) = pre \o Before(s, OpenTag)
      BY <3>2, <3>3, <3>5, <3>6 DEF FirstTagIn
    <3>8. ASSUME NEW k \in Occurrences(pre \o s, OpenTag)
          PROVE  k > Len(pre)
      <4>1. PICK ps \in Seq(Char) : ps = pre \o s
        BY <3>4
      <4>2. PICK b \in Seq(Char) : b = Before(s, OpenTag)
        BY <3>1, <3>2, BeforeIs
      <4>3. Len(pre \o b) = Len(pre) + Len(b) /\ Len(pre) \in Nat /\ Len(b) \in Nat
        OBVIOUS
      <4>4. Len(Before(ps, OpenTag)) = FirstAt(ps, OpenTag) - 1
        BY <3>4, <4>1, BeforeIs
      <4>5. FirstAt(ps, OpenTag) \in 1..Len(ps) /\ FirstAt(ps, OpenTag) <= k
        <5>1. Occurs(ps, OpenTag) /\ k \in Occurrences(ps, OpenTag)
          BY <3>4, <3>8, <4>1
        <5> QED
          BY <5>1, TagsAreTexts, FirstAtProperties
      <4>6. k \in Nat
        BY <4>1, <3>8 DEF Occurrences
      <4> QED
        BY <3>7, <4>1, <4>2, <4>3, <4>4, <4>5, <4>6
    <3>9. After(pre \o s, OpenTag) = After(s, OpenTag)
      BY <3>8, TagsAreTexts, CutShift
    <3>10. Captured(TextOf(answer, "text")) = Captured(s)
      BY <3>7, <3>9 DEF Captured
    <3> QED
      BY <2>1, <2>3, <3>1, <3>2, <3>10 DEF BlocksObs
  <2> QED
    BY <2>2, <2>3
<1> QED
  BY <1>2, <1>3, <1>4

\* Of a whole body the client gets everything but the observation, and whatever
\* the answer and the tags are, an answer streamed in pieces that have at least
\* one character less than the opening tag leaves the observation that the whole
\* one does.  (Of a stream in shorter pieces nothing is said: a tag may escape.)
THEOREM ObservationTaken == Spec => []CaptureInv
<1>1. ReadInv => CaptureInv
  BY BodyCut, Observed DEF CaptureInv
<1> QED
  BY <1>1, ReadInit, ReadNext, PTL DEF Spec
=============================================================================
