--------------------------- MODULE TagTextProofs ---------------------------
(***************************************************************************)
(* Facts about the string operations of TagText, for texts of any length,   *)
(* and about texts put together from a sequence of parts of any length.     *)
(***************************************************************************)
EXTENDS TagText, SequenceTheorems, WellFoundedInduction, TLAPS

\* A non-empty set of naturals has a least element, which Min returns.
LEMMA MinOfNats ==
  ASSUME NEW S \in SUBSET Nat, S # {}
  PROVE  Min(S) \in S /\ \A k \in S : Min(S) <= k
<1> DEFINE R == {ss \in Nat \X Nat : ss[1] < ss[2]}
<1>1. IsWellFoundedOn(R, Nat)
  BY NatLessThanWellFounded DEF OpToRel
<1> HIDE DEF R
<1>2. PICK m \in S : \A k \in S : ~(<< k, m >> \in R)
  BY <1>1, WFMin
<1>3. \A k \in S : m <= k
  <2> TAKE k \in S
  <2>1. k < m => << k, m >> \in R
    BY DEF R
  <2> QED
    BY <2>1, <1>2
<1> QED
  BY <1>3 DEF Min

\* A non-empty set of positions has a greatest element, which Max returns.
LEMMA MaxOfPositions ==
  ASSUME NEW n \in Nat, NEW S \in SUBSET (1..n), S # {}
  PROVE  Max(S) \in S /\ \A k \in S : k <= Max(S)
<1> DEFINE T == {n - k : k \in S}
<1>1. T \in SUBSET Nat /\ T # {}
  <2>1. \A k \in S : k \in 1..n /\ n - k \in Nat
    OBVIOUS
  <2> QED
    BY <2>1
<1>2. Min(T) \in T /\ \A k \in T : Min(T) <= k
  BY <1>1, MinOfNats
<1>3. PICK m \in S : Min(T) = n - m
  BY <1>2
<1>4. ASSUME NEW k \in S
      PROVE  k <= m /\ m >= k
  <2>1. n - k \in T /\ n - m <= n - k
    BY <1>2, <1>3
  <2>2. k \in 1..n /\ m \in 1..n
    OBVIOUS
  <2> QED
    BY <2>1, <2>2
<1>5. Max(S) \in S /\ \A k \in S : Max(S) >= k
  BY <1>4 DEF Max
<1> QED
  BY <1>5

\* strings.TrimSpace returns a part of its argument.
LEMMA TrimSpaceType ==
  ASSUME NEW C, NEW s \in Seq(C), NEW ws
  PROVE  TrimSpace(s, ws) \in Seq(C)
<1> DEFINE ink == {i \in 1..Len(s) : s[i] \notin ws}
<1>1. CASE ink = {}
  BY <1>1, EmptySeq DEF TrimSpace
<1>2. CASE ink # {}
  <2>1. Len(s) \in Nat /\ ink \in SUBSET Nat /\ ink \in SUBSET (1..Len(s))
    BY LenProperties
  <2>2. Min(ink) \in ink /\ Max(ink) \in ink
    BY <1>2, <2>1, MinOfNats, MaxOfPositions
  <2>3. Min(ink) \in 1..Len(s) /\ Max(ink) \in 1..Len(s)
    BY <2>2
  <2> DEFINE a == Min(ink)
             b == Max(ink)
  <2>4. TrimSpace(s, ws) = SubSeq(s, a, b)
    BY <1>2 DEF TrimSpace
  <2> HIDE DEF a, b
  <2>5. a \in 1..Len(s) /\ b \in 1..Len(s)
    BY <2>3 DEF a, b
  <2>6. \A i \in a..b : s[i] \in C
    BY <2>1, <2>5, ElementOfSeq
  <2> QED
    BY <2>1, <2>4, <2>5, <2>6, SubSeqProperties
<1> QED
  BY <1>1, <1>2

\* strings.Index returns an occurrence, and none comes before it.
LEMMA FirstAtProperties ==
  ASSUME NEW C, NEW s \in Seq(C), NEW t \in Seq(C), Occurs(s, t)
  PROVE  /\ FirstAt(s, t) \in 1..Len(s)
         /\ OccursAt(s, t, FirstAt(s, t))
         /\ \A i \in Occurrences(s, t) : FirstAt(s, t) <= i
<1>1. Occurrences(s, t) \in SUBSET Nat
  BY DEF Occurrences
<1>2. FirstAt(s, t) \in Occurrences(s, t)
         /\ \A i \in Occurrences(s, t) : FirstAt(s, t) <= i
  BY <1>1, MinOfNats DEF Occurs, FirstAt
<1> QED
  BY <1>2 DEF Occurrences

\* An occurrence that ends within s is one of s alone.
LEMMA OccursAtLeft ==
  ASSUME NEW C, NEW s \in Seq(C), NEW u \in Seq(C), NEW t \in Seq(C),
         NEW i \in Nat \ {0}, i + Len(t) - 1 <= Len(s)
  PROVE  OccursAt(s \o u, t, i) <=> OccursAt(s, t, i)
<1>1. /\ Len(s \o u) = Len(s) + Len(u) /\ Len(s) \in Nat /\ Len(u) \in Nat
      /\ Len(t) \in Nat
  BY ConcatProperties, LenProperties
<1>2. \A j \in 1..Len(t) : (s \o u)[i + j - 1] = s[i + j - 1]
  BY <1>1, ConcatProperties
<1> QED
  BY <1>1, <1>2 DEF OccursAt

\* An occurrence that begins within u is one of u alone, shifted.
LEMMA OccursAtRight ==
  ASSUME NEW C, NEW s \in Seq(C), NEW u \in Seq(C), NEW t \in Seq(C),
         NEW i \in Nat \ {0}
  PROVE  OccursAt(s \o u, t, Len(s) + i) <=> OccursAt(u, t, i)
<1>1. /\ Len(s \o u) = Len(s) + Len(u) /\ Len(s) \in Nat /\ Len(u) \in Nat
      /\ Len(t) \in Nat
  BY ConcatProperties, LenProperties
<1>2. ASSUME i + Len(t) - 1 <= Len(u), NEW j \in 1..Len(t)
      PROVE  (s \o u)[(Len(s) + i) + j - 1] = u[i + j - 1]
  <2>1. /\ (Len(s) + i) + j - 1 \in 1..(Len(s) + Len(u))
        /\ ~((Len(s) + i) + j - 1 <= Len(s))
        /\ ((Len(s) + i) + j - 1) - Len(s) = i + j - 1
    BY <1>1, <1>2
  <2> QED
    BY <2>1, ConcatProperties
<1>3. (Len(s) + i) + Len(t) - 1 <= Len(s \o u) <=> i + Len(t) - 1 <= Len(u)
  BY <1>1
<1> QED
  BY <1>2, <1>3 DEF OccursAt

\* Before and After divide a text around the first occurrence.
LEMMA CutProperties ==
  ASSUME NEW C, NEW s \in Seq(C), NEW t \in Seq(C), t # << >>
  PROVE  /\ Before(s, t) \in Seq(C)
         /\ After(s, t) \in Seq(C)
         /\ Occurs(s, t) =>
              /\ FirstAt(s, t) + Len(t) - 1 <= Len(s)
              /\ Len(Before(s, t)) = FirstAt(s, t) - 1
<1>1. Len(s) \in Nat /\ Len(t) \in Nat \ {0}
  BY LenProperties, EmptySeq
<1>2. CASE ~Occurs(s, t)
  BY <1>2, EmptySeq DEF Before, After
<1>3. CASE Occurs(s, t)
  <2>1. FirstAt(s, t) \in 1..Len(s) /\ FirstAt(s, t) + Len(t) - 1 <= Len(s)
    BY <1>3, FirstAtProperties DEF OccursAt
  <2>2. \A i \in 1..(FirstAt(s, t) - 1) : s[i] \in C
    BY <1>1, <2>1, ElementOfSeq
  <2>3. \A i \in (FirstAt(s, t) + Len(t))..Len(s) : s[i] \in C
    BY <1>1, <2>1, ElementOfSeq
  <2>4. /\ SubSeq(s, 1, FirstAt(s, t) - 1) \in Seq(C)
        /\ Len(SubSeq(s, 1, FirstAt(s, t) - 1)) = FirstAt(s, t) - 1
    BY <1>1, <2>1, <2>2, SubSeqProperties
  <2>5. SubSeq(s, FirstAt(s, t) + Len(t), Len(s)) \in Seq(C)
    BY <1>1, <2>1, <2>3, SubSeqProperties
  <2> QED
    BY <1>3, <2>1, <2>4, <2>5 DEF Before, After
<1> QED
  BY <1>2, <1>3

\* What is appended to a text leaves its beginnings alone and is appended to
\* its ends.
LEMMA HeadGrows ==
  ASSUME NEW C, NEW s \in Seq(C), NEW u \in Seq(C), NEW i \in 1..(Len(s) + 1)
  PROVE  SubSeq(s \o u, 1, i - 1) = SubSeq(s, 1, i - 1)
<1>1. Len(s) \in Nat
  BY LenProperties
<1>2. CASE i = 1
  BY <1>2, SubSeqEmpty
<1>3. CASE i # 1
  BY <1>1, <1>3, SubSeqOfConcat1
<1> QED
  BY <1>2, <1>3

LEMMA TailGrows ==
  ASSUME NEW C, NEW s \in Seq(C), NEW u \in Seq(C), NEW m \in 1..(Len(s) + 1)
  PROVE  /\ SubSeq(s \o u, m, Len(s \o u)) = SubSeq(s, m, Len(s)) \o u
         /\ SubSeq(s, m, Len(s)) \in Seq(C)
<1> DEFINE a == SubSeq(s \o u, m, Len(s \o u))
           b == SubSeq(s, m, Len(s))
<1>1. /\ Len(s) \in Nat /\ Len(u) \in Nat
      /\ s \o u \in Seq(C) /\ Len(s \o u) = Len(s) + Len(u)
  BY LenProperties, ConcatProperties
<1>2. \A i \in m..Len(s \o u) : (s \o u)[i] \in C
  BY <1>1, ElementOfSeq
<1>3. /\ a \in Seq(C) /\ Len(a) = Len(s) + Len(u) - m + 1
      /\ \A i \in 1..Len(a) : a[i] = (s \o u)[m + i - 1]
  BY <1>1, <1>2, SubSeqProperties
<1>4. \A i \in m..Len(s) : s[i] \in C
  BY <1>1, ElementOfSeq
<1>5. /\ b \in Seq(C) /\ Len(b) = Len(s) - m + 1
      /\ \A i \in 1..Len(b) : b[i] = s[m + i - 1]
  BY <1>1, <1>4, SubSeqProperties
<1> HIDE DEF a, b
<1>6. /\ b \o u \in Seq(C) /\ Len(b \o u) = Len(a)
      /\ \A i \in 1..Len(a) : (b \o u)[i] =
             IF i <= Len(b) THEN b[i] ELSE u[i - Len(b)]
  <2>1. Len(b) + Len(u) = Len(a)
    BY <1>1, <1>3, <1>5
  <2>2. b \in Seq(C)
    BY <1>5
  <2>3. /\ b \o u \in Seq(C) /\ Len(b \o u) = Len(b) + Len(u)
        /\ \A i \in 1..(Len(b) + Len(u)) : (b \o u)[i] =
               IF i <= Len(b) THEN b[i] ELSE u[i - Len(b)]
    BY <2>2, ConcatProperties
  <2> QED
    BY <2>1, <2>3
<1>7. ASSUME NEW i \in 1..Len(a)
      PROVE  a[i] = (b \o u)[i]
  <2> DEFINE k == m + i - 1
  <2>0. a[i] = (s \o u)[k]
    BY <1>3
  <2>1. k \in 1..(Len(s) + Len(u)) /\ a[i] = (s \o u)[k]
    BY <1>1, <1>3, <2>0
  <2>2. /\ k <= Len(s) <=> i <= Len(b)
        /\ k - Len(s) = i - Len(b)
    BY <1>1, <1>3, <1>5
  <2>3. ASSUME i <= Len(b)
        PROVE  b[i] = s[k]
    <3>1. i \in 1..Len(b)
      BY <1>1, <1>3, <1>5, <2>3
    <3>2. b[i] = s[m + i - 1]
      BY <1>5, <3>1
    <3> QED
      BY <3>2
  <2> HIDE DEF k
  <2>4. a[i] = IF k <= Len(s) THEN s[k] ELSE u[k - Len(s)]
    <3>1. k \in 1..(Len(s) + Len(u))
      BY <2>1
    <3>2. (s \o u)[k] = IF k <= Len(s) THEN s[k] ELSE u[k - Len(s)]
      BY <3>1, ConcatProperties
    <3> QED
      BY <2>1, <3>2
  <2> QED
    BY <2>2, <2>3, <2>4, <1>6
<1> QED
  BY <1>3, <1>5, <1>6, <1>7, SeqEqual DEF a, b

\* Text that comes after an occurrence does not move the cut.
LEMMA CutGrows ==
  ASSUME NEW C, NEW s \in Seq(C), NEW u \in Seq(C), NEW t \in Seq(C),
         t # << >>, Occurs(s, t)
  PROVE  /\ Occurs(s \o u, t)
         /\ FirstAt(s \o u, t) = FirstAt(s, t)
         /\ Before(s \o u, t) = Before(s, t)
         /\ After(s \o u, t) = After(s, t) \o u
<1> DEFINE f == FirstAt(s, t)
           g == FirstAt(s \o u, t)
<1>1. /\ Len(s) \in Nat /\ Len(u) \in Nat /\ Len(t) \in Nat \ {0}
      /\ s \o u \in Seq(C) /\ Len(s \o u) = Len(s) + Len(u)
  BY LenProperties, EmptySeq, ConcatProperties
<1>2. /\ f \in 1..Len(s) /\ OccursAt(s, t, f) /\ f + Len(t) - 1 <= Len(s)
      /\ \A i \in Occurrences(s, t) : f <= i
  BY FirstAtProperties, CutProperties
<1>3. OccursAt(s \o u, t, f)
  BY <1>1, <1>2, OccursAtLeft
<1>4. f \in Occurrences(s \o u, t) /\ Occurs(s \o u, t)
  BY <1>1, <1>2, <1>3 DEF Occurs, Occurrences
<1>5. /\ g \in 1..Len(s \o u) /\ OccursAt(s \o u, t, g)
      /\ \A i \in Occurrences(s \o u, t) : g <= i
  BY <1>1, <1>4, FirstAtProperties
<1>6. g <= f
  BY <1>4, <1>5
<1>7. g \in Occurrences(s, t)
  BY <1>1, <1>2, <1>5, <1>6, OccursAtLeft DEF Occurrences
<1>8. g = f
  BY <1>1, <1>2, <1>5, <1>6, <1>7
<1> HIDE DEF f, g
<1>9. SubSeq(s \o u, 1, f - 1) = SubSeq(s, 1, f - 1)
  BY <1>1, <1>2, HeadGrows
<1>10. SubSeq(s \o u, f + Len(t), Len(s \o u))
         = SubSeq(s, f + Len(t), Len(s)) \o u
  <2>1. f + Len(t) \in 1..(Len(s) + 1)
    BY <1>1, <1>2
  <2> QED
    BY <2>1, TailGrows
<1> QED
  BY <1>4, <1>8, <1>9, <1>10 DEF Before, After, f, g

\* The parts of c \o v in front of and behind a position within v.
LEMMA SubSeqShift ==
  ASSUME NEW C, NEW c \in Seq(C), NEW v \in Seq(C), NEW i \in 1..(Len(v) + 1)
  PROVE  /\ SubSeq(c \o v, 1, Len(c) + i - 1) = c \o SubSeq(v, 1, i - 1)
         /\ SubSeq(c \o v, Len(c) + i, Len(c \o v)) = SubSeq(v, i, Len(v))
<1>1. /\ Len(c) \in Nat /\ Len(v) \in Nat
      /\ c \o v \in Seq(C) /\ Len(c \o v) = Len(c) + Len(v)
  BY LenProperties, ConcatProperties
<1>2. SubSeq(c \o v, 1, Len(c)) = c
  <2>1. CASE Len(c) = 0
    BY <2>1, <1>1, EmptySeq, SubSeqEmpty
  <2>2. CASE Len(c) # 0
    BY <2>2, <1>1, SubSeqOfConcat1, SubSeqFull
  <2> QED
    BY <2>1, <2>2
<1>3. SubSeq(c \o v, Len(c) + 1, Len(c) + i - 1) = SubSeq(v, 1, i - 1)
  <2>1. CASE i = 1
    BY <2>1, <1>1, SubSeqEmpty
  <2>2. CASE i # 1
    <3>1. /\ Len(c) + 1 \in (Len(c) + 1)..(Len(c) + Len(v))
          /\ Len(c) + i - 1 \in (Len(c) + 1)..(Len(c) + Len(v))
          /\ Len(c) + 1 - Len(c) = 1 /\ Len(c) + i - 1 - Len(c) = i - 1
      BY <2>2, <1>1
    <3> QED
      BY <3>1, SubSeqOfConcat2
  <2> QED
    BY <2>1, <2>2
<1>4. SubSeq(c \o v, 1, Len(c) + i - 1) = c \o SubSeq(v, 1, i - 1)
  <2>1. /\ 1 \in 1..(Len(c \o v) + 1)
        /\ Len(c) \in (1 - 1)..Len(c \o v)
        /\ Len(c) + i - 1 \in Len(c)..Len(c \o v)
    BY <1>1
  <2> QED
    BY <2>1, <1>1, <1>2, <1>3, ConcatAdjacentSubSeq
<1>5. SubSeq(c \o v, Len(c) + i, Len(c \o v)) = SubSeq(v, i, Len(v))
  <2>1. CASE i = Len(v) + 1
    BY <2>1, <1>1, SubSeqEmpty
  <2>2. CASE i # Len(v) + 1
    <3>1. /\ Len(c) + i \in (Len(c) + 1)..(Len(c) + Len(v))
          /\ Len(c \o v) \in (Len(c) + 1)..(Len(c) + Len(v))
          /\ Len(c) + i - Len(c) = i /\ Len(c \o v) - Len(c) = Len(v)
      BY <2>2, <1>1
    <3> QED
      BY <3>1, SubSeqOfConcat2
  <2> QED
    BY <2>1, <2>2
<1> QED
  BY <1>4, <1>5

\* An occurrence stays where it is, and the text behind it grows.
LEMMA OccurrenceGrows ==
  ASSUME NEW C, NEW s \in Seq(C), NEW u \in Seq(C), NEW t \in Seq(C),
         t # << >>, NEW i \in Occurrences(s, t)
  PROVE  /\ i \in Occurrences(s \o u, t)
         /\ SubSeq(s \o u, 1, i - 1) = SubSeq(s, 1, i - 1)
         /\ SubSeq(s \o u, i + Len(t), Len(s \o u))
              = SubSeq(s, i + Len(t), Len(s)) \o u
         /\ SubSeq(s, i + Len(t), Len(s)) \in Seq(C)
<1>1. /\ i \in 1..Len(s) /\ i + Len(t) - 1 <= Len(s) /\ OccursAt(s, t, i)
      /\ Len(t) \in Nat \ {0} /\ Len(s) \in Nat /\ Len(u) \in Nat
      /\ Len(s \o u) = Len(s) + Len(u)
  BY LenProperties, EmptySeq, ConcatProperties DEF Occurrences, OccursAt
<1>2. OccursAt(s \o u, t, i)
  BY <1>1, OccursAtLeft
<1>3. i \in 1..(Len(s) + 1) /\ i + Len(t) \in 1..(Len(s) + 1)
  BY <1>1
<1>4. i \in Occurrences(s \o u, t)
  BY <1>1, <1>2 DEF Occurrences
<1>5. SubSeq(s \o u, 1, i - 1) = SubSeq(s, 1, i - 1)
  BY <1>3, HeadGrows
<1> QED
  BY <1>3, <1>4, <1>5, TailGrows

\* A text is a prefix of itself and of what is appended to it.
LEMMA PrefixOfConcat ==
  ASSUME NEW C, NEW s \in Seq(C), NEW u \in Seq(C)
  PROVE  IsPrefix(s, s \o u) /\ IsPrefix(s, s)
<1>1. /\ Len(s) \in Nat /\ Len(u) \in Nat /\ Len(s \o u) = Len(s) + Len(u)
      /\ Len(s) + 1 \in 1..(Len(s) + 1) /\ (Len(s) + 1) - 1 = Len(s)
  BY LenProperties, ConcatProperties
<1>2. SubSeq(s \o u, 1, (Len(s) + 1) - 1) = SubSeq(s, 1, (Len(s) + 1) - 1)
  BY <1>1, HeadGrows
<1> QED
  BY <1>1, <1>2 DEF IsPrefix

\* When no tag begins within c, cutting c \o v is cutting v.
LEMMA CutShift ==
  ASSUME NEW C, NEW c \in Seq(C), NEW v \in Seq(C), NEW t \in Seq(C),
         t # << >>,
         \A i \in Occurrences(c \o v, t) : i > Len(c)
  PROVE  /\ Occurs(c \o v, t) <=> Occurs(v, t)
         /\ Before(c \o v, t) = c \o Before(v, t)
         /\ After(c \o v, t) = After(v, t)
<1> DEFINE n == Len(c)
           f == FirstAt(v, t)
           g == FirstAt(c \o v, t)
<1>1. /\ n \in Nat /\ Len(v) \in Nat /\ Len(t) \in Nat \ {0}
      /\ c \o v \in Seq(C) /\ Len(c \o v) = n + Len(v)
  BY LenProperties, EmptySeq, ConcatProperties
<1>2. ASSUME NEW i \in Occurrences(v, t)
      PROVE  n + i \in Occurrences(c \o v, t)
  BY <1>1, OccursAtRight DEF Occurrences
<1>3. ASSUME NEW i \in Occurrences(c \o v, t)
      PROVE  i - n \in Occurrences(v, t)
  <2>1. /\ i - n \in Nat \ {0} /\ i - n \in 1..Len(v) /\ i = n + (i - n)
        /\ OccursAt(c \o v, t, i)
    BY <1>1 DEF Occurrences
  <2>2. OccursAt(c \o v, t, n + (i - n))
    BY <2>1
  <2>3. OccursAt(v, t, i - n)
    BY <2>1, <2>2, OccursAtRight
  <2> QED
    BY <2>1, <2>3 DEF Occurrences
<1>4. Occurs(c \o v, t) <=> Occurs(v, t)
  BY <1>2, <1>3 DEF Occurs
<1>5. CASE Occurs(v, t)
  <2>1. /\ f \in Occurrences(v, t) /\ f \in 1..Len(v)
        /\ f + Len(t) - 1 <= Len(v)
        /\ \A i \in Occurrences(v, t) : f <= i
    BY <1>5, FirstAtProperties, CutProperties DEF Occurrences
  <2>2. /\ g \in Occurrences(c \o v, t) /\ g \in 1..(n + Len(v))
        /\ \A i \in Occurrences(c \o v, t) : g <= i
    BY <1>1, <1>4, <1>5, FirstAtProperties DEF Occurrences
  <2>3. g <= n + f /\ f <= g - n
    <3>1. n + f \in Occurrences(c \o v, t)
      BY <2>1, <1>2
    <3>2. g - n \in Occurrences(v, t)
      BY <2>2, <1>3
    <3> HIDE DEF n, f, g
    <3> QED
      BY <3>1, <3>2, <2>1, <2>2
  <2>4. n \in Nat /\ f \in Int /\ g \in Int
    BY <2>1, <2>2, <1>1
  <2> HIDE DEF f, g
  <2>6. g = n + f
    BY <2>3, <2>4
  <2>5. /\ SubSeq(c \o v, 1, g - 1) = c \o SubSeq(v, 1, f - 1)
        /\ SubSeq(c \o v, g + Len(t), Len(c \o v))
             = SubSeq(v, f + Len(t), Len(v))
    <3>1. /\ f \in 1..(Len(v) + 1) /\ f + Len(t) \in 1..(Len(v) + 1)
          /\ g - 1 = Len(c) + f - 1 /\ g + Len(t) = Len(c) + (f + Len(t))
      BY <1>1, <2>1, <2>6
    <3>2. SubSeq(c \o v, 1, Len(c) + f - 1) = c \o SubSeq(v, 1, f - 1)
      BY <3>1, SubSeqShift
    <3>3. SubSeq(c \o v, Len(c) + (f + Len(t)), Len(c \o v))
            = SubSeq(v, f + Len(t), Len(v))
      BY <3>1, SubSeqShift
    <3> QED
      BY <3>1, <3>2, <3>3
  <2> QED
    BY <1>4, <1>5, <2>5 DEF Before, After, f, g
<1>6. CASE ~Occurs(v, t)
  BY <1>4, <1>6 DEF Before, After
<1> QED
  BY <1>4, <1>5, <1>6

\* There is no tag in no text.
LEMMA NoTagInNothing ==
  ASSUME NEW t
  PROVE  /\ ~Occurs(<< >>, t)
         /\ Before(<< >>, t) = << >> /\ After(<< >>, t) = << >>
<1>1. Len(<< >>) = 0
  OBVIOUS
<1>2. 1..0 = {}
  OBVIOUS
<1> QED
  BY <1>1, <1>2 DEF Occurs, Occurrences, Before, After

\* What precedes the first tag has no tag in it.
LEMMA NoTagBefore ==
  ASSUME NEW C, NEW s \in Seq(C), NEW t \in Seq(C), t # << >>
  PROVE  ~Occurs(Before(s, t), t)
<1>1. CASE Occurs(s, t)
  <2> DEFINE f == FirstAt(s, t)
             b == SubSeq(s, 1, f - 1)
  <2>1. /\ f \in 1..Len(s) /\ Len(s) \in Nat /\ Len(t) \in Nat \ {0}
        /\ \A i \in Occurrences(s, t) : f <= i
    BY <1>1, FirstAtProperties, LenProperties, EmptySeq
  <2>2. Before(s, t) = b /\ b \in Seq(C) /\ Len(b) = f - 1
    BY <1>1, CutProperties DEF Before
  <2> SUFFICES ASSUME NEW i \in Occurrences(b, t)
               PROVE  FALSE
    BY <2>2 DEF Occurs
  <2>3. \A j \in 1..(f - 1) : b[j] = s[j]
    <3>1. 1 \in Int /\ f - 1 \in Int /\ (f - 1) - 1 + 1 = f - 1
      BY <2>1
    <3>2. \A j \in 1..(f - 1) : s[j] \in C
      BY <2>1, ElementOfSeq
    <3> QED
      BY <2>1, <3>2, SubSeqProperties
  <2>4. i \in 1..(f - 1) /\ OccursAt(b, t, i) /\ i + Len(t) - 1 <= f - 1
    BY <2>2 DEF Occurrences, OccursAt
  <2> HIDE DEF b, f
  <2>5. OccursAt(s, t, i)
    <3>1. ASSUME NEW j \in 1..Len(t)
          PROVE  s[i + j - 1] = t[j]
      <4>1. i + j - 1 \in 1..(f - 1)
        BY <2>1, <2>4
      <4> QED
        BY <2>3, <2>4, <4>1 DEF OccursAt
    <3> QED
      BY <2>1, <2>4, <3>1 DEF OccursAt
  <2>6. i \in Occurrences(s, t) /\ i < f
    BY <2>1, <2>4, <2>5 DEF Occurrences
  <2> QED
    BY <2>1, <2>4, <2>6
<1>2. CASE ~Occurs(s, t)
  BY <1>2 DEF Before
<1> QED
  BY <1>1, <1>2

\* Nor has the beginning of a text without one.
LEMMA NoTagInPrefix ==
  ASSUME NEW C, NEW s \in Seq(C), NEW u \in Seq(C), NEW t \in Seq(C),
         t # << >>, ~Occurs(u, t), IsPrefix(s, u)
  PROVE  ~Occurs(s, t)
<1> DEFINE n == Len(s)
           rest == SubSeq(u, n + 1, Len(u))
<1>1. n \in Nat /\ Len(u) \in Nat /\ n <= Len(u)
  BY LenProperties DEF IsPrefix
<1>2. s = SubSeq(u, 1, n)
  BY SubSeqFull DEF IsPrefix
<1>3. rest \in Seq(C)
  <2>1. \A i \in (n + 1)..Len(u) : u[i] \in C
    BY <1>1, ElementOfSeq
  <2> QED
    BY <1>1, <2>1, SubSeqProperties
<1>4. SubSeq(u, 1, n) \o rest = SubSeq(u, 1, Len(u))
  <2>1. 1 \in 1..(Len(u) + 1) /\ n \in (1 - 1)..Len(u) /\ Len(u) \in n..Len(u)
    BY <1>1
  <2> QED
    BY <2>1, ConcatAdjacentSubSeq
<1> HIDE DEF n, rest
<1>5. s \o rest = u
  BY <1>2, <1>4, SubSeqFull
<1> QED
  BY <1>3, <1>5, OccurrenceGrows DEF Occurs

\* A tag that is not in c \o h cannot begin in c when h has at least one
\* character less than the tag: it would have to span h.
LEMMA NoSpan ==
  ASSUME NEW C, NEW c \in Seq(C), NEW h \in Seq(C), NEW u \in Seq(C),
         NEW t \in Seq(C), t # << >>,
         Len(h) >= Len(t) - 1, ~Occurs(c \o h, t)
  PROVE  \A i \in Occurrences(c \o (h \o u), t) : i > Len(c)
<1>1. /\ Len(c) \in Nat /\ Len(h) \in Nat /\ Len(u) \in Nat
      /\ Len(t) \in Nat \ {0}
      /\ c \o h \in Seq(C) /\ Len(c \o h) = Len(c) + Len(h)
  BY LenProperties, EmptySeq, ConcatProperties
<1>0. /\ c \o (h \o u) = (c \o h) \o u
      /\ Len((c \o h) \o u) = Len(c \o h) + Len(u)
  <2>1. (c \o h) \o u = c \o (h \o u)
    BY ConcatAssociative, SMTT(30)
  <2>2. Len((c \o h) \o u) = Len(c \o h) + Len(u)
    BY <1>1, ConcatProperties
  <2> QED
    BY <2>1, <2>2
<1> SUFFICES ASSUME NEW i \in Occurrences((c \o h) \o u, t), i <= Len(c)
             PROVE  FALSE
  BY <1>0, <1>1 DEF Occurrences
<1>2. /\ i \in Nat \ {0} /\ OccursAt((c \o h) \o u, t, i)
      /\ i + Len(t) - 1 <= Len(c \o h) /\ i \in 1..Len(c \o h)
  BY <1>0, <1>1 DEF Occurrences
<1>3. OccursAt(c \o h, t, i)
  BY <1>1, <1>2, OccursAtLeft
<1> QED
  BY <1>2, <1>3 DEF Occurs, Occurrences

\* A tag that is not in c cannot begin in c when c does not end with part of
\* the tag.
LEMMA NoTailNoSpan ==
  ASSUME NEW C, NEW c \in Seq(C), NEW u \in Seq(C), NEW t \in Seq(C),
         t # << >>, ~Occurs(c, t),
         \A k \in 1..(Len(t) - 1) : ~EndsWithPrefix(c, t, k)
  PROVE  \A i \in Occurrences(c \o u, t) : i > Len(c)
<1>1. /\ Len(c) \in Nat /\ Len(u) \in Nat /\ Len(t) \in Nat \ {0}
      /\ Len(c \o u) = Len(c) + Len(u)
  BY LenProperties, EmptySeq, ConcatProperties
<1> SUFFICES ASSUME NEW i \in Occurrences(c \o u, t), i <= Len(c)
             PROVE  FALSE
  BY <1>1 DEF Occurrences
<1>2. i \in Nat \ {0} /\ i \in 1..Len(c) /\ OccursAt(c \o u, t, i)
  BY <1>1 DEF Occurrences
<1>3. CASE i + Len(t) - 1 <= Len(c)
  <2>1. OccursAt(c, t, i)
    BY <1>1, <1>2, <1>3, OccursAtLeft
  <2> QED
    BY <1>2, <2>1 DEF Occurs, Occurrences
<1>4. CASE ~(i + Len(t) - 1 <= Len(c))
  <2> DEFINE k == Len(c) - i + 1
  <2>1. k \in 1..(Len(t) - 1) /\ k <= Len(c) /\ Len(c) - k = i - 1
    BY <1>1, <1>2, <1>4
  <2>2. ASSUME NEW j \in 1..k
        PROVE  c[Len(c) - k + j] = t[j]
    <3>1. /\ j \in 1..Len(t) /\ i + j - 1 \in 1..(Len(c) + Len(u))
          /\ i + j - 1 <= Len(c) /\ Len(c) - k + j = i + j - 1
      BY <1>1, <1>2, <2>1
    <3>2. (c \o u)[i + j - 1] = t[j]
      BY <3>1, <1>2 DEF OccursAt
    <3>3. (c \o u)[i + j - 1] = c[i + j - 1]
      BY <3>1, ConcatProperties
    <3> QED
      BY <3>1, <3>2, <3>3
  <2> HIDE DEF k
  <2>3. EndsWithPrefix(c, t, k)
    BY <2>1, <2>2 DEF EndsWithPrefix
  <2> QED
    BY <2>1, <2>3
<1> QED
  BY <1>3, <1>4

\* What a text ends with is decided by its last part, if that is long enough.
LEMMA TailIsLocal ==
  ASSUME NEW C, NEW s \in Seq(C), NEW u \in Seq(C), NEW t \in Seq(C),
         NEW k \in Nat, k <= Len(u)
  PROVE  EndsWithPrefix(s \o u, t, k) <=> EndsWithPrefix(u, t, k)
<1>1. /\ Len(s) \in Nat /\ Len(u) \in Nat
      /\ Len(s \o u) = Len(s) + Len(u)
  BY LenProperties, ConcatProperties
<1>2. ASSUME NEW j \in 1..k
      PROVE  (s \o u)[Len(s \o u) - k + j] = u[Len(u) - k + j]
  <2> DEFINE m == Len(s) + Len(u) - k + j
  <2>1. /\ m \in 1..(Len(s) + Len(u)) /\ ~(m <= Len(s))
        /\ m - Len(s) = Len(u) - k + j
        /\ Len(s \o u) - k + j = m
    BY <1>1
  <2> HIDE DEF m
  <2> QED
    BY <2>1, ConcatProperties
<1>3. k <= Len(s \o u)
  BY <1>1
<1> QED
  BY <1>2, <1>3 DEF EndsWithPrefix

----------------------------------------------------------------------------
(* Folds of sequences.  FoldLeft is defined by recursion over the sets of   *)
(* positions, of which only 1..i for i up to the length matter: a fold is   *)
(* the last of a chain of values, each made of the one before.              *)

\* Induction up to n.
LEMMA InductionUpTo ==
  ASSUME NEW n \in Nat, NEW S, 0 \in S, \A i \in 1..n : i - 1 \in S => i \in S
  PROVE  \A i \in 0..n : i \in S
<1> DEFINE T == {i \in 0..n : i \notin S}
<1> SUFFICES ASSUME T # {}
             PROVE  FALSE
  OBVIOUS
<1>1. T \in SUBSET Nat
  OBVIOUS
<1>2. PICK m : m \in T /\ \A k \in T : m <= k
  BY <1>1, MinOfNats
<1>3. m \in 1..n /\ m - 1 \in 0..n /\ m - 1 < m
  BY <1>2
<1>4. m - 1 \notin T
  BY <1>2, <1>3
<1> QED
  BY <1>2, <1>3, <1>4

\* The greatest of the first i positions.
LEMMA MaxUpTo ==
  ASSUME NEW i \in Nat \ {0}
  PROVE  Max(1..i) = i /\ (1..i) \ {i} = 1..(i - 1) /\ 1..i # {}
<1>1. 1..i \in SUBSET (1..i) /\ 1..i # {} /\ i \in 1..i
  OBVIOUS
<1>2. Max(1..i) \in 1..i /\ i <= Max(1..i)
  BY <1>1, MaxOfPositions
<1> QED
  BY <1>1, <1>2

\* F is computed from the greatest element of a set and the value for the
\* others.
IsFold(F, V, base, n, step) ==
  /\ F \in [SUBSET (1..n) -> V]
  /\ \A s \in SUBSET (1..n) :
       F[s] = IF s = {} THEN base ELSE step[<< F[s \ {Max(s)}], Max(s) >>]

\* There is such a function.
LEMMA FoldExists ==
  ASSUME NEW V, NEW base \in V, NEW n \in Nat, NEW step \in [V \X (1..n) -> V]
  PROVE  \E F : IsFold(F, V, base, n, step)
<1> DEFINE Is(F, k) ==
             /\ F \in [SUBSET (1..k) -> V]
             /\ \A s \in SUBSET (1..k) :
                  F[s] = IF s = {} THEN base ELSE step[<< F[s \ {Max(s)}], Max(s) >>]
           S == {k \in 0..n : \E F : Is(F, k)}
<1>1. 0 \in S
  <2> DEFINE F == [s \in SUBSET (1..0) |-> base]
  <2>1. SUBSET (1..0) = {{}}
    OBVIOUS
  <2>2. Is(F, 0)
    BY <2>1
  <2> HIDE DEF F, Is
  <2> QED
    BY <2>2
<1>2. ASSUME NEW k \in 1..n, k - 1 \in S
      PROVE  k \in S
  <2>1. PICK G : Is(G, k - 1)
    BY <1>2
  <2> DEFINE F == [s \in SUBSET (1..k) |->
                     IF k \in s THEN step[<< G[s \ {k}], k >>] ELSE G[s]]
  <2>2. \A s \in SUBSET (1..k) : s \ {k} \in SUBSET (1..(k - 1))
    OBVIOUS
  <2>3. \A s \in SUBSET (1..k) : k \notin s => s \in SUBSET (1..(k - 1))
    OBVIOUS
  <2>4. \A s \in SUBSET (1..(k - 1)) : G[s] \in V
    BY <2>1
  <2>5. F \in [SUBSET (1..k) -> V]
    <3>1. ASSUME NEW s \in SUBSET (1..k)
          PROVE  (IF k \in s THEN step[<< G[s \ {k}], k >>] ELSE G[s]) \in V
      <4>1. CASE k \in s
        <5>1. G[s \ {k}] \in V
          BY <2>2, <2>4
        <5> QED
          BY <4>1, <5>1
      <4>2. CASE k \notin s
        BY <2>3, <2>4, <4>2
      <4> QED
        BY <4>1, <4>2
    <3> QED
      BY <3>1
  <2>6. ASSUME NEW s \in SUBSET (1..k)
        PROVE  F[s] = IF s = {} THEN base ELSE step[<< F[s \ {Max(s)}], Max(s) >>]
    <3>1. CASE s = {}
      <4>1. {} \in SUBSET (1..(k - 1)) /\ k \notin {}
        OBVIOUS
      <4> QED
        BY <2>1, <3>1, <4>1
    <3>2. CASE s # {} /\ k \in s
      <4>1. k \in Nat
        OBVIOUS
      <4>2. Max(s) \in s /\ k <= Max(s)
        BY <3>2, <4>1, MaxOfPositions
      <4>3. Max(s) = k
        <5>1. Max(s) \in 1..k
          BY <4>2
        <5> HIDE DEF F
        <5> QED
          BY <4>2, <5>1
      <4>4. F[s \ {k}] = G[s \ {k}]
        OBVIOUS
      <4>5. F[s] = step[<< G[s \ {k}], k >>]
        BY <3>2
      <4> HIDE DEF F
      <4> QED
        BY <3>2, <4>3, <4>4, <4>5
    <3>3. CASE s # {} /\ k \notin s
      <4>1. s \in SUBSET (1..(k - 1)) /\ s \ {Max(s)} \in SUBSET (1..(k - 1))
            /\ k \notin s \ {Max(s)} /\ s \ {Max(s)} \in SUBSET (1..k)
        BY <2>3, <3>3
      <4>2. F[s] = G[s] /\ F[s \ {Max(s)}] = G[s \ {Max(s)}]
        BY <3>3, <4>1
      <4>3. G[s] = step[<< G[s \ {Max(s)}], Max(s) >>]
        BY <2>1, <3>3, <4>1
      <4> HIDE DEF F
      <4> QED
        BY <3>3, <4>2, <4>3
    <3> QED
      BY <3>1, <3>2, <3>3
  <2> HIDE DEF F
  <2>7. Is(F, k)
    BY <2>5, <2>6
  <2> HIDE DEF Is
  <2> QED
    BY <2>7
<1> HIDE DEF S
<1>3. n \in S
  BY <1>1, <1>2, InductionUpTo
<1> QED
  BY <1>3 DEF S, IsFold

\* The positions of a concatenation.
LEMMA Joined ==
  ASSUME NEW T, NEW a \in Seq(T), NEW b \in Seq(T)
  PROVE  /\ a \o b \in Seq(T) /\ Len(a \o b) = Len(a) + Len(b)
         /\ \A k \in 1..Len(a) : (a \o b)[k] = a[k]
         /\ \A k \in 1..Len(b) : (a \o b)[Len(a) + k] = b[k]
OBVIOUS

\* The flattened sequence is a chain of concatenations.
LEMMA FlattenChain ==
  ASSUME NEW T, NEW seqs \in Seq(Seq(T)), seqs # << >>
  PROVE  \E c \in [1..Len(seqs) -> Seq(T)] :
           /\ c[1] = seqs[1] /\ c[Len(seqs)] = FlattenSeq(seqs)
           /\ \A i \in 2..Len(seqs) : c[i] = c[i - 1] \o seqs[i]
<1> DEFINE n == Len(seqs)
           Is(f, k) == f = [i \in 1..k |-> IF i = 1 THEN seqs[i] ELSE f[i - 1] \o seqs[i]]
           S == {k \in 0..n : \E f : Is(f, k)}
<1>1. n \in Nat \ {0} /\ \A i \in 1..n : seqs[i] \in Seq(T)
  OBVIOUS
<1> HIDE DEF n
<1>2. 0 \in S
  <2> DEFINE f == [i \in 1..0 |-> seqs[i]]
  <2>1. Is(f, 0)
    OBVIOUS
  <2> HIDE DEF f, Is
  <2> QED
    BY <1>1, <2>1
<1>3. ASSUME NEW k \in 1..n, k - 1 \in S
      PROVE  k \in S
  <2>1. PICK g : Is(g, k - 1)
    BY <1>3
  <2> DEFINE f == [i \in 1..k |-> IF i = 1 THEN seqs[i] ELSE g[i - 1] \o seqs[i]]
  <2>2. \A i \in 1..k : i # 1 => f[i - 1] = g[i - 1]
    <3> TAKE i \in 1..k
    <3>1. HAVE i # 1
    <3>2. i - 1 \in 1..k /\ i - 1 \in 1..(k - 1)
      BY <1>1, <3>1
    <3>3. g[i - 1] = IF i - 1 = 1 THEN seqs[i - 1] ELSE g[(i - 1) - 1] \o seqs[i - 1]
      BY <2>1, <3>2
    <3> QED
      BY <3>2, <3>3
  <2>3. Is(f, k)
    BY <2>2
  <2> HIDE DEF f, Is
  <2> QED
    BY <1>1, <2>3
<1>4. n \in S
  <2> HIDE DEF S
  <2>1. \A k \in 0..n : k \in S
    BY <1>1, <1>2, <1>3, InductionUpTo
  <2> QED
    BY <1>1, <2>1
<1> DEFINE c == CHOOSE f : Is(f, n)
<1>5. Is(c, n)
  <2> HIDE DEF Is
  <2> QED
    BY <1>4
<1>6. FlattenSeq(seqs) = c[n]
  BY <1>1 DEF FlattenSeq, n
<1> HIDE DEF c
<1>7. /\ c[1] = seqs[1]
      /\ \A i \in 2..n : c[i] = c[i - 1] \o seqs[i]
      /\ DOMAIN c = 1..n /\ c = [i \in 1..n |-> c[i]]
  <2>1. \A i \in 1..n : c[i] = IF i = 1 THEN seqs[i] ELSE c[i - 1] \o seqs[i]
    BY <1>5
  <2>2. 1 \in 1..n /\ \A i \in 2..n : i \in 1..n /\ i # 1
    BY <1>1
  <2>3. DOMAIN c = 1..n /\ c = [i \in 1..n |-> c[i]]
    BY <1>5
  <2> QED
    BY <2>1, <2>2, <2>3
<1>8. ASSUME NEW i \in 1..n
      PROVE  c[i] \in Seq(T)
  <2> DEFINE R == {j \in 0..n : j # 0 => c[j] \in Seq(T)}
  <2>1. 0 \in R
    BY <1>1
  <2>2. ASSUME NEW j \in 1..n, j - 1 \in R
        PROVE  j \in R
    <3>1. CASE j = 1
      BY <1>1, <1>7, <3>1
    <3>2. CASE j # 1
      <4>1. j \in 2..n /\ c[j - 1] \in Seq(T) /\ seqs[j] \in Seq(T)
        BY <1>1, <2>2, <3>2
      <4>2. c[j - 1] \o seqs[j] \in Seq(T)
        BY <4>1
      <4>3. c[j] = c[j - 1] \o seqs[j]
        BY <1>7, <4>1
      <4>4. j \in 0..n
        BY <1>1
      <4> QED
        BY <4>2, <4>3, <4>4
    <3> QED
      BY <3>1, <3>2
  <2> HIDE DEF R
  <2>3. \A j \in 0..n : j \in R
    BY <1>1, <2>1, <2>2, InductionUpTo
  <2> QED
    BY <1>1, <2>3 DEF R
<1>9. c \in [1..n -> Seq(T)]
  BY <1>7, <1>8
<1> QED
  BY <1>6, <1>7, <1>9 DEF n

\* Texts of a set are put together in any grouping, and nothing changes nothing.
Closed(V) == << >> \in V /\ \A a, b \in V : a \o b \in V
Grouped(V) ==
  /\ \A a, b, c \in V : (a \o b) \o c = a \o (b \o c)
  /\ \A a \in V : a \o << >> = a /\ << >> \o a = a

LEMMA Concatenating == ASSUME NEW T PROVE Closed(Seq(T)) /\ Grouped(Seq(T))
BY DEF Closed, Grouped

Regroups(a, b, c) == (a \o b) \o c = a \o (b \o c)

LEMMA Regrouping ==
  ASSUME NEW V, Grouped(V), NEW a \in V, NEW b \in V, NEW c \in V
  PROVE  Regroups(a, b, c)
BY DEF Grouped, Regroups

\* The same from the empty sequence on.
IsChain(c, seqs, n, V) ==
  /\ c \in [0..n -> V] /\ c[0] = << >>
  /\ \A i \in 1..n : c[i] = c[i - 1] \o seqs[i]

LEMMA FlattenFromNothing ==
  ASSUME NEW T, NEW seqs \in Seq(Seq(T))
  PROVE  \E c : IsChain(c, seqs, Len(seqs), Seq(T)) /\ c[Len(seqs)] = FlattenSeq(seqs)
<1> PICK n : n = Len(seqs)
  OBVIOUS
<1>1. n \in Nat /\ \A i \in 1..n : seqs[i] \in Seq(T)
  OBVIOUS
<1>2. CASE seqs = << >>
  <2> DEFINE c == [i \in 0..0 |-> << >>]
  <2>1. n = 0 /\ FlattenSeq(seqs) = << >>
    BY <1>2 DEF FlattenSeq
  <2>2. c \in [0..0 -> Seq(T)] /\ c[0] = << >>
    OBVIOUS
  <2> HIDE DEF c
  <2>3. IsChain(c, seqs, n, Seq(T)) /\ c[n] = FlattenSeq(seqs)
    BY <2>1, <2>2 DEF IsChain
  <2> QED
    BY <2>3
<1>3. CASE seqs # << >>
  <2>1. PICK d \in [1..n -> Seq(T)] :
          /\ d[1] = seqs[1] /\ d[n] = FlattenSeq(seqs)
          /\ \A i \in 2..n : d[i] = d[i - 1] \o seqs[i]
    BY <1>3, FlattenChain
  <2>2. n \in Nat \ {0}
    BY <1>1, <1>3
  <2> DEFINE c == [i \in 0..n |-> IF i = 0 THEN << >> ELSE d[i]]
  <2>3. c \in [0..n -> Seq(T)] /\ c[0] = << >> /\ \A i \in 1..n : c[i] = d[i]
    BY <2>2
  <2> HIDE DEF c
  <2>4. ASSUME NEW i \in 1..n
        PROVE  c[i] = c[i - 1] \o seqs[i]
    <3>1. CASE i = 1
      <4>1. << >> \o seqs[1] = seqs[1] /\ 1 \in 1..n /\ i - 1 = 0
        BY <1>1, <2>2, <3>1
      <4>2. c[1] = seqs[1] /\ c[i - 1] = << >>
        BY <2>1, <2>3, <4>1
      <4> QED
        BY <3>1, <4>1, <4>2
    <3>2. CASE i # 1
      <4>1. i \in 2..n /\ i - 1 \in 1..n
        BY <3>2
      <4>2. d[i] = d[i - 1] \o seqs[i] /\ c[i] = d[i] /\ c[i - 1] = d[i - 1]
        BY <2>1, <2>3, <4>1
      <4> QED
        BY <4>2
    <3> QED
      BY <3>1, <3>2
  <2>5. c[n] = FlattenSeq(seqs)
    BY <2>1, <2>2, <2>3
  <2>6. IsChain(c, seqs, n, Seq(T))
    BY <2>3, <2>4 DEF IsChain
  <2> QED
    BY <2>5, <2>6
<1> QED
  BY <1>2, <1>3

\* Two chains of which the parts differ at i only.
DifferAt(i, a, b, f, g, n, pre, V) ==
  \E post \in V :
    /\ a = (pre \o f[i]) \o post /\ b = (pre \o g[i]) \o post
    /\ (\A j \in 1..n : j > i => f[j] = << >>) => post = << >>

LEMMA ChainReplace ==
  ASSUME NEW V, Closed(V), Grouped(V), NEW n \in Nat, NEW i \in 1..n,
         NEW f \in [1..n -> V], NEW g \in [1..n -> V],
         \A j \in 1..n : j # i => g[j] = f[j],
         NEW cf, IsChain(cf, f, n, V), NEW cg, IsChain(cg, g, n, V),
         NEW k \in Nat, k + 1 = i, NEW ch, IsChain(ch, f, k, V)
  PROVE  DifferAt(i, cf[n], cg[n], f, g, n, ch[k], V)
<1>1. /\ k \in 0..n /\ i - 1 = k
      /\ \A j \in 1..n : f[j] \in V /\ g[j] \in V
  OBVIOUS
<1>6. cf[0] = << >> /\ cg[0] = << >> /\ ch[0] = << >> /\ ch[k] \in V
  BY DEF IsChain
<1>7. \A j \in 1..n : cf[j] = cf[j - 1] \o f[j] /\ cg[j] = cg[j - 1] \o g[j]
  BY DEF IsChain
<1>8. /\ \A j \in 1..k : j \in 1..n /\ j # i /\ j \in 0..k
      /\ \A j \in 1..k : ch[j] = ch[j - 1] \o f[j]
  <2>1. \A j \in 1..k : j \in 1..n /\ j # i /\ j \in 0..k
    OBVIOUS
  <2> QED
    BY <2>1 DEF IsChain
<1> DEFINE S == {j \in 0..k : cf[j] = ch[j] /\ cg[j] = ch[j]}
<1>9. 0 \in S
  BY <1>1, <1>6
<1>10. ASSUME NEW j \in 1..k, j - 1 \in S
       PROVE  j \in S
  <2>1. j \in 1..n /\ j # i /\ j \in 0..k
    BY <1>8
  <2>2. cf[j] = cf[j - 1] \o f[j] /\ cg[j] = cg[j - 1] \o f[j] /\ ch[j] = ch[j - 1] \o f[j]
    BY <1>7, <1>8, <2>1
  <2> QED
    BY <1>10, <2>1, <2>2
<1>11. cf[k] = ch[k] /\ cg[k] = ch[k]
  <2> HIDE DEF S
  <2>1. \A j \in 0..k : j \in S
    BY <1>1, <1>9, <1>10, InductionUpTo
  <2> QED
    BY <1>1, <2>1 DEF S
<1> PICK pre : pre = ch[k]
  OBVIOUS
<1>12. /\ pre \in V
       /\ cf[i] = pre \o f[i] /\ cg[i] = pre \o g[i]
       /\ pre \o f[i] \in V /\ pre \o g[i] \in V
  <2>1. pre \in V /\ f[i] \in V /\ g[i] \in V
    BY <1>1, <1>6
  <2> QED
    BY <1>1, <1>7, <1>11, <2>1 DEF Closed
<1> DEFINE Nothing(j) == \A l \in 1..n : l > i /\ l <= j => f[l] = << >>
           P(j, post) == /\ cf[j] = (pre \o f[i]) \o post
                         /\ cg[j] = (pre \o g[i]) \o post
                         /\ Nothing(j) => post = << >>
           R == {j \in 0..n : j >= i => \E post \in V : P(j, post)}
<1> HIDE DEF P, Nothing
<1>13. 0 \in R
  BY <1>1
<1>14. ASSUME NEW j \in 1..n, j - 1 \in R
       PROVE  j \in R
  <2>1. CASE j < i
    BY <1>1, <2>1
  <2>2. CASE j = i
    <3>1. (pre \o f[i]) \o << >> = pre \o f[i] /\ (pre \o g[i]) \o << >> = pre \o g[i]
      BY <1>12 DEF Grouped
    <3>2. P(i, << >>)
      BY <1>12, <3>1 DEF P
    <3>3. << >> \in V
      BY DEF Closed
    <3> QED
      BY <1>1, <2>2, <3>2, <3>3
  <2>3. CASE j > i
    <3>1. j - 1 \in 0..n /\ j - 1 >= i /\ j \in 1..n /\ j # i /\ j \in 0..n
      BY <1>1, <2>3
    <3>2. PICK post \in V : P(j - 1, post)
      BY <1>14, <3>1
    <3>3. f[j] \in V /\ g[j] = f[j]
      BY <1>1, <3>1
    <3>4. /\ ((pre \o f[i]) \o post) \o f[j] = (pre \o f[i]) \o (post \o f[j])
          /\ ((pre \o g[i]) \o post) \o f[j] = (pre \o g[i]) \o (post \o f[j])
          /\ post \o f[j] \in V
      <4>1. post \o f[j] \in V
        BY <3>3 DEF Closed
      <4> DEFINE a == pre \o f[i]
                 b == pre \o g[i]
                 e == f[j]
      <4>2. a \in V /\ b \in V /\ e \in V
        BY <1>12, <3>3
      <4> HIDE DEF a, b, e
      <4>3. Regroups(a, post, e) /\ Regroups(b, post, e)
        BY <4>2, Regrouping
      <4> QED
        BY <4>1, <4>3 DEF a, b, e, Regroups
    <3>5. cf[j] = cf[j - 1] \o f[j] /\ cg[j] = cg[j - 1] \o f[j]
      BY <1>7, <3>3
    <3>6. Nothing(j) => post \o f[j] = << >>
      <4> SUFFICES ASSUME Nothing(j)
                   PROVE  post \o f[j] = << >>
        OBVIOUS
      <4>1. Nothing(j - 1)
        BY <1>1, <3>1 DEF Nothing
      <4>2. f[j] = << >>
        BY <1>1, <2>3 DEF Nothing
      <4>3. post = << >>
        BY <3>2, <4>1 DEF P
      <4> QED
        BY <4>2, <4>3
    <3>7. P(j, post \o f[j])
      BY <3>2, <3>4, <3>5, <3>6 DEF P
    <3> QED
      BY <3>1, <3>4, <3>7
  <2> QED
    BY <1>1, <2>1, <2>2, <2>3
<1> HIDE DEF R
<1>15. n \in R
  <2>1. \A j \in 0..n : j \in R
    BY <1>1, <1>13, <1>14, InductionUpTo
  <2> QED
    BY <1>1, <2>1
<1>16. PICK post \in V : P(n, post)
  <2>1. n >= i
    BY <1>1
  <2> QED
    BY <1>15, <2>1 DEF R
<1>17. (\A j \in 1..n : j > i => f[j] = << >>) => Nothing(n)
  BY <1>1 DEF Nothing
<1> QED
  BY <1>16, <1>17 DEF P, DifferAt

\* Of two lists that differ at i only, the flattened sequences differ in the
\* place of their i-th part only.
LEMMA FlattenReplace ==
  ASSUME NEW T, NEW f \in Seq(Seq(T)), NEW g \in Seq(Seq(T)), Len(g) = Len(f),
         NEW i \in 1..Len(f), \A j \in 1..Len(f) : j # i => g[j] = f[j]
  PROVE  /\ FlattenSeq(SubSeq(f, 1, i - 1)) \in Seq(T)
         /\ DifferAt(i, FlattenSeq(f), FlattenSeq(g), f, g, Len(f),
                     FlattenSeq(SubSeq(f, 1, i - 1)), Seq(T))
<1> DEFINE V == Seq(T)
           n == Len(f)
           k == i - 1
           h == SubSeq(f, 1, k)
<1>1. /\ n \in Nat /\ i \in 1..n /\ k \in Nat /\ k + 1 = i
      /\ f \in [1..n -> V] /\ g \in [1..n -> V]
      /\ \A j \in 1..n : j # i => g[j] = f[j]
  OBVIOUS
<1>2. h \in Seq(Seq(T)) /\ Len(h) = k /\ \A j \in 1..k : h[j] = f[j]
  BY SMTT(30)
<1>3. PICK cf : IsChain(cf, f, n, V) /\ cf[n] = FlattenSeq(f)
  BY FlattenFromNothing
<1>4. PICK cg : IsChain(cg, g, n, V) /\ cg[n] = FlattenSeq(g)
  BY FlattenFromNothing
<1>5. PICK ch : IsChain(ch, h, k, V) /\ ch[k] = FlattenSeq(h)
  <2> HIDE DEF h, k
  <2> QED
    BY <1>2, FlattenFromNothing
<1>6. IsChain(ch, f, k, V) /\ ch[k] \in V
  <2> HIDE DEF h, k, n, V
  <2>1. ch \in [0..k -> V] /\ ch[0] = << >> /\ \A j \in 1..k : ch[j] = ch[j - 1] \o h[j]
    BY <1>5 DEF IsChain
  <2>2. k \in 0..k
    BY <1>1
  <2> QED
    BY <1>2, <2>1, <2>2 DEF IsChain
<1>8. Closed(V) /\ Grouped(V)
  BY Concatenating
<1> HIDE DEF h, k, n, V
<1>7. DifferAt(i, cf[n], cg[n], f, g, n, ch[k], V)
  BY <1>1, <1>3, <1>4, <1>6, <1>8, ChainReplace
<1> QED
  BY <1>3, <1>4, <1>5, <1>6, <1>7 DEF h, k, n, V

\* Of two chains that agree before i, of which the first has a prefix of the
\* other's part at i and nothing behind it, the last are prefixes too.
Extends(a, b, V) == \E end \in V : a = b \o end

LEMMA ChainPrefix ==
  ASSUME NEW V, Closed(V), Grouped(V), NEW n \in Nat, NEW i \in 1..n,
         NEW f \in [1..n -> V], NEW g \in [1..n -> V],
         NEW rest \in V, g[i] = f[i] \o rest,
         \A j \in 1..n : (j < i => g[j] = f[j]) /\ (j > i => f[j] = << >>),
         NEW cf, IsChain(cf, f, n, V), NEW cg, IsChain(cg, g, n, V)
  PROVE  Extends(cg[n], cf[n], V)
<1>1. \A j \in 1..n : (j < i => g[j] = f[j]) /\ (j > i => f[j] = << >>)
  OBVIOUS
<1>4. cf[0] = << >> /\ cg[0] = << >>
  BY DEF IsChain
<1>5. \A j \in 1..n :
        /\ j - 1 \in 0..n /\ j \in 0..n /\ cf[j - 1] \in V /\ cf[j] \in V
        /\ f[j] \in V /\ g[j] \in V
        /\ cf[j] = cf[j - 1] \o f[j] /\ cg[j] = cg[j - 1] \o g[j]
  <2> TAKE j \in 1..n
  <2>1. j - 1 \in 0..n /\ j \in 0..n
    BY <1>1
  <2> QED
    BY <2>1 DEF IsChain
<1> DEFINE P(j, end) == cg[j] = cf[j] \o end /\ (j < i => end = << >>)
           S == {j \in 0..n : \E end \in V : P(j, end)}
<1> HIDE DEF P
<1>6. << >> \in V /\ << >> \o << >> = << >>
  BY DEF Closed, Grouped
<1>7. 0 \in S
  <2>1. P(0, << >>)
    BY <1>4, <1>6 DEF P
  <2> QED
    BY <1>1, <1>6, <2>1
<1>8. ASSUME NEW j \in 1..n, j - 1 \in S
      PROVE  j \in S
  <2>1. PICK end \in V : P(j - 1, end)
    BY <1>8
  <2>2. /\ j - 1 \in 0..n /\ j \in 0..n /\ cf[j - 1] \in V /\ cf[j] \in V
        /\ f[j] \in V /\ g[j] \in V
        /\ cf[j] = cf[j - 1] \o f[j] /\ cg[j] = cg[j - 1] \o g[j]
    BY <1>5
  <2> SUFFICES \E x \in V : P(j, x)
    BY <2>2
  <2>3. CASE j <= i
    <3>1. cg[j - 1] = cf[j - 1]
      <4>1. j - 1 < i
        BY <1>1, <2>3
      <4>2. end = << >>
        BY <2>1, <4>1 DEF P
      <4> QED
        BY <2>1, <2>2, <4>2 DEF P, Grouped
    <3>2. CASE j < i
      <4>1. g[j] = f[j] /\ cf[j] \o << >> = cf[j]
        BY <1>1, <2>2, <3>2 DEF Grouped
      <4>2. P(j, << >>)
        BY <2>2, <3>1, <4>1 DEF P
      <4> QED
        BY <1>6, <4>2
    <3>3. CASE j = i
      <4>1. cf[j - 1] \o (f[j] \o rest) = (cf[j - 1] \o f[j]) \o rest
        <5>1. \A a, b, c \in V : (a \o b) \o c = a \o (b \o c)
          BY DEF Grouped
        <5>2. cf[j - 1] \in V /\ f[j] \in V /\ rest \in V
          BY <2>2
        <5> QED
          BY ONLY <5>1, <5>2
      <4>2. cg[j] = cf[j] \o rest
        BY <2>2, <3>1, <3>3, <4>1
      <4>3. P(j, rest)
        BY <1>1, <3>3, <4>2 DEF P
      <4> QED
        BY <4>3
    <3> QED
      BY <1>1, <2>3, <3>2, <3>3
  <2>4. CASE j > i
    <3>1. f[j] = << >>
      BY <1>1, <2>4
    <3>2. cf[j] = cf[j - 1]
      BY <2>2, <3>1 DEF Grouped
    <3>3. /\ (cf[j] \o end) \o g[j] = cf[j] \o (end \o g[j])
          /\ end \o g[j] \in V
      <4>1. end \o g[j] \in V
        BY <2>2 DEF Closed
      <4> DEFINE a == cf[j]
                 b == g[j]
      <4>2. a \in V /\ b \in V
        BY <2>2
      <4> HIDE DEF a, b
      <4>3. Regroups(a, end, b)
        BY <4>2, Regrouping
      <4> QED
        BY <4>1, <4>3 DEF a, b, Regroups
    <3>4. cg[j] = cf[j] \o (end \o g[j])
      BY <2>1, <2>2, <3>2, <3>3 DEF P
    <3>5. P(j, end \o g[j])
      BY <1>1, <2>4, <3>4 DEF P
    <3> QED
      BY <3>3, <3>5
  <2> QED
    BY <1>1, <2>3, <2>4
<1> HIDE DEF S
<1>9. n \in S
  <2>1. \A j \in 0..n : j \in S
    BY <1>1, <1>7, <1>8, InductionUpTo
  <2> QED
    BY <1>1, <2>1
<1> QED
  BY <1>9 DEF P, S, Extends

\* The same of lists.
LEMMA FlattenPrefix ==
  ASSUME NEW T, NEW f \in Seq(Seq(T)), NEW g \in Seq(Seq(T)), Len(g) = Len(f),
         NEW i \in 1..Len(f), NEW rest \in Seq(T), g[i] = f[i] \o rest,
         \A j \in 1..Len(f) : (j < i => g[j] = f[j]) /\ (j > i => f[j] = << >>)
  PROVE  \E end \in Seq(T) : FlattenSeq(g) = FlattenSeq(f) \o end
<1> DEFINE V == Seq(T)
           n == Len(f)
<1>1. /\ n \in Nat /\ i \in 1..n
      /\ f \in [1..n -> V] /\ g \in [1..n -> V]
      /\ rest \in V /\ g[i] = f[i] \o rest
      /\ \A j \in 1..n : (j < i => g[j] = f[j]) /\ (j > i => f[j] = << >>)
  OBVIOUS
<1>2. PICK cf : IsChain(cf, f, n, V) /\ cf[n] = FlattenSeq(f)
  BY FlattenFromNothing
<1>3. PICK cg : IsChain(cg, g, n, V) /\ cg[n] = FlattenSeq(g)
  BY FlattenFromNothing
<1>5. Closed(V) /\ Grouped(V)
  BY Concatenating
<1> HIDE DEF n, V
<1>4. Extends(cg[n], cf[n], V)
  BY <1>1, <1>2, <1>3, <1>5, ChainPrefix
<1> QED
  BY <1>2, <1>3, <1>4 DEF n, V, Extends

\* A part more at the end of a sequence of parts.
LEMMA FlattenAppend ==
  ASSUME NEW T, NEW seqs \in Seq(Seq(T)), NEW x \in Seq(T)
  PROVE  /\ FlattenSeq(seqs) \in Seq(T)
         /\ FlattenSeq(Append(seqs, x)) = FlattenSeq(seqs) \o x
<1> PICK f : f = Append(seqs, << >>)
  OBVIOUS
<1> PICK g : g = Append(seqs, x)
  OBVIOUS
<1> PICK n \in Nat \ {0} : n = Len(seqs) + 1
  OBVIOUS
<1>1. /\ f \in Seq(Seq(T)) /\ g \in Seq(Seq(T)) /\ Len(f) = n /\ Len(g) = n
      /\ f[n] = << >> /\ g[n] = x /\ \A j \in 1..n : j # n => g[j] = f[j]
  OBVIOUS
<1>2. SubSeq(f, 1, n - 1) = seqs
  OBVIOUS
<1>3. n \in 1..Len(f) /\ Len(f) = Len(g) /\ \A j \in 1..Len(f) : j # n => g[j] = f[j]
  BY <1>1
<1>4. /\ FlattenSeq(seqs) \in Seq(T)
      /\ DifferAt(n, FlattenSeq(f), FlattenSeq(g), f, g, Len(f), FlattenSeq(seqs), Seq(T))
  BY <1>1, <1>2, <1>3, FlattenReplace
<1>5. PICK post \in Seq(T) : FlattenSeq(g) = (FlattenSeq(seqs) \o x) \o post /\ post = << >>
  <2>1. \A j \in 1..Len(f) : j > n => f[j] = << >>
    BY <1>1
  <2> QED
    BY <1>1, <1>4, <2>1 DEF DifferAt
<1>6. (FlattenSeq(seqs) \o x) \o << >> = FlattenSeq(seqs) \o x
  BY <1>4
<1> QED
  BY <1>4, <1>5, <1>6

\* Two sequences of parts, one behind the other.
LEMMA FlattenConcat ==
  ASSUME NEW T, NEW a \in Seq(Seq(T)), NEW b \in Seq(Seq(T))
  PROVE  FlattenSeq(a \o b) = FlattenSeq(a) \o FlattenSeq(b)
<1> DEFINE Holds(i) == FlattenSeq(a \o SubSeq(b, 1, i)) = FlattenSeq(a) \o FlattenSeq(SubSeq(b, 1, i))
           S == {i \in 0..Len(b) : Holds(i)}
<1>1. FlattenSeq(<< >>) = << >> /\ FlattenSeq(a) \in Seq(T)
  <2>1. FlattenSeq(<< >>) = << >>
    BY DEF FlattenSeq
  <2> QED
    BY <2>1, FlattenAppend
<1>2. 0 \in S
  <2>1. SubSeq(b, 1, 0) = << >> /\ a \o << >> = a /\ FlattenSeq(a) \o << >> = FlattenSeq(a)
    BY <1>1
  <2>2. Holds(0)
    BY <1>1, <2>1
  <2> QED
    BY <2>2
<1>3. ASSUME NEW i \in 1..Len(b), i - 1 \in S
      PROVE  i \in S
  <2>1. PICK p : p = SubSeq(b, 1, i - 1)
    OBVIOUS
  <2>2. /\ p \in Seq(Seq(T)) /\ b[i] \in Seq(T)
        /\ SubSeq(b, 1, i) = Append(p, b[i]) /\ a \o Append(p, b[i]) = Append(a \o p, b[i])
        /\ a \o p \in Seq(Seq(T))
    <3>1. p \in Seq(Seq(T)) /\ b[i] \in Seq(T) /\ SubSeq(b, 1, i) = Append(p, b[i])
      BY <2>1
    <3> PICK x \in Seq(T) : x = b[i]
      BY <3>1
    <3>2. a \in Seq(Seq(T)) /\ p \in Seq(Seq(T)) /\ x \in Seq(T)
      BY <3>1
    <3>3. a \o Append(p, x) = Append(a \o p, x) /\ a \o p \in Seq(Seq(T))
      BY ONLY <3>2, SMTT(30)
    <3> QED
      BY <3>1, <3>3
  <2>3. /\ FlattenSeq(Append(a \o p, b[i])) = FlattenSeq(a \o p) \o b[i]
        /\ FlattenSeq(Append(p, b[i])) = FlattenSeq(p) \o b[i] /\ FlattenSeq(p) \in Seq(T)
    BY <2>2, FlattenAppend
  <2>4. FlattenSeq(a \o p) = FlattenSeq(a) \o FlattenSeq(p)
    BY <1>3, <2>1
  <2>5. Regroups(FlattenSeq(a), FlattenSeq(p), b[i])
    BY <1>1, <2>2, <2>3, Regrouping, Concatenating
  <2>6. Holds(i)
    BY <2>2, <2>3, <2>4, <2>5 DEF Regroups
  <2> QED
    BY <2>6
<1>4. Len(b) \in S
  <2> HIDE DEF S
  <2>1. Len(b) \in Nat /\ Len(b) \in 0..Len(b)
    OBVIOUS
  <2>2. \A i \in 0..Len(b) : i \in S
    BY <1>2, <1>3, <2>1, InductionUpTo
  <2> QED
    BY <2>1, <2>2
<1>5. SubSeq(b, 1, Len(b)) = b
  OBVIOUS
<1> QED
  BY <1>4, <1>5

\* A text is what precedes a position, the character there and what follows.
LEMMA SplitAt ==
  ASSUME NEW C, NEW s \in Seq(C), NEW i \in 1..Len(s)
  PROVE  s = SubSeq(s, 1, i - 1) \o << s[i] >> \o SubSeq(s, i + 1, Len(s))
<1> PICK r : r = SubSeq(s, 1, i - 1)
  OBVIOUS
<1> PICK c : c = SubSeq(s, i + 1, Len(s))
  OBVIOUS
<1> PICK n \in Nat : n = Len(s)
  OBVIOUS
<1>1. /\ r \in Seq(C) /\ Len(r) = i - 1 /\ \A j \in 1..(i - 1) : r[j] = s[j]
  OBVIOUS
<1>2. /\ c \in Seq(C) /\ Len(c) = n - i /\ \A j \in 1..(n - i) : c[j] = s[i + j]
  OBVIOUS
<1> PICK u : u = r \o << s[i] >>
  OBVIOUS
<1>3. u \in Seq(C) /\ Len(u) = i /\ u[i] = s[i] /\ \A j \in 1..(i - 1) : u[j] = s[j]
  <2>1. s[i] \in C /\ i \in Nat \ {0}
    OBVIOUS
  <2> QED
    BY <1>1, <2>1
<1> PICK v : v = u \o c
  OBVIOUS
<1>4. /\ v \in Seq(C) /\ Len(v) = n
      /\ \A j \in 1..i : v[j] = u[j]
      /\ \A j \in 1..(n - i) : v[i + j] = c[j]
  <2>1. /\ u \o c \in Seq(C) /\ Len(u \o c) = Len(u) + Len(c)
        /\ \A k \in 1..Len(u) : (u \o c)[k] = u[k]
        /\ \A k \in 1..Len(c) : (u \o c)[Len(u) + k] = c[k]
    <3>1. u \in Seq(C) /\ c \in Seq(C)
      BY <1>2, <1>3
    <3> QED
      BY ONLY <3>1, Joined
  <2>2. v = u \o c
    OBVIOUS
  <2>3. i \in Nat /\ n \in Nat /\ Len(u) = i /\ Len(c) = n - i
    BY <1>2, <1>3
  <2> QED
    BY ONLY <2>1, <2>2, <2>3
<1>5. ASSUME NEW j \in 1..n PROVE s[j] = v[j]
  <2>1. CASE j < i
    <3>1. j \in 1..(i - 1) /\ j \in 1..i
      BY <2>1
    <3> QED
      BY ONLY <1>3, <1>4, <3>1
  <2>2. CASE j = i
    <3>1. i \in 1..i /\ u[i] = s[i]
      BY <1>3
    <3> QED
      BY <1>4, <2>2, <3>1
  <2>3. CASE j > i
    <3>1. PICK k \in 1..(n - i) : j = i + k
      BY <2>3
    <3> QED
      BY <1>2, <1>4, <3>1
  <2>4. j < i \/ j = i \/ j > i
    OBVIOUS
  <2> QED
    BY <2>1, <2>2, <2>3, <2>4
<1>6. s = v
  <2>1. s \in Seq(C) /\ v \in Seq(C) /\ Len(s) = n /\ Len(v) = n /\ \A j \in 1..n : s[j] = v[j]
    BY <1>4, <1>5
  <2> QED
    BY ONLY <2>1
<1> QED
  BY <1>6

\* A function of every member of a sequence, which grows.
IsMap(g, M, T) == g \in [M -> T]
Mapped(g, s) == [i \in DOMAIN s |-> g[s[i]]]

LEMMA MapType ==
  ASSUME NEW M, NEW T, NEW g, IsMap(g, M, T), NEW s \in Seq(M)
  PROVE  /\ Mapped(g, s) \in Seq(T) /\ Len(Mapped(g, s)) = Len(s)
         /\ \A i \in 1..Len(s) : Mapped(g, s)[i] = g[s[i]]
<1>1. DOMAIN s = 1..Len(s) /\ Len(s) \in Nat
  OBVIOUS
<1>2. \A i \in 1..Len(s) : s[i] \in M /\ g[s[i]] \in T
  BY DEF IsMap
<1>3. Mapped(g, s) = [i \in 1..Len(s) |-> g[s[i]]]
  BY <1>1 DEF Mapped
<1>4. Mapped(g, s) \in [1..Len(s) -> T]
  BY <1>2, <1>3
<1> QED
  BY <1>1, <1>3, <1>4

LEMMA MapAppend ==
  ASSUME NEW M, NEW T, NEW g, IsMap(g, M, T), NEW s \in Seq(M), NEW m \in M
  PROVE  /\ Mapped(g, s) \in Seq(T)
         /\ Mapped(g, Append(s, m)) = Append(Mapped(g, s), g[m])
<1> PICK n \in Nat : n = Len(s)
  OBVIOUS
<1> PICK t : t = Append(s, m)
  OBVIOUS
<1> PICK f : f = Mapped(g, s)
  OBVIOUS
<1> PICK h : h = Mapped(g, t)
  OBVIOUS
<1>1. f \in Seq(T) /\ Len(f) = n /\ \A i \in 1..n : f[i] = g[s[i]]
  BY MapType
<1>2. t \in Seq(M) /\ Len(t) = n + 1 /\ t[n + 1] = m /\ \A i \in 1..n : t[i] = s[i]
  OBVIOUS
<1>3. h \in Seq(T) /\ Len(h) = n + 1 /\ \A i \in 1..(n + 1) : h[i] = g[t[i]]
  <2>1. t \in Seq(M) /\ IsMap(g, M, T)
    BY <1>2
  <2>2. /\ Mapped(g, t) \in Seq(T) /\ Len(Mapped(g, t)) = Len(t)
        /\ \A i \in 1..Len(t) : Mapped(g, t)[i] = g[t[i]]
    BY ONLY <2>1, MapType
  <2> QED
    BY <1>2, <2>2
<1>4. g[m] \in T /\ n \in Nat
  BY DEF IsMap
<1> PICK k : k = Append(f, g[m])
  OBVIOUS
<1>5. k \in Seq(T) /\ Len(k) = n + 1 /\ k[n + 1] = g[m] /\ \A i \in 1..n : k[i] = f[i]
  BY <1>1, <1>4
<1>6. \A i \in 1..(n + 1) : h[i] = k[i]
  <2>1. \A i \in 1..(n + 1) : i \in 1..n \/ i = n + 1
    OBVIOUS
  <2> QED
    BY ONLY <1>1, <1>2, <1>3, <1>5, <2>1
<1>7. h = k
  BY ONLY <1>3, <1>5, <1>6
<1> QED
  BY <1>1, <1>7

\* What holds of the empty sequence, and of a longer one if of the shorter.
LEMMA SeqInduction ==
  ASSUME NEW M, NEW S, << >> \in S, \A s \in Seq(M), m \in M : s \in S => Append(s, m) \in S
  PROVE  \A s \in Seq(M) : s \in S
<1> TAKE s \in Seq(M)
<1> DEFINE n == Len(s)
           I == {i \in 0..n : SubSeq(s, 1, i) \in S}
<1>1. n \in Nat /\ SubSeq(s, 1, 0) = << >> /\ SubSeq(s, 1, n) = s
  OBVIOUS
<1>2. 0 \in I
  <2>1. 0 \in 0..n
    BY ONLY <1>1
  <2>2. SubSeq(s, 1, 0) \in S
    BY ONLY <1>1, << >> \in S
  <2> QED
    BY ONLY <2>1, <2>2
<1>3. ASSUME NEW i \in 1..n, i - 1 \in I
      PROVE  i \in I
  <2>1. /\ SubSeq(s, 1, i - 1) \in Seq(M) /\ s[i] \in M
        /\ SubSeq(s, 1, i) = Append(SubSeq(s, 1, i - 1), s[i])
    OBVIOUS
  <2>2. SubSeq(s, 1, i - 1) \in S
    BY <1>3
  <2>3. \A t \in Seq(M), m \in M : t \in S => Append(t, m) \in S
    OBVIOUS
  <2>4. SubSeq(s, 1, i) \in S
    BY ONLY <2>1, <2>2, <2>3
  <2>5. i \in 0..n
    BY ONLY <1>1, i \in 1..n
  <2> QED
    BY ONLY <2>4, <2>5
<1>4. n \in I
  <2> HIDE DEF I
  <2>1. \A i \in 0..n : i \in I
    BY <1>1, <1>2, <1>3, InductionUpTo
  <2> QED
    BY <1>1, <2>1
<1> QED
  BY <1>1, <1>4

\* What a sequence is made of when something is taken of each of its members.
Gathered(g, s) == FlattenSeq(Mapped(g, s))

LEMMA GatherAppend ==
  ASSUME NEW M, NEW T, NEW g, IsMap(g, M, Seq(T)), NEW s \in Seq(M), NEW m \in M
  PROVE  /\ Gathered(g, s) \in Seq(T)
         /\ Gathered(g, Append(s, m)) = Gathered(g, s) \o g[m]
<1>1. Mapped(g, s) \in Seq(Seq(T)) /\ Mapped(g, Append(s, m)) = Append(Mapped(g, s), g[m])
  BY MapAppend
<1>2. g[m] \in Seq(T)
  BY DEF IsMap
<1> QED
  BY <1>1, <1>2, FlattenAppend DEF Gathered

LEMMA GatherAppends ==
  ASSUME NEW M, NEW T, NEW g, IsMap(g, M, Seq(T))
  PROVE  \A x \in Seq(M), y \in M : Gathered(g, Append(x, y)) = Gathered(g, x) \o g[y]
BY GatherAppend

LEMMA GatherNothing ==
  ASSUME NEW g
  PROVE  Gathered(g, << >>) = << >>
<1>1. Mapped(g, << >>) = << >>
  BY DEF Mapped
<1> QED
  BY <1>1 DEF Gathered, FlattenSeq

LEMMA GatherType ==
  ASSUME NEW M, NEW T, NEW g, IsMap(g, M, Seq(T)), NEW s \in Seq(M)
  PROVE  Gathered(g, s) \in Seq(T)
<1>1. Mapped(g, s) \in Seq(Seq(T))
  BY MapType
<1>2. << >> \in Seq(T)
  OBVIOUS
<1> QED
  BY <1>1, <1>2, FlattenAppend DEF Gathered

LEMMA GatherOne ==
  ASSUME NEW M, NEW T, NEW g, IsMap(g, M, Seq(T)), NEW m \in M
  PROVE  Gathered(g, << m >>) = g[m]
<1>1. << >> \in Seq(M) /\ Append(<< >>, m) = << m >>
  OBVIOUS
<1>2. Gathered(g, << m >>) = << >> \o g[m]
  <2> PICK e : e = << >>
    OBVIOUS
  <2>1. IsMap(g, M, Seq(T)) /\ e \in Seq(M) /\ m \in M
    BY <1>1
  <2>2. Gathered(g, Append(e, m)) = Gathered(g, e) \o g[m]
    BY ONLY <2>1, GatherAppend
  <2>3. Gathered(g, e) = << >> /\ Append(e, m) = << m >>
    BY <1>1, GatherNothing
  <2> QED
    BY ONLY <2>2, <2>3
<1>3. g[m] \in Seq(T)
  BY DEF IsMap
<1> QED
  BY <1>2, <1>3

\* Of one sequence behind another.
LEMMA GatherJoin ==
  ASSUME NEW M, NEW T, NEW g, IsMap(g, M, Seq(T)), NEW a \in Seq(M), NEW b \in Seq(M)
  PROVE  Gathered(g, a \o b) = Gathered(g, a) \o Gathered(g, b)
<1> DEFINE S == {s \in Seq(M) : Gathered(g, a \o s) = Gathered(g, a) \o Gathered(g, s)}
<1>1. << >> \in S
  <2>1. << >> \in Seq(M) /\ a \o << >> = a
    OBVIOUS
  <2>2. Gathered(g, a) \in Seq(T) /\ Gathered(g, << >>) = << >>
    BY GatherType, GatherNothing
  <2>3. Gathered(g, a) \o << >> = Gathered(g, a)
    BY <2>2
  <2> QED
    BY <2>1, <2>2, <2>3
<1>2. ASSUME NEW s \in Seq(M), NEW m \in M, s \in S
      PROVE  Append(s, m) \in S
  <2>1. a \o s \in Seq(M) /\ Append(s, m) \in Seq(M) /\ a \o Append(s, m) = Append(a \o s, m)
    OBVIOUS
  <2>2. /\ Gathered(g, Append(a \o s, m)) = Gathered(g, a \o s) \o g[m]
        /\ Gathered(g, Append(s, m)) = Gathered(g, s) \o g[m]
    <3>1. \A x \in Seq(M), y \in M : Gathered(g, Append(x, y)) = Gathered(g, x) \o g[y]
      BY ONLY IsMap(g, M, Seq(T)), GatherAppends
    <3> QED
      BY ONLY <2>1, <3>1, s \in Seq(M), m \in M
  <2>3. Gathered(g, a) \in Seq(T) /\ Gathered(g, s) \in Seq(T) /\ g[m] \in Seq(T)
    BY GatherType DEF IsMap
  <2>4. Regroups(Gathered(g, a), Gathered(g, s), g[m])
    BY <2>3, Concatenating, Regrouping
  <2> QED
    BY <1>2, <2>1, <2>2, <2>4 DEF Regroups
<1>3. \A s \in Seq(M) : s \in S
  <2> HIDE DEF S
  <2> QED
    BY <1>1, <1>2, SeqInduction
<1> QED
  BY <1>3

\* Of parts put together, what is gathered of each.
LEMMA GatherFlat ==
  ASSUME NEW M, NEW T, NEW g, IsMap(g, M, Seq(T)), NEW seqs \in Seq(Seq(M))
  PROVE  Gathered(g, FlattenSeq(seqs)) = Gathered([s \in Seq(M) |-> Gathered(g, s)], seqs)
<1> PICK all : all = [s \in Seq(M) |-> Gathered(g, s)]
  OBVIOUS
<1>1. IsMap(all, Seq(M), Seq(T)) /\ \A s \in Seq(M) : all[s] = Gathered(g, s)
  BY GatherType DEF IsMap
<1> DEFINE S == {q \in Seq(Seq(M)) : Gathered(g, FlattenSeq(q)) = Gathered(all, q)}
<1>2. << >> \in S
  <2>1. << >> \in Seq(Seq(M))
    OBVIOUS
  <2>2. FlattenSeq(<< >>) = << >>
    BY DEF FlattenSeq
  <2> QED
    BY <2>1, <2>2, GatherNothing
<1>3. ASSUME NEW q \in Seq(Seq(M)), NEW m \in Seq(M), q \in S
      PROVE  Append(q, m) \in S
  <2>1. Append(q, m) \in Seq(Seq(M))
    OBVIOUS
  <2>2. FlattenSeq(q) \in Seq(M) /\ FlattenSeq(Append(q, m)) = FlattenSeq(q) \o m
    BY FlattenAppend
  <2>3. Gathered(g, FlattenSeq(q) \o m) = Gathered(g, FlattenSeq(q)) \o Gathered(g, m)
    BY <2>2, GatherJoin
  <2>4. Gathered(all, Append(q, m)) = Gathered(all, q) \o all[m]
    <3>1. IsMap(all, Seq(M), Seq(T)) /\ q \in Seq(Seq(M)) /\ m \in Seq(M)
      BY <1>1
    <3> QED
      BY ONLY <3>1, GatherAppend
  <2> QED
    BY <1>1, <1>3, <2>1, <2>2, <2>3, <2>4
<1>4. \A q \in Seq(Seq(M)) : q \in S
  <2> HIDE DEF S
  <2> QED
    BY <1>2, <1>3, SeqInduction
<1> QED
  BY <1>4

\* Two sequences of the same members, as far as they matter.
LEMMA GatherSame ==
  ASSUME NEW f, NEW g, NEW s, NEW t, DOMAIN s = DOMAIN t,
         \A i \in DOMAIN s : f[s[i]] = g[t[i]]
  PROVE  Gathered(f, s) = Gathered(g, t)
<1>1. Mapped(f, s) = Mapped(g, t)
  BY DEF Mapped
<1> QED
  BY <1>1 DEF Gathered

\* What is gathered of what was gathered.
LEMMA GatherTwice ==
  ASSUME NEW K, NEW M, NEW T, NEW h, IsMap(h, K, Seq(M)), NEW g, IsMap(g, M, Seq(T)),
         NEW s \in Seq(K), NEW k, \A x \in K : k[x] = Gathered(g, h[x])
  PROVE  Gathered(g, Gathered(h, s)) = Gathered(k, s)
<1> PICK all : all = [p \in Seq(M) |-> Gathered(g, p)]
  OBVIOUS
<1> PICK q : q = Mapped(h, s)
  OBVIOUS
<1>1. q \in Seq(Seq(M)) /\ Len(q) = Len(s) /\ \A i \in 1..Len(s) : q[i] = h[s[i]]
  BY MapType
<1>2. Gathered(g, Gathered(h, s)) = Gathered(all, q)
  BY <1>1, GatherFlat DEF Gathered
<1>3. DOMAIN s = 1..Len(s) /\ DOMAIN q = 1..Len(q) /\ \A i \in DOMAIN s : s[i] \in K
  BY <1>1
<1>4. \A i \in DOMAIN q : all[q[i]] = k[s[i]]
  <2> TAKE i \in DOMAIN q
  <2>1. s[i] \in K /\ q[i] = h[s[i]]
    BY <1>1, <1>3
  <2>2. q[i] \in Seq(M)
    BY <2>1 DEF IsMap
  <2> QED
    BY <2>1, <2>2
<1>5. DOMAIN q = DOMAIN s
  BY <1>1, <1>3
<1>6. Gathered(all, q) = Gathered(k, s)
  BY ONLY <1>4, <1>5, GatherSame
<1> QED
  BY <1>2, <1>6

\* Nothing is gathered where every member has nothing; where each has itself,
\* the sequence as it was.
LEMMA GatherNone ==
  ASSUME NEW M, NEW T, NEW g, IsMap(g, M, Seq(T)), NEW s \in Seq(M),
         \A i \in 1..Len(s) : g[s[i]] = << >>
  PROVE  Gathered(g, s) = << >>
<1> DEFINE S == {q \in Seq(M) : (\A i \in 1..Len(q) : g[q[i]] = << >>) => Gathered(g, q) = << >>}
<1>1. << >> \in S
  BY GatherNothing
<1>2. ASSUME NEW q \in Seq(M), NEW m \in M, q \in S
      PROVE  Append(q, m) \in S
  <2>1. /\ Append(q, m) \in Seq(M) /\ Len(q) \in Nat /\ Len(Append(q, m)) = Len(q) + 1
        /\ Append(q, m)[Len(q) + 1] = m /\ \A i \in 1..Len(q) : Append(q, m)[i] = q[i]
    OBVIOUS
  <2>2. SUFFICES ASSUME \A i \in 1..Len(Append(q, m)) : g[Append(q, m)[i]] = << >>
                 PROVE  Gathered(g, Append(q, m)) = << >>
    BY <2>1
  <2>3. g[m] = << >> /\ \A i \in 1..Len(q) : g[q[i]] = << >>
    BY <2>1, <2>2
  <2>4. Gathered(g, Append(q, m)) = Gathered(g, q) \o g[m]
    BY GatherAppend
  <2>5. Gathered(g, q) = << >>
    BY <1>2, <2>3
  <2> QED
    BY <2>3, <2>4, <2>5
<1>3. \A q \in Seq(M) : q \in S
  <2> HIDE DEF S
  <2> QED
    BY <1>1, <1>2, SeqInduction
<1> QED
  BY <1>3

LEMMA GatherAll ==
  ASSUME NEW M, NEW g, IsMap(g, M, Seq(M)), NEW s \in Seq(M),
         \A i \in 1..Len(s) : g[s[i]] = << s[i] >>
  PROVE  Gathered(g, s) = s
<1> DEFINE S == {q \in Seq(M) : (\A i \in 1..Len(q) : g[q[i]] = << q[i] >>) => Gathered(g, q) = q}
<1>1. << >> \in S
  BY GatherNothing
<1>2. ASSUME NEW q \in Seq(M), NEW m \in M, q \in S
      PROVE  Append(q, m) \in S
  <2>1. /\ Append(q, m) \in Seq(M) /\ Len(q) \in Nat /\ Len(Append(q, m)) = Len(q) + 1
        /\ Append(q, m)[Len(q) + 1] = m /\ \A i \in 1..Len(q) : Append(q, m)[i] = q[i]
    OBVIOUS
  <2>2. SUFFICES ASSUME \A i \in 1..Len(Append(q, m)) : g[Append(q, m)[i]] = << Append(q, m)[i] >>
                 PROVE  Gathered(g, Append(q, m)) = Append(q, m)
    BY <2>1
  <2>3. g[m] = << m >> /\ \A i \in 1..Len(q) : g[q[i]] = << q[i] >>
    <3> PICK k, n : k = Append(q, m) /\ n = Len(q)
      OBVIOUS
    <3>1. n \in Nat /\ k[n + 1] = m /\ (\A i \in 1..n : k[i] = q[i])
      BY <2>1
    <3>2. \A i \in 1..(n + 1) : g[k[i]] = << k[i] >>
      BY <2>1, <2>2
    <3>3. n + 1 \in 1..(n + 1) /\ \A i \in 1..n : i \in 1..(n + 1)
      BY <3>1
    <3>4. g[m] = << m >>
      BY ONLY <3>1, <3>2, <3>3
    <3>5. \A i \in 1..n : g[q[i]] = << q[i] >>
      BY ONLY <3>1, <3>2, <3>3
    <3> QED
      BY ONLY <3>4, <3>5, n = Len(q)
  <2>4. Gathered(g, Append(q, m)) = Gathered(g, q) \o g[m]
    BY ONLY IsMap(g, M, Seq(M)), q \in Seq(M), m \in M, GatherAppend
  <2>5. Gathered(g, q) = q
    BY <1>2, <2>3
  <2>6. q \o << m >> = Append(q, m)
    OBVIOUS
  <2> QED
    BY ONLY <2>3, <2>4, <2>5, <2>6
<1>3. \A q \in Seq(M) : q \in S
  <2> HIDE DEF S
  <2> QED
    BY <1>1, <1>2, SeqInduction
<1> QED
  BY <1>3
=============================================================================
