------------------------------ MODULE TagText ------------------------------
(***************************************************************************)
(* Text as sequences of characters, and the string operations by which the *)
(* proxy looks for the observation tag (proxy/internal/proxy/obs.go): the   *)
(* Go library's strings.Index, strings.Cut and strings.TrimSpace, defined   *)
(* by what they return, and hasSuspiciousTail.  Positions count from 1, so  *)
(* strings.Index(s, t) = -1 is ~Occurs(s, t).                               *)
(***************************************************************************)
EXTENDS Integers, Sequences, SequencesExt, FiniteSetsExt

\* t occurs in s from position i on.
OccursAt(s, t, i) ==
  /\ i + Len(t) - 1 <= Len(s)
  /\ \A j \in 1..Len(t) : s[i + j - 1] = t[j]

Occurrences(s, t) == {i \in 1..Len(s) : OccursAt(s, t, i)}

Occurs(s, t) == Occurrences(s, t) # {}

\* strings.Index
FirstAt(s, t) == Min(Occurrences(s, t))

\* strings.Cut: what precedes the first t in s (all of s when there is none),
\* and what follows it.
Before(s, t) == IF Occurs(s, t) THEN SubSeq(s, 1, FirstAt(s, t) - 1) ELSE s

After(s, t) ==
  IF Occurs(s, t) THEN SubSeq(s, FirstAt(s, t) + Len(t), Len(s)) ELSE << >>

\* s ends with the first i characters of t.
EndsWithPrefix(s, t, i) ==
  /\ i <= Len(s)
  /\ \A j \in 1..i : s[Len(s) - i + j] = t[j]

HasSuspiciousTail(s, t) == \E i \in 1..Len(t) : EndsWithPrefix(s, t, i)

\* strings.TrimSpace, the white space being the set ws of characters.
TrimSpace(s, ws) ==
  LET ink == {i \in 1..Len(s) : s[i] \notin ws}
  IN  IF ink = {} THEN << >> ELSE SubSeq(s, Min(ink), Max(ink))
=============================================================================
