-------------------------- MODULE SessionLogProofs --------------------------
(***************************************************************************)
(* Proofs about SessionLog, for any number of requests, any conversations  *)
(* and replies, and any number of failing statements and crashes.           *)
(***************************************************************************)
EXTENDS SessionLog, FiniteSetTheorems, SequenceTheorems, TLAPS

\* What a handler's variables say of the database, at each of its steps.
HandlerOK(r) ==
  /\ sessionID[r] \in {r, None}
  /\ sessionID[r] = r => sessions[r] # None
  /\ toolsHash[r] \in tools \cup {None}
  /\ pc[r] \in {"message", "sequence", "insert"} => pending[r] # << >>
  /\ pc[r] \in {"sequence", "insert"} => Head(pending[r]) \in messages
  /\ pc[r] = "insert" => seq[r] <= Cardinality(Rows(sessionID[r]))
  /\ pc[r] = "summary" => reply[r] # None
  /\ r \in posts => pc[r] = "done" /\ reply[r] # None /\ reply[r].obs # None

\* The rows of the database: numbered without a gap, and resolving.
RowsInv ==
  /\ IsFiniteSet(session_messages)
  /\ ChainContiguous
  /\ HashesResolve

\* The inductive invariant.
LogInv == TypeOK /\ RowsInv /\ \A r \in Requests : HandlerOK(r)

----------------------------------------------------------------------------
(* The rows of a session                                                    *)

LEMMA RowsFinite ==
  ASSUME RowsInv, NEW s
  PROVE  IsFiniteSet(Rows(s)) /\ Cardinality(Rows(s)) \in Nat
<1>1. IsFiniteSet(Rows(s))
  BY FS_Subset DEF RowsInv, Rows
<1> QED
  BY <1>1, FS_CardinalityType

\* SELECT COALESCE(MAX(sequence), 0) counts the rows of the session.
LEMMA LastSequenceCounts ==
  ASSUME RowsInv, NEW s \in Requests \cup {None}
  PROVE  LastSequence(s) = Cardinality(Rows(s))
<1> DEFINE n == Cardinality(Rows(s))
           S == {0} \cup {row.sequence : row \in Rows(s)}
<1>1. n \in Nat
  BY RowsFinite
<1>2. S = 0..n
  <2>1. {row.sequence : row \in Rows(s)} = 1..n
    BY DEF RowsInv, ChainContiguous
  <2> HIDE DEF n
  <2> QED
    BY <1>1, <2>1
<1>3. LastSequence(s) = Max(S)
  BY DEF LastSequence
<1> HIDE DEF n, S
<1>4. n \in S /\ \A y \in S : n >= y
  BY <1>1, <1>2
<1>5. Max(S) \in S /\ \A y \in S : Max(S) >= y
  BY <1>4 DEF Max
<1>6. Max(S) = n
  BY <1>1, <1>2, <1>4, <1>5
<1> QED
  BY <1>3, <1>6 DEF n

\* Nothing is inserted: the rows of each session stay as they are.
LEMMA SameRows ==
  ASSUME ChainContiguous, UNCHANGED session_messages
  PROVE  ChainContiguous' /\ \A s : Rows(s)' = Rows(s)
BY DEF ChainContiguous, Rows

\* A row whose number is at most one more than the number of rows is inserted
\* behind the others, or not at all.
LEMMA InsertKeepsChains ==
  ASSUME RowsInv, NEW row, InsertRow(row),
         row.session_id \in Requests \cup {None},
         row.sequence \in 1..(Cardinality(Rows(row.session_id)) + 1)
  PROVE  /\ IsFiniteSet(session_messages') /\ ChainContiguous'
         /\ \A s : Cardinality(Rows(s)) <= Cardinality(Rows(s)')
         /\ session_messages' \subseteq session_messages \cup {row}
<1> DEFINE n == Cardinality(Rows(row.session_id))
           R == Rows(row.session_id)
<1>1. IsFiniteSet(session_messages) /\ ChainContiguous /\ n \in Nat /\ IsFiniteSet(R)
  BY RowsFinite DEF RowsInv
<1>2. CASE UNCHANGED session_messages
  <2>1. \A s : Rows(s)' = Rows(s)
    BY <1>2 DEF Rows
  <2>2. \A s : Cardinality(Rows(s)) \in Nat
    BY RowsFinite
  <2>3. \A s : Cardinality(Rows(s)) <= Cardinality(Rows(s)')
    BY <2>1, <2>2
  <2> QED
    BY <1>1, <1>2, <2>3, SameRows
<1>3. CASE Unique(row) /\ session_messages' = session_messages \cup {row}
  <2>1. IsFiniteSet(session_messages')
    BY <1>1, <1>3, FS_AddElement
  <2>2. row \notin R /\ row.sequence \notin 1..n
    <3>1. {q.sequence : q \in R} = 1..n
      BY <1>1 DEF ChainContiguous
    <3>2. \A q \in R : q.sequence # row.sequence
      BY <1>3 DEF Unique
    <3> QED
      BY <3>1, <3>2
  <2>3. row.sequence = n + 1
    BY <1>1, <2>2
  <2>4. /\ Rows(row.session_id)' = R \cup {row}
        /\ \A s : s # row.session_id => Rows(s)' = Rows(s)
    BY <1>3 DEF Rows
  <2>5. Cardinality(R \cup {row}) = n + 1
    BY <1>1, <2>2, FS_AddElement
  <2>6. {q.sequence : q \in R \cup {row}} = 1..(n + 1)
    <3>1. {q.sequence : q \in R} = 1..n
      BY <1>1 DEF ChainContiguous
    <3>2. {q.sequence : q \in R \cup {row}} = {q.sequence : q \in R} \cup {n + 1}
      BY <2>3
    <3> HIDE DEF n, R
    <3> QED
      BY <1>1, <3>1, <3>2
  <2>7. ChainContiguous'
    <3> SUFFICES ASSUME NEW s \in Requests \cup {None}
                 PROVE  {q.sequence : q \in Rows(s)'} = 1..Cardinality(Rows(s)')
      BY DEF ChainContiguous
    <3>1. CASE s = row.session_id
      BY <3>1, <2>4, <2>5, <2>6
    <3>2. CASE s # row.session_id
      BY <3>2, <1>1, <2>4 DEF ChainContiguous
    <3> QED
      BY <3>1, <3>2
  <2>8. ASSUME NEW s
        PROVE  Cardinality(Rows(s)) <= Cardinality(Rows(s)')
    <3>1. Cardinality(Rows(s)) \in Nat
      BY RowsFinite
    <3>2. CASE s = row.session_id
      BY <3>2, <1>1, <2>4, <2>5
    <3>3. CASE s # row.session_id
      BY <3>1, <3>3, <2>4
    <3> QED
      BY <3>2, <3>3
  <2> QED
    BY <1>3, <2>1, <2>7, <2>8
<1> QED
  BY <1>2, <1>3 DEF InsertRow

----------------------------------------------------------------------------
(* One handler's step and the others                                        *)

\* No step takes a row away.
DatabaseGrows ==
  /\ tools \subseteq tools' /\ messages \subseteq messages'
  /\ \A q \in Requests : sessions[q] # None => sessions'[q] # None
  /\ \A s : /\ Cardinality(Rows(s)) \in Nat /\ Cardinality(Rows(s)') \in Nat
            /\ Cardinality(Rows(s)) <= Cardinality(Rows(s)')

\* What holds of a handler holds as long as it does not move itself.
LEMMA OtherHandler ==
  ASSUME TypeOK, DatabaseGrows, NEW q \in Requests, HandlerOK(q),
         sessionID'[q] = sessionID[q], toolsHash'[q] = toolsHash[q],
         pc'[q] = pc[q], pending'[q] = pending[q], seq'[q] = seq[q],
         reply'[q] = reply[q], q \in posts' => q \in posts
  PROVE  HandlerOK(q)'
<1>1. /\ sessionID'[q] \in {q, None}
      /\ sessionID'[q] = q => sessions'[q] # None
      /\ toolsHash'[q] \in tools' \cup {None}
  BY DEF HandlerOK, DatabaseGrows
<1>2. /\ pc'[q] \in {"message", "sequence", "insert"} => pending'[q] # << >>
      /\ pc'[q] \in {"sequence", "insert"} => Head(pending'[q]) \in messages'
      /\ pc'[q] = "summary" => reply'[q] # None
      /\ q \in posts' => pc'[q] = "done" /\ reply'[q] # None /\ reply'[q].obs # None
  BY DEF HandlerOK, DatabaseGrows
<1>3. ASSUME pc'[q] = "insert"
      PROVE  seq'[q] <= Cardinality(Rows(sessionID[q]))'
  <2>1. PICK s : s = sessionID[q]
    OBVIOUS
  <2> DEFINE m == Cardinality(Rows(s))
             n == Cardinality(Rows(s)')
  <2>2. m \in Nat /\ n \in Nat /\ m <= n
    BY DEF DatabaseGrows
  <2>3. seq[q] \in Nat /\ seq[q] <= m
    BY <1>3, <2>1 DEF HandlerOK, TypeOK
  <2> HIDE DEF m, n
  <2>4. seq'[q] <= n
    BY <2>2, <2>3
  <2>5. Rows(sessionID[q])' = Rows(s)'
    BY <2>1 DEF Rows
  <2> QED
    BY <2>4, <2>5 DEF n
<1> QED
  BY <1>1, <1>2, <1>3 DEF HandlerOK

\* A step that leaves session_messages alone.
LEMMA GrowsWithoutInsert ==
  ASSUME RowsInv, UNCHANGED session_messages,
         tools \subseteq tools', messages \subseteq messages',
         \A q \in Requests : sessions[q] # None => sessions'[q] # None
  PROVE  /\ DatabaseGrows
         /\ IsFiniteSet(session_messages') /\ ChainContiguous'
         /\ \A s : Rows(s)' = Rows(s)
<1>1. ChainContiguous' /\ \A s : Rows(s)' = Rows(s)
  BY SameRows DEF RowsInv
<1>2. \A s : Cardinality(Rows(s)) \in Nat
  BY RowsFinite
<1>3. \A s : Cardinality(Rows(s)') \in Nat
              /\ Cardinality(Rows(s)) <= Cardinality(Rows(s)')
  BY <1>1, <1>2
<1> QED
  BY <1>1, <1>2, <1>3 DEF DatabaseGrows, RowsInv

\* The message a handler stores next, and what is left after it.
LEMMA NextMessage ==
  ASSUME TypeOK, NEW r \in Requests, pending[r] # << >>
  PROVE  Head(pending[r]) \in Messages /\ Tail(pending[r]) \in Seq(Messages)
BY HeadTailProperties DEF TypeOK

\* Fails and Works keep their types.
LEMMA FaultsType ==
  ASSUME TypeOK, NEW r \in Requests, Works \/ Fails(r)
  PROVE  faults' \in 0..MaxFaults /\ failed' \subseteq Requests
BY BoundsAssumption DEF TypeOK, Works, Fails

\* Continue leaves the handler where it has something to do.
LEMMA ContinueType ==
  ASSUME TypeOK, NEW r \in Requests, NEW todo \in Seq(Messages), Continue(r, todo)
  PROVE  /\ pc' \in [Requests -> Steps] /\ pending' \in [Requests -> Seq(Messages)]
         /\ pending'[r] = todo
         /\ pc'[r] \in {"message", "forward", "summary"}
         /\ pc'[r] = "message" => todo # << >>
         /\ pc'[r] = "summary" => reply[r] # None
         /\ \A q \in Requests \ {r} : pc'[q] = pc[q] /\ pending'[q] = pending[q]
BY DEF TypeOK, Continue, Goto, Steps

----------------------------------------------------------------------------
(* Init, and each action                                                    *)

LEMMA LogInit == Init => LogInv
<1> SUFFICES ASSUME Init
             PROVE  LogInv
  OBVIOUS
<1>1. TypeOK
  BY BoundsAssumption, EmptySeq DEF Init, TypeOK, Steps
<1>2. \A s : Rows(s) = {}
  BY DEF Init, Rows
<1>3. Cardinality({}) = 0 /\ IsFiniteSet({})
  BY FS_EmptySet
<1>4. ChainContiguous
  BY <1>2, <1>3 DEF ChainContiguous
<1>5. RowsInv
  BY <1>3, <1>4 DEF Init, RowsInv, HashesResolve
<1>6. \A r \in Requests : HandlerOK(r)
  BY NoneAssumption DEF Init, HandlerOK
<1> QED
  BY <1>1, <1>5, <1>6 DEF LogInv

LEMMA ArriveStep ==
  ASSUME LogInv, NEW r \in Requests, Arrive(r)
  PROVE  LogInv'
<1>1. TypeOK'
  BY DEF LogInv, Arrive, Goto, At, TypeOK, Steps, database, handlers
<1>2. DatabaseGrows /\ RowsInv'
  BY GrowsWithoutInsert DEF LogInv, Arrive, database, RowsInv, HashesResolve
<1>3. ASSUME NEW q \in Requests
      PROVE  HandlerOK(q)'
  <2>1. CASE q = r
    BY <2>1, <1>2 DEF LogInv, Arrive, Goto, At, TypeOK, HandlerOK, handlers, database
  <2>2. CASE q # r
    BY <2>2, <1>2, OtherHandler DEF LogInv, Arrive, Goto, TypeOK, handlers
  <2> QED
    BY <2>1, <2>2
<1> QED
  BY <1>1, <1>2, <1>3 DEF LogInv

LEMMA StoreToolsStep ==
  ASSUME LogInv, NEW r \in Requests, StoreTools(r)
  PROVE  LogInv'
<1>1. TypeOK'
  <2>1. faults' \in 0..MaxFaults /\ failed' \subseteq Requests
    BY FaultsType DEF LogInv, StoreTools
  <2>2. tools' \subseteq ToolSets
    BY RequestsAssumption DEF LogInv, StoreTools, TypeOK
  <2>3. toolsHash' \in [Requests -> ToolSets \cup {None}]
    BY RequestsAssumption DEF LogInv, StoreTools, TypeOK
  <2> QED
    BY <2>1, <2>2, <2>3 DEF LogInv, StoreTools, Goto, TypeOK, Steps
<1>2. tools \subseteq tools'
  BY DEF StoreTools
<1>3. DatabaseGrows /\ RowsInv'
  BY <1>2, GrowsWithoutInsert DEF LogInv, StoreTools, RowsInv, HashesResolve
<1>4. ASSUME NEW q \in Requests
      PROVE  HandlerOK(q)'
  <2>1. CASE q = r
    <3>1. toolsHash'[r] \in tools' \cup {None}
      BY <1>2 DEF LogInv, StoreTools, TypeOK, HandlerOK
    <3>2. pc'[r] = "session" /\ pc[r] = "tools"
      BY DEF LogInv, StoreTools, Goto, At, TypeOK
    <3> QED
      BY <2>1, <3>1, <3>2 DEF LogInv, StoreTools, HandlerOK
  <2>2. CASE q # r
    BY <2>2, <1>3, OtherHandler DEF LogInv, StoreTools, Goto, TypeOK
  <2> QED
    BY <2>1, <2>2
<1> QED
  BY <1>1, <1>3, <1>4 DEF LogInv

LEMMA StartSessionStep ==
  ASSUME LogInv, NEW r \in Requests, StartSession(r)
  PROVE  LogInv'
<1>1. faults' \in 0..MaxFaults /\ failed' \subseteq Requests
  BY FaultsType DEF LogInv, StartSession
<1> DEFINE row == [tools_hash |-> toolsHash[r], summary |-> None]
<1>2. TypeOK /\ pc[r] = "session" /\ row \in SessionRow /\ row # None
  BY NoneAssumption DEF LogInv, StartSession, At, TypeOK, SessionRow
<1>3. CASE /\ sessions' = [sessions EXCEPT ![r] = row]
           /\ sessionID' = [sessionID EXCEPT ![r] = r]
           /\ Goto(r, "raw") /\ UNCHANGED pending
  <2>1. /\ sessions' \in [Requests -> SessionRow \cup {None}]
        /\ sessionID' \in [Requests -> Requests \cup {None}]
        /\ pc' \in [Requests -> Steps]
        /\ sessions'[r] = row /\ sessionID'[r] = r /\ pc'[r] = "raw"
        /\ \A q \in Requests \ {r} : /\ sessions'[q] = sessions[q]
                                    /\ sessionID'[q] = sessionID[q]
                                    /\ pc'[q] = pc[q]
    BY <1>2, <1>3 DEF Goto, TypeOK, Steps
  <2>2. TypeOK'
    BY <1>1, <1>3, <2>1 DEF LogInv, StartSession, TypeOK
  <2>3. row.tools_hash \in tools \cup {None}
    BY DEF LogInv, HandlerOK
  <2> HIDE DEF row
  <2>4. \A q \in Requests : sessions[q] # None => sessions'[q] # None
    BY <1>2, <2>1
  <2>5. DatabaseGrows /\ IsFiniteSet(session_messages') /\ ChainContiguous'
    BY <2>4, GrowsWithoutInsert DEF LogInv, StartSession
  <2>6. HashesResolve'
    BY <2>1, <2>3 DEF LogInv, StartSession, RowsInv, HashesResolve
  <2>7. ASSUME NEW q \in Requests
        PROVE  HandlerOK(q)'
    <3>1. CASE q = r
      BY <3>1, <1>2, <2>1 DEF LogInv, StartSession, HandlerOK
    <3>2. CASE q # r
      BY <3>2, <1>2, <1>3, <2>1, <2>5, OtherHandler DEF LogInv, StartSession
    <3> QED
      BY <3>1, <3>2
  <2> QED
    BY <2>2, <2>5, <2>6, <2>7 DEF LogInv, RowsInv
<1>4. CASE Continue(r, Conversation[r]) /\ UNCHANGED << sessions, sessionID >>
  <2>1. Conversation[r] \in Seq(Messages)
    BY RequestsAssumption
  <2>2. TypeOK'
    BY <1>1, <1>4, <2>1, ContinueType DEF LogInv, StartSession, TypeOK
  <2>3. DatabaseGrows /\ RowsInv'
    BY <1>4, GrowsWithoutInsert DEF LogInv, StartSession, RowsInv, HashesResolve
  <2>4. ASSUME NEW q \in Requests
        PROVE  HandlerOK(q)'
    <3>1. CASE q = r
      <4>1. /\ pc'[r] \in {"message", "forward", "summary"}
            /\ pc'[r] = "message" => pending'[r] # << >>
            /\ pc'[r] = "summary" => reply[r] # None
        BY <1>2, <1>4, <2>1, ContinueType
      <4> QED
        BY <3>1, <4>1, <1>2, <1>4 DEF LogInv, StartSession, HandlerOK
    <3>2. CASE q # r
      <4>1. pc'[q] = pc[q] /\ pending'[q] = pending[q]
        BY <3>2, <1>2, <1>4, <2>1, ContinueType
      <4> QED
        BY <3>2, <4>1, <1>4, <2>3, OtherHandler DEF LogInv, StartSession
    <3> QED
      BY <3>1, <3>2
  <2> QED
    BY <2>2, <2>3, <2>4 DEF LogInv
<1> QED
  BY <1>3, <1>4 DEF StartSession

LEMMA StoreRawRequestStep ==
  ASSUME LogInv, NEW r \in Requests, StoreRawRequest(r)
  PROVE  LogInv'
<1>1. /\ faults' \in 0..MaxFaults /\ failed' \subseteq Requests
      /\ TypeOK /\ pc[r] = "raw" /\ Continue(r, Conversation[r])
      /\ Conversation[r] \in Seq(Messages)
  BY FaultsType, RequestsAssumption DEF LogInv, StoreRawRequest, At
<1>2. raw_requests' \subseteq Requests
  BY DEF LogInv, StoreRawRequest, TypeOK
<1>3. TypeOK'
  BY <1>1, <1>2, ContinueType DEF StoreRawRequest, TypeOK
<1>4. DatabaseGrows /\ RowsInv'
  BY GrowsWithoutInsert DEF LogInv, StoreRawRequest, RowsInv, HashesResolve
<1>5. ASSUME NEW q \in Requests
      PROVE  HandlerOK(q)'
  <2>1. CASE q = r
    <3>1. /\ pc'[r] \in {"message", "forward", "summary"}
          /\ pc'[r] = "message" => pending'[r] # << >>
          /\ pc'[r] = "summary" => reply[r] # None
      BY <1>1, ContinueType
    <3> QED
      BY <2>1, <3>1, <1>1 DEF LogInv, StoreRawRequest, HandlerOK
  <2>2. CASE q # r
    <3>1. pc'[q] = pc[q] /\ pending'[q] = pending[q]
      BY <2>2, <1>1, ContinueType
    <3> QED
      BY <2>2, <3>1, <1>4, OtherHandler DEF LogInv, StoreRawRequest
  <2> QED
    BY <2>1, <2>2
<1> QED
  BY <1>3, <1>4, <1>5 DEF LogInv

LEMMA StoreMessageStep ==
  ASSUME LogInv, NEW r \in Requests, StoreMessage(r)
  PROVE  LogInv'
<1>1. /\ faults' \in 0..MaxFaults /\ failed' \subseteq Requests
      /\ TypeOK /\ pc[r] = "message" /\ pending[r] # << >>
  BY FaultsType DEF LogInv, StoreMessage, At, HandlerOK
<1>2. Head(pending[r]) \in Messages /\ Tail(pending[r]) \in Seq(Messages)
  BY <1>1, NextMessage
<1>3. messages \subseteq messages' /\ messages' \subseteq Messages
  BY <1>1, <1>2 DEF StoreMessage, TypeOK
<1>4. DatabaseGrows /\ RowsInv'
  BY <1>3, GrowsWithoutInsert DEF LogInv, StoreMessage, RowsInv, HashesResolve
<1>5. CASE /\ messages' = messages \cup {Head(pending[r])}
           /\ Goto(r, "sequence") /\ UNCHANGED pending
  <2>1. /\ pc' \in [Requests -> Steps] /\ pc'[r] = "sequence"
        /\ \A q \in Requests \ {r} : pc'[q] = pc[q]
    BY <1>1, <1>5 DEF Goto, TypeOK, Steps
  <2>2. TypeOK'
    BY <1>1, <1>3, <1>5, <2>1 DEF StoreMessage, TypeOK
  <2>3. ASSUME NEW q \in Requests
        PROVE  HandlerOK(q)'
    <3>1. CASE q = r
      BY <3>1, <1>1, <1>5, <2>1 DEF LogInv, StoreMessage, HandlerOK
    <3>2. CASE q # r
      BY <3>2, <1>4, <1>5, <2>1, OtherHandler DEF LogInv, StoreMessage
    <3> QED
      BY <3>1, <3>2
  <2> QED
    BY <1>4, <2>2, <2>3 DEF LogInv
<1>6. CASE Continue(r, Tail(pending[r]))
  <2>1. TypeOK'
    BY <1>1, <1>2, <1>3, <1>6, ContinueType DEF StoreMessage, TypeOK
  <2>2. ASSUME NEW q \in Requests
        PROVE  HandlerOK(q)'
    <3>1. CASE q = r
      <4>1. /\ pc'[r] \in {"message", "forward", "summary"}
            /\ pc'[r] = "message" => pending'[r] # << >>
            /\ pc'[r] = "summary" => reply[r] # None
        BY <1>1, <1>2, <1>6, ContinueType
      <4> QED
        BY <3>1, <4>1, <1>1 DEF LogInv, StoreMessage, HandlerOK
    <3>2. CASE q # r
      <4>1. pc'[q] = pc[q] /\ pending'[q] = pending[q]
        BY <3>2, <1>1, <1>2, <1>6, ContinueType
      <4> QED
        BY <3>2, <4>1, <1>4, OtherHandler DEF LogInv, StoreMessage
    <3> QED
      BY <3>1, <3>2
  <2> QED
    BY <1>4, <2>1, <2>2 DEF LogInv
<1> QED
  BY <1>5, <1>6 DEF StoreMessage

LEMMA ReadSequenceStep ==
  ASSUME LogInv, NEW r \in Requests, ReadSequence(r)
  PROVE  LogInv'
<1>1. /\ faults' \in 0..MaxFaults /\ failed' \subseteq Requests
      /\ TypeOK /\ RowsInv /\ pc[r] = "sequence"
      /\ sessionID[r] \in Requests \cup {None}
  BY FaultsType DEF LogInv, ReadSequence, At, TypeOK
<1>2. LastSequence(sessionID[r]) = Cardinality(Rows(sessionID[r]))
      /\ Cardinality(Rows(sessionID[r])) \in Nat
  BY <1>1, LastSequenceCounts, RowsFinite
<1>3. /\ seq' \in [Requests -> Nat]
      /\ seq'[r] <= Cardinality(Rows(sessionID[r]))
      /\ \A q \in Requests \ {r} : seq'[q] = seq[q]
  <2>1. PICK n \in {0, LastSequence(sessionID[r])} : seq' = [seq EXCEPT ![r] = n]
    BY DEF ReadSequence
  <2>2. n \in Nat /\ n <= Cardinality(Rows(sessionID[r]))
    BY <1>2, <2>1
  <2>3. seq \in [Requests -> Nat]
    BY <1>1 DEF TypeOK
  <2> QED
    BY <2>1, <2>2, <2>3
<1>4. /\ pc' \in [Requests -> Steps] /\ pc'[r] = "insert"
      /\ \A q \in Requests \ {r} : pc'[q] = pc[q]
  BY <1>1 DEF ReadSequence, Goto, TypeOK, Steps
<1>5. TypeOK'
  BY <1>1, <1>3, <1>4 DEF ReadSequence, TypeOK, database
<1>6. DatabaseGrows /\ RowsInv' /\ \A s : Rows(s)' = Rows(s)
  BY GrowsWithoutInsert DEF LogInv, ReadSequence, RowsInv, HashesResolve, database
<1>7. ASSUME NEW q \in Requests
      PROVE  HandlerOK(q)'
  <2>1. CASE q = r
    <3>1. Rows(sessionID[r])' = Rows(sessionID[r])
      BY DEF ReadSequence, database, Rows
    <3> QED
      BY <2>1, <3>1, <1>1, <1>3, <1>4 DEF LogInv, ReadSequence, HandlerOK, database
  <2>2. CASE q # r
    BY <2>2, <1>3, <1>4, <1>6, OtherHandler DEF LogInv, ReadSequence
  <2> QED
    BY <2>1, <2>2
<1> QED
  BY <1>5, <1>6, <1>7 DEF LogInv

LEMMA AddMessageStep ==
  ASSUME LogInv, NEW r \in Requests, AddMessageToSession(r)
  PROVE  LogInv'
<1>1. /\ faults' \in 0..MaxFaults /\ failed' \subseteq Requests
      /\ TypeOK /\ RowsInv /\ pc[r] = "insert" /\ pending[r] # << >>
      /\ sessionID[r] \in Requests \cup {None}
      /\ Continue(r, Tail(pending[r]))
  BY FaultsType DEF LogInv, AddMessageToSession, At, HandlerOK, TypeOK
<1>2. Head(pending[r]) \in Messages /\ Tail(pending[r]) \in Seq(Messages)
  BY <1>1, NextMessage
<1>3. PICK row : row = NewRow(r)
  OBVIOUS
<1>4. /\ row \in ChainRow /\ row.message \in messages
      /\ row.session_id \in Requests \cup {None}
      /\ row.sequence \in 1..(Cardinality(Rows(row.session_id)) + 1)
  <2>1. Cardinality(Rows(sessionID[r])) \in Nat
    BY <1>1, RowsFinite
  <2>2. /\ seq[r] \in Nat /\ seq[r] <= Cardinality(Rows(sessionID[r]))
        /\ Head(pending[r]) \in messages
    BY <1>1 DEF LogInv, HandlerOK, TypeOK
  <2>3. /\ row.session_id = sessionID[r] /\ row.sequence = seq[r] + 1
        /\ row.message = Head(pending[r])
        /\ row = [session_id |-> sessionID[r], message |-> Head(pending[r]),
                  sequence |-> seq[r] + 1]
    BY <1>3 DEF NewRow
  <2>4. row.sequence \in 1..(Cardinality(Rows(row.session_id)) + 1)
    BY <2>1, <2>2, <2>3
  <2> QED
    BY <1>1, <1>2, <2>2, <2>3, <2>4 DEF ChainRow
<1>5. /\ IsFiniteSet(session_messages') /\ ChainContiguous'
      /\ \A s : Cardinality(Rows(s)) <= Cardinality(Rows(s)')
      /\ session_messages' \subseteq session_messages \cup {row}
  <2>1. CASE InsertRow(row)
    BY <2>1, <1>1, <1>4, InsertKeepsChains
  <2>2. CASE UNCHANGED session_messages
    <3>1. \A s : Cardinality(Rows(s)) \in Nat
      BY <1>1, RowsFinite
    <3>2. ChainContiguous' /\ \A s : Rows(s)' = Rows(s)
      BY <2>2, <1>1, SameRows DEF RowsInv
    <3>3. \A s : Cardinality(Rows(s)) <= Cardinality(Rows(s)')
      BY <3>1, <3>2
    <3> QED
      BY <2>2, <1>1, <3>2, <3>3 DEF RowsInv
  <2> QED
    BY <2>1, <2>2, <1>3 DEF AddMessageToSession
<1>6. session_messages' \subseteq ChainRow
  BY <1>1, <1>4, <1>5 DEF TypeOK
<1>7. TypeOK'
  BY <1>1, <1>2, <1>6, ContinueType DEF AddMessageToSession, TypeOK
<1>8. RowsInv'
  BY <1>1, <1>4, <1>5 DEF AddMessageToSession, RowsInv, HashesResolve
<1>9. DatabaseGrows
  <2>1. \A s : Cardinality(Rows(s)) \in Nat
    BY <1>1, RowsFinite
  <2>2. ASSUME NEW s
        PROVE  Cardinality(Rows(s)') \in Nat
    <3>1. Rows(s)' \subseteq session_messages'
      BY DEF Rows
    <3> QED
      BY <3>1, <1>5, FS_Subset, FS_CardinalityType
  <2> QED
    BY <2>1, <2>2, <1>5 DEF AddMessageToSession, DatabaseGrows
<1>10. ASSUME NEW q \in Requests
       PROVE  HandlerOK(q)'
  <2>1. CASE q = r
    <3>1. /\ pc'[r] \in {"message", "forward", "summary"}
          /\ pc'[r] = "message" => pending'[r] # << >>
          /\ pc'[r] = "summary" => reply[r] # None
      BY <1>1, <1>2, ContinueType
    <3> QED
      BY <2>1, <3>1, <1>1 DEF LogInv, AddMessageToSession, HandlerOK
  <2>2. CASE q # r
    <3>1. pc'[q] = pc[q] /\ pending'[q] = pending[q]
      BY <2>2, <1>1, <1>2, ContinueType
    <3> QED
      BY <2>2, <3>1, <1>9, OtherHandler DEF LogInv, AddMessageToSession
  <2> QED
    BY <2>1, <2>2
<1> QED
  BY <1>7, <1>8, <1>10 DEF LogInv

LEMMA ForwardStep ==
  ASSUME LogInv, NEW r \in Requests, Forward(r)
  PROVE  LogInv'
<1>1. PICK rep \in Replies :
        /\ reply' = [reply EXCEPT ![r] = rep]
        /\ IF sessionID[r] = None
           THEN Goto(r, "summary") /\ UNCHANGED pending
           ELSE Goto(r, "message") /\ pending' = [pending EXCEPT ![r] = << rep.message >>]
  BY DEF Forward
<1>2. TypeOK /\ pc[r] = "forward" /\ rep # None /\ rep.message \in Messages
  BY NoneAssumption, RequestsAssumption DEF LogInv, Forward, At, Reply
<1>3. << rep.message >> \in Seq(Messages) /\ << rep.message >> # << >>
  BY <1>2
<1>4. /\ reply' \in [Requests -> Replies \cup {None}] /\ reply'[r] = rep
      /\ \A q \in Requests \ {r} : reply'[q] = reply[q]
  BY <1>1, <1>2 DEF TypeOK
<1>5. /\ pc' \in [Requests -> Steps] /\ pc'[r] \in {"summary", "message"}
      /\ \A q \in Requests \ {r} : pc'[q] = pc[q]
  BY <1>1, <1>2 DEF TypeOK, Goto, Steps
<1>6. /\ pending' \in [Requests -> Seq(Messages)]
      /\ pc'[r] = "message" => pending'[r] # << >>
      /\ \A q \in Requests \ {r} : pending'[q] = pending[q]
  <2>1. CASE sessionID[r] = None
    BY <1>1, <1>2, <2>1 DEF TypeOK, Goto
  <2>2. CASE sessionID[r] # None
    BY <1>1, <1>2, <1>3, <2>2 DEF TypeOK
  <2> QED
    BY <2>1, <2>2
<1>7. TypeOK'
  BY <1>2, <1>4, <1>5, <1>6 DEF Forward, TypeOK, database
<1>8. DatabaseGrows /\ RowsInv'
  BY GrowsWithoutInsert DEF LogInv, Forward, RowsInv, HashesResolve, database
<1>9. ASSUME NEW q \in Requests
      PROVE  HandlerOK(q)'
  <2>1. CASE q = r
    BY <2>1, <1>2, <1>4, <1>5, <1>6 DEF LogInv, Forward, HandlerOK, database
  <2>2. CASE q # r
    BY <2>2, <1>4, <1>5, <1>6, <1>8, OtherHandler DEF LogInv, Forward
  <2> QED
    BY <2>1, <2>2
<1> QED
  BY <1>7, <1>8, <1>9 DEF LogInv

LEMMA SetSessionSummaryStep ==
  ASSUME LogInv, NEW r \in Requests, SetSessionSummary(r)
  PROVE  LogInv'
<1>1. /\ faults' \in 0..MaxFaults /\ failed' \subseteq Requests
      /\ TypeOK /\ pc[r] = "summary" /\ reply[r] # None
      /\ r \in posts' => r \in posts \/ (reply[r].obs # None /\ sessionID[r] # None)
      /\ posts' \subseteq posts \cup {r}
  BY FaultsType DEF LogInv, SetSessionSummary, At, HandlerOK, WantsSummary
<1>2. reply[r] \in Reply
  BY <1>1, RequestsAssumption DEF TypeOK
<1>3. /\ pc' \in [Requests -> Steps] /\ pc'[r] = "done"
      /\ \A q \in Requests \ {r} : pc'[q] = pc[q]
  BY <1>1 DEF SetSessionSummary, Goto, TypeOK, Steps
<1>4. /\ sessions' \in [Requests -> SessionRow \cup {None}]
      /\ \A q \in Requests \ {r} : sessions'[q] = sessions[q]
      /\ sessions[r] # None =>
           sessions'[r] # None /\ sessions'[r].tools_hash = sessions[r].tools_hash
      /\ sessions[r] = None => sessions'[r] = None
  <2>1. CASE UNCHANGED sessions
    BY <2>1, <1>1 DEF TypeOK
  <2>2. CASE WantsSummary(r) /\ sessions' = [sessions EXCEPT ![r].summary = reply[r].obs]
    <3>1. sessions[r] \in SessionRow
      BY <1>1, <2>2 DEF LogInv, TypeOK, HandlerOK, WantsSummary
    <3> DEFINE row == [sessions[r] EXCEPT !.summary = reply[r].obs]
    <3>2. /\ row \in SessionRow /\ row # None
          /\ row.tools_hash = sessions[r].tools_hash
      BY <3>1, <1>2, NoneAssumption DEF SessionRow, Reply
    <3>3. sessions' = [sessions EXCEPT ![r] = row]
      BY <2>2
    <3>4. sessions[r] # None /\ sessions \in [Requests -> SessionRow \cup {None}]
      BY <1>1, <3>1, NoneAssumption DEF TypeOK
    <3> HIDE DEF row
    <3> QED
      BY <3>2, <3>3, <3>4
  <2> QED
    BY <2>1, <2>2 DEF SetSessionSummary
<1>5. TypeOK'
  BY <1>1, <1>3, <1>4 DEF SetSessionSummary, TypeOK, handlers
<1>6. \A q \in Requests : sessions[q] # None => sessions'[q] # None
  BY <1>4
<1>7. DatabaseGrows /\ IsFiniteSet(session_messages') /\ ChainContiguous'
  BY <1>6, GrowsWithoutInsert DEF LogInv, SetSessionSummary
<1>8. RowsInv'
  <2>1. \A q \in Requests :
          sessions'[q] # None => sessions'[q].tools_hash \in tools \cup {None}
    BY <1>4 DEF LogInv, RowsInv, HashesResolve
  <2> QED
    BY <1>7, <2>1 DEF LogInv, SetSessionSummary, RowsInv, HashesResolve
<1>9. ASSUME NEW q \in Requests
      PROVE  HandlerOK(q)'
  <2>1. CASE q = r
    <3>1. r \notin posts
      BY <1>1 DEF LogInv, HandlerOK
    <3>2. sessionID'[r] = r => sessions'[r] # None
      BY <1>6 DEF LogInv, SetSessionSummary, HandlerOK, handlers
    <3> QED
      BY <2>1, <3>1, <3>2, <1>1, <1>3 DEF LogInv, SetSessionSummary, HandlerOK, handlers
  <2>2. CASE q # r
    BY <2>2, <1>1, <1>3, <1>7, OtherHandler DEF LogInv, SetSessionSummary, handlers
  <2> QED
    BY <2>1, <2>2
<1> QED
  BY <1>5, <1>8, <1>9 DEF LogInv

LEMMA PostStep ==
  ASSUME LogInv, NEW r \in Requests, MemoryReceives(r) \/ LosePost(r)
  PROVE  LogInv'
<1>1. /\ TypeOK /\ reply[r] # None /\ reply[r].obs # None /\ r \in posts
      /\ posts' \subseteq posts
      /\ UNCHANGED << database, pool, pc, handlers, faults, failed, crashes >>
  BY DEF LogInv, HandlerOK, MemoryReceives, LosePost
<1>2. reply[r].obs \in Observations
  BY <1>1, RequestsAssumption DEF TypeOK, Reply
<1>3. memory' \in Seq([session_id : Requests, summary : Observations])
  <2>1. CASE MemoryReceives(r)
    <3> DEFINE m == [session_id |-> r, summary |-> reply[r].obs]
    <3>1. m \in [session_id : Requests, summary : Observations]
      BY <1>2
    <3>2. memory' = Append(memory, m)
      BY <2>1 DEF MemoryReceives
    <3> HIDE DEF m
    <3> QED
      BY <1>1, <3>1, <3>2, AppendProperties DEF TypeOK
  <2>2. CASE LosePost(r)
    BY <2>2, <1>1 DEF LosePost, TypeOK
  <2> QED
    BY <2>1, <2>2
<1>4. TypeOK'
  BY <1>1, <1>3 DEF TypeOK, database, handlers
<1>5. DatabaseGrows /\ RowsInv'
  BY <1>1, GrowsWithoutInsert DEF LogInv, RowsInv, HashesResolve, database
<1>6. ASSUME NEW q \in Requests
      PROVE  HandlerOK(q)'
  BY <1>1, <1>5, OtherHandler DEF LogInv, handlers
<1> QED
  BY <1>4, <1>5, <1>6 DEF LogInv

LEMMA OpenConnectionStep ==
  ASSUME LogInv, OpenConnection
  PROVE  LogInv'
<1>1. /\ TypeOK
      /\ UNCHANGED << database, pc, handlers, posts, memory, faults, failed, crashes >>
  BY DEF LogInv, OpenConnection
<1>2. TypeOK'
  BY <1>1 DEF TypeOK, OpenConnection, database, handlers
<1>3. DatabaseGrows /\ RowsInv'
  BY <1>1, GrowsWithoutInsert DEF LogInv, RowsInv, HashesResolve, database
<1>4. ASSUME NEW q \in Requests
      PROVE  HandlerOK(q)'
  BY <1>1, <1>3, OtherHandler DEF LogInv, handlers
<1> QED
  BY <1>2, <1>3, <1>4 DEF LogInv

LEMMA CrashStep ==
  ASSUME LogInv, Crash
  PROVE  LogInv'
<1>1. /\ TypeOK
      /\ UNCHANGED << database, handlers, posts, memory, faults, failed >>
      /\ crashes' \in 0..MaxCrashes
  BY BoundsAssumption DEF LogInv, Crash, TypeOK
<1>2. /\ pc' \in [Requests -> Steps]
      /\ \A q \in Requests : pc'[q] = pc[q] \/ (pc'[q] = "lost" /\ pc[q] # "done")
  BY <1>1 DEF Crash, TypeOK, Steps
<1>3. TypeOK'
  BY <1>1, <1>2 DEF Crash, TypeOK, database, handlers
<1>4. DatabaseGrows /\ RowsInv'
  BY <1>1, GrowsWithoutInsert DEF LogInv, RowsInv, HashesResolve, database
<1>5. ASSUME NEW q \in Requests
      PROVE  HandlerOK(q)'
  <2>1. CASE pc'[q] = pc[q]
    BY <2>1, <1>1, <1>4, OtherHandler DEF LogInv, handlers
  <2>2. CASE pc'[q] = "lost" /\ pc[q] # "done"
    BY <2>2, <1>1 DEF LogInv, HandlerOK, database, handlers
  <2> QED
    BY <1>2, <2>1, <2>2
<1> QED
  BY <1>3, <1>4, <1>5 DEF LogInv

LEMMA LogNext == LogInv /\ [Next]_vars => LogInv'
<1> SUFFICES ASSUME LogInv, [Next]_vars
             PROVE  LogInv'
  OBVIOUS
<1>1. CASE UNCHANGED vars
  <2>1. TypeOK'
    BY <1>1 DEF LogInv, TypeOK, vars, database, handlers
  <2>2. DatabaseGrows /\ RowsInv'
    BY <1>1, GrowsWithoutInsert DEF LogInv, RowsInv, HashesResolve, vars, database
  <2>3. ASSUME NEW q \in Requests
        PROVE  HandlerOK(q)'
    BY <1>1, <2>2, OtherHandler DEF LogInv, vars, handlers
  <2> QED
    BY <2>1, <2>2, <2>3 DEF LogInv
<1>2. ASSUME NEW r \in Requests, Handle(r)
      PROVE  LogInv'
  BY <1>2, StoreToolsStep, StartSessionStep, StoreRawRequestStep, StoreMessageStep,
     ReadSequenceStep, AddMessageStep, ForwardStep, SetSessionSummaryStep DEF Handle
<1> QED
  BY <1>1, <1>2, ArriveStep, PostStep, OpenConnectionStep, CrashStep DEF Next

----------------------------------------------------------------------------
(* The theorems                                                             *)

\* The inductive invariant holds throughout.
LEMMA LogInvariant == Spec => []LogInv
BY LogInit, LogNext, PTL DEF Spec

\* Every variable keeps to its type; in particular a summary is only ever
\* stored in a session that exists.
THEOREM LogTypeCorrect == Spec => []TypeOK
<1>1. LogInv => TypeOK
  BY DEF LogInv
<1> QED
  BY <1>1, LogInvariant, PTL

\* However the SELECT and the INSERT of concurrent handlers interleave, and
\* whichever of them fail, the rows of a session are numbered without a gap.
THEOREM ChainContiguousAlways == Spec => []ChainContiguous
<1>1. LogInv => ChainContiguous
  BY DEF LogInv, RowsInv
<1> QED
  BY <1>1, LogInvariant, PTL

\* Every hash in the database can be resolved, with or without foreign keys.
THEOREM HashesResolveAlways == Spec => []HashesResolve
<1>1. LogInv => HashesResolve
  BY DEF LogInv, RowsInv
<1> QED
  BY <1>1, LogInvariant, PTL

----------------------------------------------------------------------------
(* The order and the completeness of a session                              *)

\* What the client and the model have said in a request so far, and how much
\* of it its handler has taken up.
Spoken(r) == Conversation[r] \o (IF reply[r] = None THEN << >> ELSE << reply[r].message >>)
Taken(r) == Len(Spoken(r)) - Len(pending[r])

\* The sequence p ends s.
Suffix(p, s) ==
  /\ Len(p) <= Len(s)
  /\ \A i \in 1..Len(p) : p[i] = s[Len(s) - Len(p) + i]

\* The n rows hold some of the first k messages said, in their order.
Ordered(rows, n, said, k) ==
  \E at \in [1..n -> 1..k] :
    /\ \A row \in rows : row.message = said[at[row.sequence]]
    /\ \A i, j \in 1..n : i < j => at[i] < at[j]

Early == {"idle", "tools", "session", "raw"}
Late == {"message", "sequence", "insert", "forward", "summary", "done"}

\* What is still to be stored is the rest of what was said, and what is stored
\* is in the order of what was taken up.
OrderOK(r) ==
  /\ Suffix(pending[r], Spoken(r))
  /\ pc[r] \in Early => pending[r] = << >> /\ reply[r] = None /\ Rows(r) = {}
  /\ pc[r] = "forward" => pending[r] = << >> /\ reply[r] = None
  /\ pc[r] \in {"summary", "done"} => pending[r] = << >>
  /\ Ordered(Rows(r), Cardinality(Rows(r)), Spoken(r), Taken(r))

\* While no statement of its own has failed, a handler has stored all that it
\* has taken up.
WholeOK(r) ==
  r \notin failed =>
    /\ pc[r] \in {"idle", "tools"} => toolsHash[r] = None
    /\ pc[r] \in {"session", "raw"} \cup Late =>
         toolsHash[r] = ToolsOf[r] /\ (ToolsOf[r] # None => ToolsOf[r] \in tools)
    /\ pc[r] \in {"raw"} \cup Late => sessionID[r] = r
    /\ pc[r] \in {"raw"} \cup (Late \ {"done"}) =>
         sessions[r] = [tools_hash |-> ToolsOf[r], summary |-> None]
    /\ pc[r] \in Late =>
         /\ r \in raw_requests
         /\ Cardinality(Rows(r)) = Taken(r)
         /\ \A row \in Rows(r) : row.message = Spoken(r)[row.sequence]
    /\ pc[r] = "insert" => seq[r] = Cardinality(Rows(r))
    /\ pc[r] = "done" =>
         /\ reply[r] # None
         /\ sessions[r] = [tools_hash |-> ToolsOf[r], summary |-> reply[r].obs]

\* What the memory server has received is what a handler that is done has
\* posted, once.
MemoryOK ==
  /\ \A r \in posts : sessions[r] # None
  /\ \A i \in DOMAIN memory :
       LET r == memory[i].session_id
       IN  /\ pc[r] = "done" /\ r \notin posts /\ sessions[r] # None
           /\ memory[i].summary = reply[r].obs
  /\ \A i, j \in DOMAIN memory :
       memory[i].session_id = memory[j].session_id => i = j

History == MemoryOK /\ \A r \in Requests : OrderOK(r) /\ WholeOK(r)
HistoryInv == LogInv /\ History

----------------------------------------------------------------------------
(* Suffixes, and messages in order                                          *)

\* Storing the next message leaves the rest.
LEMMA SuffixTail ==
  ASSUME NEW M, NEW p \in Seq(M), NEW s \in Seq(M), Suffix(p, s), p # << >>
  PROVE  /\ Suffix(Tail(p), s) /\ Tail(p) \in Seq(M) /\ Len(Tail(p)) = Len(p) - 1
         /\ Len(p) \in 1..Len(s)
         /\ Head(p) = s[Len(s) - Len(p) + 1]
<1>1. Len(p) \in Nat /\ Len(s) \in Nat /\ Len(p) # 0
  BY LenProperties, EmptySeq
<1>2. /\ Tail(p) \in Seq(M) /\ Len(Tail(p)) = Len(p) - 1 /\ Head(p) = p[1]
      /\ \A i \in 1..Len(Tail(p)) : Tail(p)[i] = p[i + 1]
  BY HeadTailProperties
<1>3. Len(p) \in 1..Len(s)
  BY <1>1 DEF Suffix
<1>4. ASSUME NEW i \in 1..Len(Tail(p)) PROVE Tail(p)[i] = s[Len(s) - Len(Tail(p)) + i]
  <2>1. i + 1 \in 1..Len(p)
    BY <1>1, <1>2
  <2>2. p[i + 1] = s[Len(s) - Len(p) + (i + 1)]
    BY <2>1 DEF Suffix
  <2>3. Len(s) - Len(p) + (i + 1) = Len(s) - Len(Tail(p)) + i
    BY <1>1, <1>2
  <2> QED
    BY <1>2, <2>2, <2>3
<1>5. Suffix(Tail(p), s)
  BY <1>1, <1>2, <1>3, <1>4 DEF Suffix
<1>6. Head(p) = s[Len(s) - Len(p) + 1]
  BY <1>2, <1>3 DEF Suffix
<1> QED
  BY <1>2, <1>3, <1>5, <1>6

LEMMA EmptyOrdered ==
  ASSUME NEW said
  PROVE  Ordered({}, 0, said, 0)
<1>1. 1..0 = {}
  OBVIOUS
<1> DEFINE at == [i \in 1..0 |-> i]
<1>2. at \in [1..0 -> 1..0]
  OBVIOUS
<1> QED
  BY <1>1, <1>2 DEF Ordered

\* What is in order stays so when more is said and taken up.
LEMMA OrderedWider ==
  ASSUME NEW rows, NEW n \in Nat, NEW said, NEW k \in Nat, Ordered(rows, n, said, k),
         \A row \in rows : row.sequence \in 1..n,
         NEW more, NEW l \in Nat, k <= l, \A i \in 1..k : more[i] = said[i]
  PROVE  Ordered(rows, n, more, l)
<1>1. PICK at \in [1..n -> 1..k] :
        /\ \A row \in rows : row.message = said[at[row.sequence]]
        /\ \A i, j \in 1..n : i < j => at[i] < at[j]
  BY DEF Ordered
<1>2. at \in [1..n -> 1..l]
  <2>1. 1..k \subseteq 1..l
    OBVIOUS
  <2> QED
    BY <2>1
<1>3. ASSUME NEW row \in rows PROVE row.message = more[at[row.sequence]]
  <2>1. at[row.sequence] \in 1..k
    OBVIOUS
  <2> QED
    BY <1>1, <2>1
<1> QED
  BY <1>1, <1>2, <1>3 DEF Ordered

\* The next message said comes behind those that are stored.
LEMMA OrderedInsert ==
  ASSUME NEW rows, NEW n \in Nat, NEW said, NEW k \in Nat, Ordered(rows, n, said, k),
         \A row \in rows : row.sequence \in 1..n,
         NEW new, new.sequence = n + 1, new.message = said[k + 1]
  PROVE  Ordered(rows \cup {new}, n + 1, said, k + 1)
<1>1. PICK at \in [1..n -> 1..k] :
        /\ \A row \in rows : row.message = said[at[row.sequence]]
        /\ \A i, j \in 1..n : i < j => at[i] < at[j]
  BY DEF Ordered
<1> DEFINE to == [i \in 1..(n + 1) |-> IF i \in 1..n THEN at[i] ELSE k + 1]
<1>2. /\ \A i \in 1..n : to[i] = at[i] /\ at[i] \in 1..k
      /\ to[n + 1] = k + 1
  OBVIOUS
<1>3. to \in [1..(n + 1) -> 1..(k + 1)]
  <2>1. 1..k \subseteq 1..(k + 1) /\ k + 1 \in 1..(k + 1)
    OBVIOUS
  <2> QED
    BY <1>2, <2>1
<1> HIDE DEF to
<1>4. ASSUME NEW row \in rows \cup {new} PROVE row.message = said[to[row.sequence]]
  <2>1. CASE row \in rows
    BY <1>1, <1>2, <2>1
  <2>2. CASE row = new
    BY <1>2, <2>2
  <2> QED
    BY <2>1, <2>2
<1>5. ASSUME NEW i \in 1..(n + 1), NEW j \in 1..(n + 1), i < j PROVE to[i] < to[j]
  <2>1. i \in 1..n
    BY <1>5
  <2>2. CASE j \in 1..n
    BY <1>1, <1>2, <1>5, <2>1, <2>2
  <2>3. CASE j = n + 1
    BY <1>2, <2>1, <2>3
  <2> QED
    BY <2>2, <2>3
<1> QED
  BY <1>3, <1>4, <1>5 DEF Ordered

\* The types of what a request has said.
LEMMA SpokenType ==
  ASSUME TypeOK, NEW r \in Requests
  PROVE  /\ Spoken(r) \in Seq(Messages)
         /\ reply[r] = None => Spoken(r) = Conversation[r]
         /\ reply[r] # None => /\ Spoken(r) = Append(Conversation[r], reply[r].message)
                               /\ reply[r].message \in Messages
         /\ pending[r] \in Seq(Messages) /\ Len(pending[r]) \in Nat /\ Len(Spoken(r)) \in Nat
         /\ Conversation[r] \in Seq(Messages)
<1>1. Conversation[r] \in Seq(Messages) /\ pending[r] \in Seq(Messages)
  BY RequestsAssumption DEF TypeOK
<1>2. CASE reply[r] = None
  <2>1. Spoken(r) = Conversation[r] \o << >>
    BY <1>2 DEF Spoken
  <2>2. Spoken(r) = Conversation[r]
    BY <1>1, <2>1, ConcatEmptySeq
  <2> QED
    BY <1>1, <1>2, <2>2, LenProperties
<1>3. CASE reply[r] # None
  <2>1. reply[r].message \in Messages
    BY <1>3, RequestsAssumption DEF TypeOK, Reply
  <2>2. Spoken(r) = Conversation[r] \o << reply[r].message >>
    BY <1>3 DEF Spoken
  <2>3. Spoken(r) = Append(Conversation[r], reply[r].message)
    BY <1>1, <2>1, <2>2, AppendIsConcat
  <2>4. Spoken(r) \in Seq(Messages)
    BY <1>1, <2>1, <2>3, AppendProperties
  <2> QED
    BY <1>1, <1>3, <2>1, <2>3, <2>4, LenProperties
<1> QED
  BY <1>2, <1>3

\* The rows of a session are numbered by their count.
LEMMA RowNumbers ==
  ASSUME LogInv, NEW r \in Requests
  PROVE  /\ Cardinality(Rows(r)) \in Nat
         /\ \A row \in Rows(r) : row.sequence \in 1..Cardinality(Rows(r))
         /\ \A i \in 1..Cardinality(Rows(r)) : \E row \in Rows(r) : row.sequence = i
<1>1. Cardinality(Rows(r)) \in Nat
  BY RowsFinite DEF LogInv
<1>2. {row.sequence : row \in Rows(r)} = 1..Cardinality(Rows(r))
  BY DEF LogInv, RowsInv, ChainContiguous
<1> QED
  BY <1>1, <1>2

----------------------------------------------------------------------------
(* One handler's history and the others'                                    *)

\* A step that is not q's own.
Untouched(q) ==
  /\ pc'[q] = pc[q] /\ pending'[q] = pending[q] /\ reply'[q] = reply[q]
  /\ seq'[q] = seq[q] /\ toolsHash'[q] = toolsHash[q] /\ sessionID'[q] = sessionID[q]
  /\ sessions'[q] = sessions[q] /\ Rows(q)' = Rows(q)

\* What the log has is never taken back.
LogGrows ==
  /\ failed \subseteq failed' /\ tools \subseteq tools'
  /\ raw_requests \subseteq raw_requests'

LEMMA MemoryType ==
  ASSUME TypeOK
  PROVE  \A i \in DOMAIN memory : memory[i].session_id \in Requests
<1>1. memory \in Seq([session_id : Requests, summary : Observations])
  BY DEF TypeOK
<1>2. \A i \in DOMAIN memory : memory[i] \in [session_id : Requests, summary : Observations]
  BY <1>1, LenProperties, ElementOfSeq
<1> QED
  BY <1>2

LEMMA OtherHistory ==
  ASSUME LogGrows, NEW q \in Requests, OrderOK(q), WholeOK(q), Untouched(q)
  PROVE  OrderOK(q)' /\ WholeOK(q)'
<1>1. /\ Spoken(q)' = Spoken(q) /\ Taken(q)' = Taken(q)
      /\ Cardinality(Rows(q)') = Cardinality(Rows(q))
  BY DEF Untouched, Spoken, Taken
<1>2. OrderOK(q)'
  BY <1>1 DEF OrderOK, Untouched
<1>3. WholeOK(q)'
  BY <1>1 DEF WholeOK, Untouched, LogGrows
<1> QED
  BY <1>2, <1>3

\* A handler's own step, which is not its last.
LEMMA OwnHistory ==
  ASSUME HistoryInv, LogGrows, NEW r \in Requests, pc[r] # "done",
         UNCHANGED << posts, memory >>,
         sessions[r] # None => sessions'[r] # None,
         \A q \in Requests \ {r} : Untouched(q),
         OrderOK(r)', WholeOK(r)'
  PROVE  History'
<1>1. ASSUME NEW q \in Requests PROVE OrderOK(q)' /\ WholeOK(q)'
  <2>1. CASE q = r
    BY <2>1
  <2>2. CASE q # r
    BY <2>2, OtherHistory DEF HistoryInv, History
  <2> QED
    BY <2>1, <2>2
<1>2. MemoryOK
  BY DEF HistoryInv, History
<1>3. \A q \in Requests : sessions[q] # None => sessions'[q] # None
  BY DEF Untouched
<1>4. posts \subseteq Requests /\ \A i \in DOMAIN memory : memory[i].session_id \in Requests
  BY MemoryType DEF HistoryInv, LogInv, TypeOK
<1>5. ASSUME NEW i \in DOMAIN memory, NEW q, q = memory[i].session_id
      PROVE  /\ pc'[q] = "done" /\ q \notin posts /\ sessions'[q] # None
             /\ memory[i].summary = reply'[q].obs
  <2>1. /\ pc[q] = "done" /\ q \notin posts /\ sessions[q] # None
        /\ memory[i].summary = reply[q].obs
    BY <1>2, <1>5 DEF MemoryOK
  <2>2. q \in Requests \ {r}
    BY <1>4, <1>5, <2>1
  <2> QED
    BY <2>1, <2>2 DEF Untouched
<1>6. MemoryOK'
  BY <1>2, <1>3, <1>4, <1>5 DEF MemoryOK
<1> QED
  BY <1>1, <1>6 DEF History

\* A handler goes on to store what is left of what was said.
LEMMA ContinueOrder ==
  ASSUME TypeOK, NEW r \in Requests, NEW todo \in Seq(Messages), Continue(r, todo),
         UNCHANGED reply, Suffix(todo, Spoken(r)),
         Ordered(Rows(r)', Cardinality(Rows(r)'), Spoken(r), Len(Spoken(r)) - Len(todo))
  PROVE  OrderOK(r)'
<1>1. pending'[r] = todo /\ pc'[r] \in {"message", "forward", "summary"}
  BY ContinueType
<1>2. /\ pc'[r] = "forward" => todo = << >> /\ reply[r] = None
      /\ pc'[r] = "summary" => todo = << >>
  BY DEF Continue, Goto, TypeOK
<1>3. Spoken(r)' = Spoken(r) /\ Taken(r)' = Len(Spoken(r)) - Len(todo)
  BY <1>1 DEF Spoken, Taken
<1> QED
  BY <1>1, <1>2, <1>3 DEF OrderOK, Early

----------------------------------------------------------------------------
(* The history, action by action                                            *)

LEMMA ArriveHistory ==
  ASSUME HistoryInv, NEW r \in Requests, Arrive(r)
  PROVE  History'
<1>1. /\ TypeOK /\ pc[r] = "idle" /\ pc'[r] = "tools"
      /\ UNCHANGED << tools, messages, sessions, session_messages, raw_requests,
                      toolsHash, sessionID, pending, seq, reply, posts, memory, failed >>
      /\ \A q \in Requests \ {r} : pc'[q] = pc[q]
  BY DEF HistoryInv, LogInv, Arrive, At, Goto, TypeOK, database, handlers
<1>2. Rows(r)' = Rows(r) /\ Spoken(r)' = Spoken(r) /\ Taken(r)' = Taken(r)
  BY <1>1 DEF Rows, Spoken, Taken
<1>3. OrderOK(r) /\ WholeOK(r)
  BY DEF HistoryInv, History
<1>4. OrderOK(r)'
  BY <1>1, <1>2, <1>3 DEF OrderOK, Early
<1>5. WholeOK(r)'
  BY <1>1, <1>3 DEF WholeOK, Late
<1>6. LogGrows /\ \A q \in Requests \ {r} : Untouched(q)
  BY <1>1 DEF LogGrows, Untouched, Rows
<1> QED
  BY <1>1, <1>4, <1>5, <1>6, OwnHistory

LEMMA StoreToolsHistory ==
  ASSUME HistoryInv, NEW r \in Requests, StoreTools(r)
  PROVE  History'
<1>1. /\ TypeOK /\ pc[r] = "tools" /\ pc'[r] = "session"
      /\ UNCHANGED << messages, sessions, session_messages, raw_requests,
                      sessionID, pending, seq, reply, posts, memory >>
      /\ \A q \in Requests \ {r} : pc'[q] = pc[q]
  BY DEF HistoryInv, LogInv, StoreTools, At, Goto, TypeOK
<1>2. /\ failed \subseteq failed' /\ tools \subseteq tools'
      /\ \A q \in Requests \ {r} : toolsHash'[q] = toolsHash[q]
  BY <1>1 DEF StoreTools, Works, Fails, TypeOK
<1>3. r \notin failed' => toolsHash'[r] = ToolsOf[r] /\ (ToolsOf[r] # None => ToolsOf[r] \in tools')
  <2> SUFFICES ASSUME r \notin failed'
               PROVE  toolsHash'[r] = ToolsOf[r] /\ (ToolsOf[r] # None => ToolsOf[r] \in tools')
    OBVIOUS
  <2>1. CASE ToolsOf[r] = None
    <3>1. r \notin failed /\ toolsHash[r] = None /\ UNCHANGED toolsHash
      BY <1>1, <1>2, <2>1 DEF HistoryInv, History, WholeOK, StoreTools
    <3> QED
      BY <2>1, <3>1
  <2>2. CASE ToolsOf[r] # None
    BY <1>1, <2>2 DEF StoreTools, Fails, TypeOK
  <2> QED
    BY <2>1, <2>2
<1>4. Rows(r)' = Rows(r) /\ Spoken(r)' = Spoken(r) /\ Taken(r)' = Taken(r)
  BY <1>1 DEF Rows, Spoken, Taken
<1>5. OrderOK(r)'
  BY <1>1, <1>4 DEF HistoryInv, History, OrderOK, Early
<1>6. WholeOK(r)'
  BY <1>1, <1>3 DEF WholeOK, Late
<1>7. LogGrows /\ \A q \in Requests \ {r} : Untouched(q)
  BY <1>1, <1>2 DEF LogGrows, Untouched, Rows
<1> QED
  BY <1>1, <1>5, <1>6, <1>7, OwnHistory

LEMMA StartSessionHistory ==
  ASSUME HistoryInv, NEW r \in Requests, StartSession(r)
  PROVE  History'
<1>1. /\ LogInv /\ TypeOK /\ pc[r] = "session" /\ HandlerOK(r) /\ OrderOK(r) /\ WholeOK(r)
      /\ UNCHANGED << tools, messages, session_messages, raw_requests,
                      toolsHash, seq, reply, posts, memory >>
      /\ pending[r] = << >> /\ reply[r] = None /\ Rows(r) = {}
      /\ Conversation[r] \in Seq(Messages)
  BY RequestsAssumption DEF HistoryInv, LogInv, History, StartSession, At, OrderOK, Early
<1>2. /\ Rows(r)' = {} /\ Spoken(r)' = Spoken(r) /\ Spoken(r) = Conversation[r]
      /\ Cardinality(Rows(r)) = 0 /\ Cardinality(Rows(r)') = 0
  BY <1>1, SpokenType, FS_EmptySet DEF Rows, Spoken
<1>3. CASE /\ Works
           /\ sessions' = [sessions EXCEPT ![r] = [tools_hash |-> toolsHash[r], summary |-> None]]
           /\ sessionID' = [sessionID EXCEPT ![r] = r]
           /\ Goto(r, "raw") /\ UNCHANGED pending
  <2>1. /\ sessions'[r] = [tools_hash |-> toolsHash[r], summary |-> None]
        /\ sessionID'[r] = r /\ pc'[r] = "raw" /\ UNCHANGED << failed, pending >>
        /\ \A q \in Requests \ {r} : /\ sessions'[q] = sessions[q]
                                    /\ sessionID'[q] = sessionID[q] /\ pc'[q] = pc[q]
    BY <1>1, <1>3 DEF Goto, TypeOK, Works
  <2>2. OrderOK(r)'
    <3>1. Taken(r)' = Taken(r)
      BY <1>1, <1>2, <2>1 DEF Taken
    <3> QED
      BY <1>1, <1>2, <2>1, <3>1 DEF OrderOK, Early
  <2>3. WholeOK(r)'
    BY <1>1, <2>1 DEF WholeOK, Late
  <2>4. sessions'[r] # None
    <3>1. [tools_hash |-> toolsHash[r], summary |-> None] \in SessionRow
      BY <1>1 DEF TypeOK, SessionRow
    <3> QED
      BY <2>1, <3>1, NoneAssumption
  <2>5. LogGrows /\ \A q \in Requests \ {r} : Untouched(q)
    BY <1>1, <2>1 DEF LogGrows, Untouched, Rows
  <2> QED
    BY <1>1, <2>2, <2>3, <2>4, <2>5, OwnHistory
<1>4. CASE Fails(r) /\ Continue(r, Conversation[r]) /\ UNCHANGED << sessions, sessionID >>
  <2>1. /\ failed' = failed \cup {r} /\ r \in failed'
        /\ \A q \in Requests \ {r} : pc'[q] = pc[q] /\ pending'[q] = pending[q]
    BY <1>1, <1>4, ContinueType DEF Fails
  <2>2. OrderOK(r)'
    <3>1. Suffix(Conversation[r], Spoken(r))
      BY <1>2, <1>1, LenProperties DEF Suffix
    <3>2. Ordered(Rows(r)', Cardinality(Rows(r)'), Spoken(r), Len(Spoken(r)) - Len(Conversation[r]))
      <4>1. Len(Spoken(r)) - Len(Conversation[r]) = 0
        BY <1>1, <1>2, LenProperties
      <4> QED
        BY <1>2, <4>1, EmptyOrdered
    <3> QED
      BY <1>1, <1>4, <3>1, <3>2, ContinueOrder
  <2>3. WholeOK(r)'
    BY <2>1 DEF WholeOK
  <2>4. LogGrows /\ \A q \in Requests \ {r} : Untouched(q)
    BY <1>1, <1>4, <2>1 DEF LogGrows, Untouched, Rows
  <2> QED
    BY <1>1, <1>4, <2>2, <2>3, <2>4, OwnHistory
<1> QED
  BY <1>3, <1>4 DEF StartSession

LEMMA StoreRawRequestHistory ==
  ASSUME HistoryInv, NEW r \in Requests, StoreRawRequest(r)
  PROVE  History'
<1>1. /\ LogInv /\ TypeOK /\ pc[r] = "raw" /\ HandlerOK(r) /\ OrderOK(r) /\ WholeOK(r)
      /\ UNCHANGED << tools, messages, sessions, session_messages,
                      toolsHash, sessionID, seq, reply, posts, memory >>
      /\ pending[r] = << >> /\ reply[r] = None /\ Rows(r) = {}
      /\ Conversation[r] \in Seq(Messages) /\ Continue(r, Conversation[r])
  BY RequestsAssumption DEF HistoryInv, LogInv, History, StoreRawRequest, At, OrderOK, Early
<1>2. /\ Rows(r)' = {} /\ Spoken(r)' = Spoken(r) /\ Spoken(r) = Conversation[r]
      /\ Cardinality(Rows(r)) = 0 /\ Cardinality(Rows(r)') = 0
  BY <1>1, SpokenType, FS_EmptySet DEF Rows, Spoken
<1>3. /\ pc'[r] \in {"message", "forward", "summary"}
      /\ pending'[r] = Conversation[r]
      /\ \A q \in Requests \ {r} : pc'[q] = pc[q] /\ pending'[q] = pending[q]
  BY <1>1, ContinueType
<1>4. Len(Spoken(r)) - Len(Conversation[r]) = 0
  BY <1>1, <1>2, LenProperties
<1>5. OrderOK(r)'
  <2>1. Suffix(Conversation[r], Spoken(r))
    BY <1>2, <1>1, LenProperties DEF Suffix
  <2>2. Ordered(Rows(r)', Cardinality(Rows(r)'), Spoken(r), Len(Spoken(r)) - Len(Conversation[r]))
    BY <1>2, <1>4, EmptyOrdered
  <2> QED
    BY <1>1, <2>1, <2>2, ContinueOrder
<1>6. /\ failed \subseteq failed' /\ raw_requests \subseteq raw_requests'
      /\ r \notin failed' => r \in raw_requests'
  BY DEF StoreRawRequest, Works, Fails
<1>7. WholeOK(r)'
  <2> SUFFICES ASSUME r \notin failed' PROVE WholeOK(r)'
    BY DEF WholeOK
  <2>1. r \notin failed
    BY <1>6
  <2>2. Taken(r)' = 0
    BY <1>2, <1>3, <1>4 DEF Taken
  <2> QED
    BY <1>1, <1>2, <1>3, <1>6, <2>1, <2>2 DEF WholeOK, Late
<1>8. LogGrows /\ \A q \in Requests \ {r} : Untouched(q)
  BY <1>1, <1>3, <1>6 DEF LogGrows, Untouched, Rows
<1> QED
  BY <1>1, <1>5, <1>7, <1>8, OwnHistory

LEMMA StoreMessageHistory ==
  ASSUME HistoryInv, NEW r \in Requests, StoreMessage(r)
  PROVE  History'
<1>1. /\ LogInv /\ TypeOK /\ pc[r] = "message" /\ HandlerOK(r) /\ OrderOK(r) /\ WholeOK(r)
      /\ UNCHANGED << tools, sessions, session_messages, raw_requests,
                      toolsHash, sessionID, seq, reply, posts, memory >>
      /\ pending[r] # << >>
  BY DEF HistoryInv, LogInv, History, StoreMessage, At, HandlerOK
<1>2. Rows(r)' = Rows(r) /\ Spoken(r)' = Spoken(r)
  BY <1>1 DEF Rows, Spoken
<1>3. CASE Works /\ Goto(r, "sequence") /\ UNCHANGED pending
  <2>1. /\ pc'[r] = "sequence" /\ UNCHANGED << failed, pending >>
        /\ \A q \in Requests \ {r} : pc'[q] = pc[q]
        /\ Taken(r)' = Taken(r)
    BY <1>1, <1>2, <1>3 DEF Works, Goto, TypeOK, Taken
  <2>2. OrderOK(r)'
    BY <1>1, <1>2, <2>1 DEF OrderOK, Early
  <2>3. WholeOK(r)'
    BY <1>1, <1>2, <2>1 DEF WholeOK, Late
  <2>4. LogGrows /\ \A q \in Requests \ {r} : Untouched(q)
    BY <1>1, <2>1 DEF LogGrows, Untouched, Rows
  <2> QED
    BY <1>1, <2>2, <2>3, <2>4, OwnHistory
<1>4. CASE Fails(r) /\ Continue(r, Tail(pending[r]))
  <2>1. /\ Spoken(r) \in Seq(Messages) /\ pending[r] \in Seq(Messages)
        /\ Len(pending[r]) \in Nat /\ Len(Spoken(r)) \in Nat
    BY <1>1, SpokenType
  <2>2. /\ Suffix(Tail(pending[r]), Spoken(r)) /\ Tail(pending[r]) \in Seq(Messages)
        /\ Len(Tail(pending[r])) = Len(pending[r]) - 1 /\ Len(pending[r]) \in 1..Len(Spoken(r))
    BY <1>1, <2>1, SuffixTail DEF OrderOK
  <2>3. Ordered(Rows(r), Cardinality(Rows(r)), Spoken(r), Len(Spoken(r)) - Len(Tail(pending[r])))
    <3>1. /\ Taken(r) \in Nat /\ Len(Spoken(r)) - Len(Tail(pending[r])) \in Nat
          /\ Taken(r) <= Len(Spoken(r)) - Len(Tail(pending[r]))
      BY <2>1, <2>2 DEF Taken
    <3> QED
      BY <1>1, <3>1, RowNumbers, OrderedWider DEF OrderOK
  <2>4. OrderOK(r)'
    BY <1>1, <1>2, <1>4, <2>2, <2>3, ContinueOrder
  <2>5. /\ failed' = failed \cup {r} /\ r \in failed'
        /\ \A q \in Requests \ {r} : pc'[q] = pc[q] /\ pending'[q] = pending[q]
    BY <1>1, <1>4, <2>2, ContinueType DEF Fails
  <2>6. WholeOK(r)'
    BY <2>5 DEF WholeOK
  <2>7. LogGrows /\ \A q \in Requests \ {r} : Untouched(q)
    BY <1>1, <2>5 DEF LogGrows, Untouched, Rows
  <2> QED
    BY <1>1, <2>4, <2>6, <2>7, OwnHistory
<1> QED
  BY <1>3, <1>4 DEF StoreMessage

LEMMA ReadSequenceHistory ==
  ASSUME HistoryInv, NEW r \in Requests, ReadSequence(r)
  PROVE  History'
<1>1. /\ LogInv /\ TypeOK /\ RowsInv /\ pc[r] = "sequence" /\ OrderOK(r) /\ WholeOK(r)
      /\ UNCHANGED << tools, messages, sessions, session_messages, raw_requests,
                      toolsHash, sessionID, pending, reply, posts, memory >>
  BY DEF HistoryInv, LogInv, History, ReadSequence, At, database
<1>2. Rows(r)' = Rows(r) /\ Spoken(r)' = Spoken(r) /\ Taken(r)' = Taken(r)
  BY <1>1 DEF Rows, Spoken, Taken
<1>3. /\ pc'[r] = "insert" /\ \A q \in Requests \ {r} : pc'[q] = pc[q]
      /\ failed \subseteq failed'
      /\ \A q \in Requests \ {r} : seq'[q] = seq[q]
  BY <1>1 DEF ReadSequence, Goto, Works, Fails, TypeOK
<1>4. OrderOK(r)'
  BY <1>1, <1>2, <1>3 DEF OrderOK, Early
<1>5. WholeOK(r)'
  <2> SUFFICES ASSUME r \notin failed' PROVE WholeOK(r)'
    BY DEF WholeOK
  <2>1. r \notin failed
    BY <1>3
  <2>2. sessionID[r] = r
    BY <1>1, <2>1 DEF WholeOK, Late
  <2>3. seq'[r] = LastSequence(sessionID[r])
    BY <1>1 DEF ReadSequence, Fails, TypeOK
  <2>4. LastSequence(sessionID[r]) = Cardinality(Rows(r))
    BY <1>1, <2>2, LastSequenceCounts
  <2> QED
    BY <1>1, <1>2, <1>3, <2>1, <2>3, <2>4 DEF WholeOK, Late
<1>6. LogGrows /\ \A q \in Requests \ {r} : Untouched(q)
  BY <1>1, <1>3 DEF LogGrows, Untouched, Rows
<1> QED
  BY <1>1, <1>4, <1>5, <1>6, OwnHistory

\* A row is inserted behind the rows of its session, or not at all.
LEMMA InsertAppends ==
  ASSUME RowsInv, NEW row, InsertRow(row),
         row.session_id \in Requests \cup {None},
         row.sequence \in 1..(Cardinality(Rows(row.session_id)) + 1)
  PROVE  \/ UNCHANGED session_messages
         \/ /\ row.sequence = Cardinality(Rows(row.session_id)) + 1
            /\ Rows(row.session_id)' = Rows(row.session_id) \cup {row}
            /\ Cardinality(Rows(row.session_id)') = Cardinality(Rows(row.session_id)) + 1
            /\ \A s : s # row.session_id => Rows(s)' = Rows(s)
<1> DEFINE n == Cardinality(Rows(row.session_id))
           R == Rows(row.session_id)
<1>1. n \in Nat /\ IsFiniteSet(R)
  BY RowsFinite
<1>2. CASE Unique(row) /\ session_messages' = session_messages \cup {row}
  <2>1. {q.sequence : q \in R} = 1..n
    BY DEF RowsInv, ChainContiguous
  <2>2. \A q \in R : q.sequence # row.sequence
    BY <1>2 DEF Unique
  <2>3. row \notin R /\ row.sequence \notin 1..n
    BY <2>1, <2>2
  <2>4. row.sequence = n + 1
    BY <1>1, <2>3
  <2>5. /\ Rows(row.session_id)' = R \cup {row}
        /\ \A s : s # row.session_id => Rows(s)' = Rows(s)
    BY <1>2 DEF Rows
  <2>6. Cardinality(R \cup {row}) = n + 1
    BY <1>1, <2>3, FS_AddElement
  <2> QED
    BY <2>4, <2>5, <2>6
<1>3. UNCHANGED session_messages \/ (Unique(row) /\ session_messages' = session_messages \cup {row})
  BY DEF InsertRow
<1> QED
  BY <1>2, <1>3

LEMMA AddMessageHistory ==
  ASSUME HistoryInv, NEW r \in Requests, AddMessageToSession(r)
  PROVE  History'
<1>1. /\ LogInv /\ TypeOK /\ RowsInv /\ pc[r] = "insert"
      /\ HandlerOK(r) /\ OrderOK(r) /\ WholeOK(r)
      /\ UNCHANGED << tools, messages, sessions, raw_requests,
                      toolsHash, sessionID, seq, reply, posts, memory >>
      /\ pending[r] # << >> /\ Continue(r, Tail(pending[r]))
  BY DEF HistoryInv, LogInv, History, AddMessageToSession, At, HandlerOK
<1>2. /\ Spoken(r) \in Seq(Messages) /\ pending[r] \in Seq(Messages)
      /\ Len(pending[r]) \in Nat /\ Len(Spoken(r)) \in Nat
  BY <1>1, SpokenType
<1>3. /\ Suffix(Tail(pending[r]), Spoken(r)) /\ Tail(pending[r]) \in Seq(Messages)
      /\ Len(Tail(pending[r])) = Len(pending[r]) - 1 /\ Len(pending[r]) \in 1..Len(Spoken(r))
      /\ Head(pending[r]) = Spoken(r)[Taken(r) + 1]
  BY <1>1, <1>2, SuffixTail DEF OrderOK, Taken
<1>4. /\ Taken(r) \in Nat
      /\ Len(Spoken(r)) - Len(Tail(pending[r])) = Taken(r) + 1
  <2>1. ASSUME NEW s \in Nat, NEW p \in 1..s PROVE s - p \in Nat /\ s - (p - 1) = (s - p) + 1
    BY <2>1
  <2> QED
    BY <1>2, <1>3, <2>1 DEF Taken
<1>5. /\ pc'[r] \in {"message", "forward", "summary"} /\ pending'[r] = Tail(pending[r])
      /\ \A q \in Requests \ {r} : pc'[q] = pc[q] /\ pending'[q] = pending[q]
  BY <1>1, <1>3, ContinueType
<1>6. Spoken(r)' = Spoken(r) /\ Taken(r)' = Taken(r) + 1
  <2>1. Spoken(r)' = Spoken(r)
    BY <1>1 DEF Spoken
  <2>2. Taken(r)' = Len(Spoken(r)) - Len(Tail(pending[r]))
    BY <1>5, <2>1 DEF Taken
  <2> QED
    BY <1>4, <2>1, <2>2
<1> DEFINE n == Cardinality(Rows(r))
<1>7. n \in Nat /\ \A row \in Rows(r) : row.sequence \in 1..n
  BY <1>1, RowNumbers
<1>8. PICK row : row = NewRow(r)
  OBVIOUS
<1>9. /\ row.session_id = sessionID[r] /\ row.sequence = seq[r] + 1
      /\ row.message = Head(pending[r])
      /\ sessionID[r] \in {r, None} /\ sessionID[r] \in Requests \cup {None} /\ r # None
  BY <1>1, <1>8, NoneAssumption DEF NewRow, HandlerOK, TypeOK
<1>10. row.sequence \in 1..(Cardinality(Rows(row.session_id)) + 1)
  <2>1. /\ Cardinality(Rows(sessionID[r])) \in Nat
        /\ seq[r] \in Nat /\ seq[r] <= Cardinality(Rows(sessionID[r]))
    BY <1>1, RowsFinite DEF HandlerOK, TypeOK
  <2> QED
    BY <1>9, <2>1
\* What the statement does to the rows of r, and of the others.
<1>11. /\ \/ Rows(r)' = Rows(r)
          \/ /\ row.sequence = n + 1 /\ Rows(r)' = Rows(r) \cup {row}
             /\ Cardinality(Rows(r)') = n + 1
       /\ \A q \in Requests \ {r} : Rows(q)' = Rows(q)
  <2>1. CASE UNCHANGED session_messages
    BY <2>1 DEF Rows
  <2>2. CASE InsertRow(row)
    <3>1. CASE UNCHANGED session_messages
      BY <3>1 DEF Rows
    <3>2. CASE /\ row.sequence = Cardinality(Rows(row.session_id)) + 1
               /\ Rows(row.session_id)' = Rows(row.session_id) \cup {row}
               /\ Cardinality(Rows(row.session_id)') = Cardinality(Rows(row.session_id)) + 1
               /\ \A s : s # row.session_id => Rows(s)' = Rows(s)
      <4>1. \A q \in Requests \ {r} : q # row.session_id
        BY <1>9, NoneAssumption
      <4>2. CASE sessionID[r] = r
        BY <1>9, <3>2, <4>1, <4>2
      <4>3. CASE sessionID[r] = None
        BY <1>9, <3>2, <4>1, <4>3
      <4> QED
        BY <1>9, <4>2, <4>3
    <3> QED
      BY <1>1, <1>9, <1>10, <2>2, <3>1, <3>2, InsertAppends
  <2> QED
    BY <1>8, <2>1, <2>2 DEF AddMessageToSession
<1>12. Ordered(Rows(r)', Cardinality(Rows(r)'), Spoken(r), Taken(r) + 1)
  <2>1. Ordered(Rows(r), n, Spoken(r), Taken(r))
    BY <1>1 DEF OrderOK
  <2> HIDE DEF n
  <2>2. CASE Rows(r)' = Rows(r)
    <3>1. Taken(r) + 1 \in Nat /\ Taken(r) <= Taken(r) + 1
      BY <1>4
    <3>2. Ordered(Rows(r), n, Spoken(r), Taken(r) + 1)
      BY <1>4, <1>7, <2>1, <3>1, OrderedWider
    <3>3. Cardinality(Rows(r)') = n
      BY <2>2 DEF n
    <3> QED
      BY <2>2, <3>2, <3>3
  <2>3. CASE /\ row.sequence = n + 1 /\ Rows(r)' = Rows(r) \cup {row}
             /\ Cardinality(Rows(r)') = n + 1
    <3>1. Ordered(Rows(r) \cup {row}, n + 1, Spoken(r), Taken(r) + 1)
      BY <1>3, <1>4, <1>7, <1>9, <2>1, <2>3, OrderedInsert
    <3> QED
      BY <2>3, <3>1
  <2> QED
    BY <1>11, <2>2, <2>3
<1>13. OrderOK(r)'
  BY <1>1, <1>3, <1>4, <1>12, ContinueOrder
<1>14. failed \subseteq failed'
  BY DEF AddMessageToSession, Works, Fails
<1>15. WholeOK(r)'
  <2> SUFFICES ASSUME r \notin failed' PROVE WholeOK(r)'
    BY DEF WholeOK
  <2>1. /\ r \notin failed /\ sessionID[r] = r /\ seq[r] = n /\ n = Taken(r)
        /\ sessions[r] = [tools_hash |-> ToolsOf[r], summary |-> None]
        /\ \A q \in Rows(r) : q.message = Spoken(r)[q.sequence]
    BY <1>1, <1>14 DEF WholeOK, Late
  <2>2. InsertRow(row)
    BY <1>8 DEF AddMessageToSession, Fails
  <2>3. Unique(row)
    BY <1>7, <1>9, <2>1 DEF Unique
  <2>4. sessions[r] # None /\ row.message \in messages
    BY <1>1, <1>9, <2>1 DEF HandlerOK
  <2>5. session_messages' = session_messages \cup {row}
    BY <1>9, <2>1, <2>2, <2>3, <2>4 DEF InsertRow, Keyed
  <2>6. row \in Rows(r)' /\ row \notin Rows(r)
    <3>1. row \in Rows(r)'
      BY <1>9, <2>1, <2>5 DEF Rows
    <3>2. row.sequence \notin 1..n
      BY <1>7, <1>9, <2>1
    <3> QED
      BY <1>7, <3>1, <3>2
  <2>7. Rows(r)' = Rows(r) \cup {row} /\ Cardinality(Rows(r)') = n + 1
    BY <1>11, <2>6
  <2>8. row.message = Spoken(r)[row.sequence]
    BY <1>3, <1>9, <2>1
  <2>9. \A q \in Rows(r)' : q.message = Spoken(r)'[q.sequence]
    BY <1>6, <2>1, <2>7, <2>8
  <2>10. Cardinality(Rows(r)') = Taken(r)'
    BY <1>6, <2>1, <2>7
  <2> QED
    BY <1>1, <1>5, <2>1, <2>9, <2>10 DEF WholeOK, Late
<1>16. LogGrows /\ \A q \in Requests \ {r} : Untouched(q)
  BY <1>1, <1>5, <1>11, <1>14 DEF LogGrows, Untouched
<1> QED
  BY <1>1, <1>13, <1>15, <1>16, OwnHistory

LEMMA ForwardHistory ==
  ASSUME HistoryInv, NEW r \in Requests, Forward(r)
  PROVE  History'
<1>1. /\ LogInv /\ TypeOK /\ pc[r] = "forward"
      /\ HandlerOK(r) /\ OrderOK(r) /\ WholeOK(r)
      /\ UNCHANGED << tools, messages, sessions, session_messages, raw_requests,
                      toolsHash, sessionID, seq, posts, memory, failed >>
      /\ pending[r] = << >> /\ reply[r] = None
  BY DEF HistoryInv, LogInv, History, Forward, At, OrderOK, database
<1>2. PICK rep \in Replies :
        /\ reply' = [reply EXCEPT ![r] = rep]
        /\ IF sessionID[r] = None
           THEN Goto(r, "summary") /\ UNCHANGED pending
           ELSE Goto(r, "message") /\ pending' = [pending EXCEPT ![r] = << rep.message >>]
  BY DEF Forward
<1>3. rep # None /\ rep.message \in Messages /\ reply'[r] = rep
  BY <1>1, <1>2, NoneAssumption, RequestsAssumption DEF Reply, TypeOK
<1>4. /\ Conversation[r] \in Seq(Messages) /\ Len(Conversation[r]) \in Nat
      /\ Spoken(r) = Conversation[r]
  BY <1>1, SpokenType
<1>5. /\ Spoken(r)' = Append(Conversation[r], rep.message)
      /\ Spoken(r)' \in Seq(Messages)
      /\ Len(Spoken(r)') = Len(Conversation[r]) + 1
      /\ \A i \in 1..Len(Conversation[r]) : Spoken(r)'[i] = Conversation[r][i]
      /\ Spoken(r)'[Len(Conversation[r]) + 1] = rep.message
  <2>1. Spoken(r)' = Conversation[r] \o << rep.message >>
    BY <1>3 DEF Spoken
  <2>2. Spoken(r)' = Append(Conversation[r], rep.message)
    BY <1>3, <1>4, <2>1, AppendIsConcat
  <2> QED
    BY <1>3, <1>4, <2>2, AppendProperties
<1>6. Rows(r)' = Rows(r) /\ Taken(r) = Len(Conversation[r])
  <2>1. Len(<< >>) = 0
    BY EmptySeq
  <2> QED
    BY <1>1, <1>4, <2>1 DEF Rows, Taken
<1>7. /\ \A q \in Requests \ {r} : reply'[q] = reply[q] /\ pc'[q] = pc[q] /\ pending'[q] = pending[q]
      /\ sessionID[r] = None => pc'[r] = "summary" /\ pending'[r] = << >>
      /\ sessionID[r] # None => pc'[r] = "message" /\ pending'[r] = << rep.message >>
  BY <1>1, <1>2 DEF Goto, TypeOK
<1>8. /\ Suffix(pending'[r], Spoken(r)')
      /\ Taken(r)' \in Nat /\ Taken(r) <= Taken(r)'
      /\ sessionID[r] # None => Taken(r)' = Taken(r)
  <2>1. CASE sessionID[r] = None
    <3>1. pending'[r] = << >> /\ Len(<< >>) = 0
      BY <1>7, <2>1, EmptySeq
    <3>2. Taken(r)' = Len(Conversation[r]) + 1
      BY <1>4, <1>5, <3>1 DEF Taken
    <3>3. Suffix(pending'[r], Spoken(r)')
      BY <1>4, <1>5, <3>1 DEF Suffix
    <3> QED
      BY <1>4, <1>6, <2>1, <3>2, <3>3
  <2>2. CASE sessionID[r] # None
    <3>1. pending'[r] = << rep.message >>
      BY <1>7, <2>2
    <3>2. Len(pending'[r]) = 1 /\ pending'[r][1] = rep.message
      BY <3>1
    <3>3. Taken(r)' = Len(Conversation[r])
      BY <1>4, <1>5, <3>2 DEF Taken
    <3>4. Suffix(pending'[r], Spoken(r)')
      <4>1. 1 <= Len(Spoken(r)') /\ Len(Spoken(r)') - 1 + 1 = Len(Conversation[r]) + 1
        BY <1>4, <1>5
      <4>2. ASSUME NEW i \in 1..1
            PROVE  pending'[r][i] = Spoken(r)'[Len(Spoken(r)') - 1 + i]
        <5>1. i = 1
          OBVIOUS
        <5> QED
          BY <1>5, <3>2, <4>1, <5>1
      <4> QED
        BY <3>2, <4>1, <4>2 DEF Suffix
    <3> QED
      BY <1>4, <1>6, <3>3, <3>4
  <2> QED
    BY <2>1, <2>2
<1>9. OrderOK(r)'
  <2>1. Ordered(Rows(r), Cardinality(Rows(r)), Conversation[r], Taken(r))
    BY <1>1, <1>4 DEF OrderOK
  <2>2. Taken(r) \in Nat
    BY <1>4, <1>6
  <2>3. Ordered(Rows(r), Cardinality(Rows(r)), Spoken(r)', Taken(r)')
    <3>1. PICK more, l : more = Spoken(r)' /\ l = Taken(r)'
      OBVIOUS
    <3>2. /\ l \in Nat /\ Taken(r) <= l
          /\ \A i \in 1..Taken(r) : more[i] = Conversation[r][i]
      BY <1>5, <1>6, <1>8, <3>1
    <3>3. Cardinality(Rows(r)) \in Nat /\ \A row \in Rows(r) : row.sequence \in 1..Cardinality(Rows(r))
      BY <1>1, RowNumbers
    <3>4. Ordered(Rows(r), Cardinality(Rows(r)), more, l)
      BY <2>1, <2>2, <3>2, <3>3, OrderedWider
    <3> QED
      BY <3>1, <3>4
  <2> QED
    BY <1>6, <1>7, <1>8, <2>3 DEF OrderOK, Early
<1>10. WholeOK(r)'
  <2> SUFFICES ASSUME r \notin failed' PROVE WholeOK(r)'
    BY DEF WholeOK
  <2>1. /\ r \notin failed /\ sessionID[r] = r /\ sessionID[r] # None
        /\ Cardinality(Rows(r)) = Taken(r)
        /\ \A row \in Rows(r) : row.message = Spoken(r)[row.sequence]
    BY <1>1, NoneAssumption DEF WholeOK, Late
  <2>2. ASSUME NEW row \in Rows(r)' PROVE row.message = Spoken(r)'[row.sequence]
    <3>1. row \in Rows(r) /\ row.sequence \in 1..Cardinality(Rows(r))
      BY <1>1, <1>6, RowNumbers
    <3> QED
      BY <1>4, <1>5, <1>6, <2>1, <3>1
  <2>3. Cardinality(Rows(r)') = Taken(r)'
    BY <1>6, <1>8, <2>1
  <2>4. /\ toolsHash[r] = ToolsOf[r] /\ (ToolsOf[r] # None => ToolsOf[r] \in tools)
        /\ sessions[r] = [tools_hash |-> ToolsOf[r], summary |-> None]
        /\ r \in raw_requests
    BY <1>1, <2>1 DEF WholeOK, Late
  <2>5. pc'[r] = "message"
    BY <1>7, <2>1
  <2> QED
    BY <1>1, <2>1, <2>2, <2>3, <2>4, <2>5 DEF WholeOK
<1>11. LogGrows /\ \A q \in Requests \ {r} : Untouched(q)
  BY <1>1, <1>7 DEF LogGrows, Untouched, Rows
<1> QED
  BY <1>1, <1>9, <1>10, <1>11, OwnHistory

LEMMA SetSessionSummaryHistory ==
  ASSUME HistoryInv, NEW r \in Requests, SetSessionSummary(r)
  PROVE  History'
<1>1. /\ LogInv /\ TypeOK /\ pc[r] = "summary" /\ reply[r] # None
      /\ HandlerOK(r) /\ OrderOK(r) /\ WholeOK(r) /\ MemoryOK
      /\ UNCHANGED << tools, messages, session_messages, raw_requests,
                      toolsHash, sessionID, pending, seq, reply, memory >>
      /\ pending[r] = << >> /\ r \notin posts
  BY DEF HistoryInv, LogInv, History, SetSessionSummary, At, OrderOK, HandlerOK, handlers
<1>2. /\ pc'[r] = "done" /\ \A q \in Requests \ {r} : pc'[q] = pc[q]
      /\ failed \subseteq failed'
      /\ \A q \in Requests \ {r} : sessions'[q] = sessions[q]
  BY <1>1 DEF SetSessionSummary, Goto, Works, Fails, TypeOK
<1>3. Rows(r)' = Rows(r) /\ Spoken(r)' = Spoken(r) /\ Taken(r)' = Taken(r)
  BY <1>1 DEF Rows, Spoken, Taken
<1>4. OrderOK(r)'
  BY <1>1, <1>2, <1>3 DEF OrderOK, Early
<1>5. /\ sessions[r] # None => sessions'[r] # None
      /\ r \in posts' => sessions'[r] # None
  <2>1. sessions[r] \in SessionRow \/ sessions[r] = None
    BY <1>1 DEF TypeOK
  <2>2. WantsSummary(r) => sessions[r] # None
    BY <1>1 DEF HandlerOK, WantsSummary
  <2>3. CASE UNCHANGED sessions
    <3>1. r \in posts' => WantsSummary(r)
      BY <1>1 DEF SetSessionSummary
    <3> QED
      BY <2>2, <2>3, <3>1
  <2>4. CASE WantsSummary(r) /\ sessions' = [sessions EXCEPT ![r].summary = reply[r].obs]
    <3>1. sessions[r] \in SessionRow /\ reply[r].obs \in Observations \cup {None}
      BY <1>1, <2>1, <2>2, <2>4, RequestsAssumption DEF TypeOK, Reply
    <3> DEFINE row == [sessions[r] EXCEPT !.summary = reply[r].obs]
    <3>2. row \in SessionRow
      BY <3>1 DEF SessionRow
    <3>3. sessions'[r] = row
      BY <1>1, <2>4 DEF TypeOK
    <3> HIDE DEF row
    <3> QED
      BY <3>2, <3>3, NoneAssumption
  <2> QED
    BY <2>3, <2>4 DEF SetSessionSummary
<1>6. WholeOK(r)'
  <2> SUFFICES ASSUME r \notin failed' PROVE WholeOK(r)'
    BY DEF WholeOK
  <2>1. /\ r \notin failed /\ sessionID[r] = r /\ r # None
        /\ sessions[r] = [tools_hash |-> ToolsOf[r], summary |-> None]
        /\ toolsHash[r] = ToolsOf[r] /\ (ToolsOf[r] # None => ToolsOf[r] \in tools)
        /\ r \in raw_requests /\ Cardinality(Rows(r)) = Taken(r)
        /\ \A row \in Rows(r) : row.message = Spoken(r)[row.sequence]
    BY <1>1, <1>2, NoneAssumption DEF WholeOK, Late
  <2>2. sessions'[r] = [tools_hash |-> ToolsOf[r], summary |-> reply[r].obs]
    <3>1. CASE reply[r].obs = None
      <4>1. UNCHANGED sessions
        BY <3>1 DEF SetSessionSummary, WantsSummary
      <4> QED
        BY <2>1, <3>1, <4>1
    <3>2. CASE reply[r].obs # None
      <4>1. sessions' = [sessions EXCEPT ![r].summary = reply[r].obs]
        BY <2>1, <3>2 DEF SetSessionSummary, WantsSummary, Fails
      <4>2. sessions'[r] = [sessions[r] EXCEPT !.summary = reply[r].obs]
        BY <1>1, <4>1 DEF TypeOK
      <4> QED
        BY <2>1, <4>2
    <3> QED
      BY <3>1, <3>2
  <2> QED
    BY <1>1, <1>2, <1>3, <2>1, <2>2 DEF WholeOK
<1>7. LogGrows /\ \A q \in Requests \ {r} : Untouched(q)
  BY <1>1, <1>2 DEF LogGrows, Untouched, Rows
<1>8. ASSUME NEW q \in Requests PROVE OrderOK(q)' /\ WholeOK(q)'
  <2>1. CASE q = r
    BY <1>4, <1>6, <2>1
  <2>2. CASE q # r
    BY <1>7, <2>2, OtherHistory DEF HistoryInv, History
  <2> QED
    BY <2>1, <2>2
<1>9. MemoryOK'
  <2>1. posts' \subseteq posts \cup {r} /\ posts \subseteq Requests
    BY <1>1 DEF SetSessionSummary, TypeOK
  <2>2. \A q \in posts' : sessions'[q] # None
    BY <1>1, <1>2, <1>5, <2>1 DEF MemoryOK
  <2>3. \A i \in DOMAIN memory : memory[i].session_id \in Requests
    BY <1>1, MemoryType
  <2>4. ASSUME NEW i \in DOMAIN memory, NEW q, q = memory[i].session_id
        PROVE  /\ pc'[q] = "done" /\ q \notin posts' /\ sessions'[q] # None
               /\ memory[i].summary = reply[q].obs
    <3>1. /\ pc[q] = "done" /\ q \notin posts /\ sessions[q] # None
          /\ memory[i].summary = reply[q].obs /\ q \in Requests
      BY <1>1, <2>3, <2>4 DEF MemoryOK
    <3>2. q # r
      BY <1>1, <3>1
    <3> QED
      BY <1>2, <2>1, <3>1, <3>2
  <2> QED
    BY <1>1, <2>2, <2>4 DEF MemoryOK
<1> QED
  BY <1>8, <1>9 DEF History

\* A step of no handler.
LEMMA IdleHistory ==
  ASSUME HistoryInv, UNCHANGED << database, handlers, posts, memory, failed >>,
         \A q \in Requests : pc'[q] = pc[q] \/ (pc'[q] = "lost" /\ pc[q] # "done")
  PROVE  History'
<1>1. /\ UNCHANGED << tools, sessions, session_messages, raw_requests, posts, memory, failed,
                      toolsHash, sessionID, pending, seq, reply >>
      /\ TypeOK /\ MemoryOK
  BY DEF database, handlers, HistoryInv, LogInv, History
<1>2. ASSUME NEW q \in Requests PROVE OrderOK(q)' /\ WholeOK(q)'
  <2>1. OrderOK(q) /\ WholeOK(q)
    BY DEF HistoryInv, History
  <2>2. Rows(q)' = Rows(q) /\ Spoken(q)' = Spoken(q) /\ Taken(q)' = Taken(q)
    BY <1>1 DEF Rows, Spoken, Taken
  <2>3. CASE pc'[q] = pc[q]
    BY <1>1, <2>1, <2>2, <2>3, OtherHistory DEF LogGrows, Untouched
  <2>4. CASE pc'[q] = "lost"
    <3>1. OrderOK(q)'
      BY <1>1, <2>1, <2>2, <2>4 DEF OrderOK, Early
    <3>2. WholeOK(q)'
      BY <2>4 DEF WholeOK, Late
    <3> QED
      BY <3>1, <3>2
  <2> QED
    BY <2>3, <2>4
<1>3. MemoryOK'
  <2>1. ASSUME NEW i \in DOMAIN memory, NEW q, q = memory[i].session_id
        PROVE  /\ pc'[q] = "done" /\ q \notin posts /\ sessions[q] # None
               /\ memory[i].summary = reply[q].obs
    <3>1. /\ pc[q] = "done" /\ q \notin posts /\ sessions[q] # None
          /\ memory[i].summary = reply[q].obs /\ q \in Requests
      BY <1>1, <2>1, MemoryType DEF MemoryOK
    <3> QED
      BY <3>1
  <2> QED
    BY <1>1, <2>1 DEF MemoryOK
<1> QED
  BY <1>2, <1>3 DEF History

LEMMA PostHistory ==
  ASSUME HistoryInv, NEW r \in Requests, MemoryReceives(r) \/ LosePost(r)
  PROVE  History'
<1>1. /\ TypeOK /\ MemoryOK /\ HandlerOK(r) /\ r \in posts /\ posts' = posts \ {r}
      /\ UNCHANGED << tools, sessions, session_messages, raw_requests, failed,
                      pc, toolsHash, sessionID, pending, seq, reply >>
  BY DEF database, handlers, HistoryInv, LogInv, History, MemoryReceives, LosePost
<1>2. ASSUME NEW q \in Requests PROVE OrderOK(q)' /\ WholeOK(q)'
  BY <1>1, OtherHistory DEF HistoryInv, History, LogGrows, Untouched, Rows
<1>3. MemoryOK'
  <2>1. CASE LosePost(r)
    <3>1. UNCHANGED memory
      BY <2>1 DEF LosePost
    <3> QED
      BY <1>1, <3>1 DEF MemoryOK
  <2>2. CASE MemoryReceives(r)
    <3> DEFINE m == [session_id |-> r, summary |-> reply[r].obs]
               N == Len(memory)
    <3>1. /\ pc[r] = "done" /\ sessions[r] # None
          /\ memory' = Append(memory, m) /\ m.session_id = r /\ m.summary = reply[r].obs
      BY <1>1, <2>2 DEF HandlerOK, MemoryOK, MemoryReceives
    <3>2. /\ memory \in Seq([session_id : Requests, summary : Observations])
          /\ m \in [session_id : Requests, summary : Observations]
      BY <1>1, RequestsAssumption DEF TypeOK, HandlerOK, Reply
    <3> HIDE DEF m, N
    <3>3. /\ N \in Nat /\ DOMAIN memory = 1..N /\ DOMAIN memory' = 1..(N + 1)
          /\ \A i \in 1..N : memory'[i] = memory[i]
          /\ memory'[N + 1] = m
      BY <3>1, <3>2, AppendProperties, LenProperties DEF N
    <3>4. \A i \in 1..N : memory[i].session_id # r
      BY <1>1, <3>3 DEF MemoryOK
    <3>5. ASSUME NEW i \in 1..(N + 1), NEW q, q = memory'[i].session_id
          PROVE  /\ pc[q] = "done" /\ q \notin posts' /\ sessions[q] # None
                 /\ memory'[i].summary = reply[q].obs
      <4>1. CASE i \in 1..N
        BY <1>1, <3>3, <3>5, <4>1 DEF MemoryOK
      <4>2. CASE i = N + 1
        BY <1>1, <3>1, <3>3, <3>5, <4>2
      <4> QED
        BY <3>3, <4>1, <4>2
    <3>6. ASSUME NEW i \in 1..(N + 1), NEW j \in 1..(N + 1),
                 memory'[i].session_id = memory'[j].session_id
          PROVE  i = j
      <4>1. CASE i \in 1..N /\ j \in 1..N
        BY <1>1, <3>3, <3>6, <4>1 DEF MemoryOK
      <4>2. CASE i = N + 1 \/ j = N + 1
        BY <3>1, <3>3, <3>4, <3>6, <4>2
      <4> QED
        BY <3>3, <4>1, <4>2
    <3>7. \A q \in posts' : sessions[q] # None
      BY <1>1 DEF MemoryOK
    <3> QED
      BY <1>1, <3>3, <3>5, <3>6, <3>7 DEF MemoryOK
  <2> QED
    BY <2>1, <2>2
<1> QED
  BY <1>2, <1>3 DEF History

LEMMA HistoryInit == Init => HistoryInv
<1> SUFFICES ASSUME Init PROVE HistoryInv
  OBVIOUS
<1>1. LogInv
  BY LogInit
<1>2. MemoryOK
  BY EmptySeq, LenProperties DEF Init, MemoryOK
<1>3. ASSUME NEW r \in Requests PROVE OrderOK(r) /\ WholeOK(r)
  <2>1. /\ pc[r] = "idle" /\ pending[r] = << >> /\ reply[r] = None /\ toolsHash[r] = None
        /\ Rows(r) = {} /\ Cardinality({}) = 0
    BY FS_EmptySet DEF Init, Rows
  <2>2. /\ Spoken(r) = Conversation[r] /\ Len(Spoken(r)) \in Nat /\ Len(<< >>) = 0
    BY <1>1, <2>1, SpokenType, EmptySeq DEF LogInv
  <2>3. Suffix(pending[r], Spoken(r))
    BY <2>1, <2>2 DEF Suffix
  <2>4. Taken(r) \in Nat /\ 0 <= Taken(r)
    BY <2>1, <2>2 DEF Taken
  <2>5. Ordered({}, 0, Spoken(r), Taken(r))
    BY <2>4, EmptyOrdered, OrderedWider
  <2>6. OrderOK(r)
    BY <2>1, <2>3, <2>5 DEF OrderOK
  <2>7. WholeOK(r)
    BY <2>1 DEF WholeOK, Late
  <2> QED
    BY <2>6, <2>7
<1> QED
  BY <1>1, <1>2, <1>3 DEF HistoryInv, History

LEMMA HistoryNext == HistoryInv /\ [Next]_vars => HistoryInv'
<1> SUFFICES ASSUME HistoryInv, [Next]_vars
             PROVE  HistoryInv'
  OBVIOUS
<1>1. LogInv'
  BY LogNext DEF HistoryInv
<1>2. ASSUME UNCHANGED vars PROVE History'
  BY <1>2, IdleHistory DEF vars
<1>3. ASSUME NEW r \in Requests, Handle(r)
      PROVE  History'
  BY <1>3, StoreToolsHistory, StartSessionHistory, StoreRawRequestHistory,
     StoreMessageHistory, ReadSequenceHistory, AddMessageHistory, ForwardHistory,
     SetSessionSummaryHistory DEF Handle
<1>4. ASSUME OpenConnection PROVE History'
  BY <1>4, IdleHistory DEF OpenConnection
<1>5. ASSUME Crash PROVE History'
  <2>1. \A q \in Requests : pc'[q] = pc[q] \/ (pc'[q] = "lost" /\ pc[q] # "done")
    BY <1>5 DEF Crash, HistoryInv, LogInv, TypeOK
  <2> QED
    BY <1>5, <2>1, IdleHistory DEF Crash
<1>6. History'
  BY <1>2, <1>3, <1>4, <1>5, ArriveHistory, PostHistory DEF Next
<1> QED
  BY <1>1, <1>6 DEF HistoryInv

LEMMA HistoryInvariant == Spec => []HistoryInv
BY HistoryInit, HistoryNext, PTL DEF Spec

----------------------------------------------------------------------------
(* What follows for the log                                                 *)

\* GetSession returns the rows in the order of their numbers.
LEMMA ChainAt ==
  ASSUME LogInv, NEW r \in Requests
  PROVE  /\ Len(Chain(r)) = Cardinality(Rows(r)) /\ Chain(r) \in Seq(Messages)
         /\ \A i \in 1..Cardinality(Rows(r)) :
              \E row \in Rows(r) : row.sequence = i /\ Chain(r)[i] = row.message
<1> DEFINE n == Cardinality(Rows(r))
           c(i) == CHOOSE row \in Rows(r) : row.sequence = i
<1>1. n \in Nat /\ \A i \in 1..n : \E row \in Rows(r) : row.sequence = i
  BY RowNumbers
<1>2. \A i \in 1..n : c(i) \in Rows(r) /\ c(i).sequence = i
  BY <1>1
<1>3. Chain(r) = [i \in 1..n |-> c(i).message]
  BY DEF Chain
<1>4. \A i \in 1..n : c(i).message \in Messages
  BY <1>2 DEF LogInv, TypeOK, ChainRow, Rows
<1> HIDE DEF n, c
<1>5. Chain(r) \in [1..n -> Messages]
  BY <1>3, <1>4
<1>6. Len(Chain(r)) = n /\ Chain(r) \in Seq(Messages)
  BY <1>1, <1>5
<1>7. \A i \in 1..n : Chain(r)[i] = c(i).message
  BY <1>3
<1> QED
  BY <1>2, <1>6, <1>7 DEF n

\* Failing statements lose messages of a session, but they never reorder or
\* repeat one, nor bring in one of another session (AddMessageToSession).
THEOREM ChainInOrderAlways == Spec => []ChainInOrder
<1>1. HistoryInv => ChainInOrder
  <2> SUFFICES ASSUME HistoryInv, NEW r \in Requests
               PROVE  \E at \in [1..Len(Chain(r)) -> 1..Len(Spoken(r))] :
                        /\ \A i \in 1..Len(Chain(r)) : Chain(r)[i] = Spoken(r)[at[i]]
                        /\ \A i, j \in 1..Len(Chain(r)) : i < j => at[i] < at[j]
    BY DEF ChainInOrder, Spoken
  <2>1. LogInv /\ OrderOK(r)
    BY DEF HistoryInv, History
  <2> DEFINE n == Cardinality(Rows(r))
  <2>2. PICK at \in [1..n -> 1..Taken(r)] :
          /\ \A row \in Rows(r) : row.message = Spoken(r)[at[row.sequence]]
          /\ \A i, j \in 1..n : i < j => at[i] < at[j]
    BY <2>1 DEF OrderOK, Ordered
  <2>3. /\ Len(Chain(r)) = n
        /\ \A i \in 1..n : \E row \in Rows(r) : row.sequence = i /\ Chain(r)[i] = row.message
    BY <2>1, ChainAt
  <2>4. Len(Spoken(r)) \in Nat /\ Len(pending[r]) \in Nat
    BY <2>1, SpokenType DEF LogInv
  <2> HIDE DEF n
  <2>5. at \in [1..n -> 1..Len(Spoken(r))]
    <3>1. 1..Taken(r) \subseteq 1..Len(Spoken(r))
      BY <2>4 DEF Taken
    <3> QED
      BY <3>1
  <2>6. \A i \in 1..n : Chain(r)[i] = Spoken(r)[at[i]]
    BY <2>2, <2>3
  <2> QED
    BY <2>2, <2>3, <2>5, <2>6
<1> QED
  BY <1>1, HistoryInvariant, PTL

\* A handler that is done, none of whose statements failed, has logged the
\* request whole.
LEMMA DoneIsWhole ==
  ASSUME HistoryInv, NEW r \in Requests, pc[r] = "done", r \notin failed
  PROVE  LoggedWhole(r)
<1>1. /\ LogInv /\ OrderOK(r) /\ pending[r] = << >> /\ reply[r] # None
      /\ ToolsOf[r] # None => ToolsOf[r] \in tools
      /\ r \in raw_requests
      /\ sessions[r] = [tools_hash |-> ToolsOf[r], summary |-> reply[r].obs]
      /\ Cardinality(Rows(r)) = Taken(r)
      /\ \A row \in Rows(r) : row.message = Spoken(r)[row.sequence]
  BY DEF HistoryInv, History, OrderOK, WholeOK, Late
<1>2. /\ Spoken(r) = Append(Conversation[r], reply[r].message)
      /\ Spoken(r) \in Seq(Messages) /\ Len(Spoken(r)) \in Nat
  BY <1>1, SpokenType DEF LogInv
<1>3. Taken(r) = Len(Spoken(r))
  <2>1. Len(<< >>) = 0
    BY EmptySeq
  <2> QED
    BY <1>1, <1>2, <2>1 DEF Taken
<1>4. /\ Len(Chain(r)) = Len(Spoken(r)) /\ Chain(r) \in Seq(Messages)
      /\ \A i \in 1..Len(Chain(r)) : Chain(r)[i] = Spoken(r)[i]
  BY <1>1, <1>3, ChainAt
<1>5. Chain(r) = Spoken(r)
  BY <1>2, <1>4, SeqEqual
<1> QED
  BY <1>1, <1>2, <1>5 DEF LoggedWhole

\* Whatever became of the other requests, the log of a request none of whose
\* own statements failed is complete once its handler is done
\* (forwardWithLogging).
THEOREM CompleteUnlessFailedAlways == Spec => []CompleteUnlessFailed
<1>1. HistoryInv => CompleteUnlessFailed
  BY DoneIsWhole DEF CompleteUnlessFailed, At
<1> QED
  BY <1>1, HistoryInvariant, PTL

\* The memory server hears of a session at most once, after it has been logged
\* and with the summary of the log (SetSessionSummary, ingestToMemory).
THEOREM MemoryFollowsLogAlways == Spec => []MemoryFollowsLog
<1>1. HistoryInv => MemoryFollowsLog
  <2> SUFFICES ASSUME HistoryInv PROVE MemoryFollowsLog
    OBVIOUS
  <2>1. MemoryOK /\ TypeOK
    BY DEF HistoryInv, History, LogInv
  <2>2. ASSUME NEW i \in DOMAIN memory, NEW r, r = memory[i].session_id
        PROVE  /\ sessions[r] # None
               /\ r \notin failed => LoggedWhole(r) /\ sessions[r].summary = memory[i].summary
    <3>1. /\ r \in Requests /\ pc[r] = "done" /\ sessions[r] # None
          /\ memory[i].summary = reply[r].obs
      BY <2>1, <2>2, MemoryType DEF MemoryOK
    <3>2. ASSUME r \notin failed
          PROVE  LoggedWhole(r) /\ sessions[r].summary = memory[i].summary
      <4>1. LoggedWhole(r)
        BY <3>1, <3>2, DoneIsWhole
      <4> QED
        BY <3>1, <4>1 DEF LoggedWhole
    <3> QED
      BY <3>1, <3>2
  <2> QED
    BY <2>1, <2>2 DEF MemoryFollowsLog, MemoryOK
<1> QED
  BY <1>1, HistoryInvariant, PTL
=============================================================================
