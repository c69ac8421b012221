----------------------------- MODULE SessionLog -----------------------------
(***************************************************************************)
(* The session log: handlers of concurrent requests (forwardWithLogging,    *)
(* proxy/internal/proxy/handlers.go) writing to one SQLite database through *)
(* CompactLogger (proxy/internal/logger/compact.go), and the goroutine that *)
(* posts an observation to the memory server (memory_client.go).            *)
(*                                                                          *)
(* Every SQL statement is a step of its own: no two of them share a         *)
(* transaction.  A statement may fail (SQLITE_BUSY, disk full, I/O error),  *)
(* the proxy may crash between any two steps, and what a handler does with  *)
(* an error is what the code does: it logs or drops it and goes on.         *)
(***************************************************************************)
EXTENDS Integers, Sequences, FiniteSets, FiniteSetsExt

CONSTANTS
  Requests,      \* the requests; StartSession draws a fresh id for each
  Messages,      \* message bodies, told apart by their hash
  Conversation,  \* the messages of a request, in order
  ToolSets,      \* tool definitions, told apart by their hash
  ToolsOf,       \* the tools of a request, or None
  Observations,  \* what newObsCapture may extract
  Replies,       \* what forwardRequest and Finalize may leave
  None,          \* the empty string, NULL, no reply
  MaxFaults,     \* bound on failing statements
  MaxCrashes     \* bound on crashes of the proxy

\* An upstream error and a stream broken off leave a message too: outParser
\* makes an assistant message of what there is.
Reply == [message : Messages, obs : Observations \cup {None}]

SessionRow == [tools_hash : ToolSets \cup {None}, summary : Observations \cup {None}]

ASSUME MessagesAssumption ==
  \A m \in Messages : m.role \in {"user", "assistant", "tool"}
ASSUME RequestsAssumption ==
  /\ Conversation \in [Requests -> Seq(Messages)]
  /\ ToolsOf \in [Requests -> ToolSets \cup {None}]
  /\ Replies \subseteq Reply
  /\ \A rep \in Replies : rep.message.role = "assistant"
ASSUME NoneAssumption ==
  /\ None \notin Requests \cup ToolSets \cup Observations \cup Replies
  /\ None \notin SessionRow
ASSUME BoundsAssumption == MaxFaults \in Nat /\ MaxCrashes \in Nat

VARIABLES
  \* the database
  tools,             \* rows of tools
  messages,          \* rows of messages
  sessions,          \* row of each session, None while there is none
  session_messages,  \* rows of session_messages
  raw_requests,      \* sessions with a row in raw_requests
  pool,              \* the connections a statement may be run on
  \* each handler
  pc, toolsHash, sessionID, pending, seq, reply,
  \* the memory server
  posts,             \* sessions whose POST /ingest is on its way
  memory,            \* what the memory server has received, in order
  \* failures; "failed" are the requests one of whose statements failed
  faults, failed, crashes

database == << tools, messages, sessions, session_messages, raw_requests >>
handlers == << toolsHash, sessionID, pending, seq, reply >>
vars == << database, pool, pc, handlers, posts, memory, faults, failed, crashes >>

ChainRow == [session_id : Requests \cup {None}, message : Messages, sequence : Nat]

Steps == {"idle", "tools", "session", "raw", "message", "sequence", "insert",
          "forward", "summary", "done", "lost"}

TypeOK ==
  /\ tools \subseteq ToolSets
  /\ messages \subseteq Messages
  /\ sessions \in [Requests -> SessionRow \cup {None}]
  /\ session_messages \subseteq ChainRow
  /\ raw_requests \subseteq Requests
  /\ pool \in SUBSET {"keyed", "bare"} /\ pool # {}
  /\ pc \in [Requests -> Steps]
  /\ toolsHash \in [Requests -> ToolSets \cup {None}]
  /\ sessionID \in [Requests -> Requests \cup {None}]
  /\ pending \in [Requests -> Seq(Messages)]
  /\ seq \in [Requests -> Nat]
  /\ reply \in [Requests -> Replies \cup {None}]
  /\ posts \subseteq Requests
  /\ memory \in Seq([session_id : Requests, summary : Observations])
  /\ faults \in 0..MaxFaults
  /\ failed \subseteq Requests
  /\ crashes \in 0..MaxCrashes

Init ==
  /\ tools = {} /\ messages = {} /\ session_messages = {} /\ raw_requests = {}
  /\ sessions = [r \in Requests |-> None]
  /\ pool = {"keyed"}
  /\ pc = [r \in Requests |-> "idle"]
  /\ toolsHash = [r \in Requests |-> None]
  /\ sessionID = [r \in Requests |-> None]
  /\ pending = [r \in Requests |-> << >>]
  /\ seq = [r \in Requests |-> 0]
  /\ reply = [r \in Requests |-> None]
  /\ posts = {} /\ memory = << >>
  /\ faults = 0 /\ failed = {} /\ crashes = 0

----------------------------------------------------------------------------
(* Statements and connections                                               *)

At(r, step) == pc[r] = step
Goto(r, step) == pc' = [pc EXCEPT ![r] = step]

Works == UNCHANGED << faults, failed >>
Fails(r) ==
  /\ faults < MaxFaults
  /\ faults' = faults + 1
  /\ failed' = failed \cup {r}

\* NewCompact sets foreign_keys on one connection; those that database/sql
\* opens later, while another statement is under way, do without, and the
\* first may be the one it closes when three are idle.
OpenConnection ==
  /\ \E r \in Requests : pc[r] \notin {"idle", "done", "lost"}
  /\ \E others \in {{}, {"keyed"}} :
       others \subseteq pool /\ pool' = {"bare"} \cup others
  /\ UNCHANGED << database, pc, handlers, posts, memory, faults, failed, crashes >>

\* FOREIGN KEY, where it is enforced.
Keyed(connection, referenced) == connection = "keyed" => referenced

----------------------------------------------------------------------------
(* forwardWithLogging, with the statements of CompactLogger                 *)

Arrive(r) ==
  /\ At(r, "idle") /\ Goto(r, "tools")
  /\ UNCHANGED << database, pool, handlers, posts, memory, faults, failed, crashes >>

\* StoreTools returns "" when it fails.
StoreTools(r) ==
  /\ At(r, "tools") /\ Goto(r, "session")
  /\ IF ToolsOf[r] = None
     THEN Works /\ UNCHANGED << tools, toolsHash >>
     ELSE \/ /\ Works
             /\ tools' = tools \cup {ToolsOf[r]}
             /\ toolsHash' = [toolsHash EXCEPT ![r] = ToolsOf[r]]
          \/ Fails(r) /\ UNCHANGED << tools, toolsHash >>
  /\ UNCHANGED << messages, sessions, session_messages, raw_requests, pool,
                  sessionID, pending, seq, reply, posts, memory, crashes >>

\* The messages still to be stored, and what comes after the last.
Continue(r, todo) ==
  /\ pending' = [pending EXCEPT ![r] = todo]
  /\ Goto(r, IF todo # << >> THEN "message"
             ELSE IF reply[r] = None THEN "forward" ELSE "summary")

\* Mutant: a request whose session could not be started is not served.
StartSessionOrReturn(r) ==
  /\ At(r, "session")
  /\ \/ /\ Works
        /\ sessions' = [sessions EXCEPT ![r] = [tools_hash |-> toolsHash[r], summary |-> None]]
        /\ sessionID' = [sessionID EXCEPT ![r] = r]
        /\ Goto(r, "raw") /\ UNCHANGED pending
     \/ /\ Fails(r)
        /\ Goto(r, "lost")
        /\ UNCHANGED << sessions, sessionID, pending >>
  /\ UNCHANGED << tools, messages, session_messages, raw_requests, pool,
                  toolsHash, seq, reply, posts, memory, crashes >>

StartSession(r) ==
  /\ At(r, "session")
  /\ \/ /\ Works
        /\ \E c \in pool : Keyed(c, toolsHash[r] \in tools \cup {None})
        /\ sessions' = [sessions EXCEPT ![r] = [tools_hash |-> toolsHash[r], summary |-> None]]
        /\ sessionID' = [sessionID EXCEPT ![r] = r]
        /\ Goto(r, "raw") /\ UNCHANGED pending
     \/ /\ Fails(r)
        /\ Continue(r, Conversation[r])
        /\ UNCHANGED << sessions, sessionID >>
  /\ UNCHANGED << tools, messages, session_messages, raw_requests, pool,
                  toolsHash, seq, reply, posts, memory, crashes >>

StoreRawRequest(r) ==
  /\ At(r, "raw")
  /\ Continue(r, Conversation[r])
  /\ \/ Works /\ raw_requests' = raw_requests \cup {r}
     \/ Fails(r) /\ UNCHANGED raw_requests
  /\ UNCHANGED << tools, messages, sessions, session_messages, pool, toolsHash,
                  sessionID, seq, reply, posts, memory, crashes >>

\* A message that could not be stored is left out of the session.  (Mutants:
\* it is not; it is tried again after the others; a message that was there
\* already counts as not stored.)
StoreMessageUnchecked(r) ==
  /\ At(r, "message") /\ Goto(r, "sequence") /\ UNCHANGED pending
  /\ \/ Works /\ messages' = messages \cup {Head(pending[r])}
     \/ Fails(r) /\ UNCHANGED messages
  /\ UNCHANGED << tools, sessions, session_messages, raw_requests, pool,
                  toolsHash, sessionID, seq, reply, posts, memory, crashes >>

StoreMessageAgain(r) ==
  /\ At(r, "message")
  /\ \/ /\ Works
        /\ messages' = messages \cup {Head(pending[r])}
        /\ Goto(r, "sequence") /\ UNCHANGED pending
     \/ /\ Fails(r)
        /\ Continue(r, Append(Tail(pending[r]), Head(pending[r])))
        /\ UNCHANGED messages
  /\ UNCHANGED << tools, sessions, session_messages, raw_requests, pool,
                  toolsHash, sessionID, seq, reply, posts, memory, crashes >>

StoreMessageOnce(r) ==
  /\ At(r, "message")
  /\ IF Head(pending[r]) \in messages
     THEN Continue(r, Tail(pending[r])) /\ UNCHANGED messages
     ELSE /\ messages' = messages \cup {Head(pending[r])}
          /\ Goto(r, "sequence") /\ UNCHANGED pending
  /\ Works
  /\ UNCHANGED << tools, sessions, session_messages, raw_requests, pool,
                  toolsHash, sessionID, seq, reply, posts, memory, crashes >>

StoreMessage(r) ==
  /\ At(r, "message")
  /\ \/ /\ Works
        /\ messages' = messages \cup {Head(pending[r])}
        /\ Goto(r, "sequence") /\ UNCHANGED pending
     \/ /\ Fails(r)
        /\ Continue(r, Tail(pending[r]))
        /\ UNCHANGED messages
  /\ UNCHANGED << tools, sessions, session_messages, raw_requests, pool,
                  toolsHash, sessionID, seq, reply, posts, memory, crashes >>

\* AddMessageToSession, SELECT COALESCE(MAX(sequence), 0): when it fails the
\* error is not sql.ErrNoRows, so it is ignored and seq is 0.
Rows(s) == {row \in session_messages : row.session_id = s}
LastSequence(s) == Max({0} \cup {row.sequence : row \in Rows(s)})

ReadSequence(r) ==
  /\ At(r, "sequence") /\ Goto(r, "insert")
  /\ \/ Works /\ seq' = [seq EXCEPT ![r] = LastSequence(sessionID[r])]
     \/ Fails(r) /\ seq' = [seq EXCEPT ![r] = 0]
  /\ UNCHANGED << database, pool, toolsHash, sessionID, pending, reply, posts,
                  memory, crashes >>

\* AddMessageToSession, INSERT: rejected by UNIQUE(session_id, sequence) or by
\* a foreign key, or failing otherwise, it leaves the message out.
Unique(row) ==
  \A other \in Rows(row.session_id) : other.sequence # row.sequence

NewRow(r) == [session_id |-> sessionID[r], message |-> Head(pending[r]),
              sequence |-> seq[r] + 1]

\* Mutant: no UNIQUE.
InsertAnyway(row) == session_messages' = session_messages \cup {row}

InsertRow(row) ==
  \E c \in pool :
    LET legal == /\ Unique(row)
                 /\ Keyed(c, /\ row.session_id # None
                             /\ sessions[row.session_id] # None
                             /\ row.message \in messages)
    IN  session_messages' = IF legal THEN session_messages \cup {row}
                                     ELSE session_messages

AddMessageToSession(r) ==
  /\ At(r, "insert")
  /\ Continue(r, Tail(pending[r]))
  /\ \/ Works /\ InsertRow(NewRow(r))
     \/ Fails(r) /\ UNCHANGED session_messages
  /\ UNCHANGED << tools, messages, sessions, raw_requests, pool, toolsHash,
                  sessionID, seq, reply, posts, memory, crashes >>

\* forwardRequest returns, whatever became of the request, and Finalize; the
\* reply is logged only if there is a session.
Forward(r) ==
  /\ At(r, "forward")
  /\ \E rep \in Replies :
       /\ reply' = [reply EXCEPT ![r] = rep]
       /\ IF sessionID[r] = None
          THEN Goto(r, "summary") /\ UNCHANGED pending
          ELSE Goto(r, "message") /\ pending' = [pending EXCEPT ![r] = << rep.message >>]
  /\ UNCHANGED << database, pool, toolsHash, sessionID, seq, posts, memory,
                  faults, failed, crashes >>

\* SetSessionSummary and "go ingestToMemory": the observation is posted even
\* when it could not be stored.  (Mutant: an observation is not asked for.)
WantsSummaryEvenEmpty(r) == sessionID[r] # None
WantsSummary(r) == reply[r].obs # None /\ sessionID[r] # None

SetSessionSummary(r) ==
  /\ At(r, "summary") /\ Goto(r, "done")
  /\ IF WantsSummary(r)
     THEN /\ posts' = posts \cup {r}
          /\ \/ /\ Works
                /\ sessions' = [sessions EXCEPT ![r].summary = reply[r].obs]
             \/ Fails(r) /\ UNCHANGED sessions
     ELSE Works /\ UNCHANGED << sessions, posts >>
  /\ UNCHANGED << tools, messages, session_messages, raw_requests, pool,
                  handlers, memory, crashes >>

----------------------------------------------------------------------------
(* The POST /ingest is tried once, for five seconds: it reaches the memory  *)
(* server, maybe after the goroutine has given it up, or it does not.       *)

\* Mutant: a post whose answer does not come is sent again.
MemoryReceivesAgain(r) ==
  /\ r \in posts /\ UNCHANGED posts
  /\ memory' = Append(memory, [session_id |-> r, summary |-> reply[r].obs])
  /\ UNCHANGED << database, pool, pc, handlers, faults, failed, crashes >>

MemoryReceives(r) ==
  /\ r \in posts /\ posts' = posts \ {r}
  /\ memory' = Append(memory, [session_id |-> r, summary |-> reply[r].obs])
  /\ UNCHANGED << database, pool, pc, handlers, faults, failed, crashes >>

LosePost(r) ==
  /\ r \in posts /\ posts' = posts \ {r}
  /\ UNCHANGED << database, pool, pc, handlers, memory, faults, failed, crashes >>

\* The proxy is killed and started again: the database stays, the handlers
\* under way are gone.
Crash ==
  /\ crashes < MaxCrashes /\ crashes' = crashes + 1
  /\ pool' = {"keyed"}
  /\ pc' = [r \in Requests |-> IF pc[r] \in {"idle", "done"} THEN pc[r] ELSE "lost"]
  /\ UNCHANGED << database, handlers, posts, memory, faults, failed >>

Handle(r) ==
  \/ StoreTools(r) \/ StartSession(r) \/ StoreRawRequest(r) \/ StoreMessage(r)
  \/ ReadSequence(r) \/ AddMessageToSession(r) \/ Forward(r) \/ SetSessionSummary(r)

Next ==
  \/ \E r \in Requests : Arrive(r) \/ Handle(r) \/ MemoryReceives(r) \/ LosePost(r)
  \/ OpenConnection \/ Crash

Spec == Init /\ [][Next]_vars

\* A handler that has begun goes on: the Go scheduler runs its goroutine,
\* SQLite answers every statement, and forwardRequest returns because the
\* backend answers or the client goes away.
FairSpec == Spec /\ \A r \in Requests : WF_vars(Handle(r))

----------------------------------------------------------------------------
(* What the log must satisfy                                                *)

\* The messages of a session, as GetSession returns them.
Chain(s) ==
  LET n == Cardinality(Rows(s))
  IN  [i \in 1..n |-> (CHOOSE row \in Rows(s) : row.sequence = i).message]

\* The rows of a session are numbered 1, 2, 3, ... without a gap, though the
\* number is read in one statement and used in another, and read wrongly when
\* that statement fails (AddMessageToSession); so it is for the rows without
\* a session, which several handlers may be adding at once.
ChainContiguous ==
  \A s \in Requests \cup {None} :
    {row.sequence : row \in Rows(s)} = 1..Cardinality(Rows(s))

\* Failing statements lose messages of a session, but they never reorder or
\* repeat one, and never bring in one of another session.
ChainInOrder ==
  \A r \in Requests :
    LET said == Conversation[r] \o (IF reply[r] = None THEN << >>
                                    ELSE << reply[r].message >>)
        chain == Chain(r)
    IN  \E at \in [1..Len(chain) -> 1..Len(said)] :
          /\ \A i \in 1..Len(chain) : chain[i] = said[at[i]]
          /\ \A i, j \in 1..Len(chain) : i < j => at[i] < at[j]

\* Whatever became of the other requests, the log of a request none of whose
\* own statements failed is complete once its handler is done.
LoggedWhole(r) ==
  /\ sessions[r] = [tools_hash |-> ToolsOf[r], summary |-> reply[r].obs]
  /\ ToolsOf[r] # None => ToolsOf[r] \in tools
  /\ r \in raw_requests
  /\ Chain(r) = Append(Conversation[r], reply[r].message)

CompleteUnlessFailed ==
  \A r \in Requests : (At(r, "done") /\ r \notin failed) => LoggedWhole(r)

\* What a row refers to by hash can be read: GetSession and GetTools drop or
\* miss nothing, also for rows written without foreign keys.
HashesResolve ==
  /\ \A row \in session_messages : row.message \in messages
  /\ \A r \in Requests :
       sessions[r] # None => sessions[r].tools_hash \in tools \cup {None}

\* The memory server hears of a session at most once, only after its handler
\* has logged it, and with the summary that the log has, unless a statement of
\* that request failed.
MemoryFollowsLog ==
  /\ \A i, j \in DOMAIN memory :
       memory[i].session_id = memory[j].session_id => i = j
  /\ \A i \in DOMAIN memory :
       LET r == memory[i].session_id
       IN  /\ sessions[r] # None
           /\ r \notin failed => LoggedWhole(r) /\ sessions[r].summary = memory[i].summary

\* Logging never stands in the way of serving: a request is forwarded, however
\* many statements fail, unless the proxy crashes.
AlwaysForwarded ==
  \A r \in Requests :
    (At(r, "tools") ~> (reply[r] # None \/ (crashes > 0 /\ At(r, "lost"))))
=============================================================================
