-------------------------- MODULE MigrationProofs ---------------------------
(***************************************************************************)
(* Proofs about Migration: for any number of starts, crashes and failing    *)
(* statements.                                                              *)
(***************************************************************************)
EXTENDS Migration, SequenceTheorems, FiniteSetTheorems, TLAPS

----------------------------------------------------------------------------
(* The statements in their order                                            *)

Stmt == [do : {"drop", "create", "index", "add", "insert", "update"},
         on : Tables \cup AddedColumns, to : 0..schemaVersion]

\* Where the program of a start at version v begins in that of an empty
\* database, and where a start has come to.
Offset(v) == IF v < 3 THEN 0 ELSE IF v = 3 THEN 13 ELSE IF v = 4 THEN 16
             ELSE IF v = 5 THEN 19 ELSE 21
Pos == at + Offset(from)

\* The statements of a migration from an empty database.
Whole ==
  << Drop("session_messages"), Drop("sessions"), Drop("messages"),
     Drop("tools"), Drop("schema_version"), Drop("raw_requests"),
     Create("schema_version"), Create("tools"), Create("messages"),
     Create("sessions"), Create("session_messages"), Index("sessions"),
     InsertVersion(3),
     Create("raw_requests"), Index("raw_requests"), UpdateVersion(4),
     AddColumn("user"), AddColumn("project"), UpdateVersion(5),
     AddColumn("provider"), UpdateVersion(6) >>

LEMMA PartTypes ==
  /\ DropAll \in Seq(Stmt) /\ CreateBase \in Seq(Stmt) /\ AddRawRequests \in Seq(Stmt)
  /\ AddAttribution \in Seq(Stmt) /\ AddProvider \in Seq(Stmt)
  /\ Len(DropAll) = 6 /\ Len(CreateBase) = 7 /\ Len(AddRawRequests) = 3
  /\ Len(AddAttribution) = 3 /\ Len(AddProvider) = 2
<1> USE DEF Drop, Create, Index, AddColumn, InsertVersion, UpdateVersion, Statement, Stmt,
            Tables, DataTables, AddedColumns, schemaVersion
<1>1. DropAll \in Seq(Stmt) /\ Len(DropAll) = 6
  BY DEF DropAll
<1>2. CreateBase \in Seq(Stmt) /\ Len(CreateBase) = 7
  BY DEF CreateBase
<1>3. AddRawRequests \in Seq(Stmt) /\ Len(AddRawRequests) = 3
  BY DEF AddRawRequests
<1>4. AddAttribution \in Seq(Stmt) /\ Len(AddAttribution) = 3
  BY DEF AddAttribution
<1>5. AddProvider \in Seq(Stmt) /\ Len(AddProvider) = 2
  BY DEF AddProvider
<1> QED
  BY <1>1, <1>2, <1>3, <1>4, <1>5

\* The list s stands in the whole behind its first k statements.
Part(s, k) ==
  /\ s \in Seq(Stmt)
  /\ \A i \in 1..Len(s) : s[i] = Whole[i + k]

LEMMA EmptyPart ==
  ASSUME NEW k \in Nat
  PROVE  Part(<< >>, k) /\ Len(<< >>) = 0
<1>1. << >> \in Seq(Stmt) /\ Len(<< >>) = 0
  BY EmptySeq
<1>2. \A i \in 1..Len(<< >>) : << >>[i] = Whole[i + k]
  BY <1>1
<1> QED
  BY <1>1, <1>2 DEF Part

LEMMA PartConcat ==
  ASSUME NEW k \in Nat, NEW s, Part(s, k), NEW t, Part(t, k + Len(s))
  PROVE  Part(s \o t, k) /\ Len(s \o t) = Len(s) + Len(t)
<1>1. s \in Seq(Stmt) /\ t \in Seq(Stmt)
  BY DEF Part
<1>2. Len(s) \in Nat /\ Len(t) \in Nat
  BY <1>1, LenProperties
<1>3. /\ s \o t \in Seq(Stmt) /\ Len(s \o t) = Len(s) + Len(t)
      /\ \A i \in 1..Len(s) + Len(t) : (s \o t)[i] = IF i <= Len(s) THEN s[i] ELSE t[i - Len(s)]
  BY <1>1, ConcatProperties
<1>4. ASSUME NEW i \in 1..Len(s \o t) PROVE (s \o t)[i] = Whole[i + k]
  <2>1. CASE i <= Len(s)
    <3>1. i \in 1..Len(s) /\ (s \o t)[i] = s[i]
      BY <1>2, <1>3, <2>1
    <3> QED
      BY <3>1 DEF Part
  <2>2. CASE ~(i <= Len(s))
    <3>1. i - Len(s) \in 1..Len(t) /\ (s \o t)[i] = t[i - Len(s)]
      BY <1>2, <1>3, <2>2
    <3>2. (i - Len(s)) + (k + Len(s)) = i + k
      BY <1>2, <1>3
    <3> QED
      BY <3>1, <3>2 DEF Part
  <2> QED
    BY <2>1, <2>2
<1> QED
  BY <1>3, <1>4 DEF Part

LEMMA Parts ==
  /\ Part(DropAll, 0) /\ Len(DropAll) = 6
  /\ Part(CreateBase, 6) /\ Len(CreateBase) = 7
  /\ Part(AddRawRequests, 13) /\ Len(AddRawRequests) = 3
  /\ Part(AddAttribution, 16) /\ Len(AddAttribution) = 3
  /\ Part(AddProvider, 19) /\ Len(AddProvider) = 2
<1>1. Part(DropAll, 0)
  BY PartTypes, SMTT(30) DEF Part, DropAll, Whole
<1>2. Part(CreateBase, 6)
  <2>1. ASSUME NEW i \in 1..7 PROVE CreateBase[i] = Whole[i + 6]
    <3>1. i \in {1, 2, 3, 4, 5, 6, 7}
      OBVIOUS
    <3>2. CASE i = 1
      BY <3>2 DEF CreateBase, Whole
    <3>3. CASE i = 2
      BY <3>3 DEF CreateBase, Whole
    <3>4. CASE i = 3
      BY <3>4 DEF CreateBase, Whole
    <3>5. CASE i = 4
      BY <3>5 DEF CreateBase, Whole
    <3>6. CASE i = 5
      BY <3>6 DEF CreateBase, Whole
    <3>7. CASE i = 6
      BY <3>7 DEF CreateBase, Whole
    <3>8. CASE i = 7
      BY <3>8 DEF CreateBase, Whole
    <3> QED
      BY <3>1, <3>2, <3>3, <3>4, <3>5, <3>6, <3>7, <3>8
  <2> QED
    BY <2>1, PartTypes DEF Part
<1>3. Part(AddRawRequests, 13)
  BY PartTypes, SMTT(30) DEF Part, AddRawRequests, Whole
<1>4. Part(AddAttribution, 16)
  BY PartTypes, SMTT(30) DEF Part, AddAttribution, Whole
<1>5. Part(AddProvider, 19)
  <2>1. ASSUME NEW i \in 1..2 PROVE AddProvider[i] = Whole[i + 19]
    <3>1. CASE i = 1
      BY <3>1 DEF AddProvider, Whole
    <3>2. CASE i = 2
      BY <3>2 DEF AddProvider, Whole
    <3> QED
      BY <3>1, <3>2
  <2> QED
    BY <2>1, PartTypes DEF Part
<1> QED
  BY <1>1, <1>2, <1>3, <1>4, <1>5, PartTypes

\* Every program is an end of the whole.
LEMMA ProgramPart ==
  ASSUME NEW v \in 0..schemaVersion
  PROVE  /\ Part(Program(v), Offset(v))
         /\ Len(Program(v)) + Offset(v) = 21
<1> DEFINE base == DropAll \o CreateBase
           a == IF v < 3 THEN base ELSE << >>
           b == IF v < 4 THEN AddRawRequests ELSE << >>
           c == IF v < 5 THEN AddAttribution ELSE << >>
           d == IF v < 6 THEN AddProvider ELSE << >>
           k == Offset(v)
<1>1. Program(v) = ((a \o b) \o c) \o d
  BY DEF Program
<1>2. Part(base, 0) /\ Len(base) = 13
  <2>1. 0 + Len(DropAll) = 6 /\ 6 + 7 = 13
    BY Parts
  <2>2. Part(DropAll, 0) /\ Part(CreateBase, 0 + Len(DropAll))
    BY <2>1, Parts
  <2>3. Part(base, 0) /\ Len(base) = Len(DropAll) + Len(CreateBase)
    BY <2>2, PartConcat
  <2> QED
    BY <2>1, <2>3, Parts
<1> HIDE DEF base
<1>3. /\ k \in Nat /\ v \in Int
      /\ v < 3 => k = 0
      /\ v = 3 => k = 13
      /\ v = 4 => k = 16
      /\ v = 5 => k = 19
      /\ v = 6 => k = 21
      /\ v <= 6
  BY DEF Offset, schemaVersion
<1>4. /\ a = IF v < 3 THEN base ELSE << >>
      /\ b = IF v < 4 THEN AddRawRequests ELSE << >>
      /\ c = IF v < 5 THEN AddAttribution ELSE << >>
      /\ d = IF v < 6 THEN AddProvider ELSE << >>
      /\ k = Offset(v)
  OBVIOUS
<1> HIDE DEF a, b, c, d, k
<1>5. Part(a, k) /\ k + Len(a) = (IF v < 4 THEN 13 ELSE k)
  <2>1. CASE v < 3
    BY <1>2, <1>3, <1>4, <2>1
  <2>2. CASE ~(v < 3)
    <3>1. a = << >>
      BY <1>4, <2>2
    <3>2. v < 4 => k = 13
      BY <1>3, <2>2
    <3> QED
      BY <3>1, <3>2, <1>3, EmptyPart
  <2> QED
    BY <2>1, <2>2
<1>6. Part(b, k + Len(a)) /\ k + Len(a) + Len(b) = (IF v < 5 THEN 16 ELSE k)
  <2>1. CASE v < 4
    <3>1. b = AddRawRequests /\ k + Len(a) = 13
      BY <1>5, <1>4, <2>1
    <3>2. Part(b, 13) /\ Len(b) = 3
      BY <3>1, Parts
    <3>3. Part(b, k + Len(a))
      BY <3>1, <3>2
    <3> QED
      BY <2>1, <3>1, <3>2, <3>3, <1>3
  <2>2. CASE ~(v < 4)
    <3>1. b = << >> /\ k + Len(a) = k
      BY <1>5, <1>4, <2>2
    <3>2. v < 5 => k = 16
      BY <1>3, <2>2
    <3>3. Part(b, k) /\ Len(b) = 0
      BY <3>1, <1>3, EmptyPart
    <3> QED
      BY <3>1, <3>2, <3>3, <1>3
  <2> QED
    BY <2>1, <2>2
<1>7. Part(a \o b, k) /\ k + Len(a \o b) = (IF v < 5 THEN 16 ELSE k)
  <2>1. Part(a \o b, k) /\ Len(a \o b) = Len(a) + Len(b)
    BY <1>3, <1>5, <1>6, PartConcat
  <2>2. Len(a) \in Nat /\ Len(b) \in Nat
    BY <1>5, <1>6, LenProperties DEF Part
  <2> QED
    BY <1>3, <1>6, <2>1, <2>2
<1>8. Part(c, k + Len(a \o b)) /\ k + Len(a \o b) + Len(c) = (IF v < 6 THEN 19 ELSE k)
  <2>1. CASE v < 5
    <3>1. c = AddAttribution /\ k + Len(a \o b) = 16
      BY <1>7, <1>4, <2>1
    <3>2. Part(c, 16) /\ Len(c) = 3
      BY <3>1, Parts
    <3>3. Part(c, k + Len(a \o b))
      BY <3>1, <3>2
    <3> QED
      BY <2>1, <3>1, <3>2, <3>3, <1>3
  <2>2. CASE ~(v < 5)
    <3>1. c = << >> /\ k + Len(a \o b) = k
      BY <1>7, <1>4, <2>2
    <3>2. v < 6 => k = 19
      BY <1>3, <2>2
    <3>3. Part(c, k) /\ Len(c) = 0
      BY <3>1, <1>3, EmptyPart
    <3> QED
      BY <3>1, <3>2, <3>3, <1>3
  <2> QED
    BY <2>1, <2>2
<1>9. /\ Part((a \o b) \o c, k)
      /\ k + Len((a \o b) \o c) = (IF v < 6 THEN 19 ELSE k)
  <2>1. Part((a \o b) \o c, k) /\ Len((a \o b) \o c) = Len(a \o b) + Len(c)
    BY <1>3, <1>7, <1>8, PartConcat
  <2>2. Len(a \o b) \in Nat /\ Len(c) \in Nat
    BY <1>7, <1>8, LenProperties DEF Part
  <2> QED
    BY <1>3, <1>8, <2>1, <2>2
<1>10. Part(d, k + Len((a \o b) \o c)) /\ k + Len((a \o b) \o c) + Len(d) = 21
  <2>1. CASE v < 6
    <3>1. d = AddProvider /\ k + Len((a \o b) \o c) = 19
      BY <1>9, <1>4, <2>1
    <3>2. Part(d, 19) /\ Len(d) = 2
      BY <3>1, Parts
    <3>3. Part(d, k + Len((a \o b) \o c))
      BY <3>1, <3>2
    <3> QED
      BY <2>1, <3>1, <3>2, <3>3, <1>3
  <2>2. CASE ~(v < 6)
    <3>1. d = << >> /\ k + Len((a \o b) \o c) = k
      BY <1>9, <1>4, <2>2
    <3>2. k = 21
      BY <1>3, <2>2
    <3>3. Part(d, k) /\ Len(d) = 0
      BY <3>1, <1>3, EmptyPart
    <3> QED
      BY <3>1, <3>2, <3>3, <1>3
  <2> QED
    BY <2>1, <2>2
<1>11. /\ Part(((a \o b) \o c) \o d, k)
       /\ Len(((a \o b) \o c) \o d) = Len((a \o b) \o c) + Len(d)
  BY <1>3, <1>9, <1>10, PartConcat
<1>12. Len((a \o b) \o c) \in Nat /\ Len(d) \in Nat
  BY <1>9, <1>10, LenProperties DEF Part
<1> QED
  <2>1. Len(((a \o b) \o c) \o d) + k = 21
    BY <1>3, <1>10, <1>11, <1>12
  <2> QED
    BY <1>1, <1>11, <1>4, <2>1

----------------------------------------------------------------------------
(* The inductive invariant                                                  *)

\* A migration has a statement to come.
Migrating ==
  pc = "migrating" => from < schemaVersion /\ at <= Len(Program(from))

\* A version below 3 is there: the next start drops the tables.
Stale == 1 \in versions \/ 2 \in versions

\* What the version says of the database, while every version could be read:
\* which columns there may be, which tables there are and whose rows.
Versioned ==
  /\ \/ versions = {} \/ versions = {3} \/ versions = {4} \/ versions = {5} \/ versions = {6}
     \/ Stale /\ versions \subseteq {1, 2, 3}
  /\ versions = {} \/ Stale => columns = {} /\ rows \subseteq legacy
  /\ versions = {3} => columns = {}
  /\ versions = {4} => columns = {} \/ columns = {"user"} \/ columns = {"user", "project"}
  /\ versions = {5} => columns = {"user", "project"} \/ columns = AddedColumns
  /\ versions = {6} => columns = AddedColumns
  /\ versions # {} /\ ~Stale => Tables \ {"raw_requests"} \subseteq tables
  /\ versions = {4} \/ versions = {5} \/ versions = {6} => tables = Tables

\* How far a migration has come says which version there is, and what the
\* statements since then have done.
Staged ==
  /\ Pos <= 13 => versions = {} \/ Stale
  /\ Pos \in 14..16 => versions = {3} \/ (Stale /\ 3 \in versions)
  /\ Pos \in 17..19 => versions = {4}
  /\ Pos \in 20..21 => versions = {5}
  /\ Pos \in 8..13 => "schema_version" \in tables
  /\ Pos \in 9..13 => "tools" \in tables
  /\ Pos \in 10..13 => "messages" \in tables
  /\ Pos \in 11..13 => "sessions" \in tables
  /\ Pos \in 12..13 => "session_messages" \in tables
  /\ Pos \in 15..16 => "raw_requests" \in tables
  /\ Pos = 18 => columns = {"user"}
  /\ Pos = 19 => columns = {"user", "project"}
  /\ Pos = 21 => columns = AddedColumns

\* The same of the version alone, for a start in which nothing failed, whatever
\* failed before.
StagedVersion ==
  /\ Pos \in 6..13 => versions = {}
  /\ Pos >= 14 => versions # {}
  /\ Pos \in 14..16 /\ Cardinality(versions) <= 1 => versions = {3}
  /\ Pos \in 17..19 /\ Cardinality(versions) <= 1 => versions = {4}
  /\ Pos \in 20..21 /\ Cardinality(versions) <= 1 => versions = {5}

ReadInv ==
  ~misread =>
    /\ Versioned
    /\ pc = "migrating" => Staged
    /\ pc = "ready" => versions = {6}

FaultInv ==
  ~faulted =>
    /\ pc = "migrating" => StagedVersion
    /\ pc = "refused" => ~Coherent

MigrationInv == TypeOK /\ Migrating /\ ReadInv /\ FaultInv

----------------------------------------------------------------------------
(* The version that is stored                                               *)

LEMMA Stored ==
  ASSUME versions \subseteq 1..schemaVersion
  PROVE  /\ StoredVersion \in 0..schemaVersion
         /\ \A k \in versions : StoredVersion <= k
         /\ versions = {} => StoredVersion = 0
         /\ versions # {} => StoredVersion \in versions
         /\ \A k : versions = {k} => StoredVersion = k
         /\ Cardinality(versions) \in Nat
         /\ versions # {} /\ Cardinality(versions) <= 1 => versions = {StoredVersion}
<1>1. CASE versions = {}
  <2>1. StoredVersion = 0 /\ Cardinality(versions) = 0
    BY <1>1, FS_EmptySet DEF StoredVersion
  <2> QED
    BY <1>1, <2>1 DEF schemaVersion
<1>2. CASE versions # {}
  <2>1. \E x \in versions : \A y \in versions : x <= y
    <3>1. versions \subseteq {1, 2, 3, 4, 5, 6}
      BY DEF schemaVersion
    <3>2. CASE 1 \in versions
      BY <3>1, <3>2
    <3>3. CASE 1 \notin versions /\ 2 \in versions
      BY <3>1, <3>3
    <3>4. CASE 1 \notin versions /\ 2 \notin versions /\ 3 \in versions
      BY <3>1, <3>4
    <3>5. CASE 1 \notin versions /\ 2 \notin versions /\ 3 \notin versions
      <4>1. versions \subseteq {4, 5, 6}
        BY <3>1, <3>5
      <4>2. CASE 4 \in versions
        BY <4>1, <4>2
      <4>3. CASE 4 \notin versions /\ 5 \in versions
        BY <4>1, <4>3
      <4>4. CASE 4 \notin versions /\ 5 \notin versions
        <5>1. versions = {6}
          BY <1>2, <4>1, <4>4
        <5> QED
          BY <5>1
      <4> QED
        BY <4>2, <4>3, <4>4
    <3> QED
      BY <3>2, <3>3, <3>4, <3>5
  <2>2. StoredVersion = CHOOSE x \in versions : \A y \in versions : x <= y
    BY <1>2 DEF StoredVersion, Min
  <2>3. StoredVersion \in versions /\ \A k \in versions : StoredVersion <= k
    BY <2>1, <2>2
  <2>4. IsFiniteSet(versions) /\ Cardinality(versions) \in Nat
    <3>1. 1 \in Int /\ schemaVersion \in Int
      BY DEF schemaVersion
    <3>2. IsFiniteSet(1..schemaVersion)
      BY <3>1, FS_Interval
    <3> QED
      BY <3>2, FS_Subset, FS_CardinalityType
  <2>5. Cardinality(versions) <= 1 => versions = {StoredVersion}
    <3> SUFFICES ASSUME Cardinality(versions) <= 1 PROVE versions = {StoredVersion}
      OBVIOUS
    <3>1. Cardinality(versions) # 0
      BY <1>2, <2>4, FS_EmptySet
    <3>2. Cardinality(versions) = 1
      BY <2>4, <3>1
    <3>3. PICK x : versions = {x}
      BY <2>4, <3>2, FS_Singleton
    <3> QED
      BY <2>3, <3>3
  <2> QED
    BY <1>2, <2>3, <2>4, <2>5 DEF schemaVersion
<1> QED
  BY <1>1, <1>2

----------------------------------------------------------------------------
(* The statement a migration has come to                                    *)

LEMMA CurrentAt ==
  ASSUME TypeOK, Migrating, pc = "migrating"
  PROVE  /\ Pos \in 1..21 /\ Current = Whole[Pos]
         /\ at = Len(Program(from)) <=> Pos = 21
<1>1. from \in 0..schemaVersion /\ at \in Nat \ {0} /\ at <= Len(Program(from))
  BY DEF TypeOK, Migrating
<1>2. Part(Program(from), Offset(from)) /\ Len(Program(from)) + Offset(from) = 21
  BY <1>1, ProgramPart
<1>3. Len(Program(from)) \in Nat
  BY <1>2, LenProperties DEF Part
<1>4. Offset(from) \in Nat
  BY <1>1 DEF Offset, schemaVersion
<1>5. at \in 1..Len(Program(from))
  BY <1>1, <1>3
<1>6. Program(from)[at] = Whole[at + Offset(from)]
  BY <1>2, <1>5 DEF Part
<1>7. at + Offset(from) \in 1..21 /\ (at = Len(Program(from)) <=> at + Offset(from) = 21)
  <2>1. ASSUME NEW l \in Nat, NEW o \in Nat, l + o = 21, NEW i \in 1..l
        PROVE  i + o \in 1..21 /\ (i = l <=> i + o = 21)
    BY <2>1
  <2> QED
    BY <1>2, <1>3, <1>4, <1>5, <2>1
<1> QED
  BY <1>6, <1>7 DEF Pos, Current

LEMMA WholeAt ==
  ASSUME NEW p \in 1..21
  PROVE  /\ Whole[p].do = "drop" =>
              \/ p = 1 /\ Whole[p].on = "session_messages"
              \/ p = 2 /\ Whole[p].on = "sessions"
              \/ p = 3 /\ Whole[p].on = "messages"
              \/ p = 4 /\ Whole[p].on = "tools"
              \/ p = 5 /\ Whole[p].on = "schema_version"
              \/ p = 6 /\ Whole[p].on = "raw_requests"
         /\ Whole[p].do = "create" =>
              \/ p = 7 /\ Whole[p].on = "schema_version"
              \/ p = 8 /\ Whole[p].on = "tools"
              \/ p = 9 /\ Whole[p].on = "messages"
              \/ p = 10 /\ Whole[p].on = "sessions"
              \/ p = 11 /\ Whole[p].on = "session_messages"
              \/ p = 14 /\ Whole[p].on = "raw_requests"
         /\ Whole[p].do = "index" => p = 12 \/ p = 15
         /\ Whole[p].do = "add" =>
              \/ p = 17 /\ Whole[p].on = "user"
              \/ p = 18 /\ Whole[p].on = "project"
              \/ p = 20 /\ Whole[p].on = "provider"
         /\ Whole[p].do = "insert" => p = 13 /\ Whole[p].to = 3
         /\ Whole[p].do = "update" =>
              \/ p = 16 /\ Whole[p].to = 4
              \/ p = 19 /\ Whole[p].to = 5
              \/ p = 21 /\ Whole[p].to = 6
<1> USE DEF Drop, Create, Index, AddColumn, InsertVersion, UpdateVersion, Statement
<1>1. CASE p \in 1..6
  BY <1>1 DEF Whole
<1>2. CASE p \in 7..11
  BY <1>2 DEF Whole
<1>3. CASE p \in 12..14
  BY <1>3 DEF Whole
<1>4. CASE p \in 15..18
  BY <1>4 DEF Whole
<1>5. CASE p \in 19..21
  BY <1>5 DEF Whole
<1> QED
  BY <1>1, <1>2, <1>3, <1>4, <1>5

\* A statement was executed: the migration goes on with the next one.
LEMMA Advanced ==
  ASSUME TypeOK, Migrating, pc = "migrating", Advance
  PROVE  /\ Pos \in 1..21 /\ Pos' = Pos + 1 /\ Migrating' /\ at' \in Nat \ {0}
         /\ pc' = IF Pos = 21 THEN "ready" ELSE "migrating"
<1>1. Pos \in 1..21 /\ (at = Len(Program(from)) <=> Pos = 21)
  BY CurrentAt
<1>2. /\ at \in Nat \ {0} /\ at' = at + 1 /\ from' = from
      /\ pc' = IF at = Len(Program(from)) THEN "ready" ELSE pc
  BY DEF TypeOK, Advance
<1>3. pc' = IF Pos = 21 THEN "ready" ELSE "migrating"
  BY <1>1, <1>2
<1>4. Offset(from) \in Nat
  BY DEF TypeOK, Offset, schemaVersion
<1>5. Pos' = Pos + 1
  BY <1>2, <1>4 DEF Pos
<1>6. Migrating'
  <2> SUFFICES ASSUME pc' = "migrating"
               PROVE  from < schemaVersion /\ at + 1 <= Len(Program(from))
    BY <1>2 DEF Migrating
  <2>1. from < schemaVersion /\ at <= Len(Program(from)) /\ at # Len(Program(from))
    BY <1>1, <1>3 DEF Migrating
  <2>2. Len(Program(from)) \in Nat
    <3>1. Part(Program(from), Offset(from))
      BY ProgramPart DEF TypeOK
    <3> QED
      BY <3>1, LenProperties DEF Part
  <2> QED
    BY <1>2, <2>1, <2>2
<1> QED
  BY <1>1, <1>2, <1>3, <1>5, <1>6

\* What is executed where.
LEMMA RunningAt ==
  ASSUME TypeOK, Migrating
  PROVE  /\ Running("drop") =>
              \/ Pos = 1 /\ Current.on = "session_messages"
              \/ Pos = 2 /\ Current.on = "sessions"
              \/ Pos = 3 /\ Current.on = "messages"
              \/ Pos = 4 /\ Current.on = "tools"
              \/ Pos = 5 /\ Current.on = "schema_version"
              \/ Pos = 6 /\ Current.on = "raw_requests"
         /\ Running("create") =>
              /\ Current.on \in Tables
              /\ \/ Pos = 7 /\ Current.on = "schema_version"
                 \/ Pos = 8 /\ Current.on = "tools"
                 \/ Pos = 9 /\ Current.on = "messages"
                 \/ Pos = 10 /\ Current.on = "sessions"
                 \/ Pos = 11 /\ Current.on = "session_messages"
                 \/ Pos = 14 /\ Current.on = "raw_requests"
         /\ Running("index") => Pos = 12 \/ Pos = 15
         /\ Running("add") =>
              /\ Current.on \in AddedColumns
              /\ \/ Pos = 17 /\ Current.on = "user"
                 \/ Pos = 18 /\ Current.on = "project"
                 \/ Pos = 20 /\ Current.on = "provider"
         /\ Running("insert") => Pos = 13 /\ Current.to = 3
         /\ Running("update") =>
              \/ Pos = 16 /\ Current.to = 4
              \/ Pos = 19 /\ Current.to = 5
              \/ Pos = 21 /\ Current.to = 6
<1>1. ASSUME NEW do, Running(do)
      PROVE  Pos \in 1..21 /\ Whole[Pos].do = do /\ Current = Whole[Pos]
  BY <1>1, CurrentAt DEF Running
<1>2. Running("drop") =>
        \/ Pos = 1 /\ Current.on = "session_messages"
        \/ Pos = 2 /\ Current.on = "sessions"
        \/ Pos = 3 /\ Current.on = "messages"
        \/ Pos = 4 /\ Current.on = "tools"
        \/ Pos = 5 /\ Current.on = "schema_version"
        \/ Pos = 6 /\ Current.on = "raw_requests"
  BY <1>1, WholeAt
<1>3. Running("create") =>
        /\ Current.on \in Tables
        /\ \/ Pos = 7 /\ Current.on = "schema_version"
           \/ Pos = 8 /\ Current.on = "tools"
           \/ Pos = 9 /\ Current.on = "messages"
           \/ Pos = 10 /\ Current.on = "sessions"
           \/ Pos = 11 /\ Current.on = "session_messages"
           \/ Pos = 14 /\ Current.on = "raw_requests"
  BY <1>1, WholeAt DEF Tables, DataTables
<1>4. Running("index") => Pos = 12 \/ Pos = 15
  BY <1>1, WholeAt
<1>5. Running("add") =>
        /\ Current.on \in AddedColumns
        /\ \/ Pos = 17 /\ Current.on = "user"
           \/ Pos = 18 /\ Current.on = "project"
           \/ Pos = 20 /\ Current.on = "provider"
  BY <1>1, WholeAt DEF AddedColumns
<1>6. Running("insert") => Pos = 13 /\ Current.to = 3
  BY <1>1, WholeAt
<1>7. Running("update") =>
        \/ Pos = 16 /\ Current.to = 4
        \/ Pos = 19 /\ Current.to = 5
        \/ Pos = 21 /\ Current.to = 6
  BY <1>1, WholeAt
<1> QED
  BY <1>2, <1>3, <1>4, <1>5, <1>6, <1>7

----------------------------------------------------------------------------
(* Every step keeps the invariant, and the rows                             *)

RowsKept == misread \/ (rows \ legacy) \subseteq rows'

LEMMA InitInv == Init => MigrationInv
<1> SUFFICES ASSUME Init PROVE MigrationInv
  OBVIOUS
<1>1. PICK v \in InitialVersions :
        /\ tables \in TablesOf(v) /\ columns = ColumnsOf(v)
        /\ versions = {v} \ {0} /\ rows = tables \cap DataTables
        /\ legacy = IF v < 3 THEN rows ELSE {}
  BY DEF Init
<1>2. v = 0 \/ v = 1 \/ v = 2 \/ v = 3 \/ v = 4 \/ v = 5 \/ v = 6
  BY InitialAssumption DEF schemaVersion
<1>3. /\ tables \subseteq Tables
      /\ v = 3 => tables = Tables \ {"raw_requests"}
      /\ v > 3 => tables = Tables
  <2>1. CASE v = 0
    BY <1>1, <2>1 DEF TablesOf
  <2>2. CASE v \in {1, 2}
    BY <1>1, <2>2 DEF TablesOf, Tables
  <2>3. CASE v = 3
    BY <1>1, <2>3 DEF TablesOf
  <2>4. CASE v > 3
    BY <1>1, <1>2, <2>4 DEF TablesOf
  <2> QED
    BY <1>2, <2>1, <2>2, <2>3, <2>4
<1>4. ColumnsOf(v) = IF v = 6 THEN AddedColumns ELSE IF v = 5 THEN {"user", "project"} ELSE {}
  BY <1>2 DEF ColumnsOf, AddedColumns
<1>5. TypeOK
  <2>1. /\ tables \subseteq Tables /\ rows \subseteq tables \cap DataTables
        /\ legacy \subseteq tables \cap DataTables
    BY <1>1, <1>3
  <2>2. columns \subseteq AddedColumns
    BY <1>1, <1>4 DEF AddedColumns
  <2>3. versions \subseteq 1..schemaVersion
    BY <1>1, <1>2 DEF schemaVersion
  <2>4. faulted \in BOOLEAN /\ misread \in BOOLEAN /\ undropped \in BOOLEAN
    BY DEF Init
  <2>5. /\ pc \in {"down", "opening", "migrating", "ready", "refused"}
        /\ from \in 0..schemaVersion /\ at \in Nat \ {0}
    BY DEF Init, schemaVersion
  <2>6. faults \in 0..MaxFaults /\ crashes \in 0..MaxCrashes /\ starts \in 0..MaxStarts
    BY BoundsAssumption DEF Init
  <2> QED
    BY <2>1, <2>2, <2>3, <2>4, <2>5, <2>6 DEF TypeOK
<1>6. Versioned
  <2>1. versions = IF v = 0 THEN {} ELSE {v}
    BY <1>1
  <2> QED
    BY <1>1, <1>2, <1>3, <1>4, <2>1 DEF Versioned, Stale
<1>7. pc = "down"
  BY DEF Init
<1> QED
  BY <1>5, <1>6, <1>7 DEF MigrationInv, Migrating, ReadInv, FaultInv

\* A step that leaves the database alone and leads out of a migration.
LEMMA LeaveStep ==
  ASSUME MigrationInv, UNCHANGED << database, misread >>,
         pc' # "migrating", pc' = "ready" => pc = "ready",
         pc' = "refused" => faulted' \/ ~Coherent
  PROVE  Migrating' /\ ReadInv' /\ FaultInv' /\ RowsKept
<1>1. UNCHANGED << tables, columns, versions, rows, legacy, misread >>
  BY DEF database
<1>2. Migrating' /\ RowsKept
  BY <1>1 DEF Migrating, RowsKept
<1>3. ReadInv'
  BY <1>1 DEF MigrationInv, ReadInv, Versioned, Stale
<1>4. Coherent' <=> Coherent
  BY <1>1 DEF Coherent, StoredVersion
<1>5. FaultInv'
  BY <1>4 DEF FaultInv
<1> QED
  BY <1>2, <1>3, <1>5

LEMMA FaultTypes ==
  ASSUME TypeOK, Works \/ Fault
  PROVE  faults' \in 0..MaxFaults /\ faulted' \in BOOLEAN /\ (~faulted' => ~faulted)
<1>1. faults \in 0..MaxFaults /\ faulted \in BOOLEAN
  BY DEF TypeOK
<1>2. CASE Works
  <2>1. faults' = faults /\ faulted' = faulted
    BY <1>2 DEF Works
  <2> QED
    BY <1>1, <2>1
<1>3. CASE Fault
  <2>1. faulted' = TRUE
    BY <1>3 DEF Fault
  <2>2. faults' \in 0..MaxFaults
    BY <1>1, <1>3, BoundsAssumption DEF Fault
  <2> QED
    BY <2>1, <2>2
<1> QED
  BY <1>2, <1>3

LEMMA DropTableStep ==
  ASSUME MigrationInv, DropTable
  PROVE  MigrationInv' /\ RowsKept
<1>1. /\ TypeOK /\ Migrating /\ pc = "migrating" /\ Pos \in 1..6
      /\ Advance
  BY RunningAt DEF MigrationInv, DropTable, Running
<1>2. /\ Pos' = Pos + 1 /\ Migrating' /\ at' \in Nat \ {0} /\ pc' = "migrating"
      /\ UNCHANGED << from, misread, crashes, starts >>
  BY <1>1, Advanced DEF Advance
<1>3. /\ faults' \in 0..MaxFaults /\ faulted' \in BOOLEAN
      /\ ~faulted' => ~faulted
  <2>1. Works \/ Fault
    BY DEF DropTable
  <2> QED
    BY <1>1, <2>1, FaultTypes
<1>4. PICK t : \/ UNCHANGED database
               \/ /\ tables' = tables \ {t} /\ rows' = rows \ {t}
                  /\ legacy' = legacy \ {t}
                  /\ columns' = {} \/ columns' = columns
                  /\ versions' = {} \/ versions' = versions
  BY DEF DropTable
<1>8. undropped' \in BOOLEAN
  BY <1>1 DEF DropTable, TypeOK
<1>5. TypeOK'
  <2>1. /\ tables' \subseteq Tables /\ columns' \subseteq AddedColumns
        /\ versions' \subseteq 1..schemaVersion /\ rows' \subseteq tables' \cap DataTables
        /\ legacy' \subseteq tables' \cap DataTables /\ undropped' \in BOOLEAN
    BY <1>1, <1>4, <1>8 DEF TypeOK, database
  <2> QED
    BY <1>1, <1>2, <1>3, <1>8, <2>1 DEF TypeOK
<1>6. ReadInv' /\ RowsKept
  <2>1. CASE misread
    BY <1>2, <2>1 DEF ReadInv, RowsKept
  <2>2. CASE ~misread
    <3>1. /\ versions = {} \/ (Stale /\ versions \subseteq {1, 2, 3})
          /\ columns = {} /\ rows \subseteq legacy
      BY <1>1, <2>2 DEF MigrationInv, ReadInv, Versioned, Staged, Stale
    <3>2. /\ versions' = {} \/ (versions' = versions /\ Stale')
          /\ columns' = {} /\ rows' \subseteq legacy'
      BY <1>4, <3>1 DEF database, Stale
    <3>3. Versioned'
      BY <3>1, <3>2 DEF Versioned, Stale
    <3>4. Staged'
      BY <1>1, <1>2, <3>2 DEF Staged, Stale
    <3> QED
      BY <1>2, <3>1, <3>3, <3>4 DEF ReadInv, RowsKept
  <2> QED
    BY <2>1, <2>2
<1>7. FaultInv'
  <2> SUFFICES ASSUME ~faulted' PROVE StagedVersion'
    BY <1>2 DEF FaultInv
  <2>1. CASE Pos = 5
    <3>1. Works
      BY <2>1 DEF DropTable, Fault
    <3>2. Current.on = "schema_version" /\ ~RefusesDrop("schema_version")
      <4>1. "schema_version" \notin legacy
        BY <1>1 DEF TypeOK, DataTables
      <4>2. Current.on = "schema_version"
        BY <1>1, <2>1, RunningAt DEF DropTable
      <4>3. Children("schema_version") = {}
        BY DEF Children
      <4>4. LegacyChildren("schema_version") = {}
        BY <4>1 DEF LegacyChildren
      <4> QED
        BY <4>2, <4>3, <4>4 DEF RefusesDrop
    <3>3. ~Fault
      BY DEF Fault
    <3>4. versions' = {}
      BY <3>2, <3>3 DEF DropTable
    <3> QED
      BY <1>2, <2>1, <3>4 DEF StagedVersion
  <2>2. CASE Pos = 6
    <3>1. versions = {}
      BY <1>1, <1>3, <2>2 DEF MigrationInv, FaultInv, StagedVersion
    <3>2. versions' = {}
      BY <1>4, <3>1 DEF database
    <3> QED
      BY <1>2, <2>2, <3>2 DEF StagedVersion
  <2>3. CASE Pos < 5
    BY <1>1, <1>2, <2>3 DEF StagedVersion
  <2> QED
    BY <1>1, <2>1, <2>2, <2>3
<1> QED
  BY <1>2, <1>5, <1>6, <1>7 DEF MigrationInv

\* A statement worked, and kept all there was in the database but the columns
\* and the version.
LEMMA WorkedTypes ==
  ASSUME TypeOK, Migrating, pc = "migrating", Works, Advance,
         tables' \subseteq Tables, columns' \subseteq AddedColumns,
         versions' \subseteq 1..schemaVersion, rows' \subseteq tables' \cap DataTables,
         legacy' \subseteq tables' \cap DataTables, undropped' \in BOOLEAN
  PROVE  /\ TypeOK' /\ Migrating' /\ Pos \in 1..21 /\ Pos' = Pos + 1
         /\ pc' = IF Pos = 21 THEN "ready" ELSE "migrating"
         /\ UNCHANGED << from, misread, faults, faulted, crashes, starts >>
<1>1. /\ Pos \in 1..21 /\ Pos' = Pos + 1 /\ Migrating' /\ at' \in Nat \ {0}
      /\ pc' = IF Pos = 21 THEN "ready" ELSE "migrating"
  BY Advanced
<1>2. UNCHANGED << from, misread, faults, faulted, crashes, starts >>
  BY DEF Advance, Works
<1>3. pc' \in {"down", "opening", "migrating", "ready", "refused"}
  BY <1>1
<1>4. /\ from' \in 0..schemaVersion /\ faults' \in 0..MaxFaults
      /\ faulted' \in BOOLEAN /\ misread' \in BOOLEAN
      /\ crashes' \in 0..MaxCrashes /\ starts' \in 0..MaxStarts
  BY <1>2 DEF TypeOK
<1>5. TypeOK'
  BY <1>1, <1>3, <1>4 DEF TypeOK
<1> QED
  BY <1>1, <1>2, <1>5

LEMMA CreateTableStep ==
  ASSUME MigrationInv, CreateTable
  PROVE  MigrationInv' /\ RowsKept
<1>1. /\ TypeOK /\ Migrating /\ pc = "migrating" /\ Works /\ Advance
      /\ tables' = tables \cup {Current.on}
      /\ columns' = columns /\ versions' = versions /\ rows' = rows
      /\ legacy' = legacy /\ undropped' = undropped
  BY DEF MigrationInv, CreateTable, Running
<1>2. /\ Current.on \in Tables
      /\ \/ Pos = 7 /\ Current.on = "schema_version"
         \/ Pos = 8 /\ Current.on = "tools"
         \/ Pos = 9 /\ Current.on = "messages"
         \/ Pos = 10 /\ Current.on = "sessions"
         \/ Pos = 11 /\ Current.on = "session_messages"
         \/ Pos = 14 /\ Current.on = "raw_requests"
  BY <1>1, RunningAt DEF CreateTable
<1>3. /\ tables' \subseteq Tables /\ columns' \subseteq AddedColumns
      /\ versions' \subseteq 1..schemaVersion /\ rows' \subseteq tables' \cap DataTables
        /\ legacy' \subseteq tables' \cap DataTables /\ undropped' \in BOOLEAN
  BY <1>1, <1>2 DEF TypeOK
<1>4. /\ TypeOK' /\ Migrating' /\ Pos' = Pos + 1
      /\ pc' = IF Pos = 21 THEN "ready" ELSE "migrating"
      /\ UNCHANGED << from, misread, faults, faulted, crashes, starts >>
  BY <1>1, <1>3, WorkedTypes
<1>5. pc' = "migrating"
  BY <1>2, <1>4
<1>6. ReadInv' /\ RowsKept
  <2>1. CASE misread
    BY <1>1, <1>4, <2>1 DEF ReadInv, RowsKept
  <2>2. CASE ~misread
    <3>1. Versioned /\ Staged
      BY <1>1, <2>2 DEF MigrationInv, ReadInv
    <3>2. Versioned'
      BY <1>1, <1>3, <3>1 DEF Versioned, Stale
    <3>3. Staged'
      <4>1. Pos <= 11 => versions' = {} \/ Stale'
        BY <1>1, <1>2, <3>1 DEF Staged, Stale
      <4>2. Pos = 14 => versions' = {3} \/ (Stale' /\ 3 \in versions')
        BY <1>1, <3>1 DEF Staged, Stale
      <4> QED
        BY <1>1, <1>2, <1>4, <3>1, <4>1, <4>2 DEF Staged, Stale
    <3> QED
      BY <1>1, <1>5, <3>2, <3>3 DEF ReadInv, RowsKept
  <2> QED
    BY <2>1, <2>2
<1>7. FaultInv'
  <2> SUFFICES ASSUME ~faulted' PROVE StagedVersion'
    BY <1>5 DEF FaultInv
  <2>1. StagedVersion
    BY <1>1, <1>4 DEF MigrationInv, FaultInv
  <2> QED
    BY <1>1, <1>2, <1>4, <2>1 DEF StagedVersion
<1> QED
  BY <1>4, <1>6, <1>7 DEF MigrationInv

LEMMA CreateIndexStep ==
  ASSUME MigrationInv, CreateIndex
  PROVE  MigrationInv' /\ RowsKept
<1>1. /\ TypeOK /\ Migrating /\ pc = "migrating" /\ Works /\ Advance
      /\ tables' = tables /\ columns' = columns /\ versions' = versions /\ rows' = rows
      /\ legacy' = legacy /\ undropped' = undropped
  BY DEF MigrationInv, CreateIndex, Running, database
<1>2. Pos = 12 \/ Pos = 15
  BY <1>1, RunningAt DEF CreateIndex
<1>3. /\ tables' \subseteq Tables /\ columns' \subseteq AddedColumns
      /\ versions' \subseteq 1..schemaVersion /\ rows' \subseteq tables' \cap DataTables
        /\ legacy' \subseteq tables' \cap DataTables /\ undropped' \in BOOLEAN
  BY <1>1 DEF TypeOK
<1>4. /\ TypeOK' /\ Migrating' /\ Pos' = Pos + 1
      /\ pc' = IF Pos = 21 THEN "ready" ELSE "migrating"
      /\ UNCHANGED << from, misread, faults, faulted, crashes, starts >>
  BY <1>1, <1>3, WorkedTypes
<1>5. pc' = "migrating"
  BY <1>2, <1>4
<1>6. ReadInv' /\ RowsKept
  <2>1. CASE misread
    BY <1>1, <1>4, <2>1 DEF ReadInv, RowsKept
  <2>2. CASE ~misread
    <3>1. Versioned /\ Staged
      BY <1>1, <2>2 DEF MigrationInv, ReadInv
    <3>2. Versioned'
      BY <1>1, <3>1 DEF Versioned, Stale
    <3>3. Staged'
      BY <1>1, <1>2, <1>4, <3>1 DEF Staged, Stale
    <3> QED
      BY <1>1, <1>5, <3>2, <3>3 DEF ReadInv, RowsKept
  <2> QED
    BY <2>1, <2>2
<1>7. FaultInv'
  <2> SUFFICES ASSUME ~faulted' PROVE StagedVersion'
    BY <1>5 DEF FaultInv
  <2>1. StagedVersion
    BY <1>1, <1>4 DEF MigrationInv, FaultInv
  <2> QED
    BY <1>1, <1>2, <1>4, <2>1 DEF StagedVersion
<1> QED
  BY <1>4, <1>6, <1>7 DEF MigrationInv

\* The base version is recorded where no other version is.
LEMMA RecordBaseVersionStep ==
  ASSUME MigrationInv, RecordBaseVersion
  PROVE  MigrationInv' /\ RowsKept
<1>1. /\ TypeOK /\ Migrating /\ pc = "migrating" /\ Works /\ Advance
      /\ tables' = tables /\ columns' = columns /\ rows' = rows
      /\ legacy' = legacy /\ undropped' = undropped
      /\ versions' = versions \cup {Current.to}
  BY DEF MigrationInv, RecordBaseVersion, Running
<1>2. Pos = 13 /\ Current.to = 3
  BY <1>1, RunningAt DEF RecordBaseVersion
<1>3. /\ tables' \subseteq Tables /\ columns' \subseteq AddedColumns
      /\ versions' \subseteq 1..schemaVersion /\ rows' \subseteq tables' \cap DataTables
        /\ legacy' \subseteq tables' \cap DataTables /\ undropped' \in BOOLEAN
  BY <1>1, <1>2 DEF TypeOK, schemaVersion
<1>4. /\ TypeOK' /\ Migrating' /\ Pos' = Pos + 1
      /\ pc' = IF Pos = 21 THEN "ready" ELSE "migrating"
      /\ UNCHANGED << from, misread, faults, faulted, crashes, starts >>
  BY <1>1, <1>3, WorkedTypes
<1>5. pc' = "migrating" /\ Pos' = 14
  BY <1>2, <1>4
<1>6. ReadInv' /\ RowsKept
  <2>1. CASE misread
    BY <1>1, <1>4, <2>1 DEF ReadInv, RowsKept
  <2>2. CASE ~misread
    <3>1. Versioned /\ Staged
      BY <1>1, <2>2 DEF MigrationInv, ReadInv
    <3>2. /\ versions = {} \/ (Stale /\ versions \subseteq {1, 2, 3})
          /\ columns = {} /\ rows \subseteq legacy
          /\ Tables \ {"raw_requests"} \subseteq tables
      BY <1>2, <3>1 DEF Versioned, Staged, Tables, DataTables, Stale
    <3>3. /\ versions' = {3} \/ (Stale' /\ 3 \in versions' /\ versions' \subseteq {1, 2, 3})
          /\ columns' = {} /\ rows' \subseteq legacy'
          /\ Tables \ {"raw_requests"} \subseteq tables'
      BY <1>1, <1>2, <3>2 DEF Stale
    <3>4. Versioned'
      BY <3>3 DEF Versioned, Stale
    <3>5. Staged'
      BY <1>5, <3>3 DEF Staged, Stale
    <3> QED
      BY <1>1, <1>5, <3>4, <3>5 DEF ReadInv, RowsKept
  <2> QED
    BY <2>1, <2>2
<1>7. FaultInv'
  <2> SUFFICES ASSUME ~faulted' PROVE StagedVersion'
    BY <1>5 DEF FaultInv
  <2>1. StagedVersion
    BY <1>1, <1>4 DEF MigrationInv, FaultInv
  <2>2. versions' = {3}
    BY <1>1, <1>2, <2>1 DEF StagedVersion
  <2> QED
    BY <1>5, <2>2 DEF StagedVersion
<1> QED
  BY <1>4, <1>6, <1>7 DEF MigrationInv

\* The log is refused.
LEMMA RefuseStep ==
  ASSUME MigrationInv, Works \/ Fault, Refuse, faulted' \/ ~Coherent
  PROVE  MigrationInv' /\ RowsKept
<1>1. TypeOK
  BY DEF MigrationInv
<1>2. /\ pc' = "refused" /\ UNCHANGED << from, at, misread, undropped, crashes, starts >>
      /\ UNCHANGED << database, misread >>
      /\ UNCHANGED << tables, columns, versions, rows, legacy >>
  BY DEF Refuse, database
<1>3. faults' \in 0..MaxFaults /\ faulted' \in BOOLEAN
  BY <1>1, FaultTypes
<1>4. TypeOK'
  BY <1>1, <1>2, <1>3 DEF TypeOK
<1>5. Migrating' /\ ReadInv' /\ FaultInv' /\ RowsKept
  BY <1>2, LeaveStep
<1> QED
  BY <1>4, <1>5 DEF MigrationInv

LEMMA AddColumnToStep ==
  ASSUME MigrationInv, AddColumnTo
  PROVE  MigrationInv' /\ RowsKept
<1>1. TypeOK /\ Migrating /\ pc = "migrating" /\ Works
  BY DEF MigrationInv, AddColumnTo, Running
<1>2. /\ Current.on \in AddedColumns
      /\ \/ Pos = 17 /\ Current.on = "user"
         \/ Pos = 18 /\ Current.on = "project"
         \/ Pos = 20 /\ Current.on = "provider"
  BY <1>1, RunningAt DEF AddColumnTo
<1>3. CASE Current.on \in columns \/ "sessions" \notin tables
  <2>1. Refuse
    BY <1>3 DEF AddColumnTo
  <2>2. faulted' \/ ~Coherent
    <3> SUFFICES ASSUME ~faulted', Coherent PROVE FALSE
      OBVIOUS
    <3>1. StagedVersion /\ Cardinality(versions) <= 1
      BY <1>1, FaultTypes DEF MigrationInv, FaultInv, Coherent
    <3>2. Pos = 20 => versions = {5}
      BY <3>1 DEF StagedVersion
    <3>3. Pos # 20 => versions = {4}
      BY <1>2, <3>1 DEF StagedVersion
    <3>4. StoredVersion = IF Pos = 20 THEN 5 ELSE 4
      BY <1>1, <3>2, <3>3, Stored DEF TypeOK
    <3>5. ColumnsOf(StoredVersion) = IF Pos = 20 THEN {"user", "project"} ELSE {}
      BY <3>4 DEF ColumnsOf
    <3>6. "sessions" \in tables /\ columns = ColumnsOf(StoredVersion)
      BY <3>4 DEF Coherent
    <3> QED
      BY <1>2, <1>3, <3>5, <3>6
  <2> QED
    BY <1>1, <2>1, <2>2, RefuseStep
<1>4. CASE Current.on \notin columns /\ "sessions" \in tables
  <2>1. /\ Advance /\ columns' = columns \cup {Current.on}
        /\ tables' = tables /\ versions' = versions /\ rows' = rows
        /\ legacy' = legacy /\ undropped' = undropped
    BY <1>4 DEF AddColumnTo
  <2>2. /\ tables' \subseteq Tables /\ columns' \subseteq AddedColumns
        /\ versions' \subseteq 1..schemaVersion /\ rows' \subseteq tables' \cap DataTables
        /\ legacy' \subseteq tables' \cap DataTables /\ undropped' \in BOOLEAN
    BY <1>1, <1>2, <2>1 DEF TypeOK
  <2>3. /\ TypeOK' /\ Migrating' /\ Pos' = Pos + 1
        /\ pc' = IF Pos = 21 THEN "ready" ELSE "migrating"
        /\ UNCHANGED << from, misread, faults, faulted, crashes, starts >>
    BY <1>1, <2>1, <2>2, WorkedTypes
  <2>4. pc' = "migrating"
    BY <1>2, <2>3
  <2>5. ReadInv' /\ RowsKept
    <3>1. CASE misread
      BY <2>1, <2>3, <3>1 DEF ReadInv, RowsKept
    <3>2. CASE ~misread
      <4>1. Versioned /\ Staged
        BY <1>1, <3>2 DEF MigrationInv, ReadInv
      <4>2. ASSUME Pos = 17 PROVE Versioned' /\ Staged'
        <5>1. versions = {4} /\ columns = {} /\ Current.on = "user" /\ tables = Tables
          BY <1>2, <1>4, <4>1, <4>2 DEF Versioned, Staged, Stale
        <5>2. versions' = {4} /\ columns' = {"user"} /\ tables' = Tables /\ Pos' = 18
          BY <2>1, <2>3, <4>2, <5>1
        <5>3. Versioned'
          BY <5>2 DEF Versioned, Stale
        <5>4. Staged'
          BY <5>2 DEF Staged, Stale
        <5> QED
          BY <5>3, <5>4
      <4>3. ASSUME Pos = 18 PROVE Versioned' /\ Staged'
        <5>1. versions = {4} /\ columns = {"user"} /\ Current.on = "project" /\ tables = Tables
          BY <1>2, <4>1, <4>3 DEF Versioned, Staged, Stale
        <5>2. /\ versions' = {4} /\ columns' = {"user", "project"}
              /\ tables' = Tables /\ Pos' = 19
          BY <2>1, <2>3, <4>3, <5>1
        <5>3. Versioned'
          BY <5>2 DEF Versioned, Stale
        <5>4. Staged'
          BY <5>2 DEF Staged, Stale
        <5> QED
          BY <5>3, <5>4
      <4>4. ASSUME Pos = 20 PROVE Versioned' /\ Staged'
        <5>1. /\ versions = {5} /\ columns = {"user", "project"}
              /\ Current.on = "provider" /\ tables = Tables
          BY <1>2, <1>4, <4>1, <4>4 DEF Versioned, Staged, AddedColumns, Stale
        <5>2. /\ versions' = {5} /\ columns' = AddedColumns
              /\ tables' = Tables /\ Pos' = 21
          BY <2>1, <2>3, <4>4, <5>1 DEF AddedColumns
        <5>3. Versioned'
          BY <5>2 DEF Versioned, Stale
        <5>4. Staged'
          BY <5>2 DEF Staged, Stale
        <5> QED
          BY <5>3, <5>4
      <4>5. Versioned' /\ Staged'
        BY <1>2, <4>2, <4>3, <4>4
      <4> QED
        BY <2>1, <2>4, <4>5 DEF ReadInv, RowsKept
    <3> QED
      BY <3>1, <3>2
  <2>6. FaultInv'
    <3> SUFFICES ASSUME ~faulted' PROVE StagedVersion'
      BY <2>4 DEF FaultInv
    <3>1. StagedVersion
      BY <1>1, <2>3 DEF MigrationInv, FaultInv
    <3> QED
      BY <1>2, <2>1, <2>3, <3>1 DEF StagedVersion
  <2> QED
    BY <2>3, <2>5, <2>6 DEF MigrationInv
<1> QED
  BY <1>3, <1>4

LEMMA RecordVersionStep ==
  ASSUME MigrationInv, RecordVersion
  PROVE  MigrationInv' /\ RowsKept
<1>1. TypeOK /\ Migrating /\ pc = "migrating" /\ Works
  BY DEF MigrationInv, RecordVersion, Running
<1>2. \/ Pos = 16 /\ Current.to = 4
      \/ Pos = 19 /\ Current.to = 5
      \/ Pos = 21 /\ Current.to = 6
  BY <1>1, RunningAt DEF RecordVersion
<1>3. Cardinality(versions) \in Nat
  BY <1>1, Stored DEF TypeOK
<1>4. CASE Cardinality(versions) > 1
  <2>1. Refuse
    BY <1>4 DEF RecordVersion
  <2>2. ~Coherent
    BY <1>3, <1>4 DEF Coherent
  <2> QED
    BY <1>1, <2>1, <2>2, RefuseStep
<1>5. CASE ~(Cardinality(versions) > 1)
  <2>1. /\ Advance /\ tables' = tables /\ columns' = columns /\ rows' = rows
      /\ legacy' = legacy /\ undropped' = undropped
        /\ versions' = IF versions = {} THEN {} ELSE {Current.to}
    BY <1>5 DEF RecordVersion
  <2>2. /\ tables' \subseteq Tables /\ columns' \subseteq AddedColumns
        /\ versions' \subseteq 1..schemaVersion /\ rows' \subseteq tables' \cap DataTables
        /\ legacy' \subseteq tables' \cap DataTables /\ undropped' \in BOOLEAN
    BY <1>1, <1>2, <2>1 DEF TypeOK, schemaVersion
  <2>3. /\ TypeOK' /\ Migrating' /\ Pos' = Pos + 1
        /\ pc' = IF Pos = 21 THEN "ready" ELSE "migrating"
        /\ UNCHANGED << from, misread, faults, faulted, crashes, starts >>
    BY <1>1, <2>1, <2>2, WorkedTypes
  <2>4. ReadInv' /\ RowsKept
    <3>1. CASE misread
      BY <2>1, <2>3, <3>1 DEF ReadInv, RowsKept
    <3>2. CASE ~misread
      <4>1. Versioned /\ Staged
        BY <1>1, <3>2 DEF MigrationInv, ReadInv
      <4>2. ASSUME Pos = 16 PROVE ReadInv'
        <5>1. versions = {3} /\ columns = {} /\ Current.to = 4 /\ tables = Tables
          <6>1. versions = {3} \/ (Stale /\ 3 \in versions)
            BY <4>1, <4>2 DEF Staged
          <6>2. versions # {} => versions = {StoredVersion}
            BY <1>1, <1>3, <1>5, Stored DEF TypeOK
          <6>3. versions = {3}
            BY <6>1, <6>2 DEF Stale
          <6> QED
            BY <1>1, <1>2, <4>1, <4>2, <6>3 DEF Versioned, Staged, TypeOK, Stale
        <5>2. /\ versions' = {4} /\ columns' = {} /\ tables' = Tables /\ Pos' = 17
              /\ pc' = "migrating"
          BY <2>1, <2>3, <4>2, <5>1
        <5>3. Versioned'
          BY <5>2 DEF Versioned, Stale
        <5>4. Staged'
          BY <5>2 DEF Staged, Stale
        <5> QED
          BY <5>2, <5>3, <5>4 DEF ReadInv
      <4>3. ASSUME Pos = 19 PROVE ReadInv'
        <5>1. versions = {4} /\ columns = {"user", "project"} /\ Current.to = 5 /\ tables = Tables
          BY <1>2, <4>1, <4>3 DEF Versioned, Staged, Stale
        <5>2. /\ versions' = {5} /\ columns' = {"user", "project"} /\ tables' = Tables
              /\ Pos' = 20 /\ pc' = "migrating"
          BY <2>1, <2>3, <4>3, <5>1
        <5>3. Versioned'
          BY <5>2 DEF Versioned, Stale
        <5>4. Staged'
          BY <5>2 DEF Staged, Stale
        <5> QED
          BY <5>2, <5>3, <5>4 DEF ReadInv
      <4>4. ASSUME Pos = 21 PROVE ReadInv'
        <5>1. /\ versions = {5} /\ columns = AddedColumns
              /\ Current.to = 6 /\ tables = Tables
          BY <1>2, <4>1, <4>4 DEF Versioned, Staged, Stale
        <5>2. /\ versions' = {6} /\ columns' = AddedColumns /\ tables' = Tables
              /\ pc' = "ready"
          BY <2>1, <2>3, <4>4, <5>1
        <5>3. Versioned'
          BY <5>2 DEF Versioned, Stale
        <5> QED
          BY <5>2, <5>3 DEF ReadInv
      <4>5. ReadInv'
        BY <1>2, <4>2, <4>3, <4>4
      <4> QED
        BY <2>1, <4>5 DEF RowsKept
    <3> QED
      BY <3>1, <3>2
  <2>5. FaultInv'
    <3> SUFFICES ASSUME ~faulted', pc' = "migrating" PROVE StagedVersion'
      BY <2>3 DEF FaultInv
    <3>1. StagedVersion
      BY <1>1, <2>3 DEF MigrationInv, FaultInv
    <3>2. versions' = {Current.to}
      BY <1>2, <2>1, <3>1 DEF StagedVersion
    <3>3. \/ Pos' = 17 /\ versions' = {4}
          \/ Pos' = 20 /\ versions' = {5}
      BY <1>2, <2>3, <3>2
    <3> QED
      BY <3>3 DEF StagedVersion
  <2> QED
    BY <2>3, <2>4, <2>5 DEF MigrationInv
<1> QED
  BY <1>4, <1>5

LEMMA FailStep ==
  ASSUME MigrationInv, FailStatement \/ FailPragma
  PROVE  MigrationInv' /\ RowsKept
<1>1. Fault /\ Refuse
  BY DEF FailStatement, FailPragma
<1>2. faulted'
  BY <1>1 DEF Fault
<1> QED
  BY <1>1, <1>2, RefuseStep

LEMMA ReadVersionStep ==
  ASSUME MigrationInv, ReadVersion
  PROVE  MigrationInv' /\ RowsKept
<1>1. /\ TypeOK /\ pc = "opening" /\ at' = 1
      /\ pc' = IF from' < schemaVersion THEN "migrating" ELSE "ready"
      /\ UNCHANGED << tables, columns, versions, rows, legacy, undropped, crashes, starts >>
      /\ Works \/ Fault
  BY DEF MigrationInv, ReadVersion, database
<1>2. faults' \in 0..MaxFaults /\ faulted' \in BOOLEAN /\ (~faulted' => ~faulted)
  BY <1>1, FaultTypes
<1>3. /\ StoredVersion \in 0..schemaVersion
      /\ versions = {} => StoredVersion = 0
      /\ versions # {} => StoredVersion \in versions
      /\ \A k \in versions : StoredVersion <= k
      /\ \A k : versions = {k} => StoredVersion = k
      /\ versions # {} /\ Cardinality(versions) <= 1 => versions = {StoredVersion}
      /\ versions \subseteq 1..schemaVersion
  BY <1>1, Stored DEF TypeOK
<1>4. /\ from' \in 0..schemaVersion /\ misread' \in BOOLEAN
      /\ ~misread' => ~misread
      /\ ~misread' => from' = StoredVersion
      /\ ~faulted' => from' = StoredVersion
  <2>1. CASE Works /\ from' = StoredVersion /\ UNCHANGED misread
    BY <1>1, <1>3, <2>1 DEF TypeOK
  <2>2. CASE Fault /\ from' = 0 /\ misread' = (misread \/ StoredVersion # 0)
    <3>1. faulted' = TRUE
      BY <2>2 DEF Fault
    <3>2. misread' \in BOOLEAN /\ (~misread' => ~misread /\ StoredVersion = 0)
      BY <2>2
    <3> QED
      BY <2>2, <3>1, <3>2 DEF schemaVersion
  <2> QED
    BY <2>1, <2>2 DEF ReadVersion
<1>5. TypeOK'
  <2>1. at' \in Nat \ {0}
    BY <1>1
  <2>2. pc' \in {"down", "opening", "migrating", "ready", "refused"}
    BY <1>1
  <2> QED
    BY <1>1, <1>2, <1>4, <2>1, <2>2 DEF TypeOK
<1>6. Migrating'
  <2> SUFFICES ASSUME pc' = "migrating"
               PROVE  from' < schemaVersion /\ at' <= Len(Program(from'))
    BY DEF Migrating
  <2>1. from' < schemaVersion
    BY <1>1
  <2>2. Part(Program(from'), Offset(from')) /\ Len(Program(from')) + Offset(from') = 21
    BY <1>4, ProgramPart
  <2>3. Len(Program(from')) \in Nat
    BY <2>2, LenProperties DEF Part
  <2>4. Offset(from') \in 0..19
    BY <1>4, <2>1 DEF Offset, schemaVersion
  <2> QED
    BY <1>1, <2>1, <2>2, <2>3, <2>4
<1>7. /\ Pos' = 1 + Offset(from') /\ from' \in Int /\ from' <= 6
      /\ from' < 3 => Pos' = 1
      /\ from' = 3 => Pos' = 14
      /\ from' = 4 => Pos' = 17
      /\ from' = 5 => Pos' = 20
  BY <1>1, <1>4 DEF Pos, Offset, schemaVersion
<1>8. ReadInv' /\ RowsKept
  <2>1. CASE misread'
    BY <1>1, <2>1 DEF ReadInv, RowsKept
  <2>2. CASE ~misread'
    <3>1. Versioned /\ from' = StoredVersion
      BY <1>4, <2>2 DEF MigrationInv, ReadInv
    <3>2. Versioned'
      BY <1>1, <3>1 DEF Versioned, Stale
    <3>3. \/ versions = {} /\ from' = 0
          \/ Stale /\ from' < 3
          \/ versions = {3} /\ from' = 3
          \/ versions = {4} /\ from' = 4
          \/ versions = {5} /\ from' = 5
          \/ versions = {6} /\ from' = 6
      <4>1. CASE Stale
        <5>1. \/ 1 \in versions /\ StoredVersion <= 1
              \/ 2 \in versions /\ StoredVersion <= 2
          BY <1>3, <4>1 DEF Stale
        <5>2. from' <= 2
          BY <1>7, <3>1, <5>1
        <5> QED
          BY <1>7, <4>1, <5>2
      <4>2. CASE ~Stale
        BY <1>3, <3>1, <4>2 DEF Versioned
      <4> QED
        BY <4>1, <4>2
    <3>4. pc' = "ready" => versions' = {6}
      <4>1. pc' = "ready" => ~(from' < 6)
        BY <1>1 DEF schemaVersion
      <4> QED
        BY <1>1, <1>7, <3>3, <4>1
    <3>5. pc' = "migrating" => Staged'
      <4>1. \/ versions' = {} /\ Pos' = 1
            \/ Stale' /\ Pos' = 1
            \/ versions' = {3} /\ Pos' = 14
            \/ versions' = {4} /\ Pos' = 17
            \/ versions' = {5} /\ Pos' = 20
            \/ pc' = "ready"
        <5>1. (Stale' <=> Stale) /\ versions' = versions
          BY <1>1 DEF Stale
        <5>2. from' = 0 => from' < 3
          BY <1>7
        <5>3. from' = 6 => pc' = "ready"
          BY <1>1 DEF schemaVersion
        <5> QED
          BY <1>7, <3>3, <5>1, <5>2, <5>3
      <4> QED
        BY <4>1 DEF Staged, Stale
    <3> QED
      BY <1>1, <3>2, <3>4, <3>5 DEF ReadInv, RowsKept
  <2> QED
    BY <2>1, <2>2
<1>9. FaultInv'
  <2> SUFFICES ASSUME ~faulted', pc' = "migrating" PROVE StagedVersion'
    BY <1>1 DEF FaultInv
  <2>1. from' = StoredVersion /\ from' < schemaVersion
    BY <1>1, <1>4
  <2>2. CASE versions = {}
    <3>1. versions' = {} /\ Pos' = 1
      BY <1>1, <1>3, <1>7, <2>1, <2>2
    <3> QED
      BY <3>1 DEF StagedVersion
  <2>3. CASE versions # {}
    <3>1. from' < 3 \/ from' = 3 \/ from' = 4 \/ from' = 5
      BY <1>3, <1>4, <2>1 DEF schemaVersion
    <3>2. /\ versions' # {}
          /\ Cardinality(versions') <= 1 => versions' = {from'}
      BY <1>1, <1>3, <2>1, <2>3
    <3> QED
      BY <1>7, <3>1, <3>2 DEF StagedVersion
  <2> QED
    BY <2>2, <2>3
<1> QED
  BY <1>5, <1>6, <1>8, <1>9 DEF MigrationInv

LEMMA UseLogStep ==
  ASSUME MigrationInv, UseLog
  PROVE  MigrationInv' /\ RowsKept
<1>1. /\ TypeOK /\ pc = "ready"
      /\ UNCHANGED << tables, columns, versions, legacy, pc, from, at, faults,
                      faulted, misread, undropped, crashes, starts >>
  BY DEF MigrationInv, UseLog
<1>2. rows \subseteq rows' /\ rows' \subseteq tables' \cap DataTables
  BY <1>1 DEF UseLog, TypeOK
<1>3. TypeOK'
  BY <1>1, <1>2 DEF TypeOK
<1>4. ReadInv'
  BY <1>1 DEF MigrationInv, ReadInv, Versioned, Stale
<1>5. Migrating' /\ FaultInv'
  BY <1>1 DEF Migrating, FaultInv
<1> QED
  BY <1>2, <1>3, <1>4, <1>5 DEF MigrationInv, RowsKept

\* The proxy is started, stopped or crashes.
LEMMA ProcessStep ==
  ASSUME MigrationInv, Start \/ Stop \/ Crash
  PROVE  MigrationInv' /\ RowsKept
<1>1. /\ TypeOK /\ pc' \in {"opening", "down"}
      /\ UNCHANGED << database, from, at, faults, misread, undropped >>
      /\ UNCHANGED << tables, columns, versions, rows, legacy >>
      /\ faulted' = FALSE \/ faulted' = faulted
      /\ crashes' = crashes \/ (crashes < MaxCrashes /\ crashes' = crashes + 1)
      /\ starts' = starts \/ (starts < MaxStarts /\ starts' = starts + 1)
  BY DEF MigrationInv, Start, Stop, Crash, database
<1>2. crashes' \in 0..MaxCrashes /\ starts' \in 0..MaxStarts
  BY <1>1, BoundsAssumption DEF TypeOK
<1>3. faulted' \in BOOLEAN
  BY <1>1 DEF TypeOK
<1>4. TypeOK'
  BY <1>1, <1>2, <1>3 DEF TypeOK
<1>5. Migrating' /\ ReadInv' /\ FaultInv' /\ RowsKept
  BY <1>1, LeaveStep
<1> QED
  BY <1>4, <1>5 DEF MigrationInv

LEMMA StutterStep ==
  ASSUME MigrationInv, UNCHANGED vars
  PROVE  MigrationInv' /\ RowsKept
<1>1. UNCHANGED << tables, columns, versions, rows, legacy, pc, from, at, faults, faulted,
                   misread, undropped, crashes, starts >>
  BY DEF vars, database
<1>2. TypeOK'
  BY <1>1 DEF MigrationInv, TypeOK
<1>3. Migrating'
  BY <1>1 DEF MigrationInv, Migrating
<1>4. ReadInv'
  BY <1>1 DEF MigrationInv, ReadInv, Versioned, Staged, Pos, Stale
<1>5. FaultInv'
  BY <1>1 DEF MigrationInv, FaultInv, StagedVersion, Pos, Coherent, StoredVersion
<1> QED
  BY <1>1, <1>2, <1>3, <1>4, <1>5 DEF MigrationInv, RowsKept

LEMMA StepInv ==
  ASSUME MigrationInv, [Next]_vars
  PROVE  MigrationInv' /\ RowsKept
BY DropTableStep, CreateTableStep, CreateIndexStep, AddColumnToStep,
   RecordBaseVersionStep, RecordVersionStep, FailStep, ReadVersionStep, UseLogStep,
   ProcessStep, StutterStep DEF Next, Migrate

----------------------------------------------------------------------------
(* The legacy tables are gone once they had to be                           *)

\* No legacy table is left that could be dropped.
Gone == legacy = {} \/ undropped

\* A version of this schema is recorded behind the DROPs only; so a start that
\* skips them finds no legacy tables.
LegacyInv ==
  /\ (\E v \in versions : v >= 3) => Gone
  /\ pc = "ready" => Gone
  /\ pc = "migrating" =>
       /\ Pos >= 2 => "session_messages" \notin legacy \/ undropped
       /\ Pos >= 3 => "sessions" \notin legacy \/ undropped
       /\ Pos >= 4 => "messages" \notin legacy \/ undropped
       /\ Pos >= 5 => "tools" \notin legacy \/ undropped
       /\ Pos >= 7 => "raw_requests" \notin legacy \/ undropped

\* Behind the DROPs none is left.
LEMMA AllGone ==
  ASSUME TypeOK, LegacyInv, pc = "migrating", Pos \in 7..21
  PROVE  Gone
BY DEF TypeOK, LegacyInv, Gone, DataTables

LEMMA LegacyDrop ==
  ASSUME MigrationInv, LegacyInv, DropTable
  PROVE  LegacyInv'
<1>1. /\ TypeOK /\ Migrating /\ pc = "migrating" /\ Advance
      /\ Running("drop")
  BY DEF MigrationInv, DropTable, Running
<1>2. /\ Pos \in 1..6 /\ Pos' = Pos + 1 /\ pc' = "migrating"
  BY <1>1, Advanced, RunningAt
<1>3. PICK t : /\ t = Current.on
               /\ \/ legacy' = legacy \ {t} /\ undropped' = undropped
                  \/ legacy' = legacy /\ undropped' = (undropped \/ t \in legacy)
               /\ versions' = {} \/ versions' = versions
  BY DEF DropTable, database
<1>4. (undropped => undropped') /\ legacy' \subseteq legacy
  <2>1. undropped => undropped'
    BY <1>3, Zenon
  <2>2. legacy' = legacy \ {t} \/ legacy' = legacy
    BY <1>3, Zenon
  <2> QED
    BY <2>1, <2>2
<1>5. t \notin legacy' \/ undropped'
  BY <1>3, Zenon
<1>6. \/ Pos = 1 /\ t = "session_messages"
      \/ Pos = 2 /\ t = "sessions"
      \/ Pos = 3 /\ t = "messages"
      \/ Pos = 4 /\ t = "tools"
      \/ Pos = 5 /\ t = "schema_version"
      \/ Pos = 6 /\ t = "raw_requests"
  BY <1>1, <1>3, RunningAt
<1>7. (\E v \in versions' : v >= 3) => Gone'
  BY <1>3, <1>4 DEF LegacyInv, Gone
<1>8. ASSUME NEW k \in 1..7, Pos' >= k, k # Pos' PROVE Pos >= k
  BY <1>2, <1>8
<1>9. /\ Pos' >= 2 => "session_messages" \notin legacy' \/ undropped'
      /\ Pos' >= 3 => "sessions" \notin legacy' \/ undropped'
      /\ Pos' >= 4 => "messages" \notin legacy' \/ undropped'
      /\ Pos' >= 5 => "tools" \notin legacy' \/ undropped'
      /\ Pos' >= 7 => "raw_requests" \notin legacy' \/ undropped'
  BY <1>1, <1>2, <1>4, <1>5, <1>6 DEF LegacyInv
<1> QED
  BY <1>2, <1>7, <1>9 DEF LegacyInv

\* The other statements stand behind the DROPs.
LEMMA LegacyStatement ==
  ASSUME MigrationInv, LegacyInv,
         CreateTable \/ CreateIndex \/ AddColumnTo \/ RecordBaseVersion \/ RecordVersion
  PROVE  LegacyInv'
<1>1. /\ TypeOK /\ Migrating /\ pc = "migrating"
      /\ legacy' = legacy /\ undropped' = undropped
  BY DEF MigrationInv, CreateTable, CreateIndex, AddColumnTo, RecordBaseVersion,
         RecordVersion, Running, Refuse, database
<1>2. Pos \in 7..21
  BY <1>1, RunningAt
     DEF CreateTable, CreateIndex, AddColumnTo, RecordBaseVersion, RecordVersion
<1>3. Gone /\ Gone'
  BY <1>1, <1>2, AllGone DEF Gone
<1>4. "session_messages" \notin legacy' \/ undropped'
  BY <1>3 DEF Gone
<1>5. /\ "sessions" \notin legacy' \/ undropped'
      /\ "messages" \notin legacy' \/ undropped'
  BY <1>3 DEF Gone
<1>6. /\ "tools" \notin legacy' \/ undropped'
      /\ "raw_requests" \notin legacy' \/ undropped'
  BY <1>3 DEF Gone
<1> QED
  BY <1>3, <1>4, <1>5, <1>6 DEF LegacyInv

\* A start that reads a version of this schema finds no legacy tables.
LEMMA LegacyRead ==
  ASSUME MigrationInv, LegacyInv, ReadVersion
  PROVE  LegacyInv'
<1>1. /\ TypeOK /\ at' = 1 /\ pc' = IF from' < schemaVersion THEN "migrating" ELSE "ready"
      /\ legacy' = legacy /\ undropped' = undropped /\ versions' = versions
      /\ from' = StoredVersion \/ from' = 0
  BY DEF MigrationInv, ReadVersion, database
<1>2. /\ StoredVersion \in 0..6
      /\ versions # {} => StoredVersion \in versions
      /\ versions = {} => StoredVersion = 0
  BY <1>1, Stored DEF TypeOK, schemaVersion
<1>3. CASE from' < 3
  <2>1. Offset(from') = 0 /\ pc' = "migrating"
    BY <1>1, <1>2, <1>3 DEF Offset, schemaVersion
  <2>2. Pos' = 1
    BY <1>1, <2>1 DEF Pos
  <2> QED
    BY <1>1, <2>1, <2>2 DEF LegacyInv, Gone
<1>4. CASE ~(from' < 3)
  <2>1. StoredVersion \in versions /\ StoredVersion >= 3
    BY <1>1, <1>2, <1>4
  <2>2. Gone /\ Gone'
    BY <1>1, <2>1 DEF LegacyInv, Gone
  <2> QED
    BY <2>2 DEF LegacyInv, Gone
<1> QED
  BY <1>3, <1>4

LEMMA LegacyStep ==
  ASSUME MigrationInv, LegacyInv, [Next]_vars
  PROVE  LegacyInv'
<1>1. CASE FailStatement \/ FailPragma \/ Start \/ Stop \/ Crash
  <2>1. /\ legacy' = legacy /\ undropped' = undropped /\ versions' = versions
        /\ pc' \notin {"migrating", "ready"}
    BY <1>1 DEF FailStatement, FailPragma, Refuse, Start, Stop, Crash, database
  <2> QED
    BY <2>1 DEF LegacyInv, Gone
<1>2. CASE UseLog \/ UNCHANGED vars
  <2>1. /\ legacy' = legacy /\ undropped' = undropped /\ versions' = versions
        /\ pc' = pc /\ at' = at /\ from' = from
    BY <1>2 DEF UseLog, vars, database
  <2> QED
    BY <2>1 DEF LegacyInv, Gone, Pos
<1> QED
  BY <1>1, <1>2, LegacyDrop, LegacyStatement, LegacyRead DEF Next, Migrate

LEMMA LegacyInit == Init => LegacyInv
<1> SUFFICES ASSUME Init PROVE LegacyInv
  OBVIOUS
<1>1. PICK v \in InitialVersions :
        versions = {v} \ {0} /\ legacy = IF v < 3 THEN rows ELSE {}
  BY DEF Init
<1>2. v \in 0..6
  BY InitialAssumption DEF schemaVersion
<1>3. (\E w \in versions : w >= 3) => legacy = {}
  BY <1>1, <1>2
<1> QED
  BY <1>3 DEF Init, LegacyInv, Gone

----------------------------------------------------------------------------
(* Theorems                                                                 *)

LEMMA AlwaysMigrationInv == Spec => [](MigrationInv /\ LegacyInv)
<1>1. MigrationInv /\ LegacyInv /\ [Next]_vars => (MigrationInv /\ LegacyInv)'
  BY StepInv, LegacyStep
<1> QED
  BY InitInv, LegacyInit, <1>1, PTL DEF Spec

\* A log the proxy uses has the whole schema and says so, whatever statements
\* failed and wherever earlier starts were cut off (NewCompact, migrateCompact).
THEOREM SchemaAlwaysWhole == Spec => []SchemaInv
<1>1. MigrationInv /\ LegacyInv => SchemaInv
  <2> SUFFICES ASSUME MigrationInv, LegacyInv PROVE SchemaInv
    OBVIOUS
  <2>1. TypeOK
    BY DEF MigrationInv
  <2>2. ReadyIsCurrent
    BY DEF MigrationInv, LegacyInv, Gone, ReadInv, Versioned, ReadyIsCurrent,
           schemaVersion, Stale
  <2> QED
    BY <2>1, <2>2 DEF SchemaInv
<1> QED
  BY AlwaysMigrationInv, <1>1, PTL

\* A start that meets no failure of its own refuses the log only for what it
\* finds incoherent in it (NewCompact, migrateCompact).
THEOREM RefusedOnlyIncoherentAlways == Spec => []RefusedOnlyIncoherent
<1>1. MigrationInv => RefusedOnlyIncoherent
  BY DEF MigrationInv, FaultInv, RefusedOnlyIncoherent
<1> QED
  BY AlwaysMigrationInv, <1>1, PTL

\* No step of any start takes rows out of a log of version 3 or later while
\* its version can be read: the DROP TABLEs of migrateCompact meet no rows but
\* those of the tables that a version below 3 left behind.
THEOREM RowsAlwaysKept == Spec => KeepsRows
<1>1. MigrationInv /\ [Next]_vars => [misread \/ (rows \ legacy) \subseteq rows']_vars
  BY StepInv DEF RowsKept
<1>2. Spec => [][Next]_vars
  BY PTL DEF Spec
<1> QED
  BY AlwaysMigrationInv, <1>1, <1>2, PTL DEF KeepsRows
=============================================================================
