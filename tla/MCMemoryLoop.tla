---------------------------- MODULE MCMemoryLoop ----------------------------
(***************************************************************************)
(* Instances of MemoryLoop for TLC.                                         *)
(***************************************************************************)
EXTENDS MemoryLoop, TLC

\* Two sessions in one directory, of which one has no $USER.
MCUserOf == ("s1" :> "ann") @@ ("s2" :> "")
MCDirectoryOf == [s \in {"s1", "s2"} |-> "repo"]

\* The proxy posts one.  /ingest is open to others, which may name the project
\* as the hook does; one of them posts a session again with another type, and
\* one posts no type at all.
Other(id, user, type) ==
  [id |-> id, user |-> user, project |-> Encoded("repo"), type |-> type]
MCMemories ==
  {Posted(1, "ann", "repo", "fact"), Other(2, "ann", "fact"), Other(2, "ann", "none"),
   Other(3, "ann", "decision"), Other(4, "bob", "fact"), Other(4, "bob", "")}

\* To one prompt all are near, to the other all but one.
MCDistance ==
  ("p" :> << 1, 2, 3, 4 >>) @@ ("q" :> << 4, 3, 7, 2 >>)
=============================================================================
