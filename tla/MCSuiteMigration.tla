-------------------------- MODULE MCSuiteMigration --------------------------
(***************************************************************************)
(* Instances of SuiteMigration for TLC: which requests the environment      *)
(* sends (Ops) and which of them it never overlaps (Conflicts).             *)
(***************************************************************************)
EXTENDS SuiteMigration, TLC

CONSTANTS s1, s2, g1, w1, w2, q1, c1

\* Workers are alike; used only where the properties are state invariants.
AnyWorker == Permutations({w1, w2})

Migrating      == {"recover", "commit", "fail", "complete", "abort"}
MigratingEdits == Migrating \cup {"edit", "create"}
SideTables     == Migrating \cup {"carry", "breakglass", "link", "ask"}
RecordWrites   == {"edit", "create", "delete", "prune", "restore", "sync"}
UnlockedWrites == (Migrating \ {"fail"}) \cup (RecordWrites \ {"edit"})

Deleting  == Migrating \cup {"delete"}
Restoring == Migrating \cup {"restore"}
Syncing   == Migrating \cup {"sync"}

\* What the passing runs assume of the clients: a recovery and an abort are
\* not overlapped by another request, and completions follow each other.
Overlapping(op) == {{op, other} : other \in SideTables \cup RecordWrites}
Serial == Overlapping("recover") \cup Overlapping("abort") \cup {{"complete"}}

\* The same, but a commit may overlap an abort.
AbortOverCommit == Serial \ {{"abort", "commit"}}
=============================================================================
