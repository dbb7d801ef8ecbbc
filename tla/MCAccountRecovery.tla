------------------------- MODULE MCAccountRecovery -------------------------
(***************************************************************************)
(* Instances of AccountRecovery for TLC.                                    *)
(***************************************************************************)
EXTENDS AccountRecovery, TLC

CONSTANTS w1, w2, olga, omar

Interchangeable == Permutations({w1, w2}) \cup Permutations({olga, omar})

Both(P, Q) == {{p, q} : p \in P, q \in Q}

\* What the passing run assumes; the README says which race each pair is.
Apart ==
  Both({"approve", "count", "seal"}, {"end", "create"})
    \cup Both({"approve", "count"}, {"approve", "count"})
    \cup Both({"create", "insert"}, {"create", "insert"})
    \cup Both({"key", "officers", "threshold"}, {"officers", "threshold"})
    \cup Both({"threshold"}, {"approve", "count"})
=============================================================================
