-------------------------- MODULE MCSecretRequests --------------------------
(***************************************************************************)
(* Instances of SecretRequests for TLC.                                     *)
(***************************************************************************)
EXTENDS SecretRequests

Both(P, Q) == {{p, q} : p \in P, q \in Q}

\* What the passing run assumes; the README says which race each pair is.
Separate ==
  Both({"fill", "mark", "approve", "decline", "look", "clean"},
       {"fill", "mark", "approve", "decline", "look", "clean"})
    \cup Both({"create", "rerequest"}, {"rerequest", "clean", "fresh"})
    \cup Both({"open"}, {"create", "rerequest", "repoint"})
    \cup Both({"open", "discard"}, {"edit"})
    \cup Both({"compromise"}, {"fresh"}) \cup Both({"compromise", "discard"}, {"lock"})

\* The same, and nothing is created while a suite comes or goes.
NoneCreated == Separate \cup Both({"open", "discard"}, {"fresh"})
=============================================================================
