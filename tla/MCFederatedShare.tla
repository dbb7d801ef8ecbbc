-------------------------- MODULE MCFederatedShare --------------------------
(***************************************************************************)
(* Instances of FederatedShare for TLC.                                     *)
(***************************************************************************)
EXTENDS FederatedShare, TLC

CONSTANTS w1, w2

WorkerSymmetry == Permutations({w1, w2})

Both(P, Q) == {{p, q} : p \in P, q \in Q}

\* One notification of the share is under way at a time.
Notifying == {"update", "revoke", "send", "apply", "unshare", "pulled", "answered"}

\* What the passing runs assume: besides, an acceptance is apart from what ends
\* the offer, a restore from what is said of the decline, a revocation and an
\* update from the answers of the recipient, and two requests that make a share
\* active from each other.
Apart ==
  Both(Notifying, Notifying)
    \cup Both({"revoke"}, {"suspend", "tell", "settle", "resume"})
    \cup Both({"update"}, {"fetched"})
    \cup Both({"accept", "fetched"}, {"unshare", "announced", "decline", "accept"})
    \cup Both({"restore", "resume", "back"}, {"apply", "tell", "settle", "answered", "unshare"})
    \cup Both({"create", "resume"}, {"create", "resume"})
=============================================================================
