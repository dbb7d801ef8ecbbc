---------------------------- MODULE MigrationRun ----------------------------
(***************************************************************************)
(* The browser's migration run (runMigration, finaliseMigration,            *)
(* acceptMigrationLosses and resumeMigration of the suite store) against    *)
(* the work list and the gates of the server.                               *)
(*                                                                         *)
(* The client asks for a page of the records still on the old suite, always *)
(* from offset 0, posts one result per record, and asks again until a page  *)
(* is empty or a pass commits nothing.  It then asks the server to complete *)
(* and shows the user a loss that has to be accepted.  Posts can fail, and  *)
(* a response can be lost after the server committed; the tab can close     *)
(* between any two steps; the owner resumes later.                          *)
(*                                                                         *)
(* The interleavings of the server's own handlers are SuiteMigration's      *)
(* subject: here a request is one step.  Attachment grants are paged, moved *)
(* and counted exactly as heads are and are left out.                       *)
(***************************************************************************)
EXTENDS Naturals, FiniteSets

CONSTANTS
    NumSecrets,    \* secrets of the owner, numbered in the order of their ids
    NumVersions,   \* versions of each secret, the greatest number is the newest
    Limit,         \* records of a store, or secrets with versions, in a page
    DropLimit,     \* secrets with versions in a page of the server's own drop
    Window,        \* versions per secret that a migration keeps
    MaxUnreadable, \* records the old key does not open (bound)
    MaxFaults      \* failed posts, lost responses and closed tabs (bound)

ASSUME MigrationRunAssumption ==
    /\ NumSecrets \in Nat /\ NumVersions \in Nat
    /\ Limit \in Nat \ {0} /\ DropLimit \in Nat \ {0} /\ Window \in Nat
    /\ MaxUnreadable \in Nat /\ MaxFaults \in Nat

VARIABLES
    old,       \* records bound to the old suite
    new,       \* records bound to the new suite
    dead,      \* records the old key does not open
    failed,    \* the server's failure table
    status,    \* the server's status of the migration
    phase,     \* where the client is
    page,      \* jobs of this pass that have not been posted
    committed, \* whether this pass has seen a commit succeed
    reported,  \* whether this pass has reported a permanent failure
    required,  \* the acknowledgement the server asked for
    accepted,  \* the loss the owner accepted, 0 before
    faults

vars == <<old, new, dead, failed, status, phase, page, committed, reported,
          required, accepted, faults>>
serverVars == <<old, new, dead, failed, status>>
passVars   == <<page, committed, reported>>
askVars    == <<required, accepted>>

-----------------------------------------------------------------------------
\* A record is a secret and a version number, 0 for the secret's head.
Heads    == (1..NumSecrets) \X {0}
Versions == (1..NumSecrets) \X (1..NumVersions)
Records  == Heads \cup Versions
Stores   == {Heads, Versions}

\* The records of the first secrets of a set, limit secrets at most.
FirstPage(set, limit) ==
    LET secretIds == {r[1] : r \in set} IN
    {r \in set : Cardinality({i \in secretIds : i < r[1]}) < limit}

Newest(v, set) ==
    Cardinality({x \in set \cap Versions : x[1] = v[1] /\ x[2] > v[2]}) < Window

Work ==
    FirstPage(old \cap Heads, Limit)
        \cup {v \in FirstPage(old \cap Versions, Limit) : Newest(v, old)}

Init ==
    /\ old = Records /\ new = {}
    /\ dead \in {D \in SUBSET Records : Cardinality(D) <= MaxUnreadable}
    /\ failed = {}
    /\ status = "in_progress"
    /\ phase = "list"
    /\ page = {} /\ committed = FALSE /\ reported = FALSE
    /\ required = 0 /\ accepted = 0
    /\ faults = 0

-----------------------------------------------------------------------------
(* One pass.                                                                *)

GetWork ==
    /\ phase = "list"
    /\ page' = Work
    /\ committed' = FALSE /\ reported' = FALSE
    /\ phase' = IF Work = {} THEN "finalise" ELSE "post"
    /\ UNCHANGED <<serverVars, askVars, faults>>

Commit(r) == old' = old \ {r} /\ new' = new \cup {r} /\ failed' = failed \ {r}

\* The client posts a re-encryption only of what it opened and read back, and
\* reports only what it could not open.
PostCommit(r) ==
    /\ phase = "post" /\ r \in page \ dead
    /\ Commit(r)
    /\ page' = page \ {r}
    /\ committed' = TRUE
    /\ UNCHANGED <<dead, status, phase, reported, askVars, faults>>

PostFailure(r) ==
    /\ phase = "post" /\ r \in page \cap dead
    /\ failed' = failed \cup {r}
    /\ page' = page \ {r}
    /\ reported' = TRUE
    /\ UNCHANGED <<old, new, dead, status, phase, committed, askVars, faults>>

\* The post fails before the server has acted on it, or its response is lost
\* after: the client takes both for a retryable record.
PostLost(r) ==
    /\ phase = "post" /\ r \in page
    /\ faults < MaxFaults /\ faults' = faults + 1
    /\ \/ UNCHANGED <<old, new, failed>>
       \/ r \notin dead /\ Commit(r)
       \/ r \in dead /\ failed' = failed \cup {r} /\ UNCHANGED <<old, new>>
    /\ page' = page \ {r}
    /\ UNCHANGED <<dead, status, phase, committed, reported, askVars>>

\* A pass that commits nothing ends the run: halted when it was all transient,
\* on to completion when something failed for good.
MutantEndPass ==
    /\ phase = "post" /\ page = {}
    /\ phase' = "list"
    /\ UNCHANGED <<serverVars, passVars, askVars, faults>>

EndPass ==
    /\ phase = "post" /\ page = {}
    /\ phase' = IF committed THEN "list" ELSE IF reported THEN "finalise" ELSE "halted"
    /\ UNCHANGED <<serverVars, passVars, askVars, faults>>

-----------------------------------------------------------------------------
(* Completion.  The server drops the versions beyond the window before it   *)
(* looks at its gates, whether or not they then refuse.                     *)

\* The drop reads the first page again and again until that page has nothing
\* to drop, so with a window it never gets to a second one.
MutantDropped == {v \in old \cap Versions : Newest(v, old)}
Dropped ==
    {v \in old \cap Versions :
        /\ ~Newest(v, old)
        /\ Window > 0 => v \in FirstPage(old \cap Versions, DropLimit)}
Kept == old \ Dropped

MutantUnaccounted(rows) == Cardinality(rows) > Cardinality(failed) + 1
Unaccounted(rows) ==
    \E S \in Stores : Cardinality(rows \cap S) > Cardinality(failed \cap S)

\* The outcome of POST complete with the acknowledgement n, 0 for none.
Complete(n, refused) ==
    LET lost == Cardinality(failed) IN
    /\ old' = Kept
    /\ IF Unaccounted(Kept)
       THEN status' = status /\ phase' = "halted" /\ required' = 0
       ELSE IF lost \in {0, n}
       THEN status' = "completed" /\ phase' = "done" /\ required' = 0
       ELSE status' = status /\ phase' = refused /\ required' = lost
    /\ UNCHANGED <<new, dead, failed, passVars, faults>>

Finalise ==
    /\ phase = "finalise"
    /\ Complete(0, "ask")
    /\ accepted' = 0

\* The owner accepts the number the server stated.
AcceptLosses ==
    /\ phase = "ask"
    /\ Complete(required, "ask")
    /\ accepted' = required

-----------------------------------------------------------------------------
(* The owner.                                                               *)

\* The tab closes, or a round trip that does not verify ends the run.
CloseTab ==
    /\ phase \in {"list", "post", "finalise", "ask"}
    /\ faults < MaxFaults /\ faults' = faults + 1
    /\ phase' = "halted"
    /\ page' = {}
    /\ UNCHANGED <<serverVars, committed, reported, askVars>>

Resume ==
    /\ phase = "halted"
    /\ phase' = "list"
    /\ UNCHANGED <<serverVars, passVars, askVars, faults>>

\* The server refuses once a record is on the new suite.
Abort ==
    /\ phase \in {"halted", "ask"}
    /\ new = {}
    /\ status' = "aborted" /\ phase' = "done"
    /\ failed' = {}
    /\ UNCHANGED <<old, new, dead, passVars, askVars, faults>>

Client ==
    \/ GetWork \/ EndPass \/ Finalise
    \/ \E r \in Records : PostCommit(r) \/ PostFailure(r)

Next ==
    \/ Client
    \/ \E r \in Records : PostLost(r)
    \/ AcceptLosses \/ CloseTab \/ Resume \/ Abort

Spec == Init /\ [][Next]_vars

\* The script runs, and an owner whose vault is locked resumes and accepts.
FairSpec == Spec /\ WF_vars(Client) /\ WF_vars(Resume) /\ WF_vars(AcceptLosses)

(***************************************************************************)
(* Properties                                                              *)
(***************************************************************************)

\* Every variable has its type, and no record is on both suites.
TypeOK ==
    /\ old \subseteq Records /\ new \subseteq Records /\ old \cap new = {}
    /\ dead \subseteq Records /\ failed \subseteq Records /\ page \subseteq Records
    /\ status \in {"in_progress", "completed", "aborted"}
    /\ phase \in {"list", "post", "finalise", "ask", "halted", "done"}
    /\ committed \in BOOLEAN /\ reported \in BOOLEAN
    /\ required \in 0..Cardinality(Records) /\ accepted \in 0..Cardinality(Records)
    /\ faults \in 0..MaxFaults

\* When a run completes, what is left behind is dead, and the owner accepted
\* exactly that number, however often posts were lost and runs resumed.
LossAccepted ==
    status = "completed" => old \subseteq dead /\ Cardinality(old) = accepted

\* Each secret's head and its newest Window versions are never dropped.
WindowKept ==
    \A r \in Records : (r \in Versions => Newest(r, Records)) => r \in old \cup new

\* Only the newest Window versions of a secret reach the new suite; a completed
\* migration has deleted the older ones.
OlderVersionsDeleted ==
    status = "completed" => \A v \in new \cap Versions : Newest(v, Records)

\* An owner who keeps resuming and accepts the loss gets out of the migration,
\* unless the unreadable records of a store fill a page of the work list.
AlwaysTerminates ==
    (\A S \in Stores : Cardinality({r[1] : r \in dead \cap S}) < Limit)
        => <>(status # "in_progress")

\* Once a record has moved, when an abort is no way out any more, a completion is.
TerminatesOnceMoved == new # {} ~> status # "in_progress"
=============================================================================
