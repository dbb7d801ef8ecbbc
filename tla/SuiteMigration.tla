--------------------------- MODULE SuiteMigration ---------------------------
(***************************************************************************)
(* The server side of a compromise recovery for one user.                   *)
(*                                                                         *)
(* A recovery gives the user a successor encryption suite and moves every   *)
(* record that is bound to the old suite over to it.  The browser does the  *)
(* cryptography and posts one request per record; the server keeps the      *)
(* rows, the failure table, the write lock and the gates in front of the    *)
(* two terminals, complete and abort.                                       *)
(*                                                                         *)
(* PHP serves every request in a process of its own and the code opens a    *)
(* transaction only around a record commit, so a handler is a sequence of   *)
(* steps, one per database statement that matters, and the steps of the     *)
(* handlers in flight interleave.  A worker is a process that serves one    *)
(* request at a time.                                                       *)
(*                                                                         *)
(* Suites are numbered in the order they are created.  A migration is named *)
(* by the number of its successor suite, which exists for it alone.         *)
(*                                                                         *)
(* A definition named Mutant... is a plausible bug in the definition after  *)
(* it; no specification uses it.                                            *)
(***************************************************************************)
EXTENDS Naturals, FiniteSets

CONSTANTS
    MaxSuites,    \* how many suites the user ever gets (bound)
    MaxVersions,  \* version numbers per secret (bound)
    Window,       \* versions per secret that a migration keeps
    Workers,      \* the PHP processes
    Secrets, GrantIds, Requests, Contacts,
    Nothing,      \* the target of a request that names no row
    Ops,          \* the kinds of request the environment sends
    Conflicts,    \* sets of kinds that the environment never overlaps
    MaxFaults     \* crashes and failing listeners (bound)

Suites   == 1..MaxSuites
Versions == Secrets \X (1..MaxVersions)
Grants   == Secrets \X GrantIds
Records  == Secrets \cup Versions \cup Grants
Stores   == {Secrets, Versions, Grants}

ASSUME SuiteMigrationAssumption ==
    /\ MaxSuites \in Nat \ {0}
    /\ MaxVersions \in Nat
    /\ Window \in Nat
    /\ MaxFaults \in Nat
    /\ IsFiniteSet(Secrets)
    /\ IsFiniteSet(GrantIds)

VARIABLES
    suite,    \* the status of each suite
    status,   \* the status of the migration to each suite
    oldOf,    \* the old suite of the migration to each suite
    on,       \* the suite a row is bound to, 0 when there is no such row
    seal,     \* the suite whose key opens the row, 0 when no key does
    failed,   \* the failure table, per migration
    req,      \* the suite and the status of each secret request
    con,      \* the suite and the state of each emergency contact
    links,    \* the suites that live link shares were made under
    h,        \* the handler each worker is in
    faults    \* how many faults there have been

vars == <<suite, status, oldOf, on, seal, failed, req, con, links, h, faults>>
sideVars == <<req, con, links>>

-----------------------------------------------------------------------------
Terminals == {"completed", "completed_with_errors", "aborted"}
Completed(m) == status[m] \in {"completed", "completed_with_errors"}

Bound(s) == {r \in Records : on[r] = s}
Readable(r) == seal[r] = on[r]

Active == {s \in Suites : suite[s] = "active"}
\* The active suite that the code finds: the newest, if there is one at all.
MutantNewest == {s \in Active : \A t \in Active : s <= t}
Newest == {s \in Active : \A t \in Active : t <= s}

\* A request can act on a migration that is running and whose owner resolves.
Running(m) == status[m] = "in_progress" /\ suite[oldOf[m]] # "deleted"

\* A migration locks the owner's vault as the old end of an existing suite.
WriteLocked == \E m \in Suites : Running(m)

\* The newest Window versions of a secret, among those still on suite s.
InWindow(r, s) ==
    r \in Versions =>
        Cardinality({v \in Versions : v[1] = r[1] /\ v[2] > r[2] /\ on[v] = s}) < Window

BeyondWindow(s) == {v \in Versions : on[v] = s /\ ~InWindow(v, s)}

NoCount == [S \in Stores |-> 0]
NoHead == [on |-> 0, seal |-> 0]
Idle == [op |-> "idle", at |-> "idle", m |-> 0, r |-> Nothing, n |-> 0, left |-> NoCount,
         head |-> NoHead]

Init ==
    /\ suite = [s \in Suites |-> IF s = 1 THEN "active" ELSE "none"]
    /\ status = [m \in Suites |-> "none"]
    /\ oldOf = [m \in Suites |-> 1]
    /\ on \in [Records -> {0, 1}]
    /\ \A r \in Records \ Secrets : on[r] = 1 => on[r[1]] = 1
    /\ seal \in [Records -> {0, 1}]
    /\ \A r \in Records : on[r] = 0 => seal[r] = 0
    /\ failed = [m \in Suites |-> {}]
    /\ req = [q \in Requests |-> [on |-> 1, state |-> "none"]]
    /\ con \in [Contacts -> [on : {1}, state : {"granted", "requested"}]]
    /\ links = {}
    /\ h = [w \in Workers |-> Idle]
    /\ faults = 0

-----------------------------------------------------------------------------
(* A request arrives, moves to its next step, and ends.                     *)

Allowed(op) == op \in Ops /\ \A v \in Workers : {op, h[v].op} \notin Conflicts

Begin(w, op, at, m, r, n) ==
    /\ h[w] = Idle
    /\ Allowed(op)
    /\ h' = [h EXCEPT ![w] = [Idle EXCEPT !.op = op, !.at = at, !.m = m, !.r = r, !.n = n]]

At(w, op, at) == h[w].op = op /\ h[w].at = at
Goto(w, at)   == h' = [h EXCEPT ![w].at = at]
End(w)        == h' = [h EXCEPT ![w] = Idle]

(* POST compromise-recovery: check the lock, read the active suite, insert  *)
(* the successor, insert the migration, lock the pending requests.          *)

RecoverCheck(w) ==
    /\ ~WriteLocked
    /\ \E n \in Newest : Begin(w, "recover", "create", 0, Nothing, n)
    /\ UNCHANGED <<suite, status, oldOf, on, seal, failed, sideVars, faults>>

CreateSuccessor(w) ==
    /\ At(w, "recover", "create")
    /\ \E s \in Suites :
        /\ suite[s] = "none"
        /\ \A t \in Suites : suite[t] = "none" => s <= t
        /\ suite' = [suite EXCEPT ![s] = "active"]
        /\ h' = [h EXCEPT ![w].at = "open", ![w].m = s]
    /\ UNCHANGED <<status, oldOf, on, seal, failed, sideVars, faults>>

MutantOpenMigration(w) ==
    /\ At(w, "recover", "open")
    /\ status' = [status EXCEPT ![h[w].m] = "in_progress"]
    /\ oldOf' = [oldOf EXCEPT ![h[w].m] = h[w].n]
    /\ suite' = [suite EXCEPT ![h[w].n] = "compromised"]
    /\ Goto(w, "lock")
    /\ UNCHANGED <<on, seal, failed, sideVars, faults>>

OpenMigration(w) ==
    /\ At(w, "recover", "open")
    /\ status' = [status EXCEPT ![h[w].m] = "in_progress"]
    /\ oldOf' = [oldOf EXCEPT ![h[w].m] = h[w].n]
    /\ Goto(w, "lock")
    /\ UNCHANGED <<suite, on, seal, failed, sideVars, faults>>

\* SuiteMigrationStartedListener: one bulk UPDATE of the pending requests.
LockRequests(w) ==
    /\ At(w, "recover", "lock")
    /\ req' = [q \in Requests |->
                IF req[q] = [on |-> h[w].n, state |-> "pending"]
                THEN [req[q] EXCEPT !.state = "locked"] ELSE req[q]]
    /\ End(w)
    /\ UNCHANGED <<suite, status, oldOf, on, seal, failed, con, links, faults>>

-----------------------------------------------------------------------------
(* The per-record endpoints.  The client posts only rows the work list      *)
(* names, re-encrypts what the old key opens and reports what it does not.  *)
(* The guard reads the migration and the row before the write transaction.  *)

Guarded(m, r) ==
    /\ Running(m)
    /\ on[r] = oldOf[m]
    /\ InWindow(r, oldOf[m])

CommitGuard(w) ==
    /\ \E m \in Suites, r \in Records :
        /\ Guarded(m, r)
        /\ Readable(r)
        /\ Begin(w, "commit", "write", m, r, 0)
    /\ UNCHANGED <<suite, status, oldOf, on, seal, failed, sideVars, faults>>

\* One transaction: the re-encrypted row and its failure.  An UPDATE of a row
\* that has gone touches nothing.
CommitRecord(w) ==
    LET m == h[w].m  r == h[w].r IN
    /\ At(w, "commit", "write")
    /\ IF on[r] = 0 THEN UNCHANGED <<on, seal>>
       ELSE on' = [on EXCEPT ![r] = m] /\ seal' = [seal EXCEPT ![r] = m]
    /\ failed' = [failed EXCEPT ![m] = @ \ {r}]
    /\ End(w)
    /\ UNCHANGED <<suite, status, oldOf, sideVars, faults>>

\* The client reports only what the old key does not open; it retries the rest.
MutantReported(r) == TRUE
Reported(r) == ~Readable(r)

FailGuard(w) ==
    /\ \E m \in Suites, r \in Records :
        /\ Guarded(m, r)
        /\ Reported(r)
        /\ Begin(w, "fail", "write", m, r, 0)
    /\ UNCHANGED <<suite, status, oldOf, on, seal, failed, sideVars, faults>>

RecordFailure(w) ==
    /\ At(w, "fail", "write")
    /\ failed' = [failed EXCEPT ![h[w].m] = @ \cup {h[w].r}]
    /\ End(w)
    /\ UNCHANGED <<suite, status, oldOf, on, seal, sideVars, faults>>

(* Re-enveloping an emergency contact: only a granted one on the old suite. *)
Carriable(c, m) == con[c] = [on |-> oldOf[m], state |-> "granted"]

CarryGuard(w) ==
    /\ \E m \in Suites, c \in Contacts :
        /\ Running(m)
        /\ Carriable(c, m)
        /\ Begin(w, "carry", "write", m, c, 0)
    /\ UNCHANGED <<suite, status, oldOf, on, seal, failed, sideVars, faults>>

\* The UPDATE writes the columns the entity changed, the state not among them.
CarryContact(w) ==
    /\ At(w, "carry", "write")
    /\ con' = [con EXCEPT ![h[w].r].on = h[w].m]
    /\ End(w)
    /\ UNCHANGED <<suite, status, oldOf, on, seal, failed, req, links, faults>>

-----------------------------------------------------------------------------
(* POST complete.  n is the loss the client acknowledges, 0 for none.       *)

CompleteCheck(w) ==
    /\ \E m \in Suites, n \in 0..Cardinality(Records) :
        /\ Running(m)
        /\ Begin(w, "complete", "drop", m, Nothing, n)
    /\ UNCHANGED <<suite, status, oldOf, on, seal, failed, sideVars, faults>>

DropVersionsBeyondWindow(w) ==
    LET gone == BeyondWindow(oldOf[h[w].m]) IN
    /\ At(w, "complete", "drop")
    /\ on' = [r \in Records |-> IF r \in gone THEN 0 ELSE on[r]]
    /\ seal' = [r \in Records |-> IF r \in gone THEN 0 ELSE seal[r]]
    /\ Goto(w, "count")
    /\ UNCHANGED <<suite, status, oldOf, failed, sideVars, faults>>

MutantRowsLeft(m) ==
    [S \in Stores |-> IF S = Secrets THEN Cardinality(Bound(oldOf[m]) \cap S) ELSE 0]
RowsLeft(m) == [S \in Stores |-> Cardinality(Bound(oldOf[m]) \cap S)]

CountRows(w) ==
    /\ At(w, "complete", "count")
    /\ h' = [h EXCEPT ![w].at = "gate", ![w].left = RowsLeft(h[w].m)]
    /\ UNCHANGED <<suite, status, oldOf, on, seal, failed, sideVars, faults>>

\* Nothing is unaccounted for when, store by store, the rows counted on the old
\* suite do not outnumber the recorded failures.
AssertNothingUnaccountedFor(w) ==
    /\ At(w, "complete", "gate")
    /\ IF \A S \in Stores : h[w].left[S] <= Cardinality(failed[h[w].m] \cap S)
       THEN Goto(w, "acknowledge") ELSE End(w)
    /\ UNCHANGED <<suite, status, oldOf, on, seal, failed, sideVars, faults>>

\* With nothing to lose the acknowledgement is not looked at.
MutantAcknowledged(lost, n) == lost > 0 => n > 0
Acknowledged(lost, n) == lost \in {0, n}

AssertLossAcknowledged(w) ==
    LET lost == Cardinality(failed[h[w].m]) IN
    /\ At(w, "complete", "acknowledge")
    /\ IF Acknowledged(lost, h[w].n)
       THEN h' = [h EXCEPT ![w].at = "status", ![w].n = IF lost = 0 THEN 0 ELSE @]
       ELSE End(w)
    /\ UNCHANGED <<suite, status, oldOf, on, seal, failed, sideVars, faults>>

\* A client may also flag errors of its own, so without a loss either is final.
SetCompleted(w) ==
    /\ At(w, "complete", "status")
    /\ \E final \in {"completed", "completed_with_errors"} :
        /\ h[w].n > 0 => final = "completed_with_errors"
        /\ status' = [status EXCEPT ![h[w].m] = final]
    /\ Goto(w, "compromise")
    /\ UNCHANGED <<suite, oldOf, on, seal, failed, sideVars, faults>>

MarkCompromised(w) ==
    /\ At(w, "complete", "compromise")
    /\ suite' = [suite EXCEPT ![oldOf[h[w].m]] = "compromised"]
    /\ Goto(w, "revoke")
    /\ UNCHANGED <<status, oldOf, on, seal, failed, sideVars, faults>>

\* Every link share of the user goes, whichever suite it was made under.
RevokeKeyMaterial(w) ==
    /\ At(w, "complete", "revoke")
    /\ links' = {}
    /\ Goto(w, "clear")
    /\ UNCHANGED <<suite, status, oldOf, on, seal, failed, req, con, faults>>

ClearFailureAccounting(w) ==
    /\ h[w].op \in {"complete", "abort"} /\ h[w].at = "clear"
    /\ failed' = [failed EXCEPT ![h[w].m] = {}]
    /\ Goto(w, IF h[w].op = "complete" THEN "repoint" ELSE "unlock")
    /\ UNCHANGED <<suite, status, oldOf, on, seal, sideVars, faults>>

\* One bulk UPDATE: the requests locked on suite s are pending again, on suite t.
UnlockOnto(s, t) ==
    [q \in Requests |-> IF req[q] = [on |-> s, state |-> "locked"]
                        THEN [on |-> t, state |-> "pending"] ELSE req[q]]

\* SuiteMigrationCompletedListener, then EmergencyAccessSuiteRotationListener.
RepointRequests(w) ==
    /\ At(w, "complete", "repoint")
    /\ req' = UnlockOnto(oldOf[h[w].m], h[w].m)
    /\ Goto(w, "sweep")
    /\ UNCHANGED <<suite, status, oldOf, on, seal, failed, con, links, faults>>

MutantSwept(c, m) == con[c] = [on |-> oldOf[m], state |-> "granted"]
Swept(c, m) == con[c].on = oldOf[m]

SweepContacts(w) ==
    /\ At(w, "complete", "sweep")
    /\ con' = [c \in Contacts |->
                IF Swept(c, h[w].m)
                THEN [con[c] EXCEPT !.state = "invalidated"] ELSE con[c]]
    /\ End(w)
    /\ UNCHANGED <<suite, status, oldOf, on, seal, failed, req, links, faults>>

-----------------------------------------------------------------------------
(* POST abort: refused once anything of the user's is on the successor.     *)

AbortCheck(w) ==
    /\ \E m \in Suites :
        /\ Running(m)
        /\ Begin(w, "abort", "count", m, Nothing, 0)
    /\ UNCHANGED <<suite, status, oldOf, on, seal, failed, sideVars, faults>>

MutantCommitted(m) == Bound(m) \cap Secrets # {}
Committed(m) ==
    Bound(m) # {} \/ \E c \in Contacts : con[c].on = m /\ con[c].state # "invalidated"

CountCommitted(w) ==
    /\ At(w, "abort", "count")
    /\ IF Committed(h[w].m) THEN End(w) ELSE Goto(w, "status")
    /\ UNCHANGED <<suite, status, oldOf, on, seal, failed, sideVars, faults>>

SetAborted(w) ==
    /\ At(w, "abort", "status")
    /\ status' = [status EXCEPT ![h[w].m] = "aborted"]
    /\ Goto(w, "delete")
    /\ UNCHANGED <<suite, oldOf, on, seal, failed, sideVars, faults>>

\* The ordinary revocation path instead of the deletion.
MutantDeleteSuccessor(w) ==
    /\ At(w, "abort", "delete")
    /\ suite' = [suite EXCEPT ![h[w].m] = "revoked"]
    /\ Goto(w, "clear")
    /\ UNCHANGED <<status, oldOf, on, seal, failed, sideVars, faults>>

DeleteSuccessor(w) ==
    /\ At(w, "abort", "delete")
    /\ suite' = [suite EXCEPT ![h[w].m] = "deleted"]
    /\ Goto(w, "clear")
    /\ UNCHANGED <<status, oldOf, on, seal, failed, sideVars, faults>>

\* unlockAndUpdateSuite(old, old) refused two equal suites: nothing is unlocked.
MutantUnlockRequests(w) ==
    /\ At(w, "abort", "unlock")
    /\ End(w)
    /\ UNCHANGED <<suite, status, oldOf, on, seal, failed, sideVars, faults>>

UnlockRequests(w) ==
    /\ At(w, "abort", "unlock")
    /\ req' = UnlockOnto(oldOf[h[w].m], oldOf[h[w].m])
    /\ End(w)
    /\ UNCHANGED <<suite, status, oldOf, on, seal, failed, con, links, faults>>

-----------------------------------------------------------------------------
(* Writes that the lock refuses.  The client seals under the active suite   *)
(* it knows when it sends the request (n); the lock is read after that, and *)
(* the row is written after the lock is read.                               *)

LockedWrites == {"edit", "create", "link", "ask"}

SendWrite(w) ==
    /\ \E n \in Newest :
        \/ \E s \in Secrets : on[s] # 0 /\ Begin(w, "edit", "lock", 0, s, n)
        \/ \E s \in Secrets : on[s] = 0 /\ Begin(w, "create", "lock", 0, s, n)
        \/ \E q \in Requests : req[q].state = "none" /\ Begin(w, "ask", "lock", 0, q, n)
        \/ Begin(w, "link", "lock", 0, Nothing, n)
    /\ UNCHANGED <<suite, status, oldOf, on, seal, failed, sideVars, faults>>

MutantAssertNotWriteLocked(w) ==
    /\ h[w].op \in LockedWrites /\ h[w].at = "lock"
    /\ Goto(w, "write")
    /\ UNCHANGED <<suite, status, oldOf, on, seal, failed, sideVars, faults>>

AssertNotWriteLocked(w) ==
    /\ h[w].op \in LockedWrites /\ h[w].at = "lock"
    /\ IF WriteLocked THEN End(w) ELSE Goto(w, "write")
    /\ UNCHANGED <<suite, status, oldOf, on, seal, failed, sideVars, faults>>

\* The slot of the next version of a secret.
NextVersion(s, v) ==
    /\ v \in Versions /\ v[1] = s
    /\ \A x \in Versions : x[1] = s =>
        /\ on[x] # 0 => x[2] < v[2]
        /\ x[2] + 1 = v[2] => on[x] # 0

\* Overwriting a head keeps the suite it is bound to and leaves its previous
\* ciphertext behind as a version bound to that suite.
Overwrite(s, key) ==
    \E v \in Versions :
        /\ NextVersion(s, v)
        /\ on' = [on EXCEPT ![v] = on[s]]
        /\ seal' = [seal EXCEPT ![v] = seal[s], ![s] = key]

UpdateSecret(w) ==
    LET s == h[w].r IN
    /\ At(w, "edit", "write")
    /\ IF on[s] = 0 THEN UNCHANGED <<on, seal>> ELSE Overwrite(s, h[w].n)
    /\ End(w)
    /\ UNCHANGED <<suite, status, oldOf, failed, sideVars, faults>>

\* The server binds a new secret to the suite that is active by now.
CreateSecret(w) ==
    LET s == h[w].r IN
    /\ At(w, "create", "write")
    /\ IF on[s] # 0 \/ Newest = {} THEN UNCHANGED <<on, seal>>
       ELSE /\ \E n \in Newest : on' = [on EXCEPT ![s] = n]
            /\ seal' = [seal EXCEPT ![s] = h[w].n]
    /\ End(w)
    /\ UNCHANGED <<suite, status, oldOf, failed, sideVars, faults>>

CreateLink(w) ==
    /\ At(w, "link", "write")
    /\ links' = links \cup {h[w].n}
    /\ End(w)
    /\ UNCHANGED <<suite, status, oldOf, on, seal, failed, req, con, faults>>

CreateRequest(w) ==
    LET q == h[w].r IN
    /\ At(w, "ask", "write")
    /\ req' = IF req[q].state # "none" THEN req
              ELSE [req EXCEPT ![q] = [on |-> h[w].n, state |-> "pending"]]
    /\ End(w)
    /\ UNCHANGED <<suite, status, oldOf, on, seal, failed, con, links, faults>>

-----------------------------------------------------------------------------
(* Writes that read no lock.  Deleting and pruning name what they remove and *)
(* are one step.  A sync writes what its sharer sealed before, and a restore *)
(* what it loaded: the row may have moved on by then.                       *)

Free == UNCHANGED <<suite, status, oldOf, failed, sideVars, h, faults>>

DeleteSecret ==
    /\ Allowed("delete")
    /\ \E s \in Secrets :
        LET gone == {s} \cup {r \in Versions \cup Grants : r[1] = s} IN
        /\ on[s] # 0
        /\ on' = [r \in Records |-> IF r \in gone THEN 0 ELSE on[r]]
        /\ seal' = [r \in Records |-> IF r \in gone THEN 0 ELSE seal[r]]
    /\ Free

PruneVersion ==
    /\ Allowed("prune")
    /\ \E v \in Versions :
        /\ on[v] # 0
        /\ on' = [on EXCEPT ![v] = 0]
        /\ seal' = [seal EXCEPT ![v] = 0]
    /\ Free

\* Refused when the version's own suite is revoked or compromised.
LoadVersion(w) ==
    /\ \E v \in Versions :
        /\ on[v] # 0 /\ on[v[1]] # 0
        /\ suite[on[v]] \notin {"revoked", "compromised"}
        /\ Begin(w, "restore", "load", 0, v, seal[v])
    /\ UNCHANGED <<suite, status, oldOf, on, seal, failed, sideVars, faults>>

LoadHead(w) ==
    LET s == h[w].r[1] IN
    /\ At(w, "restore", "load")
    /\ IF on[s] = 0 THEN End(w)
       ELSE h' = [h EXCEPT ![w].at = "snapshot", ![w].r = s,
                           ![w].head = [on |-> on[s], seal |-> seal[s]]]
    /\ UNCHANGED <<suite, status, oldOf, on, seal, failed, sideVars, faults>>

\* The version that is left behind is the head as it was loaded.
SnapshotHead(w) ==
    /\ At(w, "restore", "snapshot")
    /\ \E v \in Versions :
        /\ NextVersion(h[w].r, v)
        /\ on' = [on EXCEPT ![v] = h[w].head.on]
        /\ seal' = [seal EXCEPT ![v] = h[w].head.seal]
    /\ Goto(w, "write")
    /\ UNCHANGED <<suite, status, oldOf, failed, sideVars, faults>>

\* A sharer re-seals the copy it shared, for the certificate it fetched.
SendSync(w) ==
    /\ \E s \in Secrets, n \in Newest : on[s] # 0 /\ Begin(w, "sync", "write", 0, s, n)
    /\ UNCHANGED <<suite, status, oldOf, on, seal, failed, sideVars, faults>>

\* The columns of the key are written, the suite of the row not among them.
WriteKey(w) ==
    LET s == h[w].r IN
    /\ At(w, "sync", "write") \/ At(w, "restore", "write")
    /\ seal' = IF on[s] = 0 THEN seal ELSE [seal EXCEPT ![s] = h[w].n]
    /\ End(w)
    /\ UNCHANGED <<suite, status, oldOf, on, failed, sideVars, faults>>

\* A grantee breaks the glass; the grantor declines.
BreakGlass ==
    /\ Allowed("breakglass")
    /\ \E c \in Contacts, move \in {<<"granted", "requested">>, <<"requested", "granted">>} :
        /\ con[c].state = move[1]
        /\ con' = [con EXCEPT ![c].state = move[2]]
    /\ UNCHANGED <<suite, status, oldOf, on, seal, failed, req, links, h, faults>>

-----------------------------------------------------------------------------
(* Faults: a worker dies between two statements, a listener throws.         *)

Crash(w) ==
    /\ faults < MaxFaults
    /\ h[w] # Idle
    /\ End(w)
    /\ faults' = faults + 1
    /\ UNCHANGED <<suite, status, oldOf, on, seal, failed, sideVars>>

\* The listeners swallow what they throw: their step is skipped.
ListenerFails(w) ==
    /\ faults < MaxFaults
    /\ h[w].at \in {"lock", "repoint", "sweep", "unlock"} /\ h[w].op \notin LockedWrites
    /\ IF h[w].at = "repoint" THEN Goto(w, "sweep") ELSE End(w)
    /\ faults' = faults + 1
    /\ UNCHANGED <<suite, status, oldOf, on, seal, failed, sideVars>>

-----------------------------------------------------------------------------
Arrive(w) ==
    \/ RecoverCheck(w) \/ CommitGuard(w) \/ FailGuard(w) \/ CarryGuard(w)
    \/ CompleteCheck(w) \/ AbortCheck(w) \/ SendWrite(w) \/ SendSync(w)
    \/ LoadVersion(w)

Step(w) ==
    \/ CreateSuccessor(w) \/ OpenMigration(w) \/ LockRequests(w)
    \/ CommitRecord(w) \/ RecordFailure(w) \/ CarryContact(w)
    \/ DropVersionsBeyondWindow(w) \/ CountRows(w)
    \/ AssertNothingUnaccountedFor(w) \/ AssertLossAcknowledged(w)
    \/ SetCompleted(w) \/ MarkCompromised(w) \/ RevokeKeyMaterial(w)
    \/ ClearFailureAccounting(w) \/ RepointRequests(w) \/ SweepContacts(w)
    \/ CountCommitted(w) \/ SetAborted(w) \/ DeleteSuccessor(w) \/ UnlockRequests(w)
    \/ AssertNotWriteLocked(w) \/ UpdateSecret(w) \/ CreateSecret(w)
    \/ CreateLink(w) \/ CreateRequest(w) \/ LoadHead(w) \/ SnapshotHead(w) \/ WriteKey(w)

Vault == DeleteSecret \/ PruneVersion \/ BreakGlass

Next ==
    \/ \E w \in Workers : Arrive(w) \/ Step(w) \/ Crash(w) \/ ListenerFails(w)
    \/ Vault

Spec == Init /\ [][Next]_vars

\* A PHP process runs the request it has accepted to its end.
FairSpec == Spec /\ \A w \in Workers : WF_vars(Step(w))

(***************************************************************************)
(* Properties                                                              *)
(***************************************************************************)

Ats == {"idle", "create", "open", "lock", "write", "drop", "count", "gate", "acknowledge",
        "status", "compromise", "revoke", "clear", "repoint", "sweep", "delete", "unlock", "load",
        "snapshot"}

Handlers ==
    [op : {"idle", "recover", "commit", "fail", "carry", "complete", "abort", "sync", "restore"}
            \cup LockedWrites,
     at : Ats,
     m : 0..MaxSuites,
     r : Records \cup Requests \cup Contacts \cup {Nothing},
     n : 0..(MaxSuites + Cardinality(Records)),
     left : [Stores -> Nat],
     head : [on : 0..MaxSuites, seal : 0..MaxSuites]]

\* Every variable has its type.
TypeOK ==
    /\ suite \in [Suites -> {"none", "active", "compromised", "deleted"}]
    /\ status \in [Suites -> {"none", "in_progress"} \cup Terminals]
    /\ oldOf \in [Suites -> Suites]
    /\ on \in [Records -> 0..MaxSuites]
    /\ seal \in [Records -> 0..MaxSuites]
    /\ failed \in [Suites -> SUBSET Records]
    /\ req \in [Requests -> [on : Suites, state : {"none", "pending", "locked"}]]
    /\ con \in [Contacts -> [on : Suites, state : {"granted", "requested", "invalidated"}]]
    /\ links \subseteq Suites
    /\ h \in [Workers -> Handlers]
    /\ faults \in 0..MaxFaults

\* A completed migration leaves no record behind that the old key could open:
\* the gates of completeMigration count rows and failures, and a count that
\* comes out right for the wrong rows would lock a readable record away.
NoSilentLoss ==
    \A m \in Suites : Completed(m) => \A r \in Bound(oldOf[m]) : ~Readable(r)

\* Every failure row of a running migration belongs to a record that is still
\* bound to the old suite: what countOutstanding's subtraction rests on.
FailuresOnOldSuite ==
    \A m \in Suites : status[m] = "in_progress" => failed[m] \subseteq Bound(oldOf[m])

\* A record bound to a successor suite is opened by that suite's key.
CarriedForward ==
    \A r \in Records : on[r] > 1 => Readable(r)

\* Nothing that is in use is bound to a suite that an abort has deleted.
NoStranding ==
    /\ \A r \in Records : on[r] # 0 => suite[on[r]] # "deleted"
    /\ \A c \in Contacts : con[c].state # "invalidated" => suite[con[c].on] # "deleted"

\* A successor suite that an abort discards is the key to no ciphertext.
DiscardedHoldsNothing ==
    \A r \in Records : on[r] # 0 /\ seal[r] # 0 => suite[seal[r]] # "deleted"

\* A user is in at most one recovery.
OneMigration ==
    Cardinality({m \in Suites : status[m] = "in_progress"}) <= 1

\* A running migration can be resumed: both its suites are active, so the old
\* key still reads and the new certificate still seals, whatever failed.
EndsActive ==
    \A m \in Suites : status[m] = "in_progress" =>
        suite[oldOf[m]] = "active" /\ suite[m] = "active"

\* Once no handler is at work on it, a completed migration has carried out all
\* of its terminal steps, also those that its listeners carry out.
CompletionFinished ==
    \A m \in Suites :
        Completed(m) /\ (\A w \in Workers : h[w].m # m) =>
            /\ suite[oldOf[m]] = "compromised"
            /\ oldOf[m] \notin links
            /\ \A q \in Requests : req[q].state # "none" => req[q].on # oldOf[m]
            /\ \A c \in Contacts : con[c].on = oldOf[m] => con[c].state = "invalidated"

\* A completion locks away no more records than its client acknowledged, and
\* says "completed" only when it locks none away.
AcknowledgedLoss ==
    [][\A m \in Suites : ~Completed(m) /\ Completed(m)' =>
        LET lost == Cardinality(Bound(oldOf[m])) IN
        /\ \E w \in Workers : At(w, "complete", "status") /\ h[w].m = m /\ lost <= h[w].n
        /\ status'[m] = "completed" => lost = 0]_vars

\* Whatever the user does, a record that its suite's key opens is never
\* replaced by one that it does not open.
NeverSealedAway ==
    [][\A r \in Records : on[r] # 0 /\ Readable(r) => (on[r] = 0)' \/ Readable(r)']_vars

\* While a recovery runs, the head of a secret changes only by moving on.
WriteLockHolds ==
    [][WriteLocked /\ WriteLocked' =>
        \A r \in Secrets : seal'[r] # seal[r] => on'[r] # on[r]]_vars

\* An emergency contact whose break-glass is in flight is never carried to the
\* successor: that would hand its grantee the new key.
InFlightNotCarried ==
    [][\A c \in Contacts : con'[c].on # con[c].on => con'[c].state # "requested"]_vars

\* A request that a recovery locked is released when no recovery runs any more.
LockedRequestsReleased ==
    \A q \in Requests : req[q].state = "locked" /\ ~WriteLocked ~> req[q].state = "pending"

=============================================================================
