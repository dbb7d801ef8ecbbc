--------------------------- MODULE SecretRequests ---------------------------
(***************************************************************************)
(* The secret requests of one user for one secret: SecretRequestService,    *)
(* its policy, the expiry job, the cleaner of placeholders and the lock of  *)
(* the requests during a migration of the suite.  The link's visitor works  *)
(* on a page that was opened earlier, with the certificate it showed then.  *)
(***************************************************************************)
EXTENDS Naturals

CONSTANTS Workers,     \* the PHP processes
          MaxRequests, \* the requests for the secret
          MaxSuites,   \* the suites the user gets to have
          Expiring,    \* the requests that are given an expires_at
          Fallible,    \* the steps of a recovery that may fail
          Conflicts    \* pairs of operations that do not overlap

ASSUME RequestsAssumption == MaxRequests \in Nat \ {0} /\ MaxSuites \in Nat \ {0}

VARIABLES req,       \* the requests
          n,         \* requests whose creation began
          lapsed,    \* requests past their expires_at
          secret,    \* the secret, a placeholder while it has no value
          suite,     \* the user's active suite
          from,      \* the suite a migration is leaving, 0 when none runs
          suites,    \* suites so far
          moves,     \* the steps that requests of recoveries still have to take
          dead,      \* the suites marked compromised
          missed,    \* the suites whose recovery lost a step or took it late
          pages,     \* opened fill-in pages: a request and a certificate
          answered,  \* per request: the submissions answered as stored
          h          \* per worker: its operation, its request, a suite

migration == <<suite, from, suites, moves, dead, missed>>
vars == <<req, n, lapsed, secret, migration, pages, answered, h>>

Reqs == 1..MaxRequests
Suites == 1..MaxSuites
Own == MaxRequests + 1   \* a value the owner entered; a request's value is its number
Statuses == {"none", "pending", "locked", "fulfilled", "declined", "expired"}
NoRequest == [st |-> "none", suite |-> 0, re |-> FALSE]
Ops == {"idle", "fresh", "create", "rerequest", "fill", "mark", "approve", "decline",
        "expire", "look", "clean"}
Idle == [op |-> "idle", r |-> 0, s |-> 0]

\* A recovery is handled by processes of its own: what one has to do next, for
\* the migration from the suite old to the suite new.
Moves == [at : {"open", "lock", "compromise", "repoint", "discard", "unlock"},
          old : Suites, new : Suites]

\* Every variable has its type: whatever a migration does, a suite is active.
TypeOK ==
  /\ req \in [Reqs -> [st : Statuses, suite : Suites \cup {0}, re : BOOLEAN]]
  /\ n \in 0..MaxRequests /\ lapsed \subseteq Reqs
  /\ secret \in [at : {"none", "kept", "deleted", "purged"}, val : 0..Own,
                 sealed : Suites \cup {0}, suite : Suites \cup {0}]
  /\ suite \in Suites /\ from \in Suites \cup {0} /\ suites \in Suites
  /\ moves \subseteq Moves /\ dead \subseteq Suites /\ missed \subseteq Suites
  /\ pages \subseteq Reqs \X Suites
  /\ answered \in [Reqs -> Nat]
  /\ h \in [Workers -> [op : Ops, r : Reqs \cup {0}, s : Suites \cup {0}]]

Init ==
  /\ req = [r \in Reqs |-> NoRequest] /\ n = 0 /\ lapsed = {}
  /\ secret \in {[at |-> "none", val |-> 0, sealed |-> 0, suite |-> 0],
                 [at |-> "kept", val |-> Own, sealed |-> 1, suite |-> 1]}
  /\ suite = 1 /\ from = 0 /\ suites = 1 /\ moves = {} /\ dead = {} /\ missed = {}
  /\ pages = {} /\ answered = [r \in Reqs |-> 0]
  /\ h = [w \in Workers |-> Idle]

-----------------------------------------------------------------------------
Step(w, op, new) ==
  /\ h[w].op = op
  /\ \A v \in Workers \ {w} : {new.op, h[v].op} \notin Conflicts
  /\ h' = [h EXCEPT ![w] = new]

Apart(op) ==
  /\ \A w \in Workers : {op, h[w].op} \notin Conflicts
  /\ \A m \in moves : {op, m.at} \notin Conflicts

Load(w, op, r, s) == Step(w, "idle", [op |-> op, r |-> r, s |-> s]) /\ Apart(op)

WriteLocked == from # 0
Kept == secret.at = "kept"
Pending(r) == req[r].st = "pending"

\* SecretService::delete, with the requests of the secret.
Delete(how) ==
  /\ secret' = [secret EXCEPT !.at = how]
  /\ req' = [r \in Reqs |-> NoRequest]

-----------------------------------------------------------------------------
\* The requester.

\* createForUserVault: the placeholder, then the request for it.
Fresh(w) ==
  /\ secret.at = "none" /\ n < MaxRequests /\ ~WriteLocked
  /\ secret' = [secret EXCEPT !.at = "kept", !.suite = suite]
  /\ n' = n + 1
  /\ Load(w, "fresh", n + 1, suite)
  /\ UNCHANGED <<req, lapsed, migration, pages, answered>>

\* A migration that began meanwhile refuses the request; the placeholder goes.
FreshRolledBack(w) ==
  /\ WriteLocked
  /\ Step(w, "fresh", Idle)
  /\ Delete("deleted")
  /\ UNCHANGED <<n, lapsed, migration, pages, answered>>

\* create and createReRequest for a secret that exists.
Create(w) ==
  /\ Kept /\ n < MaxRequests /\ ~WriteLocked
  /\ n' = n + 1
  /\ Load(w, "create", n + 1, suite)
  /\ UNCHANGED <<req, lapsed, secret, migration, pages, answered>>

ReRequest(w) ==
  /\ Kept /\ n < MaxRequests /\ ~WriteLocked /\ \A r \in Reqs : ~Pending(r)
  /\ n' = n + 1
  /\ Load(w, "rerequest", n + 1, secret.suite)
  /\ UNCHANGED <<req, lapsed, secret, migration, pages, answered>>

\* The insert asks for no secret: a request outlives one deleted meanwhile.
Insert(w) ==
  LET f == h[w] IN
  \E op \in {"fresh", "create", "rerequest"} :
    /\ op = "fresh" => ~WriteLocked
    /\ Step(w, op, Idle)
    /\ req' = [req EXCEPT ![f.r] = [st |-> "pending", suite |-> f.s, re |-> op = "rerequest"]]
    /\ UNCHANGED <<n, lapsed, secret, migration, pages, answered>>

Approve(w, r) ==
  /\ Pending(r) /\ r \notin lapsed
  /\ Load(w, "approve", r, 0)
  /\ UNCHANGED <<req, n, lapsed, secret, migration, pages, answered>>

Decline(w, r) ==
  /\ Pending(r)
  /\ Load(w, "decline", r, 0)
  /\ UNCHANGED <<req, n, lapsed, secret, migration, pages, answered>>

\* A deleted request is not written.
Mark(r, st) == req' = [req EXCEPT ![r].st = IF @ = "none" THEN @ ELSE st]

ApproveSave(w) ==
  /\ Step(w, "approve", Idle)
  /\ Mark(h[w].r, "fulfilled")
  /\ UNCHANGED <<n, lapsed, secret, migration, pages, answered>>

DeclineSave(w) ==
  /\ Step(w, "decline", [h[w] EXCEPT !.op = "look"])
  /\ Mark(h[w].r, "declined")
  /\ UNCHANGED <<n, lapsed, secret, migration, pages, answered>>

\* Bug: a placeholder is taken for granted.
MutantLook(w) ==
  /\ Step(w, "look", [h[w] EXCEPT !.op = "clean"])
  /\ UNCHANGED <<req, n, lapsed, secret, migration, pages, answered>>

\* removeIfUnfilled: loads the secret, and deletes it if it holds no value.
Look(w) ==
  /\ IF Kept /\ secret.val = 0 THEN Step(w, "look", [h[w] EXCEPT !.op = "clean"])
     ELSE Step(w, "look", Idle)
  /\ UNCHANGED <<req, n, lapsed, secret, migration, pages, answered>>

CleanDelete(w) ==
  /\ Step(w, "clean", Idle)
  /\ IF Kept THEN Delete("deleted") ELSE UNCHANGED <<secret, req>>
  /\ UNCHANGED <<n, lapsed, migration, pages, answered>>

OwnerWrites ==
  /\ Kept /\ ~WriteLocked /\ Apart("edit")
  /\ secret' = [secret EXCEPT !.val = Own, !.sealed = suite]
  /\ UNCHANGED <<req, n, lapsed, migration, pages, answered, h>>

Purge ==
  /\ Kept
  /\ Delete("purged")
  /\ UNCHANGED <<n, lapsed, migration, pages, answered, h>>

-----------------------------------------------------------------------------
\* The visitor of the link.

\* requireOpenByToken
Open(r) == Pending(r) /\ r \notin lapsed /\ req[r].suite = suite

OpenPage(r) ==
  /\ Open(r)
  /\ pages' = pages \cup {<<r, suite>>}
  /\ UNCHANGED <<req, n, lapsed, secret, migration, answered, h>>

\* Bug: a fulfilled request is still open.
MutantFill(w, r) ==
  \E s \in Suites :
    /\ <<r, s>> \in pages /\ req[r].st \in {"pending", "fulfilled"} /\ r \notin lapsed
    /\ req[r].suite = suite /\ Kept /\ ~WriteLocked
    /\ answered[r] < 2
    /\ Load(w, "fill", r, s)
    /\ UNCHANGED <<req, n, lapsed, secret, migration, pages, answered>>

\* The page seals the values to the certificate it has.  A locked vault and a
\* secret that is gone refuse them.
Fill(w, r) ==
  \E s \in Suites :
    /\ <<r, s>> \in pages /\ Open(r) /\ Kept /\ ~WriteLocked
    /\ Load(w, "fill", r, s)
    /\ UNCHANGED <<req, n, lapsed, secret, migration, pages, answered>>

FillStore(w) ==
  LET f == h[w] IN
  /\ Step(w, "fill", [f EXCEPT !.op = "mark"])
  /\ secret' = IF Kept THEN [secret EXCEPT !.val = f.r, !.sealed = f.s] ELSE secret
  /\ UNCHANGED <<req, n, lapsed, migration, pages, answered>>

FillMark(w) ==
  LET r == h[w].r IN
  /\ Step(w, "mark", Idle)
  /\ Mark(r, "fulfilled")
  /\ answered' = [answered EXCEPT ![r] = @ + 1]
  /\ UNCHANGED <<n, lapsed, secret, migration, pages>>

-----------------------------------------------------------------------------
\* The job and the migration.

\* The time of a request that is over is left out.
Lapse(r) ==
  /\ r \in Expiring /\ req[r].st \in {"pending", "locked"}
  /\ lapsed' = lapsed \cup {r}
  /\ UNCHANGED <<req, n, secret, migration, pages, answered, h>>

\* Bug: re-requests are not selected.
MutantExpireLapsed(w, r) ==
  /\ Pending(r) /\ r \in lapsed /\ ~req[r].re
  /\ Load(w, "expire", r, 0)
  /\ UNCHANGED <<req, n, lapsed, secret, migration, pages, answered>>

\* The job has the request among those it selected.
ExpireLapsed(w, r) ==
  /\ Pending(r) /\ r \in lapsed
  /\ Load(w, "expire", r, 0)
  /\ UNCHANGED <<req, n, lapsed, secret, migration, pages, answered>>

\* Bug: the placeholder is left.
MutantTransitionOnly(w) ==
  LET r == h[w].r IN
  /\ Step(w, "expire", Idle)
  /\ IF Pending(r) THEN Mark(r, "expired") ELSE UNCHANGED req
  /\ UNCHANGED <<n, lapsed, secret, migration, pages, answered>>

\* transitionIfPending, one conditional UPDATE.
Transition(w) ==
  LET r == h[w].r IN
  /\ h[w].op = "expire"
  /\ IF Pending(r)
     THEN Mark(r, "expired") /\ Step(w, "expire", [h[w] EXCEPT !.op = "look"])
     ELSE UNCHANGED req /\ Step(w, "expire", Idle)
  /\ UNCHANGED <<n, lapsed, secret, migration, pages, answered>>

\* The requests on the suite s in the status st get a new status and suite.
Move(s, st, newst, news) ==
  req' = [r \in Reqs |-> IF req[r].suite = s /\ req[r].st = st
                         THEN [req[r] EXCEPT !.st = newst, !.suite = news] ELSE req[r]]

GoOn(m, at) == moves' = (moves \ {m}) \cup {[m EXCEPT !.at = at]}
Done(m) == moves' = moves \ {m}

\* POST compromise-recovery: the successor is inserted.  Two that start at once,
\* and one that starts while an abort discards its suite, are SuiteMigration's.
RecoverStarts ==
  /\ ~WriteLocked /\ suites < MaxSuites /\ Apart("open")
  /\ \A m \in moves : m.at \notin {"open", "discard"}
  /\ suite' = suites + 1 /\ suites' = suites + 1
  /\ moves' = moves \cup {[at |-> "open", old |-> suite, new |-> suites + 1]}
  /\ UNCHANGED <<req, n, lapsed, secret, from, dead, missed, pages, answered, h>>

\* The migration is inserted, which locks the vault.
OpenMigration(m) ==
  /\ m.at = "open"
  /\ from' = m.old
  /\ GoOn(m, "lock")
  /\ UNCHANGED <<req, n, lapsed, secret, suite, suites, dead, missed, pages, answered, h>>

\* SuiteMigrationStartedListener.  It can come after the migration has ended.
LockRequests(m) ==
  /\ m.at = "lock"
  /\ Move(m.old, "pending", "locked", m.old)
  /\ missed' = IF from = m.old THEN missed ELSE missed \cup {m.old}
  /\ Done(m)
  /\ UNCHANGED <<n, lapsed, secret, suite, from, suites, dead, pages, answered, h>>

\* The terminal status is what the lock goes with.  The commits before it have
\* sealed to the new suite what opened with the one that is left.
SetCompleted ==
  /\ WriteLocked /\ Apart("compromise")
  /\ from' = 0
  /\ moves' = moves \cup {[at |-> "compromise", old |-> from, new |-> suite]}
  /\ secret' = [secret EXCEPT !.suite = IF @ = 0 THEN @ ELSE suite,
                              !.sealed = IF @ = from THEN suite ELSE @]
  /\ UNCHANGED <<req, n, lapsed, suite, suites, dead, missed, pages, answered, h>>

MarkCompromised(m) ==
  /\ m.at = "compromise"
  /\ dead' = dead \cup {m.old}
  /\ GoOn(m, "repoint")
  /\ UNCHANGED <<req, n, lapsed, secret, suite, from, suites, missed, pages, answered, h>>


\* SuiteMigrationCompletedListener
RepointRequests(m) ==
  /\ m.at = "repoint"
  /\ Move(m.old, "locked", "pending", m.new)
  /\ Done(m)
  /\ UNCHANGED <<n, lapsed, secret, suite, from, suites, dead, missed, pages, answered, h>>

SetAborted ==
  /\ WriteLocked /\ Apart("discard")
  /\ from' = 0
  /\ moves' = moves \cup {[at |-> "discard", old |-> from, new |-> suite]}
  /\ UNCHANGED <<req, n, lapsed, secret, suite, suites, dead, missed, pages, answered, h>>

\* Bug: the suite that was left is not the active one again.
MutantDiscardSuccessor(m) ==
  /\ m.at = "discard"
  /\ suite' = 0
  /\ GoOn(m, "unlock")
  /\ UNCHANGED <<req, n, lapsed, secret, from, suites, dead, missed, pages, answered, h>>

DiscardSuccessor(m) ==
  /\ m.at = "discard"
  /\ suite' = m.old
  /\ GoOn(m, "unlock")
  /\ UNCHANGED <<req, n, lapsed, secret, from, suites, dead, missed, pages, answered, h>>

\* Bug: unlocking refuses two equal suites, and the listener hides it.
MutantUnlockRequests(m) ==
  /\ m.at = "unlock"
  /\ Done(m)
  /\ UNCHANGED <<req, n, lapsed, secret, suite, from, suites, dead, missed, pages, answered, h>>

\* SuiteMigrationAbortedListener
UnlockRequests(m) ==
  /\ m.at = "unlock"
  /\ Move(m.old, "locked", "pending", m.old)
  /\ Done(m)
  /\ UNCHANGED <<n, lapsed, secret, suite, from, suites, dead, missed, pages, answered, h>>

\* A listener fails, which it only logs, or the process dies before the step.
RecoveryStops(m) ==
  /\ m.at \in Fallible
  /\ Done(m)
  /\ missed' = missed \cup {m.old}
  /\ UNCHANGED <<req, n, lapsed, secret, suite, from, suites, dead, pages, answered, h>>

Recover(m) ==
  \/ OpenMigration(m) \/ LockRequests(m) \/ MarkCompromised(m) \/ RepointRequests(m)
  \/ DiscardSuccessor(m) \/ UnlockRequests(m)

Accept(w) ==
  \/ Fresh(w) \/ Create(w) \/ ReRequest(w)
  \/ \E r \in Reqs : Approve(w, r) \/ Decline(w, r) \/ Fill(w, r)

Finish(w) ==
  \/ FreshRolledBack(w) \/ Insert(w) \/ ApproveSave(w) \/ DeclineSave(w) \/ Look(w)
  \/ CleanDelete(w) \/ FillStore(w) \/ FillMark(w) \/ Transition(w)

Expiry == \E w \in Workers, r \in Reqs : ExpireLapsed(w, r)

Next ==
  \/ \E w \in Workers : Accept(w) \/ Finish(w)
  \/ Expiry
  \/ \E r \in Reqs : OpenPage(r) \/ Lapse(r)
  \/ OwnerWrites \/ Purge \/ RecoverStarts \/ SetCompleted \/ SetAborted
  \/ \E m \in moves : Recover(m) \/ RecoveryStops(m)

Spec == Init /\ [][Next]_vars

\* PHP runs a request to its end; the job runs every hour, whatever else does.
FairSpec ==
  /\ Spec /\ SF_vars(Expiry)
  /\ \A w \in Workers : WF_vars(Finish(w))

-----------------------------------------------------------------------------
\* No secret without a value outlives the requests that justified it, unless
\* the owner approved one (decline, the job and a rolled back creation).
NoKeylessOrphan ==
  Kept /\ secret.val = 0 =>
    \/ \E r \in Reqs : req[r].st \in {"pending", "locked", "fulfilled"}
    \/ \E w \in Workers : h[w].op \in {"fresh", "look", "clean"}

\* A visitor who was told that the values are stored did not lose them: what
\* removes placeholders never removes them (removeIfUnfilled against fill).
AnsweredIsStored ==
  \A r \in Reqs : answered[r] > 0 => secret.at = "purged" \/ (Kept /\ secret.val # 0)

\* A secret that the cleaner finds without a value was never answered for: an
\* answer is lost only by a submission between its look and its delete.
EmptyIsUnanswered == Kept /\ secret.val = 0 => \A r \in Reqs : answered[r] = 0

\* A request that was answered for is never open again: no submission begins
\* for it, on whatever page, through migrations, re-requests and expiries.
AnsweredCloses ==
  [][\A w \in Workers : h[w].op = "idle" /\ h'[w].op = "fill" => answered[h'[w].r] = 0]_vars

\* One submission per request is stored.
WriteOnce == \A r \in Reqs : answered[r] <= 1

\* What a request of the suite s waits for is still to come, or was lost.
UnderWay(s) == \E m \in moves : m.old = s

\* No migration leaves a request locked behind it, unless its start's listener
\* came too late or the one of its end failed.
NoneStranded ==
  \A r \in Reqs : LET s == req[r].suite IN
    req[r].st = "locked" => s = from \/ UnderWay(s) \/ s \in missed

\* Only a migration that runs or ends keeps a request locked.
LockedByMigration ==
  \A r \in Reqs : LET s == req[r].suite IN req[r].st = "locked" => s = from \/ UnderWay(s)


\* A request that lapsed does not stay open.
LapsedEnds == \A r \in Expiring : r \in lapsed /\ Pending(r) ~> ~Pending(r)

\* What is stored opens with the suite of the secret: the values were sealed to
\* the requester's certificate (the fill-in page against a migration).
SealedToItsSuite == Kept /\ secret.val # 0 => secret.sealed = secret.suite
=============================================================================
