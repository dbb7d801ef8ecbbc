------------------------- MODULE SuiteMigrationEnds -------------------------
(***************************************************************************)
(* What is in use stays on suites that are alive, what a completion locks   *)
(* away was acknowledged, what it begins it finishes, and what is sealed    *)
(* stays open, for every value of the constants and whatever else the user  *)
(* does meanwhile.                                                          *)
(*                                                                          *)
(* Beside RecoveryAlone the theorems assume, each only where it is needed,  *)
(*   AbortAlone   an abort overlaps no other request: it counts what is     *)
(*                committed in one statement and deletes in another;        *)
(*   NoFaults     no crash and no failing listener: the steps behind the    *)
(*                end of a completion are in no transaction;                *)
(*   OnlyEdits    no request deletes, prunes, restores or synchronises a    *)
(*                record: these read no write lock.                         *)
(* The sets of Conflicts that the runs use imply RecoveryAlone and          *)
(* AbortAlone.                                                              *)
(***************************************************************************)
EXTENDS SuiteMigrationProofs

AbortAlone == \A op \in Ops : {"abort", op} \in Conflicts

\* No request of the instance deletes, prunes, restores or synchronises.
OnlyEdits == Ops \cap {"delete", "prune", "restore", "sync"} = {}

LEMMA NoRestores ==
    ASSUME OpsInFlight, OnlyEdits, NEW w \in Workers
    PROVE  ~WriteKey(w) /\ ~LoadHead(w) /\ ~SnapshotHead(w)
  BY DEF OpsInFlight, OnlyEdits, WriteKey, LoadHead, SnapshotHead, At

-----------------------------------------------------------------------------
(* Where the handlers of a terminal are.                                    *)

\* The steps of complete and abort behind the one that ends the migration.
Past == {"compromise", "revoke", "clear", "repoint", "sweep", "delete", "unlock"}

Behind(w) == h[w].op \in {"complete", "abort"} /\ h[w].at \in Past

\* A handler gets behind the end of its migration by ending it.
LEMMA BehindStep ==
    ASSUME TypeInv, ProtocolInv, NEW w \in Workers, WorkerMoves(w), Behind(w)',
           ~SetCompleted(w), ~SetAborted(w)
    PROVE  Behind(w) /\ h'[w].m = h[w].m /\ h'[w].op = h[w].op
<1> USE DEF Behind, Past
<1>1. h'[w] # Idle
  BY DEF Idle
<1>2. CASE Arrive(w)
  <2>1. h'[w].at \in {"create", "write", "lock", "drop", "count"}
    BY <1>2, BeginIs DEF Arrive, RecoverCheck, CommitGuard, FailGuard, CarryGuard, CompleteCheck,
       AbortCheck, SendWrite, SendSync, LoadVersion
  <2> QED
    BY <2>1
<1>3. CASE CreateSuccessor(w) \/ OpenMigration(w)
  BY <1>3, SuiteStepHandler DEF SuiteStep, CreateSuccessor, OpenMigration, At, HandlerStays
<1>4. CASE \/ LockRequests(w) \/ CommitRecord(w) \/ RecordFailure(w) \/ CarryContact(w)
           \/ SweepContacts(w) \/ UnlockRequests(w) \/ UpdateSecret(w) \/ CreateSecret(w)
           \/ CreateLink(w) \/ CreateRequest(w) \/ WriteKey(w) \/ Crash(w)
  BY <1>1, <1>4, EndIs DEF LockRequests, CommitRecord, RecordFailure, CarryContact, SweepContacts,
     UnlockRequests, UpdateSecret, CreateSecret, CreateLink, CreateRequest, WriteKey, Crash
<1>5. CASE \/ DropVersionsBeyondWindow(w) \/ AssertNothingUnaccountedFor(w) \/ CountCommitted(w)
           \/ AssertNotWriteLocked(w)
  BY <1>1, <1>5, GotoIs, EndIs DEF DropVersionsBeyondWindow, AssertNothingUnaccountedFor,
     CountCommitted, AssertNotWriteLocked
<1>6. CASE CountRows(w) \/ AssertLossAcknowledged(w)
  <2>1. h'[w].at \in {"gate", "status"} \/ End(w)
    BY <1>6 DEF CountRows, AssertLossAcknowledged, TypeInv, TypeOK, Handlers
  <2> QED
    BY <1>1, <2>1, EndIs
<1>7. CASE MarkCompromised(w) \/ RevokeKeyMaterial(w) \/ RepointRequests(w) \/ DeleteSuccessor(w)
  BY <1>7, GotoIs DEF MarkCompromised, RevokeKeyMaterial, RepointRequests, DeleteSuccessor, At
<1>8. CASE ClearFailureAccounting(w)
  BY <1>8, GotoIs DEF ClearFailureAccounting
<1>9. CASE ListenerFails(w)
  BY <1>1, <1>9, GotoIs, EndIs DEF ListenerFails
<1>10. CASE LoadHead(w) \/ SnapshotHead(w)
  BY <1>1, <1>10, RestoreSteps
<1> QED
  BY <1>2, <1>3, <1>4, <1>5, <1>6, <1>7, <1>8, <1>9, <1>10 DEF WorkerMoves, Step

-----------------------------------------------------------------------------
(* A running migration can be resumed.                                      *)

InProgress(m) == status[m] = "in_progress"

OneRuns == \A j, k \in Suites : InProgress(j) /\ InProgress(k) => j = k

\* The requests in flight that act on a migration act on the one that runs.
Sole == \A w \in Workers : h[w].op \in Moving => \A k \in Suites : InProgress(k) => k = h[w].m

BehindIsOver == \A w \in Workers : Behind(w) => ~InProgress(h[w].m)

EndsInv == OneRuns /\ Sole /\ BehindIsOver /\ EndsActive

LEMMA QuietEnds ==
    ASSUME TypeInv, ProtocolInv, EndsInv, NEW w \in Workers, WorkerMoves(w), ~SuiteStep(w)
    PROVE  EndsInv'
<1> USE DEF EndsInv
<1>1. SuitesSame /\ OthersSame(w) /\ (HandlerEnds(w) \/ HandlerGoesOn(w) \/ HandlerBegins(w))
  BY QuietStep DEF ProtocolInv
<1>2. OneRuns' /\ EndsActive'
  BY <1>1 DEF OneRuns, EndsActive, InProgress, SuitesSame
<1>3. Sole'
  <2> SUFFICES ASSUME NEW v \in Workers, h'[v].op \in Moving, NEW k \in Suites, InProgress(k)'
               PROVE  k = h'[v].m
    BY DEF Sole
  <2>1. InProgress(k)
    BY <1>1 DEF InProgress, SuitesSame
  <2>2. CASE v # w \/ HandlerGoesOn(w)
    BY <1>1, <2>1, <2>2 DEF Sole, OthersSame, HandlerGoesOn, HandlerStays
  <2>3. CASE v = w /\ HandlerEnds(w)
    BY <2>3 DEF HandlerEnds, Idle, Moving
  <2>4. CASE v = w /\ HandlerBegins(w)
    <3>1. h'[w].m \in Suites /\ InProgress(h'[w].m)
      BY <2>4 DEF HandlerBegins, Running, InProgress
    <3> QED
      BY <2>1, <2>4, <3>1 DEF OneRuns
  <2> QED
    BY <1>1, <2>2, <2>3, <2>4
<1>4. BehindIsOver'
  <2> SUFFICES ASSUME NEW v \in Workers, Behind(v)' PROVE ~InProgress(h[v].m)'
    BY DEF BehindIsOver
  <2>1. Behind(v) /\ h'[v].m = h[v].m
    <3>1. CASE v = w
      BY <3>1, BehindStep DEF SuiteStep
    <3>2. CASE v # w
      BY <1>1, <3>2 DEF OthersSame, Behind
    <3> QED
      BY <3>1, <3>2
  <2> QED
    BY <1>1, <2>1 DEF BehindIsOver, InProgress, SuitesSame
<1> QED
  BY <1>2, <1>3, <1>4

LEMMA SuiteStepEnds ==
    ASSUME TypeInv, ProtocolInv, EndsInv, NEW w \in Workers, SuiteStep(w)
    PROVE  EndsInv'
<1> USE DEF EndsInv
<1>1. OthersSame(w) /\ HandlerStays(w)
  BY SuiteStepHandler
<1>2. Fits(h[w]) /\ h[w] \in Handlers
  BY DEF TypeInv, TypeOK
<1>3. CASE CreateSuccessor(w) \/ OpenMigration(w)
  <2>1. h[w].op = "recover" /\ h'[w].op = "recover"
    BY <1>1, <1>3 DEF CreateSuccessor, OpenMigration, At, HandlerStays
  <2>2. \A v \in Workers : h'[v].op \notin Moving /\ ~Behind(v)'
    BY <1>1, <2>1 DEF ProtocolInv, RecoverAlone, Alone, OthersSame, Idle, Moving, Behind
  <2>3. Sole' /\ BehindIsOver'
    BY <2>2 DEF Sole, BehindIsOver
  <2>4. \A m \in Suites : ~InProgress(m)
    BY <1>3 DEF CreateSuccessor, OpenMigration, At, ProtocolInv, Recovering, InProgress
  <2>5. CASE CreateSuccessor(w)
    BY <2>3, <2>4, <2>5 DEF CreateSuccessor, OneRuns, EndsActive, InProgress
  <2>6. CASE OpenMigration(w)
    <3>1. PICK m \in Suites, n \in Suites :
            /\ m = h[w].m /\ n = h[w].n
            /\ suite[n] = "active" /\ suite[m] = "active"
      BY <1>2, <2>6 DEF OpenMigration, At, Fits, ProtocolInv, Recovering
    <3>2. /\ UNCHANGED suite /\ oldOf'[m] = n
          /\ \A k \in Suites \ {m} : status'[k] = status[k]
      BY <2>6, <3>1 DEF OpenMigration, TypeInv, TypeOK
    <3>3. \A k \in Suites : InProgress(k)' => k = m
      BY <2>4, <3>2 DEF InProgress
    <3> QED
      BY <2>3, <3>1, <3>2, <3>3 DEF OneRuns, EndsActive, InProgress
  <2> QED
    BY <1>3, <2>5, <2>6
<1>4. CASE SetCompleted(w) \/ SetAborted(w)
  <2>1. PICK m \in Suites : m = h[w].m /\ h[w].op \in {"complete", "abort"}
    BY <1>2, <1>4 DEF SetCompleted, SetAborted, At, Fits
  <2>2. /\ UNCHANGED <<suite, oldOf>> /\ h'[w].m = m /\ h'[w].op = h[w].op
        /\ ~InProgress(m)' /\ \A k \in Suites \ {m} : status'[k] = status[k]
    BY <1>4, <2>1, GotoIs DEF SetCompleted, SetAborted, InProgress, TypeInv, TypeOK
  <2>3. \A k \in Suites : InProgress(k)' => InProgress(k) /\ k # m
    BY <2>2 DEF InProgress
  <2>4. \A v \in Workers : h'[v].m = h[v].m /\ h'[v].op = h[v].op
    BY <1>1, <2>1, <2>2 DEF OthersSame
  <2>5. OneRuns' /\ EndsActive'
    BY <2>2, <2>3 DEF OneRuns, EndsActive, InProgress
  <2>6. Sole'
    BY <2>3, <2>4 DEF Sole
  <2>7. BehindIsOver'
    <3> SUFFICES ASSUME NEW v \in Workers, Behind(v)' PROVE ~InProgress(h[v].m)'
      BY DEF BehindIsOver
    <3>1. CASE v = w
      BY <2>2, <3>1 DEF InProgress
    <3>2. CASE v # w
      <4>1. Behind(v) /\ h'[v].m = h[v].m /\ h[v].m \in Suites
        BY <1>1, <3>2 DEF OthersSame, Behind, TypeInv, Fits
      <4>2. ~InProgress(h[v].m)
        BY <4>1 DEF BehindIsOver
      <4> QED
        BY <2>3, <4>1, <4>2 DEF InProgress
    <3> QED
      BY <3>1, <3>2
  <2> QED
    BY <2>5, <2>6, <2>7
<1>5. CASE MarkCompromised(w) \/ DeleteSuccessor(w)
  <2>1. Behind(w) /\ h[w].op \in Moving
    BY <1>5 DEF MarkCompromised, DeleteSuccessor, At, Behind, Past, Moving
  <2>2. \A k \in Suites : ~InProgress(k)
    BY <2>1 DEF Sole, BehindIsOver
  <2>3. UNCHANGED status
    BY <1>5 DEF MarkCompromised, DeleteSuccessor
  <2>4. \A k \in Suites : ~InProgress(k)'
    BY <2>2, <2>3 DEF InProgress
  <2>5. \A v \in Workers : Behind(v)' => h'[v].m \in Suites
    <3>1. h'[w].m = h[w].m /\ h[w].m \in Suites
      BY <1>2, <1>5, GotoIs DEF MarkCompromised, DeleteSuccessor, At, Fits
    <3> QED
      BY <1>1, <3>1 DEF OthersSame, Behind, TypeInv, Fits
  <2> QED
    BY <2>4, <2>5 DEF OneRuns, Sole, BehindIsOver, EndsActive, InProgress
<1> QED
  BY <1>3, <1>4, <1>5 DEF SuiteStep

LEMMA EndsStep ==
    ASSUME TypeInv, ProtocolInv, EndsInv, [Next]_vars
    PROVE  EndsInv'
<1>1. ASSUME NEW w \in Workers, WorkerMoves(w) PROVE EndsInv'
  BY <1>1, QuietEnds, SuiteStepEnds
<1>2. CASE Vault \/ UNCHANGED vars
  <2>1. UNCHANGED <<suite, status, oldOf, h>>
    BY <1>2 DEF Vault, DeleteSecret, PruneVersion, BreakGlass, Free, vars
  <2> QED
    BY <2>1 DEF EndsInv, OneRuns, Sole, BehindIsOver, EndsActive, InProgress, Behind
<1> QED
  BY <1>1, <1>2 DEF Next, WorkerMoves

BaseInv == TypeInv /\ ProtocolInv /\ EndsInv

LEMMA InitBase == Init => BaseInv
<1> SUFFICES ASSUME Init PROVE BaseInv
  OBVIOUS
<1>1. SafetyInv
  BY InitSafe
<1>2. \A m \in Suites : ~InProgress(m)
  BY DEF Init, InProgress
<1>3. \A w \in Workers : h[w].op \notin Moving /\ ~Behind(w)
  BY DEF Init, Idle, Moving, Behind
<1>4. EndsInv
  BY <1>2, <1>3 DEF EndsInv, OneRuns, Sole, BehindIsOver, EndsActive, InProgress
<1> QED
  BY <1>1, <1>4 DEF BaseInv, SafetyInv

LEMMA BaseStep ==
    ASSUME BaseInv, RecoveryAlone, [Next]_vars
    PROVE  BaseInv'
<1>1. TypeInv'
  BY NextKeepsTypes DEF BaseInv
<1>2. ProtocolInv' /\ EndsInv'
  BY ProtocolStep, EndsStep DEF BaseInv
<1> QED
  BY <1>1, <1>2 DEF BaseInv

\* A migration that runs can be resumed: whatever is written, committed,
\* completed, aborted or crashes meanwhile, the old suite and its successor
\* are both active (resumeMigration, completeMigration, abortMigration).
THEOREM RunningEndsAreActive ==
    ASSUME RecoveryAlone
    PROVE  Spec => []EndsActive
<1>1. Init => BaseInv
  BY InitBase
<1>2. BaseInv /\ [Next]_vars => BaseInv'
  BY BaseStep
<1>3. BaseInv => EndsActive
  BY DEF BaseInv, EndsInv
<1> QED
  BY <1>1, <1>2, <1>3, PTL DEF Spec

-----------------------------------------------------------------------------
(* Nothing in use is bound to a suite that an abort deletes.                *)

\* Rows stay bound as rows were bound, contacts in use as they were.
TablesStay ==
    /\ \A r \in Records : on'[r] # 0 => \E x \in Records : on'[r] = on[x]
    /\ \A c \in Contacts : con'[c].state # "invalidated" =>
        con[c].state # "invalidated" /\ con'[c].on = con[c].on

\* A handler binds a row also to the active suite, or to the one it moves to.
TablesFrom(w) ==
    /\ \A r \in Records : on'[r] # 0 =>
        \/ \E x \in Records : on'[r] = on[x]
        \/ on'[r] \in Active
        \/ CommitRecord(w) /\ on'[r] = h[w].m
        \/ SnapshotHead(w) /\ on'[r] = h[w].head.on
    /\ \A c \in Contacts : con'[c].state # "invalidated" =>
        /\ con[c].state # "invalidated"
        /\ con'[c].on = con[c].on \/ (CarryContact(w) /\ con'[c].on = h[w].m)

LEMMA SameTables ==
    ASSUME UNCHANGED <<on, con>>
    PROVE  TablesStay
  BY DEF TablesStay

LEMMA OverwriteStays ==
    ASSUME TypeInv, NEW s \in Records, NEW key, Overwrite(s, key), UNCHANGED con
    PROVE  TablesStay
<1>1. PICK v \in Versions : on' = [on EXCEPT ![v] = on[s]]
  BY DEF Overwrite
<1>2. \A r \in Records : on'[r] = on[s] \/ on'[r] = on[r]
  BY <1>1 DEF TypeInv, TypeOK
<1> QED
  BY <1>2 DEF TablesStay

\* The steps that write rows or contacts, and the requests they belong to.
WritesTables(w) ==
    \/ CommitRecord(w) \/ CarryContact(w) \/ DropVersionsBeyondWindow(w)
    \/ SweepContacts(w) \/ UpdateSecret(w) \/ CreateSecret(w) \/ SnapshotHead(w)

Writers == {"commit", "carry", "complete", "edit", "create", "restore"}

LEMMA WritersWrite ==
    ASSUME NEW w \in Workers, WritesTables(w)
    PROVE  h[w].op \in Writers
  BY DEF WritesTables, CommitRecord, CarryContact, DropVersionsBeyondWindow, SweepContacts,
     UpdateSecret, CreateSecret, SnapshotHead, At, Writers

LEMMA OthersWriteNothing ==
    ASSUME NEW w \in Workers, WorkerMoves(w), ~WritesTables(w)
    PROVE  UNCHANGED <<on, con>>
<1>1. CASE Arrive(w) \/ Crash(w) \/ ListenerFails(w)
  BY <1>1 DEF Arrive, RecoverCheck, CommitGuard, FailGuard, CarryGuard, CompleteCheck, AbortCheck,
     SendWrite, SendSync, LoadVersion, Crash, ListenerFails, sideVars
<1>2. CASE \/ CreateSuccessor(w) \/ OpenMigration(w) \/ LockRequests(w) \/ RecordFailure(w)
           \/ CountRows(w) \/ AssertNothingUnaccountedFor(w) \/ AssertLossAcknowledged(w)
           \/ SetCompleted(w) \/ MarkCompromised(w) \/ RevokeKeyMaterial(w)
           \/ ClearFailureAccounting(w) \/ RepointRequests(w)
  BY <1>2 DEF CreateSuccessor, OpenMigration, LockRequests, RecordFailure, CountRows,
     AssertNothingUnaccountedFor, AssertLossAcknowledged, SetCompleted, MarkCompromised,
     RevokeKeyMaterial, ClearFailureAccounting, RepointRequests, sideVars
<1>3. CASE \/ CountCommitted(w) \/ SetAborted(w) \/ DeleteSuccessor(w) \/ UnlockRequests(w)
           \/ AssertNotWriteLocked(w) \/ CreateLink(w) \/ CreateRequest(w) \/ WriteKey(w)
           \/ LoadHead(w)
  BY <1>3 DEF CountCommitted, SetAborted, DeleteSuccessor, UnlockRequests, AssertNotWriteLocked,
     CreateLink, CreateRequest, WriteKey, LoadHead, sideVars
<1> QED
  BY <1>1, <1>2, <1>3 DEF WorkerMoves, Step, WritesTables

LEMMA WorkerFrom ==
    ASSUME TypeInv, NEW w \in Workers, WorkerMoves(w)
    PROVE  TablesFrom(w)
<1>1. CASE ~WritesTables(w)
  BY <1>1, OthersWriteNothing, SameTables DEF TablesFrom, TablesStay
<1>2. CASE CommitRecord(w)
  <2>1. PICK r \in Records : r = h[w].r
    BY <1>2 DEF CommitRecord, At, TypeInv, Fits
  <2>2. UNCHANGED con /\ (UNCHANGED on \/ on' = [on EXCEPT ![r] = h[w].m])
    BY <1>2, <2>1 DEF CommitRecord, sideVars
  <2>3. \A x \in Records : on'[x] = on[x] \/ on'[x] = h[w].m
    BY <2>2 DEF TypeInv, TypeOK
  <2> QED
    BY <1>2, <2>2, <2>3 DEF TablesFrom, TablesStay
<1>3. CASE CarryContact(w)
  <2>1. UNCHANGED on /\ con' = [con EXCEPT ![h[w].r].on = h[w].m]
    BY <1>3 DEF CarryContact
  <2>2. \A c \in Contacts : con'[c].state = con[c].state /\ con'[c].on \in {con[c].on, h[w].m}
    BY <2>1 DEF TypeInv, TypeOK
  <2> QED
    BY <1>3, <2>1, <2>2 DEF TablesFrom, TablesStay
<1>4. CASE DropVersionsBeyondWindow(w)
  BY <1>4 DEF DropVersionsBeyondWindow, TablesFrom, sideVars
<1>5. CASE SweepContacts(w)
  <2>1. /\ UNCHANGED on
        /\ con' = [c \in Contacts |-> IF Swept(c, h[w].m)
                                       THEN [con[c] EXCEPT !.state = "invalidated"] ELSE con[c]]
    BY <1>5 DEF SweepContacts
  <2>2. \A c \in Contacts : con'[c] = con[c] \/ con'[c].state = "invalidated"
    BY <2>1 DEF TypeInv, TypeOK
  <2> QED
    BY <2>1, <2>2 DEF TablesFrom, TablesStay
<1>6. CASE UpdateSecret(w)
  <2>1. PICK s \in Records : s = h[w].r
    BY <1>6 DEF UpdateSecret, At, TypeInv, Fits, Records
  <2>2. UNCHANGED con /\ (UNCHANGED on \/ Overwrite(s, h[w].n))
    BY <1>6, <2>1 DEF UpdateSecret, sideVars
  <2> QED
    BY <2>2, OverwriteStays, SameTables DEF TablesFrom, TablesStay
<1>7. CASE CreateSecret(w)
  <2>1. PICK s \in Records : s = h[w].r
    BY <1>7 DEF CreateSecret, At, TypeInv, Fits, Records
  <2>2. UNCHANGED con /\ (UNCHANGED on \/ \E n \in Newest : on' = [on EXCEPT ![s] = n])
    BY <1>7, <2>1 DEF CreateSecret, sideVars
  <2>3. ASSUME NEW n \in Newest, on' = [on EXCEPT ![s] = n]
        PROVE  \A x \in Records : on'[x] = on[x] \/ on'[x] \in Active
    BY <2>3 DEF TypeInv, TypeOK, Newest
  <2> QED
    BY <2>2, <2>3, SameTables DEF TablesFrom, TablesStay
<1>8. CASE SnapshotHead(w)
  <2>1. UNCHANGED con /\ \A x \in Records : on'[x] = on[x] \/ on'[x] = h[w].head.on
    BY <1>8 DEF SnapshotHead, sideVars, TypeInv, TypeOK
  <2> QED
    BY <1>8, <2>1 DEF TablesFrom
<1> QED
  BY <1>1, <1>2, <1>3, <1>4, <1>5, <1>6, <1>7, <1>8 DEF WritesTables

\* The user's own writes bind rows as they were bound and carry no contact.
LEMMA VaultStays ==
    ASSUME TypeInv, Vault
    PROVE  TablesStay
<1>1. CASE DeleteSecret
  BY <1>1 DEF DeleteSecret, Free, sideVars, TablesStay
<1>2. CASE PruneVersion
  BY <1>2 DEF PruneVersion, Free, sideVars, TablesStay, TypeInv, TypeOK
<1>4. CASE BreakGlass
  <2>1. PICK c \in Contacts, move \in {<<"granted", "requested">>, <<"requested", "granted">>} :
          con[c].state = move[1] /\ con' = [con EXCEPT ![c].state = move[2]]
    BY <1>4 DEF BreakGlass
  <2>2. con[c].state # "invalidated"
    BY <2>1
  <2>3. \A x \in Contacts : con'[x].on = con[x].on /\ (x # c => con'[x] = con[x])
    BY <2>1 DEF TypeInv, TypeOK
  <2>4. UNCHANGED on
    BY <1>4 DEF BreakGlass
  <2> QED
    BY <2>2, <2>3, <2>4 DEF TablesStay
<1> QED
  BY <1>1, <1>2, <1>4 DEF Vault

-----------------------------------------------------------------------------
(* The invariant of the discarded suites, and the theorem.                  *)

AbortIsAlone == Alone("abort")

\* An abort that has counted deletes a suite to which nothing is bound.
Aborting ==
    \A w \in Workers :
        h[w].op = "abort" /\ h[w].at \in {"status", "delete"} => ~Committed(h[w].m)

\* What a commit or a carry in flight moves to is not deleted under it.
Carrying ==
    \A w \in Workers : h[w].op \in {"commit", "carry"} => suite[h[w].m] # "deleted"

StrandInv == AbortIsAlone /\ Aborting /\ Carrying /\ NoStranding

\* How the suites change for a request that is in flight.
LEMMA Deletes ==
    ASSUME TypeInv, ProtocolInv, NEW w \in Workers, WorkerMoves(w), NEW s \in Suites, suite'[s] = "deleted"
    PROVE  suite[s] = "deleted" \/ (DeleteSuccessor(w) /\ s = h[w].m)
<1>1. CASE ~SuiteStep(w)
  BY <1>1, QuietStep DEF ProtocolInv, SuitesSame
<1>2. CASE CreateSuccessor(w)
  BY <1>2 DEF CreateSuccessor, TypeInv, TypeOK
<1>3. CASE OpenMigration(w) \/ SetCompleted(w) \/ SetAborted(w)
  BY <1>3 DEF OpenMigration, SetCompleted, SetAborted
<1>4. CASE MarkCompromised(w)
  BY <1>4 DEF MarkCompromised, TypeInv, TypeOK
<1>5. CASE DeleteSuccessor(w)
  BY <1>5 DEF DeleteSuccessor, TypeInv, TypeOK
<1> QED
  BY <1>1, <1>2, <1>3, <1>4, <1>5 DEF SuiteStep

\* The step an abort counts in is the one that lets it discard the suite.
LEMMA CountsFirst ==
    ASSUME TypeInv, NEW w \in Workers, WorkerMoves(w),
           h'[w].op = "abort", h'[w].at \in {"status", "delete"}
    PROVE  /\ h[w].op = "abort" /\ h'[w].m = h[w].m
           /\ (CountCommitted(w) /\ ~Committed(h[w].m)) \/ h[w].at = "status"
<1>1. h'[w] # Idle
  BY DEF Idle
<1>2. CASE Arrive(w)
  BY <1>2, BeginIs DEF Arrive, RecoverCheck, CommitGuard, FailGuard, CarryGuard, CompleteCheck,
     AbortCheck, SendWrite, SendSync, LoadVersion
<1>3. CASE SuiteStep(w)
  <2>1. h[w].op = "abort"
    BY <1>3, SuiteStepHandler DEF HandlerStays
  <2> QED
    BY <1>3, <2>1, GotoIs DEF SuiteStep, CreateSuccessor, OpenMigration, SetCompleted,
       MarkCompromised, SetAborted, DeleteSuccessor, At
<1>4. CASE \/ LockRequests(w) \/ CommitRecord(w) \/ RecordFailure(w) \/ CarryContact(w)
           \/ SweepContacts(w) \/ UnlockRequests(w) \/ UpdateSecret(w) \/ CreateSecret(w)
           \/ CreateLink(w) \/ CreateRequest(w) \/ WriteKey(w) \/ Crash(w)
  BY <1>1, <1>4, EndIs DEF LockRequests, CommitRecord, RecordFailure, CarryContact, SweepContacts,
     UnlockRequests, UpdateSecret, CreateSecret, CreateLink, CreateRequest, WriteKey, Crash
<1>5. CASE \/ DropVersionsBeyondWindow(w) \/ AssertNothingUnaccountedFor(w)
           \/ AssertNotWriteLocked(w) \/ RevokeKeyMaterial(w) \/ RepointRequests(w)
           \/ ClearFailureAccounting(w)
  BY <1>1, <1>5, GotoIs, EndIs DEF DropVersionsBeyondWindow, AssertNothingUnaccountedFor,
     AssertNotWriteLocked, RevokeKeyMaterial, RepointRequests, ClearFailureAccounting
<1>6. CASE CountRows(w) \/ AssertLossAcknowledged(w)
  <2>1. h'[w].op = "complete" \/ End(w)
    BY <1>6 DEF CountRows, AssertLossAcknowledged, At, TypeInv, TypeOK, Handlers
  <2> QED
    BY <1>1, <2>1, EndIs
<1>7. CASE CountCommitted(w)
  BY <1>1, <1>7, GotoIs, EndIs DEF CountCommitted, At
<1>8. CASE ListenerFails(w)
  BY <1>1, <1>8, GotoIs, EndIs DEF ListenerFails
<1>9. CASE LoadHead(w) \/ SnapshotHead(w)
  BY <1>1, <1>9, RestoreSteps
<1> QED
  BY <1>2, <1>3, <1>4, <1>5, <1>6, <1>7, <1>8, <1>9 DEF WorkerMoves, Step, SuiteStep

LEMMA WorkerStrands ==
    ASSUME BaseInv, StrandInv, AbortAlone, OnlyEdits, NEW w \in Workers, WorkerMoves(w)
    PROVE  StrandInv'
<1> USE DEF StrandInv, BaseInv
<1>1. AbortIsAlone'
  BY AloneStep DEF ProtocolInv, AbortIsAlone, AbortAlone
<1>2. OthersSame(w) /\ (HandlerEnds(w) \/ HandlerBegins(w) \/ HandlerStays(w))
  BY OperationsStep DEF ProtocolInv
<1>3. TablesFrom(w) /\ ~SnapshotHead(w)
  BY WorkerFrom, NoRestores DEF ProtocolInv
<1>4. ASSUME DeleteSuccessor(w)
      PROVE  /\ h[w].op = "abort" /\ h[w].m \in Suites /\ ~Committed(h[w].m)
             /\ \A v \in Workers \ {w} : h'[v] = Idle
             /\ UNCHANGED <<on, con>>
  <2>1. h[w].op = "abort" /\ h[w].at = "delete" /\ UNCHANGED <<on, con>>
    BY <1>4 DEF DeleteSuccessor, At, sideVars
  <2>2. h[w].m \in Suites /\ ~Committed(h[w].m)
    BY <2>1 DEF TypeInv, Fits, Aborting
  <2>3. \A v \in Workers \ {w} : h'[v] = Idle
    BY <1>2, <2>1 DEF AbortIsAlone, Alone, OthersSame
  <2> QED
    BY <2>1, <2>2, <2>3
<1>5. Aborting'
  <2> SUFFICES ASSUME NEW v \in Workers, h'[v].op = "abort", h'[v].at \in {"status", "delete"}
               PROVE  ~Committed(h[v].m)'
    BY DEF Aborting
  <2>1. /\ h[v].op = "abort" /\ h'[v].m = h[v].m /\ ~Committed(h[v].m)
    <3>1. CASE v = w
      BY <3>1, CountsFirst DEF Aborting
    <3>2. CASE v # w
      BY <1>2, <3>2 DEF OthersSame, Aborting
    <3> QED
      BY <3>1, <3>2
  <2>2. h[w].op \notin Writers
    BY <2>1 DEF AbortIsAlone, Alone, Idle, Writers
  <2>3. UNCHANGED <<on, con>>
    BY <2>2, WritersWrite, OthersWriteNothing
  <2> QED
    BY <2>1, <2>3 DEF Committed, Bound
<1>6. Carrying'
  <2> SUFFICES ASSUME NEW v \in Workers, h'[v].op \in {"commit", "carry"}, suite'[h'[v].m] = "deleted"
               PROVE  FALSE
    BY DEF Carrying
  <2>1. h'[v].m \in Suites /\ suite[h'[v].m] # "deleted"
    <3>1. CASE v # w
      BY <1>2, <3>1 DEF OthersSame, Carrying, TypeInv, Fits
    <3>2. CASE v = w /\ HandlerBegins(w)
      <4>1. h'[w].m \in Suites /\ Running(h'[w].m)
        BY <3>2 DEF HandlerBegins, Moving
      <4> QED
        BY <3>2, <4>1 DEF Running, EndsInv, EndsActive
    <3>3. CASE v = w /\ HandlerStays(w)
      <4>1. h[w].op \in {"commit", "carry"}
        BY <3>3 DEF HandlerStays
      <4>2. ~SuiteStep(w)
        BY <4>1 DEF SuiteStep, CreateSuccessor, OpenMigration, SetCompleted, MarkCompromised,
           SetAborted, DeleteSuccessor, At
      <4>3. HandlerGoesOn(w) \/ HandlerEnds(w) \/ HandlerBegins(w)
        BY <4>2, QuietStep DEF ProtocolInv
      <4>4. HandlerGoesOn(w) \/ HandlerBegins(w)
        BY <3>3, <4>3 DEF HandlerEnds, HandlerStays, Idle
      <4> QED
        BY <3>2, <3>3, <4>1, <4>4 DEF HandlerGoesOn, Carrying, TypeInv, Fits
    <3>4. CASE v = w /\ HandlerEnds(w)
      BY <3>4 DEF HandlerEnds, Idle
    <3> QED
      BY <1>2, <3>1, <3>2, <3>3, <3>4
  <2>2. DeleteSuccessor(w)
    BY <2>1, Deletes
  <2>3. v = w
    BY <1>4, <2>2 DEF Idle
  <2>4. h'[w].op = "abort"
    BY <1>4, <2>2, GotoIs DEF DeleteSuccessor
  <2> QED
    BY <2>3, <2>4
<1>7. NoStranding'
  <2>1. ASSUME NEW s, (\E r \in Records : on'[r] # 0 /\ on'[r] = s)
                        \/ (\E c \in Contacts : con'[c].state # "invalidated" /\ con'[c].on = s)
        PROVE  suite'[s] # "deleted"
    <3>1. s \in Suites
      <4>1. TypeInv'
        BY NextKeepsTypes DEF Next, WorkerMoves
      <4>2. on' \in [Records -> 0..MaxSuites] /\ \A c \in Contacts : con'[c].on \in Suites
        BY <4>1 DEF TypeInv, TypeOK
      <4> QED
        BY <2>1, <4>2, SuiteMigrationAssumption DEF Suites
    <3>2. suite[s] # "deleted"
      <4>1. CASE \E r \in Records : on'[r] # 0 /\ on'[r] = s
        BY <1>3, <4>1 DEF TablesFrom, NoStranding, Active, Carrying, CommitRecord, At
      <4>2. CASE \E c \in Contacts : con'[c].state # "invalidated" /\ con'[c].on = s
        BY <1>3, <4>2 DEF TablesFrom, NoStranding, Carrying, CarryContact, At
      <4> QED
        BY <2>1, <4>1, <4>2
    <3>3. ASSUME DeleteSuccessor(w), s = h[w].m PROVE FALSE
      <4>1. \/ \E r \in Records : on[r] # 0 /\ on[r] = s
            \/ \E c \in Contacts : con[c].state # "invalidated" /\ con[c].on = s
        BY <1>4, <2>1, <3>3
      <4> QED
        BY <1>4, <3>3, <4>1 DEF Committed, Bound
    <3> QED
      BY <3>1, <3>2, <3>3, Deletes
  <2> QED
    BY <2>1 DEF NoStranding
<1> QED
  BY <1>1, <1>5, <1>6, <1>7

LEMMA StrandStep ==
    ASSUME BaseInv, StrandInv, AbortAlone, OnlyEdits, [Next]_vars
    PROVE  StrandInv'
<1> USE DEF StrandInv, BaseInv
<1>1. ASSUME NEW w \in Workers, WorkerMoves(w) PROVE StrandInv'
  BY <1>1, WorkerStrands
<1>2. CASE Vault
  <2>1. UNCHANGED <<suite, h>>
    BY <1>2 DEF Vault, DeleteSecret, PruneVersion, BreakGlass, Free
  <2>2. PICK op \in Ops : Allowed(op)
    BY <1>2 DEF Vault, DeleteSecret, PruneVersion, BreakGlass, Allowed
  <2>3. ASSUME NEW v \in Workers PROVE h[v].op # "abort"
    <3>1. {op, h[v].op} \notin Conflicts
      BY <2>2 DEF Allowed
    <3>2. {"abort", op} \in Conflicts /\ {"abort", op} = {op, "abort"}
      BY DEF AbortAlone
    <3> QED
      BY <3>1, <3>2
  <2>4. AbortIsAlone' /\ Aborting' /\ Carrying'
    BY <2>1, <2>3 DEF AbortIsAlone, Alone, Aborting, Carrying
  <2>6. NoStranding'
    BY <1>2, <2>1, VaultStays DEF TablesStay, NoStranding
  <2> QED
    BY <2>4, <2>6
<1>3. CASE UNCHANGED vars
  BY <1>3 DEF vars, sideVars, AbortIsAlone, Alone, Aborting, Committed, Bound, Carrying, NoStranding
<1> QED
  BY <1>1, <1>2, <1>3 DEF Next, WorkerMoves

-----------------------------------------------------------------------------
(* A completion loses no more than was acknowledged.                        *)

Live(m) == InProgress(m) \/ Completed(m)

\* A completion in flight is of a migration that no abort has ended.
CompleteIsLive ==
    \A w \in Workers : h[w].op = "complete" =>
        Live(h[w].m) /\ (Behind(w) => Completed(h[w].m))

EndInv == BaseInv /\ AbortIsAlone /\ CompleteIsLive

LEMMA StatusMoves ==
    ASSUME TypeInv, ProtocolInv, NEW w \in Workers, WorkerMoves(w), NEW m \in Suites
    PROVE  \/ status'[m] = status[m]
           \/ /\ m = h[w].m
              /\ OpenMigration(w) \/ SetAborted(w) \/ (SetCompleted(w) /\ Completed(m)')
<1>1. CASE ~SuiteStep(w)
  BY <1>1, QuietStep DEF ProtocolInv, SuitesSame
<1>2. CASE CreateSuccessor(w) \/ MarkCompromised(w) \/ DeleteSuccessor(w)
  BY <1>2 DEF CreateSuccessor, MarkCompromised, DeleteSuccessor
<1>3. CASE OpenMigration(w) \/ SetAborted(w)
  BY <1>3 DEF OpenMigration, SetAborted, TypeInv, TypeOK
<1>4. CASE SetCompleted(w)
  BY <1>4 DEF SetCompleted, Completed, TypeInv, TypeOK
<1> QED
  BY <1>1, <1>2, <1>3, <1>4 DEF SuiteStep

\* While a completion is in flight, what is completed stays so.
LEMMA CompletedStays ==
    ASSUME EndInv, NEW w \in Workers, WorkerMoves(w), NEW v \in Workers, h[v].op = "complete",
           NEW m \in Suites
    PROVE  (Completed(m) => Completed(m)') /\ (Live(m) => Live(m)')
<1>1. ~OpenMigration(w) /\ ~SetAborted(w)
  BY DEF EndInv, BaseInv, ProtocolInv, RecoverAlone, AbortIsAlone, Alone, OpenMigration, SetAborted,
     At, Idle
<1>2. status'[m] = status[m] \/ Completed(m)'
  BY <1>1, StatusMoves DEF EndInv, BaseInv
<1> QED
  BY <1>2 DEF Completed, Live, InProgress

\* A completion that is in flight after a step was so before, or begins with it.
LEMMA CompleteMoves ==
    ASSUME EndInv, NEW w \in Workers, WorkerMoves(w), h'[w].op = "complete"
    PROVE  \/ h[w].op = "complete" /\ h'[w].m = h[w].m
           \/ SuitesSame /\ HandlerBegins(w) /\ ~SuiteStep(w)
<1>1. CASE SuiteStep(w)
  <2>1. h[w].op = "complete"
    BY <1>1, SuiteStepHandler DEF HandlerStays, EndInv, BaseInv
  <2> QED
    BY <1>1, <2>1, GotoIs DEF SuiteStep, CreateSuccessor, OpenMigration, SetCompleted,
       MarkCompromised, SetAborted, DeleteSuccessor, At, EndInv, BaseInv
<1>2. CASE ~SuiteStep(w)
  <2>1. SuitesSame /\ (HandlerEnds(w) \/ HandlerGoesOn(w) \/ HandlerBegins(w))
    BY <1>2, QuietStep DEF EndInv, BaseInv, ProtocolInv
  <2> QED
    BY <1>2, <2>1 DEF HandlerEnds, HandlerGoesOn, HandlerStays, Idle
<1> QED
  BY <1>1, <1>2

LEMMA CompleteIsLiveStep ==
    ASSUME EndInv, NEW w \in Workers, WorkerMoves(w)
    PROVE  CompleteIsLive'
<1> USE DEF EndInv, BaseInv
<1> SUFFICES ASSUME NEW v \in Workers, h'[v].op = "complete"
             PROVE  (Live(h[v].m) /\ (Behind(v) => Completed(h[v].m)))'
  BY DEF CompleteIsLive
<1>1. OthersSame(w)
  BY OperationsStep DEF ProtocolInv
<1>2. CASE v # w
  <2>1. h'[v] = h[v] /\ h[v].op = "complete"
    BY <1>1, <1>2 DEF OthersSame
  <2>2. PICK m \in Suites : m = h[v].m
    BY <2>1 DEF TypeInv, Fits
  <2>3. Live(m) /\ (Behind(v) => Completed(m))
    BY <2>1, <2>2 DEF CompleteIsLive
  <2>4. Live(m)' /\ (Behind(v)' => Completed(m)')
    BY <2>1, <2>3, CompletedStays DEF Behind
  <2> QED
    BY <2>1, <2>2, <2>4 DEF Live, InProgress, Completed
<1>3. CASE v = w /\ h[w].op = "complete" /\ h'[w].m = h[w].m
  <2>1. PICK m \in Suites : m = h[w].m
    BY <1>3 DEF TypeInv, Fits
  <2>2. Live(m)
    BY <1>3, <2>1 DEF CompleteIsLive
  <2>3. Live(m)' /\ (Completed(m) => Completed(m)')
    BY <1>3, <2>2, CompletedStays
  <2>4. ASSUME Behind(w)' PROVE Completed(m)'
    <3>1. CASE SetCompleted(w)
      BY <2>1, <3>1 DEF SetCompleted, Completed, TypeInv, TypeOK
    <3>2. CASE ~SetCompleted(w)
      <4>1. ~SetAborted(w)
        BY <1>3 DEF SetAborted, At
      <4>2. Behind(w)
        BY <2>4, <3>2, <4>1, BehindStep
      <4> QED
        BY <1>3, <2>1, <2>3, <4>2 DEF CompleteIsLive
    <3> QED
      BY <3>1, <3>2
  <2> QED
    BY <1>3, <2>1, <2>3, <2>4 DEF Live, InProgress, Completed
<1>4. CASE v = w /\ SuitesSame /\ HandlerBegins(w) /\ ~SuiteStep(w) /\ h[w].op # "complete"
  <2>1. h'[w].m \in Suites /\ Running(h'[w].m)
    BY <1>4 DEF HandlerBegins, Moving
  <2>2. ~Behind(w)'
    BY <1>4, BehindStep DEF SuiteStep
  <2> QED
    BY <1>4, <2>1, <2>2 DEF Live, InProgress, Running, SuitesSame
<1> QED
  BY <1>2, <1>3, <1>4, CompleteMoves DEF HandlerBegins, Idle

LEMMA EndStep ==
    ASSUME EndInv, RecoveryAlone, AbortAlone, [Next]_vars
    PROVE  EndInv'
<1>1. BaseInv'
  BY BaseStep DEF EndInv
<1>2. ASSUME NEW w \in Workers, WorkerMoves(w) PROVE AbortIsAlone' /\ CompleteIsLive'
  BY <1>2, AloneStep, CompleteIsLiveStep DEF EndInv, BaseInv, ProtocolInv, AbortIsAlone, AbortAlone
<1>3. CASE Vault \/ UNCHANGED vars
  <2>1. UNCHANGED <<suite, status, oldOf, h>>
    BY <1>3 DEF Vault, DeleteSecret, PruneVersion, BreakGlass, Free, vars
  <2> QED
    BY <1>1, <2>1 DEF EndInv, AbortIsAlone, Alone, CompleteIsLive, Live, InProgress, Completed, Behind
<1> QED
  BY <1>1, <1>2, <1>3 DEF Next, WorkerMoves, EndInv

LEMMA InitEnd == Init => EndInv
<1> SUFFICES ASSUME Init PROVE EndInv
  OBVIOUS
<1>1. \A w \in Workers : h[w].op = "idle"
  BY DEF Init, Idle
<1> QED
  BY <1>1, InitBase DEF EndInv, AbortIsAlone, Alone, CompleteIsLive

\* The rows left are rows reported: all of them once the gate has passed, no
\* more than were acknowledged once the acknowledgement has.
AckOK(w) ==
    h[w].op = "complete" /\ ~Completed(h[w].m) =>
        /\ h[w].at = "acknowledge" => Bound(oldOf[h[w].m]) \subseteq failed[h[w].m]
        /\ h[w].at = "status" => Cardinality(Bound(oldOf[h[w].m])) <= h[w].n

AckInv == \A w \in Workers : AckOK(w)

\* A completion arrives at these two steps through the gate and the check.
LEMMA GateThenCheck ==
    ASSUME TypeInv, NEW w \in Workers, WorkerMoves(w),
           h'[w].op = "complete", h'[w].at \in {"acknowledge", "status"}
    PROVE  \/ AssertNothingUnaccountedFor(w) /\ ~End(w)
           \/ AssertLossAcknowledged(w) /\ ~End(w)
<1>1. h'[w] # Idle
  BY DEF Idle
<1>2. ~End(w)
  BY <1>1, EndIs
<1>3. CASE Arrive(w)
  BY <1>3, BeginIs DEF Arrive, RecoverCheck, CommitGuard, FailGuard, CarryGuard, CompleteCheck,
     AbortCheck, SendWrite, SendSync, LoadVersion
<1>4. CASE CreateSuccessor(w) \/ CountRows(w)
  BY <1>4 DEF CreateSuccessor, CountRows, TypeInv, TypeOK, Handlers
<1>5. CASE \/ OpenMigration(w) \/ SetCompleted(w) \/ MarkCompromised(w) \/ DeleteSuccessor(w)
           \/ DropVersionsBeyondWindow(w) \/ RevokeKeyMaterial(w) \/ RepointRequests(w)
  BY <1>5, GotoIs DEF OpenMigration, SetCompleted, MarkCompromised, DeleteSuccessor,
     DropVersionsBeyondWindow, RevokeKeyMaterial, RepointRequests
<1>6. CASE \/ SetAborted(w) \/ CountCommitted(w) \/ ClearFailureAccounting(w)
           \/ AssertNotWriteLocked(w) \/ ListenerFails(w)
  BY <1>2, <1>6, GotoIs DEF SetAborted, CountCommitted, ClearFailureAccounting,
     AssertNotWriteLocked, ListenerFails, At, LockedWrites
<1>7. CASE \/ LockRequests(w) \/ CommitRecord(w) \/ RecordFailure(w) \/ CarryContact(w)
           \/ SweepContacts(w) \/ UnlockRequests(w) \/ UpdateSecret(w) \/ CreateSecret(w)
           \/ CreateLink(w) \/ CreateRequest(w) \/ WriteKey(w) \/ Crash(w)
  BY <1>2, <1>7 DEF LockRequests, CommitRecord, RecordFailure, CarryContact, SweepContacts,
     UnlockRequests, UpdateSecret, CreateSecret, CreateLink, CreateRequest, WriteKey, Crash
<1>8. CASE LoadHead(w) \/ SnapshotHead(w)
  BY <1>1, <1>8, RestoreSteps
<1> QED
  BY <1>2, <1>3, <1>4, <1>5, <1>6, <1>7, <1>8 DEF WorkerMoves, Step

LEMMA GateAcks ==
    ASSUME TypeInv, DataInv, NEW w \in Workers, AssertNothingUnaccountedFor(w), ~End(w)
    PROVE  AckOK(w)'
<1>1. PICK m \in Suites : m = h[w].m
  BY DEF AssertNothingUnaccountedFor, At, TypeInv, Fits
<1>2. /\ h[w].op = "complete" /\ h[w].at = "gate"
      /\ \A S \in Stores : h[w].left[S] <= Cardinality(failed[m] \cap S)
      /\ Goto(w, "acknowledge") /\ UNCHANGED <<on, oldOf, failed>>
  BY <1>1 DEF AssertNothingUnaccountedFor, At
<1>3. /\ failed[m] \subseteq Bound(oldOf[m])
      /\ h[w].left \in [Stores -> Nat]
      /\ \A S \in Stores : Cardinality(Bound(oldOf[m]) \cap S) <= h[w].left[S]
  BY <1>1, <1>2 DEF DataInv, FailuresDead, DeadOn, CountsHold, TypeInv, TypeOK, Handlers
<1>4. Bound(oldOf[m]) \subseteq failed[m]
  BY <1>2, <1>3, GateCountsRows
<1>5. h'[w].at = "acknowledge" /\ h'[w].m = m
  BY <1>1, <1>2, GotoIs
<1> QED
  BY <1>2, <1>4, <1>5 DEF AckOK, Bound

LEMMA CheckAcks ==
    ASSUME TypeInv, AckInv, NEW w \in Workers, AssertLossAcknowledged(w), ~End(w)
    PROVE  AckOK(w)'
<1>1. PICK m \in Suites : m = h[w].m
  BY DEF AssertLossAcknowledged, At, TypeInv, Fits
<1> DEFINE lost == Cardinality(failed[m])
<1>2. /\ h[w].op = "complete" /\ h[w].at = "acknowledge" /\ lost \in {0, h[w].n}
      /\ h' = [h EXCEPT ![w].at = "status", ![w].n = IF lost = 0 THEN 0 ELSE @]
      /\ UNCHANGED <<on, oldOf, status>>
  BY <1>1 DEF AssertLossAcknowledged, At, Acknowledged
<1>3. h'[w].at = "status" /\ h'[w].m = m /\ h'[w].n = lost
  BY <1>1, <1>2 DEF TypeInv, TypeOK, Handlers
<1>4. ~Completed(m) => Cardinality(Bound(oldOf[m])) <= lost
  <2> SUFFICES ASSUME ~Completed(m) PROVE Cardinality(Bound(oldOf[m])) <= lost
    OBVIOUS
  <2>1. Bound(oldOf[m]) \subseteq failed[m] /\ failed[m] \subseteq Records
    BY <1>1, <1>2 DEF AckInv, AckOK, TypeInv, TypeOK
  <2>2. IsFiniteSet(failed[m])
    BY <2>1, CountIsNatural
  <2> QED
    BY <2>1, <2>2, FS_Subset
<1> HIDE DEF lost
<1> QED
  BY <1>2, <1>3, <1>4 DEF AckOK, Bound, Completed

\* A failure leaves the table with the row it is of, or with the whole table.
LEMMA FailuresLeave ==
    ASSUME TypeInv, NEW w \in Workers, WorkerMoves(w), NEW m \in Suites, NEW r \in failed[m],
           r \notin failed'[m]
    PROVE  (CommitRecord(w) /\ h[w].r = r) \/ (ClearFailureAccounting(w) /\ h[w].m = m)
<1>1. CASE CommitRecord(w) \/ ClearFailureAccounting(w)
  BY <1>1 DEF CommitRecord, ClearFailureAccounting, TypeInv, TypeOK
<1>2. CASE RecordFailure(w)
  BY <1>2 DEF RecordFailure, TypeInv, TypeOK
<1> QED
  BY <1>1, <1>2, OthersLeaveFailures DEF WritesFailures

\* What another handler has checked holds on: rows only leave the old suite,
\* and the failure of a row that has not left stays in the table.
LEMMA OthersAck ==
    ASSUME EndInv, DataInv, AckInv, Moves, NEW w \in Workers, WorkerMoves(w), [Next]_vars,
           NEW v \in Workers \ {w}
    PROVE  AckOK(v)'
<1> USE DEF EndInv, BaseInv
<1>1. h'[v] = h[v]
  BY OperationsStep DEF ProtocolInv, OthersSame
<1> SUFFICES ASSUME h[v].op = "complete", ~Completed(h[v].m)', h[v].at \in {"acknowledge", "status"}
             PROVE  AckOK(v)'
  BY <1>1 DEF AckOK
<1>2. PICK m \in Suites, s \in Suites : m = h[v].m /\ s = oldOf[m] /\ Started(m)
  BY DEF TypeInv, TypeOK, Fits, ProtocolInv, MovesToFinal, Moving
<1>3. ~Completed(m)' /\ ~Completed(m)
  BY <1>1, <1>2, CompletedStays DEF Completed
<1>4. RowsStep /\ MigrationsStep
  BY RowsKept, MigrationsKept DEF DataInv
<1>5. oldOf'[m] = s /\ \A x \in Records : on'[x] = s => on[x] = s
  BY <1>2, <1>4 DEF MigrationsStep, RowsStep, RowsShrink, OldEnd
<1>6. Bound(s)' \subseteq Bound(s)
  BY <1>5 DEF Bound
<1>7. CASE h[v].at = "acknowledge"
  <2>1. Bound(s) \subseteq failed[m]
    BY <1>2, <1>3, <1>7 DEF AckInv, AckOK
  <2>2. ASSUME NEW r \in Bound(s)', r \notin failed'[m] PROVE FALSE
    <3>1. r \in failed[m] /\ r \in Records /\ on'[r] = s
      BY <1>6, <2>1, <2>2 DEF Bound
    <3>2. CASE CommitRecord(w) /\ h[w].r = r
      <4>1. h[w].m \in Suites /\ Final(h[w].m)
        BY <3>2 DEF CommitRecord, At, TypeInv, Fits, ProtocolInv, MovesToFinal, Moving
      <4>2. h[w].m # s
        BY <1>2, <4>1 DEF Final
      <4>3. on'[r] = h[w].m \/ (on[r] = 0 /\ on'[r] = 0)
        BY <3>1, <3>2 DEF CommitRecord, TypeInv, TypeOK
      <4> QED
        BY <3>1, <4>2, <4>3, SuiteNumbers
    <3>3. CASE ClearFailureAccounting(w) /\ h[w].m = m
      <4>1. h[w].op = "complete" /\ Behind(w)
        BY <3>3 DEF ClearFailureAccounting, AbortIsAlone, Alone, Idle, Behind, Past
      <4> QED
        BY <1>3, <3>3, <4>1 DEF CompleteIsLive
    <3> QED
      BY <3>1, <2>2, <3>2, <3>3, FailuresLeave
  <2> QED
    BY <1>1, <1>2, <1>5, <1>7, <2>2 DEF AckOK
<1>8. CASE h[v].at = "status"
  <2>1. Cardinality(Bound(s)) <= h[v].n /\ h[v].n \in Nat
    BY <1>2, <1>3, <1>8 DEF AckInv, AckOK, TypeInv, TypeOK, Handlers
  <2>2. Bound(s) \subseteq Records /\ Bound(s)' \subseteq Records
    BY DEF Bound
  <2>3. /\ IsFiniteSet(Bound(s))
        /\ Cardinality(Bound(s)) \in Nat /\ Cardinality(Bound(s)') \in Nat
    BY <2>2, CountIsNatural
  <2>4. Cardinality(Bound(s)') <= Cardinality(Bound(s))
    BY <1>6, <2>3, FS_Subset
  <2>5. Cardinality(Bound(s)') <= h[v].n
    BY <2>1, <2>3, <2>4
  <2> QED
    BY <1>1, <1>2, <1>5, <1>8, <2>5 DEF AckOK
<1> QED
  BY <1>7, <1>8

AcknowledgedInv == EndInv /\ DataInv /\ AckInv

LEMMA AcknowledgedStep ==
    ASSUME AcknowledgedInv, Moves, RecoveryAlone, AbortAlone, [Next]_vars
    PROVE  AcknowledgedInv'
<1> USE DEF AcknowledgedInv
<1>1. EndInv'
  BY EndStep
<1>2. DataInv'
  BY DataStep DEF SafetyInv, EndInv, BaseInv
<1>3. ASSUME NEW w \in Workers, WorkerMoves(w) PROVE AckInv'
  <2>1. ASSUME NEW v \in Workers \ {w} PROVE AckOK(v)'
    BY <1>3, <2>1, OthersAck
  <2>2. AckOK(w)'
    <3>1. CASE AssertNothingUnaccountedFor(w) /\ ~End(w)
      BY <3>1, GateAcks DEF EndInv, BaseInv
    <3>2. CASE AssertLossAcknowledged(w) /\ ~End(w)
      BY <3>2, CheckAcks DEF EndInv, BaseInv
    <3>3. CASE ~(h'[w].op = "complete" /\ h'[w].at \in {"acknowledge", "status"})
      BY <3>3 DEF AckOK
    <3> QED
      BY <1>3, <3>1, <3>2, <3>3, GateThenCheck DEF EndInv, BaseInv
  <2> QED
    BY <2>1, <2>2 DEF AckInv
<1>4. CASE Vault \/ UNCHANGED vars
  <2>1. UNCHANGED <<status, oldOf, h, failed>>
    BY <1>4 DEF Vault, DeleteSecret, PruneVersion, BreakGlass, Free, vars
  <2>2. UNCHANGED on
    BY <1>4 DEF Vault, DeleteSecret, PruneVersion, BreakGlass, Allowed, Moves, vars
  <2> QED
    BY <1>1, <1>2, <2>1, <2>2 DEF AckInv, AckOK, Bound, Completed
<1> QED
  BY <1>1, <1>2, <1>3, <1>4 DEF Next, WorkerMoves

LEMMA CompletionsAcknowledged ==
    ASSUME AcknowledgedInv, [Next]_vars,
           NEW m \in Suites, ~Completed(m), Completed(m)'
    PROVE  LET lost == Cardinality(Bound(oldOf[m])) IN
           /\ \E w \in Workers : At(w, "complete", "status") /\ h[w].m = m /\ lost <= h[w].n
           /\ status'[m] = "completed" => lost = 0
<1> DEFINE lost == Cardinality(Bound(oldOf[m]))
<1>1. PICK w \in Workers : SetCompleted(w) /\ h[w].m = m
  BY MigrationsKept DEF AcknowledgedInv, EndInv, BaseInv, MigrationsStep
<1>2. At(w, "complete", "status")
  BY <1>1 DEF SetCompleted
<1>3. lost <= h[w].n
  BY <1>1, <1>2 DEF AcknowledgedInv, AckInv, AckOK, At
<1>4. lost \in Nat /\ h[w].n \in Nat
  BY CountIsNatural DEF Bound, AcknowledgedInv, EndInv, BaseInv, TypeInv, TypeOK, Handlers
<1>5. status'[m] = "completed" => ~(h[w].n > 0)
  BY <1>1 DEF SetCompleted, AcknowledgedInv, EndInv, BaseInv, TypeInv, TypeOK
<1> HIDE DEF lost
<1>6. status'[m] = "completed" => lost = 0
  BY <1>3, <1>4, <1>5
<1> QED
  BY <1>1, <1>2, <1>3, <1>6 DEF lost

\* A completion locks away no more records than its client acknowledged, and
\* says "completed" only when it locks none away, whatever commits and failure
\* reports overlap it (assertLossAcknowledged, completeMigration).
THEOREM LossIsAcknowledged ==
    ASSUME Moves, RecoveryAlone, AbortAlone
    PROVE  Spec => AcknowledgedLoss
<1>1. Init => AcknowledgedInv
  <2> SUFFICES ASSUME Init PROVE AcknowledgedInv
    OBVIOUS
  <2>1. \A w \in Workers : h[w].op = "idle"
    BY DEF Init, Idle
  <2> QED
    BY <2>1, InitEnd, InitSafe DEF AcknowledgedInv, SafetyInv, AckInv, AckOK
<1>2. AcknowledgedInv /\ [Next]_vars => AcknowledgedInv'
  BY AcknowledgedStep
<1>3. AcknowledgedInv /\ [Next]_vars =>
        [\A m \in Suites : ~Completed(m) /\ Completed(m)' =>
            LET lost == Cardinality(Bound(oldOf[m])) IN
            /\ \E w \in Workers : At(w, "complete", "status") /\ h[w].m = m /\ lost <= h[w].n
            /\ status'[m] = "completed" => lost = 0]_vars
  BY CompletionsAcknowledged
<1> QED
  BY <1>1, <1>2, <1>3, PTL DEF Spec, AcknowledgedLoss

-----------------------------------------------------------------------------
(* A completion that is not cut short carries out all of its steps.         *)

NoFaults == MaxFaults = 0

\* A completion of m is in flight at one of these steps.
Owed(m, ats) ==
    \E w \in Workers : h[w].op = "complete" /\ h[w].m = m /\ h[w].at \in ats

ToCompromise == {"compromise"}
ToRevoke     == {"compromise", "revoke"}
ToRepoint    == {"compromise", "revoke", "clear", "repoint"}
ToSweep      == {"compromise", "revoke", "clear", "repoint", "sweep"}
Stages       == {ToCompromise, ToRevoke, ToRepoint, ToSweep}

\* What is not owed any more has been done.
SuitesDone ==
    \A m \in Suites : Completed(m) /\ ~Owed(m, ToCompromise) => suite[oldOf[m]] = "compromised"
LinksDone ==
    \A m \in Suites : Completed(m) /\ ~Owed(m, ToRevoke) => oldOf[m] \notin links
RequestsDone ==
    \A m \in Suites : Completed(m) /\ ~Owed(m, ToRepoint) =>
        \A q \in Requests : req[q].state # "none" => req[q].on # oldOf[m]
ContactsDone ==
    \A m \in Suites : Completed(m) /\ ~Owed(m, ToSweep) =>
        \A c \in Contacts : con[c].on = oldOf[m] => con[c].state = "invalidated"

\* Suites are created in the order of their numbers, a successor after its old end.
Ordered ==
    /\ \A s, t \in Suites : suite[s] = "none" /\ s < t => suite[t] = "none"
    /\ \A m \in Suites : Started(m) => oldOf[m] < m
    /\ \A w \in Workers : h[w].op = "recover" /\ h[w].at = "open" => h[w].n < h[w].m

\* A successor is active until its own end comes.
SuccessorActive ==
    \A m \in Suites : Completed(m) /\ suite[oldOf[m]] # "compromised" => suite[m] = "active"

OldEndActive == \A w \in Workers : h[w].op = "abort" => suite[oldOf[h[w].m]] = "active"

\* Once a recovery has locked the requests, none is pending on its old suite.
Locking(m) == \E w \in Workers : h[w].op = "recover" /\ h[w].at = "lock" /\ h[w].m = m
RequestsLocked ==
    /\ \A m \in Suites, q \in Requests :
        Live(m) /\ ~Locking(m) => req[q] # [on |-> oldOf[m], state |-> "pending"]
    /\ \A w \in Workers :
        h[w].op = "recover" /\ h[w].at = "lock" => h[w].n = oldOf[h[w].m]

\* A write in flight was sealed under no old suite.
WritesNew ==
    \A w \in Workers, m \in Suites :
        h[w].op \in LockedWrites /\ Live(m) => h[w].n # oldOf[m]

FinishInv ==
    /\ SuitesDone /\ LinksDone /\ RequestsDone /\ ContactsDone
    /\ Ordered /\ SuccessorActive /\ OldEndActive /\ RequestsLocked /\ WritesNew

-----------------------------------------------------------------------------
(* How a step changes the tables beside the records.                        *)

LEMMA NoFaultSteps ==
    ASSUME TypeInv, NoFaults, NEW w \in Workers, WorkerMoves(w)
    PROVE  Arrive(w) \/ Step(w)
<1>1. ~(faults < MaxFaults)
  BY SuiteMigrationAssumption DEF TypeInv, TypeOK, NoFaults
<1> QED
  BY <1>1 DEF WorkerMoves, Crash, ListenerFails

\* The order of the steps behind the end of a completion.
LEMMA TailSteps ==
    ASSUME TypeInv, NoFaults, NEW w \in Workers, WorkerMoves(w),
           h[w].op = "complete", h[w].at \in ToSweep
    PROVE  \/ h[w].at = "compromise" /\ MarkCompromised(w) /\ Goto(w, "revoke")
           \/ h[w].at = "revoke" /\ RevokeKeyMaterial(w) /\ Goto(w, "clear")
           \/ h[w].at = "clear" /\ ClearFailureAccounting(w) /\ Goto(w, "repoint")
           \/ h[w].at = "repoint" /\ RepointRequests(w) /\ Goto(w, "sweep")
           \/ h[w].at = "sweep" /\ SweepContacts(w) /\ End(w)
<1> USE DEF ToSweep
<1>1. ~Arrive(w)
  <2>1. h[w] # Idle
    BY DEF Idle
  <2> QED
    BY <2>1 DEF Arrive, RecoverCheck, CommitGuard, FailGuard, CarryGuard, CompleteCheck,
       AbortCheck, SendWrite, SendSync, LoadVersion, Begin
<1>2. CASE \/ CreateSuccessor(w) \/ OpenMigration(w) \/ LockRequests(w)
           \/ CommitRecord(w) \/ RecordFailure(w) \/ CarryContact(w)
           \/ DropVersionsBeyondWindow(w) \/ CountRows(w)
           \/ AssertNothingUnaccountedFor(w) \/ AssertLossAcknowledged(w) \/ SetCompleted(w)
  BY <1>2 DEF CreateSuccessor, OpenMigration, LockRequests, CommitRecord, RecordFailure,
     CarryContact, DropVersionsBeyondWindow, CountRows, AssertNothingUnaccountedFor,
     AssertLossAcknowledged, SetCompleted, At
<1>3. CASE \/ CountCommitted(w) \/ SetAborted(w) \/ DeleteSuccessor(w) \/ UnlockRequests(w)
           \/ AssertNotWriteLocked(w) \/ UpdateSecret(w) \/ CreateSecret(w)
           \/ CreateLink(w) \/ CreateRequest(w) \/ LoadHead(w) \/ SnapshotHead(w) \/ WriteKey(w)
  BY <1>3 DEF CountCommitted, SetAborted, DeleteSuccessor, UnlockRequests, AssertNotWriteLocked,
     UpdateSecret, CreateSecret, CreateLink, CreateRequest, LoadHead, SnapshotHead, WriteKey,
     At, LockedWrites
<1>4. CASE \/ MarkCompromised(w) \/ RevokeKeyMaterial(w) \/ ClearFailureAccounting(w)
           \/ RepointRequests(w) \/ SweepContacts(w)
  BY <1>4 DEF MarkCompromised, RevokeKeyMaterial, ClearFailureAccounting, RepointRequests,
     SweepContacts, At
<1> QED
  BY <1>1, <1>2, <1>3, <1>4, NoFaultSteps DEF Step

\* What a completion owes, it owes until it takes the last of the steps.
LEMMA OwedEnds ==
    ASSUME EndInv, NoFaults, NEW w \in Workers, WorkerMoves(w), NEW m \in Suites,
           NEW ats \in Stages, Owed(m, ats), ~Owed(m, ats)'
    PROVE  /\ h[w].op = "complete" /\ h[w].m = m
           /\ ats = ToCompromise => MarkCompromised(w)
           /\ ats = ToRevoke => RevokeKeyMaterial(w)
           /\ ats = ToRepoint => RepointRequests(w)
           /\ ats = ToSweep => SweepContacts(w)
<1> USE DEF Stages, ToCompromise, ToRevoke, ToRepoint, ToSweep
<1>1. PICK v \in Workers : h[v].op = "complete" /\ h[v].m = m /\ h[v].at \in ats
  BY DEF Owed
<1>2. v = w
  <2>1. OthersSame(w)
    BY OperationsStep DEF EndInv, BaseInv, ProtocolInv
  <2> QED
    BY <1>1, <2>1 DEF Owed, OthersSame
<1>3. h[w].at \in ToSweep /\ TypeInv
  BY <1>1, <1>2 DEF EndInv, BaseInv
<1>4. ASSUME NEW at, Goto(w, at) PROVE at \notin ats
  <2>1. h'[w].op = "complete" /\ h'[w].m = m /\ h'[w].at = at
    BY <1>1, <1>2, <1>3, <1>4, GotoIs
  <2> QED
    BY <2>1 DEF Owed
<1>5. \/ h[w].at = "compromise" /\ MarkCompromised(w) /\ "revoke" \notin ats
      \/ h[w].at = "revoke" /\ RevokeKeyMaterial(w) /\ "clear" \notin ats
      \/ h[w].at = "clear" /\ "repoint" \notin ats
      \/ h[w].at = "repoint" /\ RepointRequests(w) /\ "sweep" \notin ats
      \/ h[w].at = "sweep" /\ SweepContacts(w)
  BY <1>1, <1>2, <1>3, <1>4, TailSteps
<1>6. ats = ToCompromise => MarkCompromised(w)
  BY <1>1, <1>2, <1>5
<1>7. ats = ToRevoke => RevokeKeyMaterial(w)
  BY <1>1, <1>2, <1>5
<1>8. ats = ToRepoint => RepointRequests(w)
  BY <1>1, <1>2, <1>5
<1>9. ats = ToSweep => SweepContacts(w)
  BY <1>1, <1>2, <1>5
<1> QED
  BY <1>1, <1>2, <1>6, <1>7, <1>8, <1>9

\* A migration that a step completes owes everything after it.
LEMMA NewlyOwed ==
    ASSUME EndInv, NEW w \in Workers, WorkerMoves(w), NEW m \in Suites,
           ~Completed(m), Completed(m)', NEW ats \in Stages
    PROVE  Owed(m, ats)'
<1>1. SetCompleted(w) /\ h[w].m = m
  BY StatusMoves DEF EndInv, BaseInv, OpenMigration, SetAborted, Completed, TypeInv, TypeOK
<1>2. h'[w].op = "complete" /\ h'[w].m = m /\ h'[w].at = "compromise"
  BY <1>1, GotoIs DEF SetCompleted, At, EndInv, BaseInv
<1> QED
  BY <1>2 DEF Owed, Stages, ToCompromise, ToRevoke, ToRepoint, ToSweep

LEMMA SuiteMoves ==
    ASSUME TypeInv, ProtocolInv, NEW w \in Workers, WorkerMoves(w), NEW s \in Suites
    PROVE  \/ suite'[s] = suite[s]
           \/ CreateSuccessor(w) /\ suite[s] = "none" /\ suite'[s] = "active"
           \/ MarkCompromised(w) /\ s = oldOf[h[w].m] /\ suite'[s] = "compromised"
           \/ DeleteSuccessor(w) /\ s = h[w].m
<1>1. CASE ~SuiteStep(w)
  BY <1>1, QuietStep DEF ProtocolInv, SuitesSame
<1>2. CASE CreateSuccessor(w)
  BY <1>2 DEF CreateSuccessor, TypeInv, TypeOK
<1>3. CASE OpenMigration(w) \/ SetCompleted(w) \/ SetAborted(w)
  BY <1>3 DEF OpenMigration, SetCompleted, SetAborted
<1>4. CASE MarkCompromised(w)
  BY <1>4 DEF MarkCompromised, TypeInv, TypeOK
<1>5. CASE DeleteSuccessor(w)
  BY <1>5 DEF DeleteSuccessor, TypeInv, TypeOK
<1> QED
  BY <1>1, <1>2, <1>3, <1>4, <1>5 DEF SuiteStep

\* The requests and the links that a step leaves.
WritesSide(w) ==
    \/ LockRequests(w) \/ RepointRequests(w) \/ UnlockRequests(w) \/ CreateRequest(w)
    \/ RevokeKeyMaterial(w) \/ CreateLink(w)

LEMMA OthersLeaveSide ==
    ASSUME NEW w \in Workers, WorkerMoves(w), ~WritesSide(w)
    PROVE  UNCHANGED <<req, links>>
<1>1. CASE Arrive(w) \/ Crash(w) \/ ListenerFails(w)
  BY <1>1 DEF Arrive, RecoverCheck, CommitGuard, FailGuard, CarryGuard, CompleteCheck, AbortCheck,
     SendWrite, SendSync, LoadVersion, Crash, ListenerFails, sideVars
<1>2. CASE \/ CreateSuccessor(w) \/ OpenMigration(w) \/ CommitRecord(w) \/ RecordFailure(w)
           \/ CarryContact(w) \/ DropVersionsBeyondWindow(w) \/ CountRows(w)
           \/ AssertNothingUnaccountedFor(w) \/ AssertLossAcknowledged(w)
           \/ SetCompleted(w) \/ MarkCompromised(w)
  BY <1>2 DEF CreateSuccessor, OpenMigration, CommitRecord, RecordFailure, CarryContact,
     DropVersionsBeyondWindow, CountRows, AssertNothingUnaccountedFor, AssertLossAcknowledged,
     SetCompleted, MarkCompromised, sideVars
<1>3. CASE \/ ClearFailureAccounting(w) \/ SweepContacts(w) \/ CountCommitted(w) \/ SetAborted(w)
           \/ DeleteSuccessor(w) \/ AssertNotWriteLocked(w) \/ UpdateSecret(w) \/ CreateSecret(w)
           \/ WriteKey(w)
  BY <1>3 DEF ClearFailureAccounting, SweepContacts, CountCommitted, SetAborted, DeleteSuccessor,
     AssertNotWriteLocked, UpdateSecret, CreateSecret, WriteKey, sideVars
<1>4. CASE LoadHead(w) \/ SnapshotHead(w)
  BY <1>4 DEF LoadHead, SnapshotHead, sideVars
<1> QED
  BY <1>1, <1>2, <1>3, <1>4 DEF WorkerMoves, Step, WritesSide

LEMMA LinkMoves ==
    ASSUME NEW w \in Workers, WorkerMoves(w)
    PROVE  \/ links' = links
           \/ RevokeKeyMaterial(w) /\ links' = {}
           \/ CreateLink(w) /\ h[w].op \in LockedWrites /\ links' = links \cup {h[w].n}
<1>1. CASE ~WritesSide(w)
  BY <1>1, OthersLeaveSide
<1>2. CASE LockRequests(w) \/ RepointRequests(w) \/ UnlockRequests(w) \/ CreateRequest(w)
  BY <1>2 DEF LockRequests, RepointRequests, UnlockRequests, CreateRequest
<1>3. CASE RevokeKeyMaterial(w) \/ CreateLink(w)
  BY <1>3 DEF RevokeKeyMaterial, CreateLink, At, LockedWrites
<1> QED
  BY <1>1, <1>2, <1>3 DEF WritesSide

LEMMA RequestMoves ==
    ASSUME TypeInv, NEW w \in Workers, WorkerMoves(w), NEW q \in Requests
    PROVE  \/ req'[q] = req[q]
           \/ LockRequests(w) /\ req[q].state # "none"
                /\ req'[q] = [on |-> req[q].on, state |-> "locked"]
           \/ RepointRequests(w) /\ req'[q] = [on |-> h[w].m, state |-> "pending"]
           \/ UnlockRequests(w) /\ req[q].state # "none" /\ req[q].on = oldOf[h[w].m]
                /\ req'[q] = [on |-> req[q].on, state |-> "pending"]
           \/ CreateRequest(w) /\ h[w].op \in LockedWrites
                /\ req'[q] = [on |-> h[w].n, state |-> "pending"]
<1>0. req[q] \in [on : Suites, state : {"none", "pending", "locked"}]
  BY DEF TypeInv, TypeOK
<1>1. CASE ~WritesSide(w)
  BY <1>1, OthersLeaveSide
<1>2. CASE LockRequests(w)
  <2>1. req'[q] = IF req[q] = [on |-> h[w].n, state |-> "pending"]
                  THEN [req[q] EXCEPT !.state = "locked"] ELSE req[q]
    BY <1>2 DEF LockRequests
  <2>2. [req[q] EXCEPT !.state = "locked"] = [on |-> req[q].on, state |-> "locked"]
    BY <1>0
  <2>3. req[q] = [on |-> h[w].n, state |-> "pending"] => req[q].state = "pending"
    OBVIOUS
  <2> QED
    BY <1>2, <2>1, <2>2, <2>3
<1>3. CASE RepointRequests(w)
  <2>1. req'[q] = req[q] \/ req'[q] = [on |-> h[w].m, state |-> "pending"]
    BY <1>3 DEF RepointRequests, UnlockOnto
  <2> QED
    BY <1>3, <2>1
<1>4. CASE UnlockRequests(w)
  <2>1. \/ req'[q] = req[q]
        \/ /\ req[q] = [on |-> oldOf[h[w].m], state |-> "locked"]
           /\ req'[q] = [on |-> oldOf[h[w].m], state |-> "pending"]
    BY <1>4 DEF UnlockRequests, UnlockOnto
  <2>2. req[q] = [on |-> oldOf[h[w].m], state |-> "locked"] =>
          req[q].on = oldOf[h[w].m] /\ req[q].state = "locked"
    OBVIOUS
  <2> QED
    BY <1>4, <2>1, <2>2
<1>5. CASE CreateRequest(w)
  <2>1. req'[q] = req[q] \/ req'[q] = [on |-> h[w].n, state |-> "pending"]
    BY <1>5 DEF CreateRequest, TypeInv, TypeOK
  <2> QED
    BY <1>5, <2>1 DEF CreateRequest, At, LockedWrites
<1>6. CASE RevokeKeyMaterial(w) \/ CreateLink(w)
  BY <1>6 DEF RevokeKeyMaterial, CreateLink
<1> QED
  BY <1>1, <1>2, <1>3, <1>4, <1>5, <1>6 DEF WritesSide

\* A suite that a live migration has left is no migration's new end.
LEMMA LeftForGood ==
    ASSUME EndInv, NEW m \in Suites, Live(m), NEW w \in Workers, h[w].op \in Moving
    PROVE  h[w].m \in Suites /\ h[w].m # oldOf[m]
  BY DEF EndInv, BaseInv, ProtocolInv, MovesToFinal, Final, Started, Live, InProgress, Completed,
     TypeInv, Fits, Moving

LEMMA LiveKeeps ==
    ASSUME EndInv, [Next]_vars, NEW m \in Suites, Live(m)
    PROVE  oldOf'[m] = oldOf[m] /\ oldOf[m] \in Suites
  BY MigrationsKept DEF EndInv, BaseInv, MigrationsStep, Started, Live, InProgress, Completed,
     TypeInv, TypeOK

-----------------------------------------------------------------------------
(* What is done stays done.                                                 *)

FinishCtx(w) == EndInv /\ FinishInv /\ NoFaults /\ WorkerMoves(w) /\ [Next]_vars

LEMMA SuitesDoneStep ==
    ASSUME NEW w \in Workers, FinishCtx(w)
    PROVE  SuitesDone'
<1> USE DEF FinishCtx
<1> SUFFICES ASSUME NEW m \in Suites, Completed(m)', ~Owed(m, ToCompromise)'
             PROVE  suite'[oldOf'[m]] = "compromised"
  BY DEF SuitesDone
<1>1. Completed(m)
  BY NewlyOwed DEF Stages
<1>2. oldOf'[m] = oldOf[m] /\ oldOf[m] \in Suites
  BY <1>1, LiveKeeps DEF Live
<1>3. CASE Owed(m, ToCompromise)
  <2>1. MarkCompromised(w) /\ h[w].m = m
    BY <1>3, OwedEnds DEF Stages
  <2> QED
    BY <1>2, <2>1 DEF MarkCompromised, EndInv, BaseInv, TypeInv, TypeOK
<1>4. CASE ~Owed(m, ToCompromise)
  <2>1. suite[oldOf[m]] = "compromised"
    BY <1>1, <1>4 DEF FinishInv, SuitesDone
  <2>2. DeleteSuccessor(w) => oldOf[m] # h[w].m
    BY <1>1, LeftForGood DEF Live, DeleteSuccessor, At, Moving
  <2> QED
    BY <1>2, <2>1, <2>2, SuiteMoves DEF EndInv, BaseInv
<1> QED
  BY <1>3, <1>4

LEMMA LinksDoneStep ==
    ASSUME NEW w \in Workers, FinishCtx(w)
    PROVE  LinksDone'
<1> USE DEF FinishCtx
<1> SUFFICES ASSUME NEW m \in Suites, Completed(m)', ~Owed(m, ToRevoke)'
             PROVE  oldOf'[m] \notin links'
  BY DEF LinksDone
<1>1. Completed(m)
  BY NewlyOwed DEF Stages
<1>2. oldOf'[m] = oldOf[m] /\ oldOf[m] \in Suites
  BY <1>1, LiveKeeps DEF Live
<1>3. CASE Owed(m, ToRevoke)
  <2>1. RevokeKeyMaterial(w)
    BY <1>3, OwedEnds DEF Stages
  <2> QED
    BY <2>1 DEF RevokeKeyMaterial
<1>4. CASE ~Owed(m, ToRevoke)
  <2>1. oldOf[m] \notin links
    BY <1>1, <1>4 DEF FinishInv, LinksDone
  <2>2. h[w].op \in LockedWrites => h[w].n # oldOf[m]
    BY <1>1 DEF FinishInv, WritesNew, Live
  <2> QED
    BY <1>2, <2>1, <2>2, LinkMoves
<1> QED
  BY <1>3, <1>4

LEMMA RequestsDoneStep ==
    ASSUME NEW w \in Workers, FinishCtx(w)
    PROVE  RequestsDone'
<1> USE DEF FinishCtx
<1> SUFFICES ASSUME NEW m \in Suites, Completed(m)', ~Owed(m, ToRepoint)',
                    NEW q \in Requests, req'[q].state # "none"
             PROVE  req'[q].on # oldOf'[m]
  BY DEF RequestsDone
<1>1. Completed(m) /\ Live(m)
  BY NewlyOwed DEF Stages, Live
<1>2. oldOf'[m] = oldOf[m] /\ oldOf[m] \in Suites
  BY <1>1, LiveKeeps
<1>3. TypeInv /\ req[q] \in [on : Suites, state : {"none", "pending", "locked"}]
  BY DEF EndInv, BaseInv, TypeInv, TypeOK
<1>4. CASE Owed(m, ToRepoint)
  <2>1. RepointRequests(w) /\ h[w].m = m /\ h[w].op = "complete"
    BY <1>4, OwedEnds DEF Stages
  <2>2. m # oldOf[m]
    BY <1>1, <2>1, LeftForGood DEF Moving
  <2>3. req[q] # [on |-> oldOf[m], state |-> "pending"]
    <3>1. ~Locking(m)
      BY <2>1 DEF Locking, EndInv, BaseInv, ProtocolInv, RecoverAlone, Alone, Idle
    <3> QED
      BY <1>1, <3>1 DEF FinishInv, RequestsLocked
  <2>4. req'[q] = IF req[q] = [on |-> oldOf[m], state |-> "locked"]
                  THEN [on |-> m, state |-> "pending"] ELSE req[q]
    BY <2>1 DEF RepointRequests, UnlockOnto
  <2> QED
    BY <1>2, <1>3, <2>2, <2>3, <2>4
<1>5. CASE ~Owed(m, ToRepoint)
  <2>1. req[q].state # "none" => req[q].on # oldOf[m]
    BY <1>1, <1>5 DEF FinishInv, RequestsDone
  <2>2. h[w].op \in LockedWrites => h[w].n # oldOf[m]
    BY <1>1 DEF FinishInv, WritesNew
  <2>3. RepointRequests(w) => h[w].m # oldOf[m]
    BY <1>1, LeftForGood DEF RepointRequests, At, Moving
  <2>4. CASE req'[q] = req[q]
    BY <1>2, <2>1, <2>4
  <2>5. CASE req[q].state # "none" /\ \E st : req'[q] = [on |-> req[q].on, state |-> st]
    BY <1>2, <2>1, <2>5
  <2>6. CASE RepointRequests(w) /\ req'[q] = [on |-> h[w].m, state |-> "pending"]
    BY <1>2, <2>3, <2>6
  <2>7. CASE h[w].op \in LockedWrites /\ req'[q] = [on |-> h[w].n, state |-> "pending"]
    BY <1>2, <2>2, <2>7
  <2> QED
    BY <1>3, <2>4, <2>5, <2>6, <2>7, RequestMoves
<1> QED
  BY <1>4, <1>5

LEMMA ContactsDoneStep ==
    ASSUME NEW w \in Workers, FinishCtx(w)
    PROVE  ContactsDone'
<1> USE DEF FinishCtx
<1> SUFFICES ASSUME NEW m \in Suites, Completed(m)', ~Owed(m, ToSweep)',
                    NEW c \in Contacts, con'[c].on = oldOf'[m], con'[c].state # "invalidated"
             PROVE  FALSE
  BY DEF ContactsDone
<1>1. Completed(m) /\ Live(m)
  BY NewlyOwed DEF Stages, Live
<1>2. oldOf'[m] = oldOf[m] /\ oldOf[m] \in Suites
  BY <1>1, LiveKeeps
<1>3. con[c].state # "invalidated" /\ (con'[c].on = con[c].on \/ (CarryContact(w) /\ con'[c].on = h[w].m))
  BY WorkerFrom DEF TablesFrom, EndInv, BaseInv
<1>4. con[c].on = oldOf[m]
  BY <1>1, <1>2, <1>3, LeftForGood DEF CarryContact, At, Moving
<1>5. Owed(m, ToSweep)
  BY <1>1, <1>3, <1>4 DEF FinishInv, ContactsDone
<1>6. SweepContacts(w) /\ h[w].m = m
  BY <1>5, OwedEnds DEF Stages
<1>7. con'[c].state = "invalidated"
  BY <1>4, <1>6 DEF SweepContacts, Swept, EndInv, BaseInv, TypeInv, TypeOK
<1> QED
  BY <1>7

-----------------------------------------------------------------------------
(* Who is at work, and under which suite.                                   *)

LEMMA OrderedStep ==
    ASSUME NEW w \in Workers, FinishCtx(w)
    PROVE  Ordered'
<1> USE DEF FinishCtx
<1>0. /\ TypeInv /\ ProtocolInv /\ Ordered /\ OthersSame(w)
      /\ Fits(h[w]) /\ h[w] \in Handlers
  BY OperationsStep DEF EndInv, BaseInv, FinishInv, ProtocolInv, TypeInv, TypeOK
<1>1. CASE CreateSuccessor(w)
  <2>1. PICK s \in Suites :
          /\ suite[s] = "none"
          /\ \A t \in Suites : suite[t] = "none" => s <= t
          /\ suite' = [suite EXCEPT ![s] = "active"]
          /\ h' = [h EXCEPT ![w].at = "open", ![w].m = s]
    BY <1>1 DEF CreateSuccessor
  <2>2. /\ UNCHANGED <<status, oldOf>> /\ suite'[s] = "active"
        /\ \A t \in Suites \ {s} : suite'[t] = suite[t]
    BY <1>0, <1>1, <2>1 DEF CreateSuccessor, TypeInv, TypeOK
  <2>3. h'[w].n = h[w].n /\ h'[w].m = s /\ h[w].n \in Suites /\ suite[h[w].n] = "active"
    BY <1>0, <1>1, <2>1 DEF CreateSuccessor, At, Fits, ProtocolInv, Recovering, Handlers, TypeInv, TypeOK
  <2>4. h[w].n < s
    <3>1. ~(s < h[w].n) /\ s # h[w].n
      BY <1>0, <2>1, <2>3 DEF Ordered
    <3> QED
      BY <2>3, <3>1, SuiteMigrationAssumption DEF Suites
  <2>5. \A t, u \in Suites : suite'[t] = "none" /\ t < u => suite'[u] = "none"
    <3> SUFFICES ASSUME NEW t \in Suites, NEW u \in Suites, suite'[t] = "none", t < u
                 PROVE  suite'[u] = "none"
      OBVIOUS
    <3>1. suite[t] = "none" /\ suite[u] = "none"
      BY <1>0, <2>2 DEF Ordered
    <3>2. s <= t /\ u # s
      BY <2>1, <3>1, SuiteMigrationAssumption DEF Suites
    <3> QED
      BY <2>2, <3>1, <3>2
  <2>6. \A m \in Suites : Started(m)' => oldOf'[m] < m
    BY <1>0, <2>2 DEF Ordered, Started
  <2>7. h[w].op = "recover" /\ \A v \in Workers \ {w} : h'[v] = Idle
    BY <1>0, <1>1 DEF CreateSuccessor, At, ProtocolInv, RecoverAlone, Alone, OthersSame
  <2>8. \A v \in Workers : h'[v].op = "recover" /\ h'[v].at = "open" => h'[v].n < h'[v].m
    BY <2>3, <2>4, <2>7 DEF Idle
  <2> QED
    BY <2>5, <2>6, <2>8 DEF Ordered
<1>2. CASE OpenMigration(w)
  <2>1. PICK m \in Suites : m = h[w].m /\ h[w].n < m /\ h[w].op = "recover"
    BY <1>0, <1>2 DEF OpenMigration, At, Fits, Ordered
  <2>2. /\ UNCHANGED suite /\ oldOf'[m] = h[w].n
        /\ \A k \in Suites \ {m} : oldOf'[k] = oldOf[k] /\ status'[k] = status[k]
    BY <1>0, <1>2, <2>1 DEF OpenMigration, TypeInv, TypeOK
  <2>3. h'[w].at = "lock" /\ \A v \in Workers \ {w} : h'[v] = Idle
    BY <1>0, <1>2, <2>1, GotoIs DEF OpenMigration, ProtocolInv, RecoverAlone, Alone, OthersSame
  <2> QED
    BY <1>0, <2>1, <2>2, <2>3 DEF Ordered, Started, Idle
<1>3. CASE ~CreateSuccessor(w) /\ ~OpenMigration(w)
  <2>1. ASSUME NEW s \in Suites PROVE suite'[s] = "none" <=> suite[s] = "none"
    <3>1. CASE MarkCompromised(w) \/ DeleteSuccessor(w)
      <4>1. PICK m \in Suites : m = h[w].m /\ suite[m] # "none" /\ suite[oldOf[m]] # "none" /\ oldOf[m] \in Suites
        BY <1>0, <3>1 DEF MarkCompromised, DeleteSuccessor, At, Fits, ProtocolInv, StartedSuites,
           MovesToFinal, Moving, TypeInv, TypeOK
      <4> QED
        BY <1>0, <3>1, <4>1 DEF MarkCompromised, DeleteSuccessor, TypeInv, TypeOK
    <3> QED
      BY <1>0, <1>3, <3>1, SuiteMoves
  <2>2. \A m \in Suites : Started(m)' => Started(m) /\ oldOf'[m] = oldOf[m]
    <3> SUFFICES ASSUME NEW m \in Suites, Started(m)' PROVE Started(m) /\ oldOf'[m] = oldOf[m]
      OBVIOUS
    <3>1. Started(m)
      <4>1. status'[m] = status[m] \/ (m = h[w].m /\ h[w].op \in Moving)
        BY <1>0, <1>3, StatusMoves DEF SetAborted, SetCompleted, At, Moving
      <4> QED
        BY <1>0, <4>1 DEF Started, ProtocolInv, MovesToFinal
    <3> QED
      BY <1>0, <3>1, MigrationsKept DEF MigrationsStep
  <2>3. \A v \in Workers : ~(h'[v].op = "recover" /\ h'[v].at = "open") \/ h'[v] = h[v]
    <3>1. ~(h'[w].op = "recover" /\ h'[w].at = "open")
      <4>1. CASE SuiteStep(w)
        BY <1>0, <1>3, <4>1, GotoIs DEF SuiteStep, SetCompleted, MarkCompromised, SetAborted, DeleteSuccessor
      <4>2. CASE ~SuiteStep(w)
        BY <1>0, <4>2, QuietStep DEF ProtocolInv, HandlerEnds, HandlerGoesOn, HandlerBegins, Idle
      <4> QED
        BY <4>1, <4>2
    <3> QED
      BY <1>0, <3>1 DEF OthersSame
  <2> QED
    BY <1>0, <2>1, <2>2, <2>3 DEF Ordered
<1> QED
  BY <1>1, <1>2, <1>3

LEMMA SuccessorActiveStep ==
    ASSUME NEW w \in Workers, FinishCtx(w)
    PROVE  SuccessorActive'
<1> USE DEF FinishCtx
<1> SUFFICES ASSUME NEW m \in Suites, Completed(m)', suite'[oldOf'[m]] # "compromised"
             PROVE  suite'[m] = "active"
  BY DEF SuccessorActive
<1>0. TypeInv /\ ProtocolInv /\ EndsInv /\ CompleteIsLive /\ AbortIsAlone
  BY DEF EndInv, BaseInv
<1>1. CASE ~Completed(m)
  <2>1. SetCompleted(w) /\ h[w].m = m
    BY <1>0, <1>1, StatusMoves DEF OpenMigration, SetAborted, Completed, TypeInv, TypeOK
  <2>2. InProgress(m)
    BY <1>0, <1>1, <2>1 DEF CompleteIsLive, Live, SetCompleted, At
  <2> QED
    BY <1>0, <2>1, <2>2 DEF EndsInv, EndsActive, InProgress, SetCompleted
<1>2. CASE Completed(m)
  <2>1. oldOf'[m] = oldOf[m] /\ oldOf[m] \in Suites /\ Live(m)
    BY <1>2, LiveKeeps DEF Live
  <2>2. suite[oldOf[m]] # "compromised"
    <3>1. DeleteSuccessor(w) => oldOf[m] # h[w].m
      BY <2>1, LeftForGood DEF DeleteSuccessor, At, Moving
    <3> QED
      BY <1>0, <2>1, <3>1, SuiteMoves
  <2>3. suite[m] = "active" /\ Owed(m, ToCompromise)
    BY <1>2, <2>2 DEF FinishInv, SuccessorActive, SuitesDone
  <2>4. PICK v \in Workers : h[v].op = "complete" /\ h[v].m = m
    BY <2>3 DEF Owed
  <2>5. Final(m)
    BY <1>0, <2>4 DEF ProtocolInv, MovesToFinal, Moving
  <2>6. ~DeleteSuccessor(w)
    BY <1>0, <2>4 DEF AbortIsAlone, Alone, Idle, DeleteSuccessor, At
  <2>7. MarkCompromised(w) => m # oldOf[h[w].m]
    <3>1. MarkCompromised(w) => h[w].m \in Suites /\ Started(h[w].m)
      BY <1>0 DEF MarkCompromised, At, TypeInv, Fits, ProtocolInv, MovesToFinal, Moving
    <3> QED
      BY <2>5, <3>1 DEF Final
  <2> QED
    BY <1>0, <2>3, <2>6, <2>7, SuiteMoves
<1> QED
  BY <1>1, <1>2

LEMMA OldEndActiveStep ==
    ASSUME NEW w \in Workers, FinishCtx(w)
    PROVE  OldEndActive'
<1> USE DEF FinishCtx
<1> SUFFICES ASSUME NEW v \in Workers, h'[v].op = "abort"
             PROVE  suite'[oldOf'[h'[v].m]] = "active"
  BY DEF OldEndActive
<1>0. TypeInv /\ ProtocolInv /\ EndsInv /\ AbortIsAlone /\ OthersSame(w)
  BY OperationsStep DEF EndInv, BaseInv, ProtocolInv
<1>1. CASE h[v].op = "abort" /\ h'[v].m = h[v].m
  <2>1. PICK m \in Suites : m = h[v].m /\ Started(m) /\ Final(m)
    BY <1>0, <1>1 DEF TypeInv, Fits, ProtocolInv, MovesToFinal, Moving
  <2>2. suite[oldOf[m]] = "active" /\ oldOf[m] \in Suites /\ oldOf[m] # m
    BY <1>0, <1>1, <2>1 DEF FinishInv, OldEndActive, Final, TypeInv, TypeOK
  <2>3. oldOf'[m] = oldOf[m]
    BY <1>0, <2>1, MigrationsKept DEF MigrationsStep
  <2>4. ~MarkCompromised(w)
    BY <1>0, <1>1 DEF MarkCompromised, At, AbortIsAlone, Alone, Idle
  <2>5. DeleteSuccessor(w) => h[w].m = m
    BY <1>0, <1>1, <2>1 DEF DeleteSuccessor, At, AbortIsAlone, Alone, Idle
  <2> QED
    BY <1>0, <1>1, <2>1, <2>2, <2>3, <2>4, <2>5, SuiteMoves
<1>2. CASE v = w /\ SuitesSame /\ HandlerBegins(w)
  <2>1. h'[w].m \in Suites /\ Running(h'[w].m)
    BY <1>2 DEF HandlerBegins, Moving
  <2> QED
    BY <1>0, <1>2, <2>1 DEF SuitesSame, Running, EndsInv, EndsActive
<1>3. CASE v # w
  BY <1>0, <1>1, <1>3 DEF OthersSame
<1>4. CASE v = w
  <2>1. CASE SuiteStep(w)
    <3>1. h[w].op = "abort"
      BY <1>0, <1>4, <2>1, SuiteStepHandler DEF HandlerStays
    <3>2. h'[w].m = h[w].m
      BY <1>0, <2>1, <3>1, GotoIs DEF SuiteStep, CreateSuccessor, OpenMigration, SetCompleted,
         MarkCompromised, SetAborted, DeleteSuccessor, At
    <3> QED
      BY <1>1, <1>4, <3>1, <3>2
  <2>2. CASE ~SuiteStep(w)
    BY <1>0, <1>1, <1>2, <1>4, <2>2, QuietStep DEF ProtocolInv, HandlerEnds, HandlerGoesOn,
       HandlerStays, Idle
  <2> QED
    BY <2>1, <2>2
<1> QED
  BY <1>3, <1>4

\* A recovery stands at its last step only by having opened its migration.
LEMMA LocksNext ==
    ASSUME NEW w \in Workers, FinishCtx(w), h'[w].op = "recover", h'[w].at = "lock"
    PROVE  OpenMigration(w)
<1> USE DEF FinishCtx
<1>0. TypeInv /\ ProtocolInv /\ h'[w] # Idle
  BY DEF EndInv, BaseInv, Idle
<1>1. CASE Arrive(w)
  <2>1. h'[w].op = "recover" => h'[w].at = "create"
    BY <1>0, <1>1, ArriveBegins DEF HandlerBegins
  <2> QED
    BY <2>1
<1>2. CASE SuiteStep(w)
  BY <1>0, <1>2, GotoIs DEF SuiteStep, CreateSuccessor, SetCompleted, MarkCompromised, SetAborted,
     DeleteSuccessor, At, TypeInv, TypeOK, Handlers
<1>3. CASE \/ LockRequests(w) \/ CommitRecord(w) \/ RecordFailure(w) \/ CarryContact(w)
           \/ SweepContacts(w) \/ UnlockRequests(w) \/ UpdateSecret(w) \/ CreateSecret(w)
           \/ CreateLink(w) \/ CreateRequest(w) \/ WriteKey(w)
  BY <1>0, <1>3, EndIs DEF LockRequests, CommitRecord, RecordFailure, CarryContact, SweepContacts,
     UnlockRequests, UpdateSecret, CreateSecret, CreateLink, CreateRequest, WriteKey
<1>4. CASE \/ DropVersionsBeyondWindow(w) \/ AssertNothingUnaccountedFor(w)
           \/ AssertNotWriteLocked(w) \/ RevokeKeyMaterial(w) \/ RepointRequests(w)
           \/ ClearFailureAccounting(w) \/ CountCommitted(w)
  BY <1>0, <1>4, GotoIs, EndIs DEF DropVersionsBeyondWindow, AssertNothingUnaccountedFor,
     AssertNotWriteLocked, RevokeKeyMaterial, RepointRequests, ClearFailureAccounting, CountCommitted
<1>5. CASE CountRows(w) \/ AssertLossAcknowledged(w)
  <2>1. h'[w].op = "complete" \/ End(w)
    BY <1>0, <1>5 DEF CountRows, AssertLossAcknowledged, At, TypeInv, TypeOK, Handlers
  <2> QED
    BY <1>0, <2>1, EndIs
<1>6. CASE LoadHead(w) \/ SnapshotHead(w)
  BY <1>0, <1>6, RestoreSteps
<1> QED
  BY <1>0, <1>1, <1>2, <1>3, <1>4, <1>5, <1>6, NoFaultSteps DEF Step, SuiteStep

\* No request comes to be pending on the old end of a live migration.
LEMMA NonePending ==
    ASSUME NEW w \in Workers, FinishCtx(w), NEW m \in Suites, Live(m), NEW q \in Requests,
           req'[q] = [on |-> oldOf[m], state |-> "pending"]
    PROVE  req'[q] = req[q] /\ ~(LockRequests(w) /\ h[w].m = m)
<1> USE DEF FinishCtx
<1>0. /\ TypeInv /\ ProtocolInv /\ EndsInv /\ AbortIsAlone /\ oldOf[m] \in Suites
      /\ req'[q].on = oldOf[m] /\ req'[q].state = "pending"
      /\ req[q] \in [on : Suites, state : {"none", "pending", "locked"}]
  BY DEF EndInv, BaseInv, TypeInv, TypeOK
<1>1. ASSUME LockRequests(w), h[w].m = m PROVE FALSE
  <2>1. h[w].n = oldOf[m]
    BY <1>1 DEF LockRequests, At, FinishInv, RequestsLocked
  <2>2. req'[q] = IF req[q] = [on |-> oldOf[m], state |-> "pending"]
                  THEN [req[q] EXCEPT !.state = "locked"] ELSE req[q]
    BY <1>1, <2>1 DEF LockRequests
  <2> QED
    BY <1>0, <2>2
<1>2. ~(RepointRequests(w) /\ h[w].m = oldOf[m])
  BY LeftForGood DEF RepointRequests, At, Moving
<1>3. ~(h[w].op \in LockedWrites /\ h[w].n = oldOf[m])
  BY DEF FinishInv, WritesNew
<1>4. ASSUME UnlockRequests(w), oldOf[h[w].m] = oldOf[m] PROVE FALSE
  <2>1. /\ h[w].op = "abort" /\ Behind(w) /\ h[w].op \in Moving
        /\ \A v \in Workers \ {w} : h[v] = Idle
    BY <1>0, <1>4 DEF UnlockRequests, At, Behind, Past, Moving, AbortIsAlone, Alone
  <2>2. ~InProgress(m)
    BY <1>0, <2>1 DEF EndsInv, Sole, BehindIsOver
  <2>3. Completed(m) /\ ~Owed(m, ToCompromise)
    BY <2>1, <2>2 DEF Live, Owed, Idle
  <2>4. suite[oldOf[m]] = "compromised"
    BY <2>3 DEF FinishInv, SuitesDone
  <2>5. suite[oldOf[h[w].m]] = "active"
    BY <2>1 DEF FinishInv, OldEndActive
  <2> QED
    BY <1>4, <2>4, <2>5
<1>5. req'[q] = req[q]
  <2>1. CASE LockRequests(w) /\ req'[q] = [on |-> req[q].on, state |-> "locked"]
    BY <1>0, <2>1
  <2>2. CASE RepointRequests(w) /\ req'[q] = [on |-> h[w].m, state |-> "pending"]
    BY <1>0, <1>2, <2>2
  <2>3. CASE UnlockRequests(w) /\ req[q].on = oldOf[h[w].m] /\ req'[q] = [on |-> req[q].on, state |-> "pending"]
    BY <1>0, <1>4, <2>3
  <2>4. CASE h[w].op \in LockedWrites /\ req'[q] = [on |-> h[w].n, state |-> "pending"]
    BY <1>0, <1>3, <2>4
  <2> QED
    BY <1>0, <2>1, <2>2, <2>3, <2>4, RequestMoves
<1> QED
  BY <1>1, <1>5

LEMMA RequestsLockedStep ==
    ASSUME NEW w \in Workers, FinishCtx(w)
    PROVE  RequestsLocked'
<1> USE DEF FinishCtx
<1>0. TypeInv /\ ProtocolInv /\ CompleteIsLive /\ OthersSame(w)
  BY OperationsStep DEF EndInv, BaseInv, ProtocolInv
<1>1. ASSUME NEW m \in Suites, NEW q \in Requests, Live(m)', ~Locking(m)',
             req'[q] = [on |-> oldOf'[m], state |-> "pending"]
      PROVE  FALSE
  <2>1. Live(m)
    <3>1. ASSUME ~Live(m) PROVE OpenMigration(w) /\ h[w].m = m
      <4>1. SetCompleted(w) /\ h[w].m = m => Live(m)
        BY <1>0 DEF SetCompleted, At, CompleteIsLive
      <4>2. SetAborted(w) /\ h[w].m = m => ~Live(m)'
        BY <1>0 DEF SetAborted, Live, InProgress, Completed, TypeInv, TypeOK
      <4> QED
        BY <1>0, <1>1, <3>1, <4>1, <4>2, StatusMoves DEF Live, InProgress, Completed
    <3>2. OpenMigration(w) => h'[w].op = "recover" /\ h'[w].at = "lock" /\ h'[w].m = h[w].m
      BY <1>0, GotoIs DEF OpenMigration, At
    <3> QED
      BY <1>1, <3>1, <3>2 DEF Locking
  <2>2. oldOf'[m] = oldOf[m]
    BY <2>1, LiveKeeps
  <2>3. req[q] = [on |-> oldOf[m], state |-> "pending"] /\ ~(LockRequests(w) /\ h[w].m = m)
    BY <1>1, <2>1, <2>2, NonePending
  <2>4. PICK v \in Workers : h[v].op = "recover" /\ h[v].at = "lock" /\ h[v].m = m
    BY <2>1, <2>3 DEF FinishInv, RequestsLocked, Locking
  <2>5. v = w
    BY <1>0, <1>1, <2>4 DEF OthersSame, Locking
  <2>6. LockRequests(w)
    <3>1. h[w] # Idle
      BY <2>4, <2>5 DEF Idle
    <3>2. ~Arrive(w)
      BY <3>1 DEF Arrive, RecoverCheck, CommitGuard, FailGuard, CarryGuard, CompleteCheck,
         AbortCheck, SendWrite, SendSync, LoadVersion, Begin
    <3>0. h[w].op = "recover" /\ h[w].at = "lock"
      BY <2>4, <2>5
    <3>3. CASE \/ CreateSuccessor(w) \/ OpenMigration(w) \/ CommitRecord(w) \/ RecordFailure(w)
               \/ CarryContact(w) \/ DropVersionsBeyondWindow(w) \/ CountRows(w)
               \/ AssertNothingUnaccountedFor(w) \/ AssertLossAcknowledged(w) \/ SetCompleted(w)
      BY <3>0, <3>3 DEF CreateSuccessor, OpenMigration, CommitRecord, RecordFailure,
         CarryContact, DropVersionsBeyondWindow, CountRows, AssertNothingUnaccountedFor,
         AssertLossAcknowledged, SetCompleted, At
    <3>4. CASE \/ MarkCompromised(w) \/ RevokeKeyMaterial(w) \/ ClearFailureAccounting(w)
               \/ RepointRequests(w) \/ SweepContacts(w) \/ CountCommitted(w) \/ SetAborted(w)
               \/ DeleteSuccessor(w) \/ UnlockRequests(w)
      BY <3>0, <3>4 DEF MarkCompromised, RevokeKeyMaterial, ClearFailureAccounting,
         RepointRequests, SweepContacts, CountCommitted, SetAborted, DeleteSuccessor, UnlockRequests, At
    <3>5. CASE \/ AssertNotWriteLocked(w) \/ UpdateSecret(w) \/ CreateSecret(w)
               \/ CreateLink(w) \/ CreateRequest(w)
               \/ LoadHead(w) \/ SnapshotHead(w) \/ WriteKey(w)
      BY <3>0, <3>5 DEF AssertNotWriteLocked, UpdateSecret, CreateSecret, CreateLink,
         CreateRequest, LoadHead, SnapshotHead, WriteKey, At, LockedWrites
    <3> QED
      BY <1>0, <3>2, <3>3, <3>4, <3>5, NoFaultSteps DEF Step
  <2> QED
    BY <2>3, <2>4, <2>5, <2>6
<1>2. ASSUME NEW v \in Workers, h'[v].op = "recover", h'[v].at = "lock"
      PROVE  h'[v].n = oldOf'[h'[v].m]
  <2>1. CASE v = w
    <3>1. OpenMigration(w)
      BY <1>2, <2>1, LocksNext
    <3>2. h[w].m \in Suites /\ h'[w].n = h[w].n /\ h'[w].m = h[w].m
      BY <1>0, <3>1, GotoIs DEF OpenMigration, At, TypeInv, Fits
    <3> QED
      BY <1>0, <2>1, <3>1, <3>2 DEF OpenMigration, TypeInv, TypeOK
  <2>2. CASE v # w
    <3>1. h'[v] = h[v] /\ h[v].m \in Suites /\ h[v].n = oldOf[h[v].m]
      BY <1>0, <1>2, <2>2 DEF OthersSame, TypeInv, Fits, FinishInv, RequestsLocked
    <3>2. h[w] = Idle
      BY <1>0, <1>2, <2>2, <3>1 DEF ProtocolInv, RecoverAlone, Alone
    <3>3. ~SuiteStep(w)
      BY <3>2 DEF SuiteStep, CreateSuccessor, OpenMigration, SetCompleted, MarkCompromised, SetAborted,
         DeleteSuccessor, At, Idle
    <3>4. UNCHANGED oldOf
      BY <1>0, <3>3, QuietStep DEF ProtocolInv, SuitesSame
    <3> QED
      BY <3>1, <3>4
  <2> QED
    BY <2>1, <2>2
<1> QED
  BY <1>1, <1>2 DEF RequestsLocked

\* What the client seals a write under, it reads from the active suites.
LEMMA WriteBegins ==
    ASSUME NEW w \in Workers, FinishCtx(w), h'[w].op \in LockedWrites
    PROVE  \/ h[w].op \in LockedWrites /\ h'[w].n = h[w].n
           \/ SuitesSame /\ h'[w].n \in Newest
<1> USE DEF FinishCtx, LockedWrites
<1>0. TypeInv /\ ProtocolInv /\ h'[w] # Idle
  BY DEF EndInv, BaseInv, Idle
<1>1. CASE SendWrite(w)
  <2>1. \E n \in Newest : h'[w].n = n
    BY <1>0, <1>1, BeginIs DEF SendWrite
  <2> QED
    BY <1>1, <2>1 DEF SendWrite, SuitesSame
<1>2. CASE RecoverCheck(w) \/ CommitGuard(w) \/ FailGuard(w) \/ CarryGuard(w) \/ CompleteCheck(w)
           \/ AbortCheck(w) \/ SendSync(w) \/ LoadVersion(w)
  BY <1>0, <1>2, BeginIs DEF RecoverCheck, CommitGuard, FailGuard, CarryGuard, CompleteCheck,
     AbortCheck, SendSync, LoadVersion
<1>3. CASE SuiteStep(w)
  BY <1>0, <1>3, SuiteStepHandler DEF HandlerStays, SuiteStep, CreateSuccessor, OpenMigration,
     SetCompleted, MarkCompromised, SetAborted, DeleteSuccessor, At
<1>4. CASE \/ LockRequests(w) \/ CommitRecord(w) \/ RecordFailure(w) \/ CarryContact(w)
           \/ SweepContacts(w) \/ UnlockRequests(w) \/ UpdateSecret(w) \/ CreateSecret(w)
           \/ CreateLink(w) \/ CreateRequest(w) \/ WriteKey(w)
  BY <1>0, <1>4, EndIs DEF LockRequests, CommitRecord, RecordFailure, CarryContact, SweepContacts,
     UnlockRequests, UpdateSecret, CreateSecret, CreateLink, CreateRequest, WriteKey
<1>5. CASE \/ DropVersionsBeyondWindow(w) \/ AssertNothingUnaccountedFor(w)
           \/ AssertNotWriteLocked(w) \/ RevokeKeyMaterial(w) \/ RepointRequests(w)
           \/ ClearFailureAccounting(w) \/ CountCommitted(w)
  BY <1>0, <1>5, GotoIs, EndIs DEF DropVersionsBeyondWindow, AssertNothingUnaccountedFor,
     AssertNotWriteLocked, RevokeKeyMaterial, RepointRequests, ClearFailureAccounting, CountCommitted
<1>6. CASE CountRows(w) \/ AssertLossAcknowledged(w)
  <2>1. h'[w].op = "complete" \/ End(w)
    BY <1>0, <1>6 DEF CountRows, AssertLossAcknowledged, At, TypeInv, TypeOK, Handlers
  <2> QED
    BY <1>0, <2>1, EndIs
<1>7. CASE LoadHead(w) \/ SnapshotHead(w)
  BY <1>0, <1>7, RestoreSteps
<1> QED
  BY <1>0, <1>1, <1>2, <1>3, <1>4, <1>5, <1>6, <1>7, NoFaultSteps DEF Arrive, Step, SuiteStep

LEMMA WritesNewStep ==
    ASSUME NEW w \in Workers, FinishCtx(w)
    PROVE  WritesNew'
<1> USE DEF FinishCtx
<1> SUFFICES ASSUME NEW v \in Workers, NEW m \in Suites, h'[v].op \in LockedWrites, Live(m)'
             PROVE  h'[v].n # oldOf'[m]
  BY DEF WritesNew
<1>0. TypeInv /\ ProtocolInv /\ EndsInv /\ CompleteIsLive /\ OthersSame(w)
  BY OperationsStep DEF EndInv, BaseInv, ProtocolInv
<1>1. Live(m)
  <2>1. ~OpenMigration(w)
    <3>1. ASSUME OpenMigration(w) PROVE FALSE
      <4>1. h'[w].op = "recover" /\ \A x \in Workers \ {w} : h'[x] = Idle
        BY <1>0, <3>1, GotoIs DEF OpenMigration, At, ProtocolInv, RecoverAlone, Alone, OthersSame
      <4> QED
        BY <4>1 DEF Idle, LockedWrites
    <3> QED
      BY <3>1
  <2>2. SetCompleted(w) /\ h[w].m = m => Live(m)
    BY <1>0 DEF SetCompleted, At, CompleteIsLive
  <2>3. SetAborted(w) /\ h[w].m = m => ~Live(m)'
    BY <1>0 DEF SetAborted, Live, InProgress, Completed, TypeInv, TypeOK
  <2> QED
    BY <1>0, <2>1, <2>2, <2>3, StatusMoves DEF Live, InProgress, Completed
<1>2. oldOf'[m] = oldOf[m] /\ oldOf[m] \in Suites
  BY <1>1, LiveKeeps
<1>3. CASE h[v].op \in LockedWrites /\ h'[v].n = h[v].n
  BY <1>1, <1>2, <1>3 DEF FinishInv, WritesNew
<1>4. CASE h'[v].n \in Newest
  <2>1. suite[m] = "active" \/ suite[oldOf[m]] # "active"
    BY <1>0, <1>1 DEF Live, EndsInv, EndsActive, InProgress, FinishInv, SuccessorActive
  <2>2. oldOf[m] < m
    BY <1>1 DEF FinishInv, Ordered, Started, Live, InProgress, Completed
  <2>3. ASSUME oldOf[m] \in Newest PROVE FALSE
    <3>1. m \in Active /\ m <= oldOf[m]
      BY <2>1, <2>3 DEF Newest, Active
    <3> QED
      BY <1>2, <2>2, <3>1, SuiteMigrationAssumption DEF Suites
  <2> QED
    BY <1>2, <1>4, <2>3
<1> QED
  BY <1>0, <1>3, <1>4, WriteBegins DEF OthersSame

LEMMA FinishVault ==
    ASSUME TypeInv, FinishInv, Vault \/ UNCHANGED vars
    PROVE  FinishInv'
<1>1. UNCHANGED <<suite, status, oldOf, req, links, h>>
  BY DEF Vault, DeleteSecret, PruneVersion, BreakGlass, Free, sideVars, vars
<1>2. \A c \in Contacts : con'[c].state # "invalidated" =>
        con[c].state # "invalidated" /\ con'[c].on = con[c].on
  BY VaultStays DEF TablesStay, vars, sideVars
<1>3. \A m : Completed(m)' <=> Completed(m)
  BY <1>1 DEF Completed
<1>4. \A m, ats : Owed(m, ats)' <=> Owed(m, ats)
  BY <1>1 DEF Owed
<1>5. SuitesDone' /\ LinksDone' /\ RequestsDone' /\ ContactsDone'
  BY <1>1, <1>2, <1>3, <1>4 DEF FinishInv, SuitesDone, LinksDone, RequestsDone, ContactsDone
<1>6. Ordered' /\ SuccessorActive' /\ OldEndActive'
  BY <1>1, <1>3 DEF FinishInv, Ordered, SuccessorActive, OldEndActive, Started
<1>7. RequestsLocked' /\ WritesNew'
  BY <1>1, <1>3 DEF FinishInv, RequestsLocked, WritesNew, Live, InProgress, Locking
<1> QED
  BY <1>5, <1>6, <1>7 DEF FinishInv

LEMMA FinishStep ==
    ASSUME EndInv, FinishInv, NoFaults, [Next]_vars
    PROVE  FinishInv'
<1>1. ASSUME NEW w \in Workers, WorkerMoves(w) PROVE FinishInv'
  <2>1. FinishCtx(w)
    BY <1>1 DEF FinishCtx
  <2> QED
    BY <2>1, SuitesDoneStep, LinksDoneStep, RequestsDoneStep, ContactsDoneStep, OrderedStep,
       SuccessorActiveStep, OldEndActiveStep, RequestsLockedStep, WritesNewStep DEF FinishInv
<1>2. CASE Vault \/ UNCHANGED vars
  BY <1>2, FinishVault DEF EndInv, BaseInv
<1> QED
  BY <1>1, <1>2 DEF Next, WorkerMoves

LEMMA InitFinish == Init => FinishInv
<1> SUFFICES ASSUME Init PROVE FinishInv
  OBVIOUS
<1>1. \A m \in Suites : ~Completed(m) /\ ~Live(m) /\ ~Started(m)
  BY DEF Init, Completed, Live, InProgress, Started
<1>2. \A w \in Workers : h[w].op = "idle"
  BY DEF Init, Idle
<1>3. \A s, t \in Suites : suite[s] = "none" /\ s < t => suite[t] = "none"
  BY SuiteMigrationAssumption DEF Init, Suites
<1> QED
  BY <1>1, <1>2, <1>3 DEF FinishInv, SuitesDone, LinksDone, RequestsDone, ContactsDone, Ordered,
     SuccessorActive, OldEndActive, RequestsLocked, WritesNew, LockedWrites

\* Once no handler is at work on it, a completed migration has carried out all
\* its terminal steps, the ones in the listeners among them: the old suite is
\* compromised, and no link, request or contact in use is left under it
\* (completeMigration and the listeners of SuiteMigrationCompletedEvent).
THEOREM CompletionCarriedOut ==
    ASSUME RecoveryAlone, AbortAlone, NoFaults
    PROVE  Spec => []CompletionFinished
<1>1. Init => EndInv /\ FinishInv
  BY InitEnd, InitFinish
<1>2. EndInv /\ FinishInv /\ [Next]_vars => EndInv' /\ FinishInv'
  BY EndStep, FinishStep
<1>3. FinishInv => CompletionFinished
  <2> SUFFICES ASSUME FinishInv, NEW m \in Suites, Completed(m), \A w \in Workers : h[w].m # m
               PROVE  /\ suite[oldOf[m]] = "compromised"
                      /\ oldOf[m] \notin links
                      /\ \A q \in Requests : req[q].state # "none" => req[q].on # oldOf[m]
                      /\ \A c \in Contacts : con[c].on = oldOf[m] => con[c].state = "invalidated"
    BY DEF CompletionFinished
  <2>1. \A ats : ~Owed(m, ats)
    BY DEF Owed
  <2> QED
    BY <2>1 DEF FinishInv, SuitesDone, LinksDone, RequestsDone, ContactsDone
<1> QED
  BY <1>1, <1>2, <1>3, PTL DEF Spec

-----------------------------------------------------------------------------
(* What is sealed stays open: the newest suite.                             *)

\* But for m, no active suite is newer than s.
UpTo(s, m) == \A t \in Active : t = m \/ t <= s

NewestOK(w) ==
    /\ h[w].op = "abort" => UpTo(oldOf[h[w].m], h[w].m)
    /\ h[w].op = "recover" /\ h[w].at = "create" => h[w].n \in Newest
    /\ h[w].op = "recover" /\ h[w].at = "open" => UpTo(h[w].n, h[w].m)
    /\ h[w].op = "commit" => h[w].m \in Newest
    /\ h[w].op \in LockedWrites => h[w].n \in Newest
    /\ h[w].op \in {"edit", "create"} /\ h[w].at = "write" => \A m \in Suites : ~InProgress(m)

\* A recovery moves from the newest suite to the next; what commits and writes
\* in flight were sealed under is the newest suite still.
NewestInv ==
    /\ \A m \in Suites : InProgress(m) => UpTo(oldOf[m], m)
    /\ \A w \in Workers : NewestOK(w)

NewestCtx(w) == NewestInv /\ FinishCtx(w)

LEMMA OneNewest ==
    ASSUME NEW s \in Newest, NEW t \in Newest
    PROVE  s = t
<1>1. s \in Nat /\ t \in Nat /\ s <= t /\ t <= s
  BY SuiteMigrationAssumption DEF Newest, Active, Suites
<1> QED
  BY <1>1

LEMMA OldNotNewest ==
    ASSUME EndInv, FinishInv, NEW m \in Suites, Live(m)
    PROVE  oldOf[m] \notin Newest
<1>1. suite[m] = "active" \/ suite[oldOf[m]] # "active"
  BY DEF Live, EndInv, BaseInv, EndsInv, EndsActive, InProgress, FinishInv, SuccessorActive
<1>2. oldOf[m] < m /\ oldOf[m] \in Suites
  BY DEF FinishInv, Ordered, Started, Live, InProgress, Completed, EndInv, BaseInv, TypeInv, TypeOK
<1> SUFFICES ASSUME oldOf[m] \in Newest PROVE FALSE
  OBVIOUS
<1>3. m \in Active /\ m <= oldOf[m]
  BY <1>1 DEF Newest, Active
<1> QED
  BY <1>2, <1>3, SuiteMigrationAssumption DEF Suites

LEMMA SuccessorNewest ==
    ASSUME EndInv, FinishInv, NewestInv, NEW m \in Suites, InProgress(m)
    PROVE  m \in Newest
<1>1. m \in Active /\ oldOf[m] < m /\ oldOf[m] \in Suites
  BY DEF Active, EndInv, BaseInv, EndsInv, EndsActive, FinishInv, Ordered, Started, InProgress,
     TypeInv, TypeOK
<1>2. \A t \in Active : t = m \/ t <= oldOf[m]
  BY DEF NewestInv, UpTo
<1>3. \A t \in Active : t <= m
  BY <1>1, <1>2, SuiteMigrationAssumption DEF Active, Suites
<1> QED
  BY <1>1, <1>3 DEF Newest

\* While suites are neither created nor deleted, the newest one stays.
LEMMA NewestStays ==
    ASSUME NEW w \in Workers, FinishCtx(w), ~CreateSuccessor(w), ~DeleteSuccessor(w)
    PROVE  Active' \subseteq Active /\ Newest \subseteq Newest'
<1> USE DEF FinishCtx
<1>1. Active' \subseteq Active
  BY SuiteMoves DEF EndInv, BaseInv, Active
<1>2. ASSUME NEW s \in Newest PROVE s \in Active'
  <2>1. s \in Suites /\ suite[s] = "active"
    BY DEF Newest, Active
  <2>2. ASSUME MarkCompromised(w) PROVE s # oldOf[h[w].m]
    <3>1. h[w].m \in Suites /\ Live(h[w].m)
      BY <2>2 DEF MarkCompromised, At, EndInv, BaseInv, CompleteIsLive, TypeInv, Fits
    <3> QED
      BY <3>1, OldNotNewest
  <2> QED
    BY <2>1, <2>2, SuiteMoves DEF EndInv, BaseInv, Active
<1> QED
  BY <1>1, <1>2 DEF Newest

\* A handler is alone when it creates or deletes a suite: no other is at work,
\* and no migration is running.
LEMMA AloneAtSuites ==
    ASSUME NEW w \in Workers, FinishCtx(w), CreateSuccessor(w) \/ OpenMigration(w) \/ DeleteSuccessor(w)
    PROVE  /\ \A v \in Workers \ {w} : h[v] = Idle /\ h'[v] = Idle
           /\ \A m \in Suites : ~InProgress(m)
<1> USE DEF FinishCtx, EndInv, BaseInv
<1>1. OthersSame(w)
  BY OperationsStep DEF ProtocolInv
<1>2. CASE CreateSuccessor(w) \/ OpenMigration(w)
  BY <1>1, <1>2 DEF CreateSuccessor, OpenMigration, At, ProtocolInv, RecoverAlone, Alone, OthersSame,
     Recovering, InProgress
<1>3. CASE DeleteSuccessor(w)
  <2>1. Behind(w) /\ h[w].op = "abort" /\ h[w].op \in Moving
    BY <1>3 DEF DeleteSuccessor, At, Behind, Past, Moving
  <2>2. \A m \in Suites : ~InProgress(m)
    BY <2>1 DEF EndsInv, Sole, BehindIsOver
  <2> QED
    BY <1>1, <2>1, <2>2 DEF AbortIsAlone, Alone, OthersSame
<1> QED
  BY <1>2, <1>3

\* A migration runs that ran before, or it is the one that opens.
LEMMA RunsNext ==
    ASSUME NEW w \in Workers, FinishCtx(w), NEW m \in Suites, InProgress(m)'
    PROVE  \/ InProgress(m) /\ oldOf'[m] = oldOf[m]
           \/ OpenMigration(w) /\ m = h[w].m /\ oldOf'[m] = h[w].n /\ ~Started(m)
<1> USE DEF FinishCtx
<1>0. TypeInv /\ ProtocolInv
  BY DEF EndInv, BaseInv
<1>1. CASE OpenMigration(w) /\ m = h[w].m
  <2>1. ~Started(m)
    BY <1>0, <1>1 DEF OpenMigration, At, ProtocolInv, Recovering
  <2> QED
    BY <1>0, <1>1, <2>1 DEF OpenMigration, TypeInv, TypeOK
<1>2. CASE ~(OpenMigration(w) /\ m = h[w].m)
  <2>1. SetAborted(w) => ~(status'[m] # status[m] /\ InProgress(m)')
    BY <1>0 DEF SetAborted, InProgress, TypeInv, TypeOK
  <2>2. InProgress(m)
    BY <1>0, <1>2, <2>1, StatusMoves DEF InProgress, Completed
  <2> QED
    BY <2>2, LiveKeeps DEF Live
<1> QED
  BY <1>1, <1>2

\* A write is let through where no migration locks the vault.
LEMMA WritesLetThrough ==
    ASSUME NEW w \in Workers, FinishCtx(w), h'[w].op \in {"edit", "create"}, h'[w].at = "write"
    PROVE  h[w].op \in LockedWrites /\ SuitesSame /\ \A m \in Suites : ~InProgress(m)
<1> USE DEF FinishCtx, LockedWrites
<1>0. TypeInv /\ ProtocolInv /\ h'[w] # Idle
  BY DEF EndInv, BaseInv, Idle
<1>1. CASE Arrive(w)
  BY <1>0, <1>1, BeginIs DEF Arrive, RecoverCheck, CommitGuard, FailGuard, CarryGuard, CompleteCheck,
     AbortCheck, SendWrite, SendSync, LoadVersion
<1>2. CASE SuiteStep(w)
  BY <1>0, <1>2, SuiteStepHandler DEF HandlerStays, SuiteStep, CreateSuccessor, OpenMigration,
     SetCompleted, MarkCompromised, SetAborted, DeleteSuccessor, At
<1>3. CASE \/ LockRequests(w) \/ CommitRecord(w) \/ RecordFailure(w) \/ CarryContact(w)
           \/ SweepContacts(w) \/ UnlockRequests(w) \/ UpdateSecret(w) \/ CreateSecret(w)
           \/ CreateLink(w) \/ CreateRequest(w) \/ WriteKey(w)
  BY <1>0, <1>3, EndIs DEF LockRequests, CommitRecord, RecordFailure, CarryContact, SweepContacts,
     UnlockRequests, UpdateSecret, CreateSecret, CreateLink, CreateRequest, WriteKey
<1>4. CASE \/ DropVersionsBeyondWindow(w) \/ AssertNothingUnaccountedFor(w)
           \/ RevokeKeyMaterial(w) \/ RepointRequests(w)
           \/ ClearFailureAccounting(w) \/ CountCommitted(w)
  BY <1>0, <1>4, GotoIs, EndIs DEF DropVersionsBeyondWindow, AssertNothingUnaccountedFor,
     RevokeKeyMaterial, RepointRequests, ClearFailureAccounting, CountCommitted
<1>5. CASE CountRows(w) \/ AssertLossAcknowledged(w)
  <2>1. h'[w].op = "complete" \/ End(w)
    BY <1>0, <1>5 DEF CountRows, AssertLossAcknowledged, At, TypeInv, TypeOK, Handlers
  <2> QED
    BY <1>0, <2>1, EndIs
<1>6. CASE AssertNotWriteLocked(w)
  <2>1. ~WriteLocked
    BY <1>0, <1>6, EndIs DEF AssertNotWriteLocked
  <2>2. \A m \in Suites : ~InProgress(m)
    BY <1>0, <2>1, UnlockedMeansNone DEF InProgress, ProtocolInv
  <2> QED
    BY <1>6, <2>2 DEF AssertNotWriteLocked, SuitesSame
<1>7. CASE LoadHead(w) \/ SnapshotHead(w)
  BY <1>0, <1>7, RestoreSteps
<1> QED
  BY <1>0, <1>1, <1>2, <1>3, <1>4, <1>5, <1>6, <1>7, NoFaultSteps DEF Step, SuiteStep

LEMMA OthersNewest ==
    ASSUME NEW w \in Workers, NewestCtx(w), NEW v \in Workers \ {w}
    PROVE  NewestOK(v)'
<1> USE DEF NewestCtx
<1>0. TypeInv /\ ProtocolInv /\ h'[v] = h[v] /\ NewestOK(v)
  BY OperationsStep DEF FinishCtx, EndInv, BaseInv, ProtocolInv, OthersSame, NewestInv
<1>1. CASE CreateSuccessor(w) \/ DeleteSuccessor(w)
  <2>1. h'[v] = Idle
    BY <1>1, AloneAtSuites
  <2> QED
    BY <2>1 DEF NewestOK, Idle, LockedWrites
<1>2. CASE ~CreateSuccessor(w) /\ ~DeleteSuccessor(w)
  <2>1. Active' \subseteq Active /\ Newest \subseteq Newest'
    BY <1>2, NewestStays
  <2>2. ASSUME h[v].op = "abort" PROVE UpTo(oldOf[h[v].m], h[v].m)'
    <3>1. PICK m \in Suites : m = h[v].m /\ Started(m)
      BY <1>0, <2>2 DEF TypeInv, Fits, ProtocolInv, MovesToFinal, Moving
    <3>2. oldOf'[m] = oldOf[m]
      BY <1>0, <3>1, MigrationsKept DEF FinishCtx, MigrationsStep
    <3>3. UpTo(oldOf[m], m)
      BY <1>0, <2>2, <3>1 DEF NewestOK
    <3>4. UpTo(oldOf[m], m)'
      BY <2>1, <3>2, <3>3 DEF UpTo
    <3> QED
      BY <1>0, <3>1, <3>4 DEF UpTo
  <2>3. ASSUME h[v].op = "recover", h[v].at = "open" PROVE UpTo(h[v].n, h[v].m)'
    BY <1>0, <2>1, <2>3 DEF NewestOK, UpTo
  <2>4. h[v].op \in {"edit", "create"} /\ h[v].at = "write" => \A m \in Suites : ~InProgress(m)'
    <3> SUFFICES ASSUME h[v].op \in {"edit", "create"}, h[v].at = "write", NEW m \in Suites, InProgress(m)'
                 PROVE  FALSE
      OBVIOUS
    <3>1. ~InProgress(m)
      BY <1>0 DEF NewestOK
    <3>2. OpenMigration(w)
      BY <3>1, RunsNext
    <3> QED
      BY <3>2, AloneAtSuites DEF Idle
  <2> QED
    BY <1>0, <2>1, <2>2, <2>3, <2>4 DEF NewestOK
<1> QED
  BY <1>1, <1>2

LEMMA WorkerNewest ==
    ASSUME NEW w \in Workers, NewestCtx(w)
    PROVE  NewestOK(w)'
<1> USE DEF NewestCtx, FinishCtx
<1>0. TypeInv /\ ProtocolInv /\ NewestOK(w)
  BY DEF EndInv, BaseInv, NewestInv
<1>1. CASE CreateSuccessor(w)
  <2>1. PICK s \in Suites :
          /\ suite' = [suite EXCEPT ![s] = "active"]
          /\ h' = [h EXCEPT ![w].at = "open", ![w].m = s]
    BY <1>1 DEF CreateSuccessor
  <2>2. h[w].op = "recover" /\ h[w].n \in Newest
    BY <1>0, <1>1 DEF CreateSuccessor, At, NewestOK
  <2>3. h'[w].op = "recover" /\ h'[w].at = "open" /\ h'[w].n = h[w].n /\ h'[w].m = s
    BY <1>0, <2>1, <2>2 DEF TypeInv, TypeOK, Handlers
  <2>4. \A t \in Active' : t = s \/ t \in Active
    BY <1>0, <2>1 DEF Active, TypeInv, TypeOK
  <2>5. UpTo(h[w].n, s)'
    BY <2>2, <2>3, <2>4 DEF UpTo, Newest
  <2> QED
    BY <2>3, <2>5 DEF NewestOK, LockedWrites, UpTo
<1>2. CASE DeleteSuccessor(w)
  <2>1. h[w].op = "abort" /\ h'[w].op = "abort" /\ h'[w].m = h[w].m /\ UNCHANGED oldOf
    BY <1>0, <1>2, GotoIs DEF DeleteSuccessor, At
  <2>2. Active' \subseteq Active
    BY <1>0, <1>2 DEF DeleteSuccessor, Active, TypeInv, TypeOK
  <2>3. UpTo(oldOf[h[w].m], h[w].m)
    BY <1>0, <2>1 DEF NewestOK
  <2> QED
    BY <2>1, <2>2, <2>3 DEF NewestOK, LockedWrites, UpTo
<1>3. CASE ~CreateSuccessor(w) /\ ~DeleteSuccessor(w)
  <2>1. Active' \subseteq Active /\ Newest \subseteq Newest'
    BY <1>3, NewestStays
  <2>2. CASE SuiteStep(w)
    <3>1. OpenMigration(w) \/ SetCompleted(w) \/ MarkCompromised(w) \/ SetAborted(w)
      BY <1>3, <2>2 DEF SuiteStep
    <3>2. /\ h'[w].op = h[w].op /\ h'[w].m = h[w].m
          /\ \/ h[w].op = "recover" /\ h'[w].at = "lock"
             \/ h[w].op \in {"complete", "abort"} /\ UNCHANGED oldOf
      <4>1. CASE OpenMigration(w)
        BY <1>0, <4>1, GotoIs DEF OpenMigration, At
      <4>2. CASE SetCompleted(w) \/ MarkCompromised(w) \/ SetAborted(w)
        BY <1>0, <4>2, GotoIs DEF SetCompleted, MarkCompromised, SetAborted, At
      <4> QED
        BY <3>1, <4>1, <4>2
    <3> QED
      BY <1>0, <2>1, <3>2 DEF NewestOK, LockedWrites, UpTo
  <2>3. CASE ~SuiteStep(w)
    <3>1. SuitesSame /\ (HandlerEnds(w) \/ HandlerGoesOn(w) \/ HandlerBegins(w))
      BY <1>0, <2>3, QuietStep DEF ProtocolInv
    <3>2. Newest' = Newest /\ Active' = Active /\ \A m : InProgress(m)' <=> InProgress(m)
      BY <3>1 DEF SuitesSame, Newest, Active, InProgress
    <3>3. h'[w].op \in LockedWrites => h'[w].n \in Newest
      BY <1>0, WriteBegins DEF NewestOK
    <3>4. h'[w].op \in {"edit", "create"} /\ h'[w].at = "write" => \A m \in Suites : ~InProgress(m)
      BY WritesLetThrough
    <3>5. CASE HandlerEnds(w)
      BY <3>5 DEF HandlerEnds, Idle, NewestOK, LockedWrites
    <3>6. CASE HandlerGoesOn(w)
      BY <1>0, <3>1, <3>2, <3>3, <3>4, <3>6 DEF HandlerGoesOn, HandlerStays, NewestOK, UpTo, SuitesSame
    <3>7. CASE HandlerBegins(w)
      <4>1. ASSUME h'[w].op \in {"abort", "commit"}
            PROVE  h'[w].m \in Newest /\ UpTo(oldOf[h'[w].m], h'[w].m)
        <5>1. h'[w].m \in Suites /\ InProgress(h'[w].m)
          BY <3>7, <4>1 DEF HandlerBegins, Moving, Running, InProgress
        <5> QED
          BY <5>1, SuccessorNewest DEF NewestInv
      <4>2. h'[w].op = "recover" => h'[w].n \in Newest /\ h'[w].at = "create"
        BY <3>7 DEF HandlerBegins
      <4> QED
        BY <3>1, <3>2, <3>3, <3>4, <4>1, <4>2 DEF NewestOK, UpTo, SuitesSame
    <3> QED
      BY <3>1, <3>5, <3>6, <3>7
  <2> QED
    BY <2>2, <2>3
<1> QED
  BY <1>1, <1>2, <1>3

LEMMA NewestStep ==
    ASSUME EndInv, FinishInv, NewestInv, NoFaults, [Next]_vars
    PROVE  NewestInv'
<1>1. ASSUME NEW w \in Workers, WorkerMoves(w) PROVE NewestInv'
  <2>1. NewestCtx(w) /\ TypeInv /\ ProtocolInv
    BY <1>1 DEF NewestCtx, FinishCtx, EndInv, BaseInv
  <2>2. \A v \in Workers : NewestOK(v)'
    BY <2>1, OthersNewest, WorkerNewest
  <2>3. ASSUME NEW m \in Suites, InProgress(m)' PROVE UpTo(oldOf[m], m)'
    <3>1. ~CreateSuccessor(w) /\ ~DeleteSuccessor(w)
      <4>1. OpenMigration(w) => ~CreateSuccessor(w) /\ ~DeleteSuccessor(w)
        BY DEF OpenMigration, CreateSuccessor, DeleteSuccessor, At
      <4> QED
        BY <2>1, <2>3, <4>1, AloneAtSuites, RunsNext DEF NewestCtx
    <3>2. Active' \subseteq Active
      BY <2>1, <3>1, NewestStays DEF NewestCtx
    <3>3. CASE InProgress(m) /\ oldOf'[m] = oldOf[m]
      BY <3>2, <3>3 DEF NewestInv, UpTo
    <3>4. CASE OpenMigration(w) /\ m = h[w].m /\ oldOf'[m] = h[w].n
      <4>1. UpTo(h[w].n, m)
        BY <3>4 DEF OpenMigration, At, NewestInv, NewestOK
      <4> QED
        BY <3>2, <3>4, <4>1 DEF UpTo
    <3> QED
      BY <2>1, <2>3, <3>3, <3>4, RunsNext DEF NewestCtx
  <2> QED
    BY <2>2, <2>3 DEF NewestInv
<1>2. CASE Vault \/ UNCHANGED vars
  <2>1. UNCHANGED <<suite, status, oldOf, h>>
    BY <1>2 DEF Vault, DeleteSecret, PruneVersion, BreakGlass, Free, vars
  <2> QED
    BY <2>1 DEF NewestInv, NewestOK, UpTo, Newest, Active, InProgress
<1> QED
  BY <1>1, <1>2 DEF Next, WorkerMoves

-----------------------------------------------------------------------------
(* Where rows go when requests only edit and create.                        *)

RowMoves(w, r) ==
    \/ on'[r] = 0
    \/ on'[r] = on[r] /\ seal'[r] = seal[r]
    \/ CommitRecord(w) /\ on[r] # 0 /\ on'[r] = h[w].m /\ seal'[r] = h[w].m
    \/ UpdateSecret(w) /\ on[r] # 0 /\ on'[r] = on[r] /\ seal'[r] = h[w].n
    \/ UpdateSecret(w) /\ on[r] = 0
         /\ \E s \in Secrets : on[s] # 0 /\ on'[r] = on[s] /\ seal'[r] = seal[s]
    \/ CreateSecret(w) /\ on[r] = 0 /\ on'[r] \in Newest /\ seal'[r] = h[w].n

LEMMA RowsMove ==
    ASSUME TypeInv, NEW w \in Workers, WorkerMoves(w),
           ~WriteKey(w), ~LoadHead(w), ~SnapshotHead(w), NEW r \in Records
    PROVE  RowMoves(w, r)
<1> USE DEF RowMoves
<1>0. on \in [Records -> 0..MaxSuites] /\ seal \in [Records -> 0..MaxSuites]
  BY DEF TypeInv, TypeOK
<1>1. CASE CommitRecord(w)
  BY <1>0, <1>1 DEF CommitRecord
<1>2. CASE DropVersionsBeyondWindow(w)
  BY <1>0, <1>2 DEF DropVersionsBeyondWindow
<1>3. CASE UpdateSecret(w)
  <2>1. PICK s \in Secrets : s = h[w].r /\ s \in Records
    BY <1>3 DEF UpdateSecret, At, TypeInv, Fits, Records
  <2>2. CASE on[s] = 0
    BY <1>3, <2>1, <2>2 DEF UpdateSecret
  <2>3. CASE on[s] # 0
    <3>1. PICK v \in Versions :
            /\ NextVersion(s, v)
            /\ on' = [on EXCEPT ![v] = on[s]]
            /\ seal' = [seal EXCEPT ![v] = seal[s], ![s] = h[w].n]
      BY <1>3, <2>1, <2>3 DEF UpdateSecret, Overwrite
    <3>2. on[v] = 0 /\ v \in Records /\ v # s
      <4>1. v[2] \in Nat /\ v \in Records
        BY SuiteMigrationAssumption DEF Versions, Records
      <4>2. on[v] # 0 => v[2] < v[2]
        BY <3>1 DEF NextVersion
      <4> QED
        BY <2>3, <4>1, <4>2
    <3> QED
      BY <1>0, <1>3, <2>1, <2>3, <3>1, <3>2
  <2> QED
    BY <2>2, <2>3
<1>4. CASE CreateSecret(w)
  <2>1. PICK s \in Records : s = h[w].r
    BY <1>4 DEF CreateSecret, At, TypeInv, Fits, Records
  <2> QED
    BY <1>0, <1>4, <2>1 DEF CreateSecret
<1>5. CASE ~CommitRecord(w) /\ ~DropVersionsBeyondWindow(w) /\ ~Rewrites(w)
  BY <1>5, OtherStepsKeepRows DEF RowsSame
<1> QED
  BY <1>1, <1>2, <1>3, <1>4, <1>5 DEF Rewrites

\* The user's own writes leave the records alone, too.
LEMMA VaultIdle ==
    ASSUME OnlyEdits, Vault \/ UNCHANGED vars
    PROVE  UNCHANGED <<suite, status, oldOf, on, seal, failed, h>>
  BY DEF OnlyEdits, Vault, DeleteSecret, PruneVersion, BreakGlass, Allowed, vars

-----------------------------------------------------------------------------
(* A completion loses nothing that edits and creations leave readable.      *)

FailuresInProgress ==
    \A m \in Suites :
        /\ InProgress(m) => failed[m] \subseteq DeadOn(oldOf[m])
        /\ ~Started(m) => failed[m] = {}

CarriedInProgress ==
    \A w \in Workers : h[w].op \in Moving /\ InProgress(h[w].m) => PostOK(w) /\ CountOK(w)

EditsInv == PostsAtWrite /\ FailuresInProgress /\ CarriedInProgress /\ NoSilentLoss

EditsCtx(w) == EditsInv /\ OnlyEdits /\ NewestCtx(w)

LEMMA PostsWrite ==
    ASSUME TypeInv, PostsAtWrite, NEW w \in Workers, WorkerMoves(w), h'[w].op \in {"commit", "fail"}
    PROVE  h'[w].at = "write"
<1>1. CASE Arrive(w)
  BY <1>1, ArriveCarries DEF PostOK
<1>2. CASE h[w].op \notin {"commit", "fail"} /\ ~Arrive(w)
  <2>1. SuiteStep(w) => h'[w].op = h[w].op
    BY SuiteStepHandler DEF HandlerStays
  <2>2. CASE SuiteStep(w)
    BY <1>2, <2>1, <2>2
  <2>3. CASE \/ LockRequests(w) \/ CommitRecord(w) \/ RecordFailure(w) \/ CarryContact(w)
             \/ SweepContacts(w) \/ UnlockRequests(w) \/ UpdateSecret(w) \/ CreateSecret(w)
             \/ CreateLink(w) \/ CreateRequest(w) \/ WriteKey(w) \/ Crash(w)
    BY <2>3, EndIs DEF LockRequests, CommitRecord, RecordFailure, CarryContact, SweepContacts,
       UnlockRequests, UpdateSecret, CreateSecret, CreateLink, CreateRequest, WriteKey, Crash, Idle
  <2>4. CASE \/ DropVersionsBeyondWindow(w) \/ AssertNothingUnaccountedFor(w) \/ CountCommitted(w)
             \/ AssertNotWriteLocked(w) \/ RevokeKeyMaterial(w) \/ RepointRequests(w)
             \/ ClearFailureAccounting(w) \/ ListenerFails(w)
    BY <1>2, <2>4, GotoIs, EndIs DEF DropVersionsBeyondWindow, AssertNothingUnaccountedFor,
       CountCommitted, AssertNotWriteLocked, RevokeKeyMaterial, RepointRequests,
       ClearFailureAccounting, ListenerFails, Idle
  <2>5. CASE CountRows(w) \/ AssertLossAcknowledged(w)
    <3>1. h'[w].op = h[w].op \/ End(w)
      BY <2>5 DEF CountRows, AssertLossAcknowledged, At, TypeInv, TypeOK, Handlers
    <3> QED
      BY <1>2, <3>1, EndIs DEF Idle
  <2>6. CASE LoadHead(w) \/ SnapshotHead(w)
    BY <2>6, RestoreSteps DEF Idle
  <2> QED
    BY <1>2, <2>2, <2>3, <2>4, <2>5, <2>6 DEF WorkerMoves, Step, SuiteStep
<1>3. CASE h[w].op \in {"commit", "fail"} /\ ~Arrive(w)
  <2>1. h[w].at = "write"
    BY <1>3 DEF PostsAtWrite
  <2>2. CommitRecord(w) \/ RecordFailure(w) \/ Crash(w)
    <3>1. Step(w) => CommitRecord(w) \/ RecordFailure(w)
      BY <1>3 DEF Step, CreateSuccessor, OpenMigration, LockRequests, CarryContact,
         DropVersionsBeyondWindow, CountRows, AssertNothingUnaccountedFor, AssertLossAcknowledged,
         SetCompleted, MarkCompromised, RevokeKeyMaterial, ClearFailureAccounting, RepointRequests,
         SweepContacts, CountCommitted, SetAborted, DeleteSuccessor, UnlockRequests,
         AssertNotWriteLocked, UpdateSecret, CreateSecret, CreateLink, CreateRequest, LoadHead,
         SnapshotHead, WriteKey, At,
         LockedWrites
    <3> QED
      BY <1>3, <2>1, <3>1 DEF WorkerMoves, ListenerFails
  <2> QED
    BY <2>2, EndIs DEF CommitRecord, RecordFailure, Crash, Idle
<1> QED
  BY <1>1, <1>2, <1>3

\* While a migration runs, only its own requests write records.
LEMMA RunningStep ==
    ASSUME NEW w \in Workers, EditsCtx(w), NEW k \in Suites, InProgress(k)
    PROVE  EditsInv'
<1> USE DEF EditsCtx, NewestCtx, FinishCtx
<1>0. TypeInv /\ ProtocolInv /\ MovesToFinal /\ OpsInFlight
  BY DEF EndInv, BaseInv, ProtocolInv
<1>1. \A v \in Workers : PostOK(v) /\ CountOK(v)
  <2> SUFFICES ASSUME NEW v \in Workers PROVE PostOK(v) /\ CountOK(v)
    OBVIOUS
  <2>1. CASE h[v].op \in Moving
    BY <2>1 DEF EndInv, BaseInv, EndsInv, Sole, EditsInv, CarriedInProgress
  <2>2. CASE h[v].op \notin Moving
    BY <2>2 DEF Moving, PostOK, CountOK
  <2> QED
    BY <2>1, <2>2
<1>2. PostsInFlight /\ CountsHold
  BY <1>1, CarriedData
<1>3. ~Rewrites(w)
  BY <1>0, NoRestores DEF Rewrites, UpdateSecret, CreateSecret, At, NewestInv, NewestOK
<1>4. RowsStep /\ MigrationsStep /\ FailuresStep
  BY <1>0, <1>2, <1>3, WorkerKeepsRows, MigrationsKept, FailuresKept
<1>5. \A v \in Workers : PostOK(v)' /\ CountOK(v)'
  <2>1. OthersSame(w)
    BY <1>0, OperationsStep
  <2>2. h[w].op = "complete" => failed[h[w].m] \subseteq DeadOn(oldOf[h[w].m])
    BY DEF EndInv, BaseInv, EndsInv, Sole, Moving, EditsInv, FailuresInProgress
  <2>3. PostOK(w)' /\ CountOK(w)'
    BY <1>0, <1>1, <2>2, ArriveCarries, StepCarries DEF WorkerMoves
  <2> QED
    BY <1>0, <1>1, <1>4, <2>1, <2>3, OthersCarry DEF OthersSame
<1>6. FailuresInProgress'
  <2>1. ASSUME NEW m \in Suites, InProgress(m)' PROVE failed'[m] \subseteq DeadOn(oldOf[m])'
    <3>1. InProgress(m) /\ oldOf'[m] = oldOf[m]
      BY <2>1, RunsNext, AloneAtSuites
    <3>2. PICK s \in Suites : s = oldOf[m] /\ OldEnd(s)
      BY <1>0, <3>1 DEF OldEnd, Started, InProgress, TypeInv, TypeOK
    <3>3. failed'[m] \subseteq DeadOn(s)'
      BY <1>4, <3>1, <3>2 DEF EditsInv, FailuresInProgress, FailuresStep, RowsStep, RowsShrink
    <3> QED
      BY <3>1, <3>2, <3>3
  <2>2. ASSUME NEW m \in Suites, ~Started(m)' PROVE failed'[m] = {}
    BY <1>4, <2>2 DEF MigrationsStep, FailuresStep, EditsInv, FailuresInProgress
  <2> QED
    BY <2>1, <2>2 DEF FailuresInProgress
<1>7. NoSilentLoss'
  BY <1>0, <1>2, <1>4, NoLossStep DEF EditsInv
<1> QED
  BY <1>5, <1>6, <1>7 DEF EditsInv, CarriedInProgress, PostsAtWrite, PostOK

\* While none runs, no row comes to be readable on a suite that was left.
LEMMA RestingStep ==
    ASSUME NEW w \in Workers, EditsCtx(w), \A k \in Suites : ~InProgress(k)
    PROVE  EditsInv'
<1> USE DEF EditsCtx, NewestCtx, FinishCtx
<1>0. TypeInv /\ ProtocolInv /\ OpsInFlight
  BY DEF EndInv, BaseInv, ProtocolInv
<1>1. OthersSame(w)
  BY <1>0, OperationsStep
<1>2. PostsAtWrite'
  BY <1>0, <1>1, PostsWrite DEF OthersSame, PostsAtWrite, EditsInv
<1>3. ASSUME NEW m \in Suites, InProgress(m)'
      PROVE  /\ OpenMigration(w) /\ failed'[m] = {}
             /\ \A v \in Workers : h'[v].op \notin Moving
  <2>1. OpenMigration(w) /\ ~Started(m)
    BY <1>3, RunsNext
  <2>2. failed'[m] = {}
    BY <2>1 DEF OpenMigration, EditsInv, FailuresInProgress
  <2>3. h'[w].op \notin Moving
    BY <1>0, <2>1, GotoIs DEF OpenMigration, At, Moving
  <2>4. \A v \in Workers \ {w} : h'[v].op \notin Moving
    BY <2>1, AloneAtSuites DEF Idle, Moving
  <2> QED
    BY <2>1, <2>2, <2>3, <2>4
<1>4. CarriedInProgress'
  <2> SUFFICES ASSUME NEW v \in Workers, h'[v].op \in Moving, InProgress(h[v].m)' PROVE FALSE
    BY DEF CarriedInProgress
  <2>1. h'[v].m \in Suites
    BY <1>0, NextKeepsTypes DEF TypeInv, Fits, Moving
  <2> QED
    BY <1>3, <2>1
<1>5. FailuresInProgress'
  <2>1. ASSUME NEW m \in Suites, ~Started(m)' PROVE failed'[m] = {}
    <3>1. ~Started(m) /\ failed[m] = {}
      BY <1>0, <2>1, MigrationsKept DEF MigrationsStep, EditsInv, FailuresInProgress
    <3>2. failed'[m] = failed[m]
      BY <1>0, <3>1, OthersLeaveFailures, FailuresWritten
    <3> QED
      BY <3>1, <3>2
  <2> QED
    BY <1>3, <2>1 DEF FailuresInProgress
<1>6. NoSilentLoss'
  <2> SUFFICES ASSUME NEW m \in Suites, Completed(m)', NEW r \in Records, on'[r] = oldOf'[m]
               PROVE  seal'[r] # on'[r]
    BY DEF NoSilentLoss, Bound, Readable
  <2>1. Completed(m)
    <3>1. SetCompleted(w) => Live(h[w].m)
      BY DEF SetCompleted, At, EndInv, CompleteIsLive
    <3>2. ~Completed(m)' \/ status'[m] = status[m] \/ (SetCompleted(w) /\ h[w].m = m)
      <4>1. OpenMigration(w) => h[w].m \in Suites
        BY <1>0 DEF OpenMigration, At, TypeInv, Fits
      <4>2. SetAborted(w) => h[w].m \in Suites
        BY <1>0 DEF SetAborted, At, TypeInv, Fits
      <4> QED
        BY <1>0, <4>1, <4>2, StatusMoves DEF OpenMigration, SetAborted, Completed, TypeInv, TypeOK
    <3> QED
      BY <3>1, <3>2 DEF Live, Completed
  <2>2. PICK s \in Suites : s = oldOf[m] /\ s = oldOf'[m]
    BY <2>1, LiveKeeps DEF Live
  <2>3. \A x \in Records : on[x] = s => seal[x] # s
    BY <2>1, <2>2 DEF EditsInv, NoSilentLoss, Bound, Readable
  <2>4. s # 0
    BY SuiteNumbers
  <2>5. CommitRecord(w) => h[w].m # s
    BY <2>1, <2>2, LeftForGood DEF CommitRecord, At, Moving, Live
  <2>6. UpdateSecret(w) \/ CreateSecret(w) => h[w].n # s
    BY <2>1, <2>2 DEF UpdateSecret, CreateSecret, At, LockedWrites, FinishInv, WritesNew, Live
  <2>7. RowMoves(w, r)
    BY <1>0, RowsMove, NoRestores
  <2>8. \A x \in Secrets : x \in Records
    BY DEF Records
  <2> QED
    BY <2>2, <2>3, <2>4, <2>5, <2>6, <2>7, <2>8 DEF RowMoves
<1> QED
  BY <1>2, <1>4, <1>5, <1>6 DEF EditsInv

LEMMA EditsStep ==
    ASSUME EndInv, FinishInv, NewestInv, EditsInv, OnlyEdits, NoFaults, [Next]_vars
    PROVE  EditsInv'
<1>1. ASSUME NEW w \in Workers, WorkerMoves(w) PROVE EditsInv'
  <2>1. EditsCtx(w)
    BY <1>1 DEF EditsCtx, NewestCtx, FinishCtx
  <2> QED
    BY <2>1, RunningStep, RestingStep
<1>2. CASE Vault \/ UNCHANGED vars
  <2>1. UNCHANGED <<suite, status, oldOf, on, seal, failed, h>>
    BY <1>2, VaultIdle
  <2>2. /\ \A s : DeadOn(s)' = DeadOn(s) /\ Bound(s)' = Bound(s) /\ AllDead(s)' = AllDead(s)
        /\ \A m : InProgress(m)' = InProgress(m) /\ Started(m)' = Started(m)
                  /\ Completed(m)' = Completed(m)
    BY <2>1 DEF DeadOn, Bound, AllDead, Readable, InWindow, InProgress, Started, Completed
  <2>3. \A v \in Workers : PostOK(v)' = PostOK(v) /\ CountOK(v)' = CountOK(v)
    BY <2>1, <2>2 DEF PostOK, CountOK, OpenOrGone, Readable
  <2> QED
    BY <2>1, <2>2, <2>3 DEF EditsInv, PostsAtWrite, FailuresInProgress, CarriedInProgress,
       NoSilentLoss, Readable
<1> QED
  BY <1>1, <1>2 DEF Next, WorkerMoves

-----------------------------------------------------------------------------
(* What opens stays on the newest suite, or on one that is being left.      *)

Leaving(s) ==
    \/ \E m \in Suites : InProgress(m) /\ oldOf[m] = s
    \/ \E w \in Workers : At(w, "recover", "open") /\ h[w].n = s
    \/ \E w \in Workers : At(w, "abort", "delete") /\ oldOf[h[w].m] = s

InUse(s) == s \in Newest \/ Leaving(s)

ReadableInUse == \A r \in Records : on[r] # 0 /\ Readable(r) => InUse(on[r])

RowsInv == ReadableInUse /\ CarriedForward

RowsCtx(w) == RowsInv /\ StrandInv /\ EditsCtx(w)

\* A recovery that has its successor opens its migration; an abort that has
\* ended its migration deletes the successor.
LEMMA StepsAtSuites ==
    ASSUME NEW w \in Workers, FinishCtx(w)
    PROVE  /\ At(w, "recover", "open") => OpenMigration(w)
           /\ At(w, "abort", "delete") => DeleteSuccessor(w)
<1>1. Arrive(w) \/ Step(w)
  BY NoFaultSteps DEF FinishCtx, EndInv, BaseInv
<1>2. ASSUME h[w].op # "idle" PROVE Step(w)
  BY <1>1, <1>2, ArriveBegins DEF FinishCtx, EndInv, BaseInv, HandlerBegins, Idle
<1>3. ASSUME Step(w), h[w].op = "recover", h[w].at = "open" PROVE OpenMigration(w)
  BY <1>3 DEF Step, At, LockedWrites,
     CreateSuccessor, LockRequests, CommitRecord, RecordFailure, CarryContact,
     DropVersionsBeyondWindow, CountRows, AssertNothingUnaccountedFor, AssertLossAcknowledged,
     SetCompleted, MarkCompromised, RevokeKeyMaterial, ClearFailureAccounting, RepointRequests,
     SweepContacts, CountCommitted, SetAborted, DeleteSuccessor, UnlockRequests,
     AssertNotWriteLocked, UpdateSecret, CreateSecret, CreateLink, CreateRequest, LoadHead,
     SnapshotHead, WriteKey
<1>4. ASSUME Step(w), h[w].op = "abort", h[w].at = "delete" PROVE DeleteSuccessor(w)
  BY <1>4 DEF Step, At, LockedWrites,
     CreateSuccessor, OpenMigration, LockRequests, CommitRecord, RecordFailure, CarryContact,
     DropVersionsBeyondWindow, CountRows, AssertNothingUnaccountedFor, AssertLossAcknowledged,
     SetCompleted, MarkCompromised, RevokeKeyMaterial, ClearFailureAccounting, RepointRequests,
     SweepContacts, CountCommitted, SetAborted, UnlockRequests,
     AssertNotWriteLocked, UpdateSecret, CreateSecret, CreateLink, CreateRequest, LoadHead,
     SnapshotHead, WriteKey
<1> QED
  BY <1>2, <1>3, <1>4 DEF At

\* While a record is edited or created no suite is being left.
LEMMA NoneLeaving ==
    ASSUME NEW w \in Workers, NewestCtx(w), UpdateSecret(w) \/ CreateSecret(w), NEW s
    PROVE  ~Leaving(s)
<1>1. h[w].op \in {"edit", "create"} /\ h[w].at = "write"
  BY DEF UpdateSecret, CreateSecret, At
<1>2. \A m \in Suites : ~InProgress(m)
  BY <1>1 DEF NewestCtx, NewestInv, NewestOK
<1>3. \A v \in Workers : h[v].op \notin {"recover", "abort"}
  BY <1>1 DEF NewestCtx, FinishCtx, EndInv, BaseInv, ProtocolInv, RecoverAlone, AbortIsAlone, Alone, Idle
<1> QED
  BY <1>2, <1>3 DEF Leaving, At

\* A suite in use stays so until its migration completes, or an abort deletes it.
LEMMA InUseStays ==
    ASSUME NEW w \in Workers, NewestCtx(w), NEW s \in Suites, InUse(s),
           ~(SetCompleted(w) /\ s = oldOf[h[w].m]), ~(DeleteSuccessor(w) /\ s = h[w].m)
    PROVE  InUse(s)'
<1> USE DEF NewestCtx, FinishCtx
<1>0. TypeInv /\ ProtocolInv /\ OthersSame(w)
  BY OperationsStep DEF EndInv, BaseInv, ProtocolInv
<1>1. CASE CreateSuccessor(w)
  <2>1. h[w].op = "recover" /\ h[w].at = "create" /\ h[w].n \in Newest
    BY <1>1 DEF CreateSuccessor, At, NewestInv, NewestOK
  <2>2. ~Leaving(s)
    BY <1>1, <2>1, AloneAtSuites DEF Leaving, At, Idle
  <2>3. s = h[w].n
    BY <2>1, <2>2, OneNewest DEF InUse
  <2>4. h'[w].op = "recover" /\ h'[w].at = "open" /\ h'[w].n = h[w].n
    BY <1>0, <1>1, <2>1 DEF CreateSuccessor, TypeInv, TypeOK, Handlers
  <2> QED
    BY <2>3, <2>4 DEF InUse, Leaving, At
<1>2. CASE DeleteSuccessor(w)
  <2>1. PICK m \in Suites : m = h[w].m /\ h[w].op = "abort" /\ h[w].at = "delete"
    BY <1>0, <1>2 DEF DeleteSuccessor, At, TypeInv, Fits
  <2>2. Active' = Active \ {m}
    BY <1>0, <1>2, <2>1 DEF DeleteSuccessor, Active, TypeInv, TypeOK
  <2>3. CASE s \in Newest
    BY <1>2, <2>1, <2>2, <2>3 DEF Newest, InUse
  <2>4. CASE Leaving(s)
    <3>1. s = oldOf[m]
      BY <1>2, <2>1, <2>4, AloneAtSuites DEF Leaving, At, Idle
    <3>2. s \in Active /\ UpTo(s, m)
      BY <2>1, <3>1 DEF FinishInv, OldEndActive, NewestInv, NewestOK, Active
    <3>3. s # m
      BY <1>0, <2>1, <3>1, SuiteMigrationAssumption DEF ProtocolInv, MovesToFinal, Moving, FinishInv, Ordered, Suites
    <3> QED
      BY <2>2, <3>2, <3>3 DEF UpTo, Newest, InUse
  <2> QED
    BY <2>3, <2>4 DEF InUse
<1>3. CASE ~CreateSuccessor(w) /\ ~DeleteSuccessor(w)
  <2>1. CASE s \in Newest
    BY <1>3, <2>1, NewestStays DEF InUse
  <2>2. CASE \E m \in Suites : InProgress(m) /\ oldOf[m] = s
    <3>1. PICK m \in Suites : InProgress(m) /\ oldOf[m] = s
      BY <2>2
    <3>2. oldOf'[m] = s
      BY <3>1, LiveKeeps DEF Live
    <3>3. CASE InProgress(m)'
      BY <3>1, <3>2, <3>3 DEF InUse, Leaving
    <3>4. CASE ~InProgress(m)'
      <4>1. m = h[w].m /\ SetAborted(w)
        BY <1>0, <3>1, <3>4, StatusMoves DEF InProgress, OpenMigration, TypeInv, TypeOK
      <4>2. h'[w].op = "abort" /\ h'[w].at = "delete" /\ h'[w].m = m
        BY <1>0, <4>1, GotoIs DEF SetAborted, At
      <4> QED
        BY <3>2, <4>2 DEF InUse, Leaving, At
    <3> QED
      BY <3>3, <3>4
  <2>3. ASSUME NEW v \in Workers, At(v, "recover", "open"), h[v].n = s PROVE InUse(s)'
    <3>1. CASE v = w
      <4>1. PICK m \in Suites : m = h[w].m /\ OpenMigration(w)
        BY <1>0, <2>3, <3>1, StepsAtSuites DEF At, TypeInv, Fits
      <4>2. status'[m] = "in_progress" /\ oldOf'[m] = s
        BY <1>0, <2>3, <3>1, <4>1 DEF OpenMigration, TypeInv, TypeOK
      <4> QED
        BY <4>2 DEF InUse, Leaving, InProgress
    <3>2. CASE v # w
      BY <1>0, <2>3, <3>2 DEF OthersSame, InUse, Leaving, At
    <3> QED
      BY <3>1, <3>2
  <2>4. ASSUME NEW v \in Workers, At(v, "abort", "delete"), oldOf[h[v].m] = s PROVE InUse(s)'
    <3>1. v # w
      BY <1>3, <2>4, StepsAtSuites
    <3>2. PICK m \in Suites : m = h[v].m /\ Started(m)
      BY <1>0, <2>4 DEF At, TypeInv, Fits, ProtocolInv, MovesToFinal, Moving
    <3>3. oldOf'[m] = s
      BY <1>0, <2>4, <3>2, MigrationsKept DEF MigrationsStep
    <3> QED
      BY <1>0, <2>4, <3>1, <3>2, <3>3 DEF OthersSame, InUse, Leaving, At
  <2> QED
    BY <2>1, <2>2, <2>3, <2>4 DEF InUse, Leaving
<1> QED
  BY <1>1, <1>2, <1>3

\* A row that a step leaves readable is on a suite that was in use before it.
LEMMA ReadableWasInUse ==
    ASSUME NEW w \in Workers, RowsCtx(w), NEW r \in Records, on'[r] # 0, seal'[r] = on'[r]
    PROVE  InUse(on'[r])
<1> USE DEF RowsCtx, EditsCtx, NewestCtx, FinishCtx
<1>1. RowMoves(w, r)
  BY RowsMove, NoRestores DEF EndInv, BaseInv, ProtocolInv
<1>2. CommitRecord(w) => h[w].m \in Newest
  BY DEF CommitRecord, At, NewestInv, NewestOK
<1>3. UpdateSecret(w) \/ CreateSecret(w) => h[w].n \in Newest
  BY DEF UpdateSecret, CreateSecret, At, LockedWrites, NewestInv, NewestOK
<1>4. \A s \in Secrets : s \in Records
  BY DEF Records
<1> QED
  BY <1>1, <1>2, <1>3, <1>4 DEF RowMoves, RowsInv, ReadableInUse, Readable, InUse

\* A record that opens opens after the step, or it is gone.
LEMMA StaysOpen ==
    ASSUME NEW w \in Workers, RowsCtx(w), NEW r \in Records
    PROVE  /\ on[r] # 0 /\ Readable(r) => on'[r] = 0 \/ Readable(r)'
           /\ on'[r] > 1 => Readable(r)'
<1> USE DEF RowsCtx, EditsCtx, NewestCtx, FinishCtx
<1>1. RowMoves(w, r)
  BY RowsMove, NoRestores DEF EndInv, BaseInv, ProtocolInv
<1>2. UpdateSecret(w) \/ CreateSecret(w) => h[w].n \in Newest
  BY DEF UpdateSecret, CreateSecret, At, LockedWrites, NewestInv, NewestOK
<1>3. ASSUME UpdateSecret(w), on[r] # 0, Readable(r) PROVE on[r] = h[w].n
  <2>1. on[r] \in Newest
    BY <1>3, NoneLeaving DEF RowsInv, ReadableInUse, InUse
  <2> QED
    BY <1>2, <1>3, <2>1, OneNewest
<1>4. ASSUME CreateSecret(w), on'[r] \in Newest PROVE on'[r] = h[w].n
  BY <1>2, <1>4, OneNewest
<1>5. on[r] \in Nat /\ \A s \in Secrets : s \in Records
  BY SuiteMigrationAssumption DEF Records, EndInv, BaseInv, TypeInv, TypeOK
<1>6. on[r] > 1 => Readable(r) /\ on[r] # 0
  BY <1>5 DEF RowsInv, CarriedForward
<1>7. CASE on'[r] = 0
  BY <1>7
<1>8. CASE on'[r] = on[r] /\ seal'[r] = seal[r]
  BY <1>6, <1>8 DEF Readable
<1>9. CASE CommitRecord(w) /\ on'[r] = h[w].m /\ seal'[r] = h[w].m
  BY <1>9 DEF Readable
<1>10. CASE UpdateSecret(w) /\ on[r] # 0 /\ on'[r] = on[r] /\ seal'[r] = h[w].n
  BY <1>3, <1>6, <1>10 DEF Readable
<1>11. CASE on[r] = 0 /\ \E s \in Secrets : on[s] # 0 /\ on'[r] = on[s] /\ seal'[r] = seal[s]
  BY <1>5, <1>11 DEF RowsInv, CarriedForward, Readable
<1>12. CASE CreateSecret(w) /\ on[r] = 0 /\ on'[r] \in Newest /\ seal'[r] = h[w].n
  BY <1>4, <1>12 DEF Readable
<1> QED
  BY <1>1, <1>7, <1>8, <1>9, <1>10, <1>11, <1>12 DEF RowMoves

LEMMA RowsWorker ==
    ASSUME NEW w \in Workers, RowsCtx(w), EditsInv'
    PROVE  RowsInv'
<1> USE DEF RowsCtx, EditsCtx, NewestCtx, FinishCtx
<1>0. TypeInv /\ ProtocolInv /\ TypeInv'
  BY NextKeepsTypes DEF EndInv, BaseInv
<1>1. ASSUME NEW r \in Records, on'[r] # 0, seal'[r] = on'[r] PROVE InUse(on[r])'
  <2>1. PICK s \in Suites : s = on'[r] /\ InUse(s)
    BY <1>0, <1>1, ReadableWasInUse, SuiteMigrationAssumption DEF TypeInv, TypeOK, Suites
  <2>2. ~(SetCompleted(w) /\ s = oldOf[h[w].m])
    <3> SUFFICES ASSUME SetCompleted(w), s = oldOf[h[w].m] PROVE FALSE
      OBVIOUS
    <3>1. h[w].m \in Suites /\ Completed(h[w].m)' /\ oldOf'[h[w].m] = s /\ h'[w].m = h[w].m
      BY <1>0, GotoIs DEF SetCompleted, At, TypeInv, TypeOK, Fits, Completed
    <3>2. PICK m \in Suites : Completed(m)' /\ oldOf'[m] = s
      BY <3>1 DEF Completed
    <3> QED
      BY <1>1, <2>1, <3>2 DEF EditsInv, NoSilentLoss, Bound, Readable
  <2>3. ~(DeleteSuccessor(w) /\ s = h[w].m)
    <3> SUFFICES ASSUME DeleteSuccessor(w), s = h[w].m PROVE FALSE
      OBVIOUS
    <3>1. ~Committed(s) /\ UNCHANGED on
      BY DEF DeleteSuccessor, At, StrandInv, Aborting
    <3> QED
      BY <2>1, <3>1 DEF Committed, Bound
  <2>4. InUse(s)'
    BY <2>1, <2>2, <2>3, InUseStays
  <2> QED
    BY <2>1, <2>4 DEF InUse, Leaving
<1> QED
  BY <1>1, StaysOpen DEF RowsInv, ReadableInUse, Readable, CarriedForward

-----------------------------------------------------------------------------
(* The invariant, and the theorems.                                         *)

OpenInv == EndInv /\ StrandInv /\ FinishInv /\ NewestInv /\ EditsInv /\ RowsInv

Assumed == OnlyEdits /\ RecoveryAlone /\ AbortAlone /\ NoFaults

LEMMA InitOpen == Init => OpenInv
<1> SUFFICES ASSUME Init PROVE OpenInv
  OBVIOUS
<1>1. EndInv /\ FinishInv /\ SafetyInv
  BY InitEnd, InitFinish, InitSafe
<1>2. \A w \in Workers : h[w] = Idle
  BY DEF Init
<1>3. \A m \in Suites : status[m] = "none" /\ failed[m] = {} /\ suite[m] = IF m = 1 THEN "active" ELSE "none"
  BY DEF Init
<1>4. Active = {1} /\ Newest = {1}
  BY <1>3, SuiteNumbers DEF Active, Newest
<1>5. StrandInv
  BY <1>1, <1>2, <1>3, SuiteNumbers DEF Init, StrandInv, AbortIsAlone, Alone, Aborting, Carrying, NoStranding, Idle
<1>6. NewestInv
  BY <1>2, <1>3 DEF NewestInv, NewestOK, InProgress, Idle, LockedWrites
<1>7. EditsInv
  BY <1>1, <1>2, <1>3 DEF EditsInv, SafetyInv, DataInv, FailuresInProgress, CarriedInProgress,
     InProgress, Idle, Moving
<1>8. RowsInv
  BY <1>4 DEF Init, RowsInv, ReadableInUse, CarriedForward, InUse
<1> QED
  BY <1>1, <1>5, <1>6, <1>7, <1>8 DEF OpenInv

LEMMA OpenStep ==
    ASSUME OpenInv, Assumed, [Next]_vars
    PROVE  OpenInv' /\ \A r \in Records : on[r] # 0 /\ Readable(r) => on'[r] = 0 \/ Readable(r)'
<1> USE DEF OpenInv, Assumed
<1>1. EndInv' /\ FinishInv' /\ StrandInv'
  BY EndStep, FinishStep, StrandStep DEF EndInv
<1>2. NewestInv' /\ EditsInv'
  BY NewestStep, EditsStep
<1>3. ASSUME NEW w \in Workers, WorkerMoves(w)
      PROVE  RowsInv' /\ \A r \in Records : on[r] # 0 /\ Readable(r) => on'[r] = 0 \/ Readable(r)'
  <2>1. RowsCtx(w)
    BY <1>3 DEF RowsCtx, EditsCtx, NewestCtx, FinishCtx
  <2> QED
    BY <1>2, <2>1, RowsWorker, StaysOpen
<1>4. ASSUME Vault \/ UNCHANGED vars
      PROVE  RowsInv' /\ \A r \in Records : on[r] # 0 /\ Readable(r) => on'[r] = 0 \/ Readable(r)'
  <2>1. UNCHANGED <<suite, status, oldOf, on, seal, failed, h>>
    BY <1>4, VaultIdle
  <2>2. \A s : InUse(s)' = InUse(s)
    BY <2>1 DEF InUse, Leaving, Newest, Active, InProgress, At
  <2> QED
    BY <2>1, <2>2 DEF RowsInv, ReadableInUse, CarriedForward, Readable
<1> QED
  BY <1>1, <1>2, <1>3, <1>4 DEF Next, WorkerMoves

\* A record bound to a successor suite is opened by that suite's key, whatever
\* migrations, completions, aborts, edits and creations overlap (commitRecord,
\* SecretService::update and ::create, which bind and seal in separate places).
THEOREM CarriedRecordsOpen ==
    ASSUME OnlyEdits, RecoveryAlone, AbortAlone, NoFaults
    PROVE  Spec => []CarriedForward
<1>1. Init => OpenInv
  BY InitOpen
<1>2. OpenInv /\ [Next]_vars => OpenInv'
  BY OpenStep DEF Assumed
<1>3. OpenInv => CarriedForward
  BY DEF OpenInv, RowsInv
<1> QED
  BY <1>1, <1>2, <1>3, PTL DEF Spec

\* A record that its suite's key opens is never overwritten with what it does
\* not open: a client seals under the active suite it last saw, the server binds
\* to the one it finds, and the write lock keeps the two the same.
THEOREM NothingSealedAway ==
    ASSUME OnlyEdits, RecoveryAlone, AbortAlone, NoFaults
    PROVE  Spec => NeverSealedAway
<1>1. Init => OpenInv
  BY InitOpen
<1>2. OpenInv /\ [Next]_vars => OpenInv'
  BY OpenStep DEF Assumed
<1>3. OpenInv /\ [Next]_vars =>
        [\A r \in Records : on[r] # 0 /\ Readable(r) => (on[r] = 0)' \/ Readable(r)']_vars
  BY OpenStep DEF Assumed
<1> QED
  BY <1>1, <1>2, <1>3, PTL DEF Spec, NeverSealedAway

\* A completed migration leaves no readable record behind also when the user
\* edits and creates secrets around it (completeMigration, assertNotWriteLocked).
THEOREM EditsLoseNothing ==
    ASSUME OnlyEdits, RecoveryAlone, AbortAlone, NoFaults
    PROVE  Spec => []NoSilentLoss
<1>1. Init => OpenInv
  BY InitOpen
<1>2. OpenInv /\ [Next]_vars => OpenInv'
  BY OpenStep DEF Assumed
<1>3. OpenInv => NoSilentLoss
  BY DEF OpenInv, EditsInv
<1> QED
  BY <1>1, <1>2, <1>3, PTL DEF Spec

=============================================================================
