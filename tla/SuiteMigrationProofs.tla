------------------------ MODULE SuiteMigrationProofs ------------------------
(***************************************************************************)
(* Theorems about SuiteMigration, for every value of its constants: the     *)
(* types of its variables, and that a completed recovery never locks a      *)
(* readable record away, for every number of records, suites and workers,   *)
(* any crashes, and any overlap of commits, failures, completions and       *)
(* aborts.                                                                  *)
(*                                                                         *)
(* The second needs two assumptions on the environment, both constraints on *)
(* the constants: Moves, that no request of this instance rewrites or       *)
(* removes the rows of the old suite other than the migration's own, and    *)
(* RecoveryAlone, that the start of a recovery overlaps no other request.   *)
(***************************************************************************)
EXTENDS SuiteMigration, FiniteSetTheorems, TLAPS

-----------------------------------------------------------------------------
(* Type correctness.  What a handler carries has to be of the kind that its *)
(* next step expects, so the type invariant is strengthened by Fits.        *)

Fits(x) ==
    /\ x.op \in {"commit", "fail", "carry", "complete", "abort"} => x.m \in Suites
    /\ x.op = "recover" => x.n \in Suites /\ (x.at # "create" => x.m \in Suites)
    /\ x.op \in LockedWrites \cup {"sync"} => x.n \in Suites
    /\ x.op \in {"commit", "fail"} => x.r \in Records
    /\ x.op \in {"edit", "create", "sync"} => x.r \in Secrets
    /\ x.op = "restore" =>
        /\ x.at \in {"load", "snapshot", "write"} /\ x.n \in 0..MaxSuites
        /\ x.r \in (IF x.at = "load" THEN Versions ELSE Secrets)

TypeInv == TypeOK /\ \A w \in Workers : Fits(h[w])

LEMMA SuiteNumbers ==
    Suites \subseteq 0..MaxSuites /\ 1 \in Suites /\ 0 \notin Suites
  BY SuiteMigrationAssumption DEF Suites

\* The rows are finitely many, so their number is a natural number.
LEMMA FiniteRecords ==
    IsFiniteSet(Records)
<1>1. IsFiniteSet(1..MaxVersions)
  BY SuiteMigrationAssumption, FS_Interval
<1>2. IsFiniteSet(Versions) /\ IsFiniteSet(Grants)
  BY <1>1, SuiteMigrationAssumption, FS_Product DEF Versions, Grants
<1> QED
  BY <1>2, SuiteMigrationAssumption, FS_Union DEF Records

LEMMA CountIsNatural ==
    ASSUME NEW S, S \subseteq Records
    PROVE  IsFiniteSet(S) /\ Cardinality(S) \in Nat
  BY FiniteRecords, FS_Subset, FS_CardinalityType

\* A step that changes one handler only.
LEMMA OneHandler ==
    ASSUME NEW w \in Workers, NEW x \in Handlers, Fits(x),
           h \in [Workers -> Handlers], \A v \in Workers : Fits(h[v]),
           h' = [h EXCEPT ![w] = x]
    PROVE  h' \in [Workers -> Handlers] /\ \A v \in Workers : Fits(h[v])'
  BY DEF Fits

LEMMA IdleFits ==
    Idle \in Handlers /\ Fits(Idle)
<1>1. Cardinality(Records) \in Nat
  BY CountIsNatural
<1> QED
  BY <1>1, SuiteMigrationAssumption DEF Idle, NoHead, Handlers, NoCount, Fits, Ats, LockedWrites

LEMMA EndFits ==
    ASSUME TypeInv, NEW w \in Workers, End(w)
    PROVE  h' \in [Workers -> Handlers] /\ \A v \in Workers : Fits(h[v])'
  BY IdleFits, OneHandler DEF End, TypeInv, TypeOK

LEMMA GotoFits ==
    ASSUME TypeInv, NEW w \in Workers, NEW at \in Ats, Goto(w, at),
           h[w].op # "recover" \/ h[w].m \in Suites,
           h[w].op # "restore" \/ (h[w].at = "snapshot" /\ at = "write")
    PROVE  h' \in [Workers -> Handlers] /\ \A v \in Workers : Fits(h[v])'
<1> DEFINE x == [h[w] EXCEPT !.at = at]
<1>1. h[w] \in Handlers /\ Fits(h[w])
  BY DEF TypeInv, TypeOK
<1>2. x \in Handlers
  BY <1>1 DEF Handlers
<1>3. Fits(x)
  BY <1>1 DEF Fits, Handlers
<1>4. h' = [h EXCEPT ![w] = x]
  BY <1>1 DEF Goto
<1> HIDE DEF x
<1> QED
  BY <1>2, <1>3, <1>4, OneHandler DEF TypeInv, TypeOK

LEMMA BeginFits ==
    ASSUME TypeInv, NEW w \in Workers,
           NEW op, NEW at, NEW m, NEW r, NEW n, Begin(w, op, at, m, r, n),
           op \in {"recover", "commit", "fail", "carry", "complete", "abort", "sync", "restore"}
                   \cup LockedWrites,
           at \in Ats, m \in 0..MaxSuites,
           r \in Records \cup Requests \cup Contacts \cup {Nothing},
           n \in 0..(MaxSuites + Cardinality(Records)),
           Fits([Idle EXCEPT !.op = op, !.at = at, !.m = m, !.r = r, !.n = n])
    PROVE  h' \in [Workers -> Handlers] /\ \A v \in Workers : Fits(h[v])'
<1> DEFINE x == [Idle EXCEPT !.op = op, !.at = at, !.m = m, !.r = r, !.n = n]
<1>1. x \in Handlers
  BY IdleFits DEF Handlers
<1>2. h' = [h EXCEPT ![w] = x]
  BY DEF Begin
<1>3. Fits(x)
  OBVIOUS
<1> HIDE DEF x
<1> QED
  BY <1>1, <1>2, <1>3, OneHandler DEF TypeInv, TypeOK

\* The requests in flight move on.
LEMMA StepKeepsTypes ==
    ASSUME TypeInv, NEW w \in Workers, Step(w)
    PROVE  TypeInv'
<1> USE SuiteMigrationAssumption
<1>LockRequests. CASE LockRequests(w)
  BY <1>LockRequests, EndFits DEF LockRequests, At, TypeInv, TypeOK, Fits, sideVars
<1>CommitRecord. CASE CommitRecord(w)
  <2> DEFINE m == h[w].m  r == h[w].r
  <2>1. m \in Suites /\ r \in Records
    BY <1>CommitRecord DEF CommitRecord, At, TypeInv, Fits
  <2>2. on' \in [Records -> 0..MaxSuites] /\ seal' \in [Records -> 0..MaxSuites]
    BY <1>CommitRecord, <2>1, SuiteNumbers DEF CommitRecord, TypeInv, TypeOK
  <2>3. failed' \in [Suites -> SUBSET Records]
    BY <1>CommitRecord, <2>1 DEF CommitRecord, TypeInv, TypeOK
  <2>4. UNCHANGED <<suite, status, oldOf, req, con, links, faults>> /\ End(w)
    BY <1>CommitRecord DEF CommitRecord, sideVars
  <2> QED
    BY <2>2, <2>3, <2>4, EndFits DEF TypeInv, TypeOK
<1>RecordFailure. CASE RecordFailure(w)
  BY <1>RecordFailure, EndFits DEF RecordFailure, At, TypeInv, TypeOK, Fits, sideVars
<1>CarryContact. CASE CarryContact(w)
  BY <1>CarryContact, EndFits DEF CarryContact, At, TypeInv, TypeOK, Fits, sideVars
<1>SweepContacts. CASE SweepContacts(w)
  BY <1>SweepContacts, EndFits DEF SweepContacts, At, Swept, TypeInv, TypeOK, Fits, sideVars
<1>UnlockRequests. CASE UnlockRequests(w)
  BY <1>UnlockRequests, EndFits DEF UnlockRequests, At, UnlockOnto, TypeInv, TypeOK, Fits, sideVars
<1>CreateLink. CASE CreateLink(w)
  BY <1>CreateLink, EndFits DEF CreateLink, At, LockedWrites, TypeInv, TypeOK, Fits, sideVars
<1>CreateRequest. CASE CreateRequest(w)
  BY <1>CreateRequest, EndFits DEF CreateRequest, At, LockedWrites, TypeInv, TypeOK, Fits, sideVars
<1>OpenMigration. CASE OpenMigration(w)
  BY <1>OpenMigration, GotoFits DEF OpenMigration, Ats, At, TypeInv, TypeOK, Fits, sideVars
<1>DropVersionsBeyondWindow. CASE DropVersionsBeyondWindow(w)
  BY <1>DropVersionsBeyondWindow, GotoFits DEF DropVersionsBeyondWindow, Ats, At, TypeInv, TypeOK, Fits, sideVars
<1>SetCompleted. CASE SetCompleted(w)
  BY <1>SetCompleted, GotoFits DEF SetCompleted, Ats, At, Terminals, TypeInv, TypeOK, Fits, sideVars
<1>MarkCompromised. CASE MarkCompromised(w)
  BY <1>MarkCompromised, GotoFits DEF MarkCompromised, Ats, At, TypeInv, TypeOK, Fits, sideVars
<1>RevokeKeyMaterial. CASE RevokeKeyMaterial(w)
  BY <1>RevokeKeyMaterial, GotoFits DEF RevokeKeyMaterial, Ats, At, TypeInv, TypeOK, Fits, sideVars
<1>ClearFailureAccounting. CASE ClearFailureAccounting(w)
  BY <1>ClearFailureAccounting, GotoFits DEF ClearFailureAccounting, Ats, At, TypeInv, TypeOK, Fits, sideVars
<1>RepointRequests. CASE RepointRequests(w)
  BY <1>RepointRequests, GotoFits DEF RepointRequests, Ats, At, UnlockOnto, TypeInv, TypeOK, Fits, sideVars
<1>SetAborted. CASE SetAborted(w)
  BY <1>SetAborted, GotoFits DEF SetAborted, Ats, At, Terminals, TypeInv, TypeOK, Fits, sideVars
<1>DeleteSuccessor. CASE DeleteSuccessor(w)
  BY <1>DeleteSuccessor, GotoFits DEF DeleteSuccessor, Ats, At, TypeInv, TypeOK, Fits, sideVars
<1>AssertNothingUnaccountedFor. CASE AssertNothingUnaccountedFor(w)
  BY <1>AssertNothingUnaccountedFor, EndFits, GotoFits DEF AssertNothingUnaccountedFor, Ats, At, TypeInv, TypeOK, Fits, sideVars
<1>CountCommitted. CASE CountCommitted(w)
  BY <1>CountCommitted, EndFits, GotoFits DEF CountCommitted, Ats, At, TypeInv, TypeOK, Fits, sideVars
<1>AssertNotWriteLocked. CASE AssertNotWriteLocked(w)
  BY <1>AssertNotWriteLocked, EndFits, GotoFits DEF AssertNotWriteLocked, Ats, LockedWrites, TypeInv, TypeOK, Fits, sideVars
<1>CreateSuccessor. CASE CreateSuccessor(w)
  <2> PICK s \in Suites :
        /\ suite' = [suite EXCEPT ![s] = "active"]
        /\ h' = [h EXCEPT ![w].at = "open", ![w].m = s]
    BY <1>CreateSuccessor DEF CreateSuccessor
  <2> DEFINE x == [h[w] EXCEPT !.at = "open", !.m = s]
  <2>1. h[w] \in Handlers /\ Fits(h[w])
    BY DEF TypeInv, TypeOK
  <2>2. x \in Handlers
    BY <2>1, SuiteNumbers DEF Handlers, Ats
  <2>3. Fits(x)
    BY <1>CreateSuccessor, <2>1 DEF CreateSuccessor, At, Fits, LockedWrites, Handlers
  <2>4. h' = [h EXCEPT ![w] = x]
    BY <2>1 DEF TypeInv, TypeOK
  <2> HIDE DEF x
  <2> QED
    BY <1>CreateSuccessor, <2>2, <2>3, <2>4, OneHandler DEF CreateSuccessor, TypeInv, TypeOK, sideVars
<1>CountRows. CASE CountRows(w)
  <2> DEFINE x == [h[w] EXCEPT !.at = "gate", !.left = RowsLeft(h[w].m)]
  <2>1. h[w] \in Handlers /\ Fits(h[w])
    BY DEF TypeInv, TypeOK
  <2>2. RowsLeft(h[w].m) \in [Stores -> Nat]
    BY CountIsNatural DEF RowsLeft, Bound
  <2>3. x \in Handlers
    BY <2>1, <2>2 DEF Handlers, Ats
  <2>4. Fits(x)
    BY <1>CountRows, <2>1 DEF CountRows, At, Fits, LockedWrites, Handlers
  <2>5. h' = [h EXCEPT ![w] = x]
    BY <1>CountRows, <2>1 DEF CountRows, TypeInv, TypeOK
  <2> HIDE DEF x
  <2> QED
    BY <1>CountRows, <2>3, <2>4, <2>5, OneHandler DEF CountRows, TypeInv, TypeOK, sideVars
<1>AssertLossAcknowledged. CASE AssertLossAcknowledged(w)
  <2> DEFINE lost == Cardinality(failed[h[w].m])
             n == IF lost = 0 THEN 0 ELSE h[w].n
             x == [h[w] EXCEPT !.at = "status", !.n = n]
  <2>1. h[w] \in Handlers /\ Fits(h[w])
    BY DEF TypeInv, TypeOK
  <2>2. n \in 0..(MaxSuites + Cardinality(Records))
    BY <2>1, CountIsNatural DEF Handlers
  <2> HIDE DEF n
  <2>5. x \in Handlers
    BY <2>1, <2>2 DEF Handlers, Ats
  <2>3. Fits(x)
    BY <1>AssertLossAcknowledged, <2>1 DEF AssertLossAcknowledged, At, Fits, LockedWrites, Handlers
  <2>4. h' = [h EXCEPT ![w] = x] \/ End(w)
    BY <1>AssertLossAcknowledged, <2>1 DEF AssertLossAcknowledged, TypeInv, TypeOK, n
  <2> HIDE DEF x
  <2> QED
    BY <1>AssertLossAcknowledged, <2>5, <2>3, <2>4, OneHandler, EndFits
       DEF AssertLossAcknowledged, TypeInv, TypeOK, sideVars
<1>UpdateSecret. CASE UpdateSecret(w)
  <2>1. h[w].n \in Suites /\ h[w].r \in Secrets
    BY <1>UpdateSecret DEF UpdateSecret, At, TypeInv, Fits, LockedWrites
  <2>2. on' \in [Records -> 0..MaxSuites] /\ seal' \in [Records -> 0..MaxSuites]
    BY <1>UpdateSecret, <2>1, SuiteNumbers DEF UpdateSecret, Overwrite, TypeInv, TypeOK, Records
  <2> QED
    BY <1>UpdateSecret, <2>2, EndFits DEF UpdateSecret, TypeInv, TypeOK, sideVars
<1>CreateSecret. CASE CreateSecret(w)
  <2>1. h[w].n \in Suites
    BY <1>CreateSecret DEF CreateSecret, At, TypeInv, Fits, LockedWrites
  <2>2. on' \in [Records -> 0..MaxSuites] /\ seal' \in [Records -> 0..MaxSuites]
    <3>1. Newest \subseteq 0..MaxSuites
      BY SuiteNumbers DEF Newest, Active
    <3>2. CASE on[h[w].r] # 0 \/ Newest = {}
      BY <1>CreateSecret, <3>2 DEF CreateSecret, TypeInv, TypeOK
    <3>3. CASE ~(on[h[w].r] # 0 \/ Newest = {})
      <4> PICK n \in Newest : on' = [on EXCEPT ![h[w].r] = n]
        BY <1>CreateSecret, <3>3 DEF CreateSecret
      <4>1. seal' = [seal EXCEPT ![h[w].r] = h[w].n]
        BY <1>CreateSecret, <3>3 DEF CreateSecret
      <4> QED
        BY <2>1, <3>1, <4>1, SuiteNumbers DEF TypeInv, TypeOK
    <3> QED
      BY <3>2, <3>3
  <2> QED
    BY <1>CreateSecret, <2>2, EndFits DEF CreateSecret, TypeInv, TypeOK, sideVars
<1>WriteKey. CASE WriteKey(w)
  <2>1. h[w].n \in 0..MaxSuites
    BY <1>WriteKey, SuiteNumbers DEF WriteKey, At, TypeInv, Fits, LockedWrites
  <2>2. seal' \in [Records -> 0..MaxSuites]
    BY <1>WriteKey, <2>1, SuiteNumbers DEF WriteKey, TypeInv, TypeOK
  <2> QED
    BY <1>WriteKey, <2>2, EndFits DEF WriteKey, TypeInv, TypeOK, sideVars
<1>LoadHead. CASE LoadHead(w)
  <2> DEFINE s == h[w].r[1]
             x == [h[w] EXCEPT !.at = "snapshot", !.r = s, !.head = [on |-> on[s], seal |-> seal[s]]]
  <2>1. h[w] \in Handlers /\ Fits(h[w]) /\ h[w].op = "restore" /\ h[w].r \in Versions
    BY <1>LoadHead DEF LoadHead, At, TypeInv, TypeOK, Fits
  <2>2. s \in Secrets /\ s \in Records
    BY <2>1 DEF Versions, Records
  <2>3. [on |-> on[s], seal |-> seal[s]] \in [on : 0..MaxSuites, seal : 0..MaxSuites]
    BY <2>2 DEF TypeInv, TypeOK
  <2>4. x \in Handlers
    BY <2>1, <2>2, <2>3 DEF Handlers, Ats
  <2>5. Fits(x)
    BY <2>1, <2>2 DEF Fits, LockedWrites, Handlers
  <2>6. h' = [h EXCEPT ![w] = x] \/ End(w)
    BY <1>LoadHead, <2>1 DEF LoadHead, TypeInv, TypeOK
  <2> HIDE DEF x
  <2> QED
    BY <1>LoadHead, <2>4, <2>5, <2>6, OneHandler, EndFits DEF LoadHead, TypeInv, TypeOK, sideVars
<1>SnapshotHead. CASE SnapshotHead(w)
  <2>1. on' \in [Records -> 0..MaxSuites] /\ seal' \in [Records -> 0..MaxSuites]
    <3>1. h[w].head.on \in 0..MaxSuites /\ h[w].head.seal \in 0..MaxSuites
      BY DEF TypeInv, TypeOK, Handlers
    <3> QED
      BY <1>SnapshotHead, <3>1 DEF SnapshotHead, TypeInv, TypeOK
  <2> QED
    BY <1>SnapshotHead, <2>1, GotoFits DEF SnapshotHead, At, Ats, TypeInv, TypeOK, sideVars
<1> QED
  BY <1>LoadHead, <1>SnapshotHead, <1>CreateSuccessor, <1>CountRows, <1>AssertLossAcknowledged, <1>UpdateSecret,
     <1>CreateSecret, <1>WriteKey, <1>LockRequests, <1>CommitRecord, <1>RecordFailure, <1>CarryContact, <1>SweepContacts, <1>UnlockRequests, <1>CreateLink, <1>CreateRequest, <1>OpenMigration, <1>DropVersionsBeyondWindow, <1>SetCompleted, <1>MarkCompromised, <1>RevokeKeyMaterial, <1>ClearFailureAccounting, <1>RepointRequests, <1>SetAborted, <1>DeleteSuccessor, <1>AssertNothingUnaccountedFor, <1>CountCommitted, <1>AssertNotWriteLocked DEF Step

\* The requests that arrive.
LEMMA ArriveKeepsTypes ==
    ASSUME TypeInv, NEW w \in Workers, Arrive(w)
    PROVE  TypeInv'
<1> USE SuiteNumbers, CountIsNatural
<1> SUFFICES h' \in [Workers -> Handlers] /\ \A v \in Workers : Fits(h[v])'
  BY DEF Arrive, RecoverCheck, CommitGuard, FailGuard, CarryGuard, CompleteCheck, AbortCheck,
         SendWrite, SendSync, LoadVersion, TypeInv, TypeOK, sideVars
<1>1. Cardinality(Records) \in Nat /\ MaxSuites \in Nat
  BY SuiteMigrationAssumption
<1>2. Newest \subseteq Suites /\ \A n \in Suites : n \in 0..(MaxSuites + Cardinality(Records))
  BY <1>1 DEF Newest, Active, Suites
<1>3. Secrets \subseteq Records
  BY DEF Records
<1>4. CASE RecoverCheck(w)
  <2> PICK n \in Newest : Begin(w, "recover", "create", 0, Nothing, n)
    BY <1>4 DEF RecoverCheck
  <2> QED
    BY <1>1, <1>2, BeginFits DEF Fits, Idle, Ats, LockedWrites
<1>5. CASE CommitGuard(w)
  <2> PICK m \in Suites, r \in Records : Begin(w, "commit", "write", m, r, 0)
    BY <1>5 DEF CommitGuard
  <2> QED
    BY <1>1, BeginFits DEF Fits, Idle, Ats, LockedWrites
<1>6. CASE FailGuard(w)
  <2> PICK m \in Suites, r \in Records : Begin(w, "fail", "write", m, r, 0)
    BY <1>6 DEF FailGuard
  <2> QED
    BY <1>1, BeginFits DEF Fits, Idle, Ats, LockedWrites
<1>7. CASE CarryGuard(w)
  <2> PICK m \in Suites, c \in Contacts : Begin(w, "carry", "write", m, c, 0)
    BY <1>7 DEF CarryGuard
  <2> QED
    BY <1>1, BeginFits DEF Fits, Idle, Ats, LockedWrites
<1>8. CASE CompleteCheck(w)
  <2> PICK m \in Suites, n \in 0..Cardinality(Records) :
        Begin(w, "complete", "drop", m, Nothing, n)
    BY <1>8 DEF CompleteCheck
  <2>1. n \in 0..(MaxSuites + Cardinality(Records))
    BY <1>1
  <2> QED
    BY <2>1, BeginFits DEF Fits, Idle, Ats, LockedWrites
<1>9. CASE AbortCheck(w)
  <2> PICK m \in Suites : Begin(w, "abort", "count", m, Nothing, 0)
    BY <1>9 DEF AbortCheck
  <2> QED
    BY <1>1, BeginFits DEF Fits, Idle, Ats, LockedWrites
<1>10. CASE SendWrite(w)
  <2> PICK n \in Newest, op \in LockedWrites, r \in Secrets \cup Requests \cup {Nothing} :
        Begin(w, op, "lock", 0, r, n) /\ (op \in {"edit", "create"} => r \in Secrets)
    BY <1>10 DEF SendWrite, LockedWrites
  <2>1. r \in Records \cup Requests \cup Contacts \cup {Nothing}
    BY <1>3
  <2>2. CASE op \in {"edit", "create"}
    BY <1>1, <1>2, <2>1, <2>2, BeginFits DEF Fits, Idle, Ats, LockedWrites
  <2>3. CASE op \in {"link", "ask"}
    BY <1>1, <1>2, <2>1, <2>3, BeginFits DEF Fits, Idle, Ats, LockedWrites
  <2> QED
    BY <2>2, <2>3 DEF LockedWrites
<1>11. CASE SendSync(w)
  <2> PICK s \in Secrets, n \in Newest : Begin(w, "sync", "write", 0, s, n)
    BY <1>11 DEF SendSync
  <2> QED
    BY <1>1, <1>2, <1>3, BeginFits DEF Fits, Idle, Ats, LockedWrites
<1>12. CASE LoadVersion(w)
  <2> PICK v \in Versions : Begin(w, "restore", "load", 0, v, seal[v])
    BY <1>12 DEF LoadVersion
  <2>1. v \in Records /\ seal[v] \in 0..MaxSuites
    BY DEF Records, TypeInv, TypeOK
  <2> QED
    BY <1>1, <2>1, BeginFits DEF Fits, Idle, Ats, LockedWrites
<1> QED
  BY <1>4, <1>5, <1>6, <1>7, <1>8, <1>9, <1>10, <1>11, <1>12 DEF Arrive

LEMMA NextKeepsTypes == TypeInv /\ [Next]_vars => TypeInv'
<1> SUFFICES ASSUME TypeInv, [Next]_vars PROVE TypeInv'
  OBVIOUS
<1>1. ASSUME NEW w \in Workers, Arrive(w) \/ Step(w) PROVE TypeInv'
  BY <1>1, ArriveKeepsTypes, StepKeepsTypes
<1>2. ASSUME NEW w \in Workers, Crash(w) PROVE TypeInv'
  BY <1>2, EndFits, SuiteMigrationAssumption DEF Crash, TypeInv, TypeOK, sideVars
<1>3. ASSUME NEW w \in Workers, ListenerFails(w) PROVE TypeInv'
  <2>1. CASE End(w)
    BY <1>3, <2>1, EndFits, SuiteMigrationAssumption DEF ListenerFails, TypeInv, TypeOK, sideVars
  <2>2. CASE h[w].at = "repoint" /\ Goto(w, "sweep")
    BY <1>3, <2>2, GotoFits, SuiteMigrationAssumption
       DEF ListenerFails, Fits, Ats, TypeInv, TypeOK, sideVars
  <2> QED
    BY <1>3, <2>1, <2>2 DEF ListenerFails
<1>4. CASE DeleteSecret \/ PruneVersion
  <2>1. 0 \in 0..MaxSuites
    BY SuiteMigrationAssumption
  <2>2. on' \in [Records -> 0..MaxSuites] /\ seal' \in [Records -> 0..MaxSuites]
    <3>1. CASE DeleteSecret
      <4>1. \E s \in Secrets :
              LET gone == {s} \cup {r \in Versions \cup Grants : r[1] = s} IN
              /\ on' = [r \in Records |-> IF r \in gone THEN 0 ELSE on[r]]
              /\ seal' = [r \in Records |-> IF r \in gone THEN 0 ELSE seal[r]]
        BY <3>1 DEF DeleteSecret
      <4> QED
        BY <2>1, <4>1 DEF TypeInv, TypeOK
    <3>2. CASE PruneVersion
      <4> PICK v \in Versions : on' = [on EXCEPT ![v] = 0] /\ seal' = [seal EXCEPT ![v] = 0]
        BY <3>2 DEF PruneVersion
      <4> QED
        BY <2>1 DEF TypeInv, TypeOK
    <3> QED
      BY <1>4, <3>1, <3>2
  <2> QED
    BY <1>4, <2>2 DEF DeleteSecret, PruneVersion, Free, TypeInv, TypeOK, sideVars
<1>6. CASE BreakGlass
  BY <1>6 DEF BreakGlass, TypeInv, TypeOK
<1>7. CASE UNCHANGED vars
  BY <1>7 DEF vars, TypeInv, TypeOK
<1> QED
  BY <1>1, <1>2, <1>3, <1>4, <1>6, <1>7 DEF Next, Vault

LEMMA InitTypes == Init => TypeInv
  BY SuiteNumbers, IdleFits, SuiteMigrationAssumption DEF Init, TypeInv, TypeOK, Terminals

\* Every reachable state is well typed: no handler ever writes a suite that does
\* not exist, and no bulk update leaves a row half set.
THEOREM TypeCorrect == Spec => []TypeOK
<1>1. TypeInv => TypeOK
  BY DEF TypeInv
<1> QED
  BY InitTypes, NextKeepsTypes, <1>1, PTL DEF Spec

-----------------------------------------------------------------------------
(* What no request of the instance does, and what overlaps nothing.         *)

Moves == Ops \cap {"edit", "create", "sync", "delete", "prune", "restore"} = {}
RecoveryAlone == \A op \in Ops : {"recover", op} \in Conflicts

-----------------------------------------------------------------------------
(* Who is at work on which migration.                                       *)

Started(m) == status[m] # "none"
Moving == {"commit", "fail", "carry", "complete", "abort"}

\* No started migration leaves suite m: what arrives on m stays there.
Final(m) == \A k \in Suites : Started(k) => oldOf[k] # m

OpsInFlight ==
    \A w \in Workers :
        h[w].op \in Ops \cup {"idle"} /\ (h[w].op = "idle" => h[w] = Idle)

\* While a request of kind x is at work, no other request is.
Alone(x) == \A v, w \in Workers : h[v].op = x /\ w # v => h[w] = Idle
RecoverAlone == Alone("recover")

StartedSuites ==
    \A m \in Suites : Started(m) =>
        /\ suite[m] # "none" /\ suite[oldOf[m]] # "none"
        /\ status[m] = "in_progress" => suite[oldOf[m]] # "deleted" /\ Final(m)

Recovering ==
    \A w \in Workers : h[w].op = "recover" /\ h[w].at \in {"create", "open"} =>
        /\ \A m \in Suites : status[m] # "in_progress"
        /\ suite[h[w].n] = "active"
        /\ h[w].at = "open" =>
            ~Started(h[w].m) /\ suite[h[w].m] = "active" /\ h[w].m # h[w].n /\ Final(h[w].m)

MovesToFinal ==
    \A w \in Workers : h[w].op \in Moving => Started(h[w].m) /\ Final(h[w].m)

ProtocolInv == OpsInFlight /\ RecoverAlone /\ StartedSuites /\ Recovering /\ MovesToFinal

-----------------------------------------------------------------------------
(* Which rows the failure table and the counts stand for.                   *)

\* The rows of suite s that its key does not open and no drop will take.
DeadOn(s) == {r \in Bound(s) : ~Readable(r) /\ InWindow(r, s)}
AllDead(s) == \A r \in Bound(s) : ~Readable(r)

FailuresDead ==
    \A m \in Suites : failed[m] \subseteq DeadOn(oldOf[m]) /\ (~Started(m) => failed[m] = {})

PostsAtWrite ==
    \A w \in Workers : h[w].op \in {"commit", "fail"} => h[w].at = "write"

PostsInFlight ==
    \A w \in Workers :
        /\ h[w].op = "commit" => on[h[w].r] = 0 \/ Readable(h[w].r)
        /\ h[w].op = "fail" => h[w].r \in DeadOn(oldOf[h[w].m])

CountsHold ==
    \A w \in Workers : h[w].op = "complete" =>
        /\ h[w].at = "gate" =>
            \A S \in Stores : Cardinality(Bound(oldOf[h[w].m]) \cap S) <= h[w].left[S]
        /\ h[w].at \in {"acknowledge", "status"} => AllDead(oldOf[h[w].m])

DataInv == FailuresDead /\ PostsAtWrite /\ PostsInFlight /\ CountsHold /\ NoSilentLoss

-----------------------------------------------------------------------------
(* How a step changes the handlers.                                         *)

LEMMA EndIs ==
    ASSUME TypeInv, NEW w \in Workers, End(w)
    PROVE  h'[w] = Idle /\ \A v \in Workers \ {w} : h'[v] = h[v]
  BY DEF End, TypeInv, TypeOK

LEMMA GotoIs ==
    ASSUME TypeInv, NEW w \in Workers, NEW at, Goto(w, at)
    PROVE  /\ h'[w].op = h[w].op /\ h'[w].at = at /\ h'[w].m = h[w].m
           /\ h'[w].r = h[w].r /\ h'[w].n = h[w].n /\ h'[w].left = h[w].left
           /\ \A v \in Workers \ {w} : h'[v] = h[v]
  BY DEF Goto, TypeInv, TypeOK, Handlers

LEMMA BeginIs ==
    ASSUME TypeInv, NEW w \in Workers, NEW op, NEW at, NEW m, NEW r, NEW n,
           Begin(w, op, at, m, r, n)
    PROVE  /\ h[w] = Idle /\ Allowed(op)
           /\ h'[w].op = op /\ h'[w].at = at /\ h'[w].m = m /\ h'[w].r = r /\ h'[w].n = n
           /\ \A v \in Workers \ {w} : h'[v] = h[v]
  BY DEF Begin, Idle, TypeInv, TypeOK

\* A restore reads and writes nothing but rows and what it holds itself.
LEMMA RestoreSteps ==
    ASSUME TypeInv, NEW w \in Workers, LoadHead(w) \/ SnapshotHead(w)
    PROVE  /\ h[w].op = "restore"
           /\ UNCHANGED <<suite, status, oldOf, failed, req, con, links, faults>>
           /\ h'[w] = Idle \/ (/\ h'[w].op = "restore" /\ h'[w].at \in {"snapshot", "write"}
                              /\ h'[w].m = h[w].m)
           /\ \A v \in Workers \ {w} : h'[v] = h[v]
<1>1. CASE LoadHead(w)
  <2>1. CASE End(w)
    BY <1>1, <2>1, EndIs DEF LoadHead, At, sideVars
  <2>2. CASE ~End(w)
    BY <1>1, <2>2 DEF LoadHead, At, TypeInv, TypeOK, Handlers, sideVars
  <2> QED
    BY <2>1, <2>2
<1>2. CASE SnapshotHead(w)
  BY <1>2, GotoIs DEF SnapshotHead, At, sideVars
<1> QED
  BY <1>1, <1>2

WorkerMoves(w) == Arrive(w) \/ Step(w) \/ Crash(w) \/ ListenerFails(w)

\* The steps that write the suites or the migrations.
SuiteStep(w) ==
    \/ CreateSuccessor(w) \/ OpenMigration(w) \/ SetCompleted(w)
    \/ MarkCompromised(w) \/ SetAborted(w) \/ DeleteSuccessor(w)

SuitesSame == UNCHANGED <<suite, status, oldOf>>
OthersSame(w) == \A v \in Workers \ {w} : h'[v] = h[v]

HandlerEnds(w) == h'[w] = Idle
HandlerStays(w) == h'[w].op = h[w].op /\ h[w].op # "idle"
HandlerGoesOn(w) ==
    /\ HandlerStays(w)
    /\ h'[w].m = h[w].m
    /\ h'[w].at \notin {"create", "open"}
HandlerBegins(w) ==
    /\ h[w] = Idle
    /\ Allowed(h'[w].op) /\ h'[w].op # "idle"
    /\ h'[w].op = "recover" =>
        ~WriteLocked /\ h'[w].n \in Newest /\ h'[w].at = "create"
    /\ h'[w].op \in Moving => h'[w].m \in Suites /\ Running(h'[w].m)

LEMMA ArriveBegins ==
    ASSUME TypeInv, NEW w \in Workers, Arrive(w)
    PROVE  SuitesSame /\ OthersSame(w) /\ HandlerBegins(w)
<1> USE DEF HandlerBegins, SuitesSame, OthersSame, Moving
<1>1. SuitesSame
  BY DEF Arrive, RecoverCheck, CommitGuard, FailGuard, CarryGuard, CompleteCheck, AbortCheck,
         SendWrite, SendSync, LoadVersion
<1>2. CASE RecoverCheck(w)
  BY <1>1, <1>2, BeginIs DEF RecoverCheck
<1>3. CASE CommitGuard(w) \/ FailGuard(w)
  BY <1>1, <1>3, BeginIs DEF CommitGuard, FailGuard, Guarded
<1>4. CASE CompleteCheck(w) \/ AbortCheck(w)
  BY <1>1, <1>4, BeginIs DEF CompleteCheck, AbortCheck
<1>5. CASE CarryGuard(w) \/ SendSync(w) \/ LoadVersion(w)
  BY <1>1, <1>5, BeginIs DEF CarryGuard, SendSync, LoadVersion
<1>6. CASE SendWrite(w)
  BY <1>1, <1>6, BeginIs DEF SendWrite
<1> QED
  BY <1>2, <1>3, <1>4, <1>5, <1>6 DEF Arrive

LEMMA QuietStep ==
    ASSUME TypeInv, OpsInFlight, NEW w \in Workers, WorkerMoves(w), ~SuiteStep(w)
    PROVE  /\ SuitesSame /\ OthersSame(w)
           /\ HandlerEnds(w) \/ HandlerGoesOn(w) \/ HandlerBegins(w)
<1> USE DEF HandlerEnds, HandlerStays, HandlerGoesOn, SuitesSame, OthersSame
<1>1. CASE Arrive(w)
  BY <1>1, ArriveBegins
<1>2. CASE \/ LockRequests(w) \/ CommitRecord(w) \/ RecordFailure(w) \/ CarryContact(w)
           \/ SweepContacts(w) \/ UnlockRequests(w) \/ UpdateSecret(w) \/ CreateSecret(w)
           \/ CreateLink(w) \/ CreateRequest(w) \/ WriteKey(w) \/ Crash(w)
  BY <1>2, EndIs DEF LockRequests, CommitRecord, RecordFailure, CarryContact, SweepContacts,
     UnlockRequests, UpdateSecret, CreateSecret, CreateLink, CreateRequest, WriteKey, Crash
<1>3. CASE DropVersionsBeyondWindow(w)
  BY <1>3, GotoIs DEF DropVersionsBeyondWindow, At
<1>4. CASE CountRows(w)
  <2>1. /\ h'[w].op = h[w].op /\ h'[w].m = h[w].m /\ h'[w].at = "gate"
        /\ \A v \in Workers \ {w} : h'[v] = h[v]
    BY <1>4 DEF CountRows, TypeInv, TypeOK, Handlers
  <2> QED
    BY <1>4, <2>1 DEF CountRows, At
<1>5. CASE AssertNothingUnaccountedFor(w) \/ CountCommitted(w)
  BY <1>5, GotoIs, EndIs DEF AssertNothingUnaccountedFor, CountCommitted, At
<1>6. CASE AssertLossAcknowledged(w)
  <2>1. CASE End(w)
    BY <1>6, <2>1, EndIs DEF AssertLossAcknowledged
  <2>2. CASE ~End(w)
    <3>1. /\ h'[w].op = h[w].op /\ h'[w].m = h[w].m /\ h'[w].at = "status"
          /\ \A v \in Workers \ {w} : h'[v] = h[v]
      BY <1>6, <2>2 DEF AssertLossAcknowledged, TypeInv, TypeOK, Handlers
    <3> QED
      BY <1>6, <3>1 DEF AssertLossAcknowledged, At
  <2> QED
    BY <2>1, <2>2
<1>7. CASE RevokeKeyMaterial(w) \/ ClearFailureAccounting(w) \/ RepointRequests(w)
  BY <1>7, GotoIs DEF RevokeKeyMaterial, ClearFailureAccounting, RepointRequests, At
<1>8. CASE AssertNotWriteLocked(w)
  BY <1>8, GotoIs, EndIs DEF AssertNotWriteLocked, LockedWrites
<1>9. CASE ListenerFails(w)
  <2>1. CASE End(w)
    BY <1>9, <2>1, EndIs DEF ListenerFails
  <2>2. CASE h[w].at = "repoint" /\ Goto(w, "sweep")
    BY <1>9, <2>2, GotoIs DEF ListenerFails, OpsInFlight, Idle
  <2> QED
    BY <1>9, <2>1, <2>2 DEF ListenerFails
<1>10. CASE LoadHead(w) \/ SnapshotHead(w)
  BY <1>10, RestoreSteps
<1> QED
  BY <1>1, <1>2, <1>3, <1>4, <1>5, <1>6, <1>7, <1>8, <1>9, <1>10 DEF WorkerMoves, Step, SuiteStep

-----------------------------------------------------------------------------
(* The protocol invariant is inductive.                                     *)

LEMMA SuiteStepHandler ==
    ASSUME TypeInv, NEW w \in Workers, SuiteStep(w)
    PROVE  OthersSame(w) /\ HandlerStays(w)
<1> USE DEF OthersSame, HandlerStays, At
<1>1. CASE CreateSuccessor(w)
  BY <1>1 DEF CreateSuccessor, TypeInv, TypeOK, Handlers
<1>2. CASE \/ OpenMigration(w) \/ SetCompleted(w) \/ MarkCompromised(w)
           \/ SetAborted(w) \/ DeleteSuccessor(w)
  BY <1>2, GotoIs DEF OpenMigration, SetCompleted, MarkCompromised, SetAborted, DeleteSuccessor
<1> QED
  BY <1>1, <1>2 DEF SuiteStep

\* A handler that begins has an operation of its own.
LEMMA OperationsStep ==
    ASSUME TypeInv, OpsInFlight, NEW w \in Workers, WorkerMoves(w)
    PROVE  /\ OpsInFlight'
           /\ OthersSame(w) /\ (HandlerEnds(w) \/ HandlerBegins(w) \/ HandlerStays(w))
<1>1. OthersSame(w) /\ (HandlerEnds(w) \/ HandlerBegins(w) \/ HandlerStays(w))
  BY QuietStep, SuiteStepHandler DEF HandlerGoesOn
<1>2. h'[w].op \in Ops \cup {"idle"} /\ (h'[w].op = "idle" => h'[w] = Idle)
  BY <1>1 DEF HandlerEnds, HandlerStays, HandlerBegins, Allowed, OpsInFlight, Idle
<1>3. OpsInFlight'
  BY <1>1, <1>2 DEF OpsInFlight, OthersSame
<1> QED
  BY <1>1, <1>3

\* A kind of request that conflicts with every other, and itself, is alone.
LEMMA AloneStep ==
    ASSUME TypeInv, OpsInFlight, NEW x, x # "idle", Alone(x), \A op \in Ops : {x, op} \in Conflicts,
           NEW w \in Workers, WorkerMoves(w)
    PROVE  Alone(x)'
<1>1. OthersSame(w) /\ (HandlerEnds(w) \/ HandlerBegins(w) \/ HandlerStays(w))
  BY OperationsStep
<1>4. CASE HandlerEnds(w) \/ HandlerStays(w)
  <2>1. h'[w].op # x \/ h[w].op = x
    BY <1>4 DEF HandlerEnds, HandlerStays, Idle
  <2> SUFFICES ASSUME NEW u \in Workers, NEW v \in Workers, h'[u].op = x, v # u
               PROVE  h'[v] = Idle
    BY DEF Alone
  <2>2. h[u].op = x
    BY <1>1, <2>1 DEF OthersSame
  <2>3. h[v] = Idle
    BY <2>2 DEF Alone
  <2>4. CASE v = w
    BY <1>4, <2>3, <2>4 DEF HandlerEnds, HandlerStays, Idle
  <2> QED
    BY <1>1, <2>3, <2>4 DEF OthersSame
<1>5. CASE HandlerBegins(w)
  <2>1. \A v \in Workers : {h'[w].op, h[v].op} \notin Conflicts
    BY <1>5 DEF HandlerBegins, Allowed
  <2>2. h'[w].op \in Ops
    BY <1>5 DEF HandlerBegins, Allowed
  <2>3. ASSUME NEW v \in Workers PROVE h[v].op # x
    <3>1. {x, h'[w].op} \in Conflicts /\ {x, h'[w].op} = {h'[w].op, x}
      BY <2>2
    <3> QED
      BY <2>1, <3>1
  <2>4. h'[w].op = x => \A v \in Workers : h[v] = Idle
    BY <2>1 DEF OpsInFlight
  <2> QED
    BY <1>1, <2>3, <2>4 DEF Alone, OthersSame
<1> QED
  BY <1>1, <1>4, <1>5

WorkerOK(w) ==
    /\ h[w].op = "recover" /\ h[w].at \in {"create", "open"} =>
        /\ \A m \in Suites : status[m] # "in_progress"
        /\ suite[h[w].n] = "active"
        /\ h[w].at = "open" =>
            ~Started(h[w].m) /\ suite[h[w].m] = "active" /\ h[w].m # h[w].n /\ Final(h[w].m)
    /\ h[w].op \in Moving => Started(h[w].m) /\ Final(h[w].m)

LEMMA WorkersOK == Recovering /\ MovesToFinal <=> \A w \in Workers : WorkerOK(w)
  BY DEF Recovering, MovesToFinal, WorkerOK

\* While no migration locks the vault, none is running.
LEMMA UnlockedMeansNone ==
    ASSUME StartedSuites, ~WriteLocked
    PROVE  \A m \in Suites : status[m] # "in_progress"
  BY DEF StartedSuites, WriteLocked, Running, Started

LEMMA QuietProtocol ==
    ASSUME TypeInv, ProtocolInv, NEW w \in Workers, WorkerMoves(w), ~SuiteStep(w)
    PROVE  (StartedSuites /\ Recovering /\ MovesToFinal)'
<1>1. SuitesSame /\ OthersSame(w) /\ (HandlerEnds(w) \/ HandlerGoesOn(w) \/ HandlerBegins(w))
  BY QuietStep DEF ProtocolInv
<1>2. StartedSuites'
  BY <1>1 DEF ProtocolInv, StartedSuites, Started, Final, SuitesSame
<1>3. ASSUME NEW v \in Workers, v # w PROVE WorkerOK(v)'
  BY <1>1, <1>3, WorkersOK DEF ProtocolInv, WorkerOK, Started, Final, SuitesSame, OthersSame
<1>4. WorkerOK(w)'
  <2>1. CASE HandlerEnds(w)
    BY <2>1 DEF HandlerEnds, WorkerOK, Idle, Moving
  <2>2. CASE HandlerGoesOn(w)
    BY <1>1, <2>2, WorkersOK DEF ProtocolInv, HandlerStays, HandlerGoesOn, WorkerOK, Started, Final, SuitesSame
  <2>3. CASE HandlerBegins(w)
    BY <1>1, <2>3, UnlockedMeansNone
       DEF ProtocolInv, HandlerBegins, WorkerOK, Started, Final, SuitesSame, StartedSuites,
           Running, Newest, Active, Moving
  <2> QED
    BY <1>1, <2>1, <2>2, <2>3
<1>5. \A v \in Workers : WorkerOK(v)'
  BY <1>3, <1>4
<1> QED
  BY <1>2, <1>5 DEF WorkerOK, Recovering, MovesToFinal

LEMMA SuiteStepProtocol ==
    ASSUME TypeInv, ProtocolInv, NEW w \in Workers, SuiteStep(w)
    PROVE  (StartedSuites /\ Recovering /\ MovesToFinal)'
<1> USE DEF ProtocolInv
<1>1. OthersSame(w) /\ HandlerStays(w)
  BY SuiteStepHandler
<1>2. Fits(h[w]) /\ h[w] \in Handlers
  BY DEF TypeInv, TypeOK
<1>3. \A v \in Workers : WorkerOK(v)
  BY WorkersOK
<1>4. CASE CreateSuccessor(w)
  <2>1. PICK s \in Suites :
          /\ suite[s] = "none"
          /\ suite' = [suite EXCEPT ![s] = "active"]
          /\ h' = [h EXCEPT ![w].at = "open", ![w].m = s]
    BY <1>4 DEF CreateSuccessor
  <2>2. UNCHANGED <<status, oldOf>> /\ h[w].op = "recover" /\ h[w].at = "create"
    BY <1>4 DEF CreateSuccessor, At
  <2>3. \A v \in Workers \ {w} : h'[v] = Idle
    BY <1>1, <2>2 DEF RecoverAlone, Alone, OthersSame
  <2>4. \A t \in Suites \ {s} : suite'[t] = suite[t]
    BY <2>1 DEF TypeInv, TypeOK
  <2>5. \A m \in Suites : Started(m) => m # s /\ oldOf[m] \in Suites /\ oldOf[m] # s
    BY <2>1 DEF StartedSuites, TypeInv, TypeOK
  <2>6. StartedSuites'
    BY <2>2, <2>4, <2>5 DEF StartedSuites, Started, Final
  <2>7. /\ h'[w].op = "recover" /\ h'[w].m = s /\ h'[w].n = h[w].n /\ h[w].n \in Suites
        /\ suite'[s] = "active" /\ suite[h[w].n] = "active" /\ h[w].n # s
    BY <1>2, <1>3, <2>1, <2>2 DEF WorkerOK, TypeInv, TypeOK, Handlers, Fits
  <2>8. WorkerOK(w)'
    BY <1>3, <2>2, <2>4, <2>5, <2>7 DEF WorkerOK, Started, Final, Moving
  <2>9. \A v \in Workers : WorkerOK(v)'
    BY <2>3, <2>8 DEF WorkerOK, Idle, Moving
  <2> QED
    BY <2>6, <2>9 DEF WorkerOK, Recovering, MovesToFinal
<1>5. CASE OpenMigration(w)
  <2>0. h[w].op = "recover" /\ h[w].at = "open"
    BY <1>5 DEF OpenMigration, At
  <2>m. PICK m \in Suites, n \in Suites : m = h[w].m /\ n = h[w].n
    BY <1>2, <2>0 DEF Fits
  <2>1. /\ h[w].op = "recover" /\ h[w].at = "open" /\ UNCHANGED suite
        /\ status' = [status EXCEPT ![m] = "in_progress"]
        /\ oldOf' = [oldOf EXCEPT ![m] = n]
        /\ Goto(w, "lock")
    BY <1>5, <2>m DEF OpenMigration, At
  <2>2. \A v \in Workers \ {w} : h'[v] = Idle
    BY <1>1, <2>1 DEF RecoverAlone, Alone, OthersSame
  <2>3. h'[w].op = "recover" /\ h'[w].at = "lock"
    BY <2>1, GotoIs
  <2>4. \A v \in Workers : WorkerOK(v)'
    BY <2>2, <2>3 DEF WorkerOK, Idle, Moving
  <2>6. /\ \A k \in Suites : status[k] # "in_progress"
        /\ suite[n] = "active" /\ suite[m] = "active" /\ m # n /\ Final(m)
    BY <1>3, <2>m, <2>1 DEF WorkerOK
  <2>7. /\ status'[m] = "in_progress" /\ oldOf'[m] = n
        /\ \A k \in Suites \ {m} : status'[k] = status[k] /\ oldOf'[k] = oldOf[k]
    BY <2>1 DEF TypeInv, TypeOK
  <2>8. Final(m)'
    BY <2>6, <2>7 DEF Final, Started
  <2>9. StartedSuites'
    BY <2>1, <2>6, <2>7, <2>8 DEF StartedSuites, Started
  <2> QED
    BY <2>4, <2>9 DEF WorkerOK, Recovering, MovesToFinal
<1>6. CASE SetCompleted(w) \/ MarkCompromised(w) \/ SetAborted(w) \/ DeleteSuccessor(w)
  <2>1. h[w].op \in {"complete", "abort"} /\ h'[w].m = h[w].m /\ h'[w].op = h[w].op /\ UNCHANGED oldOf
    BY <1>6, GotoIs DEF SetCompleted, MarkCompromised, SetAborted, DeleteSuccessor, At
  <2>2. \A v \in Workers : h[v].op # "recover" /\ h'[v].op # "recover"
    BY <1>1, <2>1 DEF RecoverAlone, Alone, OthersSame, Idle
  <2>3. h[w].m \in Suites /\ Started(h[w].m) /\ Final(h[w].m)
    BY <1>2, <1>3, <2>1 DEF WorkerOK, Fits, Moving
  <2> DEFINE m == h[w].m
  <2>a. \/ /\ UNCHANGED suite
           /\ status' = [status EXCEPT ![m] = status'[m]] /\ status'[m] \in Terminals
        \/ /\ UNCHANGED status
           /\ \/ suite' = [suite EXCEPT ![oldOf[m]] = "compromised"]
              \/ suite' = [suite EXCEPT ![m] = "deleted"]
    <3>1. CASE SetCompleted(w)
      BY <2>3, <3>1 DEF SetCompleted, Terminals, TypeInv, TypeOK
    <3>2. CASE SetAborted(w)
      BY <2>3, <3>2 DEF SetAborted, Terminals, TypeInv, TypeOK
    <3>3. CASE MarkCompromised(w)
      BY <3>3 DEF MarkCompromised
    <3>4. CASE DeleteSuccessor(w)
      BY <3>4 DEF DeleteSuccessor
    <3> QED
      BY <1>6, <3>1, <3>2, <3>3, <3>4
  <2>b. m \in Suites /\ oldOf[m] \in Suites /\ Started(m)
    BY <2>3 DEF TypeInv, TypeOK
  <2> HIDE DEF m
  <2>4. \A k \in Suites :
          /\ Started(k)' <=> Started(k)
          /\ status'[k] = "in_progress" => status[k] = "in_progress"
    BY <2>a, <2>b DEF Started, Terminals, TypeInv, TypeOK
  <2>5. \A k \in Suites :
          /\ suite[k] # "none" => suite'[k] # "none"
          /\ suite'[k] = "deleted" => suite[k] = "deleted" \/ k = m
    BY <2>a, <2>b DEF TypeInv, TypeOK
  <2>6. \A k \in Suites : oldOf[k] \in Suites /\ (Final(k)' <=> Final(k))
    BY <2>1, <2>4 DEF Final, TypeInv, TypeOK
  <2>7. \A k \in Suites : Started(k) => oldOf[k] # h[w].m
    BY <2>3 DEF Final
  <2>8. StartedSuites'
    BY <2>1, <2>4, <2>5, <2>6, <2>7 DEF StartedSuites, m
  <2>9. \A v \in Workers : h'[v].op \in Moving => h[v].op \in Moving /\ h'[v].m = h[v].m
    BY <1>1, <2>1 DEF OthersSame
  <2>10. \A v \in Workers : h[v].op \in Moving => h[v].m \in Suites
    BY DEF TypeInv, Fits, Moving
  <2>11. MovesToFinal'
    BY <1>3, <2>4, <2>6, <2>9, <2>10 DEF WorkerOK, MovesToFinal
  <2> QED
    BY <2>2, <2>8, <2>11 DEF Recovering
<1> QED
  BY <1>4, <1>5, <1>6 DEF SuiteStep

LEMMA ProtocolStep ==
    ASSUME TypeInv, ProtocolInv, RecoveryAlone, [Next]_vars
    PROVE  ProtocolInv'
<1>1. ASSUME NEW w \in Workers, WorkerMoves(w) PROVE ProtocolInv'
  BY <1>1, OperationsStep, AloneStep, QuietProtocol, SuiteStepProtocol
     DEF ProtocolInv, RecoverAlone, RecoveryAlone
<1>2. CASE Vault \/ UNCHANGED vars
  <2>1. UNCHANGED <<suite, status, oldOf, h>>
    BY <1>2 DEF Vault, DeleteSecret, PruneVersion, BreakGlass, Free, vars
  <2> QED
    BY <2>1 DEF ProtocolInv, OpsInFlight, RecoverAlone, Alone, StartedSuites, Recovering, MovesToFinal,
       Started, Final
<1> QED
  BY <1>1, <1>2 DEF Next, WorkerMoves

-----------------------------------------------------------------------------
(* How a step changes the rows, the failures and the migrations.            *)

OldEnd(s) == \E m \in Suites : Started(m) /\ oldOf[m] = s

\* On an old suite rows only leave, and none of the dead ones that are kept does.
RowsShrink ==
    \A s \in Suites : OldEnd(s) =>
        /\ \A r \in Records : on'[r] = s => on[r] = s /\ seal'[r] = seal[r]
        /\ DeadOn(s) \subseteq DeadOn(s)'

OpenOrGone(r) == on[r] = 0 \/ Readable(r)
RowsStep == RowsShrink /\ \A r \in Records : OpenOrGone(r) => OpenOrGone(r)'

RowsSame == UNCHANGED <<on, seal>>

LEMMA SameRowsStep ==
    ASSUME RowsSame PROVE RowsStep
  BY DEF RowsSame, RowsStep, RowsShrink, OpenOrGone, DeadOn, Bound, Readable, InWindow

\* The window of a suite only widens when rows leave it.
LEMMA WindowWidens ==
    ASSUME NEW s, NEW r, \A x \in Records : on'[x] = s => on[x] = s, InWindow(r, s)
    PROVE  InWindow(r, s)'
<1> DEFINE Newer == {v \in Versions : v[1] = r[1] /\ v[2] > r[2] /\ on[v] = s}
           NewerNext == {v \in Versions : v[1] = r[1] /\ v[2] > r[2] /\ on'[v] = s}
<1>1. NewerNext \subseteq Newer /\ Newer \subseteq Records
  BY DEF Records
<1>2. /\ Cardinality(Newer) \in Nat /\ Cardinality(NewerNext) \in Nat
      /\ Cardinality(NewerNext) <= Cardinality(Newer)
  BY <1>1, CountIsNatural, FS_Subset
<1>3. r \in Versions => Cardinality(Newer) < Window
  BY DEF InWindow
<1> HIDE DEF Newer, NewerNext
<1>4. r \in Versions => Cardinality(NewerNext) < Window
  BY <1>2, <1>3, SuiteMigrationAssumption
<1> QED
  BY <1>4 DEF InWindow, NewerNext

Rewrites(w) ==
    UpdateSecret(w) \/ CreateSecret(w) \/ LoadHead(w) \/ SnapshotHead(w) \/ WriteKey(w)

LEMMA NoRewrites ==
    ASSUME OpsInFlight, Moves, NEW w \in Workers
    PROVE  ~Rewrites(w)
  BY DEF Rewrites, OpsInFlight, Moves, UpdateSecret, CreateSecret, LoadHead, SnapshotHead,
         WriteKey, At

LEMMA OtherStepsKeepRows ==
    ASSUME NEW w \in Workers, WorkerMoves(w),
           ~CommitRecord(w), ~DropVersionsBeyondWindow(w), ~Rewrites(w)
    PROVE  RowsSame
<1> USE DEF RowsSame
<1>2. CASE Arrive(w) \/ Crash(w) \/ ListenerFails(w)
  BY <1>2 DEF Arrive, RecoverCheck, CommitGuard, FailGuard, CarryGuard, CompleteCheck, AbortCheck,
     SendWrite, SendSync, LoadVersion, Crash, ListenerFails
<1>3. CASE \/ CreateSuccessor(w) \/ OpenMigration(w) \/ LockRequests(w)
           \/ RecordFailure(w) \/ CarryContact(w) \/ CountRows(w)
           \/ AssertNothingUnaccountedFor(w) \/ AssertLossAcknowledged(w)
           \/ SetCompleted(w) \/ MarkCompromised(w) \/ RevokeKeyMaterial(w)
  BY <1>3 DEF CreateSuccessor, OpenMigration, LockRequests, RecordFailure, CarryContact, CountRows,
     AssertNothingUnaccountedFor, AssertLossAcknowledged, SetCompleted, MarkCompromised,
     RevokeKeyMaterial
<1>4. CASE \/ ClearFailureAccounting(w) \/ RepointRequests(w) \/ SweepContacts(w)
           \/ CountCommitted(w) \/ SetAborted(w) \/ DeleteSuccessor(w) \/ UnlockRequests(w)
           \/ AssertNotWriteLocked(w) \/ CreateLink(w) \/ CreateRequest(w)
  BY <1>4 DEF ClearFailureAccounting, RepointRequests, SweepContacts, CountCommitted, SetAborted,
     DeleteSuccessor, UnlockRequests, AssertNotWriteLocked, CreateLink, CreateRequest
<1> QED
  BY <1>2, <1>3, <1>4 DEF WorkerMoves, Step, Rewrites

LEMMA CommitKeepsDead ==
    ASSUME TypeInv, ProtocolInv, PostsInFlight, NEW w \in Workers, CommitRecord(w)
    PROVE  RowsStep
<1>1. PICK m \in Suites, r \in Records :
        /\ m = h[w].m /\ r = h[w].r /\ Final(m) /\ OpenOrGone(r)
  BY DEF CommitRecord, At, TypeInv, Fits, ProtocolInv, MovesToFinal, Moving, PostsInFlight, OpenOrGone
<1>2. CASE on[r] = 0
  BY <1>1, <1>2, SameRowsStep DEF CommitRecord, RowsSame
<1>3. CASE on[r] # 0
  <2>1. on' = [on EXCEPT ![r] = m] /\ seal' = [seal EXCEPT ![r] = m]
    BY <1>1, <1>3 DEF CommitRecord
  <2>2. /\ on'[r] = m /\ seal'[r] = m
        /\ \A x \in Records \ {r} : on'[x] = on[x] /\ seal'[x] = seal[x]
    BY <2>1 DEF TypeInv, TypeOK
  <2>3. ASSUME NEW s \in Suites, OldEnd(s)
        PROVE  /\ \A x \in Records : on'[x] = s => on[x] = s /\ seal'[x] = seal[x]
               /\ DeadOn(s) \subseteq DeadOn(s)'
    <3>1. s # m
      BY <1>1, <2>3 DEF OldEnd, Final
    <3>2. \A x \in Records : on'[x] = s => on[x] = s /\ seal'[x] = seal[x]
      BY <2>2, <3>1
    <3>3. ASSUME NEW x \in DeadOn(s) PROVE x \in DeadOn(s)'
      <4>1. x \in Records /\ on[x] = s /\ ~Readable(x) /\ InWindow(x, s)
        BY <3>3 DEF DeadOn, Bound
      <4>2. x # r
        BY <1>1, <1>3, <4>1 DEF OpenOrGone
      <4>3. InWindow(x, s)'
        BY <3>2, <4>1, WindowWidens
      <4> QED
        BY <2>2, <4>1, <4>2, <4>3 DEF DeadOn, Bound, Readable
    <3> QED
      BY <3>2, <3>3
  <2>4. \A x \in Records : OpenOrGone(x) => OpenOrGone(x)'
    BY <2>2 DEF OpenOrGone, Readable
  <2> QED
    BY <2>3, <2>4 DEF RowsStep, RowsShrink
<1> QED
  BY <1>2, <1>3

LEMMA DropKeepsDead ==
    ASSUME TypeInv, NEW w \in Workers, DropVersionsBeyondWindow(w)
    PROVE  RowsStep
<1> DEFINE gone == BeyondWindow(oldOf[h[w].m])
<1>1. \A x \in Records : IF x \in gone THEN on'[x] = 0 /\ seal'[x] = 0
                         ELSE on'[x] = on[x] /\ seal'[x] = seal[x]
  BY DEF DropVersionsBeyondWindow
<1>2. ASSUME NEW s \in Suites, NEW x \in DeadOn(s) PROVE x \notin gone
  BY <1>2 DEF BeyondWindow, DeadOn, Bound
<1> HIDE DEF gone
<1>3. ASSUME NEW s \in Suites
      PROVE  /\ \A x \in Records : on'[x] = s => on[x] = s /\ seal'[x] = seal[x]
             /\ DeadOn(s) \subseteq DeadOn(s)'
  <2>1. \A x \in Records : on'[x] = s => on[x] = s /\ seal'[x] = seal[x]
    BY <1>1, SuiteNumbers
  <2>2. ASSUME NEW x \in DeadOn(s) PROVE x \in DeadOn(s)'
    <3>1. x \in Records /\ on[x] = s /\ ~Readable(x) /\ InWindow(x, s)
      BY <2>2 DEF DeadOn, Bound
    <3>2. InWindow(x, s)'
      BY <2>1, <3>1, WindowWidens
    <3>3. on'[x] = on[x] /\ seal'[x] = seal[x]
      BY <1>1, <1>2, <2>2, <3>1
    <3> QED
      BY <3>1, <3>2, <3>3 DEF DeadOn, Bound, Readable
  <2> QED
    BY <2>1, <2>2
<1>4. \A x \in Records : OpenOrGone(x) => OpenOrGone(x)'
  BY <1>1 DEF OpenOrGone, Readable
<1> QED
  BY <1>3, <1>4 DEF RowsStep, RowsShrink

LEMMA WorkerKeepsRows ==
    ASSUME TypeInv, ProtocolInv, PostsInFlight, NEW w \in Workers, WorkerMoves(w), ~Rewrites(w)
    PROVE  RowsStep
  BY OtherStepsKeepRows, CommitKeepsDead, DropKeepsDead, SameRowsStep

LEMMA RowsKept ==
    ASSUME TypeInv, ProtocolInv, PostsInFlight, Moves, [Next]_vars
    PROVE  RowsStep
<1>1. ASSUME NEW w \in Workers, WorkerMoves(w) PROVE RowsStep
  BY <1>1, WorkerKeepsRows, NoRewrites DEF ProtocolInv
<1>2. CASE Vault
  <2>1. BreakGlass
    BY <1>2 DEF Vault, DeleteSecret, PruneVersion, Allowed, Moves
  <2> QED
    BY <2>1, SameRowsStep DEF BreakGlass, RowsSame
<1>3. CASE UNCHANGED vars
  BY <1>3, SameRowsStep DEF vars, RowsSame
<1> QED
  BY <1>1, <1>2, <1>3 DEF Next, WorkerMoves

\* Once started, a migration keeps its old end; it completes by SetCompleted.
MigrationsStep ==
    \A m \in Suites :
        /\ Started(m) => Started(m)' /\ oldOf'[m] = oldOf[m]
        /\ Completed(m)' => Completed(m) \/ \E w \in Workers : SetCompleted(w) /\ h[w].m = m

LEMMA MigrationsKept ==
    ASSUME TypeInv, ProtocolInv, [Next]_vars
    PROVE  MigrationsStep
<1>1. ASSUME SuitesSame PROVE MigrationsStep
  BY <1>1 DEF SuitesSame, MigrationsStep, Started, Completed
<1>2. ASSUME NEW w \in Workers, WorkerMoves(w), ~SuiteStep(w) PROVE MigrationsStep
  BY <1>1, <1>2, QuietStep DEF ProtocolInv
<1>3. ASSUME NEW w \in Workers, SuiteStep(w) PROVE MigrationsStep
  <2>1. CASE CreateSuccessor(w) \/ MarkCompromised(w) \/ DeleteSuccessor(w)
    BY <2>1 DEF CreateSuccessor, MarkCompromised, DeleteSuccessor, MigrationsStep, Started, Completed
  <2>2. CASE OpenMigration(w)
    <3>1. PICK m \in Suites : m = h[w].m /\ ~Started(m)
      BY <2>2 DEF OpenMigration, At, TypeInv, Fits, ProtocolInv, Recovering
    <3>2. /\ status'[m] = "in_progress"
          /\ \A k \in Suites \ {m} : status'[k] = status[k] /\ oldOf'[k] = oldOf[k]
      BY <2>2, <3>1 DEF OpenMigration, TypeInv, TypeOK
    <3> QED
      BY <3>1, <3>2 DEF MigrationsStep, Started, Completed
  <2>3. CASE SetCompleted(w) \/ SetAborted(w)
    <3>1. PICK m \in Suites : m = h[w].m /\ Started(m)
      BY <2>3 DEF SetCompleted, SetAborted, At, TypeInv, Fits, ProtocolInv, MovesToFinal, Moving
    <3>2. /\ UNCHANGED oldOf
          /\ \A k \in Suites \ {m} : status'[k] = status[k]
          /\ status'[m] \in Terminals
          /\ SetAborted(w) => status'[m] = "aborted"
      BY <2>3, <3>1 DEF SetCompleted, SetAborted, Terminals, TypeInv, TypeOK
    <3> QED
      BY <2>3, <3>1, <3>2 DEF MigrationsStep, Started, Completed, Terminals
  <2> QED
    BY <1>3, <2>1, <2>2, <2>3 DEF SuiteStep
<1>4. CASE Vault \/ UNCHANGED vars
  BY <1>1, <1>4 DEF SuitesSame, Vault, DeleteSecret, PruneVersion, BreakGlass, Free, vars
<1> QED
  BY <1>2, <1>3, <1>4 DEF Next, WorkerMoves

\* The steps that write the failure table.
WritesFailures(w) == CommitRecord(w) \/ RecordFailure(w) \/ ClearFailureAccounting(w)

LEMMA OthersLeaveFailures ==
    ASSUME NEW w \in Workers, WorkerMoves(w), ~WritesFailures(w)
    PROVE  UNCHANGED failed
<1>1. CASE Arrive(w) \/ Crash(w) \/ ListenerFails(w)
  BY <1>1 DEF Arrive, RecoverCheck, CommitGuard, FailGuard, CarryGuard, CompleteCheck,
     AbortCheck, SendWrite, SendSync, LoadVersion, Crash, ListenerFails
<1>2. CASE \/ CreateSuccessor(w) \/ OpenMigration(w) \/ LockRequests(w)
           \/ CarryContact(w) \/ DropVersionsBeyondWindow(w) \/ CountRows(w)
           \/ AssertNothingUnaccountedFor(w) \/ AssertLossAcknowledged(w)
           \/ SetCompleted(w) \/ MarkCompromised(w) \/ RevokeKeyMaterial(w)
  BY <1>2 DEF CreateSuccessor, OpenMigration, LockRequests, CarryContact,
     DropVersionsBeyondWindow, CountRows, AssertNothingUnaccountedFor, AssertLossAcknowledged,
     SetCompleted, MarkCompromised, RevokeKeyMaterial
<1>3. CASE \/ RepointRequests(w) \/ SweepContacts(w) \/ CountCommitted(w) \/ SetAborted(w)
           \/ DeleteSuccessor(w) \/ UnlockRequests(w) \/ AssertNotWriteLocked(w)
           \/ UpdateSecret(w) \/ CreateSecret(w) \/ CreateLink(w) \/ CreateRequest(w)
           \/ WriteKey(w)
  BY <1>3 DEF RepointRequests, SweepContacts, CountCommitted, SetAborted, DeleteSuccessor,
     UnlockRequests, AssertNotWriteLocked, UpdateSecret, CreateSecret, CreateLink, CreateRequest,
     WriteKey
<1>4. CASE LoadHead(w) \/ SnapshotHead(w)
  BY <1>4 DEF LoadHead, SnapshotHead
<1> QED
  BY <1>1, <1>2, <1>3, <1>4 DEF WorkerMoves, Step, WritesFailures

\* They write the failures of the migration that they are at work on.
LEMMA FailuresWritten ==
    ASSUME TypeInv, ProtocolInv, NEW w \in Workers, WritesFailures(w)
    PROVE  /\ h[w].m \in Suites /\ Started(h[w].m)
           /\ \A k \in Suites \ {h[w].m} : failed'[k] = failed[k]
           /\ \/ failed'[h[w].m] \subseteq failed[h[w].m]
              \/ RecordFailure(w) /\ failed'[h[w].m] = failed[h[w].m] \cup {h[w].r}
<1>1. h[w].m \in Suites /\ Started(h[w].m)
  BY DEF WritesFailures, CommitRecord, RecordFailure, ClearFailureAccounting, At, TypeInv, Fits,
     ProtocolInv, MovesToFinal, Moving
<1> QED
  BY <1>1 DEF WritesFailures, CommitRecord, RecordFailure, ClearFailureAccounting, TypeInv, TypeOK

\* The failure table of a started migration gains only dead rows.
FailuresStep ==
    \A m \in Suites :
        /\ failed'[m] \subseteq failed[m] \cup DeadOn(oldOf[m])
        /\ ~Started(m) => failed'[m] \subseteq failed[m]

LEMMA FailuresKept ==
    ASSUME TypeInv, ProtocolInv, PostsInFlight, [Next]_vars
    PROVE  FailuresStep
<1>1. ASSUME UNCHANGED failed PROVE FailuresStep
  BY <1>1 DEF FailuresStep
<1>2. ASSUME NEW w \in Workers, WritesFailures(w) PROVE FailuresStep
  <2>1. RecordFailure(w) => h[w].r \in DeadOn(oldOf[h[w].m])
    BY DEF RecordFailure, At, PostsInFlight
  <2> QED
    BY <1>2, <2>1, FailuresWritten DEF FailuresStep
<1>3. CASE Vault \/ UNCHANGED vars
  BY <1>1, <1>3 DEF Vault, DeleteSecret, PruneVersion, BreakGlass, Free, vars
<1> QED
  BY <1>1, <1>2, <1>3, OthersLeaveFailures DEF Next, WorkerMoves

-----------------------------------------------------------------------------
(* What the handler that takes the step knows afterwards.                   *)

\* The gate lets a completion pass only when every row left is a dead one: the
\* failures are among the rows, so counts that do not exceed make them the rows.
LEMMA GateCountsRows ==
    ASSUME TypeInv, NEW s, NEW F, F \subseteq Bound(s), NEW left \in [Stores -> Nat],
           \A S \in Stores : /\ Cardinality(Bound(s) \cap S) <= left[S]
                             /\ left[S] <= Cardinality(F \cap S)
    PROVE  Bound(s) \subseteq F
<1> SUFFICES ASSUME NEW r \in Bound(s) PROVE r \in F
  OBVIOUS
<1>1. PICK S \in Stores : r \in S
  BY DEF Bound, Records, Stores
<1>2. F \cap S \subseteq Bound(s) \cap S /\ Bound(s) \cap S \subseteq Records
  BY DEF Bound
<1>3. /\ IsFiniteSet(Bound(s) \cap S)
      /\ Cardinality(Bound(s) \cap S) \in Nat /\ Cardinality(F \cap S) \in Nat
  BY <1>2, CountIsNatural, FS_Subset
<1>4. Cardinality(F \cap S) = Cardinality(Bound(s) \cap S)
  <2>1. Cardinality(F \cap S) <= Cardinality(Bound(s) \cap S)
    BY <1>2, <1>3, FS_Subset
  <2>2. Cardinality(Bound(s) \cap S) <= left[S] /\ left[S] <= Cardinality(F \cap S) /\ left[S] \in Nat
    BY <1>1
  <2> QED
    BY <1>3, <2>1, <2>2
<1>5. F \cap S = Bound(s) \cap S
  BY <1>2, <1>3, <1>4, FS_Subset
<1> QED
  BY <1>1, <1>5

LEMMA GateIsSound ==
    ASSUME TypeInv, NEW s, NEW F, F \subseteq DeadOn(s), NEW left \in [Stores -> Nat],
           \A S \in Stores : /\ Cardinality(Bound(s) \cap S) <= left[S]
                             /\ left[S] <= Cardinality(F \cap S)
    PROVE  AllDead(s)
<1>1. F \subseteq Bound(s)
  BY DEF DeadOn
<1>2. Bound(s) \subseteq F
  BY <1>1, GateCountsRows
<1> QED
  BY <1>2 DEF AllDead, DeadOn

\* A post that has passed its guard, and a completion, carry what they read.
PostOK(w) ==
    /\ h[w].op \in {"commit", "fail"} => h[w].at = "write"
    /\ h[w].op = "commit" => OpenOrGone(h[w].r)
    /\ h[w].op = "fail" => h[w].r \in DeadOn(oldOf[h[w].m])
CountOK(w) ==
    h[w].op = "complete" =>
        /\ h[w].at = "gate" =>
            \A S \in Stores : Cardinality(Bound(oldOf[h[w].m]) \cap S) <= h[w].left[S]
        /\ h[w].at \in {"acknowledge", "status"} => AllDead(oldOf[h[w].m])

LEMMA ArriveCarries ==
    ASSUME TypeInv, NEW w \in Workers, Arrive(w)
    PROVE  PostOK(w)' /\ CountOK(w)'
<1>1. RowsSame /\ UNCHANGED oldOf
  BY DEF Arrive, RecoverCheck, CommitGuard, FailGuard, CarryGuard, CompleteCheck,
     AbortCheck, SendWrite, SendSync, LoadVersion, RowsSame
<1>3. CASE CommitGuard(w)
  BY <1>1, <1>3, BeginIs DEF CommitGuard, Guarded, PostOK, CountOK, OpenOrGone, Readable, RowsSame
<1>4. CASE FailGuard(w)
  <2>1. PICK m \in Suites, r \in Records : Guarded(m, r) /\ Reported(r) /\ Begin(w, "fail", "write", m, r, 0)
    BY <1>4 DEF FailGuard
  <2>2. r \in DeadOn(oldOf[m])
    BY <2>1 DEF Guarded, Reported, DeadOn, Bound
  <2>3. r \in DeadOn(oldOf[m])'
    BY <1>1, <2>2 DEF RowsSame, DeadOn, Bound, Readable, InWindow
  <2>4. h'[w].op = "fail" /\ h'[w].at = "write" /\ h'[w].r = r /\ h'[w].m = m
    BY <2>1, BeginIs
  <2> QED
    BY <1>1, <2>3, <2>4 DEF PostOK, CountOK
<1>5. CASE \/ RecoverCheck(w) \/ CarryGuard(w) \/ CompleteCheck(w) \/ AbortCheck(w) \/ SendSync(w)
           \/ LoadVersion(w)
  BY <1>5, BeginIs DEF RecoverCheck, CarryGuard, CompleteCheck, AbortCheck, SendSync, LoadVersion,
     PostOK, CountOK
<1>6. CASE SendWrite(w)
  BY <1>6, BeginIs DEF SendWrite, PostOK, CountOK
<1> QED
  BY <1>3, <1>4, <1>5, <1>6 DEF Arrive

LEMMA StepCarries ==
    ASSUME TypeInv, NEW w \in Workers, Step(w) \/ Crash(w) \/ ListenerFails(w),
           PostOK(w), CountOK(w),
           h[w].op = "complete" => failed[h[w].m] \subseteq DeadOn(oldOf[h[w].m])
    PROVE  PostOK(w)' /\ CountOK(w)'
<1> USE DEF PostOK, CountOK
<1>1. CASE \/ LockRequests(w) \/ CommitRecord(w) \/ RecordFailure(w) \/ CarryContact(w)
           \/ SweepContacts(w) \/ UnlockRequests(w) \/ UpdateSecret(w) \/ CreateSecret(w)
           \/ CreateLink(w) \/ CreateRequest(w) \/ WriteKey(w) \/ Crash(w)
  <2>1. h'[w] = Idle
    BY <1>1, EndIs DEF LockRequests, CommitRecord, RecordFailure, CarryContact, SweepContacts,
       UnlockRequests, UpdateSecret, CreateSecret, CreateLink, CreateRequest, WriteKey, Crash
  <2> QED
    BY <2>1 DEF Idle
<1>2. CASE \/ OpenMigration(w) \/ DropVersionsBeyondWindow(w) \/ SetCompleted(w) \/ MarkCompromised(w)
           \/ RevokeKeyMaterial(w) \/ ClearFailureAccounting(w) \/ RepointRequests(w)
           \/ SetAborted(w) \/ DeleteSuccessor(w)
  BY <1>2, GotoIs DEF OpenMigration, DropVersionsBeyondWindow, SetCompleted, MarkCompromised,
     RevokeKeyMaterial, ClearFailureAccounting, RepointRequests, SetAborted, DeleteSuccessor, At
<1>3. CASE CreateSuccessor(w)
  BY <1>3 DEF CreateSuccessor, At, TypeInv, TypeOK, Handlers
<1>4. CASE CountRows(w)
  <2>1. PICK m \in Suites : m = h[w].m
    BY <1>4 DEF CountRows, At, TypeInv, Fits
  <2>2. /\ h'[w].op = "complete" /\ h'[w].at = "gate" /\ h'[w].m = m
        /\ h'[w].left = RowsLeft(m)
        /\ RowsSame /\ UNCHANGED oldOf
    BY <1>4, <2>1 DEF CountRows, At, RowsSame, TypeInv, TypeOK, Handlers
  <2>3. \A S \in Stores : /\ RowsLeft(m)[S] = Cardinality(Bound(oldOf[m]) \cap S)
                          /\ Cardinality(Bound(oldOf[m]) \cap S) \in Nat
    BY CountIsNatural DEF RowsLeft, Bound
  <2>4. Bound(oldOf[m])' = Bound(oldOf[m])
    BY <2>2 DEF Bound, RowsSame
  <2> QED
    BY <2>2, <2>3, <2>4
<1>5. CASE AssertNothingUnaccountedFor(w)
  <2>1. PICK m \in Suites : m = h[w].m
    BY <1>5 DEF AssertNothingUnaccountedFor, At, TypeInv, Fits
  <2>2. CASE End(w)
    BY <2>2, EndIs DEF Idle
  <2>3. CASE ~End(w)
    <3>1. /\ h[w].op = "complete" /\ h[w].at = "gate"
          /\ \A S \in Stores : h[w].left[S] <= Cardinality(failed[m] \cap S)
          /\ Goto(w, "acknowledge") /\ RowsSame /\ UNCHANGED oldOf
      BY <1>5, <2>1, <2>3 DEF AssertNothingUnaccountedFor, At, RowsSame
    <3>2. /\ failed[m] \subseteq DeadOn(oldOf[m])
          /\ h[w].left \in [Stores -> Nat]
          /\ \A S \in Stores : Cardinality(Bound(oldOf[m]) \cap S) <= h[w].left[S]
      BY <2>1, <3>1 DEF TypeInv, TypeOK, Handlers
    <3>3. AllDead(oldOf[m])
      BY <3>1, <3>2, GateIsSound
    <3>4. AllDead(oldOf[m])'
      BY <3>1, <3>3 DEF AllDead, Bound, Readable, RowsSame
    <3> QED
      BY <2>1, <3>1, <3>4, GotoIs
  <2> QED
    BY <2>2, <2>3
<1>6. CASE AssertLossAcknowledged(w)
  <2>1. PICK m \in Suites : m = h[w].m
    BY <1>6 DEF AssertLossAcknowledged, At, TypeInv, Fits
  <2>2. CASE End(w)
    BY <2>2, EndIs DEF Idle
  <2>3. CASE ~End(w)
    <3>1. /\ h'[w].op = "complete" /\ h'[w].at = "status" /\ h'[w].m = m
          /\ RowsSame /\ UNCHANGED oldOf
      BY <1>6, <2>1, <2>3 DEF AssertLossAcknowledged, At, RowsSame, TypeInv, TypeOK, Handlers
    <3>2. AllDead(oldOf[m])
      BY <1>6, <2>1 DEF AssertLossAcknowledged, At
    <3>3. AllDead(oldOf[m])'
      BY <3>1, <3>2 DEF AllDead, Bound, Readable, RowsSame
    <3> QED
      BY <3>1, <3>3
  <2> QED
    BY <2>2, <2>3
<1>7. CASE CountCommitted(w) \/ AssertNotWriteLocked(w)
  BY <1>7, GotoIs, EndIs DEF CountCommitted, AssertNotWriteLocked, At, LockedWrites, Idle
<1>8. CASE ListenerFails(w)
  <2>1. CASE End(w)
    BY <2>1, EndIs DEF Idle
  <2>2. CASE ~End(w)
    <3>1. h[w].at = "repoint" /\ Goto(w, "sweep")
      BY <1>8, <2>2 DEF ListenerFails
    <3>2. h[w].op \notin {"commit", "fail"}
      BY <3>1
    <3> QED
      BY <3>1, <3>2, GotoIs
  <2> QED
    BY <2>1, <2>2
<1>9. CASE LoadHead(w) \/ SnapshotHead(w)
  BY <1>9, RestoreSteps DEF Idle
<1> QED
  BY <1>1, <1>2, <1>3, <1>4, <1>5, <1>6, <1>7, <1>8, <1>9 DEF Step

LEMMA OthersCarry ==
    ASSUME TypeInv, MovesToFinal, RowsStep, MigrationsStep, NEW v \in Workers, h'[v] = h[v],
           PostOK(v), CountOK(v)
    PROVE  PostOK(v)' /\ CountOK(v)'
<1>1. CASE h[v].op = "commit"
  <2>1. h[v].r \in Records /\ OpenOrGone(h[v].r)
    BY <1>1 DEF TypeInv, Fits, PostOK
  <2>2. PICK r \in Records : r = h[v].r
    BY <2>1
  <2>3. OpenOrGone(r)'
    BY <2>1, <2>2 DEF RowsStep
  <2> QED
    BY <1>1, <2>2, <2>3 DEF PostOK, CountOK
<1>2. CASE h[v].op \in {"fail", "complete"}
  <2>1. PICK m \in Suites, s \in Suites : m = h[v].m /\ s = oldOf[m] /\ Started(m)
    BY <1>2 DEF TypeInv, TypeOK, Fits, MovesToFinal, Moving
  <2>2. oldOf'[h'[v].m] = s
    BY <2>1 DEF MigrationsStep
  <2>3. /\ \A x \in Records : on'[x] = s => on[x] = s /\ seal'[x] = seal[x]
        /\ DeadOn(s) \subseteq DeadOn(s)'
    BY <2>1 DEF RowsStep, RowsShrink, OldEnd
  <2>4. CASE h[v].op = "fail"
    <3>1. h[v].r \in DeadOn(s)
      BY <2>1, <2>4 DEF PostOK
    <3>2. h'[v].r \in DeadOn(s)'
      BY <2>3, <3>1
    <3> QED
      BY <2>2, <2>4, <3>2 DEF PostOK, CountOK
  <2>5. CASE h[v].op = "complete"
    <3>1. AllDead(s) => AllDead(s)'
      BY <2>3 DEF AllDead, Bound, Readable
    <3>2. h[v].at \in {"acknowledge", "status"} => AllDead(s)'
      BY <2>1, <2>5, <3>1 DEF CountOK
    <3>3. ASSUME NEW S \in Stores, h[v].at = "gate"
          PROVE  Cardinality(Bound(s)' \cap S) <= h[v].left[S]
      <4>1. Cardinality(Bound(s) \cap S) <= h[v].left[S] /\ h[v].left[S] \in Nat
        BY <2>1, <2>5, <3>3 DEF CountOK, TypeInv, TypeOK, Handlers
      <4>2. Bound(s)' \cap S \subseteq Bound(s) \cap S /\ Bound(s) \cap S \subseteq Records
        BY <2>3 DEF Bound
      <4>3. /\ Cardinality(Bound(s)' \cap S) <= Cardinality(Bound(s) \cap S)
            /\ Cardinality(Bound(s)' \cap S) \in Nat /\ Cardinality(Bound(s) \cap S) \in Nat
        BY <4>2, CountIsNatural, FS_Subset
      <4> QED
        BY <4>1, <4>3
    <3> QED
      BY <2>2, <2>5, <3>2, <3>3 DEF PostOK, CountOK
  <2> QED
    BY <1>2, <2>4, <2>5
<1> QED
  BY <1>1, <1>2 DEF PostOK, CountOK

-----------------------------------------------------------------------------
(* The invariant, and the theorem.                                          *)

SafetyInv == TypeInv /\ ProtocolInv /\ DataInv

LEMMA CarriedData ==
    (\A w \in Workers : PostOK(w) /\ CountOK(w)) <=> PostsAtWrite /\ PostsInFlight /\ CountsHold
  BY DEF PostOK, CountOK, PostsAtWrite, PostsInFlight, CountsHold, OpenOrGone

LEMMA FailuresStayDead ==
    ASSUME TypeInv, FailuresDead, RowsStep, MigrationsStep, FailuresStep
    PROVE  FailuresDead'
<1> SUFFICES ASSUME NEW m \in Suites
             PROVE  failed'[m] \subseteq DeadOn(oldOf[m])' /\ (~Started(m)' => failed'[m] = {})
  BY DEF FailuresDead
<1>1. CASE ~Started(m)
  BY <1>1 DEF FailuresDead, FailuresStep
<1>2. CASE Started(m)
  <2>1. PICK s \in Suites : s = oldOf[m] /\ OldEnd(s)
    BY <1>2 DEF OldEnd, TypeInv, TypeOK
  <2>2. oldOf'[m] = s /\ Started(m)'
    BY <1>2, <2>1 DEF MigrationsStep
  <2>3. failed'[m] \subseteq DeadOn(s)'
    BY <2>1 DEF FailuresDead, FailuresStep, RowsStep, RowsShrink
  <2> QED
    BY <2>2, <2>3
<1> QED
  BY <1>1, <1>2

LEMMA NoLossStep ==
    ASSUME TypeInv, MovesToFinal, CountsHold, NoSilentLoss, RowsStep, MigrationsStep
    PROVE  NoSilentLoss'
<1> SUFFICES ASSUME NEW m \in Suites, Completed(m)'
             PROVE  \A r \in Bound(oldOf[m])' : ~Readable(r)'
  BY DEF NoSilentLoss
<1>1. Started(m) /\ AllDead(oldOf[m])
  <2>1. CASE Completed(m)
    BY <2>1 DEF NoSilentLoss, AllDead, Completed, Started
  <2>2. ASSUME NEW w \in Workers, SetCompleted(w), h[w].m = m PROVE Started(m) /\ AllDead(oldOf[m])
    BY <2>2 DEF SetCompleted, At, CountsHold, MovesToFinal, Moving
  <2> QED
    BY <2>1, <2>2 DEF MigrationsStep
<1>2. PICK s \in Suites : s = oldOf[m] /\ s = oldOf'[m] /\ OldEnd(s)
  BY <1>1 DEF MigrationsStep, OldEnd, TypeInv, TypeOK
<1>3. \A r \in Records : on'[r] = s => on[r] = s /\ seal'[r] = seal[r]
  BY <1>2 DEF RowsStep, RowsShrink
<1> QED
  BY <1>1, <1>2, <1>3 DEF AllDead, Bound, Readable

LEMMA DataStep ==
    ASSUME SafetyInv, Moves, [Next]_vars
    PROVE  DataInv'
<1> USE DEF SafetyInv
<1>1. RowsStep /\ MigrationsStep /\ FailuresStep
  BY RowsKept, MigrationsKept, FailuresKept DEF DataInv
<1>3. \A v \in Workers : PostOK(v) /\ CountOK(v) /\ Fits(h[v])
  BY CarriedData DEF DataInv, TypeInv
<1>2. ASSUME NEW w \in Workers, WorkerMoves(w) PROVE OthersSame(w) /\ PostOK(w)' /\ CountOK(w)'
  <2>1. OthersSame(w)
    BY <1>2, OperationsStep DEF ProtocolInv
  <2>2. h[w].op = "complete" => failed[h[w].m] \subseteq DeadOn(oldOf[h[w].m])
    BY <1>3 DEF Fits, DataInv, FailuresDead
  <2> QED
    BY <1>2, <1>3, <2>1, <2>2, ArriveCarries, StepCarries DEF WorkerMoves
<1>4. \A v \in Workers : PostOK(v)' /\ CountOK(v)'
  <2>1. ASSUME NEW w \in Workers, WorkerMoves(w), NEW v \in Workers PROVE PostOK(v)' /\ CountOK(v)'
    BY <1>1, <1>2, <1>3, <2>1, OthersCarry DEF OthersSame, ProtocolInv
  <2>2. ASSUME Vault \/ UNCHANGED vars, NEW v \in Workers PROVE PostOK(v)' /\ CountOK(v)'
    <3>1. UNCHANGED h
      BY <2>2 DEF Vault, DeleteSecret, PruneVersion, BreakGlass, Free, vars
    <3> QED
      BY <1>1, <1>3, <3>1, OthersCarry DEF ProtocolInv
  <2> QED
    BY <2>1, <2>2 DEF Next, WorkerMoves
<1>5. FailuresDead' /\ NoSilentLoss'
  BY <1>1, FailuresStayDead, NoLossStep DEF DataInv, ProtocolInv
<1> QED
  BY <1>4, <1>5, CarriedData DEF DataInv, PostOK, CountOK, PostsAtWrite, PostsInFlight, CountsHold, OpenOrGone

LEMMA InitSafe == Init => SafetyInv
<1> SUFFICES ASSUME Init PROVE SafetyInv
  OBVIOUS
<1>1. TypeInv
  BY InitTypes
<1>2. \A w \in Workers : h[w] = Idle
  BY DEF Init
<1>3. \A m \in Suites : status[m] = "none" /\ failed[m] = {}
  BY DEF Init
<1>4. ProtocolInv
  BY <1>2, <1>3 DEF ProtocolInv, OpsInFlight, RecoverAlone, Alone, StartedSuites, Recovering, MovesToFinal,
     Started, Idle, Moving
<1>5. DataInv
  BY <1>2, <1>3 DEF DataInv, FailuresDead, PostsAtWrite, PostsInFlight, CountsHold, NoSilentLoss,
     Completed, Idle
<1> QED
  BY <1>1, <1>4, <1>5 DEF SafetyInv

LEMMA SafetyStep ==
    ASSUME SafetyInv, Moves, RecoveryAlone, [Next]_vars
    PROVE  SafetyInv'
<1>1. TypeInv'
  BY NextKeepsTypes DEF SafetyInv
<1>2. ProtocolInv'
  BY ProtocolStep DEF SafetyInv
<1>3. DataInv'
  BY DataStep
<1> QED
  BY <1>1, <1>2, <1>3 DEF SafetyInv

\* Whatever commits, failure reports, completions, aborts and crashes overlap,
\* a completed migration leaves no record behind that the old key could open.
THEOREM NoReadableRecordLost ==
    ASSUME Moves, RecoveryAlone
    PROVE  Spec => []NoSilentLoss
<1>1. Init => SafetyInv
  BY InitSafe
<1>2. SafetyInv /\ [Next]_vars => SafetyInv'
  BY SafetyStep
<1>3. SafetyInv => NoSilentLoss
  BY DEF SafetyInv, DataInv
<1> QED
  BY <1>1, <1>2, <1>3, PTL DEF Spec

\* The rows that countOutstanding subtracts from are the rows it counted: every
\* failure of a running migration is still bound to the old suite.
THEOREM FailuresStayOnOldSuite ==
    ASSUME Moves, RecoveryAlone
    PROVE  Spec => []FailuresOnOldSuite
<1>1. Init => SafetyInv
  BY InitSafe
<1>2. SafetyInv /\ [Next]_vars => SafetyInv'
  BY SafetyStep
<1>3. SafetyInv => FailuresOnOldSuite
  BY DEF SafetyInv, DataInv, FailuresDead, FailuresOnOldSuite, DeadOn
<1> QED
  BY <1>1, <1>2, <1>3, PTL DEF Spec

=============================================================================
