------------------------- MODULE MigrationRunProofs -------------------------
(***************************************************************************)
(* The browser's migration run, for every number of secrets and versions,   *)
(* every page size, window and drop size, and any number of failed posts,   *)
(* lost responses and closed tabs: a completion leaves behind exactly the   *)
(* unreadable records that the owner accepted to lose, and the server's     *)
(* drop takes no head and none of the newest versions of a secret.          *)
(*                                                                         *)
(* Both rest on two facts.  What is newest among the rows of a suite stays  *)
(* newest as rows leave it, so no record that was posted or reported is     *)
(* ever dropped.  And the gate compares only cardinalities, but the failure *)
(* table holds rows of the old suite and nothing else: equal counts are     *)
(* then equal sets.                                                         *)
(***************************************************************************)
EXTENDS MigrationRun, FiniteSetTheorems, TLAPS

-----------------------------------------------------------------------------
(* The records are finitely many, and newest is monotone.                   *)

LEMMA RecordsFinite ==
    IsFiniteSet(Records) /\ Cardinality(Records) \in Nat
<1> USE MigrationRunAssumption
<1>1. IsFiniteSet(1..NumSecrets) /\ IsFiniteSet(1..NumVersions)
  BY FS_Interval
<1>2. IsFiniteSet({0})
  BY FS_Singleton
<1>3. IsFiniteSet(Heads)
  BY <1>1, <1>2, FS_Product DEF Heads
<1>4. IsFiniteSet(Versions)
  BY <1>1, FS_Product DEF Versions
<1>5. IsFiniteSet(Records)
  BY <1>3, <1>4, FS_Union DEF Records
<1> QED
  BY <1>5, FS_CardinalityType

LEMMA SubsetCounts ==
    ASSUME NEW B \in SUBSET Records, NEW A \in SUBSET B
    PROVE  /\ IsFiniteSet(A) /\ Cardinality(A) \in Nat /\ Cardinality(B) \in Nat
           /\ Cardinality(A) <= Cardinality(B)
           /\ Cardinality(B) <= Cardinality(A) => A = B
<1>1. IsFiniteSet(B)
  BY RecordsFinite, FS_Subset
<1>2. IsFiniteSet(A)
  BY <1>1, FS_Subset
<1>3. Cardinality(A) \in Nat /\ Cardinality(B) \in Nat
  BY <1>1, <1>2, FS_CardinalityType
<1>4. Cardinality(A) <= Cardinality(B) /\ (Cardinality(B) = Cardinality(A) => B = A)
  BY <1>1, FS_Subset
<1> QED
  BY <1>2, <1>3, <1>4

\* What is newest among the rows of a set is newest among fewer rows.
LEMMA NewestShrinks ==
    ASSUME NEW B \in SUBSET Records, NEW A \in SUBSET B, NEW v \in Records, Newest(v, B)
    PROVE  Newest(v, A)
<1> DEFINE newer(set) == {x \in set \cap Versions : x[1] = v[1] /\ x[2] > v[2]}
<1>1. newer(B) \in SUBSET Records
  OBVIOUS
<1>2. newer(A) \in SUBSET newer(B)
  OBVIOUS
<1>3. /\ Cardinality(newer(A)) <= Cardinality(newer(B))
      /\ Cardinality(newer(A)) \in Nat /\ Cardinality(newer(B)) \in Nat
  <2> HIDE DEF newer
  <2> QED
    BY <1>1, <1>2, SubsetCounts
<1>4. Cardinality(newer(B)) < Window
  BY DEF Newest
<1>5. Cardinality(newer(A)) < Window
  <2> HIDE DEF newer
  <2> QED
    BY <1>3, <1>4, MigrationRunAssumption
<1> QED
  BY <1>5 DEF Newest

-----------------------------------------------------------------------------
(* The invariants.                                                          *)

\* A row that is on a page or in the failure table is one that a drop spares.
Spared(r) == r \in Versions => Newest(r, old)

WorkInv ==
    /\ page \subseteq old /\ (phase # "post" => page = {})
    /\ failed \subseteq old \cap dead
    /\ \A r \in page \cup failed : Spared(r)

AskInv ==
    /\ phase = "ask" => required = Cardinality(failed)
    /\ status = "completed" => phase = "done"

RunInv == WorkInv /\ AskInv /\ LossAccepted /\ WindowKept

LEMMA InitInv == Init => TypeOK /\ RunInv
<1> SUFFICES ASSUME Init PROVE TypeOK /\ RunInv
  OBVIOUS
<1>1. 0 \in 0..Cardinality(Records) /\ 0 \in 0..MaxFaults
  BY RecordsFinite, MigrationRunAssumption
<1>2. TypeOK
  BY <1>1 DEF Init, TypeOK
<1>3. RunInv
  BY DEF Init, RunInv, WorkInv, AskInv, LossAccepted, WindowKept
<1> QED
  BY <1>2, <1>3

-----------------------------------------------------------------------------
(* The steps.                                                               *)

LEMMA FailedCounts ==
    ASSUME TypeOK
    PROVE  Cardinality(failed) \in 0..Cardinality(Records)
  BY SubsetCounts DEF TypeOK

\* The server keeps what it was told about: the drop spares every failure.
LEMMA KeptFacts ==
    ASSUME TypeOK, WorkInv
    PROVE  Kept \subseteq old /\ failed \subseteq Kept
  BY DEF Kept, Dropped, WorkInv, Spared, TypeOK

\* Counts that agree store by store, over a subset, are equal sets.
LEMMA AccountedMeansFailed ==
    ASSUME TypeOK, WorkInv, ~Unaccounted(Kept)
    PROVE  Kept = failed
<1>1. Kept \subseteq Records /\ failed \subseteq Kept
  BY KeptFacts DEF TypeOK
<1>2. ASSUME NEW S \in Stores PROVE Kept \cap S = failed \cap S
  <2>1. Cardinality(failed \cap S) \in Nat /\ Cardinality(Kept \cap S) \in Nat
    BY <1>1, SubsetCounts
  <2>0. ~(Cardinality(Kept \cap S) > Cardinality(failed \cap S))
    BY DEF Unaccounted
  <2>2. Cardinality(Kept \cap S) <= Cardinality(failed \cap S)
    BY <2>0, <2>1
  <2>3. failed \cap S \in SUBSET (Kept \cap S) /\ Kept \cap S \in SUBSET Records
    BY <1>1
  <2> QED
    BY <2>2, <2>3, SubsetCounts
<1>3. Kept \cap Heads = failed \cap Heads /\ Kept \cap Versions = failed \cap Versions
  BY <1>2 DEF Stores
<1> QED
  BY <1>1, <1>3 DEF Records

LEMMA CompleteStep ==
    ASSUME TypeOK, RunInv, phase \in {"finalise", "ask"},
           NEW n \in 0..Cardinality(Records), n = 0 \/ n = Cardinality(failed),
           Complete(n, "ask"), accepted' = n
    PROVE  TypeOK' /\ RunInv'
<1> DEFINE lost == Cardinality(failed)
<1>1. /\ old' = Kept /\ Kept \subseteq old /\ failed \subseteq Kept
      /\ UNCHANGED <<new, dead, failed, page, committed, reported, faults>>
  BY KeptFacts DEF Complete, RunInv, passVars
<1>2. lost \in 0..Cardinality(Records) /\ 0 \in 0..Cardinality(Records)
  BY FailedCounts, RecordsFinite
<1>3. \/ UNCHANGED status /\ phase' = "halted" /\ required' = 0
      \/ UNCHANGED status /\ phase' = "ask" /\ required' = lost
      \/ /\ status' = "completed" /\ phase' = "done" /\ required' = 0
         /\ ~Unaccounted(Kept) /\ lost \in {0, n}
  BY DEF Complete
<1>4. TypeOK'
  BY <1>1, <1>2, <1>3 DEF TypeOK
<1>5. page = {} /\ status # "completed"
  BY DEF RunInv, WorkInv, AskInv
<1>6. WorkInv'
  <2>1. ASSUME NEW r \in failed PROVE Spared(r)'
    <3>1. r \in Records /\ Spared(r)
      BY DEF TypeOK, RunInv, WorkInv
    <3>2. Kept \in SUBSET old /\ old \in SUBSET Records
      BY <1>1 DEF TypeOK
    <3> QED
      BY <1>1, <3>1, <3>2, NewestShrinks DEF Spared
  <2> QED
    BY <1>1, <1>5, <2>1 DEF RunInv, WorkInv
<1>7. AskInv'
  BY <1>1, <1>3, <1>5 DEF AskInv
<1>8. LossAccepted'
  <2> SUFFICES ASSUME status' = "completed" PROVE old' \subseteq dead' /\ Cardinality(old') = accepted'
    BY DEF LossAccepted
  <2>1. ~Unaccounted(Kept) /\ lost \in {0, n}
    BY <1>3, <1>5
  <2>2. Kept = failed
    BY <2>1, AccountedMeansFailed DEF RunInv
  <2>3. lost = n
    BY <2>1, <1>2
  <2> QED
    BY <1>1, <2>2, <2>3 DEF RunInv, WorkInv
<1>9. WindowKept'
  <2> SUFFICES ASSUME NEW r \in Records, r \in Versions => Newest(r, Records)
               PROVE  r \in old' \cup new'
    BY DEF WindowKept
  <2>1. r \in old \cup new
    BY DEF RunInv, WindowKept
  <2>2. r \in Versions => Newest(r, old)
    BY NewestShrinks DEF TypeOK
  <2> QED
    BY <1>1, <2>1, <2>2 DEF Kept, Dropped
<1> QED
  BY <1>4, <1>6, <1>7, <1>8, <1>9 DEF RunInv

LEMMA RunStep ==
    ASSUME TypeOK, RunInv, [Next]_vars
    PROVE  TypeOK' /\ RunInv'
<1> USE DEF RunInv, serverVars, passVars, askVars
<1>1. CASE UNCHANGED vars
  BY <1>1 DEF vars, TypeOK, WorkInv, AskInv, LossAccepted, WindowKept, Spared
<1>2. CASE GetWork
  <2>1. UNCHANGED <<old, new, dead, failed, status, required, accepted, faults>>
    BY <1>2 DEF GetWork
  <2>2. phase = "list" /\ phase' \in {"finalise", "post"} /\ (phase' # "post" => page' = {})
    BY <1>2 DEF GetWork
  <2>3. page' = Work /\ committed' = FALSE /\ reported' = FALSE
    BY <1>2 DEF GetWork
  <2>4. Work \subseteq old /\ \A r \in Work : Spared(r)
    <3>1. Heads \cap Versions = {}
      BY MigrationRunAssumption DEF Heads, Versions
    <3> QED
      BY <3>1 DEF Work, FirstPage, Spared
  <2>5. TypeOK'
    BY <2>1, <2>2, <2>3, <2>4 DEF TypeOK
  <2> QED
    BY <2>1, <2>2, <2>3, <2>4, <2>5 DEF WorkInv, AskInv, LossAccepted, WindowKept, Spared
<1>3. ASSUME NEW r \in Records, PostCommit(r) \/ PostFailure(r) \/ PostLost(r)
      PROVE  TypeOK' /\ RunInv'
  <2>1. /\ phase = "post" /\ r \in page /\ page' = page \ {r}
        /\ UNCHANGED <<dead, status, phase, required, accepted>>
    BY <1>3 DEF PostCommit, PostFailure, PostLost
  <2>2. \/ r \notin dead /\ Commit(r)
        \/ r \in dead /\ failed' = failed \cup {r} /\ UNCHANGED <<old, new>>
        \/ UNCHANGED <<old, new, failed>>
    BY <1>3 DEF PostCommit, PostFailure, PostLost
  <2>3. committed' \in BOOLEAN /\ reported' \in BOOLEAN
    BY <1>3 DEF PostCommit, PostFailure, PostLost, TypeOK
  <2>4. faults' \in 0..MaxFaults
    BY <1>3, MigrationRunAssumption DEF PostCommit, PostFailure, PostLost, TypeOK
  <2>5. r \in old /\ Spared(r)
    BY <2>1 DEF WorkInv
  <2>6. /\ old' \in SUBSET old /\ old \in SUBSET Records
        /\ old' \cup new' = old \cup new /\ old' \cap new' = {}
    BY <2>2, <2>5 DEF Commit, TypeOK
  <2>7. page' \subseteq old' /\ failed' \subseteq old' \cap dead' /\ failed' \subseteq failed \cup {r}
    BY <2>1, <2>2, <2>5 DEF Commit, WorkInv
  <2>8. TypeOK'
    BY <2>1, <2>3, <2>4, <2>6, <2>7 DEF TypeOK
  <2>9. \A x \in page' \cup failed' : Spared(x)'
    <3> SUFFICES ASSUME NEW x \in page' \cup failed' PROVE Spared(x)'
      OBVIOUS
    <3>1. x \in Records /\ Spared(x)
      BY <2>1, <2>5, <2>7 DEF WorkInv, TypeOK
    <3> QED
      BY <2>6, <3>1, NewestShrinks DEF Spared
  <2>10. status' # "completed" /\ phase' = "post"
    BY <2>1 DEF AskInv
  <2> QED
    BY <2>6, <2>7, <2>8, <2>9, <2>10 DEF WorkInv, AskInv, LossAccepted, WindowKept
<1>4. CASE EndPass \/ CloseTab \/ Resume
  <2>1. /\ UNCHANGED <<old, new, dead, failed, status, required, accepted>>
        /\ phase \in {"list", "post", "finalise", "ask", "halted"}
        /\ page' = page \/ page' = {}
        /\ phase' \in {"list", "finalise", "halted"} /\ page' = {}
        /\ UNCHANGED <<committed, reported>>
    BY <1>4 DEF EndPass, CloseTab, Resume, WorkInv
  <2>2. faults' \in 0..MaxFaults
    BY <1>4, MigrationRunAssumption DEF EndPass, CloseTab, Resume, TypeOK
  <2>3. TypeOK'
    BY <2>1, <2>2 DEF TypeOK
  <2> QED
    BY <2>1, <2>3 DEF WorkInv, AskInv, LossAccepted, WindowKept, Spared
<1>5. CASE Finalise
  BY <1>5, CompleteStep, RecordsFinite DEF Finalise
<1>6. CASE AcceptLosses
  <2>1. required \in 0..Cardinality(Records) /\ required = Cardinality(failed)
    BY <1>6 DEF AcceptLosses, TypeOK, AskInv
  <2> QED
    BY <1>6, <2>1, CompleteStep DEF AcceptLosses
<1>7. CASE Abort
  <2>1. /\ UNCHANGED <<old, new, dead, page, committed, reported, required, accepted, faults>>
        /\ phase \in {"halted", "ask"} /\ status' = "aborted" /\ phase' = "done" /\ failed' = {}
    BY <1>7 DEF Abort
  <2>2. TypeOK'
    BY <2>1 DEF TypeOK
  <2> QED
    BY <2>1, <2>2 DEF WorkInv, AskInv, LossAccepted, WindowKept, Spared
<1> QED
  BY <1>1, <1>2, <1>3, <1>4, <1>5, <1>6, <1>7 DEF Next, Client

-----------------------------------------------------------------------------
(* The theorems.                                                            *)

\* Every variable has its type and no record is ever on both suites: a commit
\* moves its row in one transaction (runMigration, completeMigration).
THEOREM TypeCorrect == Spec => []TypeOK
<1>1. TypeOK /\ RunInv /\ [Next]_vars => TypeOK' /\ RunInv'
  BY RunStep
<1> QED
  BY <1>1, InitInv, PTL DEF Spec

\* When a run completes, what it leaves on the old suite is unreadable, and is
\* exactly as many records as the owner accepted to lose (finaliseMigration,
\* acceptMigrationLosses, assertNothingUnaccountedFor).
THEOREM LossIsAccepted == Spec => []LossAccepted
<1>1. TypeOK /\ RunInv /\ [Next]_vars => TypeOK' /\ RunInv'
  BY RunStep
<1>2. RunInv => LossAccepted
  BY DEF RunInv
<1> QED
  BY <1>1, <1>2, InitInv, PTL DEF Spec

\* The drop of old versions never takes a head or one of the newest Window
\* versions of a secret, however often it is repeated (dropVersionsBeyondWindow).
THEOREM WindowIsKept == Spec => []WindowKept
<1>1. TypeOK /\ RunInv /\ [Next]_vars => TypeOK' /\ RunInv'
  BY RunStep
<1>2. RunInv => WindowKept
  BY DEF RunInv
<1> QED
  BY <1>1, <1>2, InitInv, PTL DEF Spec
=============================================================================
