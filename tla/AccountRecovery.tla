-------------------------- MODULE AccountRecovery --------------------------
(***************************************************************************)
(* The recovery of one user's vault by officers: RecoveryRequestService,    *)
(* RecoveryPolicyService, the enrolment and the officers' copies of the     *)
(* recovery key.  A handler loads its rows in one step and saves them in    *)
(* later ones.                                                              *)
(***************************************************************************)
EXTENDS Naturals, FiniteSets, Entity

CONSTANTS Workers,     \* the PHP processes
          People,      \* who may be named an officer (the user is not)
          Thresholds,  \* the approvals an administrator may ask for
          MaxRequests, \* the requests the user files
          MaxPolicies, \* the changes of the policy
          Conflicts    \* pairs of operations that do not overlap

ASSUME ThresholdsAssumption == Thresholds \subseteq Nat \ {0}
ASSUME PeopleAssumption == IsFiniteSet(People)
ASSUME BoundsAssumption == MaxRequests \in Nat /\ MaxPolicies \in Nat

VARIABLES req,       \* the requests
          n,         \* requests whose filing began
          appr,      \* per request: the officers whose approval is stored
          held,      \* per request: the officers its envelope was handed to
          lapsed,    \* requests older than 72 hours
          current,   \* requests whose enrolment still exists
          enrolled,  \* the user has an enrolment
          on, officers, threshold,  \* the policy
          copies,    \* who has a wrapped copy of the recovery key
          policies,  \* policy changes so far
          h          \* per worker: its operation and what it loaded

policy == <<on, officers, threshold, copies, policies>>
vars == <<req, n, appr, held, lapsed, current, enrolled, policy, h>>

Reqs == 1..MaxRequests
Nobody == "nobody"
Statuses == {"none", "pending", "approved", "fulfilled", "declined", "expired"}
Rows == [st : Statuses, sealed : BOOLEAN, by : People \cup {Nobody}]
NoRow == [st |-> "none", sealed |-> FALSE, by |-> Nobody]
NoRows == [r \in Reqs |-> NoRow]
Ops == {"idle", "approve", "count", "end", "create", "insert", "seal", "officers",
        "threshold", "key"}
Idle == [op |-> "idle", rs |-> {}, x |-> NoRows, st |-> "none", p |-> Nobody, a |-> {}, t |-> 0]
Frames == [op : Ops, rs : SUBSET Reqs, x : [Reqs -> Rows], st : Statuses,
           p : People \cup {Nobody}, a : SUBSET People, t : Thresholds \cup Reqs \cup {0}]

OPEN == {"pending", "approved"}

\* Every variable has its type: the threshold stays one that the policy allows.
TypeOK ==
  /\ req \in [Reqs -> Rows] /\ n \in 0..MaxRequests
  /\ appr \in [Reqs -> SUBSET People] /\ held \in [Reqs -> SUBSET People]
  /\ lapsed \subseteq Reqs /\ current \subseteq Reqs /\ enrolled \in BOOLEAN
  /\ on \in BOOLEAN /\ officers \subseteq People /\ threshold \in Thresholds \cup {1}
  /\ copies \subseteq People /\ policies \in 0..MaxPolicies
  /\ h \in [Workers -> Frames]

Init ==
  /\ req = NoRows /\ n = 0 /\ appr = [r \in Reqs |-> {}] /\ held = appr
  /\ lapsed = {} /\ current = {} /\ enrolled = FALSE
  /\ on = FALSE /\ officers = {} /\ threshold = 1 /\ copies = {} /\ policies = 0
  /\ h = [w \in Workers |-> Idle]

-----------------------------------------------------------------------------
\* A worker goes on to new, apart from the operations it may not overlap.
Step(w, op, new) ==
  /\ h[w].op = op
  /\ \A v \in Workers \ {w} : {new.op, h[v].op} \notin Conflicts
  /\ h' = [h EXCEPT ![w] = new]

\* It loads the requests rs.
Load(w, op, rs, fields) ==
  Step(w, "idle", [fields EXCEPT !.op = op, !.rs = rs,
                     !.x = [r \in Reqs |-> IF r \in rs THEN req[r] ELSE NoRow]])

Open == {r \in Reqs : req[r].st \in OPEN}
rows == <<req, n, appr, held, lapsed, current, enrolled>>

\* Bug: the sealed result stays.
MutantEndSave(w) ==
  LET f == h[w] IN
  /\ Step(w, "end", Idle)
  /\ req' = [r \in Reqs |->
               IF r \in f.rs THEN [req[r] EXCEPT !.st = Put(@, f.x[r].st, f.st)] ELSE req[r]]
  /\ UNCHANGED <<n, appr, held, lapsed, current, enrolled, policy>>

\* The requests a handler ends: their status, and no sealed result is kept.
EndSave(w) ==
  LET f == h[w] IN
  /\ Step(w, "end", Idle)
  /\ req' = [r \in Reqs |->
               IF r \in f.rs
               THEN [req[r] EXCEPT !.st = Put(@, f.x[r].st, f.st),
                                   !.sealed = Put(@, f.x[r].sealed, FALSE)]
               ELSE req[r]]
  /\ UNCHANGED <<n, appr, held, lapsed, current, enrolled, policy>>

-----------------------------------------------------------------------------
\* The user.

\* create, with endOpenRequestsOf
Create(w) ==
  /\ enrolled /\ on /\ n < MaxRequests
  /\ n' = n + 1 /\ current' = current \cup {n + 1}
  /\ Load(w, "create", Open, [Idle EXCEPT !.t = n + 1])
  /\ UNCHANGED <<req, appr, held, lapsed, enrolled, policy>>

CreateEnds(w) ==
  LET f == h[w] IN
  /\ Step(w, "create", [Idle EXCEPT !.op = "insert", !.t = f.t])
  /\ req' = [r \in Reqs |->
               IF r \in f.rs
               THEN [req[r] EXCEPT !.st = Put(@, f.x[r].st, "expired"),
                                   !.sealed = Put(@, f.x[r].sealed, FALSE)]
               ELSE req[r]]
  /\ UNCHANGED <<n, appr, held, lapsed, current, enrolled, policy>>

CreateInsert(w) ==
  /\ Step(w, "insert", Idle)
  /\ req' = [req EXCEPT ![h[w].t] = [NoRow EXCEPT !.st = "pending"]]
  /\ UNCHANGED <<n, appr, held, lapsed, current, enrolled, policy>>

\* Completing checks the status and the result, not the time.
Complete(w, r) ==
  /\ req[r].st = "approved" /\ req[r].sealed
  /\ Load(w, "end", {r}, [Idle EXCEPT !.st = "fulfilled"])
  /\ UNCHANGED <<rows, policy>>

Enrol ==
  /\ on /\ copies # {}
  /\ enrolled' = TRUE /\ current' = {}
  /\ UNCHANGED <<req, n, appr, held, lapsed, policy, h>>

\* A withdrawal, or the migration to a new suite: open requests stay.
Withdraw ==
  /\ enrolled
  /\ enrolled' = FALSE /\ current' = {}
  /\ UNCHANGED <<req, n, appr, held, lapsed, policy, h>>

\* The suite is revoked: its requests are among the open ones.
SuiteRevoked(w) ==
  /\ enrolled' = FALSE /\ current' = {}
  /\ \E rs \in SUBSET Open :
       /\ Open \cap current \subseteq rs
       /\ IF rs = {} THEN enrolled /\ UNCHANGED h
          ELSE Load(w, "end", rs, [Idle EXCEPT !.st = "declined"])
  /\ UNCHANGED <<req, n, appr, held, lapsed, policy>>

-----------------------------------------------------------------------------
\* The officers.

\* loadOpen
Pending(r) == req[r].st = "pending" /\ r \notin lapsed

Approve(w, p, r) ==
  /\ p \in officers /\ Pending(r)
  /\ Load(w, "approve", {r}, [Idle EXCEPT !.p = p, !.a = appr[r]])
  /\ UNCHANGED <<rows, policy>>

\* One approval per officer: a second insert fails, and the request with it.
ApproveInsert(w) ==
  LET f == h[w] IN
  \E r \in f.rs :
    /\ IF f.p \in appr[r] \ f.a THEN Step(w, "approve", Idle)
       ELSE Step(w, "approve", [f EXCEPT !.op = "count", !.a = @ \cup {f.p}])
    /\ appr' = [appr EXCEPT ![r] = @ \cup {f.p}]
    /\ UNCHANGED <<req, n, held, lapsed, current, enrolled, policy>>

\* Bug: the approval that was just stored is counted twice.
MutantApproveCount(w) ==
  LET f == h[w] IN
  /\ Step(w, "count", Idle)
  /\ req' = [r \in Reqs |->
               IF r \in f.rs /\ Cardinality(f.a) + 1 >= threshold
               THEN [req[r] EXCEPT !.st = "approved"] ELSE req[r]]
  /\ UNCHANGED <<n, appr, held, lapsed, current, enrolled, policy>>

\* Bug: the quorum has to be exceeded.
MutantApproveMore(w) ==
  LET f == h[w] IN
  /\ Step(w, "count", Idle)
  /\ req' = [r \in Reqs |->
               IF r \in f.rs /\ Cardinality(f.a) > threshold
               THEN [req[r] EXCEPT !.st = "approved"] ELSE req[r]]
  /\ UNCHANGED <<n, appr, held, lapsed, current, enrolled, policy>>

\* What was loaded is counted.
ApproveCount(w) ==
  LET f == h[w] IN
  /\ Step(w, "count", Idle)
  /\ req' = [r \in Reqs |->
               IF r \in f.rs /\ Cardinality(f.a) >= threshold
               THEN [req[r] EXCEPT !.st = "approved"] ELSE req[r]]
  /\ UNCHANGED <<n, appr, held, lapsed, current, enrolled, policy>>

Decline(w, p, r) ==
  /\ p \in officers /\ Pending(r)
  /\ Load(w, "end", {r}, [Idle EXCEPT !.st = "declined"])
  /\ UNCHANGED <<rows, policy>>

\* loadForApprover
MayHandle(p, r) ==
  p \in officers /\ req[r].st = "approved" /\ r \notin lapsed /\ p \in appr[r]

\* handoff: the envelope and the officer's own copy of the key.
Handoff(p, r) ==
  /\ MayHandle(p, r) /\ r \in current /\ p \in copies
  /\ held' = [held EXCEPT ![r] = @ \cup {p}]
  /\ UNCHANGED <<req, n, appr, lapsed, current, enrolled, policy, h>>

\* The result is posted by a client that was handed the envelope.
PostSealed(w, p, r) ==
  /\ MayHandle(p, r) /\ p \in held[r]
  /\ Load(w, "seal", {r}, [Idle EXCEPT !.p = p])
  /\ UNCHANGED <<rows, policy>>

SealedSave(w) ==
  LET f == h[w] IN
  /\ Step(w, "seal", Idle)
  /\ req' = [r \in Reqs |->
               IF r \in f.rs THEN [req[r] EXCEPT !.sealed = TRUE, !.by = Put(@, f.x[r].by, f.p)]
               ELSE req[r]]
  /\ UNCHANGED <<n, appr, held, lapsed, current, enrolled, policy>>

\* createKey: a copy for each officer that was named when it began.  Bound: a
\* further key, when every officer has a copy, is left out.
CreateKey(w) ==
  /\ officers \ copies # {}
  /\ Load(w, "key", {}, [Idle EXCEPT !.a = officers])
  /\ UNCHANGED <<rows, policy>>

KeySave(w) ==
  /\ Step(w, "key", Idle)
  /\ copies' = copies \cup h[w].a
  /\ UNCHANGED <<rows, on, officers, threshold, policies>>

-----------------------------------------------------------------------------
\* The administrator and the clock.

\* Bug: the removed officers keep their copies.
MutantUpdatePolicy(w) ==
  \E new \in SUBSET People, t \in Thresholds, o \in BOOLEAN :
    /\ policies < MaxPolicies
    /\ IF new = {} THEN ~o ELSE t <= Cardinality(new)
    /\ policies' = policies + 1
    /\ on' = o
    /\ Load(w, "officers", {}, [Idle EXCEPT !.a = new, !.t = t])
    /\ UNCHANGED <<rows, officers, threshold, copies>>

\* update: copies of the removed and the policy, then the officers, then the
\* threshold.
UpdatePolicy(w) ==
  \E new \in SUBSET People, t \in Thresholds, o \in BOOLEAN :
    /\ policies < MaxPolicies
    /\ IF new = {} THEN ~o ELSE t <= Cardinality(new)   \* assertThresholdFits
    /\ policies' = policies + 1
    /\ copies' = copies \ (officers \ new)
    /\ on' = o
    /\ Load(w, "officers", {}, [Idle EXCEPT !.a = new, !.t = t])
    /\ UNCHANGED <<rows, officers, threshold>>

OfficersSave(w) ==
  /\ officers' = h[w].a
  /\ Step(w, "officers", [h[w] EXCEPT !.op = "threshold", !.a = {}])
  /\ UNCHANGED <<rows, on, threshold, copies, policies>>

\* Bug: everyone has to approve, no one when no officer is named.
MutantThresholdSave(w) ==
  /\ threshold' = Cardinality(officers)
  /\ Step(w, "threshold", Idle)
  /\ UNCHANGED <<rows, on, officers, copies, policies>>

ThresholdSave(w) ==
  /\ threshold' = h[w].t
  /\ Step(w, "threshold", Idle)
  /\ UNCHANGED <<rows, on, officers, copies, policies>>

Lapse(r) ==
  /\ req[r].st # "none" /\ r \notin lapsed
  /\ lapsed' = lapsed \cup {r}
  /\ UNCHANGED <<req, n, appr, held, current, enrolled, policy, h>>

\* ExpireRecoveryRequestsJob
ExpireLapsed(w) ==
  /\ Open \cap lapsed # {}
  /\ Load(w, "end", Open \cap lapsed, [Idle EXCEPT !.st = "expired"])
  /\ UNCHANGED <<rows, policy>>

Accept(w) ==
  \/ Create(w) \/ SuiteRevoked(w) \/ CreateKey(w) \/ UpdatePolicy(w) \/ ExpireLapsed(w)
  \/ \E r \in Reqs : \/ Complete(w, r)
                     \/ \E p \in People : Approve(w, p, r) \/ Decline(w, p, r) \/ PostSealed(w, p, r)

Finish(w) ==
  \/ EndSave(w) \/ CreateEnds(w) \/ CreateInsert(w) \/ ApproveInsert(w) \/ ApproveCount(w)
  \/ SealedSave(w) \/ KeySave(w) \/ OfficersSave(w) \/ ThresholdSave(w)

Next ==
  \/ \E w \in Workers : Accept(w) \/ Finish(w)
  \/ Enrol \/ Withdraw
  \/ \E r \in Reqs : Lapse(r) \/ \E p \in People : Handoff(p, r)

Spec == Init /\ [][Next]_vars

-----------------------------------------------------------------------------
\* The user's key, sealed to the request, is stored only while the request is
\* approved: nothing that ends it leaves the result behind.
SealedOnlyWhileApproved == \A r \in Reqs : req[r].sealed => req[r].st = "approved"

\* Behind every approved request, and every envelope that was handed out, is a
\* quorum of distinct officers, and who was handed it or sealed it is of them.
QuorumBehindApproval ==
  \A r \in Reqs :
    /\ req[r].st \in {"approved", "fulfilled"} \/ held[r] # {}
         => \E t \in Thresholds : Cardinality(appr[r]) >= t
    /\ held[r] \cup ({req[r].by} \ {Nobody}) \subseteq appr[r]

\* A quorum is noticed: a request that has every approval an administrator may
\* ask for does not stay pending once its approvals are handled.
QuorumIsNoticed ==
  \A r \in Reqs :
    req[r].st = "pending" /\ (\A t \in Thresholds : Cardinality(appr[r]) >= t)
      => \E w \in Workers : h[w].op # "idle"

\* A person who is no officer has no copy of the recovery key.
RemovedHoldNoCopy ==
  (\A w \in Workers : h[w].op \notin {"officers", "key"}) => copies \subseteq officers
=============================================================================
