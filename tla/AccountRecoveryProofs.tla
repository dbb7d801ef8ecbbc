----------------------- MODULE AccountRecoveryProofs -----------------------
(***************************************************************************)
(* Theorems about AccountRecovery, for any number of processes, people,     *)
(* requests and changes of the policy.                                      *)
(***************************************************************************)
EXTENDS AccountRecovery, FiniteSetTheorems, TLAPS

Both(P, Q) == {{p, q} : p \in P, q \in Q}

\* No officer approves between the two writes of a policy.
PolicyApart == Both({"threshold"}, {"approve", "count"})

Counting(w) == h[w].op \in {"approve", "count"}

\* What a handler has loaded is of the kind its operation needs.
FrameOK(f) ==
  /\ f.op \in {"create", "insert"} => f.t \in Reqs
  /\ f.op \in {"officers", "threshold"} => f.t \in Thresholds
  /\ f.op \in {"approve", "count", "seal"} => f.p \in People /\ \E r \in Reqs : f.rs = {r}
  /\ f.op \in {"insert", "key", "officers", "threshold"} => f.rs = {}
  /\ f.op = "end" => f.st \in {"fulfilled", "declined", "expired"}

TypeInv == TypeOK /\ \A w \in Workers : FrameOK(h[w])

\* Approvals are counted against a threshold an administrator chose.
ThresholdInv ==
  /\ officers # {} => threshold \in Thresholds \/ \E w \in Workers : h[w].op = "threshold"
  /\ \A w \in Workers : Counting(w) => threshold \in Thresholds

Quorum(r) == \E t \in Thresholds : Cardinality(appr[r]) >= t

\* What a handler counts, completes or seals by is stored.
QuorumSteps ==
  \A w \in Workers : \A r \in h[w].rs :
    /\ Counting(w) => h[w].a \subseteq appr[r]
    /\ h[w].op = "end" /\ h[w].st = "fulfilled" => Quorum(r)
    /\ h[w].op = "seal" => h[w].p \in appr[r]

QuorumInv == TypeInv /\ ThresholdInv /\ QuorumSteps /\ QuorumBehindApproval

-----------------------------------------------------------------------------
(* Type correctness, and what each kind of step does.                       *)

\* A step of w leaves the other workers where they are, and overlaps none that
\* its operation is to be apart from.
LEMMA StepOf ==
  ASSUME TypeOK, NEW w \in Workers, NEW op, NEW new, Step(w, op, new)
  PROVE  /\ h[w].op = op /\ h'[w] = new
         /\ \A v \in Workers : v # w => h'[v] = h[v] /\ {new.op, h[v].op} \notin Conflicts
  BY DEF Step, TypeOK

LEMMA FrameFields ==
  ASSUME NEW f \in Frames
  PROVE  /\ f.op \in Ops /\ f.rs \in SUBSET Reqs /\ f.x \in [Reqs -> Rows] /\ f.st \in Statuses
         /\ f.p \in People \cup {Nobody} /\ f.a \in SUBSET People /\ f.t \in Thresholds \cup Reqs \cup {0}
  BY DEF Frames

LEMMA IdleFrame ==
  /\ Idle \in Frames /\ Idle.op = "idle" /\ Idle.rs = {} /\ Idle.p = Nobody /\ Idle.a = {} /\ Idle.t = 0
  /\ Idle.st = "none"
  /\ NoRow \in Rows /\ NoRows \in [Reqs -> Rows]
<1>1. NoRow \in Rows
  BY DEF NoRow, Rows, Statuses
<1>2. NoRows \in [Reqs -> Rows]
  BY <1>1 DEF NoRows
<1> QED
  BY <1>1, <1>2 DEF Idle, Frames, Ops, Statuses

\* What a handler has loaded: the rows as they are.
Loaded(w, op, rs, fields) ==
  /\ h[w].op = "idle" /\ h'[w] \in Frames
  /\ h'[w].op = op /\ h'[w].rs = rs /\ h'[w].st = fields.st /\ h'[w].p = fields.p
  /\ h'[w].a = fields.a /\ h'[w].t = fields.t
  /\ \A r \in rs : h'[w].x[r] = req[r]
  /\ \A v \in Workers : v # w => h'[v] = h[v] /\ {op, h[v].op} \notin Conflicts

LEMMA LoadOf ==
  ASSUME TypeOK, NEW w \in Workers, NEW op \in Ops, NEW rs \in SUBSET Reqs, NEW fields \in Frames,
         Load(w, op, rs, fields)
  PROVE  Loaded(w, op, rs, fields)
<1> DEFINE xs == [r \in Reqs |-> IF r \in rs THEN req[r] ELSE NoRow]
           new == [fields EXCEPT !.op = op, !.rs = rs, !.x = xs]
<1>1. xs \in [Reqs -> Rows] /\ \A r \in rs : xs[r] = req[r]
  BY IdleFrame DEF TypeOK
<1>2. Step(w, "idle", new)
  BY DEF Load
<1> HIDE DEF xs
<1>3. /\ new \in Frames /\ new.op = op /\ new.rs = rs /\ new.x = xs /\ new.st = fields.st
      /\ new.p = fields.p /\ new.a = fields.a /\ new.t = fields.t
  BY <1>1 DEF Frames
<1> HIDE DEF new
<1>4. /\ h[w].op = "idle" /\ h'[w] = new
      /\ \A v \in Workers : v # w => h'[v] = h[v] /\ {new.op, h[v].op} \notin Conflicts
  BY <1>2, StepOf
<1> QED
  BY <1>1, <1>3, <1>4 DEF Loaded

\* What the handlers that load requests take on.
Accepted(w) ==
  /\ h[w].op = "idle" /\ h'[w] \in Frames /\ FrameOK(h'[w])
  /\ \A v \in Workers : v # w => h'[v] = h[v] /\ {h'[w].op, h[v].op} \notin Conflicts
  /\ \A r \in h'[w].rs : h'[w].x[r] = req[r]
  /\ \/ /\ h'[w].op = "create" /\ n < MaxRequests /\ n' = n + 1 /\ h'[w].t = n + 1
        /\ h'[w].rs \subseteq Open /\ on
     \/ /\ h'[w].op = "end" /\ n' = n /\ h'[w].rs \subseteq Open
        /\ h'[w].st = "fulfilled" => \A r \in h'[w].rs : req[r].st = "approved"
     \/ /\ h'[w].op = "approve" /\ n' = n /\ officers # {}
        /\ \E r \in Open : h'[w].rs = {r} /\ h'[w].a = appr[r]
     \/ /\ h'[w].op = "seal" /\ n' = n
        /\ \E r \in Reqs : h'[w].rs = {r} /\ req[r].st = "approved" /\ h'[w].p \in appr[r]
     \/ h'[w].op = "key" /\ n' = n /\ h'[w].a = officers
     \/ /\ h'[w].op = "officers" /\ n' = n /\ copies' = copies \ (officers \ h'[w].a)
        /\ h'[w].a \subseteq People

LEMMA AcceptOf ==
  ASSUME TypeInv, NEW w \in Workers, Accept(w), h' # h
  PROVE  Accepted(w)
<1> USE DEF TypeInv
<1>0. TypeOK
  BY DEF TypeInv
<1>1. /\ Open \in SUBSET Reqs /\ Open \subseteq Reqs /\ n \in Nat /\ {"create", "end", "approve", "seal", "key", "officers"} \subseteq Ops
      /\ {"fulfilled", "declined", "expired"} \subseteq Statuses
  BY DEF Open, TypeOK, Ops, Statuses
<1>2. ASSUME NEW r \in Reqs, req[r].st \in {"pending", "approved"} PROVE r \in Open
  BY <1>2 DEF Open, OPEN
<1>3. CASE Create(w)
  <2>1. n < MaxRequests /\ n + 1 \in Reqs /\ n' = n + 1 /\ on
    BY <1>1, <1>3, BoundsAssumption DEF Create, Reqs
  <2> DEFINE fields == [Idle EXCEPT !.t = n + 1]
  <2>2. fields \in Frames /\ fields.t = n + 1
    BY <2>1, IdleFrame DEF Frames
  <2>3. Load(w, "create", Open, fields)
    BY <1>3 DEF Create
  <2> HIDE DEF fields
  <2>4. /\ h[w].op = "idle" /\ h'[w] \in Frames /\ h'[w].op = "create" /\ h'[w].rs = Open
        /\ h'[w].t = n + 1
        /\ \A r \in Open : h'[w].x[r] = req[r]
        /\ \A v \in Workers : v # w => h'[v] = h[v] /\ {"create", h[v].op} \notin Conflicts
    <3>1. "create" \in Ops /\ Open \in SUBSET Reqs
      BY <1>1
    <3>2. Loaded(w, "create", Open, fields)
      BY <1>0, <3>1, <2>2, <2>3, LoadOf
    <3> QED
      BY <3>2, <2>2 DEF Loaded
  <2> QED
    BY <2>1, <2>4 DEF FrameOK, Accepted
<1>4. ASSUME NEW rs \in SUBSET Open, NEW st \in {"fulfilled", "declined", "expired"},
             Load(w, "end", rs, [Idle EXCEPT !.st = st]), n' = n,
             st = "fulfilled" => \A r \in rs : req[r].st = "approved"
      PROVE  Accepted(w)
  <2> DEFINE fields == [Idle EXCEPT !.st = st]
  <2>1. fields \in Frames /\ fields.st = st /\ rs \in SUBSET Reqs
    BY <1>1, IdleFrame DEF Frames
  <2>2. Load(w, "end", rs, fields)
    BY <1>4
  <2> HIDE DEF fields
  <2>3. /\ h[w].op = "idle" /\ h'[w] \in Frames /\ h'[w].op = "end" /\ h'[w].rs = rs
        /\ h'[w].st = st
        /\ \A r \in rs : h'[w].x[r] = req[r]
        /\ \A v \in Workers : v # w => h'[v] = h[v] /\ {"end", h[v].op} \notin Conflicts
    <3>1. "end" \in Ops /\ rs \in SUBSET Reqs
      BY <1>1, <2>1
    <3>2. Loaded(w, "end", rs, fields)
      BY <1>0, <3>1, <2>1, <2>2, LoadOf
    <3> QED
      BY <3>2, <2>1 DEF Loaded
  <2> QED
    BY <1>4, <2>3 DEF FrameOK, Accepted
<1>5. ASSUME NEW p \in People, NEW r \in Reqs, Approve(w, p, r) PROVE Accepted(w)
  <2> DEFINE fields == [Idle EXCEPT !.p = p, !.a = appr[r]]
  <2>1. fields \in Frames /\ fields.p = p /\ fields.a = appr[r] /\ {r} \in SUBSET Reqs
    BY IdleFrame DEF Frames, TypeOK
  <2>2. Load(w, "approve", {r}, fields) /\ n' = n /\ p \in officers /\ r \in Open
    BY <1>2, <1>5 DEF Approve, rows, Pending
  <2> HIDE DEF fields
  <2>3. /\ h[w].op = "idle" /\ h'[w] \in Frames /\ h'[w].op = "approve" /\ h'[w].rs = {r}
        /\ h'[w].p = p /\ h'[w].a = appr[r]
        /\ h'[w].x[r] = req[r]
        /\ \A v \in Workers : v # w => h'[v] = h[v] /\ {"approve", h[v].op} \notin Conflicts
    <3>1. "approve" \in Ops /\ {r} \in SUBSET Reqs /\ r \in {r}
      BY <1>1, <2>1
    <3>2. Loaded(w, "approve", {r}, fields)
      BY <1>0, <2>1, <2>2, <3>1, LoadOf
    <3> QED
      BY <2>1, <3>1, <3>2 DEF Loaded
  <2>4. FrameOK(h'[w])
    <3>1. \E q \in Reqs : h'[w].rs = {q}
      BY <2>3
    <3> QED
      BY <2>3, <3>1 DEF FrameOK
  <2>5. \A q \in h'[w].rs : h'[w].x[q] = req[q]
    BY <2>3
  <2>6. \E q \in Open : h'[w].rs = {q} /\ h'[w].a = appr[q]
    BY <2>2, <2>3
  <2> QED
    BY <2>2, <2>3, <2>4, <2>5, <2>6 DEF Accepted
<1>6. ASSUME NEW p \in People, NEW r \in Reqs, PostSealed(w, p, r) PROVE Accepted(w)
  <2> DEFINE fields == [Idle EXCEPT !.p = p]
  <2>1. fields \in Frames /\ fields.p = p /\ {r} \in SUBSET Reqs
    BY IdleFrame DEF Frames
  <2>2. Load(w, "seal", {r}, fields) /\ n' = n /\ req[r].st = "approved" /\ p \in appr[r]
    BY <1>6 DEF PostSealed, MayHandle, rows
  <2> HIDE DEF fields
  <2>3. /\ h[w].op = "idle" /\ h'[w] \in Frames /\ h'[w].op = "seal" /\ h'[w].rs = {r}
        /\ h'[w].p = p
        /\ h'[w].x[r] = req[r]
        /\ \A v \in Workers : v # w => h'[v] = h[v] /\ {"seal", h[v].op} \notin Conflicts
    <3>1. "seal" \in Ops /\ {r} \in SUBSET Reqs /\ r \in {r}
      BY <1>1, <2>1
    <3>2. Loaded(w, "seal", {r}, fields)
      BY <1>0, <2>1, <2>2, <3>1, LoadOf
    <3> QED
      BY <2>1, <3>1, <3>2 DEF Loaded
  <2>4. FrameOK(h'[w])
    <3>1. \E q \in Reqs : h'[w].rs = {q}
      BY <2>3
    <3> QED
      BY <2>3, <3>1 DEF FrameOK
  <2>5. \A q \in h'[w].rs : h'[w].x[q] = req[q]
    BY <2>3
  <2>6. \E q \in Reqs : h'[w].rs = {q} /\ req[q].st = "approved" /\ h'[w].p \in appr[q]
    BY <2>2, <2>3
  <2> QED
    BY <2>2, <2>3, <2>4, <2>5, <2>6 DEF Accepted
<1>7. CASE CreateKey(w)
  <2> DEFINE fields == [Idle EXCEPT !.a = officers]
  <2>1. fields \in Frames /\ fields.a = officers
    BY IdleFrame DEF Frames, TypeOK
  <2>2. Load(w, "key", {}, fields) /\ n' = n
    BY <1>7 DEF CreateKey, rows
  <2> HIDE DEF fields
  <2>3. /\ h[w].op = "idle" /\ h'[w] \in Frames /\ h'[w].op = "key" /\ h'[w].rs = {}
        /\ h'[w].a = officers
        /\ \A v \in Workers : v # w => h'[v] = h[v] /\ {"key", h[v].op} \notin Conflicts
    <3>1. "key" \in Ops /\ {} \in SUBSET Reqs
      BY <1>1
    <3>2. Loaded(w, "key", {}, fields)
      BY <1>0, <3>1, <2>1, <2>2, LoadOf
    <3> QED
      BY <3>2, <2>1 DEF Loaded
  <2> QED
    BY <2>2, <2>3 DEF FrameOK, Accepted
<1>8. CASE UpdatePolicy(w)
  <2>1. PICK new \in SUBSET People, t \in Thresholds :
          /\ copies' = copies \ (officers \ new)
          /\ Load(w, "officers", {}, [Idle EXCEPT !.a = new, !.t = t])
    BY <1>8 DEF UpdatePolicy
  <2> DEFINE fields == [Idle EXCEPT !.a = new, !.t = t]
  <2>2. fields \in Frames /\ fields.a = new /\ fields.t = t
    BY IdleFrame DEF Frames
  <2>3. Load(w, "officers", {}, fields) /\ n' = n
    BY <1>8, <2>1 DEF UpdatePolicy, rows
  <2> HIDE DEF fields
  <2>4. /\ h[w].op = "idle" /\ h'[w] \in Frames /\ h'[w].op = "officers" /\ h'[w].rs = {}
        /\ h'[w].a = new /\ h'[w].t = t
        /\ \A v \in Workers : v # w => h'[v] = h[v] /\ {"officers", h[v].op} \notin Conflicts
    <3>1. "officers" \in Ops /\ {} \in SUBSET Reqs
      BY <1>1
    <3>2. Loaded(w, "officers", {}, fields)
      BY <1>0, <3>1, <2>2, <2>3, LoadOf
    <3> QED
      BY <3>2, <2>2 DEF Loaded
  <2> QED
    BY <2>1, <2>3, <2>4 DEF FrameOK, Accepted
<1>9. CASE SuiteRevoked(w)
  <2>1. PICK rs \in SUBSET Open : Load(w, "end", rs, [Idle EXCEPT !.st = "declined"])
    BY <1>9 DEF SuiteRevoked
  <2> QED
    BY <1>4, <1>9, <2>1 DEF SuiteRevoked
<1>10. CASE ExpireLapsed(w)
  BY <1>4, <1>10 DEF ExpireLapsed, rows
<1>11. ASSUME NEW r \in Reqs, Complete(w, r) PROVE Accepted(w)
  <2>1. {r} \in SUBSET Open
    BY <1>2, <1>11 DEF Complete
  <2> QED
    BY <1>4, <1>11, <2>1 DEF Complete, rows
<1>12. ASSUME NEW p \in People, NEW r \in Reqs, Decline(w, p, r) PROVE Accepted(w)
  <2>1. {r} \in SUBSET Open
    BY <1>2, <1>12 DEF Decline, Pending
  <2> QED
    BY <1>4, <1>12, <2>1 DEF Decline, rows
<1> QED
  BY <1>3, <1>5, <1>6, <1>7, <1>8, <1>9, <1>10, <1>11, <1>12 DEF Accept

\* A handler that goes on: it is done, or has the next of its writes to do.
Continued(f, g) ==
  \/ g = Idle
  \/ f.op = "create" /\ g = [Idle EXCEPT !.op = "insert", !.t = f.t]
  \/ f.op = "approve" /\ g = [f EXCEPT !.op = "count", !.a = @ \cup {f.p}]
  \/ f.op = "officers" /\ g = [f EXCEPT !.op = "threshold", !.a = {}]

LEMMA ContinuedFrame ==
  ASSUME NEW f \in Frames, FrameOK(f), NEW g, Continued(f, g)
  PROVE  /\ g \in Frames /\ FrameOK(g)
         /\ \/ g.op = "idle" /\ g.rs = {}
            \/ f.op = "create" /\ g.op = "insert" /\ g.t = f.t /\ g.rs = {}
            \/ /\ f.op = "approve" /\ g.op = "count" /\ g.rs = f.rs /\ g.p = f.p
               /\ g.a = f.a \cup {f.p}
            \/ f.op = "officers" /\ g.op = "threshold" /\ g.rs = {} /\ g.t = f.t
<1>1. /\ f.rs \in SUBSET Reqs /\ f.x \in [Reqs -> Rows] /\ f.st \in Statuses
      /\ f.p \in People \cup {Nobody} /\ f.a \in SUBSET People /\ f.t \in Thresholds \cup Reqs \cup {0}
      /\ {"insert", "count", "threshold"} \subseteq Ops
  BY FrameFields DEF Ops
<1>2. CASE g = Idle
  BY <1>2, IdleFrame DEF FrameOK
<1>3. CASE f.op = "create" /\ g = [Idle EXCEPT !.op = "insert", !.t = f.t]
  <2>1. g \in Frames /\ g.op = "insert" /\ g.t = f.t /\ g.rs = {}
    BY <1>1, <1>3, IdleFrame DEF Frames
  <2> QED
    BY <1>3, <2>1 DEF FrameOK
<1>4. CASE f.op = "approve" /\ g = [f EXCEPT !.op = "count", !.a = @ \cup {f.p}]
  <2>1. f.p \in People
    BY <1>4 DEF FrameOK
  <2>2. g \in Frames /\ g.op = "count" /\ g.rs = f.rs /\ g.p = f.p /\ g.a = f.a \cup {f.p}
    BY <1>1, <1>4, <2>1 DEF Frames
  <2> QED
    BY <1>4, <2>2 DEF FrameOK
<1>5. CASE f.op = "officers" /\ g = [f EXCEPT !.op = "threshold", !.a = {}]
  <2>1. g \in Frames /\ g.op = "threshold" /\ g.rs = f.rs /\ g.t = f.t
    BY <1>1, <1>5 DEF Frames
  <2> QED
    BY <1>5, <2>1 DEF FrameOK
<1> QED
  BY <1>2, <1>3, <1>4, <1>5 DEF Continued

LEMMA FinishOf ==
  ASSUME TypeInv, NEW w \in Workers, Finish(w)
  PROVE  /\ h[w].op # "idle" /\ Continued(h[w], h'[w])
         /\ \A v \in Workers : v # w => h'[v] = h[v] /\ {h'[w].op, h[v].op} \notin Conflicts
         /\ UNCHANGED <<n, held, lapsed, current, enrolled, on, policies>>
<1> DEFINE f == h[w]
<1>1. PICK op, new : Step(w, op, new) /\ op # "idle" /\ (f.op = op => Continued(f, new))
  <2>1. CASE EndSave(w) \/ CreateInsert(w) \/ ApproveCount(w) \/ SealedSave(w) \/ KeySave(w) \/ ThresholdSave(w)
    <3>1. \E op \in {"end", "insert", "count", "seal", "key", "threshold"} : Step(w, op, Idle)
      BY <2>1 DEF EndSave, CreateInsert, ApproveCount, SealedSave, KeySave, ThresholdSave
    <3> QED
      BY <3>1 DEF Continued
  <2>2. CASE CreateEnds(w)
    <3> DEFINE new == [Idle EXCEPT !.op = "insert", !.t = f.t]
    <3>1. Step(w, "create", new)
      BY <2>2 DEF CreateEnds
    <3>2. f.op = "create" => Continued(f, new)
      BY DEF Continued
    <3> HIDE DEF new
    <3> QED
      BY <3>1, <3>2
  <2>3. CASE ApproveInsert(w)
    <3>1. \/ Step(w, "approve", Idle)
          \/ Step(w, "approve", [f EXCEPT !.op = "count", !.a = @ \cup {f.p}])
      BY <2>3 DEF ApproveInsert
    <3> QED
      BY <3>1 DEF Continued
  <2>4. CASE OfficersSave(w)
    BY <2>4 DEF OfficersSave, Continued
  <2> QED
    BY <2>1, <2>2, <2>3, <2>4 DEF Finish
<1>2. /\ f.op = op /\ h'[w] = new
      /\ \A v \in Workers : v # w => h'[v] = h[v] /\ {new.op, h[v].op} \notin Conflicts
  BY <1>1, StepOf DEF TypeInv
<1>3. UNCHANGED <<n, held, lapsed, current, enrolled, on, policies>>
  BY DEF Finish, EndSave, CreateEnds, CreateInsert, ApproveInsert, ApproveCount, SealedSave, KeySave,
         OfficersSave, ThresholdSave, rows, policy
<1> QED
  BY <1>1, <1>2, <1>3

\* The rows a handler ends.
Ended(f, st) ==
  [r \in Reqs |-> IF r \in f.rs
                  THEN [req[r] EXCEPT !.st = Put(@, f.x[r].st, st),
                                      !.sealed = Put(@, f.x[r].sealed, FALSE)]
                  ELSE req[r]]

LEMMA EndOf ==
  ASSUME TypeInv, NEW f \in Frames, NEW st \in Statuses, req' = Ended(f, st)
  PROVE  /\ req' \in [Reqs -> Rows]
         /\ \A r \in Reqs :
              IF r \in f.rs
              THEN /\ req'[r].st = Put(req[r].st, f.x[r].st, st)
                   /\ req'[r].sealed = Put(req[r].sealed, f.x[r].sealed, FALSE)
                   /\ req'[r].by = req[r].by
              ELSE req'[r] = req[r]
<1> DEFINE row(r) == [req[r] EXCEPT !.st = Put(@, f.x[r].st, st),
                                    !.sealed = Put(@, f.x[r].sealed, FALSE)]
<1>1. ASSUME NEW r \in Reqs
      PROVE  /\ req[r] \in Rows /\ row(r) \in Rows
             /\ row(r).st = Put(req[r].st, f.x[r].st, st)
             /\ row(r).sealed = Put(req[r].sealed, f.x[r].sealed, FALSE)
             /\ row(r).by = req[r].by
  <2>1. req[r] \in Rows
    BY DEF TypeInv, TypeOK
  <2>2. req[r].st \in Statuses /\ req[r].sealed \in BOOLEAN
    BY <2>1 DEF Rows
  <2> DEFINE s1 == Put(req[r].st, f.x[r].st, st)
             s2 == Put(req[r].sealed, f.x[r].sealed, FALSE)
  <2>3. s1 \in Statuses
    BY <2>2 DEF Put
  <2>4. s2 \in BOOLEAN
    BY <2>2 DEF Put
  <2> HIDE DEF s1, s2
  <2>5. row(r) = [req[r] EXCEPT !.st = s1, !.sealed = s2]
    BY DEF s1, s2
  <2>6. row(r) \in Rows /\ row(r).st = s1 /\ row(r).sealed = s2 /\ row(r).by = req[r].by
    <3> HIDE DEF row
    <3> QED
      BY <2>1, <2>3, <2>4, <2>5 DEF Rows
  <2> QED
    BY <2>1, <2>6 DEF s1, s2
<1>2. req' = [r \in Reqs |-> IF r \in f.rs THEN row(r) ELSE req[r]]
  BY DEF Ended
<1> HIDE DEF row
<1>3. \A r \in Reqs : req'[r] = IF r \in f.rs THEN row(r) ELSE req[r]
  BY <1>2
<1>4. req' \in [Reqs -> Rows]
  BY <1>1, <1>2
<1> QED
  BY <1>1, <1>3, <1>4

\* Where a row goes: it is ended, filed, approved or given its result.
LEMMA FinishRows ==
  ASSUME TypeInv, NEW w \in Workers, Finish(w)
  PROVE  /\ req' \in [Reqs -> Rows]
         /\ \A r \in Reqs :
              \/ req'[r] = req[r]
              \/ /\ r \in h[w].rs /\ req'[r].by = req[r].by
                 /\ req'[r].sealed = Put(req[r].sealed, h[w].x[r].sealed, FALSE)
                 /\ \/ h[w].op = "end" /\ req'[r].st = Put(req[r].st, h[w].x[r].st, h[w].st)
                    \/ h[w].op = "create" /\ req'[r].st = Put(req[r].st, h[w].x[r].st, "expired")
              \/ /\ h[w].op = "insert" /\ r = h[w].t
                 /\ req'[r].st = "pending" /\ ~req'[r].sealed /\ req'[r].by = Nobody
              \/ /\ h[w].op = "count" /\ r \in h[w].rs /\ Cardinality(h[w].a) >= threshold
                 /\ req'[r].st = "approved" /\ req'[r].sealed = req[r].sealed /\ req'[r].by = req[r].by
              \/ /\ h[w].op = "seal" /\ r \in h[w].rs
                 /\ req'[r].st = req[r].st /\ req'[r].sealed
                 /\ req'[r].by \in {req[r].by, h[w].p}
<1> DEFINE f == h[w]
<1>1. /\ f \in Frames /\ FrameOK(f) /\ req \in [Reqs -> Rows] /\ TypeOK
      /\ "expired" \in Statuses /\ "pending" \in Statuses /\ "approved" \in Statuses
  BY DEF TypeInv, TypeOK, Statuses
<1>2. CASE EndSave(w)
  <2>1. req' = Ended(f, f.st) /\ f.op = "end"
    BY <1>1, <1>2, StepOf DEF EndSave, Ended
  <2>2. f.st \in Statuses
    BY <1>1, FrameFields
  <2> QED
    BY <1>1, <2>1, <2>2, EndOf
<1>3. CASE CreateEnds(w)
  <2>1. req' = Ended(f, "expired") /\ f.op = "create"
    BY <1>1, <1>3, StepOf DEF CreateEnds, Ended
  <2> QED
    BY <1>1, <2>1, EndOf
<1>4. CASE CreateInsert(w)
  <2>1. f.op = "insert" /\ f.t \in Reqs
    BY <1>1, <1>4, StepOf DEF CreateInsert, FrameOK
  <2> DEFINE row == [NoRow EXCEPT !.st = "pending"]
  <2>2. row \in Rows /\ row.st = "pending" /\ row.sealed = FALSE /\ row.by = Nobody
    BY <1>1 DEF NoRow, Rows
  <2>3. req' = [req EXCEPT ![f.t] = row]
    BY <1>4 DEF CreateInsert
  <2> HIDE DEF row
  <2> QED
    BY <1>1, <2>1, <2>2, <2>3
<1>5. CASE ApproveCount(w)
  <2>1. f.op = "count"
    BY <1>1, <1>5, StepOf DEF ApproveCount
  <2>2. \A r \in Reqs : LET row == [req[r] EXCEPT !.st = "approved"]
                        IN  row \in Rows /\ row.st = "approved" /\ row.sealed = req[r].sealed /\ row.by = req[r].by
    BY <1>1 DEF Rows
  <2>3. req' = [r \in Reqs |-> IF r \in f.rs /\ Cardinality(f.a) >= threshold
                               THEN [req[r] EXCEPT !.st = "approved"] ELSE req[r]]
    BY <1>5 DEF ApproveCount
  <2> QED
    BY <1>1, <2>1, <2>2, <2>3
<1>6. CASE SealedSave(w)
  <2>1. f.op = "seal" /\ f.p \in People
    BY <1>1, <1>6, StepOf DEF SealedSave, FrameOK
  <2> DEFINE row(r) == [req[r] EXCEPT !.sealed = TRUE, !.by = Put(@, f.x[r].by, f.p)]
  <2>2. ASSUME NEW r \in Reqs
        PROVE  row(r) \in Rows /\ row(r).st = req[r].st /\ row(r).sealed = TRUE /\ row(r).by \in {req[r].by, f.p}
    BY <1>1, <2>1 DEF Rows, Put
  <2>3. req' = [r \in Reqs |-> IF r \in f.rs THEN row(r) ELSE req[r]]
    BY <1>6 DEF SealedSave
  <2> HIDE DEF row
  <2>4. req' \in [Reqs -> Rows]
    BY <1>1, <2>2, <2>3
  <2>5. \A r \in Reqs : req'[r] = IF r \in f.rs THEN row(r) ELSE req[r]
    BY <2>3
  <2> QED
    BY <1>1, <2>1, <2>2, <2>4, <2>5
<1>7. CASE ApproveInsert(w) \/ KeySave(w) \/ OfficersSave(w) \/ ThresholdSave(w)
  <2>1. UNCHANGED req
    BY <1>7 DEF ApproveInsert, KeySave, OfficersSave, ThresholdSave, rows
  <2> QED
    BY <1>1, <2>1
<1> QED
  BY <1>2, <1>3, <1>4, <1>5, <1>6, <1>7 DEF Finish

\* The approvals and the policy: each of its variables has one writer.
LEMMA FinishPolicy ==
  ASSUME TypeInv, NEW w \in Workers, Finish(w)
  PROVE  /\ \/ UNCHANGED appr /\ h[w].op # "approve"
            \/ \E r \in h[w].rs : /\ h[w].op = "approve" /\ r \in Reqs
                                  /\ appr' = [appr EXCEPT ![r] = @ \cup {h[w].p}]
                                  /\ h'[w].op = "count" \/ (h'[w].op = "idle" /\ h[w].p \in appr[r] \ h[w].a)
         /\ officers' = IF h[w].op = "officers" THEN h[w].a ELSE officers
         /\ threshold' = IF h[w].op = "threshold" THEN h[w].t ELSE threshold
         /\ copies' = IF h[w].op = "key" THEN copies \cup h[w].a ELSE copies
<1> DEFINE f == h[w]
<1>1. f \in Frames /\ TypeOK /\ f.rs \subseteq Reqs
  BY FrameFields DEF TypeInv, TypeOK
<1>2. CASE EndSave(w) \/ CreateEnds(w) \/ CreateInsert(w) \/ ApproveCount(w) \/ SealedSave(w)
  <2>1. UNCHANGED <<appr, officers, threshold, copies>>
    BY <1>2 DEF EndSave, CreateEnds, CreateInsert, ApproveCount, SealedSave, policy
  <2>2. \E op \in {"end", "create", "insert", "count", "seal"} : h[w].op = op
    BY <1>2 DEF EndSave, CreateEnds, CreateInsert, ApproveCount, SealedSave, Step
  <2> QED
    BY <2>1, <2>2
<1>3. CASE KeySave(w) \/ OfficersSave(w) \/ ThresholdSave(w)
  BY <1>1, <1>3, StepOf DEF KeySave, OfficersSave, ThresholdSave, rows
<1>4. CASE ApproveInsert(w)
  <2>1. PICK r \in f.rs :
          /\ IF f.p \in appr[r] \ f.a THEN Step(w, "approve", Idle)
             ELSE Step(w, "approve", [f EXCEPT !.op = "count", !.a = @ \cup {f.p}])
          /\ appr' = [appr EXCEPT ![r] = @ \cup {f.p}]
          /\ UNCHANGED policy
    BY <1>4 DEF ApproveInsert
  <2>2. f.op = "approve"
    BY <1>1, <2>1, StepOf
  <2>3. CASE f.p \in appr[r] \ f.a
    <3>1. h'[w] = Idle
      BY <1>1, <2>1, <2>3, StepOf
    <3> QED
      BY <1>1, <2>1, <2>2, <2>3, <3>1, IdleFrame DEF policy
  <2>4. CASE f.p \notin appr[r] \ f.a
    <3>1. h'[w] = [f EXCEPT !.op = "count", !.a = @ \cup {f.p}]
      BY <1>1, <2>1, <2>4, StepOf
    <3>2. h'[w].op = "count"
      BY <1>1, <3>1 DEF Frames
    <3> QED
      BY <1>1, <2>1, <2>2, <3>2 DEF policy
  <2> QED
    BY <2>3, <2>4
<1> QED
  BY <1>2, <1>3, <1>4 DEF Finish

\* The steps of no handler, and a revocation that has no request to end.
Aside ==
  \/ Enrol \/ Withdraw \/ UNCHANGED vars
  \/ \E r \in Reqs : Lapse(r) \/ \E p \in People : Handoff(p, r)
  \/ \E w \in Workers : SuiteRevoked(w) /\ UNCHANGED h

LEMMA AcceptKeeps ==
  ASSUME NEW w \in Workers, Accept(w)
  PROVE  UNCHANGED <<req, appr, held, lapsed, officers, threshold>>
BY DEF Accept, Create, SuiteRevoked, CreateKey, UpdatePolicy, ExpireLapsed, Complete, Approve, Decline,
       PostSealed, rows, policy

LEMMA NextSteps ==
  ASSUME TypeInv, [Next]_vars
  PROVE  \/ \E w \in Workers : (Accept(w) /\ h' # h) \/ Finish(w)
         \/ Aside
<1>1. ASSUME NEW w \in Workers, Accept(w), h' = h PROVE Aside
  <2>1. ASSUME NEW op \in Ops \ {"idle"}, NEW rs, NEW fields \in Frames, Load(w, op, rs, fields)
        PROVE  FALSE
    <3> DEFINE xs == [r \in Reqs |-> IF r \in rs THEN req[r] ELSE NoRow]
               new == [fields EXCEPT !.op = op, !.rs = rs, !.x = xs]
    <3>1. Step(w, "idle", new)
      BY <2>1 DEF Load
    <3>2. new.op = op
      BY DEF Frames
    <3> HIDE DEF new
    <3> QED
      BY <1>1, <3>1, <3>2, StepOf DEF TypeInv
  <2>2. {"create", "key", "officers", "end", "approve", "seal"} \subseteq Ops \ {"idle"}
    BY DEF Ops
  <2>3. /\ \A t \in Reqs : [Idle EXCEPT !.t = t] \in Frames
        /\ \A a \in SUBSET People : [Idle EXCEPT !.a = a] \in Frames
        /\ \A a \in SUBSET People, t \in Thresholds : [Idle EXCEPT !.a = a, !.t = t] \in Frames
        /\ \A st \in Statuses : [Idle EXCEPT !.st = st] \in Frames
        /\ \A p \in People, a \in SUBSET People : [Idle EXCEPT !.p = p, !.a = a] \in Frames
        /\ \A p \in People : [Idle EXCEPT !.p = p] \in Frames
    BY IdleFrame DEF Frames
  <2>4. /\ n < MaxRequests => n + 1 \in Reqs
        /\ officers \in SUBSET People /\ \A r \in Reqs : appr[r] \in SUBSET People
        /\ {"fulfilled", "declined", "expired"} \subseteq Statuses
    BY BoundsAssumption DEF TypeInv, TypeOK, Reqs, Statuses
  <2>5. CASE SuiteRevoked(w)
    BY <1>1, <2>5 DEF Aside
  <2>6. ~Create(w) /\ ~CreateKey(w) /\ ~ExpireLapsed(w)
    BY <2>1, <2>2, <2>3, <2>4 DEF Create, CreateKey, ExpireLapsed
  <2>7. ~UpdatePolicy(w)
    BY <2>1, <2>2, <2>3 DEF UpdatePolicy
  <2>8. ASSUME NEW r \in Reqs PROVE ~Complete(w, r)
    BY <2>1, <2>2, <2>3, <2>4 DEF Complete
  <2>9. ASSUME NEW r \in Reqs, NEW p \in People PROVE ~Approve(w, p, r) /\ ~Decline(w, p, r) /\ ~PostSealed(w, p, r)
    BY <2>1, <2>2, <2>3, <2>4 DEF Approve, Decline, PostSealed
  <2> QED
    BY <1>1, <2>5, <2>6, <2>7, <2>8, <2>9 DEF Accept
<1> QED
  BY <1>1 DEF Next, Aside

LEMMA AsideOf ==
  ASSUME TypeInv, Aside
  PROVE  /\ UNCHANGED <<req, n, appr, on, officers, threshold, copies, policies, h>>
         /\ lapsed' \subseteq Reqs /\ current' \subseteq Reqs /\ enrolled' \in BOOLEAN
         /\ held' \in [Reqs -> SUBSET People]
         /\ \/ UNCHANGED held
            \/ \E p \in People, r \in Reqs :
                 /\ held' = [held EXCEPT ![r] = @ \cup {p}]
                 /\ req[r].st = "approved" /\ p \in appr[r]
<1> USE DEF TypeInv, TypeOK
<1>1. ASSUME NEW r \in Reqs, NEW p \in People, Handoff(p, r)
      PROVE  /\ UNCHANGED <<req, n, appr, lapsed, current, enrolled, policy, h>>
             /\ held' = [held EXCEPT ![r] = @ \cup {p}] /\ held' \in [Reqs -> SUBSET People]
             /\ req[r].st = "approved" /\ p \in appr[r]
  BY <1>1 DEF Handoff, MayHandle
<1>2. CASE Enrol \/ Withdraw \/ UNCHANGED vars
  BY <1>2 DEF Enrol, Withdraw, vars, policy
<1>3. CASE \E r \in Reqs : Lapse(r)
  BY <1>3 DEF Lapse, policy
<1>4. CASE \E w \in Workers : SuiteRevoked(w) /\ UNCHANGED h
  BY <1>4 DEF SuiteRevoked, policy
<1>5. CASE \E r \in Reqs, p \in People : Handoff(p, r)
  BY <1>1, <1>5 DEF policy
<1> QED
  BY <1>2, <1>3, <1>4, <1>5 DEF Aside

LEMMA TypeStep ==
  ASSUME TypeInv, [Next]_vars
  PROVE  TypeInv'
<1> SUFFICES TypeInv'
  OBVIOUS
<1>1. ASSUME NEW w \in Workers, Accept(w), h' # h PROVE TypeInv'
  <2>1. Accepted(w) /\ UNCHANGED <<req, appr, held, lapsed, officers, threshold>>
    BY <1>1, AcceptOf, AcceptKeeps
  <2>2. h' \in [Workers -> Frames] /\ \A v \in Workers : FrameOK(h'[v])
    <3>1. \E new : h' = [h EXCEPT ![w] = new]
      BY <1>1 DEF Accept, Create, SuiteRevoked, CreateKey, UpdatePolicy, ExpireLapsed, Complete, Approve,
                  Decline, PostSealed, Load, Step
    <3> QED
      BY <2>1, <3>1 DEF Accepted, TypeInv, TypeOK
  <2>3. /\ current' \subseteq Reqs /\ enrolled' \in BOOLEAN /\ on' \in BOOLEAN
        /\ copies' \subseteq People /\ policies' \in 0..MaxPolicies /\ n' \in 0..MaxRequests
    <3>1. CASE Create(w)
      BY <3>1, BoundsAssumption DEF Create, policy, TypeInv, TypeOK, Reqs
    <3>2. CASE UpdatePolicy(w)
      BY <3>2, BoundsAssumption DEF UpdatePolicy, rows, TypeInv, TypeOK
    <3>3. CASE ~Create(w) /\ ~UpdatePolicy(w)
      BY <1>1, <3>3 DEF Accept, SuiteRevoked, CreateKey, ExpireLapsed, Complete, Approve, Decline,
                        PostSealed, rows, policy, TypeInv, TypeOK
    <3> QED
      BY <3>1, <3>2, <3>3
  <2> QED
    BY <2>1, <2>2, <2>3 DEF TypeInv, TypeOK
<1>2. ASSUME NEW w \in Workers, Finish(w) PROVE TypeInv'
  <2>1. h[w] \in Frames /\ FrameOK(h[w]) /\ h[w].a \subseteq People
    BY FrameFields DEF TypeInv, TypeOK
  <2>2. /\ Continued(h[w], h'[w]) /\ \A v \in Workers : v # w => h'[v] = h[v]
        /\ UNCHANGED <<n, held, lapsed, current, enrolled, on, policies>>
    BY <1>2, FinishOf
  <2>3. h' \in [Workers -> Frames] /\ \A v \in Workers : FrameOK(h'[v])
    <3>1. \E new : h' = [h EXCEPT ![w] = new]
      BY <1>2 DEF Finish, EndSave, CreateEnds, CreateInsert, ApproveInsert, ApproveCount, SealedSave,
                  KeySave, OfficersSave, ThresholdSave, Step
    <3>2. h'[w] \in Frames /\ FrameOK(h'[w])
      BY <2>1, <2>2, ContinuedFrame
    <3> QED
      BY <2>2, <3>1, <3>2 DEF TypeInv, TypeOK
  <2>4. req' \in [Reqs -> Rows]
    BY <1>2, FinishRows
  <2>5. /\ officers' \subseteq People /\ threshold' \in Thresholds \cup {1} /\ copies' \subseteq People
    BY <1>2, <2>1, FinishPolicy DEF TypeInv, TypeOK, FrameOK
  <2>6. appr' \in [Reqs -> SUBSET People]
    <3>1. CASE UNCHANGED appr
      BY <3>1 DEF TypeInv, TypeOK
    <3>2. ASSUME NEW r \in Reqs, appr' = [appr EXCEPT ![r] = @ \cup {h[w].p}], h[w].op = "approve"
          PROVE  appr' \in [Reqs -> SUBSET People]
      BY <2>1, <3>2 DEF TypeInv, TypeOK, FrameOK
    <3> QED
      BY <1>2, <3>1, <3>2, FinishPolicy
  <2> QED
    BY <2>2, <2>3, <2>4, <2>5, <2>6 DEF TypeInv, TypeOK
<1>3. CASE Aside
  BY <1>3, AsideOf DEF TypeInv, TypeOK
<1> QED
  BY <1>1, <1>2, <1>3, NextSteps

LEMMA TypeInit == Init => TypeInv
<1> SUFFICES ASSUME Init PROVE TypeInv
  OBVIOUS
<1>1. h \in [Workers -> Frames] /\ \A w \in Workers : FrameOK(h[w])
  BY IdleFrame DEF Init, FrameOK
<1>2. /\ req \in [Reqs -> Rows] /\ appr \in [Reqs -> SUBSET People] /\ held \in [Reqs -> SUBSET People]
      /\ 0 \in 0..MaxRequests /\ 0 \in 0..MaxPolicies
  BY IdleFrame, BoundsAssumption DEF Init
<1> QED
  BY <1>1, <1>2 DEF Init, TypeInv, TypeOK

\* Every variable has its type, whatever overlaps.
THEOREM TypeCorrect == Spec => []TypeOK
<1>1. TypeInv => TypeOK
  BY DEF TypeInv
<1> QED
  BY <1>1, TypeInit, TypeStep, PTL DEF Spec

-----------------------------------------------------------------------------
(* The threshold that approvals are counted against is one that was chosen.  *)

LEMMA OfficersGoOn ==
  ASSUME TypeInv, NEW w \in Workers, Finish(w), h[w].op = "officers"
  PROVE  h'[w].op = "threshold"
<1>1. TypeOK /\ h[w] \in Frames
  BY DEF TypeInv, TypeOK
<1>2. OfficersSave(w)
  BY <1>1 DEF Finish, EndSave, CreateEnds, CreateInsert, ApproveInsert, ApproveCount, SealedSave, KeySave,
              ThresholdSave, Step
<1>3. h'[w] = [h[w] EXCEPT !.op = "threshold", !.a = {}]
  BY <1>1, <1>2, StepOf DEF OfficersSave
<1> QED
  BY <1>1, <1>3 DEF Frames

LEMMA ThresholdStep ==
  ASSUME PolicyApart \subseteq Conflicts, TypeInv, ThresholdInv, [Next]_vars
  PROVE  ThresholdInv'
<1>1. ASSUME NEW w \in Workers, Accept(w), h' # h PROVE ThresholdInv'
  <2>1. Accepted(w) /\ UNCHANGED <<officers, threshold>>
    BY <1>1, AcceptOf, AcceptKeeps
  <2>2. \A v \in Workers : v # w => h'[v] = h[v] /\ {h'[w].op, h[v].op} \notin PolicyApart
    BY <2>1 DEF Accepted
  <2>3. h[w].op = "idle"
    BY <2>1 DEF Accepted
  <2>4. \A v \in Workers : h[v].op = "threshold" => h'[v].op = "threshold"
    BY <2>2, <2>3
  <2>5. ASSUME Counting(w)' PROVE threshold \in Thresholds
    <3>1. officers # {}
      BY <2>1, <2>5 DEF Accepted, Counting
    <3>2. ASSUME NEW v \in Workers, h[v].op = "threshold" PROVE FALSE
      <4>1. v # w /\ {h[v].op, h'[w].op} \in PolicyApart
        BY <2>3, <2>5, <3>2 DEF PolicyApart, Both, Counting
      <4>2. {h[v].op, h'[w].op} = {h'[w].op, h[v].op}
        OBVIOUS
      <4> QED
        BY <2>2, <4>1, <4>2
    <3> QED
      BY <3>1, <3>2 DEF ThresholdInv
  <2>6. \A v \in Workers : Counting(v)' => threshold \in Thresholds
    BY <2>2, <2>5 DEF ThresholdInv, Counting
  <2> QED
    BY <2>1, <2>4, <2>6 DEF ThresholdInv
<1>2. ASSUME NEW w \in Workers, Finish(w) PROVE ThresholdInv'
  <2>1. /\ h[w] \in Frames /\ FrameOK(h[w]) /\ Continued(h[w], h'[w])
        /\ \A v \in Workers : v # w => h'[v] = h[v]
    BY <1>2, FinishOf DEF TypeInv, TypeOK
  <2>2. /\ Counting(w)' => Counting(w)
        /\ h[w].op = "officers" => h'[w].op \in {"idle", "threshold"}
    BY <2>1, ContinuedFrame DEF Counting
  <2>3. /\ officers' = IF h[w].op = "officers" THEN h[w].a ELSE officers
        /\ threshold' = IF h[w].op = "threshold" THEN h[w].t ELSE threshold
    BY <1>2, FinishPolicy
  <2>4. h[w].op = "threshold" => threshold' \in Thresholds
    BY <2>1, <2>3 DEF FrameOK
  <2>5. \A v \in Workers : Counting(v)' => threshold' \in Thresholds
    BY <2>1, <2>2, <2>3, <2>4 DEF ThresholdInv, Counting
  <2>6. CASE h[w].op = "officers"
    <3>1. h'[w].op = "threshold"
      BY <1>2, <2>6, OfficersGoOn
    <3> QED
      BY <2>5, <3>1 DEF ThresholdInv
  <2>7. CASE h[w].op # "officers"
    BY <2>1, <2>3, <2>4, <2>5, <2>7 DEF ThresholdInv
  <2> QED
    BY <2>6, <2>7
<1>3. CASE Aside
  BY <1>3, AsideOf DEF ThresholdInv, Counting
<1> QED
  BY <1>1, <1>2, <1>3, NextSteps

LEMMA ThresholdInit == Init => ThresholdInv
<1> SUFFICES ASSUME Init PROVE ThresholdInv
  OBVIOUS
<1>1. officers = {} /\ \A w \in Workers : h[w].op = "idle"
  BY IdleFrame DEF Init
<1> QED
  BY <1>1 DEF ThresholdInv, Counting

-----------------------------------------------------------------------------
(* QuorumBehindApproval: no approval is lost, so a quorum stays one.        *)

LEMMA CardinalityGrows ==
  ASSUME NEW S, NEW T, S \subseteq T, T \subseteq People
  PROVE  Cardinality(S) \in Nat /\ Cardinality(T) \in Nat /\ Cardinality(S) <= Cardinality(T)
<1>1. IsFiniteSet(T)
  BY PeopleAssumption, FS_Subset
<1> QED
  BY <1>1, FS_Subset, FS_CardinalityType

LEMMA ApprovalsStay ==
  ASSUME TypeInv, [Next]_vars
  PROVE  \A r \in Reqs : /\ appr[r] \subseteq appr'[r] /\ appr'[r] \subseteq People
                         /\ Quorum(r) => Quorum(r)'
<1>1. \A r \in Reqs : appr[r] \subseteq appr'[r]
  <2>1. ASSUME NEW w \in Workers, Finish(w) PROVE <1>1!:
    <3>1. CASE UNCHANGED appr
      BY <3>1
    <3>2. ASSUME NEW r \in Reqs, appr' = [appr EXCEPT ![r] = @ \cup {h[w].p}] PROVE <1>1!:
      BY <3>2 DEF TypeInv, TypeOK
    <3> QED
      BY <2>1, <3>1, <3>2, FinishPolicy
  <2> QED
    BY <2>1, AcceptKeeps, AsideOf, NextSteps
<1>2. \A r \in Reqs : appr'[r] \subseteq People
  BY TypeStep DEF TypeInv, TypeOK
<1>3. ASSUME NEW r \in Reqs, Quorum(r) PROVE Quorum(r)'
  <2>1. PICK t \in Thresholds : Cardinality(appr[r]) >= t
    BY <1>3 DEF Quorum
  <2>2. t \in Nat
    BY ThresholdsAssumption
  <2>3. Cardinality(appr[r]) \in Nat /\ Cardinality(appr'[r]) \in Nat /\ Cardinality(appr[r]) <= Cardinality(appr'[r])
    BY <1>1, <1>2, CardinalityGrows
  <2>4. Cardinality(appr'[r]) >= t
    BY <2>1, <2>2, <2>3
  <2> QED
    BY <2>4 DEF Quorum
<1> QED
  BY <1>1, <1>2, <1>3

LEMMA QuorumAccept ==
  ASSUME QuorumInv, NEW w \in Workers, Accept(w), h' # h
  PROVE  QuorumSteps' /\ QuorumBehindApproval'
<1>1. Accepted(w) /\ UNCHANGED <<req, appr, held>>
  BY AcceptOf, AcceptKeeps DEF QuorumInv
<1>2. \A v \in Workers : v # w => h'[v] = h[v]
  BY <1>1 DEF Accepted
<1>3. QuorumBehindApproval'
  BY <1>1 DEF QuorumInv, QuorumBehindApproval
<1>4. \A r \in h'[w].rs :
        /\ Counting(w)' => h'[w].a \subseteq appr[r]
        /\ h'[w].op = "end" /\ h'[w].st = "fulfilled" => Quorum(r)
        /\ h'[w].op = "seal" => h'[w].p \in appr[r]
  <2>1. CASE h'[w].op = "approve"
    BY <1>1, <2>1 DEF Accepted, Counting
  <2>2. CASE h'[w].op = "end"
    <3>1. h'[w].rs \subseteq Reqs
      BY <1>1, FrameFields DEF Accepted
    <3>2. h'[w].st = "fulfilled" => \A r \in h'[w].rs : req[r].st = "approved"
      BY <1>1, <2>2 DEF Accepted
    <3> QED
      BY <2>2, <3>1, <3>2 DEF QuorumInv, QuorumBehindApproval, Quorum, Counting
  <2>3. CASE h'[w].op = "seal"
    BY <1>1, <2>3 DEF Accepted, Counting
  <2>4. CASE h'[w].op \in {"create", "key", "officers"}
    BY <2>4 DEF Counting
  <2> QED
    BY <1>1, <2>1, <2>2, <2>3, <2>4 DEF Accepted
<1>5. \A r : Quorum(r)' = Quorum(r)
  BY <1>1 DEF Quorum
<1> QED
  BY <1>1, <1>2, <1>3, <1>4, <1>5 DEF QuorumInv, QuorumSteps, Counting

LEMMA QuorumFinish ==
  ASSUME QuorumInv, NEW w \in Workers, Finish(w)
  PROVE  QuorumSteps' /\ QuorumBehindApproval'
<1> DEFINE f == h[w]
<1>1. /\ TypeInv /\ ThresholdInv /\ QuorumSteps /\ QuorumBehindApproval
      /\ f \in Frames /\ FrameOK(f)
      /\ \A v \in Workers : h[v].rs \subseteq Reqs
  BY FrameFields DEF QuorumInv, TypeInv, TypeOK
<1>2. Continued(f, h'[w]) /\ \A v \in Workers : v # w => h'[v] = h[v]
  BY <1>1, FinishOf
<1>3. \A r \in Reqs : /\ appr[r] \subseteq appr'[r]
                      /\ Quorum(r) => Quorum(r)'
  BY <1>1, ApprovalsStay DEF Next
<1>4. ASSUME NEW v \in Workers, NEW r \in h'[v].rs
      PROVE  /\ Counting(v)' => h'[v].a \subseteq appr'[r]
             /\ h'[v].op = "end" /\ h'[v].st = "fulfilled" => Quorum(r)'
             /\ h'[v].op = "seal" => h'[v].p \in appr'[r]
  <2>1. CASE v # w
    <3>1. r \in h[v].rs /\ r \in Reqs /\ h'[v] = h[v]
      BY <1>1, <1>2, <1>4, <2>1
    <3> QED
      BY <1>1, <1>3, <3>1 DEF QuorumSteps, Counting
  <2>2. CASE v = w
    <3>1. /\ f.op = "approve" /\ h'[w].op = "count" /\ h'[w].rs = f.rs
          /\ h'[w].a = f.a \cup {f.p}
      BY <1>1, <1>2, <1>4, <2>2, ContinuedFrame
    <3>2. PICK q \in Reqs : f.rs = {q}
      BY <1>1, <3>1 DEF FrameOK
    <3>3. appr' = [appr EXCEPT ![q] = @ \cup {f.p}]
      BY <1>1, <3>1, <3>2, FinishPolicy
    <3>4. r = q /\ f.a \subseteq appr[q] /\ appr'[q] = appr[q] \cup {f.p}
      BY <1>1, <1>4, <2>2, <3>1, <3>2, <3>3 DEF QuorumSteps, Counting, TypeInv, TypeOK
    <3> QED
      BY <2>2, <3>1, <3>4
  <2> QED
    BY <2>1, <2>2
<1>5. ASSUME NEW r \in Reqs, req'[r].st \in {"approved", "fulfilled"} \/ held'[r] # {} PROVE Quorum(r)'
  <2> SUFFICES Quorum(r)
    BY <1>3
  <2>1. CASE held'[r] # {}
    <3>1. held[r] # {}
      BY <1>1, <2>1, FinishOf
    <3> QED
      BY <1>1, <3>1 DEF QuorumBehindApproval, Quorum
  <2>2. CASE req'[r].st = req[r].st /\ held'[r] = {}
    BY <1>1, <1>5, <2>2 DEF QuorumBehindApproval, Quorum
  <2>3. CASE f.op = "end" /\ r \in f.rs /\ req'[r].st = f.st /\ held'[r] = {}
    <3>1. f.st = "fulfilled"
      BY <1>1, <1>5, <2>3 DEF FrameOK
    <3> QED
      BY <1>1, <2>3, <3>1 DEF QuorumSteps
  <2>4. CASE f.op = "count" /\ r \in f.rs /\ Cardinality(f.a) >= threshold
    <3>1. f.a \subseteq appr[r] /\ appr[r] \subseteq People /\ threshold \in Thresholds /\ threshold \in Nat
      BY <1>1, <2>4, ThresholdsAssumption DEF QuorumSteps, ThresholdInv, Counting, TypeInv, TypeOK
    <3>2. Cardinality(f.a) \in Nat /\ Cardinality(appr[r]) \in Nat /\ Cardinality(f.a) <= Cardinality(appr[r])
      BY <3>1, CardinalityGrows
    <3>3. Cardinality(appr[r]) >= threshold
      BY <2>4, <3>1, <3>2
    <3> QED
      BY <3>1, <3>3 DEF Quorum
  <2>5. \/ req'[r].st = req[r].st
        \/ f.op = "end" /\ r \in f.rs /\ req'[r].st = f.st
        \/ f.op = "count" /\ r \in f.rs /\ Cardinality(f.a) >= threshold
        \/ req'[r].st \in {"pending", "expired"}
    BY <1>1, FinishRows DEF Put
  <2> QED
    BY <1>5, <2>1, <2>2, <2>3, <2>4, <2>5
<1>6. ASSUME NEW r \in Reqs PROVE held'[r] \cup ({req'[r].by} \ {Nobody}) \subseteq appr'[r]
  <2>1. held'[r] \subseteq appr[r] /\ {req[r].by} \ {Nobody} \subseteq appr[r]
    BY <1>1, FinishOf DEF QuorumBehindApproval
  <2>2. \/ req'[r].by \in {req[r].by, Nobody}
        \/ f.op = "seal" /\ r \in f.rs /\ req'[r].by = f.p
    BY <1>1, FinishRows
  <2>3. f.op = "seal" /\ r \in f.rs => f.p \in appr[r]
    BY <1>1 DEF QuorumSteps
  <2> QED
    BY <1>3, <2>1, <2>2, <2>3
<1> QED
  BY <1>4, <1>5, <1>6 DEF QuorumSteps, QuorumBehindApproval, Quorum

\* Behind every approved request, and every envelope that was handed out, is a
\* quorum of distinct officers, if none approves between the two writes of a
\* policy (approve, handoff, postSealed and complete).
THEOREM QuorumApproved ==
  ASSUME PolicyApart \subseteq Conflicts
  PROVE  Spec => []QuorumBehindApproval
<1>1. Init => QuorumInv
  <2> SUFFICES ASSUME Init PROVE QuorumInv
    OBVIOUS
  <2>1. \A w \in Workers : h[w].rs = {}
    BY IdleFrame DEF Init
  <2>2. \A r \in Reqs : req[r].st = "none" /\ req[r].by = Nobody /\ held[r] = {}
    BY DEF Init, NoRows, NoRow
  <2> QED
    BY <2>1, <2>2, TypeInit, ThresholdInit DEF QuorumInv, QuorumSteps, QuorumBehindApproval
<1>2. QuorumInv => QuorumBehindApproval
  BY DEF QuorumInv
<1>3. QuorumInv /\ [Next]_vars => QuorumInv'
  <2> SUFFICES ASSUME QuorumInv, [Next]_vars PROVE QuorumSteps' /\ QuorumBehindApproval'
    BY TypeStep, ThresholdStep DEF QuorumInv
  <2>1. CASE Aside
    <3>1. /\ UNCHANGED <<req, appr, h>> /\ held \in [Reqs -> SUBSET People]
      BY <2>1, AsideOf DEF QuorumInv, TypeInv, TypeOK
    <3>2. QuorumSteps'
      BY <3>1 DEF QuorumInv, QuorumSteps, Counting, Quorum
    <3>3. CASE UNCHANGED held
      BY <3>1, <3>3, <3>2 DEF QuorumInv, QuorumBehindApproval
    <3>4. ASSUME NEW p \in People, NEW r \in Reqs, held' = [held EXCEPT ![r] = @ \cup {p}],
                 req[r].st = "approved", p \in appr[r]
          PROVE  QuorumBehindApproval'
      <4>1. \E t \in Thresholds : Cardinality(appr[r]) >= t
        BY <3>4 DEF QuorumInv, QuorumBehindApproval
      <4>2. held'[r] = held[r] \cup {p} /\ \A q \in Reqs : q # r => held'[q] = held[q]
        BY <3>1, <3>4
      <4> QED
        BY <3>1, <3>4, <4>1, <4>2 DEF QuorumInv, QuorumBehindApproval
    <3> QED
      BY <2>1, <3>2, <3>3, <3>4, AsideOf DEF QuorumInv
  <2> QED
    BY <2>1, QuorumAccept, QuorumFinish, NextSteps DEF QuorumInv
<1> QED
  BY <1>1, <1>2, <1>3, PTL DEF Spec
=============================================================================
