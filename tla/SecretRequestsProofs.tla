------------------------ MODULE SecretRequestsProofs ------------------------
(***************************************************************************)
(* Theorems about SecretRequests, for any number of processes, requests and *)
(* suites, and whatever overlaps.                                           *)
(***************************************************************************)
EXTENDS SecretRequests, TLAPS

\* What the requests of recoveries do.
Recovery ==
  RecoverStarts \/ SetCompleted \/ SetAborted \/ \E m \in moves : Recover(m) \/ RecoveryStops(m)

Creating(w) == h[w].op \in {"fresh", "create", "rerequest"}

\* A worker that is at work has a request.
TypeInv == TypeOK /\ \A w \in Workers : h[w].op # "idle" => h[w].r \in Reqs

\* A request that is being created is its worker's alone.
NumberInv ==
  /\ \A r \in Reqs : r > n => req[r].st = "none" /\ answered[r] = 0
  /\ \A w \in Workers : h[w].op # "idle" => h[w].r <= n
  /\ \A w \in Workers : Creating(w) => req[h[w].r].st = "none" /\ answered[h[w].r] = 0
  /\ \A v, w \in Workers : v # w /\ Creating(w) /\ h[v].op # "idle" => h[v].r # h[w].r

\* What was answered is not open, and will not be again.
ClosedInv ==
  TypeInv /\ NumberInv /\ \A r \in Reqs : answered[r] > 0 => req[r].st \notin {"pending", "locked"}

\* Before the secret there is no request; without a value it holds no answer, and
\* none is on its way.
EmptyInv ==
  /\ TypeInv /\ NumberInv /\ (secret.at = "none" => n = 0)
  /\ EmptyIsUnanswered
  /\ Kept /\ secret.val = 0 => \A w \in Workers : h[w].op # "mark"

\* A recovery that starts is alone, and begins without a lock.
LockedInv ==
  /\ TypeInv /\ NoneStranded /\ \A r \in Reqs : req[r].st = "locked" => req[r].suite \in Suites
  /\ \A m \in moves : m.at = "open" => from = 0 /\ \A k \in moves : k.at = "open" => k = m

OrphanInv == TypeInv /\ NoKeylessOrphan

-----------------------------------------------------------------------------
(* Type correctness, and that a worker's request is one that was begun.      *)

Requests == [st : Statuses, suite : Suites \cup {0}, re : BOOLEAN]
Secrets == [at : {"none", "kept", "deleted", "purged"}, val : 0..Own,
            sealed : Suites \cup {0}, suite : Suites \cup {0}]
Handlers == [op : Ops, r : Reqs \cup {0}, s : Suites \cup {0}]

\* A step of w leaves the other workers where they are, and overlaps none that
\* its operation is to be apart from.
LEMMA StepOf ==
  ASSUME TypeOK, NEW w \in Workers, NEW op, NEW new, Step(w, op, new)
  PROVE  /\ h[w].op = op /\ h'[w] = new
         /\ \A v \in Workers : v # w => h'[v] = h[v] /\ {new.op, h[v].op} \notin Conflicts
  BY DEF Step, TypeOK

LEMMA StepTyped ==
  ASSUME TypeInv, NEW w \in Workers, NEW op, NEW new, Step(w, op, new), new \in Handlers,
         new.op # "idle" => new.r \in Reqs
  PROVE  h' \in [Workers -> Handlers] /\ \A v \in Workers : h'[v].op # "idle" => h'[v].r \in Reqs
<1>1. h' \in [Workers -> Handlers]
  BY DEF Step, TypeInv, TypeOK, Handlers
<1>2. ASSUME NEW v \in Workers, h'[v].op # "idle" PROVE h'[v].r \in Reqs
  BY <1>2, StepOf DEF TypeInv
<1> QED
  BY <1>1, <1>2

LEMMA DeleteOf ==
  ASSUME TypeOK, NEW how \in {"deleted", "purged"}, Delete(how)
  PROVE  /\ secret' \in Secrets /\ req' \in [Reqs -> Requests]
         /\ secret'.at = how /\ secret'.val = secret.val /\ secret'.suite = secret.suite
         /\ \A r \in Reqs : req'[r].st = "none"
<1>1. secret' = [secret EXCEPT !.at = how] /\ secret \in Secrets
  BY DEF Delete, TypeOK, Secrets
<1>2. NoRequest \in Requests /\ NoRequest.st = "none"
  BY DEF NoRequest, Statuses, Requests
<1>3. req' = [r \in Reqs |-> NoRequest]
  BY DEF Delete
<1> QED
  BY <1>1, <1>2, <1>3 DEF Secrets

LEMMA MarkOf ==
  ASSUME TypeOK, NEW r \in Reqs, NEW st \in Statuses, Mark(r, st)
  PROVE  /\ req' \in [Reqs -> Requests]
         /\ \A x \in Reqs : x # r => req'[x] = req[x]
         /\ req'[r].suite = req[r].suite
         /\ req'[r].st = IF req[r].st = "none" THEN "none" ELSE st
<1>1. req \in [Reqs -> Requests] /\ req[r] \in Requests
  BY DEF TypeOK, Requests
<1>2. req' = [req EXCEPT ![r] = [req[r] EXCEPT !.st = IF req[r].st = "none" THEN req[r].st ELSE st]]
  BY DEF Mark
<1>3. [req[r] EXCEPT !.st = IF req[r].st = "none" THEN req[r].st ELSE st] \in Requests
  BY <1>1 DEF Requests
<1>4. req' \in [Reqs -> Requests]
  BY <1>1, <1>2, <1>3
<1>5. req'[r] = [req[r] EXCEPT !.st = IF req[r].st = "none" THEN req[r].st ELSE st]
  BY <1>1, <1>2
<1> QED
  BY <1>1, <1>2, <1>4, <1>5 DEF Requests

LEMMA MoveOf ==
  ASSUME TypeOK, NEW s, NEW st, NEW newst \in Statuses, NEW news \in Suites, Move(s, st, newst, news)
  PROVE  /\ req' \in [Reqs -> Requests]
         /\ \A r \in Reqs : IF req[r].suite = s /\ req[r].st = st
                            THEN req'[r].st = newst /\ req'[r].suite = news
                            ELSE req'[r] = req[r]
<1>1. ASSUME NEW r \in Reqs
      PROVE  req[r] \in Requests /\ [req[r] EXCEPT !.st = newst, !.suite = news] \in Requests
  <2>1. req[r] \in Requests
    BY DEF TypeOK, Requests
  <2> QED
    BY <2>1 DEF Requests
<1>2. req' = [r \in Reqs |-> IF req[r].suite = s /\ req[r].st = st
                            THEN [req[r] EXCEPT !.st = newst, !.suite = news] ELSE req[r]]
  BY DEF Move
<1>3. req' \in [Reqs -> Requests]
  BY <1>1, <1>2
<1>4. ASSUME NEW r \in Reqs
      PROVE  IF req[r].suite = s /\ req[r].st = st
             THEN req'[r].st = newst /\ req'[r].suite = news
             ELSE req'[r] = req[r]
  BY <1>1, <1>2 DEF Requests
<1> QED
  BY <1>3, <1>4

LEMMA LoadTyped ==
  ASSUME TypeInv, NEW w \in Workers, NEW op \in Ops, NEW r \in Reqs, NEW s \in Suites \cup {0},
         Load(w, op, r, s)
  PROVE  h' \in [Workers -> Handlers] /\ \A v \in Workers : h'[v].op # "idle" => h'[v].r \in Reqs
<1>1. [op |-> op, r |-> r, s |-> s] \in Handlers
  BY DEF Handlers
<1> QED
  BY <1>1, StepTyped DEF Load

LEMMA NextRequest ==
  ASSUME TypeOK, n < MaxRequests
  PROVE  n + 1 \in Reqs /\ n + 1 \in 0..MaxRequests
<1>1. n \in Nat
  BY DEF TypeOK
<1> QED
  BY <1>1, RequestsAssumption DEF Reqs

\* What a worker takes on.
LEMMA AcceptTyped ==
  ASSUME TypeInv, NEW w \in Workers, Accept(w) \/ \E r \in Reqs : ExpireLapsed(w, r)
  PROVE  TypeInv'
<1>1. suite \in Suites /\ secret.suite \in Suites \cup {0}
  BY DEF TypeInv, TypeOK
<1>2. secret' = secret \/ secret' = [secret EXCEPT !.at = "kept", !.suite = suite]
  BY DEF Accept, Fresh, Create, ReRequest, Approve, Decline, Fill, ExpireLapsed
<1>3. secret' \in Secrets
  BY <1>1, <1>2 DEF TypeInv, TypeOK, Requests, Secrets
<1>4. n' \in 0..MaxRequests
  BY NextRequest
     DEF Accept, Fresh, Create, ReRequest, Approve, Decline, Fill, ExpireLapsed, TypeInv, TypeOK
<1>5. UNCHANGED <<req, lapsed, migration, pages, answered>>
  BY DEF Accept, Fresh, Create, ReRequest, Approve, Decline, Fill, ExpireLapsed, migration
<1>6. h' \in [Workers -> Handlers] /\ \A v \in Workers : h'[v].op # "idle" => h'[v].r \in Reqs
  <2>1. {"fresh", "create", "rerequest", "approve", "decline", "fill", "expire"} \subseteq Ops
    BY DEF Ops
  <2>2. CASE Fresh(w)
    BY <1>1, <2>1, <2>2, LoadTyped, NextRequest DEF Fresh, TypeInv
  <2>3. CASE Create(w)
    BY <1>1, <2>1, <2>3, LoadTyped, NextRequest DEF Create, TypeInv
  <2>4. CASE ReRequest(w)
    BY <1>1, <2>1, <2>4, LoadTyped, NextRequest DEF ReRequest, TypeInv
  <2>5. ASSUME NEW r \in Reqs, Approve(w, r) \/ Decline(w, r) \/ Fill(w, r) \/ ExpireLapsed(w, r)
        PROVE  <1>6!:
    BY <2>1, <2>5, LoadTyped DEF Approve, Decline, Fill, ExpireLapsed
  <2> QED
    BY <2>2, <2>3, <2>4, <2>5 DEF Accept
<1> QED
  BY <1>3, <1>4, <1>5, <1>6 DEF TypeInv, TypeOK, Handlers, Secrets, Requests, migration

\* What it goes on to.
LEMMA FinishTyped ==
  ASSUME TypeInv, NEW w \in Workers, Finish(w)
  PROVE  TypeInv'
<1> DEFINE f == h[w]
<1>1. f \in Handlers /\ Idle \in Handlers /\ Idle.op = "idle"
      /\ \A op \in Ops : [f EXCEPT !.op = op] \in Handlers /\ [f EXCEPT !.op = op].r = f.r
  BY DEF TypeInv, TypeOK, Handlers, Secrets, Requests, Idle, Ops
<1>2. f.op # "idle" /\ f.r \in Reqs /\ f.s \in Suites \cup {0}
  <2>1. f.op # "idle"
    BY DEF Finish, FreshRolledBack, Insert, ApproveSave, DeclineSave, Look, CleanDelete, FillStore,
           FillMark, Transition, Step
  <2> QED
    BY <1>1, <2>1 DEF TypeInv, Handlers
<1>3. h' \in [Workers -> Handlers] /\ \A v \in Workers : h'[v].op # "idle" => h'[v].r \in Reqs
  <2>1. {"look", "clean", "mark"} \subseteq Ops
    BY DEF Ops
  <2>2. \E op, new : /\ Step(w, op, new)
                     /\ new = Idle \/ \E o \in {"look", "clean", "mark"} : new = [f EXCEPT !.op = o]
    BY DEF Finish, FreshRolledBack, Insert, ApproveSave, DeclineSave, Look, CleanDelete, FillStore,
           FillMark, Transition
  <2> QED
    BY <1>1, <1>2, <2>1, <2>2, StepTyped
<1>4. UNCHANGED <<n, lapsed, migration, pages>>
  BY DEF Finish, FreshRolledBack, Insert, ApproveSave, DeclineSave, Look, CleanDelete, FillStore,
         FillMark, Transition, migration
<1>5. answered' \in [Reqs -> Nat]
  BY DEF Finish, FreshRolledBack, Insert, ApproveSave, DeclineSave, Look, CleanDelete, FillStore,
         FillMark, Transition, TypeInv, TypeOK
<1>6. /\ secret' \in Secrets
      /\ req' \in [Reqs -> Requests]
  <2>1. CASE Delete("deleted")
    BY <2>1, DeleteOf DEF TypeInv
  <2>2. CASE UNCHANGED secret /\ \E st \in Statuses : Mark(f.r, st)
    BY <1>2, <2>2, MarkOf DEF TypeInv, TypeOK, Secrets
  <2>3. CASE UNCHANGED <<secret, req>>
    BY <2>3 DEF TypeInv, TypeOK, Requests, Secrets
  <2>4. CASE FillStore(w)
    <3>1. f.r \in 0..Own
      BY <1>2, RequestsAssumption DEF Reqs, Own
    <3> QED
      BY <1>2, <2>4, <3>1 DEF FillStore, TypeInv, TypeOK, Requests, Secrets
  <2>5. CASE Insert(w)
    BY <1>2, <2>5 DEF Insert, TypeInv, TypeOK, Requests, Secrets, Statuses
  <2>6. {"fulfilled", "declined", "expired"} \subseteq Statuses
    BY DEF Statuses
  <2> QED
    BY <2>1, <2>2, <2>3, <2>4, <2>5, <2>6
       DEF Finish, FreshRolledBack, ApproveSave, DeclineSave, Look, CleanDelete, FillMark, Transition
<1> QED
  BY <1>3, <1>4, <1>5, <1>6 DEF TypeInv, TypeOK, Handlers, Secrets, Requests, migration

\* A recovery touches the requests by one bulk update at a time, between pending
\* and locked, and no handler of theirs.
LEMMA RecoveryOf ==
  ASSUME TypeInv, Recovery
  PROVE  /\ UNCHANGED <<n, lapsed, pages, answered, h>>
         /\ secret' \in Secrets /\ secret'.at = secret.at /\ secret'.val = secret.val
         /\ suite' \in Suites /\ from' \in Suites \cup {0} /\ suites' \in Suites
         /\ moves' \subseteq Moves /\ dead' \subseteq Suites /\ missed' \subseteq Suites
         /\ req' \in [Reqs -> Requests]
         /\ \A r \in Reqs : \/ req'[r].st = req[r].st
                            \/ req[r].st \in {"pending", "locked"} /\ req'[r].st \in {"pending", "locked"}
<1> DEFINE Rows == /\ req' \in [Reqs -> Requests]
                   /\ \A r \in Reqs : \/ req'[r].st = req[r].st
                                      \/ /\ req[r].st \in {"pending", "locked"}
                                         /\ req'[r].st \in {"pending", "locked"}
<1>1. /\ TypeOK /\ secret \in Secrets /\ req \in [Reqs -> Requests]
      /\ suite \in Suites /\ from \in Suites \cup {0} /\ suites \in Suites
      /\ moves \subseteq Moves /\ dead \subseteq Suites /\ missed \subseteq Suites
  BY DEF TypeInv, TypeOK, Secrets, Requests
<1>2. ASSUME UNCHANGED req PROVE Rows
  BY <1>1, <1>2
<1>3. ASSUME NEW s, NEW t \in Suites, Move(s, "pending", "locked", t) \/ Move(s, "locked", "pending", t)
      PROVE  Rows
  <2>1. "pending" \in Statuses /\ "locked" \in Statuses
    BY DEF Statuses
  <2>2. CASE Move(s, "pending", "locked", t)
    BY <1>1, <2>1, <2>2, MoveOf
  <2>3. CASE Move(s, "locked", "pending", t)
    BY <1>1, <2>1, <2>3, MoveOf
  <2> QED
    BY <1>3, <2>2, <2>3
<1>4. ASSUME NEW m \in Moves, NEW at \in {"open", "lock", "compromise", "repoint", "discard", "unlock"}
      PROVE  /\ GoOn(m, at) => moves' \subseteq Moves
             /\ Done(m) => moves' \subseteq Moves
             /\ m.old \in Suites /\ m.new \in Suites
  BY <1>1 DEF GoOn, Done, Moves
<1>5. CASE RecoverStarts
  <2>1. suites \in Nat /\ suites >= 1
    BY <1>1 DEF Suites
  <2>2. suites + 1 \in Suites
    BY <1>5, <2>1, RequestsAssumption DEF RecoverStarts, Suites
  <2>3. [at |-> "open", old |-> suite, new |-> suites + 1] \in Moves
    BY <1>1, <2>2 DEF Moves
  <2> QED
    BY <1>1, <1>2, <1>5, <2>2, <2>3 DEF RecoverStarts
<1>6. CASE SetCompleted
  <2>1. from \in Suites
    BY <1>1, <1>6 DEF SetCompleted, WriteLocked
  <2>2. [at |-> "compromise", old |-> from, new |-> suite] \in Moves
    BY <1>1, <2>1 DEF Moves
  <2>3. secret' \in Secrets /\ secret'.at = secret.at /\ secret'.val = secret.val
    BY <1>1, <1>6 DEF SetCompleted, Secrets
  <2> QED
    BY <1>1, <1>2, <1>6, <2>2, <2>3 DEF SetCompleted
<1>7. CASE SetAborted
  <2>1. from \in Suites
    BY <1>1, <1>7 DEF SetAborted, WriteLocked
  <2>2. [at |-> "discard", old |-> from, new |-> suite] \in Moves
    BY <1>1, <2>1 DEF Moves
  <2> QED
    BY <1>1, <1>2, <1>7, <2>2 DEF SetAborted
<1>8. ASSUME NEW m \in moves, Recover(m) \/ RecoveryStops(m)
      PROVE  /\ UNCHANGED <<n, lapsed, pages, answered, h>>
             /\ secret' \in Secrets /\ secret'.at = secret.at /\ secret'.val = secret.val
             /\ suite' \in Suites /\ from' \in Suites \cup {0} /\ suites' \in Suites
             /\ moves' \subseteq Moves /\ dead' \subseteq Suites /\ missed' \subseteq Suites
             /\ Rows
  <2>1. m \in Moves /\ m.old \in Suites /\ m.new \in Suites
    BY <1>1 DEF Moves
  <2>2. CASE OpenMigration(m) \/ MarkCompromised(m) \/ DiscardSuccessor(m) \/ RecoveryStops(m)
    <3>1. moves' \subseteq Moves
      BY <1>4, <2>1, <2>2 DEF OpenMigration, MarkCompromised, DiscardSuccessor, RecoveryStops
    <3> QED
      BY <1>1, <1>2, <2>1, <2>2, <3>1
         DEF OpenMigration, MarkCompromised, DiscardSuccessor, RecoveryStops
  <2>3. CASE LockRequests(m) \/ RepointRequests(m) \/ UnlockRequests(m)
    <3>1. moves' \subseteq Moves
      BY <1>4, <2>1, <2>3 DEF LockRequests, RepointRequests, UnlockRequests
    <3>2. Rows
      BY <1>3, <2>1, <2>3 DEF LockRequests, RepointRequests, UnlockRequests
    <3> QED
      BY <1>1, <2>1, <2>3, <3>1, <3>2 DEF LockRequests, RepointRequests, UnlockRequests
  <2> QED
    BY <1>8, <2>2, <2>3 DEF Recover
<1> QED
  BY <1>5, <1>6, <1>7, <1>8 DEF Recovery

LEMMA OthersTyped ==
  ASSUME TypeInv, \/ \E r \in Reqs : OpenPage(r) \/ Lapse(r)
                  \/ OwnerWrites \/ Purge \/ Recovery
  PROVE  TypeInv'
<1>1. CASE \E r \in Reqs : OpenPage(r) \/ Lapse(r)
  BY <1>1 DEF OpenPage, Lapse, TypeInv, TypeOK, migration
<1>2. CASE OwnerWrites
  <2>1. Own \in 0..Own
    BY RequestsAssumption DEF Own
  <2> QED
    BY <1>2, <2>1 DEF OwnerWrites, TypeInv, TypeOK, migration
<1>3. CASE Purge
  BY <1>3, DeleteOf DEF Purge, TypeInv, TypeOK, Requests, Secrets, migration
<1>4. CASE Recovery
  BY <1>4, RecoveryOf DEF TypeInv, TypeOK, Requests, Secrets
<1> QED
  BY <1>1, <1>2, <1>3, <1>4

LEMMA TypeStep ==
  ASSUME TypeInv, [Next]_vars
  PROVE  TypeInv'
<1>1. CASE UNCHANGED vars
  BY <1>1 DEF vars, migration, TypeInv, TypeOK
<1> QED
  BY <1>1, AcceptTyped, FinishTyped, OthersTyped DEF Next, Expiry, Recovery

LEMMA TypeInit == Init => TypeInv
<1> SUFFICES ASSUME Init PROVE TypeInv
  OBVIOUS
<1>1. 1 \in Suites /\ 0 \in 0..Own /\ Own \in 0..Own /\ 0 \in 0..MaxRequests
  BY RequestsAssumption DEF Suites, Own
<1>2. req \in [Reqs -> Requests]
  BY DEF Init, NoRequest, Statuses, Requests
<1>3. secret \in Secrets
  BY <1>1 DEF Init, Secrets
<1>4. h \in [Workers -> Handlers] /\ \A w \in Workers : h[w].op = "idle"
  BY DEF Init, Idle, Handlers, Ops
<1>5. answered \in [Reqs -> Nat] /\ lapsed = {} /\ pages = {} /\ n = 0 /\ suite = 1 /\ from = 0
      /\ suites = 1 /\ moves = {} /\ dead = {} /\ missed = {}
  BY DEF Init
<1> QED
  BY <1>1, <1>2, <1>3, <1>4, <1>5 DEF TypeInv, TypeOK, Handlers, Secrets, Requests

\* Every variable has its type, whatever overlaps: a migration that is aborted
\* or completed leaves a suite active.
THEOREM TypeCorrect == Spec => []TypeOK
<1>1. TypeInv => TypeOK
  BY DEF TypeInv
<1> QED
  BY <1>1, TypeInit, TypeStep, PTL DEF Spec

-----------------------------------------------------------------------------
(* What each kind of step does to the requests and to the workers.          *)

\* A handler that goes on works for the request it has, or is done.
LEMMA FinishOf ==
  ASSUME TypeInv, NEW w \in Workers, Finish(w)
  PROVE  /\ h[w].op # "idle" /\ h[w].r \in Reqs
         /\ \A v \in Workers : v # w => h'[v] = h[v]
         /\ \/ h'[w] = Idle
            \/ /\ h'[w].r = h[w].r /\ h'[w].s = h[w].s
               /\ <<h[w].op, h'[w].op>> \in
                    {<<"decline", "look">>, <<"look", "clean">>, <<"fill", "mark">>,
                     <<"expire", "look">>}
         /\ UNCHANGED <<n, lapsed, migration, pages>>
<1> DEFINE f == h[w]
           Pairs == {<<"decline", "look">>, <<"look", "clean">>, <<"fill", "mark">>, <<"expire", "look">>}
<1>1. f \in Handlers
  BY DEF TypeInv, TypeOK, Handlers
<1>2. \E op, new : /\ Step(w, op, new) /\ op # "idle"
                   /\ \/ new = Idle
                      \/ \E o : new = [f EXCEPT !.op = o] /\ <<op, o>> \in Pairs
  BY DEF Finish, FreshRolledBack, Insert, ApproveSave, DeclineSave, Look, CleanDelete, FillStore,
         FillMark, Transition
<1>3. UNCHANGED <<n, lapsed, migration, pages>>
  BY DEF Finish, FreshRolledBack, Insert, ApproveSave, DeclineSave, Look, CleanDelete, FillStore,
         FillMark, Transition, migration
<1>4. PICK op, new : /\ Step(w, op, new) /\ op # "idle"
                     /\ \/ new = Idle
                        \/ \E o : new = [f EXCEPT !.op = o] /\ <<op, o>> \in Pairs
  BY <1>2
<1>5. f.op = op /\ h'[w] = new /\ \A v \in Workers : v # w => h'[v] = h[v]
  BY <1>4, StepOf DEF TypeInv
<1>6. f.op # "idle" /\ f.r \in Reqs
  BY <1>4, <1>5 DEF TypeInv
<1>7. ASSUME NEW o, new = [f EXCEPT !.op = o]
      PROVE  new.r = f.r /\ new.s = f.s /\ new.op = o
  BY <1>1, <1>7 DEF Handlers
<1> QED
  BY <1>3, <1>4, <1>5, <1>6, <1>7

\* Only the insert opens a request that is not there.
LEMMA FinishRequests ==
  ASSUME TypeInv, NEW w \in Workers, Finish(w), ~Insert(w)
  PROVE  /\ req' \in [Reqs -> Requests]
         /\ \A r \in Reqs :
              /\ req'[r].st = "none" \/ req'[r].suite = req[r].suite
              /\ \/ req'[r].st = req[r].st
                 \/ req'[r].st = "none" /\ Delete("deleted")
                 \/ req[r].st # "none" /\ r = h[w].r /\ req'[r].st \in {"fulfilled", "declined", "expired"}
         /\ answered' = answered \/ (FillMark(w) /\ answered' = [answered EXCEPT ![h[w].r] = @ + 1])
<1>1. h[w].r \in Reqs /\ {"fulfilled", "declined", "expired"} \subseteq Statuses
  BY FinishOf DEF Statuses
<1>2. \/ Delete("deleted")
      \/ \E st \in {"fulfilled", "declined", "expired"} : Mark(h[w].r, st)
      \/ UNCHANGED req
  BY DEF Finish, FreshRolledBack, ApproveSave, DeclineSave, Look, CleanDelete, FillStore,
         FillMark, Transition
<1>3. answered' = answered \/ (FillMark(w) /\ answered' = [answered EXCEPT ![h[w].r] = @ + 1])
  BY DEF Finish, FreshRolledBack, ApproveSave, DeclineSave, Look, CleanDelete, FillStore,
         FillMark, Transition
<1>4. CASE Delete("deleted")
  BY <1>3, <1>4, DeleteOf DEF TypeInv
<1>5. ASSUME NEW st \in {"fulfilled", "declined", "expired"}, Mark(h[w].r, st)
      PROVE  /\ req' \in [Reqs -> Requests]
             /\ \A r \in Reqs :
                  /\ req'[r].suite = req[r].suite
                  /\ \/ req'[r].st = req[r].st
                     \/ req[r].st # "none" /\ r = h[w].r /\ req'[r].st \in {"fulfilled", "declined", "expired"}
  <2>1. st \in Statuses
    BY <1>1
  <2> QED
    BY <1>1, <1>5, <2>1, MarkOf DEF TypeInv
<1>6. CASE UNCHANGED req
  BY <1>3, <1>6 DEF TypeInv, TypeOK, Requests
<1> QED
  BY <1>2, <1>3, <1>4, <1>5, <1>6

\* The steps of no worker open no request that is not there.
LEMMA OthersOf ==
  ASSUME TypeInv, \/ \E r \in Reqs : OpenPage(r) \/ Lapse(r)
                  \/ OwnerWrites \/ Purge \/ Recovery
  PROVE  /\ UNCHANGED <<n, answered, h>>
         /\ \A r \in Reqs :
              \/ req'[r].st = req[r].st
              \/ req'[r].st = "none" /\ Purge
              \/ req[r].st \in {"pending", "locked"} /\ req'[r].st \in {"pending", "locked"}
<1>1. UNCHANGED <<n, answered, h>>
  BY RecoveryOf DEF OpenPage, Lapse, OwnerWrites, Purge
<1>2. CASE UNCHANGED req
  BY <1>1, <1>2
<1>3. CASE Purge
  BY <1>1, <1>3, DeleteOf DEF Purge, TypeInv
<1>4. CASE Recovery
  BY <1>1, <1>4, RecoveryOf
<1> QED
  BY <1>2, <1>3, <1>4 DEF OpenPage, Lapse, OwnerWrites

\* A creation takes the next number; everything else that is taken on is for
\* a pending request.
LEMMA AcceptOf ==
  ASSUME TypeInv, NEW w \in Workers, Accept(w) \/ \E r \in Reqs : ExpireLapsed(w, r)
  PROVE  /\ h[w].op = "idle" /\ h'[w].op # "idle"
         /\ \A v \in Workers : v # w => h'[v] = h[v] /\ {h'[w].op, h[v].op} \notin Conflicts
         /\ UNCHANGED <<req, lapsed, migration, pages, answered>>
         /\ \/ /\ h'[w].op \in {"fresh", "create", "rerequest"} /\ h'[w].r = n + 1 /\ n' = n + 1
               /\ n < MaxRequests
            \/ /\ h'[w].op \in {"approve", "decline", "fill", "expire"}
               /\ h'[w].r \in Reqs /\ Pending(h'[w].r) /\ n' = n
<1>1. UNCHANGED <<req, lapsed, migration, pages, answered>>
  BY DEF Accept, Fresh, Create, ReRequest, Approve, Decline, Fill, ExpireLapsed, migration
<1>2. PICK op, r, s :
        /\ Load(w, op, r, s)
        /\ \/ op \in {"fresh", "create", "rerequest"} /\ r = n + 1 /\ n' = n + 1 /\ n < MaxRequests
           \/ op \in {"approve", "decline", "fill", "expire"} /\ r \in Reqs /\ Pending(r) /\ n' = n
  BY DEF Accept, Fresh, Create, ReRequest, Approve, Decline, Fill, ExpireLapsed, Open
<1>3. /\ h[w].op = "idle" /\ h'[w] = [op |-> op, r |-> r, s |-> s]
      /\ \A v \in Workers : v # w => h'[v] = h[v] /\ {op, h[v].op} \notin Conflicts
  BY <1>2, StepOf DEF Load, TypeInv
<1> QED
  BY <1>1, <1>2, <1>3

LEMMA NumberAccept ==
  ASSUME TypeInv, NumberInv, NEW w \in Workers, Accept(w) \/ \E r \in Reqs : ExpireLapsed(w, r)
  PROVE  NumberInv'
<1>1. n \in Nat /\ \A v \in Workers : h[v].op # "idle" => h[v].r \in Reqs
  BY DEF TypeInv, TypeOK
<1>2. /\ UNCHANGED <<req, answered>> /\ h'[w].op # "idle"
      /\ \A v \in Workers : v # w => h'[v] = h[v]
  BY AcceptOf
<1>3. CASE h'[w].r = n + 1 /\ n' = n + 1 /\ n < MaxRequests
  <2>1. n + 1 \in Reqs
    BY <1>3, NextRequest DEF TypeInv
  <2>2. \A v \in Workers : v # w => h'[v].op = "idle" \/ (h'[v].r \in Nat /\ h'[v].r <= n)
    BY <1>1, <1>2 DEF NumberInv, Reqs
  <2>3. req[n + 1].st = "none" /\ answered[n + 1] = 0
    BY <1>1, <2>1 DEF NumberInv
  <2>4. \A r \in Reqs : r > n' => req'[r].st = "none" /\ answered'[r] = 0
    BY <1>1, <1>2, <1>3 DEF NumberInv, Reqs
  <2>5. \A v \in Workers : h'[v].op # "idle" => h'[v].r <= n'
    BY <1>1, <1>2, <1>3, <2>2
  <2>6. \A v \in Workers : Creating(v)' => req'[h'[v].r].st = "none" /\ answered'[h'[v].r] = 0
    BY <1>2, <1>3, <2>3 DEF NumberInv, Creating
  <2>7. \A u, v \in Workers : u # v /\ Creating(v)' /\ h'[u].op # "idle" => h'[u].r # h'[v].r
    <3>1. \A v \in Workers : v # w /\ h'[v].op # "idle" => h'[v].r # h'[w].r
      BY <1>1, <1>3, <2>2
    <3>2. \A u, v \in Workers : u # v /\ u # w /\ v # w /\ Creating(v)' /\ h'[u].op # "idle"
            => h'[u].r # h'[v].r
      BY <1>2 DEF NumberInv, Creating
    <3> QED
      BY <3>1, <3>2 DEF Creating
  <2> QED
    BY <2>4, <2>5, <2>6, <2>7 DEF NumberInv
<1>4. CASE /\ h'[w].r \in Reqs /\ Pending(h'[w].r) /\ n' = n
           /\ h'[w].op \in {"approve", "decline", "fill", "expire"}
  <2>1. ~Creating(w)' /\ req[h'[w].r].st # "none"
    BY <1>4 DEF Creating, Pending
  <2>2. h'[w].r <= n
    BY <1>1, <1>4, <2>1 DEF NumberInv, Reqs
  <2>3. \A v \in Workers : Creating(v)' => v # w /\ Creating(v) /\ h'[v].r # h'[w].r
    BY <1>2, <2>1 DEF NumberInv, Creating
  <2> QED
    BY <1>2, <1>4, <2>2, <2>3 DEF NumberInv, Creating
<1> QED
  BY <1>3, <1>4, AcceptOf

\* No number is given: what is being created stays as it is.
LEMMA NumberKeeps ==
  ASSUME TypeInv, NumberInv, n' = n, NEW w \in Workers,
         \A v \in Workers : v # w => h'[v] = h[v],
         h'[w] = h[w] \/ (h[w].op # "idle" /\ ~Creating(w)'),
         h'[w].op = "idle" \/ h'[w].r = h[w].r,
         \A r \in Reqs : \/ /\ req[r].st = "none" => req'[r].st = "none"
                            /\ answered[r] = 0 => answered'[r] = 0
                         \/ h'[w] # h[w] /\ r = h[w].r
  PROVE  NumberInv'
<1>1. n \in Nat /\ \A v \in Workers : h[v].op # "idle" => h[v].r \in Reqs
  BY DEF TypeInv, TypeOK
<1>2. \A v \in Workers : h'[v].op # "idle" => h[v].op # "idle" /\ h'[v].r = h[v].r
  BY DEF Creating
<1>3. \A v \in Workers : Creating(v)' => Creating(v) /\ h'[v] = h[v]
  BY DEF Creating
<1>4. \A r \in Reqs : r > n' => req'[r].st = "none" /\ answered'[r] = 0
  <2>1. h'[w] # h[w] => h[w].r \in Reqs /\ h[w].r <= n
    BY <1>1 DEF NumberInv
  <2> QED
    BY <1>1, <2>1 DEF NumberInv, Reqs
<1>5. \A v \in Workers : h'[v].op # "idle" => h'[v].r <= n'
  BY <1>2 DEF NumberInv
<1>6. \A v \in Workers : Creating(v)' => req'[h'[v].r].st = "none" /\ answered'[h'[v].r] = 0
  <2> SUFFICES ASSUME NEW v \in Workers, Creating(v)'
               PROVE  req'[h'[v].r].st = "none" /\ answered'[h'[v].r] = 0
    OBVIOUS
  <2>1. Creating(v) /\ h'[v] = h[v] /\ h[v].r \in Reqs
    BY <1>1, <1>3 DEF Creating
  <2>2. req[h[v].r].st = "none" /\ answered[h[v].r] = 0
    BY <2>1 DEF NumberInv
  <2>3. h'[w] # h[w] => h[w].r # h[v].r
    BY <2>1 DEF NumberInv, Creating
  <2> QED
    BY <2>1, <2>2, <2>3
<1>7. \A u, v \in Workers : u # v /\ Creating(v)' /\ h'[u].op # "idle" => h'[u].r # h'[v].r
  BY <1>2, <1>3 DEF NumberInv
<1> QED
  BY <1>4, <1>5, <1>6, <1>7 DEF NumberInv

LEMMA NumberStep ==
  ASSUME TypeInv, NumberInv, [Next]_vars
  PROVE  NumberInv'
<1>1. answered \in [Reqs -> Nat] /\ req \in [Reqs -> Requests]
  BY DEF TypeInv, TypeOK, Requests
<1>2. ASSUME NEW w \in Workers, Finish(w) PROVE NumberInv'
  <2>1. /\ h[w].op # "idle" /\ n' = n /\ ~Creating(w)' /\ (h'[w].op = "idle" \/ h'[w].r = h[w].r)
        /\ h'[w] # h[w] /\ \A v \in Workers : v # w => h'[v] = h[v]
    BY <1>2, FinishOf DEF Idle, Creating
  <2>2. CASE Insert(w)
    <3>1. \A r \in Reqs : r # h[w].r => req'[r] = req[r] /\ answered'[r] = answered[r]
      BY <1>1, <2>2 DEF Insert
    <3> QED
      BY <2>1, <3>1, NumberKeeps
  <2>3. CASE ~Insert(w)
    <3>1. \A r \in Reqs : req[r].st = "none" => req'[r].st = "none"
      BY <1>2, <2>3, FinishRequests
    <3>2. \A r \in Reqs : r # h[w].r => answered'[r] = answered[r]
      BY <1>1, <1>2, <2>3, FinishRequests
    <3> QED
      BY <2>1, <3>1, <3>2, NumberKeeps
  <2> QED
    BY <2>2, <2>3
<1>3. ASSUME UNCHANGED <<n, answered, h>>, \A r \in Reqs : req[r].st = "none" => req'[r].st = "none"
      PROVE  NumberInv'
  BY <1>3 DEF NumberInv, Creating, TypeInv
<1>4. CASE \/ \E r \in Reqs : OpenPage(r) \/ Lapse(r)
           \/ OwnerWrites \/ Purge \/ Recovery
  BY <1>3, <1>4, OthersOf
<1>5. CASE UNCHANGED vars
  BY <1>3, <1>5 DEF vars
<1> QED
  BY <1>2, <1>4, <1>5, NumberAccept DEF Next, Expiry, Recovery

-----------------------------------------------------------------------------
(* NoKeylessOrphan: a placeholder goes with the last thing that justified it. *)

LEMMA OrphanKeeps ==
  ASSUME OrphanInv, secret'.at = secret.at, secret'.val = secret.val,
         \A r \in Reqs : req[r].st \in {"pending", "locked", "fulfilled"}
                          => req'[r].st \in {"pending", "locked", "fulfilled"},
         \A w \in Workers : h[w].op \in {"fresh", "look", "clean"} => h'[w] = h[w]
  PROVE  NoKeylessOrphan'
<1> SUFFICES ASSUME Kept, secret.val = 0
             PROVE  \/ \E r \in Reqs : req'[r].st \in {"pending", "locked", "fulfilled"}
                    \/ \E w \in Workers : h'[w].op \in {"fresh", "look", "clean"}
  BY DEF NoKeylessOrphan, Kept
<1>1. \/ \E r \in Reqs : req[r].st \in {"pending", "locked", "fulfilled"}
      \/ \E w \in Workers : h[w].op \in {"fresh", "look", "clean"}
  BY DEF OrphanInv, NoKeylessOrphan
<1>2. ASSUME NEW w \in Workers, h[w].op \in {"fresh", "look", "clean"}
      PROVE  h'[w].op \in {"fresh", "look", "clean"}
  BY <1>2
<1> QED
  BY <1>1, <1>2

LEMMA OrphanAccept ==
  ASSUME OrphanInv, NEW w \in Workers, Accept(w) \/ \E r \in Reqs : ExpireLapsed(w, r)
  PROVE  NoKeylessOrphan'
<1>1. /\ UNCHANGED req /\ h[w].op = "idle"
      /\ \A v \in Workers : v # w => h'[v] = h[v]
  BY AcceptOf DEF OrphanInv
<1>2. CASE Fresh(w)
  <2>1. h'[w].op = "fresh"
    BY <1>2, StepOf DEF Fresh, Load, OrphanInv, TypeInv
  <2> QED
    BY <2>1 DEF NoKeylessOrphan
<1>3. CASE ~Fresh(w)
  <2>1. UNCHANGED secret
    BY <1>3 DEF Accept, Create, ReRequest, Approve, Decline, Fill, ExpireLapsed
  <2>2. \A v \in Workers : h[v].op \in {"fresh", "look", "clean"} => h'[v] = h[v]
    BY <1>1
  <2> QED
    BY <1>1, <2>1, <2>2, OrphanKeeps
<1> QED
  BY <1>2, <1>3

LEMMA OrphanFinish ==
  ASSUME OrphanInv, NEW w \in Workers, Finish(w)
  PROVE  NoKeylessOrphan'
<1>1. /\ h[w].r \in Reqs /\ TypeInv /\ TypeOK
      /\ \A v \in Workers : v # w => h'[v] = h[v]
  BY FinishOf DEF OrphanInv, TypeInv
<1>2. CASE FreshRolledBack(w) \/ CleanDelete(w)
  <2>1. ~Kept'
    BY <1>1, <1>2, DeleteOf DEF FreshRolledBack, CleanDelete, Kept
  <2> QED
    BY <2>1 DEF NoKeylessOrphan
<1>3. CASE Insert(w)
  <2>1. req'[h[w].r].st = "pending"
    BY <1>1, <1>3 DEF Insert, TypeOK
  <2> QED
    BY <1>1, <2>1 DEF NoKeylessOrphan
<1>4. CASE DeclineSave(w) \/ (Transition(w) /\ Pending(h[w].r))
  <2>1. h'[w].op = "look"
    <3>1. h'[w] = [h[w] EXCEPT !.op = "look"]
      <4>1. \E op : Step(w, op, [h[w] EXCEPT !.op = "look"])
        BY <1>4 DEF DeclineSave, Transition
      <4> QED
        BY <1>1, <4>1, StepOf
    <3> QED
      BY <1>1, <3>1 DEF TypeOK
  <2> QED
    BY <2>1 DEF NoKeylessOrphan
<1>5. CASE Look(w)
  <2>1. CASE Kept /\ secret.val = 0
    <3>1. Step(w, "look", [h[w] EXCEPT !.op = "clean"])
      BY <1>5, <2>1 DEF Look
    <3>2. h'[w].op = "clean"
      BY <1>1, <3>1, StepOf DEF TypeOK
    <3> QED
      BY <3>2 DEF NoKeylessOrphan
  <2>2. CASE ~(Kept /\ secret.val = 0)
    BY <1>5, <2>2 DEF Look, NoKeylessOrphan, Kept
  <2> QED
    BY <2>1, <2>2
<1>6. CASE FillStore(w)
  <2>1. Kept => secret'.val = h[w].r /\ h[w].r # 0
    BY <1>1, <1>6 DEF FillStore, TypeOK, Reqs
  <2>2. Kept' => Kept
    BY <1>6 DEF FillStore, Kept
  <2> QED
    BY <2>1, <2>2 DEF NoKeylessOrphan
<1>7. CASE ApproveSave(w) \/ FillMark(w) \/ (Transition(w) /\ ~Pending(h[w].r))
  <2>1. UNCHANGED secret /\ h[w].op \in {"approve", "mark", "expire"}
    BY <1>1, <1>7, StepOf DEF ApproveSave, FillMark, Transition
  <2>2. \A r \in Reqs : req[r].st \in {"pending", "locked", "fulfilled"}
                          => req'[r].st \in {"pending", "locked", "fulfilled"}
    <3>1. CASE UNCHANGED req
      BY <3>1
    <3>2. CASE Mark(h[w].r, "fulfilled")
      BY <1>1, <3>2, MarkOf DEF Statuses
    <3> QED
      BY <1>7, <3>1, <3>2 DEF ApproveSave, FillMark, Transition
  <2>3. \A v \in Workers : h[v].op \in {"fresh", "look", "clean"} => h'[v] = h[v]
    BY <1>1, <2>1
  <2> QED
    BY <2>1, <2>2, <2>3, OrphanKeeps
<1> QED
  BY <1>2, <1>3, <1>4, <1>5, <1>6, <1>7 DEF Finish

LEMMA OrphanStep ==
  ASSUME OrphanInv, [Next]_vars
  PROVE  OrphanInv'
<1> SUFFICES NoKeylessOrphan'
  BY TypeStep DEF OrphanInv
<1>1. CASE \/ \E r \in Reqs : OpenPage(r) \/ Lapse(r)
           \/ OwnerWrites \/ Purge \/ Recovery
  <2>1. UNCHANGED h /\ \A r \in Reqs : \/ req'[r].st = req[r].st
                                       \/ req'[r].st = "none" /\ Purge
                                       \/ req'[r].st \in {"pending", "locked"}
    BY <1>1, OthersOf DEF OrphanInv
  <2>2. CASE Purge
    <3>1. ~Kept'
      BY <2>2, DeleteOf DEF Purge, OrphanInv, TypeInv, Kept
    <3> QED
      BY <3>1 DEF NoKeylessOrphan
  <2>3. CASE OwnerWrites
    <3>1. secret'.val = Own /\ Own # 0
      BY <2>3, RequestsAssumption DEF OwnerWrites, Own, OrphanInv, TypeInv, TypeOK
    <3>2. secret'.val # 0
      BY <3>1
    <3> QED
      BY <3>2 DEF NoKeylessOrphan
  <2>4. CASE ~Purge /\ ~OwnerWrites
    <3>1. secret'.at = secret.at /\ secret'.val = secret.val
      BY <1>1, <2>4, RecoveryOf DEF OpenPage, Lapse, OrphanInv
    <3> QED
      BY <2>1, <2>4, <3>1, OrphanKeeps
  <2> QED
    BY <2>2, <2>3, <2>4
<1>2. CASE UNCHANGED vars
  BY <1>2, OrphanKeeps DEF vars
<1> QED
  BY <1>1, <1>2, OrphanAccept, OrphanFinish DEF Next, Expiry, Recovery

\* A secret without a value is there only while a request or a handler that
\* will look at it is, whatever overlaps (decline, the job, removeIfUnfilled).
THEOREM NoOrphan == Spec => []NoKeylessOrphan
<1>1. Init => OrphanInv
  <2> SUFFICES ASSUME Init PROVE OrphanInv
    OBVIOUS
  <2>1. Kept => secret.val # 0
    BY RequestsAssumption DEF Init, Kept, Own
  <2> QED
    BY <2>1, TypeInit DEF OrphanInv, NoKeylessOrphan
<1>2. OrphanInv => NoKeylessOrphan
  BY DEF OrphanInv
<1>3. OrphanInv /\ [Next]_vars => OrphanInv'
  BY OrphanStep
<1> QED
  BY <1>1, <1>2, <1>3, PTL DEF Spec

-----------------------------------------------------------------------------
(* AnsweredCloses: what was answered is not open for another submission.    *)

LEMMA ClosedFinish ==
  ASSUME ClosedInv, NEW w \in Workers, Finish(w)
  PROVE  \A r \in Reqs : answered'[r] > 0 => req'[r].st \notin {"pending", "locked"}
<1>1. TypeInv /\ answered \in [Reqs -> Nat] /\ req \in [Reqs -> Requests] /\ h[w].r \in Reqs
  BY FinishOf DEF ClosedInv, TypeInv, TypeOK, Requests
<1>2. CASE FillMark(w)
  <2>1. /\ req'[h[w].r].st \in {"none", "fulfilled"}
        /\ \A r \in Reqs : r # h[w].r => req'[r] = req[r]
    BY <1>1, <1>2, MarkOf DEF FillMark, TypeInv, Statuses
  <2>2. \A r \in Reqs : r # h[w].r => answered'[r] = answered[r]
    BY <1>1, <1>2 DEF FillMark
  <2> QED
    BY <2>1, <2>2 DEF ClosedInv
<1>3. CASE Insert(w)
  <2>1. answered[h[w].r] = 0 /\ UNCHANGED answered
    BY <1>1, <1>3, StepOf DEF Insert, TypeInv, ClosedInv, NumberInv, Creating
  <2>2. \A r \in Reqs : r # h[w].r => req'[r] = req[r]
    BY <1>1, <1>3 DEF Insert
  <2> QED
    BY <2>1, <2>2 DEF ClosedInv
<1>4. CASE ~FillMark(w) /\ ~Insert(w)
  <2>1. UNCHANGED answered
    BY <1>1, <1>4, FinishRequests
  <2>2. \A r \in Reqs : req'[r].st = req[r].st \/ req'[r].st \notin {"pending", "locked"}
    BY <1>1, <1>4, FinishRequests
  <2> QED
    BY <2>1, <2>2 DEF ClosedInv
<1> QED
  BY <1>2, <1>3, <1>4

LEMMA ClosedStep ==
  ASSUME ClosedInv, [Next]_vars
  PROVE  ClosedInv'
<1> SUFFICES \A r \in Reqs : answered'[r] > 0 => req'[r].st \notin {"pending", "locked"}
  BY TypeStep, NumberStep DEF ClosedInv
<1>1. ASSUME NEW w \in Workers, Accept(w) \/ \E r \in Reqs : ExpireLapsed(w, r)
      PROVE  UNCHANGED <<req, answered>>
  BY <1>1, AcceptOf DEF ClosedInv
<1>2. CASE \/ \E r \in Reqs : OpenPage(r) \/ Lapse(r)
           \/ OwnerWrites \/ Purge \/ Recovery
  <2>1. UNCHANGED answered
        /\ \A r \in Reqs : req'[r].st \in {"pending", "locked"} => req[r].st \in {"pending", "locked"}
    BY <1>2, OthersOf DEF ClosedInv
  <2> QED
    BY <2>1 DEF ClosedInv
<1>3. CASE UNCHANGED vars
  BY <1>3 DEF vars, ClosedInv
<1> QED
  BY <1>1, <1>2, <1>3, ClosedFinish DEF ClosedInv, Next, Expiry, Recovery

\* No submission begins for a request that was answered for, on whatever page,
\* after whatever migration, re-request or expiry (submitFill).  Two that began
\* before either was answered are not excluded.
THEOREM ClosesWhenAnswered == Spec => AnsweredCloses
<1>1. Init => ClosedInv
  <2> SUFFICES ASSUME Init PROVE ClosedInv
    OBVIOUS
  <2>1. \A w \in Workers : h[w].op = "idle"
    BY DEF Init, Idle
  <2>2. \A r \in Reqs : answered[r] = 0 /\ req[r].st = "none"
    BY DEF Init, NoRequest
  <2> QED
    BY <2>1, <2>2, TypeInit DEF ClosedInv, NumberInv, Creating
<1>2. ClosedInv /\ [Next]_vars => ClosedInv'
  BY ClosedStep
<1>3. ASSUME ClosedInv, [Next]_vars, NEW w \in Workers, h[w].op = "idle", h'[w].op = "fill"
      PROVE  answered[h'[w].r] = 0
  <2>1. TypeInv /\ answered \in [Reqs -> Nat]
    BY <1>3 DEF ClosedInv, TypeInv, TypeOK
  <2>2. PICK v \in Workers : Accept(v) \/ Finish(v) \/ \E r \in Reqs : ExpireLapsed(v, r)
    <3>1. h' # h
      BY <1>3
    <3>2. ~UNCHANGED vars
      BY <3>1 DEF vars
    <3> QED
      BY <1>3, <2>1, <3>1, <3>2, OthersOf DEF Next, Expiry, Recovery
  <2>3. ~Finish(v)
    BY <1>3, <2>1, FinishOf
  <2>4. v = w
    BY <1>3, <2>1, <2>2, <2>3, AcceptOf
  <2>5. h'[w].r \in Reqs /\ Pending(h'[w].r)
    BY <1>3, <2>1, <2>2, <2>3, <2>4, AcceptOf
  <2> QED
    BY <1>3, <2>1, <2>5 DEF ClosedInv, Pending
<1>4. ClosedInv /\ [Next]_vars =>
        [\A w \in Workers : h[w].op = "idle" /\ h'[w].op = "fill" => answered[h'[w].r] = 0]_vars
  BY <1>3
<1> QED
  BY <1>1, <1>2, <1>4, PTL DEF Spec, AnsweredCloses

-----------------------------------------------------------------------------
(* EmptyIsUnanswered: what the cleaner takes for a placeholder is one.      *)

\* What is yet to be there has no requests, and nobody at work for one.
LEMMA NothingYet ==
  ASSUME EmptyInv, secret.at = "none"
  PROVE  n = 0 /\ (\A r \in Reqs : answered[r] = 0) /\ \A w \in Workers : h[w].op = "idle"
<1>1. n = 0
  BY DEF EmptyInv
<1>2. \A r \in Reqs : answered[r] = 0
  BY <1>1 DEF EmptyInv, NumberInv, Reqs
<1>3. ASSUME NEW w \in Workers, h[w].op # "idle" PROVE FALSE
  <2>1. h[w].r \in Reqs /\ h[w].r <= n
    BY <1>3 DEF EmptyInv, TypeInv, NumberInv
  <2> QED
    BY <1>1, <2>1 DEF Reqs
<1> QED
  BY <1>1, <1>2, <1>3

LEMMA EmptyAccept ==
  ASSUME EmptyInv, NEW w \in Workers, Accept(w) \/ \E r \in Reqs : ExpireLapsed(w, r)
  PROVE  EmptyInv'
<1>1. TypeInv /\ TypeInv' /\ NumberInv'
  BY TypeStep, NumberStep DEF EmptyInv, Next, Expiry
<1>2. /\ UNCHANGED answered /\ h'[w].op # "mark"
      /\ \A v \in Workers : v # w => h'[v] = h[v]
  BY <1>1, AcceptOf
<1>3. CASE Fresh(w)
  <2>1. secret.at = "none" /\ secret'.at = "kept"
    BY <1>1, <1>3 DEF Fresh, TypeInv, TypeOK
  <2> QED
    BY <1>1, <1>2, <2>1, NothingYet DEF EmptyInv, EmptyIsUnanswered
<1>4. CASE ~Fresh(w)
  <2>1. UNCHANGED secret /\ (Kept \/ n' = n)
    BY <1>4 DEF Accept, Create, ReRequest, Approve, Decline, Fill, ExpireLapsed
  <2> QED
    BY <1>1, <1>2, <2>1 DEF EmptyInv, EmptyIsUnanswered, Kept
<1> QED
  BY <1>3, <1>4

LEMMA EmptyFinish ==
  ASSUME EmptyInv, NEW w \in Workers, Finish(w)
  PROVE  EmptyInv'
<1>1. TypeInv /\ TypeOK /\ TypeInv' /\ NumberInv' /\ secret \in Secrets
  BY TypeStep, NumberStep DEF EmptyInv, Next, TypeInv, TypeOK, Secrets
<1>2. /\ h[w].r \in Reqs /\ h[w].op # "idle" /\ n' = n
      /\ h'[w].op = "mark" => h[w].op = "fill"
      /\ \A v \in Workers : v # w => h'[v] = h[v]
  BY <1>1, FinishOf DEF Idle
<1>3. secret.at # "none" /\ secret'.at # "none"
  <2>1. secret.at # "none"
    BY <1>2, NothingYet
  <2>2. secret'.at = secret.at \/ secret'.at = "deleted"
    BY <1>1 DEF Finish, FreshRolledBack, Insert, ApproveSave, DeclineSave, Look, CleanDelete,
                FillStore, FillMark, Transition, Delete, Secrets
  <2> QED
    BY <2>1, <2>2
<1>4. CASE FillStore(w)
  <2>1. Kept' => secret'.val # 0
    BY <1>1, <1>2, <1>4 DEF FillStore, Kept, Reqs, Secrets
  <2> QED
    BY <1>1, <1>3, <2>1 DEF EmptyInv, EmptyIsUnanswered
<1>5. CASE FillMark(w)
  <2>1. h[w].op = "mark" /\ UNCHANGED secret
    BY <1>1, <1>5, StepOf DEF FillMark
  <2> QED
    BY <1>1, <1>3, <2>1 DEF EmptyInv, EmptyIsUnanswered, Kept
<1>6. CASE ~FillStore(w) /\ ~FillMark(w)
  <2>1. UNCHANGED answered /\ (UNCHANGED secret \/ secret'.at = "deleted")
    BY <1>1, <1>6 DEF Finish, FreshRolledBack, Insert, ApproveSave, DeclineSave, Look, CleanDelete,
                      Transition, Delete, Secrets
  <2>2. h[w].op # "fill"
    BY <1>1, <1>6, StepOf DEF Finish, FreshRolledBack, Insert, ApproveSave, DeclineSave, Look,
                              CleanDelete, Transition
  <2> QED
    BY <1>1, <1>2, <1>3, <2>1, <2>2 DEF EmptyInv, EmptyIsUnanswered, Kept
<1> QED
  BY <1>4, <1>5, <1>6

LEMMA EmptyStep ==
  ASSUME EmptyInv, [Next]_vars
  PROVE  EmptyInv'
<1>1. TypeInv /\ TypeInv' /\ NumberInv' /\ secret \in Secrets
  BY TypeStep, NumberStep DEF EmptyInv, TypeInv, TypeOK, Secrets
<1>2. CASE \/ \E r \in Reqs : OpenPage(r) \/ Lapse(r)
           \/ OwnerWrites \/ Purge \/ Recovery
  <2>1. UNCHANGED <<h, n, answered>>
    BY <1>1, <1>2, OthersOf
  <2>2. \/ secret'.at = secret.at /\ (secret'.val = secret.val \/ secret'.val # 0)
        \/ secret'.at = "purged"
    <3>1. Own # 0
      BY RequestsAssumption DEF Own
    <3>2. CASE OwnerWrites
      BY <1>1, <3>1, <3>2 DEF OwnerWrites, Secrets
    <3>3. CASE Purge
      BY <1>1, <3>3, DeleteOf DEF Purge, TypeInv
    <3>4. CASE ~OwnerWrites /\ ~Purge
      BY <1>1, <1>2, <3>4, RecoveryOf DEF OpenPage, Lapse
    <3> QED
      BY <3>2, <3>3, <3>4
  <2> QED
    BY <1>1, <2>1, <2>2 DEF EmptyInv, EmptyIsUnanswered, Kept
<1>3. CASE UNCHANGED vars
  BY <1>1, <1>3 DEF vars, EmptyInv, EmptyIsUnanswered, Kept
<1> QED
  BY <1>2, <1>3, EmptyAccept, EmptyFinish DEF Next, Expiry, Recovery

\* The cleaner never looks at a secret without a value that was answered for,
\* whatever overlaps: an answer can be lost only to a submission that stores its
\* values between removeIfUnfilled's look and its delete.
THEOREM NothingAnsweredIsEmpty == Spec => []EmptyIsUnanswered
<1>1. Init => EmptyInv
  <2> SUFFICES ASSUME Init PROVE EmptyInv
    OBVIOUS
  <2>1. n = 0 /\ \A w \in Workers : h[w].op = "idle"
    BY DEF Init, Idle
  <2>2. \A r \in Reqs : answered[r] = 0 /\ req[r].st = "none"
    BY DEF Init, NoRequest
  <2> QED
    BY <2>1, <2>2, TypeInit DEF EmptyInv, NumberInv, Creating, EmptyIsUnanswered
<1>2. EmptyInv => EmptyIsUnanswered
  BY DEF EmptyInv
<1>3. EmptyInv /\ [Next]_vars => EmptyInv'
  BY EmptyStep
<1> QED
  BY <1>1, <1>2, <1>3, PTL DEF Spec

-----------------------------------------------------------------------------
(* NoneStranded: a request that is locked has a migration that runs, a step  *)
(* that will release it, or one that was lost.                              *)

\* The suite of a request that is locked after the step was its suite before.
LEMMA LockedKeeps ==
  ASSUME LockedInv, UNCHANGED migration,
         \A r \in Reqs : req'[r].st = "locked" => req[r].st = "locked" /\ req'[r].suite = req[r].suite
  PROVE  NoneStranded' /\ \A r \in Reqs : req'[r].st = "locked" => req'[r].suite \in Suites
  BY DEF LockedInv, NoneStranded, UnderWay, migration

LEMMA LockedMoves ==
  ASSUME LockedInv, Recovery
  PROVE  LockedInv'
<1>1. /\ TypeInv /\ TypeInv' /\ TypeOK /\ moves \subseteq Moves /\ from \in Suites \cup {0}
      /\ req \in [Reqs -> Requests] /\ missed \subseteq Suites /\ 0 \notin Suites
  BY TypeStep DEF LockedInv, Next, Recovery, TypeInv, TypeOK, Suites, Requests
<1>2. {"pending", "locked"} \subseteq Statuses
  BY DEF Statuses
<1>3. CASE RecoverStarts
  BY <1>1, <1>3 DEF RecoverStarts, WriteLocked, LockedInv, NoneStranded, UnderWay
<1>4. CASE SetCompleted \/ SetAborted
  <2>1. PICK m : m.old = from /\ m.at # "open" /\ moves' = moves \cup {m}
    BY <1>4 DEF SetCompleted, SetAborted
  <2>2. from # 0 /\ UNCHANGED <<req, missed>>
    BY <1>4 DEF SetCompleted, SetAborted, WriteLocked
  <2>3. \A s : UnderWay(s) \/ s = from => \E k \in moves' : k.old = s
    BY <2>1 DEF UnderWay
  <2>4. \A k \in moves' : k.at # "open"
    BY <2>1, <2>2 DEF LockedInv
  <2>5. \A r \in Reqs : req[r].st = "locked" =>
          \/ req[r].suite = from \/ UnderWay(req[r].suite) \/ req[r].suite \in missed
    BY DEF LockedInv, NoneStranded
  <2>6. \A r \in Reqs : req[r].st = "locked" =>
          (\E k \in moves' : k.old = req[r].suite) \/ req[r].suite \in missed
    BY <2>3, <2>5
  <2>7. NoneStranded'
    BY <2>2, <2>6 DEF NoneStranded, UnderWay
  <2> QED
    BY <1>1, <2>2, <2>4, <2>7 DEF LockedInv
<1>6. ASSUME NEW m \in moves, Recover(m) \/ RecoveryStops(m)
      PROVE  LockedInv'
  <2>1. m \in Moves /\ m.old \in Suites /\ m.new \in Suites
    BY <1>1 DEF Moves
  <2>2. ASSUME NEW at, GoOn(m, at)
        PROVE  /\ \A s : UnderWay(s) => UnderWay(s)'
               /\ at # "open" => \A k \in moves' : k.at = "open" => k \in moves \ {m}
    <3>1. [m EXCEPT !.at = at].old = m.old /\ [m EXCEPT !.at = at].at = at
      BY <2>1 DEF Moves
    <3> QED
      BY <2>2, <3>1 DEF GoOn, UnderWay
  <2>3. ASSUME Done(m)
        PROVE  /\ \A s : UnderWay(s) => UnderWay(s)' \/ s = m.old
               /\ \A k \in moves' : k \in moves
    BY <2>3 DEF Done, UnderWay
  <2>4. CASE OpenMigration(m)
    <3>1. from = 0 /\ from' = m.old /\ GoOn(m, "lock") /\ UNCHANGED <<req, missed>>
      BY <2>4 DEF OpenMigration, LockedInv
    <3>2. \A k \in moves' : k.at # "open"
      BY <2>2, <2>4, <3>1 DEF OpenMigration, LockedInv
    <3> QED
      BY <1>1, <2>2, <3>1, <3>2 DEF LockedInv, NoneStranded
  <2>5. CASE LockRequests(m)
    <3>1. /\ Done(m) /\ from' = from /\ Move(m.old, "pending", "locked", m.old)
          /\ m.old = from' \/ m.old \in missed'
          /\ \A s : s \in missed => s \in missed'
      BY <2>5 DEF LockRequests
    <3>2. \A r \in Reqs : req'[r].st = "locked" =>
            \/ req'[r].suite = m.old
            \/ req[r].st = "locked" /\ req'[r].suite = req[r].suite
      BY <1>1, <1>2, <2>1, <3>1, MoveOf
    <3> QED
      BY <1>1, <2>1, <2>3, <3>1, <3>2 DEF LockedInv, NoneStranded
  <2>6. CASE MarkCompromised(m) \/ DiscardSuccessor(m)
    <3>1. /\ UNCHANGED <<req, missed, from>> /\ \A s : UnderWay(s) => UnderWay(s)'
          /\ \A k \in moves' : k.at = "open" => k \in moves
      BY <2>2, <2>6 DEF MarkCompromised, DiscardSuccessor
    <3> QED
      BY <1>1, <3>1 DEF LockedInv, NoneStranded
  <2>7. CASE RepointRequests(m) \/ UnlockRequests(m)
    <3>1. /\ Done(m) /\ UNCHANGED <<from, missed>>
          /\ \E t \in Suites : Move(m.old, "locked", "pending", t)
      BY <2>1, <2>7 DEF RepointRequests, UnlockRequests
    <3>2. \A r \in Reqs : req'[r].st = "locked" =>
            req[r].st = "locked" /\ req'[r].suite = req[r].suite /\ req[r].suite # m.old
      BY <1>1, <1>2, <3>1, MoveOf
    <3> QED
      BY <1>1, <2>3, <3>1, <3>2 DEF LockedInv, NoneStranded
  <2>8. CASE RecoveryStops(m)
    <3>1. Done(m) /\ UNCHANGED <<from, req>> /\ missed' = missed \cup {m.old}
      BY <2>8 DEF RecoveryStops
    <3> QED
      BY <1>1, <2>3, <3>1 DEF LockedInv, NoneStranded
  <2> QED
    BY <1>6, <2>4, <2>5, <2>6, <2>7, <2>8 DEF Recover
<1> QED
  BY <1>3, <1>4, <1>6 DEF Recovery

LEMMA LockedStep ==
  ASSUME LockedInv, [Next]_vars
  PROVE  LockedInv'
<1>1. TypeInv /\ TypeInv' /\ req \in [Reqs -> Requests]
  BY TypeStep DEF LockedInv, TypeInv, TypeOK, Requests
<1> DEFINE Same == \A r \in Reqs : req'[r].st = "locked" =>
                     req[r].st = "locked" /\ req'[r].suite = req[r].suite
<1>2. ASSUME UNCHANGED migration, Same PROVE LockedInv'
  BY <1>1, <1>2, LockedKeeps DEF LockedInv, migration
<1>3. ASSUME NEW w \in Workers, Accept(w) \/ \E r \in Reqs : ExpireLapsed(w, r)
      PROVE  UNCHANGED migration /\ Same
  BY <1>1, <1>3, AcceptOf
<1>4. ASSUME NEW w \in Workers, Finish(w)
      PROVE  UNCHANGED migration /\ Same
  <2>1. UNCHANGED migration
    BY <1>1, <1>4, FinishOf
  <2>2. CASE Insert(w)
    BY <1>1, <2>1, <2>2 DEF Insert
  <2>3. CASE ~Insert(w)
    BY <1>1, <1>4, <2>1, <2>3, FinishRequests
  <2> QED
    BY <2>2, <2>3
<1>5. CASE (\E r \in Reqs : OpenPage(r) \/ Lapse(r)) \/ OwnerWrites \/ UNCHANGED vars
  BY <1>2, <1>5 DEF OpenPage, Lapse, OwnerWrites, vars, migration
<1>6. CASE Purge
  <2>1. Same
    BY <1>1, <1>6, DeleteOf DEF Purge, TypeInv
  <2>2. UNCHANGED migration
    BY <1>6 DEF Purge, migration
  <2> QED
    BY <1>2, <2>1, <2>2
<1> QED
  BY <1>2, <1>3, <1>4, <1>5, <1>6, LockedMoves DEF Next, Expiry, Recovery

\* No migration leaves a request locked behind it, whatever overlaps, unless the
\* listener of its start came after its end or a later step of it was lost: the
\* requests are locked and released by steps of their own, after the status.
THEOREM NotStranded == Spec => []NoneStranded
<1>1. Init => LockedInv
  <2> SUFFICES ASSUME Init PROVE LockedInv
    OBVIOUS
  <2>1. moves = {} /\ \A r \in Reqs : req[r].st = "none"
    BY DEF Init, NoRequest
  <2> QED
    BY <2>1, TypeInit DEF LockedInv, NoneStranded
<1>2. LockedInv => NoneStranded
  BY DEF LockedInv
<1>3. LockedInv /\ [Next]_vars => LockedInv'
  BY LockedStep
<1> QED
  BY <1>1, <1>2, <1>3, PTL DEF Spec
=============================================================================
