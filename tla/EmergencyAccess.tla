-------------------------- MODULE EmergencyAccess --------------------------
(***************************************************************************)
(* One emergency contact: EmergencyAccessService,                           *)
(* EmergencyEnvelopeInvalidationService, their listeners and the hourly job.*)
(* A handler loads the row in one step and saves it in another.  Days pass  *)
(* only between handlers: a request takes seconds, a wait takes days.       *)
(***************************************************************************)
EXTENDS Naturals, Entity

CONSTANTS Workers,    \* the PHP processes
          Waits,      \* EmergencyAccessService::ALLOWED_WAIT_PERIODS
          MaxTime,    \* the last day considered
          MaxSuites,  \* the suites the grantor, and the grantee, get to have
          MaxRows,    \* the rows that are ever inserted
          Conflicts   \* pairs of operations that do not overlap

ASSUME WaitsAssumption == Waits \subseteq Nat \ {0}
ASSUME BoundsAssumption ==
  MaxTime \in Nat \ {0} /\ MaxSuites \in Nat \ {0} /\ MaxRows \in Nat

\* The pairs of operations that the results below need apart: an approval
\* overlaps neither a decline nor a designation, a request no designation, and
\* what stores an envelope no cascade.  The code does not keep them apart.
Apart == {{"promote", "decline"}, {"promote", "designate"}, {"request", "designate"}}
           \cup {{o, c} : o \in {"designate", "carry"}, c \in {"sweep", "void", "clear"}}

VARIABLES row,       \* the EmergencyContact
          gs, es,    \* the active suite of the grantor and of the grantee
          gEnded,    \* suites of the grantor that were replaced or revoked
          eEnded,    \* suites of the grantee that were revoked
          released,  \* the envelopes the grantee was answered with
          now,
          h          \* per worker: its operation and the row it loaded

vars == <<row, gs, es, gEnded, eEnded, released, now, h>>

Null == 0
Days == 1..MaxTime
Suites == 1..MaxSuites
NoRow == [id |-> 0, state |-> "none", asked |-> Null, wait |-> 0, env |-> Null,
          gsuite |-> Null, esuite |-> Null]
States == {"none", "granted", "requested", "approved", "invalidated"}
\* An envelope is named by the day it was stored.
Rows == [id : 0..MaxRows, state : States, asked : Days \cup {Null},
         wait : Waits \cup {0}, env : Days \cup {Null},
         gsuite : Suites \cup {Null}, esuite : Suites \cup {Null}]
Ops == {"idle", "designate", "request", "decline", "promote", "carry",
        "sweep", "void", "clear"}

Idle == [op |-> "idle", x |-> NoRow, g |-> Null, e |-> Null]
Handlers == [op : Ops, x : Rows, g : Suites \cup {Null}, e : Suites \cup {Null}]

\* Every variable has its type: a wait period is one of those offered.
TypeOK ==
  /\ row \in Rows
  /\ gs \in Suites /\ es \in Suites
  /\ gEnded \subseteq Suites /\ eEnded \subseteq Suites
  /\ released \subseteq Days
  /\ now \in Days
  /\ h \in [Workers -> Handlers]

Init ==
  /\ row = NoRow
  /\ gs = 1 /\ es = 1 /\ gEnded = {} /\ eEnded = {}
  /\ released = {}
  /\ now = 1
  /\ h = [w \in Workers |-> Idle]

-----------------------------------------------------------------------------
\* A free worker accepts an operation that may overlap those under way, and
\* loads the row.
Free(w, o) ==
  /\ h[w].op = "idle"
  /\ \A v \in Workers : h[v].op = "idle" \/ {o, h[v].op} \notin Conflicts

Begin(w, o, g, e) ==
  /\ Free(w, o)
  /\ h' = [h EXCEPT ![w] = [op |-> o, x |-> row, g |-> g, e |-> e]]
  /\ UNCHANGED <<row, gs, es, now>>

Load(w, o, g, e) == Begin(w, o, g, e) /\ UNCHANGED <<gEnded, eEnded, released>>

\* A handler ends by a write to the row it loaded, if that row still exists.
Write(w, o, new) ==
  /\ h[w].op = o
  /\ row' = IF row.id = h[w].x.id /\ row.state # "none" THEN new ELSE row
  /\ h' = [h EXCEPT ![w] = Idle]
  /\ UNCHANGED <<gs, es, gEnded, eEnded, released, now>>

Deleted == [NoRow EXCEPT !.id = row.id]

Designate(w) ==
  /\ gs \notin gEnded /\ es \notin eEnded
  /\ Load(w, "designate", gs, es)

\* Bug: any wait period is taken.
MutantInsert(w) ==
  /\ h[w].op = "designate" /\ h[w].x.state = "none"
  /\ row.state = "none" /\ row.id < MaxRows
  /\ row' = [id |-> row.id + 1, state |-> "granted", asked |-> Null, wait |-> MaxTime + 1,
             env |-> now, gsuite |-> h[w].g, esuite |-> h[w].e]
  /\ h' = [h EXCEPT ![w] = Idle]
  /\ UNCHANGED <<gs, es, gEnded, eEnded, released, now>>

\* The pair of users is unique: an insert after another insert is refused.
Insert(w) ==
  /\ h[w].op = "designate" /\ h[w].x.state = "none"
  /\ \E n \in Waits :
       row' = IF row.state = "none" /\ row.id < MaxRows
              THEN [id |-> row.id + 1, state |-> "granted", asked |-> Null, wait |-> n,
                    env |-> now, gsuite |-> h[w].g, esuite |-> h[w].e]
              ELSE row
  /\ h' = [h EXCEPT ![w] = Idle]
  /\ UNCHANGED <<gs, es, gEnded, eEnded, released, now>>

Redesignate(w) ==
  LET x == h[w].x IN
  /\ x.state # "none"
  /\ \E n \in Waits : Write(w, "designate",
       [row EXCEPT !.state = Put(@, x.state, "granted"), !.asked = Put(@, x.asked, Null),
                   !.wait = Put(@, x.wait, n), !.env = now,
                   !.gsuite = Put(@, x.gsuite, h[w].g), !.esuite = Put(@, x.esuite, h[w].e)])

Revoke ==
  /\ row.state # "none"
  /\ row' = Deleted
  /\ UNCHANGED <<gs, es, gEnded, eEnded, released, now, h>>

\* MaxTime leaves out the requests whose wait does not end within it.
Request(w) ==
  /\ row.state = "granted" /\ now + row.wait <= MaxTime
  /\ Load(w, "request", Null, Null)

RequestSave(w) ==
  Write(w, "request", [row EXCEPT !.state = Put(@, h[w].x.state, "requested"),
                                  !.asked = now])

Decline(w) ==
  /\ row.state = "requested"
  /\ Load(w, "decline", Null, Null)

DeclineSave(w) ==
  Write(w, "decline", [row EXCEPT !.state = Put(@, h[w].x.state, "granted"),
                                  !.asked = Put(@, h[w].x.asked, Null)])

\* Bug: a day early.
MutantElapsedEarly == row.state = "requested" /\ row.asked # Null /\ row.asked + row.wait <= now + 1

\* promoteIfElapsed, up to its update.
Elapsed == row.state = "requested" /\ row.asked # Null /\ row.asked + row.wait <= now

\* Bug: the hourly job passes over a grantor in the middle of a recovery.
MutantApproveElapsed(w) == Elapsed /\ row.gsuite = gs /\ Load(w, "promote", Null, Null)

\* The hourly job has the row among those it loaded.
ApproveElapsed(w) == Elapsed /\ Load(w, "promote", Null, Null)

\* What fetchEnvelope answers is decided by the row it loads.
FetchElapsed(w) ==
  /\ Elapsed
  /\ Begin(w, "promote", Null, Null)
  /\ released' = IF row.env = Null THEN released ELSE released \cup {row.env}
  /\ UNCHANGED <<gEnded, eEnded>>

PromoteSave(w) == Write(w, "promote", [row EXCEPT !.state = Put(@, h[w].x.state, "approved")])

FetchApproved ==
  /\ row.state = "approved" /\ row.env # Null
  /\ released' = released \cup {row.env}
  /\ UNCHANGED <<row, gs, es, gEnded, eEnded, now, h>>

\* Bug: a contact with a request under way is carried as well.
MutantReEnvelope(w) ==
  /\ row.state \in {"granted", "requested"}
  /\ gs > 1 /\ row.gsuite = gs - 1 /\ {gs - 1, gs} \cap gEnded = {}
  /\ es \notin eEnded
  /\ Load(w, "carry", gs, es)

\* A contact is carried to the successor while the migration runs.
ReEnvelope(w) ==
  /\ row.state = "granted"
  /\ gs > 1 /\ row.gsuite = gs - 1 /\ {gs - 1, gs} \cap gEnded = {}
  /\ es \notin eEnded
  /\ Load(w, "carry", gs, es)

ReEnvelopeSave(w) ==
  LET x == h[w].x IN
  Write(w, "carry", [row EXCEPT !.env = now, !.gsuite = Put(@, x.gsuite, h[w].g),
                                !.esuite = Put(@, x.esuite, h[w].e)])

\* invalidate()
InvalidateSave(w) ==
  LET x == h[w].x IN
  \E o \in {"sweep", "void"} :
    Write(w, o, [row EXCEPT !.state = Put(@, x.state, "invalidated"),
                   !.env = Put(@, x.env, Null), !.asked = Put(@, x.asked, Null)])

\* The listeners of a completed migration and of a revoked suite: they load
\* the rows bound to the suite and go on to write them.
Cascade(w, o, bound) ==
  IF bound THEN Begin(w, o, Null, Null)
  ELSE Free(w, o) /\ UNCHANGED <<row, gs, es, now, h>>

\* Bug: the sweep passes over the contacts with a request.
MutantMigrationCompleted(w) ==
  /\ gs > 1 /\ gs - 1 \notin gEnded
  /\ gEnded' = gEnded \cup {gs - 1}
  /\ Cascade(w, "sweep", row.gsuite = gs - 1 /\ row.state = "granted")
  /\ UNCHANGED <<eEnded, released>>

MigrationCompleted(w) ==
  /\ gs > 1 /\ gs - 1 \notin gEnded
  /\ gEnded' = gEnded \cup {gs - 1}
  /\ Cascade(w, "sweep", row.gsuite = gs - 1 /\ row.state # "invalidated")
  /\ UNCHANGED <<eEnded, released>>

GrantorRevoked(w) ==
  \E s \in (1..gs) \ gEnded :
    /\ gEnded' = gEnded \cup {s}
    /\ Cascade(w, "clear", row.gsuite = s)
    /\ UNCHANGED <<eEnded, released>>

ClearSave(w) == Write(w, "clear", Deleted)

GranteeRevoked(w) ==
  \E s \in (1..es) \ eEnded :
    /\ eEnded' = eEnded \cup {s}
    /\ Cascade(w, "void", row.esuite = s /\ row.state # "invalidated")
    /\ UNCHANGED <<gEnded, released>>

\* A new suite is active: of the grantor once no migration runs.
GrantorSuite ==
  /\ gs < MaxSuites /\ (gs = 1 \/ gs - 1 \in gEnded)
  /\ gs' = gs + 1
  /\ UNCHANGED <<row, es, gEnded, eEnded, released, now, h>>

GranteeSuite ==
  /\ es < MaxSuites
  /\ es' = es + 1
  /\ UNCHANGED <<row, gs, gEnded, eEnded, released, now, h>>

Tick ==
  /\ now < MaxTime
  /\ \A w \in Workers : h[w].op = "idle"
  /\ now' = now + 1
  /\ UNCHANGED <<row, gs, es, gEnded, eEnded, released, h>>

Accept(w) ==
  \/ Designate(w) \/ Request(w) \/ Decline(w) \/ ApproveElapsed(w) \/ FetchElapsed(w)
  \/ ReEnvelope(w) \/ MigrationCompleted(w) \/ GrantorRevoked(w) \/ GranteeRevoked(w)

Finish(w) ==
  \/ Insert(w) \/ Redesignate(w) \/ RequestSave(w) \/ DeclineSave(w) \/ PromoteSave(w)
  \/ ReEnvelopeSave(w) \/ InvalidateSave(w) \/ ClearSave(w)

Next ==
  \/ \E w \in Workers : Accept(w) \/ Finish(w)
  \/ Revoke \/ FetchApproved \/ GrantorSuite \/ GranteeSuite \/ Tick

Spec == Init /\ [][Next]_vars

\* PHP runs a request to its end, cron runs the hourly job, days pass.
FairSpec ==
  /\ Spec
  /\ WF_vars(\E w \in Workers : ApproveElapsed(w))
  /\ WF_vars(Tick)
  /\ \A w \in Workers : WF_vars(Finish(w))

-----------------------------------------------------------------------------
\* The envelope can reach the grantee: a stored one whose contact is not void.
Phase == IF row.env = Null \/ row.state \notin {"requested", "approved"} THEN "closed"
         ELSE IF row.state = "requested" THEN "waiting" ELSE "open"

Live(v) == IF Phase = "closed" THEN 0 ELSE v

R == INSTANCE EnvelopeRelease WITH
       phase <- Phase, since <- Live(row.asked), wait <- Live(row.wait), env <- Live(row.env)

\* An envelope is released only on a request that stood undeclined for its
\* whole wait (promoteIfElapsed against decline, designate and the cascades).
ReleasedAfterWait == R!Spec

\* An approved envelope is older than the request that opened it: a carry to
\* the successor or a new designation never inherits a wait already served.
WaitNotInherited ==
  row.state = "approved" /\ row.env # Null =>
    row.asked # Null /\ row.env <= row.asked /\ row.asked + row.wait <= now

\* Once the cascade of the grantor's or the grantee's suite has run, no
\* envelope bound to that suite can still be handed out or asked for.
EndedSuiteReleasesNothing ==
  row.env # Null /\ (row.gsuite \in gEnded \/ row.esuite \in eEnded) =>
    row.state \in {"none", "invalidated"} \/ \E w \in Workers : h[w].op \in {"sweep", "void", "clear"}

\* A pending request never hangs: it is approved, declined or voided.
PendingResolves == row.state = "requested" ~> row.state # "requested"
=============================================================================
