--------------------------- MODULE FederatedShare ---------------------------
(***************************************************************************)
(* One secret shared by its owner with one user of another server: the rows *)
(* of the owner (FederatedShareService, FederatedNotificationDelivery,      *)
(* FederatedDeclineReceiver) and the rows and copies of the recipient       *)
(* (FederatedShareReceiver, FederatedInboundService, FederatedCopyService,  *)
(* FederatedCopyDeclineService, FederatedRemoteChangeService).              *)
(*                                                                         *)
(* A worker is a request with the calls it makes to the other server: every *)
(* message and every answer may be lost, and a process may die anywhere.    *)
(***************************************************************************)
EXTENDS Naturals, Entity

CONSTANTS Workers,     \* requests and jobs at one time
          MaxShares,   \* the shares the owner ever creates
          MaxRequests, \* the requests of the two users on a share, and the deaths
          MaxAttempts, \* FederatedNotificationDelivery::MAX_ATTEMPTS
          Conflicts    \* pairs of program points that no two workers are at

ASSUME SharesAssumption == MaxShares \in Nat /\ MaxRequests \in Nat
ASSUME AttemptsAssumption == MaxAttempts \in Nat \ {0, 1}

VARIABLES out,     \* the owner's rows
          inb,     \* the recipient's rows
          copy,    \* the copy a row of the recipient brought into the vault
          n,       \* shares created
          reqs,    \* requests made and processes that died
          h        \* per worker: where it is and what it holds

vars == <<out, inb, copy, n, reqs, h>>
theirs == <<inb, copy>>
counts == <<n, reqs>>

Shares == 1..MaxShares
Vals == 1..(MaxRequests + 1)
\* The values of the secret are numbered as they are made; 0 is no value.
OutRows == [st : {"none", "active", "suspended", "revoked", "declined", "failed"},
            pend : {"none", "updated", "unshared"}, tries : 0..MaxAttempts,
            due : BOOLEAN, val : Vals \cup {0}]
InbRows == [st : {"none", "pending", "accepted", "declined", "revoked"}, linked : BOOLEAN]
Copies == [val : Vals \cup {0}, trash : BOOLEAN]
NoOut == [st |-> "none", pend |-> "none", tries |-> 0, due |-> FALSE, val |-> 0]
NoInb == [st |-> "none", linked |-> FALSE]
NoCopy == [val |-> 0, trash |-> FALSE]

Points == {"idle", "create", "announce", "announced", "update", "revoke", "suspend",
           "send", "apply", "unshare", "pulled", "answered", "accept", "fetched", "decline", "trash",
           "purge", "tell", "settle", "done", "restore", "resume", "resumed", "back"}
Tasks == {"none", "notify", "accept", "decline", "trash", "purge", "restore"}
Idle == [at |-> "idle", k |-> "none", s |-> 0, x |-> NoOut, y |-> NoOut, z |-> NoInb,
         v |-> 0, o |-> NoOut]
Frames == [at : Points, k : Tasks, s : 0..MaxShares, x : OutRows, y : OutRows,
           z : InbRows, v : Vals \cup {0}, o : OutRows]

\* Every variable has its type: a notification is sent a bounded number of times.
TypeOK ==
  /\ out \in [Shares -> OutRows] /\ inb \in [Shares -> InbRows] /\ copy \in [Shares -> Copies]
  /\ n \in 0..MaxShares /\ reqs \in 0..MaxRequests
  /\ h \in [Workers -> Frames]

Init ==
  /\ out = [s \in Shares |-> NoOut]
  /\ inb = [s \in Shares |-> NoInb]
  /\ copy = [s \in Shares |-> NoCopy]
  /\ n = 0 /\ reqs = 0
  /\ h = [w \in Workers |-> Idle]

-----------------------------------------------------------------------------
\* A worker moves from point p to where new says.
Step(w, p, new) ==
  /\ h[w].at = p
  /\ \A u \in Workers \ {w} : {new.at, h[u].at} \notin Conflicts
  /\ h' = [h EXCEPT ![w] = new]

Move(w, p, q) == Step(w, p, [h[w] EXCEPT !.at = q])

\* update() of the owner's row by worker w: assigned y, loaded x.
Merged(r, x, y) ==
  IF r.st = "none" THEN r
  ELSE [st |-> Put(r.st, x.st, y.st), pend |-> Put(r.pend, x.pend, y.pend),
        tries |-> Put(r.tries, x.tries, y.tries), due |-> Put(r.due, x.due, y.due),
        val |-> Put(r.val, x.val, y.val)]

WriteOut(s, x, y) == out' = [out EXCEPT ![s] = Merged(@, x, y)]
WriteInb(s, z, new) ==
  inb' = [inb EXCEPT ![s] = [st |-> Put(@.st, z.st, new.st),
                             linked |-> Put(@.linked, z.linked, new.linked)]]

Ask == reqs < MaxRequests /\ reqs' = reqs + 1

-----------------------------------------------------------------------------
\* The owner.

\* assertNotSharedWith
Create(w) ==
  /\ n < MaxShares
  /\ \A s \in Shares : out[s].st # "active"
  /\ Move(w, "idle", "create")
  /\ UNCHANGED <<out, theirs, counts>>

Insert(w) ==
  /\ n < MaxShares
  /\ n' = n + 1
  /\ out' = [out EXCEPT ![n + 1] = [NoOut EXCEPT !.st = "active", !.val = reqs + 1]]
  /\ Step(w, "create", [Idle EXCEPT !.at = "announce", !.s = n + 1])
  /\ UNCHANGED <<theirs, reqs>>

\* The recipient's server stores the offer.
Receive(w) ==
  /\ Move(w, "announce", "announced")
  /\ inb' = [inb EXCEPT ![h[w].s].st = "pending"]
  /\ UNCHANGED <<out, copy, counts>>

Created(w) ==
  /\ Step(w, "announced", Idle)
  /\ UNCHANGED <<out, theirs, counts>>

NotCreated(w) ==
  /\ \E p \in {"announce", "announced"} : Step(w, p, Idle)
  /\ out' = [out EXCEPT ![h[w].s] = NoOut]
  /\ UNCHANGED <<theirs, counts>>

\* What deliver() sets before it sends.
Delivering(y, type) == [y EXCEPT !.pend = type, !.tries = 0]

Update(w, s) ==
  /\ out[s].st = "active" /\ Ask
  /\ Step(w, "idle", [Idle EXCEPT !.at = "update", !.s = s, !.x = out[s],
                                  !.y = [out[s] EXCEPT !.val = reqs + 2]])
  /\ UNCHANGED <<out, theirs, n>>

UpdateSave(w) ==
  LET f == h[w] IN
  /\ Step(w, "update", [f EXCEPT !.at = "send", !.k = "notify", !.y = Delivering(@, "updated")])
  /\ WriteOut(f.s, f.x, f.y)
  /\ UNCHANGED <<theirs, counts>>

\* A new name or URL is read when the recipient pulls: nothing is written first.
DetailsChanged(w, s) ==
  /\ out[s].st = "active" /\ Ask
  /\ Step(w, "idle", [Idle EXCEPT !.at = "send", !.k = "notify", !.s = s, !.x = out[s],
                                  !.y = Delivering(out[s], "updated")])
  /\ UNCHANGED <<out, theirs, n>>

Revoke(w, s) ==
  /\ out[s].st # "none" /\ Ask
  /\ Step(w, "idle", [Idle EXCEPT !.at = "revoke", !.s = s, !.x = out[s],
                                  !.y = [out[s] EXCEPT !.st = "revoked"]])
  /\ UNCHANGED <<out, theirs, n>>

RevokeSave(w) ==
  LET f == h[w] IN
  /\ Step(w, "revoke", [f EXCEPT !.at = "send", !.k = "notify", !.y = Delivering(@, "unshared")])
  /\ WriteOut(f.s, f.x, f.y)
  /\ UNCHANGED <<theirs, counts>>

\* The browser suspends a share that it listed as active.
Suspend(w, s) ==
  /\ out[s].st = "active" /\ Ask
  /\ Step(w, "idle", [Idle EXCEPT !.at = "suspend", !.s = s])
  /\ UNCHANGED <<out, theirs, n>>

SuspendSave(w) ==
  /\ Step(w, "suspend", Idle)
  /\ out' = [out EXCEPT ![h[w].s].st = IF @ = "none" THEN @ ELSE "suspended"]
  /\ UNCHANGED <<theirs, counts>>

\* RetryFederatedNotificationsJob has the row among the due ones.
Retry(w, s) ==
  /\ out[s].pend # "none" /\ out[s].due
  /\ Step(w, "idle", [Idle EXCEPT !.at = "send", !.k = "notify", !.s = s,
                                  !.x = out[s], !.y = out[s]])
  /\ UNCHANGED <<out, theirs, counts>>

\* attempt(), after the answer 201: what was set counts as changed even when
\* it is back at the loaded value.
Delivered(w) ==
  LET f == h[w]
      r == Merged(out[f.s], f.x, [f.y EXCEPT !.tries = 0, !.due = FALSE]) IN
  /\ Step(w, "answered", Idle)
  /\ out' = [out EXCEPT ![f.s] =
               IF f.y.pend = "unshared" \/ r.st = "none" THEN NoOut
               ELSE [r EXCEPT !.pend = "none"]]
  /\ UNCHANGED <<theirs, counts>>

\* Bug: one attempt too many.
MutantOneMoreAttempt(w) ==
  LET f == h[w]
      t == f.y.tries + 1
      r == Merged(out[f.s], f.x, f.y) IN
  /\ f.k = "notify"
  /\ \E p \in {"send", "apply", "unshare", "pulled", "tell", "answered"} : Step(w, p, Idle)
  /\ out' = [out EXCEPT ![f.s] =
               IF r.st = "none" THEN r
               ELSE IF t > MaxAttempts
                    THEN [r EXCEPT !.st = "failed", !.tries = t, !.due = FALSE]
                    ELSE [r EXCEPT !.tries = t, !.due = TRUE]]
  /\ UNCHANGED <<theirs, counts>>

\* Bug: the row is deleted when its notification is given up.
MutantGivenUpDeleted(w) ==
  LET f == h[w]
      t == f.y.tries + 1
      r == Merged(out[f.s], f.x, f.y) IN
  /\ f.k = "notify"
  /\ \E p \in {"send", "apply", "unshare", "pulled", "tell", "answered"} : Step(w, p, Idle)
  /\ out' = [out EXCEPT ![f.s] =
               IF r.st = "none" THEN r
               ELSE IF t >= MaxAttempts
                    THEN NoOut
                    ELSE [r EXCEPT !.tries = t, !.due = TRUE]]
  /\ UNCHANGED <<theirs, counts>>

\* Bug: the row does not show that its notification was given up.
MutantGivenUpSilently(w) ==
  LET f == h[w]
      t == f.y.tries + 1
      r == Merged(out[f.s], f.x, f.y) IN
  /\ f.k = "notify"
  /\ \E p \in {"send", "apply", "unshare", "pulled", "tell", "answered"} : Step(w, p, Idle)
  /\ out' = [out EXCEPT ![f.s] =
               IF r.st = "none" THEN r
               ELSE IF t >= MaxAttempts
                    THEN [r EXCEPT !.tries = t, !.due = FALSE]
                    ELSE [r EXCEPT !.tries = t, !.due = TRUE]]
  /\ UNCHANGED <<theirs, counts>>

\* attempt(), after a refusal, or when the message or its answer is lost.
NotDelivered(w) ==
  LET f == h[w]
      t == f.y.tries + 1
      r == Merged(out[f.s], f.x, f.y) IN
  /\ f.k = "notify"
  /\ \E p \in {"send", "apply", "unshare", "pulled", "tell", "answered"} : Step(w, p, Idle)
  /\ out' = [out EXCEPT ![f.s] =
               IF r.st = "none" THEN r
               ELSE IF t >= MaxAttempts
                    THEN [r EXCEPT !.st = Put(@, f.y.st, "failed"), !.tries = t, !.due = Put(@, f.x.due, FALSE)]
                    ELSE [r EXCEPT !.tries = t, !.due = TRUE]]
  /\ UNCHANGED <<theirs, counts>>

-----------------------------------------------------------------------------
\* The recipient's server handles a notification: a revoked row is unknown.
Arrive(w) ==
  LET f == h[w] IN
  /\ Step(w, "send", [f EXCEPT !.z = inb[f.s],
                        !.at = IF f.y.pend = "unshared" THEN "unshare" ELSE "apply"])
  /\ inb[f.s].st \notin {"none", "revoked"}
  /\ UNCHANGED <<out, theirs, counts>>

\* applyUnshare
ApplyUnshare(w) ==
  LET f == h[w] IN
  /\ Move(w, "unshare", "answered")
  /\ copy' = IF f.z.st = "accepted" THEN [copy EXCEPT ![f.s] = NoCopy] ELSE copy
  /\ WriteInb(f.s, f.z, [st |-> "revoked", linked |-> FALSE])
  /\ UNCHANGED <<out, counts>>

\* Bug: a copy that could not be refreshed is answered as if it were.
MutantApplyNothing(w) ==
  /\ h[w].z.st \in {"pending", "accepted"}
  /\ Move(w, "apply", "answered")
  /\ UNCHANGED <<out, theirs, counts>>

\* applyUpdate: nothing to do, a decline to repeat, or a copy to refresh.
ApplyNothing(w) ==
  /\ h[w].z.st = "pending"
  /\ Move(w, "apply", "answered")
  /\ UNCHANGED <<out, theirs, counts>>

ApplyDeclined(w) ==
  /\ h[w].z.st = "declined"
  /\ Move(w, "apply", "tell")
  /\ UNCHANGED <<out, theirs, counts>>

\* FederatedSharePuller: the owner serves an active share only.
Pull(w, p, q) ==
  /\ Step(w, p, [h[w] EXCEPT !.at = q, !.v = out[h[w].s].val])
  /\ out[h[w].s].st = "active"
  /\ UNCHANGED <<out, theirs, counts>>

ApplyPull(w) ==
  /\ h[w].z.st = "accepted" /\ h[w].z.linked /\ copy[h[w].s].val # 0
  /\ Pull(w, "apply", "pulled")

Refresh(w) ==
  LET f == h[w] IN
  /\ Step(w, "pulled", IF f.k = "notify" THEN [f EXCEPT !.at = "answered", !.v = 0] ELSE Idle)
  /\ copy' = [copy EXCEPT ![f.s].val = IF @ = 0 THEN 0 ELSE f.v]
  /\ UNCHANGED <<out, inb, counts>>

-----------------------------------------------------------------------------
\* The recipient.
Begin(w, s, k, p) ==
  /\ Ask
  /\ Step(w, "idle", [Idle EXCEPT !.at = p, !.k = k, !.s = s, !.z = inb[s]])

Accept(w, s) ==
  /\ inb[s].st = "pending"
  /\ Begin(w, s, "accept", "accept")
  /\ UNCHANGED <<out, theirs, n>>

AcceptPull(w) == Pull(w, "accept", "fetched")

AcceptRefused(w) ==
  /\ Step(w, "accept", Idle)
  /\ UNCHANGED <<out, theirs, counts>>

\* pullNew's insert and the row's update.
AcceptSave(w) ==
  LET f == h[w] IN
  /\ Step(w, "fetched", Idle)
  /\ copy' = [copy EXCEPT ![f.s] = [val |-> f.v, trash |-> FALSE]]
  /\ WriteInb(f.s, f.z, [st |-> "accepted", linked |-> TRUE])
  /\ UNCHANGED <<out, counts>>

Decline(w, s) ==
  /\ inb[s].st = "pending"
  /\ Begin(w, s, "decline", "decline")
  /\ UNCHANGED <<out, theirs, n>>

Trash(w, s) ==
  /\ copy[s].val # 0 /\ ~copy[s].trash
  /\ Begin(w, s, "trash", "trash")
  /\ UNCHANGED <<out, theirs, n>>

Purge(w, s) ==
  /\ copy[s].val # 0 /\ copy[s].trash
  /\ Begin(w, s, "purge", "purge")
  /\ UNCHANGED <<out, theirs, n>>

\* The row is declined before the owner is told.
Declining(w) ==
  LET f == h[w] IN
  /\ f.k = "decline" \/ (f.z.st = "accepted" /\ f.z.linked)
  /\ \E p \in {"decline", "trash", "purge"} : Move(w, p, "tell")
  /\ WriteInb(f.s, f.z, [f.z EXCEPT !.st = "declined"])
  /\ UNCHANGED <<out, copy, counts>>

NothingToDecline(w) ==
  LET f == h[w] IN
  /\ ~(f.z.st = "accepted" /\ f.z.linked)
  /\ \E p \in {"trash", "purge"} : Move(w, p, "done")
  /\ UNCHANGED <<out, theirs, counts>>

\* What the owner's server sets when the recipient declines or resumes.
Quiet(r, st) == [r EXCEPT !.st = st, !.pend = "none", !.tries = 0, !.due = FALSE]

\* A decline that is repeated while an update is handled is answered with it.
AfterTell(f) == IF f.k = "notify" THEN "answered" ELSE "done"

\* FederatedDeclineReceiver::handle on the owner's server.
Settle(w) ==
  LET f == h[w] IN
  /\ Step(w, "tell", [f EXCEPT !.at = "settle", !.o = out[f.s]])
  /\ out[f.s].st \notin {"none", "revoked", "declined"}
  /\ UNCHANGED <<out, theirs, counts>>

SettleSave(w) ==
  LET f == h[w] IN
  /\ Step(w, "settle", [f EXCEPT !.at = AfterTell(f), !.o = NoOut])
  /\ WriteOut(f.s, f.o, Quiet(f.o, "declined"))
  /\ UNCHANGED <<theirs, counts>>

\* The owner has nothing to settle, or is not reached: told once, never again.
Told(w) ==
  /\ Move(w, "tell", AfterTell(h[w]))
  /\ UNCHANGED <<out, theirs, counts>>

\* The request of the recipient ends.
Gone(w) ==
  LET f == h[w] IN
  /\ Step(w, "done", Idle)
  /\ copy' = CASE f.k = "trash" -> [copy EXCEPT ![f.s].trash = copy[f.s].val # 0]
               [] f.k = "purge" -> [copy EXCEPT ![f.s] = NoCopy]
               [] OTHER -> copy
  /\ inb' = IF f.k = "purge" THEN [inb EXCEPT ![f.s].linked = FALSE] ELSE inb
  /\ UNCHANGED <<out, counts>>

\* restore() and takeBack(): the owner is asked when the row is declined.
Restore(w, s) ==
  /\ copy[s].val # 0 /\ copy[s].trash
  /\ copy' = [copy EXCEPT ![s].trash = FALSE]
  /\ IF inb[s].linked /\ inb[s].st = "declined" THEN Begin(w, s, "restore", "restore")
     ELSE Ask /\ Step(w, "idle", Idle)
  /\ UNCHANGED <<out, inb, n>>

\* Bug: no look for a share that was sent again meanwhile.
MutantResume(w) ==
  LET f == h[w] IN
  /\ Step(w, "restore", [f EXCEPT !.at = "resume", !.o = out[f.s]])
  /\ out[f.s].st = "declined"
  /\ UNCHANGED <<out, theirs, counts>>

\* FederatedDeclineReceiver::resume on the owner's server.
ResumeActive(w) ==
  /\ Move(w, "restore", "back")
  /\ out[h[w].s].st = "active"
  /\ UNCHANGED <<out, theirs, counts>>

Resume(w) ==
  LET f == h[w] IN
  /\ Step(w, "restore", [f EXCEPT !.at = "resume", !.o = out[f.s]])
  /\ out[f.s].st = "declined"
  /\ \A t \in Shares \ {f.s} : out[t].st # "active"
  /\ UNCHANGED <<out, theirs, counts>>

ResumeSave(w) ==
  LET f == h[w] IN
  /\ Step(w, "resume", [f EXCEPT !.at = "back", !.o = NoOut])
  /\ WriteOut(f.s, f.o, Quiet(f.o, "active"))
  /\ UNCHANGED <<theirs, counts>>

Resumed(w) ==
  LET f == h[w] IN
  /\ Move(w, "back", "resumed")
  /\ WriteInb(f.s, f.z, [f.z EXCEPT !.st = "accepted"])
  /\ UNCHANGED <<out, copy, counts>>

\* The owner's server refuses: the share has ended.
Ended(w) ==
  LET s == h[w].s IN
  /\ Step(w, "restore", Idle)
  /\ out[s].st # "active"
  /\ out[s].st = "declined" => \E t \in Shares \ {s} : out[t].st = "active"
  /\ WriteInb(s, h[w].z, [h[w].z EXCEPT !.st = "revoked"])
  /\ UNCHANGED <<out, copy, counts>>

\* Bug: an owner who is not reached is taken to agree.
MutantUnreachable(w) ==
  LET f == h[w] IN
  /\ \E p \in {"restore", "back"} : Step(w, p, Idle)
  /\ WriteInb(f.s, f.z, [f.z EXCEPT !.st = "accepted"])
  /\ UNCHANGED <<out, copy, counts>>

\* The message or its answer is lost: the row stays declined.
Unreachable(w) ==
  /\ \E p \in {"restore", "back"} : Step(w, p, Idle)
  /\ UNCHANGED <<out, theirs, counts>>

RestorePull(w) == h[w].z.linked /\ copy[h[w].s].val # 0 /\ Pull(w, "resumed", "pulled")

\* The copy keeps its value until the next update.
RestoreStale(w) ==
  /\ Step(w, "resumed", Idle)
  /\ UNCHANGED <<out, theirs, counts>>

-----------------------------------------------------------------------------
\* A process dies.
Crash(w) ==
  /\ h[w].at # "idle"
  /\ Ask
  /\ h' = [h EXCEPT ![w] = Idle]
  /\ UNCHANGED <<out, theirs, n>>

Requests(w) ==
  \/ Create(w)
  \/ \E s \in Shares : \/ Update(w, s) \/ DetailsChanged(w, s) \/ Revoke(w, s) \/ Suspend(w, s)
                       \/ Retry(w, s) \/ Accept(w, s) \/ Decline(w, s) \/ Trash(w, s)
                       \/ Purge(w, s) \/ Restore(w, s)

Owner(w) ==
  \/ Insert(w) \/ Receive(w) \/ Created(w) \/ NotCreated(w) \/ UpdateSave(w) \/ RevokeSave(w)
  \/ SuspendSave(w) \/ Delivered(w) \/ NotDelivered(w)

Recipient(w) ==
  \/ Arrive(w) \/ ApplyUnshare(w) \/ ApplyNothing(w) \/ ApplyDeclined(w) \/ ApplyPull(w)
  \/ Refresh(w) \/ AcceptPull(w) \/ AcceptRefused(w) \/ AcceptSave(w) \/ Declining(w)
  \/ NothingToDecline(w) \/ Settle(w) \/ SettleSave(w) \/ Told(w) \/ Gone(w) \/ ResumeActive(w)
  \/ Resume(w) \/ ResumeSave(w) \/ Resumed(w) \/ Ended(w) \/ Unreachable(w) \/ RestorePull(w)
  \/ RestoreStale(w)

Next == \E w \in Workers : Requests(w) \/ Owner(w) \/ Recipient(w) \/ Crash(w)

Spec == Init /\ [][Next]_vars

\* Requests run on, and cron runs the retry job.
FairSpec ==
  /\ Spec
  /\ WF_vars(\E w \in Workers : Owner(w) \/ Recipient(w))
  /\ WF_vars(\E w \in Workers, s \in Shares : Retry(w, s))

-----------------------------------------------------------------------------
\* The owner forgets a share only when the recipient no longer holds it: the
\* row is deleted once the copy is, or when the share was never offered.
ForgottenByBoth ==
  \A s \in 1..n : out[s].st = "none" => inb[s].st # "accepted"

\* The recipient has at most one share of the secret that is served.
OneActive ==
  \A s, t \in Shares : out[s].st = "active" /\ out[t].st = "active" => s = t

\* An accepted copy is not cut off: the owner does not take it for declined.
AcceptedIsServed ==
  \A s \in Shares : inb[s].st = "accepted" => out[s].st # "declined"

\* An update that is queued reaches the copy, unless the share ends first.
QueuedUpdateArrives ==
  \A s \in Shares :
    out[s].due /\ out[s].pend = "updated" /\ copy[s].val \notin {0, out[s].val}
      ~> copy[s].val \in {0, out[s].val} \/ out[s].st # "active" \/ inb[s].st # "accepted"

\* A revocation that is queued is carried out or given up as failed: no other
\* message that was under way makes the owner forget it.
QueuedRevocationEnds ==
  \A s \in Shares :
    out[s].st = "revoked" /\ out[s].pend = "unshared" /\ out[s].due
      ~> out[s].st \in {"none", "failed"}

\* A revoked share is never served again, whatever the recipient does with the
\* copy meanwhile (openspec/specs/federated-sharing, "must stay revoked").
RevokedForGood ==
  \A s \in Shares : [](out[s].st = "revoked" => [](out[s].st # "active"))
=============================================================================
