---------------------------- MODULE OfflineQueue ----------------------------
(***************************************************************************)
(* One secret edited in a browser without a connection: the sealed queue    *)
(* and the snapshot in IndexedDB (src/offline), the offline store that      *)
(* replays the queue, and the secret on the server, which other devices     *)
(* change, trash, purge, forbid or rotate the keys of meanwhile.            *)
(*                                                                          *)
(* All that is ever done with an updatedAt is to compare its second with    *)
(* the row's. A remembered one is "fresh" while the row is what it was, and *)
(* "stale" after; "same" if all that changed the row since did so within    *)
(* that second.                                                             *)
(***************************************************************************)
EXTENDS Naturals

CONSTANTS MaxEdits,  \* offline edits, numbered in the order they are made
          MaxSuites, \* suites the user gets to have
          Gaps       \* the cases below that are let in

\* What the code leaves open, and what happens to a change then:
\*   "reloaded"        the user chooses "mine" after the 409's row is forgotten
\*   "in flight"       a change is made offline while an older one is being sent
\*   "lost create"     a POST was served, and the browser does not learn of it
\*   "sync refused"    the right to share is taken away between the two steps
\*   "failed rotation" keys are rotated here with refused changes in the queue
\*   "stale session"   keys are rotated elsewhere under a session that is open
\*   "evicted"         the snapshot goes, for the two-factor policy, or has gone
\*   "cleared"         caching is turned off while refused changes are kept
\*   "same second"     the row is changed twice in a second
\*   "bad request"     the type that a change names is deleted meanwhile: a 400
\* and one bound: "older key", a vault unlocked offline on the old snapshot after
\* its changes were reopened, which gives a secret two pending entries.

ASSUME QueueAssumption == MaxEdits \in Nat \ {0} /\ MaxSuites \in Nat \ {0}

VARIABLES row,      \* the secret on the server; a purged one answers like one the
                    \* user may not change
          suite,    \* the user's active suite
          writeLock,\* a migration of the suite is running
          snap,     \* IndexedDB: the snapshot
          queue,    \* IndexedDB: the entries
          tab,      \* the page: its session, its copy, its syncNow
          shown,    \* the page: per entry in conflict, the version a 409 returned
          replay,   \* the page: the request of replayOne, with its entry
          made,     \* offline edits so far
          settled   \* edits that reached the server, or that the user gave up

vars == <<row, suite, writeLock, snap, queue, tab, shown, replay, made, settled>>
server  == <<row, suite, writeLock>>
browser == <<snap, queue, tab, shown>>

Edits    == 1..MaxEdits
Suites   == 1..MaxSuites
\* What a version becomes when the row is changed, and what the server takes from
\* the user: every change, none, or none with the type that the changes name.
Olds     == {"stale"} \cup IF "same second" \in Gaps THEN {"same"} ELSE {}
Takes    == {"all", "none"} \cup IF "bad request" \in Gaps THEN {"no type"} ELSE {}
Versions == {"none", "fresh"} \cup Olds
Pending  == {"queued", "sync"}
Statuses == Pending \cup {"conflict", "failed"}

\* "seen" is no field of the code: whether the user had the row before them as
\* it is now when they made the first of the edits, or when they chose to keep them.
Entries == [id : Edits, op : {"create", "update", "delete"}, base : Versions, suite : Suites,
            status : Statuses, edits : SUBSET Edits, seen : BOOLEAN]

NoSnapshot == [suite |-> 0, copy |-> "none"]
Locked     == [mode |-> "locked", suite |-> 0, copy |-> "none", sync |-> "no"]
Idle       == [step |-> "idle"]
Steps      == {"sent", "checked", "answered", "fan"}
Answers    == {"none", "ok", "conflict", "failed", "retry"}

\* Types; an entry is sealed to a suite that exists, never to the nothing of a
\* vault that has no snapshot.
TypeOK ==
  /\ row \in [at : {"none", "kept", "trashed"}, takes : Takes]
  /\ suite \in Suites /\ writeLock \in BOOLEAN
  /\ snap \in [suite : Suites, copy : Versions] \cup {NoSnapshot}
  /\ queue \subseteq Entries
  /\ tab \in [mode : {"locked", "online", "cached"}, suite : 0..MaxSuites, copy : Versions,
              sync : {"no", "after", "now"}]
  /\ shown \in [Edits -> Versions]
  /\ replay = Idle \/ replay \in [step : Steps, e : Entries, got : Answers, current : Versions]
  /\ made \in 0..MaxEdits /\ settled \subseteq Edits

Init ==
  /\ row \in [at : {"none", "kept"}, takes : {"all"}]
  /\ suite = 1 /\ writeLock = FALSE
  /\ snap = NoSnapshot /\ queue = {}
  /\ tab = Locked /\ shown = [i \in Edits |-> "none"] /\ replay = Idle
  /\ made = 0 /\ settled = {}

-----------------------------------------------------------------------------
\* The entries the session opens, and those sealed under another suite.
Opened  == {e \in queue : e.suite = tab.suite}
Foreign == queue \ Opened

Unlocked == tab.mode # "locked"
Calm     == replay = Idle

\* The secret in the view: the copy with the queue over it.
Visible ==
  /\ tab.copy # "none" \/ \E e \in Opened : e.op = "create"
  /\ \A e \in Opened : e.op # "delete"

Without(id) == {e \in queue : e.id # id}
Put(e)      == Without(e.id) \cup {e}

Aged(v, old) == IF v \in {"fresh", "same"} THEN old ELSE v
Older(e, old) == [e EXCEPT !.base = Aged(@, old), !.seen = FALSE]

\* The row is changed, and gets a new updatedAt: every remembered one is of the past.
Touch(old) ==
  /\ snap' = [snap EXCEPT !.copy = Aged(@, old)]
  /\ queue' = {Older(e, old) : e \in queue}
  /\ tab' = [tab EXCEPT !.copy = Aged(@, old)]
  /\ shown' = [i \in Edits |-> Aged(shown[i], old)]

Sending(e) == [step |-> IF e.status = "sync" THEN "fan" ELSE "sent", e |-> e,
               got |-> "none", current |-> "none"]

\* Bug: an entry whose value is saved is taken for done.
MutantPendings(q, s) == {e \in q : e.suite = s /\ e.status = "queued"}

\* replayQueue in a session of suite s over the entries q, oldest first: nothing
\* when one is already under way, or when nothing is pending. A secret has one
\* pending entry, so that the loop is over with it ("older key" lets in a second
\* one); the entries of other secrets do not touch this one.
Pendings(q, s) == {e \in q : e.suite = s /\ e.status \in Pending}
Replayed(q, s) ==
  IF Calm /\ Pendings(q, s) # {}
  THEN Sending(CHOOSE e \in Pendings(q, s) : \A f \in Pendings(q, s) : e.id <= f.id)
  ELSE replay

\* The secret is made, and the browser has yet to learn it: a POST that is sent
\* again makes another one.
Created == ~Calm /\ replay.step = "answered" /\ replay.got = "ok" /\ replay.e.op = "create"

-----------------------------------------------------------------------------
\* The session.

\* session.unlock, and syncNow up to its first request.
UnlockOnline ==
  /\ tab.mode = "locked"
  /\ tab' = [mode |-> "online", suite |-> suite, copy |-> "none",
             sync |-> IF Calm THEN "after" ELSE "now"]
  /\ replay' = Replayed(queue, suite)
  /\ UNCHANGED <<server, snap, queue, shown, made, settled>>

\* The two-factor policy refuses the unlock, and the snapshot goes.
RefusedUnlock ==
  /\ tab.mode = "locked" /\ snap # NoSnapshot
  /\ (\A e \in queue : e.suite = suite) \/ "evicted" \in Gaps
  /\ snap' = NoSnapshot
  /\ UNCHANGED <<server, queue, tab, shown, replay, made, settled>>

\* Bug: no look whether there is a snapshot.
MutantUnlockOffline ==
  /\ tab.mode = "locked"
  /\ \A e \in queue : e.suite = snap.suite
  /\ tab' = [mode |-> "cached", suite |-> snap.suite, copy |-> snap.copy, sync |-> "no"]
  /\ UNCHANGED <<server, snap, queue, shown, replay, made, settled>>

UnlockOffline ==
  /\ tab.mode = "locked" /\ snap # NoSnapshot
  /\ (\A e \in queue : e.suite = snap.suite) \/ "older key" \in Gaps
  /\ tab' = [mode |-> "cached", suite |-> snap.suite, copy |-> snap.copy, sync |-> "no"]
  /\ UNCHANGED <<server, snap, queue, shown, replay, made, settled>>

Lock ==
  /\ Unlocked
  /\ tab' = Locked
  /\ UNCHANGED <<server, snap, queue, shown, replay, made, settled>>

\* The page is closed, or dies, and is opened again: its memory is gone.
Reload ==
  /\ ~Created \/ "lost create" \in Gaps
  /\ tab' = Locked /\ shown' = [i \in Edits |-> "none"] /\ replay' = Idle
  /\ UNCHANGED <<server, snap, queue, made, settled>>

-----------------------------------------------------------------------------
\* Edits without a connection.

Incoming(op) ==
  [id |-> made + 1, op |-> op, base |-> tab.copy, suite |-> tab.suite, status |-> "queued",
   edits |-> {made + 1}, seen |-> tab.copy = "fresh"]

\* Bug: the base of the newest edit is kept.
MutantCoalesce(old, new) ==
  IF old.op = "delete" THEN old
  ELSE [old EXCEPT !.op = IF new.op = "delete" THEN "delete" ELSE @,
                   !.base = new.base,
                   !.status = "queued",
                   !.edits = @ \cup new.edits]

\* What is kept of the pending change and a new one, if the two do not cancel out:
\* the earliest base with the latest values.
Coalesce(old, new) ==
  IF old.op = "delete" THEN old
  ELSE [old EXCEPT !.op = IF new.op = "delete" THEN "delete" ELSE @,
                   !.status = "queued",
                   !.edits = @ \cup new.edits]

Enqueue(op) ==
  /\ tab.mode = "cached" /\ made < MaxEdits
  /\ Calm \/ "in flight" \in Gaps
  /\ IF op = "create" THEN tab.copy = "none" /\ row.at = "none" /\ Opened = {} ELSE Visible
  /\ made' = made + 1
  /\ LET new == Incoming(op)
         old == {e \in Opened : e.status # "failed"}
     IN  \/ /\ old = {}
            /\ queue' = queue \cup {new}
            /\ UNCHANGED settled
         \/ \E e \in old :
              IF e.op = "create" /\ op = "delete"
              THEN /\ queue' = Without(e.id)
                   /\ settled' = settled \cup e.edits \cup new.edits
              ELSE /\ queue' = Put(Coalesce(e, new))
                   /\ UNCHANGED settled
  /\ shown' = [i \in Edits |-> IF \E e \in queue' : e.id = i /\ e.status = "conflict"
                               THEN shown[i] ELSE "none"]
  /\ UNCHANGED <<server, snap, tab, replay>>

-----------------------------------------------------------------------------
\* The replay: replayOne, and the server's answer.

\* The browser's online event.
ConnectionBack ==
  /\ tab.mode = "online" /\ Calm /\ Pendings(queue, tab.suite) # {}
  /\ replay' = Replayed(queue, tab.suite)
  /\ UNCHANGED <<server, browser, made, settled>>

\* A 423 or a 400 is a retry; so is a 500, which is Lose here.
Answer(e) ==
  CASE e.op # "delete" /\ writeLock -> "retry"
    [] e.op # "create" /\ row.at = "none" -> "failed"
    [] row.takes = "none" -> "failed"
    [] e.op # "create" /\ e.base = "stale" -> "conflict"
    [] e.op # "delete" /\ row.takes = "no type" -> "retry"
    [] OTHER -> "ok"

\* The server takes the request, up to its write: SecretService::update and
\* create, or SecretTrashService::trash, on the row as it is loaded now.
Compare ==
  /\ replay # Idle /\ replay.step = "sent"
  /\ LET got == Answer(replay.e)
     IN  replay' = [replay EXCEPT !.step = IF got = "ok" THEN "checked" ELSE "answered",
                                  !.got = got,
                                  !.current = IF got = "conflict" THEN "fresh" ELSE "none"]
  /\ UNCHANGED <<server, browser, made, settled>>

\* Its write, over whatever the row is by then; trash leaves updatedAt alone.
Write ==
  /\ replay # Idle /\ replay.step = "checked"
  /\ LET e == replay.e
     IN  /\ \/ /\ e.op = "delete"
               /\ replay' = [replay EXCEPT !.step = "answered"]
               /\ UNCHANGED browser
            \/ /\ e.op # "delete"
               /\ \E old \in Olds :
                    /\ Touch(old)
                    /\ replay' = [replay EXCEPT !.step = "answered", !.e = Older(e, old)]
         /\ row' = [row EXCEPT !.at = CASE e.op = "create" -> "kept"
                                       [] e.op = "delete" -> "trashed"
                                       [] OTHER -> @]
         /\ settled' = IF e.op = "delete" \/ e.suite = suite
                       THEN settled \cup e.edits ELSE settled
  /\ UNCHANGED <<suite, writeLock, made>>

\* setStatus seals to the session's certificate: it fails on a locked vault.
SetStatus(e, status) ==
  queue' = IF Unlocked THEN Put([e EXCEPT !.status = status]) ELSE queue

Drop(e) ==
  /\ queue' = Without(e.id)
  /\ shown' = [shown EXCEPT ![e.id] = "none"]

\* The answer arrives.
Receive ==
  /\ replay # Idle /\ replay.step = "answered"
  /\ LET e == replay.e
     IN  \/ /\ replay.got = "ok" /\ e.op = "update"
            /\ replay' = [replay EXCEPT !.step = "fan"]
            /\ UNCHANGED <<queue, shown>>
         \/ /\ replay.got = "ok" /\ e.op # "update"
            /\ Drop(e) /\ replay' = Idle
         \/ /\ replay.got = "conflict"
            /\ shown' = IF Unlocked THEN [shown EXCEPT ![e.id] = replay.current] ELSE shown
            /\ SetStatus(e, "conflict") /\ replay' = Idle
         \/ /\ replay.got = "failed"
            /\ SetStatus(e, "failed") /\ replay' = Idle
            /\ UNCHANGED shown
         \/ /\ replay.got = "retry" /\ replay' = Idle
            /\ UNCHANGED <<queue, shown>>
  /\ UNCHANGED <<server, snap, tab, made, settled>>

\* The request or its answer is lost, or the server fails at it, and the entry
\* stays as it was.
Lose ==
  /\ replay # Idle /\ replay.step \in {"sent", "checked", "answered"}
  /\ ~Created \/ "lost create" \in Gaps
  /\ replay' = Idle
  /\ UNCHANGED <<server, browser, made, settled>>

\* The recipients' step of an update: its requests run to the end, or one of
\* them fails or is refused, which leaves the entry for another sync.
FanOut ==
  /\ replay # Idle /\ replay.step = "fan"
  /\ Unlocked /\ row.takes # "none"
  /\ Drop(replay.e) /\ replay' = Idle
  /\ UNCHANGED <<server, snap, tab, made, settled>>

FanOutFails ==
  /\ replay # Idle /\ replay.step = "fan"
  /\ SetStatus(replay.e, "sync") /\ replay' = Idle
  /\ UNCHANGED <<server, snap, tab, shown, made, settled>>

\* Bug: the snapshot is replaced whatever is queued.
MutantNoneNeedsOld == TRUE

\* No entry needs the old envelope.
NoneNeedsOld == Foreign = {}

\* The rest of syncNow: no snapshot while an entry needs the old one; a new
\* one; none since the administrator turned the cache off; or none because of
\* the two-factor policy.
Manifest ==
  /\ tab.mode = "online"
  /\ tab.sync = "now" \/ (tab.sync = "after" /\ Calm)
  /\ tab' = [tab EXCEPT !.sync = "no"]
  /\ \/ UNCHANGED <<snap, queue, settled>>
     \/ /\ NoneNeedsOld
        /\ snap' = [suite |-> suite, copy |-> IF row.at = "kept" THEN "fresh" ELSE "none"]
        /\ UNCHANGED <<queue, settled>>
     \/ /\ NoneNeedsOld
        /\ snap' = NoSnapshot
        /\ UNCHANGED <<queue, settled>>
     \/ /\ NoneNeedsOld
        /\ snap' = NoSnapshot
        /\ \A e \in Opened : e.status = "failed"
        /\ Opened = {} \/ "cleared" \in Gaps
        /\ queue' = {}
        /\ UNCHANGED settled
  /\ UNCHANGED <<server, shown, replay, made>>

-----------------------------------------------------------------------------
\* The user's choices.

KeepServer ==
  \E e \in Opened :
    /\ Unlocked /\ e.status = "conflict"
    /\ Drop(e)
    /\ settled' = settled \cup e.edits
    /\ UNCHANGED <<server, snap, tab, replay, made>>

KeepMine ==
  \E e \in Opened :
    /\ Unlocked /\ e.status = "conflict"
    /\ shown[e.id] # "none" \/ "reloaded" \in Gaps
    /\ LET new == [e EXCEPT !.base = shown[e.id], !.status = "queued", !.seen = shown[e.id] = "fresh"]
       IN  /\ queue' = Put(new)
           /\ shown' = [shown EXCEPT ![e.id] = "none"]
           /\ replay' = IF tab.mode = "online" THEN Replayed(queue', tab.suite) ELSE replay
    /\ UNCHANGED <<server, snap, tab, made, settled>>

DiscardEntry ==
  \E e \in Opened :
    /\ Unlocked /\ e.status = "failed"
    /\ Drop(e)
    /\ settled' = settled \cup e.edits
    /\ UNCHANGED <<server, snap, tab, replay, made>>

\* reopenWithPreviousPassword and the replay behind it: the snapshot holds the
\* previous key.
Reopen ==
  /\ Unlocked /\ Foreign # {} /\ snap # NoSnapshot
  /\ \A e \in Foreign : e.suite = snap.suite
  /\ queue' = {[e EXCEPT !.suite = tab.suite] : e \in queue}
  /\ replay' = IF tab.mode = "online" THEN Replayed(queue', tab.suite) ELSE replay
  /\ UNCHANGED <<server, snap, tab, shown, made, settled>>

DiscardForeign ==
  /\ Unlocked /\ Foreign # {}
  /\ queue' = Opened
  /\ settled' = settled \cup UNION {e.edits : e \in Foreign}
  /\ UNCHANGED <<server, snap, tab, shown, replay, made>>

NoPendingChanges == Foreign = {} /\ \A e \in Opened : e.status = "failed"

\* initiateCompromiseRecovery in this browser: the session moves to the new
\* suite and the snapshot goes.
RotateHere ==
  /\ tab.mode = "online" /\ tab.suite = suite /\ suite < MaxSuites /\ ~writeLock
  /\ NoPendingChanges
  /\ queue = {} \/ "failed rotation" \in Gaps
  /\ suite' = suite + 1 /\ writeLock' = TRUE
  /\ tab' = [tab EXCEPT !.suite = suite + 1]
  /\ snap' = NoSnapshot
  /\ UNCHANGED <<row, queue, shown, replay, made, settled>>

-----------------------------------------------------------------------------
\* The other devices and the administrator.

ChangeElsewhere ==
  /\ row.at = "kept" /\ ~writeLock
  /\ \E old \in Olds :
       /\ Touch(old)
       /\ replay' = IF Calm THEN Idle
                    ELSE [replay EXCEPT !.e = Older(@, old), !.current = Aged(@, old)]
  /\ UNCHANGED <<server, made, settled>>

\* Only the recipients are left of an update.
Syncing ==
  \/ \E e \in queue : e.status = "sync"
  \/ ~Calm /\ (replay.step = "fan" \/ replay.got = "ok")

MoveElsewhere ==
  /\ row.at # "none"
  /\ row' = [row EXCEPT !.at = IF @ = "kept" THEN "trashed" ELSE "kept"]
  /\ UNCHANGED <<suite, writeLock, browser, replay, made, settled>>

\* A type that was deleted does not come back.
ChangeAccess ==
  /\ row.takes = "all" => ~Syncing \/ "sync refused" \in Gaps
  /\ row.takes # "no type"
  /\ \E to \in Takes \ {row.takes} : row' = [row EXCEPT !.takes = to]
  /\ UNCHANGED <<suite, writeLock, browser, replay, made, settled>>

RotateElsewhere ==
  /\ suite < MaxSuites /\ ~writeLock
  /\ (tab.mode # "online" /\ Calm) \/ "stale session" \in Gaps
  /\ (\A e \in queue : e.suite = snap.suite) \/ "evicted" \in Gaps
  /\ suite' = suite + 1 /\ writeLock' = TRUE
  /\ UNCHANGED <<row, browser, replay, made, settled>>

MigrationEnds ==
  /\ writeLock
  /\ writeLock' = FALSE
  /\ UNCHANGED <<row, suite, browser, replay, made, settled>>

-----------------------------------------------------------------------------
Next ==
  \/ UnlockOnline \/ RefusedUnlock \/ UnlockOffline \/ Lock \/ Reload
  \/ \E op \in {"create", "update", "delete"} : Enqueue(op)
  \/ ConnectionBack \/ Compare \/ Write \/ Receive \/ Lose \/ FanOut \/ FanOutFails \/ Manifest
  \/ KeepServer \/ KeepMine \/ DiscardEntry \/ Reopen \/ DiscardForeign \/ RotateHere
  \/ ChangeElsewhere \/ MoveElsewhere \/ ChangeAccess \/ RotateElsewhere \/ MigrationEnds

Spec == Init /\ [][Next]_vars

\* The user comes back online now and then and, now and then, stays unlocked
\* until a request is answered that was not lost; an idle session locks; a
\* migration ends.
FairSpec ==
  /\ Spec
  /\ WF_vars(Lock) /\ WF_vars(MigrationEnds)
  /\ SF_vars(UnlockOnline)
  /\ SF_vars(tab.mode = "online" /\ Compare)
  /\ SF_vars(tab.mode = "online" /\ Write)
  /\ SF_vars(Unlocked /\ Receive)
  /\ SF_vars(FanOut)

-----------------------------------------------------------------------------
Opens(e) == e.suite = suite \/ e.suite = snap.suite

\* Every change made offline has reached the server, was given up by the user,
\* or is still in the queue, sealed to the active suite or to the one whose key
\* the snapshot holds.
EditsAccounted ==
  \A i \in 1..made :
    i \in settled \/ \E e \in queue : i \in e.edits /\ Opens(e)

\* The comparison lets a replayed change through only if the row it was made on,
\* by the request's load, is the one the user had before them, when they made the
\* first of the merged changes or when they chose their own.
OnlyTheSeenPasses ==
  [][Compare /\ replay.e.op # "create" /\ replay'.got = "ok" => replay.e.seen]_vars

\* The same of the write, which nothing in the code ensures: another device may
\* save between the two.
NothingLostUnseen ==
  [][Write /\ replay.e.op # "create" => replay.e.seen]_vars

\* A change that the session can replay does not stay pending for good: it
\* reaches the server, or waits for the user's choice, or fails, or needs the
\* previous password.
Replayable == \E e \in queue : e.status \in Pending /\ e.suite = suite
Settles == Replayable ~> ~Replayable
=============================================================================
