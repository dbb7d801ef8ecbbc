------------------------- MODULE OfflineQueueProofs -------------------------
(***************************************************************************)
(* Theorems about OfflineQueue, for any number of edits and of suites.      *)
(* What is safe depends on which of the cases of Gaps are let in.           *)
(***************************************************************************)
EXTENDS OfflineQueue, TLAPS, WellFoundedInduction

\* Without these an entry under way is the one that is stored.
InStep == Gaps \cap {"in flight", "stale session", "older key"} = {}

\* Without these what is sealed to a key goes before the key does.
KeysKept == Gaps \cap {"failed rotation", "evicted", "cleared"} = {}

\* Without these the browser knows which row its entries were made on.
RowsKnown == Gaps \cap {"reloaded", "lost create", "same second"} = {}

Failed(e) == e.status = "failed"

\* The change of a request is written.
Stored(r) == r.step = "fan" \/ (r.step = "answered" /\ r.got = "ok")

-----------------------------------------------------------------------------
(* What the pages, the queue and the request under way have to do with each *)
(* other.                                                                   *)

\* An open session has a key: what it seals is sealed to a suite.
TypeInv == TypeOK /\ (Unlocked => tab.suite \in Suites)

\* An entry is known by its id; one at a time is not refused.
QueueInv ==
  /\ \A e \in queue : e.id <= made /\ e.edits \subseteq 1..made
  /\ \A e, f \in queue : e.id = f.id => e = f
  /\ \A e, f \in queue : Failed(e) \/ Failed(f) \/ e = f

\* A session online is of the active suite; one offline is of the snapshot's,
\* which opens every entry.
SessionInv ==
  /\ tab.mode = "online" => tab.suite = suite
  /\ tab.mode = "cached" => tab.suite = snap.suite /\ Foreign = {}

\* What is under way is a stored entry that waits to be sent.
ReplayInv ==
  ~Calm => replay.e \in queue /\ replay.e.suite = suite /\ replay.e.status \in Pending

StepInv == TypeInv /\ QueueInv /\ SessionInv /\ ReplayInv

\* What the server has stored is settled, whether its answer came or not.
SentInv ==
  /\ \A e \in queue : e.status = "sync" => e.edits \subseteq settled
  /\ ~Calm /\ Stored(replay) => replay.e.edits \subseteq settled

\* Every entry has its key, and every change its entry until it is settled.
KeysInv == StepInv /\ SentInv /\ EditsAccounted /\ \A e \in queue : Opens(e)

\* A request has no answer until it is served, and writes only what it found to
\* be right; a creation has no recipients.
RequestInv ==
  ~Calm => /\ replay.step = "sent" => replay.got = "none"
           /\ replay.step = "checked" =>
                replay.got = "ok" /\ (replay.e.op = "create" \/ row.at # "none")
           /\ replay.e.op = "create" => replay.step # "fan" /\ replay.got # "conflict"

\* A secret that waits to be created is not there yet, and no other entry is;
\* a base that the row still has is what the user saw, and a change without a
\* base is of a secret that was never created.
BaseInv ==
  /\ \A e \in queue :
       IF e.op = "create"
       THEN /\ e.status \in {"queued", "failed"}
            /\ ~Failed(e) => queue = {e}
            /\ row.at = "none" \/ Created
       ELSE /\ e.base = "fresh" => e.seen
            /\ e.base = "none" => row.at = "none"

OverwriteInv == StepInv /\ RequestInv /\ BaseInv

-----------------------------------------------------------------------------
(* Type correctness.                                                        *)

\* A set of entries that is not empty has an oldest one (replayQueue).
LEMMA Oldest ==
  ASSUME NEW P \in SUBSET Entries, P # {}
  PROVE  \E e \in P : \A f \in P : e.id <= f.id
<1> DEFINE S == {e.id : e \in P}
<1>1. S \subseteq Nat /\ S # {}
  BY DEF Entries, Edits
<1>2. PICK x \in S : \A y \in S : ~(<<y, x>> \in OpToRel(<, Nat))
  <2> HIDE DEF S
  <2> QED
    BY <1>1, WFMin, NatLessThanWellFounded, Zenon
<1>3. \A y \in S : ~(y < x)
  BY <1>1, <1>2, Zenon DEF OpToRel
<1>4. PICK e \in P : e.id = x
  BY <1>2
<1>5. ASSUME NEW f \in P PROVE e.id <= f.id
  <2>1. f.id \in S /\ x \in Nat /\ f.id \in Nat
    BY <1>1, <1>2
  <2> QED
    BY <1>3, <1>4, <2>1
<1> QED
  BY <1>5

\* What is sent first is one of the entries of the session that wait.
LEMMA ReplayedIs ==
  ASSUME NEW q \in SUBSET Entries, NEW s
  PROVE  \/ Replayed(q, s) = replay
         \/ Calm /\ \E e \in Pendings(q, s) : Replayed(q, s) = Sending(e)
<1>1. CASE Calm /\ Pendings(q, s) # {}
  <2>1. \E e \in Pendings(q, s) : \A f \in Pendings(q, s) : e.id <= f.id
    BY <1>1, Oldest DEF Pendings
  <2> QED
    BY <1>1, <2>1 DEF Replayed
<1> QED
  BY <1>1 DEF Replayed

Tabs == [mode : {"locked", "online", "cached"}, suite : 0..MaxSuites, copy : Versions,
         sync : {"no", "after", "now"}]
Replays == [step : Steps, e : Entries, got : Answers, current : Versions]

LEMMA SendingTyped ==
  ASSUME NEW e \in Entries
  PROVE  Sending(e) \in Replays
  BY DEF Sending, Replays, Steps, Answers, Versions

LEMMA ReplayedTyped ==
  ASSUME replay = Idle \/ replay \in Replays, NEW q \in SUBSET Entries, NEW s
  PROVE  Replayed(q, s) = Idle \/ Replayed(q, s) \in Replays
  BY ReplayedIs, SendingTyped DEF Pendings

LEMMA OlderTyped ==
  ASSUME NEW old \in Olds
  PROVE  /\ \A v \in Versions : Aged(v, old) \in Versions
         /\ \A e \in Entries : Older(e, old) \in Entries
  BY DEF Aged, Older, Versions, Entries

LEMMA TouchTyped ==
  ASSUME TypeOK, NEW old \in Olds, Touch(old)
  PROVE  /\ snap' \in [suite : Suites, copy : Versions] \cup {NoSnapshot}
         /\ queue' \subseteq Entries
         /\ tab' \in Tabs /\ tab'.mode = tab.mode /\ tab'.suite = tab.suite
         /\ shown' \in [Edits -> Versions]
<1>1. snap' \in [suite : Suites, copy : Versions] \cup {NoSnapshot}
  BY OlderTyped DEF Touch, TypeOK, NoSnapshot, Aged
<1>2. queue' \subseteq Entries
  BY OlderTyped DEF Touch, TypeOK
<1>3. tab' \in Tabs /\ tab'.mode = tab.mode /\ tab'.suite = tab.suite
  BY OlderTyped DEF Touch, TypeOK, Tabs
<1>4. shown' \in [Edits -> Versions]
  BY OlderTyped DEF Touch, TypeOK
<1> QED
  BY <1>1, <1>2, <1>3, <1>4

\* The session's steps.
LEMMA SessionTyped ==
  ASSUME TypeInv, UnlockOnline \/ RefusedUnlock \/ UnlockOffline \/ Lock \/ Reload
  PROVE  TypeInv'
<1>1. snap.suite \in 0..MaxSuites /\ snap.copy \in Versions /\ suite \in 0..MaxSuites
  BY QueueAssumption DEF TypeInv, TypeOK, NoSnapshot, Suites, Versions
<1>2. Locked \in Tabs /\ "none" \in Versions
  BY QueueAssumption DEF Locked, Tabs, Versions
<1>3. CASE UnlockOnline
  <2>1. tab' \in Tabs
    BY <1>1, <1>2, <1>3 DEF UnlockOnline, Tabs
  <2>2. replay' = Idle \/ replay' \in Replays
    BY <1>3, ReplayedTyped DEF UnlockOnline, TypeInv, TypeOK, Replays
  <2> QED
    BY <1>3, <2>1, <2>2 DEF UnlockOnline, TypeInv, TypeOK, Unlocked, Tabs, Replays, server
<1>4. CASE RefusedUnlock
  BY <1>4 DEF RefusedUnlock, TypeInv, TypeOK, Unlocked, server
<1>5. CASE UnlockOffline
  <2>1. tab' \in Tabs
    BY <1>1, <1>5 DEF UnlockOffline, Tabs
  <2>2. snap.suite \in Suites
    BY <1>5 DEF UnlockOffline, TypeInv, TypeOK
  <2> QED
    BY <1>5, <2>1, <2>2 DEF UnlockOffline, TypeInv, TypeOK, Unlocked, Tabs, server
<1>6. CASE Lock
  BY <1>2, <1>6 DEF Lock, Locked, TypeInv, TypeOK, Unlocked, Tabs, server
<1>7. CASE Reload
  BY <1>2, <1>7 DEF Reload, Locked, TypeInv, TypeOK, Unlocked, Tabs, server
<1> QED
  BY <1>3, <1>4, <1>5, <1>6, <1>7

LEMMA CoalesceTyped ==
  ASSUME NEW e \in Entries, NEW f \in Entries
  PROVE  Coalesce(e, f) \in Entries
<1>1. e.edits \cup f.edits \in SUBSET Edits
  BY DEF Entries
<1> QED
  BY <1>1 DEF Coalesce, Entries, Statuses, Pending

LEMMA EnqueueTyped ==
  ASSUME TypeInv, NEW op \in {"create", "update", "delete"}, Enqueue(op)
  PROVE  TypeInv'
<1> DEFINE new == Incoming(op)
           old == {e \in Opened : e.status # "failed"}
<1>1. made \in Nat /\ made + 1 \in Edits /\ made' \in 0..MaxEdits
  <2>1. made \in 0..MaxEdits /\ made < MaxEdits /\ made' = made + 1
    BY DEF Enqueue, TypeInv, TypeOK
  <2> QED
    BY QueueAssumption, <2>1 DEF Edits
<1>2. tab.suite \in Suites /\ tab.copy \in Versions
  BY DEF Enqueue, TypeInv, TypeOK, Unlocked
<1>3. new \in Entries
  BY <1>1, <1>2 DEF Incoming, Entries, Statuses, Pending
<1>4. \A e \in old : e \in Entries /\ Coalesce(e, new) \in Entries
  BY <1>3, CoalesceTyped DEF Opened, TypeInv, TypeOK
<1>5. queue' \subseteq Entries /\ settled' \subseteq Edits
  <2>1. CASE queue' = queue \cup {new} /\ UNCHANGED settled
    BY <1>3, <2>1 DEF TypeInv, TypeOK
  <2>2. ASSUME NEW e \in old, queue' = Without(e.id),
               settled' = settled \cup e.edits \cup new.edits
        PROVE  queue' \subseteq Entries /\ settled' \subseteq Edits
    BY <1>3, <1>4, <2>2 DEF Without, TypeInv, TypeOK, Entries
  <2>3. ASSUME NEW e \in old, queue' = Put(Coalesce(e, new)), UNCHANGED settled
        PROVE  queue' \subseteq Entries /\ settled' \subseteq Edits
    BY <1>4, <2>3 DEF Put, Without, TypeInv, TypeOK
  <2> QED
    BY <2>1, <2>2, <2>3 DEF Enqueue
<1>6. shown' \in [Edits -> Versions]
  BY DEF Enqueue, TypeInv, TypeOK, Versions
<1>7. UNCHANGED <<row, suite, writeLock, snap, tab, replay>>
  BY DEF Enqueue, server
<1> QED
  BY <1>1, <1>5, <1>6, <1>7 DEF TypeInv, TypeOK, Unlocked

\* The replay's steps.
LEMMA PutTyped ==
  ASSUME TypeOK, NEW e \in Entries, NEW id
  PROVE  Put(e) \subseteq Entries /\ Without(id) \subseteq Entries
  BY DEF Put, Without, TypeOK

LEMMA CompareTyped ==
  ASSUME TypeInv, Compare
  PROVE  TypeInv'
<1> DEFINE got == Answer(replay.e)
<1>1. replay \in Replays /\ UNCHANGED <<row, suite, writeLock, snap, queue, tab, shown, made, settled>>
  BY DEF Compare, TypeInv, TypeOK, Replays, server, browser
<1>2. got \in Answers
  BY DEF Answer, Answers
<1>3. replay' = [replay EXCEPT !.step = IF got = "ok" THEN "checked" ELSE "answered",
                               !.got = got,
                               !.current = IF got = "conflict" THEN "fresh" ELSE "none"]
  BY DEF Compare
<1> HIDE DEF got
<1>4. replay' \in Replays
  BY <1>1, <1>2, <1>3 DEF Replays, Steps, Versions
<1> QED
  BY <1>1, <1>4 DEF TypeInv, TypeOK, Replays, Unlocked

LEMMA WriteTyped ==
  ASSUME TypeInv, Write
  PROVE  TypeInv'
<1> DEFINE e == replay.e
<1>1. replay \in Replays /\ e \in Entries /\ e.edits \subseteq Edits
  BY DEF Write, TypeInv, TypeOK, Replays, Entries
<1>2. /\ row' \in [at : {"none", "kept", "trashed"}, takes : Takes]
      /\ settled' \subseteq Edits
      /\ UNCHANGED <<suite, writeLock, made>>
  BY <1>1 DEF Write, TypeInv, TypeOK
<1>3. CASE replay' = [replay EXCEPT !.step = "answered"] /\ UNCHANGED browser
  <2>1. replay' \in Replays
    BY <1>1, <1>3 DEF Replays, Steps
  <2> QED
    BY <1>2, <1>3, <2>1 DEF TypeInv, TypeOK, Replays, Unlocked, browser
<1>4. ASSUME NEW old \in Olds, Touch(old),
             replay' = [replay EXCEPT !.step = "answered", !.e = Older(e, old)]
      PROVE  TypeInv'
  <2>1. Older(e, old) \in Entries
    BY <1>1, OlderTyped
  <2>2. replay' \in Replays
    BY <1>1, <1>4, <2>1 DEF Replays, Steps
  <2> QED
    BY <1>2, <1>4, <2>2, TouchTyped DEF TypeInv, TypeOK, Tabs, Replays, Unlocked
<1> QED
  BY <1>3, <1>4 DEF Write

LEMMA SetStatusTyped ==
  ASSUME TypeOK, NEW e \in Entries, NEW s \in Statuses, SetStatus(e, s)
  PROVE  queue' \subseteq Entries
<1>1. [e EXCEPT !.status = s] \in Entries
  BY DEF Entries
<1> QED
  BY <1>1, PutTyped DEF SetStatus, TypeOK

LEMMA DropTyped ==
  ASSUME TypeOK, NEW e \in Entries, Drop(e)
  PROVE  queue' \subseteq Entries /\ shown' \in [Edits -> Versions]
  BY PutTyped DEF Drop, TypeOK, Versions

LEMMA ReplayTyped ==
  ASSUME TypeInv, ConnectionBack \/ Receive \/ Lose \/ FanOut \/ FanOutFails
  PROVE  TypeInv'
<1>1. CASE ConnectionBack
  <2>1. replay' = Idle \/ replay' \in Replays
    BY <1>1, ReplayedTyped DEF ConnectionBack, TypeInv, TypeOK, Replays
  <2> QED
    BY <1>1, <2>1 DEF ConnectionBack, TypeInv, TypeOK, Replays, Unlocked, server, browser
<1>2. ASSUME ~ConnectionBack PROVE replay \in Replays /\ replay.e \in Entries
  BY <1>2 DEF Receive, Lose, FanOut, FanOutFails, TypeInv, TypeOK, Replays
<1>3. CASE Receive /\ ~ConnectionBack
  <2>1. {"conflict", "failed"} \subseteq Statuses
    BY DEF Statuses
  <2>2. queue' \subseteq Entries /\ shown' \in [Edits -> Versions]
    <3>1. CASE Drop(replay.e)
      BY <1>2, <1>3, <3>1, DropTyped DEF TypeInv
    <3>2. CASE SetStatus(replay.e, "conflict") /\ shown' \in [Edits -> Versions]
      BY <1>2, <1>3, <2>1, <3>2, SetStatusTyped DEF TypeInv
    <3>3. CASE SetStatus(replay.e, "failed") /\ UNCHANGED shown
      BY <1>2, <1>3, <2>1, <3>3, SetStatusTyped DEF TypeInv, TypeOK
    <3>4. CASE UNCHANGED <<queue, shown>>
      BY <3>4 DEF TypeInv, TypeOK
    <3>5. replay.current \in Versions
      BY <1>2, <1>3 DEF Replays
    <3>6. [shown EXCEPT ![replay.e.id] = replay.current] \in [Edits -> Versions]
      BY <3>5 DEF TypeInv, TypeOK
    <3> QED
      BY <1>3, <3>1, <3>2, <3>3, <3>4, <3>6 DEF Receive, TypeInv, TypeOK
  <2>3. replay' = Idle \/ replay' \in Replays
    BY <1>2, <1>3 DEF Receive, Replays, Steps
  <2> QED
    BY <1>3, <2>2, <2>3 DEF Receive, TypeInv, TypeOK, Replays, Unlocked, server
<1>4. CASE Lose
  BY <1>4 DEF Lose, TypeInv, TypeOK, Unlocked, server, browser
<1>5. CASE FanOut /\ ~ConnectionBack
  <2>1. queue' \subseteq Entries /\ shown' \in [Edits -> Versions]
    BY <1>2, <1>5, DropTyped DEF FanOut, TypeInv
  <2> QED
    BY <1>5, <2>1 DEF FanOut, TypeInv, TypeOK, Unlocked, server
<1>6. CASE FanOutFails /\ ~ConnectionBack
  <2>1. queue' \subseteq Entries
    BY <1>2, <1>6, SetStatusTyped DEF FanOutFails, TypeInv, Statuses, Pending
  <2> QED
    BY <1>6, <2>1 DEF FanOutFails, TypeInv, TypeOK, Unlocked, server
<1> QED
  BY <1>1, <1>3, <1>4, <1>5, <1>6

LEMMA ManifestTyped ==
  ASSUME TypeInv, Manifest
  PROVE  TypeInv'
<1>1. tab' = [tab EXCEPT !.sync = "no"] /\ UNCHANGED <<row, suite, writeLock, shown, replay, made>>
  BY DEF Manifest, server
<1>2. tab' \in Tabs /\ tab'.mode = tab.mode /\ tab'.suite = tab.suite
  BY <1>1 DEF TypeInv, TypeOK, Tabs
<1>3. [suite |-> suite, copy |-> IF row.at = "kept" THEN "fresh" ELSE "none"]
        \in [suite : Suites, copy : Versions]
  BY DEF TypeInv, TypeOK, Versions
<1>4. /\ snap' \in [suite : Suites, copy : Versions] \cup {NoSnapshot}
      /\ queue' \subseteq Entries
      /\ settled' = settled
  BY <1>3 DEF Manifest, TypeInv, TypeOK
<1> QED
  BY <1>1, <1>2, <1>4 DEF TypeInv, TypeOK, Tabs, Unlocked

LEMMA NextSuite ==
  ASSUME NEW s \in Suites, s < MaxSuites
  PROVE  s + 1 \in Suites
<1>1. s \in Nat /\ s >= 1
  BY DEF Suites
<1> QED
  BY <1>1, QueueAssumption DEF Suites

\* The user's steps.
LEMMA ChoiceTyped ==
  ASSUME TypeInv, KeepServer \/ KeepMine \/ DiscardEntry \/ Reopen \/ DiscardForeign \/ RotateHere
  PROVE  TypeInv'
<1>1. Opened \subseteq Entries /\ Foreign \subseteq Entries /\ \A e \in Entries : e.edits \subseteq Edits
  BY DEF Opened, Foreign, TypeInv, TypeOK, Entries
<1>2. CASE KeepServer \/ DiscardEntry
  <2>1. PICK e \in Opened : /\ Drop(e) /\ settled' = settled \cup e.edits
                            /\ UNCHANGED <<row, suite, writeLock, snap, tab, replay, made>>
    BY <1>2 DEF KeepServer, DiscardEntry, server
  <2>2. queue' \subseteq Entries /\ shown' \in [Edits -> Versions]
    BY <1>1, <2>1, DropTyped DEF TypeInv
  <2> QED
    BY <1>1, <2>1, <2>2 DEF TypeInv, TypeOK, Unlocked
<1>3. CASE KeepMine
  <2> DEFINE new(e) == [e EXCEPT !.base = shown[e.id], !.status = "queued",
                                 !.seen = shown[e.id] = "fresh"]
  <2>1. PICK e \in Opened :
          /\ queue' = Put(new(e))
          /\ shown' = [shown EXCEPT ![e.id] = "none"]
          /\ replay' = IF tab.mode = "online" THEN Replayed(queue', tab.suite) ELSE replay
          /\ UNCHANGED <<row, suite, writeLock, snap, tab, made, settled>>
    BY <1>3 DEF KeepMine, server
  <2>2. e.id \in Edits /\ shown[e.id] \in Versions
    BY <1>1 DEF Entries, TypeInv, TypeOK
  <2>3. new(e) \in Entries
    BY <1>1, <2>2 DEF Entries, Statuses, Pending
  <2>4. queue' \subseteq Entries
    BY <2>1, <2>3, PutTyped DEF TypeInv
  <2>5. replay' = Idle \/ replay' \in Replays
    BY <2>1, <2>4, ReplayedTyped DEF TypeInv, TypeOK, Replays
  <2>6. shown' \in [Edits -> Versions]
    BY <2>1 DEF TypeInv, TypeOK, Versions
  <2> QED
    BY <2>1, <2>4, <2>5, <2>6 DEF TypeInv, TypeOK, Replays, Unlocked
<1>4. CASE Reopen
  <2>1. queue' \subseteq Entries
    BY <1>4 DEF Reopen, TypeInv, TypeOK, Entries
  <2>2. replay' = Idle \/ replay' \in Replays
    BY <1>4, <2>1, ReplayedTyped DEF Reopen, TypeInv, TypeOK, Replays
  <2> QED
    BY <1>4, <2>1, <2>2 DEF Reopen, TypeInv, TypeOK, Replays, Unlocked, server
<1>5. CASE DiscardForeign
  <2>1. queue' \subseteq Entries /\ settled' \subseteq Edits
    BY <1>1, <1>5 DEF DiscardForeign, TypeInv, TypeOK
  <2> QED
    BY <1>5, <2>1 DEF DiscardForeign, TypeInv, TypeOK, Unlocked, server
<1>6. CASE RotateHere
  <2>1. suite \in Suites /\ suite < MaxSuites /\ tab \in Tabs /\ tab' = [tab EXCEPT !.suite = suite + 1]
    BY <1>6 DEF RotateHere, TypeInv, TypeOK, Tabs
  <2>2. suite + 1 \in Suites
    BY <2>1, NextSuite
  <2>3. tab' \in Tabs /\ tab'.suite \in Suites
    BY <2>1, <2>2, QueueAssumption DEF Tabs, Suites
  <2> QED
    BY <1>6, <2>2, <2>3 DEF RotateHere, TypeInv, TypeOK, Tabs, Unlocked
<1> QED
  BY <1>2, <1>3, <1>4, <1>5, <1>6

\* The others' steps.
LEMMA OthersTyped ==
  ASSUME TypeInv,
         ChangeElsewhere \/ MoveElsewhere \/ ChangeAccess \/ RotateElsewhere \/ MigrationEnds
  PROVE  TypeInv'
<1>1. CASE ChangeElsewhere
  <2>0. PICK old \in Olds :
          /\ Touch(old)
          /\ replay' = IF Calm THEN Idle
                       ELSE [replay EXCEPT !.e = Older(@, old), !.current = Aged(@, old)]
    BY <1>1 DEF ChangeElsewhere
  <2>1. replay' = Idle \/ replay' \in Replays
    <3>1. CASE Calm
      BY <2>0, <3>1
    <3>2. CASE ~Calm
      <4>1. replay \in Replays
        BY <3>2 DEF Calm, TypeInv, TypeOK, Replays
      <4>2. Older(replay.e, old) \in Entries /\ Aged(replay.current, old) \in Versions
        BY <4>1, OlderTyped DEF Replays
      <4> QED
        BY <2>0, <3>2, <4>1, <4>2 DEF Replays
    <3> QED
      BY <3>1, <3>2
  <2> QED
    BY <1>1, <2>0, <2>1, TouchTyped DEF ChangeElsewhere, TypeInv, TypeOK, Tabs, Replays, Unlocked, server
<1>2. CASE MoveElsewhere \/ ChangeAccess
  <2>1. row' \in [at : {"none", "kept", "trashed"}, takes : Takes]
    BY <1>2 DEF MoveElsewhere, ChangeAccess, TypeInv, TypeOK
  <2> QED
    BY <1>2, <2>1 DEF MoveElsewhere, ChangeAccess, TypeInv, TypeOK, Unlocked, browser
<1>3. CASE RotateElsewhere
  <2>1. suite' \in Suites
    BY <1>3, NextSuite DEF RotateElsewhere, TypeInv, TypeOK
  <2> QED
    BY <1>3, <2>1 DEF RotateElsewhere, TypeInv, TypeOK, Unlocked, browser
<1>4. CASE MigrationEnds
  BY <1>4 DEF MigrationEnds, TypeInv, TypeOK, Unlocked, browser
<1> QED
  BY <1>1, <1>2, <1>3, <1>4

LEMMA TypeStep ==
  ASSUME TypeInv, [Next]_vars
  PROVE  TypeInv'
<1>1. CASE UNCHANGED vars
  BY <1>1 DEF vars, TypeInv, TypeOK, Unlocked
<1> QED
  BY <1>1, SessionTyped, EnqueueTyped, CompareTyped, WriteTyped, ReplayTyped, ManifestTyped, ChoiceTyped,
     OthersTyped DEF Next

LEMMA TypeInit == Init => TypeInv
<1> SUFFICES ASSUME Init PROVE TypeInv
  OBVIOUS
<1>1. suite \in Suites /\ made \in 0..MaxEdits /\ tab \in Tabs /\ tab = Locked
  BY QueueAssumption DEF Init, Suites, Locked, Tabs, Versions
<1>2. row \in [at : {"none", "kept", "trashed"}, takes : Takes]
  BY DEF Init, Takes
<1>3. shown \in [Edits -> Versions]
  BY DEF Init, Versions
<1>4. writeLock \in BOOLEAN /\ snap = NoSnapshot /\ queue = {} /\ replay = Idle /\ settled = {}
  BY DEF Init
<1>5. ~Unlocked
  BY <1>1 DEF Unlocked, Locked
<1> QED
  BY <1>1, <1>2, <1>3, <1>4, <1>5 DEF TypeInv, TypeOK, Tabs

\* Every variable has its type, whatever case is let in: what is sealed, is
\* sealed to a suite (an offline session has the snapshot's).
THEOREM TypeCorrect == Spec => []TypeOK
<1>1. TypeInv => TypeOK
  BY DEF TypeInv
<1> QED
  BY <1>1, TypeInit, TypeStep, PTL DEF Spec

-----------------------------------------------------------------------------
(* StepInv: what each kind of step leaves of the queue and of the request.  *)

LEMMA Fields ==
  ASSUME NEW e \in Entries
  PROVE  e.id \in Nat /\ e.edits \subseteq Edits
  BY DEF Entries, Edits

LEMMA Ages ==
  ASSUME NEW e \in Entries, NEW old \in Olds
  PROVE  /\ Older(e, old).id = e.id /\ Older(e, old).op = e.op
         /\ Older(e, old).suite = e.suite /\ Older(e, old).status = e.status
         /\ Older(e, old).edits = e.edits
         /\ Older(e, old).base = Aged(e.base, old) /\ Older(e, old).seen = FALSE
  BY DEF Entries, Older

\* Entries that go take nothing with them.
LEMMA QueueShrinks ==
  ASSUME QueueInv, queue' \subseteq queue, made' = made
  PROVE  QueueInv'
  BY DEF QueueInv, Failed

\* The entries age together.
LEMMA QueueAges ==
  ASSUME TypeInv, QueueInv, NEW old \in Olds, queue' = {Older(e, old) : e \in queue}, made' = made
  PROVE  QueueInv'
<1>1. queue \subseteq Entries
  BY DEF TypeInv, TypeOK
<1>2. \A x \in queue' : \E e \in queue : /\ x = Older(e, old) /\ x.id = e.id
                                         /\ x.edits = e.edits /\ x.status = e.status
  <2>1. ASSUME NEW x \in queue'
        PROVE  \E e \in queue : x = Older(e, old) /\ x.id = e.id /\ x.edits = e.edits /\ x.status = e.status
    <3>1. PICK e \in queue : x = Older(e, old)
      BY <2>1
    <3> QED
      BY <1>1, <3>1, Ages
  <2> QED
    BY <2>1
<1> QED
  BY <1>2 DEF QueueInv, Failed

\* An entry that is not refused may be replaced.
LEMMA QueueReplaces ==
  ASSUME TypeInv, QueueInv, NEW e \in queue, ~Failed(e), NEW f \in Entries, f.id = e.id,
         f.edits \subseteq 1..made', queue' = Put(f), made' \in Nat, made <= made'
  PROVE  QueueInv'
<1>1. made \in Nat /\ 1..made \subseteq 1..made'
  BY DEF TypeInv, TypeOK
<1>2. \A x \in queue : x.id \in Nat
  BY Fields DEF TypeInv, TypeOK
<1>3. \A x \in queue' : x = f \/ (x \in queue /\ x.id # e.id /\ Failed(x))
  BY DEF Put, Without, QueueInv
<1>4. \A x \in queue' : x.id <= made' /\ x.edits \subseteq 1..made'
  BY <1>1, <1>2, <1>3 DEF QueueInv
<1>5. \A x, y \in queue' : x.id = y.id => x = y
  BY <1>3 DEF QueueInv
<1>6. \A x, y \in queue' : Failed(x) \/ Failed(y) \/ x = y
  BY <1>3 DEF Failed
<1> QED
  BY <1>4, <1>5, <1>6 DEF QueueInv, Failed

\* The entry under way is no other one, and no one that was refused.
LEMMA UnderWay ==
  ASSUME StepInv, ~Calm
  PROVE  /\ replay \in Replays
         /\ replay.e \in queue /\ replay.e \in Entries
         /\ replay.e.suite = suite /\ replay.e.status \in Pending
         /\ \A e \in queue : e.id # replay.e.id => Failed(e)
         /\ \A e \in queue : e.status \in {"conflict", "failed"} => e.id # replay.e.id
<1>1. replay \in Replays /\ queue \subseteq Entries
  BY DEF Calm, StepInv, TypeInv, TypeOK, Replays
<1>2. replay.e \in queue /\ replay.e.suite = suite /\ replay.e.status \in Pending
  BY DEF StepInv, ReplayInv
<1>3. ~Failed(replay.e)
  BY <1>2 DEF Failed, Pending
<1> QED
  BY <1>1, <1>2, <1>3 DEF StepInv, QueueInv, Pending

\* What a replay starts is the request of a stored entry.
LEMMA Started ==
  ASSUME NEW q \in SUBSET Entries, NEW s, Replayed(q, s) # replay
  PROVE  /\ Calm
         /\ Replayed(q, s).e \in q /\ Replayed(q, s).e.suite = s
         /\ Replayed(q, s).e.status \in Pending
         /\ Replayed(q, s).got = "none"
         /\ Replayed(q, s).step = IF Replayed(q, s).e.status = "sync" THEN "fan" ELSE "sent"
<1>1. PICK e \in Pendings(q, s) : Calm /\ Replayed(q, s) = Sending(e)
  BY ReplayedIs
<1> QED
  BY <1>1 DEF Sending, Pendings

LEMMA SessionSteps ==
  ASSUME InStep, StepInv, UnlockOnline \/ RefusedUnlock \/ UnlockOffline \/ Lock \/ Reload
  PROVE  StepInv'
<1>1. TypeInv' /\ queue \in SUBSET Entries
  BY SessionTyped DEF StepInv, TypeInv, TypeOK
<1>2. UNCHANGED <<queue, suite, made>>
  BY DEF UnlockOnline, RefusedUnlock, UnlockOffline, Lock, Reload, server
<1>3. QueueInv'
  BY <1>2, QueueShrinks DEF StepInv
<1>4. SessionInv'
  <2>1. CASE UnlockOnline
    BY <2>1 DEF UnlockOnline, SessionInv, server
  <2>2. CASE UnlockOffline
    BY <2>2 DEF UnlockOffline, InStep, SessionInv, Foreign, Opened, server
  <2>3. CASE RefusedUnlock \/ Lock \/ Reload
    <3>1. tab'.mode = "locked"
      <4>1. (tab' = tab /\ tab.mode = "locked") \/ tab' = Locked
        BY <2>3 DEF RefusedUnlock, Lock, Reload
      <4> QED
        BY <4>1 DEF Locked
    <3> QED
      BY <3>1 DEF SessionInv
  <2> QED
    BY <2>1, <2>2, <2>3
<1>5. ReplayInv'
  <2>1. CASE UnlockOnline /\ replay' # replay
    BY <1>1, <1>2, <2>1, Started DEF UnlockOnline, ReplayInv
  <2>2. CASE Reload
    BY <2>2 DEF Reload, Calm, ReplayInv
  <2>3. CASE replay' = replay
    BY <1>2, <2>3 DEF StepInv, ReplayInv, Calm
  <2> QED
    BY <2>1, <2>2, <2>3 DEF RefusedUnlock, UnlockOffline, Lock
<1> QED
  BY <1>1, <1>3, <1>4, <1>5 DEF StepInv

LEMMA CoalesceFields ==
  ASSUME NEW e \in Entries, NEW f \in Entries, ~Failed(e)
  PROVE  /\ Coalesce(e, f).id = e.id /\ Coalesce(e, f).suite = e.suite
         /\ Coalesce(e, f).edits \subseteq e.edits \cup f.edits
         /\ e.edits \subseteq Coalesce(e, f).edits
         /\ Coalesce(e, f).base = e.base /\ Coalesce(e, f).seen = e.seen
  BY DEF Coalesce, Entries

\* Nothing is under way, and all of the queue is the session's.
LEMMA EnqueueStep ==
  ASSUME InStep, StepInv, NEW op \in {"create", "update", "delete"}, Enqueue(op)
  PROVE  StepInv'
<1> DEFINE new == Incoming(op)
           old == {e \in Opened : e.status # "failed"}
<1>1. TypeInv' /\ TypeInv
  BY EnqueueTyped DEF StepInv
<1>2. /\ made' = made + 1 /\ made \in Nat /\ made + 1 \in Edits
      /\ UNCHANGED <<row, suite, writeLock, snap, tab, replay>>
      /\ Calm /\ Opened = queue /\ tab.mode = "cached" /\ tab.suite = snap.suite
      /\ \A e \in queue : e.suite = tab.suite
  <2>1. made' = made + 1 /\ tab.mode = "cached" /\ Calm
        /\ UNCHANGED <<row, suite, writeLock, snap, tab, replay>>
    BY DEF Enqueue, InStep, server
  <2>2. made \in 0..MaxEdits /\ made < MaxEdits
    BY DEF Enqueue, StepInv, TypeInv, TypeOK
  <2>3. made \in Nat /\ made + 1 \in Edits
    BY QueueAssumption, <2>2 DEF Edits
  <2>4. Foreign = {} /\ tab.suite = snap.suite
    BY <2>1 DEF StepInv, SessionInv
  <2> QED
    BY <2>1, <2>3, <2>4 DEF Foreign, Opened
<1>3. new \in Entries /\ new.id = made + 1 /\ new.suite = tab.suite /\ new.edits = {made + 1}
  BY <1>1, <1>2 DEF Incoming, Entries, Statuses, Pending, TypeInv, TypeOK, Unlocked
<1>4. queue \subseteq Entries /\ \A e \in queue : e.id \in Nat /\ e.id <= made /\ e.edits \subseteq 1..made
  BY Fields DEF StepInv, TypeInv, TypeOK, QueueInv
<1>5. 1..made \subseteq 1..made' /\ {made + 1} \subseteq 1..made' /\ made' \in Nat /\ made <= made'
  BY <1>2
<1> HIDE DEF new
<1>6. QueueInv' /\ \A e \in queue' : e.suite = tab.suite
  <2>1. CASE old = {} /\ queue' = queue \cup {new}
    <3>1. \A e \in queue : Failed(e) /\ e.id # new.id
      BY <1>2, <1>3, <1>4, <2>1 DEF Failed
    <3>2. \A e \in queue' : e.id <= made' /\ e.edits \subseteq 1..made'
      BY <1>2, <1>3, <1>4, <1>5, <2>1
    <3> QED
      BY <1>2, <1>3, <2>1, <3>1, <3>2 DEF StepInv, QueueInv, Failed
  <2>2. ASSUME NEW e \in old, queue' = Without(e.id) PROVE QueueInv' /\ \A f \in queue' : f.suite = tab.suite
    <3>1. queue' \subseteq queue
      BY <2>2 DEF Without
    <3> QED
      BY <1>2, <1>4, <1>5, <3>1 DEF StepInv, QueueInv, Failed
  <2>3. ASSUME NEW e \in old, queue' = Put(Coalesce(e, new))
        PROVE  QueueInv' /\ \A f \in queue' : f.suite = tab.suite
    <3>1. e \in queue /\ e \in Entries /\ ~Failed(e)
      BY <1>2, <1>4 DEF Failed
    <3>2. /\ Coalesce(e, new) \in Entries
          /\ Coalesce(e, new).id = e.id /\ Coalesce(e, new).suite = e.suite
          /\ Coalesce(e, new).edits \subseteq e.edits \cup {made + 1}
      BY <1>3, <3>1, CoalesceTyped, CoalesceFields
    <3>3. Coalesce(e, new).edits \subseteq 1..made'
      BY <1>4, <1>5, <3>1, <3>2
    <3>4. QueueInv'
      BY <1>1, <1>5, <2>3, <3>1, <3>2, <3>3, QueueReplaces DEF StepInv
    <3> QED
      BY <1>2, <2>3, <3>1, <3>2, <3>4 DEF Put, Without
  <2> QED
    BY <2>1, <2>2, <2>3 DEF Enqueue, new
<1>7. SessionInv'
  BY <1>2, <1>6 DEF SessionInv, Foreign, Opened
<1>8. ReplayInv'
  BY <1>2 DEF ReplayInv, Calm
<1> QED
  BY <1>1, <1>6, <1>7, <1>8 DEF StepInv

\* The queue ages with the row, and the entry under way with it.
LEMMA TouchStep ==
  ASSUME StepInv, NEW old \in Olds, Touch(old), TypeInv', UNCHANGED <<suite, made>>,
         Calm => Calm', ~Calm => replay'.e = Older(replay.e, old)
  PROVE  StepInv'
<1>1. queue \subseteq Entries /\ queue' = {Older(e, old) : e \in queue}
  BY DEF StepInv, TypeInv, TypeOK, Touch
<1>2. QueueInv'
  BY <1>1, QueueAges DEF StepInv
<1>3. tab'.mode = tab.mode /\ tab'.suite = tab.suite /\ snap'.suite = snap.suite
  BY DEF Touch, StepInv, TypeInv, TypeOK, NoSnapshot
<1>4. \A e \in queue' : \E f \in queue : e.suite = f.suite
  <2>1. ASSUME NEW e \in queue' PROVE \E f \in queue : e.suite = f.suite
    <3>1. PICK f \in queue : e = Older(f, old)
      BY <1>1
    <3> QED
      BY <1>1, <3>1, Ages
  <2> QED
    BY <2>1
<1>5. SessionInv'
  BY <1>3, <1>4 DEF StepInv, SessionInv, Foreign, Opened
<1>6. ReplayInv'
  <2>1. CASE Calm
    BY <2>1 DEF ReplayInv
  <2>2. CASE ~Calm
    <3>1. replay.e \in queue /\ replay.e \in Entries
          /\ replay.e.suite = suite /\ replay.e.status \in Pending
      BY <2>2, UnderWay
    <3> QED
      BY <1>1, <2>2, <3>1, Ages DEF ReplayInv
  <2> QED
    BY <2>1, <2>2
<1> QED
  BY <1>2, <1>5, <1>6 DEF StepInv

LEMMA CompareStep ==
  ASSUME StepInv, Compare
  PROVE  StepInv'
<1>1. TypeInv' /\ ~Calm /\ UNCHANGED <<suite, snap, queue, tab, shown, made>>
  BY CompareTyped DEF Compare, StepInv, Calm, server, browser
<1>2. replay'.e = replay.e
  BY <1>1, UnderWay DEF Compare, Replays
<1> QED
  BY <1>1, <1>2 DEF StepInv, QueueInv, SessionInv, ReplayInv, Foreign, Opened, Failed

LEMMA WriteStep ==
  ASSUME StepInv, Write
  PROVE  StepInv'
<1>1. TypeInv' /\ ~Calm /\ replay \in Replays
  BY WriteTyped, UnderWay DEF Write, StepInv, Calm
<1>2. UNCHANGED <<suite, made>>
  BY DEF Write
<1>3. ASSUME NEW old \in Olds, Touch(old), replay'.e = Older(replay.e, old)
      PROVE  StepInv'
  BY <1>1, <1>2, <1>3, TouchStep
<1>4. CASE UNCHANGED browser /\ replay'.e = replay.e
  BY <1>1, <1>2, <1>4 DEF browser, StepInv, QueueInv, SessionInv, ReplayInv, Foreign, Opened, Failed
<1> QED
  BY <1>1, <1>3, <1>4 DEF Write, Replays

\* A status is written to a stored entry, and to no other.
LEMMA SetStatusStep ==
  ASSUME StepInv, ~Calm, NEW s \in Statuses, SetStatus(replay.e, s), TypeInv', Calm',
         UNCHANGED <<suite, snap, tab, made>>
  PROVE  StepInv'
<1> DEFINE e == replay.e
           f == [e EXCEPT !.status = s]
<1>1. e \in queue /\ e \in Entries /\ ~Failed(e)
  BY UnderWay DEF Failed, Pending
<1>2. f \in Entries /\ f.id = e.id /\ f.edits = e.edits /\ f.suite = e.suite
  BY <1>1 DEF Entries
<1>3. made \in Nat /\ e.edits \subseteq 1..made
  BY <1>1 DEF StepInv, TypeInv, TypeOK, QueueInv
<1> HIDE DEF f
<1>4. QueueInv'
  <2>1. CASE queue' = queue
    BY <2>1, QueueShrinks DEF StepInv
  <2>2. CASE queue' = Put(f)
    BY <1>1, <1>2, <1>3, <2>2, QueueReplaces DEF StepInv
  <2> QED
    BY <2>1, <2>2 DEF SetStatus, f
<1>5. \A x \in queue' : \E y \in queue : x.suite = y.suite
  BY <1>1, <1>2 DEF SetStatus, Put, Without, f
<1>6. SessionInv'
  BY <1>5 DEF StepInv, SessionInv, Foreign, Opened
<1> QED
  BY <1>4, <1>6 DEF StepInv, ReplayInv

\* Entries that go: the invariant lasts if the one under way stays, or is over.
LEMMA ShrinkStep ==
  ASSUME StepInv, TypeInv', queue' \subseteq queue, UNCHANGED <<suite, snap, made>>,
         tab'.mode = tab.mode, tab'.suite = tab.suite,
         Calm' \/ (~Calm /\ replay'.e = replay.e /\ replay.e \in queue')
  PROVE  StepInv'
<1>1. QueueInv'
  BY QueueShrinks DEF StepInv
<1>2. SessionInv'
  BY DEF StepInv, SessionInv, Foreign, Opened
<1>3. ReplayInv'
  BY UnderWay DEF ReplayInv
<1> QED
  BY <1>1, <1>2, <1>3 DEF StepInv

LEMMA ReplaySteps ==
  ASSUME StepInv, ConnectionBack \/ Receive \/ Lose \/ FanOut \/ FanOutFails
  PROVE  StepInv'
<1>1. TypeInv'
  BY ReplayTyped DEF StepInv
<1>2. UNCHANGED <<suite, snap, tab, made>>
  BY DEF ConnectionBack, Receive, Lose, FanOut, FanOutFails, server, browser
<1>3. CASE ConnectionBack
  <2>1. queue \in SUBSET Entries /\ UNCHANGED queue /\ replay' = Replayed(queue, suite)
    BY <1>3 DEF ConnectionBack, browser, StepInv, TypeInv, TypeOK, SessionInv
  <2>2. QueueInv' /\ SessionInv'
    BY <1>2, <2>1, QueueShrinks DEF StepInv, SessionInv, Foreign, Opened
  <2>3. ReplayInv'
    BY <1>2, <1>3, <2>1, Started DEF ConnectionBack, ReplayInv, Calm
  <2> QED
    BY <1>1, <2>2, <2>3 DEF StepInv
<1>4. CASE Lose
  BY <1>1, <1>2, <1>4, ShrinkStep DEF Lose, browser, Calm
<1>5. CASE FanOut
  BY <1>1, <1>2, <1>5, ShrinkStep DEF FanOut, Drop, Without, Calm
<1>6. CASE FanOutFails
  BY <1>1, <1>2, <1>6, SetStatusStep DEF FanOutFails, Calm, Statuses, Pending
<1>7. CASE Receive
  <2>1. ~Calm /\ {"conflict", "failed"} \subseteq Statuses
    BY <1>7 DEF Receive, Calm, Statuses
  <2>2. CASE SetStatus(replay.e, "conflict") /\ replay' = Idle
    BY <1>1, <1>2, <2>1, <2>2, SetStatusStep DEF Calm
  <2>3. CASE SetStatus(replay.e, "failed") /\ replay' = Idle
    BY <1>1, <1>2, <2>1, <2>3, SetStatusStep DEF Calm
  <2>4. CASE queue' \subseteq queue /\ replay' = Idle
    BY <1>1, <1>2, <2>4, ShrinkStep DEF Calm
  <2>5. CASE replay' = [replay EXCEPT !.step = "fan"] /\ UNCHANGED queue
    <3>1. replay'.e = replay.e /\ replay.e \in queue'
      BY <2>1, <2>5, UnderWay DEF Replays
    <3> QED
      BY <1>1, <1>2, <2>1, <2>5, <3>1, ShrinkStep
  <2> QED
    BY <1>7, <2>2, <2>3, <2>4, <2>5 DEF Receive, Drop, Without
<1> QED
  BY <1>3, <1>4, <1>5, <1>6, <1>7

LEMMA ManifestStep ==
  ASSUME StepInv, Manifest
  PROVE  StepInv'
<1>1. TypeInv'
  BY ManifestTyped DEF StepInv
<1>2. /\ tab.mode = "online" /\ tab'.mode = tab.mode /\ tab'.suite = tab.suite
      /\ UNCHANGED <<row, suite, shown, replay, made>>
  BY DEF Manifest, server, StepInv, TypeInv, TypeOK
<1>3. queue' = queue \/ (queue' = {} /\ Calm)
  <2>1. CASE queue' = {} /\ NoneNeedsOld /\ \A e \in Opened : e.status = "failed"
    <3>1. \A e \in queue : e.status = "failed"
      BY <2>1 DEF NoneNeedsOld, Foreign
    <3> QED
      BY <2>1, <3>1, UnderWay DEF Pending
  <2> QED
    BY <2>1 DEF Manifest
<1>4. QueueInv'
  BY <1>2, <1>3, QueueShrinks DEF StepInv
<1>5. SessionInv'
  BY <1>2 DEF StepInv, SessionInv
<1>6. ReplayInv'
  BY <1>2, <1>3 DEF StepInv, ReplayInv, Calm
<1> QED
  BY <1>1, <1>4, <1>5, <1>6 DEF StepInv

\* The user's choice for one entry leaves the one under way alone.
LEMMA GiveUpStep ==
  ASSUME StepInv, KeepServer \/ DiscardEntry \/ DiscardForeign
  PROVE  StepInv'
<1>1. TypeInv'
  BY ChoiceTyped DEF StepInv
<1>2. UNCHANGED <<suite, snap, tab, replay, made>>
  BY DEF KeepServer, DiscardEntry, DiscardForeign, server
<1>3. queue' \subseteq queue /\ (~Calm => replay.e \in queue')
  <2>1. CASE DiscardForeign
    <3>1. ~Calm => replay.e \in Opened
      BY <2>1, UnderWay DEF DiscardForeign, Unlocked, Opened, Foreign, StepInv, SessionInv, TypeInv, TypeOK
    <3> QED
      BY <2>1, <3>1 DEF DiscardForeign, Opened
  <2>2. CASE KeepServer \/ DiscardEntry
    <3>1. PICK e \in queue : queue' = Without(e.id) /\ e.status \in {"conflict", "failed"}
      BY <2>2 DEF KeepServer, DiscardEntry, Drop, Opened
    <3> QED
      BY <3>1, UnderWay DEF Without
  <2> QED
    BY <2>1, <2>2
<1> QED
  BY <1>1, <1>2, <1>3, ShrinkStep DEF Calm

LEMMA KeepMineStep ==
  ASSUME StepInv, KeepMine
  PROVE  StepInv' /\ Calm
<1> DEFINE new(e) == [e EXCEPT !.base = shown[e.id], !.status = "queued",
                               !.seen = shown[e.id] = "fresh"]
<1>1. TypeInv' /\ UNCHANGED <<suite, snap, tab, made>>
  BY ChoiceTyped DEF StepInv, KeepMine, server
<1>2. PICK e \in Opened :
        /\ queue' = Put(new(e)) /\ e.status = "conflict"
        /\ replay' = IF tab.mode = "online" THEN Replayed(queue', tab.suite) ELSE replay
  BY DEF KeepMine
<1>3. e \in queue /\ e \in Entries /\ ~Failed(e) /\ e.suite = tab.suite
  BY <1>2 DEF Opened, Failed, StepInv, TypeInv, TypeOK
<1>4. /\ new(e).id = e.id /\ new(e).edits = e.edits /\ new(e).suite = e.suite
      /\ new(e) \in Entries
  <2>1. e.id \in Edits /\ shown[e.id] \in Versions
    BY <1>3 DEF Entries, StepInv, TypeInv, TypeOK
  <2> QED
    BY <1>3, <2>1 DEF Entries, Statuses, Pending
<1>5. made \in Nat /\ e.edits \subseteq 1..made
  BY <1>3 DEF StepInv, TypeInv, TypeOK, QueueInv
<1> HIDE DEF new
<1>6. QueueInv'
  BY <1>1, <1>2, <1>3, <1>4, <1>5, QueueReplaces DEF StepInv
<1>7. SessionInv'
  <2>1. \A x \in queue' : \E y \in queue : x.suite = y.suite
    BY <1>2, <1>3, <1>4 DEF Put, Without
  <2> QED
    BY <1>1, <2>1 DEF StepInv, SessionInv, Foreign, Opened
<1>8. Calm
  BY <1>2, <1>3, UnderWay DEF Failed
<1>9. ReplayInv'
  <2>1. queue' \in SUBSET Entries
    BY <1>1 DEF TypeInv, TypeOK
  <2> QED
    BY <1>1, <1>2, <1>8, <2>1, Started DEF ReplayInv, Calm, StepInv, SessionInv
<1> QED
  BY <1>1, <1>6, <1>7, <1>8, <1>9 DEF StepInv

\* Reopening moves every entry to the session's suite; the one under way is
\* there already.
LEMMA ReopenStep ==
  ASSUME StepInv, Reopen
  PROVE  StepInv' /\ tab.mode = "online" /\ (~Calm => replay' = replay)
<1> DEFINE moved(e) == [e EXCEPT !.suite = tab.suite]
<1>1. TypeInv' /\ UNCHANGED <<suite, snap, tab, made>>
  BY ChoiceTyped DEF StepInv, Reopen, server
<1>2. queue \subseteq Entries /\ tab.mode = "online" /\ tab.suite = suite
  BY DEF Reopen, Unlocked, StepInv, SessionInv, TypeInv, TypeOK
<1>3. queue' = {moved(e) : e \in queue} /\ replay' = Replayed(queue', suite)
  BY <1>2 DEF Reopen
<1>4. ASSUME NEW e \in queue
      PROVE  /\ moved(e).id = e.id /\ moved(e).edits = e.edits /\ moved(e).status = e.status
             /\ moved(e).suite = suite
             /\ (e.suite = suite => moved(e) = e)
  BY <1>2 DEF Entries
<1>5. ASSUME NEW x \in queue'
      PROVE  \E e \in queue : /\ x = moved(e) /\ x.id = e.id
                              /\ x.edits = e.edits /\ x.status = e.status
  <2>1. PICK e \in queue : x = moved(e)
    BY <1>3
  <2> QED
    BY <1>4, <2>1
<1>6. QueueInv'
  BY <1>1, <1>5 DEF StepInv, QueueInv, Failed
<1>7. SessionInv'
  BY <1>1, <1>2 DEF SessionInv
<1>8. ~Calm => replay' = replay
  BY <1>3 DEF Replayed
<1>9. ReplayInv'
  <2>1. CASE ~Calm
    <3>1. replay.e \in queue /\ replay.e.suite = suite /\ replay.e.status \in Pending
      BY <2>1, UnderWay
    <3>2. replay.e \in queue'
      BY <1>3, <1>4, <3>1
    <3> QED
      BY <1>1, <1>8, <2>1, <3>1, <3>2 DEF ReplayInv
  <2>2. CASE Calm
    <3>1. queue' \in SUBSET Entries
      BY <1>1 DEF TypeInv, TypeOK
    <3>2. CASE replay' = replay
      BY <2>2, <3>2 DEF ReplayInv, Calm
    <3>3. CASE replay' # replay
      <4>1. replay' = Replayed(queue', suite)
        BY <1>3
      <4>2. replay'.e \in queue' /\ replay'.e.suite = suite /\ replay'.e.status \in Pending
        BY <3>1, <3>3, <4>1, Started
      <4> QED
        BY <1>1, <4>2 DEF ReplayInv
    <3> QED
      BY <3>2, <3>3
  <2> QED
    BY <2>1, <2>2
<1> QED
  BY <1>1, <1>2, <1>6, <1>7, <1>8, <1>9 DEF StepInv

\* Keys are rotated only when nothing waits, here, or nothing is open, elsewhere.
LEMMA RotateStep ==
  ASSUME InStep, StepInv, RotateHere \/ RotateElsewhere
  PROVE  StepInv' /\ Calm /\ tab'.mode = tab.mode
<1>1. TypeInv'
  BY ChoiceTyped, OthersTyped DEF StepInv
<1>2. UNCHANGED <<queue, made, replay>>
  BY DEF RotateHere, RotateElsewhere, browser
<1>3. QueueInv'
  BY <1>2, QueueShrinks DEF StepInv
<1>4. CASE RotateHere
  <2>1. Calm
    BY <1>4, UnderWay DEF RotateHere, NoPendingChanges, Foreign, Pending
  <2>2. tab'.mode = tab.mode /\ tab.mode = "online" /\ tab'.suite = suite'
    BY <1>4 DEF RotateHere, StepInv, TypeInv, TypeOK
  <2> QED
    BY <1>1, <1>2, <1>3, <2>1, <2>2 DEF StepInv, SessionInv, ReplayInv, Calm
<1>5. CASE RotateElsewhere
  <2>1. tab.mode # "online" /\ Calm /\ UNCHANGED <<tab, snap>>
    BY <1>5 DEF RotateElsewhere, InStep, browser
  <2> QED
    BY <1>1, <1>2, <1>3, <2>1 DEF StepInv, SessionInv, ReplayInv, Calm, Foreign, Opened
<1> QED
  BY <1>4, <1>5

LEMMA OthersStep ==
  ASSUME StepInv, ChangeElsewhere \/ MoveElsewhere \/ ChangeAccess \/ MigrationEnds
  PROVE  StepInv'
<1>1. TypeInv' /\ UNCHANGED <<suite, made>>
  BY OthersTyped DEF StepInv, ChangeElsewhere, MoveElsewhere, ChangeAccess, MigrationEnds, server
<1>2. CASE ChangeElsewhere
  <2>1. Calm => Calm'
    BY <1>2 DEF ChangeElsewhere, Calm
  <2>2. PICK old \in Olds : Touch(old) /\ (~Calm => replay'.e = Older(replay.e, old))
    BY <1>2, UnderWay DEF ChangeElsewhere, Replays
  <2> QED
    BY <1>1, <2>1, <2>2, TouchStep
<1>3. CASE UNCHANGED <<browser, replay>>
  <2>1. UNCHANGED <<queue, snap, tab, shown, replay>>
    BY <1>3 DEF browser
  <2> QED
    BY <1>1, <2>1, ShrinkStep, UnderWay DEF Calm
<1> QED
  BY <1>2, <1>3 DEF MoveElsewhere, ChangeAccess, MigrationEnds

LEMMA StepStep ==
  ASSUME InStep, StepInv, [Next]_vars
  PROVE  StepInv'
<1>1. CASE UNCHANGED vars
  <2>1. TypeInv'
    BY <1>1, TypeStep DEF StepInv
  <2> QED
    BY <1>1, <2>1, ShrinkStep, UnderWay DEF vars, Calm
<1> QED
  BY <1>1, SessionSteps, EnqueueStep, CompareStep, WriteStep, ReplaySteps, ManifestStep, GiveUpStep,
     KeepMineStep, ReopenStep, RotateStep, OthersStep DEF Next

LEMMA StepInit == Init => StepInv
<1> SUFFICES ASSUME Init PROVE StepInv
  OBVIOUS
<1>1. QueueInv /\ ReplayInv
  BY DEF Init, QueueInv, ReplayInv, Calm
<1>2. SessionInv
  BY DEF Init, SessionInv, Locked
<1> QED
  BY <1>1, <1>2, TypeInit DEF StepInv

-----------------------------------------------------------------------------
(* EditsAccounted: every change is settled, or in an entry that has its key. *)

\* A step that settles what it takes out of the queue loses no change.
LEMMA NothingLost ==
  ASSUME KeysInv, \A e \in queue' : Opens(e)', settled \subseteq settled', made' = made,
         \A e \in queue : e.edits \subseteq settled' \/ \E f \in queue' : e.edits \subseteq f.edits
  PROVE  EditsAccounted'
<1> SUFFICES ASSUME NEW i \in 1..made PROVE i \in settled' \/ \E f \in queue' : i \in f.edits
  BY DEF EditsAccounted, Opens
<1>1. CASE i \in settled
  BY <1>1
<1>2. CASE i \notin settled
  <2>1. PICK e \in queue : i \in e.edits
    BY <1>2 DEF KeysInv, EditsAccounted
  <2> QED
    BY <2>1
<1> QED
  BY <1>1, <1>2

\* A step of the page alone that leaves the keys where they are.
LEMMA KeysStay ==
  ASSUME KeysInv, StepInv', UNCHANGED <<suite, made>>, settled \subseteq settled',
         snap'.suite = snap.suite,
         \A e \in queue : e.edits \subseteq settled' \/ \E f \in queue' : e.edits \subseteq f.edits,
         \A f \in queue' : \E e \in queue : /\ f.suite = e.suite /\ f.edits = e.edits
                                            /\ f.status = "sync" =>
                                                 e.status = "sync" \/ f.edits \subseteq settled',
         Calm' \/ (~Calm' /\ Stored(replay')
                     => replay'.e.edits \subseteq settled')
  PROVE  KeysInv'
<1>1. \A e \in queue' : Opens(e)'
  BY DEF KeysInv, Opens
<1>2. EditsAccounted'
  BY <1>1, NothingLost
<1>3. SentInv'
  BY DEF KeysInv, SentInv, Stored
<1> QED
  BY <1>1, <1>2, <1>3 DEF KeysInv

LEMMA KeysSession ==
  ASSUME InStep, KeysKept, KeysInv, UnlockOnline \/ RefusedUnlock \/ UnlockOffline \/ Lock \/ Reload
  PROVE  KeysInv'
<1>1. StepInv' /\ UNCHANGED <<queue, suite, made, settled>>
  BY SessionSteps DEF KeysInv, UnlockOnline, RefusedUnlock, UnlockOffline, Lock, Reload, server
<1>2. \A e \in queue' : Opens(e)'
  <2>1. CASE RefusedUnlock
    BY <1>1, <2>1 DEF RefusedUnlock, KeysKept, Opens
  <2>2. CASE UNCHANGED snap
    BY <1>1, <2>2 DEF KeysInv, Opens
  <2> QED
    BY <2>1, <2>2 DEF UnlockOnline, UnlockOffline, Lock, Reload
<1>3. EditsAccounted'
  BY <1>1, <1>2, NothingLost
<1>4. SentInv'
  <2>1. queue \in SUBSET Entries
    BY DEF KeysInv, StepInv, TypeInv, TypeOK
  <2>2. CASE replay' = replay
    BY <1>1, <2>2 DEF KeysInv, SentInv, Stored, Calm
  <2>3. CASE Calm'
    BY <1>1, <2>3 DEF KeysInv, SentInv, Stored
  <2>4. CASE replay' = Replayed(queue, suite) /\ replay' # replay
    <3>1. replay'.e \in queue /\ replay'.got = "none"
          /\ replay'.step = IF replay'.e.status = "sync" THEN "fan" ELSE "sent"
      BY <2>1, <2>4, Started
    <3> QED
      BY <1>1, <3>1 DEF KeysInv, SentInv, Stored
  <2> QED
    BY <2>2, <2>3, <2>4 DEF UnlockOnline, RefusedUnlock, UnlockOffline, Lock, Reload, Calm
<1> QED
  BY <1>1, <1>2, <1>3, <1>4 DEF KeysInv

LEMMA KeysEnqueue ==
  ASSUME InStep, KeysInv, NEW op \in {"create", "update", "delete"}, Enqueue(op)
  PROVE  KeysInv'
<1> DEFINE new == Incoming(op)
           old == {e \in Opened : e.status # "failed"}
<1>1. StepInv' /\ StepInv
  BY EnqueueStep DEF KeysInv
<1>2. /\ made' = made + 1 /\ made \in Nat /\ Calm /\ Opened = queue
      /\ UNCHANGED <<suite, snap, replay>> /\ tab.suite = snap.suite /\ tab'.suite = snap'.suite
      /\ Foreign' = {} /\ tab.mode = "cached" /\ tab'.mode = "cached"
  <2>1. /\ tab.mode = "cached" /\ tab' = tab /\ made' = made + 1 /\ Calm
        /\ UNCHANGED <<suite, snap, replay>>
    BY DEF Enqueue, InStep, server
  <2>2. Foreign = {} /\ Foreign' = {} /\ tab.suite = snap.suite
    BY <1>1, <2>1 DEF StepInv, SessionInv
  <2>3. made \in Nat
    BY <1>1 DEF StepInv, TypeInv, TypeOK
  <2> QED
    BY <2>1, <2>2, <2>3 DEF Foreign, Opened
<1>3. \A e \in queue' : Opens(e)'
  BY <1>2 DEF Opens, Foreign, Opened
<1>4. settled \subseteq settled'
  BY DEF Enqueue
<1>5. \A e \in queue : e.op = "delete" => op = "create" /\ queue = {}
  BY <1>2 DEF Enqueue, Visible
<1>6. new.edits = {made + 1}
  BY DEF Incoming
<1>7. queue \subseteq Entries
  BY <1>1 DEF StepInv, TypeInv, TypeOK
<1> HIDE DEF new
<1>8. /\ \A e \in queue : e.edits \subseteq settled' \/ \E f \in queue' : e.edits \subseteq f.edits
      /\ made + 1 \in settled' \/ \E f \in queue' : made + 1 \in f.edits
      /\ \A f \in queue' : f.status = "sync" => f \in queue
  <2>1. CASE queue' = queue \cup {new}
    <3>1. new.status = "queued"
      BY DEF new, Incoming
    <3> QED
      BY <1>6, <2>1, <3>1
  <2>2. ASSUME NEW e \in old, queue' = Without(e.id), settled' = settled \cup e.edits \cup new.edits
        PROVE  <1>8!1 /\ <1>8!2 /\ <1>8!3
    <3>1. \A f \in queue : f = e \/ f \in queue'
      BY <1>1, <1>2, <2>2 DEF Without, StepInv, QueueInv
    <3> QED
      BY <1>6, <2>2, <3>1 DEF Without
  <2>3. ASSUME NEW e \in old, queue' = Put(Coalesce(e, new))
        PROVE  <1>8!1 /\ <1>8!2 /\ <1>8!3
    <3>1. /\ Coalesce(e, new).id = e.id /\ Coalesce(e, new).edits = e.edits \cup new.edits
          /\ Coalesce(e, new).status = "queued"
      BY <1>2, <1>5, <1>7 DEF Coalesce, Entries
    <3>2. \A f \in queue : f = e \/ f \in queue'
      BY <1>1, <1>2, <2>3, <3>1 DEF Put, Without, StepInv, QueueInv
    <3> QED
      BY <1>6, <2>3, <3>1, <3>2 DEF Put, Without
  <2> QED
    BY <2>1, <2>2, <2>3 DEF Enqueue, new
<1>9. EditsAccounted'
  <2> SUFFICES ASSUME NEW i \in 1..made' PROVE i \in settled' \/ \E f \in queue' : i \in f.edits
    BY <1>3 DEF EditsAccounted
  <2>1. CASE i = made + 1
    BY <1>8, <2>1
  <2>2. CASE i \in 1..made
    BY <1>4, <1>8, <2>2 DEF KeysInv, EditsAccounted
  <2> QED
    BY <1>2, <2>1, <2>2
<1>10. SentInv'
  BY <1>2, <1>4, <1>8 DEF KeysInv, SentInv, Stored, Calm
<1> QED
  BY <1>1, <1>3, <1>9, <1>10 DEF KeysInv

\* The row's change leaves the edits and the keys as they are.
LEMMA TouchKeeps ==
  ASSUME KeysInv, NEW old \in Olds, Touch(old), StepInv', UNCHANGED <<suite, made>>, settled \subseteq settled',
         ~Calm' /\ Stored(replay') => replay'.e.edits \subseteq settled'
  PROVE  KeysInv'
<1>1. queue \subseteq Entries /\ queue' = {Older(e, old) : e \in queue}
  BY DEF KeysInv, StepInv, TypeInv, TypeOK, Touch
<1>2. snap'.suite = snap.suite
  BY DEF Touch, KeysInv, StepInv, TypeInv, TypeOK, NoSnapshot
<1>3. ASSUME NEW e \in queue
      PROVE  /\ Older(e, old) \in queue' /\ Older(e, old).edits = e.edits
             /\ Older(e, old).suite = e.suite /\ Older(e, old).status = e.status
  BY <1>1, Ages
<1>4. ASSUME NEW f \in queue'
      PROVE  \E e \in queue : f.suite = e.suite /\ f.edits = e.edits /\ f.status = e.status
  <2>1. PICK e \in queue : f = Older(e, old)
    BY <1>1
  <2> QED
    BY <1>3, <2>1
<1> QED
  BY <1>2, <1>3, <1>4, KeysStay

LEMMA KeysCompare ==
  ASSUME KeysInv, Compare
  PROVE  KeysInv'
<1>1. StepInv' /\ UNCHANGED <<suite, snap, queue, made, settled>>
  BY CompareStep DEF KeysInv, Compare, server, browser
<1>2. ~Stored(replay')
  BY UnderWay DEF KeysInv, Compare, Calm, Replays, Stored
<1> QED
  BY <1>1, <1>2, KeysStay

LEMMA KeysWrite ==
  ASSUME KeysInv, Write
  PROVE  KeysInv'
<1> DEFINE e == replay.e
<1>1. StepInv' /\ ~Calm /\ UNCHANGED <<suite, made>> /\ replay \in Replays
      /\ e.suite = suite /\ e \in Entries
  BY WriteStep, UnderWay DEF KeysInv, Write, Calm
<1>2. settled' = settled \cup e.edits
  BY <1>1 DEF Write
<1>3. ASSUME NEW old \in Olds, Touch(old), replay'.e = Older(e, old)
      PROVE  KeysInv'
  <2>1. replay'.e.edits = e.edits
    BY <1>1, <1>3, Ages
  <2> QED
    BY <1>1, <1>2, <1>3, <2>1, TouchKeeps
<1>4. CASE UNCHANGED browser /\ replay'.e = e
  BY <1>1, <1>2, <1>4, KeysStay DEF browser
<1> QED
  BY <1>1, <1>3, <1>4 DEF Write, Replays

\* Writing a status keeps an entry's edits and its key.
LEMMA SetStatusKeeps ==
  ASSUME KeysInv, StepInv', ~Calm, Calm', NEW s \in Statuses, SetStatus(replay.e, s),
         s = "sync" => replay.e.edits \subseteq settled,
         UNCHANGED <<suite, made, snap, settled>>
  PROVE  KeysInv'
<1> DEFINE e == replay.e
           f == [e EXCEPT !.status = s]
<1>1. e \in queue /\ e \in Entries /\ \A x \in queue : x.id = e.id => x = e
  BY UnderWay DEF KeysInv, StepInv, QueueInv
<1>2. f.id = e.id /\ f.edits = e.edits /\ f.suite = e.suite /\ f.status = s
  BY <1>1 DEF Entries
<1> HIDE DEF f
<1>3. queue' = queue \/ queue' = Put(f)
  BY DEF SetStatus, f
<1>4. \A x \in queue : \E y \in queue' : x.edits = y.edits
  BY <1>1, <1>2, <1>3 DEF Put, Without
<1>5. \A y \in queue' : y = f \/ y \in queue
  BY <1>3 DEF Put, Without
<1> QED
  BY <1>1, <1>2, <1>4, <1>5, KeysStay

LEMMA KeysReplay ==
  ASSUME KeysInv, ConnectionBack \/ Receive \/ Lose \/ FanOut \/ FanOutFails
  PROVE  KeysInv'
<1>1. StepInv' /\ UNCHANGED <<suite, snap, made, settled>>
  BY ReplaySteps DEF KeysInv, ConnectionBack, Receive, Lose, FanOut, FanOutFails, server, browser
<1>2. CASE ConnectionBack \/ Lose
  <2>1. UNCHANGED queue
    BY <1>2 DEF ConnectionBack, Lose, browser
  <2>2. Calm' \/ (Stored(replay') => replay'.e.edits \subseteq settled)
    <3>1. CASE ConnectionBack /\ replay' # replay
      <4>1. queue \in SUBSET Entries /\ replay' = Replayed(queue, tab.suite)
        BY <3>1 DEF KeysInv, StepInv, TypeInv, TypeOK, ConnectionBack
      <4> QED
        BY <3>1, <4>1, Started DEF KeysInv, SentInv, Stored
    <3> QED
      BY <1>2, <3>1 DEF ConnectionBack, Lose, Calm
  <2> QED
    BY <1>1, <2>1, <2>2, KeysStay
<1>3. ASSUME Drop(replay.e), ~Calm, Calm', Stored(replay)
      PROVE  KeysInv'
  <2>1. replay.e.edits \subseteq settled /\ \A x \in queue : x.id = replay.e.id => x = replay.e
    BY <1>3, UnderWay DEF KeysInv, SentInv, Stored, StepInv, QueueInv
  <2>2. queue' \subseteq queue /\ \A x \in queue : x = replay.e \/ x \in queue'
    BY <1>3, <2>1 DEF Drop, Without
  <2> QED
    BY <1>1, <1>3, <2>1, <2>2, KeysStay
<1>4. CASE FanOut
  BY <1>3, <1>4 DEF FanOut, Calm, Stored
<1>5. CASE FanOutFails
  <2>1. ~Calm /\ Calm' /\ replay.e.edits \subseteq settled
    BY <1>5 DEF FanOutFails, Calm, KeysInv, SentInv, Stored
  <2> QED
    BY <1>1, <1>5, <2>1, SetStatusKeeps DEF FanOutFails, Statuses, Pending
<1>6. CASE Receive
  <2>1. ~Calm /\ {"conflict", "failed"} \subseteq Statuses
    BY <1>6 DEF Receive, Calm, Statuses
  <2>2. CASE \E s \in {"conflict", "failed"} : SetStatus(replay.e, s) /\ replay' = Idle
    BY <1>1, <2>1, <2>2, SetStatusKeeps DEF Calm
  <2>3. CASE Drop(replay.e) /\ replay.got = "ok" /\ replay' = Idle
    BY <1>3, <1>6, <2>1, <2>3 DEF Receive, Calm, Stored
  <2>4. CASE UNCHANGED queue /\ replay' = Idle
    BY <1>1, <2>4, KeysStay DEF Calm
  <2>5. CASE UNCHANGED queue /\ replay.got = "ok" /\ replay' = [replay EXCEPT !.step = "fan"]
    <3>1. replay'.e.edits \subseteq settled'
      BY <1>1, <1>6, <2>1, <2>5, UnderWay DEF Receive, KeysInv, SentInv, Stored, Replays
    <3> QED
      BY <1>1, <2>5, <3>1, KeysStay
  <2> QED
    BY <1>6, <2>2, <2>3, <2>4, <2>5 DEF Receive
<1> QED
  BY <1>2, <1>4, <1>5, <1>6

\* The snapshot is replaced when the active suite opens every entry.
LEMMA KeysManifest ==
  ASSUME KeysKept, KeysInv, Manifest
  PROVE  KeysInv'
<1>1. StepInv' /\ UNCHANGED <<suite, replay, made, settled>> /\ tab.suite = suite
  BY ManifestStep DEF KeysInv, Manifest, server, StepInv, SessionInv
<1>2. CASE UNCHANGED <<snap, queue>>
  BY <1>1, <1>2, KeysStay DEF KeysInv, SentInv, Stored, Calm
<1>3. CASE Foreign = {} /\ UNCHANGED queue
  <2>1. \A e \in queue' : Opens(e)'
    BY <1>1, <1>3 DEF Foreign, Opened, Opens
  <2>2. EditsAccounted' /\ SentInv'
    BY <1>1, <1>3, <2>1, NothingLost DEF KeysInv, SentInv, Stored, Calm
  <2> QED
    BY <1>1, <2>1, <2>2 DEF KeysInv
<1>4. CASE Foreign = {} /\ Opened = {} /\ queue' = {}
  <2>1. queue = {}
    BY <1>4 DEF Foreign
  <2>2. EditsAccounted' /\ SentInv'
    BY <1>1, <1>4, <2>1, NothingLost DEF KeysInv, SentInv, Stored, Calm
  <2> QED
    BY <1>1, <1>4, <2>2 DEF KeysInv
<1> QED
  BY <1>2, <1>3, <1>4 DEF Manifest, KeysKept, NoneNeedsOld

\* What the user drops, the user has given up.
LEMMA KeysGiveUp ==
  ASSUME KeysInv, KeepServer \/ DiscardEntry \/ DiscardForeign
  PROVE  KeysInv'
<1>1. StepInv' /\ UNCHANGED <<suite, snap, made, replay>>
  BY GiveUpStep DEF KeysInv, KeepServer, DiscardEntry, DiscardForeign, server
<1>2. /\ queue' \subseteq queue /\ settled \subseteq settled'
      /\ \A e \in queue : e.edits \subseteq settled' \/ e \in queue'
  <2>1. CASE DiscardForeign
    BY <2>1 DEF DiscardForeign, Opened, Foreign
  <2>2. CASE KeepServer \/ DiscardEntry
    <3>1. PICK e \in queue : queue' = Without(e.id) /\ settled' = settled \cup e.edits
      BY <2>2 DEF KeepServer, DiscardEntry, Drop, Opened
    <3>2. \A x \in queue : x.id = e.id => x = e
      BY DEF KeysInv, StepInv, QueueInv
    <3> QED
      BY <3>1, <3>2 DEF Without
  <2> QED
    BY <2>1, <2>2
<1>3. Calm' \/ (~Calm' /\ Stored(replay')
                  => replay'.e.edits \subseteq settled')
  BY <1>1, <1>2 DEF KeysInv, SentInv, Stored, Calm
<1> QED
  BY <1>1, <1>2, <1>3, KeysStay

\* A replay that starts over a queue whose stored changes are settled.
LEMMA StartedKeeps ==
  ASSUME NEW q \in SUBSET Entries, NEW s, Calm, replay' = Replayed(q, s) \/ replay' = replay,
         \A e \in q : e.status = "sync" => e.edits \subseteq settled
  PROVE  Calm' \/ (~Calm' /\ Stored(replay')
                     => replay'.e.edits \subseteq settled)
<1>1. CASE replay' = replay
  BY <1>1 DEF Calm
<1>2. CASE replay' = Replayed(q, s) /\ replay' # replay
  BY <1>2, Started DEF Stored
<1> QED
  BY <1>1, <1>2

LEMMA KeysKeepMine ==
  ASSUME KeysInv, KeepMine
  PROVE  KeysInv'
<1> DEFINE new(e) == [e EXCEPT !.base = shown[e.id], !.status = "queued",
                               !.seen = shown[e.id] = "fresh"]
<1>1. StepInv' /\ Calm /\ UNCHANGED <<suite, snap, made, settled>>
  BY KeepMineStep DEF KeysInv, KeepMine, server
<1>2. PICK e \in queue :
        /\ queue' = Put(new(e))
        /\ replay' = Replayed(queue', tab.suite) \/ replay' = replay
  BY DEF KeepMine, Opened
<1>3. e \in Entries /\ \A x \in queue : x.id = e.id => x = e
  BY <1>2 DEF KeysInv, StepInv, QueueInv, TypeInv, TypeOK
<1>4. new(e).id = e.id /\ new(e).edits = e.edits /\ new(e).suite = e.suite /\ new(e).status = "queued"
  BY <1>3 DEF Entries
<1> HIDE DEF new
<1>5. \A y \in queue' : y = new(e) \/ y \in queue
  BY <1>2 DEF Put, Without
<1>6. \A x \in queue : \E y \in queue' : x.edits = y.edits
  BY <1>2, <1>3, <1>4 DEF Put, Without
<1>7. \A y \in queue' : y.status = "sync" => y.edits \subseteq settled
  BY <1>4, <1>5 DEF KeysInv, SentInv, Stored
<1>8. queue' \in SUBSET Entries
  BY <1>1 DEF StepInv, TypeInv, TypeOK
<1>9. Calm' \/ (~Calm' /\ Stored(replay')
                  => replay'.e.edits \subseteq settled)
  BY <1>1, <1>2, <1>7, <1>8, StartedKeeps
<1>10. \A y \in queue' : \E x \in queue : /\ y.suite = x.suite /\ y.edits = x.edits
                                          /\ y.status = "sync" => x.status = "sync"
  BY <1>2, <1>4, <1>5
<1> QED
  BY <1>1, <1>6, <1>9, <1>10, KeysStay

LEMMA KeysReopen ==
  ASSUME KeysInv, Reopen
  PROVE  KeysInv'
<1> DEFINE moved(e) == [e EXCEPT !.suite = tab.suite]
<1>1. StepInv' /\ UNCHANGED <<suite, snap, made, settled>> /\ tab.suite = suite
      /\ queue \subseteq Entries /\ (~Calm => replay' = replay)
  BY ReopenStep DEF KeysInv, Reopen, server, StepInv, SessionInv, TypeInv, TypeOK
<1>2. queue' = {moved(e) : e \in queue} /\ (replay' = Replayed(queue', tab.suite) \/ replay' = replay)
  BY DEF Reopen
<1>3. ASSUME NEW e \in queue
      PROVE  moved(e).edits = e.edits /\ moved(e).suite = suite /\ moved(e).status = e.status
  BY <1>1 DEF Entries
<1>4. ASSUME NEW y \in queue'
      PROVE  y.suite = suite /\ \E x \in queue : y.edits = x.edits /\ y.status = x.status
  <2>1. PICK x \in queue : y = moved(x)
    BY <1>2
  <2> QED
    BY <1>3, <2>1
<1>5. \A e \in queue' : Opens(e)'
  BY <1>1, <1>4 DEF Opens
<1>6. EditsAccounted'
  <2>1. \A x \in queue : \E y \in queue' : x.edits = y.edits
    BY <1>2, <1>3
  <2> QED
    BY <1>1, <1>5, <2>1, NothingLost
<1>7. SentInv'
  <2>1. \A y \in queue' : y.status = "sync" => y.edits \subseteq settled
    BY <1>4 DEF KeysInv, SentInv, Stored
  <2>2. CASE Calm
    <3>1. queue' \in SUBSET Entries /\ (replay' = Replayed(queue', tab.suite) \/ replay' = replay)
      BY <1>1, <1>2 DEF StepInv, TypeInv, TypeOK
    <3>2. Calm' \/ (~Calm' /\ Stored(replay')
                      => replay'.e.edits \subseteq settled)
      BY <2>1, <2>2, <3>1, StartedKeeps
    <3> QED
      BY <1>1, <2>1, <3>2 DEF SentInv, Stored
  <2>3. CASE ~Calm
    BY <1>1, <2>1, <2>3 DEF KeysInv, SentInv, Stored, Calm
  <2> QED
    BY <2>2, <2>3
<1> QED
  BY <1>1, <1>5, <1>6, <1>7 DEF KeysInv

\* The keys change when the queue is empty, or is the snapshot's.
LEMMA KeysRotate ==
  ASSUME InStep, KeysKept, KeysInv, RotateHere \/ RotateElsewhere
  PROVE  KeysInv'
<1>1. StepInv' /\ Calm /\ UNCHANGED <<queue, made, replay, settled>>
  BY RotateStep DEF KeysInv, RotateHere, RotateElsewhere, browser
<1>2. \A e \in queue' : Opens(e)'
  <2>1. CASE RotateHere
    BY <1>1, <2>1 DEF RotateHere, KeysKept
  <2>2. CASE RotateElsewhere
    BY <1>1, <2>2 DEF RotateElsewhere, KeysKept, Opens, browser
  <2> QED
    BY <2>1, <2>2
<1>3. EditsAccounted' /\ SentInv'
  BY <1>1, <1>2, NothingLost DEF KeysInv, SentInv, Stored, Calm
<1> QED
  BY <1>1, <1>2, <1>3 DEF KeysInv

LEMMA KeysOthers ==
  ASSUME KeysInv, ChangeElsewhere \/ MoveElsewhere \/ ChangeAccess \/ MigrationEnds
  PROVE  KeysInv'
<1>1. StepInv' /\ UNCHANGED <<suite, made, settled>>
  BY OthersStep DEF KeysInv, ChangeElsewhere, MoveElsewhere, ChangeAccess, MigrationEnds, server
<1>2. CASE ChangeElsewhere
  <2>1. PICK old \in Olds :
          /\ Touch(old)
          /\ replay' = IF Calm THEN Idle
                       ELSE [replay EXCEPT !.e = Older(@, old), !.current = Aged(@, old)]
    BY <1>2 DEF ChangeElsewhere
  <2>2. ~Calm' => /\ ~Calm /\ replay'.step = replay.step /\ replay'.got = replay.got
                  /\ replay'.e.edits = replay.e.edits
    BY <2>1, UnderWay, Ages DEF Calm, KeysInv, Replays
  <2>3. ~Calm' /\ Stored(replay') => replay'.e.edits \subseteq settled'
    BY <1>1, <2>2 DEF KeysInv, SentInv, Stored
  <2> QED
    BY <1>1, <2>1, <2>3, TouchKeeps
<1>3. CASE UNCHANGED <<browser, replay>>
  BY <1>1, <1>3, KeysStay DEF KeysInv, SentInv, Stored, Calm, browser
<1> QED
  BY <1>2, <1>3 DEF MoveElsewhere, ChangeAccess, MigrationEnds

LEMMA KeysStep ==
  ASSUME InStep, KeysKept, KeysInv, [Next]_vars
  PROVE  KeysInv'
<1>1. CASE UNCHANGED vars
  <2>1. StepInv'
    BY <1>1, StepStep DEF KeysInv
  <2> QED
    BY <1>1, <2>1, KeysStay DEF KeysInv, SentInv, Stored, Calm, vars
<1> QED
  BY <1>1, KeysSession, KeysEnqueue, KeysCompare, KeysWrite, KeysReplay, KeysManifest, KeysGiveUp,
     KeysKeepMine, KeysReopen, KeysRotate, KeysOthers DEF Next

LEMMA KeysInit == Init => KeysInv
<1> SUFFICES ASSUME Init PROVE KeysInv
  OBVIOUS
<1>1. queue = {} /\ Calm /\ 1..made = {}
  BY DEF Init, Calm
<1> QED
  BY <1>1, StepInit DEF KeysInv, SentInv, Stored, EditsAccounted

\* Every change made offline has reached the server, was given up by the user,
\* or is still queued with its key, if no change is made while one is sent, no
\* keys are rotated under an open session or a refused change, and what a
\* refused change needs is not wiped (useOfflineStore, offlineCache).
THEOREM EditsAccountedHolds ==
  ASSUME InStep, KeysKept
  PROVE  Spec => []EditsAccounted
<1>1. KeysInv => EditsAccounted
  BY DEF KeysInv
<1>2. KeysInv /\ [Next]_vars => KeysInv'
  BY KeysStep
<1> QED
  BY <1>1, <1>2, KeysInit, PTL DEF Spec

-----------------------------------------------------------------------------
(* OnlyTheSeenPasses: a base that the row still has is what the user saw.   *)

\* A step that leaves the row where it is and gives no entry a base the user
\* did not see.
LEMMA BaseStays ==
  ASSUME OverwriteInv, StepInv', row'.at = row.at,
         \A f \in queue' : \E e \in queue :
           /\ f.op = e.op
           /\ (f.base = e.base /\ f.seen = e.seen) \/ f.base = "stale" \/ (f.base = "fresh" /\ f.seen)
           /\ f.op = "create" => f.status \in {e.status, "failed"},
         \A e : queue = {e} => \A f, g \in queue' : f = g,
         Created => Created' \/ queue' = {}, RequestInv'
  PROVE  OverwriteInv'
<1> SUFFICES ASSUME NEW f \in queue'
             PROVE  IF f.op = "create"
                    THEN /\ f.status \in {"queued", "failed"}
                         /\ ~Failed(f) => queue' = {f}
                         /\ row.at = "none" \/ Created'
                    ELSE /\ f.base = "fresh" => f.seen
                         /\ f.base = "none" => row.at = "none"
  BY DEF OverwriteInv, BaseInv, Failed
<1>1. PICK e \in queue :
        /\ f.op = e.op
        /\ (f.base = e.base /\ f.seen = e.seen) \/ f.base = "stale" \/ (f.base = "fresh" /\ f.seen)
        /\ f.op = "create" => f.status \in {e.status, "failed"}
  OBVIOUS
<1>2. CASE f.op = "create"
  <2>1. e.status \in {"queued", "failed"} /\ (~Failed(e) => queue = {e}) /\ (row.at = "none" \/ Created)
    BY <1>1, <1>2 DEF OverwriteInv, BaseInv
  <2>2. ~Failed(f) => queue' = {f}
    BY <1>1, <1>2, <2>1 DEF Failed
  <2> QED
    BY <1>1, <1>2, <2>1, <2>2
<1>3. CASE f.op # "create"
  BY <1>1, <1>3 DEF OverwriteInv, BaseInv
<1> QED
  BY <1>2, <1>3

\* What waits to be sent is no creation that was already served.
LEMMA StartedBase ==
  ASSUME NEW q \in SUBSET Entries, NEW s, Calm, replay' = Replayed(q, s) \/ replay' = replay,
         \A e \in q : e.op = "create" => e.status \in {"queued", "failed"}
  PROVE  RequestInv'
<1>1. CASE replay' = replay
  BY <1>1 DEF Calm, RequestInv
<1>2. CASE replay' = Replayed(q, s) /\ replay' # replay
  BY <1>2, Started DEF RequestInv
<1> QED
  BY <1>1, <1>2

LEMMA BaseSession ==
  ASSUME InStep, RowsKnown, OverwriteInv,
         UnlockOnline \/ RefusedUnlock \/ UnlockOffline \/ Lock \/ Reload \/ ConnectionBack
  PROVE  OverwriteInv'
<1>1. StepInv' /\ UNCHANGED <<queue, row>>
  BY SessionSteps, ReplaySteps
     DEF OverwriteInv, UnlockOnline, RefusedUnlock, UnlockOffline, Lock, Reload, ConnectionBack,
         server, browser
<1>2. queue \in SUBSET Entries /\ \A e \in queue : e.op = "create" => e.status \in {"queued", "failed"}
  BY DEF OverwriteInv, StepInv, TypeInv, TypeOK, BaseInv
<1>3. \/ replay' = replay
      \/ Calm /\ \E s : replay' = Replayed(queue, s)
      \/ Calm' /\ ~Created
  <2>1. CASE UnlockOnline \/ ConnectionBack
    BY <2>1 DEF UnlockOnline, ConnectionBack, Replayed
  <2>2. CASE RefusedUnlock \/ UnlockOffline \/ Lock
    BY <2>2 DEF RefusedUnlock, UnlockOffline, Lock
  <2>3. CASE Reload
    BY <2>3 DEF Reload, RowsKnown, Calm
  <2> QED
    BY <2>1, <2>2, <2>3
<1>4. Created => Created'
  BY <1>3 DEF Created, Calm
<1>5. RequestInv'
  <2>1. CASE replay' = replay
    BY <1>1, <2>1 DEF OverwriteInv, RequestInv, Calm
  <2>2. CASE Calm'
    BY <2>2 DEF RequestInv
  <2> QED
    BY <1>2, <1>3, <2>1, <2>2, StartedBase
<1> QED
  BY <1>1, <1>4, <1>5, BaseStays

LEMMA BaseEnqueue ==
  ASSUME InStep, OverwriteInv, NEW op \in {"create", "update", "delete"}, Enqueue(op)
  PROVE  OverwriteInv'
<1> DEFINE new == Incoming(op)
           old == {e \in Opened : e.status # "failed"}
<1>1. StepInv' /\ StepInv
  BY EnqueueStep DEF OverwriteInv
<1>2. UNCHANGED <<row, tab, replay>> /\ Calm /\ Calm' /\ ~Created /\ tab.mode = "cached" /\ RequestInv'
  BY DEF Enqueue, InStep, server, Calm, Created, RequestInv
<1>3. Opened = queue /\ queue \subseteq Entries
  BY <1>1, <1>2 DEF StepInv, SessionInv, TypeInv, TypeOK, Foreign, Opened
<1>4. /\ new.op = op /\ new.base = tab.copy /\ new.status = "queued"
      /\ new.seen = (tab.copy = "fresh")
  BY DEF Incoming
<1>5. IF op = "create" THEN row.at = "none" /\ queue = {} ELSE Visible
  BY <1>3 DEF Enqueue
<1>6. op # "create" /\ tab.copy = "none" => row.at = "none"
  <2>1. op # "create" /\ tab.copy = "none" => \E e \in queue : e.op = "create"
    BY <1>3, <1>5 DEF Visible
  <2> QED
    BY <1>2, <2>1 DEF OverwriteInv, BaseInv
<1> HIDE DEF new
<1>7. CASE old = {} /\ queue' = queue \cup {new}
  <2>1. \A e \in queue : Failed(e)
    BY <1>3, <1>7 DEF Failed
  <2>2. BaseInv'
    BY <1>2, <1>4, <1>5, <1>6, <1>7, <2>1 DEF OverwriteInv, BaseInv, Failed
  <2> QED
    BY <1>1, <1>2, <2>2 DEF OverwriteInv
<1>8. ASSUME NEW e \in old, queue' = Without(e.id) PROVE OverwriteInv'
  <2>1. queue' \subseteq queue
    BY <1>8 DEF Without
  <2> QED
    BY <1>1, <1>2, <2>1, BaseStays
<1>9. ASSUME NEW e \in old, ~(e.op = "create" /\ op = "delete"), queue' = Put(Coalesce(e, new))
      PROVE  OverwriteInv'
  <2> DEFINE f == Coalesce(e, new)
  <2>1. e \in queue /\ e \in Entries /\ e.op # "delete"
    BY <1>3, <1>5 DEF Visible
  <2>2. /\ f.id = e.id /\ f.base = e.base /\ f.seen = e.seen /\ f.status = "queued"
        /\ f.op = IF op = "delete" THEN "delete" ELSE e.op
    BY <1>4, <2>1 DEF Coalesce, Entries
  <2> HIDE DEF f
  <2>3. \A x \in queue' : x = f \/ (x \in queue /\ x.id # e.id)
    BY <1>9, <2>2 DEF Put, Without, f
  <2>4. f \in queue' /\ ~Failed(e)
    BY <1>9 DEF Put, f, Failed
  <2>5. e.op = "create" => queue' = {f}
    BY <2>1, <2>3, <2>4 DEF OverwriteInv, BaseInv
  <2>6. \A x \in queue : x.op = "create" /\ x.id # e.id => Failed(x)
    BY <2>1 DEF OverwriteInv, BaseInv
  <2>7. BaseInv'
    BY <1>2, <1>9, <2>1, <2>2, <2>3, <2>5, <2>6 DEF OverwriteInv, BaseInv, Failed
  <2> QED
    BY <1>1, <1>2, <2>7 DEF OverwriteInv
<1> QED
  BY <1>7, <1>8, <1>9 DEF Enqueue, new

\* Entries that go, and a request that is over or goes on.
LEMMA BaseShrinks ==
  ASSUME OverwriteInv, StepInv', queue' \subseteq queue, row'.at = row.at,
         Created => Created' \/ queue' = {}, RequestInv'
  PROVE  OverwriteInv'
<1>1. \A e : queue = {e} => \A f, g \in queue' : f = g
  OBVIOUS
<1> QED
  BY <1>1, BaseStays

LEMMA BaseCompare ==
  ASSUME RowsKnown, OverwriteInv, Compare
  PROVE  /\ OverwriteInv'
         /\ replay.e.op # "create" /\ replay'.got = "ok" => replay.e.seen
<1> DEFINE e == replay.e
           got == Answer(e)
<1>1. StepInv' /\ ~Calm /\ replay \in Replays /\ e \in queue /\ e \in Entries
      /\ UNCHANGED <<row, queue>>
  BY CompareStep, UnderWay DEF OverwriteInv, Compare, Calm, server, browser
<1>2. /\ replay'.e = e /\ replay'.got = got
      /\ replay'.step = IF got = "ok" THEN "checked" ELSE "answered"
  BY <1>1 DEF Compare, Replays
<1>3. e.op # "create" /\ got = "ok" => row.at # "none" /\ e.base # "stale"
  BY DEF Answer
<1>4. e.op = "create" => got # "conflict"
  BY DEF Answer
<1>5. ~Created
  BY DEF Compare, Created
<1> HIDE DEF got
<1>6. RequestInv'
  BY <1>1, <1>2, <1>3, <1>4 DEF RequestInv
<1>7. OverwriteInv'
  BY <1>1, <1>5, <1>6, BaseShrinks
<1>8. e.op # "create" /\ got = "ok" => e.base = "fresh" /\ e.seen
  <2>1. e.base \in {"none", "fresh", "stale"}
    BY <1>1 DEF Entries, Versions, Olds, RowsKnown
  <2> QED
    BY <1>1, <1>3, <2>1 DEF OverwriteInv, BaseInv
<1> QED
  BY <1>2, <1>7, <1>8

\* The entries of a queue that aged are those that were there, with bases of the past.
LEMMA BasesAge ==
  ASSUME queue \subseteq Entries, NEW old \in Olds, Touch(old)
  PROVE  /\ \A x \in queue' : \E y \in queue : /\ x.op = y.op /\ x.status = y.status
                                              /\ x.base = Aged(y.base, old) /\ x.base # "fresh"
         /\ \A y : queue = {y} => \A f, g \in queue' : f = g
<1>1. queue' = {Older(e, old) : e \in queue}
  BY DEF Touch
<1>2. ASSUME NEW x \in queue'
      PROVE  \E y \in queue : /\ x.op = y.op /\ x.status = y.status
                              /\ x.base = Aged(y.base, old) /\ x.base # "fresh"
  <2>1. PICK y \in queue : x = Older(y, old)
    BY <1>1
  <2>2. x.op = y.op /\ x.status = y.status /\ x.base = Aged(y.base, old)
    BY <2>1, Ages
  <2> QED
    BY <2>2 DEF Aged, Olds
<1> QED
  BY <1>1, <1>2

LEMMA BaseWrite ==
  ASSUME OverwriteInv, Write
  PROVE  OverwriteInv'
<1> DEFINE e == replay.e
<1>1. StepInv' /\ ~Calm /\ replay \in Replays /\ e \in queue /\ e \in Entries /\ ~Failed(e)
      /\ queue \subseteq Entries
  BY WriteStep, UnderWay
     DEF OverwriteInv, Write, Calm, Failed, Pending, StepInv, TypeInv, TypeOK
<1>2. replay.got = "ok" /\ (e.op = "create" \/ row.at # "none")
  BY <1>1 DEF Write, OverwriteInv, RequestInv
<1>3. ~Calm' /\ replay'.got = "ok" /\ replay'.e.op = e.op /\ replay'.step = "answered"
  <2>1. CASE replay' = [replay EXCEPT !.step = "answered"]
    BY <1>1, <1>2, <2>1 DEF Replays, Calm, Idle
  <2>2. ASSUME NEW old \in Olds, replay' = [replay EXCEPT !.step = "answered", !.e = Older(e, old)]
        PROVE  ~Calm' /\ replay'.got = "ok" /\ replay'.e.op = e.op /\ replay'.step = "answered"
    <3>1. Older(e, old).op = e.op
      BY <1>1, Ages
    <3>2. replay'.step = "answered" /\ replay'.got = "ok" /\ replay'.e = Older(e, old)
      BY <1>1, <1>2, <2>2 DEF Replays
    <3> QED
      BY <3>1, <3>2 DEF Calm, Idle
  <2> QED
    BY <2>1, <2>2 DEF Write
<1>4. RequestInv'
  BY <1>3 DEF RequestInv
<1>5. ~Created /\ (e.op = "create" => queue = {e})
  BY <1>1 DEF Write, Created, OverwriteInv, BaseInv
<1>6. CASE e.op = "delete" /\ UNCHANGED queue
  <2>1. \A y \in queue : y.op # "create" /\ y.base # "none" /\ (y.base = "fresh" => y.seen)
    BY <1>2, <1>5, <1>6 DEF OverwriteInv, BaseInv
  <2> QED
    BY <1>1, <1>4, <1>6, <2>1 DEF OverwriteInv, BaseInv
<1>7. ASSUME NEW old \in Olds, Touch(old) PROVE OverwriteInv'
  <2>1. CASE e.op = "create"
    <3>1. Created' /\ queue = {e} /\ e.status \in {"queued", "failed"}
      BY <1>1, <1>3, <1>5, <2>1 DEF Created, OverwriteInv, BaseInv
    <3>2. \A x \in queue' : x.op = "create" /\ x.status \in {"queued", "failed"} /\ queue' = {x}
      BY <1>1, <1>7, <2>1, <3>1, BasesAge
    <3>3. BaseInv'
      BY <3>1, <3>2 DEF BaseInv
    <3> QED
      BY <1>1, <1>4, <3>3 DEF OverwriteInv
  <2>2. CASE e.op # "create"
    <3>1. \A y \in queue : y.op # "create" /\ y.base # "none"
      BY <1>2, <1>5, <2>2 DEF OverwriteInv, BaseInv
    <3>2. \A x \in queue' : \E y \in queue : x.op = y.op /\ x.base = Aged(y.base, old)
                                            /\ x.base # "fresh"
      BY <1>1, <1>7, BasesAge
    <3>3. \A x \in queue' : x.op # "create" /\ x.base \notin {"none", "fresh"}
      BY <3>1, <3>2 DEF Aged, Olds
    <3>4. BaseInv'
      BY <3>3 DEF BaseInv
    <3> QED
      BY <1>1, <1>4, <3>4 DEF OverwriteInv
  <2> QED
    BY <2>1, <2>2
<1> QED
  BY <1>6, <1>7 DEF Write, browser

\* A status that is no conflict of a creation.
LEMMA BaseSetStatus ==
  ASSUME OverwriteInv, StepInv', ~Calm, Calm', ~Created, NEW s \in Statuses,
         SetStatus(replay.e, s), replay.e.op = "create" => s = "failed", UNCHANGED row
  PROVE  OverwriteInv'
<1> DEFINE e == replay.e
           f == [e EXCEPT !.status = s]
<1>1. e \in queue /\ e \in Entries
  BY UnderWay DEF OverwriteInv
<1>2. f.id = e.id /\ f.op = e.op /\ f.base = e.base /\ f.seen = e.seen /\ f.status = s
  BY <1>1 DEF Entries
<1> HIDE DEF f
<1>3. queue' = queue \/ queue' = Put(f)
  BY DEF SetStatus, f
<1>4. \A y \in queue' : y = f \/ y \in queue
  BY <1>3 DEF Put, Without
<1>5. \A y : queue = {y} => \A x, z \in queue' : x = z
  BY <1>1, <1>2, <1>3 DEF Put, Without
<1> QED
  BY <1>1, <1>2, <1>4, <1>5, BaseStays DEF RequestInv

LEMMA BaseReplay ==
  ASSUME RowsKnown, OverwriteInv, Receive \/ Lose \/ FanOut \/ FanOutFails
  PROVE  OverwriteInv'
<1>1. StepInv' /\ UNCHANGED row /\ ~Calm /\ replay \in Replays
  BY ReplaySteps, UnderWay
     DEF OverwriteInv, Receive, Lose, FanOut, FanOutFails, server, Calm
<1>2. CASE Lose
  BY <1>1, <1>2, BaseShrinks DEF Lose, RowsKnown, Calm, RequestInv, browser
<1>3. CASE FanOut \/ FanOutFails
  <2>1. replay.e.op # "create" /\ ~Created /\ Calm'
    BY <1>1, <1>3 DEF FanOut, FanOutFails, OverwriteInv, RequestInv, Created, Calm
  <2>2. CASE FanOut
    <3>1. queue' \subseteq queue
      BY <2>2 DEF FanOut, Drop, Without
    <3> QED
      BY <1>1, <2>1, <3>1, BaseShrinks DEF RequestInv
  <2>3. CASE FanOutFails
    BY <1>1, <2>1, <2>3, BaseSetStatus DEF FanOutFails, Statuses, Pending
  <2> QED
    BY <1>3, <2>2, <2>3
<1>4. CASE Receive
  <2>1. CASE replay.got = "ok" /\ replay' = [replay EXCEPT !.step = "fan"] /\ replay.e.op = "update"
             /\ UNCHANGED queue
    <3>1. replay'.step = "fan" /\ replay'.e.op = "update" /\ ~Created
      BY <1>1, <2>1 DEF Replays, Created
    <3> QED
      BY <1>1, <2>1, <3>1, BaseShrinks DEF RequestInv
  <2>2. CASE replay.got = "ok" /\ Drop(replay.e) /\ replay' = Idle
    <3>1. queue' \subseteq queue
      BY <2>2 DEF Drop, Without
    <3>2. Created => queue' = {}
      <4>1. Created => queue = {replay.e}
        BY <1>1, UnderWay DEF Created, OverwriteInv, BaseInv, Failed, Pending
      <4> QED
        BY <2>2, <4>1 DEF Drop, Without
    <3> QED
      BY <1>1, <2>2, <3>1, <3>2, BaseShrinks DEF RequestInv, Calm
  <2>3. CASE replay.got = "conflict" /\ SetStatus(replay.e, "conflict") /\ replay' = Idle
    BY <1>1, <2>3, BaseSetStatus DEF OverwriteInv, RequestInv, Created, Calm, Statuses
  <2>4. CASE replay.got = "failed" /\ SetStatus(replay.e, "failed") /\ replay' = Idle
    BY <1>1, <2>4, BaseSetStatus DEF Created, Calm, Statuses
  <2>5. CASE replay.got = "retry" /\ UNCHANGED queue /\ replay' = Idle
    BY <1>1, <2>5, BaseShrinks DEF Created, Calm, RequestInv
  <2> QED
    BY <1>4, <2>1, <2>2, <2>3, <2>4, <2>5 DEF Receive
<1> QED
  BY <1>2, <1>3, <1>4

\* The steps that leave the request as it is, and the queue or less of it.
LEMMA BaseRest ==
  ASSUME InStep, OverwriteInv, \/ Manifest \/ KeepServer \/ DiscardEntry \/ DiscardForeign
                               \/ RotateHere \/ RotateElsewhere \/ MigrationEnds \/ ChangeAccess
  PROVE  OverwriteInv'
<1>1. StepInv'
  BY ManifestStep, GiveUpStep, RotateStep, OthersStep DEF OverwriteInv
<1>2. UNCHANGED replay /\ row'.at = row.at
  BY DEF Manifest, KeepServer, DiscardEntry, DiscardForeign, RotateHere, RotateElsewhere,
         MigrationEnds, ChangeAccess, server, OverwriteInv, StepInv, TypeInv, TypeOK
<1>3. queue' \subseteq queue
  <2>1. CASE Manifest \/ DiscardForeign \/ RotateHere
    BY <2>1 DEF Manifest, DiscardForeign, RotateHere, Opened
  <2>2. CASE KeepServer \/ DiscardEntry
    BY <2>2 DEF KeepServer, DiscardEntry, Drop, Without
  <2>3. CASE RotateElsewhere \/ MigrationEnds \/ ChangeAccess
    BY <2>3 DEF RotateElsewhere, MigrationEnds, ChangeAccess, browser
  <2> QED
    BY <2>1, <2>2, <2>3
<1>4. (Created => Created') /\ RequestInv'
  BY <1>2 DEF Created, Calm, OverwriteInv, RequestInv
<1> QED
  BY <1>1, <1>2, <1>3, <1>4, BaseShrinks

LEMMA BaseKeepMine ==
  ASSUME RowsKnown, OverwriteInv, KeepMine
  PROVE  OverwriteInv'
<1> DEFINE new(e) == [e EXCEPT !.base = shown[e.id], !.status = "queued",
                               !.seen = shown[e.id] = "fresh"]
<1>1. StepInv' /\ Calm /\ UNCHANGED row
  BY KeepMineStep DEF OverwriteInv, KeepMine, server
<1>2. PICK e \in queue :
        /\ e.status = "conflict" /\ shown[e.id] # "none"
        /\ queue' = Put(new(e))
        /\ replay' = Replayed(queue', tab.suite) \/ replay' = replay
  BY DEF KeepMine, Opened, RowsKnown
<1>3. e \in Entries /\ shown[e.id] \in Versions /\ e.op # "create"
  BY <1>2 DEF OverwriteInv, BaseInv, StepInv, TypeInv, TypeOK, Entries
<1>4. /\ new(e).id = e.id /\ new(e).op = e.op /\ new(e).base = shown[e.id]
      /\ new(e).seen = (shown[e.id] = "fresh")
  BY <1>3 DEF Entries
<1> HIDE DEF new
<1>5. \A y \in queue' : y = new(e) \/ y \in queue
  BY <1>2 DEF Put, Without
<1>6. \A y : queue = {y} => \A x, z \in queue' : x = z
  BY <1>2, <1>4 DEF Put, Without
<1>7. queue' \in SUBSET Entries
  BY <1>1 DEF StepInv, TypeInv, TypeOK
<1>8. RequestInv'
  <2>1. \A y \in queue' : y.op = "create" => y.status \in {"queued", "failed"}
    BY <1>3, <1>4, <1>5 DEF OverwriteInv, BaseInv
  <2> QED
    BY <1>1, <1>2, <1>7, <2>1, StartedBase
<1>9. \A y \in queue' : \E x \in queue :
        /\ y.op = x.op
        /\ (y.base = x.base /\ y.seen = x.seen) \/ y.base = "stale" \/ (y.base = "fresh" /\ y.seen)
        /\ y.op = "create" => y.status \in {x.status, "failed"}
  <2>1. shown[e.id] \in {"fresh", "stale"}
    BY <1>2, <1>3 DEF Versions, Olds, RowsKnown
  <2> QED
    BY <1>2, <1>3, <1>4, <1>5, <2>1
<1> QED
  BY <1>1, <1>6, <1>8, <1>9, BaseStays DEF Created

LEMMA BaseReopen ==
  ASSUME OverwriteInv, Reopen
  PROVE  OverwriteInv'
<1> DEFINE moved(e) == [e EXCEPT !.suite = tab.suite]
<1>1. StepInv' /\ UNCHANGED row /\ queue \subseteq Entries /\ (~Calm => replay' = replay)
  BY ReopenStep DEF OverwriteInv, Reopen, server, StepInv, TypeInv, TypeOK
<1>2. queue' = {moved(e) : e \in queue} /\ (replay' = Replayed(queue', tab.suite) \/ replay' = replay)
  BY DEF Reopen
<1>3. ASSUME NEW y \in queue'
      PROVE  \E x \in queue : y.op = x.op /\ y.base = x.base /\ y.seen = x.seen /\ y.status = x.status
  <2>1. PICK x \in queue : y = moved(x)
    BY <1>2
  <2> QED
    BY <1>1, <2>1 DEF Entries
<1>4. \A y : queue = {y} => \A x, z \in queue' : x = z
  BY <1>2
<1>5. RequestInv'
  <2>1. CASE Calm
    <3>1. queue' \in SUBSET Entries /\ (replay' = Replayed(queue', tab.suite) \/ replay' = replay)
      BY <1>1, <1>2 DEF StepInv, TypeInv, TypeOK
    <3>2. \A y \in queue' : y.op = "create" => y.status \in {"queued", "failed"}
      BY <1>3 DEF OverwriteInv, BaseInv
    <3> QED
      BY <2>1, <3>1, <3>2, StartedBase
  <2>2. CASE ~Calm
    BY <1>1, <2>2 DEF OverwriteInv, RequestInv, Calm
  <2> QED
    BY <2>1, <2>2
<1>6. Created => Created'
  BY <1>1 DEF Created, Calm
<1> QED
  BY <1>1, <1>3, <1>4, <1>5, <1>6, BaseStays

\* What others do to the row ages what the browser remembers, or comes after it
\* was made.
LEMMA BaseOthers ==
  ASSUME OverwriteInv, ChangeElsewhere \/ MoveElsewhere
  PROVE  OverwriteInv'
<1>1. StepInv' /\ queue \subseteq Entries
  BY OthersStep DEF OverwriteInv, StepInv, TypeInv, TypeOK
<1>2. CASE ChangeElsewhere
  <2>1. UNCHANGED row
    BY <1>2 DEF ChangeElsewhere, server
  <2>0. PICK old \in Olds : Touch(old)
    BY <1>2 DEF ChangeElsewhere
  <2>2. (Created => Created') /\ RequestInv'
    <3>1. CASE Calm
      BY <1>2, <3>1 DEF ChangeElsewhere, Calm, Created, RequestInv
    <3>2. CASE ~Calm
      <4>1. replay \in Replays /\ replay.e \in Entries
        BY <3>2, UnderWay DEF OverwriteInv
      <4>2. replay'.step = replay.step /\ replay'.got = replay.got /\ replay'.e.op = replay.e.op
        BY <1>2, <3>2, <4>1, Ages DEF ChangeElsewhere, Replays
      <4>3. ~Calm'
        BY <1>2, <3>2, <4>1 DEF ChangeElsewhere, Replays, Calm, Idle
      <4> QED
        BY <2>1, <3>2, <4>2, <4>3 DEF Created, OverwriteInv, RequestInv
    <3> QED
      BY <3>1, <3>2
  <2>3. \A x \in queue' : \E y \in queue : /\ x.op = y.op /\ x.status = y.status
                                              /\ x.base = Aged(y.base, old) /\ x.base # "fresh"
    BY <1>1, <2>0, BasesAge
  <2>4. \A y : queue = {y} => \A f, g \in queue' : f = g
    BY <1>1, <2>0, BasesAge
  <2>5. row.at = "kept"
    BY <1>2 DEF ChangeElsewhere
  <2>6. BaseInv'
    <3>1. \A x \in queue' : x.op # "create" => x.base \notin {"none", "fresh"}
      BY <2>3, <2>5 DEF OverwriteInv, BaseInv, Aged, Olds
    <3>2. \A x \in queue' : x.op = "create" =>
            x.status \in {"queued", "failed"} /\ (~Failed(x) => queue' = {x}) /\ Created'
      BY <2>2, <2>3, <2>4, <2>5 DEF OverwriteInv, BaseInv, Failed
    <3> QED
      BY <3>1, <3>2 DEF BaseInv
  <2> QED
    BY <1>1, <2>2, <2>6 DEF OverwriteInv
<1>3. CASE MoveElsewhere
  <2>1. row.at # "none" /\ UNCHANGED <<queue, replay>>
    BY <1>3 DEF MoveElsewhere, browser
  <2>2. RequestInv' /\ (Created => Created')
    BY <1>3, <2>1 DEF MoveElsewhere, Created, OverwriteInv, RequestInv, Calm, StepInv, TypeInv, TypeOK
  <2>3. BaseInv'
    BY <2>1, <2>2 DEF OverwriteInv, BaseInv, Failed
  <2> QED
    BY <1>1, <2>2, <2>3 DEF OverwriteInv
<1> QED
  BY <1>2, <1>3

LEMMA OverwriteStep ==
  ASSUME InStep, RowsKnown, OverwriteInv, [Next]_vars
  PROVE  OverwriteInv'
<1>1. CASE UNCHANGED vars
  <2>1. StepInv'
    BY <1>1, StepStep DEF OverwriteInv
  <2> QED
    BY <1>1, <2>1, BaseShrinks DEF OverwriteInv, RequestInv, Created, Calm, vars
<1> QED
  BY <1>1, BaseSession, BaseEnqueue, BaseCompare, BaseWrite, BaseReplay, BaseRest, BaseKeepMine,
     BaseReopen, BaseOthers DEF Next

LEMMA OverwriteInit == Init => OverwriteInv
<1> SUFFICES ASSUME Init PROVE OverwriteInv
  OBVIOUS
<1>1. queue = {} /\ Calm
  BY DEF Init, Calm
<1> QED
  BY <1>1, StepInit DEF OverwriteInv, BaseInv, RequestInv

\* The comparison lets a replayed change through only if the row it loads is the
\* one the user had before them, if no change is made while one is sent, no keys are
\* rotated under an open session, no creation is sent twice, "mine" is chosen with
\* the 409's row at hand, and the row is not changed twice in a second (replayOne,
\* keepMine and OfflineEditGuard). Other devices may save at any moment.
THEOREM OnlyTheSeenPassesHolds ==
  ASSUME InStep, RowsKnown
  PROVE  Spec => OnlyTheSeenPasses
<1>1. OverwriteInv /\ [Next]_vars => OverwriteInv'
  BY OverwriteStep
<1>2. OverwriteInv /\ [Next]_vars
        => [Compare /\ replay.e.op # "create" /\ replay'.got = "ok" => replay.e.seen]_vars
  BY BaseCompare
<1> QED
  BY <1>1, <1>2, OverwriteInit, PTL DEF Spec, OnlyTheSeenPasses

-----------------------------------------------------------------------------
(* What the comparison cannot see, whatever case is let in.                 *)

\* A base that the row still has, as it was, is what the user saw.
Honest(e) == e.base = "fresh" => e.seen

HonestInv ==
  /\ TypeInv
  /\ \A e \in queue : Honest(e)
  /\ ~Calm => Honest(replay.e)

\* An entry of the queue or the one under way, but for its status and its suite.
Copies(f) ==
  \/ \E e \in queue : f.base = e.base /\ f.seen = e.seen
  \/ ~Calm /\ f.base = replay.e.base /\ f.seen = replay.e.seen

LEMMA HonestKeeps ==
  ASSUME HonestInv, TypeInv', \A f \in queue' : Honest(f) \/ Copies(f),
         Calm' \/ Honest(replay'.e) \/ Copies(replay'.e)
  PROVE  HonestInv'
<1>1. ASSUME NEW f, Copies(f) PROVE Honest(f)
  BY <1>1 DEF HonestInv, Copies, Honest
<1> QED
  BY <1>1 DEF HonestInv, Honest

\* What a replay starts is the request of an entry.
LEMMA HonestStart ==
  ASSUME HonestInv, NEW q \in SUBSET Entries, NEW s, replay' = Replayed(q, s) \/ replay' = replay,
         \A e \in q : Honest(e) \/ Copies(e)
  PROVE  Calm' \/ Honest(replay'.e) \/ Copies(replay'.e)
<1>1. CASE replay' = replay
  BY <1>1 DEF HonestInv, Calm, Honest
<1>2. CASE replay' = Replayed(q, s) /\ replay' # replay
  BY <1>2, Started
<1> QED
  BY <1>1, <1>2

LEMMA HonestAges ==
  ASSUME HonestInv, NEW old \in Olds, Touch(old), TypeInv',
         Calm' \/ (~Calm /\ replay'.e = Older(replay.e, old))
  PROVE  HonestInv'
<1>1. \A e \in Entries : Honest(Older(e, old))
  <2>1. ASSUME NEW e \in Entries PROVE Honest(Older(e, old))
    BY Ages DEF Honest, Aged, Olds
  <2> QED
    BY <2>1
<1>2. queue \subseteq Entries /\ (~Calm => replay.e \in Entries)
  BY DEF HonestInv, TypeInv, TypeOK, Calm
<1>3. \A f \in queue' : Honest(f)
  BY <1>1, <1>2 DEF Touch
<1> QED
  BY <1>1, <1>2, <1>3, HonestKeeps

\* A status is written to a copy of the entry under way.
LEMMA HonestStatus ==
  ASSUME HonestInv, ~Calm, Calm', NEW s, SetStatus(replay.e, s), TypeInv'
  PROVE  HonestInv'
<1> DEFINE f == [replay.e EXCEPT !.status = s]
<1>1. replay.e \in Entries
  BY DEF HonestInv, TypeInv, TypeOK, Calm
<1>2. f.base = replay.e.base /\ f.seen = replay.e.seen
  BY <1>1 DEF Entries
<1>3. Copies(f)
  BY <1>2 DEF Copies
<1> HIDE DEF f
<1>4. \A g \in queue' : g = f \/ g \in queue
  BY DEF SetStatus, Put, Without, f
<1> QED
  BY <1>3, <1>4, HonestKeeps DEF HonestInv

LEMMA HonestSession ==
  ASSUME HonestInv, UnlockOnline \/ RefusedUnlock \/ UnlockOffline \/ Lock \/ Reload
                    \/ ConnectionBack \/ Lose
  PROVE  HonestInv'
<1>1. TypeInv' /\ queue' = queue /\ queue \in SUBSET Entries
  BY SessionTyped, ReplayTyped DEF HonestInv, TypeInv, TypeOK, UnlockOnline, RefusedUnlock,
     UnlockOffline, Lock, Reload, ConnectionBack, Lose, browser
<1>2. replay' = replay \/ Calm' \/ \E s : replay' = Replayed(queue, s)
  BY DEF UnlockOnline, RefusedUnlock, UnlockOffline, Lock, Reload, ConnectionBack, Lose, Calm
<1>3. Calm' \/ Honest(replay'.e) \/ Copies(replay'.e)
  BY <1>1, <1>2, HonestStart DEF HonestInv, Calm
<1> QED
  BY <1>1, <1>3, HonestKeeps DEF HonestInv

LEMMA HonestEnqueue ==
  ASSUME HonestInv, NEW op \in {"create", "update", "delete"}, Enqueue(op)
  PROVE  HonestInv'
<1> DEFINE new == Incoming(op)
           old == {e \in Opened : e.status # "failed"}
<1>1. TypeInv' /\ UNCHANGED replay /\ queue \subseteq Entries
  BY EnqueueTyped DEF HonestInv, TypeInv, TypeOK, Enqueue
<1>2. Honest(new)
  BY DEF Honest, Incoming
<1>3. \A e \in Entries : Coalesce(e, new).base = e.base /\ Coalesce(e, new).seen = e.seen
  BY DEF Coalesce, Entries
<1> HIDE DEF new
<1>4. \A f \in queue' : Honest(f)
  <2>1. CASE queue' = queue \cup {new}
    BY <1>2, <2>1 DEF HonestInv
  <2>2. ASSUME NEW e \in old, queue' = Without(e.id) PROVE \A f \in queue' : Honest(f)
    BY <2>2 DEF HonestInv, Without
  <2>3. ASSUME NEW e \in old, queue' = Put(Coalesce(e, new)) PROVE \A f \in queue' : Honest(f)
    <3>1. Honest(Coalesce(e, new))
      BY <1>1, <1>3 DEF HonestInv, Opened, Honest
    <3> QED
      BY <2>3, <3>1 DEF HonestInv, Put, Without
  <2> QED
    BY <2>1, <2>2, <2>3 DEF Enqueue, new
<1> QED
  BY <1>1, <1>4 DEF HonestInv, Calm, Honest

LEMMA HonestReplay ==
  ASSUME HonestInv, Compare \/ Write \/ Receive \/ FanOut \/ FanOutFails
  PROVE  HonestInv'
<1>1. TypeInv' /\ ~Calm /\ replay \in Replays
  BY CompareTyped, WriteTyped, ReplayTyped
     DEF HonestInv, TypeInv, TypeOK, Compare, Write, Receive, FanOut, FanOutFails, Calm, Replays
<1>2. CASE Compare
  <2>1. replay'.e = replay.e /\ queue' = queue
    BY <1>1, <1>2 DEF Compare, Replays, browser
  <2> QED
    BY <1>1, <2>1 DEF HonestInv
<1>3. CASE Write
  <2>1. CASE UNCHANGED browser /\ replay' = [replay EXCEPT !.step = "answered"]
    <3>1. replay'.e = replay.e /\ queue' = queue
      BY <1>1, <2>1 DEF Replays, browser
    <3> QED
      BY <1>1, <3>1 DEF HonestInv
  <2>2. ASSUME NEW old \in Olds, Touch(old),
               replay' = [replay EXCEPT !.step = "answered", !.e = Older(replay.e, old)]
        PROVE  HonestInv'
    <3>1. replay'.e = Older(replay.e, old)
      BY <1>1, <2>2 DEF Replays
    <3> QED
      BY <1>1, <2>2, <3>1, HonestAges
  <2> QED
    BY <1>3, <2>1, <2>2 DEF Write
<1>4. CASE queue' \subseteq queue /\ (Calm' \/ replay'.e = replay.e)
  BY <1>1, <1>4 DEF HonestInv
<1>5. ASSUME NEW s, SetStatus(replay.e, s), replay' = Idle PROVE HonestInv'
  BY <1>1, <1>5, HonestStatus DEF Calm
<1>6. CASE Receive
  <2>1. CASE Drop(replay.e) /\ replay' = Idle
    BY <1>4, <2>1 DEF Drop, Without, Calm
  <2>2. CASE UNCHANGED queue /\ (replay' = Idle \/ replay' = [replay EXCEPT !.step = "fan"])
    BY <1>1, <1>4, <2>2 DEF Calm, Replays
  <2> QED
    BY <1>5, <1>6, <2>1, <2>2 DEF Receive
<1>7. CASE FanOut
  BY <1>4, <1>7 DEF FanOut, Drop, Without, Calm
<1>8. CASE FanOutFails
  BY <1>5, <1>8 DEF FanOutFails
<1> QED
  BY <1>2, <1>3, <1>6, <1>7, <1>8

LEMMA HonestChoice ==
  ASSUME HonestInv, Manifest \/ KeepServer \/ KeepMine \/ DiscardEntry \/ Reopen
                    \/ DiscardForeign \/ RotateHere
  PROVE  HonestInv'
<1>1. TypeInv' /\ queue \subseteq Entries /\ Opened \subseteq queue
  BY ManifestTyped, ChoiceTyped DEF HonestInv, TypeInv, TypeOK, Opened
<1>2. queue' \in SUBSET Entries
  BY <1>1 DEF TypeInv, TypeOK
<1>3. CASE queue' \subseteq queue /\ UNCHANGED replay
  BY <1>1, <1>3 DEF HonestInv, Calm, Honest
<1>4. CASE KeepMine
  <2>1. PICK e \in Opened :
          /\ queue' = Put([e EXCEPT !.base = shown[e.id], !.status = "queued",
                                    !.seen = shown[e.id] = "fresh"])
          /\ replay' = Replayed(queue', tab.suite) \/ replay' = replay
    BY <1>4 DEF KeepMine
  <2> DEFINE new == [e EXCEPT !.base = shown[e.id], !.status = "queued",
                              !.seen = shown[e.id] = "fresh"]
  <2>2. Honest(new)
    BY <1>1 DEF Entries, Honest
  <2> HIDE DEF new
  <2>3. \A f \in queue' : Honest(f)
    BY <2>1, <2>2 DEF HonestInv, Put, Without, new
  <2> QED
    BY <1>1, <1>2, <2>1, <2>3, HonestStart, HonestKeeps
<1>5. CASE Reopen
  <2>1. \A f \in queue' : \E e \in queue : f.base = e.base /\ f.seen = e.seen
    BY <1>1, <1>5 DEF Reopen, Entries
  <2>2. \A f \in queue' : Honest(f)
    BY <2>1 DEF HonestInv, Honest
  <2>3. replay' = Replayed(queue', tab.suite) \/ replay' = replay
    BY <1>5 DEF Reopen
  <2> QED
    BY <1>1, <1>2, <2>2, <2>3, HonestStart, HonestKeeps
<1>6. CASE Manifest \/ DiscardForeign \/ RotateHere
  BY <1>1, <1>3, <1>6 DEF Manifest, DiscardForeign, RotateHere
<1>7. CASE KeepServer \/ DiscardEntry
  BY <1>3, <1>7 DEF KeepServer, DiscardEntry, Drop, Without
<1> QED
  BY <1>4, <1>5, <1>6, <1>7

LEMMA HonestOthers ==
  ASSUME HonestInv,
         ChangeElsewhere \/ MoveElsewhere \/ ChangeAccess \/ RotateElsewhere \/ MigrationEnds
  PROVE  HonestInv'
<1>1. TypeInv'
  BY OthersTyped DEF HonestInv
<1>2. CASE ChangeElsewhere
  <2>1. PICK old \in Olds :
          /\ Touch(old)
          /\ replay' = IF Calm THEN Idle
                       ELSE [replay EXCEPT !.e = Older(@, old), !.current = Aged(@, old)]
    BY <1>2 DEF ChangeElsewhere
  <2>2. ~Calm => replay \in Replays
    BY DEF HonestInv, TypeInv, TypeOK, Calm, Replays
  <2>3. Calm' \/ (~Calm /\ replay'.e = Older(replay.e, old))
    BY <2>1, <2>2 DEF Calm, Replays
  <2> QED
    BY <1>1, <2>1, <2>3, HonestAges
<1>3. CASE UNCHANGED <<queue, replay>>
  BY <1>1, <1>3 DEF HonestInv, Calm, Honest
<1> QED
  BY <1>2, <1>3 DEF MoveElsewhere, ChangeAccess, RotateElsewhere, MigrationEnds, browser

LEMMA HonestStep == HonestInv /\ [Next]_vars => HonestInv'
<1> SUFFICES ASSUME HonestInv, [Next]_vars PROVE HonestInv'
  OBVIOUS
<1>1. CASE UNCHANGED vars
  <2>1. TypeInv'
    BY <1>1, TypeStep DEF HonestInv
  <2> QED
    BY <1>1, <2>1 DEF HonestInv, Calm, Honest, vars
<1> QED
  BY <1>1, HonestSession, HonestEnqueue, HonestReplay, HonestChoice, HonestOthers DEF Next

\* Whatever case is let in, and however often others save: what the comparison of
\* OfflineEditGuard lets through over a row the user did not see is a change without
\* a base ("mine" after a reload, or a secret whose creation the browser does not
\* know of), or one whose row was changed since within the second of its base.
THEOREM ComparisonCatches ==
  Spec => [][Compare /\ replay.e.op # "create" /\ replay'.got = "ok"
               => replay.e.seen \/ replay.e.base \in {"none", "same"}]_vars
<1>1. Init => HonestInv
  BY TypeInit DEF Init, HonestInv, Calm
<1>2. HonestInv /\ [Next]_vars
        => [Compare /\ replay.e.op # "create" /\ replay'.got = "ok"
              => replay.e.seen \/ replay.e.base \in {"none", "same"}]_vars
  <2> SUFFICES ASSUME HonestInv, Compare, replay.e.op # "create", replay'.got = "ok"
               PROVE  replay.e.seen \/ replay.e.base \in {"none", "same"}
    OBVIOUS
  <2>1. replay \in Replays /\ replay.e \in Entries
    BY DEF Compare, HonestInv, TypeInv, TypeOK, Replays
  <2>2. Answer(replay.e) = "ok"
    BY <2>1 DEF Compare, Replays
  <2>3. replay.e.base # "stale"
    BY <2>2 DEF Answer
  <2>4. Honest(replay.e)
    BY DEF HonestInv, Compare, Calm
  <2> QED
    BY <2>1, <2>3, <2>4 DEF Honest, Entries, Versions, Olds
<1> QED
  BY <1>1, <1>2, HonestStep, PTL DEF Spec
=============================================================================
