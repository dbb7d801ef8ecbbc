------------------------ MODULE FederatedShareProofs ------------------------
(***************************************************************************)
(* Theorems about FederatedShare, for any number of processes, shares and   *)
(* requests, whatever is lost and whichever process dies.  Each names the   *)
(* pairs of program points it needs apart; all are in the Apart of the runs. *)
(***************************************************************************)
EXTENDS FederatedShare, TLAPS

Both(P, Q) == {{p, q} : p \in P, q \in Q}

\* An acceptance is apart from what ends the offer, a restore from the answer
\* to a revocation.
ForgetApart ==
  Both({"accept", "fetched"}, {"unshare", "announced"})
    \cup Both({"restore", "resume", "back"}, {"answered"})

\* An acceptance is apart from a decline and from another acceptance, a restore
\* from what is said of the decline.
ServedApart ==
  Both({"accept", "fetched"}, {"decline", "accept"})
    \cup Both({"restore", "resume", "back"}, {"apply", "tell", "settle"})

\* No two workers are at a pair of points in A.
Separate(A) == \A v, w \in Workers : v # w => {h[v].at, h[w].at} \notin A

Accepting(w) == h[w].at \in {"accept", "fetched"}
Restoring(w) == h[w].at \in {"restore", "resume", "back"}
Offering(w)  == h[w].at \in {"announce", "announced"}
Unsharing(w) == h[w].at = "answered" /\ h[w].y.pend = "unshared"

\* What a worker holds at each of its points.
FrameOK(f) ==
  /\ f.at \in {"idle", "create"} => f = [Idle EXCEPT !.at = f.at]
  /\ f.at \notin {"idle", "create"} => f.s \in Shares
  /\ f.at \in {"accept", "fetched", "decline"} \/ f.k = "decline" => f.z.st = "pending"
  /\ f.at \in {"trash", "purge"} => f.k = f.at
  /\ f.at = "unshare" => f.z.st \notin {"none", "revoked"}
  /\ f.at \in {"restore", "resume", "back"} => f.z.st = "declined" /\ f.z.linked
  /\ f.at = "resume" => f.o.st = "declined"
  /\ f.at \in {"send", "apply", "unshare", "answered"} => f.k = "notify"
  /\ f.k = "notify" => \/ f.at \in {"send", "unshare", "answered"}
                       \/ f.y.pend # "unshared" /\ f.at \in {"apply", "pulled", "tell", "settle"}

\* What is sent, or about to be, may be tried again, and only revokes the share.
AttemptOK(f) ==
  /\ f.y.st \in {f.x.st, "revoked"}
  /\ f.at \in {"update", "revoke"} => f.y.tries = f.x.tries /\ f.y.due = f.x.due
  /\ f.k = "notify" => f.y.tries = 0 \/ (f.x.due /\ f.y.tries < MaxAttempts)

\* A notification that is due was not yet sent as often as it may be.
TypeInv ==
  /\ TypeOK
  /\ \A w \in Workers : FrameOK(h[w]) /\ AttemptOK(h[w])
  /\ \A s \in Shares : out[s].due => out[s].tries < MaxAttempts

\* A share that is being offered is its request's alone, and not known yet.
NumberInv ==
  /\ \A s \in Shares : s > n => out[s] = NoOut /\ inb[s] = NoInb /\ copy[s] = NoCopy
  /\ \A w \in Workers : /\ h[w].s <= n
                        /\ h[w].z.st # "none" => inb[h[w].s].st # "none"
                        /\ h[w].at = "announce" => inb[h[w].s].st = "none"
  /\ \A v, w \in Workers : v # w /\ Offering(v) /\ Offering(w) => h[v].s # h[w].s
  /\ \A s \in Shares : inb[s].linked => inb[s].st # "none"

\* Who is about to accept a share has it from an owner who still knows it; who
\* is about to forget one knows that it is not accepted, nor about to be.
ForgetSteps ==
  /\ Separate(ForgetApart)
  /\ \A w \in Workers :
       LET s == h[w].s IN
       /\ h[w].at \in {"fetched", "resume", "back"} => out[s].st # "none"
       /\ h[w].at = "unshare" => (inb[s].linked => h[w].z.linked)
       /\ h[w].at = "announced" => inb[s].st # "accepted" /\ ~inb[s].linked
       /\ Unsharing(w) => inb[s].st \in {"declined", "revoked"} /\ ~inb[s].linked
  /\ \A v, w \in Workers : h[v].s = h[w].s =>
       /\ h[v].at = "announced" => ~Restoring(w)
       /\ Unsharing(v) => ~Accepting(w)
  /\ \A s \in Shares : out[s].st = "none" => inb[s].st # "accepted"

ForgetInv == TypeInv /\ NumberInv /\ ForgetSteps

Over(st) == st \in {"declined", "revoked"}

\* What is declined, or about to be, is neither accepted nor about to be.
ServedSteps ==
  /\ Separate(ServedApart)
  /\ \A s \in Shares : out[s].st = "declined" => Over(inb[s].st)
  /\ \A w \in Workers :
       LET s == h[w].s IN
       /\ h[w].at \in {"tell", "settle"} => Over(inb[s].st)
       /\ h[w].at = "apply" /\ h[w].z.st = "declined" => Over(inb[s].st)
       /\ h[w].at = "back" => out[s].st # "declined"
       /\ Accepting(w) => inb[s].st \in {"pending", "revoked"} /\ out[s].st # "declined"
       /\ s \in Shares /\ inb[s].st = "pending" => h[w].z.st \in {"none", "pending"}
  /\ \A v, w \in Workers : v # w => ~(Accepting(v) /\ Accepting(w))
  /\ \A v, w \in Workers : h[v].s = h[w].s /\ Accepting(v) =>
       /\ h[w].z.st \in {"none", "pending", "revoked"}
       /\ h[w].at \notin {"tell", "settle"}

ServedInv == TypeInv /\ NumberInv /\ ServedSteps

-----------------------------------------------------------------------------
(* Rows and frames. *)

LEMMA RowFields ==
  ASSUME NEW r \in OutRows
  PROVE  /\ r.st \in {"none", "active", "suspended", "revoked", "declined", "failed"}
         /\ r.pend \in {"none", "updated", "unshared"} /\ r.tries \in 0..MaxAttempts
         /\ r.due \in BOOLEAN /\ r.val \in Vals \cup {0}
  BY DEF OutRows

LEMMA FrameFields ==
  ASSUME NEW f \in Frames
  PROVE  /\ f.at \in Points /\ f.k \in Tasks /\ f.s \in 0..MaxShares /\ f.x \in OutRows
         /\ f.y \in OutRows /\ f.z \in InbRows /\ f.v \in Vals \cup {0} /\ f.o \in OutRows
  BY DEF Frames

LEMMA EmptyRows ==
  /\ NoOut \in OutRows /\ NoInb \in InbRows /\ NoCopy \in Copies /\ 0 \in 0..MaxShares
  /\ NoOut.st = "none" /\ NoOut.pend = "none" /\ NoOut.tries = 0 /\ NoOut.due = FALSE
  /\ NoInb.st = "none" /\ NoInb.linked = FALSE /\ NoCopy.val = 0 /\ NoCopy.trash = FALSE
<1>1. 0 \in 0..MaxAttempts /\ 0 \in 0..MaxShares
  BY SharesAssumption, AttemptsAssumption
<1> QED
  BY <1>1 DEF NoOut, NoInb, NoCopy, OutRows, InbRows, Copies

LEMMA IdleFrame ==
  /\ Idle \in Frames /\ Idle.at = "idle" /\ Idle.k = "none" /\ Idle.s = 0 /\ Idle.z = NoInb
  /\ Idle.x = NoOut /\ Idle.y = NoOut /\ Idle.o = NoOut /\ Idle.v = 0
  /\ FrameOK(Idle) /\ AttemptOK(Idle)
<1>1. /\ Idle \in Frames /\ Idle.at = "idle" /\ Idle.k = "none" /\ Idle.s = 0 /\ Idle.z = NoInb
      /\ Idle.x = NoOut /\ Idle.y = NoOut /\ Idle.o = NoOut /\ Idle.v = 0
  BY EmptyRows DEF Idle, Frames, Points, Tasks
<1>2. Idle = [Idle EXCEPT !.at = Idle.at]
  BY <1>1 DEF Frames
<1> QED
  BY <1>1, <1>2, EmptyRows DEF FrameOK, AttemptOK

\* update() keeps what the handler did not assign.
LEMMA MergedOf ==
  ASSUME NEW r \in OutRows, NEW x \in OutRows, NEW y \in OutRows
  PROVE  LET m == Merged(r, x, y) IN
         /\ m \in OutRows
         /\ r.st = "none" => m = r
         /\ r.st # "none" => /\ m.st = Put(r.st, x.st, y.st) /\ m.tries = Put(r.tries, x.tries, y.tries)
                             /\ m.due = Put(r.due, x.due, y.due)
  BY RowFields DEF Merged, OutRows, Put

\* What a notification writes revokes the share, if anything.
LEMMA MergedAttempt ==
  ASSUME NEW r \in OutRows, NEW x \in OutRows, NEW y \in OutRows, y.st \in {x.st, "revoked"}
  PROVE  LET m == Merged(r, x, y) IN
         /\ m \in OutRows
         /\ m.st \in {r.st, "revoked"}
         /\ m.st = "none" <=> r.st = "none"
         /\ y.due = x.due => m.due = r.due
         /\ y.tries = x.tries => m.tries = r.tries
  BY MergedOf, RowFields DEF Put

LEMMA StepOf ==
  ASSUME h \in [Workers -> Frames], NEW w \in Workers, NEW p, NEW new, Step(w, p, new)
  PROVE  /\ h[w].at = p /\ h'[w] = new
         /\ \A v \in Workers : v # w => h'[v] = h[v] /\ {new.at, h[v].at} \notin Conflicts
  BY DEF Step

-----------------------------------------------------------------------------
(* How a worker moves. *)

\* A request begins, with the row it has loaded.
Enters(w) ==
  LET g == h'[w] IN
  /\ h[w].at = "idle" /\ n' = n
  /\ \/ g = [Idle EXCEPT !.at = "create"] /\ \A s \in Shares : out[s].st # "active"
     \/ g.at \in {"update", "revoke", "suspend", "send"} /\ g.z = NoInb /\ out[g.s] # NoOut
     \/ /\ g.at \in {"accept", "decline", "trash", "purge", "restore"} /\ g.z = inb[g.s]
        /\ inb[g.s] # NoInb \/ copy[g.s] # NoCopy
        /\ g.at \in {"accept", "decline"} => inb[g.s].st = "pending"
        /\ g.at = "restore" => inb[g.s].st = "declined" /\ inb[g.s].linked

\* The new share is offered.
Offers(w) ==
  /\ h[w].at = "create" /\ n < MaxShares /\ n' = n + 1
  /\ h'[w] = [Idle EXCEPT !.at = "announce", !.s = n + 1]

\* The recipient's server has loaded the row the notification is about.
Arrives(w) ==
  LET f == h[w]
      g == h'[w] IN
  /\ f.at = "send" /\ g.at \in {"unshare", "apply"} /\ n' = n
  /\ g.s = f.s /\ g.z = inb[f.s] /\ inb[f.s].st \notin {"none", "revoked"}

\* A request goes on with what it holds.
Goes(w) ==
  LET f == h[w]
      g == h'[w] IN
  /\ f.at \notin {"idle", "create"} /\ g.s = f.s /\ g.z = f.z /\ n' = n
  /\ \/ g.at \in {"send", "pulled", "done", "resumed"}
     \/ g.at = "announced" /\ f.at = "announce"
     \/ g.at = "answered" /\ (g.y.pend = "unshared" => f.at = "unshare")
     \/ g.at = "fetched" /\ f.at = "accept" /\ out[f.s].st = "active"
     \/ g.at = "tell" /\ f.at = "apply" /\ f.z.st = "declined"
     \/ /\ g.at = "tell" /\ inb'[f.s].st = "declined"
        /\ f.at = "decline" \/ (f.at \in {"trash", "purge"} /\ f.z.st = "accepted")
     \/ g.at = "settle" /\ f.at = "tell"
     \/ g.at = "back" /\ ((f.at = "restore" /\ out[f.s].st = "active") \/ f.at = "resume")
     \/ /\ g.at = "resume" /\ f.at = "restore" /\ out[f.s].st = "declined"
        /\ \A t \in Shares \ {f.s} : out[t].st # "active"

\* What every step of a worker does with the frames.
Motion(w) ==
  /\ h'[w] \in Frames /\ FrameOK(h'[w]) /\ AttemptOK(h'[w])
  /\ \A v \in Workers : v # w => h'[v] = h[v]
  /\ \/ h'[w] = Idle /\ n' = n
     \/ /\ Enters(w) \/ Offers(w) \/ Arrives(w) \/ Goes(w)
        /\ \A v \in Workers : v # w => {h'[w].at, h[v].at} \notin Conflicts

LEMMA RestsMotion ==
  ASSUME h \in [Workers -> Frames], NEW w \in Workers, NEW p, Step(w, p, Idle), n' = n
  PROVE  Motion(w)
<1>1. h'[w] = Idle /\ \A v \in Workers : v # w => h'[v] = h[v]
  BY StepOf
<1> QED
  BY <1>1, IdleFrame DEF Motion

LEMMA BeginMotion ==
  ASSUME TypeInv, NEW w \in Workers, NEW s \in Shares,
         NEW k \in {"accept", "decline", "trash", "purge", "restore"},
         Begin(w, s, k, k), n' = n,
         inb[s] # NoInb \/ copy[s] # NoCopy,
         k \in {"accept", "decline"} => inb[s].st = "pending",
         k = "restore" => inb[s].st = "declined" /\ inb[s].linked
  PROVE  Motion(w)
<1> DEFINE new == [Idle EXCEPT !.at = k, !.k = k, !.s = s, !.z = inb[s]]
<1>1. /\ inb[s] \in InbRows /\ s \in 0..MaxShares /\ k \in Points /\ k \in Tasks
      /\ h \in [Workers -> Frames]
  BY DEF TypeInv, TypeOK, Shares, Points, Tasks
<1>2. /\ new \in Frames /\ new.at = k /\ new.k = k /\ new.s = s /\ new.z = inb[s]
      /\ new.x = NoOut /\ new.y = NoOut
  BY <1>1, IdleFrame DEF Frames
<1>3. Step(w, "idle", new)
  BY DEF Begin
<1> HIDE DEF new
<1>4. /\ h[w].at = "idle" /\ h'[w] = new
      /\ \A v \in Workers : v # w => h'[v] = h[v] /\ {new.at, h[v].at} \notin Conflicts
  BY <1>1, <1>3, StepOf
<1>5. FrameOK(new) /\ AttemptOK(new)
  BY <1>2, EmptyRows DEF FrameOK, AttemptOK
<1>6. Enters(w)
  BY <1>2, <1>4 DEF Enters
<1> QED
  BY <1>2, <1>4, <1>5, <1>6 DEF Motion

LEMMA NotifyMotion ==
  ASSUME TypeInv, NEW w \in Workers, NEW s \in Shares, out[s] # NoOut, n' = n,
         NEW x \in OutRows, NEW y \in OutRows, NEW p \in {"update", "revoke", "suspend", "send"},
         NEW k \in {"none", "notify"}, p = "send" <=> k = "notify", y.st \in {x.st, "revoked"},
         p \in {"update", "revoke"} => y.tries = x.tries /\ y.due = x.due,
         k = "notify" => y.tries = 0 \/ (x.due /\ y.tries < MaxAttempts),
         Step(w, "idle", [Idle EXCEPT !.at = p, !.k = k, !.s = s, !.x = x, !.y = y])
  PROVE  Motion(w)
<1> DEFINE new == [Idle EXCEPT !.at = p, !.k = k, !.s = s, !.x = x, !.y = y]
<1>1. /\ s \in 0..MaxShares /\ p \in Points /\ k \in Tasks /\ h \in [Workers -> Frames]
  BY DEF TypeInv, TypeOK, Shares, Points, Tasks
<1>2. /\ new \in Frames /\ new.at = p /\ new.k = k /\ new.s = s /\ new.z = NoInb
      /\ new.x = x /\ new.y = y
  BY <1>1, IdleFrame DEF Frames
<1>3. Step(w, "idle", new)
  OBVIOUS
<1> HIDE DEF new
<1>4. /\ h[w].at = "idle" /\ h'[w] = new
      /\ \A v \in Workers : v # w => h'[v] = h[v] /\ {new.at, h[v].at} \notin Conflicts
  BY <1>1, <1>3, StepOf
<1>5. FrameOK(new) /\ AttemptOK(new)
  BY <1>2, EmptyRows DEF FrameOK, AttemptOK
<1>6. Enters(w)
  BY <1>2, <1>4 DEF Enters
<1> QED
  BY <1>2, <1>4, <1>5, <1>6 DEF Motion

\* Worker w, at point p, may go on to point q with the same row loaded.
MayGo(w, p, q) ==
  LET f == h[w] IN
  /\ p \notin {"idle", "create"} /\ n' = n
  /\ \/ q = "announced" /\ p = "announce"
     \/ q = "answered" /\ f.k = "notify" /\ (p = "unshare" \/ f.y.pend # "unshared")
     \/ q = "pulled" /\ (p = "apply" \/ f.k # "notify")
     \/ q \in {"done", "resumed"} /\ f.k # "notify"
     \/ q = "fetched" /\ p = "accept" /\ out[f.s].st = "active"
     \/ q = "tell" /\ p = "apply" /\ f.z.st = "declined"
     \/ /\ q = "tell" /\ inb'[f.s].st = "declined"
        /\ p = "decline" \/ (p \in {"trash", "purge"} /\ f.z.st = "accepted")
     \/ q = "settle" /\ p = "tell"
     \/ q = "back" /\ ((p = "restore" /\ out[f.s].st = "active") \/ p = "resume")
     \/ /\ q = "resume" /\ p = "restore" /\ out[f.s].st = "declined"
        /\ \A t \in Shares \ {f.s} : out[t].st # "active"

LEMMA GoesMotion ==
  ASSUME TypeInv, NEW w \in Workers, NEW p, NEW q, NEW new \in Frames, Step(w, p, new),
         new.at = q, new.k = h[w].k, new.s = h[w].s, new.x = h[w].x, new.y = h[w].y,
         new.z = h[w].z, MayGo(w, p, q), q = "resume" => new.o.st = "declined"
  PROVE  Motion(w)
<1>1. /\ h[w] \in Frames /\ FrameOK(h[w]) /\ AttemptOK(h[w]) /\ h \in [Workers -> Frames]
  BY DEF TypeInv, TypeOK
<1>2. /\ h[w].at = p /\ h'[w] = new
      /\ \A v \in Workers : v # w => h'[v] = h[v] /\ {new.at, h[v].at} \notin Conflicts
  BY <1>1, StepOf
<1>3. AttemptOK(new)
  BY <1>1 DEF AttemptOK, MayGo
<1>4. FrameOK(new)
  BY <1>1, <1>2 DEF FrameOK, MayGo
<1>5. Goes(w)
  BY <1>2 DEF Goes, MayGo
<1> QED
  BY <1>2, <1>3, <1>4, <1>5 DEF Motion

LEMMA MoveMotion ==
  ASSUME TypeInv, NEW w \in Workers, NEW p, NEW q \in Points, Move(w, p, q), MayGo(w, p, q),
         q # "resume"
  PROVE  Motion(w)
<1>1. h[w] \in Frames
  BY DEF TypeInv, TypeOK
<1> DEFINE new == [h[w] EXCEPT !.at = q]
<1>2. Step(w, p, new)
  BY DEF Move
<1>3. /\ new \in Frames /\ new.at = q /\ new.k = h[w].k /\ new.s = h[w].s /\ new.x = h[w].x
      /\ new.y = h[w].y /\ new.z = h[w].z
  BY <1>1 DEF Frames
<1> HIDE DEF new
<1> QED
  BY <1>2, <1>3, GoesMotion

\* ... and with a value pulled or a row of the owner loaded.
LEMMA HoldMotion ==
  ASSUME TypeInv, NEW w \in Workers, NEW p, NEW q \in Points, MayGo(w, p, q),
         NEW o \in OutRows, NEW v \in Vals \cup {0},
         \/ Step(w, p, [h[w] EXCEPT !.at = q, !.o = o]) /\ (q = "resume" => o.st = "declined")
         \/ Step(w, p, [h[w] EXCEPT !.at = q, !.v = v]) /\ q # "resume"
  PROVE  Motion(w)
<1>1. h[w] \in Frames
  BY DEF TypeInv, TypeOK
<1>2. ASSUME NEW new \in {[h[w] EXCEPT !.at = q, !.o = o], [h[w] EXCEPT !.at = q, !.v = v]},
             Step(w, p, new), q = "resume" => new.o.st = "declined"
      PROVE  Motion(w)
  <2>1. /\ new \in Frames /\ new.at = q /\ new.k = h[w].k /\ new.s = h[w].s /\ new.x = h[w].x
        /\ new.y = h[w].y /\ new.z = h[w].z
    BY <1>1 DEF Frames
  <2> QED
    BY <1>2, <2>1, GoesMotion
<1>3. [h[w] EXCEPT !.at = q, !.o = o].o = o
  BY <1>1 DEF Frames
<1> QED
  BY <1>2, <1>3

-----------------------------------------------------------------------------
(* How the rows change. *)

OutMove(w, s) ==
  \/ s = n + 1 /\ h[w].at = "create" /\ h'[w].at = "announce" /\ out'[s].st = "active"
  \/ /\ s = h[w].s /\ out'[s] = NoOut
     /\ Offering(w) \/ Unsharing(w) \/ out[s].st = "none"
  \/ /\ s = h[w].s /\ out[s].st # "none" /\ out'[s].st # "none"
     /\ \/ out'[s].st \in {out[s].st, "revoked", "suspended", "failed"}
        \/ h[w].at = "settle" /\ out'[s].st = "declined"
        \/ h[w].at = "resume" /\ out'[s].st = "active"

OutMoves(w) ==
  /\ out' \in [Shares -> OutRows]
  /\ \A s \in Shares : out'[s].due => out'[s].tries < MaxAttempts
  /\ \A s \in Shares : out'[s] = out[s] \/ OutMove(w, s)

InbMove(w, s) ==
  LET f == h[w]
      r == inb[s]
      r1 == inb'[s] IN
  /\ s = f.s
  /\ \/ f.at = "announce" /\ r1.st = "pending" /\ r1.linked = r.linked
     \/ /\ f.at = "unshare" /\ h'[w].at = "answered" /\ r1.st = "revoked"
        /\ r1.linked => r.linked /\ ~f.z.linked
     \/ f.at = "fetched" /\ r1.st = "accepted"
     \/ /\ h'[w].at = "tell" /\ r1.st = "declined" /\ r1.linked = r.linked
        /\ f.at = "decline" \/ (f.at \in {"trash", "purge"} /\ f.z.st = "accepted")
     \/ f.at = "back" /\ r1.st = "accepted" /\ r1.linked = r.linked
     \/ f.at = "restore" /\ r1.st = "revoked" /\ r1.linked = r.linked
     \/ f.at = "done" /\ r1.st = r.st /\ ~r1.linked

InbMoves(w) ==
  /\ inb' \in [Shares -> InbRows] /\ copy' \in [Shares -> Copies]
  /\ \A s \in Shares : copy'[s] = copy[s] \/ copy[s] # NoCopy \/ s = h[w].s
  /\ \A s \in Shares : inb'[s] = inb[s] \/ InbMove(w, s)
  /\ h[w].at = "unshare" /\ h'[w].at = "answered" =>
       inb'[h[w].s].st = "revoked" /\ (inb'[h[w].s].linked => inb[h[w].s].linked /\ ~h[w].z.linked)
  /\ h[w].at = "announce" /\ h'[w].at = "announced" =>
       inb'[h[w].s].st = "pending" /\ inb'[h[w].s].linked = inb[h[w].s].linked

Moves(w) == Motion(w) /\ OutMoves(w) /\ InbMoves(w) /\ reqs' \in 0..MaxRequests

LEMMA OutSame ==
  ASSUME TypeInv, NEW w \in Workers, out' = out
  PROVE  OutMoves(w)
  BY DEF TypeInv, TypeOK, OutMoves

LEMMA InbSame ==
  ASSUME TypeInv, NEW w \in Workers, inb' = inb, copy' = copy,
         h[w].at \notin {"unshare", "announce"} \/ h'[w] = Idle
  PROVE  InbMoves(w)
<1>1. Idle.at = "idle"
  BY IdleFrame
<1> QED
  BY <1>1 DEF TypeInv, TypeOK, InbMoves

LEMMA AskOf ==
  ASSUME TypeInv, Ask \/ reqs' = reqs
  PROVE  reqs' \in 0..MaxRequests
  BY SharesAssumption DEF TypeInv, TypeOK, Ask

LEMMA OutWrite ==
  ASSUME TypeInv, NEW w \in Workers, NEW s \in Shares, NEW r \in OutRows,
         s = h[w].s \/ s = n + 1,
         out' = [out EXCEPT ![s] = r], r.due => r.tries < MaxAttempts,
         r = out[s] \/ (out'[s] = r => OutMove(w, s))
  PROVE  OutMoves(w)
<1>1. /\ out' \in [Shares -> OutRows] /\ out'[s] = r
      /\ \A t \in Shares : t # s => out'[t] = out[t]
  BY DEF TypeInv, TypeOK
<1> QED
  BY <1>1 DEF OutMoves, TypeInv

LEMMA RequestsIdle ==
  ASSUME NEW w \in Workers, Requests(w)
  PROVE  h[w].at = "idle"
<1>1. ASSUME NEW new, Step(w, "idle", new) PROVE h[w].at = "idle"
  BY <1>1 DEF Step
<1>2. ASSUME NEW s \in Shares, NEW k, NEW p, Begin(w, s, k, p) PROVE h[w].at = "idle"
  BY <1>1, <1>2 DEF Begin
<1>3. CASE Create(w)
  BY <1>1, <1>3 DEF Create, Move
<1> QED
  BY <1>1, <1>2, <1>3 DEF Requests, Update, DetailsChanged, Revoke, Suspend, Retry, Accept,
     Decline, Trash, Purge, Restore

LEMMA RequestsMove ==
  ASSUME TypeInv, NEW w \in Workers, Requests(w)
  PROVE  Moves(w)
<1>0. h \in [Workers -> Frames] /\ out \in [Shares -> OutRows] /\ n' = n
  BY DEF TypeInv, TypeOK, Requests, Create, Update, DetailsChanged, Revoke, Suspend, Retry, Accept,
         Decline, Trash, Purge, Restore, counts
<1>1. h[w].at = "idle"
  BY RequestsIdle
<1>2. reqs' \in 0..MaxRequests
  <2>1. Ask \/ reqs' = reqs
    BY DEF Requests, Create, Update, DetailsChanged, Revoke, Suspend, Retry, Accept,
       Decline, Trash, Purge, Restore, Begin, counts
  <2> QED
    BY <2>1, AskOf
<1>3. OutMoves(w)
  <2>1. out' = out
    BY DEF Requests, Create, Update, DetailsChanged, Revoke, Suspend, Retry, Accept,
       Decline, Trash, Purge, Restore
  <2> QED
    BY <2>1, OutSame
<1>4. InbMoves(w)
  <2>1. CASE \E s \in Shares : Restore(w, s)
    <3>1. PICK s \in Shares : Restore(w, s)
      BY <2>1
    <3>2. copy[s] # NoCopy /\ inb' = inb /\ copy' = [copy EXCEPT ![s].trash = FALSE]
      BY <3>1, EmptyRows DEF Restore
    <3>3. inb' \in [Shares -> InbRows] /\ copy \in [Shares -> Copies]
      BY <3>2 DEF TypeInv, TypeOK
    <3>4. [copy[s] EXCEPT !.trash = FALSE] \in Copies
      BY <3>3 DEF Copies
    <3>5. /\ copy' \in [Shares -> Copies]
          /\ \A t \in Shares : copy'[t] = copy[t] \/ copy[t] # NoCopy
      BY <3>2, <3>3, <3>4
    <3> QED
      BY <1>1, <3>2, <3>3, <3>5 DEF InbMoves
  <2>2. CASE ~\E s \in Shares : Restore(w, s)
    <3>1. inb' = inb /\ copy' = copy
      BY <2>2 DEF Requests, Create, Update, DetailsChanged, Revoke, Suspend, Retry, Accept,
         Decline, Trash, Purge, theirs
    <3> QED
      BY <1>1, <3>1, InbSame
  <2> QED
    BY <2>1, <2>2
<1>5. Motion(w)
  <2>1. CASE Create(w)
    <3> DEFINE new == [Idle EXCEPT !.at = "create"]
    <3>1. h[w] = Idle
      <4>1. FrameOK(h[w]) /\ h[w].at = "idle" /\ Idle = [Idle EXCEPT !.at = "idle"]
        BY <1>1, IdleFrame DEF TypeInv, Frames
      <4> QED
        BY <4>1 DEF FrameOK
    <3>2. new \in Frames /\ new.at = "create" /\ new.z = NoInb /\ new.k = "none" /\ new.x = NoOut
          /\ new.y = NoOut
      BY IdleFrame DEF Frames, Points
    <3>3. Step(w, "idle", new)
      BY <2>1, <3>1 DEF Create, Move
    <3>4. new = [Idle EXCEPT !.at = new.at]
      BY <3>2
    <3> HIDE DEF new
    <3>5. FrameOK(new) /\ AttemptOK(new)
      BY <3>2, <3>4, EmptyRows DEF FrameOK, AttemptOK
    <3>6. /\ h'[w] = new
          /\ \A v \in Workers : v # w => h'[v] = h[v] /\ {new.at, h[v].at} \notin Conflicts
      BY <1>0, <3>3, StepOf
    <3>7. Enters(w)
      BY <1>0, <1>1, <2>1, <3>2, <3>4, <3>6 DEF Enters, Create
    <3> QED
      BY <3>2, <3>5, <3>6, <3>7 DEF Motion
  <2>2. ASSUME NEW s \in Shares, Update(w, s) PROVE Motion(w)
    <3> DEFINE y == [out[s] EXCEPT !.val = reqs + 2]
    <3>1. out[s] \in OutRows /\ out[s] # NoOut /\ reqs + 2 \in Vals
      BY <1>0, <2>2, EmptyRows, SharesAssumption DEF Update, Ask, TypeInv, TypeOK, Vals
    <3>2. y \in OutRows /\ y.st = out[s].st /\ y.tries = out[s].tries /\ y.due = out[s].due
      BY <3>1 DEF OutRows
    <3>3. [Idle EXCEPT !.at = "update", !.k = "none", !.s = s, !.x = out[s], !.y = y]
            = [Idle EXCEPT !.at = "update", !.s = s, !.x = out[s], !.y = y]
      BY IdleFrame DEF Frames
    <3>4. Step(w, "idle", [Idle EXCEPT !.at = "update", !.k = "none", !.s = s, !.x = out[s], !.y = y])
      BY <2>2, <3>3 DEF Update
    <3> HIDE DEF y
    <3> QED
      BY <1>0, <3>1, <3>2, <3>4, NotifyMotion
  <2>3. ASSUME NEW s \in Shares, DetailsChanged(w, s) PROVE Motion(w)
    <3> DEFINE y == Delivering(out[s], "updated")
    <3>1. out[s] \in OutRows /\ out[s] # NoOut /\ 0 \in 0..MaxAttempts
      BY <1>0, <2>3, EmptyRows, AttemptsAssumption DEF DetailsChanged
    <3>2. y \in OutRows /\ y.st = out[s].st /\ y.tries = 0
      BY <3>1 DEF OutRows, Delivering
    <3>3. Step(w, "idle", [Idle EXCEPT !.at = "send", !.k = "notify", !.s = s, !.x = out[s], !.y = y])
      BY <2>3 DEF DetailsChanged
    <3> HIDE DEF y
    <3> QED
      BY <1>0, <3>1, <3>2, <3>3, NotifyMotion
  <2>4. ASSUME NEW s \in Shares, Revoke(w, s) PROVE Motion(w)
    <3> DEFINE y == [out[s] EXCEPT !.st = "revoked"]
    <3>1. out[s] \in OutRows /\ out[s] # NoOut
      BY <1>0, <2>4, EmptyRows DEF Revoke
    <3>2. y \in OutRows /\ y.st = "revoked" /\ y.tries = out[s].tries /\ y.due = out[s].due
      BY <3>1 DEF OutRows
    <3>3. [Idle EXCEPT !.at = "revoke", !.k = "none", !.s = s, !.x = out[s], !.y = y]
            = [Idle EXCEPT !.at = "revoke", !.s = s, !.x = out[s], !.y = y]
      BY IdleFrame DEF Frames
    <3>4. Step(w, "idle", [Idle EXCEPT !.at = "revoke", !.k = "none", !.s = s, !.x = out[s], !.y = y])
      BY <2>4, <3>3 DEF Revoke
    <3> HIDE DEF y
    <3> QED
      BY <1>0, <3>1, <3>2, <3>4, NotifyMotion
  <2>5. ASSUME NEW s \in Shares, Suspend(w, s) PROVE Motion(w)
    <3>1. out[s] # NoOut /\ NoOut \in OutRows /\ NoOut.st \in {NoOut.st, "revoked"}
      BY <2>5, EmptyRows DEF Suspend
    <3>2. [Idle EXCEPT !.at = "suspend", !.k = "none", !.s = s, !.x = NoOut, !.y = NoOut]
            = [Idle EXCEPT !.at = "suspend", !.s = s]
      BY IdleFrame DEF Frames
    <3>3. Step(w, "idle", [Idle EXCEPT !.at = "suspend", !.k = "none", !.s = s, !.x = NoOut, !.y = NoOut])
      BY <2>5, <3>2 DEF Suspend
    <3> QED
      BY <1>0, <3>1, <3>3, NotifyMotion
  <2>6. ASSUME NEW s \in Shares, Retry(w, s) PROVE Motion(w)
    <3>1. /\ out[s] \in OutRows /\ out[s] # NoOut /\ out[s].due /\ out[s].tries < MaxAttempts
          /\ Step(w, "idle", [Idle EXCEPT !.at = "send", !.k = "notify", !.s = s,
                                          !.x = out[s], !.y = out[s]])
      BY <1>0, <2>6, EmptyRows DEF Retry, TypeInv
    <3>2. out[s].st \in {out[s].st, "revoked"}
      OBVIOUS
    <3> QED
      BY <1>0, <3>1, <3>2, NotifyMotion
  <2>7. ASSUME NEW s \in Shares, Accept(w, s) PROVE Motion(w)
    <3>1. Begin(w, s, "accept", "accept") /\ inb[s].st = "pending" /\ inb[s] # NoInb
      BY <2>7, EmptyRows DEF Accept
    <3> QED
      BY <1>0, <3>1, BeginMotion
  <2>8. ASSUME NEW s \in Shares, Decline(w, s) PROVE Motion(w)
    <3>1. Begin(w, s, "decline", "decline") /\ inb[s].st = "pending" /\ inb[s] # NoInb
      BY <2>8, EmptyRows DEF Decline
    <3> QED
      BY <1>0, <3>1, BeginMotion
  <2>9. ASSUME NEW s \in Shares, Trash(w, s) PROVE Motion(w)
    <3>1. Begin(w, s, "trash", "trash") /\ copy[s] # NoCopy
      BY <2>9, EmptyRows DEF Trash
    <3> QED
      BY <1>0, <3>1, BeginMotion
  <2>10. ASSUME NEW s \in Shares, Purge(w, s) PROVE Motion(w)
    <3>1. Begin(w, s, "purge", "purge") /\ copy[s] # NoCopy
      BY <2>10, EmptyRows DEF Purge
    <3> QED
      BY <1>0, <3>1, BeginMotion
  <2>11. ASSUME NEW s \in Shares, Restore(w, s) PROVE Motion(w)
    <3>1. CASE inb[s].linked /\ inb[s].st = "declined"
      <4>1. Begin(w, s, "restore", "restore") /\ copy[s] # NoCopy
        BY <2>11, <3>1, EmptyRows DEF Restore
      <4> QED
        BY <1>0, <3>1, <4>1, BeginMotion
    <3>2. CASE ~(inb[s].linked /\ inb[s].st = "declined")
      BY <1>0, <2>11, <3>2, RestsMotion DEF Restore
    <3> QED
      BY <3>1, <3>2
  <2> QED
    BY <2>1, <2>2, <2>3, <2>4, <2>5, <2>6, <2>7, <2>8, <2>9, <2>10, <2>11 DEF Requests
<1> QED
  BY <1>2, <1>3, <1>4, <1>5 DEF Moves

\* What the cases of a step of the owner start from.
LEMMA Holding ==
  ASSUME TypeInv, NEW w \in Workers, h[w].at \notin {"idle", "create"}
  PROVE  /\ h \in [Workers -> Frames] /\ h[w] \in Frames /\ FrameOK(h[w]) /\ AttemptOK(h[w])
         /\ h[w].s \in Shares /\ out[h[w].s] \in OutRows /\ inb[h[w].s] \in InbRows
         /\ h[w].x \in OutRows /\ h[w].y \in OutRows /\ h[w].z \in InbRows /\ h[w].o \in OutRows
         /\ (out[h[w].s].due => out[h[w].s].tries < MaxAttempts)
  BY FrameFields DEF TypeInv, TypeOK, FrameOK

LEMMA InsertMove ==
  ASSUME TypeInv, NEW w \in Workers, Insert(w)
  PROVE  Moves(w)
<1> DEFINE new == [Idle EXCEPT !.at = "announce", !.s = n + 1]
           row == [NoOut EXCEPT !.st = "active", !.val = reqs + 1]
<1>1. /\ n + 1 \in Shares /\ n + 1 \in 0..MaxShares /\ reqs + 1 \in Vals /\ n < MaxShares
      /\ n' = n + 1 /\ reqs' = reqs /\ h \in [Workers -> Frames] /\ reqs \in 0..MaxRequests
  BY SharesAssumption DEF Insert, TypeInv, TypeOK, Shares, Vals
<1>2. new \in Frames /\ new.at = "announce" /\ new.s = n + 1 /\ new.k = "none" /\ new.z = NoInb
      /\ new.x = NoOut /\ new.y = NoOut
  BY <1>1, IdleFrame DEF Frames, Points
<1>3. row \in OutRows /\ row.st = "active" /\ ~row.due
  BY <1>1, EmptyRows DEF OutRows
<1>4. Step(w, "create", new) /\ out' = [out EXCEPT ![n + 1] = row] /\ inb' = inb /\ copy' = copy
  BY DEF Insert, theirs
<1>5. h'[w] = [Idle EXCEPT !.at = "announce", !.s = n + 1]
  BY <1>1, <1>4, StepOf
<1> HIDE DEF new, row
<1>6. /\ h[w].at = "create" /\ h'[w] = new
      /\ \A v \in Workers : v # w => h'[v] = h[v] /\ {new.at, h[v].at} \notin Conflicts
  BY <1>1, <1>4, StepOf
<1>7. FrameOK(new) /\ AttemptOK(new)
  BY <1>1, <1>2, EmptyRows DEF FrameOK, AttemptOK
<1>8. Offers(w)
  BY <1>1, <1>5, <1>6 DEF Offers
<1>9. Motion(w)
  BY <1>2, <1>6, <1>7, <1>8 DEF Motion
<1>10. OutMoves(w)
  <2>1. out'[n + 1] = row => OutMove(w, n + 1)
    BY <1>2, <1>3, <1>6 DEF OutMove
  <2> QED
    BY <1>1, <1>3, <1>4, <2>1, OutWrite
<1>11. InbMoves(w)
  BY <1>4, <1>6, InbSame
<1> QED
  BY <1>1, <1>9, <1>10, <1>11 DEF Moves

LEMMA ReceiveMove ==
  ASSUME TypeInv, NEW w \in Workers, Receive(w)
  PROVE  Moves(w)
<1>0. h \in [Workers -> Frames] /\ reqs \in 0..MaxRequests
  BY DEF TypeInv, TypeOK
<1>1. /\ Move(w, "announce", "announced") /\ out' = out /\ copy' = copy /\ n' = n /\ reqs' = reqs
      /\ inb' = [inb EXCEPT ![h[w].s].st = "pending"] /\ "announced" \in Points
  BY DEF Receive, counts, Points
<1>2. h[w].at = "announce"
  BY <1>0, <1>1 DEF Move, Step
<1>3. h[w].s \in Shares /\ inb[h[w].s] \in InbRows
  BY <1>2, Holding
<1>4. Motion(w)
  <2>1. MayGo(w, "announce", "announced")
    BY <1>1 DEF MayGo
  <2> QED
    BY <1>1, <2>1, MoveMotion
<1>5. OutMoves(w)
  BY <1>1, OutSame
<1>6. InbMoves(w)
  <2> DEFINE r == [inb[h[w].s] EXCEPT !.st = "pending"]
  <2>1. r \in InbRows /\ r.st = "pending" /\ r.linked = inb[h[w].s].linked
    BY <1>3 DEF InbRows
  <2>2. /\ inb' \in [Shares -> InbRows] /\ copy' \in [Shares -> Copies] /\ inb'[h[w].s] = r
        /\ \A s \in Shares : s # h[w].s => inb'[s] = inb[s]
    BY <1>1, <1>3, <2>1 DEF TypeInv, TypeOK
  <2> HIDE DEF r
  <2>3. InbMove(w, h[w].s)
    BY <1>2, <2>1, <2>2 DEF InbMove
  <2> QED
    BY <1>1, <1>2, <2>1, <2>2, <2>3 DEF InbMoves
<1> QED
  BY <1>0, <1>1, <1>4, <1>5, <1>6 DEF Moves

\* A step that ends with nothing to hold.
LEMMA RestsMove ==
  ASSUME TypeInv, NEW w \in Workers, NEW p, Step(w, p, Idle), n' = n, reqs' = reqs,
         inb' = inb, copy' = copy, OutMoves(w)
  PROVE  Moves(w)
<1>1. h \in [Workers -> Frames] /\ reqs \in 0..MaxRequests
  BY DEF TypeInv, TypeOK
<1>2. h'[w] = Idle
  BY <1>1, StepOf
<1> QED
  BY <1>1, <1>2, RestsMotion, InbSame DEF Moves

LEMMA NotCreatedMove ==
  ASSUME TypeInv, NEW w \in Workers, NotCreated(w)
  PROVE  Moves(w)
<1>1. PICK p \in {"announce", "announced"} : Step(w, p, Idle)
  BY DEF NotCreated
<1>2. h[w].at = p
  BY <1>1 DEF Step
<1>3. /\ h[w].s \in Shares /\ Offering(w) /\ n' = n /\ reqs' = reqs /\ inb' = inb /\ copy' = copy
      /\ out' = [out EXCEPT ![h[w].s] = NoOut]
  BY <1>1, <1>2, Holding DEF NotCreated, theirs, counts, Offering
<1>4. OutMoves(w)
  <2>1. out'[h[w].s] = NoOut => OutMove(w, h[w].s)
    BY <1>3 DEF OutMove
  <2> QED
    BY <1>3, <2>1, OutWrite, EmptyRows
<1> QED
  BY <1>1, <1>3, <1>4, RestsMove

LEMMA SuspendSaveMove ==
  ASSUME TypeInv, NEW w \in Workers, SuspendSave(w)
  PROVE  Moves(w)
<1> DEFINE s == h[w].s
           r == IF out[s].st = "none" THEN out[s] ELSE [out[s] EXCEPT !.st = "suspended"]
<1>1. /\ Step(w, "suspend", Idle) /\ h[w].at = "suspend" /\ n' = n /\ reqs' = reqs /\ inb' = inb
      /\ copy' = copy
  BY DEF SuspendSave, theirs, counts, Step
<1>2. s \in Shares /\ out[s] \in OutRows /\ (out[s].due => out[s].tries < MaxAttempts)
  BY <1>1, Holding
<1>3. /\ r \in OutRows /\ r.tries = out[s].tries /\ r.due = out[s].due
      /\ out[s].st # "none" => r.st = "suspended"
      /\ out[s].st = "none" => r = out[s]
  BY <1>2 DEF OutRows
<1>4. out' = [out EXCEPT ![s] = r]
  <2>1. out \in [Shares -> OutRows]
    BY DEF TypeInv, TypeOK
  <2>2. out' = [out EXCEPT ![s].st = IF @ = "none" THEN @ ELSE "suspended"]
    BY DEF SuspendSave
  <2>3. CASE out[s].st = "none"
    <3>1. [out[s] EXCEPT !.st = out[s].st] = out[s]
      BY <1>2 DEF OutRows
    <3> QED
      BY <2>1, <2>2, <2>3, <3>1
  <2>4. CASE out[s].st # "none"
    BY <2>1, <2>2, <2>4
  <2> QED
    BY <2>3, <2>4
<1> HIDE DEF r
<1>5. OutMoves(w)
  <2>1. CASE out[s].st = "none"
    BY <1>2, <1>3, <1>4, <2>1, OutWrite
  <2>2. CASE out[s].st # "none"
    <3>1. out'[s] = r => OutMove(w, s)
      BY <1>3, <2>2 DEF OutMove
    <3> QED
      BY <1>2, <1>3, <1>4, <3>1, OutWrite
  <2> QED
    BY <2>1, <2>2
<1> QED
  BY <1>1, <1>5, RestsMove

\* What a notification writes before and after it is sent.
LEMMA WroteMove ==
  ASSUME TypeInv, NEW w \in Workers, NEW r \in OutRows,
         h[w].at \notin {"idle", "create"}, out' = [out EXCEPT ![h[w].s] = r],
         r.due => r.tries < MaxAttempts,
         out[h[w].s].st = "none" => r = out[h[w].s],
         out[h[w].s].st # "none" => r.st \in {out[h[w].s].st, "revoked", "failed"}
  PROVE  OutMoves(w)
<1>1. h[w].s \in Shares /\ out[h[w].s] \in OutRows
  BY Holding
<1>2. CASE out[h[w].s].st = "none"
  BY <1>1, <1>2, OutWrite
<1>3. CASE out[h[w].s].st # "none"
  <2>1. out'[h[w].s] = r => OutMove(w, h[w].s)
    BY <1>3 DEF OutMove
  <2> QED
    BY <1>1, <2>1, OutWrite
<1> QED
  BY <1>2, <1>3

LEMMA SaveMove ==
  ASSUME TypeInv, NEW w \in Workers, UpdateSave(w) \/ RevokeSave(w)
  PROVE  Moves(w)
<1> DEFINE f == h[w]
           m == Merged(out[f.s], f.x, f.y)
<1>1. PICK p \in {"update", "revoke"}, type \in {"updated", "unshared"} :
        Step(w, p, [f EXCEPT !.at = "send", !.k = "notify", !.y = Delivering(@, type)])
  BY DEF UpdateSave, RevokeSave
<1> DEFINE new == [f EXCEPT !.at = "send", !.k = "notify", !.y = Delivering(@, type)]
<1>2. /\ out' = [out EXCEPT ![f.s] = m] /\ inb' = inb /\ copy' = copy /\ n' = n
      /\ reqs' = reqs /\ f.at = p /\ f.at \notin {"idle", "create"}
  BY <1>1 DEF UpdateSave, RevokeSave, theirs, counts, WriteOut, Step
<1>3. /\ h \in [Workers -> Frames] /\ f \in Frames /\ FrameOK(f) /\ AttemptOK(f) /\ f.s \in Shares
      /\ out[f.s] \in OutRows /\ f.x \in OutRows /\ f.y \in OutRows
      /\ (out[f.s].due => out[f.s].tries < MaxAttempts)
  BY <1>2, Holding
<1>4. /\ f.y.st \in {f.x.st, "revoked"} /\ f.y.tries = f.x.tries /\ f.y.due = f.x.due
  BY <1>2, <1>3 DEF AttemptOK
<1>5. OutMoves(w)
  <2>1. /\ m \in OutRows /\ m.st \in {out[f.s].st, "revoked"} /\ m.due = out[f.s].due
        /\ m.tries = out[f.s].tries
    BY <1>3, <1>4, MergedAttempt
  <2>2. out[f.s].st = "none" => m = out[f.s]
    BY <1>3, MergedOf
  <2> HIDE DEF m
  <2> QED
    BY <1>2, <1>3, <2>1, <2>2, WroteMove
<1>6. Motion(w)
  <2>1. Delivering(f.y, type) \in OutRows /\ Delivering(f.y, type).st = f.y.st
        /\ Delivering(f.y, type).tries = 0
    <3>1. 0 \in 0..MaxAttempts
      BY AttemptsAssumption
    <3> QED
      BY <1>3, <3>1 DEF Delivering, OutRows
  <2>2. /\ new \in Frames /\ new.at = "send" /\ new.k = "notify" /\ new.s = f.s /\ new.z = f.z
        /\ new.x = f.x /\ new.y = Delivering(f.y, type)
    BY <1>3, <2>1 DEF Frames, Points, Tasks
  <2>3. Step(w, p, new)
    BY <1>1
  <2> HIDE DEF new
  <2>4. /\ h'[w] = new
        /\ \A v \in Workers : v # w => h'[v] = h[v] /\ {new.at, h[v].at} \notin Conflicts
    BY <1>3, <2>3, StepOf
  <2>5. FrameOK(new) /\ AttemptOK(new)
    BY <1>3, <1>4, <2>1, <2>2 DEF FrameOK, AttemptOK
  <2>6. Goes(w)
    BY <1>2, <2>2, <2>4 DEF Goes
  <2> QED
    BY <2>2, <2>4, <2>5, <2>6 DEF Motion
<1>7. InbMoves(w)
  BY <1>2, InbSame
<1> QED
  BY <1>2, <1>5, <1>6, <1>7 DEF Moves, TypeInv, TypeOK

LEMMA DeliveredMove ==
  ASSUME TypeInv, NEW w \in Workers, Delivered(w)
  PROVE  Moves(w)
<1> DEFINE f == h[w]
           y == [f.y EXCEPT !.tries = 0, !.due = FALSE]
           r == Merged(out[f.s], f.x, y)
<1>1. /\ Step(w, "answered", Idle) /\ f.at = "answered" /\ n' = n /\ reqs' = reqs /\ inb' = inb
      /\ copy' = copy
      /\ out' = [out EXCEPT ![f.s] = IF f.y.pend = "unshared" \/ r.st = "none" THEN NoOut
                                     ELSE [r EXCEPT !.pend = "none"]]
  BY DEF Delivered, theirs, counts, Step
<1>2. /\ FrameOK(f) /\ AttemptOK(f) /\ f.s \in Shares
      /\ out[f.s] \in OutRows /\ f.x \in OutRows /\ f.y \in OutRows
      /\ (out[f.s].due => out[f.s].tries < MaxAttempts)
  BY <1>1, Holding
<1>3. y \in OutRows /\ y.st = f.y.st /\ y.tries = 0 /\ y.due = FALSE
  <2>1. 0 \in 0..MaxAttempts
    BY AttemptsAssumption
  <2> QED
    BY <1>2, <2>1 DEF OutRows
<1>4. f.y.st \in {f.x.st, "revoked"}
  BY <1>2 DEF AttemptOK
<1> HIDE DEF y
<1>5. /\ r \in OutRows /\ r.st \in {out[f.s].st, "revoked"} /\ (r.st = "none" <=> out[f.s].st = "none")
      /\ r.due => r.tries < MaxAttempts
  <2>1. /\ r \in OutRows /\ r.st \in {out[f.s].st, "revoked"}
        /\ (r.st = "none" <=> out[f.s].st = "none")
    BY <1>2, <1>3, <1>4, MergedAttempt
  <2>2. /\ out[f.s].st = "none" => r = out[f.s]
        /\ out[f.s].st # "none" => /\ r.tries = Put(out[f.s].tries, f.x.tries, 0)
                                   /\ r.due = Put(out[f.s].due, f.x.due, FALSE)
    <3>1. /\ out[f.s].st = "none" => r = out[f.s]
          /\ out[f.s].st # "none" => /\ r.tries = Put(out[f.s].tries, f.x.tries, y.tries)
                                     /\ r.due = Put(out[f.s].due, f.x.due, y.due)
      BY <1>2, <1>3, MergedOf
    <3> QED
      BY <1>3, <3>1
  <2>3. r.due => r.tries < MaxAttempts
    <3>1. out[f.s].tries \in 0..MaxAttempts /\ out[f.s].due \in BOOLEAN
      BY <1>2, RowFields
    <3>2. CASE out[f.s].st = "none"
      BY <1>2, <2>2, <3>2
    <3>3. CASE out[f.s].st # "none"
      <4>1. r.due = FALSE \/ r.due = out[f.s].due
        BY <2>2, <3>3 DEF Put
      <4>2. r.tries = 0 \/ r.tries = out[f.s].tries
        BY <2>2, <3>3 DEF Put
      <4>3. 0 < MaxAttempts
        BY AttemptsAssumption
      <4> QED
        BY <1>2, <4>1, <4>2, <4>3
    <3> QED
      BY <3>2, <3>3
  <2> QED
    BY <2>1, <2>3
<1> HIDE DEF r
<1>6. CASE f.y.pend = "unshared" \/ r.st = "none"
  <2>1. out' = [out EXCEPT ![f.s] = NoOut]
    BY <1>1, <1>6
  <2>2. out'[f.s] = NoOut => OutMove(w, f.s)
    BY <1>1, <1>5, <1>6 DEF OutMove, Unsharing
  <2>3. OutMoves(w)
    BY <1>2, <2>1, <2>2, OutWrite, EmptyRows
  <2> QED
    BY <1>1, <2>3, RestsMove
<1>7. CASE ~(f.y.pend = "unshared" \/ r.st = "none")
  <2>1. /\ [r EXCEPT !.pend = "none"] \in OutRows
        /\ [r EXCEPT !.pend = "none"].st = r.st /\ [r EXCEPT !.pend = "none"].due = r.due
        /\ [r EXCEPT !.pend = "none"].tries = r.tries
    BY <1>5 DEF OutRows
  <2>2. out' = [out EXCEPT ![f.s] = [r EXCEPT !.pend = "none"]]
    BY <1>1, <1>7
  <2>3. OutMoves(w)
    BY <1>1, <1>5, <1>7, <2>1, <2>2, WroteMove
  <2> QED
    BY <1>1, <2>3, RestsMove
<1> QED
  BY <1>6, <1>7

LEMMA NotDeliveredMove ==
  ASSUME TypeInv, NEW w \in Workers, NotDelivered(w)
  PROVE  Moves(w)
<1> DEFINE f == h[w]
           t == f.y.tries + 1
           r == Merged(out[f.s], f.x, f.y)
           up == [r EXCEPT !.st = Put(@, f.y.st, "failed"), !.tries = t, !.due = Put(@, f.x.due, FALSE)]
           again == [r EXCEPT !.tries = t, !.due = TRUE]
<1>1. PICK p \in {"send", "apply", "unshare", "pulled", "tell", "answered"} : Step(w, p, Idle)
  BY DEF NotDelivered
<1>2. /\ f.at \notin {"idle", "create"} /\ n' = n /\ reqs' = reqs /\ inb' = inb /\ copy' = copy
      /\ f.k = "notify"
      /\ out' = [out EXCEPT ![f.s] = IF r.st = "none" THEN r
                                     ELSE IF t >= MaxAttempts THEN up ELSE again]
  BY <1>1 DEF NotDelivered, theirs, counts, Step
<1>3. /\ FrameOK(f) /\ AttemptOK(f) /\ f.s \in Shares
      /\ out[f.s] \in OutRows /\ f.x \in OutRows /\ f.y \in OutRows
      /\ (out[f.s].due => out[f.s].tries < MaxAttempts)
  BY <1>2, Holding
<1>4. f.y.st \in {f.x.st, "revoked"} /\ (f.y.tries = 0 \/ (f.x.due /\ f.y.tries < MaxAttempts))
  BY <1>2, <1>3 DEF AttemptOK
<1>5. t \in 0..MaxAttempts /\ t <= MaxAttempts /\ (t >= MaxAttempts => f.x.due)
  BY <1>3, <1>4, RowFields, AttemptsAssumption
<1>6. /\ r \in OutRows /\ r.st \in {out[f.s].st, "revoked"} /\ (r.st = "none" <=> out[f.s].st = "none")
      /\ (out[f.s].st = "none" => r = out[f.s])
  BY <1>3, <1>4, MergedAttempt, MergedOf
<1> HIDE DEF r, t
<1>7. /\ up \in OutRows /\ up.st = Put(r.st, f.y.st, "failed") /\ up.tries = t
      /\ up.due = Put(r.due, f.x.due, FALSE)
  BY <1>5, <1>6 DEF OutRows, Put
<1>8. again \in OutRows /\ again.st = r.st /\ again.tries = t /\ again.due = TRUE
  BY <1>5, <1>6 DEF OutRows
<1> HIDE DEF up, again
<1>9. OutMoves(w)
  <2>1. CASE r.st = "none"
    <3>1. out' = [out EXCEPT ![f.s] = r]
      BY <1>2, <2>1
    <3> QED
      BY <1>2, <1>3, <1>6, <2>1, <3>1, WroteMove
  <2>2. CASE r.st # "none" /\ t >= MaxAttempts
    <3>1. out' = [out EXCEPT ![f.s] = up]
      BY <1>2, <2>2
    <3>2. /\ up.st \in {out[f.s].st, "revoked", "failed"} /\ ~up.due
      BY <1>5, <1>6, <1>7, <2>2 DEF Put
    <3> QED
      BY <1>2, <1>6, <1>7, <2>2, <3>1, <3>2, WroteMove
  <2>3. CASE r.st # "none" /\ ~(t >= MaxAttempts)
    <3>1. out' = [out EXCEPT ![f.s] = again]
      BY <1>2, <2>3
    <3>2. again.tries < MaxAttempts
      BY <1>5, <1>8, <2>3, AttemptsAssumption
    <3> QED
      BY <1>2, <1>6, <1>8, <2>3, <3>1, <3>2, WroteMove
  <2> QED
    BY <2>1, <2>2, <2>3
<1> QED
  BY <1>1, <1>2, <1>9, RestsMove

LEMMA InbRow ==
  ASSUME NEW r \in InbRows
  PROVE  r.st \in {"none", "pending", "accepted", "declined", "revoked"} /\ r.linked \in BOOLEAN
  BY DEF InbRows

LEMMA WriteInbOf ==
  ASSUME inb \in [Shares -> InbRows], NEW s \in Shares, NEW z \in InbRows, NEW new \in InbRows,
         WriteInb(s, z, new)
  PROVE  /\ inb' \in [Shares -> InbRows]
         /\ inb'[s].st = Put(inb[s].st, z.st, new.st)
         /\ inb'[s].linked = Put(inb[s].linked, z.linked, new.linked)
         /\ \A t \in Shares : t # s => inb'[t] = inb[t]
<1> DEFINE r == [st |-> Put(inb[s].st, z.st, new.st), linked |-> Put(inb[s].linked, z.linked, new.linked)]
<1>1. r \in InbRows /\ r.st = Put(inb[s].st, z.st, new.st)
      /\ r.linked = Put(inb[s].linked, z.linked, new.linked)
  BY InbRow DEF InbRows, Put
<1>2. inb' = [inb EXCEPT ![s] = r]
  BY DEF WriteInb
<1> HIDE DEF r
<1> QED
  BY <1>1, <1>2

\* A step of the recipient that writes the row of one share.
LEMMA InbWrite ==
  ASSUME TypeInv, NEW w \in Workers, NEW z \in InbRows, NEW new \in InbRows,
         h[w].at \notin {"idle", "create", "announce", "unshare"}, WriteInb(h[w].s, z, new),
         copy' \in [Shares -> Copies], \A s \in Shares : s # h[w].s => copy'[s] = copy[s],
         InbMove(w, h[w].s)
  PROVE  InbMoves(w)
<1>1. h[w].s \in Shares /\ inb \in [Shares -> InbRows]
  BY Holding DEF TypeInv, TypeOK
<1>2. inb' \in [Shares -> InbRows] /\ \A t \in Shares : t # h[w].s => inb'[t] = inb[t]
  BY <1>1, WriteInbOf
<1> QED
  BY <1>1, <1>2 DEF InbMoves

LEMMA ArriveMove ==
  ASSUME TypeInv, NEW w \in Workers, Arrive(w)
  PROVE  Moves(w)
<1> DEFINE f == h[w]
           q == IF f.y.pend = "unshared" THEN "unshare" ELSE "apply"
           new == [f EXCEPT !.z = inb[f.s], !.at = q]
<1>1. /\ Step(w, "send", new) /\ f.at = "send" /\ inb[f.s].st \notin {"none", "revoked"}
      /\ out' = out /\ inb' = inb /\ copy' = copy /\ n' = n /\ reqs' = reqs
  BY DEF Arrive, theirs, counts, Step
<1>2. /\ h \in [Workers -> Frames] /\ f \in Frames /\ FrameOK(f) /\ AttemptOK(f) /\ f.s \in Shares
      /\ inb[f.s] \in InbRows /\ f.k = "notify"
  BY <1>1, Holding DEF FrameOK
<1>3. q \in Points /\ q \in {"unshare", "apply"} /\ (q = "apply" => f.y.pend # "unshared")
  BY DEF Points
<1> HIDE DEF q
<1>4. /\ new \in Frames /\ new.at = q /\ new.k = f.k /\ new.s = f.s /\ new.x = f.x /\ new.y = f.y
      /\ new.z = inb[f.s]
  BY <1>2, <1>3 DEF Frames
<1> HIDE DEF new
<1>5. /\ h'[w] = new
      /\ \A v \in Workers : v # w => h'[v] = h[v] /\ {new.at, h[v].at} \notin Conflicts
  BY <1>1, <1>2, StepOf
<1>6. FrameOK(new) /\ AttemptOK(new)
  BY <1>1, <1>2, <1>3, <1>4 DEF FrameOK, AttemptOK
<1>7. Arrives(w)
  BY <1>1, <1>3, <1>4, <1>5 DEF Arrives
<1>8. Motion(w)
  BY <1>4, <1>5, <1>6, <1>7 DEF Motion
<1> QED
  BY <1>1, <1>8, OutSame, InbSame DEF Moves, TypeInv, TypeOK

LEMMA ApplyUnshareMove ==
  ASSUME TypeInv, NEW w \in Workers, ApplyUnshare(w)
  PROVE  Moves(w)
<1> DEFINE f == h[w]
           new == [st |-> "revoked", linked |-> FALSE]
<1>1. /\ Move(w, "unshare", "answered") /\ f.at = "unshare" /\ out' = out /\ n' = n /\ reqs' = reqs
      /\ copy' = (IF f.z.st = "accepted" THEN [copy EXCEPT ![f.s] = NoCopy] ELSE copy)
      /\ WriteInb(f.s, f.z, new) /\ "answered" \in Points
  BY DEF ApplyUnshare, counts, Move, Step, Points
<1>2. /\ f \in Frames /\ FrameOK(f) /\ f.s \in Shares /\ f.z \in InbRows /\ inb[f.s] \in InbRows
      /\ inb \in [Shares -> InbRows] /\ copy \in [Shares -> Copies]
  BY <1>1, Holding DEF TypeInv, TypeOK
<1>3. f.z.st # "revoked" /\ f.k = "notify"
  BY <1>1, <1>2 DEF FrameOK
<1>4. Motion(w)
  <2>1. MayGo(w, "unshare", "answered")
    BY <1>1, <1>3 DEF MayGo
  <2> QED
    BY <1>1, <2>1, MoveMotion
<1>5. h'[w].at = "answered"
  <2>1. h \in [Workers -> Frames]
    BY DEF TypeInv, TypeOK
  <2>2. h' = [h EXCEPT ![w] = [h[w] EXCEPT !.at = "answered"]]
    BY <1>1 DEF Move, Step
  <2> QED
    BY <1>2, <2>1, <2>2 DEF Frames
<1>6. new \in InbRows /\ new.st = "revoked" /\ new.linked = FALSE
  BY DEF InbRows
<1> HIDE DEF new
<1>7. /\ inb' \in [Shares -> InbRows]
      /\ inb'[f.s].st = Put(inb[f.s].st, f.z.st, "revoked")
      /\ inb'[f.s].linked = Put(inb[f.s].linked, f.z.linked, FALSE)
      /\ \A t \in Shares : t # f.s => inb'[t] = inb[t]
  <2>1. /\ inb' \in [Shares -> InbRows]
        /\ inb'[f.s].st = Put(inb[f.s].st, f.z.st, new.st)
        /\ inb'[f.s].linked = Put(inb[f.s].linked, f.z.linked, new.linked)
        /\ \A t \in Shares : t # f.s => inb'[t] = inb[t]
    BY <1>1, <1>2, <1>6, WriteInbOf
  <2> QED
    BY <1>6, <2>1
<1>8. inb'[f.s].st = "revoked" /\ (inb'[f.s].linked => inb[f.s].linked /\ ~f.z.linked)
  BY <1>2, <1>3, <1>7, InbRow DEF Put
<1>9. InbMoves(w)
  <2>1. InbMove(w, f.s)
    BY <1>1, <1>5, <1>8 DEF InbMove
  <2>2. copy' \in [Shares -> Copies] /\ \A s \in Shares : s # f.s => copy'[s] = copy[s]
    BY <1>1, <1>2, EmptyRows
  <2> QED
    BY <1>1, <1>7, <1>8, <2>1, <2>2 DEF InbMoves
<1> QED
  BY <1>1, <1>4, <1>9, OutSame DEF Moves, TypeInv, TypeOK

\* A step that moves a worker on and writes nothing.
LEMMA QuietMove ==
  ASSUME TypeInv, NEW w \in Workers, Motion(w), out' = out, inb' = inb, copy' = copy, reqs' = reqs,
         h[w].at \notin {"unshare", "announce"} \/ h'[w] = Idle
  PROVE  Moves(w)
  BY OutSame, InbSame DEF Moves, TypeInv, TypeOK

LEMMA PullMove ==
  ASSUME TypeInv, NEW w \in Workers, ApplyPull(w) \/ AcceptPull(w) \/ RestorePull(w)
  PROVE  Moves(w)
<1>1. PICK p \in {"apply", "accept", "resumed"}, q \in {"pulled", "fetched"} :
        Pull(w, p, q) /\ (q = "fetched" <=> p = "accept")
  BY DEF ApplyPull, AcceptPull, RestorePull
<1>2. /\ Step(w, p, [h[w] EXCEPT !.at = q, !.v = out[h[w].s].val]) /\ h[w].at = p
      /\ out[h[w].s].st = "active" /\ q \in Points
      /\ out' = out /\ inb' = inb /\ copy' = copy /\ n' = n /\ reqs' = reqs
  BY <1>1 DEF Pull, theirs, counts, Step, Points
<1>3. /\ out[h[w].s].val \in Vals \cup {0} /\ FrameOK(h[w]) /\ NoOut \in OutRows
  BY <1>2, Holding, RowFields, EmptyRows
<1>4. MayGo(w, p, q)
  BY <1>1, <1>2, <1>3 DEF MayGo, FrameOK
<1>5. Motion(w)
  BY <1>2, <1>3, <1>4, HoldMotion
<1> QED
  BY <1>2, <1>5, QuietMove

\* What goes on without writing: applied, told, settled, resumed.
LEMMA GoMove ==
  ASSUME TypeInv, NEW w \in Workers,
         \/ ApplyNothing(w) \/ ApplyDeclined(w) \/ NothingToDecline(w) \/ Settle(w)
         \/ ResumeActive(w) \/ Resume(w)
  PROVE  Moves(w)
<1>1. out' = out /\ inb' = inb /\ copy' = copy /\ n' = n /\ reqs' = reqs
  BY DEF ApplyNothing, ApplyDeclined, NothingToDecline, Settle, ResumeActive, Resume,
     theirs, counts
<1>2. ASSUME NEW p, NEW q \in Points, Move(w, p, q), MayGo(w, p, q), p \notin {"unshare", "announce"},
             q # "resume"
      PROVE  Moves(w)
  <2>1. h[w].at = p
    BY <1>2 DEF Move, Step
  <2> QED
    BY <1>1, <1>2, <2>1, MoveMotion, QuietMove
<1>3. ASSUME NEW p, NEW q \in Points, Step(w, p, [h[w] EXCEPT !.at = q, !.o = out[h[w].s]]),
             MayGo(w, p, q), p \notin {"idle", "create", "unshare", "announce"},
             q = "resume" => out[h[w].s].st = "declined"
      PROVE  Moves(w)
  <2>1. h[w].at = p
    BY <1>3 DEF Step
  <2>2. out[h[w].s] \in OutRows /\ 0 \in Vals \cup {0}
    BY <1>3, <2>1, Holding
  <2>3. Motion(w)
    BY <1>3, <2>2, HoldMotion
  <2> QED
    BY <1>1, <1>3, <2>1, <2>3, QuietMove
<1>4. {"answered", "tell", "done", "settle", "back", "resume"} \subseteq Points
  BY DEF Points
<1>5. CASE ApplyNothing(w)
  <2>1. Move(w, "apply", "answered") /\ h[w].at = "apply"
    BY <1>5 DEF ApplyNothing, Move, Step
  <2>2. MayGo(w, "apply", "answered")
    BY <1>1, <2>1, Holding DEF MayGo, FrameOK
  <2> QED
    BY <1>2, <1>4, <2>1, <2>2
<1>6. CASE ApplyDeclined(w)
  <2>1. Move(w, "apply", "tell") /\ MayGo(w, "apply", "tell")
    BY <1>1, <1>6 DEF ApplyDeclined, MayGo
  <2> QED
    BY <1>2, <1>4, <2>1
<1>7. CASE NothingToDecline(w)
  <2>1. PICK p \in {"trash", "purge"} : Move(w, p, "done")
    BY <1>7 DEF NothingToDecline
  <2>2. h[w].at = p
    BY <2>1 DEF Move, Step
  <2>3. MayGo(w, p, "done")
    BY <1>1, <2>2, Holding DEF MayGo, FrameOK
  <2> QED
    BY <1>2, <1>4, <2>1, <2>3
<1>8. CASE Settle(w)
  <2>1. Step(w, "tell", [h[w] EXCEPT !.at = "settle", !.o = out[h[w].s]]) /\ MayGo(w, "tell", "settle")
    BY <1>1, <1>8 DEF Settle, MayGo
  <2> QED
    BY <1>3, <1>4, <2>1
<1>9. CASE ResumeActive(w)
  <2>1. Move(w, "restore", "back") /\ MayGo(w, "restore", "back")
    BY <1>1, <1>9 DEF ResumeActive, MayGo
  <2> QED
    BY <1>2, <1>4, <2>1
<1>10. CASE Resume(w)
  <2>1. Step(w, "restore", [h[w] EXCEPT !.at = "resume", !.o = out[h[w].s]]) /\ MayGo(w, "restore", "resume")
    BY <1>1, <1>10 DEF Resume, MayGo
  <2>2. out[h[w].s].st = "declined"
    BY <1>10 DEF Resume
  <2> QED
    BY <1>3, <1>4, <2>1, <2>2
<1> QED
  BY <1>5, <1>6, <1>7, <1>8, <1>9, <1>10

LEMMA ToldMove ==
  ASSUME TypeInv, NEW w \in Workers, Told(w)
  PROVE  Moves(w)
<1> DEFINE q == AfterTell(h[w])
<1>1. /\ Move(w, "tell", q) /\ h[w].at = "tell" /\ out' = out /\ inb' = inb /\ copy' = copy
      /\ n' = n /\ reqs' = reqs
  BY DEF Told, theirs, counts, Move, Step
<1>2. q \in Points /\ ((q = "answered" /\ h[w].k = "notify") \/ (q = "done" /\ h[w].k # "notify"))
  <2>1. {"answered", "done"} \subseteq Points
    BY DEF Points
  <2>2. q = (IF h[w].k = "notify" THEN "answered" ELSE "done")
    BY DEF AfterTell
  <2> QED
    BY <2>1, <2>2
<1> HIDE DEF q
<1>3. MayGo(w, "tell", q)
  BY <1>1, <1>2, Holding DEF MayGo, FrameOK
<1>4. Motion(w)
  BY <1>1, <1>2, <1>3, MoveMotion
<1> QED
  BY <1>1, <1>4, QuietMove

LEMMA RefreshMove ==
  ASSUME TypeInv, NEW w \in Workers, Refresh(w)
  PROVE  Moves(w)
<1> DEFINE f == h[w]
           new == [f EXCEPT !.at = "answered", !.v = 0]
<1>1. /\ Step(w, "pulled", IF f.k = "notify" THEN new ELSE Idle) /\ f.at = "pulled" /\ n' = n
      /\ reqs' = reqs /\ out' = out /\ inb' = inb
      /\ copy' = [copy EXCEPT ![f.s].val = IF @ = 0 THEN 0 ELSE f.v]
  BY DEF Refresh, counts, Step
<1>2. /\ FrameOK(f) /\ f.s \in Shares /\ f.v \in Vals \cup {0} /\ copy \in [Shares -> Copies]
      /\ h \in [Workers -> Frames] /\ NoOut \in OutRows /\ "answered" \in Points
  BY <1>1, Holding, FrameFields, EmptyRows DEF TypeInv, TypeOK, Points
<1>3. Motion(w)
  <2>1. CASE f.k = "notify"
    <3>1. MayGo(w, "pulled", "answered")
      BY <1>1, <1>2, <2>1 DEF MayGo, FrameOK
    <3>2. 0 \in Vals \cup {0} /\ Step(w, "pulled", [h[w] EXCEPT !.at = "answered", !.v = 0])
      BY <1>1, <2>1
    <3> QED
      BY <1>2, <3>1, <3>2, HoldMotion
  <2>2. CASE f.k # "notify"
    BY <1>1, <1>2, <2>2, RestsMotion
  <2> QED
    BY <2>1, <2>2
<1>4. InbMoves(w)
  <2>1. [copy[f.s] EXCEPT !.val = IF @ = 0 THEN 0 ELSE f.v] \in Copies
    BY <1>2 DEF Copies
  <2>2. copy' \in [Shares -> Copies] /\ \A s \in Shares : s # f.s => copy'[s] = copy[s]
    BY <1>1, <1>2, <2>1
  <2> QED
    BY <1>1, <2>2 DEF InbMoves, TypeInv, TypeOK
<1> QED
  BY <1>1, <1>3, <1>4, OutSame DEF Moves, TypeInv, TypeOK

LEMMA AcceptSaveMove ==
  ASSUME TypeInv, NEW w \in Workers, AcceptSave(w)
  PROVE  Moves(w)
<1> DEFINE f == h[w]
           new == [st |-> "accepted", linked |-> TRUE]
           got == [val |-> f.v, trash |-> FALSE]
<1>1. /\ Step(w, "fetched", Idle) /\ f.at = "fetched" /\ n' = n /\ reqs' = reqs /\ out' = out
      /\ WriteInb(f.s, f.z, new) /\ copy' = [copy EXCEPT ![f.s] = got]
  BY DEF AcceptSave, counts, Step
<1>2. /\ FrameOK(f) /\ f.s \in Shares /\ f.v \in Vals \cup {0} /\ copy \in [Shares -> Copies]
      /\ h \in [Workers -> Frames] /\ f.z \in InbRows /\ inb \in [Shares -> InbRows]
  BY <1>1, Holding, FrameFields DEF TypeInv, TypeOK
<1>3. new \in InbRows /\ new.st = "accepted" /\ f.z.st = "pending"
  BY <1>1, <1>2 DEF InbRows, FrameOK
<1> HIDE DEF new
<1>4. InbMoves(w)
  <2>1. copy' \in [Shares -> Copies] /\ \A s \in Shares : s # f.s => copy'[s] = copy[s]
    <3>1. got \in Copies
      BY <1>2 DEF Copies
    <3> QED
      BY <1>1, <1>2, <3>1
  <2>2. inb'[f.s].st = Put(inb[f.s].st, f.z.st, new.st)
    BY <1>1, <1>2, <1>3, WriteInbOf
  <2>3. InbMove(w, f.s)
    <3>1. inb'[f.s].st = "accepted"
      BY <1>3, <2>2 DEF Put
    <3> QED
      BY <1>1, <3>1 DEF InbMove
  <2> QED
    BY <1>1, <1>2, <1>3, <2>1, <2>3, InbWrite
<1>5. Motion(w)
  BY <1>1, <1>2, RestsMotion
<1> QED
  BY <1>1, <1>4, <1>5, OutSame DEF Moves, TypeInv, TypeOK

\* What WriteInb leaves of the link when the handler does not assign it.
LEMMA WriteStatus ==
  ASSUME inb \in [Shares -> InbRows], NEW s \in Shares, NEW z \in InbRows,
         NEW st \in {"accepted", "declined", "revoked"}, WriteInb(s, z, [z EXCEPT !.st = st])
  PROVE  /\ inb'[s].st = Put(inb[s].st, z.st, st) /\ inb'[s].linked = inb[s].linked
         /\ [z EXCEPT !.st = st] \in InbRows
<1> DEFINE new == [z EXCEPT !.st = st]
<1>1. new \in InbRows /\ new.st = st /\ new.linked = z.linked
  BY DEF InbRows
<1>2. WriteInb(s, z, new)
  OBVIOUS
<1> HIDE DEF new
<1>3. /\ inb'[s].st = Put(inb[s].st, z.st, new.st)
      /\ inb'[s].linked = Put(inb[s].linked, z.linked, new.linked)
  BY <1>1, <1>2, WriteInbOf
<1>4. inb'[s].linked = inb[s].linked /\ inb'[s].st = Put(inb[s].st, z.st, st)
  BY <1>1, <1>3 DEF Put
<1>5. [z EXCEPT !.st = st] \in InbRows
  BY <1>1 DEF new
<1> QED
  BY <1>4, <1>5

LEMMA DecliningMove ==
  ASSUME TypeInv, NEW w \in Workers, Declining(w)
  PROVE  Moves(w)
<1> DEFINE f == h[w]
<1>1. PICK p \in {"decline", "trash", "purge"} : Move(w, p, "tell")
  BY DEF Declining
<1>2. /\ f.at = p /\ out' = out /\ copy' = copy /\ n' = n /\ reqs' = reqs
      /\ WriteInb(f.s, f.z, [f.z EXCEPT !.st = "declined"])
      /\ f.k = "decline" \/ (f.z.st = "accepted" /\ f.z.linked)
  BY <1>1 DEF Declining, counts, Move, Step, Points
<1>3. /\ f \in Frames /\ FrameOK(f) /\ f.s \in Shares /\ f.z \in InbRows
      /\ h \in [Workers -> Frames] /\ inb \in [Shares -> InbRows]
      /\ copy \in [Shares -> Copies]
  BY <1>2, Holding DEF TypeInv, TypeOK
<1>4. f.at = "decline" \/ (f.at \in {"trash", "purge"} /\ f.z.st = "accepted")
  BY <1>1, <1>2, <1>3 DEF FrameOK
<1>5. f.z.st # "declined"
  BY <1>1, <1>2, <1>3 DEF FrameOK
<1>6. /\ inb'[f.s].st = "declined" /\ inb'[f.s].linked = inb[f.s].linked
      /\ [f.z EXCEPT !.st = "declined"] \in InbRows
  BY <1>2, <1>3, <1>5, WriteStatus DEF Put
<1>7. h'[w].at = "tell"
  <2>1. h' = [h EXCEPT ![w] = [h[w] EXCEPT !.at = "tell"]]
    BY <1>1 DEF Move, Step
  <2> QED
    BY <1>3, <2>1 DEF Frames
<1>8. InbMoves(w)
  <2>1. InbMove(w, f.s)
    BY <1>4, <1>6, <1>7 DEF InbMove
  <2> QED
    BY <1>1, <1>2, <1>3, <1>6, <2>1, InbWrite
<1>9. Motion(w)
  <2>1. MayGo(w, p, "tell")
    BY <1>1, <1>2, <1>4, <1>6 DEF MayGo
  <2>2. "tell" \in Points
    BY DEF Points
  <2> QED
    BY <1>1, <2>1, <2>2, MoveMotion
<1> QED
  BY <1>2, <1>8, <1>9, OutSame DEF Moves, TypeInv, TypeOK

\* What the owner's server writes when the recipient declines or resumes.
LEMMA QuietOut ==
  ASSUME TypeInv, NEW w \in Workers, h[w].at \notin {"idle", "create"},
         NEW st \in {"active", "declined"}, WriteOut(h[w].s, h[w].o, Quiet(h[w].o, st)),
         st = "declined" => h[w].at = "settle",
         st = "active" => h[w].at = "resume"
  PROVE  OutMoves(w)
<1> DEFINE o == h[w].o
           s == h[w].s
           y == Quiet(o, st)
           m == Merged(out[s], o, y)
<1>1. /\ s \in Shares /\ out[s] \in OutRows /\ o \in OutRows
      /\ (out[s].due => out[s].tries < MaxAttempts)
  BY Holding
<1>2. y \in OutRows /\ y.st = st /\ y.tries = 0 /\ y.due = FALSE
  <2>1. 0 \in 0..MaxAttempts
    BY AttemptsAssumption
  <2> QED
    BY <1>1, <2>1 DEF OutRows, Quiet
<1>3. out' = [out EXCEPT ![s] = m]
  BY DEF WriteOut
<1> HIDE DEF y
<1>4. /\ m \in OutRows
      /\ out[s].st = "none" => m = out[s]
      /\ out[s].st # "none" => /\ m.st = Put(out[s].st, o.st, st)
                               /\ m.tries = Put(out[s].tries, o.tries, 0)
                               /\ m.due = Put(out[s].due, o.due, FALSE)
  <2>1. /\ m \in OutRows
        /\ out[s].st = "none" => m = out[s]
        /\ out[s].st # "none" => /\ m.st = Put(out[s].st, o.st, y.st)
                                 /\ m.tries = Put(out[s].tries, o.tries, y.tries)
                                 /\ m.due = Put(out[s].due, o.due, y.due)
    BY <1>1, <1>2, MergedOf
  <2> QED
    BY <1>2, <2>1
<1> HIDE DEF m
<1>5. CASE out[s].st = "none"
  BY <1>1, <1>3, <1>4, <1>5, OutWrite
<1>6. CASE out[s].st # "none"
  <2>1. m.due => m.tries < MaxAttempts
    <3>1. m.due = FALSE \/ m.due = out[s].due
      BY <1>4, <1>6 DEF Put
    <3>2. m.tries = 0 \/ m.tries = out[s].tries
      BY <1>4, <1>6 DEF Put
    <3>3. 0 < MaxAttempts
      BY AttemptsAssumption
    <3> QED
      BY <1>1, <3>1, <3>2, <3>3
  <2>2. m.st = out[s].st \/ m.st = st
    BY <1>4, <1>6 DEF Put
  <2>3. out'[s] = m => OutMove(w, s)
    BY <1>6, <2>2 DEF OutMove
  <2> QED
    BY <1>1, <1>3, <1>4, <2>1, <2>3, OutWrite
<1> QED
  BY <1>5, <1>6

LEMMA SettleSaveMove ==
  ASSUME TypeInv, NEW w \in Workers, SettleSave(w)
  PROVE  Moves(w)
<1> DEFINE q == AfterTell(h[w])
<1>1. /\ Step(w, "settle", [h[w] EXCEPT !.at = q, !.o = NoOut]) /\ h[w].at = "settle"
      /\ WriteOut(h[w].s, h[w].o, Quiet(h[w].o, "declined"))
      /\ inb' = inb /\ copy' = copy /\ n' = n /\ reqs' = reqs
  BY DEF SettleSave, theirs, counts, Step
<1>2. q \in Points /\ ((q = "answered" /\ h[w].k = "notify") \/ (q = "done" /\ h[w].k # "notify"))
  <2>1. {"answered", "done"} \subseteq Points
    BY DEF Points
  <2>2. q = (IF h[w].k = "notify" THEN "answered" ELSE "done")
    BY DEF AfterTell
  <2> QED
    BY <2>1, <2>2
<1> HIDE DEF q
<1>3. MayGo(w, "settle", q)
  BY <1>1, <1>2, Holding DEF MayGo, FrameOK
<1>4. Motion(w)
  <2>1. NoOut \in OutRows /\ 0 \in Vals \cup {0}
    BY EmptyRows
  <2> QED
    BY <1>1, <1>2, <1>3, <2>1, HoldMotion
<1>5. OutMoves(w)
  BY <1>1, QuietOut
<1>6. InbMoves(w)
  BY <1>1, InbSame
<1> QED
  BY <1>1, <1>4, <1>5, <1>6 DEF Moves, TypeInv, TypeOK

LEMMA ResumeSaveMove ==
  ASSUME TypeInv, NEW w \in Workers, ResumeSave(w)
  PROVE  Moves(w)
<1>1. /\ Step(w, "resume", [h[w] EXCEPT !.at = "back", !.o = NoOut]) /\ h[w].at = "resume"
      /\ WriteOut(h[w].s, h[w].o, Quiet(h[w].o, "active"))
      /\ inb' = inb /\ copy' = copy /\ n' = n /\ reqs' = reqs
  BY DEF ResumeSave, theirs, counts, Step
<1>2. MayGo(w, "resume", "back")
  BY <1>1 DEF MayGo
<1>3. Motion(w)
  <2>1. NoOut \in OutRows /\ 0 \in Vals \cup {0} /\ "back" \in Points
    BY EmptyRows DEF Points
  <2> QED
    BY <1>1, <1>2, <2>1, HoldMotion
<1>4. OutMoves(w)
  BY <1>1, QuietOut
<1>5. InbMoves(w)
  BY <1>1, InbSame
<1> QED
  BY <1>1, <1>3, <1>4, <1>5 DEF Moves, TypeInv, TypeOK

LEMMA GoneMove ==
  ASSUME TypeInv, NEW w \in Workers, Gone(w)
  PROVE  Moves(w)
<1> DEFINE f == h[w]
<1>1. /\ Step(w, "done", Idle) /\ f.at = "done" /\ out' = out /\ n' = n /\ reqs' = reqs
      /\ copy' = CASE f.k = "trash" -> [copy EXCEPT ![f.s].trash = copy[f.s].val # 0]
                   [] f.k = "purge" -> [copy EXCEPT ![f.s] = NoCopy]
                   [] OTHER -> copy
      /\ inb' = IF f.k = "purge" THEN [inb EXCEPT ![f.s].linked = FALSE] ELSE inb
  BY DEF Gone, counts, Step
<1>2. /\ f.s \in Shares /\ h \in [Workers -> Frames] /\ inb \in [Shares -> InbRows]
      /\ copy \in [Shares -> Copies] /\ inb[f.s] \in InbRows /\ copy[f.s] \in Copies
  BY <1>1, Holding DEF TypeInv, TypeOK
<1>3. copy' \in [Shares -> Copies] /\ \A s \in Shares : s # f.s => copy'[s] = copy[s]
  <2>1. CASE f.k = "trash"
    <3>1. [copy[f.s] EXCEPT !.trash = copy[f.s].val # 0] \in Copies
      BY <1>2 DEF Copies
    <3>2. copy' = [copy EXCEPT ![f.s] = [copy[f.s] EXCEPT !.trash = copy[f.s].val # 0]]
      BY <1>1, <2>1
    <3> QED
      BY <1>2, <3>1, <3>2
  <2>2. CASE f.k = "purge"
    BY <1>1, <1>2, <2>2, EmptyRows
  <2>3. CASE f.k \notin {"trash", "purge"}
    BY <1>1, <1>2, <2>3
  <2> QED
    BY <2>1, <2>2, <2>3
<1>4. InbMoves(w)
  <2>1. CASE f.k = "purge"
    <3> DEFINE r == [inb[f.s] EXCEPT !.linked = FALSE]
    <3>1. r \in InbRows /\ r.st = inb[f.s].st /\ r.linked = FALSE
      BY <1>2 DEF InbRows
    <3>2. inb' = [inb EXCEPT ![f.s] = r]
      BY <1>1, <2>1
    <3> HIDE DEF r
    <3>3. /\ inb' \in [Shares -> InbRows] /\ inb'[f.s] = r
          /\ \A s \in Shares : s # f.s => inb'[s] = inb[s]
      BY <1>2, <3>1, <3>2
    <3>4. InbMove(w, f.s)
      BY <1>1, <3>1, <3>3 DEF InbMove
    <3> QED
      BY <1>1, <1>3, <3>3, <3>4 DEF InbMoves
  <2>2. CASE f.k # "purge"
    BY <1>1, <1>2, <1>3, <2>2 DEF InbMoves
  <2> QED
    BY <2>1, <2>2
<1>5. Motion(w)
  BY <1>1, <1>2, RestsMotion
<1> QED
  BY <1>1, <1>4, <1>5, OutSame DEF Moves, TypeInv, TypeOK

LEMMA AnsweredMove ==
  ASSUME TypeInv, NEW w \in Workers, Resumed(w) \/ Ended(w)
  PROVE  Moves(w)
<1> DEFINE f == h[w]
<1>1. /\ out' = out /\ copy' = copy /\ n' = n /\ reqs' = reqs /\ f.at \in {"back", "restore"}
      /\ \/ Resumed(w) /\ f.at = "back" /\ WriteInb(f.s, f.z, [f.z EXCEPT !.st = "accepted"])
         \/ Ended(w) /\ f.at = "restore" /\ WriteInb(f.s, f.z, [f.z EXCEPT !.st = "revoked"])
  BY DEF Resumed, Ended, Move, Step, counts
<1>2. /\ f.s \in Shares /\ h \in [Workers -> Frames] /\ inb \in [Shares -> InbRows]
      /\ f.z \in InbRows /\ f.z.st = "declined" /\ copy \in [Shares -> Copies]
  BY <1>1, Holding DEF TypeInv, TypeOK, FrameOK
<1>3. CASE Resumed(w)
  <2>1. f.at = "back" /\ WriteInb(f.s, f.z, [f.z EXCEPT !.st = "accepted"])
    BY <1>3 DEF Resumed, Move, Step
  <2>2. /\ inb'[f.s].st = "accepted" /\ inb'[f.s].linked = inb[f.s].linked
        /\ [f.z EXCEPT !.st = "accepted"] \in InbRows
    BY <1>2, <2>1, WriteStatus DEF Put
  <2>3. InbMoves(w)
    <3>1. InbMove(w, f.s)
      BY <2>1, <2>2 DEF InbMove
    <3> QED
      BY <1>1, <1>2, <2>1, <2>2, <3>1, InbWrite
  <2>4. Motion(w)
    <3>1. h[w].k # "notify"
      BY <1>2, <2>1, Holding DEF FrameOK
    <3>2. Move(w, "back", "resumed") /\ MayGo(w, "back", "resumed") /\ "resumed" \in Points
      BY <1>1, <1>3, <3>1 DEF MayGo, Points, Resumed
    <3> QED
      BY <3>2, MoveMotion
  <2> QED
    BY <1>1, <2>3, <2>4, OutSame DEF Moves, TypeInv, TypeOK
<1>4. CASE Ended(w)
  <2>1. /\ f.at = "restore" /\ WriteInb(f.s, f.z, [f.z EXCEPT !.st = "revoked"])
        /\ Step(w, "restore", Idle)
    BY <1>4 DEF Ended, Step
  <2>2. /\ inb'[f.s].st = "revoked" /\ inb'[f.s].linked = inb[f.s].linked
        /\ [f.z EXCEPT !.st = "revoked"] \in InbRows
    BY <1>2, <2>1, WriteStatus DEF Put
  <2>3. InbMoves(w)
    <3>1. InbMove(w, f.s)
      BY <2>1, <2>2 DEF InbMove
    <3> QED
      BY <1>1, <1>2, <2>1, <2>2, <3>1, InbWrite
  <2>4. Motion(w)
    BY <1>1, <1>2, <2>1, RestsMotion
  <2> QED
    BY <1>1, <2>3, <2>4, OutSame DEF Moves, TypeInv, TypeOK
<1> QED
  BY <1>3, <1>4

LEMMA EndsMove ==
  ASSUME TypeInv, NEW w \in Workers,
         Created(w) \/ AcceptRefused(w) \/ Unreachable(w) \/ RestoreStale(w) \/ Crash(w)
  PROVE  Moves(w)
<1>1. /\ out' = out /\ inb' = inb /\ copy' = copy /\ n' = n /\ (Ask \/ reqs' = reqs)
      /\ h' = [h EXCEPT ![w] = Idle]
  BY DEF Created, AcceptRefused, Unreachable, RestoreStale, Crash, Step, theirs, counts
<1>2. h'[w] = Idle /\ \A v \in Workers : v # w => h'[v] = h[v]
  BY <1>1 DEF TypeInv, TypeOK
<1>3. Motion(w)
  BY <1>1, <1>2, IdleFrame DEF Motion
<1> QED
  BY <1>1, <1>2, <1>3, AskOf, OutSame, InbSame DEF Moves

LEMMA EachMove ==
  ASSUME TypeInv, NEW w \in Workers, Requests(w) \/ Owner(w) \/ Recipient(w) \/ Crash(w)
  PROVE  Moves(w)
<1>1. CASE Requests(w)
  BY <1>1, RequestsMove
<1>2. CASE Owner(w)
  BY <1>2, InsertMove, ReceiveMove, NotCreatedMove, SaveMove, SuspendSaveMove, DeliveredMove,
     NotDeliveredMove, EndsMove DEF Owner
<1>3. CASE Recipient(w)
  BY <1>3, ArriveMove, ApplyUnshareMove, GoMove, PullMove, RefreshMove, AcceptSaveMove,
     DecliningMove, SettleSaveMove, ToldMove, GoneMove, ResumeSaveMove, AnsweredMove, EndsMove
     DEF Recipient
<1>4. CASE Crash(w)
  BY <1>4, EndsMove
<1> QED
  BY <1>1, <1>2, <1>3, <1>4

LEMMA EveryMove ==
  ASSUME TypeInv, Next
  PROVE  \E w \in Workers : Moves(w)
  BY EachMove DEF Next

-----------------------------------------------------------------------------
(* Types and numbers. *)

LEMMA OneFrame ==
  ASSUME TypeInv, Next
  PROVE  h' = [v \in Workers |-> h'[v]]
<1>0. h \in [Workers -> Frames]
  BY DEF TypeInv, TypeOK
<1>1. ASSUME NEW w \in Workers, NEW p, NEW new, Step(w, p, new)
      PROVE  h' = [v \in Workers |-> h'[v]]
  BY <1>0, <1>1 DEF Step
<1>2. ASSUME NEW w \in Workers, NEW p, NEW q, Move(w, p, q)
      PROVE  h' = [v \in Workers |-> h'[v]]
  BY <1>1, <1>2 DEF Move
<1>3. ASSUME NEW w \in Workers, Requests(w)
      PROVE  h' = [v \in Workers |-> h'[v]]
  BY <1>1, <1>2, <1>3 DEF Requests, Create, Update, DetailsChanged, Revoke, Suspend, Retry, Accept,
     Decline, Trash, Purge, Restore, Begin
<1>4. ASSUME NEW w \in Workers, Owner(w)
      PROVE  h' = [v \in Workers |-> h'[v]]
  BY <1>1, <1>2, <1>4 DEF Owner, Insert, Receive, Created, NotCreated, UpdateSave, RevokeSave,
     SuspendSave, Delivered, NotDelivered
<1>5. ASSUME NEW w \in Workers, Recipient(w)
      PROVE  h' = [v \in Workers |-> h'[v]]
  BY <1>1, <1>2, <1>5 DEF Recipient, Arrive, ApplyUnshare, ApplyNothing, ApplyDeclined, ApplyPull,
     Refresh, AcceptPull, AcceptRefused, AcceptSave, Declining, NothingToDecline, Settle,
     SettleSave, Told, Gone, ResumeActive, Resume, ResumeSave, Resumed, Ended, Unreachable,
     RestorePull, RestoreStale, Pull
<1>6. ASSUME NEW w \in Workers, Crash(w)
      PROVE  h' = [v \in Workers |-> h'[v]]
  BY <1>0, <1>6 DEF Crash
<1> QED
  BY <1>3, <1>4, <1>5, <1>6 DEF Next

LEMMA TypeStep == TypeInv /\ [Next]_vars => TypeInv'
<1> SUFFICES ASSUME TypeInv, [Next]_vars PROVE TypeInv'
  OBVIOUS
<1>1. CASE UNCHANGED vars
  BY <1>1 DEF vars, TypeInv, TypeOK
<1>2. CASE Next
  <2>1. PICK w \in Workers : Moves(w)
    BY <1>2, EveryMove
  <2>2. h' \in [Workers -> Frames]
    <3>1. h' = [v \in Workers |-> h'[v]]
      BY <1>2, OneFrame
    <3> QED
      BY <2>1, <3>1 DEF Moves, Motion, TypeInv, TypeOK
  <2>3. \A v \in Workers : FrameOK(h'[v]) /\ AttemptOK(h'[v])
    BY <2>1 DEF Moves, Motion, TypeInv
  <2>4. n' \in 0..MaxShares
    <3>1. n' = n \/ (n < MaxShares /\ n' = n + 1)
      BY <2>1 DEF Moves, Motion, Enters, Offers, Arrives, Goes
    <3> QED
      BY <3>1, SharesAssumption DEF TypeInv, TypeOK
  <2>5. OutMoves(w) /\ InbMoves(w) /\ reqs' \in 0..MaxRequests
    BY <2>1 DEF Moves
  <2> QED
    BY <2>2, <2>3, <2>4, <2>5 DEF OutMoves, InbMoves, TypeInv, TypeOK
<1> QED
  BY <1>1, <1>2

LEMMA TypeInit == Init => TypeInv
<1> SUFFICES ASSUME Init PROVE TypeInv
  OBVIOUS
<1>1. /\ out = [s \in Shares |-> NoOut] /\ inb = [s \in Shares |-> NoInb]
      /\ copy = [s \in Shares |-> NoCopy] /\ n = 0 /\ reqs = 0 /\ h = [w \in Workers |-> Idle]
  BY DEF Init
<1>2. TypeOK
  BY <1>1, EmptyRows, IdleFrame, SharesAssumption DEF TypeOK
<1>3. \A w \in Workers : FrameOK(h[w]) /\ AttemptOK(h[w])
  BY <1>1, IdleFrame
<1>4. \A s \in Shares : ~out[s].due
  BY <1>1, EmptyRows
<1> QED
  BY <1>2, <1>3, <1>4 DEF TypeInv

\* Every variable has its type: no notification is tried more than MaxAttempts
\* times (FederatedNotificationDelivery::attempt), whatever interleaves.
THEOREM TypeCorrect == Spec => []TypeOK
<1>1. TypeInv => TypeOK
  BY DEF TypeInv
<1> QED
  BY TypeInit, TypeStep, <1>1, PTL DEF Spec

\* The point a worker comes to tells where it comes from.
LEMMA Came ==
  ASSUME TypeInv, NEW w \in Workers, Motion(w)
  PROVE  LET f == h[w]
             g == h'[w] IN
         /\ n' \in {n, n + 1} /\ (n' = n + 1 => g.at = "announce")
         /\ g.at = "announce" => f.at = "create" /\ g.s = n + 1 /\ n' = n + 1 /\ g.z = NoInb
         /\ g.at = "announced" => f.at = "announce" /\ g.s = f.s /\ g.z = f.z
         /\ \/ g.z = NoInb
            \/ g.z = inb[g.s]
            \/ f.at \notin {"idle", "create"} /\ g.s = f.s /\ g.z = f.z
         /\ g.at \notin {"idle", "create"} =>
              \/ g.at = "announce"
              \/ f.at \notin {"idle", "create"} /\ g.s = f.s
              \/ f.at = "idle" /\ (out[g.s] # NoOut \/ inb[g.s] # NoInb \/ copy[g.s] # NoCopy)
<1> DEFINE new == [Idle EXCEPT !.at = "create"]
           offer == [Idle EXCEPT !.at = "announce", !.s = n + 1]
<1>1. /\ new.at = "create" /\ new.z = NoInb /\ offer.at = "announce" /\ offer.s = n + 1
      /\ offer.z = NoInb /\ Idle.at = "idle" /\ Idle.z = NoInb
  BY IdleFrame DEF Frames
<1>2. n \in Nat /\ n + 1 # n
  BY SharesAssumption DEF TypeInv, TypeOK
<1> HIDE DEF new, offer
<1>3. CASE h'[w] = Idle /\ n' = n
  BY <1>1, <1>2, <1>3
<1>4. CASE Enters(w)
  <2>1. h'[w] = new \/ h'[w].at \in {"update", "revoke", "suspend", "send", "accept", "decline", "trash", "purge", "restore"}
    BY <1>4 DEF Enters, new
  <2>2. h'[w].z = NoInb \/ h'[w].z = inb[h'[w].s]
    BY <1>1, <1>4 DEF Enters, new
  <2>3. h'[w] = new \/ out[h'[w].s] # NoOut \/ inb[h'[w].s] # NoInb \/ copy[h'[w].s] # NoCopy
    BY <1>4 DEF Enters, new
  <2> QED
    BY <1>1, <1>2, <1>4, <2>1, <2>2, <2>3 DEF Enters
<1>5. CASE Offers(w)
  <2>1. h'[w] = offer /\ h[w].at = "create" /\ n' = n + 1
    BY <1>5 DEF Offers, offer
  <2> QED
    BY <1>1, <1>2, <2>1
<1>6. CASE Arrives(w)
  BY <1>2, <1>6 DEF Arrives
<1>7. CASE Goes(w)
  BY <1>2, <1>7 DEF Goes
<1> QED
  BY <1>3, <1>4, <1>5, <1>6, <1>7 DEF Motion

\* A row of the recipient stays known.
LEMMA StaysKnown ==
  ASSUME NEW w \in Workers, InbMoves(w), NEW s \in Shares, inb[s].st # "none"
  PROVE  inb'[s].st # "none"
  BY DEF InbMoves, InbMove

\* Who holds a row of the recipient works on its share.
LEMMA HoldsRow ==
  ASSUME NEW f \in Frames, FrameOK(f), f.z.st # "none"
  PROVE  f.s \in Shares /\ f.at \notin {"idle", "create"}
<1>1. CASE f.at \notin {"idle", "create"}
  BY <1>1 DEF FrameOK
<1>2. CASE f.at \in {"idle", "create"}
  <2>1. f = [Idle EXCEPT !.at = f.at]
    BY <1>2 DEF FrameOK
  <2>2. f.z = NoInb
    BY <2>1, IdleFrame DEF Frames
  <2> QED
    BY <2>2, EmptyRows
<1> QED
  BY <1>1, <1>2

LEMMA NumberStep == TypeInv /\ TypeInv' /\ NumberInv /\ [Next]_vars => NumberInv'
<1> SUFFICES ASSUME TypeInv, TypeInv', NumberInv, [Next]_vars PROVE NumberInv'
  OBVIOUS
<1>1. CASE UNCHANGED vars
  BY <1>1 DEF vars, NumberInv, Offering
<1>2. CASE Next
  <2>1. PICK w \in Workers : Moves(w)
    BY <1>2, EveryMove
  <2>2. /\ Motion(w) /\ OutMoves(w) /\ InbMoves(w) /\ n \in Nat /\ n \in 0..MaxShares /\ n' \in {n, n + 1}
        /\ \A v \in Workers : v # w => h'[v] = h[v]
        /\ \A v \in Workers : h[v] \in Frames /\ FrameOK(h[v]) /\ h'[v] \in Frames /\ FrameOK(h'[v])
    <3>1. Motion(w) /\ OutMoves(w) /\ InbMoves(w)
      BY <2>1 DEF Moves
    <3>2. n' \in {n, n + 1}
      BY <3>1, Came
    <3>3. \A v \in Workers : v # w => h'[v] = h[v]
      BY <3>1 DEF Motion
    <3> QED
      BY <3>1, <3>2, <3>3, SharesAssumption DEF TypeInv, TypeOK
  <2>4. \A s \in Shares : s > n' => out'[s] = NoOut /\ inb'[s] = NoInb /\ copy'[s] = NoCopy
    <3> SUFFICES ASSUME NEW s \in Shares, s > n'
                 PROVE  out'[s] = NoOut /\ inb'[s] = NoInb /\ copy'[s] = NoCopy
      OBVIOUS
    <3>1. s > n /\ s # h[w].s /\ out[s] = NoOut /\ inb[s] = NoInb /\ copy[s] = NoCopy
      <4>1. h[w].s <= n /\ h[w].s \in 0..MaxShares /\ s > n /\ s \in Nat
        BY <2>2, FrameFields DEF NumberInv, Shares
      <4>2. out[s] = NoOut /\ inb[s] = NoInb /\ copy[s] = NoCopy
        BY <4>1 DEF NumberInv
      <4>3. s # h[w].s
        BY <2>2, <4>1
      <4> QED
        BY <4>1, <4>2, <4>3
    <3>2. ~(s = n + 1 /\ h'[w].at = "announce")
      BY <2>2, Came DEF Shares
    <3> QED
      BY <2>2, <3>1, <3>2 DEF OutMoves, OutMove, InbMoves, InbMove
  <2>5. \A v \in Workers : h'[v].s <= n'
    <3>1. ASSUME NEW v \in Workers, v # w PROVE h'[v].s <= n'
      BY <2>2, <3>1, FrameFields DEF NumberInv
    <3>2. h'[w].s <= n'
      <4>1. CASE h'[w].at \in {"idle", "create"}
        <5>1. h'[w] = [Idle EXCEPT !.at = h'[w].at]
          BY <2>2, <4>1 DEF FrameOK
        <5>2. h'[w].s = 0
          BY <5>1, IdleFrame DEF Frames
        <5> QED
          BY <2>2, <5>2
      <4>2. CASE h'[w].at = "announce"
        BY <2>2, <4>2, Came
      <4>3. CASE h[w].at \notin {"idle", "create"} /\ h'[w].s = h[w].s
        BY <2>2, <4>3, FrameFields DEF NumberInv
      <4>4. CASE /\ h'[w].at \notin {"idle", "create"}
                 /\ out[h'[w].s] # NoOut \/ inb[h'[w].s] # NoInb \/ copy[h'[w].s] # NoCopy
        <5>1. h'[w].s \in Shares
          BY <2>2, <4>4 DEF FrameOK
        <5>2. ~(h'[w].s > n)
          BY <4>4, <5>1 DEF NumberInv
        <5> QED
          BY <2>2, <5>1, <5>2 DEF Shares
      <4> QED
        BY <2>2, <4>1, <4>2, <4>3, <4>4, Came
    <3> QED
      BY <3>1, <3>2
  <2>6. \A v \in Workers : h'[v].z.st # "none" => inb'[h'[v].s].st # "none"
    <3> SUFFICES ASSUME NEW v \in Workers, h'[v].z.st # "none" PROVE inb'[h'[v].s].st # "none"
      OBVIOUS
    <3>1. h'[v].s \in Shares
      BY <2>2, HoldsRow
    <3>2. inb[h'[v].s].st # "none"
      <4>1. CASE v # w
        BY <2>2, <4>1 DEF NumberInv
      <4>2. CASE v = w
        BY <2>2, <4>2, Came, EmptyRows DEF NumberInv
      <4> QED
        BY <4>1, <4>2
    <3> QED
      BY <2>2, <3>1, <3>2, StaysKnown
  <2>7. \A v \in Workers : h'[v].at = "announce" => inb'[h'[v].s].st = "none"
    <3> SUFFICES ASSUME NEW v \in Workers, h'[v].at = "announce" PROVE inb'[h'[v].s].st = "none"
      OBVIOUS
    <3>0. h'[v].s \in Shares
      BY <2>2 DEF FrameOK
    <3>1. CASE v # w
      <4>1. h[v].at = "announce" /\ h'[v] = h[v] /\ inb[h[v].s].st = "none" /\ h[v].s \in Shares
        BY <2>2, <3>0, <3>1 DEF NumberInv
      <4>2. CASE h[w].s # h[v].s
        BY <2>2, <4>1, <4>2 DEF InbMoves, InbMove
      <4>3. CASE h[w].s = h[v].s
        <5>1. h[w].at # "announce"
          BY <3>1, <4>1, <4>3 DEF NumberInv, Offering
        <5>2. h[w].z.st = "none"
          BY <4>1, <4>3 DEF NumberInv
        <5>3. h[w].at \notin {"unshare", "fetched", "decline", "back", "restore"}
          BY <2>2, <5>2 DEF FrameOK
        <5> QED
          BY <2>2, <4>1, <5>1, <5>2, <5>3 DEF InbMoves, InbMove
      <4> QED
        BY <4>2, <4>3
    <3>2. CASE v = w
      <4>1. h[w].at = "create" /\ h'[w].s = n + 1
        BY <2>2, <3>2, Came
      <4>2. inb[h'[w].s] = NoInb /\ h[w].s # h'[w].s
        <5>1. h[w].s <= n /\ h[w].s \in Nat
          BY <2>2, FrameFields DEF NumberInv
        <5> QED
          BY <2>2, <3>0, <3>2, <4>1, <5>1 DEF NumberInv
      <4> QED
        BY <2>2, <3>0, <3>2, <4>2, EmptyRows DEF InbMoves, InbMove
    <3> QED
      BY <3>1, <3>2
  <2>8. \A v, u \in Workers : v # u /\ Offering(v)' /\ Offering(u)' => h'[v].s # h'[u].s
    <3>1. ASSUME NEW u \in Workers, u # w, Offering(u)', Offering(w)' PROVE h'[w].s # h'[u].s
      <4>1. h'[u] = h[u] /\ Offering(u) /\ h[u].s <= n /\ h[u].s \in Nat
        BY <2>2, <3>1, FrameFields DEF Offering, NumberInv
      <4>2. CASE h'[w].at = "announce"
        BY <2>2, <4>1, <4>2, Came
      <4>3. CASE h'[w].at = "announced"
        BY <2>2, <3>1, <4>1, <4>3, Came DEF Offering, NumberInv
      <4> QED
        BY <3>1, <4>2, <4>3 DEF Offering
    <3>2. ASSUME NEW v \in Workers, NEW u \in Workers, v # w, u # w, v # u, Offering(u)', Offering(v)'
          PROVE  h'[v].s # h'[u].s
      BY <2>2, <3>2 DEF Offering, NumberInv
    <3> QED
      BY <3>1, <3>2
  <2>9. \A s \in Shares : inb'[s].linked => inb'[s].st # "none"
    BY <2>2 DEF InbMoves, InbMove, NumberInv
  <2> QED
    BY <2>4, <2>5, <2>6, <2>7, <2>8, <2>9 DEF NumberInv
<1> QED
  BY <1>1, <1>2

LEMMA NumberInit == Init => NumberInv
<1> SUFFICES ASSUME Init PROVE NumberInv
  OBVIOUS
<1>1. /\ out = [s \in Shares |-> NoOut] /\ inb = [s \in Shares |-> NoInb]
      /\ copy = [s \in Shares |-> NoCopy] /\ n = 0 /\ h = [w \in Workers |-> Idle]
  BY DEF Init
<1>2. \A w \in Workers : h[w].s = 0 /\ h[w].z.st = "none" /\ h[w].at = "idle"
  BY <1>1, EmptyRows, IdleFrame
<1>3. \A s \in Shares : ~inb[s].linked /\ out[s] = NoOut /\ inb[s] = NoInb /\ copy[s] = NoCopy
  BY <1>1, EmptyRows
<1> QED
  BY <1>1, <1>2, <1>3 DEF NumberInv, Offering

-----------------------------------------------------------------------------
(* Pairs of points that are apart. *)

LEMMA InBoth ==
  ASSUME NEW P, NEW Q, NEW p \in P, NEW q \in Q
  PROVE  {p, q} \in Both(P, Q) /\ {q, p} \in Both(P, Q)
<1>1. {p, q} = {q, p}
  OBVIOUS
<1> QED
  BY <1>1 DEF Both

LEMMA SeparateStep ==
  ASSUME TypeInv, NEW w \in Workers, Motion(w), NEW A \in SUBSET Conflicts,
         Separate(A), \A pair \in A : "idle" \notin pair
  PROVE  Separate(A)'
<1>1. ASSUME NEW v \in Workers, v # w PROVE {h'[w].at, h'[v].at} \notin A
  <2>1. h'[v] = h[v]
    BY <1>1 DEF Motion
  <2>2. CASE h'[w] = Idle
    BY <2>2, IdleFrame
  <2>3. CASE {h'[w].at, h[v].at} \notin Conflicts
    BY <2>1, <2>3
  <2> QED
    BY <1>1, <2>2, <2>3 DEF Motion
<1>2. ASSUME NEW v \in Workers, NEW u \in Workers, v # u PROVE {h'[v].at, h'[u].at} \notin A
  <2>1. CASE v = w
    BY <1>1, <1>2, <2>1
  <2>2. CASE u = w
    <3>1. {h'[v].at, h'[w].at} = {h'[w].at, h'[v].at}
      OBVIOUS
    <3> QED
      BY <1>1, <1>2, <2>2, <3>1
  <2>3. CASE v # w /\ u # w
    <3>1. h'[v] = h[v] /\ h'[u] = h[u]
      BY <2>3 DEF Motion
    <3> QED
      BY <1>2, <3>1 DEF Separate
  <2> QED
    BY <2>1, <2>2, <2>3
<1> QED
  BY <1>2 DEF Separate

-----------------------------------------------------------------------------
(* What the owner forgets, the recipient no longer holds. *)

LEMMA CameFrom ==
  ASSUME TypeInv, NEW w \in Workers, Motion(w)
  PROVE  LET f == h[w]
             g == h'[w] IN
         /\ g.at = "accept" => f.at = "idle" /\ g.z = inb[g.s] /\ inb[g.s].st = "pending"
         /\ g.at = "restore" => /\ f.at = "idle" /\ g.z = inb[g.s]
                                /\ inb[g.s].st = "declined" /\ inb[g.s].linked
         /\ g.at \in {"unshare", "apply"} => f.at = "send" /\ g.s = f.s /\ g.z = inb[g.s]
         /\ g.at \in {"fetched", "announced", "resume", "back", "tell", "settle", "answered"} =>
              g.s = f.s /\ g.z = f.z
         /\ g.at = "fetched" => f.at = "accept" /\ out[f.s].st = "active"
         /\ g.at = "announced" => f.at = "announce"
         /\ g.at = "resume" => f.at = "restore" /\ out[f.s].st = "declined"
         /\ g.at = "back" => (f.at = "restore" /\ out[f.s].st = "active") \/ f.at = "resume"
         /\ g.at = "answered" /\ g.y.pend = "unshared" => f.at = "unshare"
         /\ g.at = "tell" => (f.at = "apply" /\ f.z.st = "declined") \/ inb'[f.s].st = "declined"
         /\ g.at = "tell" => \/ f.at \in {"apply", "decline"}
                             \/ (f.at \in {"trash", "purge"} /\ f.z.st = "accepted")
         /\ g.at = "settle" => f.at = "tell"
<1> DEFINE new == [Idle EXCEPT !.at = "create"]
           offer == [Idle EXCEPT !.at = "announce", !.s = n + 1]
<1>1. new.at = "create" /\ offer.at = "announce" /\ Idle.at = "idle"
  BY IdleFrame DEF Frames
<1>2. CASE h'[w] = Idle
  BY <1>1, <1>2
<1>3. CASE Enters(w)
  BY <1>1, <1>3 DEF Enters
<1>4. CASE Offers(w)
  BY <1>1, <1>4 DEF Offers
<1>5. CASE Arrives(w)
  BY <1>5 DEF Arrives
<1>6. CASE Goes(w)
  BY <1>6 DEF Goes
<1> QED
  BY <1>2, <1>3, <1>4, <1>5, <1>6 DEF Motion

LEMMA BecomesLinked ==
  ASSUME NEW w \in Workers, InbMoves(w), NEW s \in Shares, inb'[s].linked
  PROVE  inb[s].linked \/ (s = h[w].s /\ h[w].at = "fetched")
  BY DEF InbMoves, InbMove

LEMMA BecomesAccepted ==
  ASSUME NEW w \in Workers, InbMoves(w), NEW s \in Shares, inb'[s].st = "accepted"
  PROVE  inb[s].st = "accepted" \/ (s = h[w].s /\ h[w].at \in {"fetched", "back"})
  BY DEF InbMoves, InbMove

\* A row of the owner goes with the request that offers the share, or with the
\* one that is told that the recipient ended it.
LEMMA BecomesForgotten ==
  ASSUME NEW w \in Workers, OutMoves(w), NEW s \in Shares, out[s].st # "none", out'[s].st = "none"
  PROVE  s = h[w].s /\ (Offering(w) \/ Unsharing(w))
  BY DEF OutMoves, OutMove

LEMMA ForgetPairs ==
  ASSUME Separate(ForgetApart), NEW v \in Workers, NEW w \in Workers, v # w
  PROVE  /\ h[v].at \in {"accept", "fetched"} => h[w].at \notin {"unshare", "announced"}
         /\ h[v].at \in {"restore", "resume", "back"} => h[w].at # "answered"
<1>1. ASSUME h[v].at \in {"accept", "fetched"}, h[w].at \in {"unshare", "announced"} PROVE FALSE
  <2>1. {h[v].at, h[w].at} \in Both({"accept", "fetched"}, {"unshare", "announced"})
    BY <1>1, InBoth
  <2> QED
    BY <2>1 DEF Separate, ForgetApart
<1>2. ASSUME h[v].at \in {"restore", "resume", "back"}, h[w].at = "answered" PROVE FALSE
  <2>1. {h[v].at, h[w].at} \in Both({"restore", "resume", "back"}, {"answered"})
    BY <1>2, InBoth
  <2> QED
    BY <2>1 DEF Separate, ForgetApart
<1> QED
  BY <1>1, <1>2

\* Who moves a row of the recipient to a share that is offered, or told to be over.
LEMMA ForgetWorkers ==
  ASSUME TypeInv, NumberInv, ForgetSteps, NEW v \in Workers, NEW w \in Workers, v # w,
         h[v].s = h[w].s
  PROVE  /\ Offering(w) => h[v].z.st = "none" \/ (h[w].at = "announced" /\ ~Accepting(v) /\ ~Restoring(v))
         /\ Unsharing(w) => ~Accepting(v) /\ ~Restoring(v)
<1>1. h[w].at = "announce" => h[v].z.st = "none"
  BY DEF NumberInv
<1>2. h[w].at = "announced" => ~Accepting(v) /\ ~Restoring(v)
  BY ForgetPairs DEF ForgetSteps, Accepting
<1>3. Unsharing(w) => ~Accepting(v) /\ ~Restoring(v)
  BY ForgetPairs DEF ForgetSteps, Unsharing, Restoring
<1> QED
  BY <1>1, <1>2, <1>3 DEF Offering

LEMMA ForgetStep ==
  ASSUME ForgetApart \in SUBSET Conflicts, TypeInv, TypeInv', NumberInv, NumberInv', ForgetSteps, Next
  PROVE  ForgetSteps'
<1>1. PICK w \in Workers : Moves(w)
  BY EveryMove
<1>2. /\ Motion(w) /\ OutMoves(w) /\ InbMoves(w)
      /\ \A v \in Workers : v # w => h'[v] = h[v]
      /\ \A v \in Workers : h[v] \in Frames /\ FrameOK(h[v]) /\ h'[v] \in Frames /\ FrameOK(h'[v])
  BY <1>1 DEF Moves, Motion, TypeInv, TypeOK
<1>3. Separate(ForgetApart)'
  <2>1. \A pair \in ForgetApart : "idle" \notin pair
    BY DEF ForgetApart, Both
  <2> QED
    BY <1>2, <2>1, SeparateStep DEF ForgetSteps
<1>4. ASSUME NEW v \in Workers, h'[v].at \in {"fetched", "resume", "back"} PROVE out'[h'[v].s].st # "none"
  <2>1. h'[v].s \in Shares
    BY <1>2, <1>4 DEF FrameOK
  <2>2. CASE v # w
    <3>1. /\ h'[v] = h[v] /\ out[h[v].s].st # "none" /\ h[v].s \in Shares
          /\ h[v].z.st # "none" /\ (Accepting(v) \/ Restoring(v))
      BY <1>2, <1>4, <2>1, <2>2 DEF ForgetSteps, FrameOK, Accepting, Restoring
    <3>2. ~(h[v].s = h[w].s /\ (Offering(w) \/ Unsharing(w)))
      BY <2>2, <3>1, ForgetWorkers
    <3> QED
      BY <1>2, <3>1, <3>2, BecomesForgotten
  <2>3. CASE v = w
    <3>1. /\ h'[w].s = h[w].s /\ h[w].at \in {"accept", "restore", "resume"}
          /\ out[h[w].s].st # "none"
      BY <1>2, <1>4, <2>3, CameFrom DEF ForgetSteps
    <3> QED
      BY <1>2, <2>1, <2>3, <3>1, BecomesForgotten DEF Offering, Unsharing
  <2> QED
    BY <2>2, <2>3
<1>5. ASSUME NEW v \in Workers, h'[v].at = "unshare", inb'[h'[v].s].linked PROVE h'[v].z.linked
  <2>1. h'[v].s \in Shares
    BY <1>2, <1>5 DEF FrameOK
  <2>2. CASE v # w
    <3>1. h'[v] = h[v] /\ h[w].at # "fetched"
      BY <1>2, <1>5, <2>2, ForgetPairs DEF ForgetSteps
    <3> QED
      BY <1>2, <1>5, <2>1, <3>1, BecomesLinked DEF ForgetSteps
  <2>3. CASE v = w
    <3>1. h[w].at = "send" /\ h'[w].z = inb[h'[w].s]
      BY <1>2, <1>5, <2>3, CameFrom
    <3> QED
      BY <1>2, <1>5, <2>1, <2>3, <3>1, BecomesLinked
  <2> QED
    BY <2>2, <2>3
<1>6. ASSUME NEW v \in Workers, h'[v].at = "announced"
      PROVE  inb'[h'[v].s].st # "accepted" /\ ~inb'[h'[v].s].linked
  <2>1. h'[v].s \in Shares
    BY <1>2, <1>6 DEF FrameOK
  <2>2. CASE v # w
    <3>1. h'[v] = h[v] /\ inb[h[v].s].st # "accepted" /\ ~inb[h[v].s].linked
      BY <1>2, <1>6, <2>2 DEF ForgetSteps
    <3>2. ~(h[w].s = h[v].s /\ h[w].at \in {"fetched", "back"})
      BY <1>6, <2>2, <3>1, ForgetPairs DEF ForgetSteps, Restoring
    <3> QED
      BY <1>2, <2>1, <3>1, <3>2, BecomesLinked, BecomesAccepted
  <2>3. CASE v = w
    <3>1. h[w].at = "announce" /\ h'[w].s = h[w].s
      BY <1>2, <1>6, <2>3, CameFrom
    <3>2. inb[h[w].s].st = "none" /\ ~inb[h[w].s].linked
      BY <2>1, <2>3, <3>1 DEF NumberInv
    <3> QED
      BY <1>2, <1>6, <2>3, <3>1, <3>2 DEF InbMoves
  <2> QED
    BY <2>2, <2>3
<1>7. ASSUME NEW v \in Workers, Unsharing(v)'
      PROVE  inb'[h'[v].s].st \in {"declined", "revoked"} /\ ~inb'[h'[v].s].linked
  <2>1. h'[v].s \in Shares /\ h'[v].at = "answered" /\ h'[v].y.pend = "unshared"
    BY <1>2, <1>7 DEF FrameOK, Unsharing
  <2>2. CASE v # w
    <3>1. /\ h'[v] = h[v] /\ Unsharing(v) /\ inb[h[v].s].st \in {"declined", "revoked"}
          /\ ~inb[h[v].s].linked
      BY <1>2, <2>1, <2>2 DEF ForgetSteps, Unsharing
    <3>2. h[w].s = h[v].s => h[w].at \notin {"announce", "fetched", "back"}
      BY <2>2, <3>1, ForgetWorkers DEF NumberInv, Accepting, Restoring
    <3> QED
      BY <1>2, <2>1, <3>1, <3>2 DEF InbMoves, InbMove
  <2>3. CASE v = w
    <3>1. h[w].at = "unshare" /\ h'[w].s = h[w].s
      BY <1>2, <2>1, <2>3, CameFrom
    <3> QED
      BY <1>2, <2>1, <2>3, <3>1 DEF InbMoves, ForgetSteps
  <2> QED
    BY <2>2, <2>3
<1>8. ASSUME NEW v \in Workers, NEW u \in Workers, h'[v].s = h'[u].s, h'[v].at = "announced"
      PROVE  ~Restoring(u)'
  <2>1. CASE v = u
    BY <1>8, <2>1 DEF Restoring
  <2>2. CASE v # w /\ u # w
    BY <1>2, <1>8, <2>2 DEF ForgetSteps, Restoring
  <2>3. CASE v = w /\ u # w
    <3>1. h[w].at = "announce" /\ h'[w].s = h[w].s /\ h'[u] = h[u]
      BY <1>2, <1>8, <2>3, CameFrom
    <3>2. h[u].z.st = "none"
      BY <1>8, <2>3, <3>1 DEF NumberInv
    <3> QED
      BY <1>2, <3>1, <3>2 DEF FrameOK, Restoring
  <2>4. CASE u = w /\ v # w
    <3>1. h'[v] = h[v] /\ h[v].at = "announced" /\ ~inb[h[v].s].linked
      BY <1>2, <1>8, <2>4 DEF ForgetSteps
    <3>2. h'[w].at # "restore"
      BY <1>2, <1>8, <2>4, <3>1, CameFrom
    <3>3. ~(h'[w].at \in {"resume", "back"})
      <4>1. ASSUME h'[w].at \in {"resume", "back"} PROVE FALSE
        <5>1. h'[w].s = h[w].s /\ Restoring(w)
          BY <1>2, <4>1, CameFrom DEF Restoring
        <5> QED
          BY <1>8, <2>4, <3>1, <5>1 DEF ForgetSteps
      <4> QED
        BY <4>1
    <3> QED
      BY <2>4, <3>2, <3>3 DEF Restoring
  <2> QED
    BY <2>1, <2>2, <2>3, <2>4
<1>9. ASSUME NEW v \in Workers, NEW u \in Workers, h'[v].s = h'[u].s, Unsharing(v)'
      PROVE  ~Accepting(u)'
  <2>0. h'[v].at = "answered" /\ h'[v].y.pend = "unshared"
    BY <1>9 DEF Unsharing
  <2>1. CASE v = u
    BY <2>0, <2>1 DEF Accepting
  <2>2. CASE v # w /\ u # w
    BY <1>2, <1>9, <2>2 DEF ForgetSteps, Accepting, Unsharing
  <2>3. CASE v = w /\ u # w
    <3>1. h[w].at = "unshare" /\ h'[u] = h[u]
      BY <1>2, <2>0, <2>3, CameFrom
    <3> QED
      BY <2>3, <3>1, ForgetPairs DEF ForgetSteps, Accepting
  <2>4. CASE u = w /\ v # w
    <3>1. h'[v] = h[v] /\ Unsharing(v) /\ inb[h[v].s].st \in {"declined", "revoked"}
      BY <1>2, <2>0, <2>4 DEF ForgetSteps, Unsharing
    <3>2. h'[w].at # "accept"
      BY <1>2, <1>9, <2>4, <3>1, CameFrom
    <3>3. h'[w].at # "fetched"
      BY <1>2, <1>9, <2>4, <3>1, CameFrom DEF ForgetSteps, Accepting
    <3> QED
      BY <2>4, <3>2, <3>3 DEF Accepting
  <2> QED
    BY <2>1, <2>2, <2>3, <2>4
<1>10. ASSUME NEW s \in Shares, out'[s].st = "none", inb'[s].st = "accepted" PROVE FALSE
  <2>1. CASE inb[s].st = "accepted"
    <3>1. out[s].st # "none"
      BY <2>1 DEF ForgetSteps
    <3>2. s = h[w].s /\ (Offering(w) \/ Unsharing(w))
      BY <1>2, <1>10, <3>1, BecomesForgotten
    <3> QED
      BY <2>1, <3>2 DEF ForgetSteps, NumberInv, Offering
  <2>2. CASE inb[s].st # "accepted"
    <3>1. s = h[w].s /\ h[w].at \in {"fetched", "back"}
      BY <1>2, <1>10, <2>2, BecomesAccepted
    <3>2. out[s].st # "none"
      BY <3>1 DEF ForgetSteps
    <3> QED
      BY <1>2, <1>10, <3>1, <3>2, BecomesForgotten DEF Offering, Unsharing
  <2> QED
    BY <2>1, <2>2
<1> QED
  BY <1>3, <1>4, <1>5, <1>6, <1>7, <1>8, <1>9, <1>10 DEF ForgetSteps

\* The recipient holds no share that the owner does not know, once the request
\* that accepts one is apart from what ends the offer, and the one that takes
\* it back from the answer to a revocation: FederatedShareService deletes the
\* row when nothing was offered, FederatedNotificationDelivery::attempt when
\* the recipient answered that its copy is gone.
THEOREM ForgottenByBothHolds ==
  ASSUME ForgetApart \in SUBSET Conflicts
  PROVE  Spec => []ForgottenByBoth
<1>1. Init => ForgetInv
  <2> SUFFICES ASSUME Init PROVE ForgetInv
    OBVIOUS
  <2>1. \A s \in Shares : inb[s].st = "none" /\ ~inb[s].linked
    BY EmptyRows DEF Init
  <2>2. \A w \in Workers : h[w].at = "idle"
    BY IdleFrame DEF Init
  <2>3. \A pair \in ForgetApart : "idle" \notin pair
    BY DEF ForgetApart, Both
  <2>4. Separate(ForgetApart)
    BY <2>2, <2>3 DEF Separate
  <2> QED
    BY <2>1, <2>2, <2>4, TypeInit, NumberInit DEF ForgetInv, ForgetSteps, Unsharing
<1>2. TypeInv /\ TypeInv' /\ ForgetInv /\ [Next]_vars => ForgetInv'
  <2> SUFFICES ASSUME TypeInv, TypeInv', ForgetInv, [Next]_vars PROVE ForgetInv'
    OBVIOUS
  <2>1. NumberInv'
    BY NumberStep DEF ForgetInv
  <2>2. CASE UNCHANGED vars
    BY <2>1, <2>2 DEF vars, ForgetInv, ForgetSteps, Separate, Unsharing, Accepting, Restoring
  <2>3. CASE Next
    BY <2>1, <2>3, ForgetStep DEF ForgetInv
  <2> QED
    BY <2>2, <2>3
<1>3. ForgetInv => ForgottenByBoth
  <2>1. TypeInv => 1..n \subseteq Shares
    BY SharesAssumption DEF TypeInv, TypeOK, Shares
  <2> QED
    BY <2>1 DEF ForgetInv, ForgetSteps, ForgottenByBoth
<1> QED
  BY <1>1, <1>2, <1>3, TypeInit, TypeStep, PTL DEF Spec

-----------------------------------------------------------------------------
(* What is accepted is served. *)

LEMMA BecomesPending ==
  ASSUME NEW w \in Workers, InbMoves(w), NEW s \in Shares, inb'[s].st = "pending"
  PROVE  inb[s].st = "pending" \/ (s = h[w].s /\ h[w].at = "announce")
  BY DEF InbMoves, InbMove

LEMMA BecomesDeclined ==
  ASSUME NEW w \in Workers, OutMoves(w), NEW s \in Shares, out'[s].st = "declined"
  PROVE  out[s].st = "declined" \/ (s = h[w].s /\ h[w].at = "settle")
  BY EmptyRows DEF OutMoves, OutMove

\* A row that is over comes back with the answers to an offer, an acceptance
\* and a restore only.
LEMMA BecomesLive ==
  ASSUME NEW w \in Workers, InbMoves(w), NEW s \in Shares, Over(inb[s].st), ~Over(inb'[s].st)
  PROVE  s = h[w].s /\ h[w].at \in {"announce", "fetched", "back"}
  BY DEF InbMoves, InbMove, Over

\* resume() leaves the share active, or finds its row gone.
LEMMA ResumeWrites ==
  ASSUME TypeInv, NEW w \in Workers, Requests(w) \/ Owner(w) \/ Recipient(w) \/ Crash(w),
         h[w].at = "resume", h'[w].at = "back"
  PROVE  out'[h[w].s].st \in {"none", "active"}
<1>0. h \in [Workers -> Frames]
  BY DEF TypeInv, TypeOK
<1>1. ASSUME NEW p, NEW new, Step(w, p, new) PROVE p = "resume" /\ new # Idle
  <2>1. h[w].at = p /\ h'[w] = new
    BY <1>0, <1>1, StepOf
  <2> QED
    BY <2>1, IdleFrame
<1>2. ASSUME NEW p, NEW q, Move(w, p, q) PROVE p = "resume"
  BY <1>1, <1>2 DEF Move
<1>4. ASSUME NEW p, NEW q, Pull(w, p, q) PROVE p = "resume"
  BY <1>1, <1>4 DEF Pull
<1>5. ~Requests(w)
  BY RequestsIdle
<1>6. ~Owner(w)
  BY <1>1, <1>2 DEF Owner, Insert, Receive, Created, NotCreated, UpdateSave, RevokeSave,
     SuspendSave, Delivered, NotDelivered
<1>7. Recipient(w) => ResumeSave(w)
  <2>1. ~(Arrive(w) \/ ApplyUnshare(w) \/ ApplyNothing(w) \/ ApplyDeclined(w) \/ Refresh(w))
    BY <1>1, <1>2 DEF Arrive, ApplyUnshare, ApplyNothing, ApplyDeclined, Refresh
  <2>2. ~(ApplyPull(w) \/ AcceptPull(w) \/ RestorePull(w))
    BY <1>4 DEF ApplyPull, AcceptPull, RestorePull
  <2>3. ~(AcceptRefused(w) \/ AcceptSave(w) \/ Declining(w) \/ NothingToDecline(w) \/ Settle(w))
    BY <1>1, <1>2 DEF AcceptRefused, AcceptSave, Declining, NothingToDecline, Settle
  <2>4. ~(SettleSave(w) \/ Told(w) \/ Gone(w) \/ ResumeActive(w) \/ Resume(w))
    BY <1>1, <1>2 DEF SettleSave, Told, Gone, ResumeActive, Resume
  <2>5. ~(Resumed(w) \/ Ended(w) \/ Unreachable(w) \/ RestoreStale(w))
    BY <1>1, <1>2 DEF Resumed, Ended, Unreachable, RestoreStale
  <2> QED
    BY <2>1, <2>2, <2>3, <2>4, <2>5 DEF Recipient
<1>8. ~Crash(w)
  BY <1>0, IdleFrame DEF Crash
<1>9. ResumeSave(w)
  BY <1>5, <1>6, <1>7, <1>8
<1> DEFINE o == h[w].o
           s == h[w].s
           y == Quiet(o, "active")
<1>10. s \in Shares /\ out[s] \in OutRows /\ o \in OutRows /\ o.st = "declined"
  BY Holding DEF FrameOK
<1>11. y \in OutRows /\ y.st = "active"
  <2>1. 0 \in 0..MaxAttempts
    BY AttemptsAssumption
  <2> QED
    BY <1>10, <2>1 DEF OutRows, Quiet
<1>12. out' = [out EXCEPT ![s] = Merged(out[s], o, y)]
  BY <1>9 DEF ResumeSave, WriteOut
<1> HIDE DEF y
<1>13. Merged(out[s], o, y).st \in {"none", "active"}
  <2>1. /\ out[s].st = "none" => Merged(out[s], o, y) = out[s]
        /\ out[s].st # "none" => Merged(out[s], o, y).st = Put(out[s].st, o.st, y.st)
    BY <1>10, <1>11, MergedOf
  <2> QED
    BY <1>10, <1>11, <2>1 DEF Put
<1> QED
  BY <1>10, <1>12, <1>13 DEF TypeInv, TypeOK

LEMMA ServedPairs ==
  ASSUME Separate(ServedApart), NEW v \in Workers, NEW w \in Workers, v # w
  PROVE  /\ h[v].at \in {"accept", "fetched"} => h[w].at \notin {"decline", "accept"}
         /\ h[v].at \in {"restore", "resume", "back"} => h[w].at \notin {"apply", "tell", "settle"}
<1>1. ASSUME h[v].at \in {"accept", "fetched"}, h[w].at \in {"decline", "accept"} PROVE FALSE
  <2>1. {h[v].at, h[w].at} \in Both({"accept", "fetched"}, {"decline", "accept"})
    BY <1>1, InBoth
  <2> QED
    BY <2>1 DEF Separate, ServedApart
<1>2. ASSUME h[v].at \in {"restore", "resume", "back"}, h[w].at \in {"apply", "tell", "settle"} PROVE FALSE
  <2>1. {h[v].at, h[w].at} \in Both({"restore", "resume", "back"}, {"apply", "tell", "settle"})
    BY <1>2, InBoth
  <2> QED
    BY <2>1 DEF Separate, ServedApart
<1> QED
  BY <1>1, <1>2

LEMMA ServedStep ==
  ASSUME ServedApart \in SUBSET Conflicts, TypeInv, TypeInv', NumberInv, NumberInv', ServedSteps, Next
  PROVE  ServedSteps'
<1>0. PICK w \in Workers : Requests(w) \/ Owner(w) \/ Recipient(w) \/ Crash(w)
  BY DEF Next
<1>1. h[w].at = "resume" /\ h'[w].at = "back" => out'[h[w].s].st \in {"none", "active"}
  BY <1>0, ResumeWrites
<1>2. /\ Motion(w) /\ OutMoves(w) /\ InbMoves(w)
      /\ \A v \in Workers : v # w => h'[v] = h[v]
      /\ \A v \in Workers : h[v] \in Frames /\ FrameOK(h[v]) /\ h'[v] \in Frames /\ FrameOK(h'[v])
  BY <1>0, EachMove DEF Moves, Motion, TypeInv, TypeOK
<1>3. Separate(ServedApart)'
  <2>1. \A pair \in ServedApart : "idle" \notin pair
    BY DEF ServedApart, Both
  <2> QED
    BY <1>2, <2>1, SeparateStep DEF ServedSteps
<1> USE DEF Over
<1>4. h[w].at = "announce" => inb[h[w].s].st = "none"
  BY DEF NumberInv
\* What is over stays so, unless it is accepted or resumed.
<1>5. ASSUME NEW s \in Shares, Over(inb[s].st), s = h[w].s => h[w].at \notin {"fetched", "back"}
      PROVE  Over(inb'[s].st)
  BY <1>2, <1>4, <1>5, BecomesLive
<1>6. ASSUME NEW s \in Shares, out'[s].st = "declined" PROVE Over(inb'[s].st)
  <2>1. CASE out[s].st = "declined"
    <3>1. s = h[w].s => h[w].at \notin {"fetched", "back"}
      BY <2>1 DEF ServedSteps, Accepting
    <3> QED
      BY <1>5, <2>1, <3>1 DEF ServedSteps
  <2>2. CASE s = h[w].s /\ h[w].at = "settle"
    <3>1. Over(inb[s].st)
      BY <2>2 DEF ServedSteps
    <3> QED
      BY <1>5, <2>2, <3>1
  <2> QED
    BY <1>2, <1>6, <2>1, <2>2, BecomesDeclined
\* No other request accepts or resumes what is told to be over.
<1>7. ASSUME NEW v \in Workers, v # w, h[v].s \in Shares, Over(inb[h[v].s].st),
             \/ h[v].at \in {"tell", "settle"}
             \/ h[v].at = "apply" /\ h[v].z.st = "declined"
      PROVE  Over(inb'[h[v].s].st)
  <2>1. h[v].s = h[w].s => h[w].at \notin {"fetched", "back"}
    BY <1>7, ServedPairs DEF ServedSteps, Accepting
  <2> QED
    BY <1>5, <1>7, <2>1
<1>8. ASSUME NEW v \in Workers, h'[v].at \in {"tell", "settle"} PROVE Over(inb'[h'[v].s].st)
  <2>1. h'[v].s \in Shares
    BY <1>2, <1>8 DEF FrameOK
  <2>2. CASE v # w
    BY <1>2, <1>7, <1>8, <2>1, <2>2 DEF ServedSteps
  <2>3. CASE v = w
    <3>1. h'[w].s = h[w].s
      BY <1>2, <1>8, <2>3, CameFrom
    <3>2. CASE inb'[h[w].s].st = "declined"
      BY <2>3, <3>1, <3>2
    <3>3. CASE inb'[h[w].s].st # "declined"
      <4>1. (h[w].at = "apply" /\ h[w].z.st = "declined") \/ h[w].at = "tell"
        BY <1>2, <1>8, <2>3, <3>3, CameFrom
      <4>2. Over(inb[h[w].s].st)
        BY <4>1 DEF ServedSteps
      <4> QED
        BY <1>5, <2>1, <2>3, <3>1, <4>1, <4>2
    <3> QED
      BY <3>2, <3>3
  <2> QED
    BY <2>2, <2>3
<1>9. ASSUME NEW v \in Workers, h'[v].at = "apply", h'[v].z.st = "declined" PROVE Over(inb'[h'[v].s].st)
  <2>1. h'[v].s \in Shares
    BY <1>2, <1>9 DEF FrameOK
  <2>2. CASE v # w
    BY <1>2, <1>7, <1>9, <2>1, <2>2 DEF ServedSteps
  <2>3. CASE v = w
    <3>1. h[w].at = "send" /\ h'[w].s = h[w].s /\ h'[w].z = inb[h'[w].s]
      BY <1>2, <1>9, <2>3, CameFrom
    <3> QED
      BY <1>5, <1>9, <2>1, <2>3, <3>1
  <2> QED
    BY <2>2, <2>3
<1>10. ASSUME NEW v \in Workers, h'[v].at = "back" PROVE out'[h'[v].s].st # "declined"
  <2>1. h'[v].s \in Shares
    BY <1>2, <1>10 DEF FrameOK
  <2>2. CASE v # w
    <3>1. h'[v] = h[v] /\ out[h[v].s].st # "declined" /\ h[w].at # "settle"
      BY <1>2, <1>10, <2>2, ServedPairs DEF ServedSteps
    <3> QED
      BY <1>2, <2>1, <3>1, BecomesDeclined
  <2>3. CASE v = w
    <3>1. /\ h'[w].s = h[w].s
          /\ (h[w].at = "restore" /\ out[h[w].s].st = "active") \/ h[w].at = "resume"
      BY <1>2, <1>10, <2>3, CameFrom
    <3>2. CASE h[w].at = "resume"
      BY <1>1, <1>10, <2>3, <3>1, <3>2
    <3>3. CASE h[w].at = "restore" /\ out[h[w].s].st = "active"
      BY <1>2, <2>1, <2>3, <3>1, <3>3, BecomesDeclined
    <3> QED
      BY <3>1, <3>2, <3>3
  <2> QED
    BY <2>2, <2>3
<1>11. ASSUME NEW v \in Workers, NEW u \in Workers, v # u, Accepting(v)', Accepting(u)' PROVE FALSE
  <2>1. ASSUME NEW t \in Workers, t # w, Accepting(t)', Accepting(w)' PROVE FALSE
    <3>1. h'[t] = h[t] /\ Accepting(t)
      BY <1>2, <2>1 DEF Accepting
    <3>2. CASE h'[w].at = "accept"
      <4>1. {h'[t].at, h'[w].at} \in Both({"accept", "fetched"}, {"decline", "accept"})
        BY <2>1, <3>2, InBoth DEF Accepting
      <4> QED
        BY <1>3, <2>1, <4>1 DEF Separate, ServedApart
    <3>3. CASE h'[w].at = "fetched"
      <4>1. Accepting(w)
        BY <1>2, <3>3, CameFrom DEF Accepting
      <4> QED
        BY <2>1, <3>1, <4>1 DEF ServedSteps
    <3> QED
      BY <2>1, <3>2, <3>3 DEF Accepting
  <2>2. CASE v # w /\ u # w
    BY <1>2, <1>11, <2>2 DEF ServedSteps, Accepting
  <2> QED
    BY <1>11, <2>1, <2>2
<1>12. ASSUME NEW v \in Workers, Accepting(v)'
       PROVE  inb'[h'[v].s].st \in {"pending", "revoked"} /\ out'[h'[v].s].st # "declined"
  <2>1. h'[v].s \in Shares /\ h'[v].z.st = "pending"
    BY <1>2, <1>12 DEF FrameOK, Accepting
  <2>2. CASE v # w
    <3>1. /\ h'[v] = h[v] /\ Accepting(v) /\ inb[h[v].s].st \in {"pending", "revoked"}
          /\ out[h[v].s].st # "declined"
      BY <1>2, <1>12, <2>2 DEF ServedSteps, Accepting
    <3>2. h[w].s = h[v].s => /\ h[w].z.st \in {"none", "pending", "revoked"}
                             /\ h[w].at \notin {"tell", "settle", "announce", "fetched", "back", "decline"}
      <4>1. h[w].s = h[v].s => /\ h[w].z.st \in {"none", "pending", "revoked"}
                               /\ h[w].at \notin {"tell", "settle"}
        BY <3>1 DEF ServedSteps
      <4>2. h[w].at \notin {"fetched", "decline"}
        BY <2>2, <3>1, ServedPairs DEF ServedSteps, Accepting
      <4>3. h[w].s = h[v].s => h[w].at # "announce"
        BY <1>4, <3>1
      <4>4. h[w].at = "back" => h[w].z.st = "declined"
        BY <1>2 DEF FrameOK
      <4> QED
        BY <4>1, <4>2, <4>3, <4>4
    <3>3. inb'[h[v].s].st \in {"pending", "revoked"}
      BY <1>2, <2>1, <3>1, <3>2 DEF InbMoves, InbMove
    <3> QED
      BY <1>2, <2>1, <3>1, <3>2, <3>3, BecomesDeclined
  <2>3. CASE v = w
    <3>1. /\ h[w].at \in {"idle", "accept"} /\ inb[h'[w].s].st \in {"pending", "revoked"}
          /\ out[h'[w].s].st # "declined"
      <4>1. CASE h'[w].at = "accept"
        BY <1>2, <2>1, <2>3, <4>1, CameFrom DEF ServedSteps
      <4>2. CASE h'[w].at = "fetched"
        BY <1>2, <4>2, CameFrom DEF ServedSteps, Accepting
      <4> QED
        BY <1>12, <2>3, <4>1, <4>2 DEF Accepting
    <3>2. inb'[h'[w].s] = inb[h'[w].s]
      BY <1>2, <2>1, <2>3, <3>1 DEF InbMoves, InbMove, FrameOK
    <3> QED
      BY <1>2, <2>1, <2>3, <3>1, <3>2, BecomesDeclined
  <2> QED
    BY <2>2, <2>3
<1>13. ASSUME NEW v \in Workers, h'[v].s \in Shares, inb'[h'[v].s].st = "pending"
       PROVE  h'[v].z.st \in {"none", "pending"}
  <2> DEFINE s == h'[v].s
  <2>1. inb[s].st = "pending" \/ (inb[s].st = "none" /\ s = h[w].s)
    BY <1>2, <1>4, <1>13, BecomesPending
  <2>2. ASSUME NEW u \in Workers, h[u].s = s PROVE h[u].z.st \in {"none", "pending"}
    BY <1>13, <2>1, <2>2 DEF ServedSteps, NumberInv
  <2>3. CASE v # w
    BY <1>2, <2>2, <2>3
  <2>4. CASE v = w
    BY <1>2, <2>1, <2>2, <2>4, Came, EmptyRows
  <2> QED
    BY <2>3, <2>4
<1>14. ASSUME NEW v \in Workers, NEW u \in Workers, h'[v].s = h'[u].s, Accepting(v)'
       PROVE  /\ h'[u].z.st \in {"none", "pending", "revoked"}
              /\ h'[u].at \notin {"tell", "settle"}
  <2>0. h'[v].s \in Shares /\ h'[v].z.st = "pending"
    BY <1>2, <1>14 DEF FrameOK, Accepting
  <2>1. CASE v = u
    BY <1>14, <2>0, <2>1 DEF Accepting
  <2>2. CASE v # w /\ u # w
    BY <1>2, <1>14, <2>2 DEF ServedSteps, Accepting
  <2>3. CASE v = w /\ u # w
    <3>1. CASE h'[w].at = "accept"
      <4>1. inb[h[u].s].st = "pending" /\ h[u].s \in Shares /\ h'[u] = h[u]
        BY <1>2, <1>14, <2>0, <2>3, <3>1, CameFrom
      <4> QED
        BY <4>1 DEF ServedSteps
    <3>2. CASE h'[w].at = "fetched"
      <4>1. Accepting(w) /\ h'[w].s = h[w].s /\ h'[u] = h[u]
        BY <1>2, <2>3, <3>2, CameFrom DEF Accepting
      <4> QED
        BY <1>14, <2>3, <4>1 DEF ServedSteps
    <3> QED
      BY <1>14, <2>3, <3>1, <3>2 DEF Accepting
  <2>4. CASE u = w /\ v # w
    <3>1. /\ h'[v] = h[v] /\ Accepting(v) /\ inb[h[v].s].st \in {"pending", "revoked"}
          /\ inb'[h[v].s].st \in {"pending", "revoked"}
      BY <1>2, <1>12, <1>14, <2>4 DEF ServedSteps, Accepting
    <3>2. h[w].s = h[v].s => /\ h[w].z.st \in {"none", "pending", "revoked"}
                             /\ h[w].at \notin {"tell", "settle"}
      BY <3>1 DEF ServedSteps
    <3>3. h'[w].z.st \in {"none", "pending", "revoked"}
      BY <1>2, <1>14, <2>4, <3>1, <3>2, Came, EmptyRows
    <3>4. h'[w].at \notin {"tell", "settle"}
      <4>1. h'[w].at # "settle"
        BY <1>2, <1>14, <2>4, <3>1, <3>2, CameFrom
      <4>2. h'[w].at # "tell"
        BY <1>2, <1>14, <2>4, <3>1, <3>2, CameFrom
      <4> QED
        BY <4>1, <4>2
    <3> QED
      BY <2>4, <3>3, <3>4
  <2> QED
    BY <2>1, <2>2, <2>3, <2>4
<1> QED
  BY <1>3, <1>6, <1>8, <1>9, <1>10, <1>11, <1>12, <1>13, <1>14 DEF ServedSteps

\* An accepted copy is not cut off: the owner does not hold the share for
\* declined, when an acceptance is apart from a decline and from another
\* acceptance, and a restore from what the owner is told of the decline
\* (FederatedCopyDeclineService, FederatedDeclineReceiver).
THEOREM AcceptedIsServedHolds ==
  ASSUME ServedApart \in SUBSET Conflicts
  PROVE  Spec => []AcceptedIsServed
<1>1. Init => ServedInv
  <2> SUFFICES ASSUME Init PROVE ServedInv
    OBVIOUS
  <2>1. \A s \in Shares : inb[s].st = "none" /\ out[s].st = "none"
    BY EmptyRows DEF Init
  <2>2. \A w \in Workers : h[w].at = "idle"
    BY IdleFrame DEF Init
  <2>3. \A pair \in ServedApart : "idle" \notin pair
    BY DEF ServedApart, Both
  <2>4. Separate(ServedApart)
    BY <2>2, <2>3 DEF Separate
  <2> QED
    BY <2>1, <2>2, <2>4, TypeInit, NumberInit DEF ServedInv, ServedSteps, Accepting
<1>2. TypeInv /\ TypeInv' /\ ServedInv /\ [Next]_vars => ServedInv'
  <2> SUFFICES ASSUME TypeInv, TypeInv', ServedInv, [Next]_vars PROVE ServedInv'
    OBVIOUS
  <2>1. NumberInv'
    BY NumberStep DEF ServedInv
  <2>2. CASE UNCHANGED vars
    BY <2>1, <2>2 DEF vars, ServedInv, ServedSteps, Separate, Accepting
  <2>3. CASE Next
    BY <2>1, <2>3, ServedStep DEF ServedInv
  <2> QED
    BY <2>2, <2>3
<1>3. ServedInv => AcceptedIsServed
  BY DEF ServedInv, ServedSteps, AcceptedIsServed, Over
<1> QED
  BY <1>1, <1>2, <1>3, TypeInit, TypeStep, PTL DEF Spec
=============================================================================
