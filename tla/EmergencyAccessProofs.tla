----------------------- MODULE EmergencyAccessProofs -----------------------
(***************************************************************************)
(* Theorems about EmergencyAccess, for every value of its constants.  All   *)
(* but type correctness are under the condition that the operations of      *)
(* Apart do not overlap.                                                    *)
(***************************************************************************)
EXTENDS EmergencyAccess, TLAPS

Cascades == {"sweep", "void", "clear"}
Stores == {"designate", "carry"}

\* The write that w goes on to will find the row that w loaded.
Mine(w) == h[w].x.id = row.id /\ row.state # "none"

\* The wait that a pending request has is over.
Served == row.asked # Null /\ row.env <= row.asked /\ row.asked + row.wait <= now

Exclusive ==
  \A v, w \in Workers : v # w => {h[v].op, h[w].op} \notin Apart

\* The row: an envelope was stored before the request that is under way, and a
\* void row has none.
RowInv ==
  /\ row.state # "none" => row.wait \in Waits
  /\ row.state = "none" => row.env = Null /\ row.gsuite = Null /\ row.esuite = Null
  /\ row.env <= now /\ row.asked <= now
  /\ row.state = "requested" => row.asked # Null /\ row.env <= row.asked
  /\ row.state = "invalidated" => row.env = Null

\* What a handler knows of the row it is about to write: what the row was when
\* it was loaded, and what the row may have become since.
Loaded(w) ==
  LET f == h[w] IN
  /\ f.x.id <= row.id
  /\ f.op \in {"request", "carry"} => f.x.state = "granted"
  /\ f.op \in {"decline", "promote"} => f.x.state = "requested" /\ f.x.asked # Null
  /\ f.op \in {"sweep", "void"} => f.x.state \notin {"none", "invalidated"}
  /\ f.op \in Cascades => f.x.id = row.id

Since(w) ==
  LET f == h[w] IN
  Mine(w) =>
    /\ f.op \in {"request", "carry"} =>
         row.state # "approved" /\ (row.state = "requested" => row.asked = now)
    /\ f.op = "carry" => row.state # "invalidated"
    /\ f.op = "promote" =>
         row.state \in {"requested", "approved", "invalidated"} /\ (row.env # Null => Served)
    /\ f.op = "designate" /\ f.x.state # "none" => row.state \in {f.x.state, "granted"}
    /\ f.op \in {"sweep", "void"} /\ f.x.env = Null => row.env = Null

\* A promotion and a request, or a carry, of the same row do not meet.
Meeting(v, w) ==
  h[v].op = "promote" /\ h[w].op \in {"request", "carry"} => ~(Mine(v) /\ Mine(w))

WaitInv ==
  /\ TypeOK /\ Exclusive /\ RowInv /\ WaitNotInherited
  /\ \A w \in Workers : Loaded(w) /\ Since(w)
  /\ \A v, w \in Workers : Meeting(v, w)

\* An envelope about to be stored is bound to suites that are alive, and so is
\* the row, if the handler leaves a suite as it loaded it.
Bound(w) ==
  LET f == h[w] IN
  f.op \in Stores =>
    /\ f.g \in Suites \ gEnded /\ f.e \in Suites \ eEnded
    /\ Mine(w) => /\ row.gsuite = f.x.gsuite \/ row.gsuite \notin gEnded
                  /\ row.esuite = f.x.esuite \/ row.esuite \notin eEnded

SuiteInv ==
  WaitInv /\ EndedSuiteReleasesNothing /\ \A w \in Workers : Bound(w)

-----------------------------------------------------------------------------
(* Type correctness.                                                        *)

LEMMA Loads ==
  ASSUME TypeOK, NEW w \in Workers, NEW o \in Ops, NEW g \in Suites \cup {Null},
         NEW e \in Suites \cup {Null}, Begin(w, o, g, e),
         gEnded' \subseteq Suites, eEnded' \subseteq Suites, released' \subseteq Days
  PROVE  TypeOK'
<1> DEFINE f == [op |-> o, x |-> row, g |-> g, e |-> e]
<1>1. f \in Handlers
  BY DEF TypeOK, Handlers
<1>2. h' = [h EXCEPT ![w] = f] /\ UNCHANGED <<row, gs, es, now>>
  BY DEF Begin
<1> HIDE DEF f
<1> QED
  BY <1>1, <1>2 DEF TypeOK

LEMMA IdleTyped == Idle \in Handlers
  BY BoundsAssumption DEF Idle, Handlers, Rows, NoRow, States, Ops, Null

LEMMA Written ==
  ASSUME TypeOK, NEW w \in Workers, NEW o, NEW new \in Rows, Write(w, o, new)
  PROVE  TypeOK'
  BY IdleTyped DEF Write, TypeOK

LEMMA TypeStep ==
  ASSUME TypeOK, [Next]_vars
  PROVE  TypeOK'
<1> USE BoundsAssumption
<1>1. ASSUME NEW w \in Workers, Accept(w) PROVE TypeOK'
  <2>1. Null \in Suites \cup {Null} /\ gs \in Suites \cup {Null} /\ es \in Suites \cup {Null}
    BY DEF TypeOK
  <2>2. {"designate", "request", "decline", "promote", "carry", "sweep", "void", "clear"} \subseteq Ops
    BY DEF Ops
  <2>3. CASE Designate(w) \/ ReEnvelope(w)
    <3>1. PICK o \in {"designate", "carry"} :
            Begin(w, o, gs, es) /\ UNCHANGED <<gEnded, eEnded, released>>
      BY <2>3 DEF Designate, ReEnvelope, Load
    <3> QED
      BY <2>1, <2>2, <3>1, Loads DEF TypeOK
  <2>4. CASE Request(w) \/ Decline(w) \/ ApproveElapsed(w)
    <3>1. PICK o \in {"request", "decline", "promote"} :
            Begin(w, o, Null, Null) /\ UNCHANGED <<gEnded, eEnded, released>>
      BY <2>4 DEF Request, Decline, ApproveElapsed, Load
    <3> QED
      BY <2>1, <2>2, <3>1, Loads DEF TypeOK
  <2>5. CASE FetchElapsed(w)
    <3>1. Begin(w, "promote", Null, Null) /\ released' \subseteq Days /\ UNCHANGED <<gEnded, eEnded>>
      BY <2>5 DEF FetchElapsed, TypeOK, Rows
    <3> QED
      BY <2>1, <2>2, <3>1, Loads DEF TypeOK
  <2>6. CASE MigrationCompleted(w) \/ GrantorRevoked(w) \/ GranteeRevoked(w)
    <3>1. gEnded' \subseteq Suites /\ eEnded' \subseteq Suites /\ released' \subseteq Days
      <4>1. 1..gs \subseteq Suites /\ 1..es \subseteq Suites
        BY DEF TypeOK, Suites
      <4>2. gs > 1 => gs - 1 \in Suites
        BY DEF TypeOK, Suites
      <4> QED
        BY <2>6, <4>1, <4>2 DEF MigrationCompleted, GrantorRevoked, GranteeRevoked, TypeOK
    <3>2. PICK o \in {"sweep", "clear", "void"}, b \in BOOLEAN : Cascade(w, o, b)
      BY <2>6 DEF MigrationCompleted, GrantorRevoked, GranteeRevoked
    <3>3. CASE Begin(w, o, Null, Null)
      BY <2>1, <2>2, <3>1, <3>3, Loads
    <3>4. CASE UNCHANGED <<row, gs, es, now, h>>
      BY <3>1, <3>4 DEF TypeOK
    <3> QED
      BY <3>2, <3>3, <3>4 DEF Cascade
  <2> QED
    BY <1>1, <2>3, <2>4, <2>5, <2>6 DEF Accept
<1>2. ASSUME NEW w \in Workers, Finish(w) PROVE TypeOK'
  <2>1. /\ row \in Rows /\ now \in Days /\ h[w] \in Handlers
        /\ h[w].g \in Suites \cup {Null} /\ h[w].e \in Suites \cup {Null} /\ h[w].x \in Rows
    BY DEF TypeOK, Handlers
  <2>2. Deleted \in Rows
    BY <2>1 DEF Deleted, Rows, NoRow, States, Null
  <2>3. CASE Insert(w)
    <3>1. row' \in Rows
      BY <2>1, <2>3 DEF Insert, Rows, States, Null
    <3> QED
      BY <2>3, <3>1, IdleTyped DEF Insert, TypeOK
  <2> DEFINE x == h[w].x
  <2>4. /\ row.state \in States /\ row.asked \in Days \cup {Null} /\ row.wait \in Waits \cup {0}
        /\ row.env \in Days \cup {Null} /\ row.gsuite \in Suites \cup {Null}
        /\ row.esuite \in Suites \cup {Null} /\ Null \in Days \cup {Null}
    BY <2>1 DEF Rows
  <2>5. /\ \A st \in States : Put(row.state, x.state, st) \in States
        /\ Put(row.asked, x.asked, Null) \in Days \cup {Null}
        /\ \A n \in Waits : Put(row.wait, x.wait, n) \in Waits \cup {0}
        /\ Put(row.env, x.env, Null) \in Days \cup {Null}
        /\ Put(row.gsuite, x.gsuite, h[w].g) \in Suites \cup {Null}
        /\ Put(row.esuite, x.esuite, h[w].e) \in Suites \cup {Null}
    BY <2>1, <2>4 DEF Put
  <2>6. {"granted", "requested", "approved", "invalidated"} \subseteq States
    BY DEF States
  <2> HIDE DEF x
  <2>8. CASE Redesignate(w)
    <3> DEFINE new(n) ==
          [row EXCEPT !.state = Put(@, x.state, "granted"), !.asked = Put(@, x.asked, Null),
                      !.wait = Put(@, x.wait, n), !.env = now,
                      !.gsuite = Put(@, x.gsuite, h[w].g), !.esuite = Put(@, x.esuite, h[w].e)]
    <3>1. PICK n \in Waits : Write(w, "designate", new(n))
      BY <2>8 DEF Redesignate, x
    <3>2. new(n) \in Rows
      BY <2>1, <2>5, <2>6 DEF Rows
    <3> HIDE DEF new
    <3> QED
      BY <3>1, <3>2, Written
  <2>9. CASE RequestSave(w)
    <3>1. [row EXCEPT !.state = Put(@, x.state, "requested"), !.asked = now] \in Rows
      BY <2>1, <2>5, <2>6 DEF Rows
    <3> QED
      BY <2>9, <3>1, Written DEF RequestSave, x
  <2>10. CASE DeclineSave(w)
    <3>1. [row EXCEPT !.state = Put(@, x.state, "granted"), !.asked = Put(@, x.asked, Null)] \in Rows
      BY <2>1, <2>5, <2>6 DEF Rows
    <3> QED
      BY <2>10, <3>1, Written DEF DeclineSave, x
  <2>11. CASE PromoteSave(w)
    <3>1. [row EXCEPT !.state = Put(@, x.state, "approved")] \in Rows
      BY <2>1, <2>5, <2>6 DEF Rows
    <3> QED
      BY <2>11, <3>1, Written DEF PromoteSave, x
  <2>12. CASE ReEnvelopeSave(w)
    <3>1. [row EXCEPT !.env = now, !.gsuite = Put(@, x.gsuite, h[w].g),
                      !.esuite = Put(@, x.esuite, h[w].e)] \in Rows
      BY <2>1, <2>5 DEF Rows
    <3> QED
      BY <2>12, <3>1, Written DEF ReEnvelopeSave, x
  <2>13. CASE InvalidateSave(w)
    <3>1. [row EXCEPT !.state = Put(@, x.state, "invalidated"), !.env = Put(@, x.env, Null),
                      !.asked = Put(@, x.asked, Null)] \in Rows
      BY <2>1, <2>5, <2>6 DEF Rows
    <3> QED
      BY <2>13, <3>1, Written DEF InvalidateSave, x
  <2>7. CASE ClearSave(w)
    BY <2>2, <2>7, Written DEF ClearSave
  <2> QED
    BY <1>2, <2>3, <2>7, <2>8, <2>9, <2>10, <2>11, <2>12, <2>13 DEF Finish
<1>3. CASE Revoke
  BY <1>3 DEF Revoke, Deleted, TypeOK, Rows, NoRow, States, Null
<1>4. CASE FetchApproved
  BY <1>4 DEF FetchApproved, TypeOK, Rows
<1>5. CASE GrantorSuite \/ GranteeSuite
  <2>1. gs' \in Suites /\ es' \in Suites
    BY <1>5 DEF GrantorSuite, GranteeSuite, TypeOK, Suites
  <2> QED
    BY <1>5, <2>1 DEF GrantorSuite, GranteeSuite, TypeOK
<1>6. CASE Tick
  BY <1>6 DEF Tick, TypeOK, Days
<1>7. CASE UNCHANGED vars
  BY <1>7 DEF vars, TypeOK
<1> QED
  BY <1>1, <1>2, <1>3, <1>4, <1>5, <1>6, <1>7 DEF Next

\* Every variable has its type, whatever overlaps.
THEOREM TypeCorrect == Spec => []TypeOK
<1>1. Init => TypeOK
  BY BoundsAssumption, IdleTyped DEF Init, TypeOK, Rows, NoRow, States, Suites, Days, Null
<1> QED
  BY <1>1, TypeStep, PTL DEF Spec

-----------------------------------------------------------------------------
(* A handler begins, or writes.                                             *)

LEMMA Numbers ==
  ASSUME TypeOK
  PROVE  /\ row.id \in Nat /\ now \in Nat /\ row.asked \in Nat /\ row.wait \in Nat
         /\ row.env \in Nat
         /\ \A v \in Workers : h[v].x.id \in Nat
<1>1. \A r \in Rows : /\ r.id \in 0..MaxRows /\ r.asked \in Days \cup {Null}
                      /\ r.wait \in Waits \cup {0} /\ r.env \in Days \cup {Null}
  BY DEF Rows
<1>2. 0..MaxRows \subseteq Nat /\ Days \cup {Null} \subseteq Nat /\ Waits \cup {0} \subseteq Nat
  BY WaitsAssumption, BoundsAssumption DEF Days, Null
<1>3. row \in Rows /\ now \in Days /\ \A v \in Workers : h[v].x \in Rows
  BY DEF TypeOK, Handlers
<1> QED
  BY <1>1, <1>2, <1>3

LEMMA Apartness ==
  ASSUME Exclusive, NEW v \in Workers, NEW w \in Workers, v # w
  PROVE  /\ h[v].op = "promote" => h[w].op \notin {"decline", "designate"}
         /\ h[v].op = "request" => h[w].op # "designate"
         /\ h[v].op \in Stores => h[w].op \notin Cascades
<1>1. {h[v].op, h[w].op} \notin Apart
  BY DEF Exclusive
<1>2. /\ {"promote", "decline"} \in Apart /\ {"promote", "designate"} \in Apart
      /\ {"request", "designate"} \in Apart
      /\ \A o \in Stores, c \in Cascades : {o, c} \in Apart
  BY DEF Apart, Stores, Cascades
<1> QED
  BY <1>1, <1>2

\* What holds of the row when a handler loads it to do o.
Ready(o) ==
  /\ o \in {"request", "carry"} => row.state = "granted"
  /\ o \in {"decline", "promote"} => row.state = "requested"
  /\ o = "promote" => Elapsed
  /\ o \in {"sweep", "void"} => row.state \notin {"none", "invalidated"}

LEMMA BeginExclusive ==
  ASSUME Exclusive, TypeOK, Apart \subseteq Conflicts, NEW w \in Workers, NEW o \in Ops,
         NEW g, NEW e, Begin(w, o, g, e)
  PROVE  Exclusive'
<1>1. \A v \in Workers : h'[v].op = IF v = w THEN o ELSE h[v].op
  BY DEF Begin, TypeOK
<1>2. ASSUME NEW v \in Workers, v # w PROVE {o, h[v].op} \notin Apart
  <2>1. \A p \in Apart : "idle" \notin p
    BY DEF Apart
  <2> QED
    BY <2>1 DEF Begin, Free
<1>3. ASSUME NEW u \in Workers, NEW v \in Workers, u # v PROVE {h'[u].op, h'[v].op} \notin Apart
  <2>1. {h[u].op, h[v].op} \notin Apart
    BY <1>3 DEF Exclusive
  <2>2. \A a, b : {a, b} = {b, a}
    OBVIOUS
  <2> QED
    BY <1>1, <1>2, <1>3, <2>1, <2>2
<1> QED
  BY <1>3 DEF Exclusive

\* A handler that loads the row knows it, and the others know no less.
LEMMA Begins ==
  ASSUME WaitInv, TypeOK', Apart \subseteq Conflicts, NEW w \in Workers,
         NEW o \in Ops \ {"idle"}, NEW g, NEW e, Begin(w, o, g, e), Ready(o)
  PROVE  WaitInv'
<1>1. /\ row' = row /\ now' = now
      /\ h'[w].op = o /\ h'[w].x = row
      /\ \A v \in Workers \ {w} : h'[v] = h[v]
  BY DEF Begin, WaitInv, TypeOK
<1>2. RowInv' /\ WaitNotInherited'
  BY <1>1 DEF WaitInv, RowInv, WaitNotInherited
<1>3. row.id \in Nat /\ now \in Nat /\ row.asked \in Nat /\ row.wait \in Nat /\ row.env \in Nat
  BY Numbers DEF WaitInv
<1>4. row.state # "none" => row.wait # 0
  BY WaitsAssumption DEF WaitInv, RowInv
<1>5. Loaded(w)' /\ Since(w)'
  <2>1. o = "promote" => row.state = "requested" /\ row.asked # Null /\ row.asked + row.wait <= now
    BY DEF Ready, Elapsed
  <2>2. o \in {"decline", "promote"} => row.asked # Null /\ row.env <= row.asked
    BY DEF Ready, WaitInv, RowInv
  <2>3. Loaded(w)'
    BY <1>1, <1>3, <2>2 DEF Ready, Loaded, Cascades
  <2>4. Since(w)'
    BY <1>1, <2>1, <2>2 DEF Ready, Since, Served
  <2> QED
    BY <2>3, <2>4
<1>6. ASSUME NEW v \in Workers \ {w} PROVE Loaded(v)' /\ Since(v)'
  BY <1>1 DEF WaitInv, Loaded, Since, Mine, Served
<1>7. ASSUME NEW u \in Workers, NEW v \in Workers PROVE Meeting(u, v)'
  <2>1. CASE u # w /\ v # w
    BY <1>1, <2>1 DEF WaitInv, Meeting, Mine
  <2>2. CASE u = w /\ v # w
    <3>1. ~(o = "promote" /\ h[v].op \in {"request", "carry"} /\ Mine(v))
      BY <1>3, <1>4 DEF Ready, Elapsed, WaitInv, Since, Mine
    <3> QED
      BY <1>1, <2>2, <3>1 DEF Meeting, Mine
  <2>3. CASE u # w /\ v = w
    <3>1. ~(h[u].op = "promote" /\ o \in {"request", "carry"} /\ Mine(u))
      BY DEF Ready, WaitInv, Since, Mine
    <3> QED
      BY <1>1, <2>3, <3>1 DEF Meeting, Mine
  <2>4. CASE u = w /\ v = w
    BY <1>1, <2>4 DEF Meeting
  <2> QED
    BY <2>1, <2>2, <2>3, <2>4
<1>8. Exclusive'
  BY BeginExclusive DEF WaitInv
<1> QED
  BY <1>2, <1>5, <1>6, <1>7, <1>8 DEF WaitInv

\* A handler that ends leaves the invariant to the row it wrote.
LEMMA Ends ==
  ASSUME WaitInv, TypeOK', NEW w \in Workers, h' = [h EXCEPT ![w] = Idle], now' = now,
         RowInv', WaitNotInherited', row'.id \in Nat,
         \/ row' = row
         \/ row'.id > row.id /\ \A v \in Workers \ {w} : h[v].op \notin Cascades
         \/ /\ row'.id = row.id /\ row.state # "none"
            /\ \A v \in Workers \ {w} : Since(v)'
  PROVE  WaitInv'
<1>1. /\ h'[w] = Idle
      /\ \A v \in Workers \ {w} : h'[v] = h[v]
  BY DEF WaitInv, TypeOK
<1>2. row.id \in Nat /\ \A v \in Workers : h[v].x.id \in Nat
  BY Numbers DEF WaitInv
<1>3. Exclusive'
  <2>1. \A p \in Apart : "idle" \notin p
    BY DEF Apart
  <2>2. Idle.op = "idle"
    BY DEF Idle
  <2> QED
    BY <1>1, <2>1, <2>2 DEF WaitInv, Exclusive
<1>4. \A v \in Workers \ {w} : Since(v)'
  <2>1. CASE row' = row
    BY <1>1, <2>1 DEF WaitInv, Since, Mine, Served
  <2>2. CASE row'.id > row.id
    BY <1>1, <1>2, <2>2 DEF WaitInv, Loaded, Since, Mine
  <2> QED
    BY <2>1, <2>2
<1>5. Loaded(w)' /\ Since(w)'
  BY <1>1 DEF Idle, NoRow, Loaded, Since, Cascades
<1>6. ASSUME NEW v \in Workers \ {w} PROVE Loaded(v)'
  <2>1. Loaded(v)
    BY DEF WaitInv
  <2>2. CASE row'.id = row.id
    BY <1>1, <2>1, <2>2 DEF Loaded
  <2>3. CASE row'.id > row.id /\ h[v].op \notin Cascades
    BY <1>1, <1>2, <2>1, <2>3 DEF Loaded
  <2> QED
    BY <2>2, <2>3
<1>7. ASSUME NEW u \in Workers, NEW v \in Workers PROVE Meeting(u, v)'
  <2>1. CASE u = w \/ v = w
    BY <1>1, <2>1 DEF Meeting, Idle
  <2>2. CASE u # w /\ v # w
    BY <1>1, <1>2, <2>2 DEF WaitInv, Loaded, Meeting, Mine
  <2> QED
    BY <2>1, <2>2
<1> QED
  BY <1>3, <1>4, <1>5, <1>6, <1>7 DEF WaitInv

-----------------------------------------------------------------------------
(* Each write keeps the invariant.                                          *)

\* A write that finds no row changes none.
LEMMA NotMine ==
  ASSUME WaitInv, TypeOK', NEW w \in Workers, NEW o, NEW new, Write(w, o, new), ~Mine(w)
  PROVE  WaitInv'
<1>1. row' = row /\ now' = now /\ h' = [h EXCEPT ![w] = Idle]
  BY DEF Write, Mine
<1>2. RowInv' /\ WaitNotInherited' /\ row'.id \in Nat
  BY <1>1, Numbers DEF WaitInv, RowInv, WaitNotInherited
<1> QED
  BY <1>1, <1>2, Ends

\* A write that finds the row of w leaves it new.
LEMMA IsMine ==
  ASSUME WaitInv, TypeOK', NEW w \in Workers, NEW o, NEW new, Write(w, o, new), Mine(w),
         new.id = row.id,
         row' = new => RowInv' /\ WaitNotInherited' /\ \A v \in Workers \ {w} : Since(v)'
  PROVE  WaitInv' /\ row' = new
<1>1. row' = new /\ row.state # "none" /\ now' = now /\ h' = [h EXCEPT ![w] = Idle]
  BY DEF Write, Mine
<1>2. row'.id \in Nat
  BY <1>1, Numbers DEF WaitInv
<1> QED
  BY <1>1, <1>2, Ends

LEMMA Others ==
  ASSUME WaitInv, NEW w \in Workers, h' = [h EXCEPT ![w] = Idle]
  PROVE  \A v \in Workers \ {w} : h'[v] = h[v] /\ Loaded(v) /\ Since(v)
  BY DEF WaitInv, TypeOK

LEMMA InsertStep ==
  ASSUME WaitInv, TypeOK', NEW w \in Workers, Insert(w)
  PROVE  WaitInv'
<1>1. now' = now /\ h' = [h EXCEPT ![w] = Idle] /\ h[w].op \in Stores
  BY DEF Insert, Stores
<1>2. \A v \in Workers \ {w} : h[v].op \notin Cascades
  BY <1>1, Apartness DEF WaitInv
<1>3. CASE row' = row
  <2>1. RowInv' /\ WaitNotInherited' /\ row'.id \in Nat
    BY <1>1, <1>3, Numbers DEF WaitInv, RowInv, WaitNotInherited
  <2> QED
    BY <1>1, <1>3, <2>1, Ends
<1>4. CASE row' # row
  <2>1. PICK n \in Waits :
          row' = [id |-> row.id + 1, state |-> "granted", asked |-> Null, wait |-> n,
                  env |-> now, gsuite |-> h[w].g, esuite |-> h[w].e]
    BY <1>4 DEF Insert
  <2>2. RowInv' /\ WaitNotInherited' /\ row'.id \in Nat /\ row'.id > row.id
    BY <1>1, <2>1, Numbers DEF WaitInv, RowInv, WaitNotInherited, Null
  <2> QED
    BY <1>1, <1>2, <2>2, Ends
<1> QED
  BY <1>3, <1>4

\* A new designation takes the row out of every wait.
LEMMA RedesignateStep ==
  ASSUME WaitInv, TypeOK', NEW w \in Workers, h[w].op = "designate", Redesignate(w)
  PROVE  WaitInv' /\ (Mine(w) => row'.state = "granted")
<1> DEFINE x == h[w].x
<1> DEFINE new(n) ==
      [row EXCEPT !.state = Put(@, x.state, "granted"), !.asked = Put(@, x.asked, Null),
                  !.wait = Put(@, x.wait, n), !.env = now,
                  !.gsuite = Put(@, x.gsuite, h[w].g), !.esuite = Put(@, x.esuite, h[w].e)]
<1>1. x.state # "none" /\ \E n \in Waits : Write(w, "designate", new(n))
  BY DEF Redesignate
<1>2. PICK n \in Waits : Write(w, "designate", new(n))
  BY <1>1
<1>3. CASE Mine(w)
  <2>1. /\ new(n).id = row.id /\ new(n).state = "granted" /\ new(n).env = now
        /\ new(n).wait \in Waits
        /\ new(n).asked \in {row.asked, Null}
    <3>1. row.state \in {x.state, "granted"} /\ row.wait \in Waits
      BY <1>1, <1>3 DEF WaitInv, Since, RowInv, Mine
    <3>2. row \in Rows
      BY DEF WaitInv, TypeOK
    <3> QED
      BY <3>1, <3>2 DEF Rows, Put
  <2> HIDE DEF new
  <2>2. ASSUME row' = new(n) PROVE RowInv' /\ WaitNotInherited'
    <3>1. now' = now
      BY <1>2 DEF Write
    <3> QED
      BY <2>1, <2>2, <3>1, Numbers DEF WaitInv, RowInv, WaitNotInherited, Null
  <2>3. ASSUME row' = new(n), NEW v \in Workers \ {w} PROVE Since(v)'
    <3>1. h' = [h EXCEPT ![w] = Idle] /\ now' = now
      BY <1>2 DEF Write
    <3>2. h'[v] = h[v] /\ Since(v)
      BY <3>1, Others
    <3>3. h[v].op \notin Cascades \cup {"promote", "request"}
      BY Apartness DEF WaitInv, Stores
    <3> QED
      BY <2>1, <2>3, <3>2, <3>3 DEF Since, Cascades
  <2> QED
    BY <1>2, <1>3, <2>1, <2>2, <2>3, IsMine
<1>4. CASE ~Mine(w)
  BY <1>2, <1>4, NotMine
<1> QED
  BY <1>3, <1>4

\* A request starts a wait of its own, whatever has become of the row.
LEMMA RequestStep ==
  ASSUME WaitInv, TypeOK', NEW w \in Workers, RequestSave(w)
  PROVE  /\ WaitInv'
         /\ Mine(w) => /\ row.state # "approved"
                       /\ row' = [row EXCEPT !.state = "requested", !.asked = now]
<1> DEFINE new == [row EXCEPT !.state = Put(@, h[w].x.state, "requested"), !.asked = now]
<1>1. Write(w, "request", new)
  BY DEF RequestSave
<1>2. h[w].op = "request"
  BY <1>1 DEF Write
<1>3. CASE Mine(w)
  <2>1. h[w].x.state = "granted" /\ row.state # "approved" /\ row.state # "none" /\ row \in Rows
    BY <1>2, <1>3 DEF WaitInv, Loaded, Since, Mine, TypeOK
  <2>2. /\ new = [row EXCEPT !.state = "requested", !.asked = now]
        /\ new.id = row.id /\ new.state = "requested" /\ new.asked = now
        /\ new.env = row.env /\ new.wait = row.wait
    BY <2>1 DEF Rows, Put
  <2> HIDE DEF new
  <2>3. now' = now /\ h' = [h EXCEPT ![w] = Idle]
    BY <1>1 DEF Write
  <2>4. ASSUME row' = new PROVE RowInv' /\ WaitNotInherited'
    <3>1. now # Null
      BY BoundsAssumption DEF WaitInv, TypeOK, Days, Null
    <3> QED
      BY <2>1, <2>2, <2>3, <2>4, <3>1, Numbers DEF WaitInv, RowInv, WaitNotInherited
  <2>5. ASSUME row' = new, NEW v \in Workers \ {w} PROVE Since(v)'
    <3>1. h'[v] = h[v] /\ Since(v)
      BY <2>3, Others
    <3>2. h[v].op # "designate"
      BY <1>2, Apartness DEF WaitInv
    <3>3. h[v].op = "promote" => ~Mine(v)
      BY <1>2, <1>3 DEF WaitInv, Meeting
    <3> QED
      BY <2>1, <2>2, <2>3, <2>5, <3>1, <3>2, <3>3 DEF Since, Mine
  <2> QED
    BY <1>1, <1>3, <2>1, <2>2, <2>4, <2>5, IsMine
<1>4. CASE ~Mine(w)
  BY <1>1, <1>4, NotMine
<1> QED
  BY <1>3, <1>4

LEMMA DeclineStep ==
  ASSUME WaitInv, TypeOK', NEW w \in Workers, DeclineSave(w)
  PROVE  WaitInv' /\ (Mine(w) => row'.state = "granted")
<1> DEFINE new == [row EXCEPT !.state = Put(@, h[w].x.state, "granted"),
                              !.asked = Put(@, h[w].x.asked, Null)]
<1>1. Write(w, "decline", new)
  BY DEF DeclineSave
<1>2. h[w].op = "decline" /\ now' = now /\ h' = [h EXCEPT ![w] = Idle]
  BY <1>1 DEF Write
<1>3. CASE Mine(w)
  <2>1. h[w].x.state = "requested" /\ row.state # "none" /\ row \in Rows
    BY <1>2, <1>3 DEF WaitInv, Loaded, Mine, TypeOK
  <2>2. /\ new.id = row.id /\ new.state = "granted" /\ new.asked \in {row.asked, Null}
        /\ new.env = row.env /\ new.wait = row.wait
    BY <2>1 DEF Rows, Put
  <2> HIDE DEF new
  <2>3. ASSUME row' = new PROVE RowInv' /\ WaitNotInherited'
    BY <1>2, <2>1, <2>2, <2>3, Numbers DEF WaitInv, RowInv, WaitNotInherited, Null
  <2>4. ASSUME row' = new, NEW v \in Workers \ {w} PROVE Since(v)'
    <3>1. h'[v] = h[v] /\ Since(v)
      BY <1>2, Others
    <3>2. h[v].op # "promote"
      BY <1>2, Apartness DEF WaitInv
    <3> QED
      BY <1>2, <2>1, <2>2, <2>4, <3>1, <3>2 DEF Since, Mine
  <2> QED
    BY <1>1, <1>3, <2>2, <2>3, <2>4, IsMine
<1>4. CASE ~Mine(w)
  BY <1>1, <1>4, NotMine
<1> QED
  BY <1>3, <1>4

\* A promotion opens a wait that is over, or an envelope that is gone.
LEMMA PromoteStep ==
  ASSUME WaitInv, TypeOK', NEW w \in Workers, PromoteSave(w)
  PROVE  /\ WaitInv'
         /\ Mine(w) => /\ row' = [row EXCEPT !.state = "approved"]
                       /\ row.state \in {"requested", "approved", "invalidated"}
                       /\ row.env # Null => Served
<1> DEFINE new == [row EXCEPT !.state = Put(@, h[w].x.state, "approved")]
<1>1. Write(w, "promote", new)
  BY DEF PromoteSave
<1>2. h[w].op = "promote" /\ now' = now /\ h' = [h EXCEPT ![w] = Idle]
  BY <1>1 DEF Write
<1>3. CASE Mine(w)
  <2>1. /\ h[w].x.state = "requested" /\ row.state # "none" /\ row \in Rows
        /\ row.state \in {"requested", "approved", "invalidated"} /\ (row.env # Null => Served)
    BY <1>2, <1>3 DEF WaitInv, Loaded, Since, Mine, TypeOK
  <2>2. /\ new = [row EXCEPT !.state = "approved"]
        /\ new.id = row.id /\ new.state = "approved" /\ new.asked = row.asked
        /\ new.env = row.env /\ new.wait = row.wait
    BY <2>1 DEF Rows, Put
  <2> HIDE DEF new
  <2>3. ASSUME row' = new PROVE RowInv' /\ WaitNotInherited'
    BY <1>2, <2>1, <2>2, <2>3 DEF WaitInv, RowInv, WaitNotInherited, Served
  <2>4. ASSUME row' = new, NEW v \in Workers \ {w} PROVE Since(v)'
    <3>1. h'[v] = h[v] /\ Since(v)
      BY <1>2, Others
    <3>2. h[v].op # "designate"
      BY <1>2, Apartness DEF WaitInv
    <3>3. h[v].op \in {"request", "carry"} => ~Mine(v)
      BY <1>2, <1>3 DEF WaitInv, Meeting
    <3> QED
      BY <1>2, <2>1, <2>2, <2>4, <3>1, <3>2, <3>3 DEF Since, Mine, Served
  <2> QED
    BY <1>1, <1>3, <2>1, <2>2, <2>3, <2>4, IsMine
<1>4. CASE ~Mine(w)
  BY <1>1, <1>4, NotMine
<1> QED
  BY <1>3, <1>4

\* A carry stores a new envelope under a request of today at most.
LEMMA CarryStep ==
  ASSUME WaitInv, TypeOK', NEW w \in Workers, ReEnvelopeSave(w)
  PROVE  /\ WaitInv'
         /\ Mine(w) => /\ row.state \notin {"approved", "invalidated"}
                       /\ row.state = "requested" => row.asked = now
                       /\ row'.state = row.state /\ row'.asked = row.asked
                       /\ row'.wait = row.wait /\ row'.env = now
<1> DEFINE new == [row EXCEPT !.env = now, !.gsuite = Put(@, h[w].x.gsuite, h[w].g),
                              !.esuite = Put(@, h[w].x.esuite, h[w].e)]
<1>1. Write(w, "carry", new)
  BY DEF ReEnvelopeSave
<1>2. h[w].op = "carry" /\ now' = now /\ h' = [h EXCEPT ![w] = Idle]
  BY <1>1 DEF Write
<1>3. CASE Mine(w)
  <2>1. /\ row.state \notin {"none", "approved", "invalidated"} /\ row \in Rows
        /\ row.state = "requested" => row.asked = now
    BY <1>2, <1>3 DEF WaitInv, Since, Mine, TypeOK
  <2>2. /\ new.id = row.id /\ new.state = row.state /\ new.asked = row.asked
        /\ new.env = now /\ new.wait = row.wait
    BY <2>1 DEF Rows
  <2> HIDE DEF new
  <2>3. ASSUME row' = new PROVE RowInv' /\ WaitNotInherited'
    BY <1>2, <2>1, <2>2, <2>3, Numbers DEF WaitInv, RowInv, WaitNotInherited
  <2>4. ASSUME row' = new, NEW v \in Workers \ {w} PROVE Since(v)'
    <3>1. h'[v] = h[v] /\ Since(v)
      BY <1>2, Others
    <3>2. h[v].op \notin Cascades
      BY <1>2, Apartness DEF WaitInv, Stores
    <3>3. h[v].op = "promote" => ~Mine(v)
      BY <1>2, <1>3 DEF WaitInv, Meeting
    <3> QED
      BY <1>2, <2>1, <2>2, <2>4, <3>1, <3>2, <3>3 DEF Since, Mine, Cascades
  <2> QED
    BY <1>1, <1>3, <2>1, <2>2, <2>3, <2>4, IsMine
<1>4. CASE ~Mine(w)
  BY <1>1, <1>4, NotMine
<1> QED
  BY <1>3, <1>4

\* A void row keeps no envelope.
LEMMA InvalidateStep ==
  ASSUME WaitInv, TypeOK', NEW w \in Workers, InvalidateSave(w)
  PROVE  WaitInv' /\ (Mine(w) => row'.state = "invalidated")
<1> DEFINE x == h[w].x
<1> DEFINE new == [row EXCEPT !.state = Put(@, x.state, "invalidated"),
                              !.env = Put(@, x.env, Null), !.asked = Put(@, x.asked, Null)]
<1>1. PICK o \in {"sweep", "void"} : Write(w, o, new)
  BY DEF InvalidateSave
<1>2. h[w].op \in {"sweep", "void"} /\ now' = now /\ h' = [h EXCEPT ![w] = Idle]
  BY <1>1 DEF Write
<1>3. CASE Mine(w)
  <2>1. /\ x.state # "invalidated" /\ row.state # "none" /\ row \in Rows
        /\ x.env = Null => row.env = Null
    BY <1>2, <1>3 DEF WaitInv, Loaded, Since, Mine, TypeOK
  <2>2. /\ new.id = row.id /\ new.state = "invalidated" /\ new.asked \in {row.asked, Null}
        /\ new.env = Null /\ new.wait = row.wait
    BY <2>1 DEF Rows, Put
  <2> HIDE DEF new
  <2>3. ASSUME row' = new PROVE RowInv' /\ WaitNotInherited'
    BY <1>2, <2>1, <2>2, <2>3, Numbers DEF WaitInv, RowInv, WaitNotInherited, Null
  <2>4. ASSUME row' = new, NEW v \in Workers \ {w} PROVE Since(v)'
    <3>1. h'[v] = h[v] /\ Since(v)
      BY <1>2, Others
    <3>2. h[v].op \notin Stores
      BY <1>2, Apartness DEF WaitInv, Cascades
    <3> QED
      BY <1>2, <2>1, <2>2, <2>4, <3>1, <3>2 DEF Since, Mine, Stores
  <2> QED
    BY <1>1, <1>3, <2>2, <2>3, <2>4, IsMine
<1>4. CASE ~Mine(w)
  BY <1>1, <1>4, NotMine
<1> QED
  BY <1>3, <1>4

LEMMA DeletedRow ==
  ASSUME row' = Deleted, WaitInv, now' = now
  PROVE  /\ row'.id = row.id /\ row'.state = "none"
         /\ RowInv' /\ WaitNotInherited' /\ \A v \in Workers : Since(v)'
<1>1. row'.id = row.id /\ row'.state = "none" /\ row'.env = Null /\ row'.gsuite = Null
      /\ row'.esuite = Null /\ row'.asked = Null
  BY DEF Deleted, NoRow
<1> QED
  BY <1>1, Numbers DEF RowInv, WaitNotInherited, Since, Mine, WaitInv, Null

LEMMA ClearStep ==
  ASSUME WaitInv, TypeOK', NEW w \in Workers, ClearSave(w)
  PROVE  WaitInv' /\ (Mine(w) => row' = Deleted)
<1>1. Write(w, "clear", Deleted) /\ now' = now
  BY DEF ClearSave, Write
<1>2. CASE Mine(w)
  <2>1. Deleted.id = row.id
    BY DEF Deleted, NoRow
  <2> QED
    BY <1>1, <1>2, <2>1, DeletedRow, IsMine
<1>3. CASE ~Mine(w)
  BY <1>1, <1>3, NotMine
<1> QED
  BY <1>2, <1>3

LEMMA Quiet ==
  ASSUME WaitInv, TypeOK', UNCHANGED <<row, now, h>>
  PROVE  WaitInv'
  BY DEF WaitInv, Exclusive, RowInv, WaitNotInherited, Loaded, Since, Meeting, Mine, Served

\* Days pass only between handlers, so no handler has to know of the new day.
LEMMA TickStep ==
  ASSUME WaitInv, TypeOK', Tick
  PROVE  WaitInv'
<1>1. row' = row /\ h' = h /\ now' = now + 1 /\ \A w \in Workers : h[w].op = "idle"
  BY DEF Tick
<1>2. RowInv' /\ WaitNotInherited'
  BY <1>1, Numbers DEF WaitInv, RowInv, WaitNotInherited
<1>3. \A w \in Workers : Loaded(w)' /\ Since(w)'
  BY <1>1 DEF WaitInv, Loaded, Since
<1> QED
  BY <1>1, <1>2, <1>3 DEF WaitInv, Exclusive, Meeting

LEMMA RevokeStep ==
  ASSUME WaitInv, TypeOK', Revoke
  PROVE  WaitInv'
<1>1. row' = Deleted /\ h' = h /\ now' = now
  BY DEF Revoke
<1>2. /\ row'.id = row.id /\ row'.state = "none"
      /\ RowInv' /\ WaitNotInherited' /\ \A v \in Workers : Since(v)'
  BY <1>1, DeletedRow
<1> QED
  BY <1>1, <1>2 DEF WaitInv, Exclusive, Loaded, Meeting, Mine

\* The operations that load the row do so when Ready.
LEMMA AcceptStep ==
  ASSUME WaitInv, TypeOK', Apart \subseteq Conflicts, NEW w \in Workers, Accept(w)
  PROVE  WaitInv'
<1> DEFINE Loading == \E o \in Ops \ {"idle"} : \E g, e : Begin(w, o, g, e) /\ Ready(o)
<1>1. CASE Designate(w) \/ Request(w) \/ Decline(w) \/ ApproveElapsed(w)
           \/ FetchElapsed(w) \/ ReEnvelope(w)
  <2>1. Loading
    BY <1>1 DEF Designate, Request, Decline, ApproveElapsed, FetchElapsed, ReEnvelope,
                Load, Ready, Elapsed, Ops
  <2> QED
    BY <2>1, Begins
<1>2. CASE MigrationCompleted(w) \/ GrantorRevoked(w) \/ GranteeRevoked(w)
  <2>1. /\ gs \in Nat /\ Null \notin 1..es /\ Null \notin 1..gs /\ (gs > 1 => gs - 1 # Null)
    BY DEF WaitInv, TypeOK, Suites, Null
  <2>2. row.state = "none" => row.gsuite = Null /\ row.esuite = Null
    BY DEF WaitInv, RowInv
  <2>3. Loading \/ UNCHANGED <<row, now, h>>
    <3>1. CASE MigrationCompleted(w)
      BY <2>1, <2>2, <3>1 DEF MigrationCompleted, Cascade, Ready, Ops
    <3>2. CASE GrantorRevoked(w)
      BY <3>2 DEF GrantorRevoked, Cascade, Ready, Ops
    <3>3. CASE GranteeRevoked(w)
      BY <2>1, <2>2, <3>3 DEF GranteeRevoked, Cascade, Ready, Ops
    <3> QED
      BY <1>2, <3>1, <3>2, <3>3
  <2> QED
    BY <2>3, Begins, Quiet
<1> QED
  BY <1>1, <1>2 DEF Accept

LEMMA WaitStep ==
  ASSUME WaitInv, Apart \subseteq Conflicts, [Next]_vars
  PROVE  WaitInv'
<1>1. TypeOK'
  BY TypeStep DEF WaitInv
<1>2. ASSUME NEW w \in Workers, Finish(w) PROVE WaitInv'
  <2>1. CASE Redesignate(w)
    BY <1>1, <2>1, RedesignateStep DEF Redesignate, Write
  <2> QED
    BY <1>1, <1>2, <2>1, InsertStep, RequestStep, DeclineStep, PromoteStep, CarryStep,
       InvalidateStep, ClearStep DEF Finish
<1>3. CASE FetchApproved \/ GrantorSuite \/ GranteeSuite \/ UNCHANGED vars
  BY <1>1, <1>3, Quiet DEF FetchApproved, GrantorSuite, GranteeSuite, vars
<1> QED
  BY <1>1, <1>2, <1>3, AcceptStep, RevokeStep, TickStep DEF Next

LEMMA WaitInit ==
  ASSUME Init
  PROVE  WaitInv
<1>1. TypeOK
  BY BoundsAssumption, IdleTyped DEF Init, TypeOK, Rows, NoRow, States, Suites, Days, Null
<1>2. RowInv /\ WaitNotInherited
  BY DEF Init, RowInv, WaitNotInherited, NoRow, Null
<1>3. \A w \in Workers : h[w] = Idle
  BY DEF Init
<1>4. \A p \in Apart : "idle" \notin p
  BY DEF Apart
<1>5. row = NoRow
  BY DEF Init
<1> QED
  BY <1>1, <1>2, <1>3, <1>4, <1>5 DEF WaitInv, Exclusive, Loaded, Since, Meeting, Idle, Mine,
     NoRow, Cascades

\* An approved envelope was stored before the request that opened it, and that
\* request stood for its whole wait (promoteIfElapsed, reEnvelope, designate).
THEOREM WaitIsServed ==
  ASSUME Apart \subseteq Conflicts
  PROVE  Spec => []WaitNotInherited
<1>1. WaitInv => WaitNotInherited
  BY DEF WaitInv
<1>2. WaitInv /\ [Next]_vars => WaitInv'
  BY WaitStep
<1> QED
  BY <1>1, <1>2, WaitInit, PTL DEF Spec

-----------------------------------------------------------------------------
(* Refinement: what is observed of the row is a step of EnvelopeRelease.    *)

LEMMA Closing ==
  ASSUME row'.env = Null \/ row'.state \notin {"requested", "approved"},
         UNCHANGED <<released, now>>
  PROVE  R!Next
<1>1. Phase' = "closed"
  BY DEF Phase
<1> QED
  BY <1>1 DEF R!Next, R!Close, Live

LEMMA Staying ==
  ASSUME row' = row, UNCHANGED <<released, now>>
  PROVE  UNCHANGED R!vars
  BY DEF R!vars, Phase, Live

\* A request asked for today begins a wait, whatever the row waited for before.
LEMMA Asking ==
  ASSUME WaitInv, TypeOK', row.state \notin {"none", "approved"},
         row'.state = "requested", row'.asked = now,
         row'.wait = row.wait, row'.env \in {row.env, now}, UNCHANGED <<released, now>>
  PROVE  R!Next
<1>1. CASE row'.env = Null
  BY <1>1, Closing
<1>2. CASE row'.env # Null
  <2>1. Phase' = "waiting" /\ Phase # "open"
    BY <1>2 DEF Phase
  <2>2. row'.env \in 1..now
    BY <1>2, Numbers DEF WaitInv, RowInv, Null
  <2>3. row'.wait \in Waits
    BY DEF WaitInv, RowInv
  <2> QED
    BY <2>1, <2>2, <2>3 DEF R!Next, R!Ask, Live
<1> QED
  BY <1>1, <1>2

\* What w writes when it finds the row it loaded.
LEMMA WriteRefines ==
  ASSUME WaitInv, TypeOK', NEW w \in Workers, Finish(w)
  PROVE  R!Next \/ UNCHANGED R!vars
<1>1. UNCHANGED <<released, now>>
  BY DEF Finish, Insert, Redesignate, RequestSave, DeclineSave, PromoteSave, ReEnvelopeSave,
         InvalidateSave, ClearSave, Write
<1>2. CASE Insert(w)
  <2>1. row' = row \/ row'.state = "granted"
    BY <1>2 DEF Insert
  <2> QED
    BY <1>1, <2>1, Closing, Staying
<1>3. CASE ~Insert(w) /\ ~Mine(w)
  <2>1. row' = row
    BY <1>3 DEF Finish, Redesignate, RequestSave, DeclineSave, PromoteSave, ReEnvelopeSave,
                InvalidateSave, ClearSave, Write, Mine
  <2> QED
    BY <1>1, <2>1, Staying
<1>4. ASSUME Mine(w) PROVE row.state # "none" /\ row \in Rows
  BY <1>4 DEF Mine, WaitInv, TypeOK
<1>5. CASE Mine(w) /\ (Redesignate(w) \/ DeclineSave(w) \/ InvalidateSave(w))
  <2>1. row'.state \in {"granted", "invalidated"}
    BY <1>5, RedesignateStep, DeclineStep, InvalidateStep DEF Redesignate, Write
  <2> QED
    BY <1>1, <2>1, Closing
<1>6. CASE Mine(w) /\ ClearSave(w)
  <2>1. row'.env = Null
    BY <1>6, ClearStep DEF Deleted, NoRow
  <2> QED
    BY <1>1, <2>1, Closing
<1>7. CASE Mine(w) /\ RequestSave(w)
  <2>1. row.state # "approved" /\ row' = [row EXCEPT !.state = "requested", !.asked = now]
    BY <1>7, RequestStep
  <2>2. /\ row'.state = "requested" /\ row'.asked = now
        /\ row'.wait = row.wait /\ row'.env = row.env
    BY <1>4, <1>7, <2>1 DEF Rows
  <2> QED
    BY <1>1, <1>4, <1>7, <2>1, <2>2, Asking
<1>8. CASE Mine(w) /\ ReEnvelopeSave(w)
  <2>1. /\ row.state \notin {"approved", "invalidated"}
        /\ row.state = "requested" => row.asked = now
        /\ row'.state = row.state /\ row'.asked = row.asked
        /\ row'.wait = row.wait /\ row'.env = now
    BY <1>8, CarryStep
  <2> QED
    BY <1>1, <1>4, <1>8, <2>1, Asking, Closing
<1>9. CASE Mine(w) /\ PromoteSave(w)
  <2>1. /\ row' = [row EXCEPT !.state = "approved"]
        /\ row.state \in {"requested", "approved", "invalidated"}
        /\ row.env # Null => Served
    BY <1>9, PromoteStep
  <2>2. /\ row'.state = "approved" /\ row'.env = row.env
        /\ row'.asked = row.asked /\ row'.wait = row.wait
    BY <1>4, <1>9, <2>1 DEF Rows
  <2>3. CASE row.env = Null
    BY <1>1, <2>2, <2>3, Closing
  <2>4. CASE row.env # Null /\ row.state = "requested"
    <3>1. Phase = "waiting" /\ Phase' = "open" /\ row.asked + row.wait <= now
      BY <2>1, <2>2, <2>4 DEF Phase, Served
    <3> QED
      BY <1>1, <2>2, <3>1 DEF R!Next, R!Open, R!Elapsed, Live
  <2>5. CASE row.env # Null /\ row.state = "approved"
    BY <1>1, <2>2, <2>5 DEF R!vars, Phase, Live
  <2>6. row.state = "invalidated" => row.env = Null
    BY DEF WaitInv, RowInv
  <2> QED
    BY <2>1, <2>3, <2>4, <2>5, <2>6
<1> QED
  BY <1>2, <1>3, <1>5, <1>6, <1>7, <1>8, <1>9 DEF Finish

LEMMA StepRefines ==
  ASSUME WaitInv, [Next]_vars
  PROVE  [R!Next]_(R!vars)
<1>1. TypeOK'
  BY TypeStep DEF WaitInv
<1>2. ASSUME NEW w \in Workers, Finish(w) PROVE R!Next \/ UNCHANGED R!vars
  BY <1>1, <1>2, WriteRefines
<1>3. ASSUME NEW w \in Workers, FetchElapsed(w) PROVE R!Next \/ UNCHANGED R!vars
  <2>1. /\ row' = row /\ now' = now
        /\ row.state = "requested" /\ row.asked + row.wait <= now
        /\ released' = IF row.env = Null THEN released ELSE released \cup {row.env}
    BY <1>3 DEF FetchElapsed, Begin, Elapsed
  <2>2. CASE row.env = Null
    BY <2>1, <2>2, Staying
  <2>3. CASE row.env # Null
    <3>1. Phase = "waiting"
      BY <2>1, <2>3 DEF Phase
    <3> QED
      BY <2>1, <2>3, <3>1 DEF R!Next, R!Release, R!Elapsed, Phase, Live
  <2> QED
    BY <2>2, <2>3
<1>4. ASSUME NEW w \in Workers, Accept(w), ~FetchElapsed(w) PROVE UNCHANGED R!vars
  <2>1. row' = row /\ UNCHANGED <<released, now>>
    BY <1>4 DEF Accept, Designate, Request, Decline, ApproveElapsed, ReEnvelope,
                MigrationCompleted, GrantorRevoked, GranteeRevoked, Load, Begin, Cascade
  <2> QED
    BY <2>1, Staying
<1>5. CASE Revoke
  <2>1. row'.env = Null /\ UNCHANGED <<released, now>>
    BY <1>5 DEF Revoke, Deleted, NoRow
  <2> QED
    BY <2>1, Closing
<1>6. CASE FetchApproved
  <2>1. Phase = "open"
    BY <1>6 DEF FetchApproved, Phase
  <2> QED
    BY <1>6, <2>1 DEF FetchApproved, R!Next, R!Release, Phase, Live
<1>7. CASE Tick
  BY <1>7 DEF Tick, R!Next, R!Tick, Phase, Live
<1>8. CASE GrantorSuite \/ GranteeSuite \/ UNCHANGED vars
  BY <1>8, Staying DEF GrantorSuite, GranteeSuite, vars
<1> QED
  BY <1>2, <1>3, <1>4, <1>5, <1>6, <1>7, <1>8 DEF Next

\* EmergencyAccess implements EnvelopeRelease: every envelope handed out was
\* held back for the whole of a wait that nothing interrupted.
THEOREM ImplementsRelease ==
  ASSUME Apart \subseteq Conflicts
  PROVE  Spec => ReleasedAfterWait
<1>1. Init => R!Init
  BY DEF Init, R!Init, Phase, Live, NoRow, Null
<1>2. WaitInv /\ [Next]_vars => WaitInv'
  BY WaitStep
<1>3. WaitInv /\ [Next]_vars => [R!Next]_(R!vars)
  BY StepRefines
<1> QED
  BY <1>1, <1>2, <1>3, WaitInit, PTL DEF Spec, ReleasedAfterWait, R!Spec

-----------------------------------------------------------------------------
(* No envelope outlives its suite.                                          *)

LEMMA BeginsBound ==
  ASSUME SuiteInv, WaitInv', NEW w \in Workers, NEW o \in Ops, NEW g, NEW e,
         Begin(w, o, g, e), gEnded' = gEnded, eEnded' = eEnded,
         o \in Stores => g \in Suites \ gEnded /\ e \in Suites \ eEnded
  PROVE  SuiteInv'
<1>1. /\ row' = row /\ h[w].op = "idle"
      /\ h'[w] = [op |-> o, x |-> row, g |-> g, e |-> e]
      /\ \A v \in Workers \ {w} : h'[v] = h[v]
  BY DEF Begin, Free, SuiteInv, WaitInv, TypeOK
<1>2. EndedSuiteReleasesNothing'
  BY <1>1 DEF SuiteInv, EndedSuiteReleasesNothing
<1>3. \A v \in Workers : Bound(v)'
  BY <1>1 DEF SuiteInv, Bound, Mine
<1> QED
  BY <1>2, <1>3 DEF SuiteInv

\* A suite ends: what stores envelopes is not under way, and a cascade is
\* unless the row is not the suite's, or void.
LEMMA EndsSuite ==
  ASSUME SuiteInv, WaitInv', Apart \subseteq Conflicts, NEW w \in Workers,
         NEW o \in Cascades, NEW b \in BOOLEAN, Cascade(w, o, b),
         ~b /\ (row.gsuite \in gEnded' \/ row.esuite \in eEnded') =>
           row.state = "invalidated" \/ row.gsuite \in gEnded \/ row.esuite \in eEnded
  PROVE  SuiteInv'
<1>1. Free(w, o) /\ row' = row
  BY DEF Cascade, Begin
<1>2. \A v \in Workers : h[v].op \notin Stores
  <2>1. \A p \in Stores : {o, p} \in Apart /\ p # "idle"
    BY DEF Apart, Stores, Cascades
  <2> QED
    BY <1>1, <2>1 DEF Free
<1>3. CASE b
  <2>1. /\ h'[w].op = o /\ \A v \in Workers \ {w} : h'[v] = h[v]
    BY <1>3 DEF Cascade, Begin, SuiteInv, WaitInv, TypeOK
  <2>2. EndedSuiteReleasesNothing'
    BY <2>1 DEF EndedSuiteReleasesNothing, Cascades
  <2>3. \A v \in Workers : Bound(v)'
    BY <1>2, <2>1 DEF Bound, Stores, Cascades
  <2> QED
    BY <2>2, <2>3 DEF SuiteInv
<1>4. CASE ~b
  <2>1. h' = h
    BY <1>4 DEF Cascade
  <2>2. EndedSuiteReleasesNothing'
    BY <1>1, <1>4, <2>1 DEF SuiteInv, EndedSuiteReleasesNothing
  <2>3. \A v \in Workers : Bound(v)'
    BY <1>2, <2>1 DEF Bound
  <2> QED
    BY <2>2, <2>3 DEF SuiteInv
<1> QED
  BY <1>3, <1>4

LEMMA AcceptBound ==
  ASSUME SuiteInv, WaitInv', Apart \subseteq Conflicts, NEW w \in Workers, Accept(w)
  PROVE  SuiteInv'
<1>1. gs \in Suites /\ es \in Suites
  BY DEF SuiteInv, WaitInv, TypeOK
<1>2. CASE Designate(w) \/ ReEnvelope(w)
  <2>1. PICK o \in Stores : Begin(w, o, gs, es)
    BY <1>2 DEF Designate, ReEnvelope, Load, Stores
  <2>2. gs \notin gEnded /\ es \notin eEnded /\ gEnded' = gEnded /\ eEnded' = eEnded
    BY <1>2 DEF Designate, ReEnvelope, Load
  <2> QED
    BY <1>1, <2>1, <2>2, BeginsBound DEF Stores, Ops
<1>3. CASE Request(w) \/ Decline(w) \/ ApproveElapsed(w) \/ FetchElapsed(w)
  <2>1. PICK o \in {"request", "decline", "promote"} : Begin(w, o, Null, Null)
    BY <1>3 DEF Request, Decline, ApproveElapsed, FetchElapsed, Load
  <2>2. gEnded' = gEnded /\ eEnded' = eEnded
    BY <1>3 DEF Request, Decline, ApproveElapsed, FetchElapsed, Load
  <2> QED
    BY <2>1, <2>2, BeginsBound DEF Stores, Ops
<1>4. CASE MigrationCompleted(w)
  <2> DEFINE b == row.gsuite = gs - 1 /\ row.state # "invalidated"
  <2>1. Cascade(w, "sweep", b) /\ gEnded' = gEnded \cup {gs - 1} /\ eEnded' = eEnded
    BY <1>4 DEF MigrationCompleted
  <2>2. ~b /\ (row.gsuite \in gEnded' \/ row.esuite \in eEnded') =>
          row.state = "invalidated" \/ row.gsuite \in gEnded \/ row.esuite \in eEnded
    BY <2>1
  <2>3. b \in BOOLEAN /\ "sweep" \in Cascades
    BY DEF Cascades
  <2> HIDE DEF b
  <2> QED
    BY <2>1, <2>2, <2>3, EndsSuite
<1>5. CASE GrantorRevoked(w)
  <2>1. PICK s \in (1..gs) \ gEnded : /\ gEnded' = gEnded \cup {s} /\ eEnded' = eEnded
                                      /\ Cascade(w, "clear", row.gsuite = s)
    BY <1>5 DEF GrantorRevoked
  <2> DEFINE b == row.gsuite = s
  <2>2. ~b /\ (row.gsuite \in gEnded' \/ row.esuite \in eEnded') =>
          row.state = "invalidated" \/ row.gsuite \in gEnded \/ row.esuite \in eEnded
    BY <2>1
  <2>3. Cascade(w, "clear", b) /\ b \in BOOLEAN /\ "clear" \in Cascades
    BY <2>1 DEF Cascades
  <2> HIDE DEF b
  <2> QED
    BY <2>2, <2>3, EndsSuite
<1>6. CASE GranteeRevoked(w)
  <2>1. PICK s \in (1..es) \ eEnded :
          /\ eEnded' = eEnded \cup {s} /\ gEnded' = gEnded
          /\ Cascade(w, "void", row.esuite = s /\ row.state # "invalidated")
    BY <1>6 DEF GranteeRevoked
  <2> DEFINE b == row.esuite = s /\ row.state # "invalidated"
  <2>2. ~b /\ (row.gsuite \in gEnded' \/ row.esuite \in eEnded') =>
          row.state = "invalidated" \/ row.gsuite \in gEnded \/ row.esuite \in eEnded
    BY <2>1
  <2>3. Cascade(w, "void", b) /\ b \in BOOLEAN /\ "void" \in Cascades
    BY <2>1 DEF Cascades
  <2> HIDE DEF b
  <2> QED
    BY <2>2, <2>3, EndsSuite
<1> QED
  BY <1>2, <1>3, <1>4, <1>5, <1>6 DEF Accept

\* A write that leaves the row's suites as they are is no cascade's, unless
\* no envelope is left.
LEMMA KeepsSuites ==
  ASSUME SuiteInv, WaitInv', NEW w \in Workers, h' = [h EXCEPT ![w] = Idle],
         gEnded' = gEnded, eEnded' = eEnded,
         row'.id = row.id, row'.gsuite = row.gsuite, row'.esuite = row.esuite,
         row'.state # "none" => row.state # "none",
         row'.env # Null => /\ row.env # Null
                            /\ h[w].op \notin Cascades
                            /\ row.state \notin {"none", "invalidated"}
  PROVE  SuiteInv'
<1>1. h'[w] = Idle /\ \A v \in Workers \ {w} : h'[v] = h[v]
  BY DEF SuiteInv, WaitInv, TypeOK
<1>2. EndedSuiteReleasesNothing'
  BY <1>1 DEF SuiteInv, EndedSuiteReleasesNothing, Cascades
<1>3. \A v \in Workers : Bound(v)'
  BY <1>1 DEF SuiteInv, Bound, Mine, Idle, Stores
<1> QED
  BY <1>2, <1>3 DEF SuiteInv

\* A write that stores an envelope binds the row to suites that are alive.
LEMMA BindsAlive ==
  ASSUME SuiteInv, WaitInv', NEW w \in Workers, h' = [h EXCEPT ![w] = Idle],
         gEnded' = gEnded, eEnded' = eEnded,
         row'.gsuite \notin gEnded, row'.esuite \notin eEnded
  PROVE  SuiteInv'
<1>1. h'[w] = Idle /\ \A v \in Workers \ {w} : h'[v] = h[v]
  BY DEF SuiteInv, WaitInv, TypeOK
<1>2. EndedSuiteReleasesNothing'
  BY DEF EndedSuiteReleasesNothing
<1>3. \A v \in Workers : Bound(v)'
  BY <1>1 DEF SuiteInv, Bound, Mine, Idle, Stores
<1> QED
  BY <1>2, <1>3 DEF SuiteInv

LEMMA FinishBound ==
  ASSUME SuiteInv, WaitInv', NEW w \in Workers, Finish(w)
  PROVE  SuiteInv'
<1>1. h' = [h EXCEPT ![w] = Idle] /\ gEnded' = gEnded /\ eEnded' = eEnded
  BY DEF Finish, Insert, Redesignate, RequestSave, DeclineSave, PromoteSave, ReEnvelopeSave,
         InvalidateSave, ClearSave, Write
<1>2. row \in Rows
  BY DEF SuiteInv, WaitInv, TypeOK
<1>3. Bound(w) /\ Loaded(w)
  BY DEF SuiteInv, WaitInv
<1>4. row.state = "none" \/ row.state = "invalidated" => row.env = Null
  BY DEF SuiteInv, WaitInv, RowInv
<1>5. CASE Insert(w)
  <2>1. row' = row \/ (row'.gsuite = h[w].g /\ row'.esuite = h[w].e)
    BY <1>5 DEF Insert
  <2>2. h[w].op = "designate"
    BY <1>5 DEF Insert
  <2>3. CASE row' = row
    BY <1>1, <1>4, <2>2, <2>3, KeepsSuites DEF Cascades
  <2>4. CASE row'.gsuite = h[w].g /\ row'.esuite = h[w].e
    BY <1>1, <1>3, <2>2, <2>4, BindsAlive DEF Bound, Stores
  <2> QED
    BY <2>1, <2>3, <2>4
<1>6. CASE ~Insert(w) /\ ~Mine(w)
  <2>1. row' = row
    BY <1>6 DEF Finish, Redesignate, RequestSave, DeclineSave, PromoteSave, ReEnvelopeSave,
                InvalidateSave, ClearSave, Write, Mine
  <2>2. h[w].op \in Cascades => row.state = "none"
    BY <1>3, <1>6 DEF Loaded, Mine
  <2> QED
    BY <1>1, <1>4, <2>1, <2>2, KeepsSuites
<1>7. CASE Mine(w) /\ (Redesignate(w) \/ ReEnvelopeSave(w))
  <2>1. /\ h[w].op \in Stores
        /\ row'.gsuite = Put(row.gsuite, h[w].x.gsuite, h[w].g)
        /\ row'.esuite = Put(row.esuite, h[w].x.esuite, h[w].e)
    BY <1>2, <1>7 DEF Redesignate, ReEnvelopeSave, Write, Mine, Stores, Rows
  <2>2. row'.gsuite \notin gEnded /\ row'.esuite \notin eEnded
    BY <1>3, <1>7, <2>1 DEF Bound, Put
  <2> QED
    BY <1>1, <2>2, BindsAlive
<1>8. CASE Mine(w) /\ (RequestSave(w) \/ DeclineSave(w) \/ PromoteSave(w))
  <2>1. /\ h[w].op \in {"request", "decline", "promote"}
        /\ row'.id = row.id /\ row'.env = row.env
        /\ row'.gsuite = row.gsuite /\ row'.esuite = row.esuite
        /\ row.state # "none"
    BY <1>2, <1>8 DEF RequestSave, DeclineSave, PromoteSave, Write, Mine, Rows
  <2> QED
    BY <1>1, <1>4, <2>1, KeepsSuites DEF Cascades
<1>9. CASE Mine(w) /\ InvalidateSave(w)
  <2>1. /\ row'.id = row.id /\ row'.gsuite = row.gsuite /\ row'.esuite = row.esuite
        /\ row.state # "none"
    BY <1>2, <1>9 DEF InvalidateSave, Write, Mine, Rows
  <2>2. row'.state = "invalidated"
    BY <1>9, InvalidateStep DEF SuiteInv, WaitInv
  <2>3. row'.env = Null
    BY <2>2 DEF WaitInv, RowInv
  <2> QED
    BY <1>1, <2>1, <2>3, KeepsSuites
<1>10. CASE Mine(w) /\ ClearSave(w)
  <2>1. row'.gsuite = Null /\ row'.esuite = Null
    BY <1>10 DEF ClearSave, Write, Mine, Deleted, NoRow
  <2>2. Null \notin gEnded /\ Null \notin eEnded
    BY DEF SuiteInv, WaitInv, TypeOK, Suites, Null
  <2> QED
    BY <1>1, <2>1, <2>2, BindsAlive
<1> QED
  BY <1>5, <1>6, <1>7, <1>8, <1>9, <1>10 DEF Finish

LEMMA SuiteStep ==
  ASSUME SuiteInv, Apart \subseteq Conflicts, [Next]_vars
  PROVE  SuiteInv'
<1>1. WaitInv'
  BY WaitStep DEF SuiteInv
<1>2. CASE Revoke
  <2>1. row'.env = Null /\ row'.state = "none" /\ h' = h /\ gEnded' = gEnded /\ eEnded' = eEnded
    BY <1>2 DEF Revoke, Deleted, NoRow
  <2>2. EndedSuiteReleasesNothing' /\ \A v \in Workers : Bound(v)'
    BY <2>1 DEF SuiteInv, EndedSuiteReleasesNothing, Bound, Mine
  <2> QED
    BY <1>1, <2>2 DEF SuiteInv
<1>3. CASE FetchApproved \/ GrantorSuite \/ GranteeSuite \/ Tick \/ UNCHANGED vars
  <2>1. UNCHANGED <<row, h, gEnded, eEnded>>
    BY <1>3 DEF FetchApproved, GrantorSuite, GranteeSuite, Tick, vars
  <2>2. EndedSuiteReleasesNothing' /\ \A v \in Workers : Bound(v)'
    BY <2>1 DEF SuiteInv, EndedSuiteReleasesNothing, Bound, Mine
  <2> QED
    BY <1>1, <2>2 DEF SuiteInv
<1> QED
  BY <1>1, <1>2, <1>3, AcceptBound, FinishBound DEF Next

\* Once the cascade of an ended suite has run, no envelope bound to it is left
\* to be asked for or handed out (invalidateForGrantorRotation,
\* invalidateForGranteeRevocation, clearForGrantorRevocation).
THEOREM EndedSuitesAreCleared ==
  ASSUME Apart \subseteq Conflicts
  PROVE  Spec => []EndedSuiteReleasesNothing
<1>1. Init => SuiteInv
  <2>1. Init => row.env = Null /\ \A w \in Workers : h[w].op = "idle"
    BY DEF Init, NoRow, Idle
  <2> QED
    BY <2>1, WaitInit DEF SuiteInv, EndedSuiteReleasesNothing, Bound, Stores
<1>2. SuiteInv /\ [Next]_vars => SuiteInv'
  BY SuiteStep
<1>3. SuiteInv => EndedSuiteReleasesNothing
  BY DEF SuiteInv
<1> QED
  BY <1>1, <1>2, <1>3, PTL DEF Spec
=============================================================================
