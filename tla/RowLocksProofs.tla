--------------------------- MODULE RowLocksProofs ---------------------------
(* What the transactions of the queue find when they commit, and that they   *)
(* never wait for each other but for a race, for every value of the          *)
(* constants.                                                                *)
EXTENDS RowLocks, FiniteSetTheorems, TLAPS

-----------------------------------------------------------------------------
(* The inductive invariant: a row has one holder, and an open transaction is *)
(* at one of the points of its function, with the rows of those before it.   *)

\* No row is written by two open transactions.
Exclusive == \A a, b \in Actors : a # b => txn[a].held \cap txn[b].held = {}

\* A row has its ticket from when it is inserted.
RowsHaveTickets == \A i \in Items : row[i].status # "none" <=> row[i].ticket \in Tickets

At(a, held, plan) == txn[a].held = held /\ txn[a].plan = plan

\* The queue row of a transaction, which is locked, has what it read there.
OwnRow(a, status) ==
  /\ txn[a].item \in Items
  /\ row[txn[a].item].status = status /\ row[txn[a].item].ticket \in Tickets

ClaimShape(a) ==
  /\ a \in Slots /\ work[a] = None
  /\ \/ /\ txn[a].item = None
        /\ At(a, {PC[a]}, <<Settings>>) \/ At(a, {PC[a], Settings}, <<>>)
     \/ /\ OwnRow(a, "queued")
        /\ LET i == txn[a].item  t == row[i].ticket
           IN  At(a, {PC[a], Settings, i}, <<t>>) \/ At(a, {PC[a], Settings, i, t}, <<>>)

FinishShape(a) ==
  /\ a \in Slots /\ OwnRow(a, "claimed")
  /\ row[txn[a].item].by = a /\ work[a] = txn[a].item
  /\ LET i == txn[a].item  t == row[i].ticket
     IN  At(a, {i}, <<t, PC[a]>>) \/ At(a, {i, t}, <<PC[a]>>) \/ At(a, {i, t, PC[a]}, <<>>)

ReapShape(a) ==
  /\ a \in PCs /\ OwnRow(a, "claimed")
  /\ LET i == txn[a].item  t == row[i].ticket
     IN  At(a, {i}, <<t>>) \/ At(a, {i, t}, <<>>)

\* A re-queue has not locked the row it read: that may be closed meanwhile.
RequeueShape(a) ==
  /\ a \in Reqs /\ txn[a].of \in Tickets
  /\ LET i == txn[a].item  t == txn[a].of
     IN  /\ i # None => i \in Items /\ row[i].ticket = t
         /\ \/ At(a, {}, <<t>>) \/ At(a, {}, <<>>) \/ At(a, {t}, <<>>)
            \/ /\ i # None /\ row[i].status \in {"claimed", "closed"}
               /\ \/ At(a, {}, <<t, i>>) \/ At(a, {t}, <<i>>) \/ At(a, {t, i}, <<>>)
                  \/ At(a, {}, <<i>>) \/ At(a, {i}, <<>>)

ReorderShape(a) ==
  /\ a \in Reqs /\ txn[a].item = None
  /\ \E t, u \in Tickets : At(a, {}, <<t, u>>) \/ At(a, {t}, <<u>>) \/ At(a, {t, u}, <<>>)

SingleShape(a) == a \in PCs \cup Reqs /\ txn[a].item = None /\ \E x \in Locks : At(a, {x}, <<>>)

SupersededShape(a) == a \in Slots /\ txn[a].item \in Items /\ At(a, {PC[a]}, <<>>)

Shape(a) ==
  \/ txn[a] = NoTxn
  \/ txn[a].kind = "claim" /\ ClaimShape(a)
  \/ txn[a].kind = "finish" /\ FinishShape(a)
  \/ txn[a].kind = "reap" /\ ReapShape(a)
  \/ txn[a].kind = "requeue" /\ RequeueShape(a)
  \/ txn[a].kind = "reorder" /\ ReorderShape(a)
  \/ txn[a].kind = "single" /\ SingleShape(a)
  \/ txn[a].kind = "superseded" /\ SupersededShape(a)

LockInv == TypeOK /\ Exclusive /\ RowsHaveTickets /\ \A a \in Actors : Shape(a)
-----------------------------------------------------------------------------
(* Plans.                                                                    *)

LEMMA OneLeft == \A x : <<x>> # <<>> /\ Head(<<x>>) = x /\ Tail(<<x>>) = <<>> /\ Len(<<x>>) = 1
OBVIOUS

LEMMA TwoLeft == \A x, y : /\ <<x, y>> # <<>> /\ Head(<<x, y>>) = x
                           /\ Tail(<<x, y>>) = <<y>> /\ Len(<<x, y>>) = 2
OBVIOUS

LEMMA PlansOfLocks ==
  /\ <<>> \in Seq(Locks)
  /\ \A x \in Locks : <<x>> \in Seq(Locks)
  /\ \A x, y \in Locks : <<x, y>> \in Seq(Locks)
OBVIOUS

LEMMA TailOfPlan ==
  ASSUME NEW p \in Seq(Locks), p # <<>>
  PROVE  Head(p) \in Locks /\ Tail(p) \in Seq(Locks)
OBVIOUS
-----------------------------------------------------------------------------
(* What a step of actor a does: the rows it locks were free, of the queue's  *)
(* rows it inserts some and writes some it has locked, and no other slot     *)
(* notices.                                                                  *)

Keeps(a) ==
  /\ \A i \in Items :
       \/ row'[i] = row[i]
       \/ row[i].status = "none" /\ row'[i].status = "queued" /\ row'[i].ticket \in Tickets
       \/ /\ i \in txn[a].held /\ row[i].ticket \in Tickets
          /\ row'[i].ticket = row[i].ticket /\ row'[i].status \in {"claimed", "closed"}
  /\ \A s \in Slots \ {a} : work'[s] = work[s]

Typed ==
  /\ row' \in [Items -> Row]
  /\ ticket' \in [Tickets -> Statuses]
  /\ work' \in [Slots -> Items \cup {None}]

Step(a, r) ==
  /\ txn' = [txn EXCEPT ![a] = r] /\ r \in Txn
  /\ \A x \in r.held : x \in txn[a].held \/ ~Held(x)
  /\ Keeps(a) /\ Typed

LEMMA OthersKeepShape ==
  ASSUME LockInv, NEW a \in Actors, NEW b \in Actors, a # b,
         txn'[b] = txn[b], Keeps(a)
  PROVE  Shape(b)'
<1>0. TypeOK /\ Exclusive /\ RowsHaveTickets /\ Shape(b)
  BY DEF LockInv
<1>1. txn[b].held \cap txn[a].held = {}
  BY <1>0 DEF Exclusive
<1>2. ASSUME NEW st \in {"queued", "claimed"}, OwnRow(b, st), txn[b].item \in txn[b].held
      PROVE  OwnRow(b, st)' /\ row'[txn[b].item] = row[txn[b].item]
  <2>1. row'[txn[b].item] = row[txn[b].item]
    BY <1>1, <1>2 DEF OwnRow, Keeps
  <2> QED BY <2>1, <1>2 DEF OwnRow
<1>3. ASSUME NEW i \in Items, row[i].ticket \in Tickets
      PROVE  /\ row'[i].ticket = row[i].ticket
             /\ row[i].status \in {"claimed", "closed"} => row'[i].status \in {"claimed", "closed"}
  BY <1>3, <1>0 DEF Keeps, RowsHaveTickets
<1>work. b \in Slots => work'[b] = work[b]
  BY DEF Keeps
<1>4. CASE txn[b].kind = "claim" /\ ClaimShape(b)
  <2>1. CASE txn[b].item = None
    BY <2>1, <1>4, <1>work, LocksAssumption DEF Shape, ClaimShape, At, OwnRow
  <2>2. CASE txn[b].item # None
    BY <2>2, <1>4, <1>2, <1>work DEF Shape, ClaimShape, At
  <2> QED BY <2>1, <2>2
<1>5. CASE txn[b].kind = "finish" /\ FinishShape(b)
  BY <1>5, <1>2, <1>work DEF Shape, FinishShape, At
<1>6. CASE txn[b].kind = "reap" /\ ReapShape(b)
  BY <1>6, <1>2 DEF Shape, ReapShape, At
<1>7. CASE txn[b].kind = "requeue" /\ RequeueShape(b)
  BY <1>7, <1>3 DEF Shape, RequeueShape, At
<1>8. CASE txn[b].kind = "reorder" /\ ReorderShape(b)
  BY <1>8 DEF Shape, ReorderShape, At
<1>9. CASE \/ txn[b] = NoTxn
           \/ txn[b].kind = "single" /\ SingleShape(b)
           \/ txn[b].kind = "superseded" /\ SupersededShape(b)
  BY <1>9 DEF Shape, SingleShape, SupersededShape, At
<1> QED BY <1>0, <1>4, <1>5, <1>6, <1>7, <1>8, <1>9 DEF Shape

\* A step keeps the invariant if its own transaction is well formed after it.
LEMMA StepKeeps ==
  ASSUME LockInv, NEW a \in Actors, NEW r, Step(a, r), Shape(a)'
  PROVE  LockInv'
<1>0. TypeOK /\ Exclusive /\ RowsHaveTickets
  BY DEF LockInv
<1>1. txn'[a] = r /\ \A b \in Actors \ {a} : txn'[b] = txn[b]
  BY <1>0 DEF Step, TypeOK
<1>2. TypeOK'
  BY <1>0 DEF Step, TypeOK, Typed
<1>3. Exclusive'
  BY <1>0, <1>1 DEF Exclusive, Step, Held
<1>4. RowsHaveTickets'
  BY <1>0, LocksAssumption DEF RowsHaveTickets, Step, Keeps, TypeOK, Row
<1>5. \A b \in Actors : Shape(b)'
  BY <1>1, OthersKeepShape DEF Step
<1> QED BY <1>2, <1>3, <1>4, <1>5 DEF LockInv
-----------------------------------------------------------------------------
(* Transactions begin.                                                       *)

\* One that begins may lock any rows that are free; it keeps the invariant if
\* it is at a point of its function.
LEMMA OpenKeeps ==
  ASSUME LockInv, NEW a \in Actors, NEW r \in Txn, Opens(a, r),
         txn'[a] = r /\ row' = row /\ work' = work => Shape(a)'
  PROVE  LockInv'
<1>1. txn' = [txn EXCEPT ![a] = r] /\ (\A y \in r.held : ~Held(y)) /\ UNCHANGED <<row, ticket, work>>
  BY Zenon DEF Opens
<1>2. Keeps(a) /\ Typed
  BY <1>1 DEF Keeps, Typed, LockInv, TypeOK
<1>3. txn'[a] = r
  BY <1>1 DEF LockInv, TypeOK
<1>4. Step(a, r)
  BY <1>1, <1>2 DEF Step
<1> QED BY <1>1, <1>3, <1>4, StepKeeps

LEMMA BeginKeeps ==
  ASSUME LockInv, NEW a \in Actors, NEW kind \in Kinds, NEW x \in SUBSET Locks,
         NEW plan \in Seq(Locks), NEW i \in Items \cup {None}, Begins(a, kind, x, plan, i),
         /\ txn'[a].kind = kind /\ At(a, x, plan)' /\ txn'[a].item = i
         /\ row' = row /\ work' = work
         => Shape(a)'
  PROVE  LockInv'
<1> DEFINE r == [kind |-> kind, held |-> x, plan |-> plan, item |-> i, of |-> None]
<1>1. r \in Txn /\ Opens(a, r)
  BY DEF Txn, Begins
<1>2. txn'[a] = r /\ row' = row /\ work' = work => Shape(a)'
  BY DEF At
<1> HIDE DEF r
<1> QED BY <1>1, <1>2, OpenKeeps

LEMMA ActorFacts ==
  /\ \A s \in Slots : s \in Actors /\ PC[s] \in Locks /\ s \notin PCs /\ s \notin Reqs
  /\ \A p \in PCs : p \in Actors /\ p \in Locks /\ p \notin Slots /\ p \notin Reqs
  /\ \A r \in Reqs : r \in Actors /\ r \notin Slots /\ r \notin PCs
  /\ Settings \in Locks /\ Items \subseteq Locks /\ Tickets \subseteq Locks
BY LocksAssumption DEF Actors, Locks

LEMMA ClaimBeginKeeps ==
  ASSUME LockInv, NEW s \in Slots, ClaimBegins(s)
  PROVE  LockInv'
<1>1. Begins(s, "claim", {PC[s]}, <<Settings>>, None)
  BY TwoLeft DEF ClaimBegins, ClaimOrder
<1>2. s \in Actors /\ {PC[s]} \in SUBSET Locks /\ <<Settings>> \in Seq(Locks)
  BY ActorFacts, PlansOfLocks
<1>3. ASSUME txn'[s].kind = "claim", At(s, {PC[s]}, <<Settings>>)', txn'[s].item = None,
             work' = work
      PROVE  Shape(s)'
  BY <1>3 DEF ClaimBegins, Shape, ClaimShape, At
<1> QED BY <1>1, <1>2, <1>3, BeginKeeps DEF Kinds

LEMMA FinishBeginKeeps ==
  ASSUME LockInv, NEW s \in Slots, FinishBegins(s)
  PROVE  LockInv'
<1>1. PICK i \in Items : i = work[s]
  BY DEF FinishBegins, LockInv, TypeOK
<1>2. s \in Actors /\ PC[s] \in Locks /\ i \in Locks
  BY ActorFacts
<1>3. CASE StillHeld(s)
  <2>1. PICK t \in Tickets : t = row[i].ticket
    BY <1>1, <1>3 DEF StillHeld, LockInv, RowsHaveTickets
  <2>2. Begins(s, "finish", {i}, <<t, PC[s]>>, i)
    BY <1>1, <1>3, <2>1 DEF FinishBegins
  <2>3. row[i].status = "claimed" /\ row[i].by = s
    BY <1>1, <1>3 DEF StillHeld
  <2>4. <<t, PC[s]>> \in Seq(Locks) /\ "finish" \in Kinds /\ {i} \in SUBSET Locks
    BY <1>2, PlansOfLocks, ActorFacts DEF Kinds
  <2>5. ASSUME txn'[s].kind = "finish", At(s, {i}, <<t, PC[s]>>)', txn'[s].item = i,
               row' = row, work' = work
        PROVE  Shape(s)'
    BY <1>1, <2>1, <2>3, <2>5 DEF Shape, FinishShape, OwnRow, At
  <2> QED BY <1>2, <2>2, <2>4, <2>5, BeginKeeps
<1>4. CASE ~StillHeld(s)
  <2>1. Begins(s, "superseded", {PC[s]}, <<>>, i)
    BY <1>1, <1>4 DEF FinishBegins
  <2>2. ASSUME txn'[s].kind = "superseded", At(s, {PC[s]}, <<>>)', txn'[s].item = i
        PROVE  Shape(s)'
    BY <2>2 DEF Shape, SupersededShape, At
  <2> QED BY <1>2, <2>1, <2>2, BeginKeeps, PlansOfLocks DEF Kinds
<1> QED BY <1>3, <1>4

LEMMA ReapBeginKeeps ==
  ASSUME LockInv, NEW p \in PCs, ReapBegins(p)
  PROVE  LockInv'
<1>1. PICK i \in Items : /\ row[i].status = "claimed"
                         /\ Begins(p, "reap", {i}, <<row[i].ticket>>, i)
  BY TwoLeft DEF ReapBegins, ReapOrder
<1> DEFINE t == row[i].ticket
<1>2. t \in Tickets
  BY <1>1 DEF LockInv, RowsHaveTickets
<1>3. p \in Actors /\ {i} \in SUBSET Locks /\ <<t>> \in Seq(Locks)
  BY <1>2, ActorFacts, PlansOfLocks
<1>4. ASSUME txn'[p].kind = "reap", At(p, {i}, <<t>>)', txn'[p].item = i, row' = row
      PROVE  Shape(p)'
  BY <1>4, <1>1, <1>2 DEF Shape, ReapShape, OwnRow, At
<1> QED BY <1>1, <1>3, <1>4, BeginKeeps DEF Kinds

LEMMA RequeueBeginKeeps ==
  ASSUME LockInv, NEW r \in Reqs, RequeueBegins(r)
  PROVE  LockInv'
<1>1. PICK t \in Tickets, i \in Items \cup {None} :
        /\ IF i = None THEN Outstanding(t) = {} ELSE i \in Outstanding(t)
        /\ \E plan \in Writes(t, i) :
             Opens(r, [kind |-> "requeue", held |-> {}, plan |-> plan, item |-> i, of |-> t])
  BY Zenon DEF RequeueBegins
<1>2. i # None => i \in Items /\ row[i].ticket = t
  BY <1>1 DEF Outstanding
<1>3. PICK plan \in Writes(t, i) :
        Opens(r, [kind |-> "requeue", held |-> {}, plan |-> plan, item |-> i, of |-> t])
  BY <1>1
<1>4. \/ plan = <<t>> \/ plan = <<>>
      \/ i # None /\ row[i].status = "claimed" /\ (plan = <<t, i>> \/ plan = <<i>>)
  BY <1>3 DEF Writes
<1>5. plan \in Seq(Locks)
  BY <1>2, <1>4, PlansOfLocks, ActorFacts
<1> DEFINE x == [kind |-> "requeue", held |-> {}, plan |-> plan, item |-> i, of |-> t]
<1>6. /\ x \in Txn /\ x.kind = "requeue" /\ x.held = {} /\ x.plan = plan
      /\ x.item = i /\ x.of = t
  BY <1>5 DEF Txn, Kinds
<1> HIDE DEF x
<1>7. ASSUME txn'[r] = x, row' = row PROVE Shape(r)'
  <2>1. RequeueShape(r)'
    BY <1>2, <1>4, <1>6, <1>7 DEF RequeueShape, At
  <2> QED BY <1>6, <1>7, <2>1 DEF Shape
<1> QED BY <1>3, <1>6, <1>7, OpenKeeps, ActorFacts DEF x

LEMMA ReorderBeginKeeps ==
  ASSUME LockInv, NEW r \in Reqs, ReorderBegins(r)
  PROVE  LockInv'
<1>1. PICK t, u \in Tickets : Begins(r, "reorder", {}, <<t, u>>, None)
  BY Zenon DEF ReorderBegins
<1>2. r \in Actors /\ <<t, u>> \in Seq(Locks) /\ "reorder" \in Kinds /\ {} \in SUBSET Locks
  BY ActorFacts, PlansOfLocks DEF Kinds
<1>3. ASSUME txn'[r].kind = "reorder", At(r, {}, <<t, u>>)', txn'[r].item = None
      PROVE  Shape(r)'
  BY <1>3 DEF Shape, ReorderShape, At
<1> QED BY <1>1, <1>2, <1>3, BeginKeeps

LEMMA SingleBeginKeeps ==
  ASSUME LockInv, NEW a \in PCs \cup Reqs, SingleBegins(a)
  PROVE  LockInv'
<1>1. PICK x \in Locks : Begins(a, "single", {x}, <<>>, None)
  BY ActorFacts DEF SingleBegins
<1>2. a \in Actors /\ <<>> \in Seq(Locks) /\ "single" \in Kinds /\ {x} \in SUBSET Locks
  BY ActorFacts, PlansOfLocks DEF Kinds
<1>3. ASSUME txn'[a].kind = "single", At(a, {x}, <<>>)', txn'[a].item = None
      PROVE  Shape(a)'
  BY <1>3 DEF Shape, SingleShape, At
<1> QED BY <1>1, <1>2, <1>3, BeginKeeps
-----------------------------------------------------------------------------
(* Further rows are locked.                                                  *)

LEMMA AcquireKeeps ==
  ASSUME LockInv, NEW a \in Actors, Acquire(a)
  PROVE  LockInv'
<1> DEFINE x == Head(txn[a].plan)
           r == [txn[a] EXCEPT !.held = @ \cup {x}, !.plan = Tail(@)]
<1>0. TypeOK /\ txn[a] \in Txn /\ Shape(a) /\ txn[a].plan # <<>>
  BY DEF LockInv, TypeOK, Acquire
<1>1. /\ txn' = [txn EXCEPT ![a].held = @ \cup {x}, ![a].plan = Tail(@)]
      /\ ~Held(x) /\ UNCHANGED <<row, ticket, work>>
  BY Zenon DEF Acquire
<1>2. txn' = [txn EXCEPT ![a] = r]
  BY <1>0, <1>1 DEF TypeOK, Txn
<1>3. txn[a].plan \in Seq(Locks) /\ x \in Locks /\ Tail(txn[a].plan) \in Seq(Locks)
  BY <1>0, TailOfPlan DEF Txn
<1>4. /\ r \in Txn /\ r.held = txn[a].held \cup {x} /\ r.plan = Tail(txn[a].plan)
      /\ r.kind = txn[a].kind /\ r.item = txn[a].item /\ r.of = txn[a].of
  BY <1>0, <1>3 DEF Txn
<1> HIDE DEF r
<1>5. Step(a, r)
  BY <1>1, <1>2, <1>4 DEF Step, Keeps, Typed, LockInv, TypeOK
<1> SUFFICES Shape(a)'
  BY <1>5, StepKeeps
<1>6. /\ txn'[a].kind = txn[a].kind /\ txn'[a].item = txn[a].item /\ txn'[a].of = txn[a].of
      /\ txn'[a].held = txn[a].held \cup {x} /\ txn'[a].plan = Tail(txn[a].plan)
      /\ row' = row /\ work' = work
  BY <1>0, <1>1, <1>2, <1>4 DEF TypeOK
<1>7. ASSUME NEW h, NEW y, At(a, h, <<y>>)
      PROVE  txn'[a].held = h \cup {y} /\ txn'[a].plan = <<>>
  BY <1>6, <1>7, OneLeft DEF At
<1>8. ASSUME NEW h, NEW y, NEW z, At(a, h, <<y, z>>)
      PROVE  txn'[a].held = h \cup {y} /\ txn'[a].plan = <<z>>
  BY <1>6, <1>8, TwoLeft DEF At
<1>9. ASSUME NEW h PROVE ~At(a, h, <<>>)
  BY <1>0 DEF At
<1> HIDE DEF x
<1>10. \A st : OwnRow(a, st) => OwnRow(a, st)'
  BY <1>6 DEF OwnRow
<1>11. CASE txn[a].kind = "claim" /\ ClaimShape(a)
  <2>1. CASE txn[a].item = None
    <3>1. At(a, {PC[a]}, <<Settings>>)
      BY <2>1, <1>11, <1>9, LocksAssumption DEF ClaimShape, OwnRow
    <3>2. txn'[a].held = {PC[a], Settings} /\ txn'[a].plan = <<>>
      BY <3>1, <1>7
    <3> QED BY <3>2, <2>1, <1>11, <1>6 DEF Shape, ClaimShape, At
  <2>2. CASE txn[a].item # None
    <3>1. OwnRow(a, "queued") /\ At(a, {PC[a], Settings, txn[a].item}, <<row[txn[a].item].ticket>>)
      BY <2>2, <1>11, <1>9 DEF ClaimShape
    <3>2. /\ txn'[a].held = {PC[a], Settings, txn[a].item, row[txn[a].item].ticket}
          /\ txn'[a].plan = <<>>
      BY <3>1, <1>7
    <3> QED BY <3>1, <3>2, <1>10, <1>11, <1>6 DEF Shape, ClaimShape, At
  <2> QED BY <2>1, <2>2
<1>12. CASE txn[a].kind = "finish" /\ FinishShape(a)
  <2> DEFINE i == txn[a].item  t == row[i].ticket
  <2>1. OwnRow(a, "claimed")' /\ row'[txn'[a].item].by = a
    BY <1>10, <1>12, <1>6 DEF FinishShape
  <2>2. CASE At(a, {i}, <<t, PC[a]>>)
    <3>1. txn'[a].held = {i, t} /\ txn'[a].plan = <<PC[a]>>
      BY <2>2, <1>8
    <3> QED BY <3>1, <2>1, <1>12, <1>6 DEF Shape, FinishShape, At
  <2>3. CASE At(a, {i, t}, <<PC[a]>>)
    <3>1. txn'[a].held = {i, t, PC[a]} /\ txn'[a].plan = <<>>
      BY <2>3, <1>7
    <3> QED BY <3>1, <2>1, <1>12, <1>6 DEF Shape, FinishShape, At
  <2> QED BY <2>2, <2>3, <1>9, <1>12 DEF FinishShape
<1>13. CASE txn[a].kind = "reap" /\ ReapShape(a)
  <2> DEFINE i == txn[a].item  t == row[i].ticket
  <2>1. At(a, {i}, <<t>>) /\ OwnRow(a, "claimed")
    BY <1>13, <1>9 DEF ReapShape
  <2>2. txn'[a].held = {i, t} /\ txn'[a].plan = <<>>
    BY <2>1, <1>7
  <2> QED BY <2>1, <2>2, <1>10, <1>13, <1>6 DEF Shape, ReapShape, At
<1>14. CASE txn[a].kind = "requeue" /\ RequeueShape(a)
  <2> DEFINE i == txn[a].item  t == txn[a].of
  <2>1. /\ t \in Tickets /\ (i # None => i \in Items /\ row[i].ticket = t)
        /\ \/ At(a, {}, <<t>>)
           \/ /\ i # None /\ row[i].status \in {"claimed", "closed"}
              /\ At(a, {}, <<t, i>>) \/ At(a, {t}, <<i>>) \/ At(a, {}, <<i>>)
    BY <1>14, <1>9 DEF RequeueShape
  <2>2. \/ txn'[a].held = {t} /\ txn'[a].plan = <<>>
        \/ /\ i # None /\ row[i].status \in {"claimed", "closed"}
           /\ \/ txn'[a].held = {t} /\ txn'[a].plan = <<i>>
              \/ txn'[a].held = {t, i} /\ txn'[a].plan = <<>>
              \/ txn'[a].held = {i} /\ txn'[a].plan = <<>>
    <3>1. CASE At(a, {}, <<t>>)
      BY <3>1, <1>7
    <3>2. CASE i # None /\ row[i].status \in {"claimed", "closed"} /\ At(a, {}, <<t, i>>)
      BY <3>2, <1>8
    <3>3. CASE i # None /\ row[i].status \in {"claimed", "closed"} /\ At(a, {t}, <<i>>)
      BY <3>3, <1>7
    <3>4. CASE i # None /\ row[i].status \in {"claimed", "closed"} /\ At(a, {}, <<i>>)
      BY <3>4, <1>7
    <3> QED BY <2>1, <3>1, <3>2, <3>3, <3>4
  <2> QED BY <2>1, <2>2, <1>14, <1>6 DEF Shape, RequeueShape, At
<1>15. CASE txn[a].kind = "reorder" /\ ReorderShape(a)
  <2>1. PICK t, u \in Tickets : At(a, {}, <<t, u>>) \/ At(a, {t}, <<u>>)
    BY <1>15, <1>9 DEF ReorderShape
  <2>2. \/ txn'[a].held = {t} /\ txn'[a].plan = <<u>>
        \/ txn'[a].held = {t, u} /\ txn'[a].plan = <<>>
    <3>1. CASE At(a, {}, <<t, u>>)
      BY <3>1, <1>8
    <3>2. CASE At(a, {t}, <<u>>)
      BY <3>2, <1>7
    <3> QED BY <2>1, <3>1, <3>2
  <2> QED BY <2>2, <1>15, <1>6 DEF Shape, ReorderShape, At
<1>16. txn[a] # NoTxn /\ ~SingleShape(a) /\ ~SupersededShape(a)
  BY <1>0 DEF NoTxn, SingleShape, SupersededShape, At
<1> QED BY <1>0, <1>11, <1>12, <1>13, <1>14, <1>15, <1>16 DEF Shape

LEMMA PickRowKeeps ==
  ASSUME LockInv, NEW s \in Slots, NEW i \in Items, PickRow(s, i)
  PROVE  LockInv'
<1> DEFINE t == row[i].ticket
           r == [txn[s] EXCEPT !.item = i, !.held = @ \cup {i}, !.plan = <<t>>]
<1>0. /\ TypeOK /\ txn[s] \in Txn /\ Shape(s) /\ s \in Actors
      /\ txn[s].kind = "claim" /\ txn[s].plan = <<>> /\ txn[s].item = None
      /\ row[i].status = "queued" /\ ~Held(i) /\ UNCHANGED <<row, ticket, work>>
  BY ActorFacts DEF LockInv, TypeOK, PickRow
<1>1. txn' = [txn EXCEPT ![s] = r]
  BY <1>0 DEF PickRow, TypeOK
<1>2. t \in Tickets /\ i \in Locks /\ <<t>> \in Seq(Locks)
  BY <1>0, ActorFacts, PlansOfLocks DEF LockInv, RowsHaveTickets
<1>3. /\ r \in Txn /\ r.held = txn[s].held \cup {i} /\ r.plan = <<t>>
      /\ r.kind = "claim" /\ r.item = i
  BY <1>0, <1>2 DEF Txn
<1> HIDE DEF r
<1>4. Step(s, r)
  BY <1>0, <1>1, <1>3 DEF Step, Keeps, Typed, TypeOK
<1>5. txn[s].held = {PC[s], Settings} /\ work[s] = None
  BY <1>0, LocksAssumption DEF Shape, ClaimShape, OwnRow, At, NoTxn
<1>6. /\ txn'[s].held = {PC[s], Settings, i} /\ txn'[s].plan = <<t>>
      /\ txn'[s].item = i /\ txn'[s].kind = "claim"
  BY <1>0, <1>1, <1>3, <1>5 DEF TypeOK
<1>7. Shape(s)'
  BY <1>0, <1>2, <1>5, <1>6 DEF Shape, ClaimShape, OwnRow, At
<1> QED BY <1>0, <1>4, <1>7, StepKeeps
-----------------------------------------------------------------------------
(* Transactions end.                                                         *)

\* One that ends is well formed if it wrote rows it had locked, or inserted.
LEMMA EndKeeps ==
  ASSUME LockInv, NEW a \in Actors, Ends(a), Keeps(a), Typed
  PROVE  LockInv'
<1>0. TypeOK
  BY DEF LockInv
<1>1. NoTxn \in Txn /\ NoTxn.held = {}
  BY PlansOfLocks DEF NoTxn, Txn, Kinds
<1>2. Step(a, NoTxn)
  BY <1>1 DEF Step, Ends
<1>3. Shape(a)'
  BY <1>0 DEF Ends, TypeOK, Shape
<1> QED BY <1>2, <1>3, StepKeeps

\* What is true of a transaction with no row left to lock.
LEMMA ClaimDone ==
  ASSUME LockInv, NEW a \in Actors, Done(a, "claim"), txn[a].item # None
  PROVE  OwnRow(a, "queued") /\ txn[a].item \in txn[a].held /\ work[a] = None
BY LocksAssumption, OneLeft DEF LockInv, Done, Shape, ClaimShape, OwnRow, At, NoTxn

LEMMA FinishDone ==
  ASSUME LockInv, NEW a \in Actors, Done(a, "finish")
  PROVE  /\ a \in Slots /\ work[a] = txn[a].item
         /\ OwnRow(a, "claimed") /\ row[txn[a].item].by = a /\ txn[a].item \in txn[a].held
BY OneLeft, TwoLeft DEF LockInv, Done, Shape, FinishShape, OwnRow, At, NoTxn

LEMMA ReapDone ==
  ASSUME LockInv, NEW a \in Actors, Done(a, "reap")
  PROVE  a \in PCs /\ OwnRow(a, "claimed") /\ txn[a].item \in txn[a].held
BY OneLeft, TwoLeft DEF LockInv, Done, Shape, ReapShape, OwnRow, At, NoTxn

LEMMA RequeueDone ==
  ASSUME LockInv, NEW a \in Actors, Done(a, "requeue")
  PROVE  /\ txn[a].of \in Tickets
         /\ txn[a].item # None => txn[a].item \in Items /\ row[txn[a].item].ticket = txn[a].of
         /\ txn[a].item # None /\ txn[a].item \in txn[a].held =>
              row[txn[a].item].status \in {"claimed", "closed"}
<1> DEFINE i == txn[a].item  t == txn[a].of
<1>1. txn[a].plan = <<>> /\ RequeueShape(a)
  BY DEF LockInv, Done, Shape, NoTxn
<1>2. /\ t \in Tickets /\ (i # None => i \in Items /\ row[i].ticket = t)
      /\ \/ txn[a].held \subseteq {t}
         \/ i # None /\ row[i].status \in {"claimed", "closed"}
  BY <1>1, OneLeft, TwoLeft DEF RequeueShape, At
<1>3. i # None => i # t
  BY <1>2, LocksAssumption
<1> HIDE DEF i
<1>4. i # None /\ i \in txn[a].held => row[i].status \in {"claimed", "closed"}
  BY <1>2, <1>3
<1> QED BY <1>2, <1>4 DEF i

LEMMA ClaimCommitKeeps ==
  ASSUME LockInv, NEW s \in Slots, ClaimCommits(s)
  PROVE  LockInv'
<1> DEFINE i == txn[s].item
<1>0. s \in Actors /\ Done(s, "claim") /\ i # None /\ Ends(s)
  BY ActorFacts DEF ClaimCommits
<1>1. i \in Items /\ i \in txn[s].held /\ row[i].ticket \in Tickets /\ row \in [Items -> Row]
  BY <1>0, ClaimDone DEF OwnRow, LockInv, TypeOK
<1>2. /\ row' = [row EXCEPT ![i] = [row[i] EXCEPT !.status = "claimed", !.by = s]]
      /\ ticket' = [ticket EXCEPT ![row[i].ticket] = "doing"]
      /\ work' = [work EXCEPT ![s] = i]
  BY DEF ClaimCommits
<1> HIDE DEF i
<1>3. [row[i] EXCEPT !.status = "claimed", !.by = s] \in Row
  BY <1>1 DEF Row
<1>4. Typed
  BY <1>1, <1>2, <1>3 DEF Statuses, Typed, LockInv, TypeOK
<1>5. Keeps(s)
  BY <1>1, <1>2 DEF Keeps, Row, LockInv, TypeOK
<1> QED BY <1>0, <1>4, <1>5, EndKeeps

LEMMA ClaimNothingKeeps ==
  ASSUME LockInv, NEW s \in Slots, ClaimsNothing(s)
  PROVE  LockInv'
<1>1. s \in Actors /\ Ends(s) /\ UNCHANGED <<row, ticket, work>>
  BY ActorFacts DEF ClaimsNothing
<1> QED BY <1>1, EndKeeps DEF Keeps, Typed, LockInv, TypeOK

\* The rows after row i was closed, and another was queued for ticket t.
LEMMA ClosingRow ==
  ASSUME TypeOK, NEW i \in Items, NEW a \in Actors, i \in txn[a].held, row[i].ticket \in Tickets
  PROVE  /\ Closing(i) \in [Items -> Row]
         /\ \A j \in Items \ {i} : Closing(i)[j] = row[j]
         /\ Closing(i)[i].ticket = row[i].ticket /\ Closing(i)[i].status = "closed"
<1>1. row \in [Items -> Row]
  BY DEF TypeOK
<1>2. [row[i] EXCEPT !.status = "closed", !.by = None] \in Row
  BY <1>1 DEF Row
<1>3. Closing(i) = [row EXCEPT ![i] = [row[i] EXCEPT !.status = "closed", !.by = None]]
  BY DEF Closing
<1> QED BY <1>1, <1>2, <1>3 DEF Row

LEMMA QueuedRow ==
  ASSUME TypeOK, NEW R \in [Items -> Row], NEW t \in Tickets, NEW R2 \in WithRow(R, t)
  PROVE  /\ R2 \in [Items -> Row]
         /\ \E j \in Items : /\ row[j].status = "none"
                             /\ R2[j].ticket = t /\ R2[j].status = "queued"
                             /\ \A k \in Items \ {j} : R2[k] = R[k]
<1>1. PICK j \in NextIds : R2 = [R EXCEPT ![j] = [NoRow EXCEPT !.ticket = t, !.status = "queued"]]
  BY DEF WithRow
<1>2. j \in Items /\ row[j].status = "none"
  BY DEF NextIds, Unused
<1> DEFINE q == [NoRow EXCEPT !.ticket = t, !.status = "queued"]
<1>3. q \in Row /\ q.ticket = t /\ q.status = "queued"
  BY DEF NoRow, Row
<1> HIDE DEF q
<1> QED BY <1>1, <1>2, <1>3 DEF q

LEMMA CloseCommitKeeps ==
  ASSUME LockInv, NEW a \in Actors, CloseCommits(a)
  PROVE  LockInv'
<1> DEFINE i == txn[a].item  t == row[i].ticket
<1>0. TypeOK /\ Ends(a) /\ (Done(a, "finish") \/ Done(a, "reap"))
  BY DEF CloseCommits, LockInv
<1>1. i \in Items /\ i \in txn[a].held /\ t \in Tickets /\ row[i].status = "claimed"
  BY <1>0, FinishDone, ReapDone DEF OwnRow
<1>2. work' = IF a \in Slots THEN [work EXCEPT ![a] = None] ELSE work
  BY DEF CloseCommits
<1>3. \/ row' \in WithRow(Closing(i), t) /\ ticket' = [ticket EXCEPT ![t] = "ready"]
      \/ row' = Closing(i) /\ ticket' = [ticket EXCEPT ![t] = "other"]
  BY DEF CloseCommits
<1> HIDE DEF i
<1>4. /\ Closing(i) \in [Items -> Row]
      /\ \A j \in Items \ {i} : Closing(i)[j] = row[j]
      /\ Closing(i)[i].ticket = t /\ Closing(i)[i].status = "closed"
  BY <1>0, <1>1, ClosingRow
<1>work. \A s \in Slots \ {a} : work'[s] = work[s]
  BY <1>0, <1>2 DEF TypeOK
<1>5. row' \in [Items -> Row] /\ Keeps(a)
  <2>1. CASE row' \in WithRow(Closing(i), t)
    <3>1. row' \in [Items -> Row]
      BY <1>0, <1>1, <1>4, <2>1, QueuedRow
    <3>2. PICK j \in Items : /\ row[j].status = "none"
                             /\ row'[j].ticket = t /\ row'[j].status = "queued"
                             /\ \A k \in Items \ {j} : row'[k] = Closing(i)[k]
      BY <1>0, <1>1, <1>4, <2>1, QueuedRow
    <3> QED BY <1>1, <1>4, <1>work, <3>1, <3>2 DEF Keeps
  <2>2. CASE row' = Closing(i)
    BY <1>1, <1>4, <1>work, <2>2 DEF Keeps
  <2> QED BY <1>3, <2>1, <2>2
<1>6. Typed
  BY <1>0, <1>1, <1>2, <1>3, <1>5 DEF Statuses, Typed, TypeOK
<1> QED BY <1>0, <1>5, <1>6, EndKeeps

LEMMA RequeueCommitKeeps ==
  ASSUME LockInv, NEW r \in Reqs, RequeueCommits(r)
  PROVE  LockInv'
<1> DEFINE i == txn[r].item  t == txn[r].of
<1>0. r \in Actors /\ TypeOK /\ Ends(r) /\ Done(r, "requeue") /\ UNCHANGED work
  BY ActorFacts DEF RequeueCommits, LockInv
<1>1. t \in Tickets /\ (i # None => i \in Items /\ row[i].ticket \in Tickets)
  BY <1>0, RequeueDone
<1>2. ticket' = ticket \/ ticket' = [ticket EXCEPT ![t] = "ready"]
  BY DEF RequeueCommits
<1>3. \/ row' \in WithRow(row, t)
      \/ i # None /\ i \in txn[r].held /\ row' \in WithRow(Closing(i), t)
      \/ row' = row
  BY DEF RequeueCommits
<1> HIDE DEF i, t
<1>4. row' \in [Items -> Row] /\ Keeps(r)
  <2>1. CASE row' \in WithRow(row, t)
    <3>1. row' \in [Items -> Row]
      BY <1>0, <1>1, <2>1, QueuedRow DEF TypeOK
    <3>2. PICK j \in Items : /\ row[j].status = "none"
                             /\ row'[j].ticket = t /\ row'[j].status = "queued"
                             /\ \A k \in Items \ {j} : row'[k] = row[k]
      BY <1>0, <1>1, <2>1, QueuedRow DEF TypeOK
    <3> QED BY <1>0, <1>1, <3>1, <3>2 DEF Keeps
  <2>2. CASE i # None /\ i \in txn[r].held /\ row' \in WithRow(Closing(i), t)
    <3>1. /\ Closing(i) \in [Items -> Row]
          /\ \A j \in Items \ {i} : Closing(i)[j] = row[j]
          /\ Closing(i)[i].ticket = row[i].ticket /\ Closing(i)[i].status = "closed"
      BY <1>0, <1>1, <2>2, ClosingRow
    <3>2. row' \in [Items -> Row]
      BY <1>0, <1>1, <2>2, <3>1, QueuedRow
    <3>3. PICK j \in Items : /\ row[j].status = "none"
                             /\ row'[j].ticket = t /\ row'[j].status = "queued"
                             /\ \A k \in Items \ {j} : row'[k] = Closing(i)[k]
      BY <1>0, <1>1, <2>2, <3>1, QueuedRow
    <3> QED BY <1>0, <1>1, <2>2, <3>1, <3>2, <3>3 DEF Keeps
  <2>3. CASE row' = row
    BY <1>0, <2>3 DEF Keeps, TypeOK
  <2> QED BY <1>3, <2>1, <2>2, <2>3
<1>5. Typed
  BY <1>0, <1>1, <1>2, <1>4 DEF Statuses, Typed, TypeOK
<1> QED BY <1>0, <1>4, <1>5, EndKeeps

LEMMA OtherCommitKeeps ==
  ASSUME LockInv, NEW a \in Actors, OtherCommits(a)
  PROVE  LockInv'
<1>1. Ends(a) /\ row' = row /\ work' = IF a \in Slots THEN [work EXCEPT ![a] = None] ELSE work
  BY DEF OtherCommits
<1>2. ticket' = ticket \/ \E t \in Tickets, st \in Statuses : ticket' = [ticket EXCEPT ![t] = st]
  BY DEF OtherCommits
<1>3. Typed
  BY <1>1, <1>2 DEF Typed, LockInv, TypeOK
<1> QED BY <1>1, <1>3, EndKeeps DEF Keeps

LEMMA VictimKeeps ==
  ASSUME LockInv, NEW a \in Actors, Victim(a)
  PROVE  LockInv'
<1>1. /\ Ends(a) /\ row' = row /\ ticket' = ticket
      /\ work' = IF a \in Slots THEN [work EXCEPT ![a] = None] ELSE work
  BY DEF Victim, Ends
<1>2. Typed
  BY <1>1 DEF Typed, LockInv, TypeOK
<1> QED BY <1>1, <1>2, EndKeeps DEF Keeps
-----------------------------------------------------------------------------
(* The invariant holds.                                                      *)

LEMMA InitLockInv == Init => LockInv
<1> SUFFICES ASSUME Init PROVE LockInv
  OBVIOUS
<1> DEFINE Queued(t) == [NoRow EXCEPT !.ticket = t, !.status = "queued"]
<1>1. PICK queue \in [Items -> Tickets \cup {None}] :
        /\ row = [i \in Items |-> IF queue[i] = None THEN NoRow ELSE Queued(queue[i])]
        /\ ticket = [t \in Tickets |-> IF \E i \in Items : queue[i] = t THEN "ready" ELSE "other"]
  BY Zenon DEF Init
<1>2. NoRow \in Row /\ NoRow.status = "none" /\ NoRow.ticket = None
  BY DEF NoRow, Row
<1>3. ASSUME NEW t \in Tickets
      PROVE  Queued(t) \in Row /\ Queued(t).ticket = t /\ Queued(t).status = "queued"
  BY DEF NoRow, Row
<1> HIDE DEF Queued
<1>4. row \in [Items -> Row] /\ RowsHaveTickets
  BY <1>1, <1>2, <1>3, LocksAssumption DEF RowsHaveTickets
<1>5. NoTxn \in Txn /\ NoTxn.held = {}
  BY PlansOfLocks DEF NoTxn, Txn, Kinds
<1>6. txn = [a \in Actors |-> NoTxn]
  BY Zenon DEF Init
<1>7. txn \in [Actors -> Txn] /\ Exclusive /\ \A a \in Actors : Shape(a)
  BY <1>5, <1>6 DEF Exclusive, Shape
<1>8. work = [s \in Slots |-> None]
  BY Zenon DEF Init
<1>9. TypeOK
  BY <1>1, <1>4, <1>7, <1>8 DEF Statuses, TypeOK
<1> QED BY <1>4, <1>7, <1>9 DEF LockInv

LEMMA NextLockInv == LockInv /\ [Next]_vars => LockInv'
<1> SUFFICES ASSUME LockInv, [Next]_vars PROVE LockInv'
  OBVIOUS
<1>1. CASE BeginStep
  <2>1. \A s \in Slots : ClaimBegins(s) => LockInv'
    BY ClaimBeginKeeps
  <2>2. \A s \in Slots : FinishBegins(s) => LockInv'
    BY FinishBeginKeeps
  <2>3. \A p \in PCs : ReapBegins(p) => LockInv'
    BY ReapBeginKeeps
  <2>4. \A r \in Reqs : RequeueBegins(r) => LockInv'
    BY RequeueBeginKeeps
  <2>5. \A r \in Reqs : ReorderBegins(r) => LockInv'
    BY ReorderBeginKeeps
  <2>6. \A a \in PCs \cup Reqs : SingleBegins(a) => LockInv'
    BY SingleBeginKeeps
  <2> QED BY <1>1, <2>1, <2>2, <2>3, <2>4, <2>5, <2>6 DEF BeginStep
<1>2. ASSUME NEW a \in Actors, LockStep(a) PROVE LockInv'
  BY <1>2, AcquireKeeps, PickRowKeeps DEF LockStep
<1>3. ASSUME NEW a \in Actors, EndStep(a) PROVE LockInv'
  BY <1>3, ClaimCommitKeeps, ClaimNothingKeeps, CloseCommitKeeps, RequeueCommitKeeps,
     OtherCommitKeeps DEF EndStep
<1>4. ASSUME NEW a \in Actors, Victim(a) PROVE LockInv'
  BY <1>4, VictimKeeps
<1>5. CASE UNCHANGED vars
  BY <1>5 DEF vars, LockInv, TypeOK, Exclusive, RowsHaveTickets, Shape, ClaimShape, FinishShape,
     ReapShape, RequeueShape, ReorderShape, SingleShape, SupersededShape, OwnRow, At
<1> QED BY <1>1, <1>2, <1>3, <1>4, <1>5 DEF Next

LEMMA LockInvHolds == Spec => []LockInv
BY InitLockInv, NextLockInv, PTL DEF Spec

\* Queue rows, tickets, slots and open transactions stay well formed, whatever
\* the transactions wait for and whichever Postgres aborts.
THEOREM TypeCorrect == Spec => []TypeOK
<1>1. LockInv => TypeOK
  BY DEF LockInv
<1> QED BY <1>1, LockInvHolds, PTL
-----------------------------------------------------------------------------
(* What a commit finds in the rows it read when it began.                    *)

\* The row a claim picked is still queued when it commits, the row of a result
\* is still the claim of the slot that reports it, and the row of a reap is
\* still claimed: no two of them close one claim, and none overwrites the other.
CommitsFindTheirRow ==
  \A a \in Actors :
    /\ Done(a, "claim") /\ txn[a].item # None => row[txn[a].item].status = "queued"
    /\ Done(a, "finish") => row[txn[a].item].status = "claimed" /\ row[txn[a].item].by = a
    /\ Done(a, "reap") => row[txn[a].item].status = "claimed"

\* CLAIM_SQL's row lock, the guarded UPDATE of finish_work and the one of
\* _reap_one decide once, at the start of the transaction, and stay right until
\* it commits: that is why WorkQueue may take each of them as one step.
THEOREM CommitsWriteWhatTheyRead == Spec => []CommitsFindTheirRow
<1>1. LockInv => CommitsFindTheirRow
  BY ClaimDone, FinishDone, ReapDone DEF CommitsFindTheirRow, OwnRow
<1> QED BY <1>1, LockInvHolds, PTL
-----------------------------------------------------------------------------
(* Behind(a) is the least set with all that a and its members wait for.      *)

LEMMA BehindClosed ==
  ASSUME NEW a \in Actors, NEW b \in Actors, NEW c \in Actors,
         b = a \/ b \in Behind(a), WaitsFor(b, c)
  PROVE  c \in Behind(a)
<1> DEFINE waits   == {e \in Actors \X Actors : WaitsFor(e[1], e[2])}
           awaited == {e[2] : e \in waits}
           Covers(D) == \A e \in waits : e[1] \in {a} \cup D => e[2] \in D
<1>1. <<b, c>> \in waits /\ <<b, c>>[1] = b /\ <<b, c>>[2] = c
  OBVIOUS
<1>2. c \in awaited
  BY <1>1
<1>3. Behind(a) = {d \in awaited : \A D \in SUBSET awaited : Covers(D) => d \in D}
  BY DEF Behind
<1>4. ASSUME NEW D \in SUBSET awaited, Covers(D)
      PROVE  c \in D
  <2>1. b \in {a} \cup D
    BY <1>3, <1>4
  <2> QED BY <1>1, <1>4, <2>1
<1> HIDE DEF awaited, Covers
<1> QED BY <1>2, <1>3, <1>4

LEMMA BehindLeast ==
  ASSUME NEW a \in Actors, NEW S,
         \A b, c \in Actors : b \in {a} \cup S /\ WaitsFor(b, c) => c \in S
  PROVE  Behind(a) \subseteq S
<1> DEFINE waits   == {e \in Actors \X Actors : WaitsFor(e[1], e[2])}
           awaited == {e[2] : e \in waits}
           Covers(D) == \A e \in waits : e[1] \in {a} \cup D => e[2] \in D
<1>1. Behind(a) = {d \in awaited : \A D \in SUBSET awaited : Covers(D) => d \in D}
  BY DEF Behind
<1>2. ASSUME NEW e \in waits
      PROVE  e[1] \in Actors /\ e[2] \in Actors /\ e[2] \in awaited /\ WaitsFor(e[1], e[2])
  OBVIOUS
<1>3. Covers(S \cap awaited)
  BY <1>2
<1> HIDE DEF awaited, Covers
<1> QED BY <1>1, <1>3
-----------------------------------------------------------------------------
(* The order in which transactions that do not race wait for each other.     *)

\* A transaction is ranked by the row it waits for; one that holds nothing
\* keeps nobody waiting.
Rank(a) ==
  IF txn[a].plan = <<>> THEN 0
  ELSE IF txn[a].held = {} THEN 4
  ELSE IF Head(txn[a].plan) \in PCs THEN 3
  ELSE IF Head(txn[a].plan) = Settings THEN 2
  ELSE 1

LEMMA RankType == \A a : Rank(a) \in 0..4
BY DEF Rank

\* Where a transaction that holds a row, waits and does not race can be.
WaitsForTicket(a) ==
  /\ OwnRow(a, "queued") \/ OwnRow(a, "claimed")
  /\ txn[a].item \in txn[a].held
  /\ Head(txn[a].plan) = row[txn[a].item].ticket
  /\ txn[a].held \cap Tickets = {}
WaitsForSettings(a) ==
  /\ txn[a].held \subseteq PCs
  /\ Head(txn[a].plan) = Settings
WaitsForPC(a) ==
  /\ OwnRow(a, "claimed")
  /\ txn[a].held = {txn[a].item, row[txn[a].item].ticket}
  /\ Head(txn[a].plan) \in PCs

LEMMA WaitingPoints ==
  ASSUME LockInv, NEW a \in Actors, ~Race({a}), txn[a].plan # <<>>, txn[a].held # {}
  PROVE  WaitsForTicket(a) \/ WaitsForSettings(a) \/ WaitsForPC(a)
<1>0. Shape(a) /\ a \in Actors
  BY DEF LockInv
<1>1. /\ ~(txn[a].kind = "requeue" /\ txn[a].of \in txn[a].held /\ txn[a].plan # <<>>)
      /\ ~(txn[a].kind = "reorder" /\ Len(txn[a].plan) = 1)
  BY DEF Race
<1>2. \A s \in Slots : PC[s] \in PCs
  BY LocksAssumption
<1>3. CASE txn[a].kind = "claim" /\ ClaimShape(a)
  <2>1. CASE txn[a].item = None
    BY <1>2, <1>3, <2>1, OneLeft, LocksAssumption DEF ClaimShape, OwnRow, At, WaitsForSettings
  <2>2. CASE txn[a].item # None
    <3>1. /\ OwnRow(a, "queued") /\ a \in Slots
          /\ txn[a].held = {PC[a], Settings, txn[a].item}
          /\ txn[a].plan = <<row[txn[a].item].ticket>>
      BY <1>3, <2>2 DEF ClaimShape, At
    <3>2. PC[a] \notin Tickets /\ Settings \notin Tickets /\ txn[a].item \notin Tickets
      BY <1>2, <3>1, LocksAssumption DEF OwnRow
    <3> QED BY <3>1, <3>2, OneLeft DEF WaitsForTicket
  <2> QED BY <2>1, <2>2
<1>4. CASE txn[a].kind = "finish" /\ FinishShape(a)
  <2>1. CASE txn[a].held = {txn[a].item}
    <3>1. Head(txn[a].plan) = row[txn[a].item].ticket
      <4>1. row[txn[a].item].ticket # txn[a].item
        BY <1>4, LocksAssumption DEF FinishShape, OwnRow
      <4>2. At(a, {txn[a].item}, <<row[txn[a].item].ticket, PC[a]>>)
        BY <1>4, <2>1, <4>1 DEF FinishShape, At
      <4> QED BY <4>2, TwoLeft DEF At
    <3> QED BY <1>4, <2>1, <3>1, LocksAssumption DEF FinishShape, OwnRow, WaitsForTicket
  <2>2. CASE At(a, {txn[a].item, row[txn[a].item].ticket}, <<PC[a]>>)
    BY <1>2, <1>4, <2>2, OneLeft DEF FinishShape, At, WaitsForPC
  <2> QED BY <1>4, <2>1, <2>2 DEF FinishShape, At
<1>5. CASE txn[a].kind = "reap" /\ ReapShape(a)
  BY <1>5, OneLeft, LocksAssumption DEF ReapShape, OwnRow, At, WaitsForTicket
<1>6. CASE txn[a].kind = "requeue" /\ RequeueShape(a)
  BY <1>1, <1>6, OneLeft DEF RequeueShape, At
<1>7. CASE txn[a].kind = "reorder" /\ ReorderShape(a)
  BY <1>1, <1>7, OneLeft DEF ReorderShape, At
<1>8. txn[a] # NoTxn /\ ~SingleShape(a) /\ ~SupersededShape(a)
  BY DEF NoTxn, SingleShape, SupersededShape, At
<1> QED BY <1>0, <1>3, <1>4, <1>5, <1>6, <1>7, <1>8 DEF Shape

LEMMA WaitingRanks ==
  ASSUME NEW a \in Actors, txn[a].plan # <<>>, txn[a].held # {}
  PROVE  /\ WaitsForTicket(a) => Rank(a) = 1
         /\ WaitsForSettings(a) => Rank(a) = 2
         /\ WaitsForPC(a) => Rank(a) = 3
BY LocksAssumption DEF Rank, WaitsForTicket, WaitsForSettings, WaitsForPC, OwnRow

LEMMA TwoRows ==
  ASSUME NEW t, NEW i \in Outstanding(t), NEW j \in Outstanding(t), i # j
  PROVE  Cardinality(Outstanding(t)) > 1
<1> DEFINE R == Outstanding(t) \ {i}
<1>1. IsFiniteSet(Outstanding(t))
  BY LocksAssumption, FS_Subset DEF Outstanding
<1>2. IsFiniteSet(R) /\ Cardinality(R) = Cardinality(Outstanding(t)) - 1
  BY <1>1, FS_RemoveElement
<1>3. Cardinality(R) # 0
  BY <1>2, FS_EmptySet
<1>4. Cardinality(R) \in Nat /\ Cardinality(Outstanding(t)) \in Nat
  BY <1>1, <1>2, FS_CardinalityType
<1> QED BY <1>2, <1>3, <1>4

\* A transaction waits only for one of a lower rank, unless one of the two races.
LEMMA WaitsDown ==
  ASSUME LockInv, NEW a \in Actors, NEW b \in Actors, WaitsFor(a, b), ~Race({a}), ~Race({b})
  PROVE  Rank(b) < Rank(a)
<1> DEFINE x == Head(txn[a].plan)
<1>0. a # b /\ x \in txn[b].held /\ txn[a].plan # <<>> /\ txn[b].held # {} /\ Exclusive
  BY DEF WaitsFor, Wants, LockInv
<1>1. CASE txn[b].plan = <<>>
  BY <1>0, <1>1 DEF Rank
<1>2. CASE txn[b].plan # <<>> /\ txn[a].held = {}
  <2>1. Rank(a) = 4
    BY <1>0, <1>2 DEF Rank
  <2>2. Rank(b) < 4
    BY <1>0, <1>2, WaitingPoints, WaitingRanks
  <2> QED BY <2>1, <2>2
<1>3. CASE txn[b].plan # <<>> /\ txn[a].held # {}
  <2>1. \/ WaitsForTicket(b) /\ Rank(b) = 1
        \/ WaitsForSettings(b) /\ Rank(b) = 2
        \/ WaitsForPC(b) /\ Rank(b) = 3
    BY <1>0, <1>3, WaitingPoints, WaitingRanks
  <2>2. CASE WaitsForTicket(a)
    <3> DEFINE i == txn[a].item  j == txn[b].item
    <3>1. i \in txn[a].held /\ i \in Outstanding(x) /\ x = row[i].ticket /\ x \in Tickets
      BY <2>2 DEF WaitsForTicket, OwnRow, Outstanding
    <3>2. WaitsForPC(b)
      BY <1>0, <2>1, <3>1, LocksAssumption DEF WaitsForTicket, WaitsForSettings
    <3>3. j \in txn[b].held /\ j \in Outstanding(x)
      BY <1>0, <3>1, <3>2, LocksAssumption DEF WaitsForPC, OwnRow, Outstanding
    <3>4. i # j
      BY <1>0, <3>1, <3>3 DEF Exclusive
    <3>5. Cardinality(Outstanding(row[i].ticket)) > 1
      BY <3>1, <3>3, <3>4, TwoRows
    <3>6. i # None
      BY <3>1, LocksAssumption DEF Outstanding
    <3> QED BY Zenon, <3>5, <3>6 DEF Race
  <2>3. CASE WaitsForSettings(a)
    <3>1. x = Settings /\ Rank(a) = 2
      BY <1>0, <1>3, <2>3, WaitingRanks DEF WaitsForSettings
    <3>2. ~WaitsForSettings(b) /\ ~WaitsForPC(b)
      BY <1>0, <3>1, LocksAssumption DEF WaitsForSettings, WaitsForPC, OwnRow
    <3> QED BY <2>1, <3>1, <3>2
  <2>4. CASE WaitsForPC(a)
    <3>1. x \in PCs /\ Rank(a) = 3
      BY <1>0, <1>3, <2>4, WaitingRanks DEF WaitsForPC
    <3>2. ~WaitsForPC(b)
      BY <1>0, <3>1, LocksAssumption DEF WaitsForPC, OwnRow
    <3> QED BY <2>1, <3>1, <3>2
  <2> QED BY <1>0, <1>3, <2>2, <2>3, <2>4, WaitingPoints
<1> QED BY <1>1, <1>2, <1>3

LEMMA RaceOfOne ==
  ASSUME NEW D, ~Race(D), NEW a \in D PROVE ~Race({a})
BY Zenon DEF Race

\* Nor does it wait for one of a higher rank through others.
LEMMA BehindRanksLower ==
  ASSUME LockInv, NEW a \in Actors, ~Race({a} \cup Behind(a)), NEW b \in Behind(a)
  PROVE  Rank(b) < Rank(a)
<1> DEFINE S == {c \in Behind(a) : Rank(c) < Rank(a)}
<1>1. ASSUME NEW c \in Actors, NEW d \in Actors, c \in {a} \cup S, WaitsFor(c, d)
      PROVE  d \in S
  <2>1. d \in Behind(a)
    BY <1>1, BehindClosed
  <2>2. ~Race({c}) /\ ~Race({d})
    BY <1>1, <2>1, RaceOfOne
  <2>3. Rank(d) < Rank(c)
    BY <1>1, <2>2, WaitsDown
  <2>4. Rank(a) \in 0..4 /\ Rank(c) \in 0..4 /\ Rank(d) \in 0..4 /\ (c = a \/ Rank(c) < Rank(a))
    BY <1>1, RankType
  <2>5. Rank(d) < Rank(a)
    BY <2>3, <2>4
  <2> QED BY <2>1, <2>5
<1> HIDE DEF S
<1>2. Behind(a) \subseteq S
  BY <1>1, BehindLeast
<1> QED BY <1>2 DEF S
-----------------------------------------------------------------------------
(* The properties.                                                           *)

\* Any number of slots, PCs and requests deadlock only if a re-queue of a
\* claimed row, a reorder or a second outstanding row of a ticket is in the
\* cycle: claim_next, finish_work, the reaper, heartbeats and single writes
\* wait for each other in the order of the rows they want.
THEOREM DeadlocksNeedRaces == Spec => []DeadlockNeedsRace
<1>1. ASSUME LockInv, NEW a \in Actors, Deadlocked(a), ~Race(Behind(a))
      PROVE  FALSE
  <2>1. a \in Behind(a) /\ {a} \cup Behind(a) = Behind(a)
    BY <1>1 DEF Deadlocked
  <2>2. Rank(a) < Rank(a)
    BY <1>1, <2>1, BehindRanksLower
  <2> QED BY <2>2, RankType
<1>2. LockInv => DeadlockNeedsRace
  BY <1>1 DEF DeadlockNeedsRace
<1> QED BY <1>2, LockInvHolds, PTL

\* The holder of the cluster-wide row waits for a ticket at most, and whoever
\* has that ticket commits without waiting: no slow writer of a workers row
\* stalls the claims of other PCs, but for the races.
THEOREM SettingsHeldBriefly == Spec => []SettingsHolderIsQuick
<1>1. ASSUME LockInv, NEW a \in Actors, Settings \in txn[a].held, ~Race({a} \cup Behind(a)),
             NEW b \in {a} \cup Behind(a), NEW p \in PCs
      PROVE  ~Wants(b, p)
  <2>1. ~Race({a})
    BY <1>1, RaceOfOne
  <2>2. Rank(a) \in {0, 1} /\ ~Wants(a, p)
    <3>1. CASE txn[a].plan = <<>>
      BY <3>1 DEF Rank, Wants
    <3>2. CASE txn[a].plan # <<>>
      <4>1. WaitsForTicket(a)
        BY <1>1, <2>1, <3>2, WaitingPoints, LocksAssumption DEF WaitsForSettings, WaitsForPC, OwnRow
      <4>2. Rank(a) = 1
        BY <1>1, <3>2, <4>1, WaitingRanks
      <4> QED BY <4>1, <4>2, LocksAssumption DEF WaitsForTicket, OwnRow, Wants
    <3> QED BY <3>1, <3>2
  <2>3. CASE b \in Behind(a)
    <3>1. Rank(b) < Rank(a) /\ Rank(b) \in 0..4
      BY <1>1, <2>3, BehindRanksLower, RankType
    <3>2. Rank(b) = 0
      BY <2>2, <3>1
    <3> QED BY <3>2 DEF Rank, Wants
  <2> QED BY <2>2, <2>3
<1>2. LockInv => SettingsHolderIsQuick
  BY <1>1 DEF SettingsHolderIsQuick
<1> QED BY <1>2, LockInvHolds, PTL

\* A transaction that has all its rows, or whose next row nobody holds.
GoesOn(a) == txn[a].plan # <<>> => ~Held(Head(txn[a].plan))

\* Who neither races nor waits for another finds its next row free.
LEMMA FreeRow ==
  ASSUME LockInv, NEW a \in Actors, ~Race({a}), \A b \in Actors : ~WaitsFor(a, b)
  PROVE  GoesOn(a)
<1>1. CASE txn[a].plan = <<>>
  BY <1>1 DEF GoesOn
<1>2. CASE txn[a].plan # <<>>
  <2>1. \A b \in Actors : b # a => Head(txn[a].plan) \notin txn[b].held
    BY <1>2 DEF WaitsFor, Wants
  <2>2. Head(txn[a].plan) \notin txn[a].held
    <3>1. CASE txn[a].held = {}
      BY <3>1
    <3>2. CASE txn[a].held # {}
      BY <1>2, <3>2, WaitingPoints, LocksAssumption
      DEF WaitsForTicket, WaitsForSettings, WaitsForPC, OwnRow
    <3> QED BY <3>1, <3>2
  <2> QED BY <2>1, <2>2 DEF GoesOn, Held
<1> QED BY <1>1, <1>2

\* Whoever waits, waits for somebody who goes on, but for one of the races.
SomebodyGoesOn ==
  \A a \in Actors : Race({a} \cup Behind(a)) \/ \E b \in {a} \cup Behind(a) : GoesOn(b)

\* No slot, reaper or heartbeat is stuck behind transactions that all wait:
\* the one of the lowest rank takes its next row, or commits.
THEOREM WaitsEndSomewhere == Spec => []SomebodyGoesOn
<1>1. ASSUME LockInv, NEW a \in Actors, ~Race({a} \cup Behind(a)),
             \A b \in {a} \cup Behind(a) : ~GoesOn(b)
      PROVE  FALSE
  <2> DEFINE D == {a} \cup Behind(a)
             ranks == {Rank(b) : b \in D}
  <2>1. ASSUME NEW b \in D
        PROVE  \E c \in D : Rank(c) < Rank(b)
    <3>1. b \in Actors
      BY DEF Behind
    <3>2. PICK c \in Actors : WaitsFor(b, c)
      BY <1>1, <3>1, FreeRow, RaceOfOne
    <3>3. c \in Behind(a)
      BY <3>1, <3>2, BehindClosed
    <3>4. ~Race({b}) /\ ~Race({c})
      BY <1>1, <3>3, RaceOfOne
    <3> QED BY <1>1, <3>1, <3>2, <3>3, <3>4, WaitsDown
  <2>2. ranks \subseteq 0..4 /\ Rank(a) \in ranks
    BY RankType
  <2>3. \A n \in ranks : \E m \in ranks : m < n
    BY <2>1
  <2> HIDE DEF ranks
  <2>4. 0 \notin ranks
    BY <2>2, <2>3
  <2>5. 1 \notin ranks
    BY <2>2, <2>3, <2>4
  <2>6. 2 \notin ranks
    BY <2>2, <2>3, <2>4, <2>5
  <2>7. 3 \notin ranks
    BY <2>2, <2>3, <2>4, <2>5, <2>6
  <2>8. PICK m \in ranks : m < Rank(a)
    BY <2>2, <2>3
  <2>9. m \in 0..4 /\ Rank(a) \in 0..4 /\ m \notin {0, 1, 2, 3}
    BY <2>2, <2>4, <2>5, <2>6, <2>7
  <2> QED BY <2>8, <2>9
<1>2. LockInv => SomebodyGoesOn
  BY <1>1 DEF SomebodyGoesOn
<1> QED BY <1>2, LockInvHolds, PTL
-----------------------------------------------------------------------------
(* Every step is a step of AtomicQueue, or changes nothing in it.            *)

LEMMA SameClosing == \A i : Closing(i) = Queue!Closing(i)
BY DEF Closing, Queue!Closing

LEMMA SameInsert ==
  ASSUME NEW R, NEW t, NEW R2 \in WithRow(R, t)
  PROVE  R2 \in Queue!WithRow(R, t)
<1> DEFINE q == [NoRow EXCEPT !.ticket = t, !.status = "queued"]
<1>1. q = Queue!Queued(t)
  BY Zenon DEF NoRow, Queue!Queued, Queue!NoRow
<1>2. PICK j \in NextIds : R2 = [R EXCEPT ![j] = q]
  BY Zenon DEF WithRow
<1>3. j \in Items /\ row[j].status = "none"
  BY DEF NextIds, Unused
<1> HIDE DEF q
<1> QED BY Zenon, <1>1, <1>2, <1>3 DEF Queue!WithRow

LEMMA InitIsAtomic == Init => Queue!Init
<1> SUFFICES ASSUME Init PROVE Queue!Init
  OBVIOUS
<1> DEFINE Queued(t) == [NoRow EXCEPT !.ticket = t, !.status = "queued"]
<1>1. PICK queue \in [Items -> Tickets \cup {None}] :
        /\ row = [i \in Items |-> IF queue[i] = None THEN NoRow ELSE Queued(queue[i])]
        /\ ticket = [t \in Tickets |-> IF \E i \in Items : queue[i] = t THEN "ready" ELSE "other"]
  BY Zenon DEF Init
<1>2. work = [s \in Slots |-> None]
  BY Zenon DEF Init
<1>3. NoRow = Queue!NoRow /\ \A t : Queued(t) = Queue!Queued(t)
  BY Zenon DEF NoRow, Queue!Queued, Queue!NoRow
<1> HIDE DEF Queued
<1>4. row \in [Items -> {Queue!NoRow} \cup {Queue!Queued(t) : t \in Tickets}]
  BY <1>1, <1>3
<1>5. ticket \in [Tickets -> {"ready", "other"}]
  BY <1>1
<1> QED BY Zenon, <1>2, <1>4, <1>5 DEF Queue!Init

LEMMA ClaimIsAtomic ==
  ASSUME LockInv, NEW s \in Slots, ClaimCommits(s)
  PROVE  \E i \in Items : Queue!Claim(s, i)
<1> DEFINE i == txn[s].item
<1>0. s \in Actors /\ Done(s, "claim") /\ i # None
  BY ActorFacts DEF ClaimCommits
<1>1. i \in Items /\ row[i].status = "queued" /\ work[s] = None
  BY <1>0, ClaimDone DEF OwnRow
<1>2. /\ row' = [row EXCEPT ![i] = [@ EXCEPT !.status = "claimed", !.by = s]]
      /\ ticket' = [ticket EXCEPT ![row[i].ticket] = "doing"]
      /\ work' = [work EXCEPT ![s] = i]
  BY Zenon DEF ClaimCommits
<1>3. Queue!Claim(s, i)
  BY Zenon, <1>1, <1>2 DEF Queue!Claim
<1> QED BY <1>1, <1>3

LEMMA CloseIsAtomic ==
  ASSUME LockInv, NEW a \in Actors, CloseCommits(a)
  PROVE  (a \in Slots /\ Queue!Report(a)) \/ \E i \in Items : Queue!Reap(i)
<1> DEFINE i == txn[a].item  t == row[i].ticket
<1>0. Done(a, "finish") \/ Done(a, "reap")
  BY DEF CloseCommits
<1>1. i \in Items /\ row[i].status = "claimed"
  BY <1>0, FinishDone, ReapDone DEF OwnRow
<1>2. /\ \/ row' \in WithRow(Closing(i), t) /\ ticket' = [ticket EXCEPT ![t] = "ready"]
         \/ row' = Closing(i) /\ ticket' = [ticket EXCEPT ![t] = "other"]
      /\ work' = IF a \in Slots THEN [work EXCEPT ![a] = None] ELSE work
  BY Zenon DEF CloseCommits
<1>3. Queue!Close(i)
  BY Zenon, <1>1, <1>2, SameInsert, SameClosing DEF Queue!Close
<1>4. CASE Done(a, "finish")
  <2>1. a \in Slots /\ work[a] = i /\ row[i].by = a /\ work[a] # None
    BY <1>1, <1>4, FinishDone, LocksAssumption
  <2>2. work' = [work EXCEPT ![a] = None]
    BY <1>2, <2>1
  <2>3. Queue!Report(a)
    BY Zenon, <1>3, <2>1, <2>2 DEF Queue!Report
  <2> QED BY <2>1, <2>3
<1>5. CASE Done(a, "reap")
  <2>1. work' = work
    BY <1>2, <1>5, ReapDone, ActorFacts
  <2>2. Queue!Reap(i)
    BY Zenon, <1>3, <2>1 DEF Queue!Reap
  <2> QED BY <1>1, <2>2
<1> QED BY <1>0, <1>4, <1>5

LEMMA RequeueIsAtomic ==
  ASSUME LockInv, NEW r \in Reqs, RequeueCommits(r)
  PROVE  \E t \in Tickets : Queue!Requeue(t)
<1> DEFINE i == txn[r].item  t == txn[r].of
<1>0. r \in Actors /\ Done(r, "requeue")
  BY ActorFacts DEF RequeueCommits
<1>1. /\ IF i = None THEN row' \in WithRow(row, t)
         ELSE IF i \in txn[r].held THEN row' \in WithRow(Closing(i), t)
         ELSE UNCHANGED row
      /\ UNCHANGED ticket \/ ticket' = [ticket EXCEPT ![t] = "ready"]
      /\ UNCHANGED work
  BY Zenon DEF RequeueCommits
<1>2. /\ t \in Tickets
      /\ i # None => i \in Items /\ row[i].ticket = t
      /\ i # None /\ i \in txn[r].held => row[i].status \in {"claimed", "closed"}
  BY <1>0, RequeueDone
<1> HIDE DEF i, t
<1>4. CASE i = None
  <2>1. row' \in Queue!WithRow(row, t)
    BY <1>1, <1>4, SameInsert
  <2> QED BY Zenon, <1>1, <1>2, <2>1 DEF Queue!Requeue
<1>5. CASE i # None /\ i \in txn[r].held
  <2>1. row' \in Queue!WithRow(Queue!Closing(i), t)
    BY Zenon, <1>1, <1>5, SameInsert, SameClosing
  <2>2. i \in Items /\ row[i].ticket = t /\ row[i].status \in {"claimed", "closed"}
    BY <1>2, <1>5
  <2> QED BY Zenon, <1>1, <1>2, <2>1, <2>2 DEF Queue!Requeue
<1>6. CASE i # None /\ i \notin txn[r].held
  <2>1. i \in Items /\ row[i].ticket = t /\ UNCHANGED row
    BY <1>1, <1>2, <1>6
  <2> QED BY Zenon, <1>1, <1>2, <2>1 DEF Queue!Requeue
<1> QED BY <1>4, <1>5, <1>6

LEMMA OtherIsAtomic ==
  ASSUME LockInv, NEW a \in Actors, OtherCommits(a) \/ Victim(a)
  PROVE  \/ a \in Slots /\ Queue!Drop(a)
         \/ \E t \in Tickets : Queue!Move(t)
         \/ UNCHANGED Queue!vars
<1>1. /\ row' = row /\ work' = IF a \in Slots THEN [work EXCEPT ![a] = None] ELSE work
      /\ \/ ticket' = ticket
         \/ a \in Reqs /\ \E t \in Tickets, st \in Statuses : ticket' = [ticket EXCEPT ![t] = st]
  BY DEF OtherCommits, Victim
<1>2. CASE a \in Slots
  <2>1. ticket' = ticket /\ work' = [work EXCEPT ![a] = None]
    BY <1>1, <1>2, ActorFacts
  <2> QED BY Zenon, <1>1, <1>2, <2>1 DEF Queue!Drop
<1>3. CASE a \notin Slots
  BY <1>1, <1>3 DEF Queue!Move, Queue!vars, Statuses
<1> QED BY <1>2, <1>3

LEMMA NextIsAtomic == LockInv /\ [Next]_vars => [Queue!Next]_(Queue!vars)
<1> SUFFICES ASSUME LockInv, [Next]_vars PROVE [Queue!Next]_(Queue!vars)
  OBVIOUS
<1>1. CASE BeginStep
  <2>1. UNCHANGED <<row, ticket, work>>
    BY <1>1 DEF BeginStep, ClaimBegins, FinishBegins, ReapBegins, RequeueBegins, ReorderBegins,
       SingleBegins, Begins, Opens
  <2> QED BY <2>1 DEF Queue!vars
<1>2. ASSUME NEW a \in Actors, LockStep(a) PROVE [Queue!Next]_(Queue!vars)
  <2>1. UNCHANGED <<row, ticket, work>>
    BY Zenon, <1>2 DEF LockStep, Acquire, PickRow
  <2> QED BY <2>1 DEF Queue!vars
<1>3. ASSUME NEW a \in Actors, EndStep(a) \/ Victim(a) PROVE [Queue!Next]_(Queue!vars)
  <2>1. CASE a \in Slots /\ ClaimCommits(a)
    BY <2>1, ClaimIsAtomic DEF Queue!Next
  <2>2. CASE a \in Slots /\ ClaimsNothing(a)
    BY <2>2 DEF ClaimsNothing, Queue!vars
  <2>3. CASE CloseCommits(a)
    BY <2>3, CloseIsAtomic DEF Queue!Next
  <2>4. CASE a \in Reqs /\ RequeueCommits(a)
    BY <2>4, RequeueIsAtomic DEF Queue!Next
  <2>5. CASE OtherCommits(a) \/ Victim(a)
    BY <2>5, OtherIsAtomic DEF Queue!Next
  <2> QED BY <1>3, <2>1, <2>2, <2>3, <2>4, <2>5 DEF EndStep
<1>4. CASE UNCHANGED vars
  BY <1>4 DEF vars, Queue!vars
<1> QED BY <1>1, <1>2, <1>3, <1>4 DEF Next

\* The transactions, with their rows locked one by one and what they read
\* before they hold it, come to one atomic step each at their commit, or to
\* nothing, for any number of slots, PCs, requests and tickets.
THEOREM LocksMakeStepsAtomic == Spec => IsAtomicQueue
BY InitIsAtomic, NextIsAtomic, LockInvHolds, PTL DEF Spec, IsAtomicQueue, Queue!Spec
=============================================================================
