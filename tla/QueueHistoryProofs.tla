------------------------- MODULE QueueHistoryProofs -------------------------
(* What holds of the queue over time, for every value of WorkQueue's         *)
(* constants: it implements AttemptLog, where second outstanding rows and    *)
(* stranded tickets come from, and the retry budget.                         *)
EXTENDS WorkQueueProofs

-----------------------------------------------------------------------------
(* What the refinement needs besides the claims: a row that is not there yet *)
(* names no PC, and a re-queue about to commit holds a row of its ticket     *)
(* that was taken, if it holds one to supersede.                             *)

Taken == {"claimed"} \cup Finished

BlankIsBlank == \A i \in ItemIds : item[i].status = "absent" => item[i].by = Nobody

RequeueKnowsRow ==
  \A r \in Reqs :
    /\ req[r].pc \in {"patch", "find", "enqueue"} => req[r].ticket \in Tickets
    /\ req[r].pc \in {"patch", "find"} => req[r].seenStatus = "none"
    /\ req[r].pc = "enqueue" /\ req[r].seenStatus = "claimed" =>
         /\ req[r].seen \in ItemIds
         /\ item[req[r].seen].status \in Taken
         /\ item[req[r].seen].ticket = req[r].ticket

LogInv == ClaimInv /\ BlankIsBlank /\ RequeueKnowsRow

LEMMA InitLogInv == Init => LogInv
<1> SUFFICES ASSUME Init PROVE LogInv
  OBVIOUS
<1>1. BlankIsBlank
  BY DEF Init, BlankIsBlank, NoRow
<1>2. RequeueKnowsRow
  BY DEF Init, RequeueKnowsRow, IdleReq
<1> QED BY <1>1, <1>2, InitClaims DEF LogInv

\* A row that was taken stays taken, and its ticket's.
LEMMA TakenStays ==
  ASSUME ClaimInv, [Next]_vars, NEW i \in ItemIds, item[i].status \in Taken
  PROVE  item'[i].status \in Taken /\ item'[i].ticket = item[i].ticket
<1>0. TypeInv /\ top \in Nat /\ i \in Nat /\ i <= top
  BY ConstantsAssumption DEF ClaimInv, TypeInv, TypeOK, UnusedAboveTop, Taken, Finished, ItemIds
<1>1. CASE \A s \in Slots : ~ClaimItem(s)
  <2>1. RowEffect(i) /\ ~Inserted(i)
    BY <1>0, <1>1, QuietSteps DEF Quiet, Inserted
  <2> QED BY <2>1 DEF RowEffect, Kept, Ended, SupersededBy, Ends, Taken
<1>2. ASSUME NEW s \in Slots, ClaimItem(s) PROVE UNCHANGED item[i]
  BY <1>0, <1>2, ClaimEffect DEF Taken, Finished
<1> QED BY <1>1, <1>2

LEMMA BlankStaysBlank ==
  ASSUME ClaimInv, BlankIsBlank, [Next]_vars
  PROVE  BlankIsBlank'
<1>0. TypeInv
  BY DEF ClaimInv
<1> SUFFICES ASSUME NEW i \in ItemIds, item'[i].status = "absent" PROVE item'[i].by = Nobody
  BY DEF BlankIsBlank
<1>1. CASE \A s \in Slots : ~ClaimItem(s)
  <2>1. Kept(i)
    BY <1>0, <1>1, QuietSteps DEF Quiet, RowEffect, Inserted, Ended, SupersededBy, Ends, Finished
  <2> QED BY <2>1 DEF Kept, BlankIsBlank
<1>2. ASSUME NEW s \in Slots, ClaimItem(s) PROVE UNCHANGED item[i]
  BY <1>0, <1>2, ClaimEffect
<1> QED BY <1>1, <1>2 DEF BlankIsBlank

\* Of one request: what it holds.
KnowsRow(rec) ==
  /\ rec.pc \in {"patch", "find", "enqueue"} => rec.ticket \in Tickets
  /\ rec.pc \in {"patch", "find"} => rec.seenStatus = "none"
  /\ rec.pc = "enqueue" /\ rec.seenStatus = "claimed" =>
       /\ rec.seen \in ItemIds
       /\ item[rec.seen].status \in Taken
       /\ item[rec.seen].ticket = rec.ticket

\* A step of a request puts it in a state that is so of the rows as they were.
LEMMA ReqKnowsRow ==
  ASSUME TypeInv, RequeueKnowsRow, NEW r \in Reqs, ReqStep(r)
  PROVE  \E rec : ReqBecomes(r, rec) /\ KnowsRow(rec)
<1> DEFINE Goal == \E rec : ReqBecomes(r, rec) /\ KnowsRow(rec)
<1> SUFFICES Goal
  OBVIOUS
<1>0. req[r] \in Req
  BY DEF TypeInv, TypeOK
<1>1. KnowsRow(IdleReq)
  BY DEF KnowsRow, IdleReq
<1>2. ASSUME NEW t \in Tickets, NEW st \in NewStatuses, CreateTicket(r, t, st) PROVE Goal
  <2> DEFINE row == RowOf([NoTicket EXCEPT !.status = st])
  <2> DEFINE rec == [IdleReq EXCEPT !.pc = "find", !.ticket = t, !.row = row]
  <2>1. ReqBecomes(r, IF st = "ready" THEN rec ELSE IdleReq)
    BY <1>2 DEF CreateTicket
  <2>2. KnowsRow(rec)
    BY DEF KnowsRow, IdleReq
  <2> HIDE DEF rec
  <2> QED BY <1>1, <2>1, <2>2
<1>3. ASSUME NEW t \in Tickets, RunTicket(r, t) PROVE Goal
  <2>1. KnowsRow(Loaded("find", t))
    BY DEF KnowsRow, Loaded, IdleReq
  <2> QED BY <1>3, <2>1 DEF RunTicket
<1>4. ASSUME NEW t \in Tickets, NEW st \in DragStatuses, PatchTicket(r, t, st) PROVE Goal
  <2>1. KnowsRow([Loaded("patch", t) EXCEPT !.target = st])
    BY DEF KnowsRow, Loaded, IdleReq
  <2> QED BY <1>4, <2>1 DEF PatchTicket
<1>5. CASE PatchCommit(r)
  <2> DEFINE st == req[r].target
  <2> DEFINE rec == [req[r] EXCEPT !.pc = "find", !.row.status = st]
  <2>1. ReqBecomes(r, IF st = "ready" THEN rec ELSE IdleReq) /\ req[r].pc = "patch"
    BY <1>5 DEF PatchCommit
  <2>2. rec.pc = "find" /\ rec.ticket = req[r].ticket /\ rec.seenStatus = req[r].seenStatus
    BY <1>0 DEF Req
  <2> HIDE DEF rec
  <2>3. KnowsRow(rec)
    BY <2>1, <2>2 DEF KnowsRow, RequeueKnowsRow
  <2> QED BY <1>1, <2>1, <2>3
<1>6. CASE EnqueueFind(r)
  <2>0. req[r].ticket \in Tickets /\ req[r].seenStatus = "none"
    BY <1>6 DEF EnqueueFind, RequeueKnowsRow
  <2>1. CASE ReqBecomes(r, [req[r] EXCEPT !.pc = "enqueue"])
    <3> DEFINE rec == [req[r] EXCEPT !.pc = "enqueue"]
    <3>1. rec.pc = "enqueue" /\ rec.ticket = req[r].ticket /\ rec.seenStatus = "none"
      BY <1>0, <2>0 DEF Req
    <3>2. ReqBecomes(r, rec)
      BY <2>1
    <3> HIDE DEF rec
    <3>3. KnowsRow(rec)
      BY <2>0, <3>1 DEF KnowsRow
    <3> QED BY <3>2, <3>3
  <2>2. ASSUME NEW i \in OpenItems(req[r].ticket),
               ReqBecomes(r, [req[r] EXCEPT !.pc = "enqueue", !.seen = i,
                                            !.seenStatus = item[i].status])
        PROVE  Goal
    <3> DEFINE rec == [req[r] EXCEPT !.pc = "enqueue", !.seen = i,
                                     !.seenStatus = item[i].status]
    <3>1. /\ rec.pc = "enqueue" /\ rec.ticket = req[r].ticket
          /\ rec.seen = i /\ rec.seenStatus = item[i].status
      BY <1>0 DEF Req
    <3>2. ReqBecomes(r, rec)
      BY <2>2
    <3>3. i \in ItemIds /\ item[i].ticket = req[r].ticket
      BY DEF OpenItems
    <3> HIDE DEF rec
    <3>4. KnowsRow(rec)
      BY <2>0, <3>1, <3>3 DEF KnowsRow, Taken
    <3> QED BY <3>2, <3>4
  <2> QED BY <1>6, <2>1, <2>2 DEF EnqueueFind
<1>7. CASE EnqueueCommit(r) \/ KillCommit(r) \/ RequestDies(r)
  BY <1>1, <1>7 DEF EnqueueCommit, KillCommit, RequestDies
<1>8. ASSUME NEW t \in Tickets, KillTicket(r, t) PROVE Goal
  <2>1. PICK i \in OpenItems(t) \cap Claimed :
          ReqBecomes(r, [IdleReq EXCEPT !.pc = "kill", !.ticket = t, !.seen = i])
    BY <1>8 DEF KillTicket
  <2>2. KnowsRow([IdleReq EXCEPT !.pc = "kill", !.ticket = t, !.seen = i])
    BY DEF KnowsRow, IdleReq
  <2> QED BY <2>1, <2>2
<1> HIDE DEF Goal
<1> QED
  BY <1>2, <1>3, <1>4, <1>5, <1>6, <1>7, <1>8 DEF ReqStep, Call

LEMMA RequeueStillKnows ==
  ASSUME ClaimInv, RequeueKnowsRow, [Next]_vars
  PROVE  RequeueKnowsRow'
<1> SUFFICES ASSUME NEW r \in Reqs PROVE KnowsRow(req[r])'
  BY DEF RequeueKnowsRow, KnowsRow
<1>0. TypeInv /\ req \in [Reqs -> Req]
  BY DEF ClaimInv, TypeInv, TypeOK
<1>1. KnowsRow(req[r])
  BY DEF RequeueKnowsRow, KnowsRow
<1>2. KnowsRow(req'[r])
  <2>1. ASSUME NEW x \in Reqs, ReqStep(x) PROVE KnowsRow(req'[r])
    <3>1. PICK rec : ReqBecomes(x, rec) /\ KnowsRow(rec)
      BY <1>0, <2>1, ReqKnowsRow
    <3>2. req'[r] = req[r] \/ req'[r] = rec
      BY <1>0, <3>1 DEF ReqBecomes
    <3> QED BY <1>1, <3>1, <3>2
  <2>2. CASE req' = req
    BY <1>1, <2>2
  <2> HIDE DEF KnowsRow
  <2> QED
    BY <2>1, <2>2 DEF Next, vars, SlotStep, ClaimGate, ClaimNothing, ClaimItem, TouchHeartbeat,
       RunEnds, FinishWork, Superseded, LoseResult, LoopStep, ReapScan, ReapOne, TriageScan,
       TriageApply, TriageFails, LoopAborts, Crash, HeartbeatExpires, PutSettings
<1>3. \A i \in ItemIds : item[i].status \in Taken =>
        item'[i].status \in Taken /\ item'[i].ticket = item[i].ticket
  BY TakenStays
<1> QED BY <1>2, <1>3 DEF KnowsRow

LEMMA NextLogInv == LogInv /\ [Next]_vars => LogInv'
BY NextClaims, BlankStaysBlank, RequeueStillKnows DEF LogInv

LEMMA LogInvHolds == Spec => []LogInv
BY InitLogInv, NextLogInv, PTL DEF Spec
-----------------------------------------------------------------------------
(* The refinement. An abstract variable is a column of item.                *)

LogOf     == [i \in ItemIds |-> item[i].ticket]
LogBy     == [i \in ItemIds |-> item[i].by]
LogStatus == [i \in ItemIds |-> item[i].status]

Grows(before, t) ==
  /\ top < MaxItems /\ top' = top + 1
  /\ LogStatus' = [before EXCEPT ![top + 1] = "queued"]
  /\ LogOf' = [LogOf EXCEPT ![top + 1] = t]
  /\ LogBy' = LogBy

\* A step that leaves the three columns alone is no step of the log.
LEMMA ColumnsKept ==
  ASSUME top' = top,
         \A i \in ItemIds : /\ item'[i].ticket = item[i].ticket
                            /\ item'[i].by = item[i].by
                            /\ item'[i].status = item[i].status
  PROVE  UNCHANGED Log!vars
BY DEF Log!vars

\* A row closed with a result is an attempt that ended.
LEMMA CloseEnds ==
  ASSUME TypeInv, NEW i \in ItemIds, NEW result \in Finished, item[i].status = "claimed",
         item' = Close(i, result), top' = top
  PROVE  Log!End(i, result)
<1>1. /\ \A j \in ItemIds \ {i} : item'[j] = item[j]
      /\ item'[i] = [item[i] EXCEPT !.status = result, !.stale = FALSE]
  BY DEF Close, TypeInv, TypeOK
<1>2. item'[i].ticket = item[i].ticket /\ item'[i].by = item[i].by /\ item'[i].status = result
  BY <1>1 DEF TypeInv, TypeOK, Item
<1> QED BY <1>1, <1>2 DEF Log!End, Log!Ended

\* A row queued at the end of rows that differ from the table in one status.
LEMMA InsertGrows ==
  ASSUME LogInv, top < MaxItems, top' = top + 1, NEW t, NEW before,
         NEW rows \in [ItemIds -> Item], item' = [rows EXCEPT ![top + 1] = QueuedFor(t)],
         before = [i \in ItemIds |-> rows[i].status],
         \A i \in ItemIds : rows[i].ticket = item[i].ticket /\ rows[i].by = item[i].by
  PROVE  Grows(before, t)
<1>1. top \in Nat /\ top + 1 \in ItemIds
  BY ConstantsAssumption DEF LogInv, ClaimInv, TypeInv, TypeOK, ItemIds
<1>2. item[top + 1].by = Nobody
  BY <1>1 DEF LogInv, BlankIsBlank, ClaimInv, UnusedAboveTop
<1>3. /\ QueuedFor(t).ticket = t /\ QueuedFor(t).status = "queued" /\ QueuedFor(t).by = Nobody
  BY DEF QueuedFor, NoRow
<1>4. /\ item'[top + 1] = QueuedFor(t)
      /\ \A i \in ItemIds \ {top + 1} : item'[i] = rows[i]
  BY <1>1
<1>5. \A i \in ItemIds : item'[i].by = item[i].by
  BY <1>2, <1>3, <1>4
<1>6. LogStatus' = [before EXCEPT ![top + 1] = "queued"]
  BY <1>1, <1>3, <1>4 DEF LogStatus
<1>7. LogOf' = [LogOf EXCEPT ![top + 1] = t]
  BY <1>1, <1>3, <1>4 DEF LogOf
<1>8. LogBy' = LogBy
  BY <1>5 DEF LogBy
<1> QED BY <1>6, <1>7, <1>8 DEF Grows

\* Such an insert after a taken row was failed replaces that row.
LEMMA InsertReplaces ==
  ASSUME NEW i \in ItemIds, item[i].status \in Taken, NEW before,
         before = [j \in ItemIds |-> IF j = i THEN "failed" ELSE item[j].status],
         Grows(before, item[i].ticket)
  PROVE  Log!Next
<1>1. before = [LogStatus EXCEPT ![i] = "failed"]
  BY DEF LogStatus
<1>2. LogOf[i] = item[i].ticket /\ LogStatus[i] \in {"claimed"} \cup Log!Results
  BY DEF LogOf, LogStatus, Taken, Finished, Log!Results
<1>3. Grows([LogStatus EXCEPT ![i] = "failed"], LogOf[i])
  BY <1>1, <1>2 DEF Grows
<1>4. Log!Replace(i)
  BY <1>2, <1>3 DEF Grows, Log!Replace, Log!Grows, Log!Ended, LogOf, LogStatus, LogBy
<1> QED BY <1>4 DEF Log!Next, Log!Attempts, ItemIds

\* A charged claim ends, or is replaced by a retry.
LEMMA ChargeIsLogged ==
  ASSUME LogInv, NEW i \in ItemIds, item[i].status = "claimed", ChargeFailure(i)
  PROVE  Log!Next
<1>0. TypeInv /\ i \in Log!Attempts
  BY DEF LogInv, ClaimInv, Log!Attempts, ItemIds
<1>1. CASE HasBudget(item[i].ticket)
  <2> DEFINE rows == Close(i, "failed")
  <2> DEFINE t == item[i].ticket
  <2> DEFINE before == [j \in ItemIds |-> IF j = i THEN "failed" ELSE item[j].status]
  <2>1. /\ top < MaxItems /\ top' = top + 1
        /\ item' = [rows EXCEPT ![top + 1] = QueuedFor(t)]
    BY <1>1 DEF ChargeFailure
  <2>2. rows \in [ItemIds -> Item]
    BY <1>0, CloseTyped DEF TypeInv, TypeOK, Finished
  <2>3. /\ \A j \in ItemIds \ {i} : rows[j] = item[j]
        /\ rows[i].ticket = item[i].ticket /\ rows[i].by = item[i].by
        /\ rows[i].status = "failed"
    BY <1>0 DEF Close, TypeInv, TypeOK, Item
  <2> HIDE DEF rows
  <2>4. \A j \in ItemIds : rows[j].ticket = item[j].ticket /\ rows[j].by = item[j].by
    BY <2>3
  <2>5. before = [j \in ItemIds |-> rows[j].status]
    BY <2>3
  <2> HIDE DEF before, t
  <2>6. Grows(before, t)
    BY <2>1, <2>2, <2>4, <2>5, InsertGrows
  <2> QED BY <2>6, InsertReplaces DEF before, t, Taken
<1>2. CASE ~HasBudget(item[i].ticket)
  <2>1. Log!End(i, "failed")
    BY <1>0, <1>2, CloseEnds DEF ChargeFailure, Finished
  <2> QED BY <1>0, <2>1 DEF Log!Next, Log!Results
<1> QED BY <1>1, <1>2

\* A fresh row is an attempt that was queued.
LEMMA InsertQueues ==
  ASSUME LogInv, NEW t \in Tickets, top < MaxItems, top' = top + 1,
         item' = [item EXCEPT ![top + 1] = QueuedFor(t)]
  PROVE  Log!Next
<1>1. item \in [ItemIds -> Item]
  BY DEF LogInv, ClaimInv, TypeInv, TypeOK
<1>2. Grows(LogStatus, t)
  BY <1>1, InsertGrows DEF LogStatus
<1>3. Log!Queue(t)
  BY <1>2 DEF Grows, Log!Queue, Log!Grows, LogOf, LogStatus, LogBy
<1> QED BY <1>3 DEF Log!Next

\* Every step of the queue is a step of the log or leaves it alone.
Logged == Log!Next \/ UNCHANGED Log!vars

LEMMA UntouchedIsLogged ==
  ASSUME UNCHANGED <<item, top>>
  PROVE  Logged
BY ColumnsKept DEF Logged

LEMMA SlotStepLogged ==
  ASSUME LogInv, NEW s \in Slots, SlotStep(s)
  PROVE  Logged
<1>0. /\ TypeInv /\ s[1] \in Workers
      /\ \A i \in ItemIds : i \in Log!Attempts
      /\ Busy(s) => slot[s].item \in ItemIds
  BY DEF LogInv, ClaimInv, TypeInv, BusyHasRow, Slots, Log!Attempts, ItemIds
<1>1. CASE ClaimItem(s)
  <2>1. PICK i \in ItemIds :
          /\ item[i].status = "queued"
          /\ item' = [item EXCEPT ![i] = [@ EXCEPT !.status = "claimed", !.by = s[1],
                                                   !.stale = FALSE]]
          /\ top' = top
    BY <1>1 DEF ClaimItem, Eligible
  <2>2. /\ item'[i] = [item[i] EXCEPT !.status = "claimed", !.by = s[1], !.stale = FALSE]
        /\ \A j \in ItemIds \ {i} : item'[j] = item[j]
    BY <1>0, <2>1 DEF TypeInv, TypeOK
  <2>3. /\ item'[i].status = "claimed" /\ item'[i].by = s[1]
        /\ item'[i].ticket = item[i].ticket
    BY <1>0, <2>2 DEF TypeInv, TypeOK, Item
  <2> DEFINE w == s[1]
  <2> HIDE DEF w
  <2>5. \A j \in ItemIds :
          /\ item'[j].status = IF j = i THEN "claimed" ELSE item[j].status
          /\ item'[j].by = IF j = i THEN w ELSE item[j].by
          /\ item'[j].ticket = item[j].ticket
    BY <2>2, <2>3 DEF w
  <2>6. LogStatus[i] = "queued"
    BY <2>1 DEF LogStatus
  <2>7. LogStatus' = [LogStatus EXCEPT ![i] = "claimed"]
    BY <2>5 DEF LogStatus
  <2>8. LogBy' = [LogBy EXCEPT ![i] = w]
    BY <2>5 DEF LogBy
  <2>9. LogOf' = LogOf
    BY <2>5 DEF LogOf
  <2>10. Log!Take(i, w)
    BY <2>1, <2>6, <2>7, <2>8, <2>9 DEF Log!Take, LogStatus, LogBy, LogOf
  <2> QED BY <1>0, <2>10 DEF Logged, Log!Next, w
<1>2. CASE TouchHeartbeat(s)
  <2>1. \A i \in ItemIds : /\ item'[i].ticket = item[i].ticket
                            /\ item'[i].by = item[i].by
                            /\ item'[i].status = item[i].status
    BY <1>0, <1>2 DEF TouchHeartbeat, TypeInv, TypeOK, Item
  <2> QED BY <1>2, <2>1, ColumnsKept DEF TouchHeartbeat, Logged
<1>3. CASE FinishWork(s)
  <2> DEFINE i == slot[s].item
  <2>1. i \in ItemIds /\ item[i].status = "claimed"
    BY <1>0, <1>3 DEF FinishWork, StillHeld, Busy
  <2>2. CASE FinishFailed(s)
    BY <2>1, <2>2, ChargeIsLogged DEF FinishFailed, Logged
  <2>3. CASE FinishOk(s) \/ FinishKilled(s) \/ RaiseQuestion(s)
    <3>1. PICK st \in {"done", "killed", "blocked"} : item' = Close(i, st) /\ top' = top
      BY <2>3 DEF FinishOk, FinishKilled, RaiseQuestion, CloseItem
    <3>2. Log!End(i, st)
      BY <1>0, <2>1, <3>1, CloseEnds DEF Finished
    <3> QED BY <1>0, <2>1, <3>2 DEF Logged, Log!Next, Log!Results
  <2> QED BY <1>3, <2>2, <2>3 DEF FinishWork
<1> QED
  BY <1>1, <1>2, <1>3, UntouchedIsLogged DEF SlotStep, ClaimGate, ClaimNothing, RunEnds,
     Superseded, LoseResult

LEMMA LoopStepLogged ==
  ASSUME LogInv, NEW w \in Workers, LoopStep(w)
  PROVE  Logged
<1>1. ASSUME NEW i \in ItemIds, ReapOne(w, i) PROVE Logged
  <2>1. CASE item[i].status = "claimed"
    BY <1>1, <2>1, ChargeIsLogged DEF ReapOne, Logged
  <2>2. CASE item[i].status # "claimed"
    BY <1>1, <2>2, UntouchedIsLogged DEF ReapOne
  <2> QED BY <2>1, <2>2
<1>2. ASSUME NEW t \in Tickets, TriageApply(w, t) PROVE Logged
  <2>1. CASE Untriaged(t)
    <3>1. /\ top < MaxDelegations /\ top' = top + 1
          /\ item' = [item EXCEPT ![top + 1] = QueuedFor(t)]
      BY <1>2, <2>1 DEF TriageApply
    <3>2. top < MaxItems
      BY <3>1, ConstantsAssumption DEF LogInv, ClaimInv, TypeInv, TypeOK
    <3> QED BY <3>1, <3>2, InsertQueues DEF Logged
  <2>2. CASE ~Untriaged(t)
    BY <1>2, <2>2, UntouchedIsLogged DEF TriageApply
  <2> QED BY <2>1, <2>2
<1> QED
  BY <1>1, <1>2, UntouchedIsLogged DEF LoopStep, ReapScan, TriageScan, TriageFails, LoopAborts

LEMMA ReqStepLogged ==
  ASSUME LogInv, NEW r \in Reqs, ReqStep(r)
  PROVE  Logged
<1>0. TypeInv /\ req[r] \in Req
  BY DEF LogInv, ClaimInv, TypeInv, TypeOK
<1>1. CASE KillCommit(r)
  <2>1. \A i \in ItemIds : /\ item'[i].ticket = item[i].ticket
                            /\ item'[i].by = item[i].by
                            /\ item'[i].status = item[i].status
    BY <1>0, <1>1 DEF KillCommit, TypeInv, TypeOK, Item
  <2> QED BY <1>1, <2>1, ColumnsKept DEF KillCommit, Logged
<1>2. CASE EnqueueCommit(r) /\ ~RowStands(r)
  <2> DEFINE t == req[r].ticket
  <2>1. /\ req[r].pc = "enqueue" /\ top < MaxDelegations /\ top' = top + 1
        /\ item' = [SupersededRow(r) EXCEPT ![top + 1] = QueuedFor(t)]
    BY <1>2 DEF EnqueueCommit
  <2>2. top < MaxItems /\ t \in Tickets
    BY <1>0, <2>1, ConstantsAssumption DEF LogInv, RequeueKnowsRow, TypeInv, TypeOK
  <2>3. CASE req[r].seenStatus # "claimed"
    <3>1. SupersededRow(r) = item
      BY <2>3 DEF SupersededRow
    <3> QED BY <2>1, <2>2, <3>1, InsertQueues DEF Logged
  <2>4. CASE req[r].seenStatus = "claimed"
    <3> DEFINE i == req[r].seen
    <3> DEFINE rows == Close(i, "failed")
    <3> DEFINE before == [j \in ItemIds |-> IF j = i THEN "failed" ELSE item[j].status]
    <3>1. i \in ItemIds /\ item[i].status \in Taken /\ item[i].ticket = t
      BY <2>1, <2>4 DEF LogInv, RequeueKnowsRow
    <3>2. item' = [rows EXCEPT ![top + 1] = QueuedFor(t)]
      BY <2>1, <2>4 DEF SupersededRow
    <3>3. rows \in [ItemIds -> Item]
      BY <1>0, CloseTyped DEF TypeInv, TypeOK, Finished
    <3>4. /\ \A j \in ItemIds \ {i} : rows[j] = item[j]
          /\ rows[i].ticket = item[i].ticket /\ rows[i].by = item[i].by
          /\ rows[i].status = "failed"
      BY <1>0, <3>1 DEF Close, TypeInv, TypeOK, Item
    <3> HIDE DEF rows, i
    <3>5. \A j \in ItemIds : rows[j].ticket = item[j].ticket /\ rows[j].by = item[j].by
      BY <3>4
    <3>6. before = [j \in ItemIds |-> rows[j].status]
      BY <3>4
    <3> HIDE DEF before, t
    <3>7. Grows(before, t)
      BY <2>1, <2>2, <3>2, <3>3, <3>5, <3>6, InsertGrows
    <3>8. Log!Next
      BY <3>1, <3>7, InsertReplaces DEF before
    <3> QED BY <3>8 DEF Logged
  <2> QED BY <2>3, <2>4
<1>3. CASE EnqueueCommit(r) /\ RowStands(r)
  BY <1>3, UntouchedIsLogged DEF EnqueueCommit
<1> QED
  BY <1>1, <1>2, <1>3, UntouchedIsLogged DEF ReqStep, Call, CreateTicket, RunTicket,
     PatchTicket, PatchCommit, EnqueueFind, KillTicket, RequestDies

LEMMA NextLogged ==
  ASSUME LogInv, [Next]_vars
  PROVE  Logged
<1>1. ASSUME NEW i \in ItemIds, HeartbeatExpires(i) PROVE Logged
  <2>1. \A j \in ItemIds : /\ item'[j].ticket = item[j].ticket
                            /\ item'[j].by = item[j].by
                            /\ item'[j].status = item[j].status
    BY <1>1 DEF HeartbeatExpires, LogInv, ClaimInv, TypeInv, TypeOK, Item
  <2> QED BY <1>1, <2>1, ColumnsKept DEF HeartbeatExpires, Logged
<1>2. CASE UNCHANGED vars
  BY <1>2, UntouchedIsLogged DEF vars
<1> QED
  BY <1>1, <1>2, SlotStepLogged, LoopStepLogged, ReqStepLogged, UntouchedIsLogged
     DEF Next, Crash, PutSettings

\* The log starts empty.
LEMMA InitLogged == Init => Log!Init
BY DEF Init, NoRow, Log!Init, Log!Attempts, ItemIds

\* The work queue is an attempt log: whatever slots, reapers, triage, clients
\* and crashes do to it in any order, each attempt is queued once, taken by one
\* PC and ended once, but for a re-queue that overrules the result.
THEOREM QueueImplementsLog == Spec => IsAttemptLog
<1>1. LogInv /\ [Next]_vars => [Log!Next]_(Log!vars)
  BY NextLogged DEF Logged
<1> QED
  BY <1>1, InitLogged, LogInvHolds, PTL DEF Spec, IsAttemptLog, Log!Spec

-----------------------------------------------------------------------------
(* What a step does to the ticket and status columns of work_queue, and to   *)
(* the tickets.                                                              *)

SameRow(i) == item'[i].ticket = item[i].ticket /\ item'[i].status = item[i].status
Rests      == \A i \in ItemIds : SameRow(i)

\* Row i goes from one status to another, and nothing else moves.
Moves(i, from, to) ==
  /\ item[i].status = from /\ item'[i].status = to
  /\ item'[i].ticket = item[i].ticket
  /\ \A j \in ItemIds \ {i} : SameRow(j)

\* A row of ticket t is queued at the end; of the others only those of D are
\* closed as failed.
Queues(t, D) ==
  /\ top + 1 \in ItemIds \ D
  /\ item[top + 1].status = "absent"
  /\ item'[top + 1].ticket = t /\ item'[top + 1].status = "queued"
  /\ \A i \in ItemIds \ {top + 1} :
       /\ item'[i].ticket = item[i].ticket
       /\ item'[i].status = IF i \in D THEN "failed" ELSE item[i].status

\* Ticket t takes a status and an attempt count, the others keep theirs.
Turns(t, st, n) ==
  \A u \in Tickets :
    /\ ticket'[u].status = IF u = t THEN st ELSE ticket[u].status
    /\ ticket'[u].attempts = IF u = t THEN n ELSE ticket[u].attempts

Attempted(i) == ticket[item[i].ticket].attempts

\* A claim; a result; a retry; a triage; the commit of a re-queue.
Claims(i) == /\ Moves(i, "queued", "claimed")
             /\ Turns(item[i].ticket, "doing", Attempted(i) + 1)
Closes(i, to, st) ==
  /\ Moves(i, "claimed", to) /\ to \in Finished /\ st # "ready"
  /\ Turns(item[i].ticket, st, IF to = "killed" THEN Refund(Attempted(i)) ELSE Attempted(i))
Retries(i) == /\ item[i].status = "claimed" /\ HasBudget(item[i].ticket)
              /\ Queues(item[i].ticket, {i})
              /\ Turns(item[i].ticket, "ready", Attempted(i))
Triaged(t) == /\ \E w \in Workers : t \in loop[w].triage
              /\ ~ticket[t].triaged /\ ticket'[t].triaged
              /\ Queues(t, {})
              /\ Turns(t, "ready", ticket[t].attempts)
Requeues(r) ==
  /\ EnqueueCommit(r)
  /\ IF RowStands(r) THEN Rests
     ELSE Queues(req[r].ticket, IF req[r].seenStatus = "claimed" THEN {req[r].seen} ELSE {})
  /\ \A u \in Tickets \ {req[r].ticket} : ticket'[u] = ticket[u]

\* Any step of a slot, a main loop or the clock.
WorkerEffect ==
  /\ req' = req
  /\ \/ \E i \in ItemIds : Claims(i) \/ Retries(i)
     \/ \E i \in ItemIds, to \in Finished, st \in TicketStatuses : Closes(i, to, st)
     \/ \E t \in Tickets : Triaged(t)
     \/ Rests /\ ticket' = ticket

\* Any other step of a request.
OtherRequest(r) == /\ ReqStep(r) /\ ~EnqueueCommit(r)
                   /\ Rests

LEMMA TicketTurns ==
  ASSUME TypeInv, NEW t, NEW st, NEW n, TicketBecomes(t, st, n)
  PROVE  Turns(t, st, n)
BY DEF TicketBecomes, Turns, TypeInv, TypeOK, Ticket

LEMMA StatusTurns ==
  ASSUME TypeInv, NEW t, NEW st, ticket' = [ticket EXCEPT ![t].status = st]
  PROVE  Turns(t, st, ticket[t].attempts)
BY DEF Turns, TypeInv, TypeOK, Ticket

LEMMA CloseMoves ==
  ASSUME TypeInv, NEW i \in ItemIds, NEW to \in Finished, item[i].status = "claimed",
         item' = Close(i, to)
  PROVE  Moves(i, "claimed", to)
<1>1. /\ \A j \in ItemIds \ {i} : item'[j] = item[j]
      /\ item'[i] = [item[i] EXCEPT !.status = to, !.stale = FALSE]
  BY DEF Close, TypeInv, TypeOK
<1>2. item'[i].ticket = item[i].ticket /\ item'[i].status = to
  BY <1>1 DEF TypeInv, TypeOK, Item
<1> QED BY <1>1, <1>2 DEF Moves, SameRow

\* A row inserted after those of D, of one row at most, were failed.
LEMMA InsertQueuesRow ==
  ASSUME LogInv, NEW t, top < MaxItems, NEW i, i \in ItemIds => item[i].status \in Taken,
         item' = [Close(i, "failed") EXCEPT ![top + 1] = QueuedFor(t)]
  PROVE  Queues(t, {i})
<1> DEFINE rows == Close(i, "failed")
<1>0. TypeInv /\ top \in Nat /\ top + 1 \in ItemIds
  BY ConstantsAssumption DEF LogInv, ClaimInv, TypeInv, TypeOK, ItemIds
<1>1. item[top + 1].status = "absent"
  BY <1>0 DEF LogInv, ClaimInv, UnusedAboveTop
<1>2. rows \in [ItemIds -> Item]
  BY <1>0, CloseTyped DEF TypeInv, TypeOK, Finished
<1>3. \A j \in ItemIds : /\ rows[j].ticket = item[j].ticket
                          /\ rows[j].status = IF j \in {i} THEN "failed" ELSE item[j].status
  BY <1>0 DEF Close, TypeInv, TypeOK, Item
<1> HIDE DEF rows
<1>4. /\ item'[top + 1] = QueuedFor(t)
      /\ \A j \in ItemIds \ {top + 1} : item'[j] = rows[j]
  BY <1>0, <1>2 DEF rows
<1>5. QueuedFor(t).ticket = t /\ QueuedFor(t).status = "queued"
  BY DEF QueuedFor, NoRow
<1>6. top + 1 # i
  BY <1>0, <1>1 DEF Taken, Finished
<1> QED BY <1>0, <1>1, <1>3, <1>4, <1>5, <1>6 DEF Queues

LEMMA InsertAlone ==
  ASSUME LogInv, NEW t, top < MaxItems, item' = [item EXCEPT ![top + 1] = QueuedFor(t)]
  PROVE  Queues(t, {})
<1>0. TypeInv /\ top \in Nat /\ top + 1 \in ItemIds
  BY ConstantsAssumption DEF LogInv, ClaimInv, TypeInv, TypeOK, ItemIds
<1>1. item[top + 1].status = "absent"
  BY <1>0 DEF LogInv, ClaimInv, UnusedAboveTop
<1>2. /\ item'[top + 1] = QueuedFor(t)
      /\ \A j \in ItemIds \ {top + 1} : item'[j] = item[j]
  BY <1>0 DEF TypeInv, TypeOK
<1>3. QueuedFor(t).ticket = t /\ QueuedFor(t).status = "queued"
  BY DEF QueuedFor, NoRow
<1> QED BY <1>0, <1>1, <1>2, <1>3 DEF Queues

LEMMA ChargeRetriesOrCloses ==
  ASSUME LogInv, NEW i \in ItemIds, item[i].status = "claimed", ChargeFailure(i)
  PROVE  Retries(i) \/ Closes(i, "failed", "failed")
<1>0. TypeInv
  BY DEF LogInv, ClaimInv
<1>1. CASE HasBudget(item[i].ticket)
  <2> DEFINE t == item[i].ticket
  <2>1. /\ top < MaxItems
        /\ item' = [Close(i, "failed") EXCEPT ![top + 1] = QueuedFor(t)]
        /\ ticket' = [ticket EXCEPT ![t].status = "ready"]
    BY <1>1 DEF ChargeFailure
  <2>2. Queues(t, {i})
    BY <2>1, InsertQueuesRow DEF Taken
  <2>3. Turns(t, "ready", ticket[t].attempts)
    BY <1>0, <2>1, StatusTurns
  <2> QED BY <1>1, <2>2, <2>3 DEF Retries, Attempted
<1>2. CASE ~HasBudget(item[i].ticket)
  <2>1. Moves(i, "claimed", "failed")
    BY <1>0, <1>2, CloseMoves DEF ChargeFailure, Finished
  <2>2. Turns(item[i].ticket, "failed", Attempted(i))
    BY <1>0, <1>2, StatusTurns DEF ChargeFailure, Attempted
  <2> QED BY <2>1, <2>2 DEF Closes, Finished
<1> QED BY <1>1, <1>2

LEMMA SlotEffects ==
  ASSUME LogInv, NEW s \in Slots, SlotStep(s)
  PROVE  WorkerEffect
<1>0. /\ TypeInv /\ req' = req
      /\ Busy(s) => slot[s].item \in ItemIds
  BY DEF LogInv, ClaimInv, TypeInv, BusyHasRow, SlotStep, ClaimGate, ClaimNothing, ClaimItem,
         TouchHeartbeat, RunEnds, FinishWork, Superseded, LoseResult
<1>1. CASE ClaimItem(s)
  <2>1. PICK i \in ItemIds :
          /\ item[i].status = "queued"
          /\ item' = [item EXCEPT ![i] = [@ EXCEPT !.status = "claimed", !.by = s[1],
                                                   !.stale = FALSE]]
          /\ TicketBecomes(item[i].ticket, "doing", Attempted(i) + 1)
    BY <1>1 DEF ClaimItem, Eligible, Attempted
  <2>2. /\ item'[i] = [item[i] EXCEPT !.status = "claimed", !.by = s[1], !.stale = FALSE]
        /\ \A j \in ItemIds \ {i} : item'[j] = item[j]
    BY <1>0, <2>1 DEF TypeInv, TypeOK
  <2>3. item'[i].status = "claimed" /\ item'[i].ticket = item[i].ticket
    BY <1>0, <2>2 DEF TypeInv, TypeOK, Item
  <2>4. Moves(i, "queued", "claimed")
    BY <2>1, <2>2, <2>3 DEF Moves, SameRow
  <2> QED BY <1>0, <2>1, <2>4, TicketTurns DEF Claims, WorkerEffect
<1>2. CASE TouchHeartbeat(s)
  <2>1. Rests
    BY <1>0, <1>2 DEF TouchHeartbeat, TypeInv, TypeOK, Item, Rests, SameRow
  <2> QED BY <1>0, <1>2, <2>1 DEF TouchHeartbeat, WorkerEffect
<1>3. CASE FinishWork(s)
  <2> DEFINE i == slot[s].item
  <2>1. i \in ItemIds /\ item[i].status = "claimed"
    BY <1>0, <1>3 DEF FinishWork, StillHeld, Busy
  <2>2. CASE FinishFailed(s)
    <3>1. Retries(i) \/ Closes(i, "failed", "failed")
      BY <2>1, <2>2, ChargeRetriesOrCloses DEF FinishFailed
    <3> QED BY <1>0, <2>1, <3>1 DEF WorkerEffect, Finished, TicketStatuses
  <2>3. CASE FinishOk(s) \/ RaiseQuestion(s)
    <3>1. PICK to \in {"done", "blocked"}, st \in {"done", "blocked"} :
            /\ item' = Close(i, to)
            /\ ticket' = [ticket EXCEPT ![item[i].ticket].status = st]
      BY <2>3 DEF FinishOk, RaiseQuestion, CloseItem
    <3>2. Moves(i, "claimed", to) /\ to \in Finished \ {"killed"}
      BY <1>0, <2>1, <3>1, CloseMoves DEF Finished
    <3>3. Turns(item[i].ticket, st, Attempted(i))
      BY <1>0, <3>1, StatusTurns DEF Attempted
    <3>4. Closes(i, to, st) /\ st \in TicketStatuses
      BY <3>2, <3>3 DEF Closes, TicketStatuses
    <3> QED BY <1>0, <2>1, <3>2, <3>4 DEF WorkerEffect
  <2>4. CASE FinishKilled(s)
    <3>1. /\ item' = Close(i, "killed")
          /\ TicketBecomes(item[i].ticket, "killed", Refund(Attempted(i)))
      BY <2>4 DEF FinishKilled, Attempted
    <3>2. Moves(i, "claimed", "killed") /\ "killed" \in Finished
      BY <1>0, <2>1, <3>1, CloseMoves DEF Finished
    <3>3. Closes(i, "killed", "killed") /\ "killed" \in TicketStatuses
      BY <1>0, <3>1, <3>2, TicketTurns DEF Closes, TicketStatuses
    <3> QED BY <1>0, <2>1, <3>2, <3>3 DEF WorkerEffect
  <2> QED BY <1>3, <2>2, <2>3, <2>4 DEF FinishWork
<1> QED
  BY <1>0, <1>1, <1>2, <1>3 DEF SlotStep, ClaimGate, ClaimNothing, RunEnds, Superseded,
     LoseResult, WorkerEffect, Rests, SameRow

LEMMA LoopEffects ==
  ASSUME LogInv, NEW w \in Workers, LoopStep(w)
  PROVE  WorkerEffect
<1>0. TypeInv /\ req' = req
  BY DEF LogInv, ClaimInv, LoopStep, ReapScan, TriageScan, LoopAborts, ReapOne, TriageApply,
         TriageFails
<1>1. CASE UNCHANGED <<ticket, item>>
  BY <1>0, <1>1 DEF WorkerEffect, Rests, SameRow
<1>2. ASSUME NEW i \in ItemIds, ReapOne(w, i), item[i].status = "claimed" PROVE WorkerEffect
  <2>1. Retries(i) \/ Closes(i, "failed", "failed")
    BY <1>2, ChargeRetriesOrCloses DEF ReapOne
  <2> QED BY <1>0, <2>1 DEF WorkerEffect, Finished, TicketStatuses
<1>3. ASSUME NEW t \in Tickets, TriageApply(w, t), Untriaged(t) PROVE WorkerEffect
  <2>1. /\ t \in loop[w].triage /\ top < MaxDelegations
        /\ item' = [item EXCEPT ![top + 1] = QueuedFor(t)]
        /\ ticket' = [ticket EXCEPT ![t] = [@ EXCEPT !.status = "ready", !.triaged = TRUE]]
    BY <1>3 DEF TriageApply
  <2>0. top < MaxItems
    BY <1>0, <2>1, ConstantsAssumption DEF TypeInv, TypeOK
  <2>2. Queues(t, {})
    BY <2>0, <2>1, InsertAlone
  <2>3. /\ \A u \in Tickets \ {t} : ticket'[u] = ticket[u]
        /\ ticket'[t] = [ticket[t] EXCEPT !.status = "ready", !.triaged = TRUE]
    BY <1>0, <2>1 DEF TypeInv, TypeOK
  <2>4. /\ ticket'[t].status = "ready" /\ ticket'[t].triaged
        /\ ticket'[t].attempts = ticket[t].attempts
    BY <1>0, <2>3 DEF TypeInv, TypeOK, Ticket
  <2>5. Triaged(t)
    BY <1>3, <2>1, <2>2, <2>3, <2>4 DEF Triaged, Turns, Untriaged
  <2> QED BY <1>0, <2>5 DEF WorkerEffect
<1> QED
  BY <1>1, <1>2, <1>3 DEF LoopStep, ReapScan, TriageScan, LoopAborts, ReapOne, TriageApply,
     TriageFails

LEMMA CommitEffect ==
  ASSUME LogInv, NEW r \in Reqs, EnqueueCommit(r)
  PROVE  Requeues(r) /\ req[r].ticket \in Tickets
<1>0. TypeInv /\ req[r].pc = "enqueue" /\ req[r].ticket \in Tickets
  BY DEF LogInv, ClaimInv, EnqueueCommit, RequeueKnowsRow
<1>1. \A u \in Tickets \ {req[r].ticket} : ticket'[u] = ticket[u]
  BY <1>0 DEF EnqueueCommit, Resync, TicketBecomes, TypeInv, TypeOK
<1>2. CASE RowStands(r)
  BY <1>0, <1>1, <1>2 DEF EnqueueCommit, Requeues, Rests, SameRow
<1>3. CASE ~RowStands(r)
  <2> DEFINE t == req[r].ticket
  <2>1. /\ top < MaxItems
        /\ item' = [SupersededRow(r) EXCEPT ![top + 1] = QueuedFor(t)]
    BY <1>0, <1>3, ConstantsAssumption DEF EnqueueCommit, TypeInv, TypeOK
  <2>2. CASE req[r].seenStatus = "claimed"
    <3>1. item[req[r].seen].status \in Taken
      BY <1>0, <2>2 DEF LogInv, RequeueKnowsRow
    <3>2. Queues(t, {req[r].seen})
      BY <2>1, <2>2, <3>1, InsertQueuesRow DEF SupersededRow
    <3> QED BY <1>0, <1>1, <1>3, <2>2, <3>2 DEF Requeues
  <2>3. CASE req[r].seenStatus # "claimed"
    <3>1. Queues(t, {})
      BY <2>1, <2>3, InsertAlone DEF SupersededRow
    <3> QED BY <1>0, <1>1, <1>3, <2>3, <3>1 DEF Requeues
  <2> QED BY <2>2, <2>3
<1> QED BY <1>2, <1>3

\* Every step has one of these effects.
LEMMA StepEffects ==
  ASSUME LogInv, [Next]_vars
  PROVE  \/ WorkerEffect
         \/ \E r \in Reqs : Requeues(r) \/ OtherRequest(r)
<1>0. TypeInv
  BY DEF LogInv, ClaimInv
<1>1. ASSUME NEW r \in Reqs, ReqStep(r), ~EnqueueCommit(r) PROVE Rests
  <2>1. CASE KillCommit(r)
    BY <1>0, <2>1 DEF KillCommit, TypeInv, TypeOK, Item, Rests, SameRow
  <2>2. CASE item' = item
    BY <2>2 DEF Rests, SameRow
  <2> QED
    BY <1>1, <2>1, <2>2 DEF ReqStep, Call, CreateTicket, RunTicket, PatchTicket, PatchCommit,
       EnqueueFind, KillTicket, RequestDies
<1>2. ASSUME NEW i \in ItemIds, HeartbeatExpires(i) PROVE WorkerEffect
  <2>1. Rests
    BY <1>0, <1>2 DEF HeartbeatExpires, TypeInv, TypeOK, Item, Rests, SameRow
  <2> QED BY <1>2, <2>1 DEF HeartbeatExpires, WorkerEffect
<1>3. CASE UNCHANGED <<ticket, item, req>>
  BY <1>3 DEF WorkerEffect, Rests, SameRow
<1> QED
  BY <1>1, <1>2, <1>3, SlotEffects, LoopEffects, CommitEffect DEF Next, vars, Crash,
     PutSettings, OtherRequest
-----------------------------------------------------------------------------
(* The outstanding rows of a ticket.                                         *)

LEMMA OpenFinite == \A t : IsFiniteSet(OpenItems(t)) /\ IsFiniteSet(OpenAfter(t))
<1>1. IsFiniteSet(ItemIds)
  BY FS_Interval, ConstantsAssumption DEF ItemIds
<1> QED BY <1>1, FS_Subset DEF OpenItems, OpenAfter

\* A finite set with at most one element.
LEMMA AtMostOne ==
  ASSUME NEW S, IsFiniteSet(S), Cardinality(S) <= 1, NEW x \in S
  PROVE  S = {x}
<1>1. Cardinality(S \ {x}) = Cardinality(S) - 1 /\ IsFiniteSet(S \ {x})
  BY FS_RemoveElement
<1>2. Cardinality(S) \in Nat /\ Cardinality(S \ {x}) \in Nat
  BY <1>1, FS_CardinalityType
<1>3. S \ {x} = {}
  BY <1>1, <1>2, FS_EmptySet
<1> QED BY <1>3

LEMMA SmallSubset ==
  ASSUME NEW S, NEW x, S \subseteq {x}
  PROVE  Cardinality(S) <= 1
<1>1. S = {} \/ S = {x}
  OBVIOUS
<1>2. Cardinality({}) = 0 /\ Cardinality({x}) = 1
  BY FS_EmptySet, FS_Singleton
<1> QED BY <1>1, <1>2

\* What each effect does to them.
LEMMA RestsOpens ==
  ASSUME Rests, NEW t
  PROVE  OpenAfter(t) = OpenItems(t)
BY DEF Rests, SameRow, OpenAfter, OpenItems

LEMMA MovesOpens ==
  ASSUME NEW i \in ItemIds, NEW from \in Outstanding, NEW to, Moves(i, from, to), NEW t
  PROVE  OpenAfter(t) = IF to \in Outstanding THEN OpenItems(t) ELSE OpenItems(t) \ {i}
BY DEF Moves, SameRow, OpenAfter, OpenItems

LEMMA QueuesOpens ==
  ASSUME NEW u, NEW D, Queues(u, D), NEW t
  PROVE  OpenAfter(t) = (OpenItems(t) \ D) \cup (IF t = u THEN {top + 1} ELSE {})
BY DEF Queues, OpenAfter, OpenItems, Outstanding

\* A request that has read no outstanding row holds none.
SeenHasStatus ==
  \A r \in Reqs : req[r].pc \in {"patch", "find", "enqueue"} /\ req[r].seenStatus = "none"
                 => req[r].seen = NoItem

LEMMA SeenHasStatusHolds == LogInv /\ SeenHasStatus /\ [Next]_vars => SeenHasStatus'
<1> SUFFICES ASSUME LogInv, SeenHasStatus, [Next]_vars PROVE SeenHasStatus'
  OBVIOUS
<1>0. TypeInv /\ req \in [Reqs -> Req] /\ \A r \in Reqs : req[r] \in Req
  BY DEF LogInv, ClaimInv, TypeInv, TypeOK
<1> DEFINE Ok(rec) == rec.pc \in {"patch", "find", "enqueue"} /\ rec.seenStatus = "none"
                        => rec.seen = NoItem
<1>1. Ok(IdleReq) /\ \A r \in Reqs : Ok(req[r])
  BY DEF IdleReq, SeenHasStatus
<1>2. ASSUME NEW r \in Reqs, NEW rec, ReqBecomes(r, rec), Ok(rec) PROVE SeenHasStatus'
  <2>1. ASSUME NEW x \in Reqs PROVE Ok(req'[x])
    BY <1>0, <1>1, <1>2 DEF ReqBecomes
  <2> QED BY <2>1 DEF SeenHasStatus
<1>3. ASSUME NEW r \in Reqs, NEW t \in Tickets, NEW st, CreateTicket(r, t, st)
      PROVE  SeenHasStatus'
  <2> DEFINE row == RowOf([NoTicket EXCEPT !.status = st])
  <2> DEFINE rec == [IdleReq EXCEPT !.pc = "find", !.ticket = t, !.row = row]
  <2>1. ReqBecomes(r, IF st = "ready" THEN rec ELSE IdleReq)
    BY <1>3 DEF CreateTicket
  <2>2. Ok(rec)
    BY DEF IdleReq
  <2> HIDE DEF rec, Ok
  <2> QED BY <1>1, <1>2, <2>1, <2>2
<1>4. ASSUME NEW r \in Reqs, NEW t \in Tickets, RunTicket(r, t) PROVE SeenHasStatus'
  <2>1. Ok(Loaded("find", t))
    BY DEF Loaded, IdleReq
  <2> QED BY <1>2, <1>4, <2>1 DEF RunTicket
<1>5. ASSUME NEW r \in Reqs, NEW t \in Tickets, NEW st, PatchTicket(r, t, st)
      PROVE  SeenHasStatus'
  <2>1. Ok([Loaded("patch", t) EXCEPT !.target = st])
    BY DEF Loaded, IdleReq
  <2> QED BY <1>2, <1>5, <2>1 DEF PatchTicket
<1>6. ASSUME NEW r \in Reqs, PatchCommit(r) PROVE SeenHasStatus'
  <2> DEFINE st == req[r].target
  <2> DEFINE rec == [req[r] EXCEPT !.pc = "find", !.row.status = st]
  <2>1. ReqBecomes(r, IF st = "ready" THEN rec ELSE IdleReq) /\ req[r].pc = "patch"
    BY <1>6 DEF PatchCommit
  <2>2. rec.pc = "find" /\ rec.seen = req[r].seen /\ rec.seenStatus = req[r].seenStatus
    BY <1>0 DEF Req
  <2> HIDE DEF rec
  <2>3. Ok(rec)
    BY <1>1, <2>1, <2>2
  <2> HIDE DEF Ok
  <2> QED BY <1>1, <1>2, <2>1, <2>3
<1>7. ASSUME NEW r \in Reqs, EnqueueFind(r) PROVE SeenHasStatus'
  <2>1. CASE ReqBecomes(r, [req[r] EXCEPT !.pc = "enqueue"])
    <3> DEFINE rec == [req[r] EXCEPT !.pc = "enqueue"]
    <3>1. rec.seen = req[r].seen /\ rec.seenStatus = req[r].seenStatus
      BY <1>0 DEF Req
    <3>2. ReqBecomes(r, rec) /\ req[r].pc = "find"
      BY <1>7, <2>1 DEF EnqueueFind
    <3> HIDE DEF rec
    <3>3. Ok(rec)
      BY <1>1, <3>1, <3>2
    <3> HIDE DEF Ok
    <3> QED BY <1>2, <3>2, <3>3
  <2>2. ASSUME NEW i \in OpenItems(req[r].ticket),
               ReqBecomes(r, [req[r] EXCEPT !.pc = "enqueue", !.seen = i,
                                            !.seenStatus = item[i].status])
        PROVE  SeenHasStatus'
    <3> DEFINE rec == [req[r] EXCEPT !.pc = "enqueue", !.seen = i,
                                     !.seenStatus = item[i].status]
    <3>1. rec.seenStatus = item[i].status /\ item[i].status # "none"
      BY <1>0 DEF Req, OpenItems, Outstanding
    <3> HIDE DEF rec
    <3>2. Ok(rec)
      BY <3>1
    <3>3. ReqBecomes(r, rec)
      BY <2>2 DEF rec
    <3> HIDE DEF Ok
    <3> QED BY <1>2, <3>2, <3>3
  <2> QED BY <1>7, <2>1, <2>2 DEF EnqueueFind
<1>8. ASSUME NEW r \in Reqs, EnqueueCommit(r) \/ KillCommit(r) \/ RequestDies(r)
      PROVE  SeenHasStatus'
  BY <1>1, <1>2, <1>8 DEF EnqueueCommit, KillCommit, RequestDies
<1>9. ASSUME NEW r \in Reqs, NEW t \in Tickets, KillTicket(r, t) PROVE SeenHasStatus'
  <2>1. PICK i : ReqBecomes(r, [IdleReq EXCEPT !.pc = "kill", !.ticket = t, !.seen = i])
    BY <1>9 DEF KillTicket
  <2>2. Ok([IdleReq EXCEPT !.pc = "kill", !.ticket = t, !.seen = i])
    BY DEF IdleReq
  <2> QED BY <1>2, <2>1, <2>2
<1>10. CASE req' = req
  BY <1>1, <1>10 DEF SeenHasStatus
<1> HIDE DEF Ok
<1>11. ASSUME NEW r \in Reqs, ReqStep(r) PROVE SeenHasStatus'
  BY <1>3, <1>4, <1>5, <1>6, <1>7, <1>8, <1>9, <1>11 DEF ReqStep, Call
<1> QED
  BY <1>10, <1>11, StepEffects DEF WorkerEffect, Requeues, OtherRequest, ReqStep

LEMMA SeenHasStatusAlways == Spec => [](LogInv /\ SeenHasStatus)
<1>1. Init => LogInv /\ SeenHasStatus
  BY InitLogInv DEF Init, SeenHasStatus, IdleReq
<1>2. LogInv /\ SeenHasStatus /\ [Next]_vars => (LogInv /\ SeenHasStatus)'
  BY NextLogInv, SeenHasStatusHolds
<1> QED BY <1>1, <1>2, PTL DEF Spec

\* A second outstanding row of a ticket comes from its one triage, or from a
\* re-queue whose SELECT went stale before its commit (enqueue_ticket): a
\* worker's retry, once, twice or late, replaces the row it closes.
THEOREM DuplicatesNeedRaces == Spec => OnlyRacesDuplicate
<1> DEFINE Excused(t) ==
      \/ ~ticket[t].triaged /\ ticket'[t].triaged
      \/ \E r \in Reqs : /\ req[r].pc = "enqueue" /\ req[r].ticket = t
                         /\ OpenItems(t) # {req[r].seen} \ {NoItem}
<1>1. ASSUME LogInv, SeenHasStatus, [Next]_vars, NEW t \in Tickets,
             Cardinality(OpenItems(t)) <= 1
      PROVE  Cardinality(OpenAfter(t)) <= 1 \/ Excused(t)
  <2>0. IsFiniteSet(OpenItems(t)) /\ IsFiniteSet(OpenAfter(t))
    BY OpenFinite
  <2>1. ASSUME OpenAfter(t) \subseteq OpenItems(t) PROVE Cardinality(OpenAfter(t)) <= 1
    <3>1. Cardinality(OpenAfter(t)) <= Cardinality(OpenItems(t))
      BY <2>0, <2>1, FS_Subset
    <3>2. Cardinality(OpenAfter(t)) \in Nat /\ Cardinality(OpenItems(t)) \in Nat
      BY <2>0, FS_CardinalityType
    <3> QED BY <1>1, <3>1, <3>2
  <2>2. ASSUME NEW i \in ItemIds, Claims(i) PROVE OpenAfter(t) \subseteq OpenItems(t)
    BY <2>2, MovesOpens DEF Claims, Outstanding
  <2>3. ASSUME NEW i \in ItemIds, NEW to, NEW st, Closes(i, to, st)
        PROVE  OpenAfter(t) \subseteq OpenItems(t)
    BY <2>3, MovesOpens DEF Closes, Outstanding, Finished
  <2>4. ASSUME NEW i \in ItemIds, Retries(i) PROVE Cardinality(OpenAfter(t)) <= 1
    <3>1. OpenAfter(t) = (OpenItems(t) \ {i})
                           \cup (IF t = item[i].ticket THEN {top + 1} ELSE {})
      BY <2>4, QueuesOpens DEF Retries
    <3>2. CASE t = item[i].ticket
      <4>1. i \in OpenItems(t)
        BY <2>4, <3>2 DEF Retries, OpenItems, Outstanding
      <4>2. OpenItems(t) = {i}
        BY <1>1, <2>0, <4>1, AtMostOne
      <4> QED BY <3>1, <4>2, SmallSubset
    <3>3. CASE t # item[i].ticket
      <4>1. OpenAfter(t) \subseteq OpenItems(t)
        BY <3>1, <3>3
      <4> QED BY <2>1, <4>1
    <3> QED BY <3>2, <3>3
  <2>5. ASSUME NEW u \in Tickets, Triaged(u)
        PROVE  OpenAfter(t) \subseteq OpenItems(t) \/ Excused(t)
    <3>1. CASE t = u
      BY <2>5, <3>1 DEF Triaged
    <3>2. CASE t # u
      BY <2>5, <3>2, QueuesOpens DEF Triaged
    <3> QED BY <3>1, <3>2
  <2>6. ASSUME NEW r \in Reqs, Requeues(r)
        PROVE  Cardinality(OpenAfter(t)) <= 1 \/ Excused(t)
    <3>1. CASE RowStands(r)
      BY <2>1, <2>6, <3>1, RestsOpens DEF Requeues
    <3>2. CASE ~RowStands(r) /\ t # req[r].ticket
      BY <2>1, <2>6, <3>2, QueuesOpens DEF Requeues
    <3>3. CASE ~RowStands(r) /\ t = req[r].ticket /\ ~Excused(t)
      <4>1. req[r].pc = "enqueue" /\ req[r] \in Req
        BY <1>1, <2>6 DEF Requeues, EnqueueCommit, LogInv, ClaimInv, TypeInv, TypeOK
      <4>2. OpenItems(t) = {req[r].seen} \ {NoItem}
        BY <3>3, <4>1
      <4>3. CASE req[r].seenStatus = "claimed"
        <5>1. OpenAfter(t) = (OpenItems(t) \ {req[r].seen}) \cup {top + 1}
          BY <2>6, <3>3, <4>3, QueuesOpens DEF Requeues
        <5> QED BY <4>2, <5>1, SmallSubset
      <4>4. CASE req[r].seenStatus # "claimed"
        <5>1. req[r].seenStatus = "none"
          BY <3>3, <4>1, <4>4 DEF RowStands, Req, Outstanding
        <5>2. OpenItems(t) = {}
          BY <1>1, <4>1, <4>2, <5>1 DEF SeenHasStatus
        <5>3. OpenAfter(t) = (OpenItems(t) \ {}) \cup {top + 1}
          BY <2>6, <3>3, <4>4, QueuesOpens DEF Requeues
        <5> QED BY <5>2, <5>3, SmallSubset
      <4> QED BY <4>3, <4>4
    <3> QED BY <3>1, <3>2, <3>3
  <2>7. CASE Rests
    BY <2>1, <2>7, RestsOpens
  <2> HIDE DEF Excused
  <2> QED
    BY <1>1, <2>1, <2>2, <2>3, <2>4, <2>5, <2>6, <2>7, StepEffects DEF WorkerEffect, OtherRequest
<1>2. LogInv /\ SeenHasStatus /\ [Next]_vars =>
        [\A t \in Tickets :
           Cardinality(OpenAfter(t)) > 1 /\ Cardinality(OpenItems(t)) <= 1 => Excused(t)]_vars
  <2> SUFFICES ASSUME LogInv, SeenHasStatus, [Next]_vars, NEW t \in Tickets,
                      Cardinality(OpenAfter(t)) > 1, Cardinality(OpenItems(t)) <= 1
               PROVE  Excused(t)
    OBVIOUS
  <2>1. Cardinality(OpenAfter(t)) \in Nat
    BY OpenFinite, FS_CardinalityType
  <2>2. Cardinality(OpenAfter(t)) <= 1 \/ Excused(t)
    BY <1>1
  <2> HIDE DEF Excused
  <2> QED BY <2>1, <2>2
<1> QED
  BY <1>2, SeenHasStatusAlways, PTL DEF Spec, OnlyRacesDuplicate
-----------------------------------------------------------------------------
(* Ready tickets with nothing left to run.                                   *)

\* Of one step and one ticket: the reasons why it does not strand it.
Saved(t) ==
  \/ ticket'[t].status # "ready"
  \/ OpenAfter(t) # {}
  \/ \E r \in Reqs : Queueing(r, t)'
  \/ /\ ticket'[t].status = ticket[t].status /\ OpenAfter(t) = OpenItems(t)
     /\ \A r \in Reqs : Queueing(r, t) => Queueing(r, t)'

Excuse(t) ==
  \E r \in Reqs :
    /\ Queueing(r, t)
    /\ \/ req[r].pc = "enqueue" /\ req[r].seenStatus = "queued" /\ req[r].seen \notin OpenItems(t)
       \/ "restart" \in Kinds /\ UNCHANGED <<ticket, item>>

LEMMA WorkerSaves ==
  ASSUME TypeInv, WorkerEffect, NEW t \in Tickets
  PROVE  Saved(t)
<1>0. req' = req /\ \A r \in Reqs : Queueing(r, t) => Queueing(r, t)'
  BY DEF WorkerEffect, Queueing
<1>1. ASSUME NEW i \in ItemIds, Claims(i) PROVE Saved(t)
  <2>1. OpenAfter(t) = OpenItems(t)
    BY <1>1, MovesOpens DEF Claims, Outstanding
  <2>2. ticket'[t].status = IF t = item[i].ticket THEN "doing" ELSE ticket[t].status
    BY <1>1 DEF Claims, Turns
  <2> QED BY <1>0, <2>1, <2>2 DEF Saved
<1>2. ASSUME NEW i \in ItemIds, NEW to, NEW st, Closes(i, to, st) PROVE Saved(t)
  <2>1. OpenAfter(t) = OpenItems(t) \ {i} /\ st # "ready"
    BY <1>2, MovesOpens DEF Closes, Outstanding, Finished
  <2>2. ticket'[t].status = IF t = item[i].ticket THEN st ELSE ticket[t].status
    BY <1>2 DEF Closes, Turns
  <2>3. i \in OpenItems(t) => t = item[i].ticket
    BY DEF OpenItems
  <2> QED BY <1>0, <2>1, <2>2, <2>3 DEF Saved
<1>3. ASSUME NEW i \in ItemIds, Retries(i) PROVE Saved(t)
  <2>1. OpenAfter(t) = (OpenItems(t) \ {i}) \cup (IF t = item[i].ticket THEN {top + 1} ELSE {})
    BY <1>3, QueuesOpens DEF Retries
  <2>2. ticket'[t].status = IF t = item[i].ticket THEN "ready" ELSE ticket[t].status
    BY <1>3 DEF Retries, Turns
  <2>3. i \in OpenItems(t) => t = item[i].ticket
    BY DEF OpenItems
  <2> QED BY <1>0, <2>1, <2>2, <2>3 DEF Saved
<1>4. ASSUME NEW u \in Tickets, Triaged(u) PROVE Saved(t)
  <2>1. OpenAfter(t) = (OpenItems(t) \ {}) \cup (IF t = u THEN {top + 1} ELSE {})
    BY <1>4, QueuesOpens DEF Triaged
  <2>2. ticket'[t].status = IF t = u THEN "ready" ELSE ticket[t].status
    BY <1>4 DEF Triaged, Turns
  <2> QED BY <1>0, <2>1, <2>2 DEF Saved
<1>5. CASE Rests /\ ticket' = ticket
  BY <1>0, <1>5, RestsOpens DEF Saved
<1> QED BY <1>1, <1>2, <1>3, <1>4, <1>5 DEF WorkerEffect

LEMMA CommitSaves ==
  ASSUME LogInv, NEW r \in Reqs, Requeues(r), NEW t \in Tickets
  PROVE  Saved(t) \/ Excuse(t)
<1>0. /\ req[r].pc = "enqueue" /\ req[r].ticket \in Tickets
      /\ \A x \in Reqs \ {r} : req'[x] = req[x]
  BY DEF Requeues, EnqueueCommit, LogInv, ClaimInv, RequeueKnowsRow, TypeInv, TypeOK, ReqBecomes
<1>1. CASE t = req[r].ticket /\ RowStands(r)
  <2>1. OpenAfter(t) = OpenItems(t)
    BY <1>1, RestsOpens DEF Requeues
  <2>2. CASE req[r].seen \in OpenItems(t)
    BY <2>1, <2>2 DEF Saved
  <2>3. CASE req[r].seen \notin OpenItems(t)
    BY <1>0, <1>1, <2>3 DEF Excuse, Queueing, RowStands
  <2> QED BY <2>2, <2>3
<1>2. CASE t = req[r].ticket /\ ~RowStands(r)
  <2>1. top + 1 \in OpenAfter(t)
    BY <1>2, QueuesOpens DEF Requeues
  <2> QED BY <2>1 DEF Saved
<1>3. CASE t # req[r].ticket
  <2>1. ticket'[t] = ticket[t]
    BY <1>3 DEF Requeues
  <2>2. \A x \in Reqs : Queueing(x, t) => Queueing(x, t)'
    BY <1>0, <1>3 DEF Queueing
  <2>3. CASE RowStands(r)
    BY <2>1, <2>2, <2>3, RestsOpens DEF Requeues, Saved
  <2>4. CASE ~RowStands(r) /\ req[r].seenStatus = "claimed"
    <3>1. OpenAfter(t) = OpenItems(t) \ {req[r].seen}
      BY <1>3, <2>4, QueuesOpens DEF Requeues
    <3>2. req[r].seen \notin OpenItems(t)
      BY <1>0, <1>3, <2>4 DEF LogInv, RequeueKnowsRow, OpenItems
    <3> QED BY <2>1, <2>2, <3>1, <3>2 DEF Saved
  <2>5. CASE ~RowStands(r) /\ req[r].seenStatus # "claimed"
    <3>1. OpenAfter(t) = OpenItems(t)
      BY <1>3, <2>5, QueuesOpens DEF Requeues
    <3> QED BY <2>1, <2>2, <3>1 DEF Saved
  <2> QED BY <2>3, <2>4, <2>5
<1> QED BY <1>1, <1>2, <1>3

LEMMA OtherRequestSaves ==
  ASSUME TypeInv, NEW r \in Reqs, OtherRequest(r), NEW t \in Tickets
  PROVE  Saved(t) \/ Excuse(t)
<1>0. /\ OpenAfter(t) = OpenItems(t) /\ ReqStep(r) /\ ~EnqueueCommit(r)
      /\ req[r] \in Req /\ req \in [Reqs -> Req] /\ ticket \in [Tickets -> Ticket]
  BY RestsOpens DEF OtherRequest, TypeInv, TypeOK
<1>1. ASSUME NEW rec, ReqBecomes(r, rec)
      PROVE  req'[r] = rec /\ \A x \in Reqs \ {r} : Queueing(x, t) => Queueing(x, t)'
  BY <1>0, <1>1 DEF ReqBecomes, Queueing
<1>2. ASSUME NEW rec, ReqBecomes(r, rec), ticket' = ticket, ~Queueing(r, t) PROVE Saved(t)
  <2>1. \A x \in Reqs : Queueing(x, t) => Queueing(x, t)'
    BY <1>1, <1>2
  <2> QED BY <1>0, <1>2, <2>1 DEF Saved
<1>3. ASSUME NEW u \in Tickets, NEW st, CreateTicket(r, u, st) PROVE Saved(t)
  <2> DEFINE row == [NoTicket EXCEPT !.status = st]
  <2> DEFINE rec == [IdleReq EXCEPT !.pc = "find", !.ticket = u, !.row = RowOf(row)]
  <2>1. /\ ReqBecomes(r, IF st = "ready" THEN rec ELSE IdleReq)
        /\ ticket' = [ticket EXCEPT ![u] = row] /\ req[r].pc = "idle"
    BY <1>3 DEF CreateTicket
  <2>2. ~Queueing(r, t) /\ row.status = st
    BY <2>1 DEF Queueing, NoTicket
  <2>3. rec.pc = "find" /\ rec.ticket = u
    BY DEF IdleReq
  <2> HIDE DEF rec, row
  <2>4. CASE t = u /\ st = "ready"
    <3>1. req'[r] = rec
      BY <1>1, <2>1, <2>4
    <3> QED BY <2>3, <2>4, <3>1 DEF Saved, Queueing
  <2>5. CASE t = u /\ st # "ready"
    <3>1. ticket'[t].status = st
      BY <1>0, <2>1, <2>2, <2>5
    <3> QED BY <2>5, <3>1 DEF Saved
  <2>6. CASE t # u
    <3>1. ticket'[t] = ticket[t]
      BY <1>0, <2>1, <2>6
    <3>2. \A x \in Reqs : Queueing(x, t) => Queueing(x, t)'
      BY <1>1, <2>1, <2>2
    <3> QED BY <1>0, <3>1, <3>2 DEF Saved
  <2> QED BY <2>4, <2>5, <2>6
<1>4. ASSUME NEW u \in Tickets, NEW st, RunTicket(r, u) \/ PatchTicket(r, u, st) \/ KillTicket(r, u)
      PROVE  Saved(t)
  <2>1. req[r].pc = "idle" /\ ticket' = ticket /\ \E rec : ReqBecomes(r, rec)
    BY <1>4 DEF RunTicket, PatchTicket, KillTicket
  <2> QED BY <1>2, <2>1 DEF Queueing
<1>5. CASE KillCommit(r)
  <2>1. req[r].pc = "kill" /\ ticket' = ticket /\ \E rec : ReqBecomes(r, rec)
    BY <1>5 DEF KillCommit
  <2> QED BY <1>2, <2>1 DEF Queueing
<1>6. CASE PatchCommit(r)
  <2> DEFINE st == req[r].target
  <2> DEFINE rec == [req[r] EXCEPT !.pc = "find", !.row.status = st]
  <2>1. /\ ReqBecomes(r, IF st = "ready" THEN rec ELSE IdleReq) /\ req[r].pc = "patch"
        /\ ticket' = IF req[r].row.status = st THEN ticket
                     ELSE [ticket EXCEPT ![req[r].ticket].status = st]
    BY <1>6 DEF PatchCommit
  <2>2. rec.pc = "find" /\ rec.ticket = req[r].ticket /\ ~Queueing(r, t)
    BY <1>0, <2>1 DEF Req, Queueing
  <2> HIDE DEF rec
  <2>3. CASE ticket'[t] = ticket[t]
    <3>1. \A x \in Reqs : Queueing(x, t) => Queueing(x, t)'
      BY <1>1, <2>1, <2>2
    <3> QED BY <1>0, <2>3, <3>1 DEF Saved
  <2>4. CASE ticket'[t] # ticket[t]
    <3>1. t = req[r].ticket /\ ticket'[t] = [ticket[t] EXCEPT !.status = st]
      BY <1>0, <2>1, <2>4
    <3>2. ticket'[t].status = st
      BY <1>0, <3>1 DEF Ticket
    <3>3. CASE st = "ready"
      <4>1. req'[r] = rec
        BY <1>1, <2>1, <3>3
      <4> QED BY <2>2, <3>1, <4>1 DEF Saved, Queueing
    <3> QED BY <3>2, <3>3 DEF Saved
  <2> QED BY <2>3, <2>4
<1>7. CASE EnqueueFind(r)
  <2>1. ticket' = ticket /\ \E rec : /\ ReqBecomes(r, rec) /\ rec.pc = "enqueue"
                                      /\ rec.ticket = req[r].ticket
    <3>1. CASE ReqBecomes(r, [req[r] EXCEPT !.pc = "enqueue"])
      <4> DEFINE rec == [req[r] EXCEPT !.pc = "enqueue"]
      <4>1. rec.pc = "enqueue" /\ rec.ticket = req[r].ticket
        BY <1>0 DEF Req
      <4> QED BY <1>7, <3>1, <4>1 DEF EnqueueFind
    <3>2. ASSUME NEW i, ReqBecomes(r, [req[r] EXCEPT !.pc = "enqueue", !.seen = i,
                                                     !.seenStatus = item[i].status])
          PROVE  <2>1!2
      <4> DEFINE rec == [req[r] EXCEPT !.pc = "enqueue", !.seen = i,
                                       !.seenStatus = item[i].status]
      <4>1. rec.pc = "enqueue" /\ rec.ticket = req[r].ticket
        BY <1>0 DEF Req
      <4> QED BY <3>2, <4>1
    <3> QED BY <1>7, <3>1, <3>2 DEF EnqueueFind
  <2>2. PICK rec : ReqBecomes(r, rec) /\ rec.pc = "enqueue" /\ rec.ticket = req[r].ticket
    BY <2>1
  <2>3. Queueing(r, t) => Queueing(r, t)'
    BY <1>1, <2>2 DEF Queueing
  <2> QED BY <1>0, <1>1, <2>1, <2>2, <2>3 DEF Saved
<1>8. CASE "restart" \in Kinds /\ RequestDies(r)
  <2>1. UNCHANGED <<ticket, item>> /\ ReqBecomes(r, IdleReq)
    BY <1>8 DEF RequestDies
  <2>2. CASE Queueing(r, t)
    BY <1>8, <2>1, <2>2 DEF Excuse
  <2>3. CASE ~Queueing(r, t)
    BY <1>2, <2>1, <2>3
  <2> QED BY <2>2, <2>3
<1> QED
  BY <1>0, <1>3, <1>4, <1>5, <1>6, <1>7, <1>8 DEF ReqStep, Call

\* A ready ticket is left with no row to run only by a re-queue whose queued row
\* was finished before its commit, or by a server that died between two commits
\* (enqueue_ticket, create_ticket, patch_ticket): never by a worker's write.
THEOREM StrandingNeedsRaces == Spec => OnlyRacesStrand
<1>1. ASSUME LogInv, [Next]_vars, NEW t \in Tickets PROVE Saved(t) \/ Excuse(t)
  <2>1. TypeInv
    BY <1>1 DEF LogInv, ClaimInv
  <2> QED BY <1>1, <2>1, StepEffects, WorkerSaves, CommitSaves, OtherRequestSaves
<1>2. ASSUME NEW t \in Tickets, Saved(t), ~Stranded(t) PROVE ~Stranded(t)'
  <2>1. OpenItems(t)' = OpenAfter(t)
    BY DEF OpenItems, OpenAfter
  <2> QED BY <1>2, <2>1 DEF Saved, Stranded
<1>3. LogInv /\ [Next]_vars =>
        [\A t \in Tickets : ~Stranded(t) /\ Stranded(t)' => Excuse(t)]_vars
  BY <1>1, <1>2
<1> QED
  BY <1>3, LogInvHolds, PTL DEF Spec, OnlyRacesStrand, Excuse
-----------------------------------------------------------------------------
(* The retry budget, when no client re-delegates.                            *)

NobodyRedelegates ==
  /\ Kinds \cap {"run", "patch"} = {} /\ Triagers = {}
  /\ MaxAttempts # 0

\* The attempts of a ticket that count.
Charged(t) ==
  {i \in ItemIds : item[i].ticket = t /\ item[i].status \notin {"queued", "killed"}}

Fits(t) ==
  /\ ticket[t].attempts <= MaxAttempts
  /\ Cardinality(OpenItems(t)) <= 1
  /\ ticket[t].attempts = Cardinality(Charged(t))
  /\ \A i \in ItemIds : item[i].ticket = t /\ item[i].status = "queued" =>
       ticket[t].attempts < MaxAttempts

RowsOf(t)  == {i \in ItemIds : item[i].ticket = t}
RowsHaveTickets ==
  \A i \in ItemIds : IF item[i].status = "absent" THEN item[i].ticket = Nobody
                     ELSE item[i].ticket \in Tickets
UnbornIsBlank    == \A t \in Tickets : ~Exists(t) => ticket[t].attempts = 0 /\ RowsOf(t) = {}
NoTriage         == \A w \in Workers : loop[w].triage = {}

\* A request about to queue a ticket is the one that created it, the only one,
\* and found it new.
FirstRequest(rec) ==
  rec.pc \in {"find", "enqueue"} =>
    /\ rec.ticket \in Tickets /\ Exists(rec.ticket) /\ RowsOf(rec.ticket) = {}
    /\ rec.row.attempts = 0 /\ rec.seenStatus = "none"
OnlyFirstRequests ==
  \A r \in Reqs :
    /\ req[r].pc # "patch" /\ FirstRequest(req[r])
    /\ \A x \in Reqs \ {r} : Queueing(r, req[r].ticket) => ~Queueing(x, req[r].ticket)

BudgetInv ==
  /\ LogInv
  /\ \A t \in Tickets : Fits(t)
  /\ RowsHaveTickets /\ UnbornIsBlank /\ NoTriage /\ OnlyFirstRequests

LEMMA ChargedFinite == \A t : IsFiniteSet(Charged(t)) /\ IsFiniteSet(Charged(t)')
<1>1. IsFiniteSet(ItemIds)
  BY FS_Interval, ConstantsAssumption DEF ItemIds
<1> QED BY <1>1, FS_Subset DEF Charged

LEMMA InitBudget == NobodyRedelegates /\ Init => BudgetInv
<1> SUFFICES ASSUME NobodyRedelegates, Init PROVE BudgetInv
  OBVIOUS
<1>1. \A i \in ItemIds : item[i].ticket = Nobody /\ item[i].status = "absent"
  BY DEF Init, NoRow
<1>2. \A t \in Tickets : OpenItems(t) = {} /\ Charged(t) = {} /\ RowsOf(t) = {}
  BY <1>1, NobodyAssumption DEF OpenItems, Charged, RowsOf
<1>3. \A t \in Tickets : ticket[t].attempts = 0 /\ ~Exists(t)
  BY DEF Init, NoTicket, Exists
<1>4. ASSUME NEW t \in Tickets PROVE Fits(t)
  <2>1. Cardinality(OpenItems(t)) = 0 /\ Cardinality(Charged(t)) = 0
    BY <1>2, FS_EmptySet
  <2>2. ticket[t].attempts = 0 /\ 0 <= MaxAttempts
    BY <1>3, ConstantsAssumption
  <2> QED BY <1>1, <2>1, <2>2 DEF Fits
<1>5. NoTriage /\ OnlyFirstRequests
  BY DEF Init, NoTriage, IdleLoop, OnlyFirstRequests, FirstRequest, IdleReq, Queueing
<1> QED
  BY <1>1, <1>2, <1>3, <1>4, <1>5, InitLogInv DEF BudgetInv, RowsHaveTickets, UnbornIsBlank

\* A ticket whose rows and attempt count a step leaves alone.
LEMMA Untouched ==
  ASSUME NEW t, Fits(t), ticket'[t].attempts = ticket[t].attempts,
         \A i \in ItemIds : t \in {item[i].ticket, item'[i].ticket} => SameRow(i)
  PROVE  Fits(t)'
<1>1. OpenItems(t)' = OpenItems(t) /\ Charged(t)' = Charged(t)
  BY DEF OpenItems, Charged, SameRow
<1> QED BY <1>1 DEF Fits, SameRow

LEMMA ClaimFits ==
  ASSUME BudgetInv, NEW i \in ItemIds, Claims(i), NEW t \in Tickets
  PROVE  Fits(t)'
<1>0. Fits(t) /\ ticket[t].attempts \in Nat /\ MaxAttempts \in Nat
  BY ConstantsAssumption DEF BudgetInv, LogInv, ClaimInv, TypeInv, TypeOK, Ticket
<1>1. CASE t # item[i].ticket
  BY <1>0, <1>1, Untouched DEF Claims, Moves, Turns
<1>2. CASE t = item[i].ticket
  <2>1. /\ OpenItems(t)' = OpenItems(t) /\ i \in OpenItems(t)
        /\ Charged(t)' = Charged(t) \cup {i} /\ i \notin Charged(t)
    BY <1>2 DEF Claims, Moves, SameRow, OpenItems, Charged, Outstanding
  <2>2. Cardinality(Charged(t)') = Cardinality(Charged(t)) + 1
    BY <2>1, ChargedFinite, FS_AddElement
  <2>3. ticket'[t].attempts = ticket[t].attempts + 1 /\ ticket[t].attempts < MaxAttempts
    BY <1>0, <1>2 DEF Claims, Turns, Attempted, Fits, Moves
  <2>4. OpenItems(t) = {i}
    BY <1>0, <2>1, OpenFinite, AtMostOne DEF Fits
  <2>5. \A j \in ItemIds : item'[j].ticket = t => item'[j].status # "queued"
    BY <1>2, <2>4 DEF Claims, Moves, SameRow, OpenItems, Outstanding
  <2> QED BY <1>0, <2>1, <2>2, <2>3, <2>5 DEF Fits
<1> QED BY <1>1, <1>2

LEMMA CloseFits ==
  ASSUME BudgetInv, NEW i \in ItemIds, NEW to, NEW st, Closes(i, to, st), NEW t \in Tickets
  PROVE  Fits(t)'
<1>0. Fits(t) /\ ticket[t].attempts \in Nat /\ MaxAttempts \in Nat
  BY ConstantsAssumption DEF BudgetInv, LogInv, ClaimInv, TypeInv, TypeOK, Ticket
<1>1. CASE t # item[i].ticket
  BY <1>0, <1>1, Untouched DEF Closes, Moves, Turns
<1>2. CASE t = item[i].ticket
  <2>1. /\ OpenItems(t)' = OpenItems(t) \ {i} /\ i \in OpenItems(t) /\ i \in Charged(t)
        /\ Charged(t)' = IF to = "killed" THEN Charged(t) \ {i} ELSE Charged(t)
    BY <1>2 DEF Closes, Moves, SameRow, OpenItems, Charged, Outstanding, Finished
  <2>2. OpenItems(t) = {i}
    BY <1>0, <2>1, OpenFinite, AtMostOne DEF Fits
  <2>3. OpenItems(t)' = {} /\ Cardinality({}) = 0
    BY <2>1, <2>2, FS_EmptySet
  <2>4. \A j \in ItemIds : item'[j].ticket = t => item'[j].status # "queued"
    BY <2>3 DEF OpenItems, Outstanding
  <2>5. /\ Cardinality(Charged(t) \ {i}) = Cardinality(Charged(t)) - 1
        /\ Cardinality(Charged(t)) \in Nat /\ Cardinality(Charged(t) \ {i}) \in Nat
    BY <2>1, ChargedFinite, FS_RemoveElement, FS_CardinalityType
  <2>6. ticket'[t].attempts = IF to = "killed" THEN Refund(ticket[t].attempts)
                              ELSE ticket[t].attempts
    BY <1>2 DEF Closes, Turns, Attempted
  <2>7. ticket'[t].attempts = Cardinality(Charged(t)') /\ ticket'[t].attempts <= MaxAttempts
    <3>1. ticket[t].attempts = Cardinality(Charged(t)) /\ ticket[t].attempts <= MaxAttempts
      BY <1>0 DEF Fits
    <3>2. CASE to = "killed"
      <4>1. ticket'[t].attempts = ticket[t].attempts - 1
        BY <1>0, <2>5, <2>6, <3>1, <3>2 DEF Refund
      <4> QED BY <1>0, <2>1, <2>5, <3>1, <3>2, <4>1
    <3>3. CASE to # "killed"
      BY <2>1, <2>6, <3>1, <3>3
    <3> QED BY <3>2, <3>3
  <2> QED BY <2>3, <2>4, <2>7 DEF Fits
<1> QED BY <1>1, <1>2

\* A row queued for a ticket that has budget left, in place of its open row.
LEMMA QueueFits ==
  ASSUME BudgetInv, NEW u \in Tickets, NEW D, Queues(u, D),
         ticket[u].attempts < MaxAttempts, OpenItems(u) \subseteq D,
         D \subseteq Charged(u), \A t \in Tickets : ticket'[t].attempts = ticket[t].attempts,
         NEW t \in Tickets
  PROVE  Fits(t)'
<1>0. Fits(t)
  BY DEF BudgetInv
<1>1. item[top + 1].ticket = Nobody /\ Nobody \notin Tickets
  BY NobodyAssumption DEF BudgetInv, RowsHaveTickets, Queues
<1>2. CASE t # u
  <2>1. \A i \in ItemIds : t \in {item[i].ticket, item'[i].ticket} => SameRow(i)
    BY <1>1, <1>2 DEF Queues, SameRow, Charged
  <2> QED BY <1>0, <2>1, Untouched
<1>3. CASE t = u
  <2>1. OpenItems(t)' = {top + 1} /\ Charged(t)' = Charged(t)
    BY <1>1, <1>3 DEF Queues, OpenItems, Charged, Outstanding
  <2>2. Cardinality({top + 1}) = 1
    BY FS_Singleton
  <2> QED BY <1>0, <1>3, <2>1, <2>2 DEF Fits
<1> QED BY <1>2, <1>3

LEMMA RetryFits ==
  ASSUME BudgetInv, NEW i \in ItemIds, Retries(i), NEW t \in Tickets
  PROVE  Fits(t)'
<1> DEFINE u == item[i].ticket
<1>1. item[i].status = "claimed" /\ u \in Tickets /\ Fits(u)
  BY DEF Retries, BudgetInv, RowsHaveTickets
<1>2. i \in OpenItems(u) /\ i \in Charged(u)
  BY <1>1 DEF OpenItems, Charged, Outstanding
<1>3. OpenItems(u) = {i}
  BY <1>1, <1>2, OpenFinite, AtMostOne DEF Fits
<1>4. /\ ticket[u].attempts < MaxAttempts /\ Queues(u, {i})
      /\ \A x \in Tickets : ticket'[x].attempts = ticket[x].attempts
  BY DEF Retries, HasBudget, Turns, Attempted
<1> QED BY <1>1, <1>2, <1>3, <1>4, QueueFits

LEMMA RequeueFits ==
  ASSUME NobodyRedelegates, BudgetInv, NEW r \in Reqs, Requeues(r), NEW t \in Tickets
  PROVE  Fits(t)' /\ Queues(req[r].ticket, {}) /\ RowsOf(req[r].ticket) = {}
<1> DEFINE u == req[r].ticket
<1>1. /\ req[r].pc = "enqueue" /\ u \in Tickets /\ RowsOf(u) = {}
      /\ req[r].row.attempts = 0 /\ req[r].seenStatus = "none"
  BY DEF Requeues, EnqueueCommit, BudgetInv, OnlyFirstRequests, FirstRequest
<1>2. Queues(u, {})
  BY <1>1 DEF Requeues, RowStands
<1>3. OpenItems(u) = {} /\ Charged(u) = {} /\ Fits(u)
  BY <1>1 DEF RowsOf, OpenItems, Charged, BudgetInv
<1>4. ticket[u].attempts < MaxAttempts
  <2>1. ticket[u].attempts = 0
    BY <1>3, FS_EmptySet DEF Fits
  <2> QED BY <2>1, ConstantsAssumption DEF NobodyRedelegates
<1>5. \A x \in Tickets : ticket'[x].attempts = ticket[x].attempts
  <2>1. ticket' = [ticket EXCEPT ![u] = [@ EXCEPT
            !.status = IF req[r].row.status = "ready" THEN ticket[u].status ELSE "ready",
            !.attempts = ticket[u].attempts]]
    BY <1>1 DEF Requeues, EnqueueCommit, Resync, TicketBecomes
  <2> QED BY <2>1 DEF BudgetInv, LogInv, ClaimInv, TypeInv, TypeOK, Ticket
<1>6. Fits(t)'
  BY <1>1, <1>2, <1>3, <1>4, <1>5, QueueFits
<1> QED BY <1>1, <1>2, <1>6

\* What a step may do to the tables when nobody re-delegates.
Plain ==
  \/ \E i \in ItemIds : req' = req /\ (Claims(i) \/ Retries(i))
  \/ \E i \in ItemIds, to \in Finished, st \in TicketStatuses : req' = req /\ Closes(i, to, st)
  \/ Rests /\ ticket' = ticket /\ req' = req
  \/ \E r \in Reqs : Requeues(r) \/ OtherRequest(r)

LEMMA PlainSteps ==
  ASSUME BudgetInv, [Next]_vars
  PROVE  Plain
BY StepEffects DEF BudgetInv, NoTriage, WorkerEffect, Triaged, Plain

\* A request that does not commit a row leaves attempt counts alone.
LEMMA OtherFits ==
  ASSUME NobodyRedelegates, BudgetInv, NEW r \in Reqs, OtherRequest(r), NEW t \in Tickets
  PROVE  Fits(t)' /\ (Exists(t) => Exists(t)') /\ ticket'[t].attempts = ticket[t].attempts
<1>0. /\ Fits(t) /\ Rests /\ ReqStep(r) /\ ~EnqueueCommit(r) /\ req[r].pc # "patch"
      /\ ticket \in [Tickets -> Ticket]
  BY DEF OtherRequest, BudgetInv, OnlyFirstRequests, LogInv, ClaimInv, TypeInv, TypeOK
<1>1. (Exists(t) => Exists(t)') /\ ticket'[t].attempts = ticket[t].attempts
  <2>1. ASSUME NEW u \in Tickets, NEW st \in NewStatuses, CreateTicket(r, u, st)
        PROVE  (Exists(t) => Exists(t)') /\ ticket'[t].attempts = ticket[t].attempts
    <3>1. /\ ticket' = [ticket EXCEPT ![u] = [NoTicket EXCEPT !.status = st]] /\ ~Exists(u)
          /\ ticket[u].attempts = 0
      BY <2>1 DEF CreateTicket, BudgetInv, UnbornIsBlank
    <3>2. [NoTicket EXCEPT !.status = st].attempts = 0
      BY DEF NoTicket
    <3> QED BY <1>0, <3>1, <3>2 DEF Exists
  <2>2. CASE ticket' = ticket
    BY <2>2 DEF Exists
  <2> QED
    BY <1>0, <2>1, <2>2 DEF NobodyRedelegates, ReqStep, Call, PatchCommit, EnqueueFind, KillTicket,
       KillCommit, RequestDies
<1> QED BY <1>0, <1>1, Untouched DEF Rests

LEMMA NextFits ==
  ASSUME NobodyRedelegates, BudgetInv, [Next]_vars, NEW t \in Tickets
  PROVE  Fits(t)'
<1>1. CASE Rests /\ ticket' = ticket
  BY <1>1, Untouched DEF Rests, BudgetInv
<1> QED
  BY <1>1, PlainSteps, ClaimFits, RetryFits, CloseFits, RequeueFits, OtherFits DEF Plain

\* Rows name tickets, and only those of a fresh row change.
LEMMA RowsKept ==
  ASSUME NobodyRedelegates, BudgetInv, [Next]_vars
  PROVE  /\ RowsHaveTickets'
         /\ \A t \in Tickets : RowsOf(t) = {} =>
              RowsOf(t)' = {} \/ \E r \in Reqs : Requeues(r) /\ req[r].ticket = t
<1>1. ASSUME NEW i \in ItemIds, NEW from, NEW to, Moves(i, from, to),
             from # "absent" /\ to # "absent"
      PROVE  RowsHaveTickets' /\ \A t : RowsOf(t)' = RowsOf(t)
  BY <1>1 DEF Moves, SameRow, RowsHaveTickets, RowsOf, BudgetInv
<1>2. ASSUME NEW u \in Tickets, NEW D, Queues(u, D), D \subseteq Charged(u)
      PROVE  RowsHaveTickets' /\ \A t \in Tickets \ {u} : RowsOf(t) = {} => RowsOf(t)' = {}
  BY <1>2 DEF Queues, RowsHaveTickets, RowsOf, BudgetInv, Charged
<1>3. CASE Rests
  BY <1>3 DEF Rests, SameRow, RowsHaveTickets, RowsOf, BudgetInv
<1>4. ASSUME NEW i \in ItemIds, Claims(i) \/ \E to, st : Closes(i, to, st)
      PROVE  RowsHaveTickets' /\ \A t : RowsOf(t)' = RowsOf(t)
  BY <1>1, <1>4 DEF Claims, Closes, Finished
<1>5. ASSUME NEW i \in ItemIds, Retries(i)
      PROVE  RowsHaveTickets' /\ \A t \in Tickets : RowsOf(t) = {} => RowsOf(t)' = {}
  <2>1. item[i].ticket \in Tickets /\ i \in Charged(item[i].ticket) /\ RowsOf(item[i].ticket) # {}
    BY <1>5 DEF Retries, BudgetInv, RowsHaveTickets, Charged, RowsOf
  <2>2. Queues(item[i].ticket, {i})
    BY <1>5 DEF Retries
  <2> QED BY <1>2, <2>1, <2>2
<1>6. ASSUME NEW r \in Reqs, Requeues(r)
      PROVE  RowsHaveTickets' /\ \A t \in Tickets \ {req[r].ticket} : RowsOf(t) = {} => RowsOf(t)' = {}
  <2>1. req[r].ticket \in Tickets
    BY <1>6 DEF Requeues, EnqueueCommit, BudgetInv, OnlyFirstRequests, FirstRequest
  <2>2. Queues(req[r].ticket, {})
    BY <1>6, <2>1, RequeueFits
  <2> QED BY <1>2, <2>1, <2>2
<1> QED
  BY <1>3, <1>4, <1>5, <1>6, PlainSteps DEF Plain, OtherRequest

LEMMA ExistenceKept ==
  ASSUME NobodyRedelegates, BudgetInv, [Next]_vars, NEW t \in Tickets
  PROVE  Exists(t) => Exists(t)'
<1>1. ASSUME NEW u, NEW st, NEW n, Turns(u, st, n), st # "absent" PROVE Exists(t) => Exists(t)'
  BY <1>1 DEF Turns, Exists
<1>2. ASSUME NEW i \in ItemIds, Claims(i) \/ Retries(i) PROVE Exists(t) => Exists(t)'
  BY <1>1, <1>2 DEF Claims, Retries
<1>3. ASSUME NEW i \in ItemIds, NEW to, NEW st \in TicketStatuses, Closes(i, to, st)
      PROVE  Exists(t) => Exists(t)'
  BY <1>1, <1>3 DEF Closes, TicketStatuses
<1>4. ASSUME NEW r \in Reqs, Requeues(r) PROVE Exists(t) => Exists(t)'
  BY <1>4 DEF Requeues, EnqueueCommit, Resync, TicketBecomes, Exists, BudgetInv, LogInv, ClaimInv,
     TypeInv, TypeOK, Ticket
<1>5. CASE ticket' = ticket
  BY <1>5 DEF Exists
<1> QED
  BY <1>2, <1>3, <1>4, <1>5, PlainSteps, OtherFits DEF Plain

LEMMA UnbornKept ==
  ASSUME NobodyRedelegates, BudgetInv, [Next]_vars
  PROVE  UnbornIsBlank'
<1> SUFFICES ASSUME NEW t \in Tickets, ~Exists(t)' PROVE ticket'[t].attempts = 0 /\ RowsOf(t)' = {}
  BY DEF UnbornIsBlank
<1>1. ~Exists(t) /\ ticket[t].attempts = 0 /\ RowsOf(t) = {}
  BY ExistenceKept DEF BudgetInv, UnbornIsBlank
<1>2. \A r \in Reqs : Requeues(r) => req[r].ticket # t
  BY <1>1 DEF Requeues, EnqueueCommit, BudgetInv, OnlyFirstRequests, FirstRequest
<1>3. RowsOf(t)' = {}
  BY <1>1, <1>2, RowsKept
<1>4. \A i \in ItemIds : item[i].ticket # t
  BY <1>1 DEF RowsOf
<1>5. ticket'[t].attempts = ticket[t].attempts
  <2>1. ASSUME NEW i \in ItemIds, Claims(i) \/ Retries(i) \/ \E to, st : Closes(i, to, st)
        PROVE  ticket'[t].attempts = ticket[t].attempts
    BY <1>4, <2>1 DEF Claims, Retries, Closes, Turns
  <2>2. ASSUME NEW r \in Reqs, Requeues(r) PROVE ticket'[t].attempts = ticket[t].attempts
    BY <1>2, <2>2 DEF Requeues
  <2> QED BY <2>1, <2>2, PlainSteps, OtherFits DEF Plain
<1> QED BY <1>1, <1>3, <1>5

LEMMA NoTriageKept ==
  ASSUME NobodyRedelegates, BudgetInv, [Next]_vars
  PROVE  NoTriage'
<1>0. loop \in [Workers -> Loop] /\ NoTriage
  BY DEF BudgetInv, LogInv, ClaimInv, TypeInv, TypeOK
<1>1. ASSUME NEW w \in Workers, LoopStep(w) \/ Crash(w) PROVE NoTriage'
  <2>1. CASE LoopAborts(w) \/ Crash(w)
    <3>1. loop' = [loop EXCEPT ![w] = IdleLoop] /\ IdleLoop.triage = {}
      BY <2>1 DEF LoopAborts, Crash, IdleLoop
    <3> QED BY <1>0, <3>1 DEF NoTriage
  <2>2. ASSUME NEW S, loop' = [loop EXCEPT ![w].reap = S] PROVE NoTriage'
    BY <1>0, <2>2 DEF NoTriage, Loop
  <2>3. ASSUME NEW i \in ItemIds, ReapOne(w, i) PROVE NoTriage'
    BY <2>2, <2>3 DEF ReapOne
  <2>4. CASE ReapScan(w)
    BY <2>2, <2>4 DEF ReapScan
  <2>5. ~TriageScan(w) /\ \A t : ~TriageApply(w, t) /\ ~TriageFails(w, t)
    BY <1>0 DEF NobodyRedelegates, TriageScan, TriageApply, TriageFails, NoTriage
  <2> QED BY <1>1, <2>1, <2>3, <2>4, <2>5 DEF LoopStep
<1>2. CASE loop' = loop
  BY <1>0, <1>2 DEF NoTriage
<1> QED
  BY <1>1, <1>2 DEF Next, vars, SlotStep, ClaimGate, ClaimNothing, ClaimItem, TouchHeartbeat,
     RunEnds, FinishWork, Superseded, LoseResult, ReqStep, Call, CreateTicket, RunTicket,
     PatchTicket, PatchCommit, EnqueueFind, EnqueueCommit, KillTicket, KillCommit, RequestDies,
     HeartbeatExpires, PutSettings

\* Of the record a step leaves behind for request r: what it knows, and that no
\* other request is about the same ticket.
AfterStep(r, rec) ==
  /\ rec.pc # "patch"
  /\ rec.pc \in {"find", "enqueue"} =>
       /\ rec.ticket \in Tickets /\ ticket'[rec.ticket].status # "absent"
       /\ rec.row.attempts = 0 /\ rec.seenStatus = "none"
       /\ RowsOf(rec.ticket) = {}
       /\ \A x \in Reqs \ {r} : ~Queueing(x, rec.ticket)

LEMMA RequestStaysFirst ==
  ASSUME NobodyRedelegates, BudgetInv, NEW r \in Reqs, OtherRequest(r)
  PROVE  \E rec : ReqBecomes(r, rec) /\ AfterStep(r, rec)
<1> DEFINE Goal == \E rec : ReqBecomes(r, rec) /\ AfterStep(r, rec)
<1> SUFFICES Goal
  OBVIOUS
<1>0. /\ ReqStep(r) /\ ~EnqueueCommit(r) /\ req[r] \in Req /\ ticket \in [Tickets -> Ticket]
      /\ req[r].pc # "patch" /\ \A x \in Reqs : FirstRequest(req[x])
  BY DEF OtherRequest, BudgetInv, OnlyFirstRequests, LogInv, ClaimInv, TypeInv, TypeOK
<1>1. AfterStep(r, IdleReq)
  BY DEF AfterStep, IdleReq
<1>2. ASSUME NEW u \in Tickets, NEW st, CreateTicket(r, u, st) PROVE Goal
  <2> DEFINE row == [NoTicket EXCEPT !.status = st]
  <2> DEFINE rec == [IdleReq EXCEPT !.pc = "find", !.ticket = u, !.row = RowOf(row)]
  <2>1. /\ ReqBecomes(r, IF st = "ready" THEN rec ELSE IdleReq)
        /\ ticket' = [ticket EXCEPT ![u] = row] /\ ~Exists(u)
    BY <1>2 DEF CreateTicket
  <2>2. row.status = st /\ RowOf(row).attempts = 0
    BY DEF NoTicket, RowOf
  <2>3. rec.pc = "find" /\ rec.ticket = u /\ rec.seenStatus = "none" /\ rec.row = RowOf(row)
    BY DEF IdleReq
  <2>4. RowsOf(u) = {} /\ \A x \in Reqs : ~Queueing(x, u)
    BY <1>0, <2>1 DEF BudgetInv, UnbornIsBlank, FirstRequest, Queueing
  <2>5. ticket'[u].status = st
    BY <1>0, <2>1, <2>2
  <2> HIDE DEF rec, row
  <2>6. CASE st = "ready"
    <3>1. AfterStep(r, rec)
      BY <2>2, <2>3, <2>4, <2>5, <2>6 DEF AfterStep
    <3> QED BY <2>1, <2>6, <3>1
  <2>7. CASE st # "ready"
    BY <1>1, <2>1, <2>7
  <2> QED BY <2>6, <2>7
<1>3. ASSUME NEW u \in Tickets, KillTicket(r, u) PROVE Goal
  <2>1. PICK i : ReqBecomes(r, [IdleReq EXCEPT !.pc = "kill", !.ticket = u, !.seen = i])
    BY <1>3 DEF KillTicket
  <2>2. AfterStep(r, [IdleReq EXCEPT !.pc = "kill", !.ticket = u, !.seen = i])
    BY DEF AfterStep, IdleReq
  <2> QED BY <2>1, <2>2
<1>4. CASE EnqueueFind(r)
  <2> DEFINE rec == [req[r] EXCEPT !.pc = "enqueue"]
  <2>1. req[r].pc = "find" /\ ticket' = ticket
    BY <1>4 DEF EnqueueFind
  <2>2. FirstRequest(req[r]) /\ RowsOf(req[r].ticket) = {}
    BY <1>0, <2>1 DEF FirstRequest
  <2>3. OpenItems(req[r].ticket) = {}
    BY <2>2 DEF RowsOf, OpenItems
  <2>4. ReqBecomes(r, rec)
    BY <1>4, <2>3 DEF EnqueueFind
  <2>5. /\ rec.pc = "enqueue" /\ rec.ticket = req[r].ticket /\ rec.row = req[r].row
        /\ rec.seenStatus = req[r].seenStatus
    BY <1>0 DEF Req
  <2>6. \A x \in Reqs \ {r} : ~Queueing(x, req[r].ticket)
    BY <2>1 DEF BudgetInv, OnlyFirstRequests, Queueing
  <2> HIDE DEF rec
  <2>7. AfterStep(r, rec)
    BY <2>1, <2>2, <2>5, <2>6 DEF AfterStep, FirstRequest, Exists
  <2> QED BY <2>4, <2>7
<1>5. CASE KillCommit(r) \/ RequestDies(r)
  BY <1>1, <1>5 DEF KillCommit, RequestDies
<1> HIDE DEF Goal
<1> QED
  BY <1>0, <1>2, <1>3, <1>4, <1>5 DEF NobodyRedelegates, ReqStep, Call, PatchCommit

LEMMA FirstRequestsKept ==
  ASSUME NobodyRedelegates, BudgetInv, [Next]_vars
  PROVE  OnlyFirstRequests'
<1>0. OnlyFirstRequests /\ req \in [Reqs -> Req]
  BY DEF BudgetInv, LogInv, ClaimInv, TypeInv, TypeOK
<1>1. ASSUME NEW t \in Tickets, Exists(t) PROVE ticket'[t].status # "absent"
  BY <1>1, ExistenceKept DEF Exists
<1>2. ASSUME req' = req PROVE OnlyFirstRequests'
  <2>1. \A r \in Reqs : ~Requeues(r)
    BY <1>0, <1>2 DEF Requeues, EnqueueCommit, ReqBecomes, IdleReq
  <2>2. \A t \in Tickets : RowsOf(t) = {} => RowsOf(t)' = {}
    BY <2>1, RowsKept
  <2>3. ASSUME NEW r \in Reqs PROVE FirstRequest(req[r])'
    <3>1. FirstRequest(req[r])
      BY <1>0 DEF OnlyFirstRequests
    <3> QED BY <1>1, <1>2, <2>2, <3>1 DEF FirstRequest, Exists
  <2> QED BY <1>0, <1>2, <2>3 DEF OnlyFirstRequests, Queueing
<1>3. ASSUME NEW r \in Reqs, NEW rec, ReqBecomes(r, rec), AfterStep(r, rec),
             \A t \in Tickets : t # req[r].ticket => (RowsOf(t) = {} => RowsOf(t)' = {}),
             rec.pc \in {"find", "enqueue"} => RowsOf(rec.ticket)' = {},
             req[r].pc = "enqueue" \/ \A t \in Tickets : RowsOf(t) = {} => RowsOf(t)' = {}
      PROVE  OnlyFirstRequests'
  <2>1. req'[r] = rec /\ \A x \in Reqs \ {r} : req'[x] = req[x]
    BY <1>0, <1>3 DEF ReqBecomes
  <2>2. ASSUME NEW x \in Reqs \ {r} PROVE FirstRequest(req[x])'
    <3>1. FirstRequest(req[x]) /\ req'[x] = req[x]
      BY <1>0, <2>1 DEF OnlyFirstRequests
    <3>2. CASE req[x].pc \in {"find", "enqueue"}
      <4>1. RowsOf(req[x].ticket)' = {}
        <5>1. req[r].pc = "enqueue" => req[x].ticket # req[r].ticket
          BY <1>0, <3>2 DEF OnlyFirstRequests, Queueing
        <5>2. RowsOf(req[x].ticket) = {} /\ req[x].ticket \in Tickets
          BY <3>1, <3>2 DEF FirstRequest
        <5>3. \A t \in Tickets : t = req[x].ticket => RowsOf(t)' = {}
          BY <1>3, <5>1, <5>2
        <5>4. \A t \in Tickets : t = req'[x].ticket => RowsOf(t)' = {}
          BY <3>1, <5>3
        <5> QED BY <3>1, <5>2, <5>4
      <4> QED BY <1>1, <3>1, <3>2, <4>1 DEF FirstRequest, Exists
    <3>3. CASE req[x].pc \notin {"find", "enqueue"}
      BY <3>1, <3>3 DEF FirstRequest
    <3> QED BY <3>2, <3>3
  <2>3. FirstRequest(req[r])'
    BY <1>3, <2>1 DEF AfterStep, FirstRequest, Exists
  <2>4. ASSUME NEW x \in Reqs, NEW y \in Reqs \ {x}, Queueing(x, req[x].ticket)'
        PROVE  ~Queueing(y, req[x].ticket)'
    <3>1. CASE x = r
      BY <1>3, <2>1, <2>4, <3>1 DEF Queueing, AfterStep
    <3>2. CASE y = r
      BY <1>3, <2>1, <2>4, <3>2 DEF Queueing, AfterStep
    <3>3. CASE x # r /\ y # r
      BY <1>0, <2>1, <2>4, <3>3 DEF OnlyFirstRequests, Queueing
    <3> QED BY <3>1, <3>2, <3>3
  <2>5. \A x \in Reqs : req'[x].pc # "patch"
    BY <1>0, <1>3, <2>1 DEF OnlyFirstRequests, AfterStep
  <2> QED BY <2>2, <2>3, <2>4, <2>5 DEF OnlyFirstRequests
<1>4. ASSUME NEW r \in Reqs, Requeues(r) PROVE OnlyFirstRequests'
  <2>1. ReqBecomes(r, IdleReq) /\ req[r].pc = "enqueue"
    BY <1>4 DEF Requeues, EnqueueCommit
  <2>2. AfterStep(r, IdleReq) /\ IdleReq.pc = "idle"
    BY DEF AfterStep, IdleReq
  <2>3. ASSUME NEW x \in Reqs, Requeues(x) PROVE x = r
    <3>1. req'[x].pc = "idle" /\ req[x].pc = "enqueue"
      BY <1>0, <2>3 DEF Requeues, EnqueueCommit, ReqBecomes, IdleReq
    <3> QED BY <1>0, <2>1, <3>1 DEF ReqBecomes
  <2>4. \A t \in Tickets : t # req[r].ticket => (RowsOf(t) = {} => RowsOf(t)' = {})
    BY <2>3, RowsKept
  <2> QED BY <1>3, <2>1, <2>2, <2>4
<1>5. ASSUME NEW r \in Reqs, OtherRequest(r) PROVE OnlyFirstRequests'
  <2>1. PICK rec : ReqBecomes(r, rec) /\ AfterStep(r, rec)
    BY <1>5, RequestStaysFirst
  <2>2. \A t : RowsOf(t)' = RowsOf(t)
    BY <1>5 DEF OtherRequest, Rests, SameRow, RowsOf
  <2>3. rec.pc \in {"find", "enqueue"} => RowsOf(rec.ticket)' = {}
    BY <2>1, <2>2 DEF AfterStep
  <2> QED BY <1>3, <2>1, <2>2, <2>3
<1> QED
  BY <1>2, <1>4, <1>5, PlainSteps DEF Plain

LEMMA NextBudget == NobodyRedelegates /\ BudgetInv /\ [Next]_vars => BudgetInv'
<1> SUFFICES ASSUME NobodyRedelegates, BudgetInv, [Next]_vars PROVE BudgetInv'
  OBVIOUS
<1>1. LogInv'
  BY NextLogInv DEF BudgetInv
<1>2. \A t \in Tickets : Fits(t)'
  BY NextFits
<1> QED
  BY <1>1, <1>2, RowsKept, UnbornKept, NoTriageKept, FirstRequestsKept DEF BudgetInv

\* MAX_ATTEMPTS holds: with nobody re-delegating, a ticket is run at most that
\* often, by one row at a time, and every row but a queued or killed one is one
\* of the attempts it was charged, for any number of PCs, slots and tickets.
THEOREM BudgetHolds ==
  ASSUME NobodyRedelegates
  PROVE  Spec => []RetryBudget
<1>1. Init => BudgetInv
  BY InitBudget
<1>2. BudgetInv /\ [Next]_vars => BudgetInv'
  BY NextBudget
<1>3. BudgetInv => RetryBudget
  <2> SUFFICES ASSUME BudgetInv, NEW t \in Tickets
               PROVE  /\ ticket[t].attempts <= MaxAttempts
                      /\ Cardinality(OpenItems(t)) <= 1
                      /\ ticket[t].attempts =
                           Cardinality({i \in {j \in ItemIds : item[j].ticket = t} :
                                          item[i].status \notin {"queued", "killed"}})
    BY DEF RetryBudget
  <2>1. {i \in {j \in ItemIds : item[j].ticket = t} : item[i].status \notin {"queued", "killed"}}
          = Charged(t)
    BY DEF Charged
  <2> QED BY <2>1 DEF BudgetInv, Fits
<1> QED BY <1>1, <1>2, <1>3, PTL DEF Spec
=============================================================================
