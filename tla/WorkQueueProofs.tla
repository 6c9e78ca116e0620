--------------------------- MODULE WorkQueueProofs ---------------------------
(* Theorems about WorkQueue, for every value of its constants.              *)
EXTENDS WorkQueue, FiniteSetTheorems, TLAPS

-----------------------------------------------------------------------------
(* Type correctness.                                                        *)

\* What TypeOK needs besides itself: a PATCH in flight names a status.
PatchNamesStatus ==
  \A r \in Reqs : req[r].pc = "patch" => req[r].target \in TicketStatuses

\* ... and a slot with a claim in hand has a row.
BusyHasRow == \A s \in Slots : Busy(s) => slot[s].item \in ItemIds

TypeInv == TypeOK /\ PatchNamesStatus /\ BusyHasRow

\* Init satisfies the type invariant.
LEMMA InitTyped == Init => TypeInv
<1> SUFFICES ASSUME Init PROVE TypeInv
  OBVIOUS
<1> USE ConstantsAssumption
<1>1. ticket \in [Tickets -> Ticket]
  BY DEF Init, Ticket, NoTicket
<1>2. item \in [ItemIds -> Item]
  BY DEF Init, Item, NoRow
<1>3. /\ top \in 0..MaxItems
      /\ settings \in Settings
      /\ lock \in SUBSET Slots
  BY DEF Init, Free
<1>4. slot \in [Slots -> Slot]
  BY DEF Init, Slot, IdleSlot
<1>5. loop \in [Workers -> Loop]
  BY DEF Init, Loop, IdleLoop
<1>6. req \in [Reqs -> Req]
  BY DEF Init, Req, IdleReq, Row, RowOf, NoTicket
<1>7. PatchNamesStatus
  BY DEF Init, PatchNamesStatus, IdleReq
<1>8. BusyHasRow
  BY DEF Init, BusyHasRow, Busy, IdleSlot
<1> QED BY <1>1, <1>2, <1>3, <1>4, <1>5, <1>6, <1>7, <1>8 DEF TypeInv, TypeOK

\* A closed row, and a fresh one, are rows.
LEMMA CloseTyped ==
  ASSUME item \in [ItemIds -> Item], NEW i, NEW st \in Finished
  PROVE  Close(i, st) \in [ItemIds -> Item]
BY DEF Close, Item

LEMMA QueuedForTyped ==
  ASSUME NEW t \in Tickets \cup {Nobody}
  PROVE  QueuedFor(t) \in Item
BY DEF QueuedFor, NoRow, Item, Outstanding

\* So is a ticket with a new status and a new attempt count.
LEMMA TicketBecomesTyped ==
  ASSUME ticket \in [Tickets -> Ticket], NEW t, NEW st, NEW n,
         t \in Tickets => st \in TicketStatuses \cup {"absent"} /\ n \in Nat,
         TicketBecomes(t, st, n)
  PROVE  ticket' \in [Tickets -> Ticket]
<1>1. \A row \in Ticket : st \in TicketStatuses \cup {"absent"} /\ n \in Nat =>
        [row EXCEPT !.status = st, !.attempts = n] \in Ticket
  BY DEF Ticket
<1> QED BY <1>1 DEF TicketBecomes

\* A charged claim leaves the tables typed.
LEMMA ChargeTyped ==
  ASSUME TypeOK, NEW i \in ItemIds, ChargeFailure(i)
  PROVE  /\ ticket' \in [Tickets -> Ticket]
         /\ item' \in [ItemIds -> Item]
         /\ top' \in 0..MaxItems
<1> USE ConstantsAssumption
<1> DEFINE t == item[i].ticket
<1> DEFINE closed == Close(i, "failed")
<1>1. /\ closed \in [ItemIds -> Item]
      /\ QueuedFor(t) \in Item
  BY CloseTyped, QueuedForTyped DEF TypeOK, Item, Finished
<1>2. CASE HasBudget(t)
  <2> HIDE DEF closed, t
  <2>1. /\ top < MaxItems /\ top' = top + 1
        /\ item' = [closed EXCEPT ![top + 1] = QueuedFor(t)]
        /\ ticket' = [ticket EXCEPT ![t].status = "ready"]
    BY <1>2 DEF ChargeFailure, closed, t
  <2>2. ticket' \in [Tickets -> Ticket]
    BY <2>1 DEF TypeOK, Ticket, TicketStatuses
  <2>3. item' \in [ItemIds -> Item]
    BY <1>1, <2>1
  <2>4. top' \in 0..MaxItems
    BY <2>1 DEF TypeOK
  <2> QED BY <2>2, <2>3, <2>4
<1>3. CASE ~HasBudget(t)
  <2> HIDE DEF closed, t
  <2>1. /\ top' = top /\ item' = closed
        /\ ticket' = [ticket EXCEPT ![t].status = "failed"]
    BY <1>3 DEF ChargeFailure, closed, t
  <2>2. ticket' \in [Tickets -> Ticket]
    BY <2>1 DEF TypeOK, Ticket, TicketStatuses
  <2> QED BY <1>1, <2>1, <2>2 DEF TypeOK
<1> QED BY <1>2, <1>3

\* A slot's move leaves the slots typed.
LEMMA SlotBecomesTyped ==
  ASSUME TypeInv, NEW s \in Slots,
         NEW pc \in {"idle", "gated", "running", "ended"},
         NEW i \in ItemIds \cup {NoItem}, NEW o \in Outcomes \cup {"none"},
         pc \in {"running", "ended"} => i \in ItemIds, SlotBecomes(s, pc, i, o)
  PROVE  slot' \in [Slots -> Slot] /\ BusyHasRow'
<1>1. slot' \in [Slots -> Slot]
  BY DEF TypeInv, TypeOK, SlotBecomes, Slot
<1>2. BusyHasRow'
  BY DEF TypeInv, TypeOK, BusyHasRow, Busy, SlotBecomes
<1> QED BY <1>1, <1>2

\* A request's move leaves the requests typed.
LEMMA ReqBecomesTyped ==
  ASSUME TypeInv, NEW r \in Reqs, NEW rec \in Req, ReqBecomes(r, rec),
         rec.pc = "patch" => rec.target \in TicketStatuses
  PROVE  req' \in [Reqs -> Req] /\ PatchNamesStatus'
BY DEF ReqBecomes, TypeInv, TypeOK, PatchNamesStatus

\* Every step of a slot keeps the type invariant.
LEMMA SlotStepTyped ==
  ASSUME TypeInv, NEW s \in Slots, SlotStep(s)
  PROVE  TypeInv'
<1> USE ConstantsAssumption
<1>0. /\ slot[s] \in Slot
      /\ \A i \in ItemIds : item[i] \in Item
      /\ s[1] \in Workers
  BY DEF TypeInv, TypeOK, Slots
<1>1. CASE ClaimGate(s)
  <2>1. slot' \in [Slots -> Slot] /\ BusyHasRow'
    BY <1>1, SlotBecomesTyped DEF ClaimGate
  <2> QED BY <1>1, <2>1 DEF ClaimGate, TypeInv, TypeOK, PatchNamesStatus, BusyHasRow, Busy
<1>2. CASE ClaimNothing(s)
  <2>1. slot' \in [Slots -> Slot] /\ BusyHasRow'
    BY <1>2, SlotBecomesTyped DEF ClaimNothing
  <2> QED BY <1>2, <2>1 DEF ClaimNothing, TypeInv, TypeOK, PatchNamesStatus, BusyHasRow, Busy
<1>3. CASE ClaimItem(s)
  <2>1. PICK i \in Eligible(s[1]) :
          /\ item' = [item EXCEPT ![i] = [@ EXCEPT !.status = "claimed", !.by = s[1],
                                                   !.stale = FALSE]]
          /\ TicketBecomes(item[i].ticket, "doing", ticket[item[i].ticket].attempts + 1)
          /\ SlotBecomes(s, "running", i, "none")
    BY <1>3 DEF ClaimItem
  <2>2. i \in ItemIds
    BY DEF Eligible
  <2>3. slot' \in [Slots -> Slot] /\ BusyHasRow'
    BY <2>1, <2>2, SlotBecomesTyped
  <2>4. item' \in [ItemIds -> Item]
    BY <1>0, <2>1, <2>2 DEF TypeInv, TypeOK, Item, Outstanding
  <2>5. ticket' \in [Tickets -> Ticket]
    <3> DEFINE t == item[i].ticket
    <3>1. t \in Tickets => ticket[t].attempts + 1 \in Nat
      BY DEF TypeInv, TypeOK, Ticket
    <3> HIDE DEF t
    <3> QED BY <2>1, <3>1, TicketBecomesTyped DEF TypeInv, TypeOK, TicketStatuses, t
  <2> QED BY <1>3, <2>3, <2>4, <2>5 DEF ClaimItem, TypeInv, TypeOK, PatchNamesStatus, BusyHasRow, Busy
<1>4. CASE TouchHeartbeat(s)
  <2>1. item' \in [ItemIds -> Item]
    <3> DEFINE i == slot[s].item
    <3>1. \A x \in ItemIds : [item[x] EXCEPT !.stale = FALSE] \in Item
      BY DEF TypeInv, TypeOK, Item
    <3>2. item' = [item EXCEPT ![i] = [item[i] EXCEPT !.stale = FALSE]]
      BY <1>4 DEF TouchHeartbeat
    <3> HIDE DEF i
    <3> QED BY <3>1, <3>2 DEF TypeInv, TypeOK
  <2> QED BY <1>4, <2>1 DEF TouchHeartbeat, TypeInv, TypeOK, PatchNamesStatus, BusyHasRow, Busy
<1>5. CASE \E o \in Outcomes : RunEnds(s, o)
  <2>1. slot' \in [Slots -> Slot] /\ BusyHasRow'
    BY <1>0, <1>5, SlotBecomesTyped DEF RunEnds, TypeInv, BusyHasRow, Busy
  <2> QED BY <1>5, <2>1 DEF RunEnds, TypeInv, TypeOK, PatchNamesStatus, BusyHasRow, Busy
<1>6. CASE FinishWork(s)
  <2> DEFINE i == slot[s].item
  <2>1. slot' \in [Slots -> Slot] /\ BusyHasRow'
    BY <1>6, SlotBecomesTyped DEF FinishWork
  <2>2. CASE FinishOk(s) \/ RaiseQuestion(s)
    <3>1. PICK itemStatus \in {"done", "blocked"}, ticketStatus \in {"done", "blocked"} :
            CloseItem(i, itemStatus, ticketStatus)
      BY <2>2 DEF FinishOk, RaiseQuestion
    <3>2. item' \in [ItemIds -> Item]
      BY <3>1, CloseTyped DEF CloseItem, TypeInv, TypeOK, Finished
    <3>3. ticket' \in [Tickets -> Ticket] /\ top' = top
      BY <3>1 DEF CloseItem, TypeInv, TypeOK, Ticket, TicketStatuses
    <3> QED BY <1>6, <2>1, <3>2, <3>3 DEF FinishWork, TypeInv, TypeOK, PatchNamesStatus, BusyHasRow, Busy
  <2>3. CASE FinishKilled(s)
    <3>1. item' \in [ItemIds -> Item]
      BY <2>3, CloseTyped DEF FinishKilled, TypeInv, TypeOK, Finished
    <3>2. \A a \in Nat : Refund(a) \in Nat
      BY DEF Refund
    <3>3. ticket' \in [Tickets -> Ticket] /\ top' = top
      <4> DEFINE t == item[i].ticket
      <4>1. t \in Tickets => Refund(ticket[t].attempts) \in Nat
        BY <3>2 DEF TypeInv, TypeOK, Ticket
      <4>2. TicketBecomes(t, "killed", Refund(ticket[t].attempts)) /\ top' = top
        BY <2>3 DEF FinishKilled
      <4> HIDE DEF t
      <4> QED BY <4>1, <4>2, TicketBecomesTyped DEF TypeInv, TypeOK, TicketStatuses
    <3> QED BY <1>6, <2>1, <3>1, <3>3 DEF FinishWork, TypeInv, TypeOK, PatchNamesStatus, BusyHasRow, Busy
  <2>4. CASE FinishFailed(s)
    <3>1. i \in ItemIds
      BY <1>6 DEF FinishWork, TypeInv, BusyHasRow, Busy
    <3>2. /\ ticket' \in [Tickets -> Ticket]
          /\ item' \in [ItemIds -> Item]
          /\ top' \in 0..MaxItems
      BY <2>4, <3>1, ChargeTyped DEF FinishFailed, TypeInv
    <3> QED BY <1>6, <2>1, <3>2 DEF FinishWork, TypeInv, TypeOK, PatchNamesStatus, BusyHasRow, Busy
  <2> QED BY <1>6, <2>2, <2>3, <2>4 DEF FinishWork
<1>7. CASE Superseded(s)
  <2>1. slot' \in [Slots -> Slot] /\ BusyHasRow'
    BY <1>7, SlotBecomesTyped DEF Superseded
  <2> QED BY <1>7, <2>1 DEF Superseded, TypeInv, TypeOK, PatchNamesStatus, BusyHasRow, Busy
<1>8. CASE LoseResult(s)
  <2>1. slot' \in [Slots -> Slot] /\ BusyHasRow'
    BY <1>8, SlotBecomesTyped DEF LoseResult
  <2> QED BY <1>8, <2>1 DEF LoseResult, TypeInv, TypeOK, PatchNamesStatus, BusyHasRow, Busy
<1> QED
  BY <1>1, <1>2, <1>3, <1>4, <1>5, <1>6, <1>7, <1>8 DEF SlotStep

\* Every step of a PC's main loop keeps the type invariant.
LEMMA LoopStepTyped ==
  ASSUME TypeInv, NEW w \in Workers, LoopStep(w)
  PROVE  TypeInv'
<1> USE ConstantsAssumption
<1> DEFINE Rest == UNCHANGED <<settings, lock, slot, req>>
<1>0. ASSUME Rest, loop' \in [Workers -> Loop], ticket' \in [Tickets -> Ticket],
             item' \in [ItemIds -> Item], top' \in 0..MaxItems
      PROVE  TypeInv'
  BY <1>0 DEF TypeInv, TypeOK, PatchNamesStatus, BusyHasRow, Busy
<1>1. CASE ReapScan(w)
  <2>1. loop' \in [Workers -> Loop]
    BY <1>1 DEF ReapScan, StaleClaims, Claimed, TypeInv, TypeOK, Loop
  <2> QED BY <1>0, <1>1, <2>1 DEF ReapScan, TypeInv, TypeOK
<1>2. CASE TriageScan(w)
  <2>1. loop' \in [Workers -> Loop]
    BY <1>2 DEF TriageScan, TypeInv, TypeOK, Loop
  <2> QED BY <1>0, <1>2, <2>1 DEF TriageScan, TypeInv, TypeOK
<1>3. CASE LoopAborts(w)
  <2>1. loop' \in [Workers -> Loop]
    BY <1>3 DEF LoopAborts, IdleLoop, TypeInv, TypeOK, Loop
  <2> QED BY <1>0, <1>3, <2>1 DEF LoopAborts, TypeInv, TypeOK
<1>4. ASSUME NEW i \in ItemIds, ReapOne(w, i) PROVE TypeInv'
  <2>1. loop' \in [Workers -> Loop] /\ Rest
    BY <1>4 DEF ReapOne, TypeInv, TypeOK, Loop
  <2>2. CASE item[i].status = "claimed"
    BY <1>0, <1>4, <2>1, <2>2, ChargeTyped DEF ReapOne, TypeInv
  <2>3. CASE item[i].status # "claimed"
    BY <1>0, <1>4, <2>1, <2>3 DEF ReapOne, TypeInv, TypeOK
  <2> QED BY <2>2, <2>3
<1>5. ASSUME NEW t \in Tickets, TriageApply(w, t) PROVE TypeInv'
  <2>1. loop' \in [Workers -> Loop] /\ Rest
    BY <1>5 DEF TriageApply, TypeInv, TypeOK, Loop
  <2>2. CASE Untriaged(t)
    <3>1. /\ top < MaxDelegations /\ top' = top + 1
          /\ item' = [item EXCEPT ![top + 1] = QueuedFor(t)]
          /\ ticket' = [ticket EXCEPT ![t] = [@ EXCEPT !.status = "ready", !.triaged = TRUE]]
      BY <1>5, <2>2 DEF TriageApply
    <3>2. item' \in [ItemIds -> Item]
      BY <3>1, QueuedForTyped DEF TypeInv, TypeOK
    <3>3. ticket' \in [Tickets -> Ticket]
      BY <3>1 DEF TypeInv, TypeOK, Ticket, TicketStatuses
    <3>4. top' \in 0..MaxItems
      BY <3>1 DEF TypeInv, TypeOK
    <3> QED BY <1>0, <2>1, <3>2, <3>3, <3>4
  <2>3. CASE ~Untriaged(t)
    BY <1>0, <1>5, <2>1, <2>3 DEF TriageApply, TypeInv, TypeOK
  <2> QED BY <2>2, <2>3
<1>6. ASSUME NEW t \in Tickets, TriageFails(w, t) PROVE TypeInv'
  <2>1. loop' \in [Workers -> Loop]
    BY <1>6 DEF TriageFails, TypeInv, TypeOK, Loop
  <2> QED BY <1>0, <1>6, <2>1 DEF TriageFails, TypeInv, TypeOK
<1> QED
  BY <1>1, <1>2, <1>3, <1>4, <1>5, <1>6 DEF LoopStep

\* Every step of a request keeps the type invariant.
LEMMA ReqStepTyped ==
  ASSUME TypeInv, NEW r \in Reqs, ReqStep(r)
  PROVE  TypeInv'
<1> USE ConstantsAssumption, HandlerAssumption
<1> DEFINE Rest == UNCHANGED <<settings, lock, slot, loop>>
<1>a. ASSUME Rest, req' \in [Reqs -> Req] /\ PatchNamesStatus', ticket' \in [Tickets -> Ticket],
             item' \in [ItemIds -> Item], top' \in 0..MaxItems
      PROVE  TypeInv'
  BY <1>a DEF TypeInv, TypeOK, BusyHasRow, Busy
<1>b. /\ req[r] \in Req
      /\ req[r].pc = "patch" => req[r].target \in TicketStatuses
      /\ \A t \in Tickets : ticket[t] \in Ticket /\ RowOf(ticket[t]) \in Row
      /\ \A i \in ItemIds : item[i] \in Item
  BY DEF TypeInv, TypeOK, PatchNamesStatus, RowOf, Row, Ticket
<1>c. IdleReq \in Req /\ IdleReq.pc = "idle"
  BY DEF IdleReq, Req, RowOf, Row, NoTicket
<1>d. \A t \in Tickets : \A pc \in {"patch", "find"} :
        /\ Loaded(pc, t) \in Req
        /\ \A st \in TicketStatuses : [Loaded(pc, t) EXCEPT !.target = st] \in Req
  BY <1>b DEF Loaded, IdleReq, Req
<1>1. ASSUME NEW t \in Tickets, NEW st \in NewStatuses, CreateTicket(r, t, st) PROVE TypeInv'
  <2> DEFINE row == [NoTicket EXCEPT !.status = st]
  <2>1. row \in Ticket /\ RowOf(row) \in Row
    BY DEF NoTicket, Ticket, RowOf, Row
  <2> DEFINE next == IF st = "ready"
                     THEN [IdleReq EXCEPT !.pc = "find", !.ticket = t, !.row = RowOf(row)]
                     ELSE IdleReq
  <2>2. next \in Req /\ next.pc # "patch"
    <3> HIDE DEF row
    <3> QED BY <2>1 DEF IdleReq, Req, RowOf, NoTicket, Row
  <2>3. /\ ticket' = [ticket EXCEPT ![t] = row]
        /\ ReqBecomes(r, next)
        /\ UNCHANGED <<item, top>> /\ Rest
    BY <1>1 DEF CreateTicket
  <2>4. req' \in [Reqs -> Req] /\ PatchNamesStatus'
    <3> HIDE DEF next
    <3> QED BY <2>2, <2>3, ReqBecomesTyped
  <2>5. ticket' \in [Tickets -> Ticket]
    <3> HIDE DEF row
    <3> QED BY <2>1, <2>3 DEF TypeInv, TypeOK
  <2> QED BY <1>a, <2>3, <2>4, <2>5 DEF TypeInv, TypeOK
<1>2. ASSUME NEW t \in Tickets, RunTicket(r, t) PROVE TypeInv'
  <2>1. Loaded("find", t).pc = "find"
    BY DEF Loaded, IdleReq
  <2>2. req' \in [Reqs -> Req] /\ PatchNamesStatus'
    BY <1>2, <1>d, <2>1, ReqBecomesTyped DEF RunTicket
  <2> QED BY <1>a, <1>2, <2>2 DEF RunTicket, TypeInv, TypeOK
<1>3. ASSUME NEW t \in Tickets, NEW st \in DragStatuses, PatchTicket(r, t, st) PROVE TypeInv'
  <2> DEFINE next == [Loaded("patch", t) EXCEPT !.target = st]
  <2>1. next \in Req /\ next.target = st /\ st \in TicketStatuses
    BY <1>d DEF Loaded, IdleReq
  <2>2. ReqBecomes(r, next)
    BY <1>3 DEF PatchTicket
  <2>3. req' \in [Reqs -> Req] /\ PatchNamesStatus'
    <3> HIDE DEF next
    <3> QED BY <2>1, <2>2, ReqBecomesTyped
  <2> QED BY <1>a, <1>3, <2>3 DEF PatchTicket, TypeInv, TypeOK
<1>4. CASE PatchCommit(r)
  <2> DEFINE st == req[r].target
  <2> DEFINE next == IF st = "ready" THEN [req[r] EXCEPT !.pc = "find", !.row.status = st]
                     ELSE IdleReq
  <2>1. st \in TicketStatuses /\ ReqBecomes(r, next)
    BY <1>4, <1>b DEF PatchCommit
  <2>2. next \in Req /\ next.pc # "patch"
    <3>1. [req[r] EXCEPT !.pc = "find", !.row.status = "ready"] \in Req
      BY <1>b DEF Req, Row, TicketStatuses
    <3>2. [req[r] EXCEPT !.pc = "find", !.row.status = "ready"].pc = "find"
      BY <1>b DEF Req
    <3> QED BY <3>1, <3>2, <1>c
  <2>3. req' \in [Reqs -> Req] /\ PatchNamesStatus'
    <3> HIDE DEF next
    <3> QED BY <2>1, <2>2, ReqBecomesTyped
  <2>4. ticket' \in [Tickets -> Ticket]
    <3>1. \/ ticket' = ticket
          \/ ticket' = [ticket EXCEPT ![req[r].ticket].status = st]
      BY <1>4 DEF PatchCommit
    <3> HIDE DEF st
    <3> QED BY <2>1, <3>1 DEF TypeInv, TypeOK, Ticket
  <2> QED BY <1>a, <1>4, <2>3, <2>4 DEF PatchCommit, TypeInv, TypeOK
<1>5. CASE EnqueueFind(r)
  <2> DEFINE Step == req' \in [Reqs -> Req] /\ PatchNamesStatus'
  <2>1. ASSUME ReqBecomes(r, [req[r] EXCEPT !.pc = "enqueue"]) PROVE Step
    <3> DEFINE next == [req[r] EXCEPT !.pc = "enqueue"]
    <3>1. next \in Req /\ next.pc = "enqueue" /\ ReqBecomes(r, next)
      BY <1>b, <2>1 DEF Req
    <3> HIDE DEF next
    <3> QED BY <3>1, ReqBecomesTyped
  <2>2. ASSUME NEW i \in OpenItems(req[r].ticket),
               ReqBecomes(r, [req[r] EXCEPT !.pc = "enqueue", !.seen = i,
                                            !.seenStatus = item[i].status])
        PROVE  Step
    <3> DEFINE next == [req[r] EXCEPT !.pc = "enqueue", !.seen = i,
                                      !.seenStatus = item[i].status]
    <3>1. i \in ItemIds /\ item[i].status \in Outstanding
      BY DEF OpenItems
    <3>2. next \in Req /\ next.pc = "enqueue" /\ ReqBecomes(r, next)
      BY <1>b, <2>2, <3>1 DEF Req
    <3> HIDE DEF next
    <3> QED BY <3>2, ReqBecomesTyped
  <2>3. Step
    BY <1>5, <2>1, <2>2 DEF EnqueueFind
  <2> QED BY <1>a, <1>5, <2>3 DEF EnqueueFind, TypeInv, TypeOK
<1>6. CASE EnqueueCommit(r)
  <2>1. req' \in [Reqs -> Req] /\ PatchNamesStatus'
    BY <1>6, <1>c, ReqBecomesTyped DEF EnqueueCommit
  <2>2. ticket' \in [Tickets -> Ticket]
    <3> DEFINE t == req[r].ticket
    <3> DEFINE st == IF req[r].row.status = "ready" THEN ticket[t].status ELSE "ready"
    <3> DEFINE n == IF req[r].row.attempts = 0 THEN ticket[t].attempts ELSE 0
    <3>1. TicketBecomes(t, st, n)
      BY <1>6 DEF EnqueueCommit, Resync
    <3>2. t \in Tickets => st \in TicketStatuses \cup {"absent"} /\ n \in Nat
      BY <1>b DEF Ticket, TicketStatuses
    <3> HIDE DEF t, st, n
    <3> QED BY <3>1, <3>2, TicketBecomesTyped DEF TypeInv, TypeOK
  <2>3. item' \in [ItemIds -> Item] /\ top' \in 0..MaxItems
    <3>1. SupersededRow(r) \in [ItemIds -> Item]
      BY CloseTyped DEF SupersededRow, TypeInv, TypeOK, Finished
    <3>2. QueuedFor(req[r].ticket) \in Item
      BY <1>b, QueuedForTyped DEF Req
    <3>3. CASE UNCHANGED <<item, top>>
      BY <3>3 DEF TypeInv, TypeOK
    <3>4. CASE /\ top < MaxDelegations /\ top' = top + 1
               /\ item' = [SupersededRow(r) EXCEPT ![top + 1] = QueuedFor(req[r].ticket)]
      <4>1. item' \in [ItemIds -> Item]
        BY <3>1, <3>2, <3>4
      <4>2. top' \in 0..MaxItems
        BY <3>4 DEF TypeInv, TypeOK
      <4> QED BY <4>1, <4>2
    <3> QED BY <1>6, <3>3, <3>4 DEF EnqueueCommit
  <2> QED BY <1>a, <1>6, <2>1, <2>2, <2>3 DEF EnqueueCommit
<1>7. ASSUME NEW t \in Tickets, KillTicket(r, t) PROVE TypeInv'
  <2>1. PICK i \in OpenItems(t) \cap Claimed :
          ReqBecomes(r, [IdleReq EXCEPT !.pc = "kill", !.ticket = t, !.seen = i])
    BY <1>7 DEF KillTicket
  <2>2. [IdleReq EXCEPT !.pc = "kill", !.ticket = t, !.seen = i] \in Req
    BY DEF IdleReq, Req, RowOf, Row, NoTicket, OpenItems
  <2>3. [IdleReq EXCEPT !.pc = "kill", !.ticket = t, !.seen = i].pc = "kill"
    BY DEF IdleReq
  <2>4. req' \in [Reqs -> Req] /\ PatchNamesStatus'
    BY <2>1, <2>2, <2>3, ReqBecomesTyped
  <2> QED BY <1>a, <1>7, <2>4 DEF KillTicket, TypeInv, TypeOK
<1>8. CASE KillCommit(r)
  <2>1. req' \in [Reqs -> Req] /\ PatchNamesStatus'
    BY <1>8, <1>c, ReqBecomesTyped DEF KillCommit
  <2>2. item' \in [ItemIds -> Item]
    <3> DEFINE i == req[r].seen
    <3>1. \A x \in ItemIds : [item[x] EXCEPT !.kill = TRUE] \in Item
      BY <1>b DEF Item
    <3>2. item' = [item EXCEPT ![i] = [item[i] EXCEPT !.kill = TRUE]]
      BY <1>8 DEF KillCommit
    <3> HIDE DEF i
    <3> QED BY <3>1, <3>2 DEF TypeInv, TypeOK
  <2> QED BY <1>a, <1>8, <2>1, <2>2 DEF KillCommit, TypeInv, TypeOK
<1>9. CASE RequestDies(r)
  <2>1. req' \in [Reqs -> Req] /\ PatchNamesStatus'
    BY <1>9, <1>c, ReqBecomesTyped DEF RequestDies
  <2> QED BY <1>a, <1>9, <2>1 DEF RequestDies, TypeInv, TypeOK
<1> QED
  BY <1>1, <1>2, <1>3, <1>4, <1>5, <1>6, <1>7, <1>8, <1>9 DEF ReqStep, Call

\* Every step of the system keeps the type invariant.
LEMMA NextTyped == TypeInv /\ [Next]_vars => TypeInv'
<1> SUFFICES ASSUME TypeInv, [Next]_vars PROVE TypeInv'
  OBVIOUS
<1> USE ConstantsAssumption
<1>1. ASSUME NEW s \in Slots, SlotStep(s) PROVE TypeInv'
  BY <1>1, SlotStepTyped
<1>2. ASSUME NEW w \in Workers, LoopStep(w) PROVE TypeInv'
  BY <1>2, LoopStepTyped
<1>3. ASSUME NEW w \in Workers, Crash(w) PROVE TypeInv'
  <2>1. slot' \in [Slots -> Slot] /\ BusyHasRow'
    BY <1>3 DEF Crash, TypeInv, TypeOK, Slot, IdleSlot, BusyHasRow, Busy
  <2>2. loop' \in [Workers -> Loop]
    BY <1>3 DEF Crash, TypeInv, TypeOK, Loop, IdleLoop
  <2> QED BY <1>3, <2>1, <2>2 DEF Crash, TypeInv, TypeOK, PatchNamesStatus
<1>4. ASSUME NEW r \in Reqs, ReqStep(r) PROVE TypeInv'
  BY <1>4, ReqStepTyped
<1>5. ASSUME NEW i \in ItemIds, HeartbeatExpires(i) PROVE TypeInv'
  <2>1. item' \in [ItemIds -> Item]
    BY <1>5 DEF HeartbeatExpires, TypeInv, TypeOK, Item
  <2> QED BY <1>5, <2>1 DEF HeartbeatExpires, TypeInv, TypeOK, PatchNamesStatus, BusyHasRow, Busy
<1>6. ASSUME NEW new \in Settings, PutSettings(new) PROVE TypeInv'
  BY <1>6 DEF PutSettings, TypeInv, TypeOK, PatchNamesStatus, BusyHasRow, Busy
<1>7. CASE UNCHANGED vars
  BY <1>7 DEF vars, TypeInv, TypeOK, PatchNamesStatus, BusyHasRow, Busy
<1> QED
  BY <1>1, <1>2, <1>3, <1>4, <1>5, <1>6, <1>7 DEF Next

\* Every table and process stays well formed, for any number of tickets, PCs,
\* slots, requests and attempts: attempts in particular never goes negative,
\* although a delegation may reset it under a run whose kill then refunds it.
THEOREM TypeCorrect == Spec => []TypeOK
<1>1. TypeInv => TypeOK
  BY DEF TypeInv
<1> QED
  BY <1>1, InitTyped, NextTyped, PTL DEF Spec
-----------------------------------------------------------------------------
(* What a step may do to a row of work_queue, whoever takes it.             *)

\* The row is as it was, but for its heartbeat and a raised kill flag.
Kept(i) ==
  /\ item'[i].ticket = item[i].ticket /\ item'[i].status = item[i].status
  /\ item'[i].by = item[i].by /\ (item[i].kill => item'[i].kill)

\* The row is the next id, queued.
Inserted(i) == i = top + 1 /\ top' = top + 1 /\ item'[i].status = "queued"

\* The row takes a final status and is otherwise as it was.
Ends(i) ==
  /\ item'[i].ticket = item[i].ticket /\ item'[i].by = item[i].by
  /\ item'[i].kill = item[i].kill /\ item'[i].status \in Finished

\* ... because it was claimed and its slot, or a reaper, closed it ...
Ended(i) ==
  /\ Ends(i) /\ item[i].status = "claimed"
  /\ item'[i].status = "killed" =>
       \E s \in Slots : /\ slot[s].pc = "ended" /\ slot[s].outcome = "killed"
                        /\ slot[s].item = i

\* ... or because a re-queue had read it as claimed.
SupersededBy(i) ==
  /\ Ends(i) /\ item'[i].status = "failed"
  /\ \E r \in Reqs : /\ req[r].pc = "enqueue" /\ req[r].seen = i
                     /\ req[r].seenStatus = "claimed"

RowEffect(i) == Kept(i) \/ Inserted(i) \/ Ended(i) \/ SupersededBy(i)

\* A slot is as it was, or goes idle, or its run ends, killed only on request.
SlotEffect(s) ==
  slot'[s].pc \in {"running", "ended"} =>
    /\ Busy(s) /\ slot'[s].item = slot[s].item
    /\ \/ slot'[s].pc = slot[s].pc /\ slot'[s].outcome = slot[s].outcome
       \/ slot'[s].outcome = "killed" => KillAsked(s)

Quiet == /\ \A i \in ItemIds : RowEffect(i)
         /\ \A s \in Slots : SlotEffect(s)
         /\ top' \in {top, top + 1}

\* Charging a claimed row ends it and inserts at most one.
LEMMA ChargeEffect ==
  ASSUME TypeInv, NEW i \in ItemIds, item[i].status = "claimed", ChargeFailure(i)
  PROVE  (\A j \in ItemIds : RowEffect(j)) /\ top' \in {top, top + 1}
<1> DEFINE closed == Close(i, "failed")
<1>1. /\ \A j \in ItemIds \ {i} : closed[j] = item[j]
      /\ closed[i] = [item[i] EXCEPT !.status = "failed", !.stale = FALSE]
      /\ closed \in [ItemIds -> Item]
  BY CloseTyped DEF Close, TypeInv, TypeOK, Finished
<1>2. /\ closed[i].ticket = item[i].ticket /\ closed[i].by = item[i].by
      /\ closed[i].kill = item[i].kill /\ closed[i].status = "failed"
  BY <1>1 DEF TypeInv, TypeOK, Item
<1>3. QueuedFor(item[i].ticket).status = "queued"
  BY DEF QueuedFor, NoRow
<1>4. \/ item' = closed /\ top' = top
      \/ item' = [closed EXCEPT ![top + 1] = QueuedFor(item[i].ticket)] /\ top' = top + 1
  BY DEF ChargeFailure
<1> HIDE DEF closed
<1>5. ASSUME NEW j \in ItemIds PROVE RowEffect(j)
  <2>1. CASE item'[j] = closed[j]
    <3>1. CASE j = i
      BY <1>2, <2>1, <3>1 DEF RowEffect, Ended, Ends, Finished
    <3>2. CASE j # i
      BY <1>1, <2>1, <3>2 DEF RowEffect, Kept
    <3> QED BY <3>1, <3>2
  <2>2. CASE item'[j] # closed[j]
    BY <1>1, <1>3, <1>4, <2>2 DEF RowEffect, Inserted
  <2> QED BY <2>1, <2>2
<1> QED BY <1>4, <1>5

\* Closing a row a slot holds ends it.
LEMMA CloseEffect ==
  ASSUME TypeInv, NEW i \in ItemIds, NEW st \in Finished, item[i].status = "claimed",
         item' = Close(i, st), top' = top,
         st = "killed" => \E s \in Slots : /\ slot[s].pc = "ended" /\ slot[s].outcome = "killed"
                                           /\ slot[s].item = i
  PROVE  \A j \in ItemIds : RowEffect(j)
<1>1. /\ \A j \in ItemIds \ {i} : item'[j] = item[j]
      /\ item'[i] = [item[i] EXCEPT !.status = st, !.stale = FALSE]
  BY DEF Close, TypeInv, TypeOK
<1>2. /\ item'[i].ticket = item[i].ticket /\ item'[i].by = item[i].by
      /\ item'[i].kill = item[i].kill /\ item'[i].status = st
  BY <1>1 DEF TypeInv, TypeOK, Item
<1>3. RowEffect(i)
  BY <1>2 DEF RowEffect, Ended, Ends
<1> QED BY <1>1, <1>3 DEF RowEffect, Kept

\* A step that leaves the rows alone.
LEMMA RowsUntouched ==
  ASSUME UNCHANGED <<item, top>>
  PROVE  (\A i \in ItemIds : RowEffect(i)) /\ top' \in {top, top + 1}
BY DEF RowEffect, Kept

\* A step that leaves the slots alone.
LEMMA SlotsUntouched ==
  ASSUME UNCHANGED slot
  PROVE  \A s \in Slots : SlotEffect(s)
BY DEF SlotEffect, Busy

\* A slot that goes idle, or asks for work.
LEMMA SlotGoesIdle ==
  ASSUME TypeInv, NEW s \in Slots, NEW pc \in {"idle", "gated"}, NEW i, NEW o,
         SlotBecomes(s, pc, i, o)
  PROVE  \A x \in Slots : SlotEffect(x)
BY DEF SlotBecomes, SlotEffect, Busy, TypeInv, TypeOK

\* Every step but a claim has these effects only.
LEMMA SlotStepEffect ==
  ASSUME TypeInv, NEW s \in Slots, SlotStep(s), ~ClaimItem(s)
  PROVE  Quiet
<1>0. slot[s] \in Slot /\ (Busy(s) => slot[s].item \in ItemIds)
  BY DEF TypeInv, TypeOK, BusyHasRow
<1>1. CASE ClaimGate(s)
  BY <1>1, SlotGoesIdle, RowsUntouched DEF ClaimGate, Quiet
<1>2. CASE ClaimNothing(s)
  BY <1>2, SlotGoesIdle, RowsUntouched DEF ClaimNothing, Quiet
<1>3. CASE TouchHeartbeat(s)
  <2>1. \A i \in ItemIds : Kept(i)
    BY <1>3 DEF TouchHeartbeat, Kept, TypeInv, TypeOK, Item
  <2> QED BY <1>3, <2>1, SlotsUntouched DEF TouchHeartbeat, Quiet, RowEffect
<1>4. ASSUME NEW o \in Outcomes, RunEnds(s, o) PROVE Quiet
  <2>1. \A x \in Slots : SlotEffect(x)
    BY <1>4 DEF RunEnds, SlotBecomes, SlotEffect, Busy, TypeInv, TypeOK
  <2> QED BY <1>4, <2>1, RowsUntouched DEF RunEnds, Quiet
<1>5. CASE FinishWork(s)
  <2> DEFINE i == slot[s].item
  <2>1. \A x \in Slots : SlotEffect(x)
    BY <1>5, SlotGoesIdle DEF FinishWork
  <2>2. /\ slot[s].pc = "ended" /\ i \in ItemIds /\ item[i].status = "claimed"
    BY <1>0, <1>5 DEF FinishWork, StillHeld, Busy
  <2>3. CASE FinishOk(s) \/ RaiseQuestion(s)
    <3>1. PICK st \in {"done", "blocked"} : item' = Close(i, st) /\ top' = top
      BY <2>3 DEF FinishOk, RaiseQuestion, CloseItem
    <3> QED BY <2>1, <2>2, <3>1, CloseEffect DEF Quiet, Finished
  <2>4. CASE FinishKilled(s)
    <3>1. item' = Close(i, "killed") /\ top' = top /\ slot[s].outcome = "killed"
      BY <2>4 DEF FinishKilled
    <3> QED BY <2>1, <2>2, <3>1, CloseEffect DEF Quiet, Finished
  <2>5. CASE FinishFailed(s)
    BY <2>1, <2>2, <2>5, ChargeEffect DEF FinishFailed, Quiet
  <2> QED BY <1>5, <2>3, <2>4, <2>5 DEF FinishWork
<1>6. CASE Superseded(s)
  BY <1>6, SlotGoesIdle, RowsUntouched DEF Superseded, Quiet
<1>7. CASE LoseResult(s)
  BY <1>7, SlotGoesIdle, RowsUntouched DEF LoseResult, Quiet
<1> QED
  BY <1>1, <1>2, <1>3, <1>4, <1>5, <1>6, <1>7 DEF SlotStep

LEMMA LoopStepEffect ==
  ASSUME TypeInv, NEW w \in Workers, LoopStep(w)
  PROVE  Quiet
<1>1. slot' = slot
  BY DEF LoopStep, ReapScan, ReapOne, TriageScan, TriageApply, TriageFails, LoopAborts
<1>2. \A s \in Slots : SlotEffect(s)
  BY <1>1, SlotsUntouched
<1>3. CASE UNCHANGED <<item, top>>
  BY <1>2, <1>3, RowsUntouched DEF Quiet
<1>4. ASSUME NEW i \in ItemIds, ReapOne(w, i) PROVE Quiet
  <2>1. CASE item[i].status = "claimed"
    BY <1>2, <1>4, <2>1, ChargeEffect DEF ReapOne, Quiet
  <2>2. CASE item[i].status # "claimed"
    BY <1>3, <1>4, <2>2 DEF ReapOne
  <2> QED BY <2>1, <2>2
<1>5. ASSUME NEW t \in Tickets, TriageApply(w, t) PROVE Quiet
  <2>1. CASE Untriaged(t)
    <3>1. top' = top + 1 /\ item' = [item EXCEPT ![top + 1] = QueuedFor(t)]
      BY <1>5, <2>1 DEF TriageApply
    <3>2. QueuedFor(t).status = "queued"
      BY DEF QueuedFor, NoRow
    <3>3. \A i \in ItemIds : RowEffect(i)
      BY <3>1, <3>2 DEF RowEffect, Kept, Inserted, TypeInv, TypeOK
    <3> QED BY <1>2, <3>1, <3>3 DEF Quiet
  <2>2. CASE ~Untriaged(t)
    BY <1>3, <1>5, <2>2 DEF TriageApply
  <2> QED BY <2>1, <2>2
<1> QED
  BY <1>3, <1>4, <1>5 DEF LoopStep, ReapScan, TriageScan, TriageFails, LoopAborts

LEMMA ReqStepEffect ==
  ASSUME TypeInv, NEW r \in Reqs, ReqStep(r)
  PROVE  Quiet
<1>1. slot' = slot
  BY DEF ReqStep, Call, CreateTicket, RunTicket, PatchTicket, PatchCommit, EnqueueFind,
         EnqueueCommit, KillTicket, KillCommit, RequestDies
<1>2. \A s \in Slots : SlotEffect(s)
  BY <1>1, SlotsUntouched
<1>3. CASE UNCHANGED <<item, top>>
  BY <1>2, <1>3, RowsUntouched DEF Quiet
<1>4. CASE KillCommit(r)
  <2>1. \A i \in ItemIds : Kept(i)
    BY <1>4 DEF KillCommit, Kept, TypeInv, TypeOK, Item
  <2> QED BY <1>2, <1>4, <2>1 DEF KillCommit, Quiet, RowEffect
<1>5. CASE EnqueueCommit(r) /\ ~UNCHANGED <<item, top>>
  <2> DEFINE rows == SupersededRow(r)
  <2>1. /\ top' = top + 1
        /\ item' = [rows EXCEPT ![top + 1] = QueuedFor(req[r].ticket)]
        /\ req[r].pc = "enqueue"
    BY <1>5 DEF EnqueueCommit
  <2>2. QueuedFor(req[r].ticket).status = "queued"
    BY DEF QueuedFor, NoRow
  <2>3. rows \in [ItemIds -> Item]
    BY CloseTyped DEF SupersededRow, TypeInv, TypeOK, Finished
  <2>4. ASSUME NEW i \in ItemIds, rows[i] # item[i]
        PROVE  /\ req[r].seen = i /\ req[r].seenStatus = "claimed"
               /\ rows[i].ticket = item[i].ticket /\ rows[i].by = item[i].by
               /\ rows[i].kill = item[i].kill /\ rows[i].status = "failed"
    BY <2>4 DEF SupersededRow, Close, TypeInv, TypeOK, Item
  <2> HIDE DEF rows
  <2>5. ASSUME NEW i \in ItemIds PROVE RowEffect(i)
    <3>1. CASE i = top + 1
      BY <2>1, <2>2, <2>3, <3>1 DEF RowEffect, Inserted
    <3>2. CASE i # top + 1 /\ rows[i] = item[i]
      BY <2>1, <2>3, <3>2 DEF RowEffect, Kept
    <3>3. CASE i # top + 1 /\ rows[i] # item[i]
      BY <2>1, <2>3, <2>4, <3>3 DEF RowEffect, SupersededBy, Ends, Finished
    <3> QED BY <3>1, <3>2, <3>3
  <2> QED BY <1>2, <2>1, <2>5 DEF Quiet
<1> QED
  BY <1>3, <1>4, <1>5 DEF ReqStep, Call, CreateTicket, RunTicket, PatchTicket, PatchCommit,
     EnqueueFind, KillTicket, RequestDies

LEMMA QuietSteps ==
  ASSUME TypeInv, [Next]_vars, \A s \in Slots : ~ClaimItem(s)
  PROVE  Quiet
<1>1. ASSUME NEW s \in Slots, SlotStep(s) PROVE Quiet
  BY <1>1, SlotStepEffect
<1>2. ASSUME NEW w \in Workers, LoopStep(w) PROVE Quiet
  BY <1>2, LoopStepEffect
<1>3. ASSUME NEW w \in Workers, Crash(w) PROVE Quiet
  <2>1. \A s \in Slots : SlotEffect(s)
    BY <1>3 DEF Crash, SlotEffect, Busy, IdleSlot, TypeInv, TypeOK
  <2> QED BY <1>3, <2>1, RowsUntouched DEF Crash, Quiet
<1>4. ASSUME NEW r \in Reqs, ReqStep(r) PROVE Quiet
  BY <1>4, ReqStepEffect
<1>5. ASSUME NEW i \in ItemIds, HeartbeatExpires(i) PROVE Quiet
  <2>1. \A j \in ItemIds : Kept(j)
    BY <1>5 DEF HeartbeatExpires, Kept, TypeInv, TypeOK, Item
  <2> QED BY <1>5, <2>1, SlotsUntouched DEF HeartbeatExpires, Quiet, RowEffect
<1>6. ASSUME NEW new \in Settings, PutSettings(new) PROVE Quiet
  BY <1>6, RowsUntouched, SlotsUntouched DEF PutSettings, Quiet
<1>7. CASE UNCHANGED vars
  BY <1>7, RowsUntouched, SlotsUntouched DEF vars, Quiet
<1> QED
  BY <1>1, <1>2, <1>3, <1>4, <1>5, <1>6, <1>7 DEF Next

\* What a claim does: one queued row becomes the claiming slot's.
LEMMA ClaimEffect ==
  ASSUME TypeInv, NEW s \in Slots, ClaimItem(s)
  PROVE  \E i \in ItemIds :
           /\ item[i].status = "queued" /\ item'[i].status = "claimed"
           /\ item'[i].by = s[1] /\ item'[i].kill = item[i].kill
           /\ \A j \in ItemIds \ {i} : item'[j] = item[j]
           /\ slot'[s].pc = "running" /\ slot'[s].item = i /\ slot'[s].outcome = "none"
           /\ \A x \in Slots \ {s} : slot'[x] = slot[x]
           /\ top' = top /\ req' = req /\ settings' = settings
<1>1. PICK i \in Eligible(s[1]) :
        /\ item' = [item EXCEPT ![i] = [@ EXCEPT !.status = "claimed", !.by = s[1],
                                                 !.stale = FALSE]]
        /\ SlotBecomes(s, "running", i, "none")
  BY DEF ClaimItem
<1>2. i \in ItemIds /\ item[i].status = "queued"
  BY DEF Eligible
<1>3. /\ item'[i] = [item[i] EXCEPT !.status = "claimed", !.by = s[1], !.stale = FALSE]
      /\ \A j \in ItemIds \ {i} : item'[j] = item[j]
  BY <1>1, <1>2 DEF TypeInv, TypeOK
<1>4. item'[i].status = "claimed" /\ item'[i].by = s[1] /\ item'[i].kill = item[i].kill
  BY <1>2, <1>3 DEF TypeInv, TypeOK, Item
<1>5. /\ slot'[s].pc = "running" /\ slot'[s].item = i /\ slot'[s].outcome = "none"
      /\ \A x \in Slots \ {s} : slot'[x] = slot[x]
  BY <1>1 DEF SlotBecomes, TypeInv, TypeOK
<1> QED BY <1>2, <1>3, <1>4, <1>5 DEF ClaimItem

-----------------------------------------------------------------------------
(* The claims. NoDoubleClaim and KilledOnRequest are not inductive: a fresh  *)
(* row must not land on one in use, so ids above top are unused and nothing  *)
(* a request has read lies above it; and a kill a slot has seen must still   *)
(* be on its row when the result is written.                                 *)

UnusedAboveTop == \A i \in ItemIds : item[i].status # "absent" => i <= top
SeenIsUsed     == \A r \in Reqs : req[r].seen <= top
HeldIsUsed     == \A s \in Slots : Busy(s) => item[slot[s].item].status # "absent"
KilledWasAsked ==
  \A s \in Slots : Busy(s) /\ slot[s].outcome = "killed" => item[slot[s].item].kill

ClaimInv ==
  /\ TypeInv
  /\ UnusedAboveTop /\ SeenIsUsed /\ HeldIsUsed
  /\ NoDoubleClaim
  /\ KilledWasAsked /\ KilledOnRequest

LEMMA InitClaims == Init => ClaimInv
<1> SUFFICES ASSUME Init PROVE ClaimInv
  OBVIOUS
<1>1. TypeInv
  BY InitTyped
<1>2. \A i \in ItemIds : item[i].status = "absent"
  BY DEF Init, NoRow
<1>3. \A s \in Slots : ~Busy(s)
  BY DEF Init, Busy, IdleSlot
<1>4. SeenIsUsed
  BY DEF Init, SeenIsUsed, IdleReq, NoItem
<1> QED
  BY <1>1, <1>2, <1>3, <1>4 DEF ClaimInv, UnusedAboveTop, HeldIsUsed, NoDoubleClaim,
     KilledWasAsked, KilledOnRequest

\* A request holds the id it held, none, or one it has just read.
LEMMA SeenEffect ==
  ASSUME TypeInv, [Next]_vars, NEW r \in Reqs
  PROVE  \/ req'[r].seen \in {req[r].seen, NoItem}
         \/ req'[r].seen \in ItemIds /\ item[req'[r].seen].status \in Outstanding
<1> DEFINE Seen(x) ==
      \/ req'[x].seen \in {req[x].seen, NoItem}
      \/ req'[x].seen \in ItemIds /\ item[req'[x].seen].status \in Outstanding
<1> SUFFICES Seen(r)
  OBVIOUS
<1>0. req[r] \in Req /\ IdleReq.seen = NoItem /\ IdleReq \in Req
  BY DEF TypeInv, TypeOK, IdleReq, Req, RowOf, Row, NoTicket
<1>a. ASSUME NEW x \in Reqs, NEW rec, ReqBecomes(x, rec),
             \/ rec.seen \in {req[x].seen, NoItem}
             \/ rec.seen \in ItemIds /\ item[rec.seen].status \in Outstanding
      PROVE  Seen(r)
  BY <1>a DEF ReqBecomes, TypeInv, TypeOK
<1>1. ASSUME NEW x \in Reqs, ReqStep(x) PROVE Seen(r)
  <2>0. req[x] \in Req
    BY DEF TypeInv, TypeOK
  <2>1. ASSUME NEW t \in Tickets, NEW st \in NewStatuses, CreateTicket(x, t, st)
        PROVE  Seen(r)
    <3> DEFINE row == RowOf([NoTicket EXCEPT !.status = st])
    <3>1. ReqBecomes(x, IF st = "ready"
                        THEN [IdleReq EXCEPT !.pc = "find", !.ticket = t, !.row = row]
                        ELSE IdleReq)
      BY <2>1 DEF CreateTicket
    <3>2. [IdleReq EXCEPT !.pc = "find", !.ticket = t, !.row = row].seen = NoItem
      BY DEF IdleReq
    <3> HIDE DEF row, Seen
    <3> QED BY <1>0, <1>a, <3>1, <3>2
  <2>2. ASSUME NEW t \in Tickets, RunTicket(x, t) PROVE Seen(r)
    <3>1. Loaded("find", t).seen = NoItem
      BY DEF Loaded, IdleReq
    <3> HIDE DEF Seen
    <3> QED BY <1>a, <2>2, <3>1 DEF RunTicket
  <2>3. ASSUME NEW t \in Tickets, NEW st \in DragStatuses, PatchTicket(x, t, st)
        PROVE  Seen(r)
    <3>1. [Loaded("patch", t) EXCEPT !.target = st].seen = NoItem
      BY DEF Loaded, IdleReq
    <3> HIDE DEF Seen
    <3> QED BY <1>a, <2>3, <3>1 DEF PatchTicket
  <2>4. CASE PatchCommit(x)
    <3> DEFINE st == req[x].target
    <3>1. [req[x] EXCEPT !.pc = "find", !.row.status = st].seen = req[x].seen
      BY <2>0 DEF Req
    <3>2. ReqBecomes(x, IF st = "ready" THEN [req[x] EXCEPT !.pc = "find", !.row.status = st]
                        ELSE IdleReq)
      BY <2>4 DEF PatchCommit
    <3> HIDE DEF Seen, st
    <3> QED BY <1>0, <1>a, <3>1, <3>2
  <2>5. CASE EnqueueFind(x)
    <3>1. ASSUME ReqBecomes(x, [req[x] EXCEPT !.pc = "enqueue"]) PROVE Seen(r)
      <4>1. [req[x] EXCEPT !.pc = "enqueue"].seen = req[x].seen
        BY <2>0 DEF Req
      <4> HIDE DEF Seen
      <4> QED BY <1>a, <3>1, <4>1
    <3>2. ASSUME NEW i \in OpenItems(req[x].ticket),
                 ReqBecomes(x, [req[x] EXCEPT !.pc = "enqueue", !.seen = i,
                                              !.seenStatus = item[i].status])
          PROVE  Seen(r)
      <4>1. [req[x] EXCEPT !.pc = "enqueue", !.seen = i, !.seenStatus = item[i].status].seen = i
        BY <2>0 DEF Req
      <4>2. i \in ItemIds /\ item[i].status \in Outstanding
        BY DEF OpenItems
      <4> HIDE DEF Seen
      <4> QED BY <1>a, <3>2, <4>1, <4>2
    <3> HIDE DEF Seen
    <3> QED BY <2>5, <3>1, <3>2 DEF EnqueueFind
  <2>6. CASE EnqueueCommit(x) \/ KillCommit(x) \/ RequestDies(x)
    <3>1. ReqBecomes(x, IdleReq)
      BY <2>6 DEF EnqueueCommit, KillCommit, RequestDies
    <3> HIDE DEF Seen
    <3> QED BY <1>0, <1>a, <3>1
  <2>7. ASSUME NEW t \in Tickets, KillTicket(x, t) PROVE Seen(r)
    <3>1. PICK i \in OpenItems(t) \cap Claimed :
            ReqBecomes(x, [IdleReq EXCEPT !.pc = "kill", !.ticket = t, !.seen = i])
      BY <2>7 DEF KillTicket
    <3>2. [IdleReq EXCEPT !.pc = "kill", !.ticket = t, !.seen = i].seen = i
      BY DEF IdleReq
    <3>3. i \in ItemIds /\ item[i].status \in Outstanding
      BY DEF OpenItems
    <3> HIDE DEF Seen
    <3> QED BY <1>a, <3>1, <3>2, <3>3
  <2> HIDE DEF Seen
  <2> QED
    BY <1>1, <2>1, <2>2, <2>3, <2>4, <2>5, <2>6, <2>7 DEF ReqStep, Call
<1>2. CASE req' = req
  BY <1>2
<1> HIDE DEF Seen
<1> QED
  BY <1>1, <1>2 DEF Next, vars, SlotStep, ClaimGate, ClaimNothing, ClaimItem, TouchHeartbeat,
     RunEnds, FinishWork, Superseded, LoseResult, LoopStep, ReapScan, ReapOne, TriageScan,
     TriageApply, TriageFails, LoopAborts, Crash, HeartbeatExpires, PutSettings

LEMMA NextClaims == ClaimInv /\ [Next]_vars => ClaimInv'
<1> SUFFICES ASSUME ClaimInv, [Next]_vars PROVE ClaimInv'
  OBVIOUS
<1> USE ConstantsAssumption
<1>0. /\ TypeInv /\ TypeInv' /\ top \in Nat
      /\ \A i \in ItemIds : i \in Nat
      /\ \A s \in Slots : Busy(s) => slot[s].item \in ItemIds
  BY NextTyped DEF ClaimInv, TypeInv, TypeOK, BusyHasRow, ItemIds
<1>1. SeenIsUsed'
  <2>1. top' \in Nat /\ top <= top'
    <3>1. CASE \E s \in Slots : ClaimItem(s)
      BY <1>0, <3>1 DEF ClaimItem
    <3>2. CASE \A s \in Slots : ~ClaimItem(s)
      BY <1>0, <3>2, QuietSteps DEF Quiet
    <3> QED BY <3>1, <3>2
  <2>2. ASSUME NEW r \in Reqs PROVE req'[r].seen <= top'
    <3>1. req[r].seen \in Nat /\ req[r].seen <= top
      BY DEF ClaimInv, SeenIsUsed, TypeInv, TypeOK, Req, ItemIds, NoItem
    <3>2. CASE req'[r].seen \in {req[r].seen, NoItem}
      BY <1>0, <2>1, <3>1, <3>2 DEF NoItem
    <3>3. CASE req'[r].seen \in ItemIds /\ item[req'[r].seen].status \in Outstanding
      <4>1. req'[r].seen <= top
        BY <3>3 DEF ClaimInv, UnusedAboveTop, Outstanding
      <4> QED BY <1>0, <2>1, <3>3, <4>1
    <3> QED BY <1>0, <3>2, <3>3, SeenEffect
  <2> QED BY <2>2 DEF SeenIsUsed
<1>2. CASE \A s \in Slots : ~ClaimItem(s)
  <2>0. Quiet
    BY <1>0, <1>2, QuietSteps
  <2>1. UnusedAboveTop'
    <3> SUFFICES ASSUME NEW i \in ItemIds, item'[i].status # "absent" PROVE i <= top'
      BY DEF UnusedAboveTop
    <3>1. RowEffect(i) /\ top' \in {top, top + 1}
      BY <2>0 DEF Quiet
    <3>2. CASE Kept(i) \/ Ended(i)
      BY <1>0, <3>1, <3>2 DEF Kept, Ended, ClaimInv, UnusedAboveTop
    <3>3. CASE Inserted(i)
      BY <1>0, <3>3 DEF Inserted
    <3>4. CASE SupersededBy(i)
      BY <1>0, <3>1, <3>4 DEF SupersededBy, ClaimInv, SeenIsUsed
    <3> QED BY <3>1, <3>2, <3>3, <3>4 DEF RowEffect
  <2>2. ASSUME NEW s \in Slots, Busy(s)'
        PROVE  /\ Busy(s) /\ slot'[s].item = slot[s].item /\ slot[s].item \in ItemIds
               /\ item'[slot[s].item].by = s[1]
               /\ item'[slot[s].item].status \notin {"queued", "absent"}
               /\ item[slot[s].item].kill => item'[slot[s].item].kill
    <3>1. Busy(s) /\ slot'[s].item = slot[s].item
      BY <2>0, <2>2 DEF Quiet, SlotEffect, Busy
    <3> DEFINE i == slot[s].item
    <3>2. i \in ItemIds
      BY <1>0, <3>1
    <3>3. /\ item[i].by = s[1] /\ item[i].status \notin {"queued", "absent"}
          /\ i <= top
      BY <3>1, <3>2 DEF ClaimInv, NoDoubleClaim, HeldIsUsed, UnusedAboveTop
    <3>4. ~Inserted(i)
      BY <1>0, <3>3 DEF Inserted
    <3>5. Kept(i) \/ Ends(i)
      BY <2>0, <3>2, <3>4 DEF Quiet, RowEffect, Ended, SupersededBy
    <3> HIDE DEF i
    <3>6. /\ item'[i].by = s[1] /\ item'[i].status \notin {"queued", "absent"}
          /\ item[i].kill => item'[i].kill
      BY <3>3, <3>5 DEF Kept, Ends, Finished
    <3> QED BY <3>1, <3>2, <3>6 DEF i
  <2>3. HeldIsUsed'
    BY <2>2 DEF HeldIsUsed
  <2>4. NoDoubleClaim'
    <3> SUFFICES ASSUME NEW s \in Slots, Busy(s)'
                 PROVE  /\ slot'[s].item \in ItemIds
                        /\ item'[slot'[s].item].by = s[1]
                        /\ item'[slot'[s].item].status # "queued"
                        /\ \A other \in Slots \ {s} :
                             Busy(other)' => slot'[other].item # slot'[s].item
      BY DEF NoDoubleClaim
    <3>1. ASSUME NEW other \in Slots \ {s}, Busy(other)'
          PROVE  slot'[other].item # slot'[s].item
      BY <2>2, <3>1 DEF ClaimInv, NoDoubleClaim
    <3> QED BY <2>2, <3>1
  <2>5. KilledWasAsked'
    <3> SUFFICES ASSUME NEW s \in Slots, Busy(s)', slot'[s].outcome = "killed"
                 PROVE  item'[slot'[s].item].kill
      BY DEF KilledWasAsked
    <3>1. item[slot[s].item].kill
      BY <2>0, <2>2 DEF Quiet, SlotEffect, Busy, KillAsked, ClaimInv, KilledWasAsked
    <3> QED BY <2>2, <3>1
  <2>6. KilledOnRequest'
    <3> SUFFICES ASSUME NEW i \in ItemIds, item'[i].status = "killed" PROVE item'[i].kill
      BY DEF KilledOnRequest
    <3>1. CASE Kept(i)
      BY <3>1 DEF Kept, ClaimInv, KilledOnRequest
    <3>2. CASE Ended(i)
      BY <3>2 DEF Ended, Ends, Busy, ClaimInv, KilledWasAsked
    <3>3. CASE Inserted(i) \/ SupersededBy(i)
      BY <3>3 DEF Inserted, SupersededBy
    <3> QED BY <2>0, <3>1, <3>2, <3>3 DEF Quiet, RowEffect
  <2> QED BY <1>0, <1>1, <2>1, <2>3, <2>4, <2>5, <2>6 DEF ClaimInv
<1>3. ASSUME NEW s \in Slots, ClaimItem(s) PROVE ClaimInv'
  <2>1. PICK i \in ItemIds :
          /\ item[i].status = "queued" /\ item'[i].status = "claimed"
          /\ item'[i].by = s[1] /\ item'[i].kill = item[i].kill
          /\ \A j \in ItemIds \ {i} : item'[j] = item[j]
          /\ slot'[s].pc = "running" /\ slot'[s].item = i /\ slot'[s].outcome = "none"
          /\ \A x \in Slots \ {s} : slot'[x] = slot[x]
          /\ top' = top /\ req' = req /\ settings' = settings
    BY <1>0, <1>3, ClaimEffect
  <2>2. \A x \in Slots \ {s} : Busy(x) => slot[x].item \in ItemIds \ {i}
    BY <1>0, <2>1 DEF ClaimInv, NoDoubleClaim
  <2>3. UnusedAboveTop'
    BY <2>1 DEF ClaimInv, UnusedAboveTop
  <2>4. HeldIsUsed'
    BY <2>1, <2>2 DEF ClaimInv, HeldIsUsed, Busy
  <2>5. NoDoubleClaim'
    BY <2>1, <2>2 DEF ClaimInv, NoDoubleClaim, Busy
  <2>6. KilledWasAsked'
    BY <2>1, <2>2 DEF ClaimInv, KilledWasAsked, Busy
  <2>7. KilledOnRequest'
    BY <2>1 DEF ClaimInv, KilledOnRequest
  <2> QED BY <1>0, <1>1, <2>3, <2>4, <2>5, <2>6, <2>7 DEF ClaimInv
<1> QED BY <1>2, <1>3

\* The inductive invariant holds of every reachable state.
LEMMA ClaimsCorrect == Spec => []ClaimInv
BY InitClaims, NextClaims, PTL DEF Spec

\* No two slots of the cluster ever work on one queue row, and the row a slot
\* works on carries its PC's name and is not up for claiming, whatever reapers
\* and re-queues did to it meanwhile.
THEOREM ClaimsAreExclusive == Spec => []NoDoubleClaim
<1>1. ClaimInv => NoDoubleClaim
  BY DEF ClaimInv
<1> QED BY <1>1, ClaimsCorrect, PTL

\* A run is recorded as killed only if its row's kill flag is up.
THEOREM KillsAreAsked == Spec => []KilledOnRequest
<1>1. ClaimInv => KilledOnRequest
  BY DEF ClaimInv
<1> QED BY <1>1, ClaimsCorrect, PTL

\* The attempt log: a row with a final status keeps it, but for a re-queue
\* that had read it as claimed.
THEOREM LogIsFinal == Spec => FinishedStaysFinished
<1> DEFINE Kept2 ==
      \A i \in ItemIds : item[i].status \in Finished =>
        \/ item'[i].status = item[i].status
        \/ /\ item'[i].status = "failed"
           /\ \E r \in Reqs : req[r].seen = i /\ req[r].seenStatus = "claimed"
<1>1. ASSUME ClaimInv, [Next]_vars PROVE Kept2
  <2> SUFFICES ASSUME NEW i \in ItemIds, item[i].status \in Finished
               PROVE  \/ item'[i].status = item[i].status
                      \/ /\ item'[i].status = "failed"
                         /\ \E r \in Reqs : req[r].seen = i /\ req[r].seenStatus = "claimed"
    OBVIOUS
  <2>0. TypeInv /\ top \in Nat /\ i <= top
    BY <1>1, ConstantsAssumption DEF ClaimInv, TypeInv, TypeOK, UnusedAboveTop, Finished
  <2>1. CASE \A s \in Slots : ~ClaimItem(s)
    <3>1. RowEffect(i)
      BY <1>1, <2>0, <2>1, QuietSteps DEF Quiet
    <3>2. ~Inserted(i) /\ ~Ended(i)
      BY <2>0 DEF Inserted, Ended, Finished
    <3> QED BY <3>1, <3>2 DEF RowEffect, Kept, SupersededBy
  <2>2. ASSUME NEW s \in Slots, ClaimItem(s) PROVE item'[i].status = item[i].status
    BY <2>0, <2>2, ClaimEffect DEF Finished
  <2> QED BY <2>1, <2>2
<1>2. ClaimInv /\ [Next]_vars => [Kept2]_vars
  BY <1>1
<1> QED
  BY <1>2, ClaimsCorrect, PTL DEF Spec, FinishedStaysFinished

\* A slot that reports on a claim it lost writes nothing at all.
THEOREM LateResultsDropped == Spec => LateResultIsDropped
<1> DEFINE Dropped ==
      \A s \in Slots :
        /\ slot[s].pc = "ended" /\ slot'[s].pc = "idle"
        /\ item[slot[s].item].status # "claimed"
        => UNCHANGED <<ticket, item, top>>
<1>1. ASSUME TypeInv, [Next]_vars PROVE Dropped
  <2> SUFFICES ASSUME NEW s \in Slots, slot[s].pc = "ended", slot'[s].pc = "idle",
                      item[slot[s].item].status # "claimed"
               PROVE  UNCHANGED <<ticket, item, top>>
    OBVIOUS
  <2>1. ASSUME NEW x \in Slots, SlotStep(x) PROVE UNCHANGED <<ticket, item, top>>
    <3>1. x = s
      <4>1. PICK pc, i, o : SlotBecomes(x, pc, i, o) \/ slot' = slot
        BY <2>1 DEF SlotStep, ClaimGate, ClaimNothing, ClaimItem, TouchHeartbeat, RunEnds,
           FinishWork, Superseded, LoseResult
      <4> QED BY <1>1, <4>1 DEF SlotBecomes, TypeInv, TypeOK
    <3>2. ~FinishWork(s)
      BY DEF FinishWork, StillHeld
    <3>3. ~ClaimItem(s) /\ ~TouchHeartbeat(s)
      BY DEF ClaimItem, TouchHeartbeat
    <3> QED
      BY <2>1, <3>1, <3>2, <3>3 DEF SlotStep, ClaimGate, ClaimNothing, RunEnds, Superseded,
         LoseResult
  <2>2. ASSUME NEW w \in Workers, Crash(w) PROVE UNCHANGED <<ticket, item, top>>
    BY <2>2 DEF Crash
  <2>3. slot' # slot
    OBVIOUS
  <2> QED
    BY <1>1, <2>1, <2>2, <2>3 DEF Next, vars, LoopStep, ReapScan, ReapOne, TriageScan,
       TriageApply, TriageFails, LoopAborts, ReqStep, Call, CreateTicket, RunTicket, PatchTicket,
       PatchCommit, EnqueueFind, EnqueueCommit, KillTicket, KillCommit, RequestDies,
       HeartbeatExpires, PutSettings
<1>2. TypeInv /\ [Next]_vars => [Dropped]_vars
  BY <1>1
<1> QED
  BY <1>2, InitTyped, NextTyped, PTL DEF Spec, LateResultIsDropped

-----------------------------------------------------------------------------
(* The cluster's gate. The slot that has passed it holds the settings row,   *)
(* alone, and until it claims or gives up nothing opens a claim or moves the *)
(* settings: the gate it read is still the gate.                             *)

LockIsGated ==
  /\ \A s \in Slots : s \in lock <=> slot[s].pc = "gated"
  /\ \A s, other \in lock : s = other

GateHolds == lock # Free => GateOpen

GateInv == TypeInv /\ LockIsGated /\ GateHolds

\* The claims are finitely many, and fewer of them keep an open gate open.
LEMMA ClaimedFinite == IsFiniteSet(Claimed)
<1>1. IsFiniteSet(ItemIds)
  BY ConstantsAssumption, FS_Interval DEF ItemIds
<1> QED BY <1>1, FS_Subset DEF Claimed

LEMMA FewerClaimsKeepGate ==
  ASSUME GateOpen, settings' = settings, Claimed' \subseteq Claimed,
         settings \in [cap : Nat, enabled : BOOLEAN, stop : BOOLEAN]
  PROVE  GateOpen'
<1>1. /\ Cardinality(Claimed') <= Cardinality(Claimed)
      /\ Cardinality(Claimed') \in Nat /\ Cardinality(Claimed) \in Nat
  BY ClaimedFinite, FS_Subset, FS_CardinalityType
<1> QED BY <1>1 DEF GateOpen, Unlimited

\* Only a claim adds to the claims in flight.
LEMMA QuietClaims ==
  ASSUME Quiet
  PROVE  Claimed' \subseteq Claimed
BY DEF Quiet, RowEffect, Kept, Inserted, Ended, SupersededBy, Ends, Claimed, Finished

LEMMA NextGate == GateInv /\ [Next]_vars => GateInv'
<1> SUFFICES ASSUME GateInv, [Next]_vars PROVE GateInv'
  OBVIOUS
<1>0. /\ TypeInv /\ TypeInv' /\ slot \in [Slots -> Slot] /\ lock \subseteq Slots
      /\ settings \in [cap : Nat, enabled : BOOLEAN, stop : BOOLEAN]
  BY NextTyped, ConstantsAssumption DEF GateInv, TypeInv, TypeOK
<1>1. CASE \E s \in Slots : ClaimGate(s)
  <2>1. PICK s \in Slots : ClaimGate(s)
    BY <1>1
  <2>2. /\ lock = Free /\ lock' = {s} /\ GateOpen
        /\ slot' = [slot EXCEPT ![s] = [pc |-> "gated", item |-> NoItem, outcome |-> "none"]]
        /\ item' = item /\ settings' = settings
    BY <2>1 DEF ClaimGate, SettingsRowFree, Free, SlotBecomes
  <2>3. LockIsGated'
    BY <1>0, <2>2 DEF GateInv, LockIsGated, Free
  <2>4. GateOpen'
    BY <2>2 DEF GateOpen, Claimed
  <2> QED BY <1>0, <2>3, <2>4 DEF GateInv, GateHolds
<1>2. CASE \E s \in Slots : ClaimNothing(s) \/ ClaimItem(s)
  <2>1. PICK s \in Slots : ClaimNothing(s) \/ ClaimItem(s)
    BY <1>2
  <2>2. PICK pc \in {"idle", "running"}, i \in ItemIds \cup {NoItem}, o \in {"none"} :
          slot' = [slot EXCEPT ![s] = [pc |-> pc, item |-> i, outcome |-> o]]
    BY <2>1 DEF ClaimNothing, ClaimItem, SlotBecomes, Eligible
  <2>3. slot[s].pc = "gated" /\ lock' = lock \ {s}
    BY <2>1 DEF ClaimNothing, ClaimItem
  <2>4. lock' = {}
    BY <1>0, <2>3 DEF GateInv, LockIsGated
  <2>5. LockIsGated'
    BY <1>0, <2>2, <2>3, <2>4 DEF GateInv, LockIsGated
  <2> QED BY <1>0, <2>4, <2>5 DEF GateInv, GateHolds, Free
<1>3. CASE \E w \in Workers : Crash(w)
  <2>1. PICK w \in Workers : Crash(w)
    BY <1>3
  <2>2. LockIsGated'
    BY <1>0, <2>1 DEF Crash, GateInv, LockIsGated, IdleSlot
  <2>3. lock' \subseteq lock /\ item' = item /\ settings' = settings
    BY <2>1 DEF Crash
  <2>4. GateHolds'
    BY <2>3 DEF GateInv, GateHolds, GateOpen, Claimed, Free
  <2> QED BY <1>0, <2>2, <2>4 DEF GateInv
<1>4. CASE /\ \A s \in Slots : ~ClaimGate(s) /\ ~ClaimNothing(s) /\ ~ClaimItem(s)
           /\ \A w \in Workers : ~Crash(w)
  <2>1. lock' = lock
    BY <1>4 DEF Next, vars, SlotStep, TouchHeartbeat, RunEnds,
     FinishWork, Superseded, LoseResult, LoopStep, ReapScan, ReapOne, TriageScan,
     TriageApply, TriageFails, LoopAborts, HeartbeatExpires, PutSettings,
     ReqStep, Call, CreateTicket, RunTicket, PatchTicket,
     PatchCommit, EnqueueFind, EnqueueCommit, KillTicket, KillCommit, RequestDies
  <2>2. \A s \in Slots : slot'[s].pc = "gated" <=> slot[s].pc = "gated"
    <3>1. ASSUME NEW s \in Slots, SlotStep(s)
          PROVE  slot' = slot \/ (slot[s].pc \in {"running", "ended"} /\
                   \E pc \in {"idle", "ended"} : \E i, o : SlotBecomes(s, pc, i, o))
      BY <1>4, <3>1 DEF SlotStep, TouchHeartbeat, RunEnds, FinishWork, Superseded, LoseResult
    <3>2. ASSUME NEW s \in Slots, SlotStep(s)
          PROVE  \A x \in Slots : slot'[x].pc = "gated" <=> slot[x].pc = "gated"
      BY <1>0, <3>1, <3>2 DEF SlotBecomes
    <3>3. CASE slot' = slot
      BY <3>3
    <3> QED
      BY <1>4, <3>2, <3>3 DEF Next, vars, LoopStep, ReapScan, ReapOne, TriageScan,
       TriageApply, TriageFails, LoopAborts, ReqStep, Call, CreateTicket, RunTicket, PatchTicket,
       PatchCommit, EnqueueFind, EnqueueCommit, KillTicket, KillCommit, RequestDies,
       HeartbeatExpires, PutSettings
  <2>3. LockIsGated'
    BY <2>1, <2>2 DEF GateInv, LockIsGated
  <2>4. lock # Free => settings' = settings
    BY <1>4 DEF Next, vars, SlotStep, TouchHeartbeat, RunEnds,
     FinishWork, Superseded, LoseResult, LoopStep, ReapScan, ReapOne, TriageScan,
     TriageApply, TriageFails, LoopAborts, HeartbeatExpires, PutSettings, SettingsRowFree,
     ReqStep, Call, CreateTicket, RunTicket, PatchTicket,
     PatchCommit, EnqueueFind, EnqueueCommit, KillTicket, KillCommit, RequestDies
  <2>5. Claimed' \subseteq Claimed
    BY <1>0, <1>4, QuietSteps, QuietClaims
  <2>6. GateHolds'
    BY <1>0, <2>1, <2>4, <2>5, FewerClaimsKeepGate DEF GateInv, GateHolds, Free
  <2> QED BY <1>0, <2>3, <2>6 DEF GateInv
<1> QED BY <1>1, <1>2, <1>3, <1>4

\* However many PCs and slots race it, and whatever the settings page does
\* between a slot's gate and its claim, no claim commits with stop-all on or
\* takes the claims in flight above an enabled cap.
THEOREM CapHolds == Spec => ClaimsRespectGate
<1> DEFINE Respected ==
      (\E i \in ItemIds : item[i].status = "queued" /\ item'[i].status = "claimed") =>
        /\ ~settings.stop
        /\ settings.enabled /\ settings.cap # Unlimited =>
             Cardinality({i \in ItemIds : item'[i].status = "claimed"}) <= settings.cap
<1>1. Init => GateInv
  <2> SUFFICES ASSUME Init PROVE GateInv
    OBVIOUS
  <2> QED BY InitTyped DEF Init, GateInv, LockIsGated, GateHolds, Free, IdleSlot
<1>2. ASSUME GateInv, [Next]_vars PROVE Respected
  <2> SUFFICES ASSUME NEW i \in ItemIds, item[i].status = "queued", item'[i].status = "claimed"
               PROVE  /\ ~settings.stop
                      /\ settings.enabled /\ settings.cap # Unlimited =>
                           Cardinality(Claimed') <= settings.cap
    BY DEF Claimed
  <2>0. /\ TypeInv /\ lock \subseteq Slots
        /\ settings \in [cap : Nat, enabled : BOOLEAN, stop : BOOLEAN]
    BY <1>2, ConstantsAssumption DEF GateInv, TypeInv, TypeOK
  <2>1. PICK s \in Slots : ClaimItem(s)
    <3>1. SUFFICES ASSUME \A s \in Slots : ~ClaimItem(s) PROVE FALSE
      OBVIOUS
    <3>2. i \in Claimed'
      BY DEF Claimed
    <3>3. i \in Claimed
      BY <1>2, <2>0, <3>1, <3>2, QuietSteps, QuietClaims
    <3> QED BY <3>3 DEF Claimed
  <2>2. GateOpen
    BY <1>2, <2>1 DEF GateInv, GateHolds, LockIsGated, ClaimItem, Free
  <2>3. Claimed' \subseteq Claimed \cup {i}
    BY <2>0, <2>1, ClaimEffect DEF Claimed
  <2>4. /\ Cardinality(Claimed') <= Cardinality(Claimed) + 1
        /\ Cardinality(Claimed') \in Nat /\ Cardinality(Claimed) \in Nat
    <3>1. /\ Cardinality(Claimed \cup {i}) = Cardinality(Claimed) + 1
          /\ IsFiniteSet(Claimed \cup {i})
      BY ClaimedFinite, FS_AddElement DEF Claimed
    <3> QED BY <2>3, <3>1, ClaimedFinite, FS_Subset, FS_CardinalityType
  <2> QED BY <2>0, <2>2, <2>4 DEF GateOpen
<1>3. GateInv /\ [Next]_vars => [Respected]_vars
  BY <1>2
<1> QED
  BY <1>1, <1>3, NextGate, PTL DEF Spec, ClaimsRespectGate
=============================================================================
