------------------------------ MODULE WorkQueue ------------------------------
(***************************************************************************)
(* The shared work queue of kanban-cloud: the tickets and work_queue       *)
(* tables, the web server's handlers that delegate tickets to agents, and  *)
(* the worker PCs' slots, stale-claim reaper and initial triage, all of    *)
(* which reach the tables directly with no dispatcher between them.        *)
(*                                                                         *)
(* One action is one database transaction, except that                     *)
(*  - a server handler reads its rows into the ORM session without locking *)
(*    them and writes later (READ COMMITTED, expire_on_commit=False), so a *)
(*    handler is one action per read and one per commit;                   *)
(*  - claim_next is split where it takes the cluster_settings row lock.    *)
(***************************************************************************)
EXTENDS Integers, FiniteSets

CONSTANTS
  Tickets,        \* the tickets that may come to exist in one cluster
  Workers,        \* the enrolled worker PCs
  Concurrency,    \* slots (threads) each PC runs, --concurrency
  Triagers,       \* the PCs whose `claude` CLI answers a triage prompt
  Reqs,           \* the server's request threads
  Kinds,          \* the calls clients make here; whether the server restarts
  NewStatuses,    \* statuses a client asks for when it creates a ticket
  DragStatuses,   \* statuses a client drags a ticket to
  Settings,       \* the cluster settings a client may save
  Claimable,      \* Claimable[w]: tickets passing target_worker and boards
  Rank,           \* Rank[t]: tickets."order", the drag rank (lower first)
  DependsOn,      \* DependsOn[t]: the tickets t waits for
  MaxAttempts,    \* MAX_ATTEMPTS
  MaxDelegations, \* BOUND: clients and triage insert rows up to this id
  MaxItems        \* BOUND: rows of work_queue, retries included

Unlimited == 0    \* a NULL concurrency_cap

ASSUME ConstantsAssumption ==
  /\ Concurrency \in Nat /\ MaxAttempts \in Nat
  /\ MaxItems \in Nat /\ MaxDelegations \in 0..MaxItems
  /\ Triagers \subseteq Workers
  /\ Settings \subseteq [cap : Nat, enabled : BOOLEAN, stop : BOOLEAN]
  /\ Settings # {}
  /\ Claimable \in [Workers -> SUBSET Tickets]
  /\ Rank \in [Tickets -> Nat]
  /\ DependsOn \in [Tickets -> SUBSET Tickets]

TicketStatuses == {"todo", "ready", "doing", "blocked", "done", "failed", "killed"}

ASSUME HandlerAssumption ==
  /\ Kinds \subseteq {"create", "run", "patch", "kill", "settings", "restart"}
  /\ NewStatuses \subseteq TicketStatuses
  /\ DragStatuses \subseteq TicketStatuses

VARIABLES
  ticket,    \* the tickets table
  item,      \* the work_queue table, by id
  top,       \* the last id work_queue handed out
  settings,  \* the cluster's row of cluster_settings
  lock,      \* the slots whose transaction holds that row FOR UPDATE
  slot,      \* the slots of every PC (run_slot)
  loop,      \* every PC's main loop: what its last scans found
  req        \* the server's requests in flight

vars == <<ticket, item, top, settings, lock, slot, loop, req>>
-----------------------------------------------------------------------------
(* Rows and process states. *)

Slots == Workers \X (1..Concurrency)
Free  == {}

ItemIds  == 1..MaxItems
NoItem   == 0
Nobody   == "nobody"
ASSUME NobodyAssumption == Nobody \notin Tickets \cup Workers

Ticket   == [status : TicketStatuses \cup {"absent"}, attempts : Nat, triaged : BOOLEAN]
NoTicket == [status |-> "absent", attempts |-> 0, triaged |-> FALSE]

\* The columns enqueue_ticket may write, as an ORM session holds them.
Row      == [status : TicketStatuses \cup {"absent"}, attempts : Nat]
RowOf(r) == [status |-> r.status, attempts |-> r.attempts]

Outstanding == {"queued", "claimed"}
Finished    == {"done", "failed", "killed", "blocked"}

\* stale: the heartbeat is older than STALE_CLAIM_SECONDS.
Item == [ticket : Tickets \cup {Nobody}, status : Outstanding \cup Finished \cup {"absent"},
         by : Workers \cup {Nobody}, kill : BOOLEAN, stale : BOOLEAN]

NoRow     == [ticket |-> Nobody, status |-> "absent", by |-> Nobody,
              kill |-> FALSE, stale |-> FALSE]
QueuedFor(t) == [NoRow EXCEPT !.ticket = t, !.status = "queued"]

\* How a run ended: pushed and unpushed are both ok = TRUE.
Outcomes == {"pushed", "unpushed", "failed", "killed", "question"}

Slot == [pc : {"idle", "gated", "running", "ended"}, item : ItemIds \cup {NoItem},
         outcome : Outcomes \cup {"none"}]
IdleSlot == [pc |-> "idle", item |-> NoItem, outcome |-> "none"]

Loop == [reap : SUBSET ItemIds, triage : SUBSET Tickets]
IdleLoop == [reap |-> {}, triage |-> {}]

\* pc: the next database call of the handler. row: the ticket as the ORM
\* session holds it. seen, seenStatus: the work item it has loaded.
Req == [pc : {"idle", "patch", "find", "enqueue", "kill"},
        ticket : Tickets \cup {Nobody}, row : Row,
        target : TicketStatuses \cup {"none"},
        seen : ItemIds \cup {NoItem}, seenStatus : Outstanding \cup {"none"}]
IdleReq == [pc |-> "idle", ticket |-> Nobody, row |-> RowOf(NoTicket), target |-> "none",
            seen |-> NoItem, seenStatus |-> "none"]
-----------------------------------------------------------------------------
(* Queries. *)

Exists(t)      == ticket[t].status # "absent"
Claimed        == {i \in ItemIds : item[i].status = "claimed"}
OpenItems(t)   == {i \in ItemIds : item[i].ticket = t /\ item[i].status \in Outstanding}
DepsMet(t)     == \A d \in DependsOn[t] : Exists(d) => ticket[d].status = "done"

\* cluster_claim_gate, evaluated with the settings row locked.
GateOpen ==
  /\ ~settings.stop
  /\ settings.enabled /\ settings.cap # Unlimited => Cardinality(Claimed) < settings.cap

\* The rows CLAIM_SQL's subquery selects from, before ORDER BY and LIMIT 1.
Eligible(w) ==
  {i \in ItemIds : /\ item[i].status = "queued"
                   /\ item[i].ticket \in Claimable[w]
                   /\ DepsMet(item[i].ticket)}

\* CLAIM_ORDER_BY: drag rank, then queue age (ids are handed out in order).
Before(i, j) ==
  LET ri == Rank[item[i].ticket]  rj == Rank[item[j].ticket]
  IN  ri < rj \/ (ri = rj /\ i < j)

\* finish_work's and raise_question's WHERE: claimed, and by this PC.
StillNamed(s) == item[slot[s].item].by = s[1]                    \* mutant
StillHeld(s) ==
  LET row == item[slot[s].item] IN row.status = "claimed" /\ row.by = s[1]

Init ==
  /\ ticket = [t \in Tickets |-> NoTicket]
  /\ item = [i \in ItemIds |-> NoRow]
  /\ top = 0
  /\ settings \in Settings
  /\ lock = Free
  /\ slot = [s \in Slots |-> IdleSlot]
  /\ loop = [w \in Workers |-> IdleLoop]
  /\ req = [r \in Reqs |-> IdleReq]
-----------------------------------------------------------------------------
(* The worker: run_slot, one claim -> run -> finish loop per slot.          *)

SlotBecomes(s, pc, i, o) ==
  slot' = [slot EXCEPT ![s] = [pc |-> pc, item |-> i, outcome |-> o]]

TicketBecomes(t, status, attempts) ==
  ticket' = [ticket EXCEPT ![t] = [@ EXCEPT !.status = status, !.attempts = attempts]]

\* FOR UPDATE on the settings row waits for the transaction that holds it.
SettingsRowNotLocked == TRUE                                     \* mutant
SettingsRowFree == lock = Free

\* claim_next as far as cluster_claim_gate: lock the settings row (waiting
\* for whoever holds it), count the claims in flight, go on while holding it.
\* A closed gate ends the transaction with nothing written.
ClaimGate(s) ==
  /\ slot[s].pc = "idle" /\ SettingsRowFree
  /\ GateOpen
  /\ lock' = lock \cup {s}
  /\ SlotBecomes(s, "gated", NoItem, "none")
  /\ UNCHANGED <<ticket, item, top, settings, loop, req>>

\* The rest of claim_next: CLAIM_SQL finds no row.
ClaimNothing(s) ==
  /\ slot[s].pc = "gated"
  /\ Eligible(s[1]) = {}
  /\ lock' = lock \ {s}
  /\ SlotBecomes(s, "idle", NoItem, "none")
  /\ UNCHANGED <<ticket, item, top, settings, loop, req>>

\* The rest of claim_next: CLAIM_SQL takes the first row, the ticket flips to
\* doing and is charged an attempt, and the executor starts.
ClaimItem(s) ==
  /\ slot[s].pc = "gated"
  /\ \E i \in Eligible(s[1]) :
       /\ \A j \in Eligible(s[1]) \ {i} : Before(i, j)
       /\ item' = [item EXCEPT ![i] = [@ EXCEPT !.status = "claimed", !.by = s[1],
                                                !.stale = FALSE]]
       /\ LET t == item[i].ticket IN TicketBecomes(t, "doing", ticket[t].attempts + 1)
       /\ SlotBecomes(s, "running", i, "none")
  /\ lock' = lock \ {s}
  /\ UNCHANGED <<top, settings, loop, req>>

\* _claim_heartbeat_loop's touch_claim_heartbeat, while the executor runs.
TouchHeartbeat(s) ==
  /\ slot[s].pc = "running"
  /\ item[slot[s].item].status = "claimed" /\ item[slot[s].item].stale
  /\ item' = [item EXCEPT ![slot[s].item].stale = FALSE]
  /\ UNCHANGED <<ticket, top, settings, lock, slot, loop, req>>

\* STALE_CLAIM_SECONDS pass with no beat: the PC died, or its connection did.
HeartbeatExpires(i) ==
  /\ item[i].status = "claimed" /\ ~item[i].stale
  /\ item' = [item EXCEPT ![i].stale = TRUE]
  /\ UNCHANGED <<ticket, top, settings, lock, slot, loop, req>>

\* kill_requested reads the flag of the row this slot claimed.
KillAskedOfTicket(s) ==                                          \* mutant
  \E i \in ItemIds : item[i].ticket = item[slot[s].item].ticket /\ item[i].kill
KillAsked(s) == item[slot[s].item].kill

\* The executor returns, or raises: by itself, at the agent timeout, or
\* because should_kill read the claim's kill flag. The branch has been pushed
\* or not by now, and the heartbeat thread is stopped. A run may also go on
\* for ever, its heartbeat with it (AgentRun's Stuck).
RunEnds(s, o) ==
  /\ slot[s].pc = "running"
  /\ o = "killed" => KillAsked(s)
  /\ SlotBecomes(s, "ended", slot[s].item, o)
  /\ UNCHANGED <<ticket, item, top, settings, lock, loop, req>>

\* Row i leaves the queue; its heartbeat is never read again.
Close(i, status) == [item EXCEPT ![i] = [@ EXCEPT !.status = status, !.stale = FALSE]]

\* attempts < MAX_ATTEMPTS, read after the row is closed.
OneMoreAttempt(t) == ticket[t].attempts <= MaxAttempts            \* mutant
HasBudget(t) == ticket[t].attempts < MaxAttempts

\* What a failed attempt and a reaped claim do to item i and its ticket:
\* requeue until MAX_ATTEMPTS, then fail the ticket.
RequeuedInPlace(i) ==                                            \* mutant
  /\ item' = [item EXCEPT ![i] = QueuedFor(item[i].ticket)]
  /\ ticket' = [ticket EXCEPT ![item[i].ticket].status = "ready"]
  /\ UNCHANGED top
ChargeFailure(i) ==
  LET t == item[i].ticket
      closed == Close(i, "failed")
  IN  IF HasBudget(t)
      THEN /\ top < MaxItems
           /\ top' = top + 1
           /\ item' = [closed EXCEPT ![top + 1] = QueuedFor(t)]
           /\ ticket' = [ticket EXCEPT ![t].status = "ready"]
      ELSE /\ item' = closed
           /\ ticket' = [ticket EXCEPT ![t].status = "failed"]
           /\ UNCHANGED top

\* finish_work's and raise_question's guarded UPDATE matches no row: the claim
\* was superseded or reaped while the agent worked, and nothing is written.
Superseded(s) ==
  /\ slot[s].pc = "ended" /\ ~StillHeld(s)
  /\ SlotBecomes(s, "idle", NoItem, "none")
  /\ UNCHANGED <<ticket, item, top, settings, lock, loop, req>>

\* The row and the ticket take these statuses together.
CloseItem(i, itemStatus, ticketStatus) ==
  /\ item' = Close(i, itemStatus)
  /\ ticket' = [ticket EXCEPT ![item[i].ticket].status = ticketStatus]
  /\ UNCHANGED top

\* finish_work, ok = TRUE: done when the branch reached origin, else blocked.
FinishOk(s) ==
  /\ slot[s].outcome \in {"pushed", "unpushed"}
  /\ CloseItem(slot[s].item, "done",
               IF slot[s].outcome = "pushed" THEN "done" ELSE "blocked")

\* GREATEST(attempts - 1, 0): attempts may have been reset under the run.
RefundUnclamped(a) == a - 1                                       \* mutant
Refund(a) == IF a > 0 THEN a - 1 ELSE 0

\* finish_work, killed: the attempt charged at claim time is refunded.
FinishKilled(s) ==
  LET i == slot[s].item  t == item[i].ticket
  IN  /\ slot[s].outcome = "killed"
      /\ item' = Close(i, "killed")
      /\ TicketBecomes(t, "killed", Refund(ticket[t].attempts))
      /\ UNCHANGED top

\* finish_work, neither ok nor killed.
FinishFailed(s) ==
  /\ slot[s].outcome = "failed"
  /\ ChargeFailure(slot[s].item)

\* raise_question: the slot is released, the ticket waits for a human.
RaiseQuestion(s) ==
  /\ slot[s].outcome = "question"
  /\ CloseItem(slot[s].item, "blocked", "blocked")

\* finish_work / raise_question of a claim this slot still holds.
FinishWork(s) ==
  /\ slot[s].pc = "ended" /\ StillHeld(s)
  /\ FinishOk(s) \/ FinishKilled(s) \/ FinishFailed(s) \/ RaiseQuestion(s)
  /\ SlotBecomes(s, "idle", NoItem, "none")
  /\ UNCHANGED <<settings, lock, loop, req>>

\* The database is unreachable when the result is recorded: run_slot's
\* OperationalError handler drops the result and the claim stays claimed.
LoseResult(s) ==
  /\ slot[s].pc = "ended"
  /\ SlotBecomes(s, "idle", NoItem, "none")
  /\ UNCHANGED <<ticket, item, top, settings, lock, loop, req>>

\* A PC dies mid-run and is started again: its slots and its main loop start
\* over, an open claim transaction rolls back, its claims stay claimed.
Crash(w) ==
  /\ \E s \in Slots : s[1] = w /\ slot[s].pc # "idle"
  /\ slot' = [s \in Slots |-> IF s[1] = w THEN IdleSlot ELSE slot[s]]
  /\ loop' = [loop EXCEPT ![w] = IdleLoop]
  /\ lock' = {s \in lock : s[1] # w}
  /\ UNCHANGED <<ticket, item, top, settings, req>>
-----------------------------------------------------------------------------
(* The worker: main's loop, one tick after another per PC. Each scan reads   *)
(* its candidates outside the transactions that act on them. A scan that     *)
(* finds nothing is the next tick's scan, so it is no step of its own.       *)

LoopIdle(w) == loop[w] = IdleLoop

\* The rows reap_stale_claims selects: any PC's, its own included.
StaleClaimsOfOthers(w) == {i \in Claimed : item[i].stale /\ item[i].by # w} \* mutant
StaleClaims(w) == {i \in Claimed : item[i].stale}

\* reap_stale_claims' scan.
ReapScan(w) ==
  LET found == StaleClaims(w)
  IN  /\ LoopIdle(w) /\ found # {}
      /\ loop' = [loop EXCEPT ![w].reap = found]
      /\ UNCHANGED <<ticket, item, top, settings, lock, slot, req>>

\* _reap_one: the UPDATE is guarded on the status alone, a row of any other
\* status is skipped.
ReapOne(w, i) ==
  /\ i \in loop[w].reap
  /\ loop' = [loop EXCEPT ![w].reap = @ \ {i}]
  /\ IF item[i].status = "claimed"
     THEN ChargeFailure(i)
     ELSE UNCHANGED <<ticket, item, top>>
  /\ UNCHANGED <<settings, lock, slot, req>>

\* status='todo' AND model IS NULL, in the scan and again in the UPDATE.
IsTodo(t) == ticket[t].status = "todo"                           \* mutant
Untriaged(t) == ticket[t].status = "todo" /\ ~ticket[t].triaged

\* triage_todo_tickets' scan.
TriageScan(w) ==
  LET found == {t \in Tickets : Untriaged(t)}
  IN  /\ LoopIdle(w) /\ found # {} /\ w \in Triagers
      /\ loop' = [loop EXCEPT ![w].triage = found]
      /\ UNCHANGED <<ticket, item, top, settings, lock, slot, req>>

\* _apply_triage_one: promote the ticket and queue it, unless it is no longer
\* an untriaged todo.
TriageApply(w, t) ==
  /\ t \in loop[w].triage
  /\ loop' = [loop EXCEPT ![w].triage = @ \ {t}]
  /\ IF Untriaged(t)
     THEN /\ top < MaxDelegations
          /\ top' = top + 1
          /\ item' = [item EXCEPT ![top + 1] = QueuedFor(t)]
          /\ ticket' = [ticket EXCEPT ![t] = [@ EXCEPT !.status = "ready", !.triaged = TRUE]]
     ELSE UNCHANGED <<ticket, item, top>>
  /\ UNCHANGED <<settings, lock, slot, req>>

\* The CLI fails or replies with something unusable: the ticket stays todo.
TriageFails(w, t) ==
  /\ t \in loop[w].triage
  /\ loop' = [loop EXCEPT ![w].triage = @ \ {t}]
  /\ UNCHANGED <<ticket, item, top, settings, lock, slot, req>>

\* A database error in the tick: main drops the rest of it.
LoopAborts(w) ==
  /\ ~LoopIdle(w)
  /\ loop' = [loop EXCEPT ![w] = IdleLoop]
  /\ UNCHANGED <<ticket, item, top, settings, lock, slot, req>>
-----------------------------------------------------------------------------
(* The server: a request thread per call in flight.                         *)

ReqBecomes(r, rec) == req' = [req EXCEPT ![r] = rec]
Loaded(pc, t) == [IdleReq EXCEPT !.pc = pc, !.ticket = t, !.row = RowOf(ticket[t])]

\* create_ticket: the row is committed, then a ready ticket is enqueued.
CreateTicket(r, t, status) ==
  LET row == [NoTicket EXCEPT !.status = status]
  IN  /\ req[r].pc = "idle" /\ ~Exists(t)
      /\ ticket' = [ticket EXCEPT ![t] = row]
      /\ ReqBecomes(r, IF status = "ready"
                       THEN [IdleReq EXCEPT !.pc = "find", !.ticket = t, !.row = RowOf(row)]
                       ELSE IdleReq)
      /\ UNCHANGED <<item, top, settings, lock, slot, loop>>

\* run_ticket: load the ticket, then enqueue it.
RunTicket(r, t) ==
  /\ req[r].pc = "idle" /\ Exists(t)
  /\ ReqBecomes(r, Loaded("find", t))
  /\ UNCHANGED <<ticket, item, top, settings, lock, slot, loop>>

\* patch_ticket with a status: load the ticket.
PatchTicket(r, t, status) ==
  /\ req[r].pc = "idle" /\ Exists(t)
  /\ ReqBecomes(r, [Loaded("patch", t) EXCEPT !.target = status])
  /\ UNCHANGED <<ticket, item, top, settings, lock, slot, loop>>

\* patch_ticket's commit. The ORM writes a column whose value differs from
\* the one it loaded, and no other. A ready ticket goes on to enqueue.
PatchCommit(r) ==
  LET t == req[r].ticket  st == req[r].target
  IN  /\ req[r].pc = "patch"
      /\ ticket' = IF req[r].row.status = st THEN ticket
                   ELSE [ticket EXCEPT ![t].status = st]
      /\ ReqBecomes(r, IF st = "ready"
                       THEN [req[r] EXCEPT !.pc = "find", !.row.status = st]
                       ELSE IdleReq)
      /\ UNCHANGED <<item, top, settings, lock, slot, loop>>

\* enqueue_ticket's SELECT: some outstanding item of the ticket, or none.
EnqueueFind(r) ==
  LET found == OpenItems(req[r].ticket)
  IN  /\ req[r].pc = "find"
      /\ \/ /\ found = {}
            /\ ReqBecomes(r, [req[r] EXCEPT !.pc = "enqueue"])
         \/ \E i \in found :
              ReqBecomes(r, [req[r] EXCEPT !.pc = "enqueue", !.seen = i,
                                           !.seenStatus = item[i].status])
      /\ UNCHANGED <<ticket, item, top, settings, lock, slot, loop>>

\* enqueue_ticket's ticket.status = ready, attempts = 0: again only the
\* columns that differ from what the session loaded.
Resync(r) ==
  LET row == req[r].row  t == req[r].ticket
  IN  TicketBecomes(t, IF row.status = "ready" THEN ticket[t].status ELSE "ready",
                       IF row.attempts = 0 THEN ticket[t].attempts ELSE 0)

\* A claimed row is superseded, by primary key.
NotSuperseded(r) == item                                         \* mutant
SupersededRow(r) ==
  IF req[r].seenStatus = "claimed" THEN Close(req[r].seen, "failed") ELSE item

\* A queued row is taken for the ticket's, and nothing is inserted.
AnyRowStands(r) == req[r].seenStatus # "none"                     \* mutant
RowStands(r) == req[r].seenStatus = "queued"

\* enqueue_ticket's commit: a queued item stands, a claimed one is superseded
\* (by primary key, whatever its status has become), a new one is inserted.
EnqueueCommit(r) ==
  /\ req[r].pc = "enqueue"
  /\ IF RowStands(r)
     THEN UNCHANGED <<item, top>>
     ELSE /\ top < MaxDelegations
          /\ top' = top + 1
          /\ item' = [SupersededRow(r) EXCEPT ![top + 1] = QueuedFor(req[r].ticket)]
  /\ Resync(r)
  /\ ReqBecomes(r, IdleReq)
  /\ UNCHANGED <<settings, lock, slot, loop>>

\* kill_ticket: load a claimed item of the ticket, if there is one.
KillTicket(r, t) ==
  /\ req[r].pc = "idle"
  /\ \E i \in OpenItems(t) \cap Claimed :
       ReqBecomes(r, [IdleReq EXCEPT !.pc = "kill", !.ticket = t, !.seen = i])
  /\ UNCHANGED <<ticket, item, top, settings, lock, slot, loop>>

\* kill_ticket's commit: raise the flag, whatever the item's status has become.
KillCommit(r) ==
  /\ req[r].pc = "kill"
  /\ item' = [item EXCEPT ![req[r].seen].kill = TRUE]
  /\ ReqBecomes(r, IdleReq)
  /\ UNCHANGED <<ticket, top, settings, lock, slot, loop>>

\* put_cluster_settings: the UPDATE waits for a claim that holds the row.
PutSettings(new) ==
  /\ SettingsRowFree /\ settings # new
  /\ settings' = new
  /\ UNCHANGED <<ticket, item, top, lock, slot, loop, req>>

\* The server restarts, or the call fails: what was committed stays.
RequestDies(r) ==
  /\ req[r].pc # "idle"
  /\ ReqBecomes(r, IdleReq)
  /\ UNCHANGED <<ticket, item, top, settings, lock, slot, loop>>
-----------------------------------------------------------------------------
SlotStep(s) ==
  \/ ClaimGate(s) \/ ClaimNothing(s) \/ ClaimItem(s) \/ TouchHeartbeat(s)
  \/ \E o \in Outcomes : RunEnds(s, o)
  \/ FinishWork(s) \/ Superseded(s) \/ LoseResult(s)

LoopStep(w) ==
  \/ ReapScan(w) \/ TriageScan(w) \/ LoopAborts(w)
  \/ \E i \in ItemIds : ReapOne(w, i)
  \/ \E t \in Tickets : TriageApply(w, t) \/ TriageFails(w, t)

\* What a client may ask for.
Call(r) ==
  \E t \in Tickets :
    \/ "create" \in Kinds /\ \E st \in NewStatuses : CreateTicket(r, t, st)
    \/ "run" \in Kinds /\ RunTicket(r, t)
    \/ "patch" \in Kinds /\ \E st \in DragStatuses : PatchTicket(r, t, st)
    \/ "kill" \in Kinds /\ KillTicket(r, t)

ReqStep(r) ==
  \/ Call(r) \/ PatchCommit(r) \/ EnqueueFind(r) \/ EnqueueCommit(r)
  \/ KillCommit(r)
  \/ "restart" \in Kinds /\ RequestDies(r)

Next ==
  \/ \E s \in Slots : SlotStep(s)
  \/ \E w \in Workers : LoopStep(w) \/ Crash(w)
  \/ \E r \in Reqs : ReqStep(r)
  \/ \E i \in ItemIds : HeartbeatExpires(i)
  \/ "settings" \in Kinds /\ \E new \in Settings : PutSettings(new)

Spec == Init /\ [][Next]_vars

Orphaned(i) == \A s \in Slots : ~(slot[s].pc = "running" /\ slot[s].item = i)

\* What the threads' scheduling gives. Slots and main loops poll for ever (weak
\* fairness). A claim transaction or a reap may be lost to a crash or a dropped
\* connection, but not every time (strong fairness). A claim no run refreshes
\* goes stale. A request that has committed its first half goes on to the
\* second. Nothing makes an executor return, a client call, a triage reply
\* arrive, or a PC crash or stay up.
Fairness ==
  /\ \A s \in Slots :
       /\ WF_vars(ClaimGate(s))
       /\ SF_vars(ClaimNothing(s) \/ ClaimItem(s))
       /\ WF_vars(FinishWork(s) \/ Superseded(s) \/ LoseResult(s))
  /\ \A w \in Workers :
       /\ WF_vars(ReapScan(w))
       /\ \A i \in ItemIds : SF_vars(ReapOne(w, i))
  /\ \A i \in ItemIds : WF_vars(Orphaned(i) /\ HeartbeatExpires(i))
  /\ \A r \in Reqs : WF_vars(EnqueueFind(r)) /\ WF_vars(EnqueueCommit(r))

FairSpec == Spec /\ Fairness
-----------------------------------------------------------------------------
(* Safety.                                                                  *)

TypeOK ==
  /\ ticket \in [Tickets -> Ticket]
  /\ item \in [ItemIds -> Item]
  /\ top \in 0..MaxItems
  /\ settings \in Settings
  /\ lock \in SUBSET Slots
  /\ slot \in [Slots -> Slot]
  /\ loop \in [Workers -> Loop]
  /\ req \in [Reqs -> Req]

Busy(s) == slot[s].pc \in {"running", "ended"}

\* "Two pollers can never double-claim" (README): no two slots, on one PC or
\* on two, ever work on one queue row, and the row a slot works on carries its
\* PC's name and never goes back to queued under it, however the claim was
\* superseded, reaped or orphaned meanwhile.
NoDoubleClaim ==
  \A s \in Slots : Busy(s) =>
    /\ slot[s].item \in ItemIds
    /\ item[slot[s].item].by = s[1]
    /\ item[slot[s].item].status # "queued"
    /\ \A other \in Slots \ {s} : Busy(other) => slot[other].item # slot[s].item

\* A run is recorded as killed only if the owner asked for it: the flag of a
\* killed row is up, although slots read it long before they write the result.
KilledOnRequest ==
  \A i \in ItemIds : item[i].status = "killed" => item[i].kill

\* cluster_claim_gate's promise across N independent PCs: no claim commits
\* while stop-all is on, and none takes the claims in flight over the cap,
\* although the gate is evaluated a step before the claim is written and other
\* slots and the settings page run in between.
ClaimsRespectGate ==
  [][(\E i \in ItemIds : item[i].status = "queued" /\ item'[i].status = "claimed") =>
       /\ ~settings.stop
       /\ settings.enabled /\ settings.cap # Unlimited =>
            Cardinality({i \in ItemIds : item'[i].status = "claimed"}) <= settings.cap]_vars

\* The attempt log: a row that left the queue never returns to it and never
\* takes another result, whichever of the slot, two reapers and a re-queue
\* came first. The one thing that may still happen to it is a re-queue that
\* read it as claimed marking it superseded.
FinishedStaysFinished ==
  [][\A i \in ItemIds : item[i].status \in Finished =>
       \/ item'[i].status = item[i].status
       \/ /\ item'[i].status = "failed"
          /\ \E r \in Reqs : req[r].seen = i /\ req[r].seenStatus = "claimed"]_vars

\* A late result is dropped whole: a slot that reports on a row it no longer
\* holds changes no ticket, no row and queues nothing.
LateResultIsDropped ==
  [][\A s \in Slots :
       /\ slot[s].pc = "ended" /\ slot'[s].pc = "idle"
       /\ item[slot[s].item].status # "claimed"
       => UNCHANGED <<ticket, item, top>>]_vars

OpenAfter(t) == {i \in ItemIds : item'[i].ticket = t /\ item'[i].status \in Outstanding}

\* Where a second outstanding row for one ticket can come from: its one
\* triage, or a re-queue whose SELECT went stale before its commit. Every retry a worker
\* queues (a failed run, a reaped claim, twice or late) replaces the row it
\* closes, and a re-queue nobody raced supersedes what it saw.
OnlyRacesDuplicate ==
  [][\A t \in Tickets :
       Cardinality(OpenAfter(t)) > 1 /\ Cardinality(OpenItems(t)) <= 1 =>
         \/ ~ticket[t].triaged /\ ticket'[t].triaged
         \/ \E r \in Reqs : /\ req[r].pc = "enqueue" /\ req[r].ticket = t
                            /\ OpenItems(t) # {req[r].seen} \ {NoItem}]_vars

\* Where a ready ticket with no row left to run can come from: a re-queue whose
\* queued row was claimed and finished before its commit, or a server that dies
\* between two commits; never a worker's write, whatever it raced.
Queueing(r, t) == req[r].ticket = t /\ req[r].pc \in {"find", "enqueue"}
Stranded(t) == /\ ticket[t].status = "ready" /\ OpenItems(t) = {}
               /\ \A r \in Reqs : ~Queueing(r, t)
OnlyRacesStrand ==
  [][\A t \in Tickets : ~Stranded(t) /\ Stranded(t)' =>
       \E r \in Reqs :
         /\ Queueing(r, t)
         /\ \/ req[r].pc = "enqueue" /\ req[r].seenStatus = "queued" /\ req[r].seen \notin OpenItems(t)
            \/ "restart" \in Kinds /\ UNCHANGED <<ticket, item>>]_vars

\* The queue's rows are an attempt log (finish_work: "that row is the attempt
\* log"): under all that races for them, every attempt is queued in order, taken
\* by one PC and ended once; a result is overruled only by a re-queue.
Log == INSTANCE AttemptLog WITH
         MaxAttempts <- MaxItems, last <- top,
         of     <- [i \in ItemIds |-> item[i].ticket],
         by     <- [i \in ItemIds |-> item[i].by],
         status <- [i \in ItemIds |-> item[i].status]
IsAttemptLog == Log!Spec

\* MAX_ATTEMPTS, with nobody re-delegating: a ticket is run at most that
\* often, by one queue row at a time, through failures, lost results, dead PCs
\* and kills; a killed attempt is not counted.
RetryBudget ==
  \A t \in Tickets :
    LET rows == {i \in ItemIds : item[i].ticket = t}
    IN  /\ ticket[t].attempts <= MaxAttempts
        /\ Cardinality(OpenItems(t)) <= 1
        /\ ticket[t].attempts = Cardinality({i \in rows : item[i].status \notin {"queued", "killed"}})
-----------------------------------------------------------------------------
(* Liveness, under Fairness.                                                *)

Settled == {"done", "blocked", "failed", "killed"}

\* A delegated ticket reaches an outcome a human can see, through dead PCs,
\* lost results and retries, and with a dead PC's claim filling the cap until
\* it is reaped; only a dependency that is not done holds it back, and an
\* executor that never returns while its heartbeat goes on.
ReadySettles ==
  (\A i \in ItemIds : []<>Orphaned(i)) =>
    \A t \in Tickets :
      ticket[t].status = "ready" /\ DepsMet(t) ~>
        ticket[t].status \in Settled \/ ~DepsMet(t)

\* A claim that no run is behind, of a dead PC or a lost result, is released,
\* and the cap it counts against given back, without anybody's help and
\* whatever other runs do. (README.md:400-404 says of such a claim that it
\* "stays `claimed` forever. Nothing times it out automatically": it was
\* written before reap_stale_claims. It holds of a run that never returns.)
ClaimsAreReleased ==
  \A i \in ItemIds :
    []<>Orphaned(i) => (item[i].status = "claimed" ~> item[i].status \in Finished)
-----------------------------------------------------------------------------
(* What the repository's documentation says and the code does not do: the    *)
(* property of a run that violates it.                                       *)

\* "Moving a ticket into ready enqueues it in work_queue" (README): once no
\* request about it is in flight, a ready ticket has a row some PC can claim
\* or is running.
ReadyIsQueued ==
  \A t \in Tickets :
    ticket[t].status = "ready" /\ (\A r \in Reqs : req[r].ticket # t) =>
      OpenItems(t) # {}
=============================================================================
