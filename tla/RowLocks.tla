------------------------------ MODULE RowLocks ------------------------------
(***************************************************************************)
(* The row locks behind WorkQueue's atomic steps. Each of its steps is a   *)
(* Postgres transaction of several statements, and each statement waits    *)
(* for the row it writes until whoever wrote it before has committed. Here *)
(* a transaction takes its rows one by one, in the order of the code; what *)
(* it writes shows when it commits. Postgres is external: it grants a free *)
(* row, and aborts a transaction that waits for itself.                    *)
(*                                                                         *)
(* A transaction that waits for its first row holds nothing: it begins     *)
(* when it is granted it. Those of one row are one kind: a heartbeat, the  *)
(* settings page, a kill, an edit, triage, and what a run writes of its    *)
(* own ticket and row (touch_claim_heartbeat, record_session_dir).         *)
(***************************************************************************)
EXTENDS Integers, Sequences, FiniteSets

CONSTANTS
  Tickets,   \* tickets by id; a reorder writes them in that order
  PCs,       \* workers rows, and the main loops that own them
  Slots,
  PC,        \* PC[s]: the PC of slot s
  Reqs,      \* request threads of the server
  Items,     \* BOUND: work_queue rows ever inserted, by id
  Settings,  \* the cluster_settings row
  None       \* no row

ASSUME LocksAssumption ==
  /\ Tickets \subseteq Int /\ Items \subseteq Int /\ Tickets \cap Items = {}
  /\ PC \in [Slots -> PCs]
  /\ Slots \cap (PCs \cup Reqs) = {} /\ PCs \cap Reqs = {}
  /\ IsFiniteSet(Items) /\ PCs \cap (Tickets \cup Items) = {}
  /\ Settings \notin PCs \cup Tickets \cup Items
  /\ None \notin Tickets \cup Items \cup Slots \cup PCs \cup Reqs

VARIABLES
  row,      \* work_queue
  ticket,   \* tickets.status, as far as the transactions read it
  work,     \* the queue row each slot runs, if any
  txn       \* the open transactions

vars == <<row, ticket, work, txn>>
-----------------------------------------------------------------------------
Actors == Slots \cup PCs \cup Reqs
Locks  == PCs \cup Tickets \cup Items \cup {Settings}

Statuses == {"ready", "doing", "other"}
Row == [ticket : Tickets \cup {None}, status : {"none", "queued", "claimed", "closed"},
        by : Slots \cup {None}]
NoRow == [ticket |-> None, status |-> "none", by |-> None]

\* kind: the function that runs it. held: the rows it wrote. plan: the rows it
\* has yet to write, in order. item: its queue row. of: the ticket re-queued.
Kinds == {"none", "claim", "finish", "reap", "requeue", "reorder", "superseded", "single"}
Txn == [kind : Kinds, held : SUBSET Locks, plan : Seq(Locks), item : Items \cup {None},
        of : Tickets \cup {None}]
NoTxn == [kind |-> "none", held |-> {}, plan |-> <<>>, item |-> None, of |-> None]

Outstanding(t) == {i \in Items : row[i].ticket = t /\ row[i].status \in {"queued", "claimed"}}
Unused         == {i \in Items : row[i].status = "none"}
NextIds        == {i \in Unused : \A j \in Unused : i <= j}
Held(x)        == \E a \in Actors : x \in txn[a].held

\* Some tickets are ready, each with a queued row of its own.
Init ==
  /\ \E queue \in [Items -> Tickets \cup {None}] :
       /\ \A i, j \in Items : i < j =>
            (IF queue[i] = None THEN queue[j] = None ELSE queue[i] # queue[j])
       /\ row = [i \in Items |-> IF queue[i] = None THEN NoRow
                                 ELSE [NoRow EXCEPT !.ticket = queue[i], !.status = "queued"]]
       /\ ticket = [t \in Tickets |-> IF \E i \in Items : queue[i] = t THEN "ready" ELSE "other"]
  /\ work = [s \in Slots |-> None]
  /\ txn = [a \in Actors |-> NoTxn]
-----------------------------------------------------------------------------
(* Transactions begin.                                                      *)

\* It is granted its first row, or none yet.
Opens(a, t) ==
  /\ txn[a] = NoTxn
  /\ \A y \in t.held : ~Held(y)
  /\ txn' = [txn EXCEPT ![a] = t]
  /\ UNCHANGED <<row, ticket, work>>

\* It holds rows x and will write those of the plan.
Begins(a, kind, x, plan, i) ==
  Opens(a, [kind |-> kind, held |-> x, plan |-> plan, item |-> i, of |-> None])

\* BOUND: a row is left, besides those of the re-queues that are open.
RowLeft == Cardinality(Unused) > Cardinality({a \in Reqs : txn[a].kind = "requeue"})

SettingsFirst(s) == <<Settings, PC[s]>>                          \* mutant
ClaimOrder(s)    == <<PC[s], Settings>>
ClaimBegins(s) ==
  work[s] = None /\ Begins(s, "claim", {Head(ClaimOrder(s))}, Tail(ClaimOrder(s)), None)

UnguardedWrite(s) == TRUE                                        \* mutant
\* UPDATE work_queue ... WHERE id AND status='claimed' AND claimed_by: a row
\* that is not the claim any more is not written, only the workers row is.
StillHeld(s) == row[work[s]].status = "claimed" /\ row[work[s]].by = s
FinishBegins(s) ==
  LET i == work[s]
  IN  /\ i # None
      /\ IF StillHeld(s) THEN Begins(s, "finish", {i}, <<row[i].ticket, PC[s]>>, i)
                         ELSE ~Held(i) /\ Begins(s, "superseded", {PC[s]}, <<>>, i)

\* A heartbeat that is late makes any claim stale.
TicketFirst(i) == <<row[i].ticket, i>>                           \* mutant
ReapOrder(i)   == <<i, row[i].ticket>>
ReapBegins(p) ==
  \E i \in Items : /\ row[i].status = "claimed"
                  /\ Begins(p, "reap", {Head(ReapOrder(i))}, Tail(ReapOrder(i)), i)

\* enqueue_ticket looks for an outstanding row i, without a lock. The session
\* then writes by primary key: the ticket, if a column differs from what the
\* request had loaded, and the row, if it was claimed.
Writes(t, i) ==
  IF i # None /\ row[i].status = "claimed" THEN {<<t, i>>, <<i>>} ELSE {<<t>>, <<>>}
RequeueBegins(r) ==
  \E t \in Tickets, i \in Items \cup {None} :
    /\ RowLeft
    /\ IF i = None THEN Outstanding(t) = {} ELSE i \in Outstanding(t)
    /\ \E plan \in Writes(t, i) :
         Opens(r, [kind |-> "requeue", held |-> {}, plan |-> plan, item |-> i, of |-> t])

\* A reorder reads a column, then writes the tickets that moved in it, by id.
\* BOUND: two of them.
ReorderBegins(r) ==
  \E t, u \in Tickets : /\ t < u /\ ticket[t] = ticket[u]
                        /\ Begins(r, "reorder", {}, <<t, u>>, None)

\* heartbeat, _apply_triage_one; put_cluster_settings, patch_ticket, kill_ticket.
SingleBegins(a) ==
  \E x \in IF a \in PCs THEN {a} \cup Tickets
           ELSE {Settings} \cup Tickets \cup {i \in Items : row[i].status = "claimed"} :
    Begins(a, "single", {x}, <<>>, None)
-----------------------------------------------------------------------------
(* Further rows are locked.                                                 *)

Wants(a, x) == txn[a].plan # <<>> /\ Head(txn[a].plan) = x

Acquire(a) ==
  /\ txn[a].plan # <<>> /\ ~Held(Head(txn[a].plan))
  /\ txn' = [txn EXCEPT ![a].held = @ \cup {Head(txn[a].plan)}, ![a].plan = Tail(@)]
  /\ UNCHANGED <<row, ticket, work>>

\* CLAIM_SQL: FOR UPDATE SKIP LOCKED takes a queued row nobody has locked.
PickRow(s, i) ==
  /\ txn[s].kind = "claim" /\ txn[s].plan = <<>> /\ txn[s].item = None
  /\ row[i].status = "queued" /\ ~Held(i)
  /\ txn' = [txn EXCEPT ![s].item = i, ![s].held = @ \cup {i}, ![s].plan = <<row[i].ticket>>]
  /\ UNCHANGED <<row, ticket, work>>
-----------------------------------------------------------------------------
(* Transactions end.                                                        *)

\* A transaction ends where its block does (connect_db's autocommit).
Ends(a) == txn' = [txn EXCEPT ![a] = NoTxn]
Done(a, kind) == txn[a].kind = kind /\ txn[a].plan = <<>>

ClaimCommits(s) ==
  LET i == txn[s].item
  IN  /\ Done(s, "claim") /\ i # None
      /\ row' = [row EXCEPT ![i] = [@ EXCEPT !.status = "claimed", !.by = s]]
      /\ ticket' = [ticket EXCEPT ![row[i].ticket] = "doing"]
      /\ work' = [work EXCEPT ![s] = i]
      /\ Ends(s)

\* The gate is closed, or nothing was found.
ClaimsNothing(s) ==
  /\ Done(s, "claim") /\ txn[s].item = None
  /\ Ends(s)
  /\ UNCHANGED <<row, ticket, work>>

\* Row i is closed; the next row is queued for ticket t.
Closing(i)    == [row EXCEPT ![i] = [@ EXCEPT !.status = "closed", !.by = None]]
WithRow(R, t) == {[R EXCEPT ![j] = [NoRow EXCEPT !.ticket = t, !.status = "queued"]] :
                    j \in NextIds}

\* finish_work and _reap_one: the row is closed, and the ticket retried or not.
CloseCommits(a) ==
  LET i == txn[a].item  t == row[i].ticket
  IN  /\ Done(a, "finish") \/ Done(a, "reap")
      /\ \/ RowLeft /\ row' \in WithRow(Closing(i), t) /\ ticket' = [ticket EXCEPT ![t] = "ready"]
         \/ row' = Closing(i) /\ ticket' = [ticket EXCEPT ![t] = "other"]
      /\ work' = IF a \in Slots THEN [work EXCEPT ![a] = None] ELSE work
      /\ Ends(a)

\* enqueue_ticket: resynced if its row was queued, else superseded and queued.
\* Among the columns it writes of the ticket may be the status.
RequeueCommits(r) ==
  LET i == txn[r].item  t == txn[r].of
  IN  /\ Done(r, "requeue")
      /\ IF i = None THEN row' \in WithRow(row, t)
         ELSE IF i \in txn[r].held THEN row' \in WithRow(Closing(i), t)
         ELSE UNCHANGED row
      /\ \/ UNCHANGED ticket
         \/ t \in txn[r].held /\ ticket' = [ticket EXCEPT ![t] = "ready"]
      /\ Ends(r)
      /\ UNCHANGED work

\* Of the rest, only the writes of a drag to a ticket are kept here.
OtherCommits(a) ==
  /\ Done(a, "reorder") \/ Done(a, "single") \/ Done(a, "superseded")
  /\ \/ UNCHANGED ticket
     \/ \E t \in Tickets \cap txn[a].held, st \in Statuses :
          a \in Reqs /\ Done(a, "single") /\ ticket' = [ticket EXCEPT ![t] = st]
  /\ work' = IF a \in Slots THEN [work EXCEPT ![a] = None] ELSE work
  /\ Ends(a)
  /\ UNCHANGED row
-----------------------------------------------------------------------------
(* Waiting, and what Postgres does about it.                                *)

WaitsFor(a, b) == a # b /\ \E x \in txn[b].held : Wants(a, x)

\* The transactions a waits for, those that these wait for, and so on: the least
\* set that has all that a waits for, and all that its members wait for.
Behind(a) ==
  LET waits == {e \in Actors \X Actors : WaitsFor(e[1], e[2])}
      awaited == {e[2] : e \in waits}
  IN  {b \in awaited : \A D \in SUBSET awaited :
         (\A e \in waits : e[1] \in {a} \cup D => e[2] \in D) => b \in D}
Deadlocked(a) == a \in Behind(a)

\* The victim's transaction is rolled back. A slot takes the error for a
\* database out of reach: a result is dropped, its row stays claimed.
Victim(a) ==
  /\ txn[a].plan # <<>> /\ Deadlocked(a)
  /\ txn' = [txn EXCEPT ![a] = NoTxn]
  /\ work' = IF a \in Slots THEN [work EXCEPT ![a] = None] ELSE work
  /\ UNCHANGED <<row, ticket>>

BeginStep ==
  \/ \E s \in Slots : ClaimBegins(s) \/ FinishBegins(s)
  \/ \E p \in PCs : ReapBegins(p)
  \/ \E r \in Reqs : RequeueBegins(r) \/ ReorderBegins(r)
  \/ \E a \in PCs \cup Reqs : SingleBegins(a)
LockStep(a) == Acquire(a) \/ (a \in Slots /\ \E i \in Items : PickRow(a, i))
EndStep(a) ==
  \/ a \in Slots /\ (ClaimCommits(a) \/ ClaimsNothing(a))
  \/ CloseCommits(a)
  \/ a \in Reqs /\ RequeueCommits(a)
  \/ OtherCommits(a)

Next == BeginStep \/ \E a \in Actors : LockStep(a) \/ EndStep(a) \/ Victim(a)

Spec == Init /\ [][Next]_vars
-----------------------------------------------------------------------------
(* Properties.                                                              *)

TypeOK ==
  /\ row \in [Items -> Row]
  /\ ticket \in [Tickets -> Statuses]
  /\ work \in [Slots -> Items \cup {None}]
  /\ txn \in [Actors -> Txn]

\* The races that may set two transactions against each other: a re-queue that
\* holds a ticket and writes its claimed row, a reorder that holds one ticket
\* and writes another, and two outstanding rows of one ticket.
Race(D) ==
  \E a \in D :
    \/ txn[a].kind = "requeue" /\ txn[a].of \in txn[a].held /\ txn[a].plan # <<>>
    \/ txn[a].kind = "reorder" /\ Len(txn[a].plan) = 1
    \/ txn[a].item # None /\ Cardinality(Outstanding(row[txn[a].item].ticket)) > 1

\* Transactions look like one step each (WorkQueue's), taken at their commit on
\* the rows as they are then, although they lock their rows one by one, decide
\* on what they read before, and are rolled back as victims: a row is claimed
\* by one slot, and a claim is closed once, by its slot or by a reaper.
Queue == INSTANCE AtomicQueue
IsAtomicQueue == Queue!Spec

\* claim_next, finish_work, the reaper and the heartbeats of any number of slots
\* never deadlock among themselves, although claim_next locks its workers row
\* first and finish_work last: every cycle has one of the races in it.
DeadlockNeedsRace == \A a \in Actors : Deadlocked(a) => Race(Behind(a))

\* Whoever holds the cluster-wide settings row, on which all slots of all PCs
\* wait, does not wait for a workers row in turn, directly or behind others,
\* but for one of the races (claim_next: "Waiting for the hot row while already
\* holding the cluster-wide one is what escalates one slow writer into a
\* stalled cluster").
SettingsHolderIsQuick ==
  \A a \in Actors : Settings \in txn[a].held =>
    \/ Race({a} \cup Behind(a))
    \/ \A b \in {a} \cup Behind(a), p \in PCs : ~Wants(b, p)
=============================================================================
