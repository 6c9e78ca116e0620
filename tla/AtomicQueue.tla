----------------------------- MODULE AtomicQueue -----------------------------
(***************************************************************************)
(* The queue as if each transaction of RowLocks were one step, taken at    *)
(* its commit, on the rows as they are then: what the code asks of its     *)
(* locks and guarded writes, and what WorkQueue's steps rest on.           *)
(***************************************************************************)
EXTENDS Integers

CONSTANTS
  Tickets,
  Slots,
  Items,  \* BOUND: work_queue rows ever inserted, by id
  None    \* no row, nobody

VARIABLES
  row,     \* work_queue
  ticket,  \* tickets.status
  work     \* the queue row each slot runs, if any

vars == <<row, ticket, work>>

NoRow == [ticket |-> None, status |-> "none", by |-> None]
Queued(t) == [NoRow EXCEPT !.ticket = t, !.status = "queued"]

Init ==
  /\ row \in [Items -> {NoRow} \cup {Queued(t) : t \in Tickets}]
  /\ ticket \in [Tickets -> {"ready", "other"}]
  /\ work = [s \in Slots |-> None]
-----------------------------------------------------------------------------
\* The rows with row i closed; those of R and another, queued for ticket t.
Closing(i)  == [row EXCEPT ![i] = [@ EXCEPT !.status = "closed", !.by = None]]
WithRow(R, t) == {[R EXCEPT ![j] = Queued(t)] : j \in {k \in Items : row[k].status = "none"}}

\* A slot that runs nothing takes a row that is queued.
Claim(s, i) ==
  /\ work[s] = None /\ row[i].status = "queued"
  /\ row' = [row EXCEPT ![i] = [@ EXCEPT !.status = "claimed", !.by = s]]
  /\ ticket' = [ticket EXCEPT ![row[i].ticket] = "doing"]
  /\ work' = [work EXCEPT ![s] = i]

\* Row i is closed if it is claimed, and its ticket retried or not.
Close(i) ==
  LET t == row[i].ticket
  IN  /\ row[i].status = "claimed"
      /\ \/ row' \in WithRow(Closing(i), t) /\ ticket' = [ticket EXCEPT ![t] = "ready"]
         \/ row' = Closing(i) /\ ticket' = [ticket EXCEPT ![t] = "other"]

\* A slot reports on the claim it has, or its result is late or lost.
Report(s) ==
  /\ work[s] # None /\ row[work[s]].by = s /\ Close(work[s])
  /\ work' = [work EXCEPT ![s] = None]
Drop(s) == work' = [work EXCEPT ![s] = None] /\ UNCHANGED <<row, ticket>>

Reap(i) == Close(i) /\ UNCHANGED work

\* Ticket t is queued anew, supersedes a row of it that was taken, or is
\* resynced, for it had a row. One that was ready may not be written.
Requeue(t) ==
  /\ \/ row' \in WithRow(row, t)
     \/ \E i \in Items : /\ row[i].ticket = t /\ row[i].status \in {"claimed", "closed"}
                         /\ row' \in WithRow(Closing(i), t)
     \/ (\E i \in Items : row[i].ticket = t) /\ UNCHANGED row
  /\ UNCHANGED ticket \/ ticket' = [ticket EXCEPT ![t] = "ready"]
  /\ UNCHANGED work

\* A drag, or a kill.
Move(t) ==
  /\ \E st \in {"ready", "doing", "other"} : ticket' = [ticket EXCEPT ![t] = st]
  /\ UNCHANGED <<row, work>>

Next ==
  \/ \E s \in Slots : Report(s) \/ Drop(s) \/ \E i \in Items : Claim(s, i)
  \/ \E i \in Items : Reap(i)
  \/ \E t \in Tickets : Requeue(t) \/ Move(t)

Spec == Init /\ [][Next]_vars
=============================================================================
