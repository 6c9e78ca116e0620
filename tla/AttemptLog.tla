----------------------------- MODULE AttemptLog -----------------------------
(***************************************************************************)
(* What work_queue promises as "the attempt log" (finish_work), with no    *)
(* thread, heartbeat or race in sight: every attempt is queued once, taken *)
(* by at most one PC, and ends with one result. Only a re-queue of its     *)
(* ticket may overrule a result, and then to failed.                       *)
(***************************************************************************)
EXTENDS Integers

CONSTANTS
  Tickets,
  Workers,
  Nobody,      \* no ticket, no PC
  MaxAttempts  \* BOUND: attempts in the log

Attempts == 1..MaxAttempts
Results  == {"done", "failed", "killed", "blocked"}

VARIABLES
  of,      \* the ticket of each attempt
  by,      \* the PC that took it
  status,  \* what has become of it
  last     \* the id of the last attempt

vars == <<of, by, status, last>>

Init ==
  /\ of = [i \in Attempts |-> Nobody]
  /\ by = [i \in Attempts |-> Nobody]
  /\ status = [i \in Attempts |-> "absent"]
  /\ last = 0

Ended(i, result) == [status EXCEPT ![i] = result]

\* The log grows at its end, with a queued attempt at ticket t; before is what
\* has become of the others.
Grows(before, t) ==
  /\ last < MaxAttempts /\ last' = last + 1
  /\ status' = [before EXCEPT ![last + 1] = "queued"]
  /\ of' = [of EXCEPT ![last + 1] = t]
  /\ UNCHANGED by

\* A ticket is delegated.
Queue(t) == Grows(status, t)

\* A PC takes an attempt that is queued.
Take(i, w) ==
  /\ status[i] = "queued"
  /\ status' = [status EXCEPT ![i] = "claimed"]
  /\ by' = [by EXCEPT ![i] = w]
  /\ UNCHANGED <<of, last>>

\* An attempt that was taken ends.
End(i, result) ==
  /\ status[i] = "claimed"
  /\ status' = Ended(i, result)
  /\ UNCHANGED <<of, by, last>>

\* It ends, or had ended, as failed, and its ticket is queued again: a retry,
\* or a re-queue that supersedes it.
Replace(i) ==
  /\ status[i] \in {"claimed"} \cup Results
  /\ Grows(Ended(i, "failed"), of[i])

Next ==
  \/ \E t \in Tickets : Queue(t)
  \/ \E i \in Attempts :
       \/ \E w \in Workers : Take(i, w)
       \/ \E result \in Results : End(i, result)
       \/ Replace(i)

Spec == Init /\ [][Next]_vars
=============================================================================
