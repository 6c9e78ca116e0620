---------------------------- MODULE WorkerProcess ----------------------------
(***************************************************************************)
(* The worker process of one enrolled PC: start-up from the saved config    *)
(* and the website's settings, the main loop, the slot threads, the stop    *)
(* event they share, and every connection they hold; beside it the server   *)
(* requests that replace or drop the PC's database login (a fresh password  *)
(* per enrolment, here a serial number) and a CLI that saves the new one.   *)
(*                                                                          *)
(* What a slot does with a ticket is in WorkQueue and AgentRun; here it     *)
(* claims one, runs it and reports.                                         *)
(***************************************************************************)
EXTENDS Integers, FiniteSets

CONSTANTS
  Reqs,       \* server threads that enrol the PC or revoke it
  MaxConc,    \* BOUND: the largest concurrency anyone asks for
  MaxKeys,    \* BOUND: passwords issued
  MaxStarts   \* BOUND: starts of the worker process

ASSUME BoundsAssumption ==
  /\ MaxConc \in Nat \ {0} /\ MaxKeys \in Nat \ {0} /\ MaxStarts \in Nat

VARIABLES
  revoked,   \* the PC's row of workers: revoked
  role,      \* the password of the PC's Postgres role, 0 when there is no role
  issued,    \* passwords issued so far
  req,       \* the server's requests
  overlapped,\* HISTORY: a request overlapped another one, or failed
  file,      \* the saved config: the password, and concurrency (0 is absent)
  main,      \* the main thread, its config in memory and its arguments
  stop,      \* stop_event
  slot,      \* the slot threads
  conn,      \* the connections of the slots
  running,   \* _RUNNING["n"]
  late,      \* HISTORY: tickets a slot claimed after stop_event was set
  starts     \* starts so far

vars == <<revoked, role, issued, req, overlapped, file, main, stop, slot, conn,
          running, late, starts>>
server  == <<revoked, role, issued, req, overlapped>>
process == <<main, stop, slot, running, late, starts>>
-----------------------------------------------------------------------------
Slots == 1..MaxConc
Keys  == 1..MaxKeys
Conc  == 0..MaxConc              \* 0: not given

\* dead: closed by the server or the network, which nobody noticed yet.
\* orphan: the session of a role that was dropped under it. It stays open, and
\* every statement is refused, which is no OperationalError.
Conn == {"none", "open", "dead", "orphan"}

Req  == [op : {"none", "enroll", "revoke"}, pc : {"kick", "role", "reply"},
         key : Keys \cup {0}]
Idle == [op |-> "none", pc |-> "kick", key |-> 0]

Config == [key : Keys, conc : Conc]

\* key, conc: the config in memory, whose concurrency is what the process runs.
Process == [pc : {"off", "settings", "up", "join"}, key : Keys, conc : Conc,
            once : BOOLEAN]

Stopped == [pc |-> "off", key |-> 1, conc |-> 0, once |-> FALSE]

SlotPc == {"off", "top", "poll", "exec", "report"}

Init ==  \* the PC has enrolled once
  /\ revoked = FALSE
  /\ role = 1 /\ issued = 1
  /\ req = [r \in Reqs |-> Idle]
  /\ overlapped = FALSE
  /\ file = [key |-> 1, conc |-> 0]
  /\ main = Stopped
  /\ stop = FALSE
  /\ slot = [s \in Slots |-> "off"]
  /\ conn = [s \in Slots |-> "none"]
  /\ running = 0
  /\ late = [s \in Slots |-> 0]
  /\ starts = 0
-----------------------------------------------------------------------------
(* The server: worker_enroll and worker_revoke. The row is changed and       *)
(* committed first; the role follows in a transaction of its own.           *)

Busy(r) == req[r].op # "none"

\* BOUND: a password is left for every enrolment under way.
Enrolling == {r \in Reqs : req[r].op = "enroll" /\ req[r].pc # "reply"}

KeepsFlag(op) == revoked \/ op = "revoke"                          \* mutant
FlagAfter(op) == op = "revoke"

\* The row commits. A flag that another request changed between this one's load
\* and its commit is left as that one wrote it; the order of the two roles'
\* transactions, below, brings flag and role apart in the same ways.
Begins(r, op) ==
  /\ ~Busy(r)
  /\ op = "enroll" => issued + Cardinality(Enrolling) < MaxKeys
  /\ revoked' = FlagAfter(op)
  /\ req' = [req EXCEPT ![r] = [op |-> op, pc |-> "kick", key |-> 0]]
  /\ overlapped' = (\E q \in Reqs : Busy(q))
  /\ UNCHANGED <<role, issued, file, conn, process>>

\* _terminate_backends: the sessions of the role as it is now.
Kicked == [c \in DOMAIN conn |-> IF conn[c] = "open" THEN "dead" ELSE conn[c]]

Kicks(r) ==
  /\ Busy(r) /\ req[r].pc = "kick"
  /\ conn' = Kicked
  /\ req' = [req EXCEPT ![r].pc = "role"]
  /\ UNCHANGED <<revoked, role, issued, overlapped, file, process>>

\* What a session keeps of a role that is dropped while it is connected.
Orphaned == [c \in DOMAIN conn |-> IF conn[c] = "open" THEN "orphan" ELSE conn[c]]

Done(r) == [req EXCEPT ![r] = Idle]

\* provision_role commits: the role is dropped and created with a new password.
Provisions(r) ==
  /\ req[r].op = "enroll" /\ req[r].pc = "role"
  /\ issued < MaxKeys
  /\ issued' = issued + 1
  /\ role' = issued + 1
  /\ conn' = Orphaned
  /\ req' = [req EXCEPT ![r].pc = "reply", ![r].key = issued + 1]
  /\ UNCHANGED <<revoked, overlapped, file, process>>

\* revoke_role commits.
DropsRole(r) ==
  /\ req[r].op = "revoke" /\ req[r].pc = "role"
  /\ role' = 0
  /\ conn' = Orphaned
  /\ req' = Done(r)
  /\ UNCHANGED <<revoked, issued, overlapped, file, process>>

\* The request dies with its server, or its role transaction fails and is
\* rolled back (a refused pg_terminate_backend fails the whole of it).
RequestFails(r) ==
  /\ Busy(r) /\ req[r].pc # "reply"
  /\ req' = Done(r)
  /\ overlapped' = TRUE
  /\ UNCHANGED <<revoked, role, issued, file, conn, process>>
-----------------------------------------------------------------------------
(* worker.py --enroll: the reply is saved as a new config, or is lost, or   *)
(* went to another PC that enrolled under the same name.                    *)

EnrollSaves(r) ==
  /\ Busy(r) /\ req[r].pc = "reply"
  /\ file' = [key |-> req[r].key, conc |-> 0]
  /\ req' = Done(r)
  /\ UNCHANGED <<revoked, role, issued, overlapped, conn, process>>

ReplyLost(r) ==
  /\ Busy(r) /\ req[r].pc = "reply"
  /\ req' = Done(r)
  /\ UNCHANGED <<revoked, role, issued, overlapped, file, conn, process>>
-----------------------------------------------------------------------------
(* The process: start-up, main loop, shutdown.                              *)

\* What connect_db returns: the role lets only its own password in.
Admitted == main.key = role

Start(once) ==
  /\ main.pc = "off"
  /\ starts < MaxStarts
  /\ main' = [pc |-> "settings", key |-> file.key, conc |-> file.conc, once |-> once]
  /\ starts' = starts + 1
  /\ UNCHANGED <<server, file, stop, slot, conn, running, late>>

\* resolve_concurrency: the flag, the website's wish, the config, 1.
Resolved(flag, desired) ==
  IF flag # 0 THEN flag
  ELSE IF desired # 0 THEN desired
  ELSE IF main.conc # 0 THEN main.conc ELSE 1

\* The website's settings, when they can be read; then the slots start. A new
\* name or limit saves the config that Start loaded.
Launch(reached, renamed, desired, flag) ==
  LET n == Resolved(flag, desired)
  IN  /\ main.pc = "settings"
      /\ reached => Admitted
      /\ ~reached => ~renamed /\ desired = 0
      /\ file' = IF renamed \/ n # main.conc THEN [key |-> main.key, conc |-> n] ELSE file
      /\ main' = [main EXCEPT !.pc = "up", !.conc = n]
      /\ stop' = FALSE
      /\ slot' = [s \in Slots |-> IF s <= n THEN "top" ELSE "off"]
      /\ running' = 0
      /\ late' = [s \in Slots |-> 0]
      /\ UNCHANGED <<server, conn, starts>>

AnyAlive == \E s \in Slots : slot[s] # "off"

SavesAtStop ==                                                     \* mutant
  /\ main.pc = "up"
  /\ main' = [main EXCEPT !.pc = "join"]
  /\ file' = [key |-> main.key, conc |-> main.conc]
  /\ stop' = TRUE
  /\ UNCHANGED <<server, slot, conn, running, late, starts>>

\* The loop ends on Ctrl+C, after one pass under --once, or without slots. What
\* a pass publishes, reaps, prunes and triages is in WorkQueue and TicketDeps.
LeavesLoop ==
  /\ main.pc = "up"
  /\ main' = [main EXCEPT !.pc = "join"]
  /\ stop' = TRUE
  /\ UNCHANGED <<server, file, slot, conn, running, late, starts>>

Exits ==
  /\ main' = Stopped
  /\ stop' = FALSE
  /\ slot' = [s \in Slots |-> "off"]
  /\ conn' = [s \in Slots |-> "none"]
  /\ running' = 0
  /\ late' = [s \in Slots |-> 0]
  /\ UNCHANGED <<server, file, starts>>

\* The slots are daemon threads: --once waits 30 seconds and leaves them.
JoinsSlots == main.pc = "join" /\ (~AnyAlive \/ main.once) /\ Exits

\* The process is killed, or an orphan session fails its start.
Crash == main.pc # "off" /\ Exits
-----------------------------------------------------------------------------
(* The slot threads.                                                        *)

SlotGoes(s, to) == slot' = [slot EXCEPT ![s] = to]
ConnIs(s, c)    == conn' = [conn EXCEPT ![s] = c]

Breaks(s, c) == SlotGoes(s, "off") /\ ConnIs(s, "none")             \* mutant

\* The end of a pass: --once breaks, stop_event.wait(poll) returns otherwise.
PassEnds(s, c) ==
  IF main.once THEN SlotGoes(s, "off") /\ ConnIs(s, "none")
               ELSE SlotGoes(s, "top") /\ ConnIs(s, c)

\* The head of the loop: while not stop_event.is_set().
Always  == TRUE                                                    \* mutant
GoesOn  == ~stop

SlotLoops(s) ==
  /\ slot[s] = "top"
  /\ IF GoesOn THEN SlotGoes(s, "poll") /\ UNCHANGED conn
               ELSE SlotGoes(s, "off") /\ ConnIs(s, "none")
  /\ UNCHANGED <<server, file, main, stop, running, late, starts>>

SlotConnects(s) ==
  /\ slot[s] = "poll" /\ conn[s] = "none" /\ Admitted
  /\ ConnIs(s, "open")
  /\ UNCHANGED <<server, file, process>>

Retries(s) ==                                                      \* mutant
  /\ slot[s] = "poll" /\ conn[s] = "none" /\ ~Admitted
  /\ PassEnds(s, "none")
  /\ UNCHANGED <<server, file, main, stop, running, late, starts>>

\* "password authentication failed": one slot stops them all, and returns.
SlotRejected(s) ==
  /\ slot[s] = "poll" /\ conn[s] = "none" /\ ~Admitted
  /\ stop' = TRUE
  /\ SlotGoes(s, "off")
  /\ UNCHANGED <<server, file, main, conn, running, late, starts>>

\* The server is out of reach, the connection turns out to be dead, or the
\* session is an orphan: the error is printed, the loop goes on.
SlotFails(s) ==
  /\ slot[s] \in {"poll", "report"}
  /\ conn[s] # "open"
  /\ PassEnds(s, IF conn[s] = "orphan" THEN "orphan" ELSE "none")
  /\ UNCHANGED <<server, file, main, stop, running, late, starts>>

FindsNothing(s) ==
  /\ slot[s] = "poll" /\ conn[s] = "open"
  /\ PassEnds(s, "open")
  /\ UNCHANGED <<server, file, main, stop, running, late, starts>>

\* claim_next returns a ticket, and the run is counted.
Claims(s) ==
  /\ slot[s] = "poll" /\ conn[s] = "open"
  /\ SlotGoes(s, "exec")
  /\ running' = running + 1
  /\ late' = [late EXCEPT ![s] = IF stop THEN late[s] + 1 ELSE late[s]]
  /\ UNCHANGED <<server, file, main, stop, conn, starts>>

EndsIfReturned(s) ==                                               \* mutant
  /\ slot[s] = "exec"
  /\ SlotGoes(s, "report")
  /\ running' \in {running - 1, running}
  /\ UNCHANGED <<server, file, main, stop, conn, late, starts>>

\* The run returns or raises; the finally clause is passed either way.
EndsRun(s) ==
  /\ slot[s] = "exec"
  /\ SlotGoes(s, "report")
  /\ running' = running - 1
  /\ UNCHANGED <<server, file, main, stop, conn, late, starts>>

\* finish_work or raise_question.
Reports(s) ==
  /\ slot[s] = "report" /\ conn[s] = "open"
  /\ PassEnds(s, "open")
  /\ UNCHANGED <<server, file, main, stop, running, late, starts>>

\* The network or the server closes a connection.
ConnDrops(s) ==
  /\ conn[s] \in {"open", "orphan"}
  /\ conn' = [conn EXCEPT ![s] = "dead"]
  /\ UNCHANGED <<server, file, process>>
-----------------------------------------------------------------------------
Request(r) ==
  \/ Kicks(r) \/ Provisions(r) \/ DropsRole(r)
  \/ EnrollSaves(r) \/ ReplyLost(r)

\* The worker's own steps, and those of a slot inside an agent's run.
SlotPasses(s) ==
  \/ SlotLoops(s) \/ SlotConnects(s) \/ SlotRejected(s) \/ SlotFails(s)
  \/ FindsNothing(s) \/ Claims(s) \/ Reports(s)
SlotStep(s) == SlotPasses(s) \/ EndsRun(s)

Next ==
  \/ \E r \in Reqs, op \in {"enroll", "revoke"} : Begins(r, op)
  \/ \E r \in Reqs : Request(r) \/ RequestFails(r)
  \/ \E once \in BOOLEAN : Start(once)
  \/ \E reached, renamed \in BOOLEAN, desired, flag \in Conc :
       Launch(reached, renamed, desired, flag)
  \/ LeavesLoop \/ JoinsSlots \/ Crash
  \/ \E s \in Slots : SlotStep(s) \/ ConnDrops(s)

Spec == Init /\ [][Next]_vars

\* The threads of the process run; nothing makes an agent's run end (AgentRun's
\* Stuck). The database is not out of reach at every single attempt to connect.
MainEnds == JoinsSlots \/ ((main.once \/ ~AnyAlive) /\ LeavesLoop)

Fairness ==
  /\ WF_vars(MainEnds)
  /\ \A s \in Slots : WF_vars(SlotPasses(s))
  /\ SF_vars(\E s \in Slots : SlotRejected(s))

FairSpec == Spec /\ Fairness
-----------------------------------------------------------------------------
(* Properties.                                                              *)

TypeOK ==
  /\ revoked \in BOOLEAN
  /\ role \in Keys \cup {0} /\ issued \in Keys
  /\ req \in [Reqs -> Req]
  /\ overlapped \in BOOLEAN
  /\ file \in Config
  /\ main \in Process
  /\ stop \in BOOLEAN
  /\ slot \in [Slots -> SlotPc]
  /\ conn \in [Slots -> Conn]
  /\ running \in Int
  /\ late \in [Slots -> Nat]
  /\ starts \in Nat
  /\ main.pc = "up" => main.conc \in Slots

Quiet == \A r \in Reqs : ~Busy(r)

\* The panel's revoked flag and the database's role are changed by two commits.
\* Requests that neither fail nor overlap leave them in agreement; so does the
\* first such request after any others.
RowAndRoleAgree == Quiet /\ ~overlapped => (revoked <=> role = 0)

\* "a slot must never die silently": while the process runs on, a slot is gone
\* only if the stop event is up, whatever errors it met.
NoSilentDeath ==
  main.pc = "up" /\ ~main.once =>
    \A s \in 1..main.conc : slot[s] = "off" => stop

\* The count behind the Workers panel is that of the slots inside a run, after
\* any sequence of claims, failures and lost connections.
RunningCountExact == running = Cardinality({s \in Slots : slot[s] = "exec"})

\* "slots will finish the ticket in hand": after the stop event is up a slot
\* takes on one more ticket at most, the one it was about to claim.
OneLateClaim == \A s \in Slots : late[s] <= 1

\* An enrolment that was saved stays saved: the config goes back to an older
\* password only through a start that had loaded it before, or when replies of
\* overlapping enrolments arrive out of order.
EnrolmentKept ==
  [][file'.key < file.key => main.pc = "settings" \/ overlapped]_vars

\* No agent's run goes on for ever.
RunsEnd == \A s \in Slots : []<>(slot[s] # "exec")

\* "Ctrl+C to stop": after that, or once every slot is gone, the process ends
\* if its runs do, though a slot may be at any point of its pass and its
\* connection may be dead.
StopEnds == RunsEnd => (main.pc = "join" ~> main.pc = "off")

\* Every slot that still runs holds a session of a dropped role, connected
\* between pg_terminate_backend and the commit of the DROP: no statement of it
\* succeeds, and nothing tells the process to stop.
Stranded == AnyAlive /\ \A s \in Slots : slot[s] # "off" => conn[s] = "orphan"

\* "one slot learning this is enough for all of them": a process whose password
\* was replaced or dropped ends if its runs do, unless all its slots are stranded.
RejectedProcessEnds ==
  RunsEnd => (main.pc = "up" /\ ~Admitted ~> main.pc = "off" \/ Stranded)
=============================================================================
