# kanban-cloud in TLA+

Specifications of [kanban-cloud](../src/README.md), their model-checking
configurations, and theorems about them with proofs the TLA+ proof system
checks. Line numbers below are those of `src/`.

kanban-cloud is a board whose tickets are worked on by coding agents. There is
no dispatcher: a web server and any number of worker PCs read and write the
same Postgres tables, and everything that has to be agreed on between them is
agreed on by a row's status, a guarded `UPDATE`, or a row lock.

## Inventory

| component | state | operations | module |
|---|---|---|---|
| work queue | `tickets`, `work_queue`, `cluster_settings`; each slot's claim; each main loop's scans; each request's ORM session | create, run now, drag, kill, settings (server); claim, heartbeat, finish, raise a question, lose a result (slot); reap, triage (main loop); crash, restart | `WorkQueue`, implements `AttemptLog` |
| agent run and chat pump | the slot thread in `ClaudeExecutor.run`, the pump and reader threads, the CLI and its pipes, `ticket_chat`, the slot's connection | launch, poll for a kill, deadline, join; poll, write, acknowledge, close; read and log a line | `AgentRun` |
| ticket dependencies | `ticket_deps`, a save's walk | replace a ticket's edges after the cycle walk, triage's edges, delete a ticket | `TicketDeps` |
| escalation and resume | `ticket_questions`, `work_queue.resume`, the ticket's session | raise and answer a question, resume the session in the next claim | `Escalation` |
| worker process | the saved config, the config in memory, slots and their connections, stop event, running count | start, launch the slots, claim/run/report passes, `--once`, Ctrl+C, rejected credentials | `WorkerProcess`; the loop's scans in `WorkQueue` |
| row locks | locks on `workers`, `cluster_settings`, `work_queue`, `tickets` | the transactions of slots, main loops and requests, row by row | `RowLocks`, implements `AtomicQueue` |
| push and commit gate | the ticket's branch here and on the remote, commit-gate verdict | `resolve_push`, `push_ticket_branch` | `Checkout` |
| board checkouts | one directory per board and PC, shared by its slots; the agent's worktrees | refresh (forced checkout, reset, clean), what the agent leaves there | `Checkout` |
| ticket log | `ticket_log` | append, tail, prune | append is a step of `AgentRun`; planned |
| ticket order | `tickets.order` | reorder | planned |
| deletion | every table with a ticket's id | delete a ticket | edges in `TicketDeps`; planned |
| enrollment and revocation | `workers.revoked`, Postgres roles and their sessions, the reply | enroll, revoke, save the reply | `WorkerProcess` |
| sign-in, profiles, import, prompt and triage parsing, schema, web client, scripts | — | — | see "What is not modelled" |

How they interact. A client's call reaches the server, which commits rows and
calls nobody. A PC has a main loop (heartbeat, reaper, triage) and N slot
threads. A slot claims a queue row, runs the agent (`AgentRun`), and writes the
outcome back, unless the row is no longer its own. The server reaches a running
agent through rows only: the kill flag, which the slot polls, and the chat
inbox, which the pump polls. The reaper of any PC takes over the claims of a PC
that died. `TicketDeps` decides which tickets wait for which; `WorkQueue` takes
that graph as the constant `DependsOn` and holds a row back until it is met.
Enrolment gives a PC the database role it does all of this with; revocation, or
another enrolment, takes the role away from the running process, whose slots
learn of it from their next connection (`WorkerProcess`). `Escalation`,
`RowLocks` and `Checkout` look closer at what `WorkQueue` does in one step: the
question and the CLI session behind a blocked ticket, the rows a transaction
locks on its way, and the directory, branch and remote behind a run's outcome.

What is hard in this code:

- a handler of the server loads rows without locking them and commits later,
  writing by primary key and only the columns that differ from what it loaded
  (`app/delegation.py:16-67`, `app/main.py:1147-1216`);
- the reaper, triage and the cycle check read in one statement and write in a
  later one (`worker.py:1548-1642`, `1677-1752`, `app/main.py:511-548`);
- a slot that lost its connection keeps working on a claim that a reaper and
  another PC have taken over meanwhile, and reports late (`worker.py:1395-1492`);
- three threads, a child process and two pipes share events and one database
  connection without a lock (`worker.py:283-615`, `1342-1392`);
- processes die between two commits, and nobody but another PC's loop notices;
- a question, its answer and the agent that gets it meet through a flag on a
  queue row and the ticket's latest session, both of which move on by themselves
  (`app/main.py:1303-1341`, `worker.py:1267-1303`);
- slots of one PC share a board's directory, which every run that starts forces
  back to the default branch (`worker.py:824-911`);
- transactions of slots, loops and requests take rows of four tables in orders
  of their own (`worker.py:1220-1340`, `1395-1492`, `1548-1642`);
- a PC's row and its database role change in two commits, while the sessions of
  the old role may live on and N slots share one stop event
  (`app/main.py:1362-1409`, `app/enrollment.py:80-117`, `worker.py:1813-1977`).

What makes each component correct is stated by the properties of the runs
below. `PROJECT.json` lists the hazards, each at its line, with the properties
that would catch it.

## WorkQueue

One action is one database transaction, with two exceptions: a server handler
is one action per read and one per commit, because it locks nothing in between;
and `claim_next` is split behind the lock of the `cluster_settings` row.

| TLA+ | code |
|---|---|
| `ticket[t]`: status, attempts, triaged | `tickets`; `triaged` is `model IS NOT NULL` |
| `item[i]`: ticket, status, by, kill, stale | `work_queue` by id; `stale` is "heartbeat older than `STALE_CLAIM_SECONDS`" |
| `settings`, `lock` | the cluster's `cluster_settings` row and who holds it `FOR UPDATE` |
| `slot[s]` | `run_slot`: idle, inside a claim transaction, executor running, outcome in hand |
| `loop[w]` | what the last reaper and triage scans of `main` found |
| `req[r]` | a request: its next database call, the ticket and the work item as its ORM session holds them |
| `ClaimGate`, `ClaimNothing`, `ClaimItem` | `claim_next` with `cluster_claim_gate` and `CLAIM_SQL` |
| `TouchHeartbeat`, `HeartbeatExpires` | `_claim_heartbeat_loop`; time passing |
| `RunEnds` | the executor returns or raises, and the branch is pushed or not |
| `FinishWork` (`FinishOk`, `FinishKilled`, `FinishFailed`, `RaiseQuestion`), `Superseded`, `LoseResult` | `finish_work`, `raise_question`, and `run_slot`'s handler of a lost connection |
| `ReapScan`, `ReapOne`; `TriageScan`, `TriageApply`, `TriageFails`; `LoopAborts` | `reap_stale_claims`, `_reap_one`; `triage_todo_tickets`, `_apply_triage_one`; a database error in a tick |
| `CreateTicket`, `RunTicket`, `PatchTicket`, `PatchCommit`, `EnqueueFind`, `EnqueueCommit`, `KillTicket`, `KillCommit`, `PutSettings` | the handlers of `app/main.py` and `enqueue_ticket` |
| `Crash`, `RequestDies` | a PC, or the server, dies and starts over |

Abstracted: time (a heartbeat is fresh or stale, a tick takes any time), prompts
and results (a run ends in one of five outcomes), drag ranks and claimability
(constants), profiles and worktree columns a claim merely copies. Where a report
or a reap compares `attempts` with the budget, its transaction reads the counter
with an unlocked `SELECT` and writes the ticket later (`worker.py:1466-1487`,
`1620-1642`); the two are one step here. Only a re-queue of the same ticket could
commit in between.

Its rows are an attempt log (`finish_work`: "that row is the attempt log").
`AttemptLog` says so with no thread, heartbeat or race in sight: every attempt is
queued once and in order, taken by at most one PC, and ends with one result; only
a re-queue of its ticket overrules a result, and then to failed. The refinement
mapping `Log` takes the columns of `item`; `IsAttemptLog` is `AttemptLog`'s
specification under it.

Runs, all of `MCWorkQueue`:

| run | question | what makes it happen |
|---|---|---|
| `queue_reapers` | do late results, reapers, a re-queue and a moving cap leave each row to one slot and each result in the log? where do second rows and stranded tickets come from? | two PCs that reap each other, one client that re-queues a ticket that is claimed, reaped or finished at any point of its request; the settings page swaps the cap for stop-all between the gate and the claim; the server restarts |
| `queue_drag` | do drags between todo and ready, kills and triage keep the rows sound, and are the rows an attempt log? | the server may restart between a request's two commits; the attempt counter is charged, reset and refunded under one another |
| `queue_live` | does every delegated ticket settle and every claim end, unless a run never does, within the retry budget? | a PC that crashes, lost results, retries, a second ticket that depends on the first, a cap of one that a dead claim fills |
| `doc_ready_is_queued` | a sentence of the docs the code does not keep | see "Findings" |

Why the bounds are enough. Tickets meet only in the claim order, the cap and
the dependencies, so one ticket serves the runs that are about none of these,
and two the others. Two PCs of one slot give every race between two slots, two reapers, and
a slot and a foreign reaper; two slots of one PC differ from them only in
sharing a name, which the proofs cover. One request thread in flight meets
workers at each of its steps. `MaxDelegations` bounds the rows that clients and
triage insert, `MaxItems` those that workers' retries add; where the two are
equal a retry can be refused by the bound only in a state whose other
behaviours have been explored with the row it replaces.

Fairness (`Fairness`, in `queue_live` only). Slots and main loops poll for ever
and a result in hand is reported: weak fairness. Nothing makes an agent's run end
(`Stuck` of `AgentRun` says which waits have no timeout), so both properties have
that as their condition: a run that goes on for ever keeps its heartbeat thread
beating, and its claim is then neither finished nor stale. A claim transaction
or a reap may be lost to a crash or a dropped connection, but not each time:
strong fairness. The heartbeat of a claim nobody runs expires. A request that
committed its first half goes on. Nothing makes a client call, a triage reply
arrive, or a PC crash or stay up.

## AgentRun

One step is what one thread does up to the next point where another thread can
make a difference. `run`, `pump` and `reader` are the three threads'
program counters with what they share (`stop_pump`, `result_seen`); `cli` is the
child with its stdin (all that was written, and how much it took) and its
stdout pipe of bounded capacity, with those who hold it open (`writers`: the CLI,
or a tool it started); `chat` is the inbox; `conn` is psycopg's
transaction nesting on the slot's connection. `claude` and psycopg are external:
the CLI reads turns, speaks, answers, starts tools, leaves at the end of its
input, hangs, drops its output or dies at any time, and a tool may outlive it; a
transaction block that is not the innermost when it exits
raises and sends nothing, as the code's own comments rely on for `BEGIN` and
`COMMIT`.

| TLA+ | code |
|---|---|
| `Launch`, `PromptSent`, `PollBegins`, `PollFinds...`, `PollAborts`, `DeadlinePasses`, `ReaderJoined`, `Return` with `ExitCode` | `ClaudeExecutor.run` with `should_kill`: start the child, write its prompt, watch it, stop it, join the reader, wait for the exit code |
| `TreeEnds`, `Windows` | `_terminate_process_tree`: `taskkill /T` takes a live CLI's tools along, `proc.kill()` does not |
| `PumpPolls`, `PumpDecides`, `PumpWrites`, `PumpAcks`, `PumpClears`, `PumpCloses` | `_chat_pump_loop` with `chat_source`, `chat_should_close`, `chat_pump`, `chat_delivered`, `chat_close` |
| `ReadLine`, `LogBegins`, `LogEnds`, `ReadEof`, `ReadFails` | `_read_stream`, `add_log_line`; the stream ends when nobody holds the pipe any more |
| `SendChat`, `AskKill` | `send_ticket_chat`, `kill_ticket` |
| `TakeTurn`, `Speak`, `Answer`, `Leave`, `Die`, `DropsOutput`, `StartsTool`, `ToolEnds` | the CLI and its tool |

A call that may block is a step nothing is obliged to take, or one that waits for
what unblocks it: the prompt's write for a CLI that reads or is gone, a chat
message's write likewise, `proc.stdout.close()` for a reader that is not inside a
read, `proc.wait()` for the CLI's end. Three of these have no timeout, and
`Stuck` names the states in which the slot thread is inside one: the prompt's
write (`worker.py:482`), before the deadline is computed; `stdout.close()` (566)
while a tool holds the pipe the reader reads; and `proc.wait()` (611) for a CLI
that closed its output and stays. `RunsReturn` promises an end to runs that do
not stay in these. `rushed` is history: a message was typed over a turn that was
still open, or whose answer had not been read.

`agent_run` checks one run with two messages, a stdout pipe of one line and one
message's worth of rewrites, on POSIX (`Windows = FALSE`), where more can be left
behind. Two messages are what order needs; one line makes
the CLI block on a full pipe. The configuration with two overlapping runs has
too many states and is left to the proofs, which cover any
number, and both systems. Fairness: the worker's threads go on, but for a write
that the CLI does not read, and the deadline passes. Nothing
makes the CLI or its tool do anything. `DeadlinePasses` is strongly fair because the slot
thread leaves the state it is enabled in every half second to poll the kill
flag. The deadline is half an hour while everything else in the loop takes
seconds: it passes while the CLI works or hangs, or once no thread of the
worker has anything left to do (`Overdue`), so that a violation of
`OnlyChatHoldsOpen` is a real hold-up and not a slow schedule.

## TicketDeps

`deps[t]` is the set of `ticket_deps` rows of t, `req[r]` a save inside
`dep_creates_cycle`'s walk (one `SELECT` per node, one action each) or between
its reads and its commit, `triage[w]` a triage prompt that is out with the
candidates read before. `ticket_deps` checks three tickets, one editor and one
triaging PC (two saves that overtake each other are covered by the theorem
`CyclesNeedRaces`, for any number of editors): three are what a cycle that no single edge shows needs, and the
walk meets triage and deletion at each of its steps. The reference definition of
a cycle is independent of the walk: `Reaches` quantifies over closed sets.
Fairness: a save that is being served goes on. Deadlock is not checked there,
since nothing is left to do once every ticket has been deleted.

## Escalation

One ticket whose agent stops to ask. `WorkQueue` has the queue these rows live
in; here its heartbeat, gate and attempt counter are abstracted, so that a claim
may be reaped at any time and a failed attempt retried or not.

| TLA+ | code |
|---|---|
| `sessions` | the ticket's CLI sessions by age, as the PC each was minted on; `tickets.session_id` is the last |
| `question[q]`: asker, at | `ticket_questions`; `at` is `answered_at`, a serial number |
| `queue[i]` with `resume`; `slot[s]` with `session`, `given` | `work_queue`; what the run was started with, and the question whose answer its prompt carries |
| `Claim` (`ClaimResume`, `ClaimFresh`), `Latest` | `claim_next`: the ticket's session and its latest answered question, or a new session |
| `RunEnds`, `Report` (`FinishOk`, `FinishFailed`, `RaiseQuestion`), `SlotDies`, `Reap` | the executor (a CLI cannot resume another PC's session), `finish_work`, `raise_question`, a crash or a lost result, `_reap_one` |
| `AnswerQuestion`, `AnswerCommit`, `EnqueueFind`, `EnqueueCommit` | `answer_question`: the unlocked read, the first commit, `enqueue_ticket`'s read and commit |
| `DragTicket`, `DragCommit`, `RequestDies` | `patch_ticket`; the server restarts between two commits |

`past` is history: which answers the claim of a resumed run was handed (`handed`),
which were
overtaken by a later session (`overtaken`), which raced with another call or a
claim or were recorded while two rows were outstanding (`raced`), which were
recorded for a ticket that was not blocked, so that nothing was queued for them
(`noted`), which the server died recording (`cut`), and the sessions that were
handed an overtaken or raced answer (`mixed`). `escalation` has two PCs of one slot, two requests and two calls,
so that two answers, or an answer and a drag, overlap in every order, and one
retry. Two calls bring three sessions and two questions, which is what a stray
answer needs. `doc_resumes_own_session` is a finding. Fairness: slots poll for
ever and report what has ended, a handler goes on after each commit; nothing
makes a run end, a client call or anything die. `AnswersAreHandedOver` needs one
slot whose runs do end. Deadlock is not checked: once the
calls are used up and the ticket has settled nothing is left to do.

## Checkout

Where the work goes: a board's directory on each PC, the refresh every run
starts with, what the agent leaves there, and the push that decides whether the
ticket is done. A branch is the set of runs whose commits it holds with the root
it forked from. Git and the agent are external: git does what its manual says,
and the agent edits, switches to its ticket's branch and commits, as its prompt
tells it to.

| TLA+ | code |
|---|---|
| `board`: own, worktrees, autoPush, gated | an explicit `--set-path` folder; the board's `use_worktrees`, `auto_push`, `commit_requirements` |
| `tree[p]`, `branch[p]`, `origin` | HEAD and uncommitted work of the directory, its local branches, the remote's |
| `Claim`, `ForceCheckout`, `ResetAndClean` | `resolve_directory`; `fetch` fails in `Fails`; a set path runs no git |
| `AgentEdits`, `AgentBranches`, `AgentCommits` | the git workflow `build_agent_prompt` asks for, with and without worktrees |
| `Push`, `NotPushed` with `Vetoed`, `Pushable` | `resolve_push`, `push_ticket_branch`: auto-push off, requirements not met or not reported, no branch, not a fast-forward, the network |
| `Reports`, `SlotDies`, `Requeue` | `finish_work`'s guard, a crash, a re-queue or reap of a claim |

`checkout` runs three runs of two tickets in two slots, which start on one PC or
on two, on four kinds of board (auto-clone with a commit gate, set folder,
worktrees with and without auto-push). Three runs are what is needed for a run
to inherit what an earlier one of another ticket left and to be re-run after;
`MaxShared` lets two of them be in one directory at a time, in any interleaving.
The proofs lift both bounds. There is no liveness here: whether agents end is what
`RunsReturn` of `AgentRun` is about.

## RowLocks

`WorkQueue` takes a transaction as one step. `RowLocks` is what makes it look
like one: each statement waits for the row it writes until whoever wrote it has
committed, in the code's order (`ClaimOrder`: the PC's row, then the settings
row, then a queue row that nobody holds, `SKIP LOCKED`, then its ticket;
`finish_work`: queue row, ticket, PC; `ReapOrder`: queue row, ticket; a re-queue: ticket, then the claimed
row, by SQLAlchemy's order of tables; the ticket only if a column differs from
what the request had loaded, `Writes`). Postgres is external: it grants a free
row and aborts a transaction that waits for itself (`Victim`), which a slot takes
for a database out of reach.

`row_locks` has a PC with two slots and its main loop, and one request, over two
tickets and three queue rows. `SettingsHolderIsQuick` is the reason the code
gives for the order of the first two locks (`worker.py:1246-1252`). Two tickets
give a reorder its two rows; a retry and a re-queue need the third queue row.
A second PC doubles the slots' rows but adds no order of locks to those that two
slots have with one PC. Liveness is left out: whether Postgres picks the same
victim each time is not the code's to say.

`AtomicQueue` is the same queue with one step per transaction, taken at its commit
on the rows as they are then: a slot that runs nothing takes a queued row; a
claim is closed once, by its slot, a reaper or a re-queue that supersedes it. `IsAtomicQueue` says that `RowLocks` implements it, although its
transactions read first, wait, and commit later, or are rolled back as victims:
this is what entitles `WorkQueue` to take a claim, a result and a reap as one step
each. A re-queue still acts on the row it read before it had a lock, in `AtomicQueue`
as in `WorkQueue`; only the row must have been there.

## WorkerProcess

One PC. A password is a serial number: `role` is the one the database takes,
`file.key` the saved one, `main.key` the one the process loaded. `conn[s]` is
what a slot's connection really is, which the slot finds out at its next
statement: `dead` raises an `OperationalError`, `orphan` (a session of a role
that was dropped under it, opened after the kick and before the drop's commit)
refuses every statement with an error that is none.

| TLA+ | code |
|---|---|
| `Begins`, `Kicks`, `Provisions`, `DropsRole`, `RequestFails` | `worker_enroll`, `worker_revoke`: the row's commit, `_terminate_backends`, the commit of `provision_role` or `revoke_role` |
| `EnrollSaves`, `ReplyLost` | `worker.py --enroll`: the reply is saved as a new config, or is not |
| `Start`, `Launch` with `Resolved` | `main` up to the slots: load the config, ask for the settings, `resolve_concurrency`, save what changed |
| `LeavesLoop`, `JoinsSlots`, `Crash` | the end of the main loop, the joins, the end of the process |
| `SlotLoops`, `SlotConnects`, `SlotRejected`, `SlotFails`, `FindsNothing`, `Claims`, `EndsRun`, `Reports`, `PassEnds` | `run_slot`'s loop, its `except` clauses and its end |
| `ConnDrops` | the network, or the server |

`worker_process` checks one process with up to two slots, two requests, two
passwords and one start. Two slots are what "one slot stops them all" needs; two
requests overlap in every order, and with the second password an older reply
can arrive last; one start is enough since a process keeps nothing of the one
before it but the file, which the enrolments change as a start would. The
counters `overlapped` and `late` are history variables of the properties.
Fairness: slots and the main thread go on, and the main loop ends when its slots are gone or under `--once`.
`SlotRejected` is strongly fair: an attempt to connect may fail because the
server is out of reach, but not every attempt for ever. Nothing makes a slot
connect, an agent's run end, a request go on, or a user press Ctrl+C. `StopEnds`
and `RejectedProcessEnds` have `RunsEnd` as their condition: no run goes on for
ever, as one that is `Stuck` in `AgentRun` may.

## What the runs show

Everything in "properties" of the passing runs holds. The most telling ones:

- `RetryBudget`, `OnlyRacesDuplicate`: a worker's retry, twice reaped or late,
  never adds a second outstanding row; only a re-queue whose read went stale,
  or a ticket's first triage after it was dragged back to todo, does.
- `OnlyRacesStrand`: a ready ticket loses its last row without settling only to a
  re-queue whose queued row was claimed and finished before its commit, or to a
  server that dies between two commits; never to a worker's write.
- `LateResultIsDropped`, `NoDoubleClaim`, `IsAttemptLog`: the guarded `UPDATE` of
  `finish_work` is what keeps late results out and the queue's rows an attempt
  log; without its status check the first and the last fail.
- `ClaimsRespectGate`: the cap and stop-all hold because the gate's row lock is
  kept up to the claim's commit.
- `ReadySettles`, `ClaimsAreReleased`: a dead PC's claim is reaped and its ticket
  retried or failed; a PC must reap its own claims too. A claim whose run never
  returns is not stale, and stays.
- `DeliveredWasWritten`, `TypedOrder`: a chat message leaves the inbox only when
  an agent was handed it, and none overtakes an older one.
- `OnlyAbortLeavesAgent`, `RunsReturn`: a run leaves no CLI behind, whatever ended
  it, but for one exception path (on POSIX a tool of the CLI may outlive it); and
  it gives its slot back, unless it stays in one of three waits that have no
  timeout.
- `OnlyChatHoldsOpen`, `ClosesWhenAnswered`: the pump lets a finished agent go and
  keeps the input of a working one. A finished agent that nobody chatted with is
  never held open to its deadline; an agent with a turn still to answer loses its
  input only after a message was typed over an open turn.
- `BlockedHasReason`, `AnswersAreHandedOver`: a blocked ticket has something a human
  can act on, and an answer to a blocked ticket is handed to a claim that resumes,
  unless the server dies between the commit of the answer and the re-queue: the retried call
  gets a 409 and the ticket stays blocked with nothing left to answer. Of two
  answers given at once only the later is handed over, and an answer whose
  re-queue found a queued row that was claimed before its commit leaves the ticket
  ready with no row, as `WorkQueue`'s `Stranded` says of every re-queue. The promise
  ends at the claim: one on a PC without the session, or one that dies, has used
  the answer up, since the row of the retry does not resume.
- `StrayAnswersWereOvertaken`, `OneAgentPerSession`: an answer reaches the session
  that asked, and a session has one agent at a time, as long as answers do not
  race; `past` names the races that break it. The second is no consequence of the
  queue's one outstanding row: a superseded run keeps its CLI going, and only the
  fact that a retry or a re-queue never resumes keeps it alone in its session.
- `PushedStays`, `OnlyOwnWork`, `OnlyVettedWork`, `WorkSurvives`: a run that fails,
  dies, is refused or re-queued never costs or leaks another run's work. Slots
  that share an auto-clone without worktrees do (`company`): the second forces
  and cleans the directory under the first. The code's comments say the
  directory is "exclusively owned by this feature's auto-clone" so that
  "forcing past local changes here is safe" (`worker.py:897-899`), and that
  "slots share nothing but the config dict (read-only) and the stop event"
  (`worker.py:1816`); the properties state exactly what is left of that with a
  concurrency of two or more. In a set folder nothing is refreshed, so a new
  branch forks from whatever branch the last ticket left there: `OnlyOwnWork`
  does not speak of those.
- `IsAtomicQueue`: locks taken row by row, and the guards on `status` and
  `claimed_by`, make each transaction look like one step. Without the guard of
  `finish_work` a late result closes a row that a reaper closed and retried.
- `DeadlockNeedsRace`, `SettingsHolderIsQuick`: `claim_next` locks its PC's row
  first and `finish_work` last, and yet slots, reapers and heartbeats never
  deadlock among themselves: a ticket with one outstanding row is written by one
  of them at a time. A re-queue of a running ticket, a reorder, or two
  outstanding rows of a ticket can set two transactions against each other.
- `CycleNeedsRace`, `RefusesOnlyCycles`, `SaveIsWhole`, `WalkEnds`: the cycle
  check is right when nothing overtakes it, and ends even on a cyclic graph. A
  save that passes it may still fail at its commit: one that keeps a dependency
  inserts the pair before it deletes the old one.
- `NoSilentDeath`, `StopEnds`, `RejectedProcessEnds`: no error ends a slot but a
  rejected login, and that one ends the process, wherever its slots are, once
  their runs have ended. The
  exception is in the property: slots that all hold an orphaned session
  (`Stranded` of `WorkerProcess`) fail for ever without being told to stop.
- `RowAndRoleAgree`, `EnrolmentKept`: the revoked flag and the role can only
  part when two requests overlap or one fails, and a lost enrolment goes back to
  a start that had loaded the older config.

Each property has a mutated definition of the code in the modules (marked
`mutant`) under which it fails: a dropped guard, a missing lock, an off-by-one,
a swapped order.

### Findings

| run | the code | what the repository says |
|---|---|---|
| `doc_nothing_left_open` | The slot thread's kill poll and the reader's log line use one connection without a lock. When their transaction blocks overlap and exit in the order they entered, neither commits, the poll's exception aborts the run, and the connection stays in a transaction (`worker.py:1365`). | autocommit makes the connection "safe to share" because a block "issues a real BEGIN/COMMIT rather than a savepoint" (`worker.py:1072-1077`) |
| `doc_ready_is_queued` | Run now finds a queued row, which is claimed and finished before the request commits: the ticket is ready and nothing is queued (`app/delegation.py:41`). | "Moving a ticket into ready enqueues it in work_queue" (`README.md:86-87`) |
| `doc_resumes_own_session` | Any PC may claim the row that resumes, and is handed a session whose transcript is on the PC that asked; its CLI fails, and the retry starts afresh without the answer (`worker.py:1294`). | "an unblocked ticket continues its own agent session" (`STATUS.md:215`) |

More, visible in the models without a run of their own:

- `README.md:400-404` still says "No stale-claim reaper: if a worker dies mid-ticket,
  the `work_queue` row stays `claimed` forever. Nothing times it out
  automatically". The code has one (`worker.py:1548-1642`; `STATUS.md:809` calls the
  point resolved), and `ClaimsAreReleased` holds: the document is out of date.
- A heartbeat between the reaper's scan and its update does not save a live claim,
  although the reaper "re-reads the row before touching it"
  (`worker.py:1542-1543` and `1610`; `ReapOne` of `WorkQueue` looks at the status
  only).
- The pump clears `result_seen` after it has acknowledged a message, so that an
  answer read in between is forgotten and the finished run is held open until the
  deadline (`worker.py:364`; `PumpClears` of `AgentRun`).
- "Sending a message clears it, so the close decision re-arms on the result of
  the turn that message triggered rather than an earlier one" (`worker.py:340-342`)
  holds only if the earlier turn's result has been read by then: a message typed
  over an open turn is cut off from its answer by that turn's result (`rushed` in
  `ClosesWhenAnswered`).
- `_terminate_process_tree` is to "kill the CLI and any child processes it spawned"
  (`worker.py:167-169`); on POSIX it kills the CLI alone (175). A background tool
  that holds the pipe makes a finished run wait for its deadline, since the
  reader sees no end of the stream, and then blocks `stdout.close()` (566).
- The prompt's write (`worker.py:482`) and the last `proc.wait()` (611) are outside the
  deadline: a CLI that never reads a prompt larger than the pipe, or that closes
  its output and stays, keeps its slot (`Stuck` of `AgentRun`).

## What is proved

The theorems hold for every value of the constants that satisfies the named
assumptions of the modules: `ConstantsAssumption` and `HandlerAssumption` of
`WorkQueue` (numbers are numbers, a PC's claimable tickets are tickets) and its
`NobodyAssumption` (the value for "no ticket, no PC" is neither),
`EscalationAssumption` and `CheckoutAssumption` (a slot is on a PC, a ticket's
branch is not the default branch, bounds are numbers), and `BoundsAssumption` of
`AgentRun` and of `WorkerProcess`, and `LocksAssumption` of `RowLocks` (a row is of
one table, ids are numbers, a slot is on a PC, finitely many queue rows).
`TicketDeps` assumes nothing, not even that
there are finitely many tickets; `Checkout` and `Escalation` hold for any number
of slots, PCs, tickets and runs, `RowLocks` for any number of actors and tickets.

`WorkQueueProofs`

- `TypeInv` is `TypeOK` with "a PATCH in flight names a status" and "a slot with
  a claim in hand has a row". `TypeCorrect` follows.
- `ClaimInv` strengthens `NoDoubleClaim` and `KilledOnRequest`, which are not
  inductive by themselves: a fresh row must not land on one in use, so ids above
  `top` are unused and no request has seen one (`UnusedAboveTop`, `SeenIsUsed`,
  `HeldIsUsed`), and a kill a slot has seen must still be on its row when the
  result is written (`KilledWasAsked`). The lemma the case split rests on is
  `QuietSteps`: a step that is no claim does to each row one of four things
  (keeps it, inserts it, ends it, supersedes it) and takes no row into a slot's
  hands. `ClaimsAreExclusive`, `KillsAreAsked`, `LogIsFinal` and
  `LateResultsDropped` follow.
- `GateInv`: a slot inside its claim transaction is the only one, and the gate
  it found open stays open, because nobody else can claim or change the
  settings (`GateHolds`) and claims only get fewer. `CapHolds` follows with the
  cardinality of a set and one more element.

`QueueHistoryProofs`

- `QueueImplementsLog`: `WorkQueue` implements `AttemptLog`. `InitLogged` maps the
  initial states, `NextLogged` every step to a step or a stutter, action by
  action. The invariant it needs, `LogInv`, adds to `ClaimInv` that a row that is
  not there yet names no PC, and that a re-queue about to commit holds a row of
  its own ticket that was taken, whatever became of it since
  (`RequeueKnowsRow`): without it a superseding re-queue could be no `Replace`.
- `StepEffects` sums up what any step does to the columns the properties read (a
  claim, a result, a retry, a triage, a re-queue's commit), so that each theorem
  splits on five effects instead of on every action.
- `DuplicatesNeedRaces` counts the outstanding rows of a ticket through each
  effect with two facts on cardinalities (`AtMostOne`, `SmallSubset`): a retry
  closes the row it replaces, and a re-queue nobody raced supersedes the one row
  there is. `StrandingNeedsRaces` follows the last outstanding row instead.
- `BudgetHolds`: `RetryBudget` is no property of every client, so the theorem
  assumes one that never re-delegates and PCs that do not triage
  (`NobodyRedelegates`). `BudgetInv` counts (`Fits`): the attempts charged to a
  ticket are its rows that were claimed and not killed, it has one outstanding
  row at most, and a queued one only below the budget; a request in flight is
  its ticket's first.

`EscalationProofs`

- `ReasonInv`: what a request and a slot know stays true of the question and row
  they hold (`ReqKnows`, `SlotKnows`), and a blocked ticket is explained by an
  open question, a row, an answer in flight or a cut one (`Explained`).
  `BlockedIsExplained` follows. That the latest answered question exists is the
  least element of a set of numbers (`LatestIsAnswered`).
- `SessionInv` adds what keeps a session alone and its answer its own. A question
  that was not handed over and that an older session asked is overtaken
  (`Behind`); a session that waits for a clean answer has no agent and asked one
  question (`Alone`); whatever overlaps an answer in flight, or is no older than
  it, was raced (`AnswersRace`); and a row that resumes finds an answer no run was
  handed, a second one a raced answer (`RowsFindAnswers`). The steps are first
  reduced to five effects (`Quiet`, `Asks`, `Hands`, `Starts`, `Beside`).
  `AnswersReachTheirAsker` and `SessionsAreUnshared` follow.

`CheckoutProofs`

- `Effects` says, for one branch, tree or run at a time, what any step may do to
  it; the invariants are proved from that instead of from the actions.
- `CompanyInv`: who is in a directory with whom is recorded (`CompanyKnown`), a
  run is in one slot, and nothing holds commits of runs that have not started.
  `PlaceInv`: until a neighbour interferes, what a run committed is on its
  ticket's branch (`CommitKept`), and worktrees leave the directory alone.
  `PushedForGood` follows, and with "a branch gathers only older runs"
  (`OnlyOlder`) `VettedOnly`.
- `TidyInv`: a directory is fresh after its refresh whatever was left in it
  (`FreshStart`), HEAD is a ticket's only while its run is there (`WhoseHead`),
  so a branch carries its own ticket's runs (`OwnBranches`). `OwnWorkOnly`
  follows.
- `WorkInv` says whose uncommitted work a directory can hold, for `WorkIsSafe`: a
  refresh is the one step that takes anything, and what it takes from a run at
  work or from a run that committed was shared.

`TicketDepsProofs`

- `DepsInv`: an edge joins two different tickets that exist, and what a save
  knows of the graph (`Walks`): unless overtaken, everything the walk has seen
  leads to nothing but what it has seen or has on its stack, and the ticket is
  not among it. `TypeCorrect` (`TypeOK` is in no run, since it follows for any
  number of tickets) and `SavesAreWhole` follow.
- `CyclesNeedRaces` (soundness of the walk): with an empty stack the seen set is
  closed under the edges and does not hold the ticket, so that the ticket's new
  edges close no cycle. The argument takes any closed set of the old graph to
  one of the new (`SoundWalk`); there is no induction over paths.
- `OnlyCyclesRefused` (completeness): every node on the stack is in every closed
  set that contains the new dependencies.

`AgentRunProofs`

- `AgentInv`: the connection's depth is the number of threads inside a block
  (`DepthCounts`), and the phases of a run's processes fit together
  (`LifeCycle`). `TypeCorrect` (`TypeOK` is in no run, since it follows for any
  number of runs) and `AbortsLeaveAgents` follow.
- `InboxInv`: ids are handed out in order, and for each pump (`Holds`): what it
  counts as sent was written, and whatever is older than a message it has still
  to type is typed first or was handed to someone. `DeliveriesWereWritten` and
  `TypedInOrder` follow, for any number of overlapping runs.
- `HoldInv`: the pump forgets a result only after it typed a message, so an agent
  that answered its prompt and was typed nothing else has its result line in the
  pipe, or seen, and the pump lets go of its stdin (`LetsGo`).
  `FinishedAgentsAreLetGo` follows.
- `TurnInv`: unless a message was typed over an open turn, at most one turn is
  unread, and while a turn is open there is no result in the pipe and none the pump
  counts on (`OneTurn`): a pump that decides to close finds its agent done, or
  gone. `OpenTurnsKeepInput` follows.

`RowLocksProofs`

- `LockInv` is what a deadlock argument usually takes for granted: a row has one
  holder (`Exclusive`), and an open transaction of each kind is at one of the
  points of its lock order, with the row it read as it was (`Shape`: `ClaimShape`,
  `FinishShape`, `ReapShape`, ...). That other transactions do not move the row
  from under it is the lemma `OthersKeepShape`: a step of another changes only rows
  that other holds, or inserts one. `TypeCorrect` follows, and
  `CommitsWriteWhatTheyRead`: a claim, a result and a reap find their row at the
  commit as they found it at their first lock.
- A transaction is ranked by the row it waits for: a ticket, the settings, a PC's
  row, or its first row. But for the races it waits only for lower ranks
  (`WaitsDown`), directly or behind others (`BehindRanksLower`). `DeadlocksNeedRaces`,
  `SettingsHeldBriefly` and `WaitsEndSomewhere` (somebody in a queue of waiting
  transactions always finds his next row free) follow. `Behind` is the least set closed
  under waiting instead of a chain of waiting transactions, so that no proof
  needs an induction over chains. That a ticket's two holders are a race is
  counted with cardinalities (`TwoRows`).
- `LocksMakeStepsAtomic`: `RowLocks` implements `AtomicQueue`. `LockInv` turns a
  commit into the step (`ClaimIsAtomic`, `CloseIsAtomic`, `RequeueIsAtomic`,
  `OtherIsAtomic`); what a re-queue holds of its ticket and row is in `RequeueShape`,
  whether it writes the ticket or not; beginning, locking and most rollbacks are stutters, and the
  rollback of a slot is a `Drop`.

`WorkerProcessProofs`

- `ServerInv` strengthens `RowAndRoleAgree`: while nothing overlapped, one
  request at most is under way, flag and role are those of the last one or the
  flag is ahead, and the password of a reply under way is newer than what file
  and process hold (`Undisturbed`). `TypeCorrect`, `FlagMatchesRole` and
  `EnrolmentsKept` follow.
- `SlotEffect` says what any step of a slot may change. With it `NoSilentDeath`
  and `RunningCountExact` are inductive by themselves (`SlotsLiveOn`,
  `CountIsExact`, the latter with the cardinality of a set and one element more
  or less), and `LateInv` (no claim is late before the stop event, or in a slot
  that is about to claim) gives `OneClaimAfterStop`.

Every safety and action property of the passing runs, and both refinements, are
proved. Only model-checked is what holds under fairness (`ReadySettles`,
`ClaimsAreReleased`, `RunsReturn`, `AnswersAreHandedOver`, `WalkEnds`, `StopEnds`,
`RejectedProcessEnds`), since TLAPS does not reason about `ENABLED`.

## What is not modelled, and why

- Of the row locks: what `delete_ticket` locks, the rows triage inserts,
  and a reorder of more than two tickets. Of the checkouts: cloning, the default
  branch's detection and its moves on the remote (the root stands for all of it).
- Deletion: `delete_ticket` leaves rows of `ticket_log` and `ticket_chat` behind, on
  which the commit fails on Postgres; a test on Postgres shows it, and the races
  behind a delete that cannot succeed are moot. Its effect on the dependency
  graph is in `TicketDeps`.
- The ticket log and the order of tickets: one-table handlers.
  Concurrent reorders are listed as a hazard; their locks are in `RowLocks`.
- Sign-in and the proxy gate: password hashing, cookies, a header check.
- Profiles, board settings: single-row edits behind an ownership check.
- The web client and the scripts: they call the handlers above.
- Of the worker process: the main loop's own connection and the counts it
  publishes, the folder arguments, a heartbeat thread that cannot be started
  after its run was counted, a second process on one PC. Of enrolment: the first
  one's insert, the keys and passwords checked before it, names and grants.
- The time a tick takes: triage calls the CLI for minutes on the thread that
  sends heartbeats and reaps, so no bound on a reap is claimed.
- The wording of prompts, transcripts, comments and notifications; the parsing of
  replies (`parse_question`, `parse_commit_gate`, `parse_triage_result`), whose
  results are choices of the models; the importer's mapping of fields; the
  migrations. These are functions of text, which unit tests cover.

## Plan

The modules were written in the order of what the system must not get wrong:
the queue, the agent run, the dependencies, the worker process; then what
`WorkQueue` abstracts (`Escalation`, `Checkout`, `RowLocks`), what it promises
(`AttemptLog`) and what it asks of its row locks (`AtomicQueue`). What is left, most useful first:

1. The step between the two refinements: `WorkQueue` proved to implement an
   `AtomicQueue` that has its split commits of a re-queue, so that what the row
   locks guarantee and what the queue's steps assume are one statement.
2. The ticket log's sequence numbers and pruning, and a ticket's order under
   concurrent reorders, in one module with one run.
3. Pure algorithms as functions with reference definitions: the importer's
   status mapping, `parse_question`, `parse_commit_gate`, `parse_triage_result`
   over abstract replies, the migrations' backfills.
