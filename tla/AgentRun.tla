------------------------------- MODULE AgentRun -------------------------------
(***************************************************************************)
(* One agent run of kanban-cloud: ClaudeExecutor.run on the slot thread,    *)
(* the chat pump and stdout reader threads it starts, the Claude CLI        *)
(* process at the other end of the two pipes, and the ticket_chat table the *)
(* pump delivers from. Several runs of one ticket may overlap: the agent of *)
(* a superseded claim works on until it notices.                            *)
(*                                                                          *)
(* The slot thread and the reader thread share the slot's database          *)
(* connection; a step of a thread ends where another thread's step can make *)
(* a difference to it. A call that may block is a step nothing is obliged to *)
(* take, or one that is enabled only once what it waits for has happened.   *)
(***************************************************************************)
EXTENDS Integers, Sequences, FiniteSets

CONSTANTS
  Runs,       \* the agent runs of one ticket
  Windows,    \* the worker runs on Windows
  LastChat,   \* BOUND: rows of ticket_chat
  MaxTurns,   \* BOUND: user turns written to one CLI, rewrites included
  MaxLines    \* BOUND: lines of output the stdout pipe holds

ASSUME BoundsAssumption ==
  /\ Windows \in BOOLEAN
  /\ LastChat \in Nat /\ MaxLines \in Nat \ {0}
  /\ MaxTurns \in Nat /\ MaxTurns > LastChat

VARIABLES
  chat,     \* ticket_chat, by id
  run,      \* the slot thread inside ClaudeExecutor.run, and what it shares
  cli,      \* the CLI process and its two pipes
  pump,     \* the chat pump thread
  reader,   \* the stdout reader thread
  conn      \* the slot's connection: psycopg's transaction nesting

vars == <<chat, run, cli, pump, reader, conn>>
-----------------------------------------------------------------------------
(* Rows, threads, the process and the connection. *)

Messages == 1..LastChat
Prompt   == 0                   \* the run's first user turn
Threads  == {"slot", "reader"}

ChatStatus == {"absent", "queued", "delivered"}

\* stop: stop_pump. resultSeen: result_seen. kill: the row's kill_requested.
Run == [pc : {"off", "prompt", "watch", "polling", "stopping", "returned"},
        outcome : {"none", "exit", "ok", "failed", "crashed", "killed", "timeout", "aborted"},
        stop : BOOLEAN, resultSeen : BOOLEAN, kill : BOOLEAN]

\* turns: all that was written to stdin; taken: how much of it the CLI read.
\* out: the lines in the stdout pipe. writers: who holds that pipe open, the
\* CLI or a tool it started. ok: the exit code is 0. rushed (history): a turn
\* was written before the answers to all earlier ones had been read.
Cli == [pc : {"off", "waiting", "working", "gone"}, ok : BOOLEAN,
        turns : Seq(Messages \cup {Prompt}), taken : Nat, eof : BOOLEAN,
        out : Seq({"text", "result"}), writers : SUBSET {"cli", "tool"},
        rushed : BOOLEAN]

Pump == [pc : {"off", "poll", "decide", "write", "ack", "clear", "close", "done"},
         unsent : SUBSET Messages, sent : SUBSET Messages]

ReaderPc == {"off", "read", "log", "logging", "ended", "failed"}

\* begun: the server has an open transaction on this connection.
Conn == [depth : Nat, begun : BOOLEAN, at : [Threads -> Nat], outer : [Threads -> BOOLEAN]]

Init ==
  /\ chat = [m \in Messages |-> "absent"]
  /\ run = [r \in Runs |-> [pc |-> "off", outcome |-> "none", stop |-> FALSE,
                            resultSeen |-> FALSE, kill |-> FALSE]]
  /\ cli = [r \in Runs |-> [pc |-> "off", ok |-> FALSE, turns |-> <<>>, taken |-> 0,
                            eof |-> FALSE, out |-> <<>>, writers |-> {},
                            rushed |-> FALSE]]
  /\ pump = [r \in Runs |-> [pc |-> "off", unsent |-> {}, sent |-> {}]]
  /\ reader = [r \in Runs |-> "off"]
  /\ conn = [r \in Runs |-> [depth |-> 0, begun |-> FALSE, at |-> [t \in Threads |-> 0],
                             outer |-> [t \in Threads |-> FALSE]]]

Queued == {m \in Messages : chat[m] = "queued"}
ReaderAlive(r) == reader[r] \notin {"ended", "failed"}
CliAlive(r) == cli[r].pc \in {"waiting", "working"}
Untaken(r) == Len(cli[r].turns) - cli[r].taken
Answered(r) == cli[r].pc = "waiting" /\ Untaken(r) = 0
-----------------------------------------------------------------------------
(* psycopg: `with conn.transaction()` begins a transaction on an idle        *)
(* connection and a savepoint on any other. A block that is not the          *)
(* innermost open one when it exits raises, and sends neither COMMIT nor     *)
(* RELEASE.                                                                  *)

EnterBlock(r, th) ==
  LET c == conn[r]
  IN  conn' = [conn EXCEPT ![r] = [depth |-> c.depth + 1, begun |-> TRUE,
                                   at |-> [c.at EXCEPT ![th] = c.depth],
                                   outer |-> [c.outer EXCEPT ![th] = ~c.begun]]]

Innermost(r, th) == conn[r].depth = conn[r].at[th] + 1

ExitBlock(r, th) ==
  LET c == conn[r]
      commits == Innermost(r, th) /\ c.outer[th]
  IN  conn' = [conn EXCEPT ![r] = [depth |-> c.depth - 1, begun |-> c.begun /\ ~commits,
                                   at |-> [c.at EXCEPT ![th] = 0],
                                   outer |-> [c.outer EXCEPT ![th] = FALSE]]]
-----------------------------------------------------------------------------
(* People: a message for the agent, the kill button.                        *)

\* send_ticket_chat. Ids are handed out in order.
SendChat(m) ==
  /\ chat[m] = "absent"
  /\ \A n \in Messages : n < m => chat[n] # "absent"
  /\ chat' = [chat EXCEPT ![m] = "queued"]
  /\ UNCHANGED <<run, cli, pump, reader, conn>>

\* kill_ticket raises the claim's flag.
AskKill(r) ==
  /\ run[r].pc \in {"prompt", "watch", "polling"} /\ ~run[r].kill
  /\ run' = [run EXCEPT ![r].kill = TRUE]
  /\ UNCHANGED <<chat, cli, pump, reader, conn>>
-----------------------------------------------------------------------------
(* The CLI: `claude -p --input-format stream-json`, and a tool it starts,    *)
(* which inherits the output pipe and may outlive it. The CLI may hang, drop  *)
(* its output or die at any time.                                            *)

CanWrite(r) == "cli" \in cli[r].writers /\ Len(cli[r].out) < MaxLines

CliGoes(r, writers) ==
  cli' = [cli EXCEPT ![r] = [@ EXCEPT !.pc = "gone", !.writers = writers]]

\* The CLI alone is gone.
CliEnds(r) == CliGoes(r, cli[r].writers \ {"cli"})

\* _terminate_process_tree: taskkill takes the children of a live CLI along,
\* proc.kill() leaves them.
TreeEnds(r) == IF Windows /\ CliAlive(r) THEN CliGoes(r, {}) ELSE CliEnds(r)

TakeTurn(r) ==
  /\ cli[r].pc = "waiting" /\ Untaken(r) > 0
  /\ cli' = [cli EXCEPT ![r] = [@ EXCEPT !.pc = "working", !.taken = cli[r].taken + 1]]
  /\ UNCHANGED <<chat, run, pump, reader, conn>>

Speak(r) ==
  /\ cli[r].pc = "working" /\ CanWrite(r)
  /\ cli' = [cli EXCEPT ![r].out = Append(@, "text")]
  /\ UNCHANGED <<chat, run, pump, reader, conn>>

\* The turn's result line.
Answer(r) ==
  /\ cli[r].pc = "working" /\ CanWrite(r)
  /\ cli' = [cli EXCEPT ![r] = [@ EXCEPT !.pc = "waiting",
                                          !.out = Append(cli[r].out, "result")]]
  /\ UNCHANGED <<chat, run, pump, reader, conn>>

\* End of input, and every turn answered.
Leave(r) ==
  /\ Answered(r) /\ cli[r].eof
  /\ cli' = [cli EXCEPT ![r] = [@ EXCEPT !.pc = "gone", !.ok = TRUE,
                                          !.writers = cli[r].writers \ {"cli"}]]
  /\ UNCHANGED <<chat, run, pump, reader, conn>>

Die(r) ==
  /\ CliAlive(r)
  /\ CliEnds(r)
  /\ UNCHANGED <<chat, run, pump, reader, conn>>

HoldPipe(r, writers) ==
  /\ cli' = [cli EXCEPT ![r].writers = writers]
  /\ UNCHANGED <<chat, run, pump, reader, conn>>

DropsOutput(r) == CliAlive(r) /\ "cli" \in cli[r].writers /\ HoldPipe(r, cli[r].writers \ {"cli"})

StartsTool(r) ==
  /\ cli[r].pc = "working" /\ cli[r].writers = {"cli"}
  /\ HoldPipe(r, {"cli", "tool"})

ToolEnds(r) == "tool" \in cli[r].writers /\ HoldPipe(r, cli[r].writers \ {"tool"})
-----------------------------------------------------------------------------
(* The reader thread: _read_stream.                                         *)

ReaderBecomes(r, pc) == reader' = [reader EXCEPT ![r] = pc]

\* run has closed its end of the pipe.
StdoutClosed(r) == run[r].pc = "returned" /\ run[r].outcome # "aborted"

\* One line: a top-level result sets result_seen before the line is logged.
ReadLine(r) ==
  /\ reader[r] = "read" /\ cli[r].out # <<>> /\ ~StdoutClosed(r)
  /\ cli' = [cli EXCEPT ![r].out = Tail(@)]
  /\ run' = [run EXCEPT ![r].resultSeen = @ \/ Head(cli[r].out) = "result"]
  /\ ReaderBecomes(r, "log")
  /\ UNCHANGED <<chat, pump, conn>>

\* log_cb: add_log_line's transaction on the slot's connection. Whatever it
\* raises is caught.
LogBegins(r) ==
  /\ reader[r] = "log"
  /\ EnterBlock(r, "reader")
  /\ ReaderBecomes(r, "logging")
  /\ UNCHANGED <<chat, run, cli, pump>>

LogEnds(r) ==
  /\ reader[r] = "logging"
  /\ ExitBlock(r, "reader")
  /\ ReaderBecomes(r, "read")
  /\ UNCHANGED <<chat, run, cli, pump>>

\* The pipe ends when nobody holds it open, the CLI dead or alive.
ReadEof(r) ==
  /\ reader[r] = "read" /\ ~StdoutClosed(r)
  /\ cli[r].out = <<>> /\ cli[r].writers = {}
  /\ ReaderBecomes(r, "ended")
  /\ UNCHANGED <<chat, run, cli, pump, conn>>

\* The stream cannot be read any further: reader_errors.
ReadFails(r) ==
  /\ reader[r] = "read" /\ (cli[r].out # <<>> \/ StdoutClosed(r))
  /\ ReaderBecomes(r, "failed")
  /\ UNCHANGED <<chat, run, cli, pump, conn>>
-----------------------------------------------------------------------------
(* The pump thread: _chat_pump_loop.                                        *)

PumpBecomes(r, pc, unsent, sent) ==
  pump' = [pump EXCEPT ![r] = [pc |-> pc, unsent |-> unsent, sent |-> sent]]

\* run_slot closes the pump's connection when the executor is done.
ChatReachable(r) == run[r].pc # "returned"

\* The loop condition, then chat_source: the undelivered rows, or none when
\* the database does not answer.
PumpPolls(r) ==
  /\ pump[r].pc = "poll"
  /\ \/ /\ run[r].stop
        /\ PumpBecomes(r, "close", {}, {})
     \/ /\ ~run[r].stop /\ ChatReachable(r) /\ Queued # {}
        /\ PumpBecomes(r, "write", Queued, {})
     \/ /\ ~run[r].stop
        /\ PumpBecomes(r, "decide", {}, {})
  /\ UNCHANGED <<chat, run, cli, reader, conn>>

\* chat_should_close, asked when nothing is pending.
ClosesOnStop(r) == run[r].stop                                    \* mutant
ShouldClose(r) == run[r].resultSeen
PumpDecides(r) ==
  /\ pump[r].pc = "decide"
  /\ PumpBecomes(r, IF ShouldClose(r) THEN "close" ELSE "poll", {}, {})
  /\ UNCHANGED <<chat, run, cli, reader, conn>>

\* chat_pump: the next message in id order, up to the first failed write.
\* A write blocks while the CLI leaves the pipe full.
Quiet(r) == Answered(r) /\ \A i \in DOMAIN cli[r].out : cli[r].out[i] # "result"
TypesTurn(r, m) ==
  cli' = [cli EXCEPT ![r] = [@ EXCEPT !.turns = Append(cli[r].turns, m),
                                      !.rushed = cli[r].rushed \/ ~Quiet(r)]]
AnyOrder(m, unsent) == m \in unsent                               \* mutant
OldestFirst(m, unsent) == \A n \in unsent : m <= n
PumpWrites(r) ==
  LET unsent == pump[r].unsent  sent == pump[r].sent
  IN  /\ pump[r].pc = "write"
      /\ \/ /\ cli[r].pc = "gone"
            /\ PumpBecomes(r, "ack", unsent, sent)
            /\ UNCHANGED cli
         \/ \E m \in unsent :
              /\ cli[r].pc # "gone" /\ OldestFirst(m, unsent)
              /\ TypesTurn(r, m)
              /\ PumpBecomes(r, IF unsent = {m} THEN "ack" ELSE "write",
                             unsent \ {m}, sent \cup {m})
      /\ UNCHANGED <<chat, run, reader, conn>>

\* The rows chat_delivered is called with.
WholeBatch(r) == pump[r].sent \cup pump[r].unsent                 \* mutant
AckBatch(r) == pump[r].sent

\* chat_delivered, whose failure is swallowed; then the loop goes on, or ends
\* when a write had failed.
PumpAcks(r) ==
  /\ pump[r].pc = "ack"
  /\ \/ /\ ChatReachable(r)
        /\ chat' = [m \in Messages |-> IF m \in AckBatch(r) THEN "delivered" ELSE chat[m]]
     \/ /\ ~ChatReachable(r) \/ Len(cli[r].turns) + LastChat <= MaxTurns
        /\ UNCHANGED chat
  /\ PumpBecomes(r, IF pump[r].unsent # {} THEN "close" ELSE "clear", {}, {})
  /\ UNCHANGED <<run, cli, reader, conn>>

\* result_seen.clear(): the close decision waits for the next result.
ResultKept(r) == run[r].resultSeen                                \* mutant
ResultCleared(r) == FALSE
PumpClears(r) ==
  /\ pump[r].pc = "clear"
  /\ run' = [run EXCEPT ![r].resultSeen = ResultCleared(r)]
  /\ PumpBecomes(r, "poll", {}, {})
  /\ UNCHANGED <<chat, cli, reader, conn>>

\* The finally clause: chat_close.
PumpCloses(r) ==
  /\ pump[r].pc = "close"
  /\ cli' = [cli EXCEPT ![r].eof = TRUE]
  /\ PumpBecomes(r, "done", {}, {})
  /\ UNCHANGED <<chat, run, reader, conn>>
-----------------------------------------------------------------------------
(* The slot thread: ClaudeExecutor.run.                                     *)

RunBecomes(r, pc, outcome) ==
  run' = [run EXCEPT ![r] = [@ EXCEPT !.pc = pc, !.outcome = outcome]]

\* Popen.
Launch(r) ==
  /\ run[r].pc = "off"
  /\ RunBecomes(r, "prompt", "none")
  /\ cli' = [cli EXCEPT ![r] = [@ EXCEPT !.pc = "waiting", !.writers = {"cli"}]]
  /\ UNCHANGED <<chat, pump, reader, conn>>

\* The prompt, as first turn: the write blocks until the CLI has read what the
\* pipe does not hold, or breaks when the CLI is gone. Then the two threads
\* start, and only now the clock of the deadline.
PromptSent(r) ==
  /\ run[r].pc = "prompt"
  /\ RunBecomes(r, "watch", "none")
  /\ IF cli[r].pc = "gone" THEN UNCHANGED cli ELSE cli' = [cli EXCEPT ![r].turns = <<Prompt>>]
  /\ PumpBecomes(r, "poll", {}, {})
  /\ ReaderBecomes(r, "read")
  /\ UNCHANGED <<chat, conn>>

\* run ends: stop_pump is set, and the pump is waited for.
Stops(r, outcome) ==
  run' = [run EXCEPT ![r] = [@ EXCEPT !.pc = "stopping", !.outcome = outcome, !.stop = TRUE]]

\* The child is alive after a join: should_kill reads the flag in a
\* transaction on the slot's connection.
PollBegins(r) ==
  /\ run[r].pc = "watch" /\ ReaderAlive(r)
  /\ EnterBlock(r, "slot")
  /\ RunBecomes(r, "polling", "none")
  /\ UNCHANGED <<chat, cli, pump, reader>>

\* No kill asked for, or the read failed with an OperationalError.
PollFindsNothing(r) ==
  /\ run[r].pc = "polling" /\ Innermost(r, "slot")
  /\ ExitBlock(r, "slot")
  /\ RunBecomes(r, "watch", "none")
  /\ UNCHANGED <<chat, cli, pump, reader>>

\* The process tree is terminated and KilledByRequest raised.
PollFindsKill(r) ==
  /\ run[r].pc = "polling" /\ Innermost(r, "slot") /\ run[r].kill
  /\ ExitBlock(r, "slot")
  /\ Stops(r, "killed")
  /\ TreeEnds(r)
  /\ UNCHANGED <<chat, pump, reader>>

\* The transaction block raises: the exception leaves run, which stops
\* neither the pump nor the CLI.
PollAborts(r) ==
  /\ run[r].pc = "polling" /\ ~Innermost(r, "slot")
  /\ ExitBlock(r, "slot")
  /\ RunBecomes(r, "returned", "aborted")
  /\ UNCHANGED <<chat, cli, pump, reader>>

\* AGENT_TIMEOUT_SECONDS, half an hour, is long next to the timed waits here
\* (half a second, two seconds): it passes while the CLI works or hangs, or
\* when no thread of the worker has anything left to do that lets the run end.
WorkerBusy(r) ==
  \/ cli[r].out # <<>> \/ cli[r].writers = {} \/ reader[r] # "read"
  \/ pump[r].pc \in {"ack", "clear", "close"}
  \/ ShouldClose(r) /\ pump[r].pc \in {"poll", "decide"}
OverdueAtWork(r) == cli[r].pc = "working"                         \* mutant
Overdue(r) == cli[r].pc = "working" \/ ~WorkerBusy(r)

DeadlinePasses(r) ==
  /\ run[r].pc = "watch" /\ ReaderAlive(r) /\ Overdue(r)
  /\ Stops(r, "timeout")
  /\ TreeEnds(r)
  /\ UNCHANGED <<chat, pump, reader, conn>>

\* The reader is done: the exit code decides, unless it could not read.
ReaderJoined(r) ==
  /\ run[r].pc = "watch" /\ ~ReaderAlive(r)
  /\ Stops(r, IF reader[r] = "failed" THEN "crashed" ELSE "exit")
  /\ UNCHANGED <<chat, cli, pump, reader, conn>>

\* The exit code is that of a CLI that is gone: proc.wait() has no timeout.
ExitCode(r) == IF cli[r].ok THEN "ok" ELSE "failed"
ExitKnown(r) == cli[r].pc = "gone"

\* After a failed read proc.kill() takes the child down.
KillsNobody(r) == FALSE                                           \* mutant
KillsCrashed(r) == run[r].outcome = "crashed" /\ cli[r].pc # "gone"

\* The pump has ended, or is left to itself after five seconds; closing stdout
\* waits for a reader that is inside a read; then the exit code.
Return(r) ==
  /\ run[r].pc = "stopping" /\ reader[r] # "read"
  /\ \/ run[r].outcome = "exit" /\ ExitKnown(r) /\ RunBecomes(r, "returned", ExitCode(r))
     \/ run[r].outcome # "exit" /\ RunBecomes(r, "returned", run[r].outcome)
  /\ IF KillsCrashed(r) THEN CliEnds(r) ELSE UNCHANGED cli
  /\ UNCHANGED <<chat, pump, reader, conn>>
-----------------------------------------------------------------------------
CliStep(r)    == TakeTurn(r) \/ Speak(r) \/ Answer(r) \/ Leave(r) \/ Die(r)
                 \/ DropsOutput(r) \/ StartsTool(r) \/ ToolEnds(r)
ReaderStep(r) == ReadLine(r) \/ LogBegins(r) \/ LogEnds(r) \/ ReadEof(r) \/ ReadFails(r)
PumpStep(r)   == PumpPolls(r) \/ PumpDecides(r) \/ PumpWrites(r) \/ PumpAcks(r)
                 \/ PumpClears(r) \/ PumpCloses(r)
SlotStep(r)   == Launch(r) \/ PromptSent(r) \/ PollBegins(r) \/ PollFindsNothing(r) \/ PollFindsKill(r)
                 \/ PollAborts(r) \/ DeadlinePasses(r) \/ ReaderJoined(r) \/ Return(r)

\* Every run is over and none of its threads is left.
Over ==
  /\ \A r \in Runs : /\ run[r].pc = "returned" /\ cli[r].pc = "gone"
                      /\ pump[r].pc = "done" /\ ~ReaderAlive(r)
  /\ UNCHANGED vars

Next ==
  \/ Over
  \/ \E r \in Runs : CliStep(r) \/ ReaderStep(r) \/ PumpStep(r) \/ SlotStep(r) \/ AskKill(r)
  \/ \E m \in Messages : SendChat(m)

Spec == Init /\ [][Next]_vars

\* The worker's threads run on, but for a write the CLI does not read, and the
\* deadline passes. Nothing makes the CLI read, speak, answer, close its output
\* or leave, nor its tool end, nor a client do anything.
WriteBlocks(r) == pump[r].pc = "write" /\ CliAlive(r)
FairSpec ==
  /\ Spec
  /\ \A r \in Runs :
       /\ WF_vars(PumpStep(r) /\ ~WriteBlocks(r))
       /\ WF_vars(ReadLine(r)) /\ WF_vars(ReadEof(r))
       /\ WF_vars(LogBegins(r)) /\ WF_vars(LogEnds(r))
       /\ WF_vars(PromptSent(r) /\ ~CliAlive(r))
       /\ WF_vars(PollBegins(r) \/ PollFindsNothing(r) \/ PollFindsKill(r) \/ PollAborts(r))
       /\ SF_vars(DeadlinePasses(r))
       /\ WF_vars(ReaderJoined(r) \/ Return(r))
-----------------------------------------------------------------------------
(* Safety.                                                                  *)

TypeOK ==
  /\ chat \in [Messages -> ChatStatus]
  /\ run \in [Runs -> Run]
  /\ \A r \in Runs : run[r].outcome = "none" <=> run[r].pc \in {"off", "prompt", "watch", "polling"}
  /\ cli \in [Runs -> Cli]
  /\ pump \in [Runs -> Pump]
  /\ reader \in [Runs -> ReaderPc]
  /\ conn \in [Runs -> Conn]

Written(r) == {cli[r].turns[i] : i \in DOMAIN cli[r].turns}

\* delivered_at is set once the pump "has written the row to the CLI's stdin"
\* (TicketChat): a message leaves the inbox only when some agent was handed
\* it, whichever write broke, whichever acknowledgement was lost and however
\* many runs serve the ticket.
DeliveredWasWritten ==
  \A m \in Messages : chat[m] = "delivered" => \E r \in Runs : m \in Written(r)

\* An agent never gets a message ahead of an older one that no agent was
\* handed, lost acknowledgements and rewrites included.
TypedOrder ==
  \A r \in Runs : \A i \in DOMAIN cli[r].turns : \A m \in Messages :
    m < cli[r].turns[i] =>
      \/ \E j \in 1..(i - 1) : cli[r].turns[j] = m
      \/ \E other \in Runs \ {r} : m \in Written(other)

\* A slot that goes on to its next claim leaves no CLI at work in the
\* checkout, whatever ended the run: the exit code, an unreadable stream, the
\* kill button or the deadline. Only an exception out of the kill poll does.
\* (A tool the CLI started may outlive it: see TreeEnds.)
OnlyAbortLeavesAgent ==
  \A r \in Runs :
    run[r].pc = "returned" /\ cli[r].pc # "gone" => run[r].outcome = "aborted"

\* The agent answered every turn and waits for one that is not coming.
Idle(r) ==
  /\ Answered(r) /\ ~cli[r].eof
  /\ Queued = {} /\ pump[r].unsent = {}

TimesOut(r) == run[r].outcome # "timeout" /\ run'[r].outcome = "timeout"

\* A finished agent is let go: a run nobody chatted with is never held open
\* until the deadline, which would record finished work as failed.
OnlyChatHoldsOpen ==
  [][\A r \in Runs : TimesOut(r) /\ Idle(r) => Len(cli[r].turns) > 1]_vars

\* "Sending a message clears it, so the close decision re-arms on the result of
\* the turn that message triggered rather than an earlier one"
\* (_chat_pump_loop): the pump does not close the input of an agent with a turn
\* still to answer. It may once a message was typed over an open turn, or over
\* an answer not yet read: the earlier turn's result then counts for it.
DecidesToClose(r) == pump[r].pc = "decide" /\ pump'[r].pc = "close"
ClosesWhenAnswered ==
  [][\A r \in Runs : DecidesToClose(r) /\ CliAlive(r) => Answered(r) \/ cli[r].rushed]_vars
-----------------------------------------------------------------------------
(* Liveness.                                                                *)

\* The waits of ClaudeExecutor.run that have no timeout: the prompt's write,
\* for a CLI that does not read it; closing stdout under a reader whose pipe a
\* tool still holds; proc.wait(), for a CLI that closed its output and stays.
Stuck(r) ==
  \/ run[r].pc = "prompt" /\ CliAlive(r)
  \/ run[r].pc = "stopping" /\ reader[r] = "read" /\ cli[r].writers # {}
  \/ run[r].pc = "stopping" /\ run[r].outcome = "exit" /\ CliAlive(r)

\* These waits aside, a run gives its slot back: whether the CLI hangs in a
\* turn, at the end of its input or with a message half written to it, whether
\* its reader breaks or a tool keeps the pipe after it, the kill poll, the
\* deadline and the joins with a timeout end the run.
RunsReturn ==
  \A r \in Runs : []<>~Stuck(r) => (run[r].pc # "off" ~> run[r].pc = "returned")
-----------------------------------------------------------------------------
(* What the repository's comments say and the code does not do.             *)

\* "conn.transaction() issues a real BEGIN/COMMIT rather than a savepoint",
\* which is what lets the two threads share the connection (connect_db): with
\* neither of them inside a block nothing is left uncommitted on it, where
\* finish_work and the next claim would land in that transaction and hold
\* their locks for ever.
NothingLeftOpen ==
  \A r \in Runs :
    run[r].pc # "polling" /\ reader[r] # "logging" => ~conn[r].begun
=============================================================================
