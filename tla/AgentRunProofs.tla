---------------------------- MODULE AgentRunProofs ----------------------------
(* Theorems about AgentRun, for any number of runs of a ticket, of messages   *)
(* and of turns.                                                              *)
EXTENDS AgentRun, TLAPS

-----------------------------------------------------------------------------
(* The invariant.                                                           *)

\* A thread is between the two ends of a block exactly while it is counted in
\* the connection's depth.
Inside(b) == IF b THEN 1 ELSE 0
DepthCounts(r) ==
  conn[r].depth = Inside(run[r].pc = "polling") + Inside(reader[r] = "logging")

\* There is no CLI before the launch, and no turn and no thread before the
\* prompt. A run that was stopped by the kill button or the deadline has
\* terminated its CLI.
LifeCycle(r) ==
  /\ run[r].pc = "off" => cli[r].pc = "off"
  /\ run[r].pc \in {"off", "prompt"} =>
       cli[r].turns = <<>> /\ pump[r].pc = "off" /\ reader[r] = "off"
  /\ run[r].pc = "stopping" =>
       /\ run[r].outcome \in {"exit", "crashed", "killed", "timeout"}
       /\ run[r].outcome \in {"killed", "timeout"} => cli[r].pc = "gone"
  /\ run[r].pc = "returned" /\ run[r].outcome # "aborted" => cli[r].pc = "gone"

AgentInv == TypeOK /\ \A r \in Runs : DepthCounts(r) /\ LifeCycle(r)

LEMMA InitAgent == Init => AgentInv
<1> SUFFICES ASSUME Init PROVE AgentInv
  OBVIOUS
<1>1. /\ chat \in [Messages -> ChatStatus]
      /\ run \in [Runs -> Run]
      /\ \A r \in Runs : run[r].outcome = "none" <=> run[r].pc \in {"off", "prompt", "watch", "polling"}
      /\ pump \in [Runs -> Pump]
      /\ reader \in [Runs -> ReaderPc]
  BY DEF Init, ChatStatus, Run, Pump, ReaderPc
<1>2. cli \in [Runs -> Cli]
  BY DEF Init, Cli
<1>3. conn \in [Runs -> Conn]
  BY DEF Init, Conn, Threads
<1>4. \A r \in Runs : DepthCounts(r) /\ LifeCycle(r)
  BY DEF Init, DepthCounts, LifeCycle, Inside
<1> QED BY <1>1, <1>2, <1>3, <1>4 DEF AgentInv, TypeOK

\* The CLI's steps.
LEMMA CliStepAgent ==
  ASSUME AgentInv, NEW r \in Runs, CliStep(r)
  PROVE  AgentInv'
<1>0. cli \in [Runs -> Cli] /\ cli[r] \in Cli
  BY DEF AgentInv, TypeOK
<1>1. UNCHANGED <<chat, run, pump, reader, conn>>
  BY DEF CliStep, TakeTurn, Speak, Answer, Leave, Die, DropsOutput, StartsTool, ToolEnds, HoldPipe
<1>2. PICK rec \in Cli : /\ cli' = [cli EXCEPT ![r] = rec] /\ rec.turns = cli[r].turns
                         /\ cli[r].pc \in {"off", "gone"} => rec.pc = cli[r].pc
  <2>1. CASE TakeTurn(r)
    <3> DEFINE rec == [cli[r] EXCEPT !.pc = "working", !.taken = cli[r].taken + 1]
    <3>1. rec \in Cli /\ rec.turns = cli[r].turns
      <4>1. cli[r].taken + 1 \in Nat
        BY <1>0 DEF Cli
      <4> QED BY <1>0, <4>1 DEF Cli
    <3>2. cli' = [cli EXCEPT ![r] = rec] /\ cli[r].pc = "waiting"
      BY <2>1 DEF TakeTurn
    <3> QED BY <3>1, <3>2
  <2>2. CASE Speak(r)
    <3> DEFINE rec == [cli[r] EXCEPT !.out = Append(cli[r].out, "text")]
    <3>1. rec \in Cli /\ rec.turns = cli[r].turns /\ rec.pc = cli[r].pc
      <4>1. Append(cli[r].out, "text") \in Seq({"text", "result"})
        BY <1>0 DEF Cli
      <4> QED BY <1>0, <4>1 DEF Cli
    <3>2. cli' = [cli EXCEPT ![r] = rec]
      BY <2>2 DEF Speak
    <3> QED BY <3>1, <3>2
  <2>3. CASE Answer(r)
    <3> DEFINE rec == [cli[r] EXCEPT !.pc = "waiting", !.out = Append(cli[r].out, "result")]
    <3>1. rec \in Cli /\ rec.turns = cli[r].turns
      <4>1. Append(cli[r].out, "result") \in Seq({"text", "result"})
        BY <1>0 DEF Cli
      <4> QED BY <1>0, <4>1 DEF Cli
    <3>2. cli' = [cli EXCEPT ![r] = rec] /\ cli[r].pc = "working"
      BY <2>3 DEF Answer
    <3> QED BY <3>1, <3>2
  <2>4. CASE Leave(r)
    <3> DEFINE rec == [cli[r] EXCEPT !.pc = "gone", !.ok = TRUE,
                                     !.writers = cli[r].writers \ {"cli"}]
    <3>1. rec \in Cli /\ rec.turns = cli[r].turns
      BY <1>0 DEF Cli
    <3>2. cli' = [cli EXCEPT ![r] = rec] /\ cli[r].pc = "waiting"
      BY <2>4 DEF Leave, Answered
    <3> QED BY <3>1, <3>2
  <2>5. CASE Die(r)
    <3> DEFINE rec == [cli[r] EXCEPT !.pc = "gone", !.writers = cli[r].writers \ {"cli"}]
    <3>1. rec \in Cli /\ rec.turns = cli[r].turns
      BY <1>0 DEF Cli
    <3>2. cli' = [cli EXCEPT ![r] = rec] /\ cli[r].pc \in {"waiting", "working"}
      BY <2>5 DEF Die, CliEnds, CliGoes, CliAlive
    <3> QED BY <3>1, <3>2
  <2>6. ASSUME NEW writers \in SUBSET {"cli", "tool"}, HoldPipe(r, writers)
        PROVE  \E rec \in Cli : /\ cli' = [cli EXCEPT ![r] = rec] /\ rec.turns = cli[r].turns
                                /\ cli[r].pc \in {"off", "gone"} => rec.pc = cli[r].pc
    <3> DEFINE rec == [cli[r] EXCEPT !.writers = writers]
    <3>1. rec \in Cli /\ rec.turns = cli[r].turns /\ rec.pc = cli[r].pc
      BY <1>0 DEF Cli
    <3>2. cli' = [cli EXCEPT ![r] = rec]
      BY <2>6 DEF HoldPipe
    <3> QED BY <3>1, <3>2
  <2>7. CASE DropsOutput(r) \/ StartsTool(r) \/ ToolEnds(r)
    <3>1. /\ cli[r].writers \ {"cli"} \in SUBSET {"cli", "tool"}
          /\ cli[r].writers \ {"tool"} \in SUBSET {"cli", "tool"}
      BY <1>0 DEF Cli
    <3> QED BY <2>6, <2>7, <3>1 DEF DropsOutput, StartsTool, ToolEnds
  <2> QED BY <2>1, <2>2, <2>3, <2>4, <2>5, <2>7 DEF CliStep
<1>3. TypeOK'
  BY <1>0, <1>1, <1>2 DEF AgentInv, TypeOK
<1>4. ASSUME NEW q \in Runs PROVE DepthCounts(q)' /\ LifeCycle(q)'
  <2>1. DepthCounts(q) /\ LifeCycle(q) /\ LifeCycle(r)
    BY DEF AgentInv
  <2> QED BY <1>0, <1>1, <1>2, <2>1 DEF DepthCounts, LifeCycle
<1> QED BY <1>3, <1>4 DEF AgentInv

\* A thread enters a block, and leaves it.
LEMMA EnterEffect ==
  ASSUME AgentInv, NEW r \in Runs, NEW th \in Threads, EnterBlock(r, th)
  PROVE  /\ conn' \in [Runs -> Conn]
         /\ conn'[r].depth = conn[r].depth + 1
         /\ \A q \in Runs \ {r} : conn'[q] = conn[q]
<1>1. conn \in [Runs -> Conn] /\ conn[r] \in Conn
  BY DEF AgentInv, TypeOK
<1> DEFINE rec == [depth |-> conn[r].depth + 1, begun |-> TRUE,
                   at |-> [conn[r].at EXCEPT ![th] = conn[r].depth],
                   outer |-> [conn[r].outer EXCEPT ![th] = ~conn[r].begun]]
<1>2. rec \in Conn
  BY <1>1 DEF Conn
<1>3. conn' = [conn EXCEPT ![r] = rec]
  BY DEF EnterBlock
<1>4. rec.depth = conn[r].depth + 1
  OBVIOUS
<1> HIDE DEF rec
<1> QED BY <1>1, <1>2, <1>3, <1>4

LEMMA ExitEffect ==
  ASSUME AgentInv, NEW r \in Runs, NEW th \in Threads, conn[r].depth > 0, ExitBlock(r, th)
  PROVE  /\ conn' \in [Runs -> Conn]
         /\ conn'[r].depth = conn[r].depth - 1
         /\ \A q \in Runs \ {r} : conn'[q] = conn[q]
<1>1. conn \in [Runs -> Conn] /\ conn[r] \in Conn
  BY DEF AgentInv, TypeOK
<1> DEFINE rec == [depth |-> conn[r].depth - 1,
                   begun |-> conn[r].begun /\ ~(Innermost(r, th) /\ conn[r].outer[th]),
                   at |-> [conn[r].at EXCEPT ![th] = 0],
                   outer |-> [conn[r].outer EXCEPT ![th] = FALSE]]
<1>2. rec \in Conn
  BY <1>1 DEF Conn
<1>3. conn' = [conn EXCEPT ![r] = rec]
  BY DEF ExitBlock
<1>4. rec.depth = conn[r].depth - 1
  OBVIOUS
<1> HIDE DEF rec
<1> QED BY <1>1, <1>2, <1>3, <1>4

\* The reader's steps.
LEMMA ReaderStepAgent ==
  ASSUME AgentInv, NEW r \in Runs, ReaderStep(r)
  PROVE  AgentInv'
<1>0. /\ cli \in [Runs -> Cli] /\ cli[r] \in Cli
      /\ run \in [Runs -> Run] /\ run[r] \in Run
      /\ reader \in [Runs -> ReaderPc]
      /\ DepthCounts(r) /\ LifeCycle(r) /\ conn[r].depth \in Nat
      /\ "reader" \in Threads
  BY DEF AgentInv, TypeOK, Conn, Threads
<1>1. CASE ReadLine(r)
  <2>1. PICK rec \in Cli : cli' = [cli EXCEPT ![r] = rec] /\ rec.pc = cli[r].pc
                           /\ rec.turns = cli[r].turns
    <3> DEFINE rec == [cli[r] EXCEPT !.out = Tail(cli[r].out)]
    <3>1. Tail(cli[r].out) \in Seq({"text", "result"})
      BY <1>0, <1>1 DEF ReadLine, Cli
    <3>2. rec \in Cli /\ rec.pc = cli[r].pc /\ rec.turns = cli[r].turns
      BY <1>0, <3>1 DEF Cli
    <3>3. cli' = [cli EXCEPT ![r] = rec]
      BY <1>1 DEF ReadLine
    <3> QED BY <3>2, <3>3
  <2>2. PICK rn \in Run : run' = [run EXCEPT ![r] = rn] /\ rn.pc = run[r].pc
                          /\ rn.outcome = run[r].outcome
    <3> DEFINE rn == [run[r] EXCEPT !.resultSeen = run[r].resultSeen \/ Head(cli[r].out) = "result"]
    <3>1. rn \in Run /\ rn.pc = run[r].pc /\ rn.outcome = run[r].outcome
      BY <1>0 DEF Run
    <3>2. run' = [run EXCEPT ![r] = rn]
      BY <1>1 DEF ReadLine
    <3> QED BY <3>1, <3>2
  <2>3. /\ reader[r] = "read" /\ reader' = [reader EXCEPT ![r] = "log"]
        /\ UNCHANGED <<chat, pump, conn>>
    BY <1>1 DEF ReadLine, ReaderBecomes
  <2>4. TypeOK'
    BY <1>0, <2>1, <2>2, <2>3 DEF AgentInv, TypeOK, ReaderPc
  <2>5. ASSUME NEW q \in Runs PROVE DepthCounts(q)' /\ LifeCycle(q)'
    BY <1>0, <2>1, <2>2, <2>3 DEF AgentInv, DepthCounts, LifeCycle
  <2> QED BY <2>4, <2>5 DEF AgentInv
<1>2. CASE LogBegins(r)
  <2>1. /\ reader[r] = "log" /\ reader' = [reader EXCEPT ![r] = "logging"]
        /\ EnterBlock(r, "reader")
        /\ UNCHANGED <<chat, run, cli, pump>>
    BY <1>2 DEF LogBegins, ReaderBecomes
  <2>2. /\ conn' \in [Runs -> Conn] /\ conn'[r].depth = conn[r].depth + 1
        /\ \A q \in Runs \ {r} : conn'[q] = conn[q]
    BY <1>0, <2>1, EnterEffect
  <2>3. TypeOK'
    BY <1>0, <2>1, <2>2 DEF AgentInv, TypeOK, ReaderPc
  <2>4. ASSUME NEW q \in Runs PROVE DepthCounts(q)' /\ LifeCycle(q)'
    BY <1>0, <2>1, <2>2 DEF AgentInv, DepthCounts, LifeCycle, Inside
  <2> QED BY <2>3, <2>4 DEF AgentInv
<1>3. CASE LogEnds(r)
  <2>1. /\ reader[r] = "logging" /\ reader' = [reader EXCEPT ![r] = "read"]
        /\ ExitBlock(r, "reader")
        /\ UNCHANGED <<chat, run, cli, pump>>
    BY <1>3 DEF LogEnds, ReaderBecomes
  <2>2. /\ conn' \in [Runs -> Conn] /\ conn'[r].depth = conn[r].depth - 1
        /\ \A q \in Runs \ {r} : conn'[q] = conn[q]
    BY <1>0, <2>1, ExitEffect DEF DepthCounts, Inside
  <2>3. TypeOK'
    BY <1>0, <2>1, <2>2 DEF AgentInv, TypeOK, ReaderPc
  <2>4. ASSUME NEW q \in Runs PROVE DepthCounts(q)' /\ LifeCycle(q)'
    BY <1>0, <2>1, <2>2 DEF AgentInv, DepthCounts, LifeCycle, Inside
  <2> QED BY <2>3, <2>4 DEF AgentInv
<1>4. CASE ReadEof(r) \/ ReadFails(r)
  <2>1. PICK pc \in {"ended", "failed"} :
          /\ reader[r] = "read" /\ reader' = [reader EXCEPT ![r] = pc]
          /\ UNCHANGED <<chat, run, cli, pump, conn>>
    BY <1>4 DEF ReadEof, ReadFails, ReaderBecomes
  <2>2. TypeOK'
    BY <1>0, <2>1 DEF AgentInv, TypeOK, ReaderPc
  <2>3. ASSUME NEW q \in Runs PROVE DepthCounts(q)' /\ LifeCycle(q)'
    BY <1>0, <2>1 DEF AgentInv, DepthCounts, LifeCycle, Inside
  <2> QED BY <2>2, <2>3 DEF AgentInv
<1> QED BY <1>1, <1>2, <1>3, <1>4 DEF ReaderStep

\* The pump's steps.
LEMMA PumpStepAgent ==
  ASSUME AgentInv, NEW r \in Runs, PumpStep(r)
  PROVE  AgentInv'
<1>0. /\ cli \in [Runs -> Cli] /\ cli[r] \in Cli
      /\ run \in [Runs -> Run] /\ run[r] \in Run
      /\ pump \in [Runs -> Pump] /\ pump[r] \in Pump
      /\ chat \in [Messages -> ChatStatus]
      /\ DepthCounts(r) /\ LifeCycle(r)
      /\ Queued \subseteq Messages
  BY DEF AgentInv, TypeOK, Queued
<1>1. /\ UNCHANGED <<reader, conn>>
      /\ pump[r].pc # "off"
      /\ \E pc \in {"poll", "decide", "write", "ack", "clear", "close", "done"},
            unsent \in SUBSET Messages, sent \in SUBSET Messages :
              PumpBecomes(r, pc, unsent, sent)
  <2> DEFINE Becomes(pc, unsent, sent) == PumpBecomes(r, pc, unsent, sent)
  <2>1. CASE PumpPolls(r)
    <3>1. \/ Becomes("close", {}, {}) \/ Becomes("write", Queued, {}) \/ Becomes("decide", {}, {})
      BY <2>1 DEF PumpPolls
    <3> QED BY <1>0, <2>1, <3>1 DEF PumpPolls
  <2>2. CASE PumpDecides(r)
    <3>1. Becomes("close", {}, {}) \/ Becomes("poll", {}, {})
      BY <2>2 DEF PumpDecides
    <3> QED BY <2>2, <3>1 DEF PumpDecides
  <2>3. CASE PumpWrites(r)
    <3>1. \/ Becomes("ack", pump[r].unsent, pump[r].sent)
          \/ \E m \in pump[r].unsent :
               \/ Becomes("ack", pump[r].unsent \ {m}, pump[r].sent \cup {m})
               \/ Becomes("write", pump[r].unsent \ {m}, pump[r].sent \cup {m})
      BY <2>3 DEF PumpWrites
    <3>2. /\ pump[r].unsent \in SUBSET Messages /\ pump[r].sent \in SUBSET Messages
          /\ \A m \in pump[r].unsent : /\ pump[r].unsent \ {m} \in SUBSET Messages
                                       /\ pump[r].sent \cup {m} \in SUBSET Messages
      BY <1>0 DEF Pump
    <3> QED BY <2>3, <3>1, <3>2 DEF PumpWrites
  <2>4. CASE PumpAcks(r)
    <3>1. Becomes("close", {}, {}) \/ Becomes("clear", {}, {})
      BY <2>4 DEF PumpAcks
    <3> QED BY <2>4, <3>1 DEF PumpAcks
  <2>5. CASE PumpClears(r)
    BY <2>5 DEF PumpClears
  <2>6. CASE PumpCloses(r)
    BY <2>6 DEF PumpCloses
  <2> QED BY <2>1, <2>2, <2>3, <2>4, <2>5, <2>6 DEF PumpStep
<1>2. pump' \in [Runs -> Pump] /\ \A q \in Runs \ {r} : pump'[q] = pump[q]
  BY <1>0, <1>1 DEF PumpBecomes, Pump
<1>3. /\ cli' \in [Runs -> Cli] /\ cli'[r].pc = cli[r].pc
      /\ \A q \in Runs \ {r} : cli'[q] = cli[q]
  <2>1. CASE \E m \in Messages : TypesTurn(r, m)
    <3>1. PICK m \in Messages : TypesTurn(r, m)
      BY <2>1
    <3> DEFINE rec == [cli[r] EXCEPT !.turns = Append(cli[r].turns, m),
                                     !.rushed = cli[r].rushed \/ ~Quiet(r)]
    <3>2. Append(cli[r].turns, m) \in Seq(Messages \cup {Prompt})
      BY <1>0 DEF Cli
    <3>3. rec \in Cli /\ rec.pc = cli[r].pc
      <4>1. rec.rushed \in BOOLEAN
        BY <1>0 DEF Cli
      <4> QED BY <1>0, <3>2, <4>1 DEF Cli
    <3>4. cli' = [cli EXCEPT ![r] = rec]
      BY <3>1 DEF TypesTurn
    <3> QED BY <1>0, <3>3, <3>4
  <2>2. CASE cli' = [cli EXCEPT ![r].eof = TRUE]
    BY <1>0, <2>2 DEF Cli
  <2>3. CASE UNCHANGED cli
    BY <1>0, <2>3
  <2> QED BY <1>0, <2>1, <2>2, <2>3 DEF PumpStep, PumpPolls, PumpDecides, PumpWrites,
          PumpAcks, PumpClears, PumpCloses, Pump
<1>4. /\ run' \in [Runs -> Run]
      /\ \A q \in Runs : run'[q].pc = run[q].pc /\ run'[q].outcome = run[q].outcome
  <2>1. CASE PumpClears(r)
    BY <1>0, <2>1 DEF PumpClears, ResultCleared, Run
  <2>2. CASE UNCHANGED run
    BY <1>0, <2>2
  <2> QED BY <2>1, <2>2 DEF PumpStep, PumpPolls, PumpDecides, PumpWrites, PumpAcks, PumpCloses
<1>5. chat' \in [Messages -> ChatStatus]
  BY <1>0 DEF PumpStep, PumpPolls, PumpDecides, PumpWrites, PumpAcks, PumpClears, PumpCloses,
     ChatStatus
<1>6. TypeOK'
  BY <1>1, <1>2, <1>3, <1>4, <1>5 DEF AgentInv, TypeOK
<1>7. ASSUME NEW q \in Runs PROVE DepthCounts(q)' /\ LifeCycle(q)'
  <2>1. run[r].pc \notin {"off", "prompt"}
    BY <1>0, <1>1 DEF LifeCycle
  <2> QED BY <1>0, <1>1, <1>2, <1>3, <1>4, <2>1 DEF AgentInv, DepthCounts, LifeCycle
<1> QED BY <1>6, <1>7 DEF AgentInv

\* A run moves on: the outcome is decided exactly when the watch ends.
LEMMA RunMoves ==
  ASSUME AgentInv, NEW r \in Runs, NEW rn \in Run, run' = [run EXCEPT ![r] = rn],
         rn.outcome = "none" <=> rn.pc \in {"off", "prompt", "watch", "polling"}
  PROVE  /\ run' \in [Runs -> Run]
         /\ \A q \in Runs : run'[q].outcome = "none" <=> run'[q].pc \in {"off", "prompt", "watch", "polling"}
         /\ run'[r] = rn
         /\ \A q \in Runs \ {r} : run'[q] = run[q]
BY DEF AgentInv, TypeOK

\* The CLI ends, or is terminated with its tree.
CliKilled(r) == \E writers \in SUBSET {"cli", "tool"} : CliGoes(r, writers)

LEMMA KillsCli ==
  ASSUME AgentInv, NEW r \in Runs, CliEnds(r) \/ TreeEnds(r)
  PROVE  CliKilled(r)
<1>1. cli[r].writers \ {"cli"} \in SUBSET {"cli", "tool"} /\ {} \in SUBSET {"cli", "tool"}
  BY DEF AgentInv, TypeOK, Cli
<1>2. CASE CliEnds(r)
  BY <1>1, <1>2 DEF CliEnds, CliKilled
<1>3. CASE TreeEnds(r)
  BY <1>1, <1>2, <1>3 DEF TreeEnds, CliEnds, CliKilled
<1> QED BY <1>2, <1>3

\* The slot's steps but Launch and PromptSent either keep the CLI or terminate it.
LEMMA CliMoves ==
  ASSUME AgentInv, NEW r \in Runs, UNCHANGED cli \/ CliKilled(r)
  PROVE  /\ cli' \in [Runs -> Cli]
         /\ \A q \in Runs \ {r} : cli'[q] = cli[q]
         /\ CliKilled(r) => cli'[r].pc = "gone"
         /\ cli'[r].pc \in {cli[r].pc, "gone"}
         /\ cli'[r].turns = cli[r].turns /\ cli'[r].taken = cli[r].taken
         /\ cli'[r].eof = cli[r].eof /\ cli'[r].out = cli[r].out
         /\ cli'[r].rushed = cli[r].rushed
<1>1. cli \in [Runs -> Cli] /\ cli[r] \in Cli
  BY DEF AgentInv, TypeOK
<1>2. CASE CliKilled(r)
  <2>1. PICK writers \in SUBSET {"cli", "tool"} : CliGoes(r, writers)
    BY <1>2 DEF CliKilled
  <2> DEFINE rec == [cli[r] EXCEPT !.pc = "gone", !.writers = writers]
  <2>2. /\ rec \in Cli /\ rec.pc = "gone" /\ rec.turns = cli[r].turns /\ rec.eof = cli[r].eof
        /\ rec.taken = cli[r].taken /\ rec.out = cli[r].out /\ rec.rushed = cli[r].rushed
    BY <1>1 DEF Cli
  <2>3. cli' = [cli EXCEPT ![r] = rec]
    BY <2>1 DEF CliGoes
  <2> HIDE DEF rec
  <2> QED BY <1>1, <2>2, <2>3
<1>3. CASE UNCHANGED cli /\ ~CliKilled(r)
  BY <1>1, <1>3
<1> QED BY <1>2, <1>3

\* The slot's steps.
LEMMA SlotStepAgent ==
  ASSUME AgentInv, NEW r \in Runs, SlotStep(r)
  PROVE  AgentInv'
<1>0. /\ cli \in [Runs -> Cli] /\ cli[r] \in Cli
      /\ run \in [Runs -> Run] /\ run[r] \in Run
      /\ pump \in [Runs -> Pump]
      /\ reader \in [Runs -> ReaderPc]
      /\ conn \in [Runs -> Conn] /\ conn[r].depth \in Nat
      /\ DepthCounts(r) /\ LifeCycle(r)
      /\ "slot" \in Threads
      /\ run[r].outcome = "none" <=> run[r].pc \in {"off", "prompt", "watch", "polling"}
  BY DEF AgentInv, TypeOK, Conn, Threads
<1>1. CASE Launch(r)
  <2> DEFINE rn == [run[r] EXCEPT !.pc = "prompt", !.outcome = "none"]
  <2> DEFINE rec == [cli[r] EXCEPT !.pc = "waiting", !.writers = {"cli"}]
  <2>1. rn \in Run /\ rn.pc = "prompt" /\ rn.outcome = "none"
    BY <1>0 DEF Run
  <2>2. rec \in Cli /\ rec.turns = cli[r].turns
    BY <1>0 DEF Cli
  <2>3. run' = [run EXCEPT ![r] = rn] /\ cli' = [cli EXCEPT ![r] = rec]
    BY <1>1 DEF Launch, RunBecomes
  <2>4. run[r].pc = "off" /\ UNCHANGED <<chat, pump, reader, conn>>
    BY <1>1 DEF Launch
  <2> HIDE DEF rn, rec
  <2>5. /\ run' \in [Runs -> Run]
        /\ \A q \in Runs : run'[q].outcome = "none" <=> run'[q].pc \in {"off", "prompt", "watch", "polling"}
        /\ run'[r] = rn
        /\ \A q \in Runs \ {r} : run'[q] = run[q]
    BY <2>1, <2>3, RunMoves
  <2>6. TypeOK'
    BY <1>0, <2>2, <2>3, <2>4, <2>5 DEF AgentInv, TypeOK
  <2>7. ASSUME NEW q \in Runs PROVE DepthCounts(q)' /\ LifeCycle(q)'
    BY <1>0, <2>1, <2>2, <2>3, <2>4, <2>5 DEF AgentInv, DepthCounts, LifeCycle, Inside
  <2> QED BY <2>6, <2>7 DEF AgentInv
<1>p. CASE PromptSent(r)
  <2> DEFINE rn == [run[r] EXCEPT !.pc = "watch", !.outcome = "none"]
  <2>1. rn \in Run /\ rn.pc = "watch" /\ rn.outcome = "none"
    BY <1>0 DEF Run
  <2>2. PICK rec \in Cli : cli' = [cli EXCEPT ![r] = rec]
    <3> DEFINE rec == [cli[r] EXCEPT !.turns = <<Prompt>>]
    <3>1. <<Prompt>> \in Seq(Messages \cup {Prompt})
      OBVIOUS
    <3>2. rec \in Cli
      BY <1>0, <3>1 DEF Cli
    <3>3. cli' = [cli EXCEPT ![r] = rec] \/ cli' = [cli EXCEPT ![r] = cli[r]]
      BY <1>0, <1>p DEF PromptSent
    <3> QED BY <1>0, <3>2, <3>3
  <2>3. run' = [run EXCEPT ![r] = rn]
    BY <1>p DEF PromptSent, RunBecomes
  <2>4. /\ run[r].pc = "prompt"
        /\ pump' \in [Runs -> Pump] /\ \A q \in Runs \ {r} : pump'[q] = pump[q]
        /\ reader' = [reader EXCEPT ![r] = "read"]
        /\ UNCHANGED <<chat, conn>>
    BY <1>0, <1>p DEF PromptSent, PumpBecomes, Pump, ReaderBecomes
  <2> HIDE DEF rn
  <2>5. /\ run' \in [Runs -> Run]
        /\ \A q \in Runs : run'[q].outcome = "none" <=> run'[q].pc \in {"off", "prompt", "watch", "polling"}
        /\ run'[r] = rn
        /\ \A q \in Runs \ {r} : run'[q] = run[q]
    BY <2>1, <2>3, RunMoves
  <2>6. TypeOK'
    BY <1>0, <2>2, <2>4, <2>5 DEF AgentInv, TypeOK, ReaderPc
  <2>7. ASSUME NEW q \in Runs PROVE DepthCounts(q)' /\ LifeCycle(q)'
    BY <1>0, <2>1, <2>2, <2>4, <2>5 DEF AgentInv, DepthCounts, LifeCycle, Inside
  <2> QED BY <2>6, <2>7 DEF AgentInv
<1>2. ASSUME NEW rn \in Run, run' = [run EXCEPT ![r] = rn],
             rn.pc \notin {"off", "prompt"}, run[r].pc \notin {"off", "prompt"},
             rn.outcome = "none" <=> rn.pc \in {"watch", "polling"},
             UNCHANGED <<chat, pump, reader>>,
             UNCHANGED cli \/ CliKilled(r),
             conn' \in [Runs -> Conn],
             \A q \in Runs \ {r} : conn'[q] = conn[q],
             conn'[r].depth = Inside(rn.pc = "polling") + Inside(reader[r] = "logging"),
             rn.pc = "stopping" =>
               /\ rn.outcome \in {"exit", "crashed", "killed", "timeout"}
               /\ rn.outcome \in {"killed", "timeout"} => cli'[r].pc = "gone",
             rn.pc = "returned" /\ rn.outcome # "aborted" => cli'[r].pc = "gone"
      PROVE  AgentInv'
  <2>1. /\ run' \in [Runs -> Run]
        /\ \A q \in Runs : run'[q].outcome = "none" <=> run'[q].pc \in {"off", "prompt", "watch", "polling"}
        /\ run'[r] = rn
        /\ \A q \in Runs \ {r} : run'[q] = run[q]
    BY <1>2, RunMoves
  <2>2. /\ cli' \in [Runs -> Cli]
        /\ \A q \in Runs \ {r} : cli'[q] = cli[q]
        /\ cli'[r].pc \in {cli[r].pc, "gone"}
    BY <1>2, CliMoves
  <2>3. TypeOK'
    BY <1>0, <1>2, <2>1, <2>2 DEF AgentInv, TypeOK
  <2>4. ASSUME NEW q \in Runs PROVE DepthCounts(q)' /\ LifeCycle(q)'
    BY <1>0, <1>2, <2>1, <2>2 DEF AgentInv, DepthCounts, LifeCycle
  <2> QED BY <2>3, <2>4 DEF AgentInv
<1>3. ASSUME NEW pc \in {"watch", "polling", "returned"},
             NEW outcome \in {"none", "ok", "failed", "crashed", "killed", "timeout", "aborted"},
             RunBecomes(r, pc, outcome)
      PROVE  \E rn \in Run : /\ run' = [run EXCEPT ![r] = rn]
                             /\ rn.pc = pc /\ rn.outcome = outcome
  <2> DEFINE rn == [run[r] EXCEPT !.pc = pc, !.outcome = outcome]
  <2>1. rn \in Run /\ rn.pc = pc /\ rn.outcome = outcome
    BY <1>0 DEF Run
  <2> QED BY <1>3, <2>1 DEF RunBecomes
<1>4. ASSUME NEW outcome \in {"exit", "crashed", "killed", "timeout"},
             Stops(r, outcome)
      PROVE  \E rn \in Run : /\ run' = [run EXCEPT ![r] = rn]
                             /\ rn.pc = "stopping" /\ rn.outcome = outcome
  <2> DEFINE rn == [run[r] EXCEPT !.pc = "stopping", !.outcome = outcome, !.stop = TRUE]
  <2>1. rn \in Run /\ rn.pc = "stopping" /\ rn.outcome = outcome
    BY <1>0 DEF Run
  <2> QED BY <1>4, <2>1 DEF Stops
<1>5. CASE PollBegins(r)
  <2>1. /\ run[r].pc = "watch" /\ EnterBlock(r, "slot") /\ RunBecomes(r, "polling", "none")
        /\ UNCHANGED <<chat, cli, pump, reader>>
    BY <1>5 DEF PollBegins
  <2>2. PICK rn \in Run : /\ run' = [run EXCEPT ![r] = rn]
                          /\ rn.pc = "polling" /\ rn.outcome = "none"
    BY <1>3, <2>1
  <2>3. /\ conn' \in [Runs -> Conn] /\ conn'[r].depth = conn[r].depth + 1
        /\ \A q \in Runs \ {r} : conn'[q] = conn[q]
    BY <1>0, <2>1, EnterEffect
  <2>4. conn'[r].depth = Inside(rn.pc = "polling") + Inside(reader[r] = "logging")
    BY <1>0, <2>1, <2>2, <2>3 DEF DepthCounts, Inside
  <2> QED BY <1>2, <2>1, <2>2, <2>3, <2>4
<1>6. ASSUME run[r].pc = "polling", ExitBlock(r, "slot"), NEW rn \in Run, rn.pc # "polling"
      PROVE  /\ conn' \in [Runs -> Conn] /\ \A q \in Runs \ {r} : conn'[q] = conn[q]
             /\ conn'[r].depth = Inside(rn.pc = "polling") + Inside(reader[r] = "logging")
  <2>1. conn[r].depth > 0
    BY <1>0, <1>6 DEF DepthCounts, Inside
  <2>2. /\ conn' \in [Runs -> Conn] /\ conn'[r].depth = conn[r].depth - 1
        /\ \A q \in Runs \ {r} : conn'[q] = conn[q]
    BY <1>0, <1>6, <2>1, ExitEffect
  <2> QED BY <1>0, <1>6, <2>2 DEF DepthCounts, Inside
<1>7. CASE PollFindsNothing(r)
  <2>1. /\ run[r].pc = "polling" /\ ExitBlock(r, "slot") /\ RunBecomes(r, "watch", "none")
        /\ UNCHANGED <<chat, cli, pump, reader>>
    BY <1>7 DEF PollFindsNothing
  <2>2. PICK rn \in Run : /\ run' = [run EXCEPT ![r] = rn]
                          /\ rn.pc = "watch" /\ rn.outcome = "none"
    BY <1>3, <2>1
  <2> QED BY <1>2, <1>6, <2>1, <2>2
<1>8. CASE PollFindsKill(r)
  <2>1. /\ run[r].pc = "polling" /\ ExitBlock(r, "slot") /\ Stops(r, "killed")
        /\ CliKilled(r)
        /\ UNCHANGED <<chat, pump, reader>>
    BY <1>8, KillsCli DEF PollFindsKill
  <2>2. PICK rn \in Run : /\ run' = [run EXCEPT ![r] = rn]
                          /\ rn.pc = "stopping" /\ rn.outcome = "killed"
    BY <1>4, <2>1
  <2> QED BY <1>2, <1>6, <2>1, <2>2, CliMoves
<1>9. CASE PollAborts(r)
  <2>1. /\ run[r].pc = "polling" /\ ExitBlock(r, "slot") /\ RunBecomes(r, "returned", "aborted")
        /\ UNCHANGED <<chat, cli, pump, reader>>
    BY <1>9 DEF PollAborts
  <2>2. PICK rn \in Run : /\ run' = [run EXCEPT ![r] = rn]
                          /\ rn.pc = "returned" /\ rn.outcome = "aborted"
    BY <1>3, <2>1
  <2> QED BY <1>2, <1>6, <2>1, <2>2
<1>10. ASSUME run[r].pc \in {"watch", "stopping"}, NEW rn \in Run, rn.pc # "polling", UNCHANGED conn
       PROVE  /\ conn' \in [Runs -> Conn] /\ \A q \in Runs \ {r} : conn'[q] = conn[q]
              /\ conn'[r].depth = Inside(rn.pc = "polling") + Inside(reader[r] = "logging")
  BY <1>0, <1>10 DEF DepthCounts, Inside
<1>11. CASE DeadlinePasses(r)
  <2>1. /\ run[r].pc = "watch" /\ Stops(r, "timeout") /\ CliKilled(r)
        /\ UNCHANGED <<chat, pump, reader, conn>>
    BY <1>11, KillsCli DEF DeadlinePasses
  <2>2. PICK rn \in Run : /\ run' = [run EXCEPT ![r] = rn]
                          /\ rn.pc = "stopping" /\ rn.outcome = "timeout"
    BY <1>4, <2>1
  <2> QED BY <1>2, <1>10, <2>1, <2>2, CliMoves
<1>12. CASE ReaderJoined(r)
  <2>1. PICK outcome \in {"exit", "crashed"} :
          /\ run[r].pc = "watch" /\ Stops(r, outcome)
          /\ UNCHANGED <<chat, cli, pump, reader, conn>>
    BY <1>12 DEF ReaderJoined
  <2>2. PICK rn \in Run : /\ run' = [run EXCEPT ![r] = rn]
                          /\ rn.pc = "stopping" /\ rn.outcome = outcome
    BY <1>4, <2>1
  <2> QED BY <1>2, <1>10, <2>1, <2>2
<1>13. CASE Return(r)
  <2>1. PICK outcome \in {"ok", "failed", "crashed", "killed", "timeout", "aborted"} :
          /\ RunBecomes(r, "returned", outcome)
          /\ run[r].outcome = "exit" => cli[r].pc = "gone"
    BY <1>0, <1>13 DEF Return, ExitCode, ExitKnown, Run
  <2>2. /\ run[r].pc = "stopping"
        /\ IF KillsCrashed(r) THEN CliKilled(r) ELSE UNCHANGED cli
        /\ UNCHANGED <<chat, pump, reader, conn>>
    BY <1>13, KillsCli DEF Return
  <2>3. PICK rn \in Run : /\ run' = [run EXCEPT ![r] = rn]
                          /\ rn.pc = "returned" /\ rn.outcome = outcome
    BY <1>3, <2>1
  <2>4. cli'[r].pc = "gone"
    <3>1. CASE KillsCrashed(r)
      BY <2>2, <3>1, CliMoves
    <3>2. CASE ~KillsCrashed(r)
      BY <1>0, <2>1, <2>2, <3>2 DEF KillsCrashed, LifeCycle
    <3> QED BY <3>1, <3>2
  <2> QED BY <1>2, <1>10, <2>1, <2>2, <2>3, <2>4
<1> QED BY <1>1, <1>p, <1>5, <1>7, <1>8, <1>9, <1>11, <1>12, <1>13 DEF SlotStep

\* The invariant is inductive.
LEMMA NextAgent == AgentInv /\ [Next]_vars => AgentInv'
<1> SUFFICES ASSUME AgentInv, [Next]_vars PROVE AgentInv'
  OBVIOUS
<1>1. CASE UNCHANGED vars
  BY <1>1 DEF vars, AgentInv, TypeOK, DepthCounts, LifeCycle
<1>2. ASSUME NEW r \in Runs, AskKill(r) PROVE AgentInv'
  <2>1. run[r] \in Run
    BY DEF AgentInv, TypeOK
  <2> DEFINE rn == [run[r] EXCEPT !.kill = TRUE]
  <2>2. /\ rn \in Run /\ rn.pc = run[r].pc /\ rn.outcome = run[r].outcome
    BY <2>1 DEF Run
  <2>3. run' = [run EXCEPT ![r] = rn] /\ UNCHANGED <<chat, cli, pump, reader, conn>>
    BY <1>2 DEF AskKill
  <2> HIDE DEF rn
  <2> QED BY <2>2, <2>3 DEF AgentInv, TypeOK, DepthCounts, LifeCycle
<1>3. ASSUME NEW m \in Messages, SendChat(m) PROVE AgentInv'
  BY <1>3 DEF SendChat, AgentInv, TypeOK, DepthCounts, LifeCycle, ChatStatus
<1> QED BY <1>1, <1>2, <1>3, CliStepAgent, ReaderStepAgent, PumpStepAgent, SlotStepAgent
        DEF Next, Over

LEMMA AgentCorrect == Spec => []AgentInv
<1> QED BY InitAgent, NextAgent, PTL DEF Spec

\* Rows, threads, pipes and the connection's nesting stay well formed for any
\* number of runs of a ticket, and a run has an outcome exactly once it is over.
THEOREM TypeCorrect == Spec => []TypeOK
<1>1. AgentInv => TypeOK
  BY DEF AgentInv
<1> QED BY <1>1, AgentCorrect, PTL

\* A slot that goes on leaves no agent behind, unless an exception came out of
\* its kill poll.
THEOREM AbortsLeaveAgents == Spec => []OnlyAbortLeavesAgent
<1>1. AgentInv => OnlyAbortLeavesAgent
  BY DEF AgentInv, LifeCycle, OnlyAbortLeavesAgent
<1> QED BY <1>1, AgentCorrect, PTL
-----------------------------------------------------------------------------
(* The inbox: what was delivered was written, in typing order.              *)

RunStep(r) == CliStep(r) \/ ReaderStep(r) \/ PumpStep(r) \/ SlotStep(r) \/ AskKill(r)

\* The CLI's own steps disturb neither the threads nor what was typed.
LEMMA CliEffect ==
  ASSUME AgentInv, NEW r \in Runs, CliStep(r)
  PROVE  /\ UNCHANGED <<chat, run, pump, reader, conn>>
         /\ \A q \in Runs \ {r} : cli'[q] = cli[q]
         /\ cli'[r].turns = cli[r].turns /\ cli'[r].eof = cli[r].eof
         /\ cli'[r].rushed = cli[r].rushed
<1>0. cli \in [Runs -> Cli] /\ cli[r] \in Cli
  BY DEF AgentInv, TypeOK
<1>1. CASE TakeTurn(r)
  BY <1>0, <1>1 DEF TakeTurn, Cli
<1>2. CASE Speak(r)
  BY <1>0, <1>2 DEF Speak, Cli
<1>3. CASE Answer(r)
  BY <1>0, <1>3 DEF Answer, Cli
<1>4. CASE Leave(r)
  BY <1>0, <1>4 DEF Leave, Cli
<1>5. CASE Die(r)
  BY <1>0, <1>5 DEF Die, CliEnds, CliGoes, Cli
<1>6. CASE DropsOutput(r) \/ StartsTool(r) \/ ToolEnds(r)
  BY <1>0, <1>6 DEF DropsOutput, StartsTool, ToolEnds, HoldPipe, Cli
<1> QED BY <1>1, <1>2, <1>3, <1>4, <1>5, <1>6 DEF CliStep

\* A step of one run touches no other.
LEMMA OthersKept ==
  ASSUME AgentInv, NEW r \in Runs, RunStep(r), NEW q \in Runs \ {r}
  PROVE  run'[q] = run[q] /\ cli'[q] = cli[q] /\ pump'[q] = pump[q] /\ reader'[q] = reader[q]
<1>1. /\ run \in [Runs -> Run] /\ cli \in [Runs -> Cli]
      /\ pump \in [Runs -> Pump] /\ reader \in [Runs -> ReaderPc]
  BY DEF AgentInv, TypeOK
<1>2. CASE CliStep(r)
  BY <1>2, CliEffect
<1>3. CASE ReaderStep(r)
  BY <1>1, <1>3 DEF ReaderStep, ReadLine, LogBegins, LogEnds, ReadEof, ReadFails, ReaderBecomes
<1>4. CASE PumpStep(r)
  <2>1. ASSUME NEW m, TypesTurn(r, m) PROVE cli'[q] = cli[q]
    BY <1>1, <2>1 DEF TypesTurn
  <2>2. CASE PumpWrites(r)
    BY <1>1, <2>1, <2>2 DEF PumpWrites, PumpBecomes
  <2> QED BY <1>1, <1>4, <2>2 DEF PumpStep, PumpPolls, PumpDecides, PumpAcks, PumpClears, PumpCloses,
          PumpBecomes
<1>5. CASE SlotStep(r)
  BY <1>1, <1>5 DEF SlotStep, Launch, PromptSent, PollBegins, PollFindsNothing, PollFindsKill,
     PollAborts, DeadlinePasses, ReaderJoined, Return, RunBecomes, Stops, TreeEnds, CliEnds,
     CliGoes, PumpBecomes, ReaderBecomes
<1>6. CASE AskKill(r)
  BY <1>1, <1>6 DEF AskKill
<1> QED BY <1>2, <1>3, <1>4, <1>5, <1>6 DEF RunStep

\* Every step is a run's, a message sent, or none.
LEMMA Steps ==
  ASSUME [Next]_vars
  PROVE  \/ UNCHANGED vars
         \/ \E r \in Runs : RunStep(r)
         \/ \E m \in Messages : SendChat(m)
BY DEF Next, Over, RunStep

\* The pump types m to its agent.
Types(r, m) ==
  /\ m \in pump[r].unsent /\ OldestFirst(m, pump[r].unsent)
  /\ cli'[r].turns = Append(cli[r].turns, m)
  /\ pump'[r].sent = pump[r].sent \cup {m}
  /\ pump'[r].unsent = pump[r].unsent \ {m}

\* A write goes through or breaks.
LEMMA WriteEffect ==
  ASSUME AgentInv, NEW r \in Runs, PumpWrites(r)
  PROVE  \/ /\ cli' = cli /\ pump'[r].sent = pump[r].sent
            /\ pump'[r].unsent = pump[r].unsent
         \/ \E m \in Messages : Types(r, m)
<1>1. cli \in [Runs -> Cli] /\ cli[r] \in Cli /\ pump \in [Runs -> Pump] /\ pump[r] \in Pump
  BY DEF AgentInv, TypeOK
<1>2. CASE PumpBecomes(r, "ack", pump[r].unsent, pump[r].sent) /\ UNCHANGED cli
  BY <1>1, <1>2 DEF PumpBecomes
<1>3. ASSUME NEW m \in pump[r].unsent,
             OldestFirst(m, pump[r].unsent),
             TypesTurn(r, m),
             PumpBecomes(r, IF pump[r].unsent = {m} THEN "ack" ELSE "write",
                         pump[r].unsent \ {m}, pump[r].sent \cup {m})
      PROVE  m \in Messages /\ Types(r, m)
  <2>1. m \in Messages /\ cli'[r].turns = Append(cli[r].turns, m)
    BY <1>1, <1>3 DEF TypesTurn, Cli, Pump
  <2>2. pump'[r].sent = pump[r].sent \cup {m} /\ pump'[r].unsent = pump[r].unsent \ {m}
    BY <1>1, <1>3 DEF PumpBecomes
  <2> QED BY <1>3, <2>1, <2>2 DEF Types
<1> QED BY <1>2, <1>3 DEF PumpWrites

\* What was typed to an agent only grows, by its first prompt and by the
\* oldest message the pump still holds.
LEMMA TurnsEffect ==
  ASSUME AgentInv, NEW r \in Runs, RunStep(r)
  PROVE  \/ cli'[r].turns = cli[r].turns
         \/ cli[r].turns = <<>> /\ cli'[r].turns = <<Prompt>>
         \/ \E m \in Messages : Types(r, m)
<1>1. cli \in [Runs -> Cli] /\ cli[r] \in Cli /\ pump \in [Runs -> Pump] /\ LifeCycle(r)
  BY DEF AgentInv, TypeOK
<1>2. CASE CliStep(r)
  BY <1>2, CliEffect
<1>3. CASE ReaderStep(r)
  BY <1>1, <1>3 DEF ReaderStep, ReadLine, LogBegins, LogEnds, ReadEof, ReadFails, Cli
<1>4. CASE PumpStep(r)
  <2>1. CASE PumpWrites(r)
    BY <2>1, WriteEffect
  <2>2. CASE PumpCloses(r)
    BY <1>1, <2>2 DEF PumpCloses, Cli
  <2> QED BY <1>4, <2>1, <2>2 DEF PumpStep, PumpPolls, PumpDecides, PumpAcks, PumpClears
<1>5. CASE SlotStep(r)
  <2>1. CASE Launch(r)
    BY <1>1, <2>1 DEF Launch, Cli
  <2>2. CASE PromptSent(r)
    BY <1>1, <2>2 DEF PromptSent, LifeCycle, Cli
  <2>3. CASE UNCHANGED cli \/ CliKilled(r)
    BY <2>3, CliMoves
  <2> QED BY <1>5, <2>1, <2>2, <2>3, KillsCli DEF SlotStep, PollBegins, PollFindsNothing, PollFindsKill,
          PollAborts, DeadlinePasses, ReaderJoined, Return
<1>6. CASE AskKill(r)
  BY <1>6 DEF AskKill
<1> QED BY <1>2, <1>3, <1>4, <1>5, <1>6 DEF RunStep

\* Appending one message.
LEMMA WrittenAppends ==
  ASSUME NEW s \in Seq(Messages \cup {Prompt}), NEW m \in Messages
  PROVE  LET t == Append(s, m)
         IN  /\ Len(t) = Len(s) + 1 /\ t[Len(s) + 1] = m
             /\ DOMAIN t = 1..(Len(s) + 1) /\ DOMAIN s = 1..Len(s)
             /\ \A i \in 1..Len(s) : t[i] = s[i]
             /\ {t[i] : i \in DOMAIN t} = {s[i] : i \in DOMAIN s} \cup {m}
<1> DEFINE t == Append(s, m)
<1>1. /\ Len(t) = Len(s) + 1 /\ t[Len(s) + 1] = m
      /\ DOMAIN t = 1..(Len(s) + 1) /\ DOMAIN s = 1..Len(s) /\ Len(s) \in Nat
      /\ \A i \in 1..Len(s) : t[i] = s[i]
  OBVIOUS
<1> HIDE DEF t
<1>2. {t[i] : i \in DOMAIN t} = {s[i] : i \in DOMAIN s} \cup {m}
  BY <1>1
<1> QED BY <1>1, <1>2 DEF t

\* What an agent was handed stays handed.
LEMMA WrittenGrows ==
  ASSUME AgentInv, [Next]_vars, NEW q \in Runs
  PROVE  Written(q) \subseteq Written(q)'
<1>1. CASE cli'[q].turns = cli[q].turns
  BY <1>1 DEF Written
<1>2. ASSUME RunStep(q) PROVE Written(q) \subseteq Written(q)'
  <2>1. CASE cli[q].turns = <<>>
    BY <2>1 DEF Written
  <2>2. ASSUME NEW m \in Messages, Types(q, m)
        PROVE  Written(q) \subseteq Written(q)'
    <3>1. cli[q].turns \in Seq(Messages \cup {Prompt})
      BY DEF AgentInv, TypeOK, Cli
    <3>2. LET t == Append(cli[q].turns, m)
          IN  {t[i] : i \in DOMAIN t} = {cli[q].turns[i] : i \in DOMAIN cli[q].turns} \cup {m}
      BY <3>1, WrittenAppends, Zenon
    <3>3. cli'[q].turns = Append(cli[q].turns, m)
      BY <2>2 DEF Types
    <3>4. {cli'[q].turns[i] : i \in DOMAIN cli'[q].turns}
            = {cli[q].turns[i] : i \in DOMAIN cli[q].turns} \cup {m}
      BY <3>2, <3>3, Zenon
    <3> QED BY <3>4 DEF Written
  <2> QED BY <1>1, <1>2, <2>1, <2>2, TurnsEffect
<1>3. RunStep(q) \/ cli'[q] = cli[q]
  BY Steps, OthersKept DEF vars, SendChat
<1> QED BY <1>1, <1>2, <1>3

Handed(m) == \E r \in Runs : m \in Written(r)

\* Ids are handed out in order.
ChatInOrder ==
  \A m, n \in Messages : m < n /\ chat[n] # "absent" => chat[m] # "absent"

\* What the pump holds: it typed all it counts as sent, and whatever is older
\* than a message it has still to type is typed first or was typed to someone.
Holds(r) ==
  /\ pump[r].sent \subseteq Written(r)
  /\ \A m \in pump[r].sent \cup pump[r].unsent : chat[m] # "absent"
  /\ \A m \in pump[r].unsent, n \in Messages : n < m => n \in pump[r].unsent \/ Handed(n)

InboxInv ==
  /\ AgentInv /\ ChatInOrder /\ DeliveredWasWritten /\ TypedOrder
  /\ \A r \in Runs : Holds(r)

\* Init satisfies it.
LEMMA InitInbox == Init => InboxInv
<1> SUFFICES ASSUME Init PROVE InboxInv
  OBVIOUS
<1>1. ChatInOrder /\ DeliveredWasWritten /\ TypedOrder /\ \A r \in Runs : Holds(r)
  BY DEF Init, ChatInOrder, DeliveredWasWritten, TypedOrder, Holds, Written
<1> QED BY <1>1, InitAgent DEF InboxInv

\* What happens to the inbox: a message is sent, or the pump of a run
\* acknowledges what it typed.
LEMMA ChatEffect ==
  ASSUME AgentInv, [Next]_vars
  PROVE  \/ chat' = chat
         \/ \E m \in Messages : SendChat(m)
         \/ \E r \in Runs : chat' = [m \in Messages |-> IF m \in pump[r].sent THEN "delivered"
                                                        ELSE chat[m]]
<1>1. CASE UNCHANGED vars
  BY <1>1 DEF vars
<1>2. ASSUME NEW r \in Runs, RunStep(r), chat' # chat
      PROVE  chat' = [m \in Messages |-> IF m \in pump[r].sent THEN "delivered" ELSE chat[m]]
  BY <1>2, CliEffect DEF RunStep,
     ReaderStep, ReadLine, LogBegins, LogEnds, ReadEof, ReadFails,
     PumpStep, PumpPolls, PumpDecides, PumpWrites, PumpAcks, PumpClears, PumpCloses, AckBatch,
     SlotStep, Launch, PromptSent, PollBegins, PollFindsNothing, PollFindsKill, PollAborts,
     DeadlinePasses, ReaderJoined, Return, AskKill
<1> QED BY <1>1, <1>2, Steps

\* What a pump holds changes by a poll, by a message typed, or is let go.
LEMMA PumpEffect ==
  ASSUME AgentInv, NEW r \in Runs, RunStep(r)
  PROVE  \/ pump'[r].sent = pump[r].sent /\ pump'[r].unsent = pump[r].unsent
         \/ pump'[r].sent = {} /\ pump'[r].unsent \in {{}, Queued}
         \/ \E m \in Messages : Types(r, m)
<1>1. pump \in [Runs -> Pump]
  BY DEF AgentInv, TypeOK
<1>2. CASE PumpStep(r)
  BY <1>1, <1>2, WriteEffect
     DEF PumpStep, PumpPolls, PumpDecides, PumpAcks, PumpClears, PumpCloses, PumpBecomes
<1>3. CASE PromptSent(r)
  BY <1>1, <1>3 DEF PromptSent, PumpBecomes
<1>4. CASE UNCHANGED pump
  BY <1>4
<1> QED BY <1>2, <1>3, <1>4, CliEffect DEF RunStep,
        ReaderStep, ReadLine, LogBegins, LogEnds, ReadEof, ReadFails,
        SlotStep, Launch, PollBegins, PollFindsNothing, PollFindsKill, PollAborts,
        DeadlinePasses, ReaderJoined, Return, AskKill

\* TypedOrder of one run.
OrderOf(r) ==
  \A i \in DOMAIN cli[r].turns : \A m \in Messages :
    m < cli[r].turns[i] =>
      \/ \E j \in 1..(i - 1) : cli[r].turns[j] = m
      \/ \E other \in Runs \ {r} : m \in Written(other)

\* Typing the oldest message held keeps the order: what is older is not held
\* any more, so it was handed to this agent before or to another one.
LEMMA OrderAppends ==
  ASSUME AgentInv, NEW r \in Runs, NEW m \in Messages, Types(r, m), OrderOf(r), Holds(r),
         \A q \in Runs : Written(q) \subseteq Written(q)'
  PROVE  OrderOf(r)'
<1> DEFINE s == cli[r].turns
           t == cli'[r].turns
<1>1. s \in Seq(Messages \cup {Prompt}) /\ t = Append(s, m)
  BY DEF AgentInv, TypeOK, Cli, Types
<1>2. /\ t[Len(s) + 1] = m /\ Len(s) \in Nat
      /\ DOMAIN t = 1..(Len(s) + 1) /\ DOMAIN s = 1..Len(s)
      /\ \A i \in 1..Len(s) : t[i] = s[i]
  BY <1>1, WrittenAppends
<1>3. Written(r) = {s[i] : i \in DOMAIN s}
  BY DEF Written
<1> SUFFICES ASSUME NEW i \in DOMAIN t, NEW k \in Messages, k < t[i]
             PROVE  \/ \E j \in 1..(i - 1) : t[j] = k
                    \/ \E other \in Runs \ {r} : k \in Written(other)'
  BY DEF OrderOf
<1> HIDE DEF s, t
<1>4. CASE i \in 1..Len(s)
  <2>1. k < s[i] /\ i \in DOMAIN s
    BY <1>2, <1>4
  <2>2. \/ \E j \in 1..(i - 1) : s[j] = k
        \/ \E other \in Runs \ {r} : k \in Written(other)
    BY <2>1 DEF OrderOf, s
  <2> QED BY <1>2, <1>4, <2>2
<1>5. CASE i = Len(s) + 1
  <2>1. k < m
    BY <1>2, <1>5
  <2>2. k \notin pump[r].unsent
    BY <2>1 DEF Types, OldestFirst, Messages
  <2>3. Handed(k)
    BY <2>1, <2>2 DEF Holds, Types
  <2>4. CASE k \in Written(r)
    BY <1>2, <1>3, <1>5, <2>4
  <2> QED BY <2>3, <2>4 DEF Handed
<1> QED BY <1>2, <1>4, <1>5

\* The invariant is inductive.
LEMMA NextInbox == InboxInv /\ [Next]_vars => InboxInv'
<1> SUFFICES ASSUME InboxInv, [Next]_vars PROVE InboxInv'
  OBVIOUS
<1>1. AgentInv /\ AgentInv'
  BY NextAgent DEF InboxInv
<1>2. \A q \in Runs : Written(q) \subseteq Written(q)'
  BY <1>1, WrittenGrows
<1>3. \A m \in Messages : Handed(m) => Handed(m)'
  BY <1>2 DEF Handed
<1>4. \A m \in Messages : chat[m] # "absent" => chat'[m] # "absent"
  BY <1>1, ChatEffect DEF SendChat, AgentInv, TypeOK
<1>5. ASSUME NEW m \in Messages, chat'[m] # chat[m]
      PROVE  \/ chat[m] = "absent" /\ SendChat(m)
             \/ \E r \in Runs : m \in pump[r].sent
  BY <1>1, <1>5, ChatEffect DEF SendChat, AgentInv, TypeOK
<1>6. ChatInOrder'
  <2> SUFFICES ASSUME NEW m \in Messages, NEW n \in Messages, m < n, chat'[n] # "absent"
               PROVE  chat'[m] # "absent"
    BY DEF ChatInOrder
  <2>1. CASE chat[n] # "absent"
    BY <1>4, <2>1 DEF InboxInv, ChatInOrder
  <2>2. CASE SendChat(n)
    BY <1>4, <2>2 DEF SendChat
  <2>3. CASE \E r \in Runs : n \in pump[r].sent
    BY <2>1, <2>3 DEF InboxInv, Holds
  <2> QED BY <1>5, <2>1, <2>2, <2>3
<1>7. DeliveredWasWritten'
  <2> SUFFICES ASSUME NEW m \in Messages, chat'[m] = "delivered" PROVE Handed(m)'
    BY DEF DeliveredWasWritten, Handed
  <2>1. CASE chat[m] = "delivered"
    BY <1>3, <2>1 DEF InboxInv, DeliveredWasWritten, Handed
  <2>2. CASE chat[m] # "delivered"
    <3>1. ~SendChat(m)
      BY <1>1 DEF SendChat, AgentInv, TypeOK
    <3>2. \E r \in Runs : m \in pump[r].sent
      BY <1>5, <2>2, <3>1
    <3> QED BY <1>3, <3>2 DEF InboxInv, Holds, Handed
  <2> QED BY <2>1, <2>2
<1>8. ASSUME NEW r \in Runs, ~RunStep(r)
      PROVE  cli'[r] = cli[r] /\ pump'[r] = pump[r]
  BY <1>1, <1>8, Steps, OthersKept DEF vars, SendChat
<1>9. ASSUME NEW r \in Runs PROVE Holds(r)'
  <2>0. Holds(r) /\ pump[r] \in Pump
    BY <1>1 DEF InboxInv, AgentInv, TypeOK
  <2>1. CASE pump'[r].sent = pump[r].sent /\ pump'[r].unsent = pump[r].unsent
    BY <1>2, <1>3, <1>4, <2>0, <2>1 DEF Holds, Pump
  <2>2. CASE pump'[r].sent = {} /\ pump'[r].unsent = {}
    BY <2>2 DEF Holds
  <2>3. CASE pump'[r].sent = {} /\ pump'[r].unsent = Queued
    <3>1. \A m \in Queued : m \in Messages /\ chat[m] # "absent"
      BY DEF Queued
    <3>2. ASSUME NEW m \in Queued, NEW n \in Messages, n < m PROVE n \in Queued \/ Handed(n)
      <4>1. chat[n] # "absent"
        BY <3>1, <3>2 DEF InboxInv, ChatInOrder
      <4>2. chat[n] \in {"queued", "delivered"}
        BY <1>1, <4>1 DEF AgentInv, TypeOK, ChatStatus
      <4> QED BY <4>2 DEF Queued, InboxInv, DeliveredWasWritten, Handed
    <3> QED BY <1>3, <1>4, <2>3, <3>1, <3>2 DEF Holds
  <2>4. ASSUME NEW m \in Messages, Types(r, m) PROVE Holds(r)'
    <3>2. /\ m \in pump[r].unsent
          /\ cli'[r].turns = Append(cli[r].turns, m)
          /\ pump'[r].sent = pump[r].sent \cup {m}
          /\ pump'[r].unsent = pump[r].unsent \ {m}
      BY <2>4 DEF Types
    <3>3. m \in Written(r)' /\ chat'[m] # "absent"
      <4>1. cli[r].turns \in Seq(Messages \cup {Prompt})
        BY <1>1 DEF AgentInv, TypeOK, Cli
      <4>2. {cli'[r].turns[i] : i \in DOMAIN cli'[r].turns}
              = {cli[r].turns[i] : i \in DOMAIN cli[r].turns} \cup {m}
        <5>1. LET t == Append(cli[r].turns, m)
              IN  {t[i] : i \in DOMAIN t} = {cli[r].turns[i] : i \in DOMAIN cli[r].turns} \cup {m}
          BY <4>1, WrittenAppends, Zenon
        <5> QED BY <3>2, <5>1, Zenon
      <4>3. m \in Written(r)'
        BY <4>2 DEF Written
      <4>4. chat'[m] # "absent"
        BY <1>4, <2>0, <3>2 DEF Holds
      <4> QED BY <4>3, <4>4
    <3>4. pump'[r].sent \subseteq Written(r)'
      BY <1>2, <2>0, <3>2, <3>3 DEF Holds
    <3>5. \A n \in pump'[r].sent \cup pump'[r].unsent : chat'[n] # "absent"
      BY <1>4, <2>0, <3>2, <3>3 DEF Holds, Pump
    <3>6. ASSUME NEW n \in pump'[r].unsent, NEW k \in Messages, k < n
          PROVE  k \in pump'[r].unsent \/ Handed(k)'
      BY <1>3, <2>0, <3>2, <3>3, <3>6 DEF Holds, Handed
    <3> QED BY <3>4, <3>5, <3>6 DEF Holds
  <2> QED BY <1>1, <1>8, <2>1, <2>2, <2>3, <2>4, PumpEffect
<1>10. TypedOrder'
  <2> SUFFICES ASSUME NEW r \in Runs PROVE OrderOf(r)'
    BY DEF TypedOrder, OrderOf
  <2>1. OrderOf(r)
    BY DEF InboxInv, TypedOrder, OrderOf
  <2>2. CASE cli'[r].turns = cli[r].turns
    BY <1>2, <2>1, <2>2 DEF OrderOf
  <2>3. CASE cli'[r].turns = <<Prompt>>
    BY <2>3 DEF OrderOf, Prompt, Messages
  <2>4. ASSUME NEW m \in Messages, Types(r, m) PROVE OrderOf(r)'
    BY <1>1, <1>2, <2>1, <2>4, OrderAppends DEF InboxInv
  <2> QED BY <1>1, <1>8, <2>2, <2>3, <2>4, TurnsEffect
<1> QED BY <1>1, <1>6, <1>7, <1>9, <1>10 DEF InboxInv

LEMMA InboxCorrect == Spec => []InboxInv
<1> QED BY InitInbox, NextInbox, PTL DEF Spec

\* A message leaves the inbox only when some agent was handed it.
THEOREM DeliveriesWereWritten == Spec => []DeliveredWasWritten
<1>1. InboxInv => DeliveredWasWritten
  BY DEF InboxInv
<1> QED BY <1>1, InboxCorrect, PTL

\* No agent gets a message ahead of an older one nobody was handed.
THEOREM TypedInOrder == Spec => []TypedOrder
<1>1. InboxInv => TypedOrder
  BY DEF InboxInv
<1> QED BY <1>1, InboxCorrect, PTL
-----------------------------------------------------------------------------
(* A finished agent is let go.                                              *)

ResultIn(out) == \E i \in 1..Len(out) : out[i] = "result"

\* What the pump did to the close decision: it lets go of stdin before it ends,
\* and forgets a result only after it typed a message. An agent that answered
\* its prompt and was typed nothing else has its result in the pipe, or seen.
LetsGo(r) ==
  /\ cli[r].taken <= Len(cli[r].turns)
  /\ run[r].pc \notin {"off", "prompt"} =>
       pump[r].pc # "off" /\ (Len(cli[r].turns) > 0 \/ cli[r].pc = "gone")
  /\ pump[r].pc = "write" => pump[r].unsent # {}
  /\ pump[r].sent # {} => Len(cli[r].turns) > 1
  /\ pump[r].pc = "ack" => pump[r].unsent # {} \/ pump[r].sent # {}
  /\ pump[r].pc = "clear" => Len(cli[r].turns) > 1
  /\ pump[r].pc = "done" => cli[r].eof
  /\ cli[r].pc = "waiting" /\ cli[r].taken = 1 /\ Len(cli[r].turns) = 1 =>
       run[r].resultSeen \/ ResultIn(cli[r].out)

HoldInv == AgentInv /\ \A r \in Runs : LetsGo(r)

LEMMA InitHold == Init => HoldInv
<1> SUFFICES ASSUME Init PROVE \A r \in Runs : LetsGo(r)
  BY InitAgent DEF HoldInv
<1> QED BY DEF Init, LetsGo

\* The pipe as a sequence of lines.
LEMMA PipeLines ==
  ASSUME NEW out \in Seq({"text", "result"})
  PROVE  /\ ResultIn(Append(out, "result"))
         /\ \A x \in {"text", "result"} : ResultIn(out) => ResultIn(Append(out, x))
         /\ out # <<>> /\ ResultIn(out) => Head(out) = "result" \/ ResultIn(Tail(out))
<1>1. Len(out) \in Nat
  OBVIOUS
<1>2. ASSUME NEW x \in {"text", "result"}
      PROVE  /\ Len(Append(out, x)) = Len(out) + 1 /\ Append(out, x)[Len(out) + 1] = x
             /\ \A i \in 1..Len(out) : Append(out, x)[i] = out[i]
  OBVIOUS
<1>3. ASSUME out # <<>>, NEW i \in 1..Len(out), out[i] = "result", Head(out) # "result"
      PROVE  ResultIn(Tail(out))
  <2>1. i # 1 /\ i - 1 \in 1..Len(Tail(out)) /\ Tail(out)[i - 1] = out[i]
    BY <1>1, <1>3
  <2> QED BY <1>3, <2>1 DEF ResultIn
<1>4. ResultIn(Append(out, "result"))
  BY <1>1, <1>2 DEF ResultIn
<1>5. ASSUME NEW x \in {"text", "result"}, ResultIn(out) PROVE ResultIn(Append(out, x))
  BY <1>1, <1>2, <1>5 DEF ResultIn
<1> QED BY <1>3, <1>4, <1>5 DEF ResultIn

\* The CLI's steps, and the reader's.
LEMMA CliLetsGo ==
  ASSUME HoldInv, NEW r \in Runs, CliStep(r) \/ ReaderStep(r)
  PROVE  LetsGo(r)'
<1>0. /\ cli \in [Runs -> Cli] /\ cli[r] \in Cli /\ run \in [Runs -> Run] /\ run[r] \in Run
      /\ LetsGo(r) /\ pump' = pump /\ cli[r].taken \in Nat /\ Len(cli[r].turns) \in Nat
      /\ cli[r].out \in Seq({"text", "result"}) /\ AgentInv
  BY CliEffect DEF HoldInv, AgentInv, TypeOK, Cli,
     ReaderStep, ReadLine, LogBegins, LogEnds, ReadEof, ReadFails
<1>1. CASE TakeTurn(r)
  <2>1. /\ run' = run /\ cli'[r].turns = cli[r].turns /\ cli'[r].eof = cli[r].eof
        /\ cli'[r].pc = "working" /\ cli'[r].taken = cli[r].taken + 1
        /\ Len(cli[r].turns) - cli[r].taken > 0
    BY <1>0, <1>1 DEF TakeTurn, Untaken, Cli
  <2> QED BY <1>0, <2>1 DEF LetsGo
<1>2. ASSUME NEW x \in {"text", "result"}, run' = run,
             cli'[r].turns = cli[r].turns, cli'[r].eof = cli[r].eof,
             cli'[r].taken = cli[r].taken, cli'[r].out = Append(cli[r].out, x),
             cli'[r].pc = cli[r].pc \/ (x = "result" /\ cli[r].pc # "gone")
      PROVE  LetsGo(r)'
  <2>1. ResultIn(cli[r].out) \/ x = "result" => ResultIn(cli'[r].out)
    BY <1>0, <1>2, PipeLines
  <2> QED BY <1>0, <1>2, <2>1 DEF LetsGo
<1>3. CASE Speak(r)
  BY <1>0, <1>2, <1>3 DEF Speak, Cli
<1>4. CASE Answer(r)
  BY <1>0, <1>2, <1>4 DEF Answer, Cli
<1>5. CASE Leave(r) \/ Die(r)
  <2>1. /\ run' = run /\ cli'[r].turns = cli[r].turns /\ cli'[r].eof = cli[r].eof
        /\ cli'[r].pc = "gone" /\ cli'[r].taken = cli[r].taken
    <3>1. CASE Leave(r)
      BY <1>0, <3>1 DEF Leave, Cli
    <3>2. CASE Die(r)
      BY <1>0, <3>2 DEF Die, CliEnds, CliGoes, Cli
    <3> QED BY <1>5, <3>1, <3>2
  <2> QED BY <1>0, <2>1 DEF LetsGo
<1>h. CASE DropsOutput(r) \/ StartsTool(r) \/ ToolEnds(r)
  <2>1. /\ run' = run /\ cli'[r].turns = cli[r].turns /\ cli'[r].eof = cli[r].eof
        /\ cli'[r].pc = cli[r].pc /\ cli'[r].taken = cli[r].taken /\ cli'[r].out = cli[r].out
    BY <1>0, <1>h DEF DropsOutput, StartsTool, ToolEnds, HoldPipe, Cli
  <2> QED BY <1>0, <2>1 DEF LetsGo
<1>6. CASE ReadLine(r)
  <2>1. /\ cli'[r].turns = cli[r].turns /\ cli'[r].eof = cli[r].eof
        /\ cli'[r].pc = cli[r].pc /\ cli'[r].taken = cli[r].taken
        /\ cli'[r].out = Tail(cli[r].out) /\ cli[r].out # <<>>
    BY <1>0, <1>6 DEF ReadLine, Cli
  <2>2. /\ run'[r].pc = run[r].pc
        /\ run'[r].resultSeen = (run[r].resultSeen \/ Head(cli[r].out) = "result")
    BY <1>0, <1>6 DEF ReadLine, Run
  <2>3. ResultIn(cli[r].out) => Head(cli[r].out) = "result" \/ ResultIn(cli'[r].out)
    BY <1>0, <2>1, PipeLines
  <2> QED BY <1>0, <2>1, <2>2, <2>3 DEF LetsGo
<1>7. CASE run' = run /\ cli' = cli
  BY <1>0, <1>7 DEF LetsGo
<1> QED BY <1>1, <1>3, <1>4, <1>5, <1>h, <1>6, <1>7
        DEF CliStep, ReaderStep, LogBegins, LogEnds, ReadEof, ReadFails

\* The pump's steps.
LEMMA PumpLetsGo ==
  ASSUME HoldInv, NEW r \in Runs, PumpStep(r)
  PROVE  LetsGo(r)'
<1>0. /\ cli \in [Runs -> Cli] /\ cli[r] \in Cli /\ run \in [Runs -> Run] /\ run[r] \in Run
      /\ pump \in [Runs -> Pump] /\ pump[r] \in Pump
      /\ LetsGo(r) /\ cli[r].taken \in Nat /\ Len(cli[r].turns) \in Nat
      /\ pump[r].pc # "off" /\ run[r].pc \notin {"off", "prompt"}
  BY DEF HoldInv, AgentInv, TypeOK, LifeCycle, Cli, PumpStep, PumpPolls, PumpDecides, PumpWrites,
     PumpAcks, PumpClears, PumpCloses
<1>a. ASSUME NEW pc, NEW unsent, NEW sent, PumpBecomes(r, pc, unsent, sent)
      PROVE  pump'[r].pc = pc /\ pump'[r].unsent = unsent /\ pump'[r].sent = sent
  BY <1>0, <1>a DEF PumpBecomes
<1>1. CASE PumpPolls(r) \/ PumpDecides(r)
  <2>1. run' = run /\ cli' = cli
    BY <1>1 DEF PumpPolls, PumpDecides
  <2>2. /\ pump'[r].pc \in {"close", "write", "decide", "poll"} /\ pump'[r].sent = {}
        /\ pump'[r].pc = "write" => pump'[r].unsent # {}
    <3>1. CASE PumpPolls(r)
      BY <1>a, <3>1 DEF PumpPolls
    <3>2. CASE PumpDecides(r)
      BY <1>a, <3>2 DEF PumpDecides
    <3> QED BY <1>1, <3>1, <3>2
  <2> QED BY <1>0, <2>1, <2>2 DEF LetsGo
<1>2. CASE PumpWrites(r)
  <2>1. run' = run /\ pump[r].pc = "write"
    BY <1>2 DEF PumpWrites
  <2>2. CASE cli' = cli /\ PumpBecomes(r, "ack", pump[r].unsent, pump[r].sent)
    BY <1>0, <1>a, <2>1, <2>2 DEF LetsGo
  <2>3. ASSUME NEW m \in pump[r].unsent,
               cli[r].pc # "gone", TypesTurn(r, m),
               PumpBecomes(r, IF pump[r].unsent = {m} THEN "ack" ELSE "write",
                              pump[r].unsent \ {m}, pump[r].sent \cup {m})
        PROVE  LetsGo(r)'
    <3>1. /\ cli'[r].eof = cli[r].eof /\ cli'[r].pc = cli[r].pc
          /\ cli'[r].taken = cli[r].taken /\ cli'[r].turns = Append(cli[r].turns, m)
      BY <1>0, <2>3 DEF TypesTurn, Cli
    <3>2. Len(cli'[r].turns) = Len(cli[r].turns) + 1
      <4>1. m \in Messages /\ cli[r].turns \in Seq(Messages \cup {Prompt})
        BY <1>0 DEF Pump, Cli
      <4> QED BY <3>1, <4>1, WrittenAppends
    <3>3. /\ pump'[r].pc \in {"ack", "write"} /\ pump'[r].sent # {}
          /\ pump'[r].pc = "write" => pump'[r].unsent # {}
      <4>1. /\ pump'[r].pc = (IF pump[r].unsent = {m} THEN "ack" ELSE "write")
            /\ pump'[r].unsent = pump[r].unsent \ {m} /\ pump'[r].sent = pump[r].sent \cup {m}
        BY <1>0, <2>3 DEF PumpBecomes
      <4> QED BY <4>1
    <3>4. Len(cli'[r].turns) > 1 /\ cli'[r].taken <= Len(cli'[r].turns)
      <4>1. Len(cli[r].turns) > 0 /\ cli[r].taken <= Len(cli[r].turns)
        BY <1>0, <2>3 DEF LetsGo
      <4>2. \A n, k \in Nat : n > 0 /\ k <= n => n + 1 > 1 /\ k <= n + 1
        OBVIOUS
      <4> QED BY <1>0, <3>1, <3>2, <4>1, <4>2
    <3>5. Len(cli'[r].turns) # 1 /\ Len(cli'[r].turns) > 0
      BY <1>0, <3>2, <3>4
    <3> QED BY <2>1, <3>3, <3>4, <3>5 DEF LetsGo
  <2> QED BY <1>2, <2>2, <2>3 DEF PumpWrites
<1>3. CASE PumpAcks(r)
  <2>1. run' = run /\ cli' = cli /\ pump[r].pc = "ack"
    BY <1>3 DEF PumpAcks
  <2>2. /\ pump'[r].pc = (IF pump[r].unsent # {} THEN "close" ELSE "clear")
        /\ pump'[r].sent = {}
    BY <1>a, <1>3 DEF PumpAcks
  <2> QED BY <1>0, <2>1, <2>2 DEF LetsGo
<1>4. CASE PumpClears(r)
  <2>1. /\ cli' = cli /\ pump[r].pc = "clear" /\ run'[r].pc = run[r].pc
        /\ pump'[r].pc = "poll" /\ pump'[r].sent = {} /\ run'[r].resultSeen = FALSE
    BY <1>0, <1>a, <1>4 DEF PumpClears, ResultCleared, Run
  <2>2. Len(cli[r].turns) > 1
    BY <1>0, <2>1 DEF LetsGo
  <2>3. Len(cli[r].turns) # 1 /\ Len(cli[r].turns) > 0
    <3>1. \A n \in Nat : n > 1 => n # 1 /\ n > 0
      OBVIOUS
    <3> QED BY <1>0, <2>2, <3>1, Zenon
  <2> QED BY <1>0, <2>1, <2>2, <2>3 DEF LetsGo
<1>5. CASE PumpCloses(r)
  <2>1. /\ run' = run /\ pump'[r].pc = "done" /\ pump'[r].sent = {}
        /\ cli'[r].eof = TRUE /\ cli'[r].pc = cli[r].pc /\ cli'[r].taken = cli[r].taken
        /\ cli'[r].turns = cli[r].turns /\ cli'[r].out = cli[r].out
    BY <1>0, <1>a, <1>5 DEF PumpCloses, Cli
  <2> QED BY <1>0, <2>1 DEF LetsGo
<1> QED BY <1>1, <1>2, <1>3, <1>4, <1>5 DEF PumpStep

\* The slot's steps, and the kill button.
LEMMA SlotLetsGo ==
  ASSUME HoldInv, NEW r \in Runs, SlotStep(r) \/ AskKill(r)
  PROVE  LetsGo(r)'
<1>0. /\ cli \in [Runs -> Cli] /\ cli[r] \in Cli /\ run \in [Runs -> Run] /\ run[r] \in Run
      /\ pump \in [Runs -> Pump]
      /\ LetsGo(r) /\ cli[r].taken \in Nat /\ Len(cli[r].turns) \in Nat
      /\ AgentInv /\ LifeCycle(r)
  BY DEF HoldInv, AgentInv, TypeOK, Cli
<1>1. CASE Launch(r)
  <2>1. /\ run[r].pc = "off" /\ run'[r].pc = "prompt" /\ pump' = pump
        /\ cli'[r].turns = cli[r].turns /\ cli'[r].taken = cli[r].taken
        /\ cli'[r].eof = cli[r].eof
    BY <1>0, <1>1 DEF Launch, RunBecomes, Run, Cli
  <2>2. Len(cli[r].turns) = 0
    BY <1>0, <2>1 DEF LifeCycle
  <2> QED BY <1>0, <2>1, <2>2 DEF LetsGo
<1>p. CASE PromptSent(r)
  <2>1. /\ run[r].pc = "prompt" /\ run'[r].pc = "watch"
        /\ pump'[r].pc = "poll" /\ pump'[r].sent = {}
    BY <1>0, <1>p DEF PromptSent, RunBecomes, PumpBecomes, Run
  <2>2. Len(cli[r].turns) = 0 /\ cli[r].taken = 0
    BY <1>0, <2>1 DEF LifeCycle, LetsGo
  <2>3. CASE cli[r].pc = "gone"
    <3>1. cli' = cli
      BY <1>p, <2>3 DEF PromptSent
    <3> QED BY <1>0, <2>1, <2>3, <3>1 DEF LetsGo
  <2>4. CASE cli[r].pc # "gone"
    <3>1. cli'[r].turns = <<Prompt>> /\ cli'[r].taken = cli[r].taken
      BY <1>0, <1>p, <2>4 DEF PromptSent, Cli
    <3>2. Len(cli'[r].turns) = 1
      BY <3>1
    <3> QED BY <2>1, <2>2, <3>1, <3>2 DEF LetsGo
  <2> QED BY <2>3, <2>4
<1>2. ASSUME run[r].pc \notin {"off", "prompt"} \/ run'[r].pc = run[r].pc, pump' = pump,
             run'[r].resultSeen = run[r].resultSeen,
             cli' = cli \/ CliKilled(r)
      PROVE  LetsGo(r)'
  <2>1. /\ cli'[r].turns = cli[r].turns /\ cli'[r].eof = cli[r].eof
        /\ cli'[r].out = cli[r].out /\ cli'[r].taken = cli[r].taken
        /\ cli'[r].pc \in {cli[r].pc, "gone"}
    BY <1>0, <1>2, CliMoves
  <2> QED BY <1>0, <1>2, <2>1 DEF LetsGo
<1>3. ASSUME NEW pc \in {"watch", "polling", "returned"}, NEW o, RunBecomes(r, pc, o)
      PROVE  run'[r].resultSeen = run[r].resultSeen
  BY <1>0, <1>3 DEF RunBecomes, Run
<1>4. ASSUME NEW o, Stops(r, o)
      PROVE  run'[r].resultSeen = run[r].resultSeen
  BY <1>0, <1>4 DEF Stops, Run
<1>5. CASE PollBegins(r) \/ PollFindsNothing(r) \/ PollAborts(r)
  BY <1>2, <1>3, <1>5 DEF PollBegins, PollFindsNothing, PollAborts
<1>6. CASE PollFindsKill(r) \/ DeadlinePasses(r) \/ ReaderJoined(r)
  BY <1>0, <1>2, <1>4, <1>6, KillsCli DEF PollFindsKill, DeadlinePasses, ReaderJoined
<1>7. CASE Return(r)
  BY <1>0, <1>2, <1>3, <1>7, KillsCli DEF Return
<1>8. CASE AskKill(r)
  <2>1. run'[r].pc = run[r].pc /\ run'[r].resultSeen = run[r].resultSeen
    BY <1>0, <1>8 DEF AskKill, Run
  <2> QED BY <1>2, <1>8, <2>1 DEF AskKill
<1> QED BY <1>1, <1>p, <1>5, <1>6, <1>7, <1>8 DEF SlotStep

LEMMA NextHold == HoldInv /\ [Next]_vars => HoldInv'
<1> SUFFICES ASSUME HoldInv, [Next]_vars, NEW q \in Runs PROVE LetsGo(q)'
  BY NextAgent DEF HoldInv
<1>1. LetsGo(q) /\ AgentInv
  BY DEF HoldInv
<1>2. CASE UNCHANGED <<run, cli, pump>>
  BY <1>1, <1>2 DEF LetsGo
<1>3. ASSUME NEW r \in Runs, r # q, RunStep(r) PROVE LetsGo(q)'
  <2>1. run'[q] = run[q] /\ cli'[q] = cli[q] /\ pump'[q] = pump[q]
    BY <1>1, <1>3, OthersKept
  <2> QED BY <1>1, <2>1 DEF LetsGo
<1>4. ASSUME RunStep(q) PROVE LetsGo(q)'
  BY <1>4, CliLetsGo, PumpLetsGo, SlotLetsGo DEF RunStep
<1> QED BY <1>2, <1>3, <1>4, Steps DEF vars, SendChat

\* A run that nobody chatted with is never held open until its deadline once its
\* agent is finished, for any number of runs, messages and turns.
THEOREM FinishedAgentsAreLetGo == Spec => OnlyChatHoldsOpen
<1>1. HoldInv /\ [Next]_vars =>
        [\A r \in Runs : TimesOut(r) /\ Idle(r) => Len(cli[r].turns) > 1]_vars
  <2> SUFFICES ASSUME HoldInv, [Next]_vars, NEW r \in Runs, TimesOut(r), Idle(r)
               PROVE  Len(cli[r].turns) > 1
    OBVIOUS
  <2>0. /\ AgentInv /\ LetsGo(r) /\ run \in [Runs -> Run] /\ Len(cli[r].turns) \in Nat
        /\ cli[r].taken \in Nat
    BY DEF HoldInv, AgentInv, TypeOK, Cli
  <2>1. DeadlinePasses(r)
    <3>1. run'[r].outcome = "timeout" /\ run[r].outcome # "timeout"
      BY DEF TimesOut
    <3>2. RunStep(r)
      BY <2>0, <3>1, Steps, OthersKept DEF vars, SendChat
    <3>3. CliStep(r) \/ ReaderStep(r) \/ PumpStep(r) \/ AskKill(r) => run'[r].outcome = run[r].outcome
      <4>1. CASE run' = run
        BY <4>1
      <4>2. CASE ReadLine(r) \/ PumpClears(r) \/ AskKill(r)
        BY <2>0, <4>2 DEF ReadLine, PumpClears, AskKill, Run
      <4> QED BY <2>0, <4>1, <4>2, CliEffect DEF ReaderStep, LogBegins, LogEnds,
               ReadEof, ReadFails, PumpStep, PumpPolls, PumpDecides, PumpWrites, PumpAcks,
              PumpCloses
    <3>4. SlotStep(r)
      BY <3>1, <3>2, <3>3 DEF RunStep
    <3>5. ASSUME NEW pc, NEW o, RunBecomes(r, pc, o) PROVE run'[r].outcome = o
      BY <2>0, <3>5 DEF RunBecomes, Run
    <3>6. ASSUME NEW o, Stops(r, o) PROVE run'[r].outcome = o
      BY <2>0, <3>6 DEF Stops, Run
    <3>7. ~(Launch(r) \/ PromptSent(r) \/ PollBegins(r) \/ PollFindsNothing(r) \/ PollAborts(r) \/ Return(r))
      BY <3>1, <3>5 DEF Launch, PromptSent, PollBegins, PollFindsNothing, PollAborts,
              Return, ExitCode
    <3>8. ~(PollFindsKill(r) \/ ReaderJoined(r))
      BY <3>1, <3>6 DEF PollFindsKill, ReaderJoined
    <3> QED BY <3>4, <3>7, <3>8 DEF SlotStep
  <2>2. /\ run[r].pc = "watch" /\ cli[r].pc = "waiting" /\ ~WorkerBusy(r)
        /\ Len(cli[r].turns) - cli[r].taken = 0 /\ ~cli[r].eof
    BY <2>1 DEF DeadlinePasses, Overdue, Idle, Answered, Untaken
  <2>3. cli[r].out = <<>> /\ ~run[r].resultSeen
    <3>1. pump[r].pc \in {"poll", "decide"}
      BY <2>0, <2>2 DEF WorkerBusy, Idle, LetsGo, AgentInv, TypeOK, Pump
    <3> QED BY <2>2, <3>1 DEF WorkerBusy, ShouldClose
  <2>4. ~ResultIn(cli[r].out)
    BY <2>3 DEF ResultIn
  <2>5. ~(cli[r].taken = 1 /\ Len(cli[r].turns) = 1) /\ Len(cli[r].turns) > 0
    BY <2>0, <2>2, <2>3, <2>4 DEF LetsGo
  <2>6. Len(cli[r].turns) \in Nat /\ cli[r].taken \in Nat /\ Len(cli[r].turns) - cli[r].taken = 0
    BY <2>0, <2>2
  <2>7. \A n, k \in Nat : n - k = 0 /\ ~(k = 1 /\ n = 1) /\ n > 0 => n > 1
    OBVIOUS
  <2> QED BY <2>5, <2>6, <2>7, Zenon
<1>2. Spec => []HoldInv
  BY InitHold, NextHold, PTL DEF Spec
<1> QED BY <1>1, <1>2, PTL DEF Spec, OnlyChatHoldsOpen
-----------------------------------------------------------------------------
(* An agent with a turn to answer keeps its input.                          *)

\* The pump is between a message it typed and the clearing of result_seen.
MidBatch(r) ==
  \/ pump[r].pc = "write" /\ pump[r].sent # {}
  \/ pump[r].pc \in {"ack", "clear"}

\* Unless a turn was rushed, an agent has at most one turn to answer, no result
\* of an earlier one is left in the pipe, and one that was seen is forgotten by
\* the time the pump decides again.
OneTurn(r) ==
  /\ run[r].pc = "prompt" => cli[r].pc \in {"waiting", "gone"}
  /\ run[r].pc \in {"off", "prompt"} => cli[r].out = <<>> /\ ~run[r].resultSeen
  /\ pump[r].pc = "ack" /\ pump[r].unsent # {} => cli[r].pc = "gone"
  /\ ~cli[r].rushed /\ CliAlive(r) =>
       /\ Untaken(r) <= 1
       /\ cli[r].pc = "working" => Untaken(r) = 0
       /\ ~Answered(r) => ~ResultIn(cli[r].out) /\ (MidBatch(r) \/ ~run[r].resultSeen)

TurnInv == HoldInv /\ \A r \in Runs : OneTurn(r)

LEMMA InitTurn == Init => TurnInv
<1> SUFFICES ASSUME Init PROVE \A r \in Runs : OneTurn(r)
  BY InitHold DEF TurnInv
<1> QED BY DEF Init, OneTurn, CliAlive

\* What the types say of one run.
LEMMA RunTypes ==
  ASSUME TurnInv, NEW r \in Runs
  PROVE  /\ AgentInv /\ LetsGo(r) /\ OneTurn(r) /\ LifeCycle(r)
         /\ cli \in [Runs -> Cli] /\ cli[r] \in Cli /\ run \in [Runs -> Run] /\ run[r] \in Run
         /\ pump \in [Runs -> Pump] /\ pump[r] \in Pump
         /\ cli[r].taken \in Nat /\ Len(cli[r].turns) \in Nat
         /\ cli[r].out \in Seq({"text", "result"})
         /\ cli[r].turns \in Seq(Messages \cup {Prompt})
BY DEF TurnInv, HoldInv, AgentInv, TypeOK, Cli

\* The CLI's steps, and the reader's.
LEMMA CliOneTurn ==
  ASSUME TurnInv, NEW r \in Runs, CliStep(r)
  PROVE  OneTurn(r)'
<1>0. /\ OneTurn(r) /\ LetsGo(r) /\ LifeCycle(r) /\ cli \in [Runs -> Cli] /\ cli[r] \in Cli
      /\ run' = run /\ pump' = pump /\ cli'[r].turns = cli[r].turns
      /\ cli'[r].rushed = cli[r].rushed
      /\ cli[r].taken \in Nat /\ Len(cli[r].turns) \in Nat
      /\ cli[r].out \in Seq({"text", "result"})
  BY RunTypes, CliEffect
<1>a. run[r].pc = "off" => cli[r].pc = "off"
  BY <1>0 DEF LifeCycle
<1>b. run[r].pc = "prompt" => cli[r].pc \in {"waiting", "gone"} /\ Untaken(r) <= 0
  BY <1>0 DEF OneTurn, LifeCycle, LetsGo, Untaken
<1>1. CASE TakeTurn(r)
  <2>1. /\ cli[r].pc = "waiting" /\ Untaken(r) > 0
        /\ cli'[r].pc = "working" /\ cli'[r].taken = cli[r].taken + 1 /\ cli'[r].out = cli[r].out
    BY <1>0, <1>1 DEF TakeTurn, Cli
  <2>2. run[r].pc \notin {"off", "prompt"}
    BY <1>0, <1>a, <1>b, <2>1 DEF Untaken
  <2>3. Untaken(r)' = Untaken(r) - 1 /\ Untaken(r) \in Int
    BY <1>0, <2>1 DEF Untaken
  <2>4. ~Answered(r)
    BY <2>1, <2>3 DEF Answered
  <2> QED BY <1>0, <2>1, <2>2, <2>3, <2>4 DEF OneTurn, CliAlive, MidBatch
<1>2. CASE Speak(r)
  <2>1. /\ cli[r].pc = "working" /\ cli'[r].pc = "working" /\ cli'[r].taken = cli[r].taken
        /\ cli'[r].out = Append(cli[r].out, "text")
    BY <1>0, <1>2 DEF Speak, Cli
  <2>2. run[r].pc \notin {"off", "prompt"}
    BY <1>a, <1>b, <2>1
  <2>3. ~ResultIn(cli[r].out) => ~ResultIn(cli'[r].out)
    <3> DEFINE s == cli[r].out
               t == Append(s, "text")
    <3>1. Len(s) \in Nat /\ Len(t) = Len(s) + 1 /\ t[Len(s) + 1] = "text"
      BY <1>0
    <3>2. \A i \in 1..Len(s) : t[i] = s[i]
      BY <1>0
    <3> HIDE DEF s, t
    <3>3. \A i \in 1..Len(t) : t[i] = "result" => i \in 1..Len(s) /\ s[i] = "result"
      <4> SUFFICES ASSUME NEW i \in 1..Len(t), t[i] = "result" PROVE i \in 1..Len(s) /\ s[i] = "result"
        OBVIOUS
      <4>1. i # Len(s) + 1
        BY <3>1
      <4>2. i \in 1..Len(s)
        BY <3>1, <4>1
      <4> QED BY <3>2, <4>2
    <3> QED BY <2>1, <3>3 DEF ResultIn, s, t
  <2>4. Untaken(r)' = Untaken(r)
    BY <1>0, <2>1 DEF Untaken
  <2> QED BY <1>0, <2>1, <2>2, <2>3, <2>4 DEF OneTurn, CliAlive, Answered, MidBatch
<1>3. CASE Answer(r)
  <2>1. /\ cli[r].pc = "working" /\ cli'[r].pc = "waiting" /\ cli'[r].taken = cli[r].taken
    BY <1>0, <1>3 DEF Answer, Cli
  <2>2. run[r].pc \notin {"off", "prompt"}
    BY <1>a, <1>b, <2>1
  <2>3. Untaken(r)' = Untaken(r)
    BY <1>0, <2>1 DEF Untaken
  <2>4. ~cli[r].rushed => Untaken(r) = 0
    BY <1>0, <2>1 DEF OneTurn, CliAlive
  <2> QED BY <1>0, <2>1, <2>2, <2>3, <2>4 DEF OneTurn, Answered
<1>4. CASE Leave(r) \/ Die(r)
  <2>1. cli'[r].pc = "gone" /\ cli'[r].out = cli[r].out
    <3>1. CASE Leave(r)
      BY <1>0, <3>1 DEF Leave, Cli
    <3>2. CASE Die(r)
      BY <1>0, <3>2 DEF Die, CliEnds, CliGoes, Cli
    <3> QED BY <1>4, <3>1, <3>2
  <2> QED BY <1>0, <2>1 DEF OneTurn, CliAlive
<1>5. CASE DropsOutput(r) \/ StartsTool(r) \/ ToolEnds(r)
  <2>1. cli'[r].pc = cli[r].pc /\ cli'[r].taken = cli[r].taken /\ cli'[r].out = cli[r].out
    BY <1>0, <1>5 DEF DropsOutput, StartsTool, ToolEnds, HoldPipe, Cli
  <2>2. Untaken(r)' = Untaken(r)
    BY <1>0, <2>1 DEF Untaken
  <2> QED BY <1>0, <2>1, <2>2 DEF OneTurn, CliAlive, Answered, MidBatch
<1> QED BY <1>1, <1>2, <1>3, <1>4, <1>5 DEF CliStep

LEMMA ReaderOneTurn ==
  ASSUME TurnInv, NEW r \in Runs, ReaderStep(r)
  PROVE  OneTurn(r)'
<1>0. /\ OneTurn(r) /\ LifeCycle(r) /\ cli \in [Runs -> Cli] /\ cli[r] \in Cli
      /\ run \in [Runs -> Run] /\ run[r] \in Run
      /\ cli[r].out \in Seq({"text", "result"})
  BY RunTypes
<1>1. CASE ReadLine(r)
  <2>1. /\ cli'[r].pc = cli[r].pc /\ cli'[r].taken = cli[r].taken
        /\ cli'[r].turns = cli[r].turns /\ cli'[r].rushed = cli[r].rushed
        /\ cli'[r].out = Tail(cli[r].out) /\ cli[r].out # <<>>
        /\ pump' = pump /\ reader[r] = "read"
    BY <1>0, <1>1 DEF ReadLine, Cli
  <2>2. /\ run'[r].pc = run[r].pc
        /\ run'[r].resultSeen = (run[r].resultSeen \/ Head(cli[r].out) = "result")
    BY <1>0, <1>1 DEF ReadLine, Run
  <2>3. run[r].pc \notin {"off", "prompt"}
    BY <1>0, <2>1 DEF LifeCycle
  <2>4. ~ResultIn(cli[r].out) => Head(cli[r].out) # "result" /\ ~ResultIn(cli'[r].out)
    <3>1. /\ Head(cli[r].out) = cli[r].out[1] /\ 1 \in 1..Len(cli[r].out)
          /\ \A i \in 1..Len(Tail(cli[r].out)) :
               Tail(cli[r].out)[i] = cli[r].out[i + 1] /\ i + 1 \in 1..Len(cli[r].out)
      BY <1>0, <2>1
    <3> QED BY <2>1, <3>1 DEF ResultIn
  <2>5. Untaken(r)' = Untaken(r)
    BY <2>1 DEF Untaken
  <2> QED BY <1>0, <2>1, <2>2, <2>3, <2>4, <2>5 DEF OneTurn, CliAlive, Answered, MidBatch
<1>2. CASE run' = run /\ cli' = cli /\ pump' = pump
  BY <1>0, <1>2 DEF OneTurn, CliAlive, Answered, Untaken, MidBatch
<1> QED BY <1>1, <1>2 DEF ReaderStep, LogBegins, LogEnds, ReadEof, ReadFails

\* The pump's steps.
LEMMA PumpOneTurn ==
  ASSUME TurnInv, NEW r \in Runs, PumpStep(r)
  PROVE  OneTurn(r)'
<1>0. /\ OneTurn(r) /\ cli \in [Runs -> Cli] /\ cli[r] \in Cli
      /\ run \in [Runs -> Run] /\ run[r] \in Run
      /\ pump \in [Runs -> Pump] /\ pump[r] \in Pump
      /\ cli[r].taken \in Nat /\ Len(cli[r].turns) \in Nat
      /\ cli[r].out \in Seq({"text", "result"})
      /\ cli[r].turns \in Seq(Messages \cup {Prompt})
      /\ pump[r].pc # "off" /\ run[r].pc \notin {"off", "prompt"}
  BY RunTypes DEF LifeCycle, PumpStep, PumpPolls, PumpDecides, PumpWrites,
     PumpAcks, PumpClears, PumpCloses
<1>a. ASSUME NEW pc, NEW unsent, NEW sent, PumpBecomes(r, pc, unsent, sent)
      PROVE  pump'[r].pc = pc /\ pump'[r].unsent = unsent /\ pump'[r].sent = sent
  BY <1>0, <1>a DEF PumpBecomes
<1>1. CASE PumpPolls(r) \/ PumpDecides(r)
  <2>1. run' = run /\ cli' = cli /\ ~MidBatch(r)
    BY <1>1 DEF PumpPolls, PumpDecides, MidBatch
  <2>2. pump'[r].pc \in {"close", "write", "decide", "poll"}
    <3>1. CASE PumpPolls(r)
      BY <1>a, <3>1 DEF PumpPolls
    <3>2. CASE PumpDecides(r)
      BY <1>a, <3>2 DEF PumpDecides
    <3> QED BY <1>1, <3>1, <3>2
  <2> QED BY <1>0, <2>1, <2>2 DEF OneTurn, CliAlive, Answered, Untaken
<1>2. CASE PumpWrites(r)
  <2>1. run' = run /\ pump[r].pc = "write"
    BY <1>2 DEF PumpWrites
  <2>2. CASE cli[r].pc = "gone" /\ cli' = cli
    BY <1>0, <2>1, <2>2 DEF OneTurn, CliAlive
  <2>3. ASSUME NEW m \in pump[r].unsent, TypesTurn(r, m),
               PumpBecomes(r, IF pump[r].unsent = {m} THEN "ack" ELSE "write",
                              pump[r].unsent \ {m}, pump[r].sent \cup {m})
        PROVE  OneTurn(r)'
    <3>1. /\ cli'[r].pc = cli[r].pc /\ cli'[r].taken = cli[r].taken
          /\ cli'[r].out = cli[r].out /\ cli'[r].turns = Append(cli[r].turns, m)
          /\ cli'[r].rushed = (cli[r].rushed \/ ~Quiet(r))
      BY <1>0, <2>3 DEF TypesTurn, Cli
    <3>2. Len(cli'[r].turns) = Len(cli[r].turns) + 1
      <4>1. m \in Messages
        BY <1>0 DEF Pump
      <4> QED BY <1>0, <3>1, <4>1, WrittenAppends
    <3>3. /\ pump'[r].pc = (IF pump[r].unsent = {m} THEN "ack" ELSE "write")
          /\ pump'[r].unsent = pump[r].unsent \ {m} /\ pump'[r].sent = pump[r].sent \cup {m}
      BY <1>0, <2>3 DEF PumpBecomes
    <3>4. MidBatch(r)' /\ (pump'[r].pc = "ack" => pump'[r].unsent = {})
      BY <3>3 DEF MidBatch
    <3>5. ASSUME Quiet(r) PROVE cli[r].pc = "waiting" /\ Untaken(r)' = 1 /\ ~ResultIn(cli[r].out)
      <4>1. cli[r].pc = "waiting" /\ Untaken(r) = 0
        BY <3>5 DEF Quiet, Answered
      <4>2. ~ResultIn(cli[r].out)
        BY <1>0, <3>5 DEF Quiet, ResultIn
      <4> QED BY <1>0, <3>1, <3>2, <4>1, <4>2 DEF Untaken
    <3>6. run'[r].pc \notin {"off", "prompt"}
      BY <1>0, <2>1
    <3>7. ~cli'[r].rushed => ~cli[r].rushed /\ cli'[r].pc = "waiting" /\ Untaken(r)' = 1
                              /\ ~ResultIn(cli'[r].out)
      BY <3>1, <3>5
    <3> QED BY <3>4, <3>6, <3>7 DEF OneTurn
  <2> QED BY <1>2, <2>2, <2>3 DEF PumpWrites
<1>3. CASE PumpAcks(r)
  <2>1. run' = run /\ cli' = cli /\ pump[r].pc = "ack"
    BY <1>3 DEF PumpAcks
  <2>2. pump'[r].pc = (IF pump[r].unsent # {} THEN "close" ELSE "clear")
    BY <1>a, <1>3 DEF PumpAcks
  <2>3. CASE pump[r].unsent # {}
    BY <1>0, <2>1, <2>2, <2>3 DEF OneTurn, CliAlive
  <2>4. CASE pump[r].unsent = {}
    BY <1>0, <2>1, <2>2, <2>4 DEF OneTurn, CliAlive, Answered, Untaken, MidBatch
  <2> QED BY <2>3, <2>4
<1>4. CASE PumpClears(r)
  <2>1. /\ cli' = cli /\ run'[r].pc = run[r].pc /\ pump'[r].pc = "poll"
        /\ run'[r].resultSeen = FALSE
    BY <1>0, <1>a, <1>4 DEF PumpClears, ResultCleared, Run
  <2> QED BY <1>0, <2>1 DEF OneTurn, CliAlive, Answered, Untaken
<1>5. CASE PumpCloses(r)
  <2>1. /\ run' = run /\ pump[r].pc = "close" /\ pump'[r].pc = "done"
        /\ cli'[r].pc = cli[r].pc /\ cli'[r].taken = cli[r].taken
        /\ cli'[r].turns = cli[r].turns /\ cli'[r].out = cli[r].out
        /\ cli'[r].rushed = cli[r].rushed
    BY <1>0, <1>a, <1>5 DEF PumpCloses, Cli
  <2>2. Untaken(r)' = Untaken(r)
    BY <2>1 DEF Untaken
  <2> QED BY <1>0, <2>1, <2>2 DEF OneTurn, CliAlive, Answered, MidBatch
<1> QED BY <1>1, <1>2, <1>3, <1>4, <1>5 DEF PumpStep

\* The slot's steps, and the kill button.
LEMMA SlotOneTurn ==
  ASSUME TurnInv, NEW r \in Runs, SlotStep(r) \/ AskKill(r)
  PROVE  OneTurn(r)'
<1>0. /\ AgentInv /\ OneTurn(r) /\ LetsGo(r) /\ LifeCycle(r)
      /\ cli \in [Runs -> Cli] /\ cli[r] \in Cli
      /\ run \in [Runs -> Run] /\ run[r] \in Run /\ pump \in [Runs -> Pump]
      /\ cli[r].taken \in Nat
  BY RunTypes
<1>1. CASE Launch(r)
  <2>1. /\ run[r].pc = "off" /\ run'[r].pc = "prompt" /\ pump' = pump
        /\ run'[r].resultSeen = run[r].resultSeen
        /\ cli'[r].turns = cli[r].turns /\ cli'[r].taken = cli[r].taken
        /\ cli'[r].out = cli[r].out /\ cli'[r].pc = "waiting"
    BY <1>0, <1>1 DEF Launch, RunBecomes, Run, Cli
  <2>2. cli[r].turns = <<>> /\ cli[r].taken <= Len(cli[r].turns) /\ pump[r].pc = "off"
    BY <1>0, <2>1 DEF LifeCycle, LetsGo
  <2>3. Untaken(r)' = 0
    BY <1>0, <2>1, <2>2 DEF Untaken
  <2>4. Answered(r)'
    BY <2>1, <2>3 DEF Answered
  <2> QED BY <1>0, <2>1, <2>2, <2>3, <2>4 DEF OneTurn
<1>2. CASE PromptSent(r)
  <2>1. /\ run[r].pc = "prompt" /\ run'[r].pc = "watch" /\ pump'[r].pc = "poll"
        /\ run'[r].resultSeen = run[r].resultSeen
    BY <1>0, <1>2 DEF PromptSent, RunBecomes, PumpBecomes, Run
  <2>2. /\ cli[r].turns = <<>> /\ cli[r].taken <= Len(cli[r].turns) /\ cli[r].out = <<>>
        /\ ~run[r].resultSeen /\ cli[r].pc \in {"waiting", "gone"}
    BY <1>0, <2>1 DEF LifeCycle, LetsGo, OneTurn
  <2>3. CASE cli[r].pc = "gone"
    <3>1. cli' = cli
      BY <1>2, <2>3 DEF PromptSent
    <3> QED BY <2>1, <2>3, <3>1 DEF OneTurn, CliAlive
  <2>4. CASE cli[r].pc = "waiting"
    <3>1. /\ cli'[r].turns = <<Prompt>> /\ cli'[r].taken = cli[r].taken /\ cli'[r].out = <<>>
          /\ cli'[r].pc = "waiting"
      BY <1>0, <1>2, <2>2, <2>4 DEF PromptSent, Cli
    <3>2. Untaken(r)' = 1
      BY <1>0, <2>2, <3>1 DEF Untaken
    <3>3. ~ResultIn(cli'[r].out)
      BY <3>1 DEF ResultIn
    <3> QED BY <2>1, <2>2, <3>1, <3>2, <3>3 DEF OneTurn
  <2> QED BY <2>2, <2>3, <2>4
<1>3. ASSUME \/ run[r].pc \notin {"off", "prompt"} /\ run'[r].pc \notin {"off", "prompt"}
             \/ run'[r].pc = run[r].pc,
             pump' = pump, run'[r].resultSeen = run[r].resultSeen, cli' = cli \/ CliKilled(r)
      PROVE  OneTurn(r)'
  <2>1. CASE cli' = cli
    BY <1>0, <1>3, <2>1 DEF OneTurn, CliAlive, Answered, Untaken, MidBatch
  <2>2. CASE CliKilled(r)
    <3>1. cli'[r].pc = "gone" /\ cli'[r].out = cli[r].out
      BY <1>0, <2>2, CliMoves
    <3> QED BY <1>0, <1>3, <3>1 DEF OneTurn, CliAlive
  <2> QED BY <1>3, <2>1, <2>2
<1>4. ASSUME NEW pc \in {"watch", "polling", "returned"}, NEW o, RunBecomes(r, pc, o)
      PROVE  run'[r].pc = pc /\ run'[r].resultSeen = run[r].resultSeen
  BY <1>0, <1>4 DEF RunBecomes, Run
<1>5. ASSUME NEW o, Stops(r, o)
      PROVE  run'[r].pc = "stopping" /\ run'[r].resultSeen = run[r].resultSeen
  BY <1>0, <1>5 DEF Stops, Run
<1>6. CASE PollBegins(r) \/ PollFindsNothing(r) \/ PollAborts(r)
  BY <1>3, <1>4, <1>6 DEF PollBegins, PollFindsNothing, PollAborts
<1>7. CASE PollFindsKill(r) \/ DeadlinePasses(r) \/ ReaderJoined(r)
  BY <1>0, <1>3, <1>5, <1>7, KillsCli DEF PollFindsKill, DeadlinePasses, ReaderJoined
<1>8. CASE Return(r)
  BY <1>0, <1>3, <1>4, <1>8, KillsCli DEF Return
<1>9. CASE AskKill(r)
  <2>1. run'[r].pc = run[r].pc /\ run'[r].resultSeen = run[r].resultSeen
    BY <1>0, <1>9 DEF AskKill, Run
  <2> QED BY <1>3, <1>9, <2>1 DEF AskKill
<1> QED BY <1>1, <1>2, <1>6, <1>7, <1>8, <1>9 DEF SlotStep

LEMMA NextTurn == TurnInv /\ [Next]_vars => TurnInv'
<1> SUFFICES ASSUME TurnInv, [Next]_vars, NEW q \in Runs PROVE OneTurn(q)'
  BY NextHold DEF TurnInv
<1>1. OneTurn(q) /\ AgentInv
  BY RunTypes
<1>2. CASE UNCHANGED <<run, cli, pump>>
  BY <1>1, <1>2 DEF OneTurn, CliAlive, Answered, Untaken, MidBatch
<1>3. ASSUME NEW r \in Runs, r # q, RunStep(r) PROVE OneTurn(q)'
  <2>1. run'[q] = run[q] /\ cli'[q] = cli[q] /\ pump'[q] = pump[q]
    BY <1>1, <1>3, OthersKept
  <2> QED BY <1>1, <2>1 DEF OneTurn, CliAlive, Answered, Untaken, MidBatch
<1>4. ASSUME RunStep(q) PROVE OneTurn(q)'
  BY <1>4, CliOneTurn, ReaderOneTurn, PumpOneTurn, SlotOneTurn DEF RunStep
<1> QED BY <1>2, <1>3, <1>4, Steps DEF vars, SendChat

\* The pump does not close the input of a live agent with a turn to answer,
\* unless a message was typed over an open turn or an unread answer.
THEOREM OpenTurnsKeepInput == Spec => ClosesWhenAnswered
<1>1. TurnInv /\ [Next]_vars =>
        [\A r \in Runs : DecidesToClose(r) /\ CliAlive(r) => Answered(r) \/ cli[r].rushed]_vars
  <2> SUFFICES ASSUME TurnInv, [Next]_vars, NEW r \in Runs, DecidesToClose(r), CliAlive(r),
                      ~cli[r].rushed
               PROVE  Answered(r)
    OBVIOUS
  <2>0. /\ OneTurn(r) /\ AgentInv /\ pump \in [Runs -> Pump]
        /\ pump[r].pc = "decide" /\ pump'[r].pc = "close"
    BY RunTypes DEF DecidesToClose
  <2>1. RunStep(r)
    BY <2>0, Steps, OthersKept DEF vars, SendChat
  <2>2. PumpStep(r) \/ pump' = pump \/ PromptSent(r)
    BY <2>0, <2>1, CliEffect DEF RunStep, ReaderStep, ReadLine, LogBegins, LogEnds, ReadEof, ReadFails,
       SlotStep, Launch, PollBegins, PollFindsNothing, PollFindsKill, PollAborts, DeadlinePasses,
       ReaderJoined, Return, AskKill
  <2>3. ~PromptSent(r)
    BY <2>0 DEF PromptSent, PumpBecomes
  <2>4. PumpDecides(r)
    BY <2>0, <2>2, <2>3 DEF PumpStep, PumpPolls, PumpWrites, PumpAcks, PumpClears, PumpCloses
  <2>5. run[r].resultSeen
    <3>1. PumpBecomes(r, IF ShouldClose(r) THEN "close" ELSE "poll", {}, {})
      BY <2>4 DEF PumpDecides
    <3> QED BY <2>0, <3>1 DEF PumpBecomes, ShouldClose
  <2> QED BY <2>0, <2>5 DEF OneTurn, MidBatch
<1>2. Spec => []TurnInv
  BY InitTurn, NextTurn, PTL DEF Spec
<1> QED BY <1>1, <1>2, PTL DEF Spec, ClosesWhenAnswered
=============================================================================
