------------------------------ MODULE Checkout ------------------------------
(***************************************************************************)
(* Where the work goes: a board's checkout on each PC, which the PC's      *)
(* slots share, the refresh every run starts with, what the agent leaves   *)
(* there, and the push that decides whether the ticket is done.            *)
(*                                                                         *)
(* A branch is the set of runs whose commits it holds, and Root, the       *)
(* commit it forked from; a branch that does not exist is empty. Git and   *)
(* the agent are external: git does what its manual says, and an agent     *)
(* edits, switches to its ticket's branch and commits there, as the prompt *)
(* tells it to.                                                            *)
(***************************************************************************)
EXTENDS Integers, FiniteSets

CONSTANTS
  Slots,     \* slots
  PCs,       \* PCs with a directory for the board
  Tickets,   \* tickets of the board
  Boards,    \* the settings the board may have
  MaxRuns,   \* BOUND: runs started
  MaxShared  \* BOUND: runs that are not alone in their directory

\* own: its directory is an explicit --set-path folder. gated: it has commit
\* requirements.
ASSUME CheckoutAssumption ==
  /\ Boards \subseteq [own : BOOLEAN, worktrees : BOOLEAN, autoPush : BOOLEAN, gated : BOOLEAN]
  /\ "default" \notin Tickets
  /\ MaxRuns \in Nat /\ MaxShared \in Nat

VARIABLES
  board,    \* its settings
  home,     \* the PC each slot belongs to
  tree,     \* the working tree of the board's directory on each PC
  branch,   \* the local branches of each PC's repository
  origin,   \* the tickets' branches on the remote
  status,   \* tickets.status
  claim,    \* the run whose queue row is claimed
  slot,     \* the slots
  run       \* what is known of each run, and how many there were (history)

vars == <<board, home, tree, branch, origin, status, claim, slot, run>>
-----------------------------------------------------------------------------
Runs    == 1..MaxRuns
NoRun   == 0
Root    == 0
Default == "default"
Missing == {}
Heads   == Tickets \cup {Default}

\* head: the branch checked out. dirty: the runs with uncommitted work there.
Tree == [head : Heads, dirty : SUBSET Runs]

\* pc: what run_slot is about to do.
Slot == [pc : {"idle", "refresh", "reset", "work", "report"}, run : Runs \cup {NoRun},
         branched : BOOLEAN]
IdleSlot == [pc |-> "idle", run |-> NoRun, branched |-> FALSE]

\* Sets of runs: those whose work was committed, that were not alone in their
\* directory, reported their requirements met, and were pushed.
History == [ticket : [Runs -> Tickets \cup {Default}], last : Runs \cup {NoRun},
            committed : SUBSET Runs, company : SUBSET Runs,
            met : SUBSET Runs, pushed : SUBSET Runs]

TicketOf(s) == run.ticket[slot[s].run]
Inside(s)   == slot[s].pc \in {"refresh", "reset", "work"}
Neighbours(s) == {o \in Slots \ {s} : home[o] = home[s] /\ Inside(o)}
\* The runs that share a directory once run r starts on s.
Shares(s, r) == IF Neighbours(s) = {} THEN {} ELSE {r} \cup {slot[o].run : o \in Neighbours(s)}

Init ==
  /\ board \in Boards
  /\ home \in [Slots -> PCs]
  /\ tree = [p \in PCs |-> [head |-> Default, dirty |-> {}]]
  /\ branch = [p \in PCs |-> [h \in Heads |-> IF h = Default THEN {Root} ELSE Missing]]
  /\ origin = [t \in Tickets |-> Missing]
  /\ status = [t \in Tickets |-> "ready"]
  /\ claim = [t \in Tickets |-> NoRun]
  /\ slot = [s \in Slots |-> IdleSlot]
  /\ run = [ticket |-> [r \in Runs |-> Default], last |-> NoRun, committed |-> {},
            company |-> {}, met |-> {}, pushed |-> {}]
-----------------------------------------------------------------------------
(* resolve_directory.                                                       *)

Goes(s, pc) == slot' = [slot EXCEPT ![s].pc = pc]

\* An explicit path is used as it is; anything else is refreshed first.
NeverRefreshed == FALSE                                          \* mutant
Refreshed == ~board.own

\* claim_next, then resolve_directory up to its first git command.
Claim(s, t) ==
  LET r == run.last + 1
  IN  /\ slot[s].pc = "idle" /\ status[t] = "ready" /\ r \in Runs
      /\ Cardinality(run.company \cup Shares(s, r)) <= MaxShared
      /\ status' = [status EXCEPT ![t] = "doing"]
      /\ claim' = [claim EXCEPT ![t] = r]
      /\ slot' = [slot EXCEPT ![s] = [IdleSlot EXCEPT !.run = r,
                                        !.pc = IF Refreshed THEN "refresh" ELSE "work"]]
      /\ run' = [run EXCEPT !.ticket[r] = t, !.last = r, !.company = @ \cup Shares(s, r)]
      /\ UNCHANGED <<board, home, tree, branch, origin>>

\* fetch; checkout --force <default>, which drops changes to tracked files.
HeadAsLeft(p) == tree[p].head                                    \* mutant
DefaultHead(p) == Default
ForceCheckout(s) ==
  /\ slot[s].pc = "refresh"
  /\ tree' = [tree EXCEPT ![home[s]] = [head |-> DefaultHead(home[s]), dirty |-> {}]]
  /\ Goes(s, "reset")
  /\ UNCHANGED <<board, home, branch, origin, status, claim, run>>

\* reset --hard origin/<default> moves the branch that is checked out by now;
\* clean -fd removes what is left.
ResetAndClean(s) ==
  LET p == home[s]
  IN  /\ slot[s].pc = "reset"
      /\ branch' = [branch EXCEPT ![p][tree[p].head] = {Root}]
      /\ tree' = [tree EXCEPT ![p].dirty = {}]
      /\ Goes(s, "work")
      /\ UNCHANGED <<board, home, origin, status, claim, run>>
-----------------------------------------------------------------------------
(* The agent, as its prompt tells it to work.                               *)

\* It changes files, in the directory or in a worktree of its own, which no
\* other run's git command touches.
AgentEdits(s) ==
  /\ slot[s].pc = "work" /\ ~board.worktrees
  /\ tree' = [tree EXCEPT ![home[s]].dirty = @ \cup {slot[s].run}]
  /\ UNCHANGED <<board, home, branch, origin, status, claim, slot, run>>

\* What a new branch of the ticket may fork from: HEAD, or the remote's branch.
ForkedFrom(p, t) == {branch[p][tree[p].head]} \cup ({origin[t]} \ {Missing})

\* It switches to the branch its prompt names, creating it if need be. A
\* worktree leaves the directory's own HEAD alone.
AgentBranches(s) ==
  LET p == home[s]  t == TicketOf(s)
  IN  /\ slot[s].pc = "work" /\ ~slot[s].branched
      /\ slot' = [slot EXCEPT ![s].branched = TRUE]
      /\ IF branch[p][t] # Missing THEN UNCHANGED branch
         ELSE \E base \in ForkedFrom(p, t) : branch' = [branch EXCEPT ![p][t] = base]
      /\ tree' = IF board.worktrees THEN tree ELSE [tree EXCEPT ![p].head = t]
      /\ UNCHANGED <<board, home, origin, status, claim, run>>

\* It commits whatever its working tree has to the branch checked out there.
AgentCommits(s) ==
  LET p == home[s]
      h == IF board.worktrees THEN TicketOf(s) ELSE tree[p].head
      work == IF board.worktrees THEN {slot[s].run} ELSE tree[p].dirty
  IN  /\ slot[s].pc = "work" /\ slot[s].branched /\ work # {}
      /\ branch' = [branch EXCEPT ![p][h] = @ \cup work]
      /\ tree' = IF board.worktrees THEN tree ELSE [tree EXCEPT ![p].dirty = {}]
      /\ run' = [run EXCEPT !.committed = @ \cup (work \cap {slot[s].run})]
      /\ UNCHANGED <<board, home, origin, status, claim, slot>>

-----------------------------------------------------------------------------
(* resolve_push and finish_work.                                            *)

\* met: the verdict of the commit gate, which a prompt without requirements
\* does not ask for; one that is missing is not met.
VetoedByBoard(met) == ~board.autoPush                            \* mutant
Vetoed(met) == ~board.autoPush \/ (board.gated /\ ~met)

\* The branch must exist, and git refuses a push that is not a fast-forward.
Forced(p, t) == branch[p][t] # Missing                           \* mutant
Pushable(p, t) == branch[p][t] # Missing /\ origin[t] \subseteq branch[p][t]

\* The run ends well, and its ticket's branch is pushed.
Push(s, met) ==
  LET p == home[s]  t == TicketOf(s)  r == slot[s].run
  IN  /\ slot[s].pc = "work" /\ (met => board.gated)
      /\ ~Vetoed(met) /\ Pushable(p, t)
      /\ origin' = [origin EXCEPT ![t] = branch[p][t]]
      /\ Goes(s, "report")
      /\ run' = [run EXCEPT !.pushed = @ \cup {r}, !.met = IF met THEN @ \cup {r} ELSE @]
      /\ UNCHANGED <<board, home, tree, branch, status, claim>>

\* finish_work and raise_question: nothing is written for a claim that was
\* superseded meanwhile. parked: blocked, failed or killed.
StillHeld(s) == claim[TicketOf(s)] = slot[s].run
Reports(s, result) ==
  LET t == TicketOf(s)
  IN  /\ IF StillHeld(s)
         THEN /\ claim' = [claim EXCEPT ![t] = NoRun]
              /\ status' = [status EXCEPT ![t] = result]
         ELSE UNCHANGED <<claim, status>>
      /\ slot' = [slot EXCEPT ![s] = IdleSlot]
      /\ UNCHANGED <<board, home, tree, branch, origin, run>>

ReportPushed(s) == slot[s].pc = "report" /\ Reports(s, "done")

\* The run ends well, and a veto, a missing branch, the network or the remote
\* keeps its branch here.
NotPushed(s) == slot[s].pc = "work" /\ Reports(s, "parked")

\* A git command of the refresh fails; the run fails, is killed, or asks.
Fails(s) ==
  /\ slot[s].pc \in {"refresh", "reset", "work"}
  /\ \E result \in {"ready", "parked"} : Reports(s, result)

\* The PC dies mid-run, or loses the result; its directory stays as it is.
SlotDies(s) ==
  /\ slot[s].pc # "idle"
  /\ slot' = [slot EXCEPT ![s] = IdleSlot]
  /\ UNCHANGED <<board, home, tree, branch, origin, status, claim, run>>

\* enqueue_ticket or the reaper: the ticket is ready again, its claim is lost.
Requeue(t) ==
  /\ status[t] # "ready"
  /\ status' = [status EXCEPT ![t] = "ready"]
  /\ claim' = [claim EXCEPT ![t] = NoRun]
  /\ UNCHANGED <<board, home, tree, branch, origin, slot, run>>
-----------------------------------------------------------------------------
SlotStep(s) ==
  \/ \E t \in Tickets : Claim(s, t)
  \/ ForceCheckout(s) \/ ResetAndClean(s)
  \/ AgentEdits(s) \/ AgentBranches(s) \/ AgentCommits(s)
  \/ \E met \in BOOLEAN : Push(s, met)
  \/ ReportPushed(s) \/ NotPushed(s) \/ Fails(s) \/ SlotDies(s)

Next ==
  \/ \E s \in Slots : SlotStep(s)
  \/ \E t \in Tickets : Requeue(t)

Spec == Init /\ [][Next]_vars
-----------------------------------------------------------------------------
(* Safety.                                                                  *)

TypeOK ==
  /\ board \in Boards
  /\ home \in [Slots -> PCs]
  /\ tree \in [PCs -> Tree]
  /\ branch \in [PCs -> [Heads -> SUBSET (Runs \cup {Root})]]
  /\ origin \in [Tickets -> SUBSET (Runs \cup {Root})]
  /\ status \in [Tickets -> {"ready", "doing", "parked", "done"}]
  /\ claim \in [Tickets -> Runs \cup {NoRun}]
  /\ slot \in [Slots -> Slot]
  /\ run \in History

\* Only an auto-clone without worktrees is a directory whose slots can step on
\* each other's work.
Exposed == ~board.own /\ ~board.worktrees

\* A run that was pushed has its commits on origin, then and ever after, unless
\* it shared its directory with another: "a ticket is done when it is committed
\* and pushed" (resolve_push, push_ticket_branch, finish_work).
PushedStays ==
  \A r \in run.pushed \cap run.committed :
    r \in origin[run.ticket[r]] \/ (~board.worktrees /\ r \in run.company)

\* Where every run starts from a refreshed checkout, a ticket's branch on the
\* remote carries another ticket's commits only after a run of the ticket shared
\* its directory: no run inherits what an earlier one left behind, whatever
\* state it died in (resolve_directory's forced checkout, reset and clean).
OnlyOwnWork ==
  \A t \in Tickets :
    (\E r \in origin[t] : ~board.own /\ r # Root /\ run.ticket[r] # t)
      => Exposed /\ \E r \in run.company : run.ticket[r] = t

\* On a board with commit requirements, a run's commits are on the remote only
\* if it, or a later run of a ticket that found them on the branch, reported
\* the requirements met (resolve_push's veto), however often the runs between
\* failed, were refused or died; or one of the two shared its directory.
OnlyVettedWork ==
  board.gated => \A t \in Tickets, r \in Runs :
    r \in origin[t] => \E v \in run.met :
      run.ticket[v] = t /\ (v >= r \/ {v, r} \cap run.company # {})

\* The commits of any run, and the edits of a run at work, vanish from a PC
\* only in a refresh of an auto-clone without worktrees, when they, or the run
\* that refreshes, shared the directory with a neighbour, as slots of one PC do
\* (resolve_directory, "forcing past local changes here is safe"): never on a
\* folder somebody set, never with worktrees, and never because a run before
\* failed, died or was re-queued.
WorkAt(p) == ((UNION {branch[p][h] : h \in Heads}) \cup tree[p].dirty) \ {Root}
AtWork(r) == \E s \in Slots : slot[s].pc = "work" /\ slot[s].run = r
WorkSurvives ==
  [][\A p \in PCs : \A r \in WorkAt(p) \ WorkAt(p)' :
       AtWork(r) \/ r \in run.committed =>
         /\ Exposed
         /\ \E s \in Slots : /\ home[s] = p /\ slot[s].pc \in {"refresh", "reset"}
                           /\ run.company \cap {slot[s].run, r} # {}]_vars
=============================================================================
