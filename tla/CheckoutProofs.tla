--------------------------- MODULE CheckoutProofs ---------------------------
(* Theorems about Checkout, for every value of its constants.               *)
EXTENDS Checkout, TLAPS

-----------------------------------------------------------------------------
(* Type correctness.                                                        *)

\* What TypeOK needs besides itself: a busy slot has a run of some ticket.
BusyHasRun ==
  \A s \in Slots : slot[s].pc # "idle" =>
    /\ slot[s].run \in Runs /\ slot[s].run <= run.last
    /\ TicketOf(s) \in Tickets

TypeInv == TypeOK /\ BusyHasRun

LEMMA InitTyped == Init => TypeInv
<1> SUFFICES ASSUME Init PROVE TypeInv
  OBVIOUS
<1>1. tree \in [PCs -> Tree] /\ branch \in [PCs -> [Heads -> SUBSET (Runs \cup {Root})]]
  BY DEF Init, Tree, Heads, Missing, Root
<1>2. slot \in [Slots -> Slot] /\ run \in History /\ BusyHasRun
  BY DEF Init, Slot, IdleSlot, History, BusyHasRun, NoRun
<1> QED BY <1>1, <1>2 DEF Init, TypeInv, TypeOK, Missing

\* A slot's next state is typed if what it becomes is.
LEMMA SlotBecomesTyped ==
  ASSUME TypeInv, NEW s \in Slots, NEW rec \in Slot, slot' = [slot EXCEPT ![s] = rec],
         run'.ticket = run.ticket, run'.last = run.last,
         rec.pc # "idle" => rec.run = slot[s].run /\ slot[s].pc # "idle"
  PROVE  slot' \in [Slots -> Slot] /\ BusyHasRun'
BY DEF TypeInv, TypeOK, BusyHasRun, TicketOf

LEMMA GoesTyped ==
  ASSUME TypeInv, NEW s \in Slots, NEW pc \in {"reset", "work", "report"}, Goes(s, pc),
         slot[s].pc # "idle", run'.ticket = run.ticket, run'.last = run.last
  PROVE  slot' \in [Slots -> Slot] /\ BusyHasRun'
<1> DEFINE rec == [slot[s] EXCEPT !.pc = pc]
<1>1. rec \in Slot /\ rec.run = slot[s].run
  BY DEF TypeInv, TypeOK, Slot
<1>2. slot' = [slot EXCEPT ![s] = rec]
  BY DEF Goes
<1> HIDE DEF rec
<1> QED BY <1>1, <1>2, SlotBecomesTyped

LEMMA SlotIdlesTyped ==
  ASSUME TypeInv, NEW s \in Slots, slot' = [slot EXCEPT ![s] = IdleSlot], run' = run
  PROVE  slot' \in [Slots -> Slot] /\ BusyHasRun'
<1>1. IdleSlot \in Slot /\ IdleSlot.pc = "idle"
  BY DEF IdleSlot, Slot, NoRun
<1> QED BY <1>1, SlotBecomesTyped

LEMMA ClaimTyped ==
  ASSUME TypeInv, NEW s \in Slots, NEW t \in Tickets, Claim(s, t)
  PROVE  TypeInv'
<1> DEFINE r == run.last + 1
<1> DEFINE rec == [IdleSlot EXCEPT !.run = r, !.pc = IF Refreshed THEN "refresh" ELSE "work"]
<1>1. /\ r \in Runs /\ run.last \in Nat /\ run.last < r
      /\ status' = [status EXCEPT ![t] = "doing"]
      /\ claim' = [claim EXCEPT ![t] = r]
      /\ slot' = [slot EXCEPT ![s] = rec]
      /\ run' = [run EXCEPT !.ticket = [@ EXCEPT ![r] = t], !.last = r,
                            !.company = @ \cup Shares(s, r)]
      /\ UNCHANGED <<board, home, tree, branch, origin>>
  BY CheckoutAssumption DEF Claim, TypeInv, TypeOK, History, Runs, NoRun
<1>2. rec \in Slot /\ rec.run = r
  BY <1>1 DEF IdleSlot, Slot
<1>3. Shares(s, r) \subseteq Runs
  BY <1>1 DEF Shares, Neighbours, Inside, TypeInv, BusyHasRun
<1> HIDE DEF rec
<1>4. /\ run' \in History /\ run'.last = r
      /\ run'.ticket = [run.ticket EXCEPT ![r] = t]
  BY <1>1, <1>3 DEF TypeInv, TypeOK, History
<1>5. BusyHasRun'
  BY <1>1, <1>2, <1>4, CheckoutAssumption DEF BusyHasRun, TypeInv, TypeOK, TicketOf, History, Runs
<1> QED BY <1>1, <1>2, <1>4, <1>5 DEF TypeInv, TypeOK

LEMMA RefreshTyped ==
  ASSUME TypeInv, NEW s \in Slots, ForceCheckout(s) \/ ResetAndClean(s)
  PROVE  TypeInv'
<1>0. home[s] \in PCs
  BY DEF TypeInv, TypeOK
<1>1. CASE ForceCheckout(s)
  <2>1. slot' \in [Slots -> Slot] /\ BusyHasRun'
    BY <1>1, GoesTyped DEF ForceCheckout
  <2>2. tree' \in [PCs -> Tree]
    BY <1>1 DEF ForceCheckout, TypeInv, TypeOK, Tree, DefaultHead, Heads
  <2> QED BY <1>1, <2>1, <2>2 DEF ForceCheckout, TypeInv, TypeOK
<1>2. CASE ResetAndClean(s)
  <2>1. slot' \in [Slots -> Slot] /\ BusyHasRun'
    BY <1>2, GoesTyped DEF ResetAndClean
  <2>2. tree' \in [PCs -> Tree]
    BY <1>2 DEF ResetAndClean, TypeInv, TypeOK, Tree
  <2>3. branch' \in [PCs -> [Heads -> SUBSET (Runs \cup {Root})]]
    BY <1>2 DEF ResetAndClean, TypeInv, TypeOK
  <2> QED BY <1>2, <2>1, <2>2, <2>3 DEF ResetAndClean, TypeInv, TypeOK
<1> QED BY <1>1, <1>2

LEMMA AgentTyped ==
  ASSUME TypeInv, NEW s \in Slots, AgentEdits(s) \/ AgentBranches(s) \/ AgentCommits(s)
  PROVE  TypeInv'
<1>0. /\ home[s] \in PCs /\ slot[s] \in Slot /\ slot[s].pc = "work"
      /\ slot[s].run \in Runs /\ TicketOf(s) \in Tickets /\ TicketOf(s) \in Heads
  BY DEF TypeInv, TypeOK, AgentEdits, AgentBranches, AgentCommits, BusyHasRun, Heads
<1> DEFINE p == home[s]
<1> DEFINE t == TicketOf(s)
<1>1. CASE AgentEdits(s)
  <2>1. tree' \in [PCs -> Tree]
    BY <1>0, <1>1 DEF AgentEdits, TypeInv, TypeOK, Tree
  <2>2. BusyHasRun'
    BY <1>1 DEF AgentEdits, TypeInv, BusyHasRun, TicketOf
  <2> QED BY <1>1, <2>1, <2>2 DEF AgentEdits, TypeInv, TypeOK
<1>2. CASE AgentBranches(s)
  <2> DEFINE rec == [slot[s] EXCEPT !.branched = TRUE]
  <2>1. rec \in Slot /\ rec.run = slot[s].run
    BY <1>0 DEF Slot
  <2>2. slot' = [slot EXCEPT ![s] = rec] /\ run' = run
    BY <1>2 DEF AgentBranches
  <2>3. slot' \in [Slots -> Slot] /\ BusyHasRun'
    <3> HIDE DEF rec
    <3> QED BY <1>0, <2>1, <2>2, SlotBecomesTyped
  <2>4. tree' \in [PCs -> Tree]
    <3>1. CASE tree' = [tree EXCEPT ![p].head = t]
      BY <1>0, <3>1 DEF TypeInv, TypeOK, Tree
    <3> QED BY <1>2, <3>1 DEF AgentBranches, TypeInv, TypeOK
  <2>5. branch' \in [PCs -> [Heads -> SUBSET (Runs \cup {Root})]]
    <3>1. CASE branch' = branch
      BY <3>1 DEF TypeInv, TypeOK
    <3>2. ASSUME NEW base \in ForkedFrom(p, t), branch' = [branch EXCEPT ![p][t] = base]
          PROVE  branch' \in [PCs -> [Heads -> SUBSET (Runs \cup {Root})]]
      <4>1. base \in SUBSET (Runs \cup {Root})
        BY <1>0 DEF ForkedFrom, TypeInv, TypeOK, Tree
      <4> QED BY <1>0, <3>2, <4>1 DEF TypeInv, TypeOK
    <3> QED BY <1>2, <3>1, <3>2 DEF AgentBranches
  <2> QED BY <1>2, <2>2, <2>3, <2>4, <2>5 DEF AgentBranches, TypeInv, TypeOK
<1>3. CASE AgentCommits(s)
  <2> DEFINE h == IF board.worktrees THEN t ELSE tree[p].head
  <2> DEFINE work == IF board.worktrees THEN {slot[s].run} ELSE tree[p].dirty
  <2>1. h \in Heads /\ work \in SUBSET Runs
    BY <1>0 DEF TypeInv, TypeOK, Tree
  <2>2. /\ branch' = [branch EXCEPT ![p][h] = @ \cup work]
        /\ run' = [run EXCEPT !.committed = @ \cup (work \cap {slot[s].run})]
        /\ UNCHANGED <<board, home, origin, status, claim, slot>>
    BY <1>3 DEF AgentCommits
  <2>3. tree' \in [PCs -> Tree]
    BY <1>0, <1>3 DEF AgentCommits, TypeInv, TypeOK, Tree
  <2> HIDE DEF h, work
  <2>4. branch' \in [PCs -> [Heads -> SUBSET (Runs \cup {Root})]]
    BY <1>0, <2>1, <2>2 DEF TypeInv, TypeOK
  <2>5. run' \in History /\ run'.ticket = run.ticket /\ run'.last = run.last
    BY <2>1, <2>2 DEF TypeInv, TypeOK, History
  <2>6. BusyHasRun'
    BY <2>2, <2>5 DEF TypeInv, BusyHasRun, TicketOf
  <2> QED BY <2>2, <2>3, <2>4, <2>5, <2>6 DEF TypeInv, TypeOK
<1> QED BY <1>1, <1>2, <1>3

LEMMA PushTyped ==
  ASSUME TypeInv, NEW s \in Slots, NEW met \in BOOLEAN, Push(s, met)
  PROVE  TypeInv'
<1>0. /\ home[s] \in PCs /\ slot[s].pc = "work" /\ slot[s].run \in Runs
      /\ TicketOf(s) \in Tickets /\ TicketOf(s) \in Heads
  BY DEF TypeInv, TypeOK, Push, BusyHasRun, Heads
<1>1. run' = [run EXCEPT !.pushed = @ \cup {slot[s].run},
                         !.met = IF met THEN @ \cup {slot[s].run} ELSE @]
  BY DEF Push
<1>2. run' \in History /\ run'.ticket = run.ticket /\ run'.last = run.last
  BY <1>0, <1>1 DEF TypeInv, TypeOK, History
<1>3. slot' \in [Slots -> Slot] /\ BusyHasRun'
  BY <1>0, <1>2, GoesTyped DEF Push
<1>4. origin' \in [Tickets -> SUBSET (Runs \cup {Root})]
  BY <1>0 DEF Push, TypeInv, TypeOK
<1> QED BY <1>2, <1>3, <1>4 DEF Push, TypeInv, TypeOK

LEMMA ReportsTyped ==
  ASSUME TypeInv, NEW s \in Slots, NEW result \in {"ready", "parked", "done"},
         slot[s].pc # "idle", Reports(s, result)
  PROVE  TypeInv'
<1>1. slot' \in [Slots -> Slot] /\ BusyHasRun'
  BY SlotIdlesTyped DEF Reports
<1>2. /\ claim' \in [Tickets -> Runs \cup {NoRun}]
      /\ status' \in [Tickets -> {"ready", "doing", "parked", "done"}]
  BY DEF Reports, TypeInv, TypeOK
<1> QED BY <1>1, <1>2 DEF Reports, TypeInv, TypeOK

LEMMA NextTyped == TypeInv /\ [Next]_vars => TypeInv'
<1> SUFFICES ASSUME TypeInv, [Next]_vars PROVE TypeInv'
  OBVIOUS
<1>1. ASSUME NEW s \in Slots, SlotStep(s) PROVE TypeInv'
  <2>1. CASE ReportPushed(s) \/ NotPushed(s) \/ Fails(s)
    BY <2>1, ReportsTyped DEF ReportPushed, NotPushed, Fails
  <2>2. CASE SlotDies(s)
    <3>1. slot' \in [Slots -> Slot] /\ BusyHasRun'
      BY <2>2, SlotIdlesTyped DEF SlotDies
    <3> QED BY <2>2, <3>1 DEF SlotDies, TypeInv, TypeOK
  <2> QED
    BY <1>1, <2>1, <2>2, ClaimTyped, RefreshTyped, AgentTyped, PushTyped DEF SlotStep
<1>2. ASSUME NEW t \in Tickets, Requeue(t) PROVE TypeInv'
  BY <1>2 DEF Requeue, TypeInv, TypeOK, BusyHasRun, TicketOf
<1>3. CASE UNCHANGED vars
  BY <1>3 DEF vars, TypeInv, TypeOK, BusyHasRun, TicketOf
<1> QED BY <1>1, <1>2, <1>3 DEF Next

LEMMA Typed == Spec => []TypeInv
BY InitTyped, NextTyped, PTL DEF Spec

\* Checkouts, branches, claims and runs stay well formed, and no slot works on
\* a run nobody started.
THEOREM TypeCorrect == Spec => []TypeOK
<1>1. TypeInv => TypeOK
  BY DEF TypeInv
<1> QED BY <1>1, Typed, PTL
-----------------------------------------------------------------------------
(* Who shares a directory. Two slots inside one directory are both known to   *)
(* have company, no two slots are on one run, and what is recorded of runs is *)
(* of runs that were started.                                                *)

\* A slot that had its directory to itself since its run began.
Alone(s) == slot[s].run \notin run.company

CompanyKnown ==
  \A s, o \in Slots :
    s # o /\ home[s] = home[o] /\ Inside(s) /\ Inside(o) => ~Alone(s) /\ ~Alone(o)

OneSlotPerRun ==
  \A s, o \in Slots :
    s # o /\ slot[s].pc # "idle" /\ slot[o].pc # "idle" => slot[s].run # slot[o].run

Started(r) == r \in Runs /\ r <= run.last
OnlyStarted ==
  /\ \A r \in run.committed \cup run.pushed \cup run.met \cup run.company : Started(r)
  /\ \A p \in PCs, h \in Heads : \A r \in branch[p][h] : r = Root \/ Started(r)
  /\ \A p \in PCs : \A r \in tree[p].dirty : Started(r)
  /\ \A t \in Tickets : \A r \in origin[t] : r = Root \/ Started(r)

CompanyInv == TypeInv /\ CompanyKnown /\ OneSlotPerRun /\ OnlyStarted

LEMMA InitCompany == Init => CompanyInv
<1> SUFFICES ASSUME Init PROVE CompanyInv
  OBVIOUS
<1>1. CompanyKnown /\ OneSlotPerRun
  BY DEF Init, CompanyKnown, OneSlotPerRun, Inside, IdleSlot
<1>2. OnlyStarted
  BY DEF Init, OnlyStarted, Missing
<1> QED BY <1>1, <1>2, InitTyped DEF CompanyInv

\* Of a step that starts no run: which slots are busy, with what, and that
\* nobody enters a directory.
Settles ==
  /\ run'.last = run.last /\ run'.ticket = run.ticket /\ run'.company = run.company
  /\ home' = home /\ board' = board
  /\ \A s \in Slots :
       /\ slot'[s].pc # "idle" => slot[s].pc # "idle" /\ slot'[s].run = slot[s].run
       /\ Inside(s)' => Inside(s)

LEMMA SlotStepSettles ==
  ASSUME TypeInv, NEW s \in Slots, SlotStep(s), \A t \in Tickets : ~Claim(s, t)
  PROVE  Settles
<1>0. slot \in [Slots -> Slot] /\ run \in History
  BY DEF TypeInv, TypeOK
<1>1. ASSUME NEW pc \in {"reset", "work", "report"}, Goes(s, pc), Inside(s),
             run'.last = run.last, run'.ticket = run.ticket, run'.company = run.company,
             home' = home, board' = board
      PROVE  Settles
  BY <1>0, <1>1 DEF Goes, Settles, Inside, Slot
<1>2. ASSUME slot' = [slot EXCEPT ![s] = IdleSlot], run' = run, home' = home, board' = board
      PROVE  Settles
  BY <1>0, <1>2 DEF Settles, Inside, IdleSlot, Slot
<1>3. CASE ForceCheckout(s)
  BY <1>1, <1>3 DEF ForceCheckout, Inside
<1>4. CASE ResetAndClean(s)
  BY <1>1, <1>4 DEF ResetAndClean, Inside
<1>5. CASE AgentEdits(s)
  BY <1>5 DEF AgentEdits, Settles, Inside
<1>6. CASE AgentBranches(s)
  BY <1>0, <1>6 DEF AgentBranches, Settles, Inside, Slot
<1>7. CASE AgentCommits(s)
  BY <1>0, <1>7 DEF AgentCommits, Settles, Inside, History
<1>8. ASSUME NEW met \in BOOLEAN, Push(s, met) PROVE Settles
  <2>1. run'.last = run.last /\ run'.ticket = run.ticket /\ run'.company = run.company
    BY <1>0, <1>8 DEF Push, History
  <2> QED BY <1>1, <1>8, <2>1 DEF Push, Inside
<1>9. CASE ReportPushed(s) \/ NotPushed(s) \/ Fails(s) \/ SlotDies(s)
  BY <1>2, <1>9 DEF ReportPushed, NotPushed, Fails, Reports, SlotDies
<1> QED
  BY <1>3, <1>4, <1>5, <1>6, <1>7, <1>8, <1>9 DEF SlotStep

LEMMA OthersSettle ==
  ASSUME TypeInv, [Next]_vars, \A s \in Slots, t \in Tickets : ~Claim(s, t)
  PROVE  Settles
<1>1. ASSUME NEW s \in Slots, SlotStep(s) PROVE Settles
  BY <1>1, SlotStepSettles
<1>2. ASSUME NEW t \in Tickets, Requeue(t) PROVE Settles
  BY <1>2 DEF Requeue, Settles, Inside
<1>3. CASE UNCHANGED vars
  BY <1>3 DEF vars, Settles, Inside
<1> QED BY <1>1, <1>2, <1>3 DEF Next

\* What a claim does.
ClaimEffect(s, t, r) ==
  /\ r = run.last + 1 /\ r \in Runs /\ ~Started(r)
  /\ slot[s].pc = "idle"
  /\ slot'[s].pc = (IF Refreshed THEN "refresh" ELSE "work")
  /\ slot'[s].run = r /\ ~slot'[s].branched
  /\ \A o \in Slots \ {s} : slot'[o] = slot[o]
  /\ run'.last = r /\ run'.ticket = [run.ticket EXCEPT ![r] = t]
  /\ run'.company = run.company \cup Shares(s, r)
  /\ run'.committed = run.committed /\ run'.met = run.met /\ run'.pushed = run.pushed
  /\ UNCHANGED <<board, home, tree, branch, origin>>

LEMMA ClaimEffects ==
  ASSUME TypeInv, NEW s \in Slots, NEW t \in Tickets, Claim(s, t)
  PROVE  ClaimEffect(s, t, run.last + 1)
<1> DEFINE r == run.last + 1
<1> DEFINE rec == [IdleSlot EXCEPT !.run = r, !.pc = IF Refreshed THEN "refresh" ELSE "work"]
<1>1. /\ r \in Runs /\ slot[s].pc = "idle"
      /\ slot' = [slot EXCEPT ![s] = rec]
      /\ run' = [run EXCEPT !.ticket = [@ EXCEPT ![r] = t], !.last = r,
                            !.company = @ \cup Shares(s, r)]
      /\ UNCHANGED <<board, home, tree, branch, origin>>
  BY DEF Claim
<1>2. ~Started(r)
  BY CheckoutAssumption DEF TypeInv, TypeOK, History, Runs, NoRun, Started
<1>3. rec.pc = (IF Refreshed THEN "refresh" ELSE "work") /\ rec.run = r /\ ~rec.branched
  BY DEF IdleSlot
<1> HIDE DEF rec
<1>4. /\ slot'[s] = rec
      /\ \A o \in Slots \ {s} : slot'[o] = slot[o]
  BY <1>1 DEF TypeInv, TypeOK
<1>5. /\ run'.last = r /\ run'.ticket = [run.ticket EXCEPT ![r] = t]
      /\ run'.company = run.company \cup Shares(s, r)
      /\ run'.committed = run.committed /\ run'.met = run.met /\ run'.pushed = run.pushed
  BY <1>1 DEF TypeInv, TypeOK, History
<1> QED BY <1>1, <1>2, <1>3, <1>4, <1>5 DEF ClaimEffect

\* Nothing is recorded of a run that was not started.
LEMMA StartedGrows ==
  ASSUME TypeInv, TypeInv', [Next]_vars, NEW r, Started(r)
  PROVE  Started(r)'
<1>1. run.last <= run'.last /\ run.last \in Nat /\ run'.last \in Nat
  <2>1. ASSUME NEW s \in Slots, NEW t \in Tickets, Claim(s, t)
        PROVE  run'.last = run.last + 1
    BY <2>1, ClaimEffects DEF ClaimEffect
  <2>2. run.last \in Nat /\ run'.last \in Nat
    BY CheckoutAssumption DEF TypeInv, TypeOK, History, Runs, NoRun
  <2> QED BY <2>1, <2>2, OthersSettle DEF Settles
<1> QED BY <1>1, CheckoutAssumption DEF Started, Runs

\* What a step adds to branches, trees, the remote and the records was on one
\* of them already, or is the run of a slot at work.
LEMMA NothingUnstarted ==
  ASSUME CompanyInv, TypeInv', [Next]_vars
  PROVE  OnlyStarted'
<1> USE CheckoutAssumption
<1>0. /\ TypeInv /\ OnlyStarted
      /\ \A r : Started(r) => Started(r)'
      /\ \A s \in Slots : slot[s].pc # "idle" => Started(slot[s].run) /\ TicketOf(s) \in Tickets
      /\ \A s \in Slots : home[s] \in PCs
      /\ Default \in Heads /\ Tickets \subseteq Heads
  BY StartedGrows DEF CompanyInv, TypeInv, TypeOK, BusyHasRun, Started, Heads
<1> DEFINE Known(S) == \A r \in S : r = Root \/ Started(r)
<1>a. ASSUME UNCHANGED <<tree, branch, origin, run>> PROVE OnlyStarted'
  BY <1>0, <1>a DEF OnlyStarted
<1>1. ASSUME NEW s \in Slots, NEW t \in Tickets, Claim(s, t) PROVE OnlyStarted'
  <2>1. PICK r \in Runs : ClaimEffect(s, t, r)
    BY <1>0, <1>1, ClaimEffects DEF ClaimEffect
  <2>2. Started(r)'
    BY <2>1 DEF ClaimEffect, Started, Runs
  <2>3. \A x \in Shares(s, r) : Started(x)'
    <3>1. Shares(s, r) \subseteq {r} \cup {slot[o].run : o \in Neighbours(s)}
      BY DEF Shares
    <3>2. \A o \in Neighbours(s) : Started(slot[o].run)
      BY <1>0 DEF Neighbours, Inside
    <3>3. ASSUME NEW x \in Shares(s, r) PROVE Started(x)'
      BY <1>0, <2>2, <3>1, <3>2
    <3> QED BY <3>3
  <2> QED BY <1>0, <2>1, <2>3 DEF ClaimEffect, OnlyStarted
<1>2. ASSUME NEW s \in Slots, ForceCheckout(s) PROVE OnlyStarted'
  BY <1>0, <1>2 DEF ForceCheckout, OnlyStarted, TypeInv, TypeOK
<1>3. ASSUME NEW s \in Slots, ResetAndClean(s) PROVE OnlyStarted'
  <2>1. \A p \in PCs, h \in Heads : branch'[p][h] \in {branch[p][h], {Root}}
    BY <1>0, <1>3 DEF ResetAndClean, TypeInv, TypeOK
  <2>2. \A p \in PCs : tree'[p].dirty \in {tree[p].dirty, {}}
    BY <1>0, <1>3 DEF ResetAndClean, TypeInv, TypeOK, Tree
  <2> QED BY <1>0, <1>3, <2>1, <2>2 DEF ResetAndClean, OnlyStarted
<1>4. ASSUME NEW s \in Slots, AgentEdits(s) PROVE OnlyStarted'
  <2>1. \A p \in PCs : tree'[p].dirty \in {tree[p].dirty, tree[p].dirty \cup {slot[s].run}}
    BY <1>0, <1>4 DEF AgentEdits, TypeInv, TypeOK, Tree
  <2>2. Started(slot[s].run)
    BY <1>0, <1>4 DEF AgentEdits
  <2> QED BY <1>0, <1>4, <2>1, <2>2 DEF AgentEdits, OnlyStarted
<1>5. ASSUME NEW s \in Slots, AgentBranches(s) PROVE OnlyStarted'
  <2> DEFINE p == home[s]
  <2> DEFINE t == TicketOf(s)
  <2>0. p \in PCs /\ t \in Tickets /\ tree[p].head \in Heads
    BY <1>0, <1>5 DEF AgentBranches, TypeInv, TypeOK, Tree
  <2>1. \A base \in ForkedFrom(p, t) : Known(base)
    BY <1>0, <2>0 DEF ForkedFrom, OnlyStarted
  <2>2. branch' = branch \/ \E base \in ForkedFrom(p, t) : branch' = [branch EXCEPT ![p][t] = base]
    BY <1>5 DEF AgentBranches
  <2>3. \A q \in PCs, h \in Heads : branch'[q][h] = branch[q][h] \/ Known(branch'[q][h])
    BY <1>0, <2>0, <2>1, <2>2 DEF TypeInv, TypeOK
  <2>4. \A q \in PCs : tree'[q].dirty = tree[q].dirty
    BY <1>0, <1>5 DEF AgentBranches, TypeInv, TypeOK, Tree
  <2> QED BY <1>0, <1>5, <2>3, <2>4 DEF AgentBranches, OnlyStarted
<1>6. ASSUME NEW s \in Slots, AgentCommits(s) PROVE OnlyStarted'
  <2> DEFINE p == home[s]
  <2> DEFINE h == IF board.worktrees THEN TicketOf(s) ELSE tree[p].head
  <2> DEFINE work == IF board.worktrees THEN {slot[s].run} ELSE tree[p].dirty
  <2>0. p \in PCs /\ Started(slot[s].run) /\ h \in Heads
    BY <1>0, <1>6 DEF AgentCommits, TypeInv, TypeOK, Tree
  <2>1. \A r \in work : Started(r)
    BY <1>0, <2>0 DEF OnlyStarted
  <2>2. /\ branch' = [branch EXCEPT ![p][h] = @ \cup work]
        /\ run' = [run EXCEPT !.committed = @ \cup (work \cap {slot[s].run})]
    BY <1>6 DEF AgentCommits
  <2>3. \A q \in PCs : tree'[q].dirty \in {tree[q].dirty, {}}
    BY <1>0, <1>6 DEF AgentCommits, TypeInv, TypeOK, Tree
  <2> HIDE DEF h, work
  <2>4. \A q \in PCs, k \in Heads : branch'[q][k] \in {branch[q][k], branch[q][k] \cup work}
    BY <1>0, <2>0, <2>2 DEF TypeInv, TypeOK
  <2>5. /\ run'.committed \subseteq run.committed \cup work
        /\ run'.pushed = run.pushed /\ run'.met = run.met /\ run'.company = run.company
    BY <1>0, <2>2 DEF TypeInv, TypeOK, History
  <2>6. origin' = origin
    BY <1>6 DEF AgentCommits
  <2> QED BY <1>0, <2>1, <2>3, <2>4, <2>5, <2>6 DEF OnlyStarted
<1>7. ASSUME NEW s \in Slots, NEW met \in BOOLEAN, Push(s, met) PROVE OnlyStarted'
  <2>0. home[s] \in PCs /\ TicketOf(s) \in Tickets /\ Started(slot[s].run)
    BY <1>0, <1>7 DEF Push
  <2>1. /\ run'.pushed = run.pushed \cup {slot[s].run} /\ run'.met \subseteq run.met \cup {slot[s].run}
        /\ run'.committed = run.committed /\ run'.company = run.company
    BY <1>0, <1>7 DEF Push, TypeInv, TypeOK, History
  <2>2. \A t \in Tickets : origin'[t] = origin[t] \/ Known(origin'[t])
    BY <1>0, <1>7, <2>0 DEF Push, OnlyStarted, TypeInv, TypeOK
  <2> QED BY <1>0, <1>7, <2>0, <2>1, <2>2 DEF Push, OnlyStarted
<1>8. ASSUME NEW s \in Slots, ReportPushed(s) \/ NotPushed(s) \/ Fails(s) \/ SlotDies(s)
      PROVE  OnlyStarted'
  BY <1>8, <1>a DEF ReportPushed, NotPushed, Fails, Reports, SlotDies
<1>9. ASSUME NEW t \in Tickets, Requeue(t) PROVE OnlyStarted'
  BY <1>9, <1>a DEF Requeue
<1>10. CASE UNCHANGED vars
  BY <1>10, <1>a DEF vars
<1> QED
  BY <1>1, <1>2, <1>3, <1>4, <1>5, <1>6, <1>7, <1>8, <1>9, <1>10 DEF Next, SlotStep

LEMMA NextCompany == CompanyInv /\ [Next]_vars => CompanyInv'
<1> SUFFICES ASSUME CompanyInv, [Next]_vars PROVE CompanyInv'
  OBVIOUS
<1>0. TypeInv /\ TypeInv' /\ OnlyStarted'
  BY NextTyped, NothingUnstarted DEF CompanyInv
<1>1. CASE \A s \in Slots, t \in Tickets : ~Claim(s, t)
  <2>1. Settles
    BY <1>0, <1>1, OthersSettle
  <2>2. CompanyKnown'
    BY <2>1 DEF Settles, CompanyKnown, CompanyInv, Alone, Inside
  <2>3. OneSlotPerRun'
    BY <2>1 DEF Settles, OneSlotPerRun, CompanyInv
  <2> QED BY <1>0, <2>2, <2>3 DEF CompanyInv
<1>2. ASSUME NEW s \in Slots, NEW t \in Tickets, Claim(s, t) PROVE CompanyInv'
  <2> DEFINE r == run.last + 1
  <2>1. ClaimEffect(s, t, r)
    BY <1>0, <1>2, ClaimEffects
  <2>2. \A o \in Slots : slot[o].pc # "idle" => Started(slot[o].run)
    BY <1>0 DEF TypeInv, BusyHasRun, Started
  <2> HIDE DEF r
  <2>3. OneSlotPerRun'
    BY <2>1, <2>2 DEF ClaimEffect, OneSlotPerRun, CompanyInv
  <2>4. ASSUME NEW a \in Slots, NEW b \in Slots, a # b, home'[a] = home'[b],
               Inside(a)', Inside(b)'
        PROVE  slot'[a].run \in run'.company
    <3>1. CASE a # s /\ b # s
      <4>1. slot[a].run \in run.company
        BY <2>1, <2>4, <3>1 DEF ClaimEffect, Inside, CompanyInv, CompanyKnown, Alone
      <4> QED BY <2>1, <3>1, <4>1 DEF ClaimEffect
    <3>2. CASE a = s
      <4>1. b \in Neighbours(s)
        BY <2>1, <2>4, <3>2 DEF ClaimEffect, Neighbours, Inside
      <4> QED BY <2>1, <3>2, <4>1 DEF ClaimEffect, Shares
    <3>3. CASE b = s
      <4>1. a \in Neighbours(s)
        BY <2>1, <2>4, <3>3 DEF ClaimEffect, Neighbours, Inside
      <4>2. slot'[a] = slot[a]
        BY <2>1, <2>4, <3>3 DEF ClaimEffect
      <4> QED BY <2>1, <4>1, <4>2 DEF ClaimEffect, Shares
    <3> QED BY <3>1, <3>2, <3>3
  <2>5. CompanyKnown'
    BY <2>4 DEF CompanyKnown, Alone
  <2> QED BY <1>0, <2>3, <2>5 DEF CompanyInv
<1> QED BY <1>1, <1>2

LEMMA CompanyHolds == Spec => []CompanyInv
BY InitCompany, NextCompany, PTL DEF Spec
-----------------------------------------------------------------------------
(* What each kind of step does, point by point.                              *)

Moves(s, pc) ==
  /\ slot'[s].pc = pc /\ slot'[s].run = slot[s].run /\ slot'[s].branched = slot[s].branched
  /\ \A o \in Slots \ {s} : slot'[o] = slot[o]

ForceEffect(s) ==
  /\ slot[s].pc = "refresh" /\ Moves(s, "reset")
  /\ \A p \in PCs : IF p = home[s] THEN tree'[p].head = Default /\ tree'[p].dirty = {}
                                   ELSE tree'[p] = tree[p]
  /\ UNCHANGED <<board, home, branch, origin, run>>

ResetEffect(s) ==
  /\ slot[s].pc = "reset" /\ Moves(s, "work")
  /\ \A p \in PCs : IF p = home[s] THEN tree'[p].head = tree[p].head /\ tree'[p].dirty = {}
                                   ELSE tree'[p] = tree[p]
  /\ \A p \in PCs, h \in Heads :
       branch'[p][h] = IF p = home[s] /\ h = tree[p].head THEN {Root} ELSE branch[p][h]
  /\ UNCHANGED <<board, home, origin, run>>

EditEffect(s) ==
  /\ slot[s].pc = "work" /\ ~board.worktrees
  /\ \A p \in PCs :
       IF p = home[s] THEN /\ tree'[p].head = tree[p].head
                           /\ tree'[p].dirty = tree[p].dirty \cup {slot[s].run}
                      ELSE tree'[p] = tree[p]
  /\ UNCHANGED <<board, home, branch, origin, slot, run>>

BranchEffect(s) ==
  /\ slot[s].pc = "work" /\ slot'[s].pc = "work" /\ slot'[s].run = slot[s].run
  /\ \A o \in Slots \ {s} : slot'[o] = slot[o]
  /\ \A p \in PCs :
       IF p = home[s] /\ ~board.worktrees
         THEN tree'[p].head = TicketOf(s) /\ tree'[p].dirty = tree[p].dirty
         ELSE tree'[p] = tree[p]
  /\ \A p \in PCs, h \in Heads :
       \/ branch'[p][h] = branch[p][h]
       \/ /\ p = home[s] /\ h = TicketOf(s) /\ branch[p][h] = Missing
          /\ branch'[p][h] \in {branch[p][tree[p].head], origin[h]}
  /\ UNCHANGED <<board, home, origin, run>>

CommitEffect(s) ==
  /\ slot[s].pc = "work" /\ slot[s].branched
  /\ \A p \in PCs : /\ tree'[p].head = tree[p].head
                    /\ tree'[p].dirty = IF p = home[s] /\ ~board.worktrees THEN {}
                                                                           ELSE tree[p].dirty
  /\ \A p \in PCs, h \in Heads :
       branch'[p][h] = branch[p][h] \cup
         IF p = home[s]
           THEN IF board.worktrees
                  THEN IF h = TicketOf(s) THEN {slot[s].run} ELSE {}
                  ELSE IF h = tree[p].head THEN tree[p].dirty ELSE {}
           ELSE {}
  /\ run'.committed = run.committed \cup
       (IF board.worktrees \/ slot[s].run \in tree[home[s]].dirty THEN {slot[s].run} ELSE {})
  /\ run'.ticket = run.ticket /\ run'.company = run.company /\ run'.last = run.last
  /\ run'.pushed = run.pushed /\ run'.met = run.met
  /\ UNCHANGED <<board, home, origin, slot>>

PushEffect(s, met) ==
  /\ slot[s].pc = "work" /\ Moves(s, "report")
  /\ ~Vetoed(met) /\ origin[TicketOf(s)] \subseteq branch[home[s]][TicketOf(s)]
  /\ \A t \in Tickets :
       origin'[t] = IF t = TicketOf(s) THEN branch[home[s]][t] ELSE origin[t]
  /\ run'.pushed = run.pushed \cup {slot[s].run}
  /\ run'.met = run.met \cup (IF met THEN {slot[s].run} ELSE {})
  /\ run'.ticket = run.ticket /\ run'.company = run.company /\ run'.last = run.last
  /\ run'.committed = run.committed
  /\ UNCHANGED <<board, home, tree, branch>>

IdleEffect ==
  /\ UNCHANGED <<board, home, tree, branch, origin, run>>
  /\ \A o \in Slots : slot'[o] = slot[o] \/ slot'[o].pc = "idle"

AnyEffect ==
  \/ IdleEffect
  \/ \E s \in Slots :
       \/ \E t \in Tickets, r \in Runs : ClaimEffect(s, t, r)
       \/ ForceEffect(s) \/ ResetEffect(s) \/ EditEffect(s) \/ BranchEffect(s)
       \/ CommitEffect(s) \/ \E met \in BOOLEAN : PushEffect(s, met)

LEMMA GoesMoves ==
  ASSUME TypeInv, NEW s \in Slots, NEW pc \in {"reset", "work", "report"}, Goes(s, pc)
  PROVE  Moves(s, pc)
BY DEF Goes, Moves, TypeInv, TypeOK, Slot

LEMMA SlotEffects ==
  ASSUME TypeInv, NEW s \in Slots, SlotStep(s)
  PROVE  AnyEffect
<1>0. /\ home[s] \in PCs /\ tree \in [PCs -> Tree] /\ slot[s] \in Slot /\ run \in History
      /\ branch \in [PCs -> [Heads -> SUBSET (Runs \cup {Root})]]
      /\ slot[s].pc # "idle" => TicketOf(s) \in Tickets /\ TicketOf(s) \in Heads
      /\ \A p \in PCs : tree[p].head \in Heads
  BY DEF TypeInv, TypeOK, BusyHasRun, Heads, Tree
<1>1. ASSUME NEW t \in Tickets, Claim(s, t) PROVE AnyEffect
  <2>1. ClaimEffect(s, t, run.last + 1) /\ run.last + 1 \in Runs
    BY <1>1, ClaimEffects DEF Claim
  <2> QED BY <2>1 DEF AnyEffect
<1>2. CASE ForceCheckout(s)
  <2>1. Moves(s, "reset")
    BY <1>2, GoesMoves DEF ForceCheckout
  <2>2. ForceEffect(s)
    BY <1>0, <1>2, <2>1 DEF ForceCheckout, ForceEffect, DefaultHead
  <2> QED BY <2>2 DEF AnyEffect
<1>3. CASE ResetAndClean(s)
  <2>1. Moves(s, "work")
    BY <1>3, GoesMoves DEF ResetAndClean
  <2>2. \A p \in PCs, h \in Heads :
          branch'[p][h] = IF p = home[s] /\ h = tree[p].head THEN {Root} ELSE branch[p][h]
    BY <1>0, <1>3 DEF ResetAndClean
  <2>3. \A p \in PCs : IF p = home[s] THEN tree'[p].head = tree[p].head /\ tree'[p].dirty = {}
                                      ELSE tree'[p] = tree[p]
    BY <1>0, <1>3 DEF ResetAndClean, Tree
  <2>4. ResetEffect(s)
    BY <1>3, <2>1, <2>2, <2>3 DEF ResetAndClean, ResetEffect
  <2> QED BY <2>4 DEF AnyEffect
<1>4. CASE AgentEdits(s)
  <2>1. EditEffect(s)
    BY <1>0, <1>4 DEF AgentEdits, EditEffect, Tree
  <2> QED BY <2>1 DEF AnyEffect
<1>5. CASE AgentBranches(s)
  <2>1. /\ slot[s].pc = "work" /\ slot'[s].pc = "work" /\ slot'[s].run = slot[s].run
        /\ \A o \in Slots \ {s} : slot'[o] = slot[o]
    BY <1>0, <1>5 DEF AgentBranches, Slot, TypeInv, TypeOK
  <2>2. \A p \in PCs :
          IF p = home[s] /\ ~board.worktrees
            THEN tree'[p].head = TicketOf(s) /\ tree'[p].dirty = tree[p].dirty
            ELSE tree'[p] = tree[p]
    BY <1>0, <1>5 DEF AgentBranches, Tree
  <2>3. \A p \in PCs, h \in Heads :
          \/ branch'[p][h] = branch[p][h]
          \/ /\ p = home[s] /\ h = TicketOf(s) /\ branch[p][h] = Missing
             /\ branch'[p][h] \in {branch[p][tree[p].head], origin[h]}
    <3>1. CASE branch' = branch
      BY <3>1
    <3>2. ASSUME NEW base \in ForkedFrom(home[s], TicketOf(s)),
                 branch[home[s]][TicketOf(s)] = Missing,
                 branch' = [branch EXCEPT ![home[s]][TicketOf(s)] = base]
          PROVE  \A p \in PCs, h \in Heads :
                   \/ branch'[p][h] = branch[p][h]
                   \/ /\ p = home[s] /\ h = TicketOf(s) /\ branch[p][h] = Missing
                      /\ branch'[p][h] \in {branch[p][tree[p].head], origin[h]}
      <4>1. base \in {branch[home[s]][tree[home[s]].head], origin[TicketOf(s)]}
        BY DEF ForkedFrom
      <4> QED BY <1>0, <3>2, <4>1, <2>1
    <3> QED BY <1>5, <3>1, <3>2 DEF AgentBranches
  <2>4. BranchEffect(s)
    BY <1>5, <2>1, <2>2, <2>3 DEF AgentBranches, BranchEffect
  <2> QED BY <2>4 DEF AnyEffect
<1>6. CASE AgentCommits(s)
  <2> DEFINE h == IF board.worktrees THEN TicketOf(s) ELSE tree[home[s]].head
  <2> DEFINE work == IF board.worktrees THEN {slot[s].run} ELSE tree[home[s]].dirty
  <2>1. /\ branch' = [branch EXCEPT ![home[s]][h] = @ \cup work]
        /\ run' = [run EXCEPT !.committed = @ \cup (work \cap {slot[s].run})]
        /\ slot[s].pc = "work" /\ slot[s].branched
        /\ UNCHANGED <<board, home, origin, slot>>
        /\ tree' = IF board.worktrees THEN tree ELSE [tree EXCEPT ![home[s]].dirty = {}]
    BY <1>6 DEF AgentCommits
  <2>2. h \in Heads
    BY <1>0, <2>1
  <2>3. \A p \in PCs, k \in Heads :
          branch'[p][k] = branch[p][k] \cup IF p = home[s] /\ k = h THEN work ELSE {}
    <3> HIDE DEF h, work
    <3> QED BY <1>0, <2>1, <2>2
  <2>4. /\ run'.committed = run.committed \cup (work \cap {slot[s].run})
        /\ run'.ticket = run.ticket /\ run'.company = run.company /\ run'.last = run.last
        /\ run'.pushed = run.pushed /\ run'.met = run.met
    <3> HIDE DEF h, work
    <3> QED BY <1>0, <2>1 DEF History
  <2>5. work \cap {slot[s].run} =
          IF board.worktrees \/ slot[s].run \in tree[home[s]].dirty THEN {slot[s].run} ELSE {}
    OBVIOUS
  <2>6. \A p \in PCs : /\ tree'[p].head = tree[p].head
                       /\ tree'[p].dirty = IF p = home[s] /\ ~board.worktrees THEN {}
                                                                              ELSE tree[p].dirty
    <3> HIDE DEF h, work
    <3> QED BY <1>0, <2>1 DEF Tree
  <2>7. \A p \in PCs, k \in Heads :
          branch'[p][k] = branch[p][k] \cup
            IF p = home[s]
              THEN IF board.worktrees
                     THEN IF k = TicketOf(s) THEN {slot[s].run} ELSE {}
                     ELSE IF k = tree[p].head THEN tree[p].dirty ELSE {}
              ELSE {}
    BY <2>3
  <2> HIDE DEF h, work
  <2>8. CommitEffect(s)
    BY <2>1, <2>4, <2>5, <2>6, <2>7 DEF CommitEffect
  <2> QED BY <2>8 DEF AnyEffect
<1>7. ASSUME NEW met \in BOOLEAN, Push(s, met) PROVE AnyEffect
  <2>1. Moves(s, "report")
    BY <1>7, GoesMoves DEF Push
  <2>2. /\ run'.pushed = run.pushed \cup {slot[s].run}
        /\ run'.met = run.met \cup (IF met THEN {slot[s].run} ELSE {})
        /\ run'.ticket = run.ticket /\ run'.company = run.company /\ run'.last = run.last
        /\ run'.committed = run.committed
    BY <1>0, <1>7 DEF Push, History
  <2>3. \A t \in Tickets :
          origin'[t] = IF t = TicketOf(s) THEN branch[home[s]][t] ELSE origin[t]
    BY <1>0, <1>7 DEF Push, TypeInv, TypeOK
  <2>4. PushEffect(s, met)
    BY <1>7, <2>1, <2>2, <2>3 DEF Push, PushEffect, Pushable
  <2> QED BY <2>4 DEF AnyEffect
<1>8. CASE ReportPushed(s) \/ NotPushed(s) \/ Fails(s) \/ SlotDies(s)
  <2>1. slot' = [slot EXCEPT ![s] = IdleSlot] /\ UNCHANGED <<board, home, tree, branch, origin, run>>
    BY <1>8 DEF ReportPushed, NotPushed, Fails, Reports, SlotDies
  <2> QED BY <2>1 DEF AnyEffect, IdleEffect, IdleSlot, TypeInv, TypeOK
<1> QED
  BY <1>1, <1>2, <1>3, <1>4, <1>5, <1>6, <1>7, <1>8 DEF SlotStep

LEMMA Effects == TypeInv /\ [Next]_vars => AnyEffect
<1>1. ASSUME NEW t \in Tickets, Requeue(t) PROVE AnyEffect
  BY <1>1 DEF Requeue, AnyEffect, IdleEffect
<1>2. CASE UNCHANGED vars
  BY <1>2 DEF vars, AnyEffect, IdleEffect
<1> QED BY <1>1, <1>2, SlotEffects DEF Next
-----------------------------------------------------------------------------
(* Pushed commits stay.                                                      *)

\* A run that has not reached its work yet has done nothing; a run that is
\* still inside was not pushed.
NotYet ==
  \A s \in Slots :
    /\ slot[s].pc \in {"refresh", "reset"} =>
         ~slot[s].branched /\ slot[s].run \notin run.committed /\ ~board.own
    /\ Inside(s) => slot[s].run \notin run.pushed

\* With worktrees the directory itself stays as a refresh leaves it.
WorktreesApart ==
  board.worktrees => \A p \in PCs :
    tree[p].head = Default /\ tree[p].dirty = {} /\ branch[p][Default] = {Root}

\* A run at work whose directory is its own, or that has a worktree, stays on its
\* ticket's branch, and finds there what it committed.
CommitKept ==
  \A s \in Slots : slot[s].pc = "work" /\ (board.worktrees \/ Alone(s)) =>
    /\ slot[s].branched /\ ~board.worktrees => tree[home[s]].head = TicketOf(s)
    /\ slot[s].run \in run.committed => slot[s].run \in branch[home[s]][TicketOf(s)]

EachHasTicket == \A r : Started(r) => run.ticket[r] \in Tickets

PlaceInv == CompanyInv /\ EachHasTicket /\ NotYet /\ WorktreesApart /\ CommitKept

LEMMA InitPlace == Init => PlaceInv
<1> SUFFICES ASSUME Init PROVE PlaceInv
  OBVIOUS
<1>1. NotYet /\ CommitKept
  BY DEF Init, NotYet, CommitKept, IdleSlot
<1>2. WorktreesApart
  BY DEF Init, WorktreesApart, Heads
<1>3. EachHasTicket
  BY DEF Init, EachHasTicket, Started, Runs, NoRun
<1> QED BY <1>1, <1>2, <1>3, InitCompany DEF PlaceInv

\* What the steps below use of the invariant of the section before.
Basics ==
  /\ \A s \in Slots : home[s] \in PCs
  /\ \A s \in Slots : slot[s].pc # "idle" =>
       Started(slot[s].run) /\ TicketOf(s) \in Tickets /\ TicketOf(s) # Default
  /\ Default \in Heads /\ Tickets \subseteq Heads /\ Default \notin Tickets
  /\ \A p \in PCs : tree[p].head \in Heads
  /\ CompanyKnown /\ OneSlotPerRun /\ OnlyStarted

LEMMA BasicFacts == CompanyInv => Basics
BY CheckoutAssumption
   DEF CompanyInv, Basics, TypeInv, TypeOK, BusyHasRun, Started, Heads, Tree, Default

LEMMA TicketsStay ==
  ASSUME CompanyInv, EachHasTicket, AnyEffect
  PROVE  EachHasTicket'
<1>1. ASSUME NEW s \in Slots, NEW t \in Tickets, NEW r \in Runs, ClaimEffect(s, t, r)
      PROVE  EachHasTicket'
  <2>1. \A x : Started(x)' => x = r \/ Started(x)
    BY <1>1, CheckoutAssumption DEF ClaimEffect, Started, Runs, CompanyInv, TypeInv, TypeOK,
                                    History, NoRun
  <2>2. run.ticket \in [Runs -> Tickets \cup {Default}]
    BY DEF CompanyInv, TypeInv, TypeOK, History
  <2> QED BY <1>1, <2>1, <2>2 DEF ClaimEffect, EachHasTicket, Started
<1>2. CASE run'.ticket = run.ticket /\ run'.last = run.last
  BY <1>2 DEF EachHasTicket, Started
<1> QED
  BY <1>1, <1>2 DEF AnyEffect, IdleEffect, ForceEffect, ResetEffect, EditEffect, BranchEffect,
                    CommitEffect, PushEffect

LEMMA NotYetKept ==
  ASSUME CompanyInv, NotYet, AnyEffect
  PROVE  NotYet'
<1>0. Basics
  BY BasicFacts
<1>1. CASE IdleEffect
  BY <1>1 DEF IdleEffect, NotYet, Inside
<1>2. ASSUME NEW s \in Slots, NEW t \in Tickets, NEW r \in Runs, ClaimEffect(s, t, r)
      PROVE  NotYet'
  <2>1. r \notin run.committed /\ r \notin run.pushed
    BY <1>0, <1>2 DEF ClaimEffect, Basics, OnlyStarted
  <2> QED BY <1>2, <2>1 DEF ClaimEffect, NotYet, Inside, Refreshed
<1>3. ASSUME NEW s \in Slots, ForceEffect(s) PROVE NotYet'
  BY <1>3 DEF ForceEffect, Moves, NotYet, Inside
<1>4. ASSUME NEW s \in Slots, ResetEffect(s) PROVE NotYet'
  BY <1>4 DEF ResetEffect, Moves, NotYet, Inside
<1>5. ASSUME NEW s \in Slots, EditEffect(s) PROVE NotYet'
  BY <1>5 DEF EditEffect, NotYet, Inside
<1>6. ASSUME NEW s \in Slots, BranchEffect(s) PROVE NotYet'
  BY <1>6 DEF BranchEffect, NotYet, Inside
<1>7. ASSUME NEW s \in Slots, CommitEffect(s) PROVE NotYet'
  BY <1>0, <1>7 DEF CommitEffect, NotYet, Inside, Basics, OneSlotPerRun
<1>8. ASSUME NEW s \in Slots, NEW met \in BOOLEAN, PushEffect(s, met) PROVE NotYet'
  BY <1>0, <1>8 DEF PushEffect, Moves, NotYet, Inside, Basics, OneSlotPerRun
<1> QED
  BY <1>1, <1>2, <1>3, <1>4, <1>5, <1>6, <1>7, <1>8 DEF AnyEffect

LEMMA WorktreesStayApart ==
  ASSUME CompanyInv, WorktreesApart, AnyEffect
  PROVE  WorktreesApart'
<1>0. Basics
  BY BasicFacts
<1>1. CASE IdleEffect
  BY <1>1 DEF IdleEffect, WorktreesApart
<1>2. ASSUME NEW s \in Slots, NEW t \in Tickets, NEW r \in Runs, ClaimEffect(s, t, r)
      PROVE  WorktreesApart'
  BY <1>2 DEF ClaimEffect, WorktreesApart
<1>3. ASSUME NEW s \in Slots, ForceEffect(s) PROVE WorktreesApart'
  BY <1>3 DEF ForceEffect, WorktreesApart
<1>4. ASSUME NEW s \in Slots, ResetEffect(s) PROVE WorktreesApart'
  BY <1>0, <1>4 DEF ResetEffect, WorktreesApart, Basics
<1>5. ASSUME NEW s \in Slots, EditEffect(s) PROVE WorktreesApart'
  BY <1>5 DEF EditEffect, WorktreesApart
<1>6. ASSUME NEW s \in Slots, BranchEffect(s) PROVE WorktreesApart'
  BY <1>0, <1>6 DEF BranchEffect, WorktreesApart, Basics
<1>7. ASSUME NEW s \in Slots, CommitEffect(s) PROVE WorktreesApart'
  BY <1>0, <1>7 DEF CommitEffect, WorktreesApart, Basics
<1>8. ASSUME NEW s \in Slots, NEW met \in BOOLEAN, PushEffect(s, met) PROVE WorktreesApart'
  BY <1>8 DEF PushEffect, WorktreesApart
<1> QED
  BY <1>1, <1>2, <1>3, <1>4, <1>5, <1>6, <1>7, <1>8 DEF AnyEffect

LEMMA CommitsAreKept ==
  ASSUME PlaceInv, AnyEffect
  PROVE  CommitKept'
<1>0. Basics /\ EachHasTicket /\ NotYet /\ WorktreesApart /\ CommitKept
  BY BasicFacts DEF PlaceInv
<1> USE DEF CommitKept, Alone, TicketOf
<1>1. CASE IdleEffect
  BY <1>0, <1>1 DEF IdleEffect
<1>2. ASSUME NEW s \in Slots, NEW t \in Tickets, NEW r \in Runs, ClaimEffect(s, t, r)
      PROVE  CommitKept'
  <2>1. r \notin run.committed
    BY <1>0, <1>2 DEF ClaimEffect, Basics, OnlyStarted
  <2>2. ASSUME NEW o \in Slots \ {s}, slot[o].pc # "idle"
        PROVE  slot'[o] = slot[o] /\ run'.ticket[slot[o].run] = run.ticket[slot[o].run]
    BY <1>0, <1>2, <2>2 DEF ClaimEffect, Basics
  <2> QED BY <1>0, <1>2, <2>1, <2>2 DEF ClaimEffect
<1>3. ASSUME NEW s \in Slots, ForceEffect(s) PROVE CommitKept'
  BY <1>0, <1>3 DEF ForceEffect, Moves, Basics, CompanyKnown, Inside
<1>4. ASSUME NEW s \in Slots, ResetEffect(s) PROVE CommitKept'
  BY <1>0, <1>4 DEF ResetEffect, Moves, Basics, CompanyKnown, Inside, NotYet, WorktreesApart
<1>5. ASSUME NEW s \in Slots, EditEffect(s) PROVE CommitKept'
  BY <1>0, <1>5 DEF EditEffect, Basics
<1>6. ASSUME NEW s \in Slots, BranchEffect(s) PROVE CommitKept'
  BY <1>0, <1>6 DEF BranchEffect, Basics, CompanyKnown, Inside, Missing
<1>7. ASSUME NEW s \in Slots, CommitEffect(s) PROVE CommitKept'
  BY <1>0, <1>7 DEF CommitEffect, Basics, OneSlotPerRun
<1>8. ASSUME NEW s \in Slots, NEW met \in BOOLEAN, PushEffect(s, met) PROVE CommitKept'
  BY <1>0, <1>8 DEF PushEffect, Moves
<1> QED
  BY <1>1, <1>2, <1>3, <1>4, <1>5, <1>6, <1>7, <1>8 DEF AnyEffect

LEMMA NextPlace == PlaceInv /\ [Next]_vars => PlaceInv'
BY NextCompany, TicketsStay, NotYetKept, WorktreesStayApart, CommitsAreKept, Effects DEF PlaceInv, CompanyInv

LEMMA PlaceHolds == Spec => []PlaceInv
BY InitPlace, NextPlace, PTL DEF Spec

LEMMA PushedStay ==
  ASSUME PlaceInv, PushedStays, AnyEffect
  PROVE  PushedStays'
<1>0. Basics /\ EachHasTicket /\ NotYet /\ WorktreesApart /\ CommitKept
  BY BasicFacts DEF PlaceInv
<1> USE DEF PushedStays
<1>1. CASE IdleEffect
  BY <1>1 DEF IdleEffect
<1>2. ASSUME NEW s \in Slots, NEW t \in Tickets, NEW r \in Runs, ClaimEffect(s, t, r)
      PROVE  PushedStays'
  <2>1. r \notin run.committed
    BY <1>0, <1>2 DEF ClaimEffect, Basics, OnlyStarted
  <2> QED BY <1>2, <2>1 DEF ClaimEffect
<1>3. ASSUME NEW s \in Slots, ForceEffect(s) \/ ResetEffect(s) \/ EditEffect(s) \/ BranchEffect(s)
      PROVE  PushedStays'
  BY <1>3 DEF ForceEffect, ResetEffect, EditEffect, BranchEffect
<1>4. ASSUME NEW s \in Slots, CommitEffect(s) PROVE PushedStays'
  BY <1>0, <1>4 DEF CommitEffect, NotYet, Inside
<1>5. ASSUME NEW s \in Slots, NEW met \in BOOLEAN, PushEffect(s, met) PROVE PushedStays'
  <2>1. TicketOf(s) \in Tickets
    BY <1>0, <1>5 DEF PushEffect, Basics
  <2>2. \A t \in Tickets : origin[t] \subseteq origin'[t]
    BY <1>5, <2>1 DEF PushEffect
  <2>3. slot[s].run \in run.committed =>
          slot[s].run \in origin'[TicketOf(s)] \/ (~board.worktrees /\ slot[s].run \in run.company)
    BY <1>0, <1>5, <2>1 DEF PushEffect, CommitKept, Alone
  <2>4. \A r \in run.pushed : run.ticket[r] \in Tickets
    BY <1>0 DEF Basics, OnlyStarted, EachHasTicket
  <2> QED BY <1>5, <2>2, <2>3, <2>4 DEF PushEffect, TicketOf
<1> QED
  BY <1>1, <1>2, <1>3, <1>4, <1>5 DEF AnyEffect

\* What was committed and pushed stays on the remote for good, on any number of
\* PCs, slots and runs, unless the run shared an auto-clone with another.
THEOREM PushedForGood == Spec => []PushedStays
<1>1. Init => PushedStays
  BY DEF Init, PushedStays
<1>2. PlaceInv /\ PushedStays /\ [Next]_vars => PushedStays'
  BY PushedStay, Effects DEF PlaceInv, CompanyInv
<1> QED BY <1>1, <1>2, PlaceHolds, PTL DEF Spec
-----------------------------------------------------------------------------
(* Only vetted work lands.                                                   *)

\* A run that is alone finds in its directory what runs before it left there,
\* and what it took from the remote's branch of its ticket.
OnlyOlder ==
  \A s \in Slots : Inside(s) /\ Alone(s) =>
    /\ \A h \in Heads : \A r \in branch[home[s]][h] \cap Runs :
         r <= slot[s].run \/ r \in origin[TicketOf(s)]
    /\ \A r \in tree[home[s]].dirty : r <= slot[s].run

LEMMA InitOlder == Init => OnlyOlder
BY DEF Init, OnlyOlder, Inside, IdleSlot

LEMMA NextOlder ==
  ASSUME PlaceInv, OnlyOlder, AnyEffect
  PROVE  OnlyOlder'
<1>0. Basics
  BY BasicFacts DEF PlaceInv
<1>a. \A r : Started(r) => r \in Int
  BY CheckoutAssumption DEF Started, Runs
<1> USE DEF OnlyOlder, Alone, TicketOf, Inside
<1>1. CASE IdleEffect
  BY <1>1 DEF IdleEffect
<1>2. ASSUME NEW s \in Slots, NEW t \in Tickets, NEW r \in Runs, ClaimEffect(s, t, r)
      PROVE  OnlyOlder'
  <2>1. \A x : Started(x) => x <= r
    BY <1>2, CheckoutAssumption DEF ClaimEffect, Started, Runs, PlaceInv, CompanyInv, TypeInv,
                                    TypeOK, History, NoRun
  <2>2. /\ \A p \in PCs, h \in Heads : \A x \in branch[p][h] \cap Runs : x <= r
        /\ \A p \in PCs : \A x \in tree[p].dirty : x <= r
    BY <1>0, <2>1, CheckoutAssumption DEF Basics, OnlyStarted, Root, Runs
  <2>3. ASSUME NEW o \in Slots \ {s}, slot[o].pc # "idle"
        PROVE  slot'[o] = slot[o] /\ run'.ticket[slot[o].run] = run.ticket[slot[o].run]
    BY <1>0, <1>2, <2>3 DEF ClaimEffect, Basics
  <2> QED BY <1>0, <1>2, <2>2, <2>3 DEF ClaimEffect, Basics
<1>3. ASSUME NEW s \in Slots, ForceEffect(s) PROVE OnlyOlder'
  BY <1>0, <1>3 DEF ForceEffect, Moves, Basics
<1>4. ASSUME NEW s \in Slots, ResetEffect(s) PROVE OnlyOlder'
  <2>1. Root \notin Runs
    BY CheckoutAssumption DEF Root, Runs
  <2> QED BY <1>0, <1>4, <2>1 DEF ResetEffect, Moves, Basics
<1>5. ASSUME NEW s \in Slots, EditEffect(s) PROVE OnlyOlder'
  BY <1>0, <1>a, <1>5 DEF EditEffect, Basics, CompanyKnown
<1>6. ASSUME NEW s \in Slots, BranchEffect(s) PROVE OnlyOlder'
  BY <1>0, <1>6 DEF BranchEffect, Basics, CompanyKnown
<1>7. ASSUME NEW s \in Slots, CommitEffect(s) PROVE OnlyOlder'
  <2>1. ASSUME NEW o \in Slots, Inside(o)', Alone(o)', NEW h \in Heads,
               NEW r \in branch'[home[o]][h] \cap Runs
        PROVE  r <= slot[o].run \/ r \in origin[TicketOf(o)]
    <3>1. CASE r \in branch[home[o]][h]
      BY <1>7, <2>1, <3>1 DEF CommitEffect
    <3>2. CASE r \notin branch[home[o]][h]
      <4>1. home[o] = home[s] /\ r \in tree[home[o]].dirty \cup {slot[s].run}
        BY <1>0, <1>7, <2>1, <3>2 DEF CommitEffect, Basics
      <4>2. o = s
        BY <1>0, <1>7, <2>1, <4>1 DEF CommitEffect, Basics, CompanyKnown
      <4> QED BY <1>0, <1>a, <1>7, <2>1, <4>1, <4>2 DEF CommitEffect, Basics
    <3> QED BY <3>1, <3>2
  <2>2. ASSUME NEW o \in Slots, Inside(o)', Alone(o)', NEW r \in tree'[home[o]].dirty
        PROVE  r <= slot[o].run
    BY <1>0, <1>7, <2>2 DEF CommitEffect, Basics
  <2>3. slot' = slot /\ home' = home /\ origin' = origin /\ run'.ticket = run.ticket
    BY <1>7 DEF CommitEffect
  <2> QED BY <2>1, <2>2, <2>3
<1>8. ASSUME NEW s \in Slots, NEW met \in BOOLEAN, PushEffect(s, met) PROVE OnlyOlder'
  <2>1. \A t \in Tickets : origin[t] \subseteq origin'[t]
    BY <1>0, <1>8 DEF PushEffect
  <2> QED BY <1>0, <1>8, <2>1 DEF PushEffect, Moves, Basics
<1> QED
  BY <1>1, <1>2, <1>3, <1>4, <1>5, <1>6, <1>7, <1>8 DEF AnyEffect

LEMMA VettedKept ==
  ASSUME PlaceInv, OnlyOlder, OnlyVettedWork, AnyEffect
  PROVE  OnlyVettedWork'
<1>0. Basics /\ EachHasTicket
  BY BasicFacts DEF PlaceInv
<1>1. CASE origin' = origin /\ board' = board /\ run.met \subseteq run'.met
           /\ run'.ticket = run.ticket /\ run.company \subseteq run'.company
  BY <1>1 DEF OnlyVettedWork
<1>2. ASSUME NEW s \in Slots, NEW t \in Tickets, NEW r \in Runs, ClaimEffect(s, t, r)
      PROVE  OnlyVettedWork'
  <2>1. \A v \in run.met : run'.ticket[v] = run.ticket[v]
    BY <1>0, <1>2 DEF ClaimEffect, Basics, OnlyStarted
  <2> QED BY <1>2, <2>1 DEF ClaimEffect, OnlyVettedWork
<1>3. ASSUME NEW s \in Slots, NEW met \in BOOLEAN, PushEffect(s, met) PROVE OnlyVettedWork'
  <2> SUFFICES ASSUME board.gated, NEW t \in Tickets, NEW r \in Runs, r \in origin'[t]
               PROVE  \E v \in run'.met :
                        run.ticket[v] = t /\ (v >= r \/ {v, r} \cap run.company # {})
    BY <1>3 DEF PushEffect, OnlyVettedWork
  <2>1. CASE r \in origin[t]
    BY <1>3, <2>1 DEF PushEffect, OnlyVettedWork
  <2>2. CASE r \notin origin[t]
    <3> DEFINE v == slot[s].run
    <3>1. t = TicketOf(s) /\ r \in branch[home[s]][t] /\ t \in Heads
      BY <1>0, <1>3, <2>2 DEF PushEffect, Basics
    <3>2. v \in run'.met /\ run.ticket[v] = t
      BY <1>3, <3>1 DEF PushEffect, Vetoed, TicketOf
    <3>3. v >= r \/ v \in run.company
      <4>1. r <= v \/ v \in run.company
        BY <1>3, <2>2, <3>1 DEF PushEffect, OnlyOlder, Inside, Alone
      <4>2. r \in Int /\ v \in Int
        BY <1>0, <1>3, CheckoutAssumption DEF PushEffect, Basics, Started, Runs
      <4> QED BY <4>1, <4>2
    <3> HIDE DEF v
    <3> QED BY <3>2, <3>3
  <2> QED BY <2>1, <2>2
<1> QED
  BY <1>1, <1>2, <1>3 DEF AnyEffect, IdleEffect, ForceEffect, ResetEffect, EditEffect,
                          BranchEffect, CommitEffect

\* On a board with commit requirements no run's commits reach the remote without
\* its own report that they are met, or that of a later run on the same branch,
\* but between runs that shared a directory; for any number of runs and PCs.
THEOREM VettedOnly == Spec => []OnlyVettedWork
<1>1. Init => OnlyOlder /\ OnlyVettedWork
  <2>1. Init => OnlyVettedWork
    BY DEF Init, OnlyVettedWork, Missing
  <2> QED BY <2>1, InitOlder
<1>2. PlaceInv /\ OnlyOlder /\ OnlyVettedWork /\ [Next]_vars => OnlyOlder' /\ OnlyVettedWork'
  BY NextOlder, VettedKept, Effects DEF PlaceInv, CompanyInv
<1> QED BY <1>1, <1>2, PlaceHolds, PTL DEF Spec
-----------------------------------------------------------------------------
(* Auto-clones: what a refresh leaves, and what slots that share one mix up.  *)

\* A run of the ticket shared its directory.
Shared(t) == \E c \in run.company : run.ticket[c] = t

\* A run that is alone starts from the default branch, and has nothing but its
\* own work in the directory.
FreshAt(s) ==
  /\ slot[s].pc = "reset" =>
       tree[home[s]].dirty = {} /\ tree[home[s]].head = Default
  /\ slot[s].pc = "work" =>
       /\ tree[home[s]].dirty \subseteq {slot[s].run}
       /\ branch[home[s]][Default] = {Root}
       /\ tree[home[s]].head \in {Default, TicketOf(s)}

FreshStart == Exposed => \A s \in Slots : Alone(s) => FreshAt(s)

WhoseHead ==
  Exposed => \A s \in Slots : slot[s].pc \in {"reset", "work"} =>
    tree[home[s]].head \in {Default, TicketOf(s)} \/ Shared(tree[home[s]].head)

OwnOrShared(commits, t) ==
  \A r \in commits : r = Root \/ run.ticket[r] = t \/ (Exposed /\ Shared(t))

OwnBranches ==
  ~board.own => \A t \in Tickets :
    OwnOrShared(origin[t], t) /\ \A p \in PCs : OwnOrShared(branch[p][t], t)

TidyInv == PlaceInv /\ FreshStart /\ WhoseHead /\ OwnBranches

LEMMA InitTidy == Init => TidyInv
<1> SUFFICES ASSUME Init PROVE TidyInv
  OBVIOUS
<1>1. FreshStart /\ WhoseHead
  BY DEF Init, FreshStart, FreshAt, WhoseHead, IdleSlot
<1>2. OwnBranches
  BY CheckoutAssumption DEF Init, OwnBranches, OwnOrShared, Missing, Heads, Default
<1> QED BY <1>1, <1>2, InitPlace DEF TidyInv

\* A ticket that was shared stays shared, and every started run's ticket is kept.
LEMMA SharedStays ==
  ASSUME PlaceInv, AnyEffect
  PROVE  /\ \A t : Shared(t) => Shared(t)'
         /\ \A r : Started(r) => run'.ticket[r] = run.ticket[r]
         /\ board' = board /\ home' = home
<1>0. Basics
  BY BasicFacts DEF PlaceInv
<1>1. ASSUME NEW s \in Slots, NEW t \in Tickets, NEW r \in Runs, ClaimEffect(s, t, r)
      PROVE  \A x : Started(x) => run'.ticket[x] = run.ticket[x]
  BY <1>1 DEF ClaimEffect
<1>2. \A r : Started(r) => run'.ticket[r] = run.ticket[r]
  BY <1>1 DEF AnyEffect, IdleEffect, ForceEffect, ResetEffect, EditEffect, BranchEffect,
              CommitEffect, PushEffect
<1>3. run.company \subseteq run'.company /\ board' = board /\ home' = home
  BY DEF AnyEffect, ClaimEffect, IdleEffect, ForceEffect, ResetEffect, EditEffect,
         BranchEffect, CommitEffect, PushEffect
<1> QED BY <1>0, <1>2, <1>3 DEF Shared, Basics, OnlyStarted

LEMMA FreshStaysFresh ==
  ASSUME TidyInv, AnyEffect
  PROVE  FreshStart'
<1>0. Basics /\ NotYet /\ CommitKept /\ FreshStart
  BY BasicFacts DEF TidyInv, PlaceInv
<1> USE DEF FreshStart, FreshAt, Alone, TicketOf, Exposed
<1>1. CASE IdleEffect
  BY <1>0, <1>1 DEF IdleEffect
<1>2. ASSUME NEW s \in Slots, NEW t \in Tickets, NEW r \in Runs, ClaimEffect(s, t, r)
      PROVE  FreshStart'
  <2>1. ASSUME NEW o \in Slots \ {s}, slot[o].pc # "idle"
        PROVE  slot'[o] = slot[o] /\ run'.ticket[slot[o].run] = run.ticket[slot[o].run]
    BY <1>0, <1>2, <2>1 DEF ClaimEffect, Basics
  <2>2. /\ UNCHANGED <<board, home, tree, branch>> /\ run.company \subseteq run'.company
        /\ ~board.own => slot'[s].pc = "refresh"
    BY <1>2 DEF ClaimEffect, Refreshed
  <2>3. ASSUME NEW o \in Slots, ~board.own, ~board.worktrees, Alone(o)'
        PROVE  FreshAt(o)'
    <3>1. CASE o = s
      BY <2>2, <2>3, <3>1
    <3>2. CASE o # s /\ slot[o].pc = "idle"
      BY <1>2, <3>2 DEF ClaimEffect
    <3>3. CASE o # s /\ slot[o].pc # "idle"
      <4>1. Alone(o) /\ FreshAt(o)
        BY <1>0, <2>1, <2>2, <2>3, <3>3
      <4> QED BY <2>1, <2>2, <3>3, <4>1
    <3> QED BY <3>1, <3>2, <3>3
  <2> QED BY <2>2, <2>3
<1>3. ASSUME NEW s \in Slots, ForceEffect(s) PROVE FreshStart'
  BY <1>0, <1>3 DEF ForceEffect, Moves, Basics, CompanyKnown, Inside
<1>4. ASSUME NEW s \in Slots, ResetEffect(s) PROVE FreshStart'
  BY <1>0, <1>4 DEF ResetEffect, Moves, Basics, CompanyKnown, Inside
<1>5. ASSUME NEW s \in Slots, EditEffect(s) PROVE FreshStart'
  BY <1>0, <1>5 DEF EditEffect, Basics, CompanyKnown, Inside
<1>6. ASSUME NEW s \in Slots, BranchEffect(s) PROVE FreshStart'
  <2>0. UNCHANGED <<board, home, run>> /\ home[s] \in PCs /\ TicketOf(s) # Default
    BY <1>0, <1>6 DEF BranchEffect, Basics
  <2>1. \A p \in PCs : branch'[p][Default] = branch[p][Default]
    BY <1>0, <1>6, <2>0 DEF BranchEffect, Basics
  <2>2. ASSUME NEW o \in Slots, ~board.own, ~board.worktrees, Alone(o)'
        PROVE  FreshAt(o)'
    <3>1. CASE o = s
      <4>1. FreshAt(s) /\ slot[s].pc = "work" /\ slot'[s].pc = "work" /\ slot'[s].run = slot[s].run
        BY <1>0, <1>6, <2>0, <2>2, <3>1 DEF BranchEffect
      <4>2. tree'[home[s]].head = TicketOf(s) /\ tree'[home[s]].dirty = tree[home[s]].dirty
        BY <1>6, <2>0, <2>2 DEF BranchEffect
      <4> QED BY <2>0, <2>1, <3>1, <4>1, <4>2
    <3>2. CASE o # s /\ Inside(o)
      <4>1. slot'[o] = slot[o] /\ FreshAt(o)
        BY <1>0, <1>6, <2>0, <2>2, <3>2 DEF BranchEffect
      <4>2. home[o] # home[s] /\ home[o] \in PCs
        BY <1>0, <1>6, <2>0, <2>2, <3>2, <4>1 DEF BranchEffect, Basics, CompanyKnown, Inside
      <4>3. tree'[home[o]] = tree[home[o]]
        BY <1>6, <4>2 DEF BranchEffect
      <4> QED BY <2>0, <2>1, <4>1, <4>2, <4>3
    <3>3. CASE o # s /\ ~Inside(o)
      BY <1>6, <3>3 DEF BranchEffect, Inside
    <3> QED BY <3>1, <3>2, <3>3
  <2> QED BY <2>0, <2>2
<1>7. ASSUME NEW s \in Slots, CommitEffect(s) PROVE FreshStart'
  <2>0. UNCHANGED <<board, home, slot>> /\ run'.company = run.company /\ run'.ticket = run.ticket
    BY <1>7 DEF CommitEffect
  <2>a. ASSUME ~board.worktrees, NEW p \in PCs, p # home[s] \/ tree[p].head # Default
        PROVE  branch'[p][Default] = branch[p][Default]
    <3>1. Default \in Heads
      BY <1>0 DEF Basics
    <3>2. \A h \in Heads :
            branch'[p][h] = branch[p][h] \cup
              IF p = home[s]
                THEN IF board.worktrees
                       THEN IF h = TicketOf(s) THEN {slot[s].run} ELSE {}
                       ELSE IF h = tree[p].head THEN tree[p].dirty ELSE {}
                ELSE {}
      BY <1>7, <2>a DEF CommitEffect
    <3>3. CASE p # home[s]
      BY <3>1, <3>2, <3>3
    <3>4. CASE p = home[s] /\ tree[p].head # Default
      <4>1. branch'[p][Default] = branch[p][Default] \cup {}
        BY <2>a, <3>1, <3>2, <3>4
      <4> QED BY <4>1
    <3> QED BY <2>a, <3>3, <3>4
  <2>1. ASSUME NEW o \in Slots, ~board.own, ~board.worktrees, Alone(o)
        PROVE  FreshAt(o)'
    <3>0. FreshAt(o) /\ home[o] \in PCs
      BY <1>0, <2>1 DEF Basics
    <3>1. tree'[home[o]].head = tree[home[o]].head /\ tree'[home[o]].dirty \subseteq tree[home[o]].dirty
      BY <1>7, <3>0 DEF CommitEffect
    <3>2. CASE slot[o].pc = "work"
      <4>1. branch'[home[o]][Default] = branch[home[o]][Default]
        <5>1. CASE o = s
          <6>1. tree[home[o]].head # Default
            BY <1>0, <1>7, <2>1, <3>2, <5>1 DEF CommitEffect, CommitKept, Basics
          <6> QED BY <2>a, <2>1, <3>0, <6>1
        <5>2. CASE o # s
          <6>1. home[o] # home[s]
            BY <1>0, <1>7, <2>1, <3>2, <5>2 DEF CommitEffect, Basics, CompanyKnown, Inside
          <6> QED BY <2>a, <2>1, <3>0, <6>1
        <5> QED BY <5>1, <5>2
      <4> QED BY <2>0, <3>0, <3>1, <3>2, <4>1
    <3>3. CASE slot[o].pc # "work"
      BY <2>0, <3>0, <3>1, <3>3
    <3> QED BY <3>2, <3>3
  <2> QED BY <2>0, <2>1
<1>8. ASSUME NEW s \in Slots, NEW met \in BOOLEAN, PushEffect(s, met) PROVE FreshStart'
  BY <1>0, <1>8 DEF PushEffect, Moves
<1> QED
  BY <1>1, <1>2, <1>3, <1>4, <1>5, <1>6, <1>7, <1>8 DEF AnyEffect

LEMMA HeadsKept ==
  ASSUME TidyInv, AnyEffect
  PROVE  WhoseHead'
<1>0. /\ Basics /\ NotYet /\ WhoseHead
      /\ \A t : Shared(t) => Shared(t)'
      /\ board' = board /\ home' = home
  BY BasicFacts, SharedStays DEF TidyInv, PlaceInv
<1> USE DEF WhoseHead, TicketOf, Exposed
<1>1. CASE IdleEffect
  BY <1>0, <1>1 DEF IdleEffect
<1>2. ASSUME NEW s \in Slots, NEW t \in Tickets, NEW r \in Runs, ClaimEffect(s, t, r)
      PROVE  WhoseHead'
  <2>1. ASSUME NEW o \in Slots \ {s}, slot[o].pc # "idle"
        PROVE  slot'[o] = slot[o] /\ run'.ticket[slot[o].run] = run.ticket[slot[o].run]
    BY <1>0, <1>2, <2>1 DEF ClaimEffect, Basics
  <2> QED BY <1>0, <1>2, <2>1 DEF ClaimEffect, Refreshed
<1>3. ASSUME NEW s \in Slots, ForceEffect(s) PROVE WhoseHead'
  BY <1>0, <1>3 DEF ForceEffect, Moves, Basics
<1>4. ASSUME NEW s \in Slots, ResetEffect(s) PROVE WhoseHead'
  BY <1>0, <1>4 DEF ResetEffect, Moves, Basics
<1>5. ASSUME NEW s \in Slots, EditEffect(s) PROVE WhoseHead'
  BY <1>0, <1>5 DEF EditEffect, Basics
<1>6. ASSUME NEW s \in Slots, BranchEffect(s) PROVE WhoseHead'
  BY <1>0, <1>6 DEF BranchEffect, Basics, CompanyKnown, Inside, Alone, Shared
<1>7. ASSUME NEW s \in Slots, CommitEffect(s) PROVE WhoseHead'
  BY <1>0, <1>7 DEF CommitEffect, Basics
<1>8. ASSUME NEW s \in Slots, NEW met \in BOOLEAN, PushEffect(s, met) PROVE WhoseHead'
  BY <1>0, <1>8 DEF PushEffect, Moves, Basics
<1> QED
  BY <1>1, <1>2, <1>3, <1>4, <1>5, <1>6, <1>7, <1>8 DEF AnyEffect

\* The commits a branch gains are the ticket's own, or of a shared ticket.
LEMMA OwnGrows ==
  ASSUME PlaceInv, AnyEffect, NEW t, NEW commits, OwnOrShared(commits, t),
         \A r \in commits : r = Root \/ Started(r)
  PROVE  OwnOrShared(commits, t)'
BY SharedStays DEF OwnOrShared, Exposed

LEMMA OwnKept ==
  ASSUME TidyInv, AnyEffect
  PROVE  OwnBranches'
<1>0. /\ Basics /\ NotYet /\ CommitKept /\ WorktreesApart /\ FreshStart /\ WhoseHead /\ OwnBranches
      /\ board' = board /\ home' = home
  BY BasicFacts, SharedStays DEF TidyInv, PlaceInv
<1> SUFFICES ASSUME ~board.own, NEW t \in Tickets
             PROVE  /\ OwnOrShared(origin[t], t)'
                    /\ \A p \in PCs : OwnOrShared(branch[p][t], t)'
  BY <1>0 DEF OwnBranches
<1>a. /\ OwnOrShared(origin[t], t) /\ \A p \in PCs : OwnOrShared(branch[p][t], t)
      /\ \A S : OwnOrShared(S, t) /\ (\A r \in S : r = Root \/ Started(r))
           => \A r \in S : r = Root \/ run'.ticket[r] = t \/ (Exposed' /\ Shared(t)')
      /\ t \in Heads /\ t # Default
      /\ \A r \in origin[t] : r = Root \/ Started(r)
      /\ \A p \in PCs : \A r \in branch[p][t] : r = Root \/ Started(r)
  <2>1. \A S : OwnOrShared(S, t) /\ (\A r \in S : r = Root \/ Started(r))
           => \A r \in S : r = Root \/ run'.ticket[r] = t \/ (Exposed' /\ Shared(t)')
    BY SharedStays DEF TidyInv, OwnOrShared, Exposed
  <2> QED BY <1>0, <2>1 DEF OwnBranches, Basics, OnlyStarted
<1>b. ASSUME origin'[t] = origin[t], \A p \in PCs : branch'[p][t] = branch[p][t]
      PROVE  /\ OwnOrShared(origin[t], t)'
             /\ \A p \in PCs : OwnOrShared(branch[p][t], t)'
  BY <1>a, <1>b DEF OwnOrShared
<1>1. CASE IdleEffect
  BY <1>1, <1>b DEF IdleEffect
<1>2. ASSUME NEW s \in Slots, NEW u \in Tickets, NEW r \in Runs, ClaimEffect(s, u, r)
      PROVE  /\ OwnOrShared(origin[t], t)'
             /\ \A p \in PCs : OwnOrShared(branch[p][t], t)'
  BY <1>2, <1>b DEF ClaimEffect
<1>3. ASSUME NEW s \in Slots, ForceEffect(s) \/ EditEffect(s)
      PROVE  /\ OwnOrShared(origin[t], t)'
             /\ \A p \in PCs : OwnOrShared(branch[p][t], t)'
  BY <1>3, <1>b DEF ForceEffect, EditEffect
<1>4. ASSUME NEW s \in Slots, ResetEffect(s)
      PROVE  /\ OwnOrShared(origin[t], t)'
             /\ \A p \in PCs : OwnOrShared(branch[p][t], t)'
  <2>1. \A p \in PCs : branch'[p][t] = branch[p][t] \/ branch'[p][t] = {Root}
    BY <1>a, <1>4 DEF ResetEffect
  <2> QED BY <1>a, <1>4, <2>1 DEF ResetEffect, OwnOrShared
<1>5. ASSUME NEW s \in Slots, BranchEffect(s)
      PROVE  /\ OwnOrShared(origin[t], t)'
             /\ \A p \in PCs : OwnOrShared(branch[p][t], t)'
  <2>1. origin' = origin /\ run' = run /\ board' = board
    BY <1>5 DEF BranchEffect
  <2>2. ASSUME NEW p \in PCs, branch'[p][t] # branch[p][t]
        PROVE  OwnOrShared(branch'[p][t], t)
    <3>1. /\ p = home[s] /\ t = TicketOf(s) /\ branch[p][t] = {} /\ slot[s].pc = "work"
          /\ branch'[p][t] = branch[p][tree[p].head] \/ branch'[p][t] = origin[t]
      BY <1>a, <1>5, <2>2 DEF BranchEffect, Missing
    <3>2. CASE branch'[p][t] = origin[t]
      BY <1>a, <3>2
    <3>3. CASE board.worktrees /\ branch'[p][t] = branch[p][tree[p].head]
      BY <1>0, <3>3 DEF WorktreesApart, OwnOrShared
    <3>4. CASE ~board.worktrees /\ ~Alone(s)
      BY <3>1, <3>4 DEF OwnOrShared, Exposed, Shared, Alone, TicketOf
    <3>5. CASE ~board.worktrees /\ Alone(s) /\ branch'[p][t] = branch[p][tree[p].head]
      <4>1. tree[p].head \in {Default, t} /\ branch[p][Default] = {Root}
        BY <1>0, <3>1, <3>5 DEF FreshStart, FreshAt, Exposed
      <4> QED BY <3>1, <3>5, <4>1 DEF OwnOrShared
    <3> QED BY <3>1, <3>2, <3>3, <3>4, <3>5
  <2> QED BY <1>a, <2>1, <2>2 DEF OwnOrShared, Exposed, Shared
<1>6. ASSUME NEW s \in Slots, CommitEffect(s)
      PROVE  /\ OwnOrShared(origin[t], t)'
             /\ \A p \in PCs : OwnOrShared(branch[p][t], t)'
  <2>1. origin' = origin /\ run'.ticket = run.ticket /\ run'.company = run.company /\ board' = board
    BY <1>6 DEF CommitEffect
  <2>2. ASSUME NEW p \in PCs, NEW r \in branch'[p][t], r \notin branch[p][t]
        PROVE  run.ticket[r] = t \/ (Exposed /\ Shared(t))
    <3>1. p = home[s] /\ slot[s].pc = "work" /\ slot[s].branched
      BY <1>a, <1>6, <2>2 DEF CommitEffect
    <3>2. CASE board.worktrees
      BY <1>a, <1>6, <2>2, <3>2 DEF CommitEffect, TicketOf
    <3>3. CASE ~board.worktrees
      <4>1. r \in tree[p].dirty /\ tree[p].head = t
        BY <1>a, <1>6, <2>2, <3>3 DEF CommitEffect
      <4>2. CASE Alone(s)
        BY <1>0, <3>1, <3>3, <4>1, <4>2 DEF FreshStart, FreshAt, CommitKept, Exposed, TicketOf
      <4>3. CASE ~Alone(s)
        BY <1>0, <1>a, <3>1, <3>3, <4>1, <4>3 DEF WhoseHead, Exposed, Shared, Alone, TicketOf
      <4> QED BY <4>2, <4>3
    <3> QED BY <3>2, <3>3
  <2> QED BY <1>a, <2>1, <2>2 DEF OwnOrShared, Exposed, Shared
<1>7. ASSUME NEW s \in Slots, NEW met \in BOOLEAN, PushEffect(s, met)
      PROVE  /\ OwnOrShared(origin[t], t)'
             /\ \A p \in PCs : OwnOrShared(branch[p][t], t)'
  <2>1. home[s] \in PCs /\ (origin'[t] = origin[t] \/ origin'[t] = branch[home[s]][t])
    BY <1>0, <1>7 DEF PushEffect, Basics
  <2> QED BY <1>a, <1>7, <2>1 DEF PushEffect, OwnOrShared
<1> QED
  BY <1>1, <1>2, <1>3, <1>4, <1>5, <1>6, <1>7 DEF AnyEffect

LEMMA NextTidy == TidyInv /\ [Next]_vars => TidyInv'
BY NextPlace, FreshStaysFresh, HeadsKept, OwnKept, Effects DEF TidyInv, PlaceInv, CompanyInv

LEMMA TidyHolds == Spec => []TidyInv
BY InitTidy, NextTidy, PTL DEF Spec

\* Where every run starts from a refreshed checkout, a ticket's branch on the
\* remote carries foreign commits only once a run of the ticket shared its
\* directory, whatever died, failed or was re-queued before.
THEOREM OwnWorkOnly == Spec => []OnlyOwnWork
<1>1. TidyInv => OnlyOwnWork
  BY DEF TidyInv, OwnBranches, OwnOrShared, OnlyOwnWork, Shared
<1> QED BY <1>1, TidyHolds, PTL
-----------------------------------------------------------------------------
(* What a refresh can destroy.                                               *)

\* A run leaves uncommitted work on the PC of its slot only.
DirtyHere ==
  \A s \in Slots, p \in PCs :
    slot[s].pc # "idle" /\ slot[s].run \in tree[p].dirty => p = home[s]

\* Past its refresh a run finds nobody's uncommitted work but its neighbours'.
DirtyIsShared ==
  Exposed => \A s \in Slots : slot[s].pc \in {"reset", "work"} =>
    \A r \in tree[home[s]].dirty : r = slot[s].run \/ r \in run.company

\* Only neighbours commit to the default branch.
DefaultIsShared ==
  Exposed => \A p \in PCs : \A r \in branch[p][Default] : r = Root \/ r \in run.company

\* A run that goes on after its commit has its commit on its branch.
DirtyAndKept ==
  ~board.worktrees => \A p \in PCs : \A r \in tree[p].dirty \cap run.committed :
    r \in run.company \/ r \in branch[p][run.ticket[r]]

WorkInv == TidyInv /\ DirtyHere /\ DirtyIsShared /\ DefaultIsShared /\ DirtyAndKept

LEMMA InitWork == Init => WorkInv
<1> SUFFICES ASSUME Init PROVE WorkInv
  OBVIOUS
<1>1. DirtyHere /\ DirtyIsShared /\ DirtyAndKept
  BY DEF Init, DirtyHere, DirtyIsShared, DirtyAndKept
<1>2. DefaultIsShared
  BY DEF Init, DefaultIsShared, Heads
<1> QED BY <1>1, <1>2, InitTidy DEF WorkInv

LEMMA DirtyStaysHere ==
  ASSUME PlaceInv, DirtyHere, AnyEffect
  PROVE  DirtyHere'
<1>0. Basics
  BY BasicFacts DEF PlaceInv
<1> USE DEF DirtyHere
<1>1. CASE IdleEffect
  BY <1>1 DEF IdleEffect
<1>2. ASSUME NEW s \in Slots, NEW t \in Tickets, NEW r \in Runs, ClaimEffect(s, t, r)
      PROVE  DirtyHere'
  BY <1>0, <1>2 DEF ClaimEffect, Basics, OnlyStarted
<1>3. ASSUME NEW s \in Slots, ForceEffect(s) PROVE DirtyHere'
  BY <1>3 DEF ForceEffect, Moves
<1>4. ASSUME NEW s \in Slots, ResetEffect(s) PROVE DirtyHere'
  BY <1>4 DEF ResetEffect, Moves
<1>5. ASSUME NEW s \in Slots, EditEffect(s) PROVE DirtyHere'
  BY <1>0, <1>5 DEF EditEffect, Basics, OneSlotPerRun
<1>6. ASSUME NEW s \in Slots, BranchEffect(s) PROVE DirtyHere'
  <2>1. \A p \in PCs : tree'[p].dirty = tree[p].dirty
    BY <1>6 DEF BranchEffect
  <2> QED BY <1>6, <2>1 DEF BranchEffect
<1>7. ASSUME NEW s \in Slots, CommitEffect(s) PROVE DirtyHere'
  BY <1>7 DEF CommitEffect
<1>8. ASSUME NEW s \in Slots, NEW met \in BOOLEAN, PushEffect(s, met) PROVE DirtyHere'
  BY <1>8 DEF PushEffect, Moves
<1> QED
  BY <1>1, <1>2, <1>3, <1>4, <1>5, <1>6, <1>7, <1>8 DEF AnyEffect

LEMMA DirtyStaysShared ==
  ASSUME PlaceInv, DirtyIsShared, AnyEffect
  PROVE  DirtyIsShared'
<1>0. Basics
  BY BasicFacts DEF PlaceInv
<1> USE DEF DirtyIsShared, Exposed
<1>1. CASE IdleEffect
  BY <1>1 DEF IdleEffect
<1>2. ASSUME NEW s \in Slots, NEW t \in Tickets, NEW r \in Runs, ClaimEffect(s, t, r)
      PROVE  DirtyIsShared'
  BY <1>2 DEF ClaimEffect, Refreshed
<1>3. ASSUME NEW s \in Slots, ForceEffect(s) PROVE DirtyIsShared'
  BY <1>0, <1>3 DEF ForceEffect, Moves, Basics
<1>4. ASSUME NEW s \in Slots, ResetEffect(s) PROVE DirtyIsShared'
  BY <1>0, <1>4 DEF ResetEffect, Moves, Basics
<1>5. ASSUME NEW s \in Slots, EditEffect(s) PROVE DirtyIsShared'
  BY <1>0, <1>5 DEF EditEffect, Basics, CompanyKnown, Inside, Alone
<1>6. ASSUME NEW s \in Slots, BranchEffect(s) PROVE DirtyIsShared'
  <2>1. \A p \in PCs : tree'[p].dirty = tree[p].dirty
    BY <1>6 DEF BranchEffect
  <2> QED BY <1>0, <1>6, <2>1 DEF BranchEffect, Basics
<1>7. ASSUME NEW s \in Slots, CommitEffect(s) PROVE DirtyIsShared'
  <2>1. \A p \in PCs : tree'[p].dirty \subseteq tree[p].dirty
    BY <1>7 DEF CommitEffect
  <2>2. UNCHANGED <<slot, home, board>> /\ run'.company = run.company
    BY <1>7 DEF CommitEffect
  <2> QED BY <1>0, <2>1, <2>2 DEF Basics
<1>8. ASSUME NEW s \in Slots, NEW met \in BOOLEAN, PushEffect(s, met) PROVE DirtyIsShared'
  BY <1>8 DEF PushEffect, Moves
<1> QED
  BY <1>1, <1>2, <1>3, <1>4, <1>5, <1>6, <1>7, <1>8 DEF AnyEffect

LEMMA DefaultStaysShared ==
  ASSUME WorkInv, AnyEffect
  PROVE  DefaultIsShared'
<1>0. Basics /\ CommitKept /\ DirtyIsShared /\ DefaultIsShared /\ WhoseHead
  BY BasicFacts DEF WorkInv, TidyInv, PlaceInv
<1> USE DEF DefaultIsShared, Exposed
<1>1. CASE UNCHANGED <<branch, board>> /\ run.company \subseteq run'.company
  BY <1>0, <1>1
<1>2. ASSUME NEW s \in Slots, ResetEffect(s) PROVE DefaultIsShared'
  BY <1>0, <1>2 DEF ResetEffect, Basics
<1>3. ASSUME NEW s \in Slots, BranchEffect(s) PROVE DefaultIsShared'
  BY <1>0, <1>3 DEF BranchEffect, Basics
<1>4. ASSUME NEW s \in Slots, CommitEffect(s) PROVE DefaultIsShared'
  <2>1. board' = board /\ run'.company = run.company /\ slot[s].pc = "work" /\ slot[s].branched
    BY <1>4 DEF CommitEffect
  <2>2. ASSUME ~board.own, ~board.worktrees, NEW p \in PCs, NEW r \in branch'[p][Default],
               r \notin branch[p][Default]
        PROVE  r \in run.company
    <3>1. p = home[s] /\ r \in tree[p].dirty /\ tree[p].head = Default
      BY <1>0, <1>4, <2>2 DEF CommitEffect, Basics
    <3>2. ~Alone(s)
      BY <1>0, <2>1, <2>2, <3>1 DEF CommitKept, Basics
    <3> QED BY <1>0, <2>1, <2>2, <3>1, <3>2 DEF DirtyIsShared, Alone
  <2> QED BY <1>0, <2>1, <2>2
<1> QED
  BY <1>1, <1>2, <1>3, <1>4 DEF AnyEffect, IdleEffect, ClaimEffect, ForceEffect, EditEffect,
                                PushEffect

LEMMA DirtyStaysKept ==
  ASSUME WorkInv, AnyEffect
  PROVE  DirtyAndKept'
<1>0. /\ Basics /\ EachHasTicket /\ CommitKept /\ DirtyHere /\ DirtyAndKept
      /\ \A p \in PCs : \A r \in tree[p].dirty : Started(r)
  BY BasicFacts DEF WorkInv, TidyInv, PlaceInv, Basics, OnlyStarted
<1> USE DEF DirtyAndKept
<1>1. CASE IdleEffect
  BY <1>0, <1>1 DEF IdleEffect
<1>2. ASSUME NEW s \in Slots, NEW t \in Tickets, NEW r \in Runs, ClaimEffect(s, t, r)
      PROVE  DirtyAndKept'
  BY <1>0, <1>2 DEF ClaimEffect
<1>3. ASSUME NEW s \in Slots, ForceEffect(s) PROVE DirtyAndKept'
  BY <1>0, <1>3 DEF ForceEffect
<1>4. ASSUME NEW s \in Slots, ResetEffect(s) PROVE DirtyAndKept'
  <2>1. ASSUME NEW p \in PCs, p # home[s]
        PROVE  tree'[p] = tree[p] /\ \A h \in Heads : branch'[p][h] = branch[p][h]
    BY <1>4, <2>1 DEF ResetEffect
  <2>2. home[s] \in PCs /\ tree'[home[s]].dirty = {} /\ run' = run /\ board' = board
    BY <1>0, <1>4 DEF ResetEffect, Basics
  <2> QED BY <1>0, <2>1, <2>2 DEF Basics, EachHasTicket
<1>5. ASSUME NEW s \in Slots, EditEffect(s) PROVE DirtyAndKept'
  <2>1. UNCHANGED <<run, branch, board>> /\ ~board.worktrees /\ slot[s].pc = "work"
    BY <1>5 DEF EditEffect
  <2>2. ASSUME NEW p \in PCs, NEW r \in tree'[p].dirty, r \notin tree[p].dirty
        PROVE  r = slot[s].run /\ p = home[s]
    BY <1>5, <2>2 DEF EditEffect
  <2>3. slot[s].run \in run.committed =>
          slot[s].run \in run.company \/ slot[s].run \in branch[home[s]][run.ticket[slot[s].run]]
    BY <1>0, <2>1 DEF CommitKept, Alone, TicketOf
  <2> QED BY <1>0, <2>1, <2>2, <2>3
<1>6. ASSUME NEW s \in Slots, BranchEffect(s) PROVE DirtyAndKept'
  <2>1. \A p \in PCs : tree'[p].dirty = tree[p].dirty
    BY <1>6 DEF BranchEffect
  <2>2. \A p \in PCs, h \in Heads : branch[p][h] \subseteq branch'[p][h]
    BY <1>6 DEF BranchEffect, Missing
  <2>3. run' = run /\ board' = board
    BY <1>6 DEF BranchEffect
  <2> QED BY <1>0, <2>1, <2>2, <2>3 DEF Basics, EachHasTicket
<1>7. ASSUME NEW s \in Slots, CommitEffect(s) PROVE DirtyAndKept'
  <2>1. \A p \in PCs, h \in Heads : branch[p][h] \subseteq branch'[p][h]
    BY <1>7 DEF CommitEffect
  <2>2. board' = board /\ run'.company = run.company /\ run'.ticket = run.ticket
    BY <1>7 DEF CommitEffect
  <2>3. ASSUME ~board.worktrees, NEW p \in PCs, NEW r \in tree'[p].dirty \cap run'.committed
        PROVE  r \in tree[p].dirty \cap run.committed
    <3>1. p # home[s] /\ r \in tree[p].dirty
      BY <1>7, <2>3 DEF CommitEffect
    <3>2. r # slot[s].run
      BY <1>0, <1>7, <3>1 DEF CommitEffect, DirtyHere
    <3> QED BY <1>7, <2>3, <3>1, <3>2 DEF CommitEffect
  <2>4. \A p \in PCs : \A r \in tree[p].dirty : run.ticket[r] \in Heads
    BY <1>0 DEF Basics, EachHasTicket
  <2> QED BY <1>0, <2>1, <2>2, <2>3, <2>4
<1>8. ASSUME NEW s \in Slots, NEW met \in BOOLEAN, PushEffect(s, met) PROVE DirtyAndKept'
  BY <1>0, <1>8 DEF PushEffect
<1> QED
  BY <1>1, <1>2, <1>3, <1>4, <1>5, <1>6, <1>7, <1>8 DEF AnyEffect

LEMMA NextWork == WorkInv /\ [Next]_vars => WorkInv'
BY NextTidy, DirtyStaysHere, DirtyStaysShared, DefaultStaysShared, DirtyStaysKept, Effects
   DEF WorkInv, TidyInv, PlaceInv, CompanyInv

LEMMA WorkHolds == Spec => []WorkInv
BY InitWork, NextWork, PTL DEF Spec

\* What WorkSurvives says of one step, one PC and one run.
Excused(p, r) ==
  AtWork(r) \/ r \in run.committed =>
    /\ Exposed
    /\ \E s \in Slots : /\ home[s] = p /\ slot[s].pc \in {"refresh", "reset"}
                        /\ run.company \cap {slot[s].run, r} # {}

LEMMA InWorkAt ==
  ASSUME NEW p, NEW r
  PROVE  /\ r \in WorkAt(p) <=>
              r # Root /\ (r \in tree[p].dirty \/ \E h \in Heads : r \in branch[p][h])
         /\ r \in WorkAt(p)' <=>
              r # Root /\ (r \in tree'[p].dirty \/ \E h \in Heads : r \in branch'[p][h])
<1> DEFINE U == UNION {branch[p][h] : h \in Heads}
<1> DEFINE V == UNION {branch'[p][h] : h \in Heads}
<1>1. r \in U <=> \E h \in Heads : r \in branch[p][h]
  OBVIOUS
<1>2. r \in V <=> \E h \in Heads : r \in branch'[p][h]
  OBVIOUS
<1>3. WorkAt(p) = (U \cup tree[p].dirty) \ {Root}
  BY DEF WorkAt
<1>4. WorkAt(p)' = (V \cup tree'[p].dirty) \ {Root}
  BY DEF WorkAt
<1> HIDE DEF U, V
<1>5. r \in WorkAt(p) <=>
        r # Root /\ (r \in tree[p].dirty \/ \E h \in Heads : r \in branch[p][h])
  BY <1>1, <1>3
<1>6. r \in WorkAt(p)' <=>
        r # Root /\ (r \in tree'[p].dirty \/ \E h \in Heads : r \in branch'[p][h])
  BY <1>2, <1>4
<1> QED BY <1>5, <1>6

\* Most steps take nothing away.
LEMMA OthersTakeNothing ==
  ASSUME WorkInv, AnyEffect, \A s \in Slots : ~ForceEffect(s) /\ ~ResetEffect(s),
         NEW p \in PCs
  PROVE  WorkAt(p) \subseteq WorkAt(p)'
<1>0. Basics
  BY BasicFacts DEF WorkInv, TidyInv, PlaceInv
<1>1. CASE UNCHANGED <<tree, branch>>
  BY <1>1 DEF WorkAt
<1>2. ASSUME NEW s \in Slots, EditEffect(s) PROVE WorkAt(p) \subseteq WorkAt(p)'
  <2>1. tree[p].dirty \subseteq tree'[p].dirty /\ branch' = branch
    BY <1>2 DEF EditEffect
  <2> QED BY <2>1, InWorkAt
<1>3. ASSUME NEW s \in Slots, BranchEffect(s) PROVE WorkAt(p) \subseteq WorkAt(p)'
  <2>1. tree'[p].dirty = tree[p].dirty /\ \A h \in Heads : branch[p][h] \subseteq branch'[p][h]
    BY <1>3 DEF BranchEffect, Missing
  <2> QED BY <2>1, InWorkAt
<1>4. ASSUME NEW s \in Slots, CommitEffect(s) PROVE WorkAt(p) \subseteq WorkAt(p)'
  <2>1. \A h \in Heads : branch[p][h] \subseteq branch'[p][h]
    BY <1>4 DEF CommitEffect
  <2>2. tree[p].dirty \subseteq tree'[p].dirty \/ tree[p].dirty \subseteq branch'[p][tree[p].head]
    BY <1>0, <1>4 DEF CommitEffect, Basics
  <2>3. tree[p].head \in Heads
    BY <1>0 DEF Basics
  <2> QED BY <2>1, <2>2, <2>3, InWorkAt
<1> QED
  BY <1>1, <1>2, <1>3, <1>4 DEF AnyEffect, IdleEffect, ClaimEffect, PushEffect

LEMMA ForceExcused ==
  ASSUME WorkInv, NEW s \in Slots, ForceEffect(s), NEW p \in PCs, NEW r \in WorkAt(p) \ WorkAt(p)'
  PROVE  Excused(p, r)
<1>0. /\ Basics /\ EachHasTicket /\ NotYet /\ WorktreesApart /\ DirtyHere /\ DirtyAndKept
      /\ slot[s].pc = "refresh" /\ branch' = branch
  BY BasicFacts DEF WorkInv, TidyInv, PlaceInv, ForceEffect
<1>1. p = home[s] /\ r \in tree[p].dirty /\ \A h \in Heads : r \notin branch[p][h]
  BY <1>0, InWorkAt DEF ForceEffect
<1>2. Exposed
  BY <1>0, <1>1 DEF NotYet, WorktreesApart, Exposed
<1>3. CASE r \in run.committed
  <2>1. run.ticket[r] \in Heads
    BY <1>0, <1>1 DEF Basics, OnlyStarted, EachHasTicket
  <2>2. r \in run.company
    BY <1>0, <1>1, <1>2, <1>3, <2>1 DEF DirtyAndKept, Exposed
  <2> QED BY <1>0, <1>1, <1>2, <2>2 DEF Excused
<1>4. ASSUME NEW o \in Slots, slot[o].pc = "work", slot[o].run = r
      PROVE  Excused(p, r)
  <2>1. home[o] = p
    BY <1>0, <1>1, <1>4 DEF DirtyHere
  <2>2. r \in run.company
    BY <1>0, <1>1, <1>4, <2>1 DEF Basics, CompanyKnown, Inside, Alone
  <2> QED BY <1>0, <1>1, <1>2, <2>2 DEF Excused
<1> QED BY <1>3, <1>4 DEF Excused, AtWork

LEMMA ResetExcused ==
  ASSUME WorkInv, NEW s \in Slots, ResetEffect(s), NEW p \in PCs, NEW r \in WorkAt(p) \ WorkAt(p)'
  PROVE  Excused(p, r)
<1>0. /\ Basics /\ NotYet /\ WorktreesApart /\ FreshStart /\ DefaultIsShared
      /\ slot[s].pc = "reset"
  BY BasicFacts DEF WorkInv, TidyInv, PlaceInv, ResetEffect
<1>1. p = home[s] /\ r # Root /\ (r \in tree[p].dirty \/ r \in branch[p][tree[p].head])
  BY <1>0, InWorkAt DEF ResetEffect
<1>2. Exposed
  BY <1>0, <1>1 DEF NotYet, WorktreesApart, Exposed
<1>3. slot[s].run \in run.company \/ r \in run.company
  <2>1. CASE Alone(s)
    <3>1. tree[p].dirty = {} /\ tree[p].head = Default
      BY <1>0, <1>1, <1>2, <2>1 DEF FreshStart, FreshAt
    <3> QED BY <1>0, <1>1, <1>2, <3>1 DEF DefaultIsShared
  <2> QED BY <2>1 DEF Alone
<1> QED BY <1>0, <1>1, <1>2, <1>3 DEF Excused

\* Work vanishes from a PC only in the refresh of an auto-clone without
\* worktrees, and only between runs that shared it: for any number of PCs, slots,
\* tickets and runs.
THEOREM WorkIsSafe == Spec => WorkSurvives
<1>1. WorkInv /\ [Next]_vars =>
        [\A p \in PCs : \A r \in WorkAt(p) \ WorkAt(p)' :
           AtWork(r) \/ r \in run.committed =>
             /\ Exposed
             /\ \E s \in Slots : /\ home[s] = p /\ slot[s].pc \in {"refresh", "reset"}
                               /\ run.company \cap {slot[s].run, r} # {}]_vars
  <2> SUFFICES ASSUME WorkInv, [Next]_vars, NEW p \in PCs, NEW r \in WorkAt(p) \ WorkAt(p)'
               PROVE  Excused(p, r)
    BY DEF Excused
  <2>1. AnyEffect
    BY Effects DEF WorkInv, TidyInv, PlaceInv, CompanyInv
  <2> QED BY <2>1, OthersTakeNothing, ForceExcused, ResetExcused
<1> QED BY <1>1, WorkHolds, PTL DEF Spec, WorkSurvives
=============================================================================
