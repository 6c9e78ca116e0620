----------------------------- MODULE Escalation -----------------------------
(***************************************************************************)
(* One ticket whose agent stops to ask a human: the question row that      *)
(* raise_question writes, answer_question on the server, and the session   *)
(* hand-over of claim_next, by which the next run continues the agent's    *)
(* own CLI session with the answer instead of starting a fresh one.        *)
(*                                                                         *)
(* WorkQueue models the queue these rows live in. Here the heartbeat, the  *)
(* gate and the attempt counter are abstracted: a claim may be reaped at   *)
(* any time, and a failed attempt is retried or fails the ticket.          *)
(***************************************************************************)
EXTENDS Integers, Sequences, FiniteSets

CONSTANTS
  Slots,       \* the slots that may claim the ticket
  PCs,         \* the PCs they run on
  PC,          \* PC[s]: the PC of slot s
  Reqs,        \* the server's request threads
  Drags,       \* statuses a client drags the ticket to
  MaxCalls,    \* BOUND: calls that clients make
  MaxRetries   \* BOUND: failed or reaped attempts that are retried

ASSUME EscalationAssumption ==
  /\ PC \in [Slots -> PCs]
  /\ MaxCalls \in Nat /\ MaxRetries \in Nat
  /\ Drags \subseteq {"todo", "ready", "blocked", "done"}

VARIABLES
  status,    \* tickets.status
  sessions,  \* the PC each session was minted on; the last is the ticket's
  queue,     \* the ticket's work_queue rows, by age
  question,  \* its ticket_questions rows, by age
  clock,     \* the last answered_at a handler took
  slot,      \* the slots of every PC
  req,       \* the server's requests in flight
  used,      \* calls made and attempts retried, for the bounds
  past       \* history of the questions, for the properties

vars == <<status, sessions, queue, question, clock, slot, req, used, past>>
-----------------------------------------------------------------------------
Statuses == {"todo", "ready", "doing", "blocked", "done", "failed"}
None == 0

\* by: the slot that claimed it.
Row  == [status : {"queued", "claimed", "done", "failed", "blocked"},
         by : Slots \cup {None}, resume : BOOLEAN]
QueuedRow(resume) == [status |-> "queued", by |-> None, resume |-> resume]

\* asker: the session that asked. at: answered_at, None until it is answered.
Question == [asker : Nat, at : Nat]

\* session, given: what the run was started with; a resumed run is given the
\* question whose answer its prompt carries.
Slot == [pc : {"idle", "running", "ended"}, item : Nat, session : Nat, given : Nat,
         outcome : {"none", "pushed", "unpushed", "failed", "question"}]
IdleSlot == [pc |-> "idle", item |-> None, session |-> None, given |-> None,
             outcome |-> "none"]

\* status: the ticket's, as the ORM session holds it. question: the one being
\* answered, None in a drag. at: the answered_at to write.
Req == [pc : {"idle", "answer", "drag", "find", "enqueue"}, status : Statuses,
        target : Drags \cup {"none"}, question : Nat, at : Nat,
        seen : Nat, seenStatus : {"none", "queued", "claimed"}]
IdleReq == [pc |-> "idle", status |-> "todo", target |-> "none", question |-> None,
            at |-> None, seen |-> None, seenStatus |-> "none"]

Items     == DOMAIN queue
Questions == DOMAIN question
Answered  == {q \in Questions : question[q].at # None}
Live(s)   == slot[s].pc # "idle"
Answering(r) == req[r].question # None

\* handed: used up by the claim of a resumed run. overtaken: a session later than the one that asked
\* was started before the question was handed over. raced: another call, or a
\* claim, came while its answer was in flight, or it was recorded while two rows
\* were outstanding. noted: recorded for a ticket that was not blocked, so that
\* nothing is queued for it. cut: the server died while it recorded the answer
\* (or, None, while it dragged the ticket). mixed: sessions that were handed an
\* answer that was overtaken or raced.
Past == [handed : SUBSET Nat, overtaken : SUBSET Nat, raced : SUBSET Nat,
         noted : SUBSET Nat, cut : SUBSET Nat, mixed : SUBSET Nat]

\* The ticket has just been created in ready and enqueued.
Init ==
  /\ status = "ready"
  /\ sessions = <<>>
  /\ queue = <<QueuedRow(FALSE)>>
  /\ question = <<>>
  /\ clock = 0
  /\ slot = [s \in Slots |-> IdleSlot]
  /\ req = [r \in Reqs |-> IdleReq]
  /\ used = [calls |-> 0, retries |-> 0]
  /\ past = [handed |-> {}, overtaken |-> {}, raced |-> {}, noted |-> {},
            cut |-> {}, mixed |-> {}]
-----------------------------------------------------------------------------
(* The worker.                                                              *)

Queued == {i \in Items : queue[i].status = "queued"}

\* ORDER BY answered_at DESC LIMIT 1.
Oldest == CHOOSE q \in Answered : \A p \in Answered : question[q].at <= question[p].at \* mutant
Latest == CHOOSE q \in Answered : \A p \in Answered : question[p].at <= question[q].at

\* A resume row continues the ticket's session if there is one and some
\* question has been answered.
AnyRow(i) == sessions # <<>> /\ Answered # {}                   \* mutant
Resumes(i) == queue[i].resume /\ sessions # <<>> /\ Answered # {}

ClaimedBy(s, i) == [queue EXCEPT ![i] = [@ EXCEPT !.status = "claimed", !.by = s]]

RunStarts(s, i, session, given) ==
  slot' = [slot EXCEPT ![s] = [pc |-> "running", item |-> i, session |-> session,
                               given |-> given, outcome |-> "none"]]

InFlight == {req[r].question : r \in Reqs} \ {None}

\* Answers that may reach another session than the one that asked.
Loose == past.overtaken \cup past.raced

\* claim_next of a row that resumes: the ticket keeps its session, and the claim
\* carries the answer. Its agent gets it only if the run comes to start on the
\* PC of that session; the row of a retry does not resume.
ClaimResume(s, i) ==
  /\ Resumes(i)
  /\ RunStarts(s, i, Len(sessions), Latest)
  /\ past' = [past EXCEPT !.handed = @ \cup {Latest}, !.raced = @ \cup InFlight,
                          !.mixed = IF Latest \in Loose \cup InFlight
                                    THEN @ \cup {Len(sessions)} ELSE @]
  /\ UNCHANGED sessions

\* claim_next of any other row: a session is minted on this PC.
ClaimFresh(s, i) ==
  /\ ~Resumes(i)
  /\ sessions' = Append(sessions, PC[s])
  /\ RunStarts(s, i, Len(sessions) + 1, None)
  /\ past' = [past EXCEPT !.overtaken = @ \cup (Questions \ past.handed),
                          !.raced = @ \cup InFlight]

\* claim_next takes the oldest queued row.
Claim(s) ==
  /\ slot[s].pc = "idle"
  /\ \E i \in Queued :
       /\ \A j \in Queued : i <= j
       /\ queue' = ClaimedBy(s, i)
       /\ ClaimResume(s, i) \/ ClaimFresh(s, i)
  /\ status' = "doing"
  /\ UNCHANGED <<question, clock, req, used>>

\* The executor returns. The CLI cannot resume a session of another PC.
RunEnds(s, o) ==
  /\ slot[s].pc = "running"
  /\ slot[s].given # None /\ sessions[slot[s].session] # PC[s] => o = "failed"
  /\ slot' = [slot EXCEPT ![s] = [@ EXCEPT !.pc = "ended", !.outcome = o]]
  /\ UNCHANGED <<status, sessions, queue, question, clock, req, used, past>>

\* finish_work's and raise_question's guard: claimed, and by this PC.
StillHeld(s) ==
  LET row == queue[slot[s].item] IN row.status = "claimed" /\ PC[row.by] = PC[s]

Close(i, st) == [queue EXCEPT ![i] = [@ EXCEPT !.status = st]]

\* A failed or reaped attempt: a retry row, which does not resume, or the end.
ChargeFailure(i) ==
  \/ /\ used.retries < MaxRetries
     /\ used' = [used EXCEPT !.retries = @ + 1]
     /\ queue' = Append(Close(i, "failed"), QueuedRow(FALSE))
     /\ status' = "ready"
  \/ /\ queue' = Close(i, "failed")
     /\ status' = "failed"
     /\ UNCHANGED used

\* finish_work, ok = TRUE, of a claim this PC still holds.
FinishOk(s) ==
  /\ slot[s].outcome \in {"pushed", "unpushed"}
  /\ queue' = Close(slot[s].item, "done")
  /\ status' = IF slot[s].outcome = "pushed" THEN "done" ELSE "blocked"
  /\ UNCHANGED <<question, used, past>>

\* finish_work, ok = FALSE.
FinishFailed(s) ==
  /\ slot[s].outcome = "failed"
  /\ ChargeFailure(slot[s].item)
  /\ UNCHANGED <<question, past>>

\* raise_question.
RaiseQuestion(s) ==
  /\ slot[s].outcome = "question"
  /\ queue' = Close(slot[s].item, "blocked")
  /\ question' = Append(question, [asker |-> slot[s].session, at |-> None])
  /\ status' = "blocked"
  /\ past' = IF slot[s].session = Len(sessions) THEN past
             ELSE [past EXCEPT !.overtaken = @ \cup {Len(question) + 1}]
  /\ UNCHANGED used

\* The result is recorded, or dropped whole if the claim is lost.
Report(s) ==
  /\ slot[s].pc = "ended"
  /\ \/ StillHeld(s) /\ (FinishOk(s) \/ FinishFailed(s) \/ RaiseQuestion(s))
     \/ ~StillHeld(s) /\ UNCHANGED <<status, queue, question, used, past>>
  /\ slot' = [slot EXCEPT ![s] = IdleSlot]
  /\ UNCHANGED <<sessions, clock, req>>

\* The PC dies, or the database is unreachable when it reports.
SlotDies(s) ==
  /\ Live(s)
  /\ slot' = [slot EXCEPT ![s] = IdleSlot]
  /\ UNCHANGED <<status, sessions, queue, question, clock, req, used, past>>

\* _reap_one, on a claim whose heartbeat was found stale.
Reap(i) ==
  /\ queue[i].status = "claimed"
  /\ ChargeFailure(i)
  /\ UNCHANGED <<sessions, question, clock, slot, req, past>>
-----------------------------------------------------------------------------
(* The server.                                                              *)

Calls(r) ==
  /\ req[r].pc = "idle" /\ used.calls < MaxCalls
  /\ used' = [used EXCEPT !.calls = @ + 1]

\* A request that has loaded the ticket.
Loaded(pc, target, q, at) ==
  [pc |-> pc, status |-> status, target |-> target, question |-> q, at |-> at,
   seen |-> None, seenStatus |-> "none"]

\* answer_question: load the ticket and the question, refuse an answered one,
\* take the time.
AnswerQuestion(r, q) ==
  /\ Calls(r)
  /\ question[q].at = None
  /\ clock' = clock + 1
  /\ req' = [req EXCEPT ![r] = Loaded("answer", "none", q, clock + 1)]
  /\ past' = IF \A p \in Reqs : req[p].pc = "idle" THEN past
             ELSE [past EXCEPT !.raced = @ \cup InFlight \cup {q}]
  /\ UNCHANGED <<status, sessions, queue, question, slot>>

Outstanding == {i \in Items : queue[i].status \in {"queued", "claimed"}}
Crowded     == \E i, j \in Outstanding : i # j

\* Its first commit, then the decision on the status it loaded.
ReadDoing(r) == req[r].status = "doing"                          \* mutant
ReadBlocked(r) == req[r].status = "blocked"
AnswerCommit(r) ==
  /\ req[r].pc = "answer"
  /\ question' = [question EXCEPT ![req[r].question].at = req[r].at]
  /\ req' = [req EXCEPT ![r] = IF ReadBlocked(r) THEN [@ EXCEPT !.pc = "find"] ELSE IdleReq]
  /\ past' = [past EXCEPT !.raced = @ \cup IF Crowded THEN {req[r].question} ELSE {},
                          !.noted = @ \cup IF req[r].status = "blocked" THEN {}
                                           ELSE {req[r].question}]
  /\ UNCHANGED <<status, sessions, queue, clock, slot, used>>

\* patch_ticket with a status: load the ticket.
DragTicket(r, st) ==
  /\ Calls(r)
  /\ req' = [req EXCEPT ![r] = Loaded("drag", st, None, None)]
  /\ past' = [past EXCEPT !.raced = @ \cup InFlight]
  /\ UNCHANGED <<status, sessions, queue, question, clock, slot>>

\* Its commit writes the status if it differs from the one loaded; a ready
\* ticket goes on to enqueue_ticket.
DragCommit(r) ==
  LET st == req[r].target
  IN  /\ req[r].pc = "drag"
      /\ status' = IF req[r].status = st THEN status ELSE st
      /\ req' = [req EXCEPT ![r] = IF st = "ready"
                                   THEN [@ EXCEPT !.pc = "find", !.status = st]
                                   ELSE IdleReq]
      /\ UNCHANGED <<sessions, queue, question, clock, slot, used, past>>

\* enqueue_ticket's SELECT of an outstanding row.
EnqueueFind(r) ==
  /\ req[r].pc = "find"
  /\ \/ /\ Outstanding = {}
        /\ req' = [req EXCEPT ![r].pc = "enqueue"]
     \/ \E i \in Outstanding :
          req' = [req EXCEPT ![r] = [@ EXCEPT !.pc = "enqueue", !.seen = i,
                                              !.seenStatus = queue[i].status]]
  /\ UNCHANGED <<status, sessions, queue, question, clock, slot, used, past>>

\* enqueue_ticket's commit. A queued row stands, with the resume flag it has;
\* otherwise a row is inserted that resumes if an answer asked for it.
EnqueueCommit(r) ==
  LET superseded == IF req[r].seenStatus = "claimed" THEN Close(req[r].seen, "failed") ELSE queue
  IN  /\ req[r].pc = "enqueue"
      /\ queue' = IF req[r].seenStatus = "queued" THEN queue
                  ELSE Append(superseded, QueuedRow(Answering(r)))
      /\ status' = IF req[r].status = "ready" THEN status ELSE "ready"
      /\ req' = [req EXCEPT ![r] = IdleReq]
      /\ past' = IF Answering(r) /\ Crowded'
                 THEN [past EXCEPT !.raced = @ \cup {req[r].question}] ELSE past
      /\ UNCHANGED <<sessions, question, clock, slot, used>>

\* The server restarts, or the call fails: what was committed stays.
RequestDies(r) ==
  /\ req[r].pc # "idle"
  /\ req' = [req EXCEPT ![r] = IdleReq]
  /\ past' = [past EXCEPT !.cut = @ \cup {req[r].question}]
  /\ UNCHANGED <<status, sessions, queue, question, clock, slot, used>>
-----------------------------------------------------------------------------
SlotStep(s) ==
  \/ Claim(s) \/ Report(s) \/ SlotDies(s)
  \/ \E o \in {"pushed", "unpushed", "failed", "question"} : RunEnds(s, o)

ReqStep(r) ==
  \/ \E q \in Questions : AnswerQuestion(r, q)
  \/ \E st \in Drags : DragTicket(r, st)
  \/ AnswerCommit(r) \/ DragCommit(r) \/ EnqueueFind(r) \/ EnqueueCommit(r)
  \/ RequestDies(r)

Next ==
  \/ \E s \in Slots : SlotStep(s)
  \/ \E r \in Reqs : ReqStep(r)
  \/ \E i \in Items : Reap(i)

Spec == Init /\ [][Next]_vars

\* Slots poll for ever, a run that has ended is reported, and a handler goes on
\* after each of its commits. Nothing makes a run end (AgentRun's Stuck), a
\* client call, or anything die.
Fairness ==
  /\ \A s \in Slots : WF_vars(Claim(s)) /\ WF_vars(Report(s))
  /\ \A r \in Reqs :
       WF_vars(AnswerCommit(r) \/ DragCommit(r) \/ EnqueueFind(r) \/ EnqueueCommit(r))

FairSpec == Spec /\ Fairness
-----------------------------------------------------------------------------
(* Safety.                                                                  *)

TypeOK ==
  /\ status \in Statuses
  /\ sessions \in Seq(PCs)
  /\ queue \in Seq(Row)
  /\ question \in Seq(Question)
  /\ clock \in Nat
  /\ slot \in [Slots -> Slot]
  /\ req \in [Reqs -> Req]
  /\ used \in [calls : Nat, retries : Nat]
  /\ past \in Past

\* A run is handed the answer to a question its own session did not ask only
\* if a later session was started before the answer reached a run, or another
\* call, a claim or a second outstanding row came while it was recorded.
StrayAnswersWereOvertaken ==
  \A s \in Slots :
    LET q == slot[s].given
    IN  q # None /\ question[q].asker # slot[s].session => q \in Loose

\* Two agents are at work in one CLI session only if it was once handed such an
\* answer: no reap, late result, crash, retry or re-queue alone makes a second
\* run share the session of one that is still at work.
OneAgentPerSession ==
  \A s, o \in Slots :
    s # o /\ Live(s) /\ Live(o) /\ slot[s].session = slot[o].session =>
      slot[s].session \in past.mixed

Reason ==
  \/ \E q \in Questions : question[q].at = None
  \/ \E i \in Items : queue[i].status \in {"done", "queued", "claimed"}
  \/ InFlight # {}

\* A ticket nobody dragged there is blocked for a reason a human can act on:
\* an open question, work that was not pushed, or a row it waits for. Only a
\* server that dies between an answer and its re-queue, whose retry gets a 409,
\* leaves a ticket blocked with nothing left to answer.
BlockedHasReason ==
  status = "blocked" /\ "blocked" \notin Drags => Reason \/ past.cut \ {None} # {}
-----------------------------------------------------------------------------
(* Liveness, under Fairness.                                                *)

\* The answer the next resumed claim would be handed, where none was yet, and
\* why it may never be.
Pending == (IF Answered = {} THEN {} ELSE {Latest}) \
             (past.handed \cup past.overtaken \cup past.noted \cup past.cut)
Elsewhere == None \in past.cut \/ status \in {"todo", "done", "failed"}
StrandedReady == status = "ready" /\ Outstanding = {}

\* Every answer to a blocked ticket is handed to a claim that resumes, as long
\* as the runs of some slot end, unless a later answer took its place, a later
\* session overtook it, the server died recording it, the ticket was closed, or a
\* re-queue that was raced left it ready with no row (WorkQueue's Stranded).
\* Whether the agent then gets it is another matter: a claim on a PC without the
\* session, or one that dies, has used the answer up (ResumesOwnSession).
AnswersAreHandedOver ==
  (\E s \in Slots : []<>(slot[s].pc # "running")) =>
    []<>(Pending = {} \/ Elsewhere \/ StrandedReady)
-----------------------------------------------------------------------------
(* What the repository's documentation says and the code does not do.       *)

\* "Session resume: an unblocked ticket continues its own agent session"
\* (STATUS.md): a resumed run is on the PC that holds the session.
ResumesOwnSession ==
  \A s \in Slots : slot[s].given # None => sessions[slot[s].session] = PC[s]
=============================================================================
