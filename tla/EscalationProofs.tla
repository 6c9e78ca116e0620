--------------------------- MODULE EscalationProofs ---------------------------
(* Theorems about Escalation, for every value of its constants.             *)
EXTENDS Escalation, SequenceTheorems, WellFoundedInduction, TLAPS

-----------------------------------------------------------------------------
(* Type correctness.                                                        *)

\* Nobody has taken a later time than the clock, so that there is a latest
\* answer; a drag has somewhere to go.
ClockBound ==
  /\ \A q \in Questions : question[q].at <= clock
  /\ \A r \in Reqs : /\ req[r].at <= clock
                     /\ req[r].pc = "drag" => req[r].target \in Drags

TypeInv == TypeOK /\ ClockBound

LEMMA InitTyped == Init => TypeInv
<1> SUFFICES ASSUME Init PROVE TypeInv
  OBVIOUS
<1>1. sessions \in Seq(PCs) /\ question \in Seq(Question) /\ queue \in Seq(Row)
  BY DEF Init, Row, QueuedRow, None
<1>2. slot \in [Slots -> Slot] /\ req \in [Reqs -> Req] /\ past \in Past
  BY DEF Init, Slot, IdleSlot, Req, IdleReq, Past, None, Statuses
<1>3. ClockBound
  BY DEF Init, ClockBound, Questions, IdleReq, None
<1> QED BY <1>1, <1>2, <1>3 DEF Init, TypeInv, TypeOK, Statuses

LEMMA Shapes ==
  ASSUME TypeInv
  PROVE  /\ Len(question) \in Nat /\ Questions = 1..Len(question)
         /\ \A q \in Questions : question[q] \in Question /\ question[q].at \in Nat
         /\ \A q \in Questions : question[q].at <= clock
         /\ Len(queue) \in Nat /\ Items = 1..Len(queue) /\ Len(sessions) \in Nat
         /\ \A i \in Items : queue[i] \in Row
         /\ clock \in Nat /\ status \in Statuses /\ past \in Past
         /\ InFlight \subseteq Nat
         /\ \A s \in Slots : slot[s] \in Slot
         /\ \A r \in Reqs : req[r] \in Req /\ req[r].at \in Nat /\ req[r].at <= clock
<1>1. /\ question \in Seq(Question) /\ queue \in Seq(Row) /\ sessions \in Seq(PCs)
      /\ clock \in Nat /\ status \in Statuses /\ past \in Past
      /\ slot \in [Slots -> Slot] /\ req \in [Reqs -> Req]
  BY DEF TypeInv, TypeOK
<1>2. /\ Len(question) \in Nat /\ Questions = 1..Len(question)
      /\ \A q \in Questions : question[q] \in Question
      /\ Len(queue) \in Nat /\ Items = 1..Len(queue) /\ \A i \in Items : queue[i] \in Row
      /\ Len(sessions) \in Nat
  BY <1>1, LenProperties DEF Questions, Items
<1>3. \A q \in Questions : question[q].at \in Nat
  BY <1>2 DEF Question
<1>4. \A r \in Reqs : req[r] \in Req /\ req[r].at \in Nat /\ req[r].question \in Nat
  BY <1>1 DEF Req
<1>5. InFlight \subseteq Nat
  BY <1>4 DEF InFlight
<1> QED BY <1>1, <1>2, <1>3, <1>4, <1>5 DEF TypeInv, ClockBound

\* A set of natural numbers has a least element.
LEMMA Least ==
  ASSUME NEW T \in SUBSET Nat, T # {}
  PROVE  \E x \in T : \A y \in T : x <= y
<1>1. PICK x \in T : \A y \in T : <<y, x>> \notin OpToRel(<, Nat)
  BY WFMin, NatLessThanWellFounded
<1>2. \A y \in T : y < x => <<y, x>> \in OpToRel(<, Nat)
  BY DEF OpToRel
<1>3. \A y \in T : ~(y < x)
  BY <1>1, <1>2, Zenon
<1> QED BY <1>3

\* There is a latest answer, although two answers may have been given at once.
LEMMA LatestIsAnswered ==
  ASSUME TypeInv, Answered # {}
  PROVE  /\ Latest \in Answered
         /\ \A p \in Answered : question[p].at <= question[Latest].at
<1> DEFINE T == {clock - question[q].at : q \in Answered}
<1>1. \A q \in Answered : question[q].at \in Nat /\ question[q].at <= clock
  BY Shapes DEF Answered
<1>2. clock \in Nat
  BY DEF TypeInv, TypeOK
<1>3. T \in SUBSET Nat /\ T # {}
  BY <1>1, <1>2
<1>4. PICK x \in T : \A y \in T : x <= y
  <2> HIDE DEF T
  <2> QED BY <1>3, Least
<1>5. PICK q \in Answered : x = clock - question[q].at
  OBVIOUS
<1>6. \A p \in Answered : question[p].at <= question[q].at
  <2>1. ASSUME NEW p \in Answered PROVE question[p].at <= question[q].at
    <3>1. clock - question[q].at <= clock - question[p].at
      BY <1>4, <1>5
    <3> QED BY <1>1, <1>2, <3>1
  <2> QED BY <2>1
<1> QED BY <1>5, <1>6 DEF Latest

LEMMA CloseTyped ==
  ASSUME TypeInv, NEW i, NEW st \in {"done", "failed", "blocked"}
  PROVE  /\ Close(i, st) \in Seq(Row) /\ Len(Close(i, st)) = Len(queue)
         /\ \A j \in 1..Len(queue) :
              Close(i, st)[j].status = IF j = i THEN st ELSE queue[j].status
<1>1. queue \in [1..Len(queue) -> Row] /\ Len(queue) \in Nat
  BY LenProperties DEF TypeInv, TypeOK
<1>2. Close(i, st) \in [1..Len(queue) -> Row]
  BY <1>1 DEF Close, Row
<1>3. \A j \in 1..Len(queue) : Close(i, st)[j].status = IF j = i THEN st ELSE queue[j].status
  BY <1>1 DEF Close, Row
<1> HIDE DEF Close
<1> QED BY <1>1, <1>2, <1>3

LEMMA QueueGrows ==
  ASSUME NEW Q \in Seq(Row), NEW resume \in BOOLEAN
  PROVE  /\ Append(Q, QueuedRow(resume)) \in Seq(Row)
         /\ Len(Append(Q, QueuedRow(resume))) = Len(Q) + 1
         /\ \A i \in 1..Len(Q) : Append(Q, QueuedRow(resume))[i] = Q[i]
         /\ Append(Q, QueuedRow(resume))[Len(Q) + 1].status = "queued"
<1>1. QueuedRow(resume) \in Row /\ QueuedRow(resume).status = "queued"
  BY DEF QueuedRow, Row, None
<1> QED BY <1>1, AppendProperties

LEMMA ChargeTyped ==
  ASSUME TypeInv, NEW i, ChargeFailure(i)
  PROVE  /\ queue' \in Seq(Row) /\ status' \in {"ready", "failed"}
         /\ used' \in [calls : Nat, retries : Nat]
<1>1. Close(i, "failed") \in Seq(Row)
  BY CloseTyped
<1>2. Append(Close(i, "failed"), QueuedRow(FALSE)) \in Seq(Row)
  BY <1>1, QueueGrows
<1>3. used' \in [calls : Nat, retries : Nat]
  <2>1. used' = used \/ used' = [used EXCEPT !.retries = @ + 1]
    BY DEF ChargeFailure
  <2> QED BY <2>1 DEF TypeInv, TypeOK
<1> QED BY <1>1, <1>2, <1>3 DEF ChargeFailure

LEMMA ClaimTyped ==
  ASSUME TypeInv, NEW s \in Slots, Claim(s)
  PROVE  TypeInv'
<1>1. PICK i \in Queued : /\ queue' = ClaimedBy(s, i)
                          /\ ClaimResume(s, i) \/ ClaimFresh(s, i)
  BY DEF Claim
<1>2. queue' \in Seq(Row)
  <2>1. queue \in [1..Len(queue) -> Row] /\ Len(queue) \in Nat
    BY LenProperties DEF TypeInv, TypeOK
  <2>2. queue' \in [1..Len(queue) -> Row]
    BY <1>1, <2>1 DEF ClaimedBy, Row
  <2> QED BY <2>1, <2>2
<1>3. \A session, given \in Nat : RunStarts(s, i, session, given) => slot' \in [Slots -> Slot]
  <2>1. i \in Nat
    BY DEF Queued, Items, TypeInv, TypeOK
  <2> QED BY <2>1 DEF RunStarts, Slot, TypeInv, TypeOK
<1>4. sessions \in Seq(PCs) /\ Len(sessions) \in Nat
  BY LenProperties DEF TypeInv, TypeOK
<1>5. InFlight \subseteq Nat /\ Questions \subseteq Nat /\ past \in Past
  BY DEF TypeInv, TypeOK, InFlight, Req, Questions
<1>6. CASE ClaimResume(s, i)
  <2>1. Latest \in Nat
    BY <1>5, <1>6, LatestIsAnswered DEF ClaimResume, Resumes, Answered
  <2> HIDE DEF Latest
  <2>2. slot' \in [Slots -> Slot] /\ past' \in Past
    BY <1>3, <1>4, <1>5, <1>6, <2>1 DEF ClaimResume, Past
  <2> QED BY <1>2, <1>6, <2>2
          DEF Claim, ClaimResume, TypeInv, TypeOK, ClockBound, Questions, Statuses
<1>7. CASE ClaimFresh(s, i)
  <2>1. sessions' \in Seq(PCs)
    BY <1>4, <1>7, EscalationAssumption DEF ClaimFresh
  <2>2. slot' \in [Slots -> Slot]
    <3>1. Len(sessions) + 1 \in Nat /\ None \in Nat
      BY <1>4 DEF None
    <3>2. RunStarts(s, i, Len(sessions) + 1, None)
      BY <1>7 DEF ClaimFresh
    <3> QED BY <1>3, <3>1, <3>2, Zenon
  <2>3. past' \in Past
    BY <1>5, <1>7 DEF ClaimFresh, Past
  <2> QED BY <1>2, <1>7, <2>1, <2>2, <2>3
          DEF Claim, ClaimFresh, TypeInv, TypeOK, ClockBound, Questions, Statuses
<1> QED BY <1>1, <1>6, <1>7

LEMMA RunTyped ==
  ASSUME TypeInv, NEW s \in Slots,
         \/ \E o \in {"pushed", "unpushed", "failed", "question"} : RunEnds(s, o)
         \/ SlotDies(s)
  PROVE  TypeInv'
<1>1. IdleSlot \in Slot
  BY DEF IdleSlot, Slot, None
<1>2. CASE SlotDies(s)
  BY <1>1, <1>2 DEF SlotDies, TypeInv, TypeOK, ClockBound, Questions
<1>3. ASSUME NEW o \in {"pushed", "unpushed", "failed", "question"}, RunEnds(s, o)
      PROVE  TypeInv'
  <2>1. [slot[s] EXCEPT !.pc = "ended", !.outcome = o] \in Slot
    BY Shapes DEF Slot
  <2> QED BY <1>3, <2>1 DEF RunEnds, TypeInv, TypeOK, ClockBound, Questions
<1> QED BY <1>2, <1>3

LEMMA ReportTyped ==
  ASSUME TypeInv, NEW s \in Slots, Report(s)
  PROVE  TypeInv'
<1>1. slot' \in [Slots -> Slot]
  BY DEF Report, TypeInv, TypeOK, IdleSlot, Slot, None
<1>2. CASE UNCHANGED <<status, queue, question, used, past>>
  BY <1>1, <1>2 DEF Report, TypeInv, TypeOK, ClockBound, Questions
<1>3. CASE FinishOk(s)
  <2>1. queue' \in Seq(Row)
    BY <1>3, CloseTyped DEF FinishOk
  <2> QED BY <1>1, <1>3, <2>1
          DEF FinishOk, Report, TypeInv, TypeOK, ClockBound, Questions, Statuses
<1>4. CASE FinishFailed(s)
  BY <1>1, <1>4, ChargeTyped
     DEF FinishFailed, Report, TypeInv, TypeOK, ClockBound, Questions, Statuses
<1>5. CASE RaiseQuestion(s)
  <2>1. queue' \in Seq(Row)
    BY <1>5, CloseTyped DEF RaiseQuestion
  <2> DEFINE q == [asker |-> slot[s].session, at |-> None]
  <2>2. q \in Question /\ q.at = 0 /\ question \in Seq(Question) /\ clock \in Nat
    BY DEF TypeInv, TypeOK, Slot, Question, None
  <2>3. question' = Append(question, q)
    BY <1>5 DEF RaiseQuestion
  <2> HIDE DEF q
  <2>4. /\ question' \in Seq(Question) /\ Len(question') = Len(question) + 1
        /\ \A i \in 1..Len(question) : question'[i] = question[i]
        /\ question'[Len(question) + 1] = q
        /\ Len(question) \in Nat
    BY <2>2, <2>3, AppendProperties, LenProperties
  <2>5. ClockBound'
    BY <2>2, <2>4 DEF Report, TypeInv, ClockBound, Questions
  <2>6. past' \in Past
    <3>1. past' = past \/ past' = [past EXCEPT !.overtaken = @ \cup {Len(question) + 1}]
      BY <1>5 DEF RaiseQuestion
    <3>2. past \in Past /\ Len(question) + 1 \in Nat
      BY <2>4 DEF TypeInv, TypeOK
    <3> QED BY <3>1, <3>2 DEF Past
  <2> QED BY <1>1, <1>5, <2>1, <2>4, <2>5, <2>6
          DEF RaiseQuestion, Report, TypeInv, TypeOK, Statuses
<1> QED BY <1>2, <1>3, <1>4, <1>5 DEF Report

\* The request's record, and the time it holds.
LEMMA ReqBecomesTyped ==
  ASSUME TypeInv, NEW r \in Reqs, NEW rec \in Req, req' = [req EXCEPT ![r] = rec],
         UNCHANGED question, clock' \in {clock, clock + 1}, rec.at \in {req[r].at, 0, clock'},
         rec.pc = "drag" => rec.target \in Drags
  PROVE  req' \in [Reqs -> Req] /\ ClockBound'
<1>1. /\ clock \in Nat /\ req' \in [Reqs -> Req]
      /\ \A q \in Questions : question[q].at \in Nat /\ question[q].at <= clock
      /\ \A p \in Reqs : req[p].at \in Nat /\ req[p].at <= clock
      /\ \A p \in Reqs : req'[p] = IF p = r THEN rec ELSE req[p]
  BY Shapes DEF TypeInv, TypeOK
<1>2. \A q \in Questions : question[q].at <= clock'
  BY <1>1
<1>3. \A p \in Reqs : req'[p].at <= clock'
  BY <1>1
<1>4. \A p \in Reqs : req'[p].pc = "drag" => req'[p].target \in Drags
  BY <1>1 DEF TypeInv, ClockBound
<1> QED BY <1>1, <1>2, <1>3, <1>4 DEF ClockBound, Questions

LEMMA CallsTyped ==
  ASSUME TypeInv, NEW r \in Reqs,
         \/ \E q \in Questions : AnswerQuestion(r, q)
         \/ \E st \in Drags : DragTicket(r, st)
  PROVE  TypeInv'
<1>0. /\ clock \in Nat /\ status \in Statuses /\ past \in Past
      /\ InFlight \subseteq Nat /\ Questions \subseteq Nat
  BY Shapes
<1>a. used' \in [calls : Nat, retries : Nat]
  <2>1. Calls(r)
    BY DEF AnswerQuestion, DragTicket
  <2> QED BY <2>1 DEF Calls, TypeInv, TypeOK
<1>1. ASSUME NEW q \in Questions, AnswerQuestion(r, q) PROVE TypeInv'
  <2> DEFINE rec == Loaded("answer", "none", q, clock + 1)
  <2>1. rec \in Req /\ rec.at = clock + 1 /\ rec.pc # "drag"
    BY <1>0 DEF Req, Loaded, None
  <2> HIDE DEF rec
  <2>2. req' = [req EXCEPT ![r] = rec] /\ clock' = clock + 1 /\ UNCHANGED question
    BY <1>1 DEF AnswerQuestion, rec
  <2>a. UNCHANGED <<status, sessions, queue, question, slot>> /\ clock' \in Nat
    BY <1>0, <1>1 DEF AnswerQuestion
  <2>3. req' \in [Reqs -> Req] /\ ClockBound'
    BY <2>1, <2>2, ReqBecomesTyped
  <2>4. past' \in Past
    BY <1>0, <1>1 DEF AnswerQuestion, Past
  <2> QED BY <1>a, <2>a, <2>3, <2>4 DEF TypeInv, TypeOK
<1>2. ASSUME NEW st \in Drags, DragTicket(r, st) PROVE TypeInv'
  <2> DEFINE rec == Loaded("drag", st, None, None)
  <2>1. rec \in Req /\ rec.at = 0 /\ rec.target \in Drags
    BY <1>0 DEF Req, Loaded, None
  <2> HIDE DEF rec
  <2>2. req' = [req EXCEPT ![r] = rec] /\ question' = question /\ clock' = clock
    BY <1>2 DEF DragTicket, rec
  <2>3. req' \in [Reqs -> Req] /\ ClockBound'
    BY <2>1, <2>2, ReqBecomesTyped
  <2>4. past' \in Past
    BY <1>0, <1>2 DEF DragTicket, Past
  <2> QED BY <1>0, <1>a, <1>2, <2>3, <2>4 DEF DragTicket, TypeInv, TypeOK
<1> QED BY <1>1, <1>2

LEMMA AnswerTyped ==
  ASSUME TypeInv, NEW r \in Reqs, AnswerCommit(r)
  PROVE  TypeInv'
<1>0. /\ req[r] \in Req /\ req[r].at \in Nat /\ req[r].at <= clock /\ clock \in Nat
      /\ question \in [1..Len(question) -> Question] /\ Len(question) \in Nat
  BY LenProperties DEF TypeInv, TypeOK, ClockBound, Req
<1>1. question' \in [1..Len(question) -> Question]
  BY <1>0 DEF AnswerCommit, Question
<1>2. question' \in Seq(Question) /\ Len(question') = Len(question)
  BY <1>0, <1>1
<1>3. /\ req' \in [Reqs -> Req] /\ \A p \in Reqs : req'[p].at \in {req[p].at, 0}
      /\ \A p \in Reqs : req'[p].pc = "drag" => req'[p] = req[p]
  <2>1. [req[r] EXCEPT !.pc = "find"] \in Req /\ IdleReq \in Req
    BY <1>0 DEF Req, IdleReq, None, Statuses
  <2>2. /\ [req[r] EXCEPT !.pc = "find"].at = req[r].at /\ IdleReq.at = 0
        /\ [req[r] EXCEPT !.pc = "find"].pc = "find" /\ IdleReq.pc = "idle"
    BY <1>0 DEF Req, IdleReq, None
  <2> QED BY <2>1, <2>2 DEF AnswerCommit, TypeInv, TypeOK
<1>4. \A q \in 1..Len(question) : question'[q].at \in {question[q].at, req[r].at}
  BY <1>0 DEF AnswerCommit, Question
<1>5. ClockBound'
  BY <1>0, <1>2, <1>3, <1>4 DEF AnswerCommit, TypeInv, ClockBound, Questions
<1>6. past' \in Past
  BY <1>0 DEF AnswerCommit, TypeInv, TypeOK, Past, Req
<1> QED BY <1>2, <1>3, <1>5, <1>6 DEF AnswerCommit, TypeInv, TypeOK

LEMMA RequestTyped ==
  ASSUME TypeInv, NEW r \in Reqs,
         DragCommit(r) \/ EnqueueFind(r) \/ EnqueueCommit(r) \/ RequestDies(r)
  PROVE  TypeInv'
<1>0. /\ req[r] \in Req /\ req[r].at \in Nat /\ req[r].at <= clock /\ clock \in Nat
      /\ IdleReq \in Req /\ IdleReq.at = 0 /\ IdleReq.pc = "idle" /\ status \in Statuses
  BY DEF TypeInv, TypeOK, ClockBound, Req, IdleReq, None, Statuses
<1>a. ASSUME NEW rec \in Req, rec.at \in {req[r].at, 0}, req' = [req EXCEPT ![r] = rec],
             question' = question, clock' = clock, rec.pc # "drag"
      PROVE  req' \in [Reqs -> Req] /\ ClockBound'
  BY <1>a, ReqBecomesTyped
<1>1. CASE DragCommit(r)
  <2> DEFINE st == req[r].target
  <2> DEFINE rec == IF st = "ready" THEN [req[r] EXCEPT !.pc = "find", !.status = st] ELSE IdleReq
  <2>1. rec \in Req /\ rec.at \in {req[r].at, 0} /\ rec.pc # "drag"
    <3>1. st = "ready" => [req[r] EXCEPT !.pc = "find", !.status = st] \in Req
      BY <1>0 DEF Req, Statuses
    <3>2. /\ [req[r] EXCEPT !.pc = "find", !.status = st].at = req[r].at
          /\ [req[r] EXCEPT !.pc = "find", !.status = st].pc = "find"
      BY <1>0 DEF Req
    <3> QED BY <1>0, <3>1, <3>2
  <2>2. req' = [req EXCEPT ![r] = rec] /\ UNCHANGED <<question, clock>>
    BY <1>1 DEF DragCommit
  <2> HIDE DEF rec
  <2>3. req' \in [Reqs -> Req] /\ ClockBound'
    BY <1>a, <2>1, <2>2
  <2>4. status' \in Statuses
    <3>1. st \in Drags
      BY <1>1 DEF DragCommit, TypeInv, ClockBound
    <3> QED BY <1>0, <1>1, <3>1, EscalationAssumption DEF DragCommit, Statuses
  <2> QED BY <1>0, <1>1, <2>3, <2>4 DEF DragCommit, TypeInv, TypeOK
<1>2. CASE EnqueueFind(r)
  <2>1. PICK rec \in Req : rec.at = req[r].at /\ rec.pc # "drag" /\ req' = [req EXCEPT ![r] = rec]
    <3>1. CASE req' = [req EXCEPT ![r].pc = "enqueue"]
      <4>1. [req[r] EXCEPT !.pc = "enqueue"] \in Req
        BY <1>0 DEF Req
      <4> QED BY <1>0, <3>1, <4>1 DEF Req
    <3>2. ASSUME NEW i \in Items, queue[i].status \in {"queued", "claimed"},
                 req' = [req EXCEPT ![r] = [req[r] EXCEPT !.pc = "enqueue", !.seen = i,
                                                          !.seenStatus = queue[i].status]]
          PROVE  \E rec \in Req : /\ rec.at = req[r].at /\ rec.pc # "drag"
                                  /\ req' = [req EXCEPT ![r] = rec]
      <4>1. i \in Nat
        BY DEF Items, TypeInv, TypeOK
      <4>2. [req[r] EXCEPT !.pc = "enqueue", !.seen = i, !.seenStatus = queue[i].status] \in Req
        BY <1>0, <3>2, <4>1 DEF Req
      <4> QED BY <1>0, <3>2, <4>2 DEF Req
    <3> QED BY <1>2, <3>1, <3>2 DEF EnqueueFind, Outstanding
  <2>2. req' \in [Reqs -> Req] /\ ClockBound'
    BY <1>a, <1>2, <2>1 DEF EnqueueFind
  <2> QED BY <1>2, <2>2 DEF EnqueueFind, TypeInv, TypeOK
<1>3. CASE EnqueueCommit(r)
  <2>1. req' \in [Reqs -> Req] /\ ClockBound'
    BY <1>a, <1>0, <1>3 DEF EnqueueCommit
  <2>2. queue' \in Seq(Row)
    <3>1. queue \in Seq(Row) /\ Close(req[r].seen, "failed") \in Seq(Row) /\ Answering(r) \in BOOLEAN
      BY CloseTyped DEF TypeInv, TypeOK, Answering
    <3> QED BY <1>3, <3>1, QueueGrows DEF EnqueueCommit
  <2>3. status' \in Statuses
    BY <1>0, <1>3 DEF EnqueueCommit, Statuses
  <2>4. past' \in Past
    BY <1>0, <1>3 DEF EnqueueCommit, TypeInv, TypeOK, Past, Req
  <2> QED BY <1>3, <2>1, <2>2, <2>3, <2>4 DEF EnqueueCommit, TypeInv, TypeOK
<1>4. CASE RequestDies(r)
  <2>1. req' \in [Reqs -> Req] /\ ClockBound'
    BY <1>a, <1>0, <1>4 DEF RequestDies
  <2>2. past' \in Past
    BY <1>0, <1>4 DEF RequestDies, TypeInv, TypeOK, Past, Req
  <2> QED BY <1>4, <2>1, <2>2 DEF RequestDies, TypeInv, TypeOK
<1> QED BY <1>1, <1>2, <1>3, <1>4

LEMMA NextTyped == TypeInv /\ [Next]_vars => TypeInv'
<1> SUFFICES ASSUME TypeInv, [Next]_vars PROVE TypeInv'
  OBVIOUS
<1>1. ASSUME NEW s \in Slots, SlotStep(s) PROVE TypeInv'
  BY <1>1, ClaimTyped, RunTyped, ReportTyped DEF SlotStep
<1>2. ASSUME NEW r \in Reqs, ReqStep(r) PROVE TypeInv'
  BY <1>2, CallsTyped, AnswerTyped, RequestTyped DEF ReqStep
<1>3. ASSUME NEW i \in Items, Reap(i) PROVE TypeInv'
  BY <1>3, ChargeTyped DEF Reap, TypeInv, TypeOK, ClockBound, Questions, Statuses
<1>4. CASE UNCHANGED vars
  BY <1>4 DEF vars, TypeInv, TypeOK, ClockBound, Questions
<1> QED BY <1>1, <1>2, <1>3, <1>4 DEF Next

LEMMA Typed == Spec => []TypeInv
BY InitTyped, NextTyped, PTL DEF Spec

\* Rows, sessions, questions, slots and requests stay well formed, for any
\* number of slots, PCs and requests.
THEOREM TypeCorrect == Spec => []TypeOK
<1>1. TypeInv => TypeOK
  BY DEF TypeInv
<1> QED BY <1>1, Typed, PTL
-----------------------------------------------------------------------------
(* A blocked ticket has a reason.                                            *)

\* What a request knows: the question it answers was asked; if it re-queues for
\* an answer it had loaded the ticket as blocked, and if for a drag as ready.
ReqKnows ==
  \A r \in Reqs :
    /\ req[r].question <= Len(question)
    /\ req[r].pc = "answer" => req[r].question # None
    /\ req[r].pc = "drag" => req[r].question = None
    /\ req[r].pc \in {"find", "enqueue"} =>
         req[r].status = (IF req[r].question = None THEN "ready" ELSE "blocked")

RowStands == \E i \in Items : queue[i].status \in {"done", "queued", "claimed"}

\* A request that recorded its answer and is about to re-queue the ticket.
Requeuing == \E r \in Reqs : Answering(r) /\ req[r].pc \in {"find", "enqueue"}

\* The last question is open, and whoever is answering it will re-queue the
\* ticket: it had loaded it as blocked.
LastIsOpen ==
  /\ Len(question) > 0 /\ question[Len(question)].at = None
  /\ \A r \in Reqs : req[r].pc = "answer" /\ req[r].question = Len(question) =>
                       req[r].status = "blocked"

Explained ==
  status = "blocked" /\ "blocked" \notin Drags =>
    RowStands \/ Requeuing \/ LastIsOpen \/ past.cut \ {None} # {}

\* A slot at work is on a row there is.
SlotKnows == \A s \in Slots : Live(s) => slot[s].item \in Items

ReasonInv == TypeInv /\ ReqKnows /\ SlotKnows /\ Explained

LEMMA InitReason == Init => ReasonInv
<1> SUFFICES ASSUME Init PROVE ReasonInv
  OBVIOUS
<1>1. ReqKnows
  BY DEF Init, ReqKnows, IdleReq, None
<1>2. Explained
  BY DEF Init, Explained
<1>3. SlotKnows
  BY DEF Init, SlotKnows, Live, IdleSlot
<1> QED BY <1>1, <1>2, <1>3, InitTyped DEF ReasonInv

LEMMA ReqKnowsKept == ReasonInv /\ [Next]_vars => ReqKnows'
<1> SUFFICES ASSUME ReasonInv, [Next]_vars PROVE ReqKnows'
  OBVIOUS
<1>0. /\ TypeInv /\ ReqKnows /\ Len(question) \in Nat /\ req \in [Reqs -> Req]
      /\ Questions = 1..Len(question)
      /\ \A r \in Reqs : req[r] \in Req /\ req[r].question \in Nat
      /\ IdleReq.question = None /\ IdleReq.pc = "idle"
  BY Shapes DEF ReasonInv, TypeInv, TypeOK, Req, IdleReq
<1>a. ASSUME UNCHANGED req, Len(question') \in {Len(question), Len(question) + 1} PROVE ReqKnows'
  BY <1>0, <1>a DEF ReqKnows
<1>b. ASSUME NEW r \in Reqs, NEW rec, req' = [req EXCEPT ![r] = rec], Len(question') = Len(question),
             rec.question <= Len(question),
             rec.pc = "answer" => rec.question # None,
             rec.pc = "drag" => rec.question = None,
             rec.pc \in {"find", "enqueue"} =>
               rec.status = (IF rec.question = None THEN "ready" ELSE "blocked")
      PROVE  ReqKnows'
  <2>1. \A p \in Reqs : req'[p] = IF p = r THEN rec ELSE req[p]
    BY <1>0, <1>b
  <2> QED BY <1>0, <1>b, <2>1 DEF ReqKnows
<1>1. ASSUME NEW s \in Slots, Claim(s) \/ SlotDies(s) PROVE ReqKnows'
  BY <1>0, <1>1, <1>a DEF Claim, SlotDies
<1>2. ASSUME NEW s \in Slots, NEW o, RunEnds(s, o) PROVE ReqKnows'
  BY <1>0, <1>2, <1>a DEF RunEnds
<1>3. ASSUME NEW s \in Slots, Report(s) PROVE ReqKnows'
  <2>1. question' = question \/ \E q \in Question : question' = Append(question, q)
    <3>1. [asker |-> slot[s].session, at |-> None] \in Question
      BY <1>0, Shapes DEF Slot, Question, None
    <3> QED BY <1>3, <3>1 DEF Report, FinishOk, FinishFailed, RaiseQuestion
  <2>2. Len(question') \in {Len(question), Len(question) + 1}
    BY <1>0, <2>1, AppendProperties DEF TypeInv, TypeOK
  <2> QED BY <1>3, <1>a, <2>2 DEF Report
<1>4. ASSUME NEW i \in Items, Reap(i) PROVE ReqKnows'
  BY <1>0, <1>4, <1>a DEF Reap
<1>5. ASSUME NEW r \in Reqs, NEW q \in Questions, AnswerQuestion(r, q) PROVE ReqKnows'
  <2> DEFINE rec == Loaded("answer", "none", q, clock + 1)
  <2>1. rec.pc = "answer" /\ rec.question = q /\ q # None /\ q <= Len(question)
    BY <1>0 DEF Loaded, None
  <2> HIDE DEF rec
  <2> QED BY <1>b, <1>5, <2>1 DEF AnswerQuestion, rec
<1>6. ASSUME NEW r \in Reqs, NEW st \in Drags, DragTicket(r, st) PROVE ReqKnows'
  <2> DEFINE rec == Loaded("drag", st, None, None)
  <2>1. rec.pc = "drag" /\ rec.question = None /\ None <= Len(question)
    BY <1>0 DEF Loaded, None
  <2> HIDE DEF rec
  <2> QED BY <1>b, <1>6, <2>1 DEF DragTicket, rec
<1>c. IdleReq.question <= Len(question)
  BY <1>0 DEF None
<1>7. ASSUME NEW r \in Reqs, AnswerCommit(r) PROVE ReqKnows'
  <2>1. Len(question') = Len(question)
    <3>1. question \in Seq(Question) /\ question' = [question EXCEPT ![req[r].question].at = req[r].at]
      BY <1>0, <1>7 DEF AnswerCommit, TypeInv, TypeOK
    <3> QED BY <3>1
  <2>2. CASE ReadBlocked(r)
    <3> DEFINE rec == [req[r] EXCEPT !.pc = "find"]
    <3>1. rec.pc = "find" /\ rec.question = req[r].question /\ rec.status = "blocked"
      BY <1>0, <2>2 DEF Req, ReadBlocked
    <3>2. req' = [req EXCEPT ![r] = rec] /\ req[r].pc = "answer"
      BY <1>7, <2>2 DEF AnswerCommit
    <3> HIDE DEF rec
    <3> QED BY <1>0, <1>b, <2>1, <3>1, <3>2 DEF ReqKnows
  <2>3. CASE ~ReadBlocked(r)
    <3>1. req' = [req EXCEPT ![r] = IdleReq]
      BY <1>7, <2>3 DEF AnswerCommit
    <3> QED BY <1>0, <1>b, <1>c, <2>1, <3>1
  <2> QED BY <2>2, <2>3
<1>8. ASSUME NEW r \in Reqs, DragCommit(r) PROVE ReqKnows'
  <2>1. question' = question /\ req[r].pc = "drag" /\ req[r].question = None
    BY <1>0, <1>8 DEF DragCommit, ReqKnows
  <2>2. CASE req[r].target = "ready"
    <3> DEFINE rec == [req[r] EXCEPT !.pc = "find", !.status = req[r].target]
    <3>1. rec.pc = "find" /\ rec.question = None /\ rec.status = "ready"
      BY <1>0, <2>1, <2>2 DEF Req
    <3>2. req' = [req EXCEPT ![r] = rec]
      BY <1>8, <2>2 DEF DragCommit
    <3> HIDE DEF rec
    <3> QED BY <1>0, <1>b, <1>c, <2>1, <3>1, <3>2
  <2>3. CASE req[r].target # "ready"
    <3>1. req' = [req EXCEPT ![r] = IdleReq]
      BY <1>8, <2>3 DEF DragCommit
    <3> QED BY <1>0, <1>b, <1>c, <2>1, <3>1
  <2> QED BY <2>2, <2>3
<1>9. ASSUME NEW r \in Reqs, EnqueueFind(r) PROVE ReqKnows'
  <2>1. question' = question /\ req[r].pc = "find"
    BY <1>9 DEF EnqueueFind
  <2>2. PICK rec : /\ rec.pc = "enqueue" /\ rec.question = req[r].question
                   /\ rec.status = req[r].status /\ req' = [req EXCEPT ![r] = rec]
    <3>1. CASE req' = [req EXCEPT ![r].pc = "enqueue"]
      BY <1>0, <3>1 DEF Req
    <3>2. ASSUME NEW i \in Items,
                 req' = [req EXCEPT ![r] = [req[r] EXCEPT !.pc = "enqueue", !.seen = i,
                                                          !.seenStatus = queue[i].status]]
          PROVE  \E rec : /\ rec.pc = "enqueue" /\ rec.question = req[r].question
                          /\ rec.status = req[r].status /\ req' = [req EXCEPT ![r] = rec]
      BY <1>0, <3>2 DEF Req
    <3> QED BY <1>9, <3>1, <3>2 DEF EnqueueFind, Outstanding
  <2> QED BY <1>0, <1>b, <2>1, <2>2 DEF ReqKnows
<1>10. ASSUME NEW r \in Reqs, EnqueueCommit(r) \/ RequestDies(r) PROVE ReqKnows'
  BY <1>0, <1>b, <1>c, <1>10 DEF EnqueueCommit, RequestDies
<1>11. CASE UNCHANGED vars
  BY <1>0, <1>11, <1>a DEF vars
<1> QED
  BY <1>1, <1>2, <1>3, <1>4, <1>5, <1>6, <1>7, <1>8, <1>9, <1>10, <1>11
     DEF Next, SlotStep, ReqStep

\* No step shortens the queue.
LEMMA QueueStays ==
  ASSUME TypeInv, [Next]_vars
  PROVE  /\ Items \subseteq Items'
         /\ \A r \in Reqs : EnqueueCommit(r) /\ req[r].seenStatus # "queued" => RowStands'
<1>0. queue \in Seq(Row) /\ Len(queue) \in Nat /\ Items = 1..Len(queue)
  BY Shapes DEF TypeInv, TypeOK
<1>a. ASSUME NEW Q \in Seq(Row), Len(Q) = Len(queue), NEW resume \in BOOLEAN,
             queue' = Append(Q, QueuedRow(resume))
      PROVE  Items \subseteq Items' /\ RowStands'
  <2>1. /\ Len(queue') = Len(queue) + 1 /\ queue' \in Seq(Row)
        /\ queue'[Len(queue) + 1].status = "queued"
    BY <1>a, QueueGrows
  <2>2. Items' = 1..Len(queue')
    BY <2>1, LenProperties DEF Items
  <2> QED BY <1>0, <2>1, <2>2 DEF RowStands
<1>b. ASSUME NEW i, NEW st \in {"done", "failed", "blocked"}, queue' = Close(i, st)
      PROVE  Items \subseteq Items'
  <2>1. Len(queue') = Len(queue) /\ queue' \in Seq(Row)
    BY <1>b, CloseTyped
  <2>2. Items' = 1..Len(queue')
    BY <2>1, LenProperties DEF Items
  <2> QED BY <1>0, <2>1, <2>2
<1>c. ASSUME queue' = queue PROVE Items \subseteq Items'
  BY <1>c DEF Items
<1>d. ASSUME NEW i, ChargeFailure(i) PROVE Items \subseteq Items'
  BY <1>d, <1>a, <1>b, CloseTyped DEF ChargeFailure
<1>1. ASSUME NEW s \in Slots, Claim(s) PROVE Items \subseteq Items'
  BY <1>1 DEF Claim, ClaimedBy, Items
<1>2. ASSUME NEW s \in Slots, Report(s) PROVE Items \subseteq Items'
  BY <1>2, <1>b, <1>c, <1>d DEF Report, FinishOk, FinishFailed, RaiseQuestion
<1>3. ASSUME NEW i, Reap(i) PROVE Items \subseteq Items'
  BY <1>3, <1>d DEF Reap
<1>4. ASSUME NEW r \in Reqs, EnqueueCommit(r)
      PROVE  Items \subseteq Items' /\ (req[r].seenStatus # "queued" => RowStands')
  <2>1. CASE req[r].seenStatus = "queued"
    BY <1>4, <1>c, <2>1 DEF EnqueueCommit
  <2>2. CASE req[r].seenStatus # "queued"
    <3>1. PICK Q \in {queue, Close(req[r].seen, "failed")} :
            queue' = Append(Q, QueuedRow(Answering(r)))
      BY <1>4, <2>2 DEF EnqueueCommit
    <3>2. Q \in Seq(Row) /\ Len(Q) = Len(queue)
      BY <1>0, CloseTyped
    <3>3. Answering(r) \in BOOLEAN
      BY DEF Answering
    <3> QED BY <1>a, <3>1, <3>2, <3>3
  <2> QED BY <2>1, <2>2
<1>5. CASE queue' = queue
  BY <1>4, <1>5, <1>c
<1> QED
  BY <1>1, <1>2, <1>3, <1>4, <1>5
     DEF Next, SlotStep, ReqStep, vars, RunEnds, SlotDies, AnswerQuestion, DragTicket, AnswerCommit,
         DragCommit, EnqueueFind, RequestDies

LEMMA SlotKnowsKept == ReasonInv /\ [Next]_vars => SlotKnows'
<1> SUFFICES ASSUME ReasonInv, [Next]_vars PROVE SlotKnows'
  OBVIOUS
<1>0. SlotKnows /\ Items \subseteq Items' /\ slot \in [Slots -> Slot] /\ IdleSlot.pc = "idle"
  BY QueueStays DEF ReasonInv, TypeInv, TypeOK, IdleSlot
<1>1. CASE slot' = slot
  BY <1>0, <1>1 DEF SlotKnows, Live
<1>2. ASSUME NEW s \in Slots, slot' = [slot EXCEPT ![s] = IdleSlot] PROVE SlotKnows'
  BY <1>0, <1>2 DEF SlotKnows, Live
<1>3. ASSUME NEW s \in Slots, NEW o, RunEnds(s, o) PROVE SlotKnows'
  BY <1>0, <1>3 DEF RunEnds, SlotKnows, Live, Slot
<1>4. ASSUME NEW s \in Slots, Claim(s) PROVE SlotKnows'
  <2>1. ASSUME NEW i \in Queued, NEW session, NEW given, RunStarts(s, i, session, given)
        PROVE  SlotKnows'
    BY <1>0, <2>1 DEF RunStarts, SlotKnows, Live, Queued
  <2> QED BY <1>4, <2>1 DEF Claim, ClaimResume, ClaimFresh
<1> QED
  BY <1>1, <1>2, <1>3, <1>4
     DEF Next, SlotStep, ReqStep, vars, Report, SlotDies, Reap, AnswerQuestion, DragTicket,
         AnswerCommit, DragCommit, EnqueueFind, EnqueueCommit, RequestDies

\* Whatever a request does, those that re-queue for an answer go on.
LEMMA OthersRequeue ==
  ASSUME TypeInv, NEW r \in Reqs, NEW rec, req' = [req EXCEPT ![r] = rec], Requeuing,
         ~(Answering(r) /\ req[r].pc \in {"find", "enqueue"})
  PROVE  Requeuing'
BY DEF TypeInv, TypeOK, Requeuing, Answering

LEMMA ExplainedKept == ReasonInv /\ [Next]_vars => Explained'
<1> SUFFICES ASSUME ReasonInv, [Next]_vars, status' = "blocked", "blocked" \notin Drags
             PROVE  RowStands' \/ Requeuing' \/ LastIsOpen' \/ past'.cut \ {None} # {}
  BY DEF Explained
<1>0. /\ TypeInv /\ ReqKnows /\ SlotKnows /\ Len(question) \in Nat /\ req \in [Reqs -> Req]
      /\ past \in Past
      /\ status = "blocked" => RowStands \/ Requeuing \/ LastIsOpen \/ past.cut \ {None} # {}
  BY Shapes DEF ReasonInv, TypeInv, TypeOK, Explained
<1>a. CASE UNCHANGED <<status, queue, question, req>> /\ past'.cut = past.cut
  BY <1>0, <1>a DEF RowStands, Items, Requeuing, Answering, LastIsOpen
<1> DEFINE Goal == RowStands' \/ Requeuing' \/ LastIsOpen' \/ past'.cut \ {None} # {}
<1>1. ASSUME NEW s \in Slots, Report(s) PROVE Goal
  <2>1. CASE UNCHANGED <<status, queue, question, used, past>>
    BY <1>1, <1>a, <2>1 DEF Report
  <2>2. CASE FinishOk(s)
    <3>1. queue' = Close(slot[s].item, "done") /\ slot[s].item \in Items
      BY <1>0, <1>1, <2>2 DEF FinishOk, Report, SlotKnows, Live
    <3>2. slot[s].item \in 1..Len(queue)
      BY <1>0, <3>1, Shapes
    <3>3. queue'[slot[s].item].status = "done" /\ slot[s].item \in Items'
      BY <1>0, <3>1, <3>2, CloseTyped, QueueStays
    <3> QED BY <3>3 DEF RowStands
  <2>3. CASE FinishFailed(s)
    BY <1>0, <2>3, ChargeTyped DEF FinishFailed
  <2>4. CASE RaiseQuestion(s)
    <3> DEFINE q == [asker |-> slot[s].session, at |-> None]
    <3>1. q \in Question /\ q.at = None
      BY <1>0, Shapes DEF Slot, Question, None
    <3>2. question' = Append(question, q) /\ req' = req
      BY <1>1, <2>4 DEF RaiseQuestion, Report
    <3> HIDE DEF q
    <3>3. Len(question') = Len(question) + 1 /\ question'[Len(question) + 1] = q
      BY <1>0, <3>1, <3>2, AppendProperties DEF TypeInv, TypeOK
    <3>4. \A r \in Reqs : req'[r].question # Len(question')
      BY <1>0, <3>2, <3>3 DEF ReqKnows, Req
    <3> QED BY <1>0, <3>1, <3>3, <3>4 DEF LastIsOpen
  <2> QED BY <1>1, <2>1, <2>2, <2>3, <2>4 DEF Report
<1>2. ASSUME NEW r \in Reqs, NEW q \in Questions, AnswerQuestion(r, q) PROVE Goal
  <2> DEFINE rec == Loaded("answer", "none", q, clock + 1)
  <2>1. /\ req' = [req EXCEPT ![r] = rec] /\ UNCHANGED <<status, queue, question>>
        /\ req[r].pc = "idle" /\ past'.cut = past.cut
    BY <1>0, <1>2 DEF AnswerQuestion, Calls, Past
  <2>2. rec.status = status
    BY DEF Loaded
  <2> HIDE DEF rec
  <2>3. Requeuing => Requeuing'
    BY <1>0, <2>1, OthersRequeue
  <2>4. LastIsOpen => LastIsOpen'
    BY <1>0, <2>1, <2>2 DEF LastIsOpen
  <2> QED BY <1>0, <2>1, <2>3, <2>4 DEF RowStands, Items
<1>3. ASSUME NEW r \in Reqs, NEW st \in Drags, DragTicket(r, st) PROVE Goal
  <2> DEFINE rec == Loaded("drag", st, None, None)
  <2>1. /\ req' = [req EXCEPT ![r] = rec] /\ UNCHANGED <<status, queue, question>>
        /\ req[r].pc = "idle" /\ past'.cut = past.cut
    BY <1>0, <1>3 DEF DragTicket, Calls, Past
  <2>2. rec.pc = "drag"
    BY DEF Loaded
  <2> HIDE DEF rec
  <2>3. Requeuing => Requeuing'
    BY <1>0, <2>1, OthersRequeue
  <2>4. LastIsOpen => LastIsOpen'
    BY <1>0, <2>1, <2>2 DEF LastIsOpen
  <2> QED BY <1>0, <2>1, <2>3, <2>4 DEF RowStands, Items
<1>4. ASSUME NEW r \in Reqs, AnswerCommit(r) PROVE Goal
  <2> DEFINE q == req[r].question
  <2>1. /\ req[r].pc = "answer" /\ UNCHANGED <<status, queue>> /\ q # None
        /\ question' = [question EXCEPT ![q].at = req[r].at] /\ past'.cut = past.cut
    BY <1>0, <1>4 DEF AnswerCommit, ReqKnows, Past
  <2>2. PICK rec : /\ req' = [req EXCEPT ![r] = rec] /\ rec.pc # "answer"
                   /\ ReadBlocked(r) => rec.pc = "find" /\ rec.question = q
    <3>1. [req[r] EXCEPT !.pc = "find"].pc = "find" /\ [req[r] EXCEPT !.pc = "find"].question = q
      BY <1>0 DEF Req
    <3>2. IdleReq.pc = "idle"
      BY DEF IdleReq
    <3> QED BY <1>4, <3>1, <3>2 DEF AnswerCommit
  <2>3. \A p \in Reqs : req'[p] = IF p = r THEN rec ELSE req[p]
    BY <1>0, <2>2
  <2>4. Requeuing => Requeuing'
    BY <1>0, <2>1, <2>2, OthersRequeue
  <2>5. CASE LastIsOpen /\ q = Len(question)
    <3>1. ReadBlocked(r)
      BY <2>1, <2>5 DEF LastIsOpen, ReadBlocked
    <3> QED BY <2>1, <2>2, <2>3, <3>1 DEF Requeuing, Answering
  <2>6. CASE LastIsOpen /\ q # Len(question)
    <3>1. question \in [1..Len(question) -> Question] /\ Len(question) \in 1..Len(question)
      BY <1>0, <2>6, LenProperties DEF TypeInv, TypeOK, LastIsOpen
    <3>2. question'[Len(question)] = question[Len(question)]
      BY <2>1, <2>6, <3>1
    <3>3. Len(question') = Len(question)
      <4>1. question \in Seq(Question)
        BY <1>0 DEF TypeInv, TypeOK
      <4> QED BY <2>1, <4>1
    <3> QED BY <1>0, <2>2, <2>3, <2>6, <3>2, <3>3 DEF LastIsOpen
  <2> QED BY <1>0, <2>1, <2>4, <2>5, <2>6 DEF RowStands, Items
<1>5. ASSUME NEW r \in Reqs, DragCommit(r) PROVE Goal
  <2>1. /\ req[r].pc = "drag" /\ UNCHANGED <<queue, question, past>> /\ req[r].question = None
        /\ req[r].target \in Drags
    BY <1>0, <1>5 DEF DragCommit, ReqKnows, TypeInv, ClockBound
  <2>2. status = "blocked"
    BY <1>5, <2>1 DEF DragCommit
  <2>3. PICK rec : req' = [req EXCEPT ![r] = rec] /\ rec.pc # "answer"
    <3>1. [req[r] EXCEPT !.pc = "find", !.status = req[r].target].pc = "find"
      BY <1>0 DEF Req
    <3>2. IdleReq.pc = "idle"
      BY DEF IdleReq
    <3> QED BY <1>5, <3>1, <3>2 DEF DragCommit
  <2>4. Requeuing => Requeuing'
    BY <1>0, <2>1, <2>3, OthersRequeue
  <2>5. LastIsOpen => LastIsOpen'
    BY <1>0, <2>1, <2>3 DEF LastIsOpen
  <2> QED BY <1>0, <2>1, <2>2, <2>4, <2>5 DEF RowStands, Items
<1>6. ASSUME NEW r \in Reqs, EnqueueFind(r) PROVE Goal
  <2>1. req[r].pc = "find" /\ UNCHANGED <<status, queue, question, past>>
    BY <1>6 DEF EnqueueFind
  <2>2. PICK rec : /\ rec.pc = "enqueue" /\ rec.question = req[r].question
                   /\ req' = [req EXCEPT ![r] = rec]
    <3>1. CASE req' = [req EXCEPT ![r].pc = "enqueue"]
      BY <1>0, <3>1 DEF Req
    <3>2. ASSUME NEW i \in Items,
                 req' = [req EXCEPT ![r] = [req[r] EXCEPT !.pc = "enqueue", !.seen = i,
                                                          !.seenStatus = queue[i].status]]
          PROVE  \E rec : /\ rec.pc = "enqueue" /\ rec.question = req[r].question
                          /\ req' = [req EXCEPT ![r] = rec]
      BY <1>0, <3>2 DEF Req
    <3> QED BY <1>6, <3>1, <3>2 DEF EnqueueFind, Outstanding
  <2>3. \A p \in Reqs : req'[p] = IF p = r THEN rec ELSE req[p]
    BY <1>0, <2>2
  <2>4. Requeuing => Requeuing'
    BY <2>2, <2>3 DEF Requeuing, Answering
  <2>5. LastIsOpen => LastIsOpen'
    BY <2>1, <2>2, <2>3 DEF LastIsOpen
  <2> QED BY <1>0, <2>1, <2>4, <2>5 DEF RowStands, Items
<1>7. ASSUME NEW r \in Reqs, EnqueueCommit(r) PROVE Goal
  <2>1. CASE req[r].seenStatus # "queued"
    BY <1>0, <1>7, <2>1, QueueStays
  <2>2. CASE req[r].seenStatus = "queued"
    <3>1. /\ req' = [req EXCEPT ![r] = IdleReq] /\ UNCHANGED <<queue, question>>
          /\ req[r].pc = "enqueue" /\ past'.cut = past.cut
      BY <1>0, <1>7, <2>2 DEF EnqueueCommit, Past
    <3>2. status = "blocked" /\ req[r].status = "ready"
      BY <1>7 DEF EnqueueCommit
    <3>3. ~Answering(r)
      BY <1>0, <3>1, <3>2 DEF ReqKnows, Answering
    <3>4. Requeuing => Requeuing'
      BY <1>0, <3>1, <3>3, OthersRequeue
    <3>5. LastIsOpen => LastIsOpen'
      BY <1>0, <3>1 DEF LastIsOpen, IdleReq
    <3> QED BY <1>0, <3>1, <3>2, <3>4, <3>5 DEF RowStands, Items
  <2> QED BY <2>1, <2>2
<1>8. ASSUME NEW r \in Reqs, RequestDies(r) PROVE Goal
  <2>1. /\ req' = [req EXCEPT ![r] = IdleReq] /\ UNCHANGED <<status, queue, question>>
        /\ past'.cut = past.cut \cup {req[r].question}
    BY <1>0, <1>8 DEF RequestDies, Past
  <2>2. CASE Answering(r)
    BY <2>1, <2>2 DEF Answering
  <2>3. CASE ~Answering(r)
    <3>1. Requeuing => Requeuing'
      BY <1>0, <2>1, <2>3, OthersRequeue
    <3>2. LastIsOpen => LastIsOpen'
      BY <1>0, <2>1 DEF LastIsOpen, IdleReq
    <3> QED BY <1>0, <2>1, <3>1, <3>2 DEF RowStands, Items
  <2> QED BY <2>2, <2>3
<1>9. ASSUME NEW s \in Slots, Claim(s) PROVE FALSE
  BY <1>9 DEF Claim
<1>10. ASSUME NEW i, Reap(i) PROVE FALSE
  BY <1>0, <1>10, ChargeTyped DEF Reap
<1>11. ASSUME NEW s \in Slots, SlotDies(s) \/ \E o : RunEnds(s, o) PROVE Goal
  BY <1>11, <1>a DEF SlotDies, RunEnds
<1>12. CASE UNCHANGED vars
  BY <1>12, <1>a DEF vars
<1> QED
  BY <1>1, <1>2, <1>3, <1>4, <1>5, <1>6, <1>7, <1>8, <1>9, <1>10, <1>11, <1>12
     DEF Next, SlotStep, ReqStep

LEMMA NextReason == ReasonInv /\ [Next]_vars => ReasonInv'
BY NextTyped, ReqKnowsKept, SlotKnowsKept, ExplainedKept DEF ReasonInv

\* A ticket that nobody dragged to blocked is blocked for a reason a human can
\* act on, or because the server died between an answer and its re-queue; for any
\* number of slots, PCs, requests, calls and retries.
THEOREM BlockedIsExplained == Spec => []BlockedHasReason
<1>1. ReasonInv => BlockedHasReason
  <2> SUFFICES ASSUME ReasonInv, status = "blocked", "blocked" \notin Drags
               PROVE  Reason \/ past.cut \ {None} # {}
    BY DEF BlockedHasReason
  <2>1. RowStands => Reason
    BY DEF RowStands, Reason
  <2>2. Requeuing => Reason
    BY DEF Requeuing, Answering, Reason, InFlight
  <2>3. LastIsOpen => Reason
    BY Shapes DEF ReasonInv, LastIsOpen, Reason
  <2> QED BY <2>1, <2>2, <2>3 DEF ReasonInv, Explained
<1>2. Spec => []ReasonInv
  BY InitReason, NextReason, PTL DEF Spec
<1> QED BY <1>1, <1>2, PTL
-----------------------------------------------------------------------------
(* Answers reach the session that asked, and a session has one agent.       *)

\* The queued rows of a queue that resume.
ResumeIn(Q) == {i \in 1..Len(Q) : Q[i].status = "queued" /\ Q[i].resume}
ResumeRows  == ResumeIn(queue)

\* The answers that claim_next may take for the latest.
Newest == {q \in Answered : \A p \in Answered : question[p].at <= question[q].at}

\* The questions whose answer has nowhere been, and can only reach their asker.
Clean == Questions \ (past.handed \cup Loose)

SessionsKnown == \A s \in Slots : Live(s) => slot[s].session <= Len(sessions)

GivenWasHanded ==
  /\ past.handed \subseteq Answered
  /\ \A s \in Slots : slot[s].given # None => slot[s].given \in past.handed

\* A question that was not handed over and that an older session asked has been
\* overtaken.
Behind == \A q \in Questions \ past.handed :
            question[q].asker # Len(sessions) => q \in past.overtaken

\* The session that waits for an answer has no agent and asked one question.
Alone == Len(sessions) \notin past.mixed =>
           \A q \in Clean : /\ \A s \in Slots : Live(s) => slot[s].session # Len(sessions)
                            /\ Clean \subseteq {q}

\* An answer in flight: whatever overlaps it, was given it, or is no older than
\* it, was raced.
NoOlder(q, at) == \A p \in Answered \ {q} : question[p].at >= at => p \in past.raced
AnswersRace ==
  \A r \in Reqs : Answering(r) =>
    LET q == req[r].question
    IN  /\ req[r].pc \in {"answer", "find", "enqueue"} /\ q \in Questions
        /\ (\E p \in Reqs \ {r} : req[p].pc # "idle") => q \in past.raced
        /\ q \in past.handed => q \in past.raced
        /\ req[r].pc = "answer" => req[r].at > 0 /\ NoOlder(q, req[r].at)
        /\ req[r].pc # "answer" => q \in Answered /\ NoOlder(q, question[q].at)

\* A row that resumes finds an answer that no run was handed, and a second one
\* finds one that was raced.
RowsFindAnswers ==
  /\ ResumeRows # {} => \A q \in Newest : q \in past.handed => q \in Loose
  /\ \A i, j \in ResumeRows : i # j => Newest \subseteq Loose

SlotsInv == /\ SessionsKnown /\ GivenWasHanded /\ Behind /\ Alone
            /\ StrayAnswersWereOvertaken /\ OneAgentPerSession
SessionInv == ReasonInv /\ SlotsInv /\ AnswersRace /\ RowsFindAnswers

LEMMA InitSession == Init => SessionInv
<1> SUFFICES ASSUME Init PROVE SessionInv
  OBVIOUS
<1>1. /\ Questions = {} /\ Answered = {} /\ Clean = {} /\ past.handed = {}
      /\ \A s \in Slots : slot[s].given = None /\ ~Live(s)
      /\ \A r \in Reqs : ~Answering(r)
  BY DEF Init, Questions, Answered, Clean, IdleSlot, IdleReq, Live, Answering
<1>2. ResumeRows = {}
  BY DEF Init, ResumeRows, ResumeIn, QueuedRow
<1>3. SlotsInv
  BY <1>1 DEF SlotsInv, SessionsKnown, GivenWasHanded, Behind, Alone,
              StrayAnswersWereOvertaken, OneAgentPerSession
<1>4. AnswersRace
  BY <1>1 DEF AnswersRace
<1>5. RowsFindAnswers
  BY <1>2 DEF RowsFindAnswers
<1> QED BY <1>3, <1>4, <1>5, InitReason DEF SessionInv

\* What the steps do to the rows that resume: only an answer adds one.
LEMMA RowsOf ==
  ASSUME TypeInv
  PROVE  /\ \A i : \A st \in {"done", "failed", "blocked"} :
              ResumeIn(Close(i, st)) \subseteq ResumeRows
         /\ \A Q \in Seq(Row) :
              /\ ResumeIn(Append(Q, QueuedRow(FALSE))) \subseteq ResumeIn(Q)
              /\ ResumeIn(Append(Q, QueuedRow(TRUE))) \subseteq ResumeIn(Q) \cup {Len(Q) + 1}
         /\ \A s \in Slots, i \in Items :
              ResumeIn(ClaimedBy(s, i)) \subseteq ResumeRows \ {i}
<1>0. queue \in [1..Len(queue) -> Row] /\ Len(queue) \in Nat /\ queue \in Seq(Row)
  BY LenProperties DEF TypeInv, TypeOK
<1>1. ASSUME NEW i, NEW st \in {"done", "failed", "blocked"}
      PROVE  ResumeIn(Close(i, st)) \subseteq ResumeRows
  <2>1. \A j \in 1..Len(queue) :
          Close(i, st)[j].resume = queue[j].resume
    BY <1>0 DEF Close, Row
  <2> QED BY <1>0, <2>1, CloseTyped DEF ResumeIn, ResumeRows
<1>2. ASSUME NEW Q \in Seq(Row), NEW resume \in BOOLEAN
      PROVE  ResumeIn(Append(Q, QueuedRow(resume))) \subseteq
               ResumeIn(Q) \cup (IF resume THEN {Len(Q) + 1} ELSE {})
  <2> DEFINE rec == QueuedRow(resume)
  <2>1. rec \in Row /\ rec.resume = resume
    BY DEF QueuedRow, Row, None
  <2> HIDE DEF rec
  <2>2. /\ Len(Append(Q, rec)) = Len(Q) + 1 /\ Append(Q, rec)[Len(Q) + 1] = rec
        /\ \A i \in 1..Len(Q) : Append(Q, rec)[i] = Q[i]
        /\ Len(Q) \in Nat
    BY <2>1, AppendProperties, LenProperties
  <2>3. ResumeIn(Append(Q, rec)) \subseteq ResumeIn(Q) \cup (IF resume THEN {Len(Q) + 1} ELSE {})
    BY <2>1, <2>2 DEF ResumeIn
  <2> QED BY <2>3 DEF rec
<1>3. ASSUME NEW s \in Slots, NEW i \in Items
      PROVE  ResumeIn(ClaimedBy(s, i)) \subseteq ResumeRows \ {i}
  <2>1. /\ Len(ClaimedBy(s, i)) = Len(queue)
        /\ \A j \in 1..Len(queue) : j # i => ClaimedBy(s, i)[j] = queue[j]
        /\ ClaimedBy(s, i)[i].status = "claimed"
    <3>1. i \in 1..Len(queue) /\ queue[i] \in Row
      BY <1>0, Shapes
    <3>2. ClaimedBy(s, i) = [queue EXCEPT ![i] = [queue[i] EXCEPT !.status = "claimed", !.by = s]]
      BY DEF ClaimedBy
    <3>3. [queue[i] EXCEPT !.status = "claimed", !.by = s].status = "claimed"
      BY <3>1 DEF Row
    <3>4. DOMAIN ClaimedBy(s, i) = 1..Len(queue)
      BY <1>0, <3>2
    <3> QED BY <1>0, <3>1, <3>2, <3>3, <3>4
  <2> QED BY <1>0, <2>1 DEF ResumeIn, ResumeRows
<1>4. ASSUME NEW Q \in Seq(Row)
      PROVE  /\ ResumeIn(Append(Q, QueuedRow(FALSE))) \subseteq ResumeIn(Q)
             /\ ResumeIn(Append(Q, QueuedRow(TRUE))) \subseteq ResumeIn(Q) \cup {Len(Q) + 1}
  BY <1>2
<1> QED BY <1>1, <1>3, <1>4

RowsShrink == ResumeRows' \subseteq ResumeRows
\* Nobody starts a run.
SlotsQuiet ==
  \A o \in Slots :
    /\ Live(o)' => Live(o) /\ slot'[o].session = slot[o].session
    /\ slot'[o].given # None => /\ slot'[o].given = slot[o].given
                                /\ slot'[o].session = slot[o].session

\* What a step may do to questions, slots and history: a run ends, asks, starts
\* in the ticket's session, or starts in one of its own.
Quiet == SlotsQuiet /\ RowsShrink /\ UNCHANGED <<sessions, question, req, past>>

Asks(s, n) ==
  /\ SlotsQuiet /\ Live(s) /\ ~Live(s)' /\ RowsShrink /\ UNCHANGED <<sessions, req>>
  /\ n \notin Questions /\ Questions' = Questions \cup {n}
  /\ \A q \in Questions : question'[q] = question[q]
  /\ question'[n].asker = slot[s].session /\ question'[n].at = None
  /\ past'.handed = past.handed /\ past'.raced = past.raced /\ past'.mixed = past.mixed
  /\ past.overtaken \subseteq past'.overtaken
  /\ slot[s].session # Len(sessions) => n \in past'.overtaken

RunsIn(s, session, given) ==
  \A o \in Slots : /\ o # s => slot'[o] = slot[o]
                   /\ o = s => slot'[o].session = session /\ slot'[o].given = given

Hands(s, i, q) ==
  /\ RunsIn(s, Len(sessions), q) /\ q \in Newest /\ i \in ResumeRows
  /\ ResumeRows' \subseteq ResumeRows \ {i}
  /\ UNCHANGED <<sessions, question, req>>
  /\ past'.handed = past.handed \cup {q} /\ past'.overtaken = past.overtaken
  /\ past'.raced = past.raced \cup InFlight
  /\ past'.mixed = IF q \in Loose \cup InFlight THEN past.mixed \cup {Len(sessions)}
                   ELSE past.mixed

Starts(s) ==
  /\ RunsIn(s, Len(sessions) + 1, None) /\ RowsShrink
  /\ Len(sessions') = Len(sessions) + 1 /\ UNCHANGED <<question, req>>
  /\ past'.handed = past.handed /\ past'.mixed = past.mixed
  /\ past'.overtaken = past.overtaken \cup (Questions \ past.handed)
  /\ past'.raced = past.raced \cup InFlight

\* The server's steps.
Beside ==
  /\ UNCHANGED <<sessions, slot>> /\ Questions' = Questions /\ Answered \subseteq Answered'
  /\ \A q \in Questions : question'[q].asker = question[q].asker
  /\ past'.handed = past.handed /\ past'.mixed = past.mixed
  /\ past'.overtaken = past.overtaken /\ past.raced \subseteq past'.raced

LEMMA CleanIsLatest ==
  ASSUME SlotsInv, RowsFindAnswers, ResumeRows # {}, NEW q \in Newest, q \notin Loose
  PROVE  q \in Clean /\ question[q].asker = Len(sessions)
<1>1. q \notin past.handed /\ q \in Questions
  BY DEF RowsFindAnswers, Newest, Answered
<1>2. q \notin past.overtaken
  BY DEF Loose
<1> QED BY <1>1, <1>2 DEF SlotsInv, Behind, Clean

LEMMA QuietKeeps == SlotsInv /\ Quiet => SlotsInv'
<1> SUFFICES ASSUME SlotsInv, Quiet PROVE SlotsInv'
  OBVIOUS
<1>0. /\ SlotsQuiet /\ Questions' = Questions /\ Answered' = Answered /\ Clean' = Clean
      /\ Loose' = Loose /\ sessions' = sessions /\ question' = question /\ past' = past
  BY DEF Quiet, Questions, Answered, Clean, Loose
<1>1. SessionsKnown'
  BY <1>0 DEF SlotsInv, SessionsKnown, SlotsQuiet
<1>2. GivenWasHanded'
  BY <1>0 DEF SlotsInv, GivenWasHanded, SlotsQuiet
<1>3. Behind'
  BY <1>0 DEF SlotsInv, Behind
<1>4. Alone'
  BY <1>0 DEF SlotsInv, Alone, SlotsQuiet
<1>5. StrayAnswersWereOvertaken'
  BY <1>0 DEF SlotsInv, StrayAnswersWereOvertaken, SlotsQuiet
<1>6. OneAgentPerSession'
  BY <1>0 DEF SlotsInv, OneAgentPerSession, SlotsQuiet
<1> QED BY <1>1, <1>2, <1>3, <1>4, <1>5, <1>6 DEF SlotsInv

LEMMA BesideKeeps == SlotsInv /\ Beside => SlotsInv'
<1> SUFFICES ASSUME SlotsInv, Beside PROVE SlotsInv'
  OBVIOUS
<1>0. /\ slot' = slot /\ Questions' = Questions /\ Answered \subseteq Answered'
      /\ sessions' = sessions
      /\ \A q \in Questions : question'[q].asker = question[q].asker
      /\ past'.handed = past.handed /\ past'.mixed = past.mixed
      /\ past'.overtaken = past.overtaken /\ past.raced \subseteq past'.raced
      /\ Loose \subseteq Loose' /\ Clean' \subseteq Clean
      /\ \A s \in Slots : Live(s)' = Live(s)
  BY DEF Beside, Clean, Loose, Live
<1>1. SessionsKnown'
  BY <1>0 DEF SlotsInv, SessionsKnown
<1>2. GivenWasHanded'
  BY <1>0 DEF SlotsInv, GivenWasHanded
<1>3. Behind'
  BY <1>0 DEF SlotsInv, Behind
<1>4. Alone'
  BY <1>0 DEF SlotsInv, Alone
<1>5. StrayAnswersWereOvertaken'
  BY <1>0 DEF SlotsInv, StrayAnswersWereOvertaken, GivenWasHanded, Answered
<1>6. OneAgentPerSession'
  BY <1>0 DEF SlotsInv, OneAgentPerSession
<1> QED BY <1>1, <1>2, <1>3, <1>4, <1>5, <1>6 DEF SlotsInv

LEMMA AsksKeeps == ASSUME NEW s \in Slots, NEW n, SlotsInv, Asks(s, n) PROVE SlotsInv'
<1>0. /\ SlotsQuiet /\ Live(s) /\ ~Live(s)' /\ sessions' = sessions
      /\ n \notin Questions /\ Questions' = Questions \cup {n}
      /\ \A q \in Questions : question'[q] = question[q]
      /\ question'[n].asker = slot[s].session
      /\ past'.handed = past.handed /\ past'.raced = past.raced /\ past'.mixed = past.mixed
      /\ past.overtaken \subseteq past'.overtaken
      /\ slot[s].session # Len(sessions) => n \in past'.overtaken
      /\ Loose \subseteq Loose' /\ Answered' = Answered
  BY DEF Asks, Loose, Answered
<1>a. Clean' \subseteq Clean \cup {n} /\ (slot[s].session # Len(sessions) => Clean' \subseteq Clean)
  BY <1>0 DEF Clean, Loose
<1>1. SessionsKnown'
  BY <1>0 DEF SlotsInv, SessionsKnown, SlotsQuiet
<1>2. GivenWasHanded'
  BY <1>0 DEF SlotsInv, GivenWasHanded, SlotsQuiet
<1>3. Behind'
  BY <1>0 DEF SlotsInv, Behind
<1>4. Alone'
  <2>1. CASE slot[s].session # Len(sessions)
    BY <1>0, <1>a, <2>1 DEF SlotsInv, Alone, SlotsQuiet
  <2>2. CASE slot[s].session = Len(sessions)
    <3> SUFFICES ASSUME Len(sessions) \notin past.mixed, NEW q \in Clean'
                 PROVE  /\ \A o \in Slots : Live(o)' => slot'[o].session # Len(sessions)
                        /\ Clean' \subseteq {q}
      BY <1>0 DEF Alone
    <3>1. Clean = {}
      BY <1>0, <2>2 DEF SlotsInv, Alone
    <3>2. \A o \in Slots : Live(o)' => slot'[o].session # Len(sessions)
      BY <1>0, <2>2 DEF SlotsInv, OneAgentPerSession, SlotsQuiet
    <3> QED BY <1>a, <3>1, <3>2
  <2> QED BY <2>1, <2>2
<1>5. StrayAnswersWereOvertaken'
  BY <1>0 DEF SlotsInv, StrayAnswersWereOvertaken, SlotsQuiet, GivenWasHanded, Answered
<1>6. OneAgentPerSession'
  BY <1>0 DEF SlotsInv, OneAgentPerSession, SlotsQuiet
<1> QED BY <1>1, <1>2, <1>3, <1>4, <1>5, <1>6 DEF SlotsInv

LEMMA HandsKeeps ==
  ASSUME NEW s \in Slots, NEW i, NEW q, SlotsInv, RowsFindAnswers, Hands(s, i, q)
  PROVE  SlotsInv'
<1>0. /\ RunsIn(s, Len(sessions), q) /\ q \in Newest /\ ResumeRows # {}
      /\ q \in Answered /\ q \in Questions
      /\ sessions' = sessions /\ question' = question
      /\ past'.handed = past.handed \cup {q} /\ past'.overtaken = past.overtaken
      /\ past'.raced = past.raced \cup InFlight
      /\ past'.mixed = IF q \in Loose \cup InFlight THEN past.mixed \cup {Len(sessions)}
                       ELSE past.mixed
      /\ Loose' = Loose \cup InFlight /\ Questions' = Questions /\ Answered' = Answered
  BY DEF Hands, Newest, Answered, Loose, Questions
<1>a. Clean' \subseteq Clean \ {q}
  BY <1>0 DEF Clean
<1>b. q \notin Loose => q \in Clean /\ question[q].asker = Len(sessions)
  BY <1>0, CleanIsLatest
<1>c. \A o \in Slots : o # s /\ Live(o)' => Live(o)
  BY <1>0 DEF RunsIn, Live
<1>1. SessionsKnown'
  <2>1. Len(sessions) <= Len(sessions)
    BY DEF SlotsInv
  <2> QED BY <1>0, <1>c, <2>1 DEF SlotsInv, SessionsKnown, RunsIn
<1>2. GivenWasHanded'
  BY <1>0 DEF SlotsInv, GivenWasHanded, RunsIn
<1>3. Behind'
  BY <1>0 DEF SlotsInv, Behind
<1>4. Alone'
  <2> SUFFICES ASSUME Len(sessions) \notin past'.mixed, NEW p \in Clean' PROVE FALSE
    BY <1>0 DEF Alone
  <2>1. q \notin Loose /\ Len(sessions) \notin past.mixed
    BY <1>0
  <2>2. Clean \subseteq {q}
    BY <1>b, <2>1 DEF SlotsInv, Alone
  <2> QED BY <1>a, <2>2
<1>5. StrayAnswersWereOvertaken'
  <2> SUFFICES ASSUME NEW o \in Slots, slot'[o].given # None,
                      question[slot'[o].given].asker # slot'[o].session
               PROVE  slot'[o].given \in Loose'
    BY <1>0 DEF StrayAnswersWereOvertaken
  <2>1. CASE o = s
    BY <1>0, <1>b, <2>1 DEF RunsIn
  <2>2. CASE o # s
    BY <1>0, <2>2 DEF RunsIn, SlotsInv, StrayAnswersWereOvertaken
  <2> QED BY <2>1, <2>2
<1>6. OneAgentPerSession'
  <2>1. ASSUME NEW o \in Slots, o # s, Live(o), slot[o].session = Len(sessions)
        PROVE  Len(sessions) \in past'.mixed
    BY <1>0, <1>b, <2>1 DEF SlotsInv, Alone
  <2>2. \A o \in Slots : o # s => slot'[o] = slot[o]
    BY <1>0 DEF RunsIn
  <2>3. slot'[s].session = Len(sessions)
    BY <1>0 DEF RunsIn
  <2> QED BY <1>0, <1>c, <2>1, <2>2, <2>3 DEF SlotsInv, OneAgentPerSession
<1> QED BY <1>1, <1>2, <1>3, <1>4, <1>5, <1>6 DEF SlotsInv

LEMMA StartsKeeps ==
  ASSUME NEW s \in Slots, TypeInv, SlotsInv, Starts(s) PROVE SlotsInv'
<1>0. /\ RunsIn(s, Len(sessions) + 1, None) /\ question' = question
      /\ Len(sessions') = Len(sessions) + 1 /\ Len(sessions) \in Nat
      /\ past'.handed = past.handed /\ past'.mixed = past.mixed
      /\ past'.overtaken = past.overtaken \cup (Questions \ past.handed)
      /\ Questions' = Questions /\ Answered' = Answered /\ Loose \subseteq Loose'
      /\ \A o \in Slots : slot[o].session \in Nat
  BY Shapes DEF Starts, Questions, Answered, Loose, Slot
<1>a. Clean' = {}
  BY <1>0 DEF Clean, Loose
<1>b. \A o \in Slots : o # s /\ Live(o)' => Live(o)
  BY <1>0 DEF RunsIn, Live
<1>c. \A o \in Slots : o # s /\ Live(o)' => slot'[o].session <= Len(sessions) /\ slot'[o].session \in Nat
  BY <1>0, <1>b DEF SlotsInv, SessionsKnown, RunsIn
<1>d. slot'[s].session = Len(sessions) + 1 /\ slot'[s].given = None
  BY <1>0 DEF RunsIn
<1>1. SessionsKnown'
  BY <1>0, <1>c, <1>d DEF SessionsKnown
<1>2. GivenWasHanded'
  BY <1>0 DEF SlotsInv, GivenWasHanded, RunsIn
<1>3. Behind'
  BY <1>0 DEF Behind
<1>4. Alone'
  BY <1>a DEF Alone
<1>5. StrayAnswersWereOvertaken'
  BY <1>0 DEF SlotsInv, StrayAnswersWereOvertaken, RunsIn
<1>6. OneAgentPerSession'
  <2> SUFFICES ASSUME NEW o \in Slots, NEW p \in Slots, o # p, Live(o)', Live(p)',
                      slot'[o].session = slot'[p].session
               PROVE  slot'[o].session \in past'.mixed
    BY DEF OneAgentPerSession
  <2>1. o # s /\ p # s
    BY <1>0, <1>c, <1>d
  <2>2. slot'[o] = slot[o] /\ slot'[p] = slot[p] /\ Live(o) /\ Live(p)
    BY <1>0, <1>b, <2>1 DEF RunsIn
  <2> QED BY <1>0, <2>2 DEF SlotsInv, OneAgentPerSession
<1> QED BY <1>1, <1>2, <1>3, <1>4, <1>5, <1>6 DEF SlotsInv
\* A step that leaves the requests alone.
LEMMA RaceStands ==
  ASSUME AnswersRace, UNCHANGED req, Questions \subseteq Questions', Answered' = Answered,
         \A q \in Questions : question'[q] = question[q],
         past.raced \subseteq past'.raced,
         past'.handed = past.handed \/ InFlight \subseteq past'.raced
  PROVE  AnswersRace'
<1>1. \A r \in Reqs : Answering(r) => req[r].question \in InFlight
  BY DEF InFlight, Answering
<1>2. \A r \in Reqs : Answering(r)' = Answering(r)
  BY DEF Answering
<1>3. \A q \in Questions : \A at : NoOlder(q, at) => NoOlder(q, at)'
  BY DEF NoOlder, Answered
<1> QED BY <1>1, <1>2, <1>3 DEF AnswersRace

LEMMA RowsStand ==
  ASSUME RowsFindAnswers, RowsShrink, Answered' = Answered,
         \A q \in Answered : question'[q] = question[q],
         past'.handed = past.handed, Loose \subseteq Loose'
  PROVE  RowsFindAnswers'
<1>1. Newest' = Newest
  BY DEF Newest
<1> QED BY <1>1 DEF RowsFindAnswers, RowsShrink

LEMMA QuietStep ==
  ASSUME SessionInv, Quiet
  PROVE  SlotsInv' /\ AnswersRace' /\ RowsFindAnswers'
<1>0. SlotsInv /\ AnswersRace /\ RowsFindAnswers
  BY DEF SessionInv
<1>1. /\ UNCHANGED <<req, question, past>> /\ RowsShrink /\ Questions' = Questions
      /\ Answered' = Answered /\ Loose' = Loose
  BY DEF Quiet, Questions, Answered, Loose
<1>2. AnswersRace'
  BY <1>0, <1>1, RaceStands
<1> QED BY <1>0, <1>1, <1>2, QuietKeeps, RowsStand

LEMMA RunsKeep ==
  ASSUME SessionInv, NEW s \in Slots, NEW n, NEW i, NEW q,
         Asks(s, n) \/ Starts(s) \/ Hands(s, i, q)
  PROVE  SlotsInv' /\ AnswersRace' /\ RowsFindAnswers'
<1>0. TypeInv /\ SlotsInv /\ AnswersRace /\ RowsFindAnswers
  BY DEF SessionInv, ReasonInv
<1>1. CASE Asks(s, n)
  <2>1. /\ UNCHANGED req /\ RowsShrink /\ Questions \subseteq Questions'
        /\ Answered' = Answered /\ Loose \subseteq Loose' /\ Answered \subseteq Questions
        /\ \A p \in Questions : question'[p] = question[p]
        /\ past'.handed = past.handed /\ past'.raced = past.raced
    BY <1>1 DEF Asks, Answered, Loose
  <2>2. AnswersRace'
    BY <1>0, <2>1, RaceStands
  <2> QED BY <1>0, <1>1, <2>1, <2>2, AsksKeeps, RowsStand
<1>2. CASE Starts(s)
  <2>1. /\ UNCHANGED <<req, question>> /\ RowsShrink /\ Questions' = Questions
        /\ Answered' = Answered /\ Loose \subseteq Loose'
        /\ past'.handed = past.handed /\ past.raced \subseteq past'.raced
    BY <1>2 DEF Starts, Questions, Answered, Loose
  <2>2. AnswersRace'
    BY <1>0, <2>1, RaceStands
  <2> QED BY <1>0, <1>2, <2>1, <2>2, StartsKeeps, RowsStand
<1>3. CASE Hands(s, i, q)
  <2>1. /\ UNCHANGED <<req, question>> /\ Questions' = Questions /\ Answered' = Answered
        /\ InFlight \subseteq past'.raced /\ past.raced \subseteq past'.raced
        /\ Loose \subseteq Loose' /\ Newest' = Newest
        /\ i \in ResumeRows /\ ResumeRows' \subseteq ResumeRows \ {i}
    BY <1>3 DEF Hands, Questions, Answered, Loose, Newest
  <2>2. AnswersRace'
    BY <1>0, <2>1, RaceStands
  <2>3. RowsFindAnswers'
    <3>1. ASSUME NEW j \in ResumeRows' PROVE Newest \subseteq Loose'
      BY <1>0, <2>1, <3>1 DEF RowsFindAnswers
    <3> QED BY <2>1, <3>1 DEF RowsFindAnswers
  <2> QED BY <1>0, <1>3, <2>2, <2>3, HandsKeeps
<1> QED BY <1>1, <1>2, <1>3

\* A request ends, or goes on from one commit to the next, or does not answer.
Moves(r) ==
  /\ UNCHANGED question /\ past'.handed = past.handed /\ past.raced \subseteq past'.raced
  /\ \A p \in Reqs : p # r => req'[p] = req[p]
  /\ req[r].pc # "idle" \/ InFlight \subseteq past'.raced
  /\ \/ ~Answering(r)'
     \/ /\ req'[r].question = req[r].question
        /\ req[r].pc = "find" /\ req'[r].pc = "enqueue"

LEMMA MovesKeeps ==
  ASSUME NEW r \in Reqs, AnswersRace, Moves(r)
  PROVE  AnswersRace'
<1>0. /\ UNCHANGED question /\ past'.handed = past.handed /\ past.raced \subseteq past'.raced
      /\ Questions' = Questions /\ Answered' = Answered
      /\ \A p \in Reqs : p # r => req'[p] = req[p] /\ Answering(p)' = Answering(p)
      /\ req[r].pc # "idle" \/ InFlight \subseteq past'.raced
  BY DEF Moves, Questions, Answered, Answering
<1>1. \A p \in Reqs : Answering(p) => req[p].question \in InFlight
  BY DEF InFlight, Answering
<1> SUFFICES ASSUME NEW p \in Reqs, Answering(p)'
    PROVE  LET q == req'[p].question
           IN  /\ req'[p].pc \in {"answer", "find", "enqueue"} /\ q \in Questions
               /\ (\E o \in Reqs \ {p} : req'[o].pc # "idle") => q \in past'.raced
               /\ q \in past.handed => q \in past'.raced
               /\ req'[p].pc = "answer" =>
                    /\ req'[p].at > 0
                    /\ \A o \in Answered \ {q} : question[o].at >= req'[p].at => o \in past'.raced
               /\ req'[p].pc # "answer" =>
                    /\ q \in Answered
                    /\ \A o \in Answered \ {q} : question[o].at >= question[q].at => o \in past'.raced
  BY <1>0 DEF AnswersRace, NoOlder
<1>2. CASE p # r
  BY <1>0, <1>1, <1>2 DEF AnswersRace, NoOlder
<1>3. CASE p = r
  <2>1. /\ req'[r].question = req[r].question /\ Answering(r)
        /\ req[r].pc = "find" /\ req'[r].pc = "enqueue"
    BY <1>3 DEF Moves, Answering
  <2> QED BY <1>0, <1>3, <2>1 DEF AnswersRace, NoOlder
<1> QED BY <1>2, <1>3
LEMMA AnswerEnters ==
  ASSUME NEW r \in Reqs, NEW q \in Questions, SessionInv, AnswerQuestion(r, q)
  PROVE  SlotsInv' /\ AnswersRace' /\ RowsFindAnswers'
<1>0. /\ TypeInv /\ SlotsInv /\ AnswersRace /\ RowsFindAnswers /\ req \in [Reqs -> Req]
      /\ past \in Past
      /\ UNCHANGED <<question, slot, sessions, queue>> /\ req[r].pc = "idle"
      /\ Questions' = Questions /\ Answered' = Answered
  BY DEF SessionInv, ReasonInv, TypeInv, TypeOK, AnswerQuestion, Calls, Questions, Answered
<1>1. /\ past'.handed = past.handed /\ past'.mixed = past.mixed
      /\ past'.overtaken = past.overtaken /\ past.raced \subseteq past'.raced
      /\ (\E p \in Reqs : req[p].pc # "idle") => InFlight \cup {q} \subseteq past'.raced
  BY <1>0 DEF AnswerQuestion, Past
<1>2. /\ \A p \in Reqs : p # r => req'[p] = req[p] /\ Answering(p)' = Answering(p)
      /\ req'[r].pc = "answer" /\ req'[r].question = q /\ req'[r].at = clock + 1
  <2>1. req' = [req EXCEPT ![r] = Loaded("answer", "none", q, clock + 1)]
    BY DEF AnswerQuestion
  <2> QED BY <1>0, <2>1 DEF Loaded, Answering
<1>3. Beside
  BY <1>0, <1>1 DEF Beside
<1>4. RowsFindAnswers'
  <2>1. RowsShrink /\ Loose \subseteq Loose'
    BY <1>0, <1>1 DEF RowsShrink, ResumeRows, Loose
  <2> QED BY <1>0, <1>1, <2>1, RowsStand
<1>5. q \notin Answered /\ q \notin past.handed
  BY <1>0 DEF AnswerQuestion, Answered, SlotsInv, GivenWasHanded
<1>6. \A o \in Answered : ~(question[o].at >= clock + 1)
  <2>1. \A o \in Questions : question[o].at \in Nat /\ question[o].at <= clock /\ clock \in Nat
    BY <1>0, Shapes
  <2> QED BY <2>1 DEF Answered
<1>7. clock + 1 > 0
  BY <1>0, Shapes
<1>8. \A p \in Reqs : Answering(p) => req[p].question \in InFlight
  BY DEF InFlight, Answering
<1>9. AnswersRace'
  <2> SUFFICES ASSUME NEW p \in Reqs, Answering(p)'
      PROVE  LET u == req'[p].question
             IN  /\ req'[p].pc \in {"answer", "find", "enqueue"} /\ u \in Questions
                 /\ (\E o \in Reqs \ {p} : req'[o].pc # "idle") => u \in past'.raced
                 /\ u \in past.handed => u \in past'.raced
                 /\ req'[p].pc = "answer" =>
                      /\ req'[p].at > 0
                      /\ \A o \in Answered \ {u} : question[o].at >= req'[p].at => o \in past'.raced
                 /\ req'[p].pc # "answer" =>
                      /\ u \in Answered
                      /\ \A o \in Answered \ {u} : question[o].at >= question[u].at => o \in past'.raced
    BY <1>0, <1>1 DEF AnswersRace, NoOlder
  <2>1. CASE p # r
    <3>1. req[p].pc # "idle" /\ Answering(p)
      BY <1>0, <1>2, <2>1 DEF AnswersRace
    <3> QED BY <1>0, <1>1, <1>2, <1>8, <2>1, <3>1 DEF AnswersRace, NoOlder
  <2>2. CASE p = r
    BY <1>1, <1>2, <1>5, <1>6, <1>7, <2>2
  <2> QED BY <2>1, <2>2
<1> QED BY <1>0, <1>3, <1>4, <1>9, BesideKeeps

LEMMA AnswerRecords ==
  ASSUME NEW r \in Reqs, SessionInv, AnswerCommit(r)
  PROVE  SlotsInv' /\ AnswersRace' /\ RowsFindAnswers'
<1> DEFINE q == req[r].question
<1> DEFINE t == req[r].at
<1>0. /\ TypeInv /\ SlotsInv /\ AnswersRace /\ RowsFindAnswers /\ req \in [Reqs -> Req]
      /\ past \in Past /\ UNCHANGED <<slot, sessions, queue>> /\ req[r].pc = "answer"
      /\ Answering(r)
  BY DEF SessionInv, ReasonInv, TypeInv, TypeOK, AnswerCommit, ReqKnows, Answering
<1>1. q \in Questions /\ t > 0 /\ NoOlder(q, t)
  BY <1>0 DEF AnswersRace
<1>a. q # None
  BY <1>0 DEF Answering
<1>2. /\ Questions' = Questions /\ question'[q].at = t /\ question'[q].asker = question[q].asker
      /\ \A p \in Questions : p # q => question'[p] = question[p]
  <2>1. question \in [1..Len(question) -> Question] /\ Questions = 1..Len(question)
    BY <1>0, Shapes, LenProperties DEF TypeInv, TypeOK
  <2>2. question' = [question EXCEPT ![q] = [question[q] EXCEPT !.at = t]]
    BY DEF AnswerCommit
  <2>3. [question[q] EXCEPT !.at = t].at = t /\ [question[q] EXCEPT !.at = t].asker = question[q].asker
    BY <1>1, <2>1 DEF Question
  <2> HIDE DEF q, t
  <2> QED BY <1>1, <2>1, <2>2, <2>3 DEF Questions
<1>3. /\ past'.handed = past.handed /\ past'.mixed = past.mixed
      /\ past'.overtaken = past.overtaken /\ past.raced \subseteq past'.raced
      /\ Crowded => q \in past'.raced
  BY <1>0 DEF AnswerCommit, Past
<1>4. /\ \A p \in Reqs : p # r => req'[p] = req[p] /\ Answering(p)' = Answering(p)
      /\ Answering(r)' => req'[r].pc = "find" /\ req'[r].question = q
  <2>1. [req[r] EXCEPT !.pc = "find"].pc = "find" /\ [req[r] EXCEPT !.pc = "find"].question = q
    BY <1>0 DEF Req
  <2>2. IdleReq.question = None
    BY DEF IdleReq
  <2> QED BY <1>0, <2>1, <2>2 DEF AnswerCommit, Answering
<1>5. Answered' = Answered \cup {q}
  <2>1. t # None
    BY <1>1 DEF None
  <2> HIDE DEF q, t
  <2> QED BY <1>1, <1>2, <2>1 DEF Answered
<1>6. Beside
  BY <1>0, <1>2, <1>3, <1>5 DEF Beside
<1> HIDE DEF q, t
<1>7. \A p \in Newest' : p # q => p \in past.raced
  <2>1. \A p \in Newest' : p # q => p \in Answered /\ question[p].at >= t
    <3> SUFFICES ASSUME NEW p \in Newest', p # q PROVE p \in Answered /\ question[p].at >= t
      OBVIOUS
    <3>1. p \in Answered' /\ question'[q].at <= question'[p].at
      BY <1>5 DEF Newest
    <3>2. p \in Answered /\ question'[p] = question[p] /\ p \in Questions
      BY <1>2, <1>5, <3>1 DEF Answered
    <3>3. question[p].at \in Nat /\ t \in Nat
      BY <1>0, <3>2, Shapes DEF t
    <3> QED BY <1>2, <3>1, <3>2, <3>3
  <2> QED BY <1>1, <2>1 DEF NoOlder
<1>8. RowsFindAnswers'
  <2>1. ResumeRows' = ResumeRows /\ ResumeRows \subseteq Outstanding /\ Loose \subseteq Loose'
    BY <1>0, <1>3, Shapes DEF ResumeRows, ResumeIn, Outstanding, Loose
  <2>2. q \in past.handed => q \in past.raced
    BY <1>0 DEF AnswersRace, q
  <2>3. \A i, j \in ResumeRows : i # j => q \in past'.raced
    BY <1>3, <2>1 DEF Crowded
  <2> QED BY <1>3, <1>7, <2>1, <2>2, <2>3 DEF RowsFindAnswers, Loose
<1>9. AnswersRace'
  <2> SUFFICES ASSUME NEW p \in Reqs, Answering(p)'
      PROVE  LET u == req'[p].question
             IN  /\ req'[p].pc \in {"answer", "find", "enqueue"} /\ u \in Questions
                 /\ (\E o \in Reqs \ {p} : req'[o].pc # "idle") => u \in past'.raced
                 /\ u \in past.handed => u \in past'.raced
                 /\ req'[p].pc = "answer" =>
                      /\ req'[p].at > 0
                      /\ \A o \in Answered' \ {u} : question'[o].at >= req'[p].at => o \in past'.raced
                 /\ req'[p].pc # "answer" =>
                      /\ u \in Answered'
                      /\ \A o \in Answered' \ {u} : question'[o].at >= question'[u].at => o \in past'.raced
    BY <1>2, <1>3 DEF AnswersRace, NoOlder
  <2>0. Answered \subseteq Questions
    BY DEF Answered
  <2>1. CASE p # r
    <3>1. /\ Answering(p) /\ req'[p] = req[p] /\ req[p].question \in Questions
          /\ req[p].pc \in {"answer", "find", "enqueue"}
      BY <1>0, <1>4, <2>1 DEF AnswersRace
    <3>2. q \in past.raced
      BY <1>0, <2>1, <3>1 DEF AnswersRace, q
    <3>3. req[p].question \in past.raced
      BY <1>0, <2>1, <3>1 DEF AnswersRace
    <3>4. CASE req[p].question = q /\ req[p].pc # "answer"
      BY <1>1, <1>2, <1>3, <1>5, <2>0, <3>1, <3>2, <3>4 DEF NoOlder
    <3>5. CASE ~(req[p].question = q /\ req[p].pc # "answer")
      <4>1. /\ req[p].pc = "answer" =>
                 /\ req[p].at > 0
                 /\ \A o \in Answered \ {req[p].question} :
                      question[o].at >= req[p].at => o \in past.raced
            /\ req[p].pc # "answer" =>
                 /\ req[p].question \in Answered
                 /\ \A o \in Answered \ {req[p].question} :
                      question[o].at >= question[req[p].question].at => o \in past.raced
        BY <1>0, <3>1 DEF AnswersRace, NoOlder
      <4> QED BY <1>2, <1>3, <1>5, <2>0, <3>1, <3>2, <3>3, <3>5, <4>1
    <3> QED BY <3>4, <3>5
  <2>2. CASE p = r
    <3>1. req'[r].pc = "find" /\ req'[r].question = q
      BY <1>4, <2>2
    <3>2. /\ (\E o \in Reqs \ {r} : req'[o].pc # "idle") => q \in past.raced
          /\ q \in past.handed => q \in past.raced
      BY <1>0, <1>4 DEF AnswersRace, q
    <3> QED BY <1>1, <1>2, <1>3, <1>5, <2>0, <2>2, <3>1, <3>2 DEF NoOlder
  <2> QED BY <2>1, <2>2
<1> QED BY <1>0, <1>6, <1>8, <1>9, BesideKeeps
LEMMA FindMoves ==
  ASSUME NEW r \in Reqs, TypeInv, EnqueueFind(r)
  PROVE  /\ UNCHANGED <<question, slot, sessions, queue, past>> /\ req[r].pc = "find"
         /\ \A p \in Reqs : p # r => req'[p] = req[p]
         /\ req'[r].question = req[r].question /\ req'[r].pc = "enqueue"
<1>0. req \in [Reqs -> Req] /\ req[r] \in Req
  BY DEF TypeInv, TypeOK
<1>1. req[r].pc = "find"
  BY Zenon DEF EnqueueFind
<1>2. UNCHANGED <<status, sessions, queue, question, clock, slot, used, past>>
  BY Zenon DEF EnqueueFind
<1> DEFINE Goal == /\ \A p \in Reqs : p # r => req'[p] = req[p]
                   /\ req'[r].question = req[r].question /\ req'[r].pc = "enqueue"
<1>3. ASSUME req' = [req EXCEPT ![r].pc = "enqueue"] PROVE Goal
  BY <1>0, <1>3 DEF Req
<1>4. ASSUME NEW i \in Outstanding,
             req' = [req EXCEPT ![r] = [req[r] EXCEPT !.pc = "enqueue", !.seen = i,
                                                      !.seenStatus = queue[i].status]]
      PROVE  Goal
  BY <1>0, <1>4 DEF Req
<1>5. Goal
  <2> HIDE DEF Goal
  <2>1. \/ req' = [req EXCEPT ![r].pc = "enqueue"]
        \/ \E i \in Outstanding :
             req' = [req EXCEPT ![r] = [req[r] EXCEPT !.pc = "enqueue", !.seen = i,
                                                      !.seenStatus = queue[i].status]]
    BY Zenon DEF EnqueueFind
  <2> QED BY <1>3, <1>4, <2>1, Zenon
<1> QED BY <1>1, <1>2, <1>5

LEMMA RequestMoves ==
  ASSUME NEW r \in Reqs, SessionInv,
         \/ \E st \in Drags : DragTicket(r, st)
         \/ DragCommit(r) \/ EnqueueFind(r) \/ RequestDies(r)
  PROVE  SlotsInv' /\ AnswersRace' /\ RowsFindAnswers'
<1>0. /\ TypeInv /\ SlotsInv /\ AnswersRace /\ RowsFindAnswers /\ ReqKnows
      /\ req \in [Reqs -> Req] /\ past \in Past /\ req[r] \in Req
  BY DEF SessionInv, ReasonInv, TypeInv, TypeOK
<1>1. /\ UNCHANGED <<question, slot, sessions, queue>>
      /\ past'.handed = past.handed /\ past'.mixed = past.mixed
      /\ past'.overtaken = past.overtaken /\ past.raced \subseteq past'.raced
      /\ req[r].pc # "idle" \/ InFlight \subseteq past'.raced
  <2>1. ASSUME NEW st \in Drags, DragTicket(r, st)
        PROVE  /\ past' = [past EXCEPT !.raced = @ \cup InFlight]
               /\ UNCHANGED <<question, slot, sessions, queue>>
    BY <2>1 DEF DragTicket
  <2>2. ASSUME DragCommit(r) \/ RequestDies(r)
        PROVE  /\ past' = past \/ past' = [past EXCEPT !.cut = @ \cup {req[r].question}]
               /\ UNCHANGED <<question, slot, sessions, queue>> /\ req[r].pc # "idle"
    BY <2>2 DEF DragCommit, RequestDies
  <2>3. ASSUME EnqueueFind(r)
        PROVE  UNCHANGED <<question, slot, sessions, queue, past>> /\ req[r].pc # "idle"
    BY <1>0, <2>3, FindMoves
  <2> QED BY <1>0, <2>1, <2>2, <2>3 DEF Past
<1>2. /\ \A p \in Reqs : p # r => req'[p] = req[p]
      /\ \/ ~Answering(r)'
         \/ /\ req'[r].question = req[r].question
            /\ req[r].pc = "find" /\ req'[r].pc = "enqueue"
  <2>0. IdleReq.question = None
    BY DEF IdleReq
  <2>1. ASSUME NEW st \in Drags, DragTicket(r, st)
        PROVE  (\A p \in Reqs : p # r => req'[p] = req[p]) /\ ~Answering(r)'
    <3>1. Loaded("drag", st, None, None).question = None
      BY DEF Loaded
    <3> QED BY <1>0, <2>1, <3>1 DEF DragTicket, Answering
  <2>2. ASSUME DragCommit(r)
        PROVE  (\A p \in Reqs : p # r => req'[p] = req[p]) /\ ~Answering(r)'
    <3>1. [req[r] EXCEPT !.pc = "find", !.status = req[r].target].question = None
      BY <1>0, <2>2 DEF DragCommit, ReqKnows, Req
    <3> QED BY <1>0, <2>0, <2>2, <3>1 DEF DragCommit, Answering
  <2>3. ASSUME RequestDies(r)
        PROVE  (\A p \in Reqs : p # r => req'[p] = req[p]) /\ ~Answering(r)'
    BY <1>0, <2>0, <2>3 DEF RequestDies, Answering
  <2>4. ASSUME EnqueueFind(r)
        PROVE  /\ \A p \in Reqs : p # r => req'[p] = req[p]
               /\ req'[r].question = req[r].question
               /\ req[r].pc = "find" /\ req'[r].pc = "enqueue"
    BY <1>0, <2>4, FindMoves
  <2> QED BY <2>1, <2>2, <2>3, <2>4
<1>3. Beside
  BY <1>1 DEF Beside, Questions, Answered
<1>4. Moves(r)
  BY <1>1, <1>2 DEF Moves
<1>5. RowsFindAnswers'
  <2>1. RowsShrink /\ Loose \subseteq Loose' /\ Answered' = Answered
    BY <1>1 DEF RowsShrink, ResumeRows, Loose, Answered, Questions
  <2> QED BY <1>0, <1>1, <2>1, RowsStand
<1> QED BY <1>0, <1>3, <1>4, <1>5, BesideKeeps, MovesKeeps

LEMMA RequestEnqueues ==
  ASSUME NEW r \in Reqs, SessionInv, EnqueueCommit(r)
  PROVE  SlotsInv' /\ AnswersRace' /\ RowsFindAnswers'
<1>0. /\ TypeInv /\ SlotsInv /\ AnswersRace /\ RowsFindAnswers /\ queue \in Seq(Row)
      /\ req \in [Reqs -> Req] /\ past \in Past /\ req[r] \in Req
  BY DEF SessionInv, ReasonInv, TypeInv, TypeOK
<1>1. /\ UNCHANGED <<question, slot, sessions>> /\ req[r].pc = "enqueue"
      /\ past'.handed = past.handed /\ past'.mixed = past.mixed
      /\ past'.overtaken = past.overtaken /\ past.raced \subseteq past'.raced
      /\ Answering(r) /\ Crowded' => req[r].question \in past'.raced
  BY <1>0 DEF EnqueueCommit, Past
<1>2. Beside /\ Loose \subseteq Loose' /\ Answered' = Answered /\ Newest' = Newest
  BY <1>1 DEF Beside, Questions, Answered, Loose, Newest
<1>3. Moves(r)
  BY <1>0, <1>1 DEF Moves, EnqueueCommit, Answering, IdleReq
<1>4. RowsFindAnswers'
  <2>1. CASE RowsShrink
    BY <1>0, <1>1, <1>2, <2>1, RowsStand
  <2>2. CASE ~RowsShrink
    <3>1. Answering(r)
      <4>1. SUFFICES ASSUME ~Answering(r) PROVE RowsShrink
        BY <2>2
      <4>2. CASE queue' = queue
        BY <4>2 DEF RowsShrink, ResumeRows
      <4>3. CASE queue' # queue
        <5>1. PICK Q \in {queue, Close(req[r].seen, "failed")} :
                queue' = Append(Q, QueuedRow(Answering(r)))
          BY <4>3 DEF EnqueueCommit
        <5>2. Q \in Seq(Row) /\ ResumeIn(Q) \subseteq ResumeRows
          BY <1>0, CloseTyped, RowsOf DEF ResumeRows
        <5>3. queue' = Append(Q, QueuedRow(FALSE))
          <6>1. Answering(r) = FALSE
            BY <4>1 DEF Answering
          <6> QED BY <5>1, <6>1
        <5> QED BY <1>0, <5>2, <5>3, RowsOf DEF RowsShrink, ResumeRows
      <4> QED BY <4>2, <4>3
    <3> DEFINE own == req[r].question
    <3>2. /\ own \in Answered /\ NoOlder(own, question[own].at)
          /\ own \in past.handed => own \in past.raced
      BY <1>0, <1>1, <3>1 DEF AnswersRace
    <3>3. \A p \in Newest : p # own => p \in past.raced
      <4>1. \A p \in Answered : question[p].at \in Nat
        BY <1>0, Shapes DEF Answered
      <4> HIDE DEF own
      <4> QED BY <3>2, <4>1 DEF Newest, NoOlder
    <3>4. \A i, j \in ResumeRows' : i # j => own \in past'.raced
      <4>1. queue' \in Seq(Row)
        BY NextReason DEF SessionInv, ReasonInv, TypeInv, TypeOK, Next, ReqStep
      <4>2. ResumeRows' \subseteq Outstanding'
        BY <4>1, LenProperties DEF ResumeRows, ResumeIn, Outstanding, Items
      <4> QED BY <1>1, <3>1, <4>2 DEF Crowded
    <3> HIDE DEF own
    <3> QED BY <1>1, <1>2, <3>2, <3>3, <3>4 DEF RowsFindAnswers, Loose
  <2> QED BY <2>1, <2>2
<1> QED BY <1>0, <1>2, <1>3, <1>4, BesideKeeps, MovesKeeps
LEMMA ClaimRuns ==
  ASSUME NEW s \in Slots, SessionInv, Claim(s)
  PROVE  SlotsInv' /\ AnswersRace' /\ RowsFindAnswers'
<1>0. /\ TypeInv /\ slot \in [Slots -> Slot] /\ past \in Past /\ UNCHANGED <<question, req>>
      /\ sessions \in Seq(PCs)
  BY DEF SessionInv, ReasonInv, TypeInv, TypeOK, Claim
<1>1. PICK i \in Queued : queue' = ClaimedBy(s, i) /\ (ClaimResume(s, i) \/ ClaimFresh(s, i))
  BY DEF Claim
<1>2. i \in Items /\ ResumeRows' \subseteq ResumeRows \ {i}
  BY <1>0, <1>1, RowsOf DEF Queued, ResumeRows
<1>3. ASSUME NEW session, NEW given, RunStarts(s, i, session, given)
      PROVE  RunsIn(s, session, given)
  BY <1>0, <1>3 DEF RunStarts, RunsIn
<1>4. CASE ClaimResume(s, i)
  <2>1. RunsIn(s, Len(sessions), Latest) /\ UNCHANGED sessions
    BY <1>3, <1>4 DEF ClaimResume
  <2>2. Latest \in Newest
    BY <1>0, <1>4, LatestIsAnswered DEF ClaimResume, Resumes, Newest
  <2>3. i \in ResumeRows
    BY <1>0, <1>1, <1>2, <1>4, Shapes DEF ClaimResume, Resumes, Queued, ResumeRows, ResumeIn
  <2>4. /\ past'.handed = past.handed \cup {Latest} /\ past'.overtaken = past.overtaken
        /\ past'.raced = past.raced \cup InFlight
        /\ past'.mixed = IF Latest \in Loose \cup InFlight THEN past.mixed \cup {Len(sessions)}
                         ELSE past.mixed
    <3> HIDE DEF Latest, Loose, InFlight
    <3> QED BY <1>0, <1>4 DEF ClaimResume, Past
  <2>5. Hands(s, i, Latest)
    BY <1>0, <1>2, <2>1, <2>2, <2>3, <2>4 DEF Hands
  <2> QED BY <2>5, RunsKeep
<1>5. CASE ClaimFresh(s, i)
  <2>1. /\ RunsIn(s, Len(sessions) + 1, None) /\ Len(sessions') = Len(sessions) + 1
    <3>1. RunsIn(s, Len(sessions) + 1, None)
      BY <1>3, <1>5 DEF ClaimFresh
    <3>2. sessions' = Append(sessions, PC[s]) /\ PC[s] \in PCs
      BY <1>5, EscalationAssumption DEF ClaimFresh
    <3> QED BY <1>0, <3>1, <3>2, AppendProperties
  <2>2. /\ past'.handed = past.handed /\ past'.mixed = past.mixed
        /\ past'.overtaken = past.overtaken \cup (Questions \ past.handed)
        /\ past'.raced = past.raced \cup InFlight
    BY <1>0, <1>5 DEF ClaimFresh, Past
  <2>3. Starts(s)
    BY <1>0, <1>2, <2>1, <2>2 DEF Starts, RowsShrink
  <2> QED BY <2>3, RunsKeep
<1> QED BY <1>1, <1>4, <1>5

LEMMA SlotGoesIdle ==
  ASSUME TypeInv, NEW s \in Slots, slot' = [slot EXCEPT ![s] = IdleSlot]
  PROVE  SlotsQuiet /\ ~Live(s)'
<1>1. IdleSlot.pc = "idle" /\ IdleSlot.given = None
  BY DEF IdleSlot
<1> QED BY <1>1 DEF TypeInv, TypeOK, SlotsQuiet, Live

LEMMA ChargeShrinks ==
  ASSUME TypeInv, NEW i, ChargeFailure(i) PROVE RowsShrink
<1>1. Close(i, "failed") \in Seq(Row)
  BY CloseTyped
<1>2. ResumeIn(Close(i, "failed")) \subseteq ResumeRows
  BY RowsOf
<1>3. ResumeIn(Append(Close(i, "failed"), QueuedRow(FALSE))) \subseteq ResumeRows
  BY <1>1, <1>2, RowsOf
<1> QED BY <1>2, <1>3 DEF ChargeFailure, RowsShrink, ResumeRows

LEMMA ReportEnds ==
  ASSUME NEW s \in Slots, SessionInv, Report(s)
  PROVE  SlotsInv' /\ AnswersRace' /\ RowsFindAnswers'
<1>0. /\ TypeInv /\ past \in Past /\ UNCHANGED <<sessions, req>> /\ question \in Seq(Question)
      /\ slot' = [slot EXCEPT ![s] = IdleSlot] /\ Live(s)
  BY DEF SessionInv, ReasonInv, TypeInv, TypeOK, Report, Live
<1>1. SlotsQuiet /\ ~Live(s)'
  BY <1>0, SlotGoesIdle
<1>2. ASSUME RowsShrink, UNCHANGED <<question, past>> PROVE Quiet
  BY <1>0, <1>1, <1>2 DEF Quiet
<1>3. CASE UNCHANGED <<status, queue, question, used, past>>
  BY <1>2, <1>3, QuietStep DEF RowsShrink, ResumeRows
<1>4. CASE FinishOk(s)
  <2>1. RowsShrink
    BY <1>0, <1>4, RowsOf DEF FinishOk, RowsShrink, ResumeRows
  <2> QED BY <1>2, <1>4, <2>1, QuietStep DEF FinishOk
<1>5. CASE FinishFailed(s)
  BY <1>0, <1>2, <1>5, ChargeShrinks, QuietStep DEF FinishFailed
<1>6. CASE RaiseQuestion(s)
  <2> DEFINE n == Len(question) + 1
  <2> DEFINE q == [asker |-> slot[s].session, at |-> None]
  <2>1. RowsShrink
    BY <1>0, <1>6, RowsOf DEF RaiseQuestion, RowsShrink, ResumeRows
  <2>2. q \in Question /\ q.asker = slot[s].session /\ q.at = None
    BY <1>0, Shapes DEF Slot, Question, None
  <2>3. question' = Append(question, q)
    BY <1>6 DEF RaiseQuestion
  <2>4. /\ past'.handed = past.handed /\ past'.raced = past.raced /\ past'.mixed = past.mixed
        /\ past.overtaken \subseteq past'.overtaken
        /\ slot[s].session # Len(sessions) => n \in past'.overtaken
    <3>1. CASE slot[s].session = Len(sessions)
      BY <1>6, <3>1 DEF RaiseQuestion
    <3>2. CASE slot[s].session # Len(sessions)
      <4>1. past' = [past EXCEPT !.overtaken = @ \cup {n}]
        BY <1>6, <3>2 DEF RaiseQuestion
      <4> QED BY <1>0, <4>1 DEF Past
    <3> QED BY <3>1, <3>2
  <2> HIDE DEF q
  <2>5. /\ n \notin Questions /\ Questions' = Questions \cup {n}
        /\ \A p \in Questions : question'[p] = question[p]
        /\ question'[n] = q
    BY <1>0, <2>2, <2>3, Shapes, AppendProperties, LenProperties DEF Questions
  <2>6. Asks(s, n)
    <3> HIDE DEF n
    <3> QED BY <1>0, <1>1, <2>1, <2>2, <2>4, <2>5 DEF Asks
  <2> QED BY <2>6, RunsKeep
<1> QED BY <1>3, <1>4, <1>5, <1>6 DEF Report

LEMMA NextSession == SessionInv /\ [Next]_vars => SessionInv'
<1> SUFFICES ASSUME SessionInv, [Next]_vars PROVE SlotsInv' /\ AnswersRace' /\ RowsFindAnswers'
  BY NextReason DEF SessionInv
<1>0. TypeInv /\ slot \in [Slots -> Slot]
  BY DEF SessionInv, ReasonInv, TypeInv, TypeOK
<1>1. ASSUME NEW s \in Slots, SlotStep(s)
      PROVE  SlotsInv' /\ AnswersRace' /\ RowsFindAnswers'
  <2>1. ASSUME NEW o, RunEnds(s, o) PROVE Quiet
    <3>1. /\ UNCHANGED <<sessions, question, queue, req, past>> /\ Live(s)
          /\ slot' = [slot EXCEPT ![s] = [slot[s] EXCEPT !.pc = "ended", !.outcome = o]]
      BY <2>1 DEF RunEnds, Live
    <3>2. SlotsQuiet
      BY <1>0, <3>1 DEF SlotsQuiet, Live, Slot
    <3> QED BY <3>1, <3>2 DEF Quiet, RowsShrink, ResumeRows
  <2>2. ASSUME SlotDies(s) PROVE Quiet
    BY <1>0, <2>2, SlotGoesIdle DEF SlotDies, Quiet, RowsShrink, ResumeRows
  <2> QED BY <1>1, <2>1, <2>2, QuietStep, ClaimRuns, ReportEnds DEF SlotStep
<1>2. ASSUME NEW r \in Reqs, ReqStep(r)
      PROVE  SlotsInv' /\ AnswersRace' /\ RowsFindAnswers'
  BY <1>2, AnswerEnters, AnswerRecords, RequestMoves, RequestEnqueues DEF ReqStep
<1>3. ASSUME slot' = slot PROVE SlotsQuiet
  BY <1>3 DEF SlotsQuiet, Live
<1>4. ASSUME NEW i \in Items, Reap(i) PROVE Quiet
  <2>1. UNCHANGED <<sessions, question, slot, req, past>> /\ ChargeFailure(i)
    BY <1>4 DEF Reap
  <2> QED BY <1>0, <1>3, <2>1, ChargeShrinks DEF Quiet
<1>5. CASE UNCHANGED vars
  <2>1. UNCHANGED <<sessions, question, queue, slot, req, past>>
    BY <1>5 DEF vars
  <2> QED BY <1>3, <2>1, QuietStep DEF Quiet, RowsShrink, ResumeRows
<1> QED BY <1>1, <1>2, <1>4, <1>5, QuietStep DEF Next

LEMMA SessionsHold == Spec => []SessionInv
BY InitSession, NextSession, PTL DEF Spec

\* An answer reaches the session that asked, unless a later session was started
\* first or another call, a claim or a second outstanding row came while it was
\* recorded; for any number of slots, PCs, requests, calls and retries.
THEOREM AnswersReachTheirAsker == Spec => []StrayAnswersWereOvertaken
<1>1. SessionInv => StrayAnswersWereOvertaken
  BY DEF SessionInv, SlotsInv
<1> QED BY <1>1, SessionsHold, PTL

\* Two agents never share a CLI session that was not handed such an answer,
\* however claims are reaped, superseded, retried and re-queued around them.
THEOREM SessionsAreUnshared == Spec => []OneAgentPerSession
<1>1. SessionInv => OneAgentPerSession
  BY DEF SessionInv, SlotsInv
<1> QED BY <1>1, SessionsHold, PTL
=============================================================================
