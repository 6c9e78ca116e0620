-------------------------- MODULE TicketDepsProofs ---------------------------
(* Theorems about TicketDeps, for any tickets, requests and triaging PCs.    *)
EXTENDS TicketDeps, TLAPS

\* TypeOK's bare types.
RowsTyped ==
  /\ status \in [Tickets -> Statuses]
  /\ deps \in [Tickets -> SUBSET Tickets]
  /\ req \in [Reqs -> Req]
  /\ triage \in [Triagers -> Triage]

\* What a request in flight knows. Every new dependency is seen or still on
\* the stack and the ticket itself is not seen; and as long as the edges are
\* the ones the walk started from, the successors of what it has seen are seen
\* or on the stack, nothing it met is out of reach of the new dependencies, and
\* the rows it is about to delete are the ones that are there.
Walks(r) ==
  LET q == req[r] IN
  q.pc # "idle" =>
    /\ q.ticket \in Tickets
    /\ q.ticket \notin q.seen
    /\ q.new \subseteq q.seen \cup q.stack
    /\ q.pc = "save" => q.stack = {}
    /\ ~q.overtaken =>
         /\ \A n \in q.seen : deps[n] \subseteq q.seen \cup q.stack
         /\ \A S \in SUBSET Tickets :
              q.new \subseteq S /\ ClosedUnder(deps, S) => q.seen \cup q.stack \subseteq S
         /\ q.pc = "save" => q.old = deps[q.ticket]

\* A PC that triages holds a ticket, never among its own candidates.
TriageAsked ==
  \A w \in Triagers :
    triage[w] # IdleTriage =>
      triage[w].ticket \in Tickets /\ triage[w].ticket \notin triage[w].candidates

EdgesJoinTickets ==
  \A t \in Tickets : deps[t] # {} => t \in There /\ deps[t] \subseteq There \ {t}

DepsInv == RowsTyped /\ EdgesJoinTickets /\ TriageAsked /\ \A r \in Reqs : Walks(r)
-----------------------------------------------------------------------------
(* The invariant is inductive.                                              *)

\* Init satisfies it.
LEMMA InitDeps == Init => DepsInv
<1> SUFFICES ASSUME Init PROVE DepsInv
  OBVIOUS
<1>1. RowsTyped
  BY DEF Init, RowsTyped, Statuses, Req, IdleReq, Triage, IdleTriage
<1>2. EdgesJoinTickets
  BY DEF Init, EdgesJoinTickets
<1>3. TriageAsked
  BY DEF Init, TriageAsked
<1>4. \A r \in Reqs : Walks(r)
  BY DEF Init, Walks, IdleReq
<1> QED BY <1>1, <1>2, <1>3, <1>4 DEF DepsInv

\* A step that changes neither the edges nor the other requests' rows keeps
\* what those requests know.
LEMMA WalksKept ==
  ASSUME NEW r \in Reqs, Walks(r), deps' = deps, req'[r] = req[r]
  PROVE  Walks(r)'
BY DEF Walks, ClosedUnder

\* ... and so does one that changes the edges and marks the others overtaken.
LEMMA WalksOvertaken ==
  ASSUME NEW r \in Reqs, Walks(r), req[r] \in Req,
         req'[r] = [req[r] EXCEPT !.overtaken = TRUE]
  PROVE  Walks(r)'
BY DEF Walks, Req

LEMMA IdleWalks ==
  ASSUME NEW r \in Reqs, req'[r] = IdleReq
  PROVE  Walks(r)'
BY DEF Walks, IdleReq

\* A save or a deletion marks every request that goes on.
LEMMA OvertakenEffect ==
  ASSUME NEW f \in [Reqs -> Req], req' = Overtaken(f)
  PROVE  /\ req' \in [Reqs -> Req]
         /\ \A r \in Reqs :
              /\ f[r].pc = "idle" => req'[r] = f[r]
              /\ f[r].pc # "idle" => req'[r] = [f[r] EXCEPT !.overtaken = TRUE]
<1>1. \A q \in Req : [q EXCEPT !.overtaken = TRUE] \in Req
  BY DEF Req
<1> QED BY <1>1 DEF Overtaken

\* One request's step that leaves the tables alone.
LEMMA RequestMoves ==
  ASSUME DepsInv, NEW r \in Reqs, NEW rec \in Req,
         req' = [req EXCEPT ![r] = rec], UNCHANGED <<status, deps, triage>>,
         Walks(r)'
  PROVE  DepsInv'
<1>1. RowsTyped'
  BY DEF DepsInv, RowsTyped
<1>2. EdgesJoinTickets' /\ TriageAsked'
  BY DEF DepsInv, EdgesJoinTickets, TriageAsked, There
<1>3. ASSUME NEW q \in Reqs, q # r PROVE Walks(q)'
  BY <1>3, WalksKept DEF DepsInv, RowsTyped
<1> QED BY <1>1, <1>2, <1>3 DEF DepsInv

LEMMA IdleReqTyped == IdleReq \in Req
BY DEF IdleReq, Req

\* The requests' steps.
LEMMA ReqStepDeps ==
  ASSUME DepsInv, NEW r \in Reqs, ReqStep(r)
  PROVE  DepsInv'
<1> DEFINE q == req[r]
<1>0. q \in Req /\ Walks(r)
  BY DEF DepsInv, RowsTyped
<1>1. ASSUME NEW t \in Tickets, NEW new \in SUBSET Tickets, PatchDeps(r, t, new)
      PROVE  DepsInv'
  <2> DEFINE rec == [IdleReq EXCEPT !.pc = "walk", !.ticket = t, !.new = new,
                                    !.stack = WalkFrom(t, new)]
  <2>1. rec \in Req
    BY DEF IdleReq, Req, WalkFrom
  <2>2. req' = [req EXCEPT ![r] = rec] /\ UNCHANGED <<status, deps, triage>>
    BY <1>1 DEF PatchDeps
  <2>3. Walks(r)'
    BY <2>2 DEF Walks, DepsInv, RowsTyped, IdleReq, WalkFrom
  <2> QED BY <2>1, <2>2, <2>3, RequestMoves
<1>2. CASE WalkRefuses(r)
  <2>1. req' = [req EXCEPT ![r] = IdleReq] /\ UNCHANGED <<status, deps, triage>>
    BY <1>2 DEF WalkRefuses, Finished
  <2>2. Walks(r)'
    BY <2>1, IdleWalks DEF DepsInv, RowsTyped
  <2> QED BY <2>1, <2>2, IdleReqTyped, RequestMoves
<1>3. CASE WalkVisits(r)
  <2>1. PICK n \in q.stack \ {q.ticket} :
          req' = [req EXCEPT ![r] =
            IF Seen(r, n) THEN [@ EXCEPT !.stack = q.stack \ {n}]
            ELSE [@ EXCEPT !.stack = (q.stack \ {n}) \cup Successors(n),
                           !.seen = q.seen \cup {n}]]
    BY <1>3 DEF WalkVisits
  <2>2. /\ q.pc = "walk" /\ UNCHANGED <<status, deps, triage>>
        /\ n \in Tickets /\ n # q.ticket
    BY <1>0, <1>3 DEF WalkVisits, Req
  <2>3. CASE n \in q.seen
    <3> DEFINE rec == [q EXCEPT !.stack = q.stack \ {n}]
    <3>1. rec \in Req
      BY <1>0 DEF Req
    <3>2. req' = [req EXCEPT ![r] = rec]
      BY <2>1, <2>3 DEF Seen
    <3>3. Walks(r)'
      <4>1. req'[r] = rec
        BY <3>2 DEF DepsInv, RowsTyped
      <4>2. /\ rec.pc = "walk" /\ rec.ticket = q.ticket /\ rec.new = q.new
            /\ rec.overtaken = q.overtaken /\ rec.seen = q.seen
            /\ rec.seen \cup rec.stack = q.seen \cup q.stack
        BY <1>0, <2>2, <2>3 DEF Req
      <4> HIDE DEF rec
      <4> QED BY <1>0, <2>2, <4>1, <4>2 DEF Walks, ClosedUnder
    <3> QED BY <2>2, <3>1, <3>2, <3>3, RequestMoves
  <2>4. CASE n \notin q.seen
    <3> DEFINE rec == [q EXCEPT !.stack = (q.stack \ {n}) \cup deps[n],
                             !.seen = q.seen \cup {n}]
    <3>1. rec \in Req
      BY <1>0, <2>2 DEF Req, DepsInv, RowsTyped
    <3>2. req' = [req EXCEPT ![r] = rec]
      BY <2>1, <2>4 DEF Seen, Successors
    <3>3. Walks(r)'
      <4>1. req'[r] = rec
        BY <3>2 DEF DepsInv, RowsTyped
      <4>2. /\ rec.pc = "walk" /\ rec.ticket = q.ticket /\ rec.new = q.new
            /\ rec.overtaken = q.overtaken
            /\ rec.seen = q.seen \cup {n}
            /\ rec.stack = (q.stack \ {n}) \cup deps[n]
        BY <1>0, <2>2 DEF Req
      <4>3. q.seen \cup q.stack \cup deps[n] = rec.seen \cup rec.stack
        BY <2>1, <4>2
      <4> HIDE DEF rec
      <4>4. ASSUME ~q.overtaken, NEW S \in SUBSET Tickets, q.new \subseteq S,
                   ClosedUnder(deps, S)
            PROVE  rec.seen \cup rec.stack \subseteq S
        <5>1. q.seen \cup q.stack \subseteq S
          BY <1>0, <2>2, <4>4 DEF Walks
        <5>2. deps[n] \subseteq S
          BY <2>1, <4>4, <5>1 DEF ClosedUnder
        <5> QED BY <4>3, <5>1, <5>2
      <4>5. ASSUME ~q.overtaken, NEW m \in rec.seen
            PROVE  deps[m] \subseteq rec.seen \cup rec.stack
        BY <1>0, <2>2, <4>2, <4>3, <4>5 DEF Walks
      <4>6. q.ticket \in Tickets /\ q.ticket \notin rec.seen /\ q.new \subseteq rec.seen \cup rec.stack
        BY <1>0, <2>2, <4>2, <4>3 DEF Walks
      <4> QED BY <2>2, <4>1, <4>2, <4>4, <4>5, <4>6 DEF Walks, ClosedUnder
    <3> QED BY <2>2, <3>1, <3>2, <3>3, RequestMoves
  <2> QED BY <2>3, <2>4
<1>4. CASE WalkPasses(r)
  <2> DEFINE rec == [q EXCEPT !.pc = "save", !.old = deps[q.ticket]]
  <2>1. rec \in Req
    BY <1>0, <1>4 DEF Req, DepsInv, RowsTyped, WalkPasses, Walks
  <2>2. req' = [req EXCEPT ![r] = rec] /\ UNCHANGED <<status, deps, triage>>
    BY <1>4 DEF WalkPasses
  <2>3. Walks(r)'
    BY <1>0, <1>4, <2>2 DEF Walks, DepsInv, RowsTyped, Req, ClosedUnder, WalkPasses
  <2> QED BY <2>1, <2>2, <2>3, RequestMoves
<1>5. CASE SaveCommits(r)
  <2> DEFINE t == q.ticket
  <2> DEFINE f == Finished(r)
  <2>1. /\ q.pc = "save" /\ t \in Tickets /\ t \notin q.new
        /\ q.new \subseteq There /\ t \in There
        /\ deps' = [deps EXCEPT ![t] = (deps[t] \ q.old) \cup q.new]
        /\ UNCHANGED <<status, triage>>
    BY <1>0, <1>5 DEF SaveCommits, Walks, Refused, Replaced
  <2>2. f \in [Reqs -> Req] /\ req' = Overtaken(f)
    BY <1>5, IdleReqTyped DEF SaveCommits, Finished, DepsInv, RowsTyped
  <2>a. \A p \in Reqs :
          /\ f[p].pc = "idle" => req'[p] = f[p]
          /\ f[p].pc # "idle" => req'[p] = [f[p] EXCEPT !.overtaken = TRUE]
    <3> HIDE DEF f
    <3> QED BY <2>2, OvertakenEffect
  <2>3. RowsTyped'
    <3>1. deps' \in [Tickets -> SUBSET Tickets]
      BY <2>1 DEF DepsInv, RowsTyped, There
    <3>2. req' \in [Reqs -> Req]
      BY <2>2, OvertakenEffect
    <3> QED BY <2>1, <3>1, <3>2 DEF DepsInv, RowsTyped
  <2>4. EdgesJoinTickets'
    <3> SUFFICES ASSUME NEW u \in Tickets, deps'[u] # {}
                 PROVE  u \in There /\ deps'[u] \subseteq There \ {u}
      BY <2>1 DEF EdgesJoinTickets, There
    <3>1. CASE u = t
      <4>1. deps'[t] = (deps[t] \ q.old) \cup q.new
        BY <2>1 DEF DepsInv, RowsTyped
      <4>2. deps[t] \subseteq There \ {t}
        BY <2>1 DEF DepsInv, EdgesJoinTickets
      <4> QED BY <2>1, <3>1, <4>1, <4>2
    <3>2. CASE u # t
      BY <2>1, <3>2 DEF DepsInv, EdgesJoinTickets, RowsTyped
    <3> QED BY <3>1, <3>2
  <2>5. TriageAsked'
    BY <2>1 DEF DepsInv, TriageAsked
  <2>6. ASSUME NEW p \in Reqs PROVE Walks(p)'
    <3>1. CASE p = r
      <4>1. f[p] = IdleReq /\ f[p].pc = "idle"
        BY <3>1 DEF Finished, DepsInv, RowsTyped, IdleReq
      <4> QED BY <2>a, <4>1, IdleWalks
    <3>2. CASE p # r
      <4>1. f[p] = req[p] /\ req[p] \in Req /\ Walks(p)
        BY <3>2 DEF Finished, DepsInv, RowsTyped
      <4>2. CASE req[p].pc = "idle"
        BY <2>a, <4>1, <4>2 DEF Walks
      <4>3. CASE req[p].pc # "idle"
        BY <2>a, <4>1, <4>3, WalksOvertaken
      <4> QED BY <4>2, <4>3
    <3> QED BY <3>1, <3>2
  <2> QED BY <2>3, <2>4, <2>5, <2>6 DEF DepsInv
<1>6. CASE SaveFails(r)
  <2>1. req' = [req EXCEPT ![r] = IdleReq] /\ UNCHANGED <<status, deps, triage>>
    BY <1>6 DEF SaveFails, Finished
  <2>2. Walks(r)'
    BY <2>1, IdleWalks DEF DepsInv, RowsTyped
  <2> QED BY <2>1, <2>2, IdleReqTyped, RequestMoves
<1> QED BY <1>1, <1>2, <1>3, <1>4, <1>5, <1>6 DEF ReqStep

\* A step that changes the edges and marks every request in flight.
LEMMA EdgesMove ==
  ASSUME DepsInv, req' = Overtaken(req), EdgesJoinTickets', TriageAsked',
         status' \in [Tickets -> Statuses],
         deps' \in [Tickets -> SUBSET Tickets],
         triage' \in [Triagers -> Triage]
  PROVE  DepsInv'
<1>1. req \in [Reqs -> Req]
  BY DEF DepsInv, RowsTyped
<1>2. req' \in [Reqs -> Req]
  BY <1>1, OvertakenEffect
<1>3. ASSUME NEW p \in Reqs PROVE Walks(p)'
  <2>1. Walks(p) /\ req[p] \in Req
    BY <1>1 DEF DepsInv
  <2>2. CASE req[p].pc = "idle"
    BY <1>1, <2>2, OvertakenEffect DEF Walks
  <2>3. CASE req[p].pc # "idle"
    BY <1>1, <2>1, <2>3, OvertakenEffect, WalksOvertaken
  <2> QED BY <2>2, <2>3
<1> QED BY <1>2, <1>3 DEF DepsInv, RowsTyped

\* A deletion.
LEMMA DeleteDeps ==
  ASSUME DepsInv, NEW t \in Tickets, DeleteTicket(t)
  PROVE  DepsInv'
<1>1. /\ status' = [status EXCEPT ![t] = "deleted"]
      /\ deps' = [u \in Tickets |-> IF u = t THEN {} ELSE deps[u] \ {t}]
      /\ req' = Overtaken(req)
      /\ triage' = triage
  BY DEF DeleteTicket, EdgesWithout
<1>2. /\ status' \in [Tickets -> Statuses]
      /\ deps' \in [Tickets -> SUBSET Tickets]
      /\ triage' \in [Triagers -> Triage]
  BY <1>1 DEF DepsInv, RowsTyped, Statuses
<1>3. There \ {t} \subseteq There'
  BY <1>1 DEF There, DepsInv, RowsTyped
<1>4. EdgesJoinTickets'
  BY <1>1, <1>3 DEF EdgesJoinTickets, DepsInv, RowsTyped
<1>5. TriageAsked'
  BY <1>1 DEF DepsInv, TriageAsked
<1> QED BY <1>1, <1>2, <1>4, <1>5, EdgesMove

\* A creation.
LEMMA CreateDeps ==
  ASSUME DepsInv, NEW t \in Tickets, NEW st \in {"todo", "ready"}, CreateTicket(t, st)
  PROVE  DepsInv'
<1>1. /\ status' = [status EXCEPT ![t] = st]
      /\ UNCHANGED <<deps, req, triage>>
  BY DEF CreateTicket
<1>2. RowsTyped'
  BY <1>1 DEF DepsInv, RowsTyped, Statuses
<1>3. There \subseteq There'
  BY <1>1 DEF There, DepsInv, RowsTyped
<1>4. EdgesJoinTickets' /\ TriageAsked'
  BY <1>1, <1>3 DEF EdgesJoinTickets, TriageAsked, DepsInv
<1>5. \A r \in Reqs : Walks(r)'
  BY <1>1, WalksKept DEF DepsInv
<1> QED BY <1>2, <1>4, <1>5 DEF DepsInv

\* Triage's steps.
LEMMA TriageDeps ==
  ASSUME DepsInv, NEW w \in Triagers,
         TriageApplies(w) \/ TriageDrops(w) \/ \E t \in Tickets : TriageAsks(w, t)
  PROVE  DepsInv'
<1>1. ASSUME NEW t \in Tickets, TriageAsks(w, t) PROVE DepsInv'
  <2>1. /\ triage' = [triage EXCEPT ![w] = [ticket |-> t, candidates |-> There \ {t}]]
        /\ UNCHANGED <<status, deps, req>>
    BY <1>1 DEF TriageAsks
  <2>2. RowsTyped'
    BY <2>1 DEF DepsInv, RowsTyped, Triage, There
  <2>3. EdgesJoinTickets' /\ TriageAsked'
    BY <2>1 DEF EdgesJoinTickets, TriageAsked, DepsInv, There, RowsTyped
  <2>4. \A r \in Reqs : Walks(r)'
    BY <2>1, WalksKept DEF DepsInv
  <2> QED BY <2>2, <2>3, <2>4 DEF DepsInv
<1>2. CASE TriageDrops(w)
  <2>1. /\ triage' = [triage EXCEPT ![w] = IdleTriage]
        /\ UNCHANGED <<status, deps, req>>
    BY <1>2 DEF TriageDrops
  <2>2. RowsTyped'
    BY <2>1 DEF DepsInv, RowsTyped, Triage, IdleTriage
  <2>3. EdgesJoinTickets' /\ TriageAsked'
    BY <2>1 DEF EdgesJoinTickets, TriageAsked, DepsInv, There, RowsTyped
  <2>4. \A r \in Reqs : Walks(r)'
    BY <2>1, WalksKept DEF DepsInv
  <2> QED BY <2>2, <2>3, <2>4 DEF DepsInv
<1>3. CASE TriageApplies(w)
  <2> DEFINE t == triage[w].ticket
  <2>1. PICK proposed \in SUBSET triage[w].candidates :
          /\ proposed \subseteq There
          /\ deps' = [deps EXCEPT ![t] = @ \cup proposed]
    BY <1>3 DEF TriageApplies
  <2>2. /\ t \in Tickets /\ t \notin proposed /\ status[t] = "todo"
        /\ status' = [status EXCEPT ![t] = "ready"]
        /\ req' = Overtaken(req)
        /\ triage' = [triage EXCEPT ![w] = IdleTriage]
    BY <1>3 DEF TriageApplies, DepsInv, TriageAsked
  <2>3. /\ status' \in [Tickets -> Statuses]
        /\ deps' \in [Tickets -> SUBSET Tickets]
        /\ triage' \in [Triagers -> Triage]
    BY <2>1, <2>2 DEF DepsInv, RowsTyped, Statuses, There, Triage, IdleTriage
  <2>4. There' = There /\ t \in There
    BY <2>2 DEF There, DepsInv, RowsTyped
  <2>5. EdgesJoinTickets'
    BY <2>1, <2>2, <2>4 DEF EdgesJoinTickets, DepsInv, RowsTyped
  <2>6. TriageAsked'
    BY <2>2 DEF TriageAsked, DepsInv, RowsTyped
  <2> QED BY <2>2, <2>3, <2>5, <2>6, EdgesMove
<1> QED BY <1>1, <1>2, <1>3

\* The invariant is inductive.
LEMMA NextDeps == DepsInv /\ [Next]_vars => DepsInv'
<1> SUFFICES ASSUME DepsInv, [Next]_vars PROVE DepsInv'
  OBVIOUS
<1>1. CASE UNCHANGED vars
  <2>1. RowsTyped' /\ EdgesJoinTickets' /\ TriageAsked'
    BY <1>1 DEF vars, DepsInv, RowsTyped, EdgesJoinTickets, TriageAsked, There
  <2>2. \A r \in Reqs : Walks(r)'
    BY <1>1, WalksKept DEF vars, DepsInv
  <2> QED BY <2>1, <2>2 DEF DepsInv
<1>2. CASE Next
  BY <1>2, ReqStepDeps, DeleteDeps, CreateDeps, TriageDeps DEF Next
<1> QED BY <1>1, <1>2

LEMMA DepsCorrect == Spec => []DepsInv
<1> QED BY InitDeps, NextDeps, PTL DEF Spec

\* The rows stay well formed, an edge joins two tickets that exist, and no
\* ticket ever waits for itself, for any number of tickets, editors and PCs.
THEOREM TypeCorrect == Spec => []TypeOK
<1>1. DepsInv => TypeOK
  BY DEF DepsInv, RowsTyped, EdgesJoinTickets, TypeOK
<1> QED BY <1>1, DepsCorrect, PTL
-----------------------------------------------------------------------------
(* The cycle check.                                                         *)

\* Taking edges away makes no cycle.
LEMMA FewerEdges ==
  ASSUME NEW e, NEW f, \A t \in Tickets : f[t] \subseteq e[t], Acyclic(e)
  PROVE  Acyclic(f)
<1> SUFFICES ASSUME NEW t \in Tickets PROVE ~Reaches(f, f[t], t)
  BY DEF Acyclic
<1>1. PICK S \in SUBSET Tickets : e[t] \subseteq S /\ ClosedUnder(e, S) /\ t \notin S
  BY DEF Acyclic, Reaches
<1>2. f[t] \subseteq S /\ ClosedUnder(f, S)
  BY <1>1 DEF ClosedUnder
<1> QED BY <1>1, <1>2 DEF Reaches

\* A walk that met every node reachable from the new dependencies and never
\* the ticket shows that they make no cycle. A ticket the walk has seen is
\* still cut off by the old edges within what was seen; any other by the
\* old edges and all that was seen.
LEMMA SoundWalk ==
  ASSUME NEW e, NEW t \in Tickets, NEW new \in SUBSET Tickets,
         NEW seen \in SUBSET Tickets, t \notin seen, new \subseteq seen,
         \A n \in seen : e[n] \subseteq seen,
         NEW f, f[t] = new, \A u \in Tickets \ {t} : f[u] = e[u],
         Acyclic(e)
  PROVE  Acyclic(f)
<1> SUFFICES ASSUME NEW u \in Tickets PROVE ~Reaches(f, f[u], u)
  BY DEF Acyclic
<1>1. ClosedUnder(f, seen)
  BY DEF ClosedUnder
<1>2. CASE u = t
  BY <1>1, <1>2 DEF Reaches
<1>3. CASE u # t
  <2>1. PICK S \in SUBSET Tickets : e[u] \subseteq S /\ ClosedUnder(e, S) /\ u \notin S
    BY DEF Acyclic, Reaches
  <2>2. CASE u \in seen
    <3>1. f[u] \subseteq S \cap seen /\ ClosedUnder(f, S \cap seen)
      BY <1>3, <2>1, <2>2 DEF ClosedUnder
    <3> QED BY <2>1, <3>1 DEF Reaches
  <2>3. CASE u \notin seen
    <3>1. f[u] \subseteq S \cup seen /\ ClosedUnder(f, S \cup seen)
      BY <1>1, <1>3, <2>1 DEF ClosedUnder
    <3> QED BY <2>1, <2>3, <3>1 DEF Reaches
  <2> QED BY <2>2, <2>3
<1> QED BY <1>2, <1>3

\* Only triage and a save whose walk was overtaken can make tickets wait for
\* one another.
LEMMA NextCycle ==
  ASSUME DepsInv, [Next]_vars, Acyclic(deps), ~Acyclic(deps')
  PROVE  \/ \E w \in Triagers : triage[w] # IdleTriage /\ triage'[w] = IdleTriage
         \/ \E r \in Reqs : req[r].pc = "save" /\ req'[r].pc = "idle" /\ req[r].overtaken
<1>1. \/ \E r \in Reqs : SaveCommits(r)
      \/ \E t \in Tickets : DeleteTicket(t)
      \/ \E w \in Triagers : TriageApplies(w)
  BY DEF Next, vars, ReqStep, PatchDeps, WalkRefuses, WalkVisits, WalkPasses, SaveFails,
         CreateTicket, TriageDrops, TriageAsks
<1>2. CASE \E t \in Tickets : DeleteTicket(t)
  <2>1. \A u \in Tickets : deps'[u] \subseteq deps[u]
    BY <1>2 DEF DeleteTicket, EdgesWithout
  <2> QED BY <2>1, FewerEdges
<1>3. ASSUME NEW w \in Triagers, TriageApplies(w)
      PROVE  triage[w] # IdleTriage /\ triage'[w] = IdleTriage
  BY <1>3 DEF TriageApplies, DepsInv, RowsTyped
<1>4. ASSUME NEW r \in Reqs, SaveCommits(r)
      PROVE  req[r].pc = "save" /\ req'[r].pc = "idle" /\ req[r].overtaken
  <2> DEFINE q == req[r]
  <2>1. /\ q \in Req /\ q.pc = "save" /\ Walks(r)
        /\ deps' = [deps EXCEPT ![q.ticket] = (deps[q.ticket] \ q.old) \cup q.new]
        /\ req' = Overtaken(Finished(r))
    BY <1>4 DEF SaveCommits, Replaced, DepsInv, RowsTyped
  <2>2. req'[r].pc = "idle"
    BY <2>1 DEF Overtaken, Finished, IdleReq, DepsInv, RowsTyped
  <2>3. ASSUME ~q.overtaken PROVE FALSE
    <3>1. /\ q.ticket \in Tickets /\ q.ticket \notin q.seen /\ q.new \subseteq q.seen
          /\ \A n \in q.seen : deps[n] \subseteq q.seen
          /\ q.old = deps[q.ticket]
      BY <2>1, <2>3 DEF Walks
    <3>2. /\ deps'[q.ticket] = q.new
          /\ \A u \in Tickets \ {q.ticket} : deps'[u] = deps[u]
      BY <2>1, <3>1 DEF DepsInv, RowsTyped
    <3>3. q.new \in SUBSET Tickets /\ q.seen \in SUBSET Tickets
      BY <2>1 DEF Req
    <3> HIDE DEF q
    <3> QED BY <3>1, <3>2, <3>3, SoundWalk
  <2> QED BY <2>1, <2>2, <2>3
<1> QED BY <1>1, <1>2, <1>3, <1>4

\* The cycle check is sound: with no other commit during its walk, no save
\* makes tickets wait for one another, for any graph and any number of others
\* who edit it.
THEOREM CyclesNeedRaces == Spec => CycleNeedsRace
<1>1. DepsInv /\ [Next]_vars =>
        [Acyclic(deps) /\ ~Acyclic(deps') =>
           \/ \E w \in Triagers : triage[w] # IdleTriage /\ triage'[w] = IdleTriage
           \/ \E r \in Reqs : req[r].pc = "save" /\ req'[r].pc = "idle" /\ req[r].overtaken]_vars
  BY NextCycle
<1> QED BY <1>1, DepsCorrect, PTL DEF Spec, CycleNeedsRace

\* A request's pc moves only by a step of its own: the others' mark it at most.
LEMMA OwnStep ==
  ASSUME DepsInv, [Next]_vars, NEW r \in Reqs, req'[r].pc # req[r].pc
  PROVE  ReqStep(r)
<1>1. /\ req \in [Reqs -> Req]
      /\ \A q \in Req : [q EXCEPT !.overtaken = TRUE].pc = q.pc
  BY DEF DepsInv, RowsTyped, Req
<1>2. ASSUME NEW f \in [Reqs -> Req], f[r] = req[r] PROVE req' # Overtaken(f)
  BY <1>1, <1>2 DEF Overtaken
<1>3. req' # Overtaken(req)
  BY <1>1, <1>2
<1>4. ASSUME NEW p \in Reqs, ReqStep(p) PROVE p = r
  <2> SUFFICES ASSUME p # r PROVE FALSE
    OBVIOUS
  <2>1. ~SaveCommits(p)
    <3>1. Finished(p) \in [Reqs -> Req] /\ Finished(p)[r] = req[r]
      BY <1>1, IdleReqTyped DEF Finished
    <3> QED BY <1>2, <3>1 DEF SaveCommits
  <2>2. ASSUME NEW rec PROVE req' # [req EXCEPT ![p] = rec]
    BY <1>1
  <2> QED BY <1>4, <2>1, <2>2 DEF ReqStep, PatchDeps, WalkRefuses, WalkVisits, WalkPasses,
          SaveFails, Finished
<1>5. Next /\ req' # req
  BY DEF vars
<1>6. \E p \in Reqs : ReqStep(p)
  BY <1>3, <1>5 DEF Next, DeleteTicket, CreateTicket, TriageApplies, TriageDrops, TriageAsks
<1> QED BY <1>4, <1>6

\* A request stops walking without a save only by meeting its own ticket.
LEMMA NextRefuses ==
  ASSUME DepsInv, [Next]_vars, NEW r \in Reqs,
         req[r].pc = "walk", req'[r].pc = "idle", ~req[r].overtaken
  PROVE  Reaches(deps, req[r].new, req[r].ticket)
<1>1. req \in [Reqs -> Req] /\ ReqStep(r)
  BY OwnStep DEF DepsInv, RowsTyped
<1>2. ~WalkVisits(r)
  <2> SUFFICES ASSUME WalkVisits(r) PROVE FALSE
    OBVIOUS
  <2>1. PICK n \in Tickets :
          req' = [req EXCEPT ![r] =
            IF Seen(r, n) THEN [@ EXCEPT !.stack = req[r].stack \ {n}]
            ELSE [@ EXCEPT !.stack = (req[r].stack \ {n}) \cup Successors(n),
                           !.seen = req[r].seen \cup {n}]]
    BY <1>1 DEF WalkVisits, Req
  <2>2. /\ [req[r] EXCEPT !.stack = req[r].stack \ {n}].pc = "walk"
        /\ [req[r] EXCEPT !.stack = (req[r].stack \ {n}) \cup Successors(n),
                          !.seen = req[r].seen \cup {n}].pc = "walk"
    BY <1>1 DEF Req
  <2> QED BY <1>1, <2>1, <2>2
<1>3. ~WalkPasses(r)
  <2>1. [req[r] EXCEPT !.pc = "save", !.old = deps[req[r].ticket]].pc = "save"
    BY <1>1 DEF Req
  <2> QED BY <1>1, <2>1 DEF WalkPasses
<1>4. /\ \A t \in Tickets, new \in SUBSET Tickets : ~PatchDeps(r, t, new)
      /\ ~SaveFails(r) /\ ~SaveCommits(r)
  BY DEF PatchDeps, SaveFails, SaveCommits
<1>5. WalkRefuses(r)
  BY <1>1, <1>2, <1>3, <1>4 DEF ReqStep
<1> QED BY <1>5 DEF WalkRefuses, DepsInv, Walks, Reaches

\* The cycle check is complete: undisturbed, it refuses a save only if the
\* new dependencies do lead back to the ticket.
THEOREM OnlyCyclesRefused == Spec => RefusesOnlyCycles
<1>1. DepsInv /\ [Next]_vars =>
        [\A r \in Reqs :
           req[r].pc = "walk" /\ req'[r].pc = "idle" /\ ~req[r].overtaken =>
             Reaches(deps, req[r].new, req[r].ticket)]_vars
  BY NextRefuses
<1> QED BY <1>1, DepsCorrect, PTL DEF Spec, RefusesOnlyCycles

\* A save gives the ticket what was asked for or leaves the table alone.
LEMMA NextSave ==
  ASSUME DepsInv, [Next]_vars, NEW r \in Reqs,
         req[r].pc = "save", req'[r].pc = "idle", deps' # deps
  PROVE  LET t == req[r].ticket
         IN  req[r].new \subseteq deps'[t]
             /\ (deps'[t] = req[r].new \/ req[r].overtaken)
<1>1. ReqStep(r) /\ req[r] \in Req
  BY OwnStep DEF DepsInv, RowsTyped
<1>2. SaveCommits(r)
  BY <1>1 DEF ReqStep, PatchDeps, WalkRefuses, WalkVisits, WalkPasses, SaveFails
<1>3. /\ req[r].ticket \in Tickets
      /\ ~req[r].overtaken => req[r].old = deps[req[r].ticket]
  BY DEF DepsInv, Walks
<1>4. deps'[req[r].ticket] = (deps[req[r].ticket] \ req[r].old) \cup req[r].new
  BY <1>2, <1>3 DEF SaveCommits, Replaced, DepsInv, RowsTyped
<1> QED BY <1>3, <1>4

\* A save is all or nothing: it replaces the ticket's dependencies by the new
\* ones, but for rows added under it, or changes no edge at all.
THEOREM SavesAreWhole == Spec => SaveIsWhole
<1>1. DepsInv /\ [Next]_vars =>
        [\A r \in Reqs :
           req[r].pc = "save" /\ req'[r].pc = "idle" /\ deps' # deps =>
             LET t == req[r].ticket
             IN  req[r].new \subseteq deps'[t]
                 /\ (deps'[t] = req[r].new \/ req[r].overtaken)]_vars
  BY NextSave
<1> QED BY <1>1, DepsCorrect, PTL DEF Spec, SaveIsWhole
=============================================================================
