------------------------------ MODULE TicketDeps ------------------------------
(***************************************************************************)
(* The dependency graph of kanban-cloud: the ticket_deps table, the editor  *)
(* that replaces a ticket's edges after a cycle check, triage, which adds   *)
(* the edges a model proposes, and the deletion of tickets.                 *)
(*                                                                          *)
(* The cycle check walks the table with one SELECT per node and locks       *)
(* nothing, so that a handler is one action per SELECT and one per commit.  *)
(* What the edges are for, the claim gate, is in WorkQueue (DepsMet).       *)
(***************************************************************************)
EXTENDS FiniteSets

CONSTANTS
  Tickets,   \* the tickets of one cluster that may come to exist
  Reqs,      \* the server's request threads
  Triagers   \* the PCs that triage

VARIABLES
  status,    \* tickets.status, as far as triage and deletion look at it
  deps,      \* deps[t]: the depends_on_id of ticket_deps' rows of t
  req,       \* the editor's saves in flight
  triage     \* each PC's ticket whose triage prompt is out

vars == <<status, deps, req, triage>>

Nobody == "nobody"

\* "todo" stands for an untriaged todo ticket, "ready" for every later state.
Statuses == {"absent", "todo", "ready", "deleted"}
There    == {t \in Tickets : status[t] \in {"todo", "ready"}}

\* stack, seen: dep_creates_cycle's. old: the rows it is about to delete.
\* overtaken: no column of the program; edges changed since the walk began.
Req == [pc : {"idle", "walk", "save"}, ticket : Tickets \cup {Nobody},
        new : SUBSET Tickets, stack : SUBSET Tickets, seen : SUBSET Tickets,
        old : SUBSET Tickets, overtaken : BOOLEAN]
IdleReq == [pc |-> "idle", ticket |-> Nobody, new |-> {}, stack |-> {}, seen |-> {},
            old |-> {}, overtaken |-> FALSE]

Triage     == [ticket : Tickets \cup {Nobody}, candidates : SUBSET Tickets]
IdleTriage == [ticket |-> Nobody, candidates |-> {}]

Init ==
  /\ status = [t \in Tickets |-> "absent"]
  /\ deps = [t \in Tickets |-> {}]
  /\ req = [r \in Reqs |-> IdleReq]
  /\ triage = [w \in Triagers |-> IdleTriage]

\* The requests after r has finished with the edges as they are, and after
\* edges changed under all the others.
Finished(r)  == [req EXCEPT ![r] = IdleReq]
Overtaken(f) == [r \in Reqs |-> IF f[r].pc = "idle" THEN f[r]
                                ELSE [f[r] EXCEPT !.overtaken = TRUE]]
-----------------------------------------------------------------------------
(* The server.                                                              *)

CreateTicket(t, st) ==
  /\ status[t] = "absent"
  /\ status' = [status EXCEPT ![t] = st]
  /\ UNCHANGED <<deps, req, triage>>

\* Where dep_creates_cycle's walk starts: at the new dependencies, the current
\* ones being about to be replaced.
WithCurrent(t, new) == new \cup deps[t]                          \* mutant
WalkFrom(t, new) == new

\* patch_ticket with depends_on, as far as the checks of set_ticket_deps that
\* need no walk: the ticket and every dependency exist.
PatchDeps(r, t, new) ==
  /\ req[r].pc = "idle"
  /\ t \in There /\ new \subseteq There
  /\ req' = [req EXCEPT ![r] = [IdleReq EXCEPT !.pc = "walk", !.ticket = t, !.new = new,
                                               !.stack = WalkFrom(t, new)]]
  /\ UNCHANGED <<status, deps, triage>>

\* dep_creates_cycle pops a node that is the ticket: the save is refused.
WalkRefuses(r) ==
  /\ req[r].pc = "walk"
  /\ req[r].ticket \in req[r].stack
  /\ req' = Finished(r)
  /\ UNCHANGED <<status, deps, triage>>

\* It pops any other node, and reads the edges of one it has not seen. The
\* order of the stack is left open.
NothingSeen(r, n) == FALSE                                       \* mutant
Seen(r, n) == n \in req[r].seen
NoSuccessors(n) == {}                                            \* mutant
Successors(n) == deps[n]
WalkVisits(r) ==
  /\ req[r].pc = "walk"
  /\ \E n \in req[r].stack \ {req[r].ticket} :
       LET rest == req[r].stack \ {n}
       IN  req' = [req EXCEPT ![r] =
             IF Seen(r, n) THEN [@ EXCEPT !.stack = rest]
             ELSE [@ EXCEPT !.stack = rest \cup Successors(n),
                            !.seen = req[r].seen \cup {n}]]
  /\ UNCHANGED <<status, deps, triage>>

\* Nothing is left to visit: set_ticket_deps reads the rows it will delete.
WalkPasses(r) ==
  /\ req[r].pc = "walk" /\ req[r].stack = {}
  /\ req' = [req EXCEPT ![r] = [@ EXCEPT !.pc = "save", !.old = deps[req[r].ticket]]]
  /\ UNCHANGED <<status, deps, triage>>

\* The ORM inserts the new rows before it deletes the old ones, and the
\* database refuses a pair that is there already and an edge to or from a
\* ticket that is gone: the transaction fails as a whole.
Refused(r) ==
  \/ req[r].new \cap deps[req[r].ticket] # {}
  \/ ~(req[r].new \cup {req[r].ticket} \subseteq There)

KeepsOld(r) == deps[req[r].ticket] \cup req[r].new               \* mutant
Replaced(r) == (deps[req[r].ticket] \ req[r].old) \cup req[r].new

SaveCommits(r) ==
  /\ req[r].pc = "save" /\ ~Refused(r)
  /\ deps' = [deps EXCEPT ![req[r].ticket] = Replaced(r)]
  /\ req' = Overtaken(Finished(r))
  /\ UNCHANGED <<status, triage>>

SaveFails(r) ==
  /\ req[r].pc = "save" /\ Refused(r)
  /\ req' = Finished(r)
  /\ UNCHANGED <<status, deps, triage>>

\* delete_ticket: the ticket goes, with its edges in both directions. A row
\* somebody adds meanwhile fails this commit or that one, so that the two
\* steps are one here.
EdgesWithout(t) == [u \in Tickets |-> IF u = t THEN {} ELSE deps[u] \ {t}]
DeleteTicket(t) ==
  /\ t \in There
  /\ status' = [status EXCEPT ![t] = "deleted"]
  /\ deps' = EdgesWithout(t)
  /\ req' = Overtaken(req)
  /\ UNCHANGED triage
-----------------------------------------------------------------------------
(* The worker's triage.                                                     *)

\* The candidates are read, and the prompt is answered up to two minutes
\* later.
TriageAsks(w, t) ==
  /\ triage[w] = IdleTriage
  /\ status[t] = "todo"
  /\ triage' = [triage EXCEPT ![w] = [ticket |-> t, candidates |-> There \ {t}]]
  /\ UNCHANGED <<status, deps, req>>

\* parse_triage_result accepts any of the candidates; _apply_triage_one adds
\* them to what is there, unless the ticket is no untriaged todo by now.
TriageApplies(w) ==
  LET t == triage[w].ticket
  IN  /\ triage[w] # IdleTriage
      /\ status[t] = "todo"
      /\ \E proposed \in SUBSET triage[w].candidates :
           /\ proposed \subseteq There
           /\ deps' = [deps EXCEPT ![t] = @ \cup proposed]
      /\ status' = [status EXCEPT ![t] = "ready"]
      /\ req' = Overtaken(req)
      /\ triage' = [triage EXCEPT ![w] = IdleTriage]

\* The reply is unusable, the ticket is taken, or a candidate is gone.
TriageDrops(w) ==
  /\ triage[w] # IdleTriage
  /\ triage' = [triage EXCEPT ![w] = IdleTriage]
  /\ UNCHANGED <<status, deps, req>>
-----------------------------------------------------------------------------
ReqStep(r) ==
  \/ \E t \in Tickets, new \in SUBSET Tickets : PatchDeps(r, t, new)
  \/ WalkRefuses(r) \/ WalkVisits(r) \/ WalkPasses(r)
  \/ SaveCommits(r) \/ SaveFails(r)

Next ==
  \/ \E r \in Reqs : ReqStep(r)
  \/ \E t \in Tickets : DeleteTicket(t)
  \/ \E t \in Tickets, st \in {"todo", "ready"} : CreateTicket(t, st)
  \/ \E w \in Triagers : TriageApplies(w) \/ TriageDrops(w)
                         \/ \E t \in Tickets : TriageAsks(w, t)

Spec == Init /\ [][Next]_vars

\* A request that is being served goes on.
FairSpec ==
  /\ Spec
  /\ \A r \in Reqs : WF_vars(WalkRefuses(r) \/ WalkVisits(r) \/ WalkPasses(r))
-----------------------------------------------------------------------------
(* Safety.                                                                  *)

\* The reference definition of reachability: to is in every set that contains
\* from and is closed under the edges.
ClosedUnder(edges, S)    == \A n \in S : edges[n] \subseteq S
Reaches(edges, from, to) ==
  \A S \in SUBSET Tickets : from \subseteq S /\ ClosedUnder(edges, S) => to \in S

Acyclic(edges) == \A t \in Tickets : ~Reaches(edges, edges[t], t)

\* An edge joins two tickets that exist, and no ticket waits for itself, when
\* tickets are deleted under a save or a triage that names them.
TypeOK ==
  /\ status \in [Tickets -> Statuses]
  /\ deps \in [Tickets -> SUBSET Tickets]
  /\ req \in [Reqs -> Req]
  /\ triage \in [Triagers -> Triage]
  /\ \A t \in Tickets : deps[t] # {} => t \in There /\ deps[t] \subseteq There \ {t}

\* "Rejects the save outright if it would create a cycle" (STATUS.md), as far
\* as that is true: tickets come to wait for one another only through triage,
\* which does not look, or through a save whose walk another commit overtook.
CycleNeedsRace ==
  [][Acyclic(deps) /\ ~Acyclic(deps') =>
       \/ \E w \in Triagers : triage[w] # IdleTriage /\ triage'[w] = IdleTriage
       \/ \E r \in Reqs : req[r].pc = "save" /\ req'[r].pc = "idle" /\ req[r].overtaken]_vars

\* A save is refused for a cycle only if it would make one: in particular the
\* walk lets an edit that takes a cycle apart pass. (Its commit may still fail on
\* the unique pair of a dependency that is kept: SaveIsWhole.)
RefusesOnlyCycles ==
  [][\A r \in Reqs :
       req[r].pc = "walk" /\ req'[r].pc = "idle" /\ ~req[r].overtaken =>
         Reaches(deps, req[r].new, req[r].ticket)]_vars

\* A save leaves the ticket with what was asked for, but for rows somebody
\* added after it had read the old ones, or leaves the table alone.
SaveIsWhole ==
  [][\A r \in Reqs :
       req[r].pc = "save" /\ req'[r].pc = "idle" /\ deps' # deps =>
         LET t == req[r].ticket
         IN  req[r].new \subseteq deps'[t]
             /\ (deps'[t] = req[r].new \/ req[r].overtaken)]_vars
-----------------------------------------------------------------------------
\* The cycle check ends, on a graph that triage or a race has made cyclic too
\* and while others go on editing it.
WalkEnds ==
  \A r \in Reqs : req[r].pc = "walk" ~> req[r].pc # "walk"
=============================================================================
