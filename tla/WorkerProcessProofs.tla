------------------------- MODULE WorkerProcessProofs -------------------------
(* Theorems about WorkerProcess, for any requests, slots, passwords, starts. *)
EXTENDS WorkerProcess, FiniteSetTheorems, TLAPS

\* A request that changed the role waits for its reply only if it enrols, and
\* the passwords in use are issued ones.
RequestsSane ==
  /\ \A r \in Reqs :
       req[r].pc = "reply" => req[r].op = "enroll" /\ req[r].key \in 1..issued
  /\ file.key <= issued /\ main.key <= issued

\* While nothing overlapped, one request at most is under way; flag and role
\* are those of the last one, or the flag is ahead of the role; and the key of
\* a reply is newer than what the file and the process hold.
Undisturbed ==
  ~overlapped =>
    /\ \A q, r \in Reqs : Busy(q) /\ Busy(r) => q = r
    /\ Quiet => (revoked <=> role = 0)
    /\ \A r \in Reqs :
         /\ Busy(r) => (revoked <=> req[r].op = "revoke")
         /\ Busy(r) /\ req[r].pc = "reply" =>
              role # 0 /\ file.key <= req[r].key /\ main.key <= req[r].key

ServerInv == TypeOK /\ RequestsSane /\ Undisturbed

\* Before the stop event no claim is late, and a slot about to claim after it
\* has claimed nothing late.
LateInv ==
  \A s \in Slots :
    /\ late[s] <= 1
    /\ ~stop \/ slot[s] = "poll" => late[s] = 0

\* What the steps of every slot leave alone.
OtherThanSlots == <<server, file, main, starts>>
-----------------------------------------------------------------------------
(* Type correctness, action by action.                                      *)

LEMMA InitTyped == Init => TypeOK
<1> SUFFICES ASSUME Init PROVE TypeOK
  OBVIOUS
<1>1. 1 \in Keys /\ 0 \in Conc
  BY BoundsAssumption DEF Keys, Conc
<1>2. Idle \in Req /\ Stopped \in Process /\ file \in Config
  BY <1>1 DEF Init, Idle, Req, Stopped, Process, Config
<1>3. slot \in [Slots -> SlotPc] /\ conn \in [Slots -> Conn] /\ late \in [Slots -> Nat]
  BY DEF Init, SlotPc, Conn
<1>4. req \in [Reqs -> Req]
  BY <1>2 DEF Init
<1>5. main \in Process /\ main.pc # "up"
  BY <1>2 DEF Init, Stopped
<1>6. revoked \in BOOLEAN /\ overlapped \in BOOLEAN /\ stop \in BOOLEAN
  BY DEF Init
<1> QED BY <1>1, <1>2, <1>3, <1>4, <1>5, <1>6 DEF Init, TypeOK

\* What a request's step does to its row and to the sessions.
LEMMA RequestRows ==
  ASSUME TypeOK, NEW r \in Reqs
  PROVE  /\ Idle \in Req
         /\ Done(r) \in [Reqs -> Req]
         /\ Kicked \in [Slots -> Conn]
         /\ Orphaned \in [Slots -> Conn]
         /\ \A pc \in {"kick", "role", "reply"}, k \in Keys :
              /\ [req[r] EXCEPT !.pc = pc] \in Req
              /\ [req[r] EXCEPT !.pc = pc, !.key = k] \in Req
<1>1. Idle \in Req
  BY DEF Idle, Req
<1> QED BY <1>1 DEF TypeOK, Done, Kicked, Orphaned, Conn, Req

LEMMA ServerTyped ==
  ASSUME TypeOK, RequestsSane, NEW r \in Reqs,
         Request(r) \/ RequestFails(r) \/ \E op \in {"enroll", "revoke"} : Begins(r, op)
  PROVE  TypeOK'
<1> USE DEF server, process
<1>1. CASE \E op \in {"enroll", "revoke"} : Begins(r, op)
  <2> PICK op \in {"enroll", "revoke"} : Begins(r, op)
    BY <1>1
  <2>1. [op |-> op, pc |-> "kick", key |-> 0] \in Req
    BY DEF Req
  <2> QED BY <2>1 DEF Begins, FlagAfter, TypeOK
<1>2. CASE Kicks(r)
  <2>1. req' \in [Reqs -> Req]
    <3>1. req' = [req EXCEPT ![r] = [req[r] EXCEPT !.pc = "role"]]
      BY <1>2 DEF Kicks, TypeOK, Req
    <3>2. [req[r] EXCEPT !.pc = "role"] \in Req
      BY DEF TypeOK, Req
    <3> QED BY <3>1, <3>2 DEF TypeOK
  <2> QED BY <1>2, <2>1, RequestRows DEF Kicks, TypeOK
<1>3. CASE Provisions(r)
  <2>1. issued + 1 \in Keys
    BY <1>3, BoundsAssumption DEF Provisions, TypeOK, Keys
  <2>2. req' \in [Reqs -> Req]
    <3>1. req' = [req EXCEPT ![r] = [req[r] EXCEPT !.pc = "reply", !.key = issued + 1]]
      BY <1>3 DEF Provisions, TypeOK, Req
    <3>2. [req[r] EXCEPT !.pc = "reply", !.key = issued + 1] \in Req
      BY <2>1 DEF TypeOK, Req
    <3> QED BY <3>1, <3>2 DEF TypeOK
  <2> QED BY <1>3, <2>1, <2>2, RequestRows DEF Provisions, TypeOK
<1>4. CASE DropsRole(r)
  BY <1>4, RequestRows DEF DropsRole, TypeOK
<1>5. CASE ReplyLost(r)
  BY <1>5, RequestRows DEF ReplyLost, TypeOK
<1>6. CASE RequestFails(r)
  BY <1>6, RequestRows DEF RequestFails, TypeOK
<1>7. CASE EnrollSaves(r)
  <2>1. [key |-> req[r].key, conc |-> 0] \in Config
    BY <1>7, BoundsAssumption
       DEF EnrollSaves, RequestsSane, TypeOK, Config, Conc, Keys
  <2> QED BY <1>7, <2>1, RequestRows DEF EnrollSaves, TypeOK
<1> QED
  BY <1>1, <1>2, <1>3, <1>4, <1>5, <1>6, <1>7 DEF Request

\* The process starts n slots, in the limits of the PC, and may save that n.
LEMMA LaunchEffect ==
  ASSUME TypeOK,
         \E reached, renamed \in BOOLEAN, desired, flag \in Conc :
           Launch(reached, renamed, desired, flag)
  PROVE  \E n \in Slots \cap Conc :
           /\ file' = file \/ file' = [key |-> main.key, conc |-> n]
           /\ main' = [main EXCEPT !.pc = "up", !.conc = n]
           /\ slot' = [s \in Slots |-> IF s <= n THEN "top" ELSE "off"]
<1> PICK reached \in BOOLEAN, renamed \in BOOLEAN, desired \in Conc, flag \in Conc :
         Launch(reached, renamed, desired, flag)
  OBVIOUS
<1> DEFINE n == Resolved(flag, desired)
<1>1. n \in Slots \cap Conc
  BY BoundsAssumption DEF Resolved, TypeOK, Process, Conc, Slots
<1>2. file' = file \/ file' = [key |-> main.key, conc |-> n]
  BY DEF Launch
<1>3. /\ main' = [main EXCEPT !.pc = "up", !.conc = n]
      /\ slot' = [s \in Slots |-> IF s <= n THEN "top" ELSE "off"]
  BY DEF Launch
<1> HIDE DEF n
<1> QED BY <1>1, <1>2, <1>3

LEMMA ProcessTyped ==
  ASSUME TypeOK,
         \/ \E once \in BOOLEAN : Start(once)
         \/ \E reached, renamed \in BOOLEAN, desired, flag \in Conc :
              Launch(reached, renamed, desired, flag)
         \/ LeavesLoop \/ JoinsSlots \/ Crash
  PROVE  TypeOK'
<1> USE DEF server
<1>1. CASE \E once \in BOOLEAN : Start(once)
  <2> PICK once \in BOOLEAN : Start(once)
    BY <1>1
  <2>1. main' \in Process /\ main'.pc = "settings"
    BY DEF Start, TypeOK, Config, Process
  <2> QED BY <2>1 DEF Start, TypeOK
<1>2. CASE \E reached, renamed \in BOOLEAN, desired, flag \in Conc :
             Launch(reached, renamed, desired, flag)
  <2> PICK n \in Slots \cap Conc :
           /\ file' = file \/ file' = [key |-> main.key, conc |-> n]
           /\ main' = [main EXCEPT !.pc = "up", !.conc = n]
    BY <1>2, LaunchEffect
  <2> PICK reached \in BOOLEAN, renamed \in BOOLEAN, desired \in Conc, flag \in Conc :
           Launch(reached, renamed, desired, flag)
    BY <1>2
  <2>4. main' \in Process /\ main'.conc \in Slots
    BY DEF TypeOK, Process
  <2>5. file' \in Config
    BY DEF TypeOK, Config, Process
  <2>6. slot' \in [Slots -> SlotPc] /\ late' \in [Slots -> Nat]
    BY DEF Launch, SlotPc
  <2>7. stop' \in BOOLEAN
    BY DEF Launch
  <2>8. running' = 0 /\ UNCHANGED <<server, conn, starts>>
    BY DEF Launch
  <2> QED BY <2>4, <2>5, <2>6, <2>7, <2>8 DEF TypeOK
<1>3. CASE LeavesLoop
  <2>1. main' \in Process /\ main'.pc = "join"
    BY <1>3 DEF LeavesLoop, TypeOK, Process
  <2> QED BY <1>3, <2>1 DEF LeavesLoop, TypeOK
<1>4. CASE JoinsSlots \/ Crash
  <2>1. Exits
    BY <1>4 DEF JoinsSlots, Crash
  <2>2. Stopped \in Process /\ Stopped.pc # "up"
    BY BoundsAssumption DEF Stopped, Process, Keys, Conc
  <2>3. /\ slot' \in [Slots -> SlotPc] /\ conn' \in [Slots -> Conn]
        /\ late' \in [Slots -> Nat]
    BY <2>1 DEF Exits, SlotPc, Conn
  <2>4. stop' \in BOOLEAN
    BY <2>1 DEF Exits
  <2>5. running' \in Int /\ main' = Stopped /\ UNCHANGED <<server, file, starts>>
    BY <2>1 DEF Exits
  <2> QED BY <2>2, <2>3, <2>4, <2>5 DEF TypeOK
<1> QED BY <1>1, <1>2, <1>3, <1>4

\* A pass ends with the slot at the head of its loop or, under --once, gone.
LEMMA PassEffect ==
  ASSUME NEW s \in Slots, NEW c \in Conn, PassEnds(s, c)
  PROVE  \E to \in {"off", "top"}, now \in Conn :
           SlotGoes(s, to) /\ ConnIs(s, now) /\ (to = "off" => main.once)
BY DEF PassEnds, Conn

\* What any step of a slot may change, and where it may go.
LEMMA SlotEffect ==
  ASSUME TypeOK, NEW s \in Slots, SlotStep(s) \/ ConnDrops(s)
  PROVE  /\ UNCHANGED OtherThanSlots
         /\ \E now \in Conn : conn' = [conn EXCEPT ![s] = now]
         /\ \E to \in SlotPc : slot' = [slot EXCEPT ![s] = to]
         /\ stop => stop'
         /\ stop' \in BOOLEAN
         /\ slot'[s] = "off" => stop' \/ main.once \/ slot[s] = "off"
         /\ \/ /\ UNCHANGED <<running, late>>
               /\ (slot[s] = "exec" <=> slot'[s] = "exec")
               /\ slot'[s] = "poll" => slot[s] = "poll" \/ ~stop'
            \/ Claims(s) \/ EndsRun(s)
<1> USE DEF server, process, OtherThanSlots
<1> DEFINE Moves(to) == slot' = [slot EXCEPT ![s] = to]
<1>1. CASE SlotLoops(s)
  BY <1>1 DEF SlotLoops, GoesOn, SlotGoes, ConnIs, TypeOK, SlotPc, Conn
<1>2. CASE SlotConnects(s)
  BY <1>2 DEF SlotConnects, SlotGoes, ConnIs, TypeOK, SlotPc, Conn
<1>3. CASE SlotRejected(s)
  BY <1>3 DEF SlotRejected, SlotGoes, ConnIs, TypeOK, SlotPc, Conn
<1>4. CASE SlotFails(s) \/ FindsNothing(s) \/ Reports(s)
  <2>1. \E c \in Conn : PassEnds(s, c)
    BY <1>4 DEF SlotFails, FindsNothing, Reports, Conn
  <2>2. PICK to \in {"off", "top"}, now \in Conn :
               SlotGoes(s, to) /\ ConnIs(s, now) /\ (to = "off" => main.once)
    BY <2>1, PassEffect
  <2>3. slot'[s] = to /\ slot[s] # "exec"
    BY <1>4, <2>2 DEF SlotFails, FindsNothing, Reports, SlotGoes, TypeOK
  <2>4. to \in SlotPc
    BY DEF SlotPc
  <2>5. stop' = stop /\ stop \in BOOLEAN /\ UNCHANGED OtherThanSlots
    BY <1>4 DEF SlotFails, FindsNothing, Reports, TypeOK
  <2>6. UNCHANGED <<running, late>>
    BY <1>4 DEF SlotFails, FindsNothing, Reports
  <2> QED
    BY <2>2, <2>3, <2>4, <2>5, <2>6 DEF SlotGoes, ConnIs
<1>5. CASE Claims(s) \/ EndsRun(s)
  BY <1>5 DEF Claims, EndsRun, SlotGoes, TypeOK, SlotPc, Conn
<1>6. CASE ConnDrops(s)
  BY <1>6 DEF ConnDrops, TypeOK, SlotPc, Conn
<1> QED BY <1>1, <1>2, <1>3, <1>4, <1>5, <1>6 DEF SlotStep, SlotPasses

LEMMA SlotTyped ==
  ASSUME TypeOK, NEW s \in Slots, SlotStep(s) \/ ConnDrops(s)
  PROVE  TypeOK'
<1>1. slot' \in [Slots -> SlotPc] /\ conn' \in [Slots -> Conn] /\ stop' \in BOOLEAN
  BY SlotEffect DEF TypeOK
<1>2. running' \in Int /\ late' \in [Slots -> Nat]
  BY SlotEffect DEF TypeOK, Claims, EndsRun
<1> QED
  BY <1>1, <1>2, SlotEffect DEF TypeOK, OtherThanSlots, server
-----------------------------------------------------------------------------
(* The server's invariant.                                                  *)

LEMMA InitServer == Init => ServerInv
<1> SUFFICES ASSUME Init PROVE ServerInv
  OBVIOUS
<1>1. RequestsSane
  BY DEF Init, RequestsSane, Idle, Stopped
<1>2. Undisturbed
  BY DEF Init, Undisturbed, Busy, Idle
<1> QED BY <1>1, <1>2, InitTyped DEF ServerInv

\* A request's step keeps what is said of the passwords ...
LEMMA ServerSane ==
  ASSUME ServerInv, NEW r \in Reqs,
         Request(r) \/ RequestFails(r) \/ \E op \in {"enroll", "revoke"} : Begins(r, op)
  PROVE  RequestsSane'
<1> USE DEF ServerInv, RequestsSane, process, Done, Idle
<1>0. issued \in Nat /\ file.key \in Int /\ main.key \in Int /\ \A q \in Reqs : req[q].key \in Int
  BY DEF TypeOK, Keys, Config, Process, Req
<1>1. CASE \E op \in {"enroll", "revoke"} : Begins(r, op)
  BY <1>1 DEF Begins, TypeOK
<1>2. CASE Kicks(r)
  BY <1>2 DEF Kicks, TypeOK, Req
<1>3. CASE Provisions(r)
  BY <1>0, <1>3 DEF Provisions, TypeOK, Req
<1>4. CASE DropsRole(r) \/ ReplyLost(r) \/ RequestFails(r)
  BY <1>4 DEF DropsRole, ReplyLost, RequestFails, TypeOK
<1>5. CASE EnrollSaves(r)
  BY <1>0, <1>5 DEF EnrollSaves, TypeOK
<1> QED BY <1>1, <1>2, <1>3, <1>4, <1>5 DEF Request

\* ... and, undisturbed, that flag and role move together.
LEMMA ServerUndisturbed ==
  ASSUME ServerInv, NEW r \in Reqs,
         Request(r) \/ RequestFails(r) \/ \E op \in {"enroll", "revoke"} : Begins(r, op)
  PROVE  Undisturbed'
<1> USE DEF ServerInv, process
<1>0. /\ issued \in Nat /\ file.key \in Int /\ main.key \in Int
      /\ file.key <= issued /\ main.key <= issued
  BY DEF TypeOK, Keys, Config, Process, RequestsSane
<1>1. CASE \E op \in {"enroll", "revoke"} : Begins(r, op)
  <2> PICK op \in {"enroll", "revoke"} : Begins(r, op)
    BY <1>1
  <2> SUFFICES ASSUME ~overlapped' PROVE Undisturbed'
    BY DEF Undisturbed
  <2>1. \A q \in Reqs : ~Busy(q)
    BY DEF Begins
  <2>2. \A q \in Reqs : q # r => ~Busy(q)'
    BY <2>1 DEF Begins, Busy, TypeOK
  <2>3. req'[r] = [op |-> op, pc |-> "kick", key |-> 0]
    BY DEF Begins, TypeOK
  <2>4. revoked' <=> op = "revoke"
    BY DEF Begins, FlagAfter
  <2>5. Busy(r)'
    BY <2>3 DEF Busy
  <2> QED BY <2>2, <2>3, <2>4, <2>5 DEF Undisturbed, Quiet
<1>2. CASE Kicks(r)
  BY <1>2 DEF Kicks, Undisturbed, Quiet, Busy, TypeOK, Req
<1>3. CASE Provisions(r)
  BY <1>0, <1>3 DEF Provisions, Undisturbed, Quiet, Busy, TypeOK, Req
<1>4. CASE DropsRole(r)
  BY <1>4 DEF DropsRole, Undisturbed, Quiet, Busy, Done, Idle, TypeOK
<1>5. CASE ReplyLost(r) \/ EnrollSaves(r)
  BY <1>5 DEF ReplyLost, EnrollSaves, Undisturbed, RequestsSane, Quiet, Busy, Done, Idle, TypeOK
<1>6. CASE RequestFails(r)
  BY <1>6 DEF RequestFails, Undisturbed
<1> QED BY <1>1, <1>2, <1>3, <1>4, <1>5, <1>6 DEF Request

\* The process leaves flag, role and requests alone, and takes no password into
\* memory or file that was not in the file or in memory.
LEMMA ProcessServer ==
  ASSUME ServerInv,
         \/ \E once \in BOOLEAN : Start(once)
         \/ \E reached, renamed \in BOOLEAN, desired, flag \in Conc :
              Launch(reached, renamed, desired, flag)
         \/ LeavesLoop \/ JoinsSlots \/ Crash
         \/ \E s \in Slots : SlotStep(s) \/ ConnDrops(s)
  PROVE  (RequestsSane /\ Undisturbed)'
<1>0. /\ issued \in Nat \ {0} /\ file.key \in Int /\ main.key \in Int
      /\ \A r \in Reqs : Busy(r) /\ req[r].pc = "reply" => req[r].key >= 1
  BY DEF ServerInv, RequestsSane, TypeOK, Keys, Config, Process
<1>1. UNCHANGED server
  BY SlotEffect DEF ServerInv, Start, Launch, LeavesLoop, JoinsSlots, Crash, Exits, OtherThanSlots
<1>2. /\ file'.key \in {file.key, main.key}
      /\ main'.key \in {file.key, main.key, 1}
  <2>1. CASE \E once \in BOOLEAN : Start(once)
    BY <2>1 DEF Start
  <2>2. CASE \E reached, renamed \in BOOLEAN, desired, flag \in Conc :
               Launch(reached, renamed, desired, flag)
    <3>1. PICK n \in Slots \cap Conc :
                 /\ file' = file \/ file' = [key |-> main.key, conc |-> n]
                 /\ main' = [main EXCEPT !.pc = "up", !.conc = n]
      BY <2>2, LaunchEffect DEF ServerInv
    <3>2. main'.key = main.key
      BY <3>1 DEF ServerInv, TypeOK, Process
    <3> QED BY <3>1, <3>2
  <2>3. CASE LeavesLoop
    BY <2>3 DEF LeavesLoop, ServerInv, TypeOK, Process
  <2>4. CASE JoinsSlots \/ Crash
    BY <2>4 DEF JoinsSlots, Crash, Exits, Stopped
  <2>5. CASE \E s \in Slots : SlotStep(s) \/ ConnDrops(s)
    BY <2>5, SlotEffect DEF OtherThanSlots, ServerInv
  <2> QED BY <2>1, <2>2, <2>3, <2>4, <2>5
<1>3. \A r \in Reqs : req'[r] = req[r] /\ (Busy(r)' <=> Busy(r))
  BY <1>1 DEF server, Busy
<1>4. RequestsSane'
  BY <1>0, <1>1, <1>2 DEF ServerInv, RequestsSane, server
<1>5. Undisturbed'
  BY <1>0, <1>1, <1>2, <1>3 DEF ServerInv, Undisturbed, Quiet, server
<1> QED BY <1>4, <1>5

LEMMA ServerStutters ==
  ASSUME ServerInv, UNCHANGED vars
  PROVE  ServerInv'
BY DEF ServerInv, TypeOK, RequestsSane, Undisturbed, Quiet, Busy, vars

LEMMA ServerStep == ServerInv /\ [Next]_vars => ServerInv'
<1> SUFFICES ASSUME ServerInv, [Next]_vars PROVE ServerInv'
  OBVIOUS
<1>1. CASE \E r \in Reqs : \/ Request(r) \/ RequestFails(r)
                           \/ \E op \in {"enroll", "revoke"} : Begins(r, op)
  BY <1>1, ServerTyped, ServerSane, ServerUndisturbed DEF ServerInv
<1>2. CASE \/ \E once \in BOOLEAN : Start(once)
           \/ \E reached, renamed \in BOOLEAN, desired, flag \in Conc :
                Launch(reached, renamed, desired, flag)
           \/ LeavesLoop \/ JoinsSlots \/ Crash
  BY <1>2, ProcessTyped, ProcessServer DEF ServerInv
<1>3. CASE \E s \in Slots : SlotStep(s) \/ ConnDrops(s)
  BY <1>3, SlotTyped, ProcessServer DEF ServerInv
<1>4. CASE UNCHANGED vars
  BY <1>4, ServerStutters
<1> QED BY <1>1, <1>2, <1>3, <1>4 DEF Next

(* The process's invariants: what a slot may do, and what its end implies.   *)

\* The steps of the main thread, and of the server, seen from the slots.
LEMMA SlotsUntouched ==
  ASSUME TypeOK,
         \/ \E r \in Reqs : \/ Request(r) \/ RequestFails(r)
                           \/ \E op \in {"enroll", "revoke"} : Begins(r, op)
         \/ \E once \in BOOLEAN : Start(once)
         \/ LeavesLoop
  PROVE  /\ UNCHANGED <<slot, running, late>>
         /\ stop => stop'
         /\ main'.pc = "up" => UNCHANGED <<main, stop>>
<1>1. CASE \E r \in Reqs : \/ Request(r) \/ RequestFails(r)
                           \/ \E op \in {"enroll", "revoke"} : Begins(r, op)
  <2>1. UNCHANGED process
    BY <1>1 DEF Request, Kicks, Provisions, DropsRole, EnrollSaves, ReplyLost,
                RequestFails, Begins
  <2>2. main' = main /\ stop' = stop /\ slot' = slot /\ running' = running /\ late' = late
    BY <2>1 DEF process
  <2> QED BY <2>2
<1>2. CASE \E once \in BOOLEAN : Start(once)
  BY <1>2 DEF Start
<1>3. CASE LeavesLoop
  <2>1. main'.pc = "join"
    BY <1>3 DEF LeavesLoop, TypeOK, Process
  <2> QED BY <1>3, <2>1 DEF LeavesLoop
<1> QED BY <1>1, <1>2, <1>3

LEMMA AliveStep == TypeOK /\ NoSilentDeath /\ [Next]_vars => NoSilentDeath'
<1> SUFFICES ASSUME TypeOK, NoSilentDeath, [Next]_vars PROVE NoSilentDeath'
  OBVIOUS
<1>1. CASE \/ \E r \in Reqs : \/ Request(r) \/ RequestFails(r)
                              \/ \E op \in {"enroll", "revoke"} : Begins(r, op)
           \/ \E once \in BOOLEAN : Start(once)
           \/ LeavesLoop
  <2>1. UNCHANGED slot /\ (main'.pc = "up" => UNCHANGED <<main, stop>>)
    BY <1>1, SlotsUntouched
  <2> SUFFICES ASSUME main'.pc = "up", ~main'.once, NEW s \in 1..main'.conc, slot'[s] = "off"
               PROVE  stop'
    BY DEF NoSilentDeath
  <2>2. main' = main /\ slot' = slot /\ (stop => stop')
    BY <1>1, <2>1, SlotsUntouched
  <2>3. stop
    BY <2>2 DEF NoSilentDeath
  <2> QED BY <2>2, <2>3
<1>2. CASE \E reached, renamed \in BOOLEAN, desired, flag \in Conc :
             Launch(reached, renamed, desired, flag)
  <2>1. PICK n \in Slots \cap Conc :
               /\ main' = [main EXCEPT !.pc = "up", !.conc = n]
               /\ slot' = [s \in Slots |-> IF s <= n THEN "top" ELSE "off"]
    BY <1>2, LaunchEffect
  <2>2. main'.conc = n
    BY <2>1 DEF TypeOK, Process
  <2>3. \A s \in 1..n : slot'[s] = "top"
    BY <2>1, BoundsAssumption DEF Slots
  <2> QED BY <2>2, <2>3 DEF NoSilentDeath
<1>3. CASE JoinsSlots \/ Crash
  BY <1>3 DEF JoinsSlots, Crash, Exits, Stopped, NoSilentDeath
<1>4. CASE \E s \in Slots : SlotStep(s) \/ ConnDrops(s)
  <2> PICK t \in Slots : SlotStep(t) \/ ConnDrops(t)
    BY <1>4
  <2>1. main' = main
    BY SlotEffect DEF OtherThanSlots
  <2> SUFFICES ASSUME main.pc = "up", ~main.once, NEW s \in 1..main.conc, slot'[s] = "off"
               PROVE  stop'
    BY <2>1 DEF NoSilentDeath
  <2>2. CASE s = t
    <3>1. slot[s] = "off" => stop
      BY DEF NoSilentDeath
    <3>2. (stop => stop') /\ (slot'[t] = "off" => stop' \/ main.once \/ slot[t] = "off")
      BY SlotEffect
    <3> QED BY <2>2, <3>1, <3>2
  <2>3. CASE s # t
    <3>1. slot'[s] = slot[s]
      BY <2>3, SlotEffect, BoundsAssumption DEF TypeOK, Slots
    <3> QED BY <3>1, SlotEffect DEF NoSilentDeath
  <2> QED BY <2>2, <2>3
<1>5. CASE UNCHANGED vars
  BY <1>5 DEF NoSilentDeath, vars
<1> QED BY <1>1, <1>2, <1>3, <1>4, <1>5 DEF Next

LEMMA LateStep == TypeOK /\ LateInv /\ [Next]_vars => LateInv'
<1> SUFFICES ASSUME TypeOK, LateInv, [Next]_vars PROVE LateInv'
  OBVIOUS
<1>1. CASE \/ \E r \in Reqs : \/ Request(r) \/ RequestFails(r)
                              \/ \E op \in {"enroll", "revoke"} : Begins(r, op)
           \/ \E once \in BOOLEAN : Start(once)
           \/ LeavesLoop
  BY <1>1, SlotsUntouched DEF LateInv
<1>2. CASE \/ \E reached, renamed \in BOOLEAN, desired, flag \in Conc :
                Launch(reached, renamed, desired, flag)
           \/ JoinsSlots \/ Crash
  <2>1. late' = [s \in Slots |-> 0]
    BY <1>2 DEF Launch, JoinsSlots, Crash, Exits
  <2> QED BY <2>1 DEF LateInv
<1>3. CASE \E s \in Slots : SlotStep(s) \/ ConnDrops(s)
  <2> PICK t \in Slots : SlotStep(t) \/ ConnDrops(t)
    BY <1>3
  <2>1. PICK to \in SlotPc : slot' = [slot EXCEPT ![t] = to]
    BY SlotEffect
  <2>2. \A s \in Slots : s # t => slot'[s] = slot[s]
    BY <2>1 DEF TypeOK
  <2>3. stop => stop'
    BY SlotEffect
  <2>4. CASE UNCHANGED late /\ (slot'[t] = "poll" => slot[t] = "poll" \/ ~stop')
    BY <2>2, <2>3, <2>4 DEF LateInv
  <2>5. CASE Claims(t)
    <3>1. slot'[t] = "exec" /\ stop' = stop /\ slot[t] = "poll"
      BY <2>5 DEF Claims, SlotGoes, TypeOK
    <3>2. \A s \in Slots : s # t => late'[s] = late[s]
      BY <2>5 DEF Claims, TypeOK
    <3>3. late'[t] = IF stop THEN 1 ELSE 0
      BY <2>5, <3>1 DEF Claims, TypeOK, LateInv
    <3>4. late'[t] <= 1 /\ (~stop' => late'[t] = 0)
      BY <3>1, <3>3
    <3> QED BY <2>2, <3>1, <3>2, <3>4 DEF LateInv
  <2>6. CASE EndsRun(t)
    <3>1. slot'[t] = "report" /\ stop' = stop /\ late' = late
      BY <2>6 DEF EndsRun, SlotGoes, TypeOK
    <3> QED BY <2>2, <3>1 DEF LateInv
  <2> QED BY <2>4, <2>5, <2>6, SlotEffect
<1>4. CASE UNCHANGED vars
  BY <1>4 DEF LateInv, vars
<1> QED BY <1>1, <1>2, <1>3, <1>4 DEF Next

\* The slots inside a run.
InRun == {s \in Slots : slot[s] = "exec"}

LEMMA RunsFinite == IsFiniteSet(InRun) /\ IsFiniteSet(InRun')
<1>1. IsFiniteSet(Slots)
  BY FS_Interval, BoundsAssumption DEF Slots
<1> QED BY <1>1, FS_Subset DEF InRun

LEMMA CountStep == TypeOK /\ RunningCountExact /\ [Next]_vars => RunningCountExact'
<1> SUFFICES ASSUME TypeOK, RunningCountExact, [Next]_vars PROVE RunningCountExact'
  OBVIOUS
<1> USE DEF InRun
<1>0. running = Cardinality(InRun) /\ (RunningCountExact' <=> running' = Cardinality(InRun'))
  BY DEF RunningCountExact
<1>1. CASE UNCHANGED running /\ InRun' = InRun
  BY <1>0, <1>1
<1>2. CASE \/ \E r \in Reqs : \/ Request(r) \/ RequestFails(r)
                              \/ \E op \in {"enroll", "revoke"} : Begins(r, op)
           \/ \E once \in BOOLEAN : Start(once)
           \/ LeavesLoop
  BY <1>1, <1>2, SlotsUntouched
<1>3. CASE \/ \E reached, renamed \in BOOLEAN, desired, flag \in Conc :
                Launch(reached, renamed, desired, flag)
           \/ JoinsSlots \/ Crash
  <2>1. running' = 0 /\ \A s \in Slots : slot'[s] # "exec"
    BY <1>3 DEF Launch, JoinsSlots, Crash, Exits
  <2>2. InRun' = {}
    BY <2>1
  <2> QED BY <1>0, <2>1, <2>2, FS_EmptySet
<1>4. CASE \E s \in Slots : SlotStep(s) \/ ConnDrops(s)
  <2> PICK t \in Slots : SlotStep(t) \/ ConnDrops(t)
    BY <1>4
  <2>1. PICK to \in SlotPc : slot' = [slot EXCEPT ![t] = to]
    BY SlotEffect
  <2>2. \A s \in Slots : s # t => slot'[s] = slot[s]
    BY <2>1 DEF TypeOK
  <2>3. CASE UNCHANGED running /\ (slot[t] = "exec" <=> slot'[t] = "exec")
    BY <1>1, <2>2, <2>3
  <2>4. CASE Claims(t)
    <3>1. slot[t] = "poll" /\ slot'[t] = "exec" /\ running' = running + 1
      BY <2>4 DEF Claims, SlotGoes, TypeOK
    <3>2. InRun' = InRun \cup {t} /\ t \notin InRun
      BY <2>2, <3>1
    <3> QED BY <1>0, <3>1, <3>2, RunsFinite, FS_AddElement
  <2>5. CASE EndsRun(t)
    <3>1. slot[t] = "exec" /\ slot'[t] = "report" /\ running' = running - 1
      BY <2>5 DEF EndsRun, SlotGoes, TypeOK
    <3>2. InRun' = InRun \ {t} /\ t \in InRun
      BY <2>2, <3>1
    <3> QED BY <1>0, <3>1, <3>2, RunsFinite, FS_RemoveElement
  <2> QED BY <2>3, <2>4, <2>5, SlotEffect
<1>5. CASE UNCHANGED vars
  BY <1>1, <1>5 DEF vars
<1> QED BY <1>2, <1>3, <1>4, <1>5 DEF Next
-----------------------------------------------------------------------------
(* The theorems.                                                            *)

\* Rows, threads, configs and passwords stay well formed.
THEOREM TypeCorrect == Spec => []TypeOK
<1>1. Spec => []ServerInv
  BY InitServer, ServerStep, PTL DEF Spec
<1>2. ServerInv => TypeOK
  BY DEF ServerInv
<1> QED BY <1>1, <1>2, PTL

\* Requests that neither fail nor overlap leave the panel's flag and the
\* database's role in agreement, whatever happened before them.
THEOREM FlagMatchesRole == Spec => []RowAndRoleAgree
<1>1. Spec => []ServerInv
  BY InitServer, ServerStep, PTL DEF Spec
<1>2. ServerInv => RowAndRoleAgree
  BY DEF ServerInv, Undisturbed, RowAndRoleAgree
<1> QED BY <1>1, <1>2, PTL

\* While the process runs on, a slot is gone only after the stop event.
THEOREM SlotsLiveOn == Spec => []NoSilentDeath
<1>1. Init => NoSilentDeath
  BY DEF Init, Stopped, NoSilentDeath
<1> QED BY <1>1, AliveStep, TypeCorrect, PTL DEF Spec

\* After the stop event a slot claims one ticket more at most.
THEOREM OneClaimAfterStop == Spec => []OneLateClaim
<1>1. Init => LateInv
  BY DEF Init, LateInv
<1>2. LateInv => OneLateClaim
  BY DEF LateInv, OneLateClaim
<1> QED BY <1>1, <1>2, LateStep, TypeCorrect, PTL DEF Spec

\* The published count is the number of runs, for any number of slots.
THEOREM CountIsExact == Spec => []RunningCountExact
<1>1. Init => RunningCountExact
  <2> SUFFICES ASSUME Init PROVE RunningCountExact
    OBVIOUS
  <2>1. {s \in Slots : slot[s] = "exec"} = {}
    BY DEF Init
  <2> QED BY <2>1, FS_EmptySet DEF Init, RunningCountExact
<1> QED BY <1>1, CountStep, TypeCorrect, PTL DEF Spec

\* A saved enrolment gives way to an older password only at a start that had
\* loaded it, or between overlapping requests.
THEOREM EnrolmentsKept == Spec => EnrolmentKept
<1>1. Spec => []ServerInv
  BY InitServer, ServerStep, PTL DEF Spec
<1>2. ServerInv /\ [Next]_vars =>
        [file'.key < file.key => main.pc = "settings" \/ overlapped]_vars
  <2> SUFFICES ASSUME ServerInv, Next, file'.key < file.key
               PROVE  main.pc = "settings" \/ overlapped
    OBVIOUS
  <2>0. file.key \in Int
    BY DEF ServerInv, TypeOK, Config, Keys
  <2>1. CASE \E r \in Reqs : EnrollSaves(r)
    BY <2>0, <2>1 DEF EnrollSaves, ServerInv, Undisturbed, TypeOK, Req, Keys
  <2>2. CASE \E reached, renamed \in BOOLEAN, desired, flag \in Conc :
               Launch(reached, renamed, desired, flag)
    BY <2>2 DEF Launch
  <2>3. CASE UNCHANGED file
    BY <2>0, <2>3
  <2>4. CASE \E s \in Slots : SlotStep(s) \/ ConnDrops(s)
    BY <2>0, <2>4, SlotEffect DEF ServerInv, OtherThanSlots
  <2> QED
    BY <2>1, <2>2, <2>3, <2>4
       DEF Next, Begins, Request, Kicks, Provisions, DropsRole, ReplyLost, RequestFails,
           Start, LeavesLoop, JoinsSlots, Crash, Exits
<1> QED BY <1>1, <1>2, PTL DEF EnrolmentKept, Spec
=============================================================================
