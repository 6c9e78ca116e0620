---------------------------- MODULE MCWorkQueue ----------------------------
(* Values for the constants of WorkQueue that a .cfg cannot write.          *)
EXTENDS WorkQueue, TLC

CONSTANTS w1, w2, t1, t2, r1, r2

\* Every PC has a checkout of the one board, and no ticket is targeted.
AnyPC      == [w \in Workers |-> Tickets]
FlatRank   == [t \in Tickets |-> 0]
NoDeps     == [t \in Tickets |-> {}]
T2OnT1     == [t \in Tickets |-> IF t = t2 THEN {t1} ELSE {}]

\* A cap of one, which the settings page may swap for stop-all.
OneAtATime == {[cap |-> 1, enabled |-> TRUE, stop |-> FALSE]}
NoLimit    == {[cap |-> Unlimited, enabled |-> FALSE, stop |-> FALSE]}
CapOrStop  == OneAtATime \cup {[cap |-> Unlimited, enabled |-> TRUE, stop |-> TRUE]}

\* Request threads are interchangeable, and so are the PCs when all of them
\* triage, or none does.
Symmetry == Permutations(Workers) \cup Permutations(Reqs)
=============================================================================
