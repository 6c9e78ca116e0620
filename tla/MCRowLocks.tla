----------------------------- MODULE MCRowLocks -----------------------------
(* Values for the constants of RowLocks that a .cfg cannot write.           *)
EXTENDS RowLocks, TLC

CONSTANTS w1, s1, s2, r1

AllOnOne == s1 :> w1 @@ s2 :> w1
=============================================================================
