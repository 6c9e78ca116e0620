---------------------------- MODULE MCEscalation ----------------------------
(* Values for the constants of Escalation that a .cfg cannot write.         *)
EXTENDS Escalation, TLC

CONSTANTS s1, s2, w1, w2, r1, r2

\* Two PCs with one slot each, or one PC with two.
OneEach   == s1 :> w1 @@ s2 :> w2
SharedPC  == s1 :> w1 @@ s2 :> w1

Symmetry == Permutations(Reqs)
=============================================================================
