----------------------------- MODULE MCCheckout -----------------------------
(* Values for the constants of Checkout that a .cfg cannot write.           *)
EXTENDS Checkout, TLC

CONSTANTS s1, s2, w1, w2, t1, t2

\* An auto-clone, a folder of the PC's own, and worktrees with and without
\* auto-push.
Plain == [own |-> FALSE, worktrees |-> FALSE, autoPush |-> TRUE, gated |-> TRUE]
AllBoards == {Plain, [Plain EXCEPT !.own = TRUE, !.gated = FALSE],
              [Plain EXCEPT !.worktrees = TRUE],
              [Plain EXCEPT !.worktrees = TRUE, !.autoPush = FALSE]}

\* Nothing tells slots, PCs or tickets apart: any slot may be on any PC.
Symmetry == Permutations(Slots) \cup Permutations(PCs) \cup Permutations(Tickets)
=============================================================================
