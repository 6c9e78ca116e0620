---------------------------- MODULE MCTicketDeps -----------------------------
(* The model values of TicketDeps' constants.                               *)
EXTENDS TicketDeps

CONSTANTS t1, t2, t3, r1, w1
=============================================================================
