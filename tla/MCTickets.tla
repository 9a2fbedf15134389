----------------------------- MODULE MCTickets -----------------------------
(* The instance of Tickets that TLC checks alone. *)
EXTENDS Tickets, TLC

HandlerSymmetry == Permutations(Handlers)
=============================================================================
