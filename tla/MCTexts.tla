------------------------------ MODULE MCTexts -------------------------------
(***************************************************************************)
(* What several people write and read at once, on small instances: the     *)
(* documentation of a project and the sections of a ticket.  The two share *)
(* no state: one moves in a behaviour, which part decides at the start.    *)
(***************************************************************************)
EXTENDS Documentation, Tickets, TLC

VARIABLE part

textVars == <<vars, ticketVars, part>>

TextsInit ==
  /\ part \in {"documentation", "ticket"}
  /\ Init
  /\ TicketInit /\ (part # "ticket" => creator = Reporter)

TextsNext ==
  /\ UNCHANGED part
  /\ \/ part = "documentation" /\ Next /\ UNCHANGED ticketVars
     \/ part = "ticket" /\ TicketNext /\ UNCHANGED vars

TextsSpec == TextsInit /\ [][TextsNext]_textVars

\* Both parts are given the same two requests.
Symmetry == Permutations(Requests) \cup Permutations(Texts)
=============================================================================
