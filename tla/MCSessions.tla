----------------------------- MODULE MCSessions -----------------------------
(***************************************************************************)
(* The refresh tokens of one user on small instances: by themselves, with  *)
(* the MCP server as the client, and with resets of the password.  Which   *)
(* of the three a behaviour is about, part decides at the start.           *)
(***************************************************************************)
EXTENDS McpClient, PasswordReset, TLC

VARIABLE part

allVars == <<vars, clientVars, resetVars, part>>

\* What does not move stays in one state of its own.
SessionsInit ==
  /\ part \in {"tokens", "client", "reset"}
  /\ ClientInit /\ (part # "client" => transport = "http" /\ given = 0)
  /\ ResetInit

SessionsNext ==
  /\ UNCHANGED part
  /\ \/ part = "tokens" /\ Next /\ UNCHANGED <<clientVars, resetVars>>
     \/ part = "client" /\ ClientNext /\ UNCHANGED resetVars
     \/ part = "reset" /\ ResetNext /\ UNCHANGED clientVars

\* The API and the event loop of the client go on; nothing is asked of a reset.
SessionsSpec == SessionsInit /\ [][SessionsNext]_allVars /\ ClientFairness
=============================================================================
