-------------------------- MODULE PresentedTokens --------------------------
(***************************************************************************)
(* The steps of RefreshTokens, with a record of the logouts: which refresh *)
(* tokens a logout was meant to revoke.                                    *)
(***************************************************************************)
EXTENDS RefreshTokens

VARIABLE loggedOut   \* history: the sessions opened before the last logout are 1..loggedOut

PresentedInit == Init /\ loggedOut = 0

PresentedNext == \E r \in Requests :
  \/ (LoginRevoke(r) \/ LoginSave(r) \/ RefreshRead(r) \/ RefreshCommit(r))
       /\ UNCHANGED loggedOut
  \/ Revoke(r) /\ loggedOut' = opened

PresentedSpec == PresentedInit /\ [][PresentedNext]_<<vars, loggedOut>>

\* A logout revokes every refresh token of the user: no client of a session that
\* had begun before it is given tokens again, unless by a new login.  The code
\* deletes the rows, but accepts the old tokens over the row of the next login.
LogoutEndsTokens == \A x \in rows : x.session > loggedOut
=============================================================================
