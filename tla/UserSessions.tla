--------------------------- MODULE UserSessions ---------------------------
(* What the rows of refresh tokens of one user promise, whichever token of  *)
(* the user a client presents.  A login is open from its first token until  *)
(* a logout, another login or a reset of the password ends every open one,  *)
(* and never opens again.  A token is handed out by a login, or in exchange *)
(* for an earlier one while a login is open: none after the logout, until   *)
(* somebody logs in.  That the earlier token was of an open login is not    *)
(* promised (see LogoutEndsTokens in PresentedTokens).                      *)
EXTENDS Naturals

VARIABLES
  open,    \* the logins that are open
  opened,  \* the number of logins so far
  handed   \* the number of refresh tokens handed out

Init == open = {} /\ opened = 0 /\ handed = 0

Open ==
  /\ opened' = opened + 1 /\ open' = open \cup {opened + 1}
  /\ handed' = handed + 1

Refresh ==
  /\ open # {}
  /\ handed' = handed + 1
  /\ UNCHANGED <<open, opened>>

EndAll == open' = {} /\ UNCHANGED <<opened, handed>>

Next == Open \/ Refresh \/ EndAll

Spec == Init /\ [][Next]_<<open, opened, handed>>
=============================================================================
