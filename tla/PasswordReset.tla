--------------------------- MODULE PasswordReset ----------------------------
(***************************************************************************)
(* The password of the user of RefreshTokens (auth.service.ts): logging in *)
(* with it, changing it, and resetting it through a token sent by e-mail.  *)
(* Passwords are numbered, a changed one is always new.  A reset looks the *)
(* token up, writes the password, deletes the rows of refresh tokens and   *)
(* only then marks the token used, in four statements; it may end between  *)
(* any two.                                                                *)
(***************************************************************************)
EXTENDS RefreshTokens

CONSTANTS
  Visitors,         \* the requests that log in, refresh and log out
  Resetters,        \* requests that reset or change the password
  MaxRows,          \* bound: rows of refresh tokens ever created
  MaxResetTokens,   \* bound: reset tokens ever created
  MaxPasswords      \* bound: passwords ever set

ASSUME ResetBounds ==
  /\ Visitors \subseteq Requests
  /\ {MaxRows, MaxResetTokens} \subseteq Nat /\ MaxPasswords \in Nat \ {0}

VARIABLES
  password,    \* User.passwordHash
  verified,    \* the password each login was checked against, 0 without
  resetToken,  \* PasswordResetToken: none, fresh, expired, used or deleted
  resetting,   \* what each request does next
  uses,        \* history: passwords set with each token
  reused,      \* history: tokens two requests had found at once, or whose reset ended early
  loginWith,   \* history: the password of each login
  cleared,     \* history: the last password whose reset has deleted the rows
  overtaken    \* history: logins, or requests to log in, that were under way at that moment

resetVars == <<password, verified, resetToken, resetting, uses, reused, loginWith, cleared, overtaken>>

ResetTokens == 1..MaxResetTokens
Passwords == 1..MaxPasswords
LoginIds == 1..MaxCreated

NotResetting == [op |-> "idle"]
Resetting == {NotResetting} \cup [op : {"create", "change"}]
  \cup [op : {"write", "revoke", "mark"}, token : ResetTokens, password : Passwords]

ResetTypeOK ==
  /\ TypeOK
  /\ password \in Passwords /\ cleared \in Passwords
  /\ verified \in [Visitors -> 0..MaxPasswords]
  /\ resetToken \in [ResetTokens -> {"none", "fresh", "expired", "used", "deleted"}]
  /\ resetting \in [Resetters -> Resetting]
  /\ uses \in [ResetTokens -> Nat] /\ reused \subseteq ResetTokens
  /\ loginWith \in [LoginIds -> Passwords]
  /\ overtaken \in [requests : SUBSET Visitors, logins : SUBSET LoginIds]

ResetInit ==
  /\ password = 1 /\ cleared = 1
  /\ verified = [r \in Visitors |-> 0]
  /\ resetToken = [t \in ResetTokens |-> "none"]
  /\ resetting = [q \in Resetters |-> NotResetting]
  /\ uses = [t \in ResetTokens |-> 0] /\ reused = {}
  /\ loginWith = [l \in LoginIds |-> 1]
  /\ overtaken = [requests |-> {}, logins |-> {}]

Moves(q, what) == resetting' = [resetting EXCEPT ![q] = what]
TokensOfUser == <<rows, created, opened, pc, seen>>
LoginsUnchanged == UNCHANGED <<verified, loginWith, overtaken>>
HistoryUnchanged == UNCHANGED <<uses, reused, cleared>>

-----------------------------------------------------------------------------
\* A login is checked against the password, then saves its row in two steps.
VerifyPassword(r) ==
  /\ verified[r] = 0 /\ pc[r] = "idle"
  /\ verified' = [verified EXCEPT ![r] = password]
  /\ UNCHANGED <<TokensOfUser, password, resetToken, resetting, loginWith, overtaken>>
  /\ HistoryUnchanged

StartSession(r) ==
  /\ verified[r] # 0 /\ LoginRevoke(r)
  /\ UNCHANGED resetVars

OpenSession(r) ==
  /\ created < MaxRows /\ LoginSave(r)
  /\ loginWith' = [loginWith EXCEPT ![opened + 1] = verified[r]]
  /\ overtaken' = [requests |-> overtaken.requests \ {r},
                   logins |-> overtaken.logins \cup IF r \in overtaken.requests THEN {opened + 1} ELSE {}]
  /\ verified' = [verified EXCEPT ![r] = 0]
  /\ UNCHANGED <<password, resetToken, resetting>> /\ HistoryUnchanged

RefreshOrLogout(r) ==
  /\ verified[r] = 0
  /\ RefreshRead(r) \/ (created < MaxRows /\ RefreshCommit(r)) \/ Revoke(r)
  /\ UNCHANGED resetVars

-----------------------------------------------------------------------------
\* requestPasswordReset deletes the tokens of the user, then creates one.
RequestResetDelete(q) ==
  /\ resetting[q] = NotResetting
  /\ resetToken' = [t \in ResetTokens |-> IF resetToken[t] = "none" THEN "none" ELSE "deleted"]
  /\ Moves(q, [op |-> "create"])
  /\ UNCHANGED <<TokensOfUser, password>> /\ LoginsUnchanged /\ HistoryUnchanged

RequestResetCreate(q) ==
  /\ resetting[q].op = "create"
  /\ \E t \in ResetTokens :
       /\ resetToken[t] = "none" /\ \A k \in 1..(t - 1) : resetToken[k] # "none"
       /\ resetToken' = [resetToken EXCEPT ![t] = "fresh"]
  /\ Moves(q, NotResetting)
  /\ UNCHANGED <<TokensOfUser, password>> /\ LoginsUnchanged /\ HistoryUnchanged

ResetTokenExpires(t) ==
  /\ resetToken[t] = "fresh"
  /\ resetToken' = [resetToken EXCEPT ![t] = "expired"]
  /\ UNCHANGED <<TokensOfUser, password, resetting>> /\ LoginsUnchanged /\ HistoryUnchanged

\* Wrong variant of Usable: usedAt is not looked at.
UsableAgain(t) == resetToken[t] \in {"fresh", "used"}

Usable(t) == resetToken[t] = "fresh"

ResetFind(q, t) ==
  /\ resetting[q] = NotResetting /\ Usable(t) /\ password < MaxPasswords
  /\ Moves(q, [op |-> "write", token |-> t, password |-> password])
  /\ LET others == {p \in Resetters : resetting[p].op \in {"write", "revoke", "mark"}
                                      /\ resetting[p].token = t}
     IN  reused' = IF others = {} THEN reused ELSE reused \cup {t}
  /\ UNCHANGED <<TokensOfUser, password, resetToken, uses, cleared>> /\ LoginsUnchanged

ResetWrite(q) ==
  /\ resetting[q].op = "write" /\ password < MaxPasswords
  /\ password' = password + 1
  /\ uses' = [uses EXCEPT ![resetting[q].token] = @ + 1]
  /\ Moves(q, [resetting[q] EXCEPT !.op = "revoke", !.password = password + 1])
  /\ UNCHANGED <<TokensOfUser, resetToken, reused, cleared>> /\ LoginsUnchanged

\* revokeAll: whoever is logging in has been checked already.
ResetRevoke(q) ==
  /\ resetting[q].op = "revoke"
  /\ rows' = {}
  /\ cleared' = IF resetting[q].password > cleared THEN resetting[q].password ELSE cleared
  /\ overtaken' = [overtaken EXCEPT !.requests = @ \cup {r \in Visitors : verified[r] # 0}]
  /\ Moves(q, [resetting[q] EXCEPT !.op = "mark"])
  /\ UNCHANGED <<created, opened, pc, seen, password, verified, resetToken, uses, reused, loginWith>>

\* A token that another request has deleted meanwhile cannot be marked: an error.
ResetMark(q) ==
  /\ resetting[q].op = "mark"
  /\ resetToken' = [resetToken EXCEPT ![resetting[q].token] = IF @ = "deleted" THEN @ ELSE "used"]
  /\ Moves(q, NotResetting)
  /\ UNCHANGED <<TokensOfUser, password>> /\ LoginsUnchanged /\ HistoryUnchanged

ResetFails(q) ==
  /\ resetting[q] # NotResetting
  /\ reused' = IF resetting[q].op \in {"create", "change"} THEN reused ELSE reused \cup {resetting[q].token}
  /\ Moves(q, NotResetting)
  /\ UNCHANGED <<TokensOfUser, password, resetToken, uses, cleared>> /\ LoginsUnchanged

-----------------------------------------------------------------------------
\* changePassword checks the current password, and writes in another step,
\* whatever the password is by then; rows and reset tokens stay.
ChangeVerify(q) ==
  /\ resetting[q] = NotResetting
  /\ Moves(q, [op |-> "change"])
  /\ UNCHANGED <<TokensOfUser, password, resetToken>> /\ LoginsUnchanged /\ HistoryUnchanged

ChangeWrite(q) ==
  /\ resetting[q].op = "change" /\ password < MaxPasswords
  /\ password' = password + 1
  /\ Moves(q, NotResetting)
  /\ UNCHANGED <<TokensOfUser, resetToken>> /\ LoginsUnchanged /\ HistoryUnchanged

ResetNext ==
  \/ \E r \in Visitors :
       VerifyPassword(r) \/ StartSession(r) \/ OpenSession(r) \/ RefreshOrLogout(r)
  \/ \E q \in Resetters :
       \/ RequestResetDelete(q) \/ RequestResetCreate(q)
       \/ \E t \in ResetTokens : ResetFind(q, t)
       \/ ResetWrite(q) \/ ResetRevoke(q) \/ ResetMark(q) \/ ResetFails(q)
       \/ ChangeVerify(q) \/ ChangeWrite(q)
  \/ \E t \in ResetTokens : ResetTokenExpires(t)

ResetSpec == Init /\ ResetInit /\ [][ResetNext]_<<vars, resetVars>>

-----------------------------------------------------------------------------
\* One link in an e-mail sets one password, unless two requests had found its
\* token before either marked it, or a reset ended before it marked it: the
\* token is marked last (resetPassword).
TokenSetsOnePassword == \A t \in ResetTokens \ reused : uses[t] <= 1

\* Once a reset has deleted the rows, none is left or comes back that goes back to
\* a login with a password from before, not by a refresh that had read it either;
\* only a login that was checked before and saves its row after has one.  So no
\* token refreshes until somebody logs in (resetPassword, revokeAll, rotate).
\* From then on the tokens from before the reset do too: see LogoutEndsTokens.
ResetLeavesNoOldRow ==
  \A x \in rows : loginWith[x.login] >= cleared \/ x.login \in overtaken.logins
=============================================================================
