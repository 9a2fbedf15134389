--------------------------- MODULE RefreshTokens ---------------------------
(***************************************************************************)
(* The refresh tokens of one user (auth.service.ts, tokens.service.ts):    *)
(* logins, refreshes, logouts and password resets that run at the same     *)
(* time, each a sequence of database calls with other requests in between. *)
(*                                                                         *)
(* A row of UserRefreshToken is numbered in the order of createdAt.  Two   *)
(* things are remembered of it that the program does not store: the login  *)
(* whose row it has replaced, directly or through other rows, and the      *)
(* session whose client holds its token.  The two part ways: a token is    *)
(* compared with the newest row of the user, whichever session either is   *)
(* of, and bcrypt reads the first 72 bytes, which are the header of the    *)
(* JWT and the first half of the user's id.  So every refresh token the    *)
(* user was ever given is accepted while the user has a row.               *)
(***************************************************************************)
EXTENDS Naturals, FiniteSets

CONSTANTS
  Requests,   \* the requests that may be under way at the same time
  None,       \* what a request that has read no row holds
  MaxOpened,  \* bound: logins
  MaxCreated  \* bound: rows ever created

ASSUME BoundsAssumption == {MaxOpened, MaxCreated} \subseteq Nat

VARIABLES
  rows,     \* the rows of the user, each [id, login, session]
  created,  \* the number of rows ever created
  opened,   \* the number of logins that have saved their row
  pc,       \* what each request does next
  seen      \* the row each refresh has read, and the session of the token presented

vars == <<rows, created, opened, pc, seen>>

Rows == [id : 1..created, login : 1..opened, session : 1..opened]
Reads == [row : Rows, session : 1..opened]

TypeOK ==
  /\ created \in Nat /\ opened \in Nat
  /\ rows \subseteq Rows
  /\ pc \in [Requests -> {"idle", "save", "rotate"}]
  /\ seen \in [Requests -> Reads \cup {None}]
  /\ \A r \in Requests : pc[r] = "rotate" => seen[r] \in Reads

Init ==
  /\ rows = {} /\ created = 0 /\ opened = 0
  /\ pc = [r \in Requests |-> "idle"]
  /\ seen = [r \in Requests |-> None]

\* The active row created last.
Newest(x) == x \in rows /\ \A y \in rows : y.id <= x.id

\* Writing one more row, in place of one of login l, for the client of session s.
WithNew(S, l, s) == S \cup {[id |-> created + 1, login |-> l, session |-> s]}

-----------------------------------------------------------------------------
\* issueTokensAndPersistRefresh, after register and login: every row of the
\* user is deleted, then, when the new token is hashed, its row is written.
LoginRevoke(r) ==
  /\ pc[r] = "idle" /\ opened < MaxOpened
  /\ rows' = {}
  /\ pc' = [pc EXCEPT ![r] = "save"]
  /\ UNCHANGED <<created, opened, seen>>

LoginSave(r) ==
  /\ pc[r] = "save" /\ created < MaxCreated
  /\ rows' = WithNew(rows, opened + 1, opened + 1)
  /\ created' = created + 1 /\ opened' = opened + 1
  /\ pc' = [pc EXCEPT ![r] = "idle"]
  /\ UNCHANGED seen

\* rotate: the newest active row is read and the token compared with it; without
\* a row the request fails.  The token is of any login that has answered.
RefreshRead(r) ==
  /\ pc[r] = "idle"
  /\ \E x \in rows, s \in 1..opened :
       Newest(x) /\ seen' = [seen EXCEPT ![r] = [row |-> x, session |-> s]]
  /\ pc' = [pc EXCEPT ![r] = "rotate"]
  /\ UNCHANGED <<rows, created, opened>>

\* Wrong variant of RefreshCommit: the count of deleted rows is not looked at.
RefreshCommitAnyway(r) ==
  /\ pc[r] = "rotate" /\ created < MaxCreated
  /\ rows' = WithNew(rows \ {seen[r].row}, seen[r].row.login, seen[r].session)
  /\ created' = created + 1
  /\ pc' = [pc EXCEPT ![r] = "idle"]
  /\ seen' = [seen EXCEPT ![r] = None]
  /\ UNCHANGED opened

\* Wrong variant of RefreshCommit: the newest row is deleted, not the one read.
RefreshCommitNewest(r) ==
  /\ pc[r] = "rotate" /\ created < MaxCreated
  /\ \E x \in rows : /\ Newest(x)
                     /\ rows' = WithNew(rows \ {x}, seen[r].row.login, seen[r].session)
                     /\ created' = created + 1
  /\ pc' = [pc EXCEPT ![r] = "idle"]
  /\ seen' = [seen EXCEPT ![r] = None]
  /\ UNCHANGED opened

\* The transaction that ends rotate: the row is deleted by its id and another
\* written in its place; when it was gone already, the request fails with
\* 'Refresh token already used'.
RefreshCommit(r) ==
  /\ pc[r] = "rotate"
  /\ IF seen[r].row \in rows
     THEN /\ created < MaxCreated
          /\ rows' = WithNew(rows \ {seen[r].row}, seen[r].row.login, seen[r].session)
          /\ created' = created + 1
     ELSE UNCHANGED <<rows, created>>
  /\ pc' = [pc EXCEPT ![r] = "idle"]
  /\ seen' = [seen EXCEPT ![r] = None]
  /\ UNCHANGED opened

\* logout, and the revocation in resetPassword: one statement.
Revoke(r) ==
  /\ pc[r] = "idle"
  /\ rows' = {}
  /\ UNCHANGED <<created, opened, pc, seen>>

Next == \E r \in Requests :
          LoginRevoke(r) \/ LoginSave(r) \/ RefreshRead(r) \/ RefreshCommit(r) \/ Revoke(r)

Spec == Init /\ [][Next]_vars

-----------------------------------------------------------------------------
\* A login has one refreshable row at most: of the requests that read the same
\* row, however they interleave, one alone rotates it.
LoginsNotForked == \A x, y \in rows : x.login = y.login => x = y

\* The rows implement UserSessions: a token is handed out by a login, or by a
\* refresh while some login is open, and a refresh, whichever moments of logins,
\* logouts and other refreshes fall between its read and its transaction, opens
\* no login and ends none (saveNew, revokeAll, rotate).
Sessions == INSTANCE UserSessions WITH open <- {x.login : x \in rows}, handed <- created
SessionsImplemented == Sessions!Spec
=============================================================================
