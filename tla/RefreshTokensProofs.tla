------------------------ MODULE RefreshTokensProofs ------------------------
(* What the refresh tokens of a user keep however many requests are under *)
(* way, and that they implement the sessions of UserSessions.             *)
EXTENDS RefreshTokens, TLAPS

\* Numbers of rows are never used twice, which LoginsNotForked rests on.
RowsNumbered == \A x, y \in rows : x.id = y.id => x = y

Inv == TypeOK /\ RowsNumbered /\ LoginsNotForked

\* Every step of a request keeps the types.
LEMMA TypeOKInductive ==
  ASSUME TypeOK, [Next]_vars
  PROVE  TypeOK'
<1> USE DEF TypeOK, Rows, Reads
<1>1. ASSUME NEW r \in Requests, LoginRevoke(r)
      PROVE  TypeOK'
  BY <1>1 DEF LoginRevoke
<1>2. ASSUME NEW r \in Requests, LoginSave(r)
      PROVE  TypeOK'
  BY <1>2 DEF LoginSave, WithNew
<1>3. ASSUME NEW r \in Requests, RefreshRead(r)
      PROVE  TypeOK'
  BY <1>3 DEF RefreshRead, Newest
<1>4. ASSUME NEW r \in Requests, RefreshCommit(r)
      PROVE  TypeOK'
  <2>1. CASE seen[r].row \in rows
    BY <1>4, <2>1 DEF RefreshCommit, WithNew
  <2>2. CASE seen[r].row \notin rows
    BY <1>4, <2>2 DEF RefreshCommit
  <2> QED
    BY <2>1, <2>2
<1>5. ASSUME NEW r \in Requests, Revoke(r)
      PROVE  TypeOK'
  BY <1>5 DEF Revoke
<1>6. CASE UNCHANGED vars
  BY <1>6 DEF vars
<1> QED
  BY <1>1, <1>2, <1>3, <1>4, <1>5, <1>6 DEF Next

\* Every step keeps rows numbered from 1 and one row per login.
LEMMA InvInductive ==
  ASSUME Inv, [Next]_vars
  PROVE  Inv'
<1>1. TypeOK'
  BY TypeOKInductive DEF Inv
<1>2. RowsNumbered' /\ LoginsNotForked'
  <2> USE DEF Inv, TypeOK, Rows, Reads, RowsNumbered, LoginsNotForked
  <2>1. ASSUME rows' \subseteq rows
        PROVE  RowsNumbered' /\ LoginsNotForked'
    BY <2>1
  <2>2. ASSUME NEW r \in Requests, LoginSave(r)
        PROVE  RowsNumbered' /\ LoginsNotForked'
    BY <2>2 DEF LoginSave, WithNew
  <2>3. ASSUME NEW r \in Requests, RefreshCommit(r), seen[r].row \in rows
        PROVE  RowsNumbered' /\ LoginsNotForked'
    BY <2>3 DEF RefreshCommit, WithNew
  <2>4. ASSUME NEW r \in Requests,
               \/ LoginRevoke(r) \/ RefreshRead(r) \/ Revoke(r)
               \/ RefreshCommit(r) /\ seen[r].row \notin rows
        PROVE  RowsNumbered' /\ LoginsNotForked'
    BY <2>1, <2>4 DEF LoginRevoke, RefreshRead, Revoke, RefreshCommit
  <2>5. CASE UNCHANGED vars
    BY <2>1, <2>5 DEF vars
  <2> QED
    BY <2>2, <2>3, <2>4, <2>5 DEF Next
<1> QED
  BY <1>1, <1>2 DEF Inv

\* The rows are numbered by their creation and no login has two of them, in
\* every reachable state.  (tokens.service.ts:13-51)
THEOREM InvAlways == Spec => []Inv
<1>1. Init => Inv
  BY DEF Init, Inv, TypeOK, RowsNumbered, LoginsNotForked, Rows, Reads
<1>2. Inv /\ [Next]_vars => Inv'
  BY InvInductive
<1> QED
  BY <1>1, <1>2, PTL DEF Spec

\* Of the requests that read the same row, however many and however they
\* interleave, one alone rotates it.  (tokens.service.ts:39-50)
THEOREM LoginsNotForkedAlways == Spec => []LoginsNotForked
<1>1. Inv => LoginsNotForked
  BY DEF Inv
<1> QED
  BY <1>1, InvAlways, PTL

\* Writing one more row adds its login to those that can be refreshed.
LEMMA LoginsWithNew ==
  ASSUME NEW S, NEW l, NEW s
  PROVE  {x.login : x \in WithNew(S, l, s)} = {x.login : x \in S} \cup {l}
<1> DEFINE new == [id |-> created + 1, login |-> l, session |-> s]
<1>1. new.login = l
  OBVIOUS
<1>2. WithNew(S, l, s) = S \cup {new}
  BY DEF WithNew
<1> HIDE DEF new
<1> QED
  BY <1>1, <1>2

\* A step of a request is a step of UserSessions, or leaves its variables as they are.
LEMMA SessionsStep ==
  ASSUME [Next]_vars
  PROVE  [Sessions!Next]_<<{x.login : x \in rows}, opened, created>>
<1> DEFINE open == {x.login : x \in rows}
<1> SUFFICES Sessions!Next \/ (UNCHANGED open /\ UNCHANGED <<opened, created>>)
  OBVIOUS
<1>1. ASSUME NEW r \in Requests, LoginRevoke(r) \/ Revoke(r)
      PROVE  Sessions!EndAll
  <2>1. rows' = {} /\ opened' = opened /\ created' = created
    BY <1>1 DEF LoginRevoke, Revoke
  <2>2. open' = {}
    BY <2>1
  <2> QED
    BY <2>1, <2>2 DEF Sessions!EndAll
<1>2. ASSUME NEW r \in Requests, LoginSave(r)
      PROVE  Sessions!Open
  <2>1. rows' = WithNew(rows, opened + 1, opened + 1) /\ opened' = opened + 1 /\ created' = created + 1
    BY <1>2 DEF LoginSave
  <2>2. open' = open \cup {opened + 1}
    BY <2>1, LoginsWithNew
  <2> QED
    BY <2>1, <2>2 DEF Sessions!Open
<1>3. ASSUME NEW r \in Requests, RefreshRead(r)
      PROVE  UNCHANGED open /\ UNCHANGED <<opened, created>>
  BY <1>3 DEF RefreshRead
<1>4. ASSUME NEW r \in Requests, RefreshCommit(r), seen[r].row \in rows
      PROVE  Sessions!Refresh
  <2> DEFINE x == seen[r].row
  <2>1. /\ rows' = WithNew(rows \ {x}, x.login, seen[r].session)
        /\ created' = created + 1 /\ opened' = opened
    BY <1>4 DEF RefreshCommit
  <2>2. open' = {y.login : y \in rows \ {x}} \cup {x.login}
    BY <2>1, LoginsWithNew
  <2>3. open' = open /\ open # {}
    BY <1>4, <2>2
  <2> QED
    BY <2>1, <2>3 DEF Sessions!Refresh
<1>5. ASSUME NEW r \in Requests, RefreshCommit(r), seen[r].row \notin rows
      PROVE  UNCHANGED open /\ UNCHANGED <<opened, created>>
  BY <1>5 DEF RefreshCommit
<1>6. CASE UNCHANGED vars
  BY <1>6 DEF vars
<1> QED
  BY <1>1, <1>2, <1>3, <1>4, <1>5, <1>6 DEF Next, Sessions!Next

\* The rows implement UserSessions, whichever tokens of the user are presented: a
\* token is handed out by a login, or by a refresh while a login is open, a
\* revocation ends every login, and a refresh opens none and ends none, whatever
\* comes between its read and its transaction.  (tokens.service.ts:13-51)
THEOREM SessionsImplementedProof == Spec => SessionsImplemented
<1>1. Init => Sessions!Init
  BY DEF Init, Sessions!Init
<1>2. [Next]_vars => [Sessions!Next]_<<{x.login : x \in rows}, opened, created>>
  BY SessionsStep
<1> QED
  BY <1>1, <1>2, PTL DEF Spec, SessionsImplemented, Sessions!Spec
=============================================================================
