--------------------------- MODULE SessionsProofs ----------------------------
(* For any number of requests, tokens and passwords: what a reset of the   *)
(* password sets and leaves of the rows, what becomes of the messages the  *)
(* MCP server reads and of the calls it makes, and that each of the two,   *)
(* with its own way of opening and ending logins, implements UserSessions. *)
EXTENDS MCSessions, RefreshTokensProofs, SequenceTheorems

Holds(q, t) == resetting[q].op \in {"write", "revoke", "mark"} /\ resetting[q].token = t

\* A login saves its row once it was checked, and numbers rows and logins within
\* the bounds of the histories.
LoginsAreChecked ==
  /\ opened <= created /\ created <= MaxCreated
  /\ \A r \in Visitors : pc[r] = "save" => verified[r] # 0

\* What was checked, or opened a session, against an older password than the last
\* one whose reset has deleted the rows was under way at that moment.
OldIsOvertaken ==
  /\ cleared <= password
  /\ \A q \in Resetters : resetting[q].op = "revoke" => resetting[q].password <= password
  /\ \A r \in Visitors : verified[r] # 0 => verified[r] >= cleared \/ r \in overtaken.requests

\* Requests that hold one token have both found it; a token that set a password is
\* held by the request that did, or is not fresh any more.
TokensAreSpent ==
  /\ \A p, q \in Resetters, t \in ResetTokens : Holds(p, t) /\ Holds(q, t) /\ p # q => t \in reused
  /\ \A t \in ResetTokens :
       /\ resetToken[t] = "none" => uses[t] = 0 /\ \A q \in Resetters : ~ Holds(q, t)
       /\ t \notin reused =>
            /\ \A q \in Resetters : Holds(q, t) /\ resetting[q].op = "write" => uses[t] = 0
            /\ resetToken[t] = "fresh" /\ uses[t] # 0 => \E q \in Resetters : Holds(q, t)

ResetInv == /\ ResetTypeOK /\ LoginsAreChecked /\ OldIsOvertaken /\ TokensAreSpent
            /\ ResetLeavesNoOldRow /\ TokenSetsOnePassword

\* Nothing is held and nobody is logged in to begin with.
LEMMA ResetInvHoldsInitially ==
  ASSUME Init, ResetInit
  PROVE  ResetInv
<1>1. TypeOK
  BY DEF Init, TypeOK, Rows, Reads
<1>2. ResetTypeOK
  BY <1>1, ResetBounds DEF ResetInit, ResetTypeOK, Passwords, ResetTokens, Resetting, NotResetting, LoginIds
<1>3. LoginsAreChecked
  BY ResetBounds, BoundsAssumption DEF Init, LoginsAreChecked
<1>4. OldIsOvertaken /\ TokensAreSpent
  BY DEF ResetInit, OldIsOvertaken, TokensAreSpent, Holds, NotResetting
<1>5. ResetLeavesNoOldRow /\ TokenSetsOnePassword
  BY DEF Init, ResetInit, ResetLeavesNoOldRow, TokenSetsOnePassword
<1> QED
  BY <1>2, <1>3, <1>4, <1>5 DEF ResetInv

\* Steps of logins, refreshes and logouts.
LEMMA VisitorsKeepResetInv ==
  ASSUME ResetInv, NEW r \in Visitors,
         VerifyPassword(r) \/ StartSession(r) \/ OpenSession(r) \/ RefreshOrLogout(r)
  PROVE  ResetInv'
<1>1. r \in Requests
  BY ResetBounds
<1>2. TypeOK'
  <2>1. [Next]_vars
    BY <1>1 DEF VerifyPassword, StartSession, OpenSession, RefreshOrLogout, TokensOfUser, vars, Next
  <2> QED
    BY <2>1, TypeOKInductive DEF ResetInv, ResetTypeOK
<1> USE <1>1, ResetBounds, BoundsAssumption DEF ResetInv, ResetTypeOK, TypeOK, Rows, Reads, LoginIds, Passwords
<1>3. TokensAreSpent' /\ TokenSetsOnePassword' /\ UNCHANGED <<password, resetToken, resetting, uses, reused, cleared>>
  BY DEF TokensAreSpent, TokenSetsOnePassword, Holds, VerifyPassword, StartSession, OpenSession, RefreshOrLogout,
         resetVars, HistoryUnchanged
<1>4. CASE VerifyPassword(r)
  <2>1. ResetTypeOK' /\ LoginsAreChecked'
    BY <1>2, <1>3, <1>4 DEF VerifyPassword, TokensOfUser, LoginsAreChecked
  <2>2. OldIsOvertaken' /\ ResetLeavesNoOldRow'
    BY <1>3, <1>4 DEF VerifyPassword, TokensOfUser, OldIsOvertaken, ResetLeavesNoOldRow
  <2> QED
    BY <1>3, <2>1, <2>2
<1>5. CASE StartSession(r)
  <2>1. /\ rows' = {} /\ created' = created /\ opened' = opened /\ UNCHANGED resetVars
        /\ verified[r] # 0 /\ pc' = [pc EXCEPT ![r] = "save"]
    BY <1>5 DEF StartSession, LoginRevoke
  <2>2. ResetTypeOK'
    BY <1>2, <2>1 DEF resetVars
  <2>3. LoginsAreChecked'
    BY <2>1 DEF LoginsAreChecked, resetVars
  <2>4. OldIsOvertaken' /\ ResetLeavesNoOldRow'
    BY <2>1 DEF OldIsOvertaken, ResetLeavesNoOldRow, resetVars
  <2> QED
    BY <1>3, <2>2, <2>3, <2>4
<1>6. CASE OpenSession(r)
  <2>1. verified[r] # 0 /\ opened + 1 \in LoginIds
    BY <1>6 DEF OpenSession, LoginSave, LoginsAreChecked
  <2>2. ResetTypeOK'
    BY <1>2, <1>3, <1>6, <2>1 DEF OpenSession
  <2>3. LoginsAreChecked'
    BY <1>6 DEF OpenSession, LoginSave, LoginsAreChecked
  <2>4. OldIsOvertaken'
    BY <1>3, <1>6 DEF OpenSession, OldIsOvertaken
  <2>5. ResetLeavesNoOldRow'
    <3> SUFFICES ASSUME NEW x \in rows'
                 PROVE  loginWith'[x.login] >= cleared \/ x.login \in overtaken'.logins
      BY <1>3 DEF ResetLeavesNoOldRow
    <3>1. CASE x \in rows
      <4>1. x.login \in LoginIds /\ x.login # opened + 1
        BY <3>1 DEF LoginsAreChecked
      <4>2. loginWith'[x.login] = loginWith[x.login] /\ overtaken.logins \subseteq overtaken'.logins
        BY <1>6, <4>1 DEF OpenSession
      <4> QED
        BY <3>1, <4>2 DEF ResetLeavesNoOldRow
    <3>2. CASE x.login = opened + 1
      <4>1. loginWith'[x.login] = verified[r]
        BY <1>6, <2>1, <3>2 DEF OpenSession
      <4>2. r \in overtaken.requests => x.login \in overtaken'.logins
        BY <1>6, <3>2 DEF OpenSession
      <4> QED
        BY <2>1, <4>1, <4>2 DEF OldIsOvertaken
    <3> QED
      BY <1>6, <3>1, <3>2 DEF OpenSession, LoginSave, WithNew
  <2> QED
    BY <1>3, <2>2, <2>3, <2>4, <2>5
<1>7. CASE RefreshOrLogout(r)
  <2>1. UNCHANGED <<verified, loginWith, overtaken, opened>>
    BY <1>7 DEF RefreshOrLogout, resetVars, RefreshRead, RefreshCommit, Revoke
  <2>2. LoginsAreChecked'
    BY <1>7, <2>1 DEF RefreshOrLogout, LoginsAreChecked, RefreshRead, RefreshCommit, Revoke
  <2>3. \A x \in rows' : \E y \in rows : x.login = y.login
    BY <1>7 DEF RefreshOrLogout, RefreshRead, RefreshCommit, Revoke, WithNew
  <2>4. ResetLeavesNoOldRow'
    BY <1>3, <2>1, <2>3 DEF ResetLeavesNoOldRow
  <2>5. OldIsOvertaken' /\ ResetTypeOK'
    BY <1>2, <1>3, <2>1 DEF OldIsOvertaken
  <2> QED
    BY <1>3, <2>2, <2>4, <2>5
<1> QED
  BY <1>4, <1>5, <1>6, <1>7

Holding == [op : {"write", "revoke", "mark"}, token : ResetTokens, password : Passwords]

\* A request past the lookup has a token and a password.
LEMMA HolderType ==
  ASSUME NEW x \in Resetting, x.op \in {"write", "revoke", "mark"}
  PROVE  x \in Holding
<1>1. x \notin [op : {"create", "change"}] /\ x # NotResetting
  BY DEF NotResetting
<1> QED
  BY <1>1 DEF Resetting, Holding

\* A request that lets its token go leaves it marked, or known to be reused.
LEMMA LettingGo ==
  ASSUME TokensAreSpent, NEW q \in Resetters,
         \A p \in Resetters \ {q} : resetting'[p] = resetting[p],
         resetting'[q].op \in {"idle", "create", "change"},
         UNCHANGED uses, reused \subseteq reused',
         \A t \in ResetTokens : resetToken'[t] = "none" => resetToken[t] = "none",
         \A t \in ResetTokens : resetToken'[t] = "fresh" => resetToken[t] \in {"fresh", "none"},
         \A t \in ResetTokens : Holds(q, t) => t \in reused' \/ resetToken'[t] # "fresh"
  PROVE  TokensAreSpent'
BY DEF TokensAreSpent, Holds

\* Steps of resets and changes of the password, and of time.
LEMMA ResettersKeepResetInv ==
  ASSUME ResetInv, NEW q \in Resetters,
         \/ RequestResetDelete(q) \/ RequestResetCreate(q)
         \/ \E t \in ResetTokens : ResetFind(q, t)
         \/ ResetWrite(q) \/ ResetRevoke(q) \/ ResetMark(q) \/ ResetFails(q)
         \/ ChangeVerify(q) \/ ChangeWrite(q)
  PROVE  ResetInv'
<1> USE ResetBounds DEF ResetInv, ResetTypeOK, Passwords, Resetting, NotResetting, Moves, LoginsUnchanged,
        HistoryUnchanged, TokensOfUser
<1> USE DEF ResetTokens, Holds
<1>1. TypeOK' /\ LoginsAreChecked'
  BY DEF TypeOK, Rows, Reads, LoginsAreChecked, RequestResetDelete, RequestResetCreate, ResetFind, ResetWrite, ResetRevoke,
         ResetMark, ResetFails, ChangeVerify, ChangeWrite
<1>0. \A p \in Resetters : resetting[p].op = "revoke" => resetting[p].password \in Passwords
  BY HolderType DEF Holding
<1>2. CASE RequestResetDelete(q)
  <2>1. ResetTypeOK'
    BY <1>1, <1>2 DEF RequestResetDelete
  <2>2. OldIsOvertaken' /\ ResetLeavesNoOldRow' /\ TokenSetsOnePassword'
    BY <1>2 DEF RequestResetDelete, OldIsOvertaken, ResetLeavesNoOldRow, TokenSetsOnePassword
  <2>3. TokensAreSpent'
    BY <1>2, LettingGo DEF RequestResetDelete
  <2> QED
    BY <1>1, <2>1, <2>2, <2>3
<1>3. CASE RequestResetCreate(q)
  <2>1. ResetTypeOK'
    BY <1>1, <1>3 DEF RequestResetCreate
  <2>2. OldIsOvertaken' /\ ResetLeavesNoOldRow' /\ TokenSetsOnePassword'
    BY <1>3 DEF RequestResetCreate, OldIsOvertaken, ResetLeavesNoOldRow, TokenSetsOnePassword
  <2>3. TokensAreSpent'
    BY <1>3, LettingGo DEF RequestResetCreate
  <2> QED
    BY <1>1, <2>1, <2>2, <2>3
<1>4. ASSUME NEW t \in ResetTokens, ResetFind(q, t)
      PROVE  ResetInv'
  <2>1. ResetTypeOK'
    BY <1>1, <1>4 DEF ResetFind
  <2>2. OldIsOvertaken' /\ ResetLeavesNoOldRow' /\ TokenSetsOnePassword'
    BY <1>4 DEF ResetFind, OldIsOvertaken, ResetLeavesNoOldRow, TokenSetsOnePassword
  <2>3. TokensAreSpent'
    <3>1. resetting' = [resetting EXCEPT ![q] = [op |-> "write", token |-> t, password |-> password]]
      BY <1>4 DEF ResetFind
    <3>2. (\E p \in Resetters : Holds(p, t)) => t \in reused'
      BY <1>4 DEF ResetFind
    <3>3. reused \subseteq reused' /\ UNCHANGED <<resetToken, uses>>
      BY <1>4 DEF ResetFind
    <3>4. resetToken[t] = "fresh" /\ ~ \E p \in Resetters : resetting[q] # NotResetting
      BY <1>4 DEF ResetFind, Usable
    <3>5. (\A p \in Resetters : ~ Holds(p, t)) /\ t \notin reused => uses[t] = 0
      BY <3>4 DEF TokensAreSpent
    <3> QED
      BY <3>1, <3>2, <3>3, <3>4, <3>5 DEF TokensAreSpent
  <2> QED
    BY <1>1, <2>1, <2>2, <2>3
<1>5. CASE ResetWrite(q)
  <2> DEFINE new == [resetting[q] EXCEPT !.op = "revoke", !.password = password + 1]
  <2>a. resetting[q] \in Holding /\ resetting[q].op = "write" /\ password + 1 \in Passwords
    <3>1. resetting[q] \in Resetting
      OBVIOUS
    <3> QED
      BY <1>5, <3>1, HolderType DEF ResetWrite
  <2>b. new \in Holding /\ new.op = "revoke" /\ new.password = password + 1 /\ new.token = resetting[q].token
    BY <2>a DEF Holding
  <2>c. resetting' = [resetting EXCEPT ![q] = new] /\ password' = password + 1
    BY <1>5 DEF ResetWrite
  <2>d. Holding \subseteq Resetting
    BY DEF Holding
  <2> HIDE DEF new
  <2>1. ResetTypeOK'
    <3>1. resetting' \in [Resetters -> Resetting]
      BY <2>b, <2>c, <2>d
    <3>2. uses' \in [ResetTokens -> Nat]
      BY <1>5 DEF ResetWrite
    <3>3. password' \in Passwords /\ UNCHANGED <<resetToken, reused, cleared, verified, loginWith, overtaken>>
      BY <1>5, <2>a DEF ResetWrite
    <3> QED
      BY <1>1, <3>1, <3>2, <3>3
  <2>2. OldIsOvertaken'
    <3>1. \A p \in Resetters : resetting[p].op = "revoke" => resetting[p].password <= password + 1
      BY <1>0 DEF OldIsOvertaken
    <3>2. \A p \in Resetters : resetting'[p].op = "revoke" => resetting'[p].password <= password'
      BY <2>a, <2>b, <2>c, <3>1
    <3> QED
      BY <1>5, <3>2 DEF ResetWrite, OldIsOvertaken
  <2>e. ResetLeavesNoOldRow'
    BY <1>5 DEF ResetWrite, ResetLeavesNoOldRow
  <2>3. TokensAreSpent' /\ TokenSetsOnePassword'
    BY <1>5 DEF ResetWrite, TokensAreSpent, TokenSetsOnePassword
  <2> QED
    BY <1>1, <2>1, <2>2, <2>3, <2>e
<1>6. CASE ResetRevoke(q)
  <2>a. resetting[q] \in Holding
    <3>1. resetting[q] \in Resetting
      OBVIOUS
    <3> QED
      BY <1>6, <3>1, HolderType DEF ResetRevoke
  <2>b. [resetting[q] EXCEPT !.op = "mark"] \in Resetting
    BY <2>a DEF Holding
  <2>c. resetting' \in [Resetters -> Resetting]
    BY <1>6, <2>b DEF ResetRevoke
  <2>d. overtaken' \in [requests : SUBSET Visitors, logins : SUBSET LoginIds]
    BY <1>6 DEF ResetRevoke
  <2>e. cleared' \in Passwords
    BY <1>6, <2>a DEF ResetRevoke, Holding
  <2>1. ResetTypeOK'
    BY <1>1, <1>6, <2>c, <2>d, <2>e DEF ResetRevoke
  <2>2. OldIsOvertaken' /\ ResetLeavesNoOldRow' /\ TokenSetsOnePassword'
    BY <1>6 DEF ResetRevoke, OldIsOvertaken, ResetLeavesNoOldRow, TokenSetsOnePassword
  <2>3. TokensAreSpent'
    BY <1>6 DEF ResetRevoke, TokensAreSpent
  <2> QED
    BY <1>1, <2>1, <2>2, <2>3
<1>7. CASE ResetMark(q)
  <2>1. ResetTypeOK'
    BY <1>1, <1>7 DEF ResetMark
  <2>2. OldIsOvertaken' /\ ResetLeavesNoOldRow' /\ TokenSetsOnePassword'
    BY <1>7 DEF ResetMark, OldIsOvertaken, ResetLeavesNoOldRow, TokenSetsOnePassword
  <2>3. TokensAreSpent'
    BY <1>7, LettingGo DEF ResetMark
  <2> QED
    BY <1>1, <2>1, <2>2, <2>3
<1>8. CASE ResetFails(q)
  <2>1. ResetTypeOK'
    BY <1>1, <1>8 DEF ResetFails
  <2>2. OldIsOvertaken' /\ ResetLeavesNoOldRow' /\ TokenSetsOnePassword'
    BY <1>8 DEF ResetFails, OldIsOvertaken, ResetLeavesNoOldRow, TokenSetsOnePassword
  <2>3. TokensAreSpent'
    BY <1>8, LettingGo DEF ResetFails
  <2> QED
    BY <1>1, <2>1, <2>2, <2>3
<1>9. CASE ChangeVerify(q)
  <2>1. ResetTypeOK'
    BY <1>1, <1>9 DEF ChangeVerify
  <2>2. OldIsOvertaken' /\ ResetLeavesNoOldRow' /\ TokenSetsOnePassword'
    BY <1>9 DEF ChangeVerify, OldIsOvertaken, ResetLeavesNoOldRow, TokenSetsOnePassword
  <2>3. TokensAreSpent'
    <3>1. resetting' = [resetting EXCEPT ![q] = [op |-> "change"]] /\ resetting[q].op = "idle"
      BY <1>9 DEF ChangeVerify
    <3>2. UNCHANGED <<uses, reused, resetToken>>
      BY <1>9 DEF ChangeVerify
    <3> QED
      BY <3>1, <3>2, LettingGo
  <2> QED
    BY <1>1, <2>1, <2>2, <2>3
<1>10. CASE ChangeWrite(q)
  <2>1. ResetTypeOK'
    BY <1>1, <1>10 DEF ChangeWrite
  <2>2. OldIsOvertaken' /\ ResetLeavesNoOldRow' /\ TokenSetsOnePassword'
    BY <1>0, <1>10 DEF ChangeWrite, OldIsOvertaken, ResetLeavesNoOldRow, TokenSetsOnePassword
  <2>3. TokensAreSpent'
    BY <1>10, LettingGo DEF ChangeWrite
  <2> QED
    BY <1>1, <2>1, <2>2, <2>3
<1> QED
  BY <1>2, <1>3, <1>4, <1>5, <1>6, <1>7, <1>8, <1>9, <1>10

\* Every step keeps the invariant.
LEMMA ResetInvInductive ==
  ASSUME ResetInv, [ResetNext]_<<vars, resetVars>>
  PROVE  ResetInv'
<1>1. ASSUME NEW t \in ResetTokens, ResetTokenExpires(t)
      PROVE  ResetInv'
  <2> USE DEF ResetInv, TokensOfUser, LoginsUnchanged, HistoryUnchanged, ResetTokenExpires
  <2>1. ResetTypeOK' /\ LoginsAreChecked'
    BY <1>1 DEF ResetTypeOK, TypeOK, Rows, Reads, LoginsAreChecked
  <2>2. OldIsOvertaken' /\ ResetLeavesNoOldRow' /\ TokenSetsOnePassword'
    BY <1>1 DEF OldIsOvertaken, ResetLeavesNoOldRow, TokenSetsOnePassword
  <2>3. TokensAreSpent'
    BY <1>1 DEF TokensAreSpent, Holds, ResetTypeOK
  <2> QED
    BY <2>1, <2>2, <2>3
<1>2. CASE UNCHANGED <<vars, resetVars>>
  BY <1>2 DEF vars, resetVars, ResetInv, ResetTypeOK, TypeOK, Rows, Reads, LoginsAreChecked, OldIsOvertaken, TokensAreSpent,
         Holds, ResetLeavesNoOldRow, TokenSetsOnePassword
<1> QED
  BY <1>1, <1>2, VisitorsKeepResetInv, ResettersKeepResetInv DEF ResetNext

\* Types, who was overtaken by a reset and who holds a token, in every reachable
\* state.  (auth.service.ts:21-185)
THEOREM ResetInvAlways == ResetSpec => []ResetInv
<1>1. Init /\ ResetInit => ResetInv
  BY ResetInvHoldsInitially
<1>2. ResetInv /\ [ResetNext]_<<vars, resetVars>> => ResetInv'
  BY ResetInvInductive
<1> QED
  BY <1>1, <1>2, PTL DEF ResetSpec

\* For any number of resets, one link sets one password unless two requests had
\* found its token at once or a reset ended early.  (auth.service.ts:138-175)
THEOREM TokenSetsOnePasswordAlways == ResetSpec => []TokenSetsOnePassword
  BY ResetInvAlways, PTL DEF ResetInv

\* For any number of logins, refreshes and resets, no row that goes back to a login
\* with a password from before is left by a reset, or comes back, except of a login
\* that was under way when it deleted the rows.  (auth.service.ts:21-56, 138-175, tokens.service.ts:25-51)
THEOREM ResetLeavesNoOldRowAlways == ResetSpec => []ResetLeavesNoOldRow
  BY ResetInvAlways, PTL DEF ResetInv

-----------------------------------------------------------------------------
\* The types, without the bound on the readers.
ClientTypes ==
  /\ TypeOK
  /\ transport \in {"stdio", "http"} /\ buffer \in Seq(Requests) /\ readers \in Nat
  /\ state \in [Requests -> MessageStates] /\ token \in [Requests -> Nat]
  /\ issued \in Nat /\ expired \in Nat /\ expired <= issued
  /\ refreshed \in Nat /\ given \in {0, 1}
  /\ stopped \in BOOLEAN /\ excused \subseteq Requests

\* Messages arrive in the order of their numbers, and one waits in the buffer once.
ReadInOrder ==
  /\ transport = "http" => buffer = <<>>
  /\ \A i \in 1..Len(buffer) : state[buffer[i]] \in StdinMessages
  /\ \A i, j \in 1..Len(buffer) : buffer[i] = buffer[j] => i = j
  /\ \A n, k \in Requests : n < k /\ state[n] = "none" => state[k] = "none"

\* The row a refresh has read is there unless the call is excused, and there is a
\* session to refresh unless all are.
RefreshesHold ==
  /\ \A m \in Requests : /\ pc[m] = "rotate" <=> state[m] \in {"rotateFirst", "rotate"}
                         /\ pc[m] = "rotate" => seen[m].row \in rows \/ m \in excused
  /\ issued = 0 => rows = {} /\ created = 0 /\ opened = 0 /\ \A m \in Requests : state[m] = "none"
  /\ issued # 0 => rows # {} \/ excused = Requests

\* A call that was refused once has a new token, which is good unless it is excused.
TokensHold ==
  \A m \in Requests : state[m] \in {"answer", "retry"} => Valid(token[m]) \/ m \in excused

ClientInv == /\ ClientTypes /\ ReadInOrder /\ RefreshesHold /\ TokensHold
             /\ StrandedBehindInvalid /\ RefusedForAReason

\* Nothing has arrived, and nobody is logged in.
LEMMA ClientInvHoldsInitially ==
  ASSUME ClientInit
  PROVE  ClientInv
<1>1. TypeOK
  BY DEF ClientInit, Init, TypeOK, Rows, Reads
<1>2. ClientTypes
  <2>1. buffer \in Seq(Requests)
    BY DEF ClientInit
  <2>2. state \in [Requests -> MessageStates] /\ token \in [Requests -> Nat]
    BY DEF ClientInit, MessageStates, StdinMessages, Messages
  <2>3. excused \subseteq Requests /\ stopped \in BOOLEAN
    BY DEF ClientInit
  <2> QED
    BY <1>1, <2>1, <2>2, <2>3 DEF ClientInit, ClientTypes
<1>3. Len(buffer) = 0
  BY DEF ClientInit
<1>4. ReadInOrder
  <2>1. 1..Len(buffer) = {}
    BY <1>3
  <2> QED
    BY <2>1 DEF ClientInit, ReadInOrder
<1>5. RefreshesHold /\ TokensHold
  BY DEF ClientInit, Init, RefreshesHold, TokensHold
<1>6. StrandedBehindInvalid /\ RefusedForAReason
  BY DEF ClientInit, StrandedBehindInvalid, Stranded, RefusedForAReason
<1> QED
  BY <1>2, <1>4, <1>5, <1>6 DEF ClientInv

\* A message that arrives is given no token, calls nobody and is refused nothing yet.
LEMMA ArrivalsKeepClientInv ==
  ASSUME ClientInv, NEW m \in Requests, NEW kind \in StdinMessages,
         DataArrives(m, kind) \/ HttpArrives(m, kind)
  PROVE  ClientInv'
<1> USE MessagesAssumption DEF ClientInv
<1>1. UNCHANGED <<rows, created, opened, pc, seen, transport, stopped, issued, expired, excused>>
  BY DEF DataArrives, HttpArrives, serverVars, TokensUnchanged, BufferUnchanged
<1>2. TypeOK'
  BY <1>1 DEF ClientTypes, TypeOK, Rows, Reads
<1>3. issued # 0 /\ state[m] = "none" /\ \A n \in Requests : n < m => state[n] # "none"
  BY DEF DataArrives, HttpArrives, ArrivesNext, ClientTypes
<1>4. \A n \in Requests : m <= n => state[n] = "none"
  BY <1>3 DEF ReadInOrder
<1>5. CASE DataArrives(m, kind)
  <2>1. PICK more \in SUBSET {m + 1} :
          /\ more \subseteq Requests
          /\ \E other \in StdinMessages :
               state' = [n \in Requests |-> IF n = m THEN kind ELSE IF n \in more THEN other ELSE state[n]]
          /\ buffer' = buffer \o <<m>> \o (IF more = {} THEN <<>> ELSE <<m + 1>>)
    BY <1>5 DEF DataArrives, StdinMessages, Messages
  <2>2. PICK other \in StdinMessages :
          state' = [n \in Requests |-> IF n = m THEN kind ELSE IF n \in more THEN other ELSE state[n]]
    BY <2>1
  <2>3. readers' = readers + 1 /\ token' = token
    BY <1>5 DEF DataArrives, TokensUnchanged
  <2>4. \A n \in Requests : /\ n = m \/ n \in more => state[n] = "none" /\ state'[n] \in StdinMessages
                            /\ n # m /\ n \notin more => state'[n] = state[n]
    <3>1. \A n \in more : n = m + 1 /\ m <= n
      BY DEF ClientTypes
    <3> QED
      BY <1>4, <2>2, <3>1, <1>3
  <2>5. ClientTypes'
    <3>0. given' = given /\ refreshed' = refreshed
      BY <1>5 DEF DataArrives, TokensUnchanged
    <3>1. <<m>> \in Seq(Requests) /\ (IF more = {} THEN <<>> ELSE <<m + 1>>) \in Seq(Requests)
      BY <2>1
    <3>2. buffer' \in Seq(Requests)
      BY <2>1, <3>1 DEF ClientTypes
    <3>3. state' \in [Requests -> MessageStates]
      BY <2>2 DEF ClientTypes, MessageStates, StdinMessages, Messages
    <3> QED
      BY <1>1, <1>2, <2>3, <3>0, <3>2, <3>3 DEF ClientTypes
  <2>6. ReadInOrder'
    <3> DEFINE tail == IF more = {} THEN <<m>> ELSE <<m, m + 1>>
    <3>1. buffer \in Seq(Requests) /\ tail \in Seq(Requests)
      BY <2>1 DEF ClientTypes
    <3>2. buffer' = buffer \o tail
      BY <2>1, <3>1
    <3>3. \A i \in 1..Len(tail) : tail[i] \in {m} \cup more
      BY <2>1
    <3>4. \A i, j \in 1..Len(tail) : tail[i] = tail[j] => i = j
      BY <2>1
    <3> HIDE DEF tail
    <3>5. /\ Len(buffer') = Len(buffer) + Len(tail)
          /\ Len(buffer) \in Nat /\ Len(tail) \in Nat
          /\ \A i \in 1..Len(buffer) : buffer'[i] = buffer[i]
          /\ \A i \in (Len(buffer) + 1)..(Len(buffer) + Len(tail)) : buffer'[i] = tail[i - Len(buffer)]
      BY <3>1, <3>2
    <3>6. \A i \in 1..Len(buffer) : buffer[i] \in Requests /\ buffer[i] \notin {m} \cup more
      <4> SUFFICES ASSUME NEW i \in 1..Len(buffer)
                   PROVE  buffer[i] \in Requests /\ buffer[i] \notin {m} \cup more
        OBVIOUS
      <4>1. buffer[i] \in Requests
        BY <3>1
      <4>2. state[buffer[i]] # "none"
        BY DEF ReadInOrder, StdinMessages, Messages
      <4> QED
        BY <4>1, <4>2, <2>4
    <3>7. \A i \in 1..Len(buffer') :
            \/ i \in 1..Len(buffer) /\ buffer'[i] = buffer[i]
            \/ \E k \in 1..Len(tail) : i = Len(buffer) + k /\ buffer'[i] = tail[k]
      <4> SUFFICES ASSUME NEW i \in 1..Len(buffer'), i \notin 1..Len(buffer)
                   PROVE  \E k \in 1..Len(tail) : i = Len(buffer) + k /\ buffer'[i] = tail[k]
        BY <3>5
      <4>1. i - Len(buffer) \in 1..Len(tail) /\ i = Len(buffer) + (i - Len(buffer))
        BY <3>5
      <4>2. i \in (Len(buffer) + 1)..(Len(buffer) + Len(tail))
        BY <3>5
      <4> QED
        BY <3>5, <4>1, <4>2
    <3>8. \A i, j \in 1..Len(buffer') : buffer'[i] = buffer'[j] => i = j
      <4> SUFFICES ASSUME NEW i \in 1..Len(buffer'), NEW j \in 1..Len(buffer'), buffer'[i] = buffer'[j]
                   PROVE  i = j
        OBVIOUS
      <4>1. CASE i \in 1..Len(buffer) /\ buffer'[i] = buffer[i]
        <5>1. j \in 1..Len(buffer) /\ buffer'[j] = buffer[j]
          BY <4>1, <3>3, <3>6, <3>7
        <5> QED
          BY <4>1, <5>1 DEF ReadInOrder
      <4>2. CASE \E k \in 1..Len(tail) : i = Len(buffer) + k /\ buffer'[i] = tail[k]
        <5>1. \E k \in 1..Len(tail) : j = Len(buffer) + k /\ buffer'[j] = tail[k]
          BY <4>2, <3>3, <3>6, <3>7
        <5> QED
          BY <4>2, <5>1, <3>4
      <4> QED
        BY <4>1, <4>2, <3>7
    <3>9. \A i \in 1..Len(buffer') : state'[buffer'[i]] \in StdinMessages
      <4> SUFFICES ASSUME NEW i \in 1..Len(buffer')
                   PROVE  state'[buffer'[i]] \in StdinMessages
        OBVIOUS
      <4>1. CASE i \in 1..Len(buffer) /\ buffer'[i] = buffer[i]
        BY <4>1, <3>6, <2>4 DEF ReadInOrder
      <4>2. CASE \E k \in 1..Len(tail) : i = Len(buffer) + k /\ buffer'[i] = tail[k]
        BY <4>2, <3>3, <2>1, <2>4
      <4> QED
        BY <3>7, <4>1, <4>2
    <3>10. \A n, k \in Requests : n < k /\ state'[n] = "none" => state'[k] = "none"
      <4> SUFFICES ASSUME NEW n \in Requests, NEW k \in Requests, n < k, state'[n] = "none"
                   PROVE  state'[k] = "none"
        OBVIOUS
      <4>1. n # m /\ n \notin more /\ state[n] = "none"
        BY <2>4 DEF StdinMessages, Messages
      <4>2. ~ n < m
        BY <1>3, <4>1
      <4>3. k # m /\ k \notin more
        BY <2>1, <4>1, <4>2
      <4> QED
        BY <2>4, <4>1, <4>3 DEF ReadInOrder
    <3>11. transport' # "http"
      BY <1>1, <1>5 DEF DataArrives
    <3> QED
      BY <3>8, <3>9, <3>10, <3>11 DEF ReadInOrder
  <2>7. \A n \in Requests : state'[n] = state[n] \/ (state[n] = "none" /\ state'[n] \in StdinMessages)
    BY <2>4
  <2>8. RefreshesHold' /\ TokensHold' /\ RefusedForAReason'
    BY <1>1, <1>3, <2>3, <2>7 DEF RefreshesHold, TokensHold, RefusedForAReason, Valid, StdinMessages, Messages
  <2>9. StrandedBehindInvalid'
    BY <2>3 DEF StrandedBehindInvalid, Stranded, ClientTypes
  <2> QED
    BY <2>5, <2>6, <2>8, <2>9
<1>6. CASE HttpArrives(m, kind)
  <2>1. /\ state' = [state EXCEPT ![m] = CallFrom(kind)] /\ buffer' = buffer /\ readers' = readers
        /\ token' = [token EXCEPT ![m] = Resolved] /\ transport = "http"
    BY <1>6 DEF HttpArrives, BufferUnchanged
  <2>2. Resolved \in Nat /\ CallFrom(kind) \in {"first", "ask", "done", "invalid"}
    BY DEF Resolved, CallFrom, ClientTypes
  <2>3. ClientTypes'
    <3>1. state' \in [Requests -> MessageStates]
      BY <2>1, <2>2 DEF ClientTypes, MessageStates, StdinMessages, Messages, Calling, Answers
    <3>2. token' \in [Requests -> Nat]
      BY <2>1, <2>2 DEF ClientTypes
    <3>3. given' = given /\ refreshed' = refreshed
      BY <1>6 DEF HttpArrives, BufferUnchanged
    <3> QED
      BY <1>1, <1>2, <2>1, <3>1, <3>2, <3>3 DEF ClientTypes
  <2>4. buffer = <<>> /\ 1..Len(buffer) = {}
    BY <2>1 DEF ReadInOrder
  <2>5. \A n \in Requests : state'[n] = (IF n = m THEN CallFrom(kind) ELSE state[n])
                             /\ token'[n] = (IF n = m THEN Resolved ELSE token[n])
    BY <2>1 DEF ClientTypes
  <2>6. ReadInOrder'
    <3>1. \A n, k \in Requests : n < k /\ state'[n] = "none" => state'[k] = "none"
      BY <1>3, <2>2, <2>5 DEF ReadInOrder
    <3>2. 1..Len(buffer') = {} /\ buffer' = <<>>
      BY <2>1, <2>4
    <3> QED
      BY <3>1, <3>2 DEF ReadInOrder
  <2>7. StrandedBehindInvalid'
    BY <2>1, <2>4 DEF StrandedBehindInvalid, Stranded
  <2>8. RefreshesHold' /\ TokensHold' /\ RefusedForAReason'
    BY <1>1, <1>3, <2>2, <2>5 DEF RefreshesHold, TokensHold, RefusedForAReason, Valid
  <2> QED
    BY <2>3, <2>6, <2>7, <2>8
<1> QED
  BY <1>5, <1>6

\* A reader that takes a call leaves it under way, one that takes an invalid message
\* is stopped by it, and one that finds no Content-Length leaves the message there.
LEMMA ReadingKeepsClientInv ==
  ASSUME ClientInv, TakeMessage \/ LengthMissing \/ ReadersReturn
  PROVE  ClientInv'
<1> USE MessagesAssumption DEF ClientInv
<1>1. UNCHANGED <<rows, created, opened, pc, seen, transport, given, refreshed, issued, expired, excused>>
  BY DEF TakeMessage, LengthMissing, ReadersReturn, serverVars, TokensUnchanged
<1>2. TypeOK'
  BY <1>1 DEF ClientTypes, TypeOK, Rows, Reads
<1>3. CASE TakeMessage
  <2> DEFINE m == Head(buffer)
  <2>1. /\ buffer # <<>> /\ readers > 0 /\ buffer' = Tail(buffer) /\ state[m] # "headless"
        /\ state' = [state EXCEPT ![m] = CallFrom(@)]
        /\ token' = [token EXCEPT ![m] = Resolved]
        /\ stopped' = (state[m] = "bad")
        /\ readers' = IF state[m] = "quick" THEN readers ELSE readers - 1
    BY <1>3 DEF TakeMessage, ReadsHead
  <2>2. /\ m \in Requests /\ m = buffer[1] /\ 1 \in 1..Len(buffer)
        /\ buffer' \in Seq(Requests) /\ Len(buffer') = Len(buffer) - 1 /\ Len(buffer) \in Nat \ {0}
        /\ \A i \in 1..Len(buffer') : buffer'[i] = buffer[i + 1]
    <3>1. buffer \in Seq(Requests) /\ buffer # <<>>
      BY <2>1 DEF ClientTypes
    <3> QED
      BY <3>1, <2>1
  <2>3. state[m] \in StdinMessages
    BY <2>2 DEF ReadInOrder
  <2> HIDE DEF m
  <2>4. /\ Resolved \in Nat
        /\ CallFrom(state[m]) \in {"first", "ask", "done", "invalid"}
        /\ state[m] = "call" => CallFrom(state[m]) \in {"first", "ask"}
    BY <2>3 DEF Resolved, CallFrom, ClientTypes, StdinMessages, Messages
  <2>5. \A n \in Requests : state'[n] = (IF n = m THEN CallFrom(state[m]) ELSE state[n])
                             /\ token'[n] = (IF n = m THEN Resolved ELSE token[n])
    BY <2>1 DEF ClientTypes
  <2>6. ClientTypes'
    <3>1. state' \in [Requests -> MessageStates]
      BY <2>1, <2>2, <2>4 DEF ClientTypes, MessageStates, StdinMessages, Messages, Calling, Answers
    <3>2. token' \in [Requests -> Nat]
      BY <2>1, <2>4 DEF ClientTypes
    <3>3. readers' \in Nat /\ stopped' \in BOOLEAN
      BY <2>1 DEF ClientTypes
    <3> QED
      BY <1>1, <1>2, <2>2, <3>1, <3>2, <3>3 DEF ClientTypes
  <2>7. ReadInOrder'
    <3>1. \A i \in 1..Len(buffer') : i + 1 \in 1..Len(buffer) /\ i + 1 # 1 /\ buffer'[i] = buffer[i + 1]
      BY <2>2
    <3>2. \A i \in 1..Len(buffer') : buffer'[i] \in Requests /\ buffer'[i] # m
      <4>1. buffer \in Seq(Requests)
        BY DEF ClientTypes
      <4> QED
        BY <2>2, <3>1, <4>1 DEF ReadInOrder
    <3>3. \A i \in 1..Len(buffer') : state'[buffer'[i]] \in StdinMessages
      BY <3>1, <3>2, <2>5 DEF ReadInOrder
    <3>4. \A i, j \in 1..Len(buffer') : buffer'[i] = buffer'[j] => i = j
      <4> SUFFICES ASSUME NEW i \in 1..Len(buffer'), NEW j \in 1..Len(buffer'), buffer'[i] = buffer'[j]
                   PROVE  i = j
        OBVIOUS
      <4>1. i + 1 = j + 1
        BY <3>1 DEF ReadInOrder
      <4> QED
        BY <4>1
    <3>5. \A n, k \in Requests : n < k /\ state'[n] = "none" => state'[k] = "none"
      BY <2>2, <2>3, <2>4, <2>5 DEF ReadInOrder, StdinMessages, Messages
    <3>6. transport' # "http"
      BY <1>1, <2>1 DEF ReadInOrder
    <3> QED
      BY <3>3, <3>4, <3>5, <3>6 DEF ReadInOrder
  <2>8. StrandedBehindInvalid'
    <3> SUFFICES ASSUME readers' = 0
                 PROVE  stopped' \/ Under' # {}
      BY DEF StrandedBehindInvalid, Stranded
    <3>1. state[m] # "quick"
      BY <2>1
    <3>2. CASE state[m] = "call"
      BY <3>2, <2>2, <2>4, <2>5 DEF Under, Calling
    <3>3. CASE state[m] = "bad"
      BY <3>3, <2>1
    <3> QED
      BY <2>1, <2>3, <3>1, <3>2, <3>3 DEF StdinMessages, Messages
  <2>9. issued # 0
    BY <2>2, <2>3 DEF RefreshesHold, StdinMessages, Messages
  <2>10. RefreshesHold' /\ TokensHold' /\ RefusedForAReason'
    BY <1>1, <2>2, <2>3, <2>4, <2>5, <2>9 DEF RefreshesHold, TokensHold, RefusedForAReason, Valid, StdinMessages, Messages
  <2> QED
    BY <2>6, <2>7, <2>8, <2>10
<1>4. CASE ReadersReturn
  <2>1. UNCHANGED <<buffer, state, token, stopped>> /\ buffer = <<>> /\ readers' = 0
    BY <1>4 DEF ReadersReturn, TokensUnchanged
  <2>2. ClientTypes'
    BY <1>1, <1>2, <2>1 DEF ClientTypes
  <2>3. ReadInOrder' /\ StrandedBehindInvalid'
    BY <1>1, <2>1 DEF ReadInOrder, StrandedBehindInvalid, Stranded
  <2>4. RefreshesHold' /\ TokensHold' /\ RefusedForAReason'
    BY <1>1, <2>1 DEF RefreshesHold, TokensHold, RefusedForAReason, Valid
  <2> QED
    BY <2>2, <2>3, <2>4
<1>5. CASE LengthMissing
  <2>1. /\ UNCHANGED <<buffer, state, token, stopped>>
        /\ readers > 0 /\ readers' = readers - 1 /\ state[Head(buffer)] = "headless"
    BY <1>5 DEF LengthMissing, ReadsHead, TokensUnchanged
  <2>2. ClientTypes'
    BY <1>1, <1>2, <2>1 DEF ClientTypes
  <2>3. ReadInOrder' /\ StrandedBehindInvalid'
    BY <1>1, <2>1 DEF ReadInOrder, StrandedBehindInvalid, Stranded
  <2>4. RefreshesHold' /\ TokensHold' /\ RefusedForAReason'
    BY <1>1, <2>1 DEF RefreshesHold, TokensHold, RefusedForAReason, Valid
  <2> QED
    BY <2>2, <2>3, <2>4
<1> QED
  BY <1>3, <1>4, <1>5

\* A call that goes on leaves the buffer alone; when it has its answer a reader goes on.
LEMMA GoingOn ==
  ASSUME ClientInv, NEW m \in Requests, NEW s \in Calling \cup Answers,
         state[m] \in Calling, GoesOn(m, s)
  PROVE  /\ state' \in [Requests -> MessageStates] /\ readers' \in Nat
         /\ \A n \in Requests : state'[n] = IF n = m THEN s ELSE state[n]
         /\ ReadInOrder' /\ StrandedBehindInvalid'
<1> USE DEF ClientInv
<1>1. /\ state' = [state EXCEPT ![m] = s] /\ UNCHANGED <<transport, given, buffer, stopped>>
      /\ readers' = IF s \in Answers /\ transport = "stdio" THEN readers + 1 ELSE readers
  BY DEF GoesOn
<1>2. \A n \in Requests : state'[n] = IF n = m THEN s ELSE state[n]
  BY <1>1 DEF ClientTypes
<1>3. state' \in [Requests -> MessageStates] /\ readers' \in Nat
  BY <1>1 DEF ClientTypes, MessageStates, StdinMessages, Messages
<1>4. s # "none" /\ state[m] \notin StdinMessages /\ state[m] # "none"
  BY DEF Calling, Answers, StdinMessages, Messages
<1>5. ReadInOrder'
  <2>1. \A i \in 1..Len(buffer) : buffer[i] \in Requests
    <3>1. buffer \in Seq(Requests)
      BY DEF ClientTypes
    <3> QED
      BY <3>1
  <2>2. \A i \in 1..Len(buffer) : state'[buffer[i]] \in StdinMessages
    BY <1>2, <1>4, <2>1 DEF ReadInOrder
  <2>3. \A n, k \in Requests : n < k /\ state'[n] = "none" => state'[k] = "none"
    BY <1>2, <1>4 DEF ReadInOrder
  <2> QED
    BY <1>1, <2>2, <2>3 DEF ReadInOrder
<1>6. StrandedBehindInvalid'
  <2>1. CASE transport = "http"
    BY <1>1, <2>1 DEF ReadInOrder, StrandedBehindInvalid, Stranded
  <2>2. CASE transport = "stdio" /\ s \in Answers
    BY <1>1, <2>2 DEF ClientTypes, StrandedBehindInvalid, Stranded
  <2>3. CASE s \in Calling
    BY <1>2, <2>3 DEF StrandedBehindInvalid, Stranded, Under
  <2> QED
    BY <2>1, <2>2, <2>3 DEF ClientTypes
<1> QED
  BY <1>2, <1>3, <1>5, <1>6

\* The steps of a call: the API's part, and what its refusal comes from.
LEMMA CallsKeepClientInv ==
  ASSUME ClientInv, NEW m \in Requests, CallSteps(m)
  PROVE  ClientInv'
<1> USE MessagesAssumption
<1>0. ClientTypes /\ RefreshesHold /\ TokensHold /\ RefusedForAReason
  BY DEF ClientInv
<1>1. CASE Ask(m)
  <2> DEFINE s == IF Valid(token[m]) THEN "done" ELSE IF state[m] = "ask" THEN "refresh" ELSE "unauthorized"
  <2>1. /\ state[m] \in {"ask", "retry"} /\ GoesOn(m, s)
        /\ UNCHANGED <<rows, created, opened, pc, seen, token, refreshed, issued, expired, excused>>
    BY <1>1 DEF Ask, serverVars, TokensUnchanged
  <2>2. s \in Calling \cup Answers /\ state[m] \in Calling
    BY <2>1 DEF Calling, Answers
  <2>3. s = "unauthorized" => m \in excused
    BY <1>0, <2>1 DEF TokensHold
  <2>4. s \in {"done", "refresh", "unauthorized"}
    OBVIOUS
  <2> HIDE DEF s
  <2>5. /\ state' \in [Requests -> MessageStates] /\ readers' \in Nat
        /\ \A n \in Requests : state'[n] = IF n = m THEN s ELSE state[n]
        /\ ReadInOrder' /\ StrandedBehindInvalid'
    BY <2>1, <2>2, GoingOn
  <2>6. ClientTypes'
    BY <1>0, <2>1, <2>5 DEF ClientTypes, TypeOK, Rows, Reads, GoesOn
  <2>7. RefreshesHold' /\ TokensHold' /\ RefusedForAReason'
    BY <1>0, <2>1, <2>3, <2>4, <2>5 DEF RefreshesHold, TokensHold, RefusedForAReason, Valid
  <2> QED
    BY <2>5, <2>6, <2>7 DEF ClientInv
<1>2. CASE AskRefresh(m)
  <2>1. UNCHANGED <<token, refreshed, issued, expired, excused>> /\ state[m] \in {"first", "refresh"}
    BY <1>2 DEF AskRefresh, TokensUnchanged
  <2>2. state[m] \in Calling /\ issued # 0
    BY <1>0, <2>1 DEF Calling, RefreshesHold
  <2>3. CASE rows = {}
    <3>1. GoesOn(m, "unauthorized") /\ UNCHANGED <<rows, created, opened, pc, seen>>
      BY <1>2, <2>3 DEF AskRefresh, serverVars
    <3>2. m \in excused
      BY <1>0, <2>2, <2>3 DEF RefreshesHold
    <3>3. "unauthorized" \in Calling \cup Answers
      BY DEF Answers
    <3>4. /\ state' \in [Requests -> MessageStates] /\ readers' \in Nat
          /\ \A n \in Requests : state'[n] = IF n = m THEN "unauthorized" ELSE state[n]
          /\ ReadInOrder' /\ StrandedBehindInvalid'
      BY <3>1, <3>3, <2>2, GoingOn
    <3>5. ClientTypes'
      BY <1>0, <2>1, <3>1, <3>4 DEF ClientTypes, TypeOK, Rows, Reads, GoesOn
    <3>6. RefreshesHold' /\ TokensHold' /\ RefusedForAReason'
      BY <1>0, <2>1, <3>1, <3>2, <3>4 DEF RefreshesHold, TokensHold, RefusedForAReason, Valid
    <3> QED
      BY <3>4, <3>5, <3>6 DEF ClientInv
  <2>4. CASE rows # {}
    <3> DEFINE s == IF state[m] = "first" THEN "rotateFirst" ELSE "rotate"
    <3>1. RefreshRead(m) /\ GoesOn(m, s)
      BY <1>2, <2>4 DEF AskRefresh
    <3>2. s \in {"rotateFirst", "rotate"} /\ s \in Calling \cup Answers
      BY DEF Calling
    <3> HIDE DEF s
    <3>3. /\ state' \in [Requests -> MessageStates] /\ readers' \in Nat
          /\ \A n \in Requests : state'[n] = IF n = m THEN s ELSE state[n]
          /\ ReadInOrder' /\ StrandedBehindInvalid'
      BY <3>1, <3>2, <2>2, GoingOn
    <3>4. TypeOK'
      BY <3>1, <1>0, TypeOKInductive DEF ClientTypes, Next
    <3>5. ClientTypes'
      BY <1>0, <2>1, <3>1, <3>3, <3>4 DEF ClientTypes, GoesOn
    <3>6. /\ UNCHANGED <<rows, created, opened>>
          /\ \E x \in rows, i \in 1..opened : seen' = [seen EXCEPT ![m] = [row |-> x, session |-> i]]
          /\ pc' = [pc EXCEPT ![m] = "rotate"]
      BY <3>1 DEF RefreshRead
    <3>7. \A n \in Requests : n # m => pc'[n] = pc[n] /\ seen'[n] = seen[n]
      BY <1>0, <3>6 DEF ClientTypes, TypeOK
    <3>10. pc'[m] = "rotate" /\ seen'[m].row \in rows
      BY <1>0, <3>6 DEF ClientTypes, TypeOK
    <3>8. RefreshesHold'
      BY <1>0, <2>1, <2>2, <3>2, <3>3, <3>6, <3>7, <3>10 DEF RefreshesHold
    <3>9. TokensHold' /\ RefusedForAReason'
      BY <1>0, <2>1, <3>2, <3>3 DEF TokensHold, RefusedForAReason, Valid
    <3> QED
      BY <3>3, <3>5, <3>8, <3>9 DEF ClientInv
  <2> QED
    BY <2>3, <2>4
<1>3. CASE Rotates(m)
  <2>1. state[m] \in {"rotateFirst", "rotate"} /\ RefreshCommit(m) /\ UNCHANGED <<refreshed, expired>>
    BY <1>3 DEF Rotates
  <2>2. state[m] \in Calling /\ pc[m] = "rotate" /\ issued # 0
    BY <1>0, <2>1 DEF Calling, RefreshesHold
  <2>3. TypeOK'
    BY <2>1, <1>0, TypeOKInductive DEF ClientTypes, Next
  <2>4. pc' = [pc EXCEPT ![m] = "idle"] /\ seen' = [seen EXCEPT ![m] = None]
    BY <2>1 DEF RefreshCommit
  <2>7. \A n \in Requests : n # m => pc'[n] = pc[n] /\ seen'[n] = seen[n]
    BY <1>0, <2>4 DEF ClientTypes, TypeOK
  <2>8. pc'[m] = "idle"
    BY <1>0, <2>4 DEF ClientTypes, TypeOK
  <2>5. CASE seen[m].row \in rows
    <3> DEFINE s == IF state[m] = "rotateFirst" THEN "answerFirst" ELSE "answer"
    <3>1. /\ issued' = issued + 1 /\ token' = [token EXCEPT ![m] = issued + 1]
          /\ excused' = excused \cup {n \in Requests \ {m} : pc[n] = "rotate"}
          /\ GoesOn(m, s)
      BY <1>3, <2>5 DEF Rotates
    <3>2. s \in {"answerFirst", "answer"} /\ s \in Calling \cup Answers
      BY DEF Calling
    <3> HIDE DEF s
    <3>3. /\ state' \in [Requests -> MessageStates] /\ readers' \in Nat
          /\ \A n \in Requests : state'[n] = IF n = m THEN s ELSE state[n]
          /\ ReadInOrder' /\ StrandedBehindInvalid'
      BY <3>1, <3>2, <2>2, GoingOn
    <3>4. ClientTypes'
      <4>1. token' \in [Requests -> Nat] /\ issued' \in Nat /\ expired <= issued'
        BY <1>0, <3>1 DEF ClientTypes
      <4>2. excused' \subseteq Requests
        BY <1>0, <3>1 DEF ClientTypes
      <4>3. UNCHANGED <<transport, given, buffer, stopped>>
        BY <3>1 DEF GoesOn
      <4> QED
        BY <1>0, <2>1, <2>3, <3>3, <4>1, <4>2, <4>3 DEF ClientTypes
    <3>5. rows' # {}
      BY <2>1, <2>5 DEF RefreshCommit, WithNew
    <3>6. \A n \in Requests : pc'[n] = "rotate" => n \in excused'
      <4> SUFFICES ASSUME NEW n \in Requests, pc'[n] = "rotate"
                   PROVE  n \in excused'
        OBVIOUS
      <4>1. n # m /\ pc[n] = "rotate"
        BY <2>7, <2>8
      <4>2. n \in {k \in Requests \ {m} : pc[k] = "rotate"}
        BY <4>1
      <4> QED
        BY <3>1, <4>2
    <3>7. RefreshesHold'
      <4>1. issued' # 0
        BY <1>0, <3>1 DEF ClientTypes
      <4> QED
        BY <1>0, <2>1, <2>7, <2>8, <3>2, <3>3, <3>5, <3>6, <4>1 DEF RefreshesHold
    <3>8. TokensHold'
      <4>1. Valid(token[m])'
        BY <1>0, <2>1, <3>1 DEF ClientTypes, Valid
      <4>2. \A n \in Requests : n # m => token'[n] = token[n] /\ state'[n] = state[n]
        BY <1>0, <3>1, <3>3 DEF ClientTypes
      <4> QED
        BY <1>0, <2>1, <3>1, <4>1, <4>2 DEF TokensHold, Valid
    <3>9. RefusedForAReason'
      BY <1>0, <3>1, <3>2, <3>3 DEF RefusedForAReason
    <3> QED
      BY <3>3, <3>4, <3>7, <3>8, <3>9 DEF ClientInv
  <2>6. CASE seen[m].row \notin rows
    <3>1. GoesOn(m, "unauthorized") /\ UNCHANGED <<issued, token, excused, rows, created, opened>>
      BY <1>3, <2>1, <2>6 DEF Rotates, RefreshCommit
    <3>2. m \in excused
      BY <1>0, <2>2, <2>6 DEF RefreshesHold
    <3>3. "unauthorized" \in Calling \cup Answers
      BY DEF Answers
    <3>4. /\ state' \in [Requests -> MessageStates] /\ readers' \in Nat
          /\ \A n \in Requests : state'[n] = IF n = m THEN "unauthorized" ELSE state[n]
          /\ ReadInOrder' /\ StrandedBehindInvalid'
      BY <3>1, <3>3, <2>2, GoingOn
    <3>5. ClientTypes'
      BY <1>0, <2>1, <2>3, <3>1, <3>4 DEF ClientTypes, GoesOn
    <3>6. RefreshesHold'
      BY <1>0, <2>1, <2>2, <2>7, <2>8, <3>1, <3>4 DEF RefreshesHold
    <3>7. TokensHold' /\ RefusedForAReason'
      BY <1>0, <2>1, <3>1, <3>2, <3>4 DEF TokensHold, RefusedForAReason, Valid
    <3> QED
      BY <3>4, <3>5, <3>6, <3>7 DEF ClientInv
  <2> QED
    BY <2>5, <2>6
<1>4. CASE RefreshAnswered(m) \/ ConnectionBreaks(m)
  <2>1. PICK s \in {"ask", "retry", "broken"} :
          GoesOn(m, s) /\ (s = "retry" => state[m] = "answer")
    BY <1>4 DEF RefreshAnswered, ConnectionBreaks
  <2>2. /\ UNCHANGED <<rows, created, opened, pc, seen, token, issued, expired, excused>>
        /\ state[m] \in Calling \ {"rotateFirst", "rotate"}
        /\ refreshed' \in {refreshed, token[m]}
    BY <1>4 DEF RefreshAnswered, ConnectionBreaks, serverVars, TokensUnchanged, Calling
  <2>3. s \in Calling \cup Answers
    BY DEF Calling, Answers
  <2>4. /\ state' \in [Requests -> MessageStates] /\ readers' \in Nat
        /\ \A n \in Requests : state'[n] = IF n = m THEN s ELSE state[n]
        /\ ReadInOrder' /\ StrandedBehindInvalid'
    BY <2>1, <2>2, <2>3, GoingOn
  <2>5. ClientTypes'
    <3>1. TypeOK'
      BY <1>0, <2>2 DEF ClientTypes, TypeOK, Rows, Reads
    <3>2. refreshed' \in Nat
      BY <1>0, <2>2 DEF ClientTypes
    <3> QED
      BY <1>0, <2>1, <2>2, <2>4, <3>1, <3>2 DEF ClientTypes, GoesOn
  <2>6. issued # 0
    BY <1>0, <2>2 DEF RefreshesHold, Calling
  <2>7. RefreshesHold'
    BY <1>0, <2>2, <2>4, <2>6 DEF RefreshesHold
  <2>8. TokensHold' /\ RefusedForAReason'
    BY <1>0, <2>1, <2>2, <2>4 DEF TokensHold, RefusedForAReason, Valid
  <2> QED
    BY <2>4, <2>5, <2>7, <2>8 DEF ClientInv
<1> QED
  BY <1>1, <1>2, <1>3, <1>4 DEF CallSteps

\* A login opens the session of the client; a logout or an expiry excuses whom it meets.
LEMMA OthersKeepClientInv ==
  ASSUME ClientInv, LoginScript \/ TokensExpire \/ SessionEnds
  PROVE  ClientInv'
<1>0. ClientTypes /\ ReadInOrder /\ RefreshesHold /\ TokensHold /\ RefusedForAReason /\ StrandedBehindInvalid
  BY DEF ClientInv
<1>1. UNCHANGED <<pc, seen, transport, given, buffer, readers, stopped, state, token, refreshed>>
  BY DEF LoginScript, TokensExpire, SessionEnds, serverVars, BufferUnchanged
<1>2. ReadInOrder' /\ StrandedBehindInvalid'
  BY <1>0, <1>1 DEF ReadInOrder, StrandedBehindInvalid, Stranded, Under
<1>3. CASE LoginScript
  <2>1. /\ issued = 0 /\ issued' = 1 /\ created' = 1 /\ opened' = 1 /\ UNCHANGED <<expired, excused>>
        /\ rows' = {[id |-> created + 1, login |-> 1, session |-> 1]}
    BY <1>3 DEF LoginScript, WithNew
  <2>2. created = 0 /\ rows = {} /\ expired <= 1 /\ \A m \in Requests : state[m] = "none" /\ pc[m] # "rotate"
    BY <1>0, <2>1 DEF RefreshesHold, ClientTypes
  <2>3. TypeOK'
    <3>1. seen' \in [Requests -> Reads' \cup {None}]
      BY <1>0, <1>1, <2>1, <2>2 DEF ClientTypes, TypeOK, Rows, Reads
    <3>2. rows' \subseteq Rows'
      BY <2>1, <2>2 DEF Rows, Reads
    <3> QED
      BY <1>0, <1>1, <2>1, <2>2, <3>1, <3>2 DEF ClientTypes, TypeOK
  <2>4. ClientTypes'
    BY <1>0, <1>1, <2>1, <2>2, <2>3 DEF ClientTypes
  <2>5. RefreshesHold' /\ TokensHold' /\ RefusedForAReason'
    BY <1>0, <1>1, <2>1, <2>2 DEF RefreshesHold, TokensHold, RefusedForAReason
  <2> QED
    BY <1>2, <2>4, <2>5 DEF ClientInv
<1>4. CASE TokensExpire
  <2>1. /\ expired' = issued /\ UNCHANGED <<rows, created, opened, issued>>
        /\ excused' = excused \cup {m \in Requests : state[m] \in {"answer", "retry"}}
    BY <1>4 DEF TokensExpire, serverVars
  <2>2. ClientTypes'
    BY <1>0, <1>1, <2>1 DEF ClientTypes, TypeOK, Rows, Reads
  <2>3. RefreshesHold' /\ TokensHold' /\ RefusedForAReason'
    BY <1>0, <1>1, <2>1 DEF ClientTypes, RefreshesHold, TokensHold, RefusedForAReason
  <2> QED
    BY <1>2, <2>2, <2>3 DEF ClientInv
<1>5. CASE SessionEnds
  <2>1. rows # {} /\ rows' = {} /\ excused' = Requests /\ UNCHANGED <<created, opened, issued, expired>>
    BY <1>5 DEF SessionEnds
  <2>2. ClientTypes'
    BY <1>0, <1>1, <2>1 DEF ClientTypes, TypeOK, Rows, Reads
  <2>3. RefreshesHold' /\ TokensHold' /\ RefusedForAReason'
    BY <1>0, <1>1, <2>1 DEF RefreshesHold, TokensHold, RefusedForAReason
  <2> QED
    BY <1>2, <2>2, <2>3 DEF ClientInv
<1> QED
  BY <1>3, <1>4, <1>5

\* Every step keeps the invariant.
LEMMA ClientInvInductive ==
  ASSUME ClientInv, [ClientNext]_<<clientVars, vars>>
  PROVE  ClientInv'
<1>1. CASE UNCHANGED <<clientVars, vars>>
  BY <1>1 DEF clientVars, vars, ClientInv, ClientTypes, TypeOK, Rows, Reads, ReadInOrder, RefreshesHold, TokensHold, Valid,
         StrandedBehindInvalid, Stranded, Under, RefusedForAReason
<1>2. ASSUME NEW m \in Requests,
             \/ \E kind \in StdinMessages : DataArrives(m, kind)
             \/ \E kind \in Messages : HttpArrives(m, kind)
      PROVE  ClientInv'
  <2>1. Messages \subseteq StdinMessages
    BY DEF StdinMessages
  <2> QED
    BY <1>2, <2>1, ArrivalsKeepClientInv
<1> QED
  BY <1>1, <1>2, ReadingKeepsClientInv, CallsKeepClientInv, OthersKeepClientInv DEF ClientNext

\* What is read, what waits and what each call was told, in every reachable state
\* of the MCP server as a client.  (mcp/collasco-mcp.ts:388-470, 573-604, 661-857)
THEOREM ClientInvAlways == ClientSpec => []ClientInv
<1>1. ClientInit => ClientInv
  BY ClientInvHoldsInitially
<1>2. ClientInv /\ [ClientNext]_<<clientVars, vars>> => ClientInv'
  BY ClientInvInductive
<1> QED
  BY <1>1, <1>2, PTL DEF ClientSpec

\* For any number of messages, whatever chunks they come in and however long the
\* calls before them take: what stays unread in the buffer with nobody left to
\* read it comes after an invalid message, or begins with one without a
\* Content-Length.  (mcp/collasco-mcp.ts:573-604, 846-857)
THEOREM StrandedBehindInvalidAlways == ClientSpec => []StrandedBehindInvalid
  BY ClientInvAlways, PTL DEF ClientInv

\* For any number of calls that refresh at the same time: one is refused for good
\* only when the session ended under it, its new token expired before it was used,
\* or another refresh took the row it had read.  (mcp/collasco-mcp.ts:388-470)
THEOREM RefusedForAReasonAlways == ClientSpec => []RefusedForAReason
  BY ClientInvAlways, PTL DEF ClientInv

-----------------------------------------------------------------------------
\* A step that ends all the logins, or opens the first one.
LEMMA EndsOrOpens ==
  ASSUME \/ rows' = {} /\ UNCHANGED <<opened, created>>
         \/ LoginScript /\ rows = {} /\ opened = 0 /\ created = 0
  PROVE  Sessions!Next
<1>1. CASE rows' = {} /\ UNCHANGED <<opened, created>>
  <2>1. {x.login : x \in rows'} = {}
    BY <1>1
  <2> QED
    BY <1>1, <2>1 DEF Sessions!Next, Sessions!EndAll
<1>2. CASE LoginScript /\ rows = {} /\ opened = 0 /\ created = 0
  <2>1. rows' = WithNew(rows, 1, 1) /\ opened' = 1 /\ created' = 1
    BY <1>2 DEF LoginScript
  <2>2. {x.login : x \in rows'} = {x.login : x \in rows} \cup {1}
    BY <2>1, LoginsWithNew
  <2>3. opened + 1 = 1 /\ created + 1 = 1
    BY <1>2
  <2> QED
    BY <1>2, <2>1, <2>2, <2>3 DEF Sessions!Next, Sessions!Open
<1> QED
  BY <1>1, <1>2

\* What the API does for the client is a step of its requests, or one of those.
LEMMA ClientStep ==
  ASSUME ClientInv, [ClientNext]_<<clientVars, vars>>
  PROVE  \/ [Next]_vars
         \/ rows' = {} /\ UNCHANGED <<opened, created>>
         \/ LoginScript /\ rows = {} /\ opened = 0 /\ created = 0
<1>1. CASE UNCHANGED <<clientVars, vars>>
  BY <1>1
<1>2. ASSUME NEW m \in Requests, CallSteps(m)
      PROVE  [Next]_vars
  BY <1>2 DEF CallSteps, Ask, AskRefresh, Rotates, RefreshAnswered, ConnectionBreaks, serverVars, vars, Next
<1>3. ASSUME NEW m \in Requests, NEW kind, DataArrives(m, kind) \/ HttpArrives(m, kind)
      PROVE  UNCHANGED vars
  BY <1>3 DEF DataArrives, HttpArrives, serverVars, vars
<1>4. CASE TakeMessage \/ LengthMissing \/ ReadersReturn \/ TokensExpire
  BY <1>4 DEF TakeMessage, LengthMissing, ReadersReturn, TokensExpire, serverVars, vars
<1>5. CASE SessionEnds
  BY <1>5 DEF SessionEnds
<1>6. CASE LoginScript
  BY <1>6 DEF LoginScript, ClientInv, RefreshesHold
<1> QED
  BY <1>1, <1>2, <1>3, <1>4, <1>5, <1>6 DEF ClientNext

\* The same of a reset.
LEMMA ResetStep ==
  ASSUME [ResetNext]_<<vars, resetVars>>
  PROVE  [Next]_vars \/ (rows' = {} /\ UNCHANGED <<opened, created>>)
<1> USE DEF TokensOfUser, vars
<1>1. CASE UNCHANGED <<vars, resetVars>>
  BY <1>1
<1>2. ASSUME NEW r \in Visitors,
             VerifyPassword(r) \/ StartSession(r) \/ OpenSession(r) \/ RefreshOrLogout(r)
      PROVE  [Next]_vars
  BY <1>2, ResetBounds DEF VerifyPassword, StartSession, OpenSession, RefreshOrLogout, Next
<1>3. ASSUME NEW q \in Resetters, ResetRevoke(q)
      PROVE  rows' = {} /\ UNCHANGED <<opened, created>>
  BY <1>3 DEF ResetRevoke
<1>4. ASSUME NEW q \in Resetters,
             \/ RequestResetDelete(q) \/ RequestResetCreate(q)
             \/ \E t \in ResetTokens : ResetFind(q, t)
             \/ ResetWrite(q) \/ ResetMark(q) \/ ResetFails(q) \/ ChangeVerify(q) \/ ChangeWrite(q)
      PROVE  UNCHANGED vars
  BY <1>4 DEF RequestResetDelete, RequestResetCreate, ResetFind, ResetWrite, ResetMark, ResetFails, ChangeVerify,
              ChangeWrite
<1>5. ASSUME NEW t \in ResetTokens, ResetTokenExpires(t)
      PROVE  UNCHANGED vars
  BY <1>5 DEF ResetTokenExpires
<1> QED
  BY <1>1, <1>2, <1>3, <1>4, <1>5 DEF ResetNext

\* The client's logins, refreshes and logouts implement UserSessions: in no
\* interleaving of its calls is a token handed out while no login is open.
\* (mcp/collasco-mcp.ts:388-404, tokens.service.ts:13-51)
THEOREM ClientImplementsSessions == ClientSpec => SessionsImplemented
<1>1. ClientInit => Sessions!Init
  BY DEF ClientInit, Init, Sessions!Init
<1>2. ClientInv /\ [ClientNext]_<<clientVars, vars>> => [Sessions!Next]_<<{x.login : x \in rows}, opened, created>>
  BY ClientStep, SessionsStep, EndsOrOpens
<1> QED
  BY <1>1, <1>2, ClientInvAlways, PTL DEF ClientSpec, SessionsImplemented, Sessions!Spec

\* So do the rows of a user whose password is reset, at whatever moment of a login
\* or a refresh.  (auth.service.ts:138-175, tokens.service.ts:13-51)
THEOREM ResetImplementsSessions == ResetSpec => SessionsImplemented
<1>1. Init => Sessions!Init
  BY DEF Init, Sessions!Init
<1>2. [ResetNext]_<<vars, resetVars>> => [Sessions!Next]_<<{x.login : x \in rows}, opened, created>>
  BY ResetStep, SessionsStep, EndsOrOpens
<1> QED
  BY <1>1, <1>2, PTL DEF ResetSpec, SessionsImplemented, Sessions!Spec

\* Who ends all logins, or opens the first, leaves one row for each login.
LEMMA EndsOrOpensOnce ==
  ASSUME Inv, TypeOK',
         \/ rows' = {}
         \/ LoginScript /\ rows = {}
  PROVE  Inv'
<1>1. \A x, y \in rows' : x = y
  BY DEF LoginScript, WithNew
<1> QED
  BY <1>1 DEF Inv, RowsNumbered, LoginsNotForked

\* Neither the calls of the MCP server nor the resets of the password leave a login
\* with two refreshable rows.  (tokens.service.ts:39-50, auth.service.ts:138-175)
THEOREM LoginsNeverForked ==
  /\ ClientSpec => []LoginsNotForked
  /\ ResetSpec => []LoginsNotForked
<1>1. Init => Inv
  BY DEF Init, Inv, TypeOK, RowsNumbered, LoginsNotForked, Rows, Reads
<1>2. ClientSpec => []Inv
  <2>1. ClientInit => Inv
    BY <1>1 DEF ClientInit
  <2>2. ClientInv /\ ClientInv' /\ Inv /\ [ClientNext]_<<clientVars, vars>> => Inv'
    BY ClientStep, InvInductive, EndsOrOpensOnce DEF ClientInv, ClientTypes
  <2> QED
    BY <2>1, <2>2, ClientInvAlways, PTL DEF ClientSpec
<1>3. ResetSpec => []Inv
  <2>1. ResetInv /\ ResetInv' /\ Inv /\ [ResetNext]_<<vars, resetVars>> => Inv'
    BY ResetStep, InvInductive, EndsOrOpensOnce DEF ResetInv, ResetTypeOK
  <2> QED
    BY <1>1, <2>1, ResetInvAlways, PTL DEF ResetSpec
<1>4. Inv => LoginsNotForked
  BY DEF Inv
<1> QED
  BY <1>2, <1>3, <1>4, PTL

\* The run of the three parts checks these specifications: a behaviour of it is one
\* of the requests alone, of the client or of the resets.
THEOREM SessionsParts ==
  SessionsSpec => \/ Spec
                  \/ ClientSpec
                  \/ ResetSpec
<1>1. SessionsInit => Init /\ ClientInit /\ ResetInit /\ part \in {"tokens", "client", "reset"}
  BY DEF SessionsInit, ClientInit
<1>2. part = "tokens" /\ [SessionsNext]_allVars => [Next]_vars /\ (part = "tokens")'
  BY DEF SessionsNext, allVars
<1>3. part = "client" /\ [SessionsNext]_allVars => [ClientNext]_<<clientVars, vars>> /\ (part = "client")'
  BY DEF SessionsNext, allVars
<1>4. part = "reset" /\ [SessionsNext]_allVars => [ResetNext]_<<vars, resetVars>> /\ (part = "reset")'
  BY DEF SessionsNext, allVars
<1>5. part \in {"tokens", "client", "reset"} => part = "tokens" \/ part = "client" \/ part = "reset"
  OBVIOUS
<1> QED
  BY <1>1, <1>2, <1>3, <1>4, <1>5, PTL DEF SessionsSpec, Spec, ClientSpec, ResetSpec
=============================================================================
