--------------------------- MODULE ProjectProofs ----------------------------
(* For any number of users, roles, labels, cases, runs and requests: the   *)
(* members of a project have roles that exist, and a label is seen by whom *)
(* it was shown to; every reader makes the same of the labels a list has   *)
(* kept, and moving a label in their order moves no other; the scope of a  *)
(* test run is the one that was asked for, and what the dashboard says of  *)
(* it is so; and who follows a ticket is told of what happens to it.       *)
EXTENDS MCProject, FiniteSetTheorems, SequenceTheorems, TLAPS

-----------------------------------------------------------------------------
(* Members, roles and labels.                                              *)

\* The rows of a label are what is left of the roles it was last given, and those
\* were roles: no row comes back with a role created later.
RowsAsWanted ==
  \A l \in Labels : /\ rows[l] = wanted[l] \cap LiveRoles
                    /\ \A n \in wanted[l] : roles[n].state # "none"

AccessInv == AccessTypeOK /\ MembersHaveRoles /\ RowsAsWanted

\* The project begins with the role of its owner.
LEMMA AccessInvHoldsInitially ==
  ASSUME AccessInit
  PROVE  AccessInv
<1>1. 1 \in Roles /\ roles[1].state = "live"
  BY MaxRolesAssumption DEF AccessInit, Roles
<1>2. AccessTypeOK /\ RowsAsWanted
  BY OwnerAssumption, <1>1 DEF AccessInit, AccessTypeOK, RowsAsWanted, OwnerRole, Call
<1>3. MembersHaveRoles
  BY OwnerAssumption, <1>1 DEF AccessInit, MembersHaveRoles, OwnerRole, LiveRoles
<1> QED
  BY <1>2, <1>3 DEF AccessInv

\* Every statement of a request keeps the members and the rows of labels.
LEMMA AccessInvInductive ==
  ASSUME AccessInv, [AccessNext]_accessVars
  PROVE  AccessInv'
<1> USE OwnerAssumption, MaxRolesAssumption
    DEF AccessInv, AccessTypeOK, MembersHaveRoles, RowsAsWanted, LiveRoles, OwnerRole, Roles, Role, Calls,
        Idle, Call
<1>1. ASSUME NEW c \in Callers, NEW u \in Users, NEW n \in Roles,
             AddMemberRead(c, u, n) \/ UpdateMemberRoleRead(c, u, n)
      PROVE  AccessInv'
  BY <1>1 DEF AddMemberRead, UpdateMemberRoleRead, Assignable
<1>2. ASSUME NEW c \in Callers, AssignCommit(c)
      PROVE  AccessInv'
  <2>1. CASE UNCHANGED member
    BY <1>2, <2>1 DEF AssignCommit
  <2>2. CASE member' = [member EXCEPT ![call[c].user] = call[c].role] /\ call[c].role \in LiveRoles
    BY <1>2, <2>2 DEF AssignCommit
  <2> QED
    BY <1>2, <2>1, <2>2 DEF AssignCommit
<1>3. ASSUME NEW c \in Callers, NEW n \in Roles, DeleteRoleRead(c, n)
      PROVE  AccessInv'
  BY <1>3 DEF DeleteRoleRead
<1>4. ASSUME NEW c \in Callers, DeleteRoleCommit(c)
      PROVE  AccessInv'
  <2>1. CASE UNCHANGED <<roles, rows>>
    BY <1>4, <2>1 DEF DeleteRoleCommit
  <2>2. ASSUME NEW n \in Roles, n # 1, Deletable(n), n = call[c].role,
               roles' = [roles EXCEPT ![n].state = "deleted"], rows' = WithoutRole(n)
        PROVE  AccessInv'
    <3>1. LiveRoles' = LiveRoles \ {n}
      BY <2>2
    <3>2. RowsAsWanted'
      BY <1>4, <2>2, <3>1 DEF DeleteRoleCommit, WithoutRole
    <3>3. MembersHaveRoles'
      BY <1>4, <2>2, <3>1 DEF DeleteRoleCommit, Deletable
    <3>4. AccessTypeOK'
      <4>1. roles' \in [Roles -> Role]
        <5>1. roles[n] \in Role
          OBVIOUS
        <5>2. [roles[n] EXCEPT !.state = "deleted"] \in Role
          BY <5>1
        <5>3. roles' = [roles EXCEPT ![n] = [roles[n] EXCEPT !.state = "deleted"]]
          BY <2>2
        <5> QED
          BY <5>2, <5>3
      <4>2. rows' \in [Labels -> SUBSET Roles]
        BY <2>2 DEF WithoutRole
      <4>3. call' \in [Callers -> Call] /\ UNCHANGED <<member, wanted>>
        BY <1>4 DEF DeleteRoleCommit
      <4> QED
        BY <4>1, <4>2, <4>3
    <3> QED
      BY <3>2, <3>3, <3>4
  <2> QED
    BY <1>4, <2>1, <2>2 DEF DeleteRoleCommit
<1>5. ASSUME NEW c \in Callers, NEW l \in Labels, NEW S \in SUBSET Roles, ShowLabelRead(c, l, S)
      PROVE  AccessInv'
  BY <1>5 DEF ShowLabelRead
<1>6. ASSUME NEW c \in Callers, ShowLabelCommit(c)
      PROVE  AccessInv'
  <2>1. CASE UNCHANGED <<rows, wanted>>
    BY <1>6, <2>1 DEF ShowLabelCommit
  <2>2. CASE /\ call[c].roles \subseteq LiveRoles
             /\ rows' = [rows EXCEPT ![call[c].label] = call[c].roles]
             /\ wanted' = [wanted EXCEPT ![call[c].label] = call[c].roles]
    BY <1>6, <2>2 DEF ShowLabelCommit
  <2> QED
    BY <1>6, <2>1, <2>2 DEF ShowLabelCommit
<1>7. ASSUME NEW u \in Users, RemoveMember(u)
      PROVE  AccessInv'
  BY <1>7 DEF RemoveMember
<1>8. ASSUME NEW keys \in SUBSET Permissions, CreateRole(keys)
      PROVE  AccessInv'
  <2>1. PICK n \in Roles : /\ roles[n].state = "none"
                           /\ roles' = [roles EXCEPT ![n] = [state |-> "live", keys |-> keys]]
    BY <1>8 DEF CreateRole
  <2>2. LiveRoles' = LiveRoles \cup {n}
    BY <2>1
  <2>3. RowsAsWanted'
    BY <1>8, <2>1, <2>2 DEF CreateRole
  <2>4. MembersHaveRoles'
    BY <1>8, <2>2 DEF CreateRole
  <2>5. AccessTypeOK'
    BY <1>8, <2>1 DEF CreateRole
  <2> QED
    BY <2>3, <2>4, <2>5
<1>9. ASSUME NEW keys \in SUBSET Permissions, NEW n \in Roles, UpdateRole(n, keys)
      PROVE  AccessInv'
  <2>1. LiveRoles' = LiveRoles /\ \A k \in Roles : roles'[k].state = roles[k].state
    BY <1>9 DEF UpdateRole
  <2> QED
    BY <1>9, <2>1 DEF UpdateRole
<1>10. CASE UNCHANGED accessVars
  BY <1>10 DEF accessVars
<1> QED
  BY <1>1, <1>2, <1>3, <1>4, <1>5, <1>6, <1>7, <1>8, <1>9, <1>10 DEF AccessNext

\* Types, members and rows, in every reachable state.
\* (projects.service.ts:1590-1830, qa.service.ts:384-438)
THEOREM AccessInvAlways == AccessSpec => []AccessInv
<1>1. AccessInit => AccessInv
  BY AccessInvHoldsInitially
<1>2. AccessInv /\ [AccessNext]_accessVars => AccessInv'
  BY AccessInvInductive
<1> QED
  BY <1>1, <1>2, PTL DEF AccessSpec

\* However the requests overlap, a member has a role that was not deleted, and the
\* owner keeps the role of the owner.  (projects.service.ts:1590-1830)
THEOREM MembersHaveRolesAlways == AccessSpec => []MembersHaveRoles
  BY AccessInvAlways, PTL DEF AccessInv

\* However the requests overlap, a label is seen by the roles it was last given
\* and that were not deleted since, or by everybody.
\* (projects.service.ts:155-182, qa.service.ts:384-438)
THEOREM SeenByWantedAlways == AccessSpec => []SeenByWanted
<1>1. AccessInv => SeenByWanted
  BY DEF AccessInv, AccessTypeOK, MembersHaveRoles, RowsAsWanted, SeenByWanted, MayView, ResolvedRole, Roles,
         OwnerRole
<1> QED
  BY <1>1, AccessInvAlways, PTL

-----------------------------------------------------------------------------
(* Sorted lists.                                                           *)

\* R is a strict total order on S.
Orders(R, S) ==
  /\ \A x \in S : <<x, x>> \notin R
  /\ \A x, y, z \in S : <<x, y>> \in R /\ <<y, z>> \in R => <<x, z>> \in R
  /\ \A x, y \in S : x = y \/ <<x, y>> \in R \/ <<y, x>> \in R

Prior(S, R, x) == {y \in S : <<y, x>> \in R}
Place(S, R, x) == Cardinality(Prior(S, R, x))

\* An element has fewer before it than there are, and fewer than a later one.
LEMMA PlaceGrows ==
  ASSUME NEW S, NEW R, IsFiniteSet(S), Orders(R, S), NEW x \in S
  PROVE  /\ Place(S, R, x) \in 0..(Cardinality(S) - 1)
         /\ \A y \in S : <<x, y>> \in R => Place(S, R, x) < Place(S, R, y)
<1> DEFINE P == Prior(S, R, x)
<1>1. P \subseteq S /\ x \notin P
  BY DEF Orders, Prior
<1>2. IsFiniteSet(P) /\ Cardinality(P) \in Nat /\ Cardinality(S) \in Nat
  BY <1>1, FS_Subset, FS_CardinalityType
<1>3. IsFiniteSet(P \cup {x}) /\ Cardinality(P \cup {x}) = Cardinality(P) + 1
  BY <1>1, <1>2, FS_AddElement
<1>4. P \cup {x} \in SUBSET S
  BY <1>1
<1>5. Cardinality(P \cup {x}) <= Cardinality(S)
  BY <1>4, FS_Subset
<1>6. ASSUME NEW y \in S, <<x, y>> \in R
      PROVE  Cardinality(P) < Cardinality(Prior(S, R, y))
  <2>1. P \cup {x} \in SUBSET Prior(S, R, y)
    BY <1>6 DEF Prior, Orders
  <2>2. Prior(S, R, y) \in SUBSET S
    BY DEF Prior
  <2>3. IsFiniteSet(Prior(S, R, y)) /\ Cardinality(Prior(S, R, y)) \in Nat
    BY <2>2, FS_Subset, FS_CardinalityType
  <2>4. Cardinality(P \cup {x}) <= Cardinality(Prior(S, R, y))
    BY <2>1, <2>3, FS_Subset
  <2> HIDE DEF P
  <2> QED
    BY <1>2, <1>3, <2>3, <2>4
<1>7. Place(S, R, x) = Cardinality(P)
  BY DEF Place
<1>8. \A y \in S : <<x, y>> \in R => Cardinality(P) < Place(S, R, y)
  BY <1>6 DEF Place
<1> HIDE DEF P
<1> QED
  BY <1>2, <1>3, <1>5, <1>7, <1>8

\* No two have one place, and no place is free.
LEMMA PlacesTaken ==
  ASSUME NEW S, NEW R, IsFiniteSet(S), Orders(R, S)
  PROVE  /\ \A x, y \in S : Place(S, R, x) = Place(S, R, y) => x = y
         /\ \A v \in 0..(Cardinality(S) - 1) : \E x \in S : Place(S, R, x) = v
<1>1. ASSUME NEW x \in S, NEW y \in S, x # y
      PROVE  Place(S, R, x) # Place(S, R, y)
  <2>1. Place(S, R, x) \in Int /\ Place(S, R, y) \in Int
    <3>1. Cardinality(S) \in Nat
      BY FS_CardinalityType
    <3> QED
      BY <3>1, PlaceGrows
  <2>2. <<x, y>> \in R \/ <<y, x>> \in R
    BY <1>1 DEF Orders
  <2>3. Place(S, R, x) < Place(S, R, y) \/ Place(S, R, y) < Place(S, R, x)
    BY <2>2, PlaceGrows
  <2> QED
    BY <2>1, <2>3
<1>2. ASSUME NEW v \in 0..(Cardinality(S) - 1), \A x \in S : Place(S, R, x) # v
      PROVE  FALSE
  <2> DEFINE n == Cardinality(S)
             P == 0..(n - 1)
             T == P \ {v}
             f == [x \in S |-> Place(S, R, x)]
  <2>1. n \in Nat
    BY FS_CardinalityType
  <2>2. \A x \in S : Place(S, R, x) \in P
    BY PlaceGrows
  <2> HIDE DEF n
  <2>3. IsFiniteSet(P) /\ Cardinality(P) = n /\ v \in P
    BY <2>1, FS_Interval DEF n
  <2> HIDE DEF P
  <2>4. IsFiniteSet(T) /\ Cardinality(T) = n - 1
    BY <2>3, FS_RemoveElement
  <2>5. f \in [S -> T]
    BY <1>2, <2>2
  <2>6. Cardinality(T) < Cardinality(S)
    BY <2>1, <2>4 DEF n
  <2> HIDE DEF T, f
  <2>7. \E x, y \in S : x # y /\ f[x] = f[y]
    BY <2>4, <2>5, <2>6, FS_PigeonHole
  <2> QED
    BY <1>1, <2>7 DEF f
<1> QED
  BY <1>1, <1>2

\* The sorted list has every element once, at its place, and so in order.
LEMMA SortedByProperties ==
  ASSUME NEW S, NEW R, IsFiniteSet(S), Orders(R, S)
  PROVE  /\ Cardinality(S) \in Nat
         /\ SortedBy(S, R) \in [1..Cardinality(S) -> S]
         /\ \A x \in S : /\ Place(S, R, x) + 1 \in 1..Cardinality(S)
                         /\ SortedBy(S, R)[Place(S, R, x) + 1] = x
         /\ \A n \in 1..Cardinality(S) : Place(S, R, SortedBy(S, R)[n]) = n - 1
         /\ \A m, n \in 1..Cardinality(S) :
              m < n <=> <<SortedBy(S, R)[m], SortedBy(S, R)[n]>> \in R
<1> DEFINE N == Cardinality(S)
           s == SortedBy(S, R)
<1>1. N \in Nat
  BY FS_CardinalityType
<1>2. s = [n \in 1..N |-> CHOOSE x \in S : Place(S, R, x) = n - 1]
  BY DEF SortedBy, Place, Prior
<1>3. \A v \in 0..(N - 1) : \E x \in S : Place(S, R, x) = v
  BY PlacesTaken
<1>4. \A x, y \in S : Place(S, R, x) = Place(S, R, y) => x = y
  BY PlacesTaken
<1>5. \A x \in S : Place(S, R, x) \in 0..(N - 1)
  BY PlaceGrows
<1> HIDE DEF N, s
<1>6. ASSUME NEW n \in 1..N
      PROVE  s[n] \in S /\ Place(S, R, s[n]) = n - 1
  <2>1. n - 1 \in 0..(N - 1)
    BY <1>1
  <2>2. s[n] = CHOOSE x \in S : Place(S, R, x) = n - 1
    BY <1>2
  <2>3. \E x \in S : Place(S, R, x) = n - 1
    BY <1>3, <2>1
  <2> QED
    BY <2>2, <2>3
<1>7. s \in [1..N -> S]
  BY <1>2, <1>6
<1>8. ASSUME NEW x \in S
      PROVE  Place(S, R, x) + 1 \in 1..N /\ s[Place(S, R, x) + 1] = x
  <2>1. Place(S, R, x) + 1 \in 1..N /\ (Place(S, R, x) + 1) - 1 = Place(S, R, x)
    BY <1>1, <1>5
  <2> QED
    BY <1>4, <1>6, <2>1
<1>9. ASSUME NEW m \in 1..N, NEW n \in 1..N
      PROVE  m < n <=> <<s[m], s[n]>> \in R
  <2>1. /\ s[m] \in S /\ s[n] \in S
        /\ Place(S, R, s[m]) = m - 1 /\ Place(S, R, s[n]) = n - 1
    BY <1>6
  <2>2. /\ <<s[m], s[n]>> \in R => Place(S, R, s[m]) < Place(S, R, s[n])
        /\ <<s[n], s[m]>> \in R => Place(S, R, s[n]) < Place(S, R, s[m])
    BY <2>1, PlaceGrows
  <2>3. s[m] = s[n] \/ <<s[m], s[n]>> \in R \/ <<s[n], s[m]>> \in R
    BY <2>1 DEF Orders
  <2> QED
    BY <1>1, <2>1, <2>2, <2>3
<1> QED
  BY <1>1, <1>6, <1>7, <1>8, <1>9 DEF N, s

\* A list of all elements in order is the sorted one.
LEMMA SortedByUnique ==
  ASSUME NEW S, NEW R, IsFiniteSet(S), Orders(R, S),
         NEW t \in [1..Cardinality(S) -> S],
         \A m, n \in 1..Cardinality(S) : m < n => <<t[m], t[n]>> \in R
  PROVE  t = SortedBy(S, R)
<1> DEFINE N == Cardinality(S)
<1>1. N \in Nat
  BY FS_CardinalityType
<1>2. IsFiniteSet(1..N) /\ Cardinality(1..N) = N
  BY <1>1, FS_Interval
<1>3. \A m, n \in 1..N : m < n <=> <<t[m], t[n]>> \in R
  <2> SUFFICES ASSUME NEW m \in 1..N, NEW n \in 1..N, ~ (m < n), <<t[m], t[n]>> \in R
               PROVE  FALSE
    OBVIOUS
  <2>1. m = n \/ n < m
    BY <1>1
  <2>2. m = n => FALSE
    BY DEF Orders
  <2>3. n < m => <<t[n], t[m]>> \in R
    OBVIOUS
  <2> QED
    BY <2>1, <2>2, <2>3 DEF Orders
<1>4. \A m, n \in 1..N : t[m] = t[n] => m = n
  <2> SUFFICES ASSUME NEW m \in 1..N, NEW n \in 1..N, t[m] = t[n], m # n
               PROVE  FALSE
    OBVIOUS
  <2>1. m < n \/ n < m
    BY <1>1
  <2> QED
    BY <2>1 DEF Orders
<1> HIDE DEF N
<1>5. t \in Injection(1..N, S)
  BY <1>4 DEF N, Injection, IsInjective
<1>6. t \in Surjection(1..N, S)
  BY <1>2, <1>5, FS_Injection DEF N
<1>7. \A x \in S : \E n \in 1..N : t[n] = x
  BY <1>6 DEF Surjection
<1>8. ASSUME NEW n \in 1..N
      PROVE  Place(S, R, t[n]) = n - 1
  <2> DEFINE f == [m \in 1..(n - 1) |-> t[m]]
             P == Prior(S, R, t[n])
  <2>1. n \in Nat /\ n - 1 \in Nat /\ \A m \in 1..(n - 1) : m \in 1..N /\ m < n
    BY <1>1
  <2>2. \A m \in 1..N : m < n => m \in 1..(n - 1)
    BY <1>1
  <2>3. \A m \in 1..(n - 1) : f[m] \in P
    BY <1>3, <2>1 DEF Prior, N
  <2>4. \A x \in P : \E m \in 1..(n - 1) : f[m] = x
    BY <1>3, <1>7, <2>2 DEF Prior
  <2>5. \A l, m \in 1..(n - 1) : f[l] = f[m] => l = m
    BY <1>4, <2>1
  <2>6. f \in Bijection(1..(n - 1), P)
    <3>1. f \in [1..(n - 1) -> P] /\ DOMAIN f = 1..(n - 1)
      BY <2>3
    <3> HIDE DEF f, P
    <3> QED
      BY <2>4, <2>5, <3>1 DEF Bijection, Injection, Surjection, IsInjective
  <2> HIDE DEF f
  <2>7. IsFiniteSet(1..(n - 1)) /\ Cardinality(1..(n - 1)) = n - 1
    BY <2>1, FS_Interval
  <2>8. ExistsBijection(1..(n - 1), P)
    BY <2>6 DEF ExistsBijection
  <2> HIDE DEF P
  <2>9. Cardinality(P) = n - 1
    BY <2>7, <2>8, FS_Bijection
  <2> QED
    BY <2>9 DEF P, Place
<1> DEFINE u == SortedBy(S, R)
<1>9. u \in [1..N -> S] /\ \A x \in S : u[Place(S, R, x) + 1] = x
  BY SortedByProperties DEF N
<1> HIDE DEF u
<1>10. \A n \in 1..N : t[n] = u[n]
  <2> SUFFICES ASSUME NEW n \in 1..N
               PROVE  t[n] = u[n]
    OBVIOUS
  <2>1. t[n] \in S
    BY DEF N
  <2>2. (n - 1) + 1 = n
    BY <1>1
  <2> QED
    BY <1>8, <1>9, <2>1, <2>2
<1>11. t \in [1..N -> S]
  BY DEF N
<1>12. t = [n \in 1..N |-> t[n]] /\ u = [n \in 1..N |-> u[n]]
  BY <1>9, <1>11
<1>13. [n \in 1..N |-> t[n]] = [n \in 1..N |-> u[n]]
  BY <1>10
<1>14. t = u
  BY <1>12, <1>13
<1> QED
  BY <1>14 DEF u

\* Numbers are ordered by what they are.
LEMMA AscendingOrders ==
  ASSUME NEW D \in SUBSET Int, NEW S \in SUBSET D
  PROVE  Orders(Ascending(D), S)
BY DEF Orders, Ascending

-----------------------------------------------------------------------------
(* Labels somebody is shown.                                               *)

LEMMA IdListType ==
  ASSUME NEW ids \in IdLists
  PROVE  \E k \in Nat : /\ ids \in [1..k -> ShownLabels] /\ DOMAIN ids = 1..k
                        /\ \A m, n \in 1..k : ids[m] = ids[n] => m = n
<1>1. PICK s \in SUBSET ShownLabels : ids \in SetToSeqs(s)
  BY DEF IdLists, SetToAllKPermutations
<1>2. IsFiniteSet(s) /\ Cardinality(s) \in Nat
  <2>1. IsFiniteSet(ShownLabels)
    BY ShownAssumption, FS_Interval DEF ShownLabels
  <2> QED
    BY <2>1, FS_Subset, FS_CardinalityType
<1>3. /\ ids \in [1..Cardinality(s) -> s]
      /\ \A m, n \in 1..Cardinality(s) : m # n => ids[m] # ids[n]
  BY <1>1 DEF SetToSeqs
<1>4. ids \in [1..Cardinality(s) -> ShownLabels] /\ DOMAIN ids = 1..Cardinality(s)
  BY <1>3
<1> QED
  BY <1>2, <1>3, <1>4

\* The ids of a list that are in S.
Usable(ids, S) == {l \in S \cap ShownLabels : \E n \in DOMAIN ids : ids[n] = l}

\* The filtered list has all of them, in the order of the list.
LEMMA FilteredList ==
  ASSUME NEW ids \in IdLists, NEW S
  PROVE  LET U == Usable(ids, S) N == Cardinality(U) t == Filtered(ids, S)
         IN  /\ IsFiniteSet(U) /\ N \in Nat /\ t \in [1..N -> U]
             /\ \A m, n \in 1..N : t[m] = t[n] => m = n
             /\ \A m, n \in 1..N : m < n => \E i, j \in DOMAIN ids : ids[i] = t[m] /\ ids[j] = t[n] /\ i < j
<1> DEFINE U == Usable(ids, S)
           P == {n \in DOMAIN ids : ids[n] \in S}
           at == SortedBy(P, Ascending(DOMAIN ids))
           t == Filtered(ids, S)
<1>1. PICK k \in Nat : /\ ids \in [1..k -> ShownLabels] /\ DOMAIN ids = 1..k
                       /\ \A m, n \in 1..k : ids[m] = ids[n] => m = n
  BY IdListType
<1>2. DOMAIN ids \in SUBSET Int /\ IsFiniteSet(DOMAIN ids) /\ P \in SUBSET (DOMAIN ids)
  <2>1. IsFiniteSet(1..k)
    BY FS_Interval
  <2> QED
    BY <1>1, <2>1
<1>3. IsFiniteSet(P) /\ Orders(Ascending(DOMAIN ids), P)
  BY <1>2, FS_Subset, AscendingOrders
<1>4. U = {ids[n] : n \in P}
  BY <1>1 DEF Usable
<1>5. \A n \in P : ids[n] \in U
  BY <1>4
<1>6. \A m, n \in P : m \in 1..k /\ n \in 1..k
  BY <1>1
<1>7. t = [n \in DOMAIN at |-> ids[at[n]]]
  BY DEF Filtered
<1> HIDE DEF P, U, t
<1>8. IsFiniteSet(U) /\ Cardinality(U) = Cardinality(P)
  <2> DEFINE f == [n \in P |-> ids[n]]
  <2>1. f \in [P -> U] /\ DOMAIN f = P
    BY <1>5
  <2>2. \A m, n \in P : f[m] = f[n] => m = n
    BY <1>1, <1>6
  <2>3. \A l \in U : \E n \in P : f[n] = l
    BY <1>4
  <2> HIDE DEF f
  <2>4. f \in Bijection(P, U)
    BY <2>1, <2>2, <2>3 DEF Bijection, Injection, Surjection, IsInjective
  <2>5. ExistsBijection(P, U)
    BY <2>4 DEF ExistsBijection
  <2> QED
    BY <1>3, <2>5, FS_Bijection
<1> DEFINE N == Cardinality(U)
<1>9. /\ N \in Nat /\ at \in [1..N -> P]
      /\ \A m, n \in 1..N : m < n <=> <<at[m], at[n]>> \in Ascending(DOMAIN ids)
  BY <1>3, <1>8, SortedByProperties
<1> HIDE DEF N, at
<1>10. DOMAIN at = 1..N /\ \A n \in 1..N : at[n] \in P
  BY <1>9
<1>11. \A n \in 1..N : t[n] = ids[at[n]] /\ t[n] \in U
  BY <1>5, <1>7, <1>10
<1>12. t \in [1..N -> U]
  BY <1>7, <1>10, <1>11
<1>13. \A m, n \in 1..N : m < n => at[m] < at[n]
  BY <1>9 DEF Ascending
<1>14. ASSUME NEW m \in 1..N, NEW n \in 1..N, m # n
       PROVE  t[m] # t[n]
  <2>1. m < n \/ n < m
    BY <1>9, <1>14
  <2>2. at[m] # at[n]
    <3>1. at[m] < at[n] \/ at[n] < at[m]
      BY <1>13, <2>1
    <3>2. at[m] \in P /\ at[n] \in P
      BY <1>10
    <3>3. at[m] \in Int /\ at[n] \in Int
      BY <1>6, <3>2
    <3> QED
      BY <3>1, <3>3
  <2> QED
    BY <1>1, <1>6, <1>10, <1>11, <2>2
<1>15. ASSUME NEW m \in 1..N, NEW n \in 1..N, m < n
       PROVE  \E i, j \in DOMAIN ids : ids[i] = t[m] /\ ids[j] = t[n] /\ i < j
  BY <1>1, <1>6, <1>10, <1>11, <1>13, <1>15
<1> QED
  BY <1>8, <1>9, <1>12, <1>14, <1>15 DEF N, U, t

\* It is a list without duplicates as well.
LEMMA FilteredType ==
  ASSUME NEW ids \in IdLists, NEW S
  PROVE  Filtered(ids, S) \in IdLists
<1> DEFINE U == Usable(ids, S)
<1>1. /\ Filtered(ids, S) \in [1..Cardinality(U) -> U]
      /\ \A m, n \in 1..Cardinality(U) : m # n => Filtered(ids, S)[m] # Filtered(ids, S)[n]
  BY FilteredList
<1>2. U \in SUBSET ShownLabels
  BY DEF Usable
<1> HIDE DEF U
<1>3. Filtered(ids, S) \in SetToSeqs(U)
  BY <1>1 DEF SetToSeqs
<1> QED
  BY <1>2, <1>3 DEF IdLists, SetToAllKPermutations

LEMMA ReadersTypeKept ==
  ASSUME LabelReadersTypeOK, [LabelReadersNext]_readerVars
  PROVE  LabelReadersTypeOK'
<1> USE DEF LabelReadersTypeOK
<1>1. ASSUME NEW s \in Savers, NEW what \in Saving \cup {NotSaving}, Saves(s, what)
      PROVE  saving' \in [Savers -> Saving \cup {NotSaving}]
  BY <1>1 DEF Saves
<1>2. ASSUME NEW s \in Savers, NEW v \in Viewers, NEW ids \in IdLists, PreferRead(s, v, ids)
      PROVE  LabelReadersTypeOK'
  <2>1. [op |-> "prefer", user |-> v, ids |-> Filtered(ids, VisibleTo(v))] \in Saving
    BY FilteredType DEF Saving
  <2> QED
    BY <1>1, <1>2, <2>1 DEF PreferRead
<1>3. ASSUME NEW s \in Savers, NEW labels \in SUBSET ShownLabels, ManualLinkRead(s, labels)
      PROVE  LabelReadersTypeOK'
  <2>1. [op |-> "link", labels |-> labels \cap Kept] \in Saving
    BY DEF Saving, Kept
  <2> QED
    BY <1>1, <1>3, <2>1 DEF ManualLinkRead
<1>4. ASSUME NEW s \in Savers, PreferWrite(s)
      PROVE  LabelReadersTypeOK'
  <2>1. saving[s].user \in Viewers /\ saving[s].ids \in IdLists
    BY <1>4 DEF PreferWrite, Saving, NotSaving
  <2>2. preference' \in [Viewers -> IdLists]
    BY <1>4, <2>1 DEF PreferWrite
  <2> QED
    BY <1>1, <1>4, <2>2 DEF PreferWrite
<1>5. ASSUME NEW s \in Savers, ManualLinkCreate(s)
      PROVE  LabelReadersTypeOK'
  <2>1. saving[s].labels \in SUBSET ShownLabels
    BY <1>5 DEF ManualLinkCreate, Saving, NotSaving
  <2> QED
    BY <1>1, <1>5, <2>1 DEF ManualLinkCreate
<1>6. CASE \E labels \in manuals : RevokeManualLink(labels)
  BY <1>6 DEF RevokeManualLink
<1>7. CASE \E l \in ShownLabels :
             \/ LabelGoes(l) \/ LabelReturns(l)
             \/ \E allowed \in SUBSET ViewerRoles : LabelRestricted(l, allowed)
  BY <1>7 DEF LabelGoes, LabelReturns, LabelRestricted
<1>8. CASE \E v \in Viewers, role \in ViewedAs : RoleChanges(v, role)
  BY <1>8 DEF RoleChanges
<1>9. CASE UNCHANGED readerVars
  BY <1>9 DEF readerVars
<1> QED
  BY <1>2, <1>3, <1>4, <1>5, <1>6, <1>7, <1>8, <1>9 DEF LabelReadersNext

\* The labels preferred, in their order, are what the structure is sorted by.
LEMMA StructureAsSelected ==
  ASSUME LabelReadersTypeOK, NEW v \in Viewers, Selected(v) # <<>>
  PROVE  StructureLabels(v) = Selected(v)
<1> DEFINE ids == preference[v]
           S == VisibleTo(v)
           U == Usable(ids, S)
           N == Cardinality(U)
           t == Filtered(ids, S)
           at(l) == CHOOSE n \in DOMAIN ids : ids[n] = l
           R == {p \in U \X U : at(p[1]) < at(p[2])}
<1>1. ids \in IdLists /\ S \subseteq ShownLabels
  BY DEF LabelReadersTypeOK, VisibleTo, Kept
<1>2. PICK k \in Nat : /\ ids \in [1..k -> ShownLabels] /\ DOMAIN ids = 1..k
                       /\ \A m, n \in 1..k : ids[m] = ids[n] => m = n
  BY <1>1, IdListType
<1>3. /\ IsFiniteSet(U) /\ N \in Nat /\ t \in [1..N -> U]
      /\ \A m, n \in 1..N : m < n => \E i, j \in DOMAIN ids : ids[i] = t[m] /\ ids[j] = t[n] /\ i < j
  BY <1>1, FilteredList
<1>4. U = {l \in S : \E n \in DOMAIN ids : ids[n] = l}
  BY <1>1 DEF Usable
<1>5. \A n \in 1..k : at(ids[n]) = n
  BY <1>2
<1>6. t # <<>>
  BY DEF Selected
<1> HIDE DEF ids, S, t
<1>7. \A l \in U : at(l) \in 1..k /\ ids[at(l)] = l
  BY <1>2, <1>4
<1> HIDE DEF N
<1>8. U # {}
  <2> SUFFICES ASSUME U = {}
               PROVE  FALSE
    OBVIOUS
  <2>1. N = 0
    BY FS_EmptySet DEF N
  <2>2. t \in [1..0 -> {}]
    BY <1>3, <2>1
  <2>3. t \in Seq({})
    BY <2>2
  <2> QED
    BY <1>6, <2>2, <2>3, EmptySeq, LenProperties
<1>9. ids # <<>>
  BY <1>4, <1>8
<1>10. Orders(R, U)
  <2>1. \A x, y \in U : <<x, y>> \in R <=> at(x) < at(y)
    OBVIOUS
  <2>2. \A x \in U : at(x) \in Int
    BY <1>7
  <2>3. \A x, y \in U : at(x) = at(y) => x = y
    BY <1>7
  <2> HIDE DEF R, U, at
  <2> QED
    BY <2>1, <2>2, <2>3 DEF Orders
<1>11. \A m, n \in 1..N : m < n => <<t[m], t[n]>> \in R
  <2> SUFFICES ASSUME NEW m \in 1..N, NEW n \in 1..N, m < n
               PROVE  <<t[m], t[n]>> \in R
    OBVIOUS
  <2>1. PICK i \in DOMAIN ids, j \in DOMAIN ids : ids[i] = t[m] /\ ids[j] = t[n] /\ i < j
    BY <1>3
  <2>2. at(t[m]) = i /\ at(t[n]) = j
    BY <1>2, <1>5, <2>1
  <2>3. t[m] \in U /\ t[n] \in U
    BY <1>3
  <2> HIDE DEF U, at
  <2> QED
    BY <2>1, <2>2, <2>3
<1>12. StructureLabels(v) = SortedBy(U, R)
  BY <1>4, <1>8, <1>9 DEF StructureLabels, ids, S
<1> HIDE DEF R, U
<1>13. t = SortedBy(U, R)
  BY <1>3, <1>10, <1>11, SortedByUnique DEF N
<1> QED
  BY <1>12, <1>13 DEF Selected, t, ids, S

\* It shows nothing else: all that is visible when nothing preferred is left.
LEMMA StructureVisible ==
  ASSUME LabelReadersTypeOK, NEW v \in Viewers
  PROVE  ToSet(StructureLabels(v)) \subseteq VisibleTo(v)
<1> DEFINE ids == preference[v]
           S == VisibleTo(v)
           U == Usable(ids, S)
           N == Cardinality(U)
<1>1. ids \in IdLists /\ S \in SUBSET ShownLabels
  BY DEF LabelReadersTypeOK, VisibleTo, Kept
<1>2. IsFiniteSet(U) /\ N \in Nat /\ Selected(v) \in [1..N -> U]
  BY <1>1, FilteredList DEF Selected
<1>3. U = {l \in S : \E n \in DOMAIN ids : ids[n] = l}
  BY <1>1 DEF Usable
<1>4. CASE Selected(v) # <<>>
  <2>1. StructureLabels(v) = Selected(v)
    BY <1>4, StructureAsSelected
  <2> QED
    BY <1>2, <1>3, <2>1 DEF ToSet
<1>5. CASE Selected(v) = <<>>
  <2>1. N = 0
    BY <1>2, <1>5
  <2>2. U = {}
    BY <1>2, <2>1, FS_EmptySet
  <2>3. StructureLabels(v) \in {<<>>, Available(v)}
    BY <1>3, <2>2 DEF StructureLabels
  <2>4. ToSet(<<>>) = {}
    BY DEF ToSet
  <2>5. ToSet(Available(v)) \subseteq S
    <3>1. IsFiniteSet(S)
      <4>1. IsFiniteSet(ShownLabels)
        BY ShownAssumption, FS_Interval DEF ShownLabels
      <4> QED
        BY <1>1, <4>1, FS_Subset
    <3>2. S \in SUBSET Int
      BY <1>1, ShownAssumption DEF ShownLabels
    <3> HIDE DEF S
    <3>3. Orders(Ascending(S), S)
      BY <3>2, AscendingOrders
    <3>4. InOrder(S) \in [1..Cardinality(S) -> S]
      BY <3>1, <3>3, SortedByProperties DEF InOrder
    <3> QED
      BY <3>4 DEF ToSet, Available, S
  <2> QED
    BY <2>3, <2>4, <2>5
<1> QED
  BY <1>4, <1>5

\* Preferences and links may keep any ids: the filter and the sort of each reader
\* make the same of them.  (projects.service.ts:1000, 1443)
THEOREM LabelReadersAgreeAlways == LabelReadersSpec => []LabelReadersAgree
<1>1. LabelReadersInit => LabelReadersTypeOK
  <2>1. <<>> \in IdLists
    <3>1. Cardinality({}) = 0
      BY FS_EmptySet
    <3>2. <<>> \in SetToSeqs({})
      BY <3>1 DEF SetToSeqs
    <3> QED
      BY <3>2 DEF IdLists, SetToAllKPermutations
  <2> QED
    BY <2>1 DEF LabelReadersInit, LabelReadersTypeOK
<1>2. LabelReadersTypeOK /\ [LabelReadersNext]_readerVars => LabelReadersTypeOK'
  BY ReadersTypeKept
<1>3. LabelReadersTypeOK => LabelReadersAgree
  <2> SUFFICES ASSUME LabelReadersTypeOK
               PROVE  LabelReadersAgree
    OBVIOUS
  <2>1. \A v \in Viewers : ToSet(StructureLabels(v)) \subseteq VisibleTo(v)
    BY StructureVisible
  <2>2. ASSUME NEW v \in Viewers, viewerRole[v] # "none", NEW l \in VisibleTo(v)
        PROVE  l \in EntryLabels(v) /\ ImageLabels(v, {l}) = {l}
    BY <2>2 DEF VisibleTo, EntryLabels, ImageLabels
  <2>3. ASSUME NEW labels \in manuals, NEW filter \in SUBSET ShownLabels
        PROVE  /\ ManualLabels(labels, filter) \cap gone = {}
               /\ ManualLabels(labels, filter) \subseteq ManualImageLabels(labels, filter)
    BY DEF ManualLabels, ManualImageLabels, Kept
  <2> QED
    BY <2>1, <2>2, <2>3, StructureAsSelected DEF LabelReadersAgree
<1> QED
  BY <1>1, <1>2, <1>3, PTL DEF LabelReadersSpec

-----------------------------------------------------------------------------
(* The order of labels.                                                    *)

\* A list without duplicates.
ListOf(s, S) == s \in Seq(S) /\ \A m, n \in 1..Len(s) : s[m] = s[n] => m = n

\* The element at a place is taken out.
LEMMA RemovedAt ==
  ASSUME NEW S, NEW s \in Seq(S), NEW k \in 1..Len(s)
  PROVE  /\ RemoveAt(s, k) \in Seq(S)
         /\ Len(RemoveAt(s, k)) = Len(s) - 1
         /\ \A n \in 1..(Len(s) - 1) : RemoveAt(s, k)[n] = IF n < k THEN s[n] ELSE s[n + 1]
<1> DEFINE a == SubSeq(s, 1, k - 1)
           b == SubSeq(s, k + 1, Len(s))
<1>1. Len(s) \in Nat /\ k \in Nat /\ \A n \in 1..Len(s) : s[n] \in S
  BY LenProperties, ElementOfSeq
<1>2. a \in Seq(S) /\ Len(a) = k - 1 /\ \A n \in 1..(k - 1) : a[n] = s[n]
  <2>1. \A n \in 1..(k - 1) : s[n] \in S
    BY <1>1
  <2>2. /\ SubSeq(s, 1, k - 1) \in Seq(S)
        /\ Len(SubSeq(s, 1, k - 1)) = IF 1 <= k - 1 THEN (k - 1) - 1 + 1 ELSE 0
        /\ \A n \in 1..((k - 1) - 1 + 1) : SubSeq(s, 1, k - 1)[n] = s[1 + n - 1]
    BY <1>1, <2>1, SubSeqProperties
  <2> HIDE DEF a
  <2> QED
    BY <1>1, <2>2 DEF a
<1>3. b \in Seq(S) /\ Len(b) = Len(s) - k /\ \A n \in 1..(Len(s) - k) : b[n] = s[k + n]
  <2>1. \A n \in (k + 1)..Len(s) : s[n] \in S
    BY <1>1
  <2>2. /\ SubSeq(s, k + 1, Len(s)) \in Seq(S)
        /\ Len(SubSeq(s, k + 1, Len(s))) = IF k + 1 <= Len(s) THEN Len(s) - (k + 1) + 1 ELSE 0
        /\ \A n \in 1..(Len(s) - (k + 1) + 1) : SubSeq(s, k + 1, Len(s))[n] = s[k + 1 + n - 1]
    BY <1>1, <2>1, SubSeqProperties
  <2> HIDE DEF b
  <2> QED
    BY <1>1, <2>2 DEF b
<1> HIDE DEF a, b
<1>4. /\ a \o b \in Seq(S)
      /\ Len(a \o b) = Len(s) - 1
      /\ \A n \in 1..(Len(s) - 1) : (a \o b)[n] = IF n <= k - 1 THEN a[n] ELSE b[n - (k - 1)]
  BY <1>1, <1>2, <1>3, ConcatProperties
<1>5. ASSUME NEW n \in 1..(Len(s) - 1)
      PROVE  (a \o b)[n] = IF n < k THEN s[n] ELSE s[n + 1]
  <2>1. CASE n < k
    <3>1. n \in 1..(k - 1) /\ n <= k - 1
      BY <1>1, <2>1
    <3> QED
      BY <1>2, <1>4, <2>1, <3>1
  <2>2. CASE ~ (n < k)
    <3>1. n - (k - 1) \in 1..(Len(s) - k) /\ k + (n - (k - 1)) = n + 1 /\ ~ (n <= k - 1)
      BY <1>1, <2>2
    <3> QED
      BY <1>3, <1>4, <2>2, <3>1
  <2> QED
    BY <2>1, <2>2
<1>6. RemoveAt(s, k) = a \o b
  BY DEF RemoveAt, a, b
<1> QED
  BY <1>4, <1>5, <1>6

\* An element is put in at a place, and those from there on move up.
LEMMA InsertedAt ==
  ASSUME NEW S, NEW s \in Seq(S), NEW k \in 1..(Len(s) + 1), NEW x \in S
  PROVE  /\ InsertAt(s, k, x) \in Seq(S)
         /\ Len(InsertAt(s, k, x)) = Len(s) + 1
         /\ \A n \in 1..(Len(s) + 1) :
              InsertAt(s, k, x)[n] = IF n < k THEN s[n] ELSE IF n = k THEN x ELSE s[n - 1]
<1> DEFINE a == SubSeq(s, 1, k - 1)
           b == SubSeq(s, k, Len(s))
           c == a \o <<x>>
<1>1. Len(s) \in Nat /\ k \in Nat /\ \A n \in 1..Len(s) : s[n] \in S
  BY LenProperties, ElementOfSeq
<1>2. a \in Seq(S) /\ Len(a) = k - 1 /\ \A n \in 1..(k - 1) : a[n] = s[n]
  <2>1. \A n \in 1..(k - 1) : s[n] \in S
    BY <1>1
  <2>2. /\ SubSeq(s, 1, k - 1) \in Seq(S)
        /\ Len(SubSeq(s, 1, k - 1)) = IF 1 <= k - 1 THEN (k - 1) - 1 + 1 ELSE 0
        /\ \A n \in 1..((k - 1) - 1 + 1) : SubSeq(s, 1, k - 1)[n] = s[1 + n - 1]
    BY <1>1, <2>1, SubSeqProperties
  <2> HIDE DEF a
  <2> QED
    BY <1>1, <2>2 DEF a
<1>3. b \in Seq(S) /\ Len(b) = Len(s) - k + 1 /\ \A n \in 1..(Len(s) - k + 1) : b[n] = s[k + n - 1]
  <2>1. \A n \in k..Len(s) : s[n] \in S
    BY <1>1
  <2>2. /\ SubSeq(s, k, Len(s)) \in Seq(S)
        /\ Len(SubSeq(s, k, Len(s))) = IF k <= Len(s) THEN Len(s) - k + 1 ELSE 0
        /\ \A n \in 1..(Len(s) - k + 1) : SubSeq(s, k, Len(s))[n] = s[k + n - 1]
    BY <1>1, <2>1, SubSeqProperties
  <2> HIDE DEF b
  <2> QED
    BY <1>1, <2>2 DEF b
<1>4. <<x>> \in Seq(S) /\ Len(<<x>>) = 1 /\ <<x>>[1] = x
  OBVIOUS
<1> HIDE DEF a, b
<1>5. /\ c \in Seq(S) /\ Len(c) = k
      /\ \A n \in 1..k : c[n] = IF n <= k - 1 THEN a[n] ELSE <<x>>[n - (k - 1)]
  BY <1>1, <1>2, <1>4, ConcatProperties
<1>6. c[k] = x /\ \A n \in 1..(k - 1) : c[n] = s[n]
  <2>1. k \in 1..k /\ ~ (k <= k - 1) /\ k - (k - 1) = 1
        /\ \A n \in 1..(k - 1) : n \in 1..k /\ n <= k - 1
    BY <1>1
  <2> HIDE DEF c
  <2> QED
    BY <1>2, <1>4, <1>5, <2>1
<1> HIDE DEF c
<1>7. /\ c \o b \in Seq(S) /\ Len(c \o b) = Len(s) + 1
      /\ \A n \in 1..(Len(s) + 1) : (c \o b)[n] = IF n <= k THEN c[n] ELSE b[n - k]
  BY <1>1, <1>3, <1>5, ConcatProperties
<1>8. ASSUME NEW n \in 1..(Len(s) + 1)
      PROVE  (c \o b)[n] = IF n < k THEN s[n] ELSE IF n = k THEN x ELSE s[n - 1]
  <2>1. CASE n < k
    <3>1. n \in 1..(k - 1) /\ n <= k
      BY <1>1, <2>1
    <3> QED
      BY <1>6, <1>7, <2>1, <3>1
  <2>2. CASE n = k
    <3>1. n <= k /\ ~ (n < k)
      BY <1>1, <2>2
    <3> QED
      BY <1>6, <1>7, <2>2, <3>1
  <2>3. CASE ~ (n < k) /\ n # k
    <3>1. n - k \in 1..(Len(s) - k + 1) /\ k + (n - k) - 1 = n - 1 /\ ~ (n <= k)
      BY <1>1, <2>3
    <3>2. (c \o b)[n] = b[n - k] /\ b[n - k] = s[k + (n - k) - 1]
      BY <1>3, <1>7, <3>1
    <3>3. (c \o b)[n] = s[n - 1]
      BY <3>1, <3>2
    <3> QED
      BY <2>3, <3>3
  <2> QED
    BY <2>1, <2>2, <2>3
<1>9. InsertAt(s, k, x) = c \o b
  BY DEF InsertAt, a, b, c
<1> QED
  BY <1>7, <1>8, <1>9

\* In a list without duplicates an element has one index.
LEMMA IndexOf ==
  ASSUME NEW S, NEW s, ListOf(s, S), NEW k \in 1..Len(s)
  PROVE  IndexIn(s, s[k]) = k
<1>1. DOMAIN s = 1..Len(s)
  BY LenProperties DEF ListOf
<1> QED
  BY <1>1 DEF ListOf, IndexIn

\* What is left of a list without one of its elements, and what a list is after
\* an element was moved to an index.
LEMMA SplicedList ==
  ASSUME NEW S, NEW s, ListOf(s, S), NEW k \in 1..Len(s), NEW i \in 0..(Len(s) - 1)
  PROVE  LET l == s[k] p == Spliced(s, l, i)
         IN  /\ ListOf(p, S) /\ Len(p) = Len(s)
             /\ ToSet(p) = ToSet(s)
             /\ i + 1 \in 1..Len(p) /\ p[i + 1] = l
             /\ Without(p, l) = Without(s, l)
<1> DEFINE l == s[k]
           w == Without(s, l)
           p == Spliced(s, l, i)
           N == Len(s)
<1>1. s \in Seq(S) /\ N \in Nat /\ DOMAIN s = 1..N /\ l \in S /\ k \in Nat /\ i \in Nat
  BY LenProperties, ElementOfSeq DEF ListOf
<1>2. w = RemoveAt(s, k)
  BY IndexOf DEF Without
<1>3. /\ w \in Seq(S) /\ Len(w) = N - 1
      /\ \A n \in 1..(N - 1) : w[n] = IF n < k THEN s[n] ELSE s[n + 1]
  BY <1>1, <1>2, RemovedAt
<1>4. i + 1 \in 1..(Len(w) + 1)
  <2> HIDE DEF w
  <2> QED
    BY <1>1, <1>3
<1>5. p = InsertAt(w, i + 1, l)
  BY DEF Spliced
<1>6. /\ p \in Seq(S) /\ Len(p) = N
      /\ \A n \in 1..N : p[n] = IF n < i + 1 THEN w[n] ELSE IF n = i + 1 THEN l ELSE w[n - 1]
  <2> HIDE DEF w, p, l
  <2>1. /\ InsertAt(w, i + 1, l) \in Seq(S) /\ Len(InsertAt(w, i + 1, l)) = Len(w) + 1
        /\ \A n \in 1..(Len(w) + 1) :
             InsertAt(w, i + 1, l)[n] = IF n < i + 1 THEN w[n] ELSE IF n = i + 1 THEN l ELSE w[n - 1]
    BY <1>1, <1>3, <1>4, InsertedAt
  <2>2. Len(w) + 1 = N
    BY <1>1, <1>3
  <2> QED
    BY <1>5, <2>1, <2>2
<1> HIDE DEF w, p
\* Where an element of the new list was in the old one, and the other way round.
<1> DEFINE from(n) == IF n = i + 1 THEN k
                      ELSE LET m == IF n < i + 1 THEN n ELSE n - 1 IN IF m < k THEN m ELSE m + 1
           to(m) == IF m = k THEN i + 1
                    ELSE LET n == IF m < k THEN m ELSE m - 1 IN IF n < i + 1 THEN n ELSE n + 1
<1>7. \A n \in 1..N : from(n) \in 1..N /\ p[n] = s[from(n)]
  <2> SUFFICES ASSUME NEW n \in 1..N
               PROVE  from(n) \in 1..N /\ p[n] = s[from(n)]
    OBVIOUS
  <2>1. from(n) \in 1..N
    BY <1>1
  <2>2. CASE n = i + 1
    BY <1>1, <1>6, <2>1, <2>2
  <2>3. CASE n # i + 1
    <3> DEFINE m == IF n < i + 1 THEN n ELSE n - 1
    <3>1. m \in 1..(N - 1)
      BY <1>1, <2>3
    <3>2. p[n] = w[m]
      BY <1>1, <1>6, <2>3
    <3>3. w[m] = IF m < k THEN s[m] ELSE s[m + 1]
      BY <1>3, <3>1
    <3>4. from(n) = IF m < k THEN m ELSE m + 1
      BY <2>3
    <3> HIDE DEF m, from
    <3> QED
      BY <2>1, <3>2, <3>3, <3>4
  <2> QED
    BY <2>2, <2>3
<1>8. \A m \in 1..N : to(m) \in 1..N /\ from(to(m)) = m
  BY <1>1
<1>9. \A n, m \in 1..N : from(n) = from(m) => n = m
  BY <1>1
<1> HIDE DEF from, to
<1>10. \A n, m \in 1..N : p[n] = p[m] => n = m
  BY <1>7, <1>9 DEF ListOf
<1>11. ListOf(p, S)
  BY <1>6, <1>10 DEF ListOf
<1>12. DOMAIN p = 1..N
  BY <1>6, LenProperties
<1>13. ToSet(p) = ToSet(s)
  <2>1. \A n \in 1..N : \E m \in 1..N : p[n] = s[m]
    BY <1>7
  <2>2. \A m \in 1..N : \E n \in 1..N : p[n] = s[m]
    <3> SUFFICES ASSUME NEW m \in 1..N
                 PROVE  \E n \in 1..N : p[n] = s[m]
      OBVIOUS
    <3>1. to(m) \in 1..N /\ p[to(m)] = s[m]
      BY <1>7, <1>8
    <3> QED
      BY <3>1
  <2>3. ToSet(p) = {p[n] : n \in 1..N} /\ ToSet(s) = {s[m] : m \in 1..N}
    BY <1>1, <1>12 DEF ToSet
  <2>4. {p[n] : n \in 1..N} = {s[m] : m \in 1..N}
    <3> HIDE DEF N
    <3>1. ASSUME NEW x \in {p[n] : n \in 1..N}
          PROVE  x \in {s[m] : m \in 1..N}
      BY <2>1
    <3>2. ASSUME NEW x \in {s[m] : m \in 1..N}
          PROVE  x \in {p[n] : n \in 1..N}
      BY <2>2
    <3> QED
      BY <3>1, <3>2
  <2> QED
    BY <2>3, <2>4
<1>14. i + 1 \in 1..N /\ p[i + 1] = l
  BY <1>1, <1>6
<1>15. Without(p, l) = w
  <2>1. Without(p, l) = RemoveAt(p, i + 1)
    BY <1>6, <1>11, <1>14, IndexOf DEF Without
  <2>2. /\ RemoveAt(p, i + 1) \in Seq(S) /\ Len(RemoveAt(p, i + 1)) = N - 1
        /\ \A n \in 1..(N - 1) : RemoveAt(p, i + 1)[n] = IF n < i + 1 THEN p[n] ELSE p[n + 1]
    BY <1>6, <1>14, RemovedAt
  <2>3. ASSUME NEW n \in 1..(N - 1)
        PROVE  RemoveAt(p, i + 1)[n] = w[n]
    <3>1. CASE n < i + 1
      <4>1. n \in 1..N
        BY <1>1
      <4> QED
        BY <1>6, <2>2, <3>1, <4>1
    <3>2. CASE ~ (n < i + 1)
      <4>1. n + 1 \in 1..N /\ ~ (n + 1 < i + 1) /\ n + 1 # i + 1 /\ (n + 1) - 1 = n
        BY <1>1, <3>2
      <4> QED
        BY <1>6, <2>2, <3>2, <4>1
    <3> QED
      BY <3>1, <3>2
  <2>4. RemoveAt(p, i + 1) = w
    BY <1>3, <2>2, <2>3, SeqEqual
  <2> QED
    BY <2>1, <2>4
<1> QED
  BY <1>6, <1>11, <1>13, <1>14, <1>15 DEF w, p

-----------------------------------------------------------------------------
ByOrder == {p \in LiveLabels \X LiveLabels : Precedes(p[1], p[2])}

\* What the requests on labels hold; an order is a number whatever was read.
LabelTypes ==
  /\ label \in [AllLabels -> {"none", "live", "deleted"}]
  /\ place \in [AllLabels -> Nat]
  /\ DOMAIN edit = Editors /\ outdated \subseteq Editors
  /\ \A e \in Editors :
       /\ edit[e].op = "create" => edit[e].place \in Nat
       /\ edit[e].op = "reorder" => edit[e].plan \in Seq(AllLabels)

\* A list that is up to date is the listing with one label moved.
PlansStand ==
  \A e \in Editors \ outdated : edit[e].op = "reorder" =>
    /\ edit[e].id \in LiveLabels
    /\ edit[e].index \in 0..(Cardinality(LiveLabels) - 1)
    /\ edit[e].plan = Spliced(Listing, edit[e].id, edit[e].index)

LabelInv == LabelTypes /\ PlansStand

\* The listing is a list of the live labels, each of them once.
LEMMA ListingIsList ==
  ASSUME LabelTypes
  PROVE  /\ IsFiniteSet(LiveLabels) /\ LiveLabels \subseteq AllLabels
         /\ Orders(ByOrder, LiveLabels)
         /\ ListOf(Listing, LiveLabels) /\ Len(Listing) = Cardinality(LiveLabels)
         /\ ToSet(Listing) = LiveLabels
<1>1. /\ LiveLabels \subseteq AllLabels /\ \A l \in LiveLabels : l \in Nat /\ place[l] \in Nat
      /\ IsFiniteSet(LiveLabels)
  <2>1. IsFiniteSet(AllLabels) /\ \A l \in AllLabels : l \in Nat
    BY MaxLabelsAssumption, FS_Interval DEF AllLabels
  <2>2. LiveLabels \in SUBSET AllLabels
    BY DEF LiveLabels
  <2> QED
    BY <2>1, <2>2, FS_Subset DEF LabelTypes
<1>2. Orders(ByOrder, LiveLabels)
  <2>1. \A a, b \in LiveLabels : <<a, b>> \in ByOrder <=> Precedes(a, b)
    BY DEF ByOrder
  <2> DEFINE S == LiveLabels
  <2> HIDE DEF S
  <2>2. \A a \in S : ~ Precedes(a, a)
    BY <1>1 DEF Precedes, S
  <2>3. \A a, b, c \in S : Precedes(a, b) /\ Precedes(b, c) => Precedes(a, c)
    BY <1>1 DEF Precedes, S
  <2>4. \A a, b \in S : a = b \/ Precedes(a, b) \/ Precedes(b, a)
    BY <1>1 DEF Precedes, S
  <2> QED
    BY <2>1, <2>2, <2>3, <2>4 DEF Orders, S
<1> DEFINE N == Cardinality(LiveLabels)
<1>3. Listing = SortedBy(LiveLabels, ByOrder)
  BY DEF Listing, ByOrder
<1>4. /\ N \in Nat /\ Listing \in [1..N -> LiveLabels]
      /\ \A x \in LiveLabels : \E n \in 1..N : Listing[n] = x
      /\ \A m, n \in 1..N : m < n <=> <<Listing[m], Listing[n]>> \in ByOrder
  BY <1>1, <1>2, <1>3, SortedByProperties
<1> HIDE DEF N
<1>5. Listing \in Seq(LiveLabels) /\ Len(Listing) = N /\ DOMAIN Listing = 1..N
  BY <1>4
<1>6. \A m, n \in 1..N : Listing[m] = Listing[n] => m = n
  <2> SUFFICES ASSUME NEW m \in 1..N, NEW n \in 1..N, Listing[m] = Listing[n], m # n
               PROVE  FALSE
    OBVIOUS
  <2>1. m < n \/ n < m
    BY <1>4
  <2>2. <<Listing[m], Listing[m]>> \in ByOrder
    BY <1>4, <2>1
  <2>3. Listing[m] \in LiveLabels
    BY <1>4
  <2> QED
    BY <1>2, <2>2, <2>3 DEF Orders
<1>7. ToSet(Listing) = LiveLabels
  BY <1>4, <1>5 DEF ToSet
<1> QED
  BY <1>1, <1>2, <1>5, <1>6, <1>7 DEF ListOf, N

\* What a request holds that has an up-to-date list.
LEMMA PlanIsList ==
  ASSUME LabelTypes, NEW l \in LiveLabels, NEW i \in 0..(Cardinality(LiveLabels) - 1)
  PROVE  LET p == Spliced(Listing, l, i)
         IN  /\ ListOf(p, LiveLabels) /\ Len(p) = Cardinality(LiveLabels)
             /\ ToSet(p) = LiveLabels
             /\ i + 1 \in 1..Len(p) /\ p[i + 1] = l
             /\ Without(p, l) = Without(Listing, l)
<1>1. /\ ListOf(Listing, LiveLabels) /\ Len(Listing) = Cardinality(LiveLabels)
      /\ ToSet(Listing) = LiveLabels
  BY ListingIsList
<1>2. PICK k \in 1..Len(Listing) : Listing[k] = l
  <2>1. DOMAIN Listing = 1..Len(Listing)
    BY <1>1, LenProperties DEF ListOf
  <2> QED
    BY <1>1, <2>1 DEF ToSet
<1>3. i \in 0..(Len(Listing) - 1)
  BY <1>1
<1>4. LET p == Spliced(Listing, Listing[k], i)
      IN  /\ ListOf(p, LiveLabels) /\ Len(p) = Len(Listing)
          /\ ToSet(p) = ToSet(Listing)
          /\ i + 1 \in 1..Len(p) /\ p[i + 1] = Listing[k]
          /\ Without(p, Listing[k]) = Without(Listing, Listing[k])
  BY <1>1, <1>3, SplicedList
<1> QED
  BY <1>1, <1>2, <1>4

\* One step of one request, and the lists of the others.
LEMMA LabelInvKept ==
  ASSUME LabelInv, [LabelNext]_labelVars
  PROVE  LabelInv'
<1> USE DEF LabelInv
<1>1. ASSUME NEW e \in Editors, NEW what, Edits(e, what)
      PROVE  /\ DOMAIN edit' = Editors /\ edit'[e] = what
             /\ \A f \in Editors \ {e} : edit'[f] = edit[f]
  BY <1>1 DEF Edits, LabelTypes
<1>2. ASSUME ListChanged
      PROVE  PlansStand' /\ (DOMAIN edit' = Editors => outdated' \subseteq Editors)
  BY <1>2 DEF ListChanged, PlansStand
<1>3. ASSUME UNCHANGED <<label, place>>
      PROVE  LiveLabels' = LiveLabels /\ Listing' = Listing
  BY <1>3 DEF LiveLabels, Listing, Precedes
<1>4. ASSUME NEW e \in Editors, CreateLabelRead(e)
      PROVE  LabelInv'
  <2> DEFINE p == IF LiveLabels = {} THEN 1 ELSE place[Last(Listing)] + 1
  <2>1. p \in Nat
    <3>1. /\ ListOf(Listing, LiveLabels) /\ Len(Listing) = Cardinality(LiveLabels)
          /\ IsFiniteSet(LiveLabels) /\ LiveLabels \subseteq AllLabels
      BY ListingIsList
    <3>2. CASE LiveLabels # {}
      <4>1. Cardinality(LiveLabels) \in Nat /\ Cardinality(LiveLabels) # 0
        BY <3>1, <3>2, FS_EmptySet, FS_CardinalityType
      <4>2. Len(Listing) \in 1..Len(Listing)
        BY <3>1, <4>1
      <4>3. Last(Listing) \in LiveLabels
        BY <3>1, <4>2, ElementOfSeq DEF Last, ListOf
      <4> QED
        BY <3>1, <4>3 DEF LabelTypes
    <3> QED
      BY <3>2
  <2> HIDE DEF p
  <2>2. /\ edit'[e] = [op |-> "create", place |-> p]
        /\ DOMAIN edit' = Editors /\ \A f \in Editors \ {e} : edit'[f] = edit[f]
        /\ UNCHANGED <<label, place, outdated>>
    BY <1>1, <1>4 DEF CreateLabelRead, p
  <2>3. LabelTypes'
    BY <2>1, <2>2 DEF LabelTypes
  <2>4. PlansStand'
    BY <1>3, <2>2 DEF PlansStand
  <2> QED
    BY <2>3, <2>4
<1>5. ASSUME NEW e \in Editors, CreateLabelCommit(e)
      PROVE  LabelInv'
  <2>1. /\ edit'[e].op = "idle"
        /\ DOMAIN edit' = Editors /\ \A f \in Editors \ {e} : edit'[f] = edit[f]
    BY <1>1, <1>5 DEF CreateLabelCommit, Unbusy
  <2>2. /\ label' \in [AllLabels -> {"none", "live", "deleted"}]
        /\ place' \in [AllLabels -> Nat]
    BY <1>5 DEF CreateLabelCommit, LabelTypes
  <2>3. PlansStand' /\ outdated' \subseteq Editors
    BY <1>2, <1>5, <2>1 DEF CreateLabelCommit
  <2> QED
    BY <2>1, <2>2, <2>3 DEF LabelTypes
<1>6. ASSUME NEW l \in AllLabels, DeleteProjectLabel(l) \/ RestoreProjectLabel(l)
      PROVE  LabelInv'
  <2>1. UNCHANGED <<place, edit>> /\ ListChanged
        /\ label' \in [AllLabels -> {"none", "live", "deleted"}]
    BY <1>6 DEF DeleteProjectLabel, RestoreProjectLabel, LabelTypes
  <2> QED
    BY <1>2, <2>1 DEF LabelTypes
<1>7. ASSUME NEW e \in Editors, NEW l \in AllLabels, NEW j \in 0..MaxLabels, ReorderRead(e, l, j)
      PROVE  LabelInv'
  <2> DEFINE last == Cardinality(LiveLabels) - 1
             i == IF j < last THEN j ELSE last
             what == [op |-> "reorder", plan |-> Spliced(Listing, l, i), id |-> l, index |-> i]
  <2>1. l \in LiveLabels /\ Edits(e, what) /\ UNCHANGED <<label, place, outdated>>
    BY <1>7 DEF ReorderRead
  <2>2. i \in 0..(Cardinality(LiveLabels) - 1)
    <3>1. IsFiniteSet(LiveLabels) /\ Cardinality(LiveLabels) \in Nat
      BY ListingIsList, FS_CardinalityType
    <3>2. Cardinality(LiveLabels) # 0
      BY <2>1, <3>1, FS_EmptySet
    <3> QED
      BY <3>1, <3>2, MaxLabelsAssumption
  <2> HIDE DEF i
  <2>3. what.plan \in Seq(AllLabels)
    <3>1. ListOf(Spliced(Listing, l, i), LiveLabels) /\ LiveLabels \subseteq AllLabels
      BY <2>1, <2>2, PlanIsList, ListingIsList
    <3> QED
      BY <3>1 DEF ListOf
  <2>4. edit'[e] = what /\ DOMAIN edit' = Editors /\ \A f \in Editors \ {e} : edit'[f] = edit[f]
    BY <1>1, <2>1
  <2>5. LabelTypes'
    BY <2>1, <2>3, <2>4 DEF LabelTypes
  <2>6. PlansStand'
    BY <1>3, <2>1, <2>2, <2>4 DEF PlansStand
  <2> QED
    BY <2>5, <2>6
<1>8. ASSUME NEW e \in Editors, ReorderCommit(e)
      PROVE  LabelInv'
  <2>1. /\ edit'[e].op = "idle"
        /\ DOMAIN edit' = Editors /\ \A f \in Editors \ {e} : edit'[f] = edit[f]
    BY <1>1, <1>8 DEF ReorderCommit, Unbusy
  <2> DEFINE s == edit[e].plan
  <2>2. s \in Seq(AllLabels) /\ UNCHANGED label
        /\ place' = [l \in AllLabels |-> IF l \in ToSet(s) THEN IndexIn(s, l) - 1 ELSE place[l]]
    BY <1>8 DEF ReorderCommit, LabelTypes
  <2> HIDE DEF s
  <2>3. \A l \in ToSet(s) : IndexIn(s, l) - 1 \in Nat
    <3>1. DOMAIN s = 1..Len(s) /\ Len(s) \in Nat
      BY <2>2, LenProperties
    <3>2. \A l \in ToSet(s) : IndexIn(s, l) \in 1..Len(s)
      BY <3>1 DEF ToSet, IndexIn
    <3> QED
      BY <3>1, <3>2
  <2>4. place' \in [AllLabels -> Nat]
    BY <2>2, <2>3 DEF LabelTypes
  <2>5. PlansStand' /\ outdated' \subseteq Editors
    BY <1>2, <1>8, <2>1 DEF ReorderCommit
  <2> QED
    BY <2>1, <2>2, <2>4, <2>5 DEF LabelTypes
<1>9. CASE UNCHANGED labelVars
  <2>1. UNCHANGED <<label, place, edit, outdated>>
    BY <1>9 DEF labelVars
  <2> QED
    BY <1>3, <2>1 DEF LabelTypes, PlansStand
<1> QED
  BY <1>4, <1>5, <1>6, <1>7, <1>8, <1>9 DEF LabelNext

\* A list that is up to date becomes the listing.
LEMMA PlanBecomesListing ==
  ASSUME LabelInv, LabelTypes', NEW e \in Editors \ outdated, ReorderCommit(e)
  PROVE  Listing' = edit[e].plan
<1> DEFINE s == edit[e].plan
           N == Cardinality(LiveLabels)
<1>1. /\ ListOf(s, LiveLabels) /\ Len(s) = N /\ ToSet(s) = LiveLabels
  BY PlanIsList DEF LabelInv, PlansStand, ReorderCommit
<1>2. LiveLabels' = LiveLabels
  BY DEF ReorderCommit, LiveLabels
<1>3. Listing' = SortedBy(LiveLabels, ByOrder')
  BY <1>2 DEF Listing, ByOrder, Precedes
<1>4. IsFiniteSet(LiveLabels) /\ LiveLabels \subseteq AllLabels /\ Orders(ByOrder', LiveLabels)
  <2>1. IsFiniteSet(LiveLabels)' /\ (LiveLabels \subseteq AllLabels)' /\ Orders(ByOrder, LiveLabels)'
    BY ListingIsList, PTL
  <2> QED
    BY <1>2, <2>1
<1>5. place' = [l \in AllLabels |-> IF l \in ToSet(s) THEN IndexIn(s, l) - 1 ELSE place[l]]
  BY DEF ReorderCommit
<1> HIDE DEF s, N
<1>6. /\ N \in Nat /\ s \in [1..N -> LiveLabels]
  BY <1>1, LenProperties DEF ListOf
<1>7. \A n \in 1..N : s[n] \in LiveLabels /\ place'[s[n]] = n - 1
  <2> SUFFICES ASSUME NEW n \in 1..N
               PROVE  s[n] \in LiveLabels /\ place'[s[n]] = n - 1
    OBVIOUS
  <2>1. s[n] \in LiveLabels
    BY <1>6
  <2>2. IndexIn(s, s[n]) = n
    BY <1>1, IndexOf
  <2> QED
    BY <1>1, <1>4, <1>5, <2>1, <2>2
<1>8. \A m, n \in 1..N : m < n => <<s[m], s[n]>> \in ByOrder'
  <2> SUFFICES ASSUME NEW m \in 1..N, NEW n \in 1..N, m < n
               PROVE  <<s[m], s[n]>> \in ByOrder'
    OBVIOUS
  <2>1. place'[s[m]] < place'[s[n]]
    BY <1>6, <1>7
  <2> QED
    BY <1>2, <1>7, <2>1 DEF ByOrder, Precedes
<1>9. s = SortedBy(LiveLabels, ByOrder')
  BY <1>4, <1>6, <1>8, SortedByUnique DEF N
<1> QED
  BY <1>3, <1>9 DEF s

\* However many labels there are, and whatever gaps and duplicates in their orders:
\* writing back an index for each label of the list moves the one that was asked for,
\* unless somebody changed the labels since they were listed.  (qa.service.ts:490)
THEOREM ReorderMovesOneAlways == LabelSpec => ReorderMovesOne
<1>1. LabelInit => LabelInv
  <2> SUFFICES ASSUME LabelInit
               PROVE  LabelInv
    OBVIOUS
  <2>1. \A e \in Editors : edit[e].op = "idle"
    BY DEF LabelInit, Unbusy
  <2> QED
    BY <2>1 DEF LabelInit, LabelInv, LabelTypes, PlansStand
<1>2. LabelInv /\ [LabelNext]_labelVars => LabelInv'
  BY LabelInvKept
<1>3. ASSUME LabelInv, LabelInv', [LabelNext]_labelVars, NEW e \in Editors \ outdated,
             edit[e].op = "reorder", edit'[e] = Unbusy
      PROVE  /\ Listing'[edit[e].index + 1] = edit[e].id
             /\ Without(Listing', edit[e].id) = Without(Listing, edit[e].id)
  <2>1. edit'[e] # edit[e]
    BY <1>3 DEF Unbusy
  <2>2. ASSUME NEW f \in Editors, NEW what, Edits(f, what), f # e
        PROVE  FALSE
    BY <2>1, <2>2 DEF Edits
  <2>3. ReorderCommit(e)
    <3>1. ASSUME NEW f \in Editors, CreateLabelRead(f) \/ CreateLabelCommit(f)
                   \/ \E l \in AllLabels, i \in 0..MaxLabels : ReorderRead(f, l, i)
          PROVE  FALSE
      <4>1. f = e
        BY <2>2, <3>1 DEF CreateLabelRead, CreateLabelCommit, ReorderRead
      <4>2. edit[e] = Unbusy \/ edit[e].op = "create"
        BY <3>1, <4>1 DEF CreateLabelRead, CreateLabelCommit, ReorderRead
      <4> QED
        BY <1>3, <4>2 DEF Unbusy
    <3>2. ASSUME NEW f \in Editors, ReorderCommit(f)
          PROVE  f = e
      BY <2>2, <3>2 DEF ReorderCommit
    <3>3. ASSUME NEW l \in AllLabels, DeleteProjectLabel(l) \/ RestoreProjectLabel(l)
          PROVE  FALSE
      BY <2>1, <3>3 DEF DeleteProjectLabel, RestoreProjectLabel
    <3>4. ~ UNCHANGED labelVars
      BY <2>1 DEF labelVars
    <3> QED
      BY <1>3, <3>1, <3>2, <3>3, <3>4 DEF LabelNext
  <2>4. Listing' = edit[e].plan
    BY <1>3, <2>3, PlanBecomesListing DEF LabelInv
  <2> QED
    BY <1>3, <2>4, PlanIsList DEF LabelInv, PlansStand
<1>4. LabelInv /\ LabelInv' /\ [LabelNext]_labelVars =>
        [\A e \in Editors \ outdated :
           edit[e].op = "reorder" /\ edit'[e] = Unbusy =>
             /\ Listing'[edit[e].index + 1] = edit[e].id
             /\ Without(Listing', edit[e].id) = Without(Listing, edit[e].id)]_labelVars
  BY <1>3
<1> QED
  BY <1>1, <1>2, <1>4, PTL DEF LabelSpec, ReorderMovesOne

-----------------------------------------------------------------------------
(* Test runs.                                                              *)

\* A request that has not answered yet and whose run has the scope it read.
Editor(r) == req[r] \in Editing /\ r \notin late
Row(r) == runs[req[r].run]

\* It has read the scope, and nothing else.
HasRead(r) ==
  /\ req[r].targets = Row(r).targets /\ req[r].custom = Row(r).custom
  /\ ~ req[r].changed /\ asked[r] = Nothing

\* It adds the cases of its results, to a scope that is custom only.
Extends(r) ==
  /\ req[r].custom = Row(r).custom
  /\ asked[r].out = {} /\ ~ asked[r].reset
  /\ req[r].targets = Row(r).targets \cup asked[r].in
  /\ req[r].changed <=> ~ asked[r].in \subseteq Row(r).targets
  /\ ~ req[r].custom => asked[r].in = {}

\* What it holds is what was asked in, and what it keeps of the scope it read; a
\* scope that is not custom was asked to be the whole, or was so before.
Intends(r) ==
  LET q == req[r] a == asked[r] row == Row(r) IN
    /\ a.in \ a.out \subseteq q.targets
    /\ ~ a.reset => row.targets \ a.out \subseteq q.targets
    /\ q.targets \cap a.out = {}
    /\ ~ a.reset /\ row.custom => q.targets \subseteq a.in \cup row.targets
    /\ q.custom /\ q.had /\ ~ q.changed => q.targets = row.targets
    /\ ~ q.custom => a.in = {} /\ a.out = {} /\ (a.reset \/ ~ row.custom)
    /\ a.reset => q.changed

\* What a request holds that is not late.
AsRead(r) ==
  Editor(r) =>
    /\ req[r].had = Row(r).custom
    /\ req[r].op \in {"results", "upsert"} => HasRead(r)
    /\ req[r].op = "extend" => Extends(r)
    /\ req[r].op = "remove" => Intends(r) /\ asked[r].out = {}
    /\ req[r].op = "write" => Intends(r)
HeldAsRead == \A r \in Requests : AsRead(r)

\* Nothing is out of a scope that is not custom.
NothingOut == \A n \in Created \ stale : ~ runs[n].custom => said[n].out = {}

\* Every result is of a case of the run's feature or project.
ResultsInScope ==
  /\ \A n \in Created : Executed(n) \subseteq Scope(runs[n].feature)
  /\ IsFiniteSet(Existing)

\* A run that is not created has no result, a request that has not begun asks nothing.
NoResultsYet == \A n \in Runs \ Created : Executed(n) = {}
NothingAsked == \A r \in Requests : req[r] = New => asked[r] = Nothing

RunsInv ==
  /\ TypeOK /\ HeldAsRead /\ ScopeAsAsked /\ NothingOut
  /\ ResultsInScope /\ NoResultsYet /\ NothingAsked

\* What a request under way has is of the type of what it does next.
LEMMA PendingRecord ==
  ASSUME TypeOK, NEW r \in Requests
  PROVE  /\ req[r] \in Pending
         /\ req[r].op \in {"results", "remove", "write", "upsert", "extend"} =>
              /\ req[r] \in Editing /\ req[r].run \in Created /\ req[r].run \in Runs
              /\ req[r].targets \in SUBSET Cases /\ req[r].custom \in BOOLEAN
              /\ req[r].had \in BOOLEAN /\ req[r].changed \in BOOLEAN
         /\ req[r].op = "first" => req[r].run \in Created /\ req[r].run \in Runs
<1>1. req[r] \in Pending /\ (req[r] \notin {New, Done} => req[r].run \in Created)
  BY DEF TypeOK
<1>2. Created \subseteq Runs
  BY BoundsAssumption DEF TypeOK, Created, Runs
<1>3. req[r].op \in {"results", "remove", "write", "upsert", "extend"} => req[r] \in Editing /\ req[r] \notin {New, Done}
  BY <1>1 DEF Pending, New, Done, Editing
<1>4. req[r].op = "first" => req[r] \notin {New, Done}
  BY <1>1 DEF New, Done
<1>5. req[r] \in Editing =>
        /\ req[r].targets \in SUBSET Cases /\ req[r].custom \in BOOLEAN
        /\ req[r].had \in BOOLEAN /\ req[r].changed \in BOOLEAN
  BY DEF Editing
<1> QED
  BY <1>1, <1>2, <1>3, <1>4, <1>5

\* The results of a request are evaluations of cases of the scope.
LEMMA GivenOf ==
  ASSUME NEW S, NEW given \in Given(S)
  PROVE  DOMAIN given \subseteq S /\ \A c \in DOMAIN given : given[c] \in Evaluations
<1>1. PICK T \in Few(S) : given \in [T -> Evaluations]
  BY DEF Given
<1> QED
  BY <1>1 DEF Few

\* A scope is of cases, and of cases that exist.
LEMMA ScopeIsOfCases ==
  \A f : Scope(f) \subseteq Cases /\ Listed(f) \subseteq Cases /\ Scope(f) \subseteq Existing
  BY DEF Scope, Listed, Existing

\* A step that changes neither the request nor the scope of its run leaves it as it was.
LEMMA OthersAsRead ==
  ASSUME RunsInv, NEW s \in Requests, req'[s] = req[s], asked'[s] = asked[s],
         s \in late => s \in late',
         req[s] \in Editing /\ s \notin late' =>
           /\ runs'[req[s].run].targets = runs[req[s].run].targets
           /\ runs'[req[s].run].custom = runs[req[s].run].custom
  PROVE  AsRead(s)'
<1> SUFFICES ASSUME Editor(s)'
             PROVE  AsRead(s)'
  BY DEF AsRead
<1>1. Editor(s) /\ Row(s)'.targets = Row(s).targets /\ Row(s)'.custom = Row(s).custom
  BY DEF Editor, Row
<1>2. AsRead(s)
  BY DEF RunsInv, HeldAsRead
<1>3. /\ HasRead(s) => HasRead(s)'
      /\ Extends(s) => Extends(s)'
      /\ Intends(s) => Intends(s)'
  BY <1>1 DEF HasRead, Extends, Intends
<1> QED
  BY <1>1, <1>2, <1>3 DEF AsRead

\* The other requests do what they did.
LEMMA OneBecomes ==
  ASSUME TypeOK, NEW r \in Requests, NEW what \in Pending, Becomes(r, what)
  PROVE  /\ req' \in [Requests -> Pending]
         /\ req'[r] = what
         /\ \A s \in Requests : s # r => req'[s] = req[s]
  BY DEF TypeOK, Becomes

\* A request that has not begun, or has ended, holds nothing.
LEMMA NotEditing ==
  New \notin Editing /\ Done \notin Editing /\ New \in Pending /\ Done \in Pending /\ New # Done
  BY DEF New, Done, Editing, Pending

\* A case that is created, archived or brought back leaves runs as they are.
LEMMA CasesKeep ==
  ASSUME RunsInv,
         \/ \E f \in Features, S \in SUBSET Cases : CreateTestCases(f, S)
         \/ \E c \in Cases, b \in BOOLEAN : UpdateTestCase(c, b)
  PROVE  RunsInv'
<1>1. UNCHANGED <<count, runs, results, req, asked, late, said, stale>>
  BY DEF CreateTestCases, UpdateTestCase, history
<1> DEFINE CasesStay == /\ cases' \in [Cases -> {"none", "active", "archived"}]
                        /\ \A c \in Existing : c \in Existing'
                        /\ IsFiniteSet(Existing')
<1>2. CasesStay
  <2>1. ASSUME NEW f \in Features, NEW S \in SUBSET Cases, CreateTestCases(f, S)
        PROVE  CasesStay
    <3>1. /\ cases' = [c \in Cases |-> IF c \in S \ Existing THEN "active" ELSE cases[c]]
          /\ IsFiniteSet(S)
      BY <2>1 DEF CreateTestCases
    <3>2. Existing' = Existing \cup S
      BY <3>1 DEF Existing
    <3> QED
      BY <3>1, <3>2, FS_Union DEF RunsInv, TypeOK, ResultsInScope
  <2>2. ASSUME NEW c \in Cases, NEW b \in BOOLEAN, UpdateTestCase(c, b)
        PROVE  CasesStay
    <3>1. /\ cases' = [cases EXCEPT ![c] = IF b THEN "archived" ELSE "active"]
          /\ c \in Existing
      BY <2>2 DEF UpdateTestCase
    <3>2. Existing' = Existing
      BY <3>1 DEF RunsInv, TypeOK, Existing
    <3> QED
      BY <3>1, <3>2 DEF RunsInv, TypeOK, ResultsInScope
  <2> HIDE DEF CasesStay
  <2> QED
    BY <2>1, <2>2
<1>3. TypeOK'
  BY <1>1, <1>2 DEF RunsInv, TypeOK, Created
<1>4. HeldAsRead'
  BY <1>1, OthersAsRead DEF HeldAsRead
<1>5. ScopeAsAsked' /\ NothingOut'
  BY <1>1 DEF RunsInv, ScopeAsAsked, NothingOut, Created
<1>6. ResultsInScope' /\ NoResultsYet' /\ NothingAsked'
  BY <1>1, <1>2 DEF RunsInv, ResultsInScope, NoResultsYet, NothingAsked, Created, Executed, Scope
<1> QED
  BY <1>3, <1>4, <1>5, <1>6 DEF RunsInv

\* A deleted run keeps its scope.
LEMMA DeleteRunKeeps ==
  ASSUME RunsInv, NEW n \in Runs, DeleteRun(n)
  PROVE  RunsInv'
<1>1. /\ runs' = [runs EXCEPT ![n].deleted = TRUE]
      /\ UNCHANGED <<cases, count, results, req, asked, late, said, stale>>
  BY DEF DeleteRun, history
<1>2. /\ runs' \in [Runs -> Run]
      /\ \A m \in Runs : /\ runs'[m].targets = runs[m].targets /\ runs'[m].custom = runs[m].custom
                         /\ runs'[m].feature = runs[m].feature
  BY <1>1 DEF RunsInv, TypeOK, Run
<1>3. Created \subseteq Runs
  BY BoundsAssumption DEF RunsInv, TypeOK, Created, Runs
<1>4. TypeOK'
  BY <1>1, <1>2 DEF RunsInv, TypeOK, Created
<1>5. HeldAsRead'
  BY <1>1, <1>2, OthersAsRead DEF HeldAsRead, Editing
<1>6. ScopeAsAsked' /\ NothingOut'
  BY <1>1, <1>2, <1>3 DEF RunsInv, ScopeAsAsked, NothingOut, Created
<1>7. ResultsInScope' /\ NoResultsYet' /\ NothingAsked'
  BY <1>1, <1>2, <1>3 DEF RunsInv, ResultsInScope, NoResultsYet, NothingAsked, Created, Executed, Scope, Existing
<1> QED
  BY <1>4, <1>5, <1>6, <1>7 DEF RunsInv

\* A new run has the scope it was created with.
LEMMA CreatesKeeps ==
  ASSUME RunsInv, NEW r \in Requests, NEW f \in Features \cup {Project}, NEW targets, NEW next \in BOOLEAN,
         Creates(r, f, targets, next)
  PROVE  RunsInv'
<1> DEFINE n == count + 1
           row == [feature |-> f, targets |-> targets, custom |-> targets # {}, deleted |-> FALSE]
           what == IF next THEN [op |-> "first", run |-> n] ELSE New
<1>1. /\ req[r] = New /\ count < MaxRuns /\ targets \subseteq Scope(f) /\ count' = n
      /\ runs' = [runs EXCEPT ![n] = row]
      /\ said' = [said EXCEPT ![n] = [in |-> targets, out |-> {}]]
      /\ Becomes(r, what)
      /\ UNCHANGED <<cases, results, asked, late, stale>>
  BY DEF Creates
<1>2. n \in Runs /\ n \notin Created /\ Created' = Created \cup {n} /\ Created \subseteq Runs
  BY <1>1, BoundsAssumption DEF RunsInv, TypeOK, Created, Runs
<1>3. targets \subseteq Cases
  BY <1>1, ScopeIsOfCases
<1>4. /\ row \in Run /\ row.targets = targets /\ row.feature = f
      /\ ~ row.custom => targets = {}
  BY <1>3 DEF Run
<1>5. what \in Pending /\ what \notin Editing
  BY <1>2, NotEditing DEF Pending, Editing
<1>5a. what = New \/ what.run = n
  OBVIOUS
<1> HIDE DEF n, row, what
<1>6. /\ runs' \in [Runs -> Run] /\ runs'[n] = row
      /\ \A m \in Created : runs'[m] = runs[m]
  BY <1>1, <1>2, <1>4 DEF RunsInv, TypeOK
<1>7. /\ said' \in [Runs -> [in : SUBSET Cases, out : SUBSET Cases]]
      /\ said'[n] = [in |-> targets, out |-> {}]
      /\ \A m \in Created : said'[m] = said[m]
  BY <1>1, <1>2, <1>3 DEF RunsInv, TypeOK
<1>8. /\ req' \in [Requests -> Pending] /\ req'[r] = what
      /\ \A s \in Requests : s # r => req'[s] = req[s]
  BY <1>1, <1>5, OneBecomes DEF RunsInv
<1>9. TypeOK'
  <2>1. count' \in 0..MaxRuns
    BY <1>1, BoundsAssumption DEF RunsInv, TypeOK, n
  <2>2. \A s \in Requests : req'[s] \notin {New, Done} => req'[s].run \in Created'
    BY <1>2, <1>5a, <1>8 DEF RunsInv, TypeOK
  <2> QED
    BY <1>1, <1>6, <1>7, <1>8, <2>1, <2>2 DEF RunsInv, TypeOK
<1>10. HeldAsRead'
  <2> SUFFICES ASSUME NEW s \in Requests
               PROVE  AsRead(s)'
    BY DEF HeldAsRead
  <2>1. CASE s = r
    BY <1>5, <1>8, <2>1 DEF AsRead, Editor
  <2>2. CASE s # r
    <3>1. req'[s] = req[s] /\ asked'[s] = asked[s] /\ (s \in late <=> s \in late')
      BY <1>1, <1>8, <2>2
    <3>2. req[s] \in Editing => req[s].run \in Created
      BY NotEditing DEF RunsInv, TypeOK
    <3> QED
      BY <1>6, <3>1, <3>2, OthersAsRead
  <2> QED
    BY <2>1, <2>2
<1>11. ScopeAsAsked' /\ NothingOut'
  <2> SUFFICES ASSUME NEW m \in Created' \ stale'
               PROVE  /\ said'[m].in \subseteq runs'[m].targets
                      /\ said'[m].out \cap runs'[m].targets = {}
                      /\ ~ runs'[m].custom => runs'[m].targets = {} /\ said'[m].out = {}
    BY DEF ScopeAsAsked, NothingOut
  <2>1. CASE m = n
    BY <1>4, <1>6, <1>7, <2>1
  <2>2. CASE m # n
    <3>1. m \in Created \ stale
      BY <1>1, <1>2, <2>2
    <3> QED
      BY <1>6, <1>7, <3>1 DEF RunsInv, ScopeAsAsked, NothingOut
  <2> QED
    BY <2>1, <2>2
<1>12. ResultsInScope'
  <2>1. \A m \in Runs \ Created : Executed(m) = {}
    BY DEF RunsInv, NoResultsYet
  <2> QED
    BY <1>1, <1>2, <1>6, <2>1 DEF RunsInv, ResultsInScope, NoResultsYet, Executed, Scope, Existing
<1>13. NoResultsYet' /\ NothingAsked'
  BY <1>1, <1>2, <1>8 DEF RunsInv, NoResultsYet, NothingAsked, Executed
<1> QED
  BY <1>9, <1>10, <1>11, <1>12, <1>13 DEF RunsInv

\* Results are of cases of the scope.
LEMMA ResultsKeep ==
  ASSUME RunsInv, NEW n \in Created, NEW S \in SUBSET Scope(runs[n].feature),
         results' \in [Runs -> [Cases -> Evaluations \cup {None}]],
         \A m \in Runs : m # n => results'[m] = results[m],
         \A c \in Cases \ S : results'[n][c] \in {results[n][c], None},
         cases' = cases, count' = count,
         \A m \in Created : runs'[m].feature = runs[m].feature
  PROVE  ResultsInScope' /\ NoResultsYet'
<1>1. Created \subseteq Runs
  BY BoundsAssumption DEF RunsInv, TypeOK, Created, Runs
<1>2. Executed(n)' \subseteq Executed(n) \cup S
  BY DEF Executed
<1>3. \A m \in Runs : m # n => Executed(m)' = Executed(m)
  BY DEF Executed
<1> QED
  BY <1>1, <1>2, <1>3 DEF RunsInv, ResultsInScope, NoResultsYet, Scope, Existing, Created

\* The results a run is created with do not touch its scope.
LEMMA CreateResultsKeeps ==
  ASSUME RunsInv, NEW r \in Requests, NEW given, CreateResults(r, given)
  PROVE  RunsInv'
<1> DEFINE n == req[r].run
<1>1. /\ req[r].op = "first" /\ given \in Given(Scope(runs[n].feature))
      /\ results' = [results EXCEPT ![n] = [c \in Cases |->
            IF c \in DOMAIN given /\ results[n][c] = None THEN given[c] ELSE results[n][c]]]
      /\ Becomes(r, Done)
      /\ UNCHANGED <<cases, count, runs, asked, late, said, stale>>
  BY DEF CreateResults, Holds, history
<1>2. n \in Created /\ n \in Runs
  BY <1>1, PendingRecord DEF RunsInv
<1>3. DOMAIN given \subseteq Scope(runs[n].feature) /\ \A c \in DOMAIN given : given[c] \in Evaluations
  BY <1>1, GivenOf
<1> HIDE DEF n
<1>4. /\ results' \in [Runs -> [Cases -> Evaluations \cup {None}]]
      /\ \A m \in Runs : m # n => results'[m] = results[m]
      /\ \A c \in Cases \ DOMAIN given : results'[n][c] = results[n][c]
  BY <1>1, <1>2, <1>3 DEF RunsInv, TypeOK
<1>5. ResultsInScope' /\ NoResultsYet'
  BY <1>1, <1>2, <1>3, <1>4, ResultsKeep
<1>6. /\ req' \in [Requests -> Pending] /\ req'[r] = Done
      /\ \A s \in Requests : s # r => req'[s] = req[s]
  BY <1>1, NotEditing, OneBecomes DEF RunsInv
<1>7. TypeOK'
  BY <1>1, <1>4, <1>6 DEF RunsInv, TypeOK, Created
<1>8. HeldAsRead'
  <2> SUFFICES ASSUME NEW s \in Requests
               PROVE  AsRead(s)'
    BY DEF HeldAsRead
  <2>1. CASE s = r
    BY <1>6, <2>1, NotEditing DEF AsRead, Editor
  <2>2. CASE s # r
    BY <1>1, <1>6, <2>2, OthersAsRead
  <2> QED
    BY <2>1, <2>2
<1>9. ScopeAsAsked' /\ NothingOut' /\ NothingAsked'
  BY <1>1, <1>6, NotEditing DEF RunsInv, ScopeAsAsked, NothingOut, NothingAsked, Created
<1> QED
  BY <1>5, <1>7, <1>8, <1>9 DEF RunsInv

\* A request that reads the scope holds it as it is.
LEMMA ReadsKeeps ==
  ASSUME RunsInv, NEW r \in Requests, NEW n \in Runs, NEW op \in {"results", "upsert"}, Reads(r, n, op)
  PROVE  RunsInv'
<1> DEFINE what == [op |-> op, run |-> n, targets |-> runs[n].targets,
                    custom |-> runs[n].custom, had |-> runs[n].custom, changed |-> FALSE]
<1>1. /\ req[r] = New /\ n \in Created /\ Becomes(r, what)
      /\ UNCHANGED <<cases, count, runs, results, asked, late, said, stale>>
  BY DEF Reads, tables, history
<1>2. runs[n] \in Run
  BY DEF RunsInv, TypeOK
<1>3. /\ what \in Editing /\ what.run = n /\ what.op \in {"results", "upsert"}
      /\ what.targets = runs[n].targets /\ what.custom = runs[n].custom
      /\ what.had = runs[n].custom /\ ~ what.changed
  BY <1>2 DEF Editing, Run
<1> HIDE DEF what
<1>4. /\ req' \in [Requests -> Pending] /\ req'[r] = what
      /\ \A s \in Requests : s # r => req'[s] = req[s]
  BY <1>1, <1>3, OneBecomes DEF RunsInv, Pending
<1>5. TypeOK'
  BY <1>1, <1>3, <1>4 DEF RunsInv, TypeOK, Created
<1>6. asked[r] = Nothing
  BY <1>1 DEF RunsInv, NothingAsked
<1>7. HeldAsRead'
  <2> SUFFICES ASSUME NEW s \in Requests
               PROVE  AsRead(s)'
    BY DEF HeldAsRead
  <2>1. CASE s = r
    BY <1>1, <1>3, <1>4, <1>6, <2>1 DEF AsRead, HasRead, Row
  <2>2. CASE s # r
    BY <1>1, <1>4, <2>2, OthersAsRead
  <2> QED
    BY <2>1, <2>2
<1>8. ScopeAsAsked' /\ NothingOut'
  BY <1>1 DEF RunsInv, ScopeAsAsked, NothingOut, Created
<1>9. ResultsInScope' /\ NoResultsYet'
  BY <1>1 DEF RunsInv, ResultsInScope, NoResultsYet, Created, Executed, Scope, Existing
<1>10. NothingAsked'
  BY <1>1, <1>3, <1>4 DEF RunsInv, NothingAsked
<1> QED
  BY <1>5, <1>7, <1>8, <1>9, <1>10 DEF RunsInv

\* A step of a request before its last: it is enough to look at what it holds then.
LEMMA GoesOnKeeps ==
  ASSUME RunsInv, NEW r \in Requests, req[r] \in Editing,
         NEW what \in Editing, what.run = req[r].run, Becomes(r, what),
         NEW a \in Ask, asked' = [asked EXCEPT ![r] = a],
         results' \in [Runs -> [Cases -> Evaluations \cup {None}]],
         UNCHANGED <<cases, count, runs, late, said, stale>>,
         ResultsInScope', NoResultsYet', AsRead(r)'
  PROVE  RunsInv'
<1>1. /\ req' \in [Requests -> Pending] /\ req'[r] = what
      /\ \A s \in Requests : s # r => req'[s] = req[s]
  BY OneBecomes DEF RunsInv, Pending
<1>2. /\ asked' \in [Requests -> Ask]
      /\ \A s \in Requests : s # r => asked'[s] = asked[s]
  BY DEF RunsInv, TypeOK
<1>3. req[r].run \in Created
  BY NotEditing DEF RunsInv, TypeOK
<1>4. TypeOK'
  BY <1>1, <1>2, <1>3 DEF RunsInv, TypeOK, Created
<1>5. HeldAsRead'
  BY <1>1, <1>2, OthersAsRead DEF HeldAsRead
<1>6. ScopeAsAsked' /\ NothingOut'
  BY DEF RunsInv, ScopeAsAsked, NothingOut, Created
<1>7. NothingAsked'
  BY <1>1, <1>2, NotEditing DEF RunsInv, NothingAsked
<1> QED
  BY <1>4, <1>5, <1>6, <1>7 DEF RunsInv

\* Results of cases of the scope are written.
LEMMA WithResultsKeeps ==
  ASSUME RunsInv, NEW n \in Created, NEW given \in Given(Scope(runs[n].feature)),
         WithResults(n, given), UNCHANGED <<cases, count, runs>>
  PROVE  /\ results' \in [Runs -> [Cases -> Evaluations \cup {None}]]
         /\ ResultsInScope' /\ NoResultsYet'
<1>1. n \in Runs
  BY BoundsAssumption DEF RunsInv, TypeOK, Created, Runs
<1>2. DOMAIN given \subseteq Scope(runs[n].feature) /\ \A c \in DOMAIN given : given[c] \in Evaluations
  BY GivenOf
<1>3. /\ results' \in [Runs -> [Cases -> Evaluations \cup {None}]]
      /\ \A m \in Runs : m # n => results'[m] = results[m]
      /\ \A c \in Cases \ DOMAIN given : results'[n][c] = results[n][c]
  BY <1>1, <1>2 DEF RunsInv, TypeOK, WithResults
<1> QED
  BY <1>2, <1>3, ResultsKeep

\* The scope, the additions and the results of an update are put together.
LEMMA UpdateResultsKeeps ==
  ASSUME RunsInv, NEW r \in Requests, NEW scopes, NEW additions, NEW given,
         UpdateResults(r, scopes, additions, given)
  PROVE  RunsInv'
<1> DEFINE q == req[r]
           set == scopes # {}
           scope == UNION scopes
           custom == (IF set THEN scope # {} ELSE q.custom) \/ additions # {}
           new == additions \cup (IF custom THEN DOMAIN given ELSE {})
           old == IF set THEN scope ELSE q.targets
           what == [q EXCEPT !.op = "remove", !.targets = old \cup new,
                             !.custom = custom, !.changed = set \/ ~ new \subseteq old]
           a == [in |-> new \cup scope, out |-> {}, reset |-> set]
<1>1. /\ q.op = "results"
      /\ additions \cup scope \subseteq Scope(runs[q.run].feature)
      /\ given \in Given(Scope(runs[q.run].feature))
      /\ WithResults(q.run, given)
      /\ Becomes(r, what) /\ asked' = [asked EXCEPT ![r] = a]
      /\ UNCHANGED <<cases, count, runs, late, said, stale>>
  BY DEF UpdateResults, Holds
<1>2. /\ q \in Editing /\ q.run \in Created /\ q.run \in Runs
      /\ q.targets \in SUBSET Cases /\ q.custom \in BOOLEAN /\ q.had \in BOOLEAN
  BY <1>1, PendingRecord DEF RunsInv
<1>3. additions \subseteq Cases /\ scope \subseteq Cases /\ DOMAIN given \subseteq Cases
  BY <1>1, GivenOf, ScopeIsOfCases
<1>4. /\ new \subseteq Cases /\ old \subseteq Cases /\ custom \in BOOLEAN /\ set \in BOOLEAN
      /\ ~ set => scope = {}
      /\ ~ custom => additions = {} /\ new = {} /\ (set => scope = {}) /\ (~ set => ~ q.custom)
      /\ set => old = scope
      /\ ~ set => old = q.targets
  BY <1>2, <1>3
<1> HIDE DEF new, old, scope, set, custom
<1>5. /\ what \in Editing /\ what.run = q.run /\ what.op = "remove" /\ what.had = q.had
      /\ what.targets = old \cup new /\ what.custom = custom
      /\ what.changed <=> set \/ ~ new \subseteq old
  BY <1>2, <1>4 DEF Editing
<1>6. a \in Ask /\ a.in = new \cup scope /\ a.out = {} /\ a.reset = set
  BY <1>3, <1>4 DEF Ask
<1> HIDE DEF what, a
<1>7. req'[r] = what /\ asked'[r] = a
  BY <1>1, <1>5, <1>6 DEF RunsInv, TypeOK, Becomes
<1>8. AsRead(r)'
  <2> SUFFICES ASSUME r \notin late
               PROVE  /\ what.had = runs[q.run].custom
                      /\ Intends(r)' /\ asked'[r].out = {}
    BY <1>1, <1>5, <1>7 DEF AsRead, Editor, Row
  <2>1. q.had = runs[q.run].custom /\ q.targets = runs[q.run].targets /\ q.custom = runs[q.run].custom
    BY <1>1, <1>2 DEF RunsInv, HeldAsRead, AsRead, Editor, HasRead, Row
  <2> DEFINE row == runs[q.run]
  <2>2. Row(r)' = row
    BY <1>1, <1>5, <1>7 DEF Row
  <2> HIDE DEF row
  <2>3. row.targets = q.targets /\ row.custom = q.custom /\ q.had = q.custom
    BY <2>1 DEF row
  <2>4. /\ a.in \ a.out \subseteq what.targets
        /\ ~ a.reset => row.targets \ a.out \subseteq what.targets
        /\ what.targets \cap a.out = {}
        /\ ~ a.reset /\ row.custom => what.targets \subseteq a.in \cup row.targets
        /\ what.custom /\ what.had /\ ~ what.changed => what.targets = row.targets
        /\ ~ what.custom => a.in = {} /\ a.out = {} /\ (a.reset \/ ~ row.custom)
        /\ a.reset => what.changed
    BY <1>4, <1>5, <1>6, <2>3
  <2> QED
    BY <1>5, <1>6, <1>7, <2>1, <2>2, <2>4 DEF Intends
<1> QED
  BY <1>1, <1>2, <1>5, <1>6, <1>8, WithResultsKeeps, GoesOnKeeps

\* The removals of an update are taken out, of a scope made explicit if need be.
LEMMA UpdateRemoveKeeps ==
  ASSUME RunsInv, NEW r \in Requests, NEW removals \in Few(Cases), UpdateRemove(r, removals)
  PROVE  RunsInv'
<1> DEFINE q == req[r]
           n == q.run
           full == q.targets \cup (IF q.custom THEN {} ELSE Listed(runs[n].feature))
<1>1. /\ q.op = "remove" /\ q \in Editing /\ n \in Created /\ n \in Runs
      /\ q.targets \in SUBSET Cases /\ q.custom \in BOOLEAN /\ q.had \in BOOLEAN
      /\ UNCHANGED <<cases, count, runs, late, said, stale>>
  BY PendingRecord DEF RunsInv, UpdateRemove, Holds
<1>2. asked[r] \in Ask
  BY DEF RunsInv, TypeOK
<1>3. r \notin late => q.had = Row(r).custom /\ Intends(r) /\ asked[r].out = {}
  BY <1>1 DEF RunsInv, HeldAsRead, AsRead, Editor
<1>4. CASE removals = {}
  <2> DEFINE what == [q EXCEPT !.op = "write"]
  <2>1. Becomes(r, what) /\ UNCHANGED <<results, asked>>
    BY <1>4 DEF UpdateRemove
  <2>2. /\ what \in Editing /\ what.run = n /\ what.op = "write" /\ what.had = q.had
        /\ what.targets = q.targets /\ what.custom = q.custom /\ what.changed = q.changed
    BY <1>1 DEF Editing
  <2> HIDE DEF what
  <2>3. req'[r] = what /\ asked' = [asked EXCEPT ![r] = asked[r]] /\ asked'[r] = asked[r]
    BY <2>1, <2>2 DEF RunsInv, TypeOK, Becomes
  <2>4. AsRead(r)'
    <3>1. Row(r)' = Row(r)
      BY <1>1, <2>2, <2>3 DEF Row
    <3>2. Intends(r) => Intends(r)'
      BY <2>2, <2>3, <3>1 DEF Intends
    <3> QED
      BY <1>1, <1>3, <2>2, <2>3, <3>1, <3>2 DEF AsRead, Editor
  <2>5. ResultsInScope' /\ NoResultsYet' /\ results' \in [Runs -> [Cases -> Evaluations \cup {None}]]
    BY <1>1, <2>1 DEF RunsInv, TypeOK, ResultsInScope, NoResultsYet, Created, Executed, Scope, Existing
  <2> QED
    BY <1>1, <1>2, <2>1, <2>2, <2>3, <2>4, <2>5, GoesOnKeeps
<1>5. CASE removals # {}
  <2> DEFINE what == [q EXCEPT !.op = "write", !.targets = full \ removals,
                               !.custom = TRUE, !.changed = @ \/ removals \cap full # {}]
             a == [asked[r] EXCEPT !.out = removals]
  <2>1. /\ Becomes(r, what) /\ asked' = [asked EXCEPT ![r].out = removals]
        /\ results' = [results EXCEPT ![n] = [c \in Cases |->
                        IF c \in removals THEN None ELSE results[n][c]]]
    BY <1>5 DEF UpdateRemove
  <2>2. full \subseteq Cases /\ removals \subseteq Cases
    BY <1>1, ScopeIsOfCases DEF Few
  <2>2a. q.custom => full = q.targets
    OBVIOUS
  <2> HIDE DEF full
  <2>3. /\ what \in Editing /\ what.run = n /\ what.op = "write" /\ what.had = q.had
        /\ what.targets = full \ removals /\ what.custom
        /\ what.changed <=> q.changed \/ removals \cap full # {}
    BY <1>1, <2>2 DEF Editing
  <2>4. a \in Ask /\ a.in = asked[r].in /\ a.out = removals /\ a.reset = asked[r].reset
    BY <1>2, <2>2 DEF Ask
  <2>5. asked' = [asked EXCEPT ![r] = a]
    BY <2>1 DEF RunsInv, TypeOK
  <2> HIDE DEF what, a
  <2>6. req'[r] = what /\ asked'[r] = a
    BY <2>1, <2>3, <2>5 DEF RunsInv, TypeOK, Becomes
  <2>7. /\ ResultsInScope' /\ NoResultsYet'
        /\ results' \in [Runs -> [Cases -> Evaluations \cup {None}]]
    <3>1. /\ results' \in [Runs -> [Cases -> Evaluations \cup {None}]]
          /\ \A m \in Runs : m # n => results'[m] = results[m]
          /\ \A c \in Cases \ {} : results'[n][c] \in {results[n][c], None}
      BY <1>1, <2>1 DEF RunsInv, TypeOK
    <3> QED
      BY <1>1, <3>1, ResultsKeep
  <2>8. AsRead(r)'
    <3> SUFFICES ASSUME r \notin late
                 PROVE  what.had = runs[n].custom /\ Intends(r)'
      BY <1>1, <2>3, <2>6 DEF AsRead, Editor, Row
    <3> DEFINE row == runs[n]
               b == asked[r]
    <3>1. /\ q.had = row.custom /\ b.out = {}
          /\ b.in \ b.out \subseteq q.targets
          /\ ~ b.reset => row.targets \ b.out \subseteq q.targets
          /\ ~ b.reset /\ row.custom => q.targets \subseteq b.in \cup row.targets
          /\ q.custom /\ q.had /\ ~ q.changed => q.targets = row.targets
          /\ ~ q.custom => b.in = {} /\ b.out = {} /\ (b.reset \/ ~ row.custom)
          /\ b.reset => q.changed
      BY <1>3 DEF Intends, Row
    <3>2. Row(r)' = row
      BY <1>1, <2>3, <2>6 DEF Row
    <3>3. q.targets \subseteq full
      BY DEF full
    <3> HIDE DEF row, b
    <3>4. a.in = b.in /\ a.out = removals /\ a.reset = b.reset
      BY <2>4 DEF b
    <3>5. /\ a.in \ a.out \subseteq what.targets
          /\ ~ a.reset => row.targets \ a.out \subseteq what.targets
          /\ what.targets \cap a.out = {}
      BY <2>3, <3>1, <3>3, <3>4
    <3>6. ~ a.reset /\ row.custom => what.targets \subseteq a.in \cup row.targets
      BY <2>2a, <2>3, <3>1, <3>4
    <3>7. what.custom /\ what.had /\ ~ what.changed => what.targets = row.targets
      BY <2>2a, <2>3, <3>1, <3>4
    <3>8. /\ ~ what.custom => a.in = {} /\ a.out = {} /\ (a.reset \/ ~ row.custom)
          /\ a.reset => what.changed
      BY <2>3, <3>1, <3>4
    <3> QED
      BY <2>3, <2>6, <3>1, <3>2, <3>5, <3>6, <3>7, <3>8 DEF Intends, row
  <2> QED
    BY <1>1, <2>1, <2>3, <2>4, <2>5, <2>7, <2>8, GoesOnKeeps
<1> QED
  BY <1>4, <1>5

\* Results that are upserted extend a custom scope.
LEMMA UpsertResultsKeeps ==
  ASSUME RunsInv, NEW r \in Requests, NEW given, UpsertResults(r, given)
  PROVE  RunsInv'
<1> DEFINE q == req[r]
           new == IF q.custom THEN DOMAIN given ELSE {}
           what == [q EXCEPT !.op = "extend", !.targets = @ \cup new, !.changed = ~ new \subseteq q.targets]
           a == [asked[r] EXCEPT !.in = new]
<1>1. /\ q.op = "upsert"
      /\ given \in Given(Scope(runs[q.run].feature))
      /\ WithResults(q.run, given)
      /\ Becomes(r, what) /\ asked' = [asked EXCEPT ![r].in = new]
      /\ UNCHANGED <<cases, count, runs, late, said, stale>>
  BY DEF UpsertResults, Holds
<1>2. /\ q \in Editing /\ q.run \in Created /\ q.run \in Runs
      /\ q.targets \in SUBSET Cases /\ q.custom \in BOOLEAN /\ q.had \in BOOLEAN
  BY <1>1, PendingRecord DEF RunsInv
<1>3. new \subseteq Cases /\ (~ q.custom => new = {})
  BY <1>1, GivenOf, ScopeIsOfCases
<1> HIDE DEF new
<1>4. /\ what \in Editing /\ what.run = q.run /\ what.op = "extend" /\ what.had = q.had
      /\ what.targets = q.targets \cup new /\ what.custom = q.custom
      /\ what.changed <=> ~ new \subseteq q.targets
  BY <1>2, <1>3 DEF Editing
<1>5. /\ a \in Ask /\ a.in = new /\ a.out = asked[r].out /\ a.reset = asked[r].reset
      /\ asked' = [asked EXCEPT ![r] = a]
  BY <1>1, <1>3 DEF RunsInv, TypeOK, Ask
<1> HIDE DEF what, a
<1>6. req'[r] = what /\ asked'[r] = a
  BY <1>1, <1>4, <1>5 DEF RunsInv, TypeOK, Becomes
<1>7. AsRead(r)'
  <2> SUFFICES ASSUME r \notin late
               PROVE  what.had = runs[q.run].custom /\ Extends(r)'
    BY <1>1, <1>4, <1>6 DEF AsRead, Editor, Row
  <2>1. /\ q.had = runs[q.run].custom /\ q.targets = runs[q.run].targets
        /\ q.custom = runs[q.run].custom /\ asked[r] = Nothing
    BY <1>1, <1>2 DEF RunsInv, HeldAsRead, AsRead, Editor, HasRead, Row
  <2>2. Row(r)' = runs[q.run]
    BY <1>1, <1>4, <1>6 DEF Row
  <2>3. a.out = {} /\ ~ a.reset
    BY <1>5, <2>1 DEF Nothing
  <2> QED
    BY <1>3, <1>4, <1>5, <1>6, <2>1, <2>2, <2>3 DEF Extends
<1> QED
  BY <1>1, <1>2, <1>4, <1>5, <1>7, WithResultsKeeps, GoesOnKeeps

\* The last step of a request: its row gets what it was asked to get, or it was late.
LEMMA EndsKeeps ==
  ASSUME RunsInv, NEW r \in Requests, req[r].op \in {"write", "extend"},
         NEW wrote \in BOOLEAN, Ends(r, req[r].run, wrote),
         NEW row \in Run, runs' = [runs EXCEPT ![req[r].run] = row],
         row.feature = runs[req[r].run].feature,
         ~ wrote => /\ row.targets = runs[req[r].run].targets
                    /\ row.custom = runs[req[r].run].custom,
         r \notin late /\ req[r].run \notin stale =>
           LET said2 == Effect(said[req[r].run], asked[r]) IN
             /\ said2.in \subseteq row.targets
             /\ said2.out \cap row.targets = {}
             /\ ~ row.custom => row.targets = {} /\ said2.out = {},
         UNCHANGED <<cases, count, results>>
  PROVE  RunsInv'
<1> DEFINE n == req[r].run
           said2 == Effect(said[n], asked[r])
<1>1. req[r] \in Editing /\ n \in Created /\ n \in Runs
  BY PendingRecord DEF RunsInv
<1>2. /\ Becomes(r, Done) /\ asked' = [asked EXCEPT ![r] = Nothing]
      /\ said' = [said EXCEPT ![n] = said2]
      /\ late' = (IF wrote THEN late \cup OnRun(n) ELSE late) \ {r}
      /\ stale' = IF r \in late THEN stale \cup {n} ELSE stale
  BY DEF Ends
<1>3. said2 \in [in : SUBSET Cases, out : SUBSET Cases]
  <2>1. said[n] \in [in : SUBSET Cases, out : SUBSET Cases] /\ asked[r] \in Ask
    BY <1>1 DEF RunsInv, TypeOK
  <2> QED
    BY <2>1 DEF Effect, Ask
<1>4. r \notin late /\ n \notin stale =>
        /\ said2.in \subseteq row.targets
        /\ said2.out \cap row.targets = {}
        /\ ~ row.custom => row.targets = {} /\ said2.out = {}
  OBVIOUS
<1>5. Created \subseteq Runs
  BY BoundsAssumption DEF RunsInv, TypeOK, Created, Runs
<1> HIDE DEF said2
<1>6. /\ req' \in [Requests -> Pending] /\ req'[r] = Done
      /\ \A s \in Requests : s # r => req'[s] = req[s]
  BY <1>2, OneBecomes, NotEditing DEF RunsInv
<1>7. /\ asked' \in [Requests -> Ask] /\ asked'[r] = Nothing
      /\ \A s \in Requests : s # r => asked'[s] = asked[s]
  BY <1>2 DEF RunsInv, TypeOK, Ask, Nothing
<1>8. /\ said' \in [Runs -> [in : SUBSET Cases, out : SUBSET Cases]]
      /\ said'[n] = said2
      /\ \A m \in Runs : m # n => said'[m] = said[m]
  BY <1>1, <1>2, <1>3 DEF RunsInv, TypeOK
<1>9. /\ runs' \in [Runs -> Run] /\ runs'[n] = row
      /\ \A m \in Runs : m # n => runs'[m] = runs[m]
  BY <1>1 DEF RunsInv, TypeOK
<1>10. TypeOK'
  <2>1. late' \subseteq Requests /\ stale' \subseteq Runs
    BY <1>1, <1>2 DEF RunsInv, TypeOK, OnRun
  <2>2. \A s \in Requests : req'[s] \notin {New, Done} => req'[s].run \in Created'
    BY <1>6 DEF RunsInv, TypeOK, Created
  <2> QED
    BY <1>6, <1>7, <1>8, <1>9, <2>1, <2>2 DEF RunsInv, TypeOK
<1>11. HeldAsRead'
  <2> SUFFICES ASSUME NEW s \in Requests
               PROVE  AsRead(s)'
    BY DEF HeldAsRead
  <2>1. CASE s = r
    BY <1>6, <2>1, NotEditing DEF AsRead, Editor
  <2>2. CASE s # r
    <3>1. req'[s] = req[s] /\ asked'[s] = asked[s] /\ (s \in late => s \in late')
      BY <1>2, <1>6, <1>7, <2>2
    <3>2. ASSUME req[s] \in Editing, s \notin late'
          PROVE  /\ runs'[req[s].run].targets = runs[req[s].run].targets
                 /\ runs'[req[s].run].custom = runs[req[s].run].custom
      <4>1. req[s].run \in Runs /\ req[s] \notin {New, Done}
        BY <3>2, NotEditing DEF Editing
      <4>2. CASE req[s].run = n
        <5>1. s \in OnRun(n)
          BY <4>1, <4>2 DEF OnRun
        <5>2. ~ wrote
          BY <1>2, <2>2, <3>2, <5>1
        <5> QED
          BY <1>9, <4>2, <5>2
      <4>3. CASE req[s].run # n
        BY <1>9, <4>1, <4>3
      <4> QED
        BY <4>2, <4>3
    <3> QED
      BY <3>1, <3>2, OthersAsRead
  <2> QED
    BY <2>1, <2>2
<1>12. ScopeAsAsked' /\ NothingOut'
  <2> SUFFICES ASSUME NEW m \in Created \ stale'
               PROVE  /\ said'[m].in \subseteq runs'[m].targets
                      /\ said'[m].out \cap runs'[m].targets = {}
                      /\ ~ runs'[m].custom => runs'[m].targets = {} /\ said'[m].out = {}
    BY DEF ScopeAsAsked, NothingOut, Created
  <2>1. CASE m = n
    BY <1>2, <1>4, <1>8, <1>9, <2>1
  <2>2. CASE m # n
    <3>1. m \in Created \ stale /\ m \in Runs
      BY <1>2, <1>5
    <3> QED
      BY <1>8, <1>9, <2>2, <3>1 DEF RunsInv, ScopeAsAsked, NothingOut
  <2> QED
    BY <2>1, <2>2
<1>13. \A m \in Runs : runs'[m].feature = runs[m].feature
  BY <1>9
<1>14. ResultsInScope' /\ NoResultsYet'
  BY <1>5, <1>13 DEF RunsInv, ResultsInScope, NoResultsYet, Created, Executed, Scope, Existing
<1>15. NothingAsked'
  BY <1>6, <1>7 DEF RunsInv, NothingAsked
<1> QED
  BY <1>10, <1>11, <1>12, <1>14, <1>15 DEF RunsInv

\* An update writes the scope, or leaves one that is already so.
LEMMA UpdateWriteKeeps ==
  ASSUME RunsInv, NEW r \in Requests, UpdateWrite(r)
  PROVE  RunsInv'
<1> DEFINE q == req[r]
           n == q.run
           row == Written(runs[n], q)
           wrote == IF q.custom THEN q.changed \/ ~ q.had ELSE q.had
<1>1. /\ q.op = "write" /\ runs' = [runs EXCEPT ![n] = row] /\ Ends(r, n, wrote)
      /\ UNCHANGED <<cases, count, results>>
  BY DEF UpdateWrite, Holds
<1>2. /\ q \in Editing /\ n \in Created /\ n \in Runs
      /\ q.targets \in SUBSET Cases /\ q.custom \in BOOLEAN /\ q.had \in BOOLEAN /\ q.changed \in BOOLEAN
  BY <1>1, PendingRecord DEF RunsInv
<1>3. /\ runs[n] \in Run /\ runs[n].targets \in SUBSET Cases /\ runs[n].custom \in BOOLEAN
      /\ said[n] \in [in : SUBSET Cases, out : SUBSET Cases] /\ asked[r] \in Ask
  BY <1>2 DEF RunsInv, TypeOK, Run
<1>4. /\ row \in Run /\ row.feature = runs[n].feature
      /\ row.targets = IF q.custom THEN IF q.changed \/ ~ q.had THEN q.targets ELSE runs[n].targets
                       ELSE IF q.had THEN {} ELSE runs[n].targets
      /\ row.custom = IF q.custom THEN IF q.had THEN runs[n].custom ELSE TRUE
                      ELSE IF q.had THEN FALSE ELSE runs[n].custom
  <2>1. CASE q.custom
    BY <1>2, <1>3, <2>1 DEF Written, Run
  <2>2. CASE ~ q.custom
    BY <1>2, <1>3, <2>2 DEF Written, Run
  <2> QED
    BY <2>1, <2>2
<1>5. wrote \in BOOLEAN
  BY <1>2
<1>6. ~ wrote => row.targets = runs[n].targets /\ row.custom = runs[n].custom
  BY <1>2, <1>4
<1>7. ASSUME r \notin late, n \notin stale
      PROVE  LET said2 == Effect(said[n], asked[r]) IN
               /\ said2.in \subseteq row.targets
               /\ said2.out \cap row.targets = {}
               /\ ~ row.custom => row.targets = {} /\ said2.out = {}
  <2> DEFINE T == runs[n].targets
             C == runs[n].custom
             a == asked[r]
             was == said[n]
             said2 == Effect(was, a)
  <2>1. /\ q.had = C
        /\ a.in \ a.out \subseteq q.targets
        /\ ~ a.reset => T \ a.out \subseteq q.targets
        /\ q.targets \cap a.out = {}
        /\ ~ a.reset /\ C => q.targets \subseteq a.in \cup T
        /\ q.custom /\ q.had /\ ~ q.changed => q.targets = T
        /\ ~ q.custom => a.in = {} /\ a.out = {} /\ (a.reset \/ ~ C)
        /\ a.reset => q.changed
    BY <1>1, <1>2, <1>7 DEF RunsInv, HeldAsRead, AsRead, Editor, Intends, Row
  <2>2. /\ was.in \subseteq T /\ was.out \cap T = {}
        /\ ~ C => T = {} /\ was.out = {}
    BY <1>2, <1>7 DEF RunsInv, ScopeAsAsked, NothingOut
  <2>3. /\ said2.in = ((IF a.reset THEN {} ELSE was.in) \cup a.in) \ a.out
        /\ said2.out = ((IF a.reset THEN {} ELSE was.out) \ a.in) \cup a.out
    BY DEF Effect
  <2> HIDE DEF row, said2, T, C, a, was
  <2>4. CASE q.custom
    <3>1. row.custom /\ row.targets = q.targets
      BY <1>4, <2>1, <2>4 DEF T, C
    <3>2. said2.in \subseteq row.targets
      BY <2>1, <2>2, <2>3, <3>1
    <3>3. said2.out \cap row.targets = {}
      <4>1. CASE a.reset \/ ~ C
        BY <2>1, <2>2, <2>3, <3>1, <4>1
      <4>2. CASE ~ a.reset /\ C
        BY <2>1, <2>2, <2>3, <3>1, <4>2
      <4> QED
        BY <4>1, <4>2
    <3> QED
      BY <3>1, <3>2, <3>3 DEF said2, a, was
  <2>5. CASE ~ q.custom
    <3>1. ~ row.custom /\ row.targets = {}
      BY <1>4, <2>1, <2>2, <2>5 DEF T, C
    <3>2. said2.in = {} /\ said2.out = {}
      BY <2>1, <2>2, <2>3, <2>5
    <3> QED
      BY <3>1, <3>2 DEF said2, a, was
  <2> QED
    BY <1>2, <2>4, <2>5
<1> HIDE DEF row, wrote
<1> QED
  BY <1>1, <1>4, <1>5, <1>6, <1>7, EndsKeeps

\* An upsert writes the scope it has extended.
LEMMA UpsertExtendKeeps ==
  ASSUME RunsInv, NEW r \in Requests, UpsertExtend(r)
  PROVE  RunsInv'
<1> DEFINE q == req[r]
           n == q.run
           row == [runs[n] EXCEPT !.targets = IF q.changed THEN q.targets ELSE @]
<1>1. /\ q.op = "extend" /\ Ends(r, n, q.changed)
      /\ runs' = [runs EXCEPT ![n].targets = IF q.changed THEN q.targets ELSE @]
      /\ UNCHANGED <<cases, count, results>>
  BY DEF UpsertExtend, Holds
<1>2. /\ q \in Editing /\ n \in Created /\ n \in Runs
      /\ q.targets \in SUBSET Cases /\ q.custom \in BOOLEAN /\ q.changed \in BOOLEAN
  BY <1>1, PendingRecord DEF RunsInv
<1>3. runs[n] \in Run
  BY <1>2 DEF RunsInv, TypeOK
<1>4. /\ row \in Run /\ row.feature = runs[n].feature /\ row.custom = runs[n].custom
      /\ row.targets = IF q.changed THEN q.targets ELSE runs[n].targets
      /\ runs' = [runs EXCEPT ![n] = row]
  BY <1>1, <1>2, <1>3 DEF Run
<1>5. ASSUME r \notin late, n \notin stale
      PROVE  LET said2 == Effect(said[n], asked[r]) IN
               /\ said2.in \subseteq row.targets
               /\ said2.out \cap row.targets = {}
               /\ ~ row.custom => row.targets = {} /\ said2.out = {}
  <2> DEFINE T == runs[n].targets
             C == runs[n].custom
             a == asked[r]
             was == said[n]
             said2 == Effect(was, a)
  <2>1. /\ q.custom = C /\ a.out = {} /\ ~ a.reset
        /\ q.targets = T \cup a.in
        /\ q.changed <=> ~ a.in \subseteq T
        /\ ~ q.custom => a.in = {}
    BY <1>1, <1>2, <1>5 DEF RunsInv, HeldAsRead, AsRead, Editor, Extends, Row
  <2>2. /\ was.in \subseteq T /\ was.out \cap T = {}
        /\ ~ C => T = {} /\ was.out = {}
    BY <1>2, <1>5 DEF RunsInv, ScopeAsAsked, NothingOut
  <2>3. /\ said2.in = ((IF a.reset THEN {} ELSE was.in) \cup a.in) \ a.out
        /\ said2.out = ((IF a.reset THEN {} ELSE was.out) \ a.in) \cup a.out
    BY DEF Effect
  <2>4. row.targets = (IF q.changed THEN q.targets ELSE T) /\ row.custom = C
    BY <1>4
  <2> HIDE DEF row, said2, T, C, a, was
  <2>5. row.targets = T \cup a.in
    BY <2>1, <2>4
  <2> QED
    BY <2>1, <2>2, <2>3, <2>4, <2>5 DEF said2, a, was
<1>6. ~ q.changed => row.targets = runs[n].targets /\ row.custom = runs[n].custom
  BY <1>4
<1> HIDE DEF row
<1> QED
  BY <1>1, <1>2, <1>4, <1>5, <1>6, EndsKeeps

\* Every step keeps the invariant.
LEMMA RunsInvInductive ==
  /\ Init => RunsInv
  /\ RunsInv /\ [Next]_vars => RunsInv'
<1>1. ASSUME Init
      PROVE  RunsInv
  <2>1. TypeOK
    BY <1>1, BoundsAssumption DEF Init, TypeOK, Run, Pending, Ask, Nothing, Runs
  <2>2. Existing = {} /\ Created = {} /\ \A n \in Runs : Executed(n) = {}
    BY <1>1, <2>1 DEF Init, TypeOK, Existing, Created, Executed
  <2>3. IsFiniteSet(Existing)
    BY <2>2, FS_EmptySet
  <2>4. HeldAsRead
    BY <1>1, NotEditing DEF Init, HeldAsRead, AsRead, Editor
  <2> QED
    BY <1>1, <2>1, <2>2, <2>3, <2>4 DEF Init, RunsInv, ScopeAsAsked, NothingOut, ResultsInScope,
       NoResultsYet, NothingAsked
<1>2. ASSUME RunsInv, UNCHANGED vars
      PROVE  RunsInv'
  <2>1. UNCHANGED <<cases, count, runs, results, req, asked, late, said, stale>>
    BY <1>2 DEF vars, tables, history
  <2>2. HeldAsRead'
    BY <1>2, <2>1, OthersAsRead DEF HeldAsRead
  <2>3. TypeOK' /\ ScopeAsAsked' /\ NothingOut'
    BY <1>2, <2>1 DEF RunsInv, TypeOK, ScopeAsAsked, NothingOut, Created
  <2>4. ResultsInScope' /\ NoResultsYet' /\ NothingAsked'
    BY <1>2, <2>1 DEF RunsInv, ResultsInScope, NoResultsYet, NothingAsked, Created, Executed, Scope, Existing
  <2> QED
    BY <2>2, <2>3, <2>4 DEF RunsInv
<1>3. ASSUME RunsInv, Next
      PROVE  RunsInv'
  <2>1. ASSUME NEW r \in Requests, NEW f \in Features, NEW T \in Few(Scope(f)), NEW next \in BOOLEAN,
               CreateTestRun(r, f, T, next)
        PROVE  RunsInv'
    BY <1>3, <2>1, CreatesKeeps DEF CreateTestRun
  <2>2. ASSUME NEW r \in Requests, NEW T \in Few(Existing), CreateProjectTestRun(r, T)
        PROVE  RunsInv'
    BY <1>3, <2>2, CreatesKeeps DEF CreateProjectTestRun
  <2>3. ASSUME NEW r \in Requests, NEW n \in Runs, UpdateRead(r, n) \/ UpsertRead(r, n)
        PROVE  RunsInv'
    BY <1>3, <2>3, ReadsKeeps DEF UpdateRead, UpsertRead
  <2> QED
    BY <1>3, <2>1, <2>2, <2>3, CasesKeep, DeleteRunKeeps, CreateResultsKeeps, UpdateResultsKeeps,
       UpdateRemoveKeeps, UpdateWriteKeeps, UpsertResultsKeeps, UpsertExtendKeeps
       DEF Next
<1> QED
  BY <1>1, <1>2, <1>3

\* The types, what every request holds of the scope it read, and the cases that have
\* results, in every reachable state.  (qa.service.ts:1252-1680)
THEOREM RunsInvAlways == Spec => []RunsInv
  BY RunsInvInductive, PTL DEF Spec

\* For any number of overlapping updates of a run, cases and results: unless a request
\* ended that had read the scope before another one wrote it, the scope holds every
\* case asked in last and none asked out last.  (qa.service.ts:1389-1561, 1563-1646)
THEOREM ScopeAsAskedAlways == Spec => []ScopeAsAsked
  BY RunsInvAlways, PTL DEF RunsInv

\* What the dashboard lists with a full pass has passed every case that was asked
\* into its scope.  (qa.service.ts:1920-2062, 2471-2526)
THEOREM FullPassIsCompleteAlways == Spec => []FullPassIsComplete
<1>1. RunsInv => FullPassIsComplete
  BY DEF RunsInv, ScopeAsAsked, FullPassIsComplete, FullPass, Shown, Covered, Executed
<1> QED
  BY <1>1, RunsInvAlways, PTL

\* Two finite sets differ in size by what each has that the other has not.
LEMMA TwoDifferences ==
  ASSUME NEW A, NEW B, IsFiniteSet(A), IsFiniteSet(B)
  PROVE  /\ Cardinality(A) - Cardinality(B) = Cardinality(A \ B) - Cardinality(B \ A)
         /\ Cardinality(A) \in Nat /\ Cardinality(B) \in Nat
         /\ Cardinality(A \ B) \in Nat /\ Cardinality(B \ A) \in Nat
<1>1. /\ Cardinality(A \ B) = Cardinality(A) - Cardinality(A \cap B)
      /\ Cardinality(B \ A) = Cardinality(B) - Cardinality(B \cap A)
      /\ IsFiniteSet(A \ B) /\ IsFiniteSet(B \ A) /\ IsFiniteSet(A \cap B)
  BY FS_Difference, FS_Intersection
<1>2. A \cap B = B \cap A
  OBVIOUS
<1> DEFINE a == Cardinality(A)
           b == Cardinality(B)
           c == Cardinality(A \cap B)
           d == Cardinality(A \ B)
           e == Cardinality(B \ A)
<1>3. a \in Nat /\ b \in Nat /\ c \in Nat /\ d \in Nat /\ e \in Nat
  BY <1>1, FS_CardinalityType
<1>4. d = a - c /\ e = b - c
  BY <1>1, <1>2
<1> HIDE DEF a, b, c, d, e
<1>5. a - b = d - e
  BY <1>3, <1>4
<1> QED
  BY <1>3, <1>5 DEF a, b, c, d, e

\* Of a feature's run, only listed cases are due and only archived ones are extra.
LEMMA InvCountsMissing ==
  RunsInv => MissingIsExact
<1> SUFFICES ASSUME RunsInv, NEW n \in Shown
             PROVE  LET own == {c \in Cases : c[1] = runs[n].feature}
                        due == {c \in own : cases[c] = "active" /\ results[n][c] = None}
                        extra == {c \in own : cases[c] = "archived" /\ results[n][c] # None}
                        gap == Cardinality(due) - Cardinality(extra)
                    IN  Missing(n) = IF gap > 0 THEN gap ELSE 0
  BY DEF MissingIsExact
<1> DEFINE f == runs[n].feature
           own == {c \in Cases : c[1] = f}
           due == {c \in own : cases[c] = "active" /\ results[n][c] = None}
           extra == {c \in own : cases[c] = "archived" /\ results[n][c] # None}
<1>1. n \in Created /\ f # Project
  BY DEF Shown
<1>2. Executed(n) \subseteq Scope(f) /\ Listed(f) \subseteq Existing
  BY <1>1 DEF RunsInv, ResultsInScope, Listed, Scope
<1>3. IsFiniteSet(Executed(n)) /\ IsFiniteSet(Listed(f))
  BY <1>2, FS_Subset, ScopeIsOfCases DEF RunsInv, ResultsInScope
<1>4. due = Listed(f) \ Executed(n)
  BY <1>1 DEF Listed, Scope, Existing, Executed
<1>5. extra = Executed(n) \ Listed(f)
  <2>1. \A c \in Existing : cases[c] \in {"active", "archived"}
    BY DEF RunsInv, TypeOK, Existing
  <2> QED
    BY <1>1, <1>2, <2>1 DEF Listed, Scope, Existing, Executed
<1> HIDE DEF f, due, extra
<1>6. Missing(n) = LET gap == Cardinality(Listed(f)) - Cardinality(Executed(n))
                   IN  IF gap > 0 THEN gap ELSE 0
  BY DEF Missing, f
<1>7. Missing(n) = LET gap == Cardinality(due) - Cardinality(extra)
                   IN  IF gap > 0 THEN gap ELSE 0
  BY <1>3, <1>4, <1>5, <1>6, TwoDifferences
<1> QED
  BY <1>7 DEF due, extra, f

\* The number the dashboard gives is that of the active cases without a result, less
\* the archived ones that have one: no result is of another feature's case.
\* (qa.service.ts:1959-2005, 2319-2419)
THEOREM MissingIsExactAlways == Spec => []MissingIsExact
  BY InvCountsMissing, RunsInvAlways, PTL

-----------------------------------------------------------------------------
(* Tickets.                                                                *)

\* Nobody was told, is about to be, or is on a list without having been on it.
OnlyAddressees ==
  \A c \in Channels :
    /\ addressees[c] \subseteq were[c] /\ stayed[c] \subseteq addressees[c]
    /\ telling.saw[c] \subseteq were[c]
    /\ told[c] \subseteq were[c] \cap Concerned(event)
    /\ telling.at = "mail" => telling.rest \subseteq were["email"] \cap Concerned(event)

\* The steps an event is sent in.
InItsOrder ==
  /\ telling.at \in {"notify", "lookAgain", "mail"} => event.of # "new"
  /\ telling.at = "lookAgain" => event.of = "assigned"
  /\ telling.at = "each" => event.of = "new"

\* Who stayed on a list was seen on it, and has been told or will be.
NobodyForgotten ==
  \A c \in Channels :
    /\ telling.at # "look" /\ telling.at # "failed" => stayed[c] \subseteq telling.saw[c]
    /\ telling.at = "each" => stayed[c] \subseteq told[c] \cup telling.rest
    /\ telling.at \in {"lookAgain", "mail", "end"} =>
         stayed["notify"] \cap Concerned(event) \subseteq told["notify"]
    /\ telling.at = "mail" =>
         stayed["email"] \cap Concerned(event) \subseteq told["email"] \cup telling.rest
    /\ telling.at = "end" => stayed[c] \cap Concerned(event) \subseteq told[c]

MessagesInv == MessagesTypeOK /\ OnlyAddressees /\ InItsOrder /\ NobodyForgotten

\* An event concerns readers only, all of them when a ticket is new, and never who
\* made it happen.
LEMMA ConcernedType ==
  ASSUME MessagesTypeOK
  PROVE  /\ Concerned(event) \subseteq Readers
         /\ event.of = "new" => Concerned(event) = Readers
         /\ event.of = "section" => event.by \notin Concerned(event)
         /\ event.of = "assigned" => Concerned(event) = {event.to} \ {event.by}
BY DEF MessagesTypeOK, Events, Concerned

\* Lists that move in any way keep the invariant.
LEMMA ListsBecomeKeeps ==
  ASSUME MessagesInv, NEW lists \in Addressed, ListsBecome(lists)
  PROVE  MessagesInv'
<1> DEFINE concerned == Concerned(event)
<1>1. concerned' = concerned
  BY DEF ListsBecome, Concerned
<1> HIDE DEF concerned
<1>2. MessagesTypeOK'
  BY DEF MessagesInv, MessagesTypeOK, ListsBecome, Addressed
<1> USE DEF MessagesInv, MessagesTypeOK, ListsBecome, Addressed
<1>3. OnlyAddressees'
  BY <1>1 DEF OnlyAddressees, concerned
<1>4. InItsOrder'
  BY DEF InItsOrder
<1>5. NobodyForgotten'
  BY <1>1 DEF NobodyForgotten, Channels, concerned
<1> QED
  BY <1>2, <1>3, <1>4, <1>5 DEF MessagesInv

\* Every step of the sending keeps the invariant, and so does what moves meanwhile.
LEMMA MessagesInvInductive ==
  ASSUME MessagesInv, [MessagesNext]_messageVars
  PROVE  MessagesInv'
<1> DEFINE concerned == Concerned(event)
<1>1. concerned \subseteq Readers /\ (event.of = "new" => concerned = Readers)
  BY ConcernedType DEF MessagesInv
<1>2. ASSUME StillGoing
      PROVE  concerned' = concerned
  BY <1>2 DEF StillGoing, Concerned
<1> HIDE DEF concerned
<1> USE DEF MessagesInv, MessagesTypeOK, OnlyAddressees, InItsOrder, NobodyForgotten, Addressed, Channels,
            StillGoing, concerned
<1>3. ASSUME NEW u \in Readers, NEW c \in Channels, ListMoves(u, c)
      PROVE  MessagesInv'
  <2>1. [addressees EXCEPT ![c] = IF u \in @ THEN @ \ {u} ELSE @ \cup {u}] \in Addressed
    OBVIOUS
  <2> QED
    BY <1>3, <2>1, ListsBecomeKeeps DEF ListMoves
<1>4. CASE TicketGoes
  <2>1. NoOne \in Addressed
    BY DEF NoOne
  <2> QED
    BY <1>4, <2>1, ListsBecomeKeeps DEF TicketGoes
<1>5. CASE LookAtLists
  BY <1>1, <1>2, <1>5 DEF LookAtLists
<1>6. CASE CreateNotifications
  BY <1>1, <1>2, <1>6 DEF CreateNotifications, Tells
<1>7. CASE LookAgain
  BY <1>1, <1>2, <1>7 DEF LookAgain
<1>8. ASSUME NEW u \in Readers, SendEmail(u)
      PROVE  MessagesInv'
  BY <1>1, <1>2, <1>8 DEF SendEmail, Tells
<1>9. ASSUME NEW u \in Readers, TellMember(u)
      PROVE  MessagesInv'
  BY <1>1, <1>2, <1>9 DEF TellMember
<1>10. CASE SendingEnds
  BY <1>1, <1>2, <1>10 DEF SendingEnds, Proceed
<1>11. CASE SendingFails
  BY <1>1, <1>2, <1>11 DEF SendingFails, Proceed
<1>12. CASE UNCHANGED messageVars
  BY <1>12 DEF messageVars, Concerned
<1> QED
  BY <1>3, <1>4, <1>5, <1>6, <1>7, <1>8, <1>9, <1>10, <1>11, <1>12 DEF MessagesNext

\* How far the sending is with those who stayed, in every reachable state.
\* (tickets.service.ts:439-585, public-tickets.service.ts:274-423)
THEOREM MessagesInvAlways == MessagesSpec => []MessagesInv
<1>1. MessagesInit => MessagesInv
  BY DEF MessagesInit, MessagesInv, MessagesTypeOK, OnlyAddressees, InItsOrder, NobodyForgotten, Addressed,
         NoOne
<1>2. MessagesInv /\ [MessagesNext]_messageVars => MessagesInv'
  BY MessagesInvInductive
<1> QED
  BY <1>1, <1>2, PTL DEF MessagesSpec

\* For any number of users, whatever the lists do while an event is sent: who
\* stayed on a list is told by the end, the creator of a new ticket among them, and
\* nobody who never was on it, nor the author of a section or whoever assigned the
\* ticket to themselves.  (tickets.service.ts:439-585, public-tickets.service.ts:274-423)
THEOREM FollowersToldAlways == MessagesSpec => []FollowersTold
<1>1. MessagesInv => FollowersTold
  <2> SUFFICES ASSUME MessagesInv
               PROVE  FollowersTold
    OBVIOUS
  <2>1. /\ event.of = "section" => event.by \notin Concerned(event)
        /\ event.of = "assigned" => Concerned(event) = {event.to} \ {event.by}
        /\ event.of = "new" => \A c \in Channels : stayed[c] \subseteq Concerned(event)
    BY ConcernedType DEF MessagesInv, MessagesTypeOK, Addressed
  <2> QED
    BY <2>1 DEF MessagesInv, OnlyAddressees, NobodyForgotten, FollowersTold
<1> QED
  BY <1>1, MessagesInvAlways, PTL

-----------------------------------------------------------------------------
(* The run of the parts of a project.                                      *)

\* The parts share no state, so that a behaviour of the run is one of each of
\* them at the same time: what is proved of one holds in it.
THEOREM ProjectImplementsParts ==
  ProjectSpec => AccessSpec /\ LabelSpec /\ LabelReadersSpec /\ Spec /\ MessagesSpec
<1>1. ProjectInit => AccessInit /\ LabelInit /\ LabelReadersInit /\ Init /\ MessagesInit
  BY DEF ProjectInit
<1>2. [ProjectNext]_projectVars => /\ [AccessNext]_accessVars
                                   /\ [LabelNext]_labelVars
                                   /\ [LabelReadersNext]_readerVars
                                   /\ [Next]_vars
                                   /\ [MessagesNext]_messageVars
  <2> SUFFICES ASSUME [ProjectNext]_projectVars
               PROVE  /\ [AccessNext]_accessVars
                      /\ [LabelNext]_labelVars
                      /\ [LabelReadersNext]_readerVars
                      /\ [Next]_vars
                      /\ [MessagesNext]_messageVars
    OBVIOUS
  <2>1. CASE UNCHANGED projectVars
    BY <2>1 DEF projectVars
  <2>2. CASE ProjectNext
    BY <2>2 DEF ProjectNext
  <2> QED
    BY <2>1, <2>2
<1> QED
  BY <1>1, <1>2, PTL DEF ProjectSpec, AccessSpec, LabelSpec, LabelReadersSpec, Spec, MessagesSpec
=============================================================================
