--------------------------- MODULE TicketsProofs ---------------------------
(* What holds of a ticket however many members and requests there are: the *)
(* types, who a locked section was shown to, and what the unread count     *)
(* covers.                                                                 *)
EXTENDS Tickets, FiniteSetTheorems, TLAPS

\* A request under way holds what it needs for its next statement.
PendingTyped ==
  \A r \in Handlers :
    /\ doing[r].op \in {"show", "receipt", "reread"} => doing[r].who \in Members
    /\ doing[r].op \in {"show", "receipt"} => doing[r].version \in 1..MaxVersion
    /\ doing[r].op \in {"lock", "add", "count"} => doing[r].who \in People
    /\ doing[r].op = "lock" => doing[r].sections \subseteq Sections
    /\ doing[r].op \in {"count", "edit"} => doing[r].section \in Sections

\* A section about to be locked is by another, and was shown to the reader.
PendingLocksShown ==
  \A r \in Handlers : doing[r].op = "lock" =>
    doing[r].sections \subseteq
      {s \in WrittenSections : author[s] # doing[r].who /\ s \in shown[doing[r].who]}

\* A lock is on a written section, and a holder holds one.
LocksWritten ==
  \A s \in Sections : /\ locked[s] => s \in WrittenSections
                      /\ lockedBy[s] # Nobody => locked[s]

Locking == TicketTypeOK /\ PendingLocksShown /\ LocksWritten /\ LockedWasShown

\* What was counted for the version and not shown to u.
New(u) == counted \ shown[u]

\* Version v, saved as a receipt, leaves what is new to u unread.
Covers(v, u) == v <= version /\ Cardinality(New(u)) <= version - v

ReceiptsCover == \A u \in Members \ writers : Covers(receipt[u], u)
PendingCover ==
  \A r \in Handlers :
    /\ doing[r].op = "show" => doing[r].version <= version
    /\ doing[r].op = "receipt" /\ doing[r].who \notin writers
         => Covers(doing[r].version, doing[r].who)
CountedWritten ==
  /\ counted \subseteq WrittenSections
  /\ \A r \in Handlers : doing[r].op = "count" => doing[r].section \in WrittenSections

Reading == TicketTypeOK /\ CountedWritten /\ (Exists => ReceiptsCover /\ PendingCover)

-----------------------------------------------------------------------------
\* What the union of the kinds of requests says of each kind.
LEMMA PendingIsTyped == ASSUME TicketTypeOK PROVE PendingTyped
<1> SUFFICES ASSUME NEW r \in Handlers
             PROVE  /\ doing[r].op \in {"show", "receipt", "reread"} => doing[r].who \in Members
                    /\ doing[r].op \in {"show", "receipt"} => doing[r].version \in 1..MaxVersion
                    /\ doing[r].op \in {"lock", "add", "count"} => doing[r].who \in People
                    /\ doing[r].op = "lock" => doing[r].sections \subseteq Sections
                    /\ doing[r].op \in {"count", "edit"} => doing[r].section \in Sections
  BY DEF PendingTyped
<1>1. doing[r] \in Doing
  BY DEF TicketTypeOK
<1> QED
  BY <1>1 DEF Doing, NotDoing

\* A request goes on to something of the right kind.
LEMMA BecomesTyped ==
  ASSUME TicketTypeOK, NEW r \in Handlers, NEW w \in Doing, Turns(r, w)
  PROVE  doing' \in [Handlers -> Doing]
BY DEF Turns, TicketTypeOK

\* Only the request that takes the step changes.
LEMMA BecomesOne ==
  ASSUME TicketTypeOK, NEW r \in Handlers, NEW w, Turns(r, w)
  PROVE  doing'[r] = w /\ \A q \in Handlers : q # r => doing'[q] = doing[q]
BY DEF Turns, TicketTypeOK

\* The ticket starts with values of the right types.
LEMMA InitTyped == ASSUME TicketInit PROVE TicketTypeOK
<1> USE DEF TicketInit, People
<1>1. 1 \in Sections /\ 0 \in 0..MaxVersion /\ 1 \in 0..MaxVersion
  BY TicketBounds DEF Sections
<1>2. author \in [Sections -> People \cup {Nobody}] /\ content \in [Sections -> Contents]
  OBVIOUS
<1>3. doing \in [Handlers -> Doing]
  BY DEF Doing
<1>4. shown \in [People -> SUBSET Sections] /\ counted \subseteq Sections
  BY <1>1
<1> QED
  BY <1>1, <1>2, <1>3, <1>4 DEF TicketTypeOK

\* Every statement keeps the types.
LEMMA TypeOKInductive == TicketTypeOK /\ [TicketNext]_ticketVars => TicketTypeOK'
<1> SUFFICES ASSUME TicketTypeOK, [TicketNext]_ticketVars PROVE TicketTypeOK'
  OBVIOUS
<1> USE DEF TicketTypeOK, People
<1>p. PendingTyped
  BY PendingIsTyped
<1>i. NotDoing \in Doing
  BY DEF Doing
<1>v. Exists => version \in 1..MaxVersion
  BY DEF Exists
<1>1. ASSUME NEW r \in Handlers, FindShow(r) PROVE TicketTypeOK'
  <2>1. [op |-> "receipt", who |-> doing[r].who, version |-> doing[r].version] \in Doing
    BY <1>1, <1>p DEF FindShow, Resumes, PendingTyped, Doing
  <2>2. doing' \in [Handlers -> Doing]
    BY <1>1, <2>1, BecomesTyped DEF FindShow
  <2>3. shown' \in [People -> SUBSET Sections]
    BY <1>1 DEF FindShow, WrittenSections
  <2> QED
    BY <1>1, <2>2, <2>3 DEF FindShow, statusVars, sectionVars, lockVars
<1>2. ASSUME NEW r \in Handlers, SaveReceipt(r) PROVE TicketTypeOK'
  <2>1. doing' \in [Handlers -> Doing]
    BY <1>2, <1>i, BecomesTyped DEF SaveReceipt
  <2>2. receipt' \in [Members -> 0..MaxVersion]
    BY <1>2, <1>p, TicketBounds DEF SaveReceipt, Resumes, PendingTyped
  <2> QED
    BY <1>2, <2>1, <2>2 DEF SaveReceipt, statusVars, sectionVars, lockVars, historyVars
<1>3. ASSUME NEW r \in Handlers, Lock(r) PROVE TicketTypeOK'
  <2>1. doing' \in [Handlers -> Doing]
    BY <1>3, <1>i, BecomesTyped DEF Lock
  <2>2. locked' \in [Sections -> BOOLEAN] /\ lockedBy' \in [Sections -> Members \cup {Nobody}]
    BY <1>3 DEF Lock, Locks
  <2> QED
    BY <1>3, <2>1, <2>2 DEF Lock, statusVars, sectionVars, historyVars
<1>4. ASSUME NEW r \in Handlers, AddCreate(r) PROVE TicketTypeOK'
  <2>1. PICK s \in Sections :
          /\ author' = [author EXCEPT ![s] = doing[r].who]
          /\ shown' = [shown EXCEPT ![doing[r].who] = @ \cup {s}]
          /\ Turns(r, [op |-> "count", who |-> doing[r].who, section |-> s])
    BY <1>4 DEF AddCreate
  <2>2. doing[r].who \in People
    BY <1>4, <1>p DEF AddCreate, Resumes, PendingTyped
  <2>3. [op |-> "count", who |-> doing[r].who, section |-> s] \in Doing
    BY <2>2 DEF Doing
  <2>4. doing' \in [Handlers -> Doing]
    BY <2>1, <2>3, BecomesTyped
  <2>5. author' \in [Sections -> People \cup {Nobody}] /\ shown' \in [People -> SUBSET Sections]
    BY <2>1, <2>2
  <2> QED
    BY <1>4, <2>4, <2>5 DEF AddCreate, statusVars, lockVars
<1>5. ASSUME NEW r \in Handlers, AddCount(r) PROVE TicketTypeOK'
  <2>1. doing[r].who \in People /\ doing[r].section \in Sections
    BY <1>5, <1>p DEF AddCount, Resumes, PendingTyped
  <2>2. doing[r].who # Reporter => [op |-> "reread", who |-> doing[r].who] \in Doing
    BY <2>1 DEF Doing
  <2>3. doing' \in [Handlers -> Doing]
    BY <1>5, <1>i, <2>2, BecomesTyped DEF AddCount
  <2>4. version' \in 0..MaxVersion
    BY <1>5, TicketBounds DEF AddCount
  <2> QED
    BY <1>5, <2>1, <2>3, <2>4 DEF AddCount, sectionVars, lockVars
<1>6. ASSUME NEW r \in Handlers, AddReread(r) PROVE TicketTypeOK'
  <2>1. doing[r].who \in Members
    BY <1>6, <1>p DEF AddReread, Resumes, PendingTyped
  <2>2. [op |-> "receipt", who |-> doing[r].who, version |-> version] \in Doing
    BY <1>6, <1>v, <2>1 DEF Doing, AddReread, Resumes
  <2>3. doing' \in [Handlers -> Doing]
    BY <1>6, <2>2, BecomesTyped DEF AddReread
  <2> QED
    BY <1>6, <2>1, <2>3 DEF AddReread, statusVars, sectionVars, lockVars
<1>7. ASSUME NEW r \in Handlers, Retitle(r) PROVE TicketTypeOK'
  <2>1. doing' \in [Handlers -> Doing]
    BY <1>7, <1>i, BecomesTyped DEF Retitle
  <2>2. version' \in 0..MaxVersion
    BY <1>7, TicketBounds DEF Retitle
  <2> QED
    BY <1>7, <2>1, <2>2 DEF Retitle, sectionVars, lockVars, historyVars
<1>8. ASSUME NEW r \in Handlers, EditWrite(r) PROVE TicketTypeOK'
  <2>1. doing' \in [Handlers -> Doing]
    BY <1>8, <1>i, BecomesTyped DEF EditWrite
  <2>2. content' \in [Sections -> Contents]
    BY <1>8 DEF EditWrite
  <2> QED
    BY <1>8, <2>1, <2>2 DEF EditWrite, statusVars, lockVars, historyVars
<1>9. ASSUME NEW r \in Handlers, FollowRead(r) PROVE TicketTypeOK'
  <2> DEFINE w == [op |-> "lock", who |-> Reporter,
                   sections |-> {s \in WrittenSections : author[s] \in Members /\ ~ locked[s]}]
  <2>1. w \in Doing
    BY DEF Doing, WrittenSections
  <2>2. doing' \in [Handlers -> Doing]
    BY <1>9, <2>1, BecomesTyped DEF FollowRead
  <2>3. shown' \in [People -> SUBSET Sections]
    BY <1>9 DEF FollowRead, WrittenSections
  <2> QED
    BY <1>9, <2>2, <2>3 DEF FollowRead, statusVars, sectionVars, lockVars
<1>10. ASSUME NEW r \in Handlers, RetitleRead(r) PROVE TicketTypeOK'
  <2>1. [op |-> "retitle"] \in Doing
    BY DEF Doing
  <2>2. doing' \in [Handlers -> Doing]
    BY <1>10, <2>1, BecomesTyped DEF RetitleRead
  <2> QED
    BY <1>10, <2>2 DEF RetitleRead, statusVars, sectionVars, lockVars, historyVars
<1>11. ASSUME NEW r \in Handlers, NEW u \in Members, FindRead(r, u) PROVE TicketTypeOK'
  <2>1. [op |-> "show", who |-> u, version |-> version] \in Doing
    BY <1>11, <1>v DEF Doing, FindRead, Begins
  <2>2. doing' \in [Handlers -> Doing]
    BY <1>11, <2>1, BecomesTyped DEF FindRead
  <2> QED
    BY <1>11, <2>2 DEF FindRead, statusVars, sectionVars, lockVars, historyVars
<1>12. ASSUME NEW r \in Handlers, NEW u \in Members, OpenRead(r, u) PROVE TicketTypeOK'
  <2> DEFINE w == [op |-> "lock", who |-> u,
                   sections |-> {s \in WrittenSections : author[s] # u /\ ~ locked[s]}]
  <2>1. w \in Doing
    BY DEF Doing, WrittenSections
  <2>2. doing' \in [Handlers -> Doing]
    BY <1>12, <2>1, BecomesTyped DEF OpenRead
  <2>3. shown' \in [People -> SUBSET Sections]
    BY <1>12 DEF OpenRead, WrittenSections
  <2> QED
    BY <1>12, <2>2, <2>3 DEF OpenRead, statusVars, sectionVars, lockVars
<1>13. ASSUME NEW r \in Handlers, NEW u \in Members, Update(r, u) PROVE TicketTypeOK'
  <2>1. version + 1 \in 1..MaxVersion
    BY <1>13, TicketBounds DEF Update
  <2>2. [op |-> "receipt", who |-> u, version |-> version + 1] \in Doing
    BY <2>1 DEF Doing
  <2>3. doing' \in [Handlers -> Doing]
    BY <1>13, <2>2, BecomesTyped DEF Update
  <2> QED
    BY <1>13, <2>1, <2>3 DEF Update, sectionVars, lockVars
<1>14. ASSUME NEW r \in Handlers, NEW p \in People, AddRead(r, p) PROVE TicketTypeOK'
  <2>1. [op |-> "add", who |-> p] \in Doing
    BY DEF Doing
  <2>2. doing' \in [Handlers -> Doing]
    BY <1>14, <2>1, BecomesTyped DEF AddRead
  <2> QED
    BY <1>14, <2>2 DEF AddRead, statusVars, sectionVars, lockVars, historyVars
<1>15. ASSUME NEW r \in Handlers, NEW p \in People, NEW s \in Sections, EditRead(r, p, s)
       PROVE TicketTypeOK'
  <2>1. [op |-> "edit", section |-> s] \in Doing
    BY DEF Doing
  <2>2. doing' \in [Handlers -> Doing]
    BY <1>15, <2>1, BecomesTyped DEF EditRead
  <2> QED
    BY <1>15, <2>2 DEF EditRead, statusVars, sectionVars, lockVars, historyVars
<1>16. ASSUME NEW u \in Members, Delete(u) PROVE TicketTypeOK'
  BY <1>16, TicketBounds DEF Delete, sectionVars, lockVars, historyVars
<1>17. CASE UNCHANGED ticketVars
  BY <1>17 DEF ticketVars, statusVars, sectionVars, lockVars, historyVars
<1> QED
  BY <1>1, <1>2, <1>3, <1>4, <1>5, <1>6, <1>7, <1>8, <1>9, <1>10, <1>11, <1>12, <1>13,
     <1>14, <1>15, <1>16, <1>17 DEF TicketNext, TicketStep

\* The ticket, its sections, its receipts and the requests under way keep
\* their types.  (tickets.service.ts, public-tickets.service.ts)
THEOREM TypeCorrect == TicketSpec => []TicketTypeOK
BY InitTyped, TypeOKInductive, PTL DEF TicketSpec

-----------------------------------------------------------------------------
\* What the steps that do not touch sections, locks and requests leave.
LEMMA LockingFrame ==
  ASSUME Locking, TicketTypeOK', UNCHANGED <<author, locked, lockedBy>>,
         \A p \in People : shown[p] \subseteq shown'[p],
         \A r \in Handlers : doing'[r].op = "lock" =>
           doing'[r] = doing[r]
             \/ doing'[r].sections \subseteq
                  {s \in WrittenSections : author[s] # doing'[r].who /\ s \in shown'[doing'[r].who]}
  PROVE  Locking'
<1>1. WrittenSections' = WrittenSections
  BY DEF WrittenSections
<1>2. PendingTyped
  BY PendingIsTyped DEF Locking
<1>3. PendingLocksShown'
  BY <1>1, <1>2 DEF Locking, PendingLocksShown, PendingTyped
<1>4. LocksWritten'
  BY <1>1 DEF Locking, LocksWritten
<1>5. LockedWasShown'
  BY DEF Locking, LockedWasShown, TicketTypeOK, People
<1> QED
  BY <1>3, <1>4, <1>5 DEF Locking

\* Locking what was read and shown.
LEMMA LockLocking ==
  ASSUME Locking, NEW r \in Handlers, Lock(r), TicketTypeOK'
  PROVE  Locking'
<1> DEFINE S == doing[r].sections
           p == doing[r].who
<1>1. p \in People /\ S \subseteq {s \in WrittenSections : author[s] # p /\ s \in shown[p]}
  BY PendingIsTyped DEF Locking, Lock, Resumes, PendingTyped, PendingLocksShown
<1> HIDE DEF S, p
<1>2. /\ locked' = [s \in Sections |-> locked[s] \/ s \in S]
      /\ lockedBy' = [s \in Sections |-> IF s \in S /\ p \in Members THEN p ELSE lockedBy[s]]
      /\ UNCHANGED <<author, shown>>
  BY DEF Lock, Locks, S, p, sectionVars, historyVars
<1>3. WrittenSections' = WrittenSections
  BY <1>2 DEF WrittenSections
<1>4. PendingLocksShown'
  BY <1>2, <1>3 DEF Lock, Turns, Locking, TicketTypeOK, PendingLocksShown, NotDoing
<1>5. LocksWritten'
  BY <1>1, <1>2, <1>3, TicketPeople DEF Locking, LocksWritten, People
<1>6. LockedWasShown'
  <2> SUFFICES ASSUME NEW s \in Sections, locked'[s]
               PROVE  LET holder == IF lockedBy'[s] = Nobody THEN Reporter ELSE lockedBy'[s]
                      IN  author[s] # holder /\ s \in shown[holder]
    BY <1>2 DEF LockedWasShown
  <2>1. CASE s \notin S
    BY <1>2, <2>1 DEF Locking, LockedWasShown
  <2>2. CASE s \in S /\ p \in Members
    BY <1>1, <1>2, <2>2, TicketPeople
  <2>3. CASE s \in S /\ p = Reporter /\ lockedBy[s] = Nobody
    BY <1>1, <1>2, <2>3, TicketPeople
  <2>4. CASE s \in S /\ p = Reporter /\ lockedBy[s] # Nobody
    BY <1>2, <2>4, TicketPeople DEF Locking, LocksWritten, LockedWasShown
  <2> QED
    BY <1>1, <2>1, <2>2, <2>3, <2>4 DEF People
<1> QED
  BY <1>4, <1>5, <1>6 DEF Locking

\* A new section is not locked, and none that was read is it.
LEMMA AddCreateLocking ==
  ASSUME Locking, NEW r \in Handlers, AddCreate(r), TicketTypeOK'
  PROVE  Locking'
<1> USE DEF Locking
<1>1. PICK n \in Sections \ WrittenSections :
        /\ author' = [author EXCEPT ![n] = doing[r].who]
        /\ shown' = [shown EXCEPT ![doing[r].who] = @ \cup {n}]
        /\ doing' = [doing EXCEPT ![r] = [op |-> "count", who |-> doing[r].who, section |-> n]]
  BY DEF AddCreate, Turns
<1>2. doing[r].who \in People /\ doing[r].who # Nobody
  BY PendingIsTyped, TicketPeople DEF AddCreate, Resumes, PendingTyped, People
<1>3. UNCHANGED <<locked, lockedBy>>
  BY DEF AddCreate, lockVars
<1>4. WrittenSections' = WrittenSections \cup {n}
  BY <1>1, <1>2 DEF WrittenSections, TicketTypeOK
<1>5. \A s \in WrittenSections : author'[s] = author[s]
  BY <1>1 DEF TicketTypeOK, WrittenSections
<1>6. \A p \in People : shown[p] \subseteq shown'[p]
  BY <1>1 DEF TicketTypeOK
<1>7. PendingLocksShown'
  <2> SUFFICES ASSUME NEW q \in Handlers, doing'[q].op = "lock"
               PROVE  doing'[q].sections \subseteq
                        {s \in WrittenSections' : author'[s] # doing'[q].who /\ s \in shown'[doing'[q].who]}
    BY DEF PendingLocksShown
  <2>1. doing'[q] = doing[q]
    BY <1>1 DEF TicketTypeOK
  <2>2. doing[q].who \in People
    BY <2>1, PendingIsTyped DEF PendingTyped
  <2> QED
    BY <1>4, <1>5, <1>6, <2>1, <2>2 DEF PendingLocksShown
<1>8. LocksWritten'
  BY <1>3, <1>4 DEF LocksWritten
<1>9. LockedWasShown'
  BY <1>3, <1>5, <1>6, TicketPeople DEF LockedWasShown, LocksWritten, TicketTypeOK, People
<1> QED
  BY <1>7, <1>8, <1>9

\* Every statement keeps what is said of locks.
LEMMA LockingInductive == Locking /\ [TicketNext]_ticketVars => Locking'
<1> SUFFICES ASSUME Locking, [TicketNext]_ticketVars PROVE Locking'
  OBVIOUS
<1>t. TicketTypeOK' /\ TicketTypeOK
  BY TypeOKInductive DEF Locking
<1>p. PendingTyped
  BY <1>t, PendingIsTyped
<1>1. CASE \E r \in Handlers : Lock(r)
  BY <1>1, <1>t, LockLocking
<1>2. CASE \E r \in Handlers : AddCreate(r)
  BY <1>2, <1>t, AddCreateLocking
<1>3. CASE \E r \in Handlers : FindShow(r)
  BY <1>3, <1>t, LockingFrame DEF FindShow, Turns, TicketTypeOK, sectionVars, lockVars
<1>4. CASE \E r \in Handlers : \/ SaveReceipt(r) \/ AddCount(r) \/ AddReread(r)
                               \/ Retitle(r) \/ EditWrite(r) \/ RetitleRead(r)
  BY <1>4, <1>t, LockingFrame DEF SaveReceipt, AddCount, AddReread, Retitle, EditWrite,
     RetitleRead, Turns, NotDoing, TicketTypeOK, sectionVars, lockVars, historyVars
<1>5. CASE \E r \in Handlers : FollowRead(r)
  <2>1. PICK r \in Handlers : FollowRead(r)
    BY <1>5
  <2>2. \A p \in People : shown[p] \subseteq shown'[p]
    BY <1>t, <2>1 DEF FollowRead, TicketTypeOK
  <2>3. WrittenSections \subseteq shown'[Reporter]
    BY <1>t, <2>1 DEF FollowRead, TicketTypeOK, People
  <2>4. \A s \in WrittenSections : author[s] \in Members => author[s] # Reporter
    BY TicketPeople
  <2> QED
    BY <1>t, <2>1, <2>2, <2>3, <2>4, LockingFrame
       DEF FollowRead, Turns, TicketTypeOK, sectionVars, lockVars
<1>6. CASE \E r \in Handlers, u \in Members : OpenRead(r, u)
  <2>1. PICK r \in Handlers, u \in Members : OpenRead(r, u)
    BY <1>6
  <2>2. \A p \in People : shown[p] \subseteq shown'[p]
    BY <1>t, <2>1 DEF OpenRead, TicketTypeOK
  <2>3. WrittenSections \subseteq shown'[u]
    BY <1>t, <2>1 DEF OpenRead, TicketTypeOK, People
  <2> QED
    BY <1>t, <2>1, <2>2, <2>3, LockingFrame
       DEF OpenRead, Turns, TicketTypeOK, sectionVars, lockVars
<1>7. CASE \E r \in Handlers, u \in Members : FindRead(r, u) \/ Update(r, u)
  BY <1>7, <1>t, LockingFrame DEF FindRead, Update, Turns, TicketTypeOK, sectionVars, lockVars, historyVars
<1>8. CASE \E r \in Handlers, p \in People : AddRead(r, p)
  BY <1>8, <1>t, LockingFrame DEF AddRead, Turns, TicketTypeOK, sectionVars, lockVars, historyVars
<1>9. CASE \E r \in Handlers, p \in People, s \in Sections : EditRead(r, p, s)
  BY <1>9, <1>t, LockingFrame DEF EditRead, Turns, TicketTypeOK, sectionVars, lockVars, historyVars
<1>10. CASE \E u \in Members : Delete(u)
  BY <1>10, <1>t, LockingFrame DEF Delete, sectionVars, lockVars, historyVars
<1>11. CASE UNCHANGED ticketVars
  BY <1>11, <1>t, LockingFrame DEF ticketVars, sectionVars, lockVars, historyVars
<1> QED
  BY <1>1, <1>2, <1>3, <1>4, <1>5, <1>6, <1>7, <1>8, <1>9, <1>10, <1>11 DEF TicketNext, TicketStep

\* A section is locked only after somebody else than its author was shown it,
\* whatever was added or locked between the reading and the locking.
\* (tickets.service.ts:188-202, public-tickets.service.ts:183-199)
THEOREM LockedWasShownAlways == TicketSpec => []LockedWasShown
<1>1. ASSUME TicketInit PROVE Locking
  <2>1. TicketTypeOK
    BY <1>1, InitTyped
  <2>2. \A r \in Handlers : doing[r].op = "idle"
    BY <1>1 DEF TicketInit, NotDoing
  <2>3. \A s \in Sections : ~ locked[s] /\ lockedBy[s] = Nobody
    BY <1>1 DEF TicketInit
  <2> QED
    BY <2>1, <2>2, <2>3 DEF Locking, PendingLocksShown, LocksWritten, LockedWasShown
<1>2. Locking => LockedWasShown
  BY DEF Locking
<1> QED
  BY <1>1, <1>2, LockingInductive, PTL DEF TicketSpec

-----------------------------------------------------------------------------
\* There are finitely many sections, and so finitely many new to anybody.
LEMMA NewFinite == ASSUME TicketTypeOK, NEW u PROVE IsFiniteSet(New(u)) /\ New(u) \subseteq Sections
<1>1. IsFiniteSet(Sections)
  BY TicketBounds, FS_Interval DEF Sections
<1> QED
  BY <1>1, FS_Subset DEF New, TicketTypeOK

\* Counting one more section, with one more version, or showing more of them,
\* leaves covered what was covered.
LEMMA CoversKept ==
  ASSUME TicketTypeOK, TicketTypeOK', NEW u \in Members, NEW v \in 0..MaxVersion, Covers(v, u), NEW s,
         shown[u] \subseteq shown'[u],
         \/ version' = version /\ counted' = counted
         \/ version' = version + 1 /\ counted' \subseteq counted \cup {s}
  PROVE  Covers(v, u)'
<1>1. IsFiniteSet(New(u)) /\ IsFiniteSet(New(u) \cup {s})
  BY NewFinite, FS_AddElement
<1>2. /\ Cardinality(New(u)) \in Nat
      /\ Cardinality(New(u) \cup {s}) \in Nat
      /\ Cardinality(New(u) \cup {s}) <= Cardinality(New(u)) + 1
  <2>1. Cardinality(New(u)) \in Nat /\ Cardinality(New(u) \cup {s}) \in Nat
    BY <1>1, FS_CardinalityType
  <2>2. Cardinality(New(u) \cup {s}) = IF s \in New(u) THEN Cardinality(New(u))
                                                      ELSE Cardinality(New(u)) + 1
    BY <1>1, FS_AddElement
  <2> QED
    BY <2>1, <2>2
<1>3. CASE version' = version /\ counted' = counted
  <2>1. New(u)' \subseteq New(u)
    BY <1>3 DEF New
  <2>2. Cardinality(New(u)') <= Cardinality(New(u)) /\ Cardinality(New(u)') \in Nat
    BY <1>1, <2>1, FS_Subset, FS_CardinalityType
  <2> QED
    BY <1>2, <1>3, <2>2 DEF Covers, TicketTypeOK
<1>4. CASE version' = version + 1 /\ counted' \subseteq counted \cup {s}
  <2>1. New(u)' \subseteq New(u) \cup {s}
    BY <1>4 DEF New
  <2>2. Cardinality(New(u)') <= Cardinality(New(u) \cup {s}) /\ Cardinality(New(u)') \in Nat
    BY <1>1, <2>1, FS_Subset, FS_CardinalityType
  <2> QED
    BY <1>2, <1>4, <2>2 DEF Covers, TicketTypeOK
<1> QED
  BY <1>3, <1>4

\* Steps that write no receipt, and start none but with the version as it is,
\* for a writer, or for somebody who was shown everything.
LEMMA ReadingFrame ==
  ASSUME Reading, Exists, TicketTypeOK', NEW s, receipt' = receipt, writers \subseteq writers',
         \A u \in Members : shown[u] \subseteq shown'[u],
         \/ version' = version /\ counted' = counted
         \/ version' = version + 1 /\ counted' \subseteq counted \cup {s},
         CountedWritten',
         \A r \in Handlers :
           \/ doing'[r] = doing[r]
           \/ doing'[r].op \notin {"show", "receipt"}
           \/ doing'[r].op = "show" /\ doing'[r].version <= version'
           \/ /\ doing'[r].op = "receipt"
              /\ doing'[r].who \in writers' \/ Covers(doing[r].version, doing[r].who)'
  PROVE  Reading'
<1>1. TicketTypeOK /\ ReceiptsCover /\ PendingCover /\ PendingTyped
  BY PendingIsTyped DEF Reading
<1>2. version' >= version /\ version \in Int /\ version' \in Int
  BY <1>1 DEF TicketTypeOK
<1>3. ReceiptsCover'
  <2> SUFFICES ASSUME NEW u \in Members, u \notin writers' PROVE Covers(receipt[u], u)'
    BY DEF ReceiptsCover
  <2>1. receipt[u] \in 0..MaxVersion /\ Covers(receipt[u], u)
    BY <1>1 DEF TicketTypeOK, ReceiptsCover
  <2>2. PICK v \in 0..MaxVersion : v = receipt[u]
    BY <2>1
  <2>3. Covers(v, u)'
    BY <1>1, <2>1, <2>2, CoversKept
  <2> QED
    BY <2>2, <2>3 DEF Covers
<1>4. ASSUME NEW r \in Handlers, doing'[r].op = "show" PROVE doing'[r].version <= version'
  BY <1>1, <1>2, <1>4 DEF PendingCover, PendingTyped
<1>5. ASSUME NEW r \in Handlers, doing'[r].op = "receipt", doing'[r].who \notin writers'
      PROVE  Covers(doing[r].version, doing[r].who)'
  <2> SUFFICES ASSUME doing'[r] = doing[r] PROVE Covers(doing[r].version, doing[r].who)'
    BY <1>5
  <2>1. doing'[r] = doing[r]
    OBVIOUS
  <2>2. PICK u \in Members, v \in 0..MaxVersion : v = doing[r].version /\ u = doing[r].who
    BY <1>1, <1>5, <2>1 DEF PendingTyped
  <2>3. Covers(v, u)
    BY <1>1, <1>5, <2>1, <2>2 DEF PendingCover
  <2>4. Covers(v, u)'
    BY <1>1, <2>3, CoversKept
  <2>5. doing'[r].version = v /\ doing'[r].who = u
    BY <2>1, <2>2
  <2> QED
    BY <2>1, <2>4, <2>5 DEF Covers, New
<1> QED
  BY <1>3, <1>4, <1>5 DEF Reading, PendingCover, Covers, New

\* Every statement keeps what is said of receipts.
LEMMA ReadingInductive == Reading /\ [TicketNext]_ticketVars => Reading'
<1> SUFFICES ASSUME Reading, [TicketNext]_ticketVars PROVE Reading'
  OBVIOUS
<1>t. TicketTypeOK' /\ TicketTypeOK
  BY TypeOKInductive DEF Reading
<1>p. PendingTyped /\ CountedWritten
  BY <1>t, PendingIsTyped DEF Reading
<1>1. ASSUME NEW r \in Handlers, FindShow(r) PROVE Reading'
  <2>1. doing[r].who \in Members /\ doing[r].version \in 1..MaxVersion /\ doing[r].version <= version
    BY <1>1, <1>p DEF FindShow, Resumes, PendingTyped, Reading, PendingCover
  <2>2. /\ \A u \in Members : shown[u] \subseteq shown'[u]
        /\ WrittenSections \subseteq shown'[doing[r].who]
    BY <1>1, <1>t, <2>1 DEF FindShow, TicketTypeOK, People
  <2>3. counted' = counted /\ version' = version
    BY <1>1 DEF FindShow, statusVars
  <2>4. New(doing[r].who)' = {} /\ doing'[r].who = doing[r].who /\ doing'[r].version = doing[r].version
    BY <1>1, <1>p, <1>t, <2>2, <2>3 DEF New, CountedWritten, FindShow, Turns, TicketTypeOK
  <2>5. Covers(doing[r].version, doing[r].who)'
    <3>1. counted' \ shown'[doing'[r].who] = {}
      BY <2>4 DEF New
    <3>2. Cardinality(counted' \ shown'[doing'[r].who]) = 0
      BY <3>1, FS_EmptySet
    <3>3. version \in Int
      BY <1>t DEF TicketTypeOK
    <3>4. doing'[r].version <= version' /\ 0 <= version' - doing'[r].version
      BY <2>1, <2>3, <2>4, <3>3
    <3> QED
      BY <3>2, <3>4 DEF Covers, New
  <2>6. CountedWritten'
    BY <1>1, <1>p, <1>t DEF FindShow, Turns, CountedWritten, WrittenSections, TicketTypeOK, sectionVars
  <2>7. \A q \in Handlers : q # r => doing'[q] = doing[q]
    BY <1>1, <1>t DEF FindShow, Turns, TicketTypeOK
  <2>8. doing'[r].op = "receipt"
    BY <1>1, <1>t DEF FindShow, Turns, TicketTypeOK
  <2> QED
    BY <1>1, <1>t, <2>2, <2>3, <2>5, <2>6, <2>7, <2>8, ReadingFrame DEF FindShow, Resumes
<1>2. ASSUME NEW r \in Handlers, SaveReceipt(r) PROVE Reading'
  <2>1. /\ doing' = [doing EXCEPT ![r] = NotDoing]
        /\ receipt' = [receipt EXCEPT ![doing[r].who] = doing[r].version]
        /\ UNCHANGED <<version, author, counted, shown, writers>>
        /\ doing[r].op = "receipt" /\ Exists
    BY <1>2 DEF SaveReceipt, Resumes, Turns, statusVars, sectionVars, historyVars
  <2>2. CountedWritten'
    BY <1>p, <1>t, <2>1 DEF CountedWritten, WrittenSections, NotDoing, TicketTypeOK
  <2>3. ReceiptsCover /\ PendingCover
    BY <2>1 DEF Reading
  <2>4. ReceiptsCover'
    BY <1>p, <1>t, <2>1, <2>3 DEF ReceiptsCover, PendingCover, PendingTyped, Covers, New, TicketTypeOK
  <2>5. PendingCover'
    BY <1>t, <2>1, <2>3 DEF PendingCover, Covers, New, NotDoing, TicketTypeOK
  <2> QED
    BY <1>t, <2>2, <2>4, <2>5 DEF Reading
<1>3. ASSUME NEW r \in Handlers, AddCreate(r) PROVE Reading'
  <2>1. PICK n \in Sections \ WrittenSections :
          /\ author' = [author EXCEPT ![n] = doing[r].who]
          /\ shown' = [shown EXCEPT ![doing[r].who] = @ \cup {n}]
          /\ doing' = [doing EXCEPT ![r] = [op |-> "count", who |-> doing[r].who, section |-> n]]
    BY <1>3 DEF AddCreate, Turns
  <2>2. doing[r].who \in People /\ doing[r].who # Nobody
    BY <1>3, <1>p, TicketPeople DEF AddCreate, Resumes, PendingTyped, People
  <2>3. WrittenSections' = WrittenSections \cup {n}
    BY <1>t, <2>1, <2>2 DEF WrittenSections, TicketTypeOK
  <2>4. counted' = counted /\ version' = version /\ receipt' = receipt /\ writers' = writers /\ Exists
    BY <1>3 DEF AddCreate, statusVars, Resumes
  <2>5. CountedWritten'
    BY <1>p, <1>t, <2>1, <2>3, <2>4 DEF CountedWritten, TicketTypeOK
  <2>6. \A u \in Members : shown[u] \subseteq shown'[u]
    BY <1>t, <2>1 DEF TicketTypeOK, People
  <2>7. \A q \in Handlers : doing'[q] = doing[q] \/ doing'[q].op = "count"
    BY <1>t, <2>1 DEF TicketTypeOK
  <2> QED
    BY <1>t, <2>4, <2>5, <2>6, <2>7, ReadingFrame
<1>4. ASSUME NEW r \in Handlers, AddCount(r) PROVE Reading'
  <2>1. /\ version' = version + 1 /\ counted' = counted \cup {doing[r].section}
        /\ UNCHANGED <<author, receipt, shown, writers>> /\ Exists
        /\ doing[r].section \in WrittenSections
    BY <1>4, <1>p DEF AddCount, Resumes, CountedWritten, sectionVars
  <2>2. \A q \in Handlers : doing'[q] = doing[q] \/ doing'[q].op \in {"idle", "reread"}
    BY <1>4, <1>t DEF AddCount, Turns, NotDoing, TicketTypeOK
  <2>3. CountedWritten'
    BY <1>p, <2>1, <2>2 DEF CountedWritten, WrittenSections
  <2> QED
    BY <1>t, <2>1, <2>2, <2>3, ReadingFrame
<1>5. ASSUME NEW r \in Handlers,
             \/ AddReread(r) \/ Lock(r) \/ Retitle(r) \/ EditWrite(r) \/ FollowRead(r) \/ RetitleRead(r)
      PROVE  Reading'
  <2>1. /\ UNCHANGED <<author, receipt, counted>> /\ writers \subseteq writers' /\ Exists
        /\ version' \in {version, version + 1}
    BY <1>5 DEF AddReread, Lock, Retitle, EditWrite, FollowRead, RetitleRead, Resumes, Begins,
       statusVars, sectionVars, historyVars
  <2>2. \A u \in Members : shown[u] \subseteq shown'[u]
    BY <1>5, <1>t DEF AddReread, Lock, Retitle, EditWrite, FollowRead, RetitleRead,
       historyVars, TicketTypeOK, People
  <2>3. \A q \in Handlers :
        \/ doing'[q] = doing[q] \/ doing'[q].op \in {"idle", "lock", "retitle"}
        \/ doing'[q].op = "receipt" /\ doing'[q].who \in writers'
    <3>1. \A q \in Handlers : q # r => doing'[q] = doing[q]
      BY <1>5, <1>t, BecomesOne DEF AddReread, Lock, Retitle, EditWrite, FollowRead, RetitleRead
    <3>2. CASE AddReread(r)
      <4>1. doing'[r] = [op |-> "receipt", who |-> doing[r].who, version |-> version]
        BY <1>t, <3>2, BecomesOne DEF AddReread
      <4>2. doing'[r].op = "receipt" /\ doing'[r].who \in writers'
        BY <3>2, <4>1 DEF AddReread
      <4> QED
        BY <3>1, <4>2
    <3>3. CASE Lock(r) \/ Retitle(r) \/ EditWrite(r)
      <4>1. doing'[r] = [op |-> "idle"]
        BY <1>t, <3>3, BecomesOne DEF Lock, Retitle, EditWrite, NotDoing
      <4> QED
        BY <3>1, <4>1
    <3>4. CASE FollowRead(r)
      <4>1. doing'[r].op = "lock"
        BY <1>t, <3>4, BecomesOne DEF FollowRead
      <4> QED
        BY <3>1, <4>1
    <3>5. CASE RetitleRead(r)
      <4>1. doing'[r] = [op |-> "retitle"]
        BY <1>t, <3>5, BecomesOne DEF RetitleRead
      <4> QED
        BY <3>1, <4>1
    <3> QED
      BY <1>5, <3>2, <3>3, <3>4, <3>5
  <2>4. CountedWritten'
    BY <1>p, <2>1, <2>3 DEF CountedWritten, WrittenSections
  <2>5. \/ version' = version /\ counted' = counted
        \/ version' = version + 1 /\ counted' \subseteq counted \cup {1}
    BY <2>1
  <2> QED
    BY <1>t, <2>1, <2>2, <2>3, <2>4, <2>5, ReadingFrame
<1>6. ASSUME NEW r \in Handlers, NEW u \in Members, FindRead(r, u) \/ OpenRead(r, u) \/ Update(r, u)
      PROVE  Reading'
  <2>1. /\ UNCHANGED <<author, receipt, counted>> /\ writers \subseteq writers' /\ Exists
        /\ version' \in {version, version + 1}
    BY <1>6 DEF FindRead, OpenRead, Update, Begins, statusVars, sectionVars, historyVars
  <2>2. \A v \in Members : shown[v] \subseteq shown'[v]
    BY <1>6, <1>t DEF FindRead, OpenRead, Update, historyVars, TicketTypeOK, People
  <2>3. \A q \in Handlers :
        \/ doing'[q] = doing[q] \/ doing'[q].op = "lock"
        \/ doing'[q].op = "show" /\ doing'[q].version <= version'
        \/ doing'[q].op = "receipt" /\ doing'[q].who \in writers'
    <3>1. \A q \in Handlers : q # r => doing'[q] = doing[q]
      BY <1>6, <1>t, BecomesOne DEF FindRead, OpenRead, Update
    <3>2. CASE FindRead(r, u)
      <4>1. doing'[r] = [op |-> "show", who |-> u, version |-> version]
        BY <1>t, <3>2, BecomesOne DEF FindRead
      <4>2. version \in Int /\ version' = version
        BY <1>t, <3>2 DEF FindRead, statusVars, TicketTypeOK
      <4> QED
        BY <3>1, <4>1, <4>2
    <3>3. CASE OpenRead(r, u)
      <4>1. doing'[r].op = "lock"
        BY <1>t, <3>3, BecomesOne DEF OpenRead
      <4> QED
        BY <3>1, <4>1
    <3>4. CASE Update(r, u)
      <4>1. doing'[r] = [op |-> "receipt", who |-> u, version |-> version + 1]
        BY <1>t, <3>4, BecomesOne DEF Update
      <4>2. u \in writers'
        BY <3>4 DEF Update
      <4> QED
        BY <3>1, <4>1, <4>2
    <3> QED
      BY <1>6, <3>2, <3>3, <3>4
  <2>4. CountedWritten'
    BY <1>p, <2>1, <2>3 DEF CountedWritten, WrittenSections
  <2>5. \/ version' = version /\ counted' = counted
        \/ version' = version + 1 /\ counted' \subseteq counted \cup {1}
    BY <2>1
  <2> QED
    BY <1>t, <2>1, <2>2, <2>3, <2>4, <2>5, ReadingFrame
<1>7. ASSUME NEW r \in Handlers, NEW p \in People, NEW s \in Sections,
             AddRead(r, p) \/ EditRead(r, p, s)
      PROVE  Reading'
  <2>1. UNCHANGED <<version, author, receipt, counted, writers, shown>> /\ Exists
    BY <1>7 DEF AddRead, EditRead, Begins, statusVars, sectionVars, historyVars
  <2>2. \A q \in Handlers : doing'[q] = doing[q] \/ doing'[q].op \in {"add", "edit"}
    BY <1>7, <1>t DEF AddRead, EditRead, Turns, TicketTypeOK
  <2>3. CountedWritten'
    BY <1>p, <2>1, <2>2 DEF CountedWritten, WrittenSections
  <2> QED
    BY <1>t, <2>1, <2>2, <2>3, ReadingFrame
<1>8. ASSUME NEW u \in Members, Delete(u) PROVE Reading'
  BY <1>8, <1>t, <1>p DEF Delete, Reading, CountedWritten, WrittenSections, Exists, sectionVars, historyVars
<1>9. CASE UNCHANGED ticketVars
  BY <1>9 DEF ticketVars, statusVars, sectionVars, lockVars, historyVars, Reading, TicketTypeOK, CountedWritten,
     WrittenSections, Exists, ReceiptsCover, PendingCover, Covers, New
<1>10. ASSUME NEW r \in Handlers, NEW p \in People, AddRead(r, p) PROVE Reading'
  BY <1>7, <1>10, TicketBounds DEF Sections
<1> QED
  BY <1>1, <1>2, <1>3, <1>4, <1>5, <1>6, <1>7, <1>8, <1>9, <1>10 DEF TicketNext, TicketStep

\* The unread count of a member who has only looked at the ticket covers every
\* section announced that the member was not shown: a receipt saved late holds
\* the version read first, before the sections, and an answer is counted only
\* after it is written.  (tickets.service.ts:101-144, 408-424)
THEOREM UnreadCoversNewAlways == TicketSpec => []UnreadCoversNew
<1>1. ASSUME TicketInit PROVE Reading
  <2>1. TicketTypeOK
    BY <1>1, InitTyped
  <2>2. \A r \in Handlers : doing[r].op = "idle"
    BY <1>1 DEF TicketInit, NotDoing
  <2>3. counted = {1} /\ version = 1 /\ 1 \in WrittenSections
    BY <1>1, TicketBounds, TicketPeople DEF TicketInit, WrittenSections, Sections, People
  <2>4. ASSUME NEW u \in Members PROVE Covers(receipt[u], u)
    <3>1. receipt[u] = 0 /\ New(u) \subseteq {1}
      BY <1>1 DEF TicketInit, New
    <3>2. Cardinality({1}) = 1 /\ IsFiniteSet({1})
      BY FS_Singleton
    <3>3. Cardinality(New(u)) <= Cardinality({1})
      BY <3>1, <3>2, FS_Subset
    <3> QED
      BY <2>3, <3>1, <3>2, <3>3 DEF Covers
  <2> QED
    BY <2>1, <2>2, <2>3, <2>4 DEF Reading, CountedWritten, ReceiptsCover, PendingCover
<1>2. ASSUME Reading PROVE UnreadCoversNew
  <2> SUFFICES ASSUME NEW u \in Members \ writers, Exists
               PROVE  Cardinality(counted \ shown[u]) <= Unread(u)
    BY DEF UnreadCoversNew
  <2>1. /\ receipt[u] \in Nat /\ version \in Nat /\ receipt[u] <= version
        /\ Cardinality(counted \ shown[u]) <= version - receipt[u]
    BY <1>2 DEF Reading, ReceiptsCover, Covers, New, TicketTypeOK
  <2> QED
    BY <2>1 DEF Unread
<1> QED
  BY <1>1, <1>2, ReadingInductive, PTL DEF TicketSpec
=============================================================================
