------------------------------ MODULE Tickets ------------------------------
(***************************************************************************)
(* One ticket, its sections and its read receipts (tickets.service.ts,     *)
(* public-tickets.service.ts): members who read, open, answer and edit it, *)
(* and the reporter who follows it through a public link, at the same      *)
(* time.  No request opens a transaction, so each statement is a step.     *)
(*                                                                         *)
(* A ticket starts with its description, section 1, and version 1.  Team   *)
(* stands for the members whose role may read all tickets, respond and     *)
(* manage.  Titles, assignees and the lists of users to notify, images and *)
(* share links are left out.                                               *)
(***************************************************************************)
EXTENDS Integers, FiniteSets

CONSTANTS
  Members,      \* the members of the project
  Team,         \* those among them who handle tickets
  Reporter,     \* whoever holds the follow-up link
  Nobody,       \* no author: the section does not exist; no holder of a lock
  Contents,     \* the contents a section may be given
  Handlers,     \* the requests that may be under way at the same time
  MaxSections,  \* bound: sections of the ticket
  MaxVersion    \* bound: the version of the ticket

ASSUME TicketPeople ==
  Team \subseteq Members /\ Reporter \notin Members /\ Nobody \notin Members \cup {Reporter}
ASSUME TicketBounds ==
  MaxSections \in Nat \ {0} /\ MaxVersion \in Nat \ {0}

VARIABLES
  creator,   \* Ticket.createdById; Reporter for one with a follow-up token
  version,   \* Ticket.version, 0 once the ticket is deleted
  resolved,  \* Ticket.status is RESOLVED
  author,    \* TicketSection.authorId (Reporter is null)
  content,   \* TicketSection.content
  locked,    \* TicketSection.lockedAt is not null
  lockedBy,  \* TicketSection.lockedById
  receipt,   \* TicketReadReceipt.lastSeenVersion, 0 without a receipt
  doing,     \* what each request does next, and what it has read
  shown,     \* history: the sections each participant was shown
  counted,   \* history: the sections the version was incremented for
  writers    \* history: the members whose receipt followed a change of theirs

statusVars == <<creator, version, resolved>>
sectionVars == <<author, content>>
lockVars == <<locked, lockedBy>>
historyVars == <<shown, counted, writers>>
ticketVars == <<statusVars, sectionVars, lockVars, receipt, doing, historyVars>>

People == Members \cup {Reporter}
Sections == 1..MaxSections
WrittenSections == {s \in Sections : author[s] # Nobody}

NotDoing == [op |-> "idle"]
Doing ==
  {NotDoing}
    \cup [op : {"show", "receipt"}, who : Members, version : 1..MaxVersion]
    \cup [op : {"lock"}, who : People, sections : SUBSET Sections]
    \cup [op : {"add"}, who : People]
    \cup [op : {"count"}, who : People, section : Sections]
    \cup [op : {"reread"}, who : Members]
    \cup [op : {"edit"}, section : Sections]
    \cup [op : {"retitle"}]

TicketTypeOK ==
  /\ creator \in People
  /\ version \in 0..MaxVersion
  /\ resolved \in BOOLEAN
  /\ author \in [Sections -> People \cup {Nobody}]
  /\ content \in [Sections -> Contents]
  /\ locked \in [Sections -> BOOLEAN]
  /\ lockedBy \in [Sections -> Members \cup {Nobody}]
  /\ receipt \in [Members -> 0..MaxVersion]
  /\ doing \in [Handlers -> Doing]
  /\ shown \in [People -> SUBSET Sections]
  /\ counted \subseteq Sections
  /\ writers \subseteq Members

TicketInit ==
  /\ creator \in People
  /\ version = 1 /\ resolved = FALSE
  /\ author = [s \in Sections |-> IF s = 1 THEN creator ELSE Nobody]
  /\ content \in {[s \in Sections |-> t] : t \in Contents}
  /\ locked = [s \in Sections |-> FALSE]
  /\ lockedBy = [s \in Sections |-> Nobody]
  /\ receipt = [u \in Members |-> 0]
  /\ doing = [r \in Handlers |-> NotDoing]
  /\ shown = [p \in People |-> IF p = creator THEN {1} ELSE {}]
  /\ counted = {1} /\ writers = {}

Exists == version # 0
Turns(r, what) == doing' = [doing EXCEPT ![r] = what]
Begins(r) == Exists /\ doing[r] = NotDoing
Resumes(r, op) == Exists /\ doing[r].op = op

\* TICKET_READ_ALL, or the ticket is one's own.
MaySee(u) == u \in Team \/ u = creator
\* The follow-up token finds the ticket, which is not closed.
MayFollow == creator = Reporter /\ ~ resolved

-----------------------------------------------------------------------------
(* findById: the row of the ticket, then its sections, then the receipt.   *)

FindRead(r, u) ==
  /\ Begins(r) /\ MaySee(u)
  /\ Turns(r, [op |-> "show", who |-> u, version |-> version])
  /\ UNCHANGED <<statusVars, sectionVars, lockVars, receipt, historyVars>>

FindShow(r) ==
  /\ Resumes(r, "show")
  /\ shown' = [shown EXCEPT ![doing[r].who] = @ \cup WrittenSections]
  /\ Turns(r, [op |-> "receipt", who |-> doing[r].who, version |-> doing[r].version])
  /\ UNCHANGED <<statusVars, sectionVars, lockVars, receipt, counted, writers>>

\* Wrong variant of SaveReceipt: the version of the ticket by now.
SaveReceiptOfNow(r) ==
  /\ Resumes(r, "receipt")
  /\ receipt' = [receipt EXCEPT ![doing[r].who] = version]
  /\ Turns(r, NotDoing)
  /\ UNCHANGED <<statusVars, sectionVars, lockVars, historyVars>>

\* The upsert of a receipt, in findById, update and addSection.
SaveReceipt(r) ==
  /\ Resumes(r, "receipt")
  /\ receipt' = [receipt EXCEPT ![doing[r].who] = doing[r].version]
  /\ Turns(r, NotDoing)
  /\ UNCHANGED <<statusVars, sectionVars, lockVars, historyVars>>

-----------------------------------------------------------------------------
(* Opening the ticket, and following it: the sections are read, and those  *)
(* by others that are not locked yet are then locked, by their ids.        *)

OpenRead(r, u) ==
  /\ Begins(r) /\ MaySee(u)
  /\ shown' = [shown EXCEPT ![u] = @ \cup WrittenSections]
  /\ Turns(r, [op |-> "lock", who |-> u,
                 sections |-> {s \in WrittenSections : author[s] # u /\ ~ locked[s]}])
  /\ UNCHANGED <<statusVars, sectionVars, lockVars, receipt, counted, writers>>

FollowRead(r) ==
  /\ Begins(r) /\ MayFollow
  /\ shown' = [shown EXCEPT ![Reporter] = @ \cup WrittenSections]
  /\ Turns(r, [op |-> "lock", who |-> Reporter,
                 sections |-> {s \in WrittenSections : author[s] \in Members /\ ~ locked[s]}])
  /\ UNCHANGED <<statusVars, sectionVars, lockVars, receipt, counted, writers>>

\* The reporter has no id to record as the holder.
Locks(S, p) ==
  /\ locked' = [s \in Sections |-> locked[s] \/ s \in S]
  /\ lockedBy' = [s \in Sections |-> IF s \in S /\ p \in Members THEN p ELSE lockedBy[s]]

\* Wrong variant of Lock: every section of the others there is by now.
LockAllOthers(r) ==
  /\ Resumes(r, "lock")
  /\ Locks({s \in WrittenSections : author[s] # doing[r].who}, doing[r].who)
  /\ Turns(r, NotDoing)
  /\ UNCHANGED <<statusVars, sectionVars, receipt, historyVars>>

Lock(r) ==
  /\ Resumes(r, "lock")
  /\ Locks(doing[r].sections, doing[r].who)
  /\ Turns(r, NotDoing)
  /\ UNCHANGED <<statusVars, sectionVars, receipt, historyVars>>

-----------------------------------------------------------------------------
(* Answering: the section is written, then the version incremented; for a  *)
(* member the version is read again and becomes the receipt.               *)

AddRead(r, p) ==
  /\ Begins(r)
  /\ IF p = Reporter THEN MayFollow ELSE MaySee(p)
  /\ Turns(r, [op |-> "add", who |-> p])
  /\ UNCHANGED <<statusVars, sectionVars, lockVars, receipt, historyVars>>

AddCreate(r) ==
  /\ Resumes(r, "add")
  /\ \E s \in Sections \ WrittenSections :
       /\ s - 1 \in WrittenSections
       /\ author' = [author EXCEPT ![s] = doing[r].who]
       /\ shown' = [shown EXCEPT ![doing[r].who] = @ \cup {s}]
       /\ Turns(r, [op |-> "count", who |-> doing[r].who, section |-> s])
  /\ UNCHANGED <<statusVars, content, lockVars, receipt, counted, writers>>

AddCount(r) ==
  /\ Resumes(r, "count") /\ version < MaxVersion
  /\ version' = version + 1
  /\ counted' = counted \cup {doing[r].section}
  /\ Turns(r, IF doing[r].who = Reporter THEN NotDoing ELSE [op |-> "reread", who |-> doing[r].who])
  /\ UNCHANGED <<creator, resolved, sectionVars, lockVars, receipt, shown, writers>>

AddReread(r) ==
  /\ Resumes(r, "reread")
  /\ writers' = writers \cup {doing[r].who}
  /\ Turns(r, [op |-> "receipt", who |-> doing[r].who, version |-> version])
  /\ UNCHANGED <<statusVars, sectionVars, lockVars, receipt, shown, counted>>

-----------------------------------------------------------------------------
(* Changing the ticket: a member may resolve or reopen it, the reporter    *)
(* gives it another title while it is open.                                *)

Update(r, u) ==
  /\ Begins(r) /\ u \in Team /\ version < MaxVersion
  /\ version' = version + 1
  /\ resolved' \in BOOLEAN
  /\ writers' = writers \cup {u}
  /\ Turns(r, [op |-> "receipt", who |-> u, version |-> version + 1])
  /\ UNCHANGED <<creator, sectionVars, lockVars, receipt, shown, counted>>

RetitleRead(r) ==
  /\ Begins(r) /\ MayFollow
  /\ Turns(r, [op |-> "retitle"])
  /\ UNCHANGED <<statusVars, sectionVars, lockVars, receipt, historyVars>>

Retitle(r) ==
  /\ Resumes(r, "retitle") /\ version < MaxVersion
  /\ version' = version + 1
  /\ Turns(r, NotDoing)
  /\ UNCHANGED <<creator, resolved, sectionVars, lockVars, receipt, historyVars>>

-----------------------------------------------------------------------------
(* Editing a section that is found unlocked.  A member edits a section of  *)
(* their own, or any with TICKET_MANAGE; the follow-up link gives every    *)
(* section, of a closed ticket too.  The version stays.                    *)

EditRead(r, p, s) ==
  /\ Begins(r) /\ s \in WrittenSections /\ ~ locked[s]
  /\ IF p = Reporter THEN creator = Reporter ELSE p = author[s] \/ p \in Team
  /\ Turns(r, [op |-> "edit", section |-> s])
  /\ UNCHANGED <<statusVars, sectionVars, lockVars, receipt, historyVars>>

EditWrite(r) ==
  /\ Resumes(r, "edit")
  /\ \E t \in Contents : content' = [content EXCEPT ![doing[r].section] = t]
  /\ Turns(r, NotDoing)
  /\ UNCHANGED <<statusVars, author, lockVars, receipt, historyVars>>

\* Deletion takes the sections and receipts along; what a request under way
\* would still write is refused.
Delete(u) ==
  /\ Exists /\ MaySee(u)
  /\ version' = 0
  /\ UNCHANGED <<creator, resolved, sectionVars, lockVars, receipt, doing, historyVars>>

-----------------------------------------------------------------------------
TicketStep(r) ==
  \/ FindShow(r) \/ SaveReceipt(r) \/ Lock(r)
  \/ AddCreate(r) \/ AddCount(r) \/ AddReread(r)
  \/ Retitle(r) \/ EditWrite(r)

TicketNext ==
  \/ \E r \in Handlers : TicketStep(r) \/ FollowRead(r) \/ RetitleRead(r)
  \/ \E r \in Handlers, u \in Members : FindRead(r, u) \/ OpenRead(r, u) \/ Update(r, u)
  \/ \E r \in Handlers, p \in People : AddRead(r, p)
  \/ \E r \in Handlers, p \in People, s \in Sections : EditRead(r, p, s)
  \/ \E u \in Members : Delete(u)

TicketSpec == TicketInit /\ [][TicketNext]_ticketVars

-----------------------------------------------------------------------------
\* The unread count of the list, max(0, version - lastSeenVersion).
Unread(u) == IF version > receipt[u] THEN version - receipt[u] ELSE 0

\* The unread count never understates what is new: for a member who has only
\* looked at the ticket it is at least the number of sections announced that
\* the member was not shown, though receipts are written late and can go back.
UnreadCoversNew ==
  \A u \in Members \ writers :
    Exists => Cardinality(counted \ shown[u]) <= Unread(u)

\* A section is locked only after somebody else than its author was shown it,
\* and its holder, if it has one, is such a person, however openings overlap.
LockedWasShown ==
  \A s \in Sections : locked[s] =>
    LET holder == IF lockedBy[s] = Nobody THEN Reporter ELSE lockedBy[s]
    IN  author[s] # holder /\ s \in shown[holder]

\* 'This section is locked and cannot be edited'.
LockedTextStays ==
  [][\A s \in Sections : locked[s] => content'[s] = content[s]]_ticketVars
=============================================================================
