---------------------------- MODULE TicketLists -----------------------------
(***************************************************************************)
(* Who is told of what happens to one ticket: its lists of users for       *)
(* notifications and for e-mail (tickets.service.ts, public-tickets.       *)
(* service.ts, ticket-notification.service.ts).                            *)
(*                                                                         *)
(* A new ticket lists the members who want to hear of unassigned tickets.  *)
(* An update that names an assignee reads the ticket, rewrites the lists   *)
(* one statement after the other unless it names the assignee it found,    *)
(* and writes the assignee last in any case, in no transaction.  A request *)
(* may end between any two statements.  Updates that name no assignee      *)
(* leave all of this alone.                                                *)
(***************************************************************************)
EXTENDS Integers, Sequences, FiniteSets

CONSTANTS
  People,     \* users
  Lists,      \* which of the two lists, "notify" and "email", are followed
  Changers    \* requests under way

ASSUME ListsAssumption == Lists \subseteq {"notify", "email"}

VARIABLES
  wants,      \* the users' preferences, as <<list, when, user>>
  staff,      \* the members of the project
  assignee,   \* Ticket.assigneeId, or "noTicket" before it exists
  listed,     \* TicketNotifyUser and TicketEmailUser
  changing,   \* what each request does next
  onOwn,      \* history: who is in a list by a preference of theirs, or by asking
  leftIn      \* history: who is in a list by an assignment that was cut short or overwritten

listVars == <<wants, staff, assignee, listed, changing, onOwn, leftIn>>

Occasions == {"unassigned", "assigned"}
Nobody == "nobody"
NoTicket == "noTicket"
Unset == "unset"   \* what a request that writes no assignee writes

ASSUME PeopleAssumption == People \cap {Nobody, NoTicket, Unset} = {}

\* The list for notifications first.
Kinds == (IF "notify" \in Lists THEN <<"notify">> ELSE <<>>)
         \o (IF "email" \in Lists THEN <<"email">> ELSE <<>>)

Statement == [do : {"drop", "keep", "add", "fill"}, list : Lists, user : People \cup {Nobody}]

NotChanging == [op |-> "idle"]

\* A request has its statements left, the members it has read, the assignee it
\* found and the one it sets; history: no other request was under way with it.
Changing == {NotChanging}
  \cup [op : {"write", "fill"}, rest : Seq(Statement), saw : SUBSET People,
        old : People \cup {Nobody}, new : People \cup {Nobody, Unset}, alone : BOOLEAN]

TicketListsTypeOK ==
  /\ wants \subseteq Lists \X Occasions \X People
  /\ staff \subseteq People
  /\ assignee \in People \cup {Nobody, NoTicket}
  /\ listed \in [Lists -> SUBSET People]
  /\ changing \in [Changers -> Changing]
  /\ onOwn \in [Lists -> SUBSET People] /\ leftIn \in [Lists -> SUBSET People]
  /\ \A k \in Lists : onOwn[k] \subseteq listed[k] /\ leftIn[k] \subseteq listed[k]

TicketListsInit ==
  /\ wants \in SUBSET (Lists \X Occasions \X People)
  /\ staff = People
  /\ assignee = NoTicket
  /\ listed = [k \in Lists |-> {}]
  /\ changing = [r \in Changers |-> NotChanging]
  /\ onOwn = [k \in Lists |-> {}]
  /\ leftIn = [k \in Lists |-> {}]

Wants(k, when) == {u \in People : <<k, when, u>> \in wants}
Each(what, u) == [n \in DOMAIN Kinds |-> [do |-> what, list |-> Kinds[n], user |-> u]]
Goes(r, what) == changing' = [changing EXCEPT ![r] = what]
Pending == {r \in Changers : changing[r] # NotChanging}

\* A request starts; it and those under way have company from now on.
Starts(r, old, new, rest) ==
  changing' = [q \in Changers |->
    IF q = r THEN [op |-> "write", rest |-> rest, saw |-> {}, old |-> old, new |-> new,
                   alone |-> Pending = {}]
    ELSE IF q \in Pending THEN [changing[q] EXCEPT !.alone = FALSE]
    ELSE NotChanging]

-----------------------------------------------------------------------------
\* The ticket is created, then the members are read and the lists filled; the
\* ticket can be changed by others from its first statement on.
CreateTicket(r) ==
  /\ assignee = NoTicket /\ changing[r] = NotChanging
  /\ assignee' = Nobody
  /\ Starts(r, Nobody, Unset, Each("fill", Nobody))
  /\ UNCHANGED <<wants, staff, listed, onOwn, leftIn>>

\* Wrong variant of Plan: who loses the ticket to nobody stays in the lists.
PlanKeeping(old, new) ==
  IF new = old THEN <<>>
  ELSE IF new = Nobody THEN Each("fill", Nobody)
  ELSE IF old = Nobody THEN Each("add", new)
  ELSE Each("drop", old) \o Each("keep", old) \o Each("add", new)

\* The statements on the lists; none if the ticket has that assignee already.
Plan(old, new) ==
  IF new = old THEN <<>>
  ELSE IF new = Nobody THEN Each("drop", old) \o Each("fill", Nobody)
  ELSE IF old = Nobody THEN Each("add", new)
  ELSE Each("drop", old) \o Each("keep", old) \o Each("add", new)

UpdateTicketRead(r, new) ==
  /\ assignee # NoTicket /\ changing[r] = NotChanging
  /\ Starts(r, assignee, new, Plan(assignee, new))
  /\ UNCHANGED <<wants, staff, assignee, listed, onOwn, leftIn>>

\* The members are read before the first list is filled.
ReadMembers(r) ==
  /\ r \in Pending /\ changing[r].rest # <<>>
  /\ Head(changing[r].rest).do = "fill" /\ changing[r].op # "fill"
  /\ Goes(r, [changing[r] EXCEPT !.op = "fill", !.saw = staff])
  /\ UNCHANGED <<wants, staff, assignee, listed, onOwn, leftIn>>

\* Who a statement takes out of its list, and who it puts in on their own account.
Dropped(s) == IF s.do = "drop" THEN {s.user} ELSE {}
ByPreference(s, saw) ==
  IF s.do = "fill" THEN Wants(s.list, "unassigned") \cap saw
  ELSE IF s.do = "keep" THEN {s.user} \cap Wants(s.list, "unassigned") \cap staff
  ELSE {}
Added(s) == IF s.do = "add" THEN {s.user} \cap Wants(s.list, "assigned") ELSE {}

NextStatement(r) ==
  /\ r \in Pending /\ changing[r].rest # <<>>
  /\ LET c == changing[r]
         s == Head(c.rest)
         own == (onOwn[s.list] \ Dropped(s)) \cup ByPreference(s, c.saw)
     IN  /\ s.do = "fill" => c.op = "fill"
         /\ onOwn' = [onOwn EXCEPT ![s.list] = own]
         /\ leftIn' = [leftIn EXCEPT ![s.list] = @ \ Dropped(s)]
         /\ listed' = [listed EXCEPT ![s.list] = (@ \ Dropped(s)) \cup own \cup Added(s)]
         /\ Goes(r, [c EXCEPT !.rest = Tail(@)])
  /\ UNCHANGED <<wants, staff, assignee>>

\* Those an assignment put in and who do not get, or keep, the ticket.
Strands(u) == leftIn' = [k \in Lists |-> leftIn[k] \cup ({u} \cap listed[k])]

\* The last statement writes the assignee, whoever has it by now, also where the
\* request found that assignee and left the lists alone.
UpdateTicketWrite(r) ==
  /\ r \in Pending /\ changing[r].rest = <<>>
  /\ LET c == changing[r] IN
       /\ assignee' = IF c.new = Unset THEN assignee ELSE c.new
       /\ IF c.alone \/ c.new \in {assignee, Unset} THEN UNCHANGED leftIn ELSE Strands(assignee)
  /\ Goes(r, NotChanging)
  /\ UNCHANGED <<wants, staff, listed, onOwn>>

RequestEnds(r) ==
  /\ r \in Pending
  /\ Strands(changing[r].new)
  /\ Goes(r, NotChanging)
  /\ UNCHANGED <<wants, staff, assignee, listed, onOwn>>

-----------------------------------------------------------------------------
\* Users put themselves in a list and take themselves out.
Follow(u, k) ==
  /\ assignee # NoTicket
  /\ listed' = [listed EXCEPT ![k] = @ \cup {u}]
  /\ onOwn' = [onOwn EXCEPT ![k] = @ \cup {u}]
  /\ UNCHANGED <<wants, staff, assignee, changing, leftIn>>

Unfollow(u, k) ==
  /\ u \in listed[k]
  /\ listed' = [listed EXCEPT ![k] = @ \ {u}]
  /\ onOwn' = [onOwn EXCEPT ![k] = @ \ {u}]
  /\ leftIn' = [leftIn EXCEPT ![k] = @ \ {u}]
  /\ UNCHANGED <<wants, staff, assignee, changing>>

\* A member leaves or joins; the lists do not follow.
MembershipMoves(u) ==
  /\ staff' = IF u \in staff THEN staff \ {u} ELSE staff \cup {u}
  /\ UNCHANGED <<wants, assignee, listed, changing, onOwn, leftIn>>

TicketListsNext ==
  \/ \E r \in Changers :
       \/ CreateTicket(r)
       \/ \E u \in People \cup {Nobody} : UpdateTicketRead(r, u)
       \/ ReadMembers(r) \/ NextStatement(r) \/ UpdateTicketWrite(r) \/ RequestEnds(r)
  \/ \E u \in People :
       \/ \E k \in Lists : Follow(u, k) \/ Unfollow(u, k)
       \/ MembershipMoves(u)

TicketListsSpec == TicketListsInit /\ [][TicketListsNext]_listVars

-----------------------------------------------------------------------------
\* Nobody is told of a ticket without a reason that still holds: whoever is in a
\* list wants to hear of unassigned tickets or asked for it, or has the ticket,
\* or is named by a request that is not over, or an assignment to them was cut
\* short or overwritten by an update that overlapped it (update).
ListedForAReason ==
  \A k \in Lists : \A u \in listed[k] \ (onOwn[k] \cup leftIn[k]) :
    \/ u = assignee
    \/ \E r \in Pending : changing[r].new = u
=============================================================================
