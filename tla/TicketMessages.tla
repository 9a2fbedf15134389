--------------------------- MODULE TicketMessages ---------------------------
(***************************************************************************)
(* Who gets a message when something happens to a ticket: a new section, a *)
(* new assignee, or the ticket itself (tickets.service.ts, public-tickets. *)
(* service.ts, ticket-notification.service.ts).                            *)
(*                                                                         *)
(* The request that makes it happen does not wait for the messages: they   *)
(* are sent afterwards, in steps, while the lists they go by change and    *)
(* until one step fails.  Two events share nothing but the lists, which    *)
(* change here at any time, so a behaviour has one event.                  *)
(***************************************************************************)
EXTENDS FiniteSets

CONSTANT Readers   \* the users a message may go to

VARIABLES
  event,       \* what happens
  addressees,  \* what it goes by: the rows of TicketNotifyUser and TicketEmailUser,
               \* or for a new ticket the preferences of the members
  telling,     \* how far the sending is, and what it has read
  told,        \* the notifications created and the e-mails handed over
  stayed,      \* history: who was an addressee without a break since the event
  were         \* history: who was an addressee at some time since the event

messageVars == <<event, addressees, telling, told, stayed, were>>

Channels == {"notify", "email"}
Addressed == [Channels -> SUBSET Readers]
NoOne == [c \in Channels |-> {}]
Reporter == "reporter"   \* who writes by a public link and is no user
Events ==
  [of : {"section", "new"}, by : Readers \cup {Reporter}]
    \cup [of : {"assigned"}, by : Readers, to : Readers]

MessagesTypeOK ==
  /\ event \in Events
  /\ addressees \in Addressed
  /\ telling \in [at : {"look", "notify", "lookAgain", "mail", "each", "end", "failed"},
                  saw : Addressed, rest : SUBSET Readers]
  /\ told \in Addressed /\ stayed \in Addressed /\ were \in Addressed

MessagesInit ==
  /\ event \in Events
  /\ addressees \in Addressed
  /\ telling = [at |-> "look", saw |-> NoOne, rest |-> {}]
  /\ told = NoOne
  /\ stayed = addressees /\ were = addressees

\* Wrong variant of Concerned: the author of a section as well.
ConcernedAll(e) == IF e.of = "assigned" THEN {e.to} \ {e.by} ELSE Readers

\* Who an event may be told to: nobody hears of a section of their own, or of
\* a ticket they assigned to themselves.  Whoever creates a ticket is told of it
\* like every other member.
Concerned(e) ==
  CASE e.of = "section" -> Readers \ {e.by}
    [] e.of = "assigned" -> {e.to} \ {e.by}
    [] OTHER -> Readers

Proceed(at) == telling' = [telling EXCEPT !.at = at]
Tells(channel, users) == told' = [told EXCEPT ![channel] = @ \cup users]

-----------------------------------------------------------------------------
(* What changes meanwhile.                                                 *)

ListsBecome(lists) ==
  /\ addressees' = lists
  /\ stayed' = [c \in Channels |-> stayed[c] \cap lists[c]]
  /\ were' = [c \in Channels |-> were[c] \cup lists[c]]
  /\ UNCHANGED <<event, telling, told>>

\* Somebody comes to a list or leaves it, or changes a preference.
ListMoves(u, c) ==
  ListsBecome([addressees EXCEPT ![c] = IF u \in @ THEN @ \ {u} ELSE @ \cup {u}])

\* The ticket is deleted, and its lists with it.
TicketGoes == event.of # "new" /\ ListsBecome(NoOne)

-----------------------------------------------------------------------------
(* The sending.                                                            *)

StillGoing == UNCHANGED <<event, addressees, stayed, were>>

\* getUsersToNotifyForTicket reads both lists at once; an assignment looks for
\* its one row in the first; a new ticket reads the members.
LookAtLists ==
  /\ telling.at = "look"
  /\ telling' = [at |-> IF event.of = "new" THEN "each" ELSE "notify", saw |-> addressees,
                 rest |-> Readers]
  /\ StillGoing /\ UNCHANGED told

\* createMany, for those on the list that the event concerns.
CreateNotifications ==
  /\ telling.at = "notify"
  /\ Tells("notify", telling.saw["notify"] \cap Concerned(event))
  /\ telling' = IF event.of = "assigned" THEN [telling EXCEPT !.at = "lookAgain"]
                ELSE [telling EXCEPT !.at = "mail", !.rest = telling.saw["email"] \cap Concerned(event)]
  /\ StillGoing

\* An assignment looks for its row in the other list only now.
LookAgain ==
  /\ telling.at = "lookAgain"
  /\ telling' = [telling EXCEPT !.at = "mail", !.rest = addressees["email"] \cap Concerned(event)]
  /\ StillGoing /\ UNCHANGED told

SendEmail(u) ==
  /\ telling.at = "mail" /\ u \in telling.rest
  /\ Tells("email", {u})
  /\ telling' = [telling EXCEPT !.rest = @ \ {u}]
  /\ StillGoing

\* One member after the other, each by the preferences read at the start.
TellMember(u) ==
  /\ telling.at = "each" /\ u \in telling.rest
  /\ told' = [c \in Channels |-> told[c] \cup ({u} \cap telling.saw[c])]
  /\ telling' = [telling EXCEPT !.rest = @ \ {u}]
  /\ StillGoing

SendingEnds ==
  /\ telling.at \in {"mail", "each"} /\ telling.rest = {}
  /\ Proceed("end")
  /\ StillGoing /\ UNCHANGED told

\* A statement fails, the process stops, or a new ticket is deleted before it is
\* looked at: what is left is never sent.
SendingFails ==
  /\ telling.at \in {"look", "notify", "lookAgain", "mail", "each"}
  /\ Proceed("failed")
  /\ StillGoing /\ UNCHANGED told

MessagesNext ==
  \/ \E u \in Readers, c \in Channels : ListMoves(u, c)
  \/ TicketGoes
  \/ LookAtLists \/ CreateNotifications \/ LookAgain
  \/ \E u \in Readers : SendEmail(u) \/ TellMember(u)
  \/ SendingEnds \/ SendingFails

MessagesSpec == MessagesInit /\ [][MessagesNext]_messageVars

-----------------------------------------------------------------------------
\* A sending that comes to its end has told everybody it concerns who was an
\* addressee from the event until then, and whoever is told was one at some time
\* since the event.  The author of a section and whoever takes a ticket
\* themselves are left out; the creator of a new ticket is not
\* (sendInternalNotifications, sendTicketAssignedNotification,
\* sendNewTicketNotification).
FollowersTold ==
  \A c \in Channels :
    /\ told[c] \subseteq were[c]
    /\ telling.at = "end" => (stayed[c] \cap Concerned(event)) \subseteq told[c]
    /\ event.of = "section" => event.by \notin told[c]
    /\ event.of = "assigned" => told[c] \subseteq {event.to} \ {event.by}
    /\ event.of = "new" /\ telling.at = "end" => stayed[c] \cap {event.by} \subseteq told[c]
=============================================================================
