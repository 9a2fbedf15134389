---------------------------- MODULE LabelReaders ----------------------------
(***************************************************************************)
(* Which documentation labels somebody is shown: by the structure of a     *)
(* project, which follows the labels the user prefers, by the list of      *)
(* preferences, by the documentation of one entity, and by the manual of a *)
(* share link (projects.service.ts, qa.service.ts).                        *)
(*                                                                         *)
(* Preferences and share links keep ids of labels, as arrays, and the      *)
(* labels change under them: every reader filters the ids it finds again.  *)
(* Every label has documentation, and labels are numbered in the order     *)
(* they are displayed in.  A member may read modules and features; who may *)
(* read the project only (a client) is shown the structure all the same,   *)
(* and refused the entries.                                                *)
(***************************************************************************)
EXTENDS Integers, Sequences, FiniteSets, SequencesExt, Sorting

CONSTANTS
  Viewers,      \* users who read the project
  ViewerRoles,  \* roles that are not the owner's
  MaxShown,     \* bound: labels
  Savers        \* requests that save preferences or create a link

ASSUME ShownAssumption == MaxShown \in Nat

VARIABLES
  gone,        \* labels that are deleted
  onlyFor,     \* ProjectLabelRole: the roles a label is visible to, {} for all
  viewerRole,  \* the role of each user; "none" reads a public project
  preference,  \* UserProjectPreference.documentationLabelIds, <<>> without a row
  manuals,     \* ManualShareLink.labelIds of the links there are
  saving       \* what each request has read

readerVars == <<gone, onlyFor, viewerRole, preference, manuals, saving>>

ShownLabels == 1..MaxShown
ViewedAs == ViewerRoles \cup {"owner", "none"}
IdLists == SetToAllKPermutations(ShownLabels)
NotSaving == [op |-> "idle"]
Saving == [op : {"prefer"}, user : Viewers, ids : IdLists]
            \cup [op : {"link"}, labels : SUBSET ShownLabels]

LabelReadersTypeOK ==
  /\ gone \subseteq ShownLabels
  /\ onlyFor \in [ShownLabels -> SUBSET ViewerRoles]
  /\ viewerRole \in [Viewers -> ViewedAs]
  /\ preference \in [Viewers -> IdLists]
  /\ manuals \subseteq SUBSET ShownLabels
  /\ saving \in [Savers -> Saving \cup {NotSaving}]

LabelReadersInit ==
  /\ gone = {}
  /\ onlyFor = [l \in ShownLabels |-> {}]
  /\ viewerRole \in [Viewers -> ViewedAs]
  /\ preference = [v \in Viewers |-> <<>>]
  /\ manuals = {}
  /\ saving = [s \in Savers |-> NotSaving]

Kept == ShownLabels \ gone

\* canViewDocumentationLabel, and canViewLabel of the QA service.
CanView(role, l) == role = "owner" \/ onlyFor[l] = {} \/ role \in onlyFor[l]

\* filterVisibleLabels
VisibleTo(v) == {l \in Kept : CanView(viewerRole[v], l)}

\* The ids of a list that a reader finds among the labels it has.
Filtered(ids, S) ==
  LET at == SortedBy({n \in DOMAIN ids : ids[n] \in S}, Ascending(DOMAIN ids))
  IN  [n \in DOMAIN at |-> ids[at[n]]]
InOrder(S) == SortedBy(S, Ascending(S))

Saves(s, what) == saving' = [saving EXCEPT ![s] = what]

-----------------------------------------------------------------------------
(* Requests.                                                               *)

\* updateDocumentationLabelPreferences: the ids are checked, then written.
PreferRead(s, v, ids) ==
  /\ saving[s] = NotSaving
  /\ Saves(s, [op |-> "prefer", user |-> v, ids |-> Filtered(ids, VisibleTo(v))])
  /\ UNCHANGED <<gone, onlyFor, viewerRole, preference, manuals>>

PreferWrite(s) ==
  /\ saving[s].op = "prefer"
  /\ preference' = [preference EXCEPT ![saving[s].user] = saving[s].ids]
  /\ Saves(s, NotSaving)
  /\ UNCHANGED <<gone, onlyFor, viewerRole, manuals>>

\* createManualShareLink keeps the labels the project has, hidden ones too.
ManualLinkRead(s, labels) ==
  /\ saving[s] = NotSaving
  /\ Saves(s, [op |-> "link", labels |-> labels \cap Kept])
  /\ UNCHANGED <<gone, onlyFor, viewerRole, preference, manuals>>

ManualLinkCreate(s) ==
  /\ saving[s].op = "link"
  /\ manuals' = manuals \cup {saving[s].labels}
  /\ Saves(s, NotSaving)
  /\ UNCHANGED <<gone, onlyFor, viewerRole, preference>>

RevokeManualLink(labels) ==
  /\ labels \in manuals
  /\ manuals' = manuals \ {labels}
  /\ UNCHANGED <<gone, onlyFor, viewerRole, preference, saving>>

\* Labels are deleted, restored and restricted, and members get other roles.
LabelGoes(l) ==
  /\ l \notin gone /\ gone' = gone \cup {l}
  /\ UNCHANGED <<onlyFor, viewerRole, preference, manuals, saving>>

LabelReturns(l) ==
  /\ l \in gone /\ gone' = gone \ {l}
  /\ UNCHANGED <<onlyFor, viewerRole, preference, manuals, saving>>

LabelRestricted(l, roles) ==
  /\ l \in Kept /\ roles # onlyFor[l]
  /\ onlyFor' = [onlyFor EXCEPT ![l] = roles]
  /\ UNCHANGED <<gone, viewerRole, preference, manuals, saving>>

RoleChanges(v, role) ==
  /\ viewerRole[v] # "owner" /\ role \notin {"owner", viewerRole[v]}
  /\ viewerRole' = [viewerRole EXCEPT ![v] = role]
  /\ UNCHANGED <<gone, onlyFor, preference, manuals, saving>>

LabelReadersNext ==
  \/ \E s \in Savers :
       \/ \E v \in Viewers, ids \in IdLists : PreferRead(s, v, ids)
       \/ \E labels \in SUBSET ShownLabels : ManualLinkRead(s, labels)
       \/ PreferWrite(s) \/ ManualLinkCreate(s)
  \/ \E labels \in manuals : RevokeManualLink(labels)
  \/ \E l \in ShownLabels :
       \/ LabelGoes(l) \/ LabelReturns(l)
       \/ \E roles \in SUBSET ViewerRoles : LabelRestricted(l, roles)
  \/ \E v \in Viewers, role \in ViewedAs : RoleChanges(v, role)

LabelReadersSpec == LabelReadersInit /\ [][LabelReadersNext]_readerVars

-----------------------------------------------------------------------------
(* The readers.                                                            *)

\* listVisibleDocumentationLabelsForUser, and what a user is told to have
\* selected among them (getDocumentationLabelPreferences).
Available(v) == InOrder(VisibleTo(v))
Selected(v) == Filtered(preference[v], VisibleTo(v))

\* Wrong variant of StructureLabels: the saved ids are taken as they are.
StructureAsSaved(v) == preference[v]

\* getStructure: nothing without a preference; the labels preferred, in their
\* order; or all of them when none that is preferred is visible any more.
StructureLabels(v) ==
  LET usable == {l \in VisibleTo(v) : \E n \in DOMAIN preference[v] : preference[v][n] = l}
      place(l) == CHOOSE n \in DOMAIN preference[v] : preference[v][n] = l
  IN  IF preference[v] = <<>> THEN <<>>
      ELSE IF usable = {} THEN Available(v)
      ELSE SortedBy(usable, {p \in usable \X usable : place(p[1]) < place(p[2])})

\* listDocumentationEntries: who is no member is refused.
EntryLabels(v) == IF viewerRole[v] = "none" THEN {} ELSE {l \in Kept : CanView(viewerRole[v], l)}

\* listDocumentationImages, listProjectDocumentationImages: the one label asked
\* for, unless it is gone or hidden, or all there are.
ImageLabels(v, asked) == IF asked = {} THEN EntryLabels(v) ELSE EntryLabels(v) \cap asked

\* buildManualForViewer: of the labels of the link, and of those asked for.
ManualLabels(labels, asked) == {l \in Kept : l \in labels /\ (asked = {} \/ l \in asked)}

\* getSharedManualImages: one label of the link, or all of them, deleted or not.
ManualImageLabels(labels, asked) == IF asked = {} THEN labels ELSE labels \cap asked

-----------------------------------------------------------------------------
\* Whatever preferences and links have kept of labels that were deleted, restored
\* or hidden since, the structure shows a user the labels the list of preferences
\* says are selected, in that order, and never one the user may not see; a member
\* can open what it shows, entries and images; and a manual shows no deleted label
\* and nothing of which its images are kept back (getStructure,
\* getDocumentationLabelPreferences, listDocumentationImages, buildManualForViewer).
LabelReadersAgree ==
  /\ \A v \in Viewers :
       LET shown == StructureLabels(v)
       IN  /\ Selected(v) # <<>> => shown = Selected(v)
           /\ ToSet(shown) \subseteq VisibleTo(v)
           /\ viewerRole[v] # "none" =>
                \A l \in ToSet(shown) : l \in EntryLabels(v) /\ ImageLabels(v, {l}) = {l}
  /\ \A labels \in manuals, asked \in SUBSET ShownLabels :
       /\ ManualLabels(labels, asked) \cap gone = {}
       /\ ManualLabels(labels, asked) \subseteq ManualImageLabels(labels, asked)
=============================================================================
