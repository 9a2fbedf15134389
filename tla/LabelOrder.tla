----------------------------- MODULE LabelOrder -----------------------------
(***************************************************************************)
(* The order of the documentation labels of one project (qa.service.ts).   *)
(*                                                                         *)
(* Creating and reordering read the labels first and write afterwards, in  *)
(* another step.  Labels are numbered in the order of createdAt.           *)
(***************************************************************************)
EXTENDS Integers, FiniteSets, SequencesExt, Sorting

CONSTANTS
  Editors,     \* requests under way
  MaxLabels    \* bound: labels ever created

ASSUME MaxLabelsAssumption == MaxLabels \in Nat

VARIABLES
  label,     \* ProjectLabel: none, live or deleted
  place,     \* ProjectLabel.displayOrder
  edit,      \* what each request does next
  outdated   \* history: requests whose list was changed, by others, since they read it

labelVars == <<label, place, edit, outdated>>

AllLabels == 1..MaxLabels

Unbusy == [op |-> "idle"]
Plans == UNION {{s \in [1..n -> AllLabels] : IsInjective(s)} : n \in 0..MaxLabels}
Edit == {Unbusy} \cup [op : {"create"}, place : 1..MaxLabels]
        \cup [op : {"reorder"}, plan : Plans, id : AllLabels, index : 0..MaxLabels]

\* An order is at most one above the others, and an index is below their number.
LabelTypeOK ==
  /\ label \in [AllLabels -> {"none", "live", "deleted"}]
  /\ place \in [AllLabels -> 0..MaxLabels]
  /\ edit \in [Editors -> Edit]
  /\ outdated \subseteq Editors

LabelInit ==
  /\ label = [l \in AllLabels |-> "none"]
  /\ place = [l \in AllLabels |-> 0]
  /\ edit = [e \in Editors |-> Unbusy]
  /\ outdated = {}

LiveLabels == {l \in AllLabels : label[l] = "live"}

\* orderBy displayOrder, createdAt.
Precedes(a, b) == place[a] < place[b] \/ (place[a] = place[b] /\ a < b)
Listing == SortedBy(LiveLabels, {p \in LiveLabels \X LiveLabels : Precedes(p[1], p[2])})

\* findIndex, from 1 on.
IndexIn(s, l) == CHOOSE n \in DOMAIN s : s[n] = l
Without(s, l) == RemoveAt(s, IndexIn(s, l))

Edits(e, what) == edit' = [edit EXCEPT ![e] = what]

\* The list changes: whoever has read it holds an old one.
ListChanged == outdated' = {e \in Editors : edit'[e].op = "reorder"}

-----------------------------------------------------------------------------
\* One above the last live label; the first one gets 1.
CreateLabelRead(e) ==
  /\ edit[e] = Unbusy
  /\ \E l \in AllLabels : label[l] = "none"
  /\ Edits(e, [op |-> "create", place |->
       IF LiveLabels = {} THEN 1 ELSE place[Last(Listing)] + 1])
  /\ UNCHANGED <<label, place, outdated>>

CreateLabelCommit(e) ==
  /\ edit[e].op = "create"
  /\ \E l \in AllLabels :
       /\ label[l] = "none" /\ \A k \in 1..(l - 1) : label[k] # "none"
       /\ label' = [label EXCEPT ![l] = "live"]
       /\ place' = [place EXCEPT ![l] = edit[e].place]
  /\ Edits(e, Unbusy) /\ ListChanged

DeleteProjectLabel(l) ==
  /\ label[l] = "live"
  /\ label' = [label EXCEPT ![l] = "deleted"]
  /\ UNCHANGED <<place, edit>> /\ ListChanged

\* The label comes back with the order it had.
RestoreProjectLabel(l) ==
  /\ label[l] = "deleted"
  /\ label' = [label EXCEPT ![l] = "live"]
  /\ UNCHANGED <<place, edit>> /\ ListChanged

\* Wrong variant of Spliced: the index counts the label that was taken out.
SplicedBefore(s, l, i) ==
  InsertAt(Without(s, l), IF i + 1 > IndexIn(s, l) THEN i ELSE i + 1, l)

\* The label is taken out of the list and put back at the index.
Spliced(s, l, i) == InsertAt(Without(s, l), i + 1, l)

ReorderRead(e, l, newIndex) ==
  /\ edit[e] = Unbusy /\ l \in LiveLabels
  /\ LET last == Cardinality(LiveLabels) - 1
         i == IF newIndex < last THEN newIndex ELSE last   \* clampedIndex
     IN  Edits(e, [op |-> "reorder", plan |-> Spliced(Listing, l, i), id |-> l, index |-> i])
  /\ UNCHANGED <<label, place, outdated>>

\* Every label that was read gets its index, deleted meanwhile or not.
ReorderCommit(e) ==
  /\ edit[e].op = "reorder"
  /\ LET s == edit[e].plan IN
       place' = [l \in AllLabels |->
         IF l \in ToSet(s) THEN IndexIn(s, l) - 1 ELSE place[l]]
  /\ Edits(e, Unbusy) /\ ListChanged
  /\ UNCHANGED label

LabelNext ==
  \/ \E e \in Editors :
       \/ CreateLabelRead(e) \/ CreateLabelCommit(e) \/ ReorderCommit(e)
       \/ \E l \in AllLabels, i \in 0..MaxLabels : ReorderRead(e, l, i)
  \/ \E l \in AllLabels : DeleteProjectLabel(l) \/ RestoreProjectLabel(l)

LabelSpec == LabelInit /\ [][LabelNext]_labelVars

-----------------------------------------------------------------------------
\* A reordering whose list nobody changed since it was read puts the label at
\* the index that was asked for, or at the end, and leaves the other labels in
\* the order they had, although orders may have had gaps and duplicates
\* (reorderProjectLabel).
ReorderMovesOne ==
  [][\A e \in Editors \ outdated :
       edit[e].op = "reorder" /\ edit'[e] = Unbusy =>
         /\ Listing'[edit[e].index + 1] = edit[e].id
         /\ Without(Listing', edit[e].id) = Without(Listing, edit[e].id)]_labelVars
=============================================================================
