--------------------------- MODULE Documentation ---------------------------
(***************************************************************************)
(* The labels of one project and the documentation written under them for  *)
(* the project, its modules and its features (qa.service.ts, the default   *)
(* rows that modules.service.ts and features.service.ts create, and the    *)
(* choice of rows for the tree and the manual in projects.service.ts).     *)
(*                                                                         *)
(* A request makes its reads, and then writes by the ids it has read: each *)
(* of the two is a step.  Requests whose write does what a later request   *)
(* alone would do are one step.  Names, instructions and the order of      *)
(* labels, and the roles that may see and edit them, are left out: whoever *)
(* writes may.  Modules and features are created here and deleted in       *)
(* ContentTree.                                                            *)
(***************************************************************************)
EXTENDS Integers, Sequences

CONSTANTS
  Labels,    \* the labels there may ever be
  Entities,  \* the project, its modules and its features
  Project,   \* the project, as an entity that is documented
  Texts,     \* the contents documentation may be given
  NoText,    \* an empty content, or none
  None,      \* a field that a request leaves out
  Requests,  \* the requests that may be under way at the same time
  MaxRows,   \* bound: rows of one entity and label
  MaxClock   \* bound: writes of members

ASSUME EntitiesAssumption == Project \in Entities
ASSUME TextsAssumption == NoText \notin Texts /\ None \notin Texts \cup {NoText} \cup BOOLEAN
ASSUME BoundsAssumption == MaxRows \in Nat /\ MaxClock \in Nat

VARIABLES
  status,     \* ProjectLabel: not created, live, or with a deletedAt
  byDefault,  \* ProjectLabel.defaultNotApplicable
  entities,   \* the entities that exist
  docs,       \* DocumentationField of an entity and a label, as created
  clock,      \* the time of the last write of a member
  req,        \* what each request does next, and what it has read
  lastText    \* history: the text written last, if nothing else was set since

labelVars == <<status, byDefault>>
vars == <<labelVars, entities, docs, clock, req, lastText>>

Pairs == Entities \X Labels
Live == {l \in Labels : status[l] = "live"}

Row == [text : Texts \cup {NoText}, notApplicable : BOOLEAN, updatedAt : 0..MaxClock]
Idle == [op |-> "idle"]
Optional(S) == S \cup {None}
Pending ==
  {Idle}
    \cup [op : {"update"}, label : Labels, byDefault : Optional(BOOLEAN), was : BOOLEAN]
    \cup [op : {"list"}, label : Labels]
    \cup [op : {"defaults"}, label : Labels, entities : SUBSET Entities]
    \cup [op : {"entity"}, entity : Entities, labels : SUBSET Labels]
    \cup [op : {"write"}, pair : Pairs, row : 0..MaxRows]

TypeOK ==
  /\ status \in [Labels -> {"none", "live", "deleted"}]
  /\ byDefault \in [Labels -> BOOLEAN]
  /\ entities \subseteq Entities
  /\ docs \in [Pairs -> Seq(Row)]
  /\ \A p \in Pairs : Len(docs[p]) <= MaxRows
  /\ clock \in 0..MaxClock
  /\ req \in [Requests -> Pending]
  /\ \A r \in Requests : req[r].op = "write" => req[r].row <= Len(docs[req[r].pair])
  /\ lastText \in [Pairs -> Texts \cup {NoText}]

Init ==
  /\ status = [l \in Labels |-> "none"]
  /\ byDefault = [l \in Labels |-> FALSE]
  /\ entities = {Project}
  /\ docs = [p \in Pairs |-> <<>>]
  /\ clock = 0
  /\ req = [r \in Requests |-> Idle]
  /\ lastText = [p \in Pairs |-> NoText]

Becomes(r, what) == req' = [req EXCEPT ![r] = what]
Starts(r) == req[r] = Idle
Continues(r, op) == req[r].op = op
Given(field, old) == IF field = None THEN old ELSE field

-----------------------------------------------------------------------------
(* Labels.                                                                 *)

\* Default rows follow when a label starts to be not applicable by default.
CreateLabel(r, l) ==
  /\ Starts(r) /\ status[l] = "none"
  /\ status' = [status EXCEPT ![l] = "live"]
  /\ \E na \in BOOLEAN :
       /\ byDefault' = [byDefault EXCEPT ![l] = na]
       /\ Becomes(r, IF na THEN [op |-> "list", label |-> l] ELSE Idle)
  /\ UNCHANGED <<entities, docs, clock, lastText>>

UpdateLabelRead(r, l) ==
  /\ Starts(r) /\ l \in Live
  /\ \E na \in Optional(BOOLEAN) :
       Becomes(r, [op |-> "update", label |-> l, byDefault |-> na, was |-> byDefault[l]])
  /\ UNCHANGED <<labelVars, entities, docs, clock, lastText>>

\* The row is written by its id, deleted meanwhile or not.
UpdateLabel(r) ==
  /\ Continues(r, "update")
  /\ LET l == req[r].label na == req[r].byDefault IN
       /\ byDefault' = [byDefault EXCEPT ![l] = Given(na, @)]
       /\ Becomes(r, IF na = TRUE /\ ~ req[r].was THEN [op |-> "list", label |-> l] ELSE Idle)
  /\ UNCHANGED <<status, entities, docs, clock, lastText>>

DeleteLabel(l) ==
  /\ l \in Live
  /\ status' = [status EXCEPT ![l] = "deleted"]
  /\ UNCHANGED <<byDefault, entities, docs, clock, req, lastText>>

RestoreLabel(l) ==
  /\ status[l] = "deleted"
  /\ status' = [status EXCEPT ![l] = "live"]
  /\ UNCHANGED <<byDefault, entities, docs, clock, req, lastText>>

-----------------------------------------------------------------------------
(* Default rows.  The unique index has a null in every row, so it refuses  *)
(* none and skipDuplicates skips none.                                     *)

\* Their time may be that of the last write of a member, or later.
DefaultRow == [text |-> NoText, notApplicable |-> TRUE, updatedAt |-> clock]

AddDefaults(S) ==
  /\ \A p \in S : Len(docs[p]) < MaxRows
  /\ docs' = [p \in Pairs |-> IF p \in S THEN Append(docs[p], DefaultRow) ELSE docs[p]]

ListEntities(r) ==
  /\ Continues(r, "list")
  /\ Becomes(r, [op |-> "defaults", label |-> req[r].label, entities |-> entities])
  /\ UNCHANGED <<labelVars, entities, docs, clock, lastText>>

CreateDefaults(r) ==
  /\ Continues(r, "defaults")
  /\ AddDefaults(req[r].entities \X {req[r].label})
  /\ Becomes(r, Idle)
  /\ UNCHANGED <<labelVars, entities, clock, lastText>>

\* A module or feature is created in a transaction, which reads the labels,
\* and which nobody else sees before it commits.
CreateEntityRead(r, e) ==
  /\ Starts(r) /\ e \notin entities
  /\ \A s \in Requests : Continues(s, "entity") => req[s].entity # e
  /\ Becomes(r, [op |-> "entity", entity |-> e, labels |-> {l \in Live : byDefault[l]}])
  /\ UNCHANGED <<labelVars, entities, docs, clock, lastText>>

CreateEntity(r) ==
  /\ Continues(r, "entity")
  /\ entities' = entities \cup {req[r].entity}
  /\ AddDefaults({req[r].entity} \X req[r].labels)
  /\ Becomes(r, Idle)
  /\ UNCHANGED <<labelVars, clock, lastText>>

-----------------------------------------------------------------------------
(* Writing documentation.                                                  *)

\* Of the rows of the entity and the label, the query takes any one.
UpsertRead(r, p) ==
  /\ Starts(r) /\ p[1] \in entities /\ p[2] \in Live
  /\ \E i \in IF docs[p] = <<>> THEN {0} ELSE DOMAIN docs[p] :
       Becomes(r, [op |-> "write", pair |-> p, row |-> i])
  /\ UNCHANGED <<labelVars, entities, docs, clock, lastText>>

\* A text on its own makes the label apply.
Updated(row, text, na) ==
  [text |-> Given(text, row.text),
   notApplicable |-> Given(na, IF text = None THEN row.notApplicable ELSE FALSE),
   updatedAt |-> clock + 1]

NewRow == [text |-> NoText, notApplicable |-> FALSE, updatedAt |-> 0]

Upserted(rows, i, text, na) ==
  IF i = 0 THEN Append(rows, Updated(NewRow, text, na))
           ELSE [rows EXCEPT ![i] = Updated(rows[i], text, na)]

UpsertWrite(r, text, na) ==
  /\ Continues(r, "write") /\ clock < MaxClock
  /\ text # None \/ na # None
  /\ LET p == req[r].pair IN
       /\ req[r].row = 0 => Len(docs[p]) < MaxRows
       /\ docs' = [docs EXCEPT ![p] = Upserted(docs[p], req[r].row, text, na)]
       /\ lastText' = [lastText EXCEPT ![p] = IF text \in Texts /\ na # TRUE THEN text ELSE NoText]
  /\ clock' = clock + 1
  /\ Becomes(r, Idle)
  /\ UNCHANGED <<labelVars, entities>>

-----------------------------------------------------------------------------
Next ==
  \/ \E r \in Requests, l \in Labels : CreateLabel(r, l) \/ UpdateLabelRead(r, l)
  \/ \E l \in Labels : DeleteLabel(l) \/ RestoreLabel(l)
  \/ \E r \in Requests, e \in Entities : CreateEntityRead(r, e)
  \/ \E r \in Requests, p \in Pairs : UpsertRead(r, p)
  \/ \E r \in Requests, text \in Optional(Texts \cup {NoText}), na \in Optional(BOOLEAN) :
       UpsertWrite(r, text, na)
  \/ \E r \in Requests :
       UpdateLabel(r) \/ ListEntities(r) \/ CreateDefaults(r) \/ CreateEntity(r)

Spec == Init /\ [][Next]_vars

-----------------------------------------------------------------------------
(* What is shown.                                                          *)

\* Wrong variant of Beats: of two rows, the one created later.
BeatsByCreation(new, old) == TRUE

\* shouldReplaceDocumentationSummary, for a row created after another.
Beats(new, old) ==
  LET written(row) == row.text # NoText IN
  IF written(new) # written(old) THEN written(new)
  ELSE IF new.notApplicable # old.notApplicable THEN old.notApplicable
  ELSE new.updatedAt > old.updatedAt

\* Wrong variant of Shown: the row created last, as listDocumentationEntries.
ShownLast(rows) == Len(rows)

\* addDocumentationSummary, over the rows as they were created.
Shown(rows) ==
  LET best[n \in DOMAIN rows] ==
        IF n = 1 THEN 1
        ELSE IF Beats(rows[n], rows[best[n - 1]]) THEN n ELSE best[n - 1]
  IN  best[Len(rows)]

\* It replaces every row before it and is replaced by none after it.
Best(rows, i) ==
  \A j \in DOMAIN rows \ {i} :
    IF j < i THEN Beats(rows[i], rows[j]) ELSE ~ Beats(rows[j], rows[i])

\* The row that the tree and the manual show is better than all the others,
\* though each of them was compared with one only (addDocumentationSummary).
ShownIsBest == \A p \in Pairs : docs[p] # <<>> => Best(docs[p], Shown(docs[p]))

\* A text that was written, and after which nothing else was set for the
\* entity and label, is in the one row better than the others, however many
\* there are by then and whichever of them the write found.
LastTextShown ==
  \A p \in Pairs : lastText[p] # NoText =>
    \E i \in DOMAIN docs[p] :
      /\ docs[p][i].text = lastText[p]
      /\ \A j \in DOMAIN docs[p] : Best(docs[p], j) <=> j = i

\* @@unique([projectId, entityType, featureId, moduleId, labelId]): one row
\* for each entity and label.
OneRowPerEntityAndLabel == \A p \in Pairs : Len(docs[p]) <= 1
=============================================================================
