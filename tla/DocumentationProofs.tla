------------------------ MODULE DocumentationProofs ------------------------
(* What holds of documentation however many labels, entities, rows and     *)
(* requests there are: the types, that the text written last is in the one *)
(* row preferred to all the others, and that this is the row the tree and  *)
(* the manual find.                                                        *)
EXTENDS MCTexts, SequenceTheorems, WellFoundedInduction, TLAPS

\* A request under way holds what it needs for its next statement.
PendingTyped ==
  \A r \in Requests :
    /\ req[r].op = "update" => /\ req[r].label \in Labels
                               /\ req[r].byDefault \in Optional(BOOLEAN)
    /\ req[r].op \in {"list", "defaults"} => req[r].label \in Labels
    /\ req[r].op = "defaults" => req[r].entities \subseteq Entities
    /\ req[r].op = "entity" => req[r].entity \in Entities /\ req[r].labels \subseteq Labels
    /\ req[r].op = "write" => /\ req[r].pair \in Pairs
                              /\ req[r].row \in 0..Len(docs[req[r].pair])

\* No row is from a time to come.
RowsPast == \A p \in Pairs : \A i \in DOMAIN docs[p] : docs[p][i].updatedAt <= clock

\* Row i has the text t, applies, and no row with a text is as late.
Leads(rows, i, t) ==
  /\ rows[i].text = t /\ ~ rows[i].notApplicable
  /\ \A j \in DOMAIN rows \ {i} : rows[j].text = NoText \/ rows[j].updatedAt < rows[i].updatedAt

LastTextLeads ==
  \A p \in Pairs : lastText[p] # NoText =>
    \E i \in DOMAIN docs[p] : Leads(docs[p], i, lastText[p])

IInv == TypeOK /\ RowsPast /\ LastTextLeads

-----------------------------------------------------------------------------
\* What the union of the kinds of requests says of each kind.
LEMMA PendingIsTyped == ASSUME TypeOK PROVE PendingTyped
<1> SUFFICES ASSUME NEW r \in Requests
             PROVE  /\ req[r].op = "update" => /\ req[r].label \in Labels
                                               /\ req[r].byDefault \in Optional(BOOLEAN)
                    /\ req[r].op \in {"list", "defaults"} => req[r].label \in Labels
                    /\ req[r].op = "defaults" => req[r].entities \subseteq Entities
                    /\ req[r].op = "entity" => req[r].entity \in Entities /\ req[r].labels \subseteq Labels
                    /\ req[r].op = "write" => /\ req[r].pair \in Pairs
                                              /\ req[r].row \in 0..Len(docs[req[r].pair])
  BY DEF PendingTyped
<1>1. req[r] \in Pending
  BY DEF TypeOK
<1>2. req[r].op = "write" => req[r].row <= Len(docs[req[r].pair])
  BY DEF TypeOK
<1>3. \A p \in Pairs : docs[p] \in Seq(Row)
  BY DEF TypeOK
<1> QED
  BY <1>1, <1>2, <1>3, LenProperties, BoundsAssumption DEF Pending, Idle

\* A row of a member's write has the next time.
LEMMA UpdatedType ==
  ASSUME NEW row \in [text : Texts \cup {NoText}, notApplicable : BOOLEAN, updatedAt : Nat],
         NEW text \in Optional(Texts \cup {NoText}), NEW na \in Optional(BOOLEAN),
         clock \in 0..MaxClock, clock < MaxClock
  PROVE  Updated(row, text, na) \in Row
<1>1. Given(text, row.text) \in Texts \cup {NoText}
  BY DEF Given, Optional
<1>2. Given(na, IF text = None THEN row.notApplicable ELSE FALSE) \in BOOLEAN
  BY DEF Given, Optional
<1>3. clock + 1 \in 0..MaxClock
  BY BoundsAssumption
<1> QED
  BY <1>1, <1>2, <1>3 DEF Updated, Row

\* The row a write adds or changes.
Target(rows, i) == IF i = 0 THEN Len(rows) + 1 ELSE i

\* The row a write starts from.
Source(rows, i) == IF i = 0 THEN NewRow ELSE rows[i]

\* A write adds a row, or changes the one it found; the others stay.
LEMMA UpsertedRows ==
  ASSUME NEW rows \in Seq(Row), NEW i \in 0..Len(rows),
         NEW text \in Optional(Texts \cup {NoText}), NEW na \in Optional(BOOLEAN),
         clock \in 0..MaxClock, clock < MaxClock
  PROVE  /\ Upserted(rows, i, text, na) \in Seq(Row)
         /\ Len(Upserted(rows, i, text, na)) = IF i = 0 THEN Len(rows) + 1 ELSE Len(rows)
         /\ Target(rows, i) \in 1..Len(Upserted(rows, i, text, na))
         /\ Upserted(rows, i, text, na)[Target(rows, i)] = Updated(Source(rows, i), text, na)
         /\ \A j \in 1..Len(Upserted(rows, i, text, na)) : j # Target(rows, i) =>
              j \in 1..Len(rows) /\ Upserted(rows, i, text, na)[j] = rows[j]
<1> DEFINE new == Upserted(rows, i, text, na)
<1>1. CASE i = 0
  <2> DEFINE added == Updated(NewRow, text, na)
  <2>1. added \in Row
    BY UpdatedType DEF NewRow
  <2>2. new = Append(rows, added)
    BY <1>1 DEF Upserted
  <2> HIDE DEF added, new
  <2>3. /\ new \in Seq(Row) /\ Len(new) = Len(rows) + 1
        /\ \A j \in 1..Len(rows) : new[j] = rows[j]
        /\ new[Len(rows) + 1] = added
    BY <2>1, <2>2, AppendProperties
  <2>4. Len(rows) \in Nat
    BY LenProperties
  <2>5. Target(rows, i) = Len(rows) + 1
    BY <1>1 DEF Target
  <2>6. new[Target(rows, i)] = Updated(Source(rows, i), text, na)
    BY <1>1, <2>3, <2>5 DEF added, Source
  <2>7. \A j \in 1..Len(new) : j # Target(rows, i) => j \in 1..Len(rows) /\ new[j] = rows[j]
    BY <2>3, <2>4, <2>5
  <2> QED
    BY <1>1, <2>3, <2>4, <2>5, <2>6, <2>7 DEF new
<1>2. CASE i # 0
  <2> DEFINE changed == Updated(rows[i], text, na)
  <2>1. i \in 1..Len(rows) /\ Len(rows) \in Nat
    BY <1>2, LenProperties
  <2>2. rows[i] \in Row
    BY <2>1, ElementOfSeq
  <2>3. changed \in Row
    <3>1. rows[i] \in [text : Texts \cup {NoText}, notApplicable : BOOLEAN, updatedAt : Nat]
      BY <2>2 DEF Row
    <3> QED
      BY <3>1, UpdatedType
  <2>4. new = [rows EXCEPT ![i] = changed]
    BY <1>2 DEF Upserted
  <2> HIDE DEF changed, new
  <2>5. /\ new \in Seq(Row) /\ Len(new) = Len(rows)
        /\ \A j \in 1..Len(rows) : new[j] = IF j = i THEN changed ELSE rows[j]
    BY <2>1, <2>3, <2>4, ExceptSeq
  <2>6. Target(rows, i) = i
    BY <1>2 DEF Target
  <2>7. new[Target(rows, i)] = Updated(Source(rows, i), text, na)
    BY <1>2, <2>1, <2>5, <2>6 DEF changed, Source
  <2> QED
    BY <1>2, <2>1, <2>5, <2>6, <2>7 DEF new
<1> QED
  BY <1>1, <1>2

\* The same of a default row.
LEMMA DefaultRows ==
  ASSUME NEW S \in SUBSET Pairs, AddDefaults(S), docs \in [Pairs -> Seq(Row)],
         clock \in 0..MaxClock, NEW p \in Pairs
  PROVE  /\ docs'[p] \in Seq(Row)
         /\ Len(docs'[p]) = IF p \in S THEN Len(docs[p]) + 1 ELSE Len(docs[p])
         /\ p \in S => Len(docs[p]) < MaxRows
         /\ p \notin S => docs'[p] = docs[p]
         /\ \A j \in 1..Len(docs[p]) : docs'[p][j] = docs[p][j]
         /\ \A j \in 1..Len(docs'[p]) \ 1..Len(docs[p]) : docs'[p][j] = DefaultRow
<1>1. DefaultRow \in Row
  BY DEF DefaultRow, Row
<1>2. docs[p] \in Seq(Row) /\ Len(docs[p]) \in Nat
  BY LenProperties
<1>3. docs'[p] = IF p \in S THEN Append(docs[p], DefaultRow) ELSE docs[p]
  BY DEF AddDefaults
<1>4. CASE p \in S
  <2>1. docs'[p] = Append(docs[p], DefaultRow) /\ Len(docs[p]) < MaxRows
    BY <1>3, <1>4 DEF AddDefaults
  <2> QED
    BY <1>1, <1>2, <1>4, <2>1, AppendProperties
<1>5. CASE p \notin S
  BY <1>2, <1>3, <1>5
<1> QED
  BY <1>4, <1>5

\* A request goes on to something of the right kind.
LEMMA BecomesTyped ==
  ASSUME TypeOK, NEW r \in Requests, NEW w \in Pending, Becomes(r, w)
  PROVE  req' \in [Requests -> Pending]
BY DEF Becomes, TypeOK

\* Rows are never taken away, so the row a request has found stays there.
LEMMA FoundStays ==
  ASSUME TypeOK, NEW r \in Requests, NEW w \in Pending, Becomes(r, w),
         w.op # "write", \A p \in Pairs : Len(docs'[p]) \in Nat /\ Len(docs[p]) <= Len(docs'[p])
  PROVE  \A q \in Requests : req'[q].op = "write" => req'[q].row <= Len(docs'[req'[q].pair])
<1> SUFFICES ASSUME NEW q \in Requests, req'[q].op = "write"
             PROVE  req'[q].row <= Len(docs'[req'[q].pair])
  OBVIOUS
<1>1. q # r /\ req'[q] = req[q]
  BY DEF Becomes, TypeOK
<1>2. req[q].pair \in Pairs /\ req[q].row \in 0..Len(docs[req[q].pair])
  BY <1>1, PendingIsTyped DEF PendingTyped
<1>3. Len(docs[req[q].pair]) \in Nat
  BY <1>2, LenProperties DEF TypeOK
<1> QED
  BY <1>1, <1>2, <1>3

\* A project starts with values of the right types.
LEMMA InitTyped == ASSUME Init PROVE TypeOK
<1> USE DEF Init
<1>1. req \in [Requests -> Pending] /\ \A r \in Requests : req[r].op # "write"
  BY DEF Pending, Idle
<1>2. docs \in [Pairs -> Seq(Row)] /\ \A p \in Pairs : Len(docs[p]) <= MaxRows
  BY BoundsAssumption, EmptySeq
<1>3. clock \in 0..MaxClock /\ entities \subseteq Entities
  BY BoundsAssumption, EntitiesAssumption
<1> QED
  BY <1>1, <1>2, <1>3 DEF TypeOK

\* Default rows keep the types, whoever creates them.
LEMMA DefaultsTyped ==
  ASSUME TypeOK, NEW S \in SUBSET Pairs, AddDefaults(S), NEW r \in Requests, Becomes(r, Idle)
  PROVE  /\ docs' \in [Pairs -> Seq(Row)]
         /\ \A p \in Pairs : Len(docs'[p]) <= MaxRows
         /\ req' \in [Requests -> Pending]
         /\ \A q \in Requests : req'[q].op = "write" => req'[q].row <= Len(docs'[req'[q].pair])
<1> USE DEF TypeOK
<1>1. \A p \in Pairs : Len(docs[p]) \in Nat
  BY LenProperties
<1>2. \A p \in Pairs :
                      /\ docs'[p] \in Seq(Row)
                      /\ Len(docs'[p]) = IF p \in S THEN Len(docs[p]) + 1 ELSE Len(docs[p])
                      /\ p \in S => Len(docs[p]) < MaxRows
                      /\ p \notin S => docs'[p] = docs[p]
  BY DefaultRows
<1>3. docs' \in [Pairs -> Seq(Row)]
  BY <1>2 DEF AddDefaults
<1>4. \A p \in Pairs : Len(docs'[p]) <= MaxRows
  BY <1>1, <1>2, BoundsAssumption
<1>5. Idle \in Pending /\ Idle.op # "write"
  BY DEF Pending, Idle
<1>6. ASSUME NEW p \in Pairs PROVE Len(docs'[p]) \in Nat /\ Len(docs[p]) <= Len(docs'[p])
  <2>1. CASE p \in S
    BY <1>1, <1>2, <2>1
  <2>2. CASE p \notin S
    BY <1>1, <1>2, <2>2
  <2> QED
    BY <2>1, <2>2
<1>7. req' \in [Requests -> Pending]
  BY <1>5, BecomesTyped
<1>8. \A q \in Requests : req'[q].op = "write" => req'[q].row <= Len(docs'[req'[q].pair])
  BY <1>5, <1>6, FoundStays
<1> QED
  BY <1>3, <1>4, <1>7, <1>8

\* What a step does to a request and leaves of the documentation.
LEMMA RequestTyped ==
  ASSUME TypeOK, NEW r \in Requests, NEW w \in Pending, Becomes(r, w), docs' = docs,
         w.op = "write" => w.row <= Len(docs[w.pair])
  PROVE  /\ req' \in [Requests -> Pending]
         /\ \A q \in Requests : req'[q].op = "write" => req'[q].row <= Len(docs'[req'[q].pair])
<1>1. req' \in [Requests -> Pending]
  BY BecomesTyped
<1>2. \A q \in Requests : req'[q] = IF q = r THEN w ELSE req[q]
  BY DEF Becomes, TypeOK
<1> QED
  BY <1>1, <1>2 DEF TypeOK

\* Every step keeps the types.
LEMMA TypeOKInductive == ASSUME TypeOK, [Next]_vars PROVE TypeOK'
<1> USE DEF TypeOK
<1>p. PendingTyped
  BY PendingIsTyped
<1>i. Idle \in Pending /\ Idle.op # "write"
  BY DEF Pending, Idle
<1>l. \A l \in Labels : [op |-> "list", label |-> l] \in Pending
  BY DEF Pending
<1>1. ASSUME NEW r \in Requests, NEW l \in Labels, CreateLabel(r, l) PROVE TypeOK'
  <2>1. PICK na \in BOOLEAN :
          /\ byDefault' = [byDefault EXCEPT ![l] = na]
          /\ Becomes(r, IF na THEN [op |-> "list", label |-> l] ELSE Idle)
    BY <1>1 DEF CreateLabel
  <2> DEFINE w == IF na THEN [op |-> "list", label |-> l] ELSE Idle
  <2>2. w \in Pending /\ w.op # "write"
    BY <1>i, <1>l
  <2>3. docs' = docs
    BY <1>1 DEF CreateLabel
  <2> HIDE DEF w
  <2>4. Becomes(r, w)
    BY <2>1 DEF w
  <2>5. /\ req' \in [Requests -> Pending]
        /\ \A q \in Requests : req'[q].op = "write" => req'[q].row <= Len(docs'[req'[q].pair])
    BY <2>2, <2>3, <2>4, RequestTyped
  <2> QED
    BY <1>1, <2>1, <2>5 DEF CreateLabel
<1>2. ASSUME NEW r \in Requests, NEW l \in Labels, UpdateLabelRead(r, l) PROVE TypeOK'
  <2>1. PICK na \in Optional(BOOLEAN) :
          Becomes(r, [op |-> "update", label |-> l, byDefault |-> na, was |-> byDefault[l]])
    BY <1>2 DEF UpdateLabelRead
  <2> DEFINE w == [op |-> "update", label |-> l, byDefault |-> na, was |-> byDefault[l]]
  <2>2. w \in Pending /\ w.op # "write"
    BY DEF Pending
  <2>3. docs' = docs
    BY <1>2 DEF UpdateLabelRead
  <2> HIDE DEF w
  <2>4. Becomes(r, w)
    BY <2>1 DEF w
  <2>5. /\ req' \in [Requests -> Pending]
        /\ \A q \in Requests : req'[q].op = "write" => req'[q].row <= Len(docs'[req'[q].pair])
    BY <2>2, <2>3, <2>4, RequestTyped
  <2> QED
    BY <1>2, <2>5 DEF UpdateLabelRead, labelVars
<1>3. ASSUME NEW r \in Requests, UpdateLabel(r) PROVE TypeOK'
  <2> DEFINE l == req[r].label
             na == req[r].byDefault
             w == IF na = TRUE /\ ~ req[r].was THEN [op |-> "list", label |-> l] ELSE Idle
  <2>1. l \in Labels /\ na \in Optional(BOOLEAN)
    BY <1>3, <1>p DEF UpdateLabel, Continues, PendingTyped
  <2>2. w \in Pending /\ w.op # "write"
    BY <2>1, <1>i, <1>l
  <2>3. docs' = docs /\ byDefault' = [byDefault EXCEPT ![l] = Given(na, @)] /\ Becomes(r, w)
    BY <1>3 DEF UpdateLabel
  <2>4. byDefault' \in [Labels -> BOOLEAN]
    BY <2>1, <2>3 DEF Given, Optional
  <2> HIDE DEF w, l, na
  <2>5. /\ req' \in [Requests -> Pending]
        /\ \A q \in Requests : req'[q].op = "write" => req'[q].row <= Len(docs'[req'[q].pair])
    BY <2>2, <2>3, RequestTyped
  <2> QED
    BY <1>3, <2>4, <2>5 DEF UpdateLabel
<1>4. ASSUME NEW l \in Labels, DeleteLabel(l) \/ RestoreLabel(l) PROVE TypeOK'
  BY <1>4 DEF DeleteLabel, RestoreLabel
<1>5. ASSUME NEW r \in Requests, NEW e \in Entities, CreateEntityRead(r, e) PROVE TypeOK'
  <2> DEFINE w == [op |-> "entity", entity |-> e, labels |-> {l \in Live : byDefault[l]}]
  <2>1. w \in Pending /\ w.op # "write"
    BY DEF Pending, Live
  <2>2. docs' = docs /\ Becomes(r, w)
    BY <1>5 DEF CreateEntityRead
  <2> HIDE DEF w
  <2>3. /\ req' \in [Requests -> Pending]
        /\ \A q \in Requests : req'[q].op = "write" => req'[q].row <= Len(docs'[req'[q].pair])
    BY <2>1, <2>2, RequestTyped
  <2> QED
    BY <1>5, <2>3 DEF CreateEntityRead, labelVars
<1>6. ASSUME NEW r \in Requests, NEW p \in Pairs, UpsertRead(r, p) PROVE TypeOK'
  <2>1. PICK i \in IF docs[p] = <<>> THEN {0} ELSE DOMAIN docs[p] :
          Becomes(r, [op |-> "write", pair |-> p, row |-> i])
    BY <1>6 DEF UpsertRead
  <2> DEFINE w == [op |-> "write", pair |-> p, row |-> i]
  <2>2. Len(docs[p]) \in Nat /\ DOMAIN docs[p] = 1..Len(docs[p]) /\ Len(docs[p]) <= MaxRows
    BY LenProperties
  <2>3. i \in 0..Len(docs[p])
    BY <2>1, <2>2
  <2>4. w \in Pending /\ w.row <= Len(docs[w.pair])
    BY <2>2, <2>3, BoundsAssumption DEF Pending
  <2>5. docs' = docs /\ Becomes(r, w)
    BY <1>6, <2>1 DEF UpsertRead
  <2> HIDE DEF w
  <2>6. /\ req' \in [Requests -> Pending]
        /\ \A q \in Requests : req'[q].op = "write" => req'[q].row <= Len(docs'[req'[q].pair])
    BY <2>4, <2>5, RequestTyped
  <2> QED
    BY <1>6, <2>6 DEF UpsertRead, labelVars
<1>7. ASSUME NEW r \in Requests, NEW text \in Optional(Texts \cup {NoText}),
             NEW na \in Optional(BOOLEAN), UpsertWrite(r, text, na)
      PROVE TypeOK'
  <2> DEFINE p == req[r].pair
             i == req[r].row
             new == Upserted(docs[p], i, text, na)
  <2>1. p \in Pairs /\ i \in 0..Len(docs[p])
    BY <1>7, <1>p DEF UpsertWrite, Continues, PendingTyped
  <2>2. /\ clock < MaxClock /\ clock' = clock + 1 /\ Becomes(r, Idle)
        /\ i = 0 => Len(docs[p]) < MaxRows
        /\ docs' = [docs EXCEPT ![p] = new]
        /\ lastText' = [lastText EXCEPT ![p] = IF text \in Texts /\ na # TRUE THEN text ELSE NoText]
    BY <1>7 DEF UpsertWrite
  <2>3. docs[p] \in Seq(Row) /\ \A q \in Pairs : Len(docs[q]) \in Nat
    BY <2>1, LenProperties
  <2> HIDE DEF p, i, new
  <2>4. new \in Seq(Row) /\ Len(new) = IF i = 0 THEN Len(docs[p]) + 1 ELSE Len(docs[p])
    BY <2>1, <2>2, <2>3, UpsertedRows DEF new
  <2>5. docs' \in [Pairs -> Seq(Row)]
    BY <2>2, <2>4
  <2>6. \A q \in Pairs : docs'[q] = IF q = p THEN new ELSE docs[q]
    BY <2>2
  <2>7. \A q \in Pairs :
                        /\ Len(docs'[q]) \in Nat /\ Len(docs'[q]) <= MaxRows
                        /\ Len(docs[q]) <= Len(docs'[q])
    BY <2>1, <2>2, <2>3, <2>4, <2>6, BoundsAssumption
  <2>8. clock' \in 0..MaxClock
    BY <2>2, BoundsAssumption
  <2>9. req' \in [Requests -> Pending]
    BY <2>2, <1>i, BecomesTyped
  <2>10. \A q \in Requests : req'[q].op = "write" => req'[q].row <= Len(docs'[req'[q].pair])
    BY <2>2, <2>7, <1>i, FoundStays
  <2>11. lastText' \in [Pairs -> Texts \cup {NoText}]
    BY <2>1, <2>2
  <2> QED
    BY <1>7, <2>5, <2>7, <2>8, <2>9, <2>10, <2>11 DEF UpsertWrite, labelVars
<1>8. ASSUME NEW r \in Requests, ListEntities(r) PROVE TypeOK'
  <2> DEFINE w == [op |-> "defaults", label |-> req[r].label, entities |-> entities]
  <2>1. w \in Pending /\ w.op # "write"
    BY <1>8, <1>p DEF ListEntities, Continues, PendingTyped, Pending
  <2>2. docs' = docs /\ Becomes(r, w)
    BY <1>8 DEF ListEntities
  <2> HIDE DEF w
  <2>3. /\ req' \in [Requests -> Pending]
        /\ \A q \in Requests : req'[q].op = "write" => req'[q].row <= Len(docs'[req'[q].pair])
    BY <2>1, <2>2, RequestTyped
  <2> QED
    BY <1>8, <2>3 DEF ListEntities, labelVars
<1>9. ASSUME NEW r \in Requests, CreateDefaults(r) PROVE TypeOK'
  <2>1. req[r].entities \X {req[r].label} \in SUBSET Pairs
    BY <1>9, <1>p DEF CreateDefaults, Continues, PendingTyped, Pairs
  <2>2. AddDefaults(req[r].entities \X {req[r].label}) /\ Becomes(r, Idle)
    BY <1>9 DEF CreateDefaults
  <2> QED
    BY <1>9, <2>1, <2>2, DefaultsTyped DEF CreateDefaults, labelVars
<1>10. ASSUME NEW r \in Requests, CreateEntity(r) PROVE TypeOK'
  <2>1. /\ {req[r].entity} \X req[r].labels \in SUBSET Pairs
        /\ entities' \subseteq Entities
    BY <1>10, <1>p DEF CreateEntity, Continues, PendingTyped, Pairs
  <2>2. AddDefaults({req[r].entity} \X req[r].labels) /\ Becomes(r, Idle)
    BY <1>10 DEF CreateEntity
  <2> QED
    BY <1>10, <2>1, <2>2, DefaultsTyped DEF CreateEntity, labelVars
<1>11. CASE UNCHANGED vars
  BY <1>11 DEF vars, labelVars
<1> QED
  BY <1>1, <1>2, <1>3, <1>4, <1>5, <1>6, <1>7, <1>8, <1>9, <1>10, <1>11 DEF Next

\* Every reachable state is type correct, and no request holds a row that is
\* not there.
THEOREM TypeCorrect == Spec => []TypeOK
<1>1. Init => TypeOK
  BY InitTyped
<1>2. TypeOK /\ [Next]_vars => TypeOK'
  BY TypeOKInductive
<1> QED
  BY <1>1, <1>2, PTL DEF Spec

-----------------------------------------------------------------------------
(* What is shown.                                                          *)

\* The row that leads is better than the others, and no other one is.
LEMMA LeaderIsBest ==
  ASSUME NEW rows \in Seq(Row), NEW i \in DOMAIN rows, NEW t \in Texts, Leads(rows, i, t),
         NEW j \in DOMAIN rows
  PROVE  Best(rows, j) <=> j = i
<1>1. DOMAIN rows \subseteq Nat /\ \A k \in DOMAIN rows : rows[k] \in Row
  BY LenProperties, ElementOfSeq
<1>2. rows[i].text # NoText /\ rows[i].notApplicable = FALSE
  BY <1>1, TextsAssumption DEF Leads, Row
<1>3. ASSUME NEW k \in DOMAIN rows, k # i
      PROVE  Beats(rows[i], rows[k]) /\ ~ Beats(rows[k], rows[i])
  <2>1. rows[k].text = NoText \/ rows[k].updatedAt < rows[i].updatedAt
    BY <1>3 DEF Leads
  <2>2. /\ rows[k].notApplicable \in BOOLEAN /\ rows[i].notApplicable \in BOOLEAN
        /\ rows[k].updatedAt \in Int /\ rows[i].updatedAt \in Int
    BY <1>1 DEF Row
  <2> QED
    BY <1>2, <2>1, <2>2 DEF Beats
<1>4. Best(rows, i)
  BY <1>1, <1>3 DEF Best
<1>5. ASSUME j # i PROVE ~ Best(rows, j)
  BY <1>1, <1>3, <1>5 DEF Best
<1> QED
  BY <1>4, <1>5

\* What leads goes on leading when rows without a text are added.
LEMMA StillLeads ==
  ASSUME NEW rows \in Seq(Row), NEW more \in Seq(Row), NEW i \in DOMAIN rows, NEW t,
         Leads(rows, i, t), Len(rows) <= Len(more),
         \A j \in 1..Len(rows) : more[j] = rows[j],
         \A j \in 1..Len(more) \ 1..Len(rows) : more[j].text = NoText
  PROVE  i \in DOMAIN more /\ Leads(more, i, t)
<1>1. DOMAIN rows = 1..Len(rows) /\ DOMAIN more = 1..Len(more) /\ {Len(rows), Len(more)} \subseteq Nat
  BY LenProperties
<1> QED
  BY <1>1 DEF Leads

\* Default rows change neither what leads nor that rows are of the past.
LEMMA DefaultsKeep ==
  ASSUME IInv, NEW S \in SUBSET Pairs, AddDefaults(S), UNCHANGED <<clock, lastText>>
  PROVE  RowsPast' /\ LastTextLeads'
<1>t. docs \in [Pairs -> Seq(Row)] /\ clock \in 0..MaxClock
  BY DEF IInv, TypeOK
<1>1. ASSUME NEW p \in Pairs
      PROVE  /\ docs[p] \in Seq(Row) /\ docs'[p] \in Seq(Row)
             /\ Len(docs[p]) \in Nat /\ Len(docs'[p]) \in Nat /\ Len(docs[p]) <= Len(docs'[p])
             /\ DOMAIN docs[p] = 1..Len(docs[p]) /\ DOMAIN docs'[p] = 1..Len(docs'[p])
             /\ \A j \in 1..Len(docs[p]) : docs'[p][j] = docs[p][j]
             /\ \A j \in 1..Len(docs'[p]) \ 1..Len(docs[p]) : docs'[p][j] = DefaultRow
  <2>1. docs[p] \in Seq(Row) /\ docs'[p] \in Seq(Row)
    BY <1>t, DefaultRows
  <2>2. /\ Len(docs[p]) \in Nat /\ Len(docs'[p]) \in Nat
        /\ DOMAIN docs[p] = 1..Len(docs[p]) /\ DOMAIN docs'[p] = 1..Len(docs'[p])
    BY <2>1, LenProperties
  <2>3. Len(docs'[p]) = IF p \in S THEN Len(docs[p]) + 1 ELSE Len(docs[p])
    BY <1>t, DefaultRows
  <2>4. Len(docs[p]) <= Len(docs'[p])
    BY <2>2, <2>3
  <2>5. /\ \A j \in 1..Len(docs[p]) : docs'[p][j] = docs[p][j]
        /\ \A j \in 1..Len(docs'[p]) \ 1..Len(docs[p]) : docs'[p][j] = DefaultRow
    BY <1>t, DefaultRows
  <2> QED
    BY <2>1, <2>2, <2>4, <2>5
<1>2. RowsPast'
  <2> SUFFICES ASSUME NEW p \in Pairs, NEW j \in DOMAIN docs'[p] PROVE docs'[p][j].updatedAt <= clock'
    BY DEF RowsPast
  <2>1. CASE j \in 1..Len(docs[p])
    BY <1>1, <2>1 DEF IInv, RowsPast
  <2>2. CASE j \notin 1..Len(docs[p])
    <3>1. docs'[p][j] = DefaultRow
      BY <1>1, <2>2
    <3>2. clock' = clock /\ DefaultRow.updatedAt = clock
      BY DEF DefaultRow
    <3> QED
      BY <1>t, <3>1, <3>2
  <2> QED
    BY <2>1, <2>2
<1>3. LastTextLeads'
  <2> SUFFICES ASSUME NEW p \in Pairs, lastText[p] # NoText
               PROVE  \E i \in DOMAIN docs'[p] : Leads(docs'[p], i, lastText[p])
    BY DEF LastTextLeads
  <2>1. PICK i \in DOMAIN docs[p] : Leads(docs[p], i, lastText[p])
    BY DEF IInv, LastTextLeads
  <2>2. \A j \in 1..Len(docs'[p]) \ 1..Len(docs[p]) : docs'[p][j].text = NoText
    BY <1>1 DEF DefaultRow
  <2>3. i \in DOMAIN docs'[p] /\ Leads(docs'[p], i, lastText[p])
    BY <1>1, <2>1, <2>2, StillLeads
  <2> QED
    BY <2>3
<1> QED
  BY <1>2, <1>3

\* A write of a member makes its row the latest one.
LEMMA WriteLeads ==
  ASSUME IInv, NEW r \in Requests, NEW text \in Optional(Texts \cup {NoText}),
         NEW na \in Optional(BOOLEAN), UpsertWrite(r, text, na)
  PROVE  RowsPast' /\ LastTextLeads'
<1> DEFINE p == req[r].pair
           i == req[r].row
           new == Upserted(docs[p], i, text, na)
           k == Target(docs[p], i)
           row == Source(docs[p], i)
<1>t. TypeOK
  BY DEF IInv
<1>1. p \in Pairs /\ i \in 0..Len(docs[p])
  BY <1>t, PendingIsTyped DEF UpsertWrite, Continues, PendingTyped
<1>2. /\ clock < MaxClock /\ clock' = clock + 1
      /\ docs' = [docs EXCEPT ![p] = new]
      /\ lastText' = [lastText EXCEPT ![p] = IF text \in Texts /\ na # TRUE THEN text ELSE NoText]
  BY DEF UpsertWrite
<1>3. /\ docs \in [Pairs -> Seq(Row)] /\ lastText \in [Pairs -> Texts \cup {NoText}]
      /\ clock \in 0..MaxClock /\ clock \in Nat
  BY <1>t DEF TypeOK
<1>4. docs[p] \in Seq(Row)
  BY <1>1, <1>3
<1> HIDE DEF p, i
<1>5. /\ new \in Seq(Row) /\ k \in 1..Len(new)
      /\ new[k] = Updated(row, text, na)
      /\ \A j \in 1..Len(new) : j # k => j \in 1..Len(docs[p]) /\ new[j] = docs[p][j]
  <2>1. new \in Seq(Row) /\ k \in 1..Len(new)
    BY <1>1, <1>2, <1>3, <1>4, UpsertedRows
  <2>2. new[k] = Updated(row, text, na)
    BY <1>1, <1>2, <1>3, <1>4, UpsertedRows
  <2>3. \A j \in 1..Len(new) : j # k => j \in 1..Len(docs[p]) /\ new[j] = docs[p][j]
    BY <1>1, <1>2, <1>3, <1>4, UpsertedRows
  <2> QED
    BY <2>1, <2>2, <2>3
<1> HIDE DEF new, k, row
<1>6. /\ DOMAIN new = 1..Len(new) /\ DOMAIN docs[p] = 1..Len(docs[p])
  BY <1>4, <1>5, LenProperties
<1>7. new[k].updatedAt = clock + 1
  BY <1>5 DEF Updated
<1>8. \A j \in DOMAIN new \ {k} : /\ new[j].updatedAt <= clock
                                 /\ new[j].updatedAt \in Nat
  <2> SUFFICES ASSUME NEW j \in DOMAIN new \ {k}
               PROVE  new[j].updatedAt <= clock /\ new[j].updatedAt \in Nat
    OBVIOUS
  <2>1. j \in DOMAIN docs[p] /\ new[j] = docs[p][j]
    BY <1>5, <1>6
  <2>2. docs[p][j] \in Row
    BY <1>4, <1>6, <2>1, ElementOfSeq
  <2>3. docs[p][j].updatedAt <= clock
    BY <1>1, <2>1 DEF IInv, RowsPast
  <2> QED
    BY <2>1, <2>2, <2>3 DEF Row
<1>9. docs'[p] = new /\ \A q \in Pairs \ {p} : docs'[q] = docs[q] /\ lastText'[q] = lastText[q]
  BY <1>1, <1>2, <1>3
<1>10. RowsPast'
  <2> SUFFICES ASSUME NEW q \in Pairs, NEW j \in DOMAIN docs'[q] PROVE docs'[q][j].updatedAt <= clock'
    BY DEF RowsPast
  <2>1. CASE q = p /\ j = k
    BY <1>2, <1>3, <1>7, <1>9, <2>1
  <2>2. CASE q = p /\ j # k
    BY <1>2, <1>3, <1>8, <1>9, <2>2
  <2>3. CASE q # p
    <3>1. j \in DOMAIN docs[q] /\ docs'[q][j] = docs[q][j]
      BY <1>9, <2>3
    <3>2. docs[q][j].updatedAt <= clock
      BY <3>1 DEF IInv, RowsPast
    <3>3. docs[q] \in Seq(Row)
      BY <1>3
    <3>4. docs[q][j] \in Row
      BY <3>1, <3>3, LenProperties, ElementOfSeq
    <3> QED
      BY <1>2, <1>3, <3>1, <3>2, <3>4 DEF Row
  <2> QED
    BY <2>1, <2>2, <2>3
<1>11. LastTextLeads'
  <2> SUFFICES ASSUME NEW q \in Pairs, lastText'[q] # NoText
               PROVE  \E j \in DOMAIN docs'[q] : Leads(docs'[q], j, lastText'[q])
    BY DEF LastTextLeads
  <2>1. CASE q = p
    <3>1. text \in Texts /\ na # TRUE /\ lastText'[p] = text
      BY <1>1, <1>2, <1>3, <2>1
    <3>2. new[k].text = text /\ ~ new[k].notApplicable
      <4>1. Given(text, row.text) = text
        BY <3>1, TextsAssumption DEF Given
      <4>2. Given(na, IF text = None THEN row.notApplicable ELSE FALSE) = FALSE
        BY <3>1, TextsAssumption DEF Given, Optional
      <4>3. Updated(row, text, na) = [text |-> text, notApplicable |-> FALSE, updatedAt |-> clock + 1]
        BY <4>1, <4>2 DEF Updated
      <4> QED
        BY <1>5, <4>3
    <3>3. \A j \in DOMAIN new \ {k} : new[j].updatedAt < new[k].updatedAt
      BY <1>3, <1>7, <1>8
    <3>4. Leads(new, k, text)
      BY <3>2, <3>3 DEF Leads
    <3> QED
      BY <1>5, <1>6, <1>9, <2>1, <3>1, <3>4
  <2>2. CASE q # p
    BY <1>9, <2>2 DEF IInv, LastTextLeads
  <2> QED
    BY <2>1, <2>2
<1> QED
  BY <1>10, <1>11

\* Every step keeps the invariant.
LEMMA IInvInductive == ASSUME IInv, [Next]_vars PROVE IInv'
<1>t. TypeOK'
  BY TypeOKInductive DEF IInv
<1>p. PendingTyped
  BY PendingIsTyped DEF IInv
<1>1. ASSUME UNCHANGED <<docs, clock, lastText>> PROVE IInv'
  BY <1>t, <1>1 DEF IInv, RowsPast, LastTextLeads
<1>2. ASSUME NEW r \in Requests, NEW l \in Labels, CreateLabel(r, l) \/ UpdateLabelRead(r, l) PROVE IInv'
  BY <1>1, <1>2 DEF CreateLabel, UpdateLabelRead
<1>3. ASSUME NEW l \in Labels, DeleteLabel(l) \/ RestoreLabel(l) PROVE IInv'
  BY <1>1, <1>3 DEF DeleteLabel, RestoreLabel
<1>4. ASSUME NEW r \in Requests, NEW e \in Entities, CreateEntityRead(r, e) PROVE IInv'
  BY <1>1, <1>4 DEF CreateEntityRead
<1>5. ASSUME NEW r \in Requests, NEW p \in Pairs, UpsertRead(r, p) PROVE IInv'
  BY <1>1, <1>5 DEF UpsertRead
<1>6. ASSUME NEW r \in Requests, NEW text \in Optional(Texts \cup {NoText}),
             NEW na \in Optional(BOOLEAN), UpsertWrite(r, text, na)
      PROVE IInv'
  BY <1>t, <1>6, WriteLeads DEF IInv
<1>7. ASSUME NEW r \in Requests, UpdateLabel(r) \/ ListEntities(r) PROVE IInv'
  BY <1>1, <1>7 DEF UpdateLabel, ListEntities
<1>8. ASSUME NEW r \in Requests, CreateDefaults(r) PROVE IInv'
  <2>1. req[r].entities \X {req[r].label} \in SUBSET Pairs
    BY <1>8, <1>p DEF CreateDefaults, Continues, PendingTyped, Pairs
  <2>2. AddDefaults(req[r].entities \X {req[r].label}) /\ UNCHANGED <<clock, lastText>>
    BY <1>8 DEF CreateDefaults
  <2> QED
    BY <1>t, <2>1, <2>2, DefaultsKeep DEF IInv
<1>9. ASSUME NEW r \in Requests, CreateEntity(r) PROVE IInv'
  <2>1. {req[r].entity} \X req[r].labels \in SUBSET Pairs
    BY <1>9, <1>p DEF CreateEntity, Continues, PendingTyped, Pairs
  <2>2. AddDefaults({req[r].entity} \X req[r].labels) /\ UNCHANGED <<clock, lastText>>
    BY <1>9 DEF CreateEntity
  <2> QED
    BY <1>t, <2>1, <2>2, DefaultsKeep DEF IInv
<1>10. CASE UNCHANGED vars
  BY <1>1, <1>10 DEF vars
<1> QED
  BY <1>2, <1>3, <1>4, <1>5, <1>6, <1>7, <1>8, <1>9, <1>10 DEF Next

\* However many rows an entity and a label have, and whichever of them a write
\* found, the text written last is in the one row that beats the others.
THEOREM LastTextShownAlways == Spec => []LastTextShown
<1>1. Init => IInv
  BY InitTyped DEF Init, IInv, RowsPast, LastTextLeads
<1>2. IInv /\ [Next]_vars => IInv'
  BY IInvInductive
<1>3. IInv => LastTextShown
  <2> SUFFICES ASSUME IInv, NEW p \in Pairs, lastText[p] # NoText
               PROVE  \E i \in DOMAIN docs[p] :
                        /\ docs[p][i].text = lastText[p]
                        /\ \A j \in DOMAIN docs[p] : Best(docs[p], j) <=> j = i
    BY DEF LastTextShown
  <2>1. PICK i \in DOMAIN docs[p] : Leads(docs[p], i, lastText[p])
    BY DEF IInv, LastTextLeads
  <2>2. docs[p] \in Seq(Row) /\ lastText[p] \in Texts
    BY DEF IInv, TypeOK
  <2>3. \A j \in DOMAIN docs[p] : Best(docs[p], j) <=> j = i
    BY <2>1, <2>2, LeaderIsBest
  <2> QED
    BY <2>1, <2>3 DEF Leads
<1> QED
  BY <1>1, <1>2, <1>3, PTL DEF Spec

-----------------------------------------------------------------------------
(* Induction over the rows, by the least number for which it would fail.   *)

\* A set of natural numbers that is not empty has a least one.
LEMMA LeastNatural ==
  ASSUME NEW T \in SUBSET Nat, T # {}
  PROVE  \E x \in T : \A y \in T : x <= y
<1> DEFINE R == OpToRel(<, Nat)
<1>1. IsWellFoundedOn(R, Nat)
  BY NatLessThanWellFounded
<1>2. \A x, y \in Nat : x < y => <<x, y>> \in R
  BY DEF OpToRel
<1> HIDE DEF R
<1>3. PICK x \in T : \A y \in T : ~ (<<y, x>> \in R)
  BY <1>1, WFMin
<1>4. ASSUME NEW y \in T
      PROVE  x <= y
  <2>1. x \in Nat /\ y \in Nat
    BY <1>3
  <2>2. ~ (y < x)
    BY <1>2, <1>3, <2>1
  <2> QED
    BY <2>1, <2>2
<1> QED
  BY <1>3, <1>4

\* What a set has of 1, and of a number because of the one before it, it has of all.
LEMMA CountingUp ==
  ASSUME NEW N \in Nat, NEW G, 1 \in G, \A n \in 1..N : n \in G /\ n < N => n + 1 \in G
  PROVE  1..N \subseteq G
<1> DEFINE T == (1..N) \ G
<1> SUFFICES ASSUME T # {}
             PROVE  FALSE
  OBVIOUS
<1>1. T \in SUBSET Nat
  OBVIOUS
<1>2. PICK x \in T : \A y \in T : x <= y
  BY <1>1, LeastNatural
<1>3. x \in 1..N /\ x # 1
  OBVIOUS
<1>4. x - 1 \in 1..N /\ x - 1 < x
  BY <1>3
<1>5. x - 1 \notin T
  BY <1>2, <1>3, <1>4
<1>6. (x - 1) + 1 \in G
  BY <1>3, <1>4, <1>5
<1> QED
  BY <1>3, <1>6

\* The comparison row by row, as far as row n: f gives the row kept so far.
Keeps(f, rows, n) ==
  \A k \in 1..n :
    f[k] = IF k = 1 THEN 1
           ELSE IF Beats(rows[k], rows[f[k - 1]]) THEN k ELSE f[k - 1]

\* There is such a comparison of all the rows.
LEMMA KeepsExists ==
  ASSUME NEW rows, NEW N \in Nat, N >= 1
  PROVE  \E f \in [1..N -> 1..N] : Keeps(f, rows, N)
<1> DEFINE G == {n \in 1..N : \E f \in [1..n -> 1..n] : Keeps(f, rows, n)}
<1>1. 1 \in G
  <2> DEFINE f == [k \in 1..1 |-> 1]
  <2>1. f \in [1..1 -> 1..1]
    OBVIOUS
  <2>2. Keeps(f, rows, 1)
    BY DEF Keeps
  <2> QED
    BY <2>1, <2>2
<1>2. ASSUME NEW n \in 1..N, n \in G, n < N
      PROVE  n + 1 \in G
  <2>1. PICK f \in [1..n -> 1..n] : Keeps(f, rows, n)
    BY <1>2
  <2> DEFINE last == IF Beats(rows[n + 1], rows[f[n]]) THEN n + 1 ELSE f[n]
             g == [k \in 1..(n + 1) |-> IF k = n + 1 THEN last ELSE f[k]]
  <2>2. /\ n \in Nat /\ n + 1 \in 1..N /\ n + 1 \in 1..(n + 1) /\ n \in 1..n
        /\ \A k \in 1..(n + 1) : k = n + 1 \/ (k \in 1..n /\ k # n + 1)
        /\ \A k \in 1..n : k \in 1..(n + 1) /\ k # n + 1 /\ (k # 1 => k - 1 \in 1..n)
    <3>1. n < N
      BY <1>2
    <3> HIDE DEF G
    <3> QED
      BY <3>1
  <2>3. last \in 1..(n + 1)
    BY <2>1, <2>2
  <2>4. g \in [1..(n + 1) -> 1..(n + 1)]
    BY <2>1, <2>2, <2>3
  <2>5. g[n + 1] = last /\ \A k \in 1..n : g[k] = f[k]
    BY <2>2
  <2> HIDE DEF g
  <2>6. ASSUME NEW k \in 1..(n + 1)
        PROVE  g[k] = IF k = 1 THEN 1
                      ELSE IF Beats(rows[k], rows[g[k - 1]]) THEN k ELSE g[k - 1]
    <3>1. CASE k = n + 1
      <4>1. k # 1 /\ k - 1 = n
        BY <2>2, <3>1
      <4>2. g[k - 1] = f[n]
        BY <2>2, <2>5, <4>1
      <4> QED
        BY <2>5, <3>1, <4>1, <4>2
    <3>2. CASE k \in 1..n
      <4>1. g[k] = f[k] /\ (k # 1 => g[k - 1] = f[k - 1])
        BY <2>2, <2>5, <3>2
      <4> QED
        BY <2>1, <3>2, <4>1 DEF Keeps
    <3> QED
      BY <2>2, <3>1, <3>2
  <2>7. Keeps(g, rows, n + 1)
    BY <2>6 DEF Keeps
  <2> QED
    BY <2>2, <2>4, <2>7
<1> HIDE DEF G
<1>3. 1..N \subseteq G
  BY <1>1, <1>2, CountingUp
<1>4. N \in G
  BY <1>3
<1> QED
  BY <1>4 DEF G

\* The row shown is the one kept at the end of it.
LEMMA ShownIsKept ==
  ASSUME NEW rows \in Seq(Row), rows # <<>>
  PROVE  \E f \in [1..Len(rows) -> 1..Len(rows)] :
           Keeps(f, rows, Len(rows)) /\ Shown(rows) = f[Len(rows)]
<1> DEFINE N == Len(rows)
           Step(f) == [n \in DOMAIN rows |->
                         IF n = 1 THEN 1
                         ELSE IF Beats(rows[n], rows[f[n - 1]]) THEN n ELSE f[n - 1]]
           best == CHOOSE f : f = Step(f)
<1>1. N \in Nat /\ N >= 1 /\ DOMAIN rows = 1..N
  BY EmptySeq, LenProperties
<1>2. PICK f \in [1..N -> 1..N] : Keeps(f, rows, N)
  BY <1>1, KeepsExists
<1>3. f = Step(f)
  BY <1>1, <1>2 DEF Keeps
<1>4. best = Step(best)
  <2> HIDE DEF Step
  <2> QED
    BY <1>3
<1>5. Shown(rows) = best[N]
  BY DEF Shown
<1> HIDE DEF best
<1>6. Keeps(best, rows, N)
  BY <1>1, <1>4 DEF Keeps
<1> DEFINE G == {n \in 1..N : best[n] \in 1..N}
<1>7. 1..N \subseteq G
  <2>1. 1 \in G
    BY <1>1, <1>6 DEF Keeps
  <2>2. ASSUME NEW n \in 1..N, n \in G, n < N
        PROVE  n + 1 \in G
    <3>1. n + 1 \in 1..N /\ n + 1 # 1 /\ (n + 1) - 1 = n
      BY <1>1, <2>2
    <3>2. best[n + 1] \in {n + 1, best[n]}
      BY <1>6, <3>1 DEF Keeps
    <3> QED
      BY <2>2, <3>1, <3>2
  <2> HIDE DEF G
  <2> QED
    BY <1>1, <2>1, <2>2, CountingUp
<1>8. best \in [1..N -> 1..N]
  BY <1>1, <1>4, <1>7
<1> QED
  BY <1>5, <1>6, <1>8

\* Which of two rows is better is a matter of what each of them is.
LEMMA BeatsOrders ==
  ASSUME NEW a \in Row, NEW b \in Row, NEW c \in Row
  PROVE  /\ Beats(a, b) /\ Beats(b, c) => Beats(a, c)
         /\ Beats(a, b) /\ ~ Beats(c, b) => Beats(a, c)
<1>1. /\ a.updatedAt \in Int /\ b.updatedAt \in Int /\ c.updatedAt \in Int
      /\ a.notApplicable \in BOOLEAN /\ b.notApplicable \in BOOLEAN /\ c.notApplicable \in BOOLEAN
  BY BoundsAssumption DEF Row
<1> QED
  BY <1>1 DEF Beats

\* What is kept is better than all that came before.
LEMMA KeptIsBest ==
  ASSUME NEW rows \in Seq(Row), NEW N, N = Len(rows), N >= 1,
         NEW f \in [1..N -> 1..N], Keeps(f, rows, N)
  PROVE  Best(rows, f[N])
<1> DEFINE BestOf(n, i) ==
             \A j \in (1..n) \ {i} : IF j < i THEN Beats(rows[i], rows[j])
                                              ELSE ~ Beats(rows[j], rows[i])
           G == {n \in 1..N : f[n] \in 1..n /\ BestOf(n, f[n])}
<1>0. N \in Nat /\ DOMAIN rows = 1..N /\ \A i \in 1..N : rows[i] \in Row
  BY LenProperties, ElementOfSeq
<1>1. 1 \in G
  BY <1>0 DEF Keeps
<1>2. ASSUME NEW n \in 1..N, n \in G, n < N
      PROVE  n + 1 \in G
  <2>1. /\ n + 1 \in 1..N /\ n + 1 # 1 /\ (n + 1) - 1 = n
        /\ \A j \in 1..(n + 1) : j = n + 1 \/ j \in 1..n
        /\ \A j \in 1..n : j \in 1..N /\ j < n + 1 /\ j \in Int
        /\ n + 1 \in 1..(n + 1) /\ \A j \in 1..n : j \in 1..(n + 1)
    BY <1>0, <1>2
  <2>2. f[n + 1] = IF Beats(rows[n + 1], rows[f[n]]) THEN n + 1 ELSE f[n]
    BY <2>1 DEF Keeps
  <2>3. f[n] \in 1..n /\ BestOf(n, f[n])
    BY <1>2
  <2>4. CASE Beats(rows[n + 1], rows[f[n]])
    <3>1. ASSUME NEW j \in 1..n
          PROVE  Beats(rows[n + 1], rows[j])
      <4>1. rows[n + 1] \in Row /\ rows[j] \in Row /\ rows[f[n]] \in Row
        BY <1>0, <2>1, <2>3
      <4>2. j = f[n] \/ Beats(rows[f[n]], rows[j]) \/ ~ Beats(rows[j], rows[f[n]])
        BY <2>3
      <4> QED
        BY <2>4, <4>1, <4>2, BeatsOrders
    <3>2. f[n + 1] = n + 1
      BY <2>2, <2>4
    <3>3. BestOf(n + 1, n + 1)
      BY <2>1, <3>1
    <3> QED
      BY <2>1, <3>2, <3>3
  <2>5. CASE ~ Beats(rows[n + 1], rows[f[n]])
    <3>1. f[n + 1] = f[n] /\ f[n] # n + 1 /\ ~ (n + 1 < f[n])
      BY <2>1, <2>2, <2>3, <2>5
    <3>2. BestOf(n + 1, f[n])
      BY <2>1, <2>3, <2>5, <3>1
    <3> QED
      BY <2>1, <2>3, <3>1, <3>2
  <2> QED
    BY <2>4, <2>5
<1> HIDE DEF G
<1>3. 1..N \subseteq G
  BY <1>0, <1>1, <1>2, CountingUp
<1>4. N \in G
  BY <1>0, <1>3
<1> QED
  BY <1>0, <1>4 DEF G, Best

\* However many rows two requests at a time, or the default rows of a label, leave
\* for one entity, comparing each with the one kept so far ends with the row that is
\* better than every other.  (projects.service.ts:141)
THEOREM ShownIsBestAlways == Spec => []ShownIsBest
<1>1. TypeOK => ShownIsBest
  <2> SUFFICES ASSUME TypeOK, NEW p \in Pairs, docs[p] # <<>>
               PROVE  Best(docs[p], Shown(docs[p]))
    BY DEF ShownIsBest
  <2>1. docs[p] \in Seq(Row)
    BY DEF TypeOK
  <2>2. Len(docs[p]) \in Nat /\ Len(docs[p]) >= 1
    BY <2>1, EmptySeq, LenProperties
  <2> QED
    BY <2>1, <2>2, ShownIsKept, KeptIsBest
<1> QED
  BY <1>1, TypeCorrect, PTL

-----------------------------------------------------------------------------
(* The run of documentation and tickets.                                   *)

\* The two share no state, so that a behaviour of the run is one of each at the
\* same time: what is proved of one holds in it.
THEOREM TextsImplementParts == TextsSpec => Spec /\ TicketSpec
<1>1. TextsInit => Init /\ TicketInit
  BY DEF TextsInit
<1>2. [TextsNext]_textVars => [Next]_vars /\ [TicketNext]_ticketVars
  BY DEF TextsNext, textVars
<1> QED
  BY <1>1, <1>2, PTL DEF TextsSpec, Spec, TicketSpec
=============================================================================
