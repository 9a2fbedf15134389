---------------------- MODULE ContentTreeRacesProofs ----------------------
(***************************************************************************)
(* What the content of the projects keeps when its requests race, for      *)
(* every number of rows, names, projects and requests.  The rows stay well *)
(* formed because the kind and the project of a row are written once: what *)
(* a request read of them is still true when its transaction comes         *)
(* (Pending).  The tree stays free of cycles while one request at a time   *)
(* moves a module, because nothing else gives a module another parent.     *)
(***************************************************************************)
EXTENDS ContentTreeRaces, ContentTreeProofs

-----------------------------------------------------------------------------
(* What a request under way still knows.                                   *)

\* The parent of a new row is a module of the project the row is for.
CreatePending(q) ==
  q.op = "create" =>
    /\ q.kind \in {"module", "feature"}
    /\ q.project \in Projects /\ q.name \in Names /\ q.order \in Nat
    /\ q.to \in Items \cup {Root}
    /\ q.kind = "feature" => q.to # Root
    /\ q.to # Root => kind[q.to] = "module" /\ project[q.to] = q.project

\* The target of a move is a module, that of a moved module in its project.
MovePending(q) ==
  q.op = "move" =>
    /\ q.row \in Items /\ kind[q.row] \in {"module", "feature"}
    /\ q.name \in Names /\ q.order \in Nat
    /\ q.to \in Items \cup {Root}
    /\ kind[q.row] = "feature" => q.to # Root
    /\ q.to # Root => kind[q.to] = "module"
    /\ kind[q.row] = "module" =>
         q.project = project[q.row] /\ (q.to # Root => project[q.to] = q.project)

\* The feature to delete or to bring back exists.
FeaturePending(q) ==
  q.op \in {"deleteFeature", "restoreFeature"} => q.row \in Items /\ kind[q.row] = "feature"

Pending ==
  /\ DOMAIN req = Requests
  /\ \A r \in Requests : CreatePending(req[r]) /\ MovePending(req[r]) /\ FeaturePending(req[r])

RaceInv == Structure /\ Pending

\* The kind and the project of a row are written once.
Grows == \A x \in Items : kind[x] # "none" => kind'[x] = kind[x] /\ project'[x] = project[x]

\* No module is given another parent.
SameParents == \A x \in Modules : parent'[x] = parent[x]

-----------------------------------------------------------------------------
(* The transactions.                                                       *)

\* What a request writes about itself.
LEMMA ReqWritten ==
  ASSUME DOMAIN req = Requests, NEW r \in Requests, NEW w, req' = [req EXCEPT ![r] = w]
  PROVE  /\ DOMAIN req' = Requests
         /\ req'[r] = w
         /\ \A s \in Requests : s # r => req'[s] = req[s]
  OBVIOUS

\* A transaction that changes no kind, name, parent or project.
LEMMA FrameKeepsRows ==
  ASSUME RaceInv, UNCHANGED <<kind, name, project, parent>>
  PROVE  Grows /\ SameParents
  BY DEF Grows, SameParents

\* A row created from what was read earlier.
LEMMA InsertKeeps ==
  ASSUME RaceInv, NEW r \in Requests, req[r].op = "create", Insert(req[r])
  PROVE  /\ Structure' /\ Grows /\ SameParents
         /\ NoCycle => NoCycle'
<1> DEFINE q == req[r]
<1> USE DEF versionVars
<1>1. CreatePending(q)
  BY DEF RaceInv, Pending
<1>2. /\ q.kind \in {"module", "feature"} /\ q.project \in Projects
      /\ q.name \in Names /\ q.order \in Nat /\ q.to \in Items \cup {Root}
      /\ q.kind = "feature" => q.to # Root
      /\ q.to # Root => kind[q.to] = "module" /\ project[q.to] = q.project
  BY <1>1 DEF CreatePending
<1>3. PICK i \in Items :
         /\ NextRow(i)
         /\ kind' = [kind EXCEPT ![i] = q.kind]
         /\ name' = [name EXCEPT ![i] = q.name]
         /\ project' = [project EXCEPT ![i] = IF q.kind = "module" THEN q.project ELSE @]
         /\ parent' = [parent EXCEPT ![i] = q.to]
         /\ order' = [order EXCEPT ![i] = q.order]
  BY DEF Insert
<1>4. UNCHANGED <<deletedAt, projectDeletedAt, versionVars>>
  BY DEF Insert
<1>5. kind[i] = "none"
  BY <1>3 DEF NextRow
<1>6. Structure
  BY DEF RaceInv
<1> HIDE DEF q
<1>7. project' = IF q.kind = "module" THEN [project EXCEPT ![i] = q.project] ELSE project
  BY <1>3, <1>6 DEF Structure, TypeOK
<1>8. Structure'
  BY <1>2, <1>3, <1>4, <1>5, <1>6, <1>7, AddedStructure
<1>9. Grows /\ SameParents
  BY <1>3, <1>5, <1>6 DEF Structure, TypeOK, Grows, SameParents, Modules, IsModule
<1>10. NoCycle => NoCycle'
  <2>1. CASE q.kind = "module"
    <3>1. q.to \in Modules \cup {Root}
      BY <1>2 DEF Modules, IsModule
    <3> QED
      BY <1>3, <1>5, <1>6, <2>1, <3>1, AddedNoCycle
  <2>2. CASE q.kind = "feature"
    <3>1. Modules' = Modules
      BY <1>3, <1>5, <1>6, <2>2 DEF Modules, IsModule, Structure, TypeOK
    <3> QED
      BY <1>9, <3>1, SameParentsNoCycle DEF SameParents
  <2> QED
    BY <1>2, <2>1, <2>2
<1> QED
  BY <1>8, <1>9, <1>10

\* A row moved to where it was to go when the move was checked.
LEMMA MoveKeeps ==
  ASSUME RaceInv, NEW r \in Requests, req[r].op = "move",
         MoveEffect(req[r].row, req[r].project, req[r].to, req[r].name, req[r].from, req[r].order)
  PROVE  /\ Structure' /\ Grows
         /\ Modules' = Modules
         /\ ~ Moving(r) => SameParents
<1> DEFINE q == req[r]
<1>1. MovePending(q)
  BY DEF RaceInv, Pending
<1>2. /\ q.row \in Items /\ kind[q.row] \in {"module", "feature"}
      /\ q.name \in Names /\ q.order \in Nat /\ q.to \in Items \cup {Root}
      /\ kind[q.row] = "feature" => q.to # Root
      /\ q.to # Root => kind[q.to] = "module"
      /\ kind[q.row] = "module" =>
           q.project = project[q.row] /\ (q.to # Root => project[q.to] = q.project)
  BY <1>1 DEF MovePending
<1>3. MoveEffect(q.row, q.project, q.to, q.name, q.from, q.order) /\ Structure
  BY DEF RaceInv
<1>4. Moving(r) <=> kind[q.row] = "module"
  BY DEF Moving, IsModule
<1> HIDE DEF q
<1>5. order' \in [Items -> Nat]
  BY <1>2, <1>3, MoveEffectType
<1>6. /\ name' = [name EXCEPT ![q.row] = q.name]
      /\ parent' = [parent EXCEPT ![q.row] = q.to]
      /\ UNCHANGED <<kind, project, deletedAt, projectDeletedAt, versionVars>>
  BY <1>3 DEF MoveEffect
<1>7. Structure'
  BY <1>2, <1>3, <1>5, <1>6, UpdateStructure
<1>8. Grows /\ Modules' = Modules
  BY <1>6 DEF Grows, Modules, IsModule
<1>9. ~ Moving(r) => SameParents
  BY <1>2, <1>3, <1>4, <1>6 DEF SameParents, Modules, IsModule, Structure, TypeOK
<1> QED
  BY <1>7, <1>8, <1>9

\* Deleting and bringing back, in one request or by the project.
LEMMA TimesStructure ==
  ASSUME RaceInv, NEW r \in Requests,
         DeleteCommit(r) \/ DeleteFeatureCommit(r) \/ RestoreCommit(r) \/ RestoreFeatureCommit(r)
  PROVE  Structure' /\ UNCHANGED <<kind, name, project, parent>>
<1>0. Structure /\ FeaturePending(req[r])
  BY DEF RaceInv, Pending
<1>1. CASE DeleteCommit(r)
  <2>1. PICK t \in 1..MaxClock : deletedAt' = Deleted(WithFeatures(req[r].rows), t)
    BY <1>1 DEF DeleteCommit
  <2> QED
    BY <1>0, <1>1, <2>1, DeleteStructure DEF DeleteCommit, Structure, TypeOK
<1>2. CASE DeleteFeatureCommit(r)
  <2>1. PICK t \in 1..MaxClock : deletedAt' = [deletedAt EXCEPT ![req[r].row] = t]
    BY <1>2 DEF DeleteFeatureCommit
  <2>2. req[r].row \in Items /\ kind[req[r].row] = "feature"
    BY <1>0, <1>2 DEF FeaturePending, DeleteFeatureCommit
  <2>3. /\ deletedAt' \in [Items -> 0..MaxClock]
        /\ \A i \in Items : kind[i] = "none" => deletedAt'[i] = 0
    BY <1>0, <2>1, <2>2, BoundsAssumption DEF Structure, TypeOK, RowsComplete
  <2>4. UNCHANGED <<kind, name, project, parent, order, projectDeletedAt, versionVars>>
    BY <1>2 DEF DeleteFeatureCommit
  <2> QED
    BY <1>0, <2>3, <2>4, FrameKeepsStructure DEF Structure, TypeOK, versionVars
<1>3. CASE RestoreCommit(r)
  <2>1. RestoreEffect(req[r].row, req[r].rows, req[r].cutoff, req[r].from)
    BY <1>3 DEF RestoreCommit
  <2>2. Structure'
    BY <1>0, <2>1, RestoreEffectStructure
  <2> QED
    BY <2>1, <2>2 DEF RestoreEffect
<1>4. CASE RestoreFeatureCommit(r)
  <2>1. /\ deletedAt' = [deletedAt EXCEPT ![req[r].row] = 0]
        /\ UNCHANGED <<kind, name, project, parent, order, projectDeletedAt, versionVars>>
    BY <1>4 DEF RestoreFeatureCommit
  <2>2. /\ deletedAt' \in [Items -> 0..MaxClock]
        /\ \A i \in Items : kind[i] = "none" => deletedAt'[i] = 0
    <3>1. 0 \in 0..MaxClock
      BY BoundsAssumption
    <3>2. /\ deletedAt \in [Items -> 0..MaxClock]
          /\ \A i \in Items : kind[i] = "none" => deletedAt[i] = 0
      BY <1>0 DEF Structure, TypeOK, RowsComplete
    <3> QED
      BY <2>1, <3>1, <3>2
  <2> QED
    BY <1>0, <2>1, <2>2, FrameKeepsStructure DEF Structure, TypeOK, versionVars
<1> QED
  BY <1>1, <1>2, <1>3, <1>4

\* Removing or restoring a project.
LEMMA ProjectStepStructure ==
  ASSUME Structure, ProjectStep
  PROVE  Structure' /\ UNCHANGED <<kind, name, project, parent>>
<1>1. ASSUME NEW pr \in Projects, RemoveProject(pr)
      PROVE  Structure' /\ UNCHANGED <<kind, name, project, parent>>
  <2>1. PICK t \in 1..MaxClock :
           /\ projectDeletedAt' = [projectDeletedAt EXCEPT ![pr] = t]
           /\ deletedAt' = Deleted(InProject(pr), t)
    BY <1>1 DEF RemoveProject
  <2>2. projectDeletedAt' \in [Projects -> 0..MaxClock]
    BY <2>1, BoundsAssumption DEF Structure, TypeOK
  <2> QED
    BY <1>1, <2>1, <2>2, DeleteStructure DEF RemoveProject
<1>2. ASSUME NEW pr \in Projects, RestoreProject(pr)
      PROVE  Structure' /\ UNCHANGED <<kind, name, project, parent>>
  BY <1>2, RestoreProjectStructure DEF RestoreProject
<1> QED
  BY <1>1, <1>2 DEF ProjectStep

-----------------------------------------------------------------------------
(* The reads.                                                              *)

\* What a request reads is true when it reads it.
LEMMA ReadKnows ==
  ASSUME RaceInv, NEW r \in Requests, RaceRead(r)
  PROVE  /\ UNCHANGED vars
         /\ \E w : req' = [req EXCEPT ![r] = w]
         /\ CreatePending(req'[r]) /\ MovePending(req'[r]) /\ FeaturePending(req'[r])
<1> DEFINE Known ==
             /\ UNCHANGED vars
             /\ \E w : req' = [req EXCEPT ![r] = w]
             /\ CreatePending(req'[r]) /\ MovePending(req'[r]) /\ FeaturePending(req'[r])
<1>0. Structure /\ DOMAIN req = Requests
  BY DEF RaceInv, Pending
<1>1. ASSUME NEW w, Reads(r, w), CreatePending(w), MovePending(w), FeaturePending(w)
      PROVE  Known
  <2>1. req' = [req EXCEPT ![r] = w] /\ UNCHANGED vars
    BY <1>1 DEF Reads
  <2>2. req'[r] = w
    BY <1>0, <2>1
  <2> QED
    BY <1>1, <2>1, <2>2
<1>2. ASSUME NEW k \in {"module", "feature"}, NEW pr \in Projects, NEW p \in Modules \cup {Root},
             NEW n \in Names, CreateRead(r, k, pr, p, n)
      PROVE  Known
  <2>1. PICK n0 \in 0..MaxOrder :
           Reads(r, [op |-> "create", kind |-> k, project |-> pr, to |-> p,
                     name |-> n, order |-> n0])
    BY <1>2 DEF CreateRead
  <2> DEFINE w == [op |-> "create", kind |-> k, project |-> pr, to |-> p,
                   name |-> n, order |-> n0]
  <2>2. n0 \in Nat /\ p \in Items \cup {Root} /\ CreateAllowed(k, pr, p)
    BY <1>2, BoundsAssumption DEF Modules, CreateRead
  <2>3. p # Root => kind[p] = "module" /\ project[p] = pr
    BY <2>2 DEF Modules, IsModule, CreateAllowed
  <2>4. k = "feature" => p # Root
    BY <2>2 DEF CreateAllowed
  <2>5. CreatePending(w)
    BY <2>2, <2>3, <2>4 DEF CreatePending
  <2>6. MovePending(w) /\ FeaturePending(w)
    BY DEF MovePending, FeaturePending
  <2>7. Reads(r, w)
    BY <2>1
  <2> HIDE DEF w, Known
  <2> QED
    BY <1>1, <2>5, <2>6, <2>7
<1>3. ASSUME NEW i \in Items, NEW p \in Modules \cup {Root}, NEW n \in Names, MoveRead(r, i, p, n)
      PROVE  Known
  <2> DEFINE w == [op |-> "move", row |-> i, project |-> ProjectOf(i), to |-> p,
                   name |-> n, from |-> parent[i], order |-> order[i]]
  <2>1. Reads(r, w)
    BY <1>3 DEF MoveRead
  <2>2. /\ kind[i] \in {"module", "feature"}
        /\ kind[i] = "feature" => p # Root
        /\ kind[i] = "module" => MoveModuleAllowed(i, p)
    BY <1>3 DEF MoveRead, IsModule, IsFeature
  <2>3. p # Root => kind[p] = "module"
    BY DEF Modules, IsModule
  <2>4. kind[i] = "module" =>
          ProjectOf(i) = project[i] /\ (p # Root => project[p] = ProjectOf(i))
    BY <2>2 DEF MoveModuleAllowed, ProjectOf, IsFeature
  <2>5. order[i] \in Nat /\ p \in Items \cup {Root}
    BY <1>0 DEF Structure, TypeOK, Modules
  <2>6. MovePending(w)
    BY <2>2, <2>3, <2>4, <2>5 DEF MovePending
  <2>7. CreatePending(w) /\ FeaturePending(w)
    BY DEF CreatePending, FeaturePending
  <2> HIDE DEF w, Known
  <2> QED
    BY <1>1, <2>1, <2>6, <2>7
<1>4. ASSUME NEW m \in Modules, NEW cascade \in BOOLEAN, NEW force \in BOOLEAN,
             DeleteRead(r, m, cascade, force)
      PROVE  Known
  <2> DEFINE w == [op |-> "delete", rows |-> DoomedModules(m, cascade), force |-> force]
  <2>1. Reads(r, w)
    BY <1>4 DEF DeleteRead
  <2>2. CreatePending(w) /\ MovePending(w) /\ FeaturePending(w)
    BY DEF CreatePending, MovePending, FeaturePending
  <2> HIDE DEF w, Known
  <2> QED
    BY <1>1, <2>1, <2>2
<1>5. ASSUME NEW f \in Items, NEW force \in BOOLEAN, DeleteFeatureRead(r, f, force)
      PROVE  Known
  <2> DEFINE w == [op |-> "deleteFeature", row |-> f, force |-> force]
  <2>1. Reads(r, w) /\ kind[f] = "feature"
    BY <1>5 DEF DeleteFeatureRead, FeatureAvailable, LiveFeature, IsFeature
  <2>2. CreatePending(w) /\ MovePending(w) /\ FeaturePending(w)
    BY <2>1 DEF CreatePending, MovePending, FeaturePending
  <2> HIDE DEF w, Known
  <2> QED
    BY <1>1, <2>1, <2>2
<1>6. ASSUME NEW m \in Modules, RestoreRead(r, m)
      PROVE  Known
  <2> DEFINE w == [op |-> "restore", row |-> m, rows |-> Subtree(m, TRUE),
                   cutoff |-> deletedAt[m], from |-> parent[m]]
  <2>1. Reads(r, w)
    BY <1>6 DEF RestoreRead
  <2>2. CreatePending(w) /\ MovePending(w) /\ FeaturePending(w)
    BY DEF CreatePending, MovePending, FeaturePending
  <2> HIDE DEF w, Known
  <2> QED
    BY <1>1, <2>1, <2>2
<1>7. ASSUME NEW f \in Items, RestoreFeatureRead(r, f)
      PROVE  Known
  <2> DEFINE w == [op |-> "restoreFeature", row |-> f]
  <2>1. Reads(r, w) /\ kind[f] = "feature"
    BY <1>7 DEF RestoreFeatureRead, IsFeature
  <2>2. CreatePending(w) /\ MovePending(w) /\ FeaturePending(w)
    BY <2>1 DEF CreatePending, MovePending, FeaturePending
  <2> HIDE DEF w, Known
  <2> QED
    BY <1>1, <2>1, <2>2
<1> HIDE DEF Known
<1>8. Known
  BY <1>2, <1>3, <1>4, <1>5, <1>6, <1>7 DEF RaceRead
<1> QED
  BY <1>8 DEF Known

-----------------------------------------------------------------------------
(* Every step.                                                             *)

\* A transaction leaves the rows well formed and ends its request.
LEMMA CommitKeeps ==
  ASSUME RaceInv, NEW r \in Requests, RaceCommit(r)
  PROVE  /\ Structure' /\ Grows
         /\ req' = [req EXCEPT ![r] = Idle]
         /\ ~ Moving(r) => SameParents /\ (NoCycle => NoCycle')
<1> DEFINE Kept == /\ Structure' /\ Grows
                   /\ req' = [req EXCEPT ![r] = Idle]
                   /\ ~ Moving(r) => SameParents /\ (NoCycle => NoCycle')
<1>0. Structure
  BY DEF RaceInv
<1>1. ASSUME UNCHANGED <<kind, name, project, parent>>, Structure',
             req' = [req EXCEPT ![r] = Idle]
      PROVE  Kept
  <2>1. Grows /\ SameParents
    BY <1>1, FrameKeepsRows
  <2>2. NoCycle => NoCycle'
    BY <1>1, <2>1, SameParentsNoCycle DEF SameParents, Modules, IsModule
  <2> QED
    BY <1>1, <2>1, <2>2
<1>2. ASSUME Refused(r)
      PROVE  Kept
  <2>1. UNCHANGED vars /\ req' = [req EXCEPT ![r] = Idle]
    BY <1>2 DEF Refused, Done
  <2>2. Structure'
    BY <1>0, <2>1, FrameKeepsStructure
       DEF vars, treeVars, versionVars, Structure, TypeOK, RowsComplete
  <2> QED
    BY <1>1, <2>1, <2>2 DEF vars, treeVars
<1>3. ASSUME CreateCommit(r)
      PROVE  Kept
  <2>1. req[r].op = "create"
    BY <1>3 DEF CreateCommit
  <2>2. CASE NameFreeFor(req[r].kind, req[r].project, req[r].to, req[r].name)
    <3>1. Insert(req[r]) /\ req' = [req EXCEPT ![r] = Idle]
      BY <1>3, <2>2 DEF CreateCommit, Done
    <3> QED
      BY <2>1, <2>2, <3>1, InsertKeeps
  <2>3. CASE ~ NameFreeFor(req[r].kind, req[r].project, req[r].to, req[r].name)
    BY <1>2, <1>3, <2>3 DEF CreateCommit
  <2> QED
    BY <2>2, <2>3
<1>4. ASSUME MoveCommit(r)
      PROVE  Kept
  <2>1. req[r].op = "move"
    BY <1>4 DEF MoveCommit
  <2>2. CASE NameFree(req[r].row, req[r].project, req[r].to, req[r].name)
    <3>1. /\ MoveEffect(req[r].row, req[r].project, req[r].to, req[r].name,
                        req[r].from, req[r].order)
          /\ req' = [req EXCEPT ![r] = Idle]
      BY <1>4, <2>2 DEF MoveCommit, Done
    <3>2. /\ Structure' /\ Grows
          /\ Modules' = Modules
          /\ ~ Moving(r) => SameParents
      BY <2>1, <3>1, MoveKeeps
    <3>3. ~ Moving(r) => (NoCycle => NoCycle')
      BY <3>2, SameParentsNoCycle DEF SameParents
    <3> QED
      BY <3>1, <3>2, <3>3
  <2>3. CASE ~ NameFree(req[r].row, req[r].project, req[r].to, req[r].name)
    BY <1>2, <1>4, <2>3 DEF MoveCommit
  <2> QED
    BY <2>2, <2>3
<1>5. ASSUME DeleteCommit(r) \/ DeleteFeatureCommit(r) \/ RestoreCommit(r) \/ RestoreFeatureCommit(r)
      PROVE  Kept
  <2>1. Structure' /\ UNCHANGED <<kind, name, project, parent>>
    BY <1>5, TimesStructure
  <2>2. req' = [req EXCEPT ![r] = Idle]
    BY <1>5 DEF DeleteCommit, DeleteFeatureCommit, RestoreCommit, RestoreFeatureCommit, Done
  <2> QED
    BY <1>1, <2>1, <2>2
<1> HIDE DEF Kept
<1>6. Kept
  BY <1>3, <1>4, <1>5 DEF RaceCommit
<1> QED
  BY <1>6 DEF Kept

\* What the requests under way know outlives what the others write: no row
\* changes its kind or its project.
LEMMA PendingKept ==
  ASSUME RaceInv, Grows, NEW s \in Requests, req'[s] = req[s]
  PROVE  (CreatePending(req[s]) /\ MovePending(req[s]) /\ FeaturePending(req[s]))'
<1>1. CreatePending(req[s]) /\ MovePending(req[s]) /\ FeaturePending(req[s])
  BY DEF RaceInv, Pending
<1>2. CreatePending(req[s])'
  BY <1>1 DEF CreatePending, Grows
<1>3. MovePending(req[s])'
  BY <1>1 DEF MovePending, Grows
<1>4. FeaturePending(req[s])'
  BY <1>1 DEF FeaturePending, Grows
<1> QED
  BY <1>2, <1>3, <1>4

\* Every step keeps the rows well formed, and lets them only grow.
LEMMA RaceInvInductive ==
  ASSUME RaceInv, [RaceNext]_raceVars
  PROVE  RaceInv' /\ Grows
<1>0. Structure /\ DOMAIN req = Requests
  BY DEF RaceInv, Pending
<1>1. ASSUME UNCHANGED vars
      PROVE  Structure' /\ Grows
  <2>1. Structure'
    BY <1>0, <1>1, FrameKeepsStructure
       DEF vars, treeVars, versionVars, Structure, TypeOK, RowsComplete
  <2> QED
    BY <1>1, <2>1, FrameKeepsRows DEF vars, treeVars
<1>2. ASSUME NEW r \in Requests, RaceRead(r)
      PROVE  RaceInv' /\ Grows
  <2>1. UNCHANGED vars /\ CreatePending(req'[r]) /\ MovePending(req'[r]) /\ FeaturePending(req'[r])
    BY <1>2, ReadKnows
  <2>2. PICK w : req' = [req EXCEPT ![r] = w]
    BY <1>2, ReadKnows
  <2>3. DOMAIN req' = Requests /\ \A s \in Requests : s # r => req'[s] = req[s]
    BY <1>0, <2>2, ReqWritten
  <2>4. Structure' /\ Grows
    BY <1>1, <2>1
  <2>5. (CreatePending(req[r]) /\ MovePending(req[r]) /\ FeaturePending(req[r]))'
    BY <2>1 DEF CreatePending, MovePending, FeaturePending, vars, treeVars
  <2>6. Pending'
    BY <2>3, <2>4, <2>5, PendingKept DEF Pending
  <2> QED
    BY <2>4, <2>6 DEF RaceInv
<1>3. ASSUME NEW r \in Requests, RaceCommit(r)
      PROVE  RaceInv' /\ Grows
  <2>1. Structure' /\ Grows /\ req' = [req EXCEPT ![r] = Idle]
    BY <1>3, CommitKeeps
  <2>2. /\ DOMAIN req' = Requests /\ req'[r] = Idle
        /\ \A s \in Requests : s # r => req'[s] = req[s]
    BY <1>0, <2>1, ReqWritten
  <2>3. (CreatePending(req[r]) /\ MovePending(req[r]) /\ FeaturePending(req[r]))'
    BY <2>2 DEF CreatePending, MovePending, FeaturePending, Idle
  <2>4. Pending'
    BY <2>1, <2>2, <2>3, PendingKept DEF Pending
  <2> QED
    BY <2>1, <2>4 DEF RaceInv
<1>4. CASE ProjectStep
  <2>1. Structure' /\ UNCHANGED <<kind, name, project, parent>>
    BY <1>0, <1>4, ProjectStepStructure
  <2>2. Grows
    BY <2>1, FrameKeepsRows
  <2>3. Pending'
    BY <1>0, <1>4, <2>2, PendingKept DEF Pending, ProjectStep
  <2> QED
    BY <2>1, <2>2, <2>3 DEF RaceInv
<1>5. CASE UNCHANGED raceVars
  <2>1. Structure' /\ Grows /\ req' = req
    BY <1>1, <1>5 DEF raceVars
  <2>2. Pending'
    BY <1>0, <2>1, PendingKept DEF Pending
  <2> QED
    BY <2>1, <2>2 DEF RaceInv
<1> QED
  BY <1>2, <1>3, <1>4, <1>5 DEF RaceNext

\* Whatever the requests interleave, the rows are well formed.
LEMMA RaceInvAlways == RaceSpec => []RaceInv
<1>1. RaceInit => RaceInv
  <2> SUFFICES ASSUME RaceInit PROVE RaceInv
    OBVIOUS
  <2>1. Structure
    BY InitStructure DEF RaceInit
  <2>2. Pending
    BY DEF RaceInit, Pending, CreatePending, MovePending, FeaturePending, Idle
  <2> QED
    BY <2>1, <2>2 DEF RaceInv
<1>2. RaceInv /\ [RaceNext]_raceVars => RaceInv'
  BY RaceInvInductive
<1> QED
  BY <1>1, <1>2, PTL DEF RaceSpec

\* The rows stay well typed, also while requests race.
THEOREM RaceTypeCorrect == RaceSpec => []TypeOK
  BY RaceInvAlways, PTL DEF RaceInv, Structure

\* A module and its parent are in one project although the parent was checked
\* before the transaction: a row never changes project.  (modules.service.ts:490, 614)
THEOREM RaceParentInSameProject == RaceSpec => []ParentInSameProject
  BY RaceInvAlways, PTL DEF RaceInv, Structure

-----------------------------------------------------------------------------
(* One request at a time moves a module.                                   *)

OneMover == \A r, s \in Requests : Moving(r) /\ Moving(s) => r = s

TreeInv == NoCycle /\ OneMover /\ PendingMoveSafe

\* While modules keep their parents nothing new comes above one of them: what
\* was above it is still closed, without the rows that are new.
LEMMA AncestorsKept ==
  ASSUME Structure, NEW t \in Modules, Modules \subseteq Modules', SameParents
  PROVE  Ancestors(t)' \subseteq Ancestors(t)
<1> SUFFICES ASSUME NEW x \in Items, x \notin Ancestors(t)
             PROVE  x \notin Ancestors(t)'
  BY DEF Ancestors
<1>1. PICK S \in SUBSET Items :
         (parent[t] # Root => parent[t] \in S) /\ ClosedUp(S) /\ x \notin S
  BY DEF Ancestors
<1> DEFINE C == S \cap Modules
<1>2. \A y \in Modules : parent[y] # Root => parent[y] \in Modules
  BY DEF Structure, TypeOK, ParentIsModule, Modules, IsModule
<1>3. C \in SUBSET Items /\ x \notin C
  BY <1>1
<1>4. parent'[t] # Root => parent'[t] \in C
  BY <1>1, <1>2 DEF SameParents
<1>5. \A y \in C : parent'[y] # Root => parent'[y] \in C
  BY <1>1, <1>2 DEF SameParents, ClosedUp
<1> HIDE DEF C
<1> QED
  BY <1>3, <1>4, <1>5 DEF Ancestors, ClosedUp

\* Rows stay modules.
LEMMA ModulesGrow == ASSUME Grows PROVE Modules \subseteq Modules'
  BY DEF Grows, Modules, IsModule

\* A request under way moves a module after a step if it did so before.
LEMMA MovingKept ==
  ASSUME RaceInv, Grows, NEW s \in Requests, req'[s] = req[s]
  PROVE  Moving(s)' <=> Moving(s)
<1>1. MovePending(req[s])
  BY DEF RaceInv, Pending
<1> QED
  BY <1>1 DEF Moving, MovePending, IsModule, Grows

\* A step after which modules have the parents they had, and nothing new moves a
\* module.
LEMMA SafeMovesKept ==
  ASSUME RaceInv, TreeInv, Grows, SameParents,
         \A s \in Requests : Moving(s)' => req'[s] = req[s]
  PROVE  OneMover' /\ PendingMoveSafe'
<1>1. \A s \in Requests : Moving(s)' => Moving(s)
  BY MovingKept
<1>2. OneMover'
  BY <1>1 DEF TreeInv, OneMover
<1>3. ASSUME NEW s \in Requests, Moving(s)', NEW q, q = req'[s], q.to # Root
      PROVE  q.row # q.to /\ q.row \notin Ancestors(q.to)'
  <2>1. Moving(s) /\ q = req[s]
    BY <1>1, <1>3
  <2>2. q.row # q.to /\ q.row \notin Ancestors(q.to)
    <3>1. req[s].to # Root => req[s].row # req[s].to /\ req[s].row \notin Ancestors(req[s].to)
      BY <2>1 DEF TreeInv, PendingMoveSafe
    <3> QED
      BY <1>3, <2>1, <3>1
  <2>3. MovePending(q) /\ q.op = "move"
    BY <2>1 DEF RaceInv, Pending, Moving
  <2>4. q.to \in Modules
    BY <1>3, <2>3 DEF MovePending, Modules, IsModule
  <2>5. Ancestors(q.to)' \subseteq Ancestors(q.to)
    BY <2>4, ModulesGrow, AncestorsKept DEF RaceInv
  <2> QED
    BY <2>2, <2>5
<1>4. PendingMoveSafe'
  <2> SUFFICES ASSUME NEW s \in Requests, Moving(s)', req'[s].to # Root
               PROVE  req'[s].row # req'[s].to /\ req'[s].row \notin Ancestors(req[s].to)'
    BY DEF PendingMoveSafe
  <2>1. PICK q : q = req'[s]
    OBVIOUS
  <2>2. q.row # q.to /\ q.row \notin Ancestors(q.to)'
    BY <1>3, <2>1
  <2> QED
    BY <2>1, <2>2 DEF Ancestors, ClosedUp
<1> QED
  BY <1>2, <1>4

\* The move of a module, once checked, is the only one under way.
LEMMA MoveReadSafe ==
  ASSUME RaceInv, TreeInv, MaxMovers <= 1, NEW r \in Requests,
         NEW i \in Items, NEW p \in Modules \cup {Root}, NEW n \in Names, MoveRead(r, i, p, n)
  PROVE  OneMover' /\ PendingMoveSafe'
<1> DEFINE w == [op |-> "move", row |-> i, project |-> ProjectOf(i), to |-> p,
                 name |-> n, from |-> parent[i], order |-> order[i]]
<1>1. req' = [req EXCEPT ![r] = w] /\ UNCHANGED vars
  BY DEF MoveRead, Reads
<1>2. /\ DOMAIN req = Requests /\ req'[r] = w
      /\ \A s \in Requests : s # r => req'[s] = req[s]
  BY <1>1, ReqWritten DEF RaceInv, Pending
<1>3. w.op = "move" /\ w.row = i /\ w.to = p
  OBVIOUS
<1> HIDE DEF w
<1>4. Grows /\ SameParents
  BY <1>1, FrameKeepsRows DEF vars, treeVars
<1>5. CASE IsFeature(i)
  <2>1. ~ Moving(r)'
    BY <1>1, <1>2, <1>3, <1>5 DEF Moving, IsModule, IsFeature, vars, treeVars
  <2>2. \A s \in Requests : Moving(s)' => req'[s] = req[s]
    BY <1>2, <2>1
  <2> QED
    BY <1>4, <2>2, SafeMovesKept
<1>6. CASE IsModule(i)
  <2>1. Cardinality({q \in Requests : Moving(q)}) < MaxMovers /\ MoveModuleAllowed(i, p)
    BY <1>6 DEF MoveRead, IsModule, IsFeature
  <2>2. \A q \in Requests : ~ Moving(q)
    <3> DEFINE M == {q \in Requests : Moving(q)}
    <3>1. IsFiniteSet(M) /\ Cardinality(M) \in Nat
      BY MoversAssumption, FS_Subset, FS_CardinalityType
    <3>2. Cardinality(M) = 0
      BY <2>1, <3>1, MoversAssumption
    <3>3. M = {}
      BY <3>1, <3>2, FS_EmptySet
    <3> QED
      BY <3>3
  <2>3. \A s \in Requests : s # r => ~ Moving(s)'
    BY <1>2, <1>4, <2>2, MovingKept
  <2>4. OneMover'
    BY <2>3 DEF OneMover
  <2>5. p # Root => i # p /\ i \notin Ancestors(p)
    BY <2>1 DEF MoveModuleAllowed
  <2>6. PendingMoveSafe'
    <3> SUFFICES ASSUME req'[r].to # Root
                 PROVE  req'[r].row # req'[r].to /\ req'[r].row \notin Ancestors(req[r].to)'
      BY <2>3 DEF PendingMoveSafe
    <3> QED
      BY <1>1, <1>2, <1>3, <2>5 DEF Ancestors, ClosedUp, vars, treeVars
  <2> QED
    BY <2>4, <2>6
<1> QED
  BY <1>5, <1>6 DEF MoveRead

\* The other reads put nobody on the way.
LEMMA OtherReadSafe ==
  ASSUME RaceInv, TreeInv, NEW r \in Requests, NEW w, Reads(r, w), w.op # "move"
  PROVE  OneMover' /\ PendingMoveSafe'
<1>1. req' = [req EXCEPT ![r] = w] /\ UNCHANGED vars
  BY DEF Reads
<1>2. req'[r] = w /\ \A s \in Requests : s # r => req'[s] = req[s]
  BY <1>1, ReqWritten DEF RaceInv, Pending
<1>3. Grows /\ SameParents
  BY <1>1, FrameKeepsRows DEF vars, treeVars
<1>4. ~ Moving(r)'
  BY <1>2 DEF Moving
<1> QED
  BY <1>2, <1>3, <1>4, SafeMovesKept

\* Which leaves the tree free of cycles, and the move under way harmless.
LEMMA TreeInvInductive ==
  ASSUME RaceInv, TreeInv, MaxMovers <= 1, [RaceNext]_raceVars
  PROVE  TreeInv'
<1>0. Structure /\ NoCycle /\ DOMAIN req = Requests
  BY DEF RaceInv, Pending, TreeInv
<1>1. ASSUME UNCHANGED <<kind, name, project, parent>>
      PROVE  NoCycle' /\ Grows /\ SameParents
  <2>1. Grows /\ SameParents
    BY <1>1, FrameKeepsRows
  <2> QED
    BY <1>0, <1>1, <2>1, SameParentsNoCycle DEF SameParents, Modules, IsModule
<1>2. ASSUME NEW r \in Requests, RaceRead(r)
      PROVE  TreeInv'
  <2>1. NoCycle'
    BY <1>1, <1>2, ReadKnows DEF vars, treeVars
  <2>2. OneMover' /\ PendingMoveSafe'
    <3> DEFINE Safe == OneMover' /\ PendingMoveSafe'
    <3>1. ASSUME NEW w, Reads(r, w), w.op # "move"
          PROVE  Safe
      BY <3>1, OtherReadSafe
    <3>2. ASSUME NEW i \in Items, NEW p \in Modules \cup {Root}, NEW n \in Names,
                 MoveRead(r, i, p, n)
          PROVE  Safe
      BY <3>2, MoveReadSafe
    <3> HIDE DEF Safe
    <3>3. ASSUME NEW k \in {"module", "feature"}, NEW pr \in Projects,
                 NEW p \in Modules \cup {Root}, NEW n \in Names, CreateRead(r, k, pr, p, n)
          PROVE  Safe
      BY <3>1, <3>3 DEF CreateRead
    <3>4. ASSUME NEW m \in Modules, NEW cascade \in BOOLEAN, NEW force \in BOOLEAN,
                 DeleteRead(r, m, cascade, force)
          PROVE  Safe
      BY <3>1, <3>4 DEF DeleteRead
    <3>5. ASSUME NEW f \in Items, NEW force \in BOOLEAN, DeleteFeatureRead(r, f, force)
          PROVE  Safe
      BY <3>1, <3>5 DEF DeleteFeatureRead
    <3>6. ASSUME NEW m \in Modules, RestoreRead(r, m)
          PROVE  Safe
      BY <3>1, <3>6 DEF RestoreRead
    <3>7. ASSUME NEW f \in Items, RestoreFeatureRead(r, f)
          PROVE  Safe
      BY <3>1, <3>7 DEF RestoreFeatureRead
    <3>8. Safe
      BY <1>2, <3>2, <3>3, <3>4, <3>5, <3>6, <3>7 DEF RaceRead
    <3> QED
      BY <3>8 DEF Safe
  <2> QED
    BY <2>1, <2>2 DEF TreeInv
<1>3. ASSUME NEW r \in Requests, RaceCommit(r)
      PROVE  TreeInv'
  <2>1. /\ Structure' /\ Grows /\ req' = [req EXCEPT ![r] = Idle]
        /\ ~ Moving(r) => SameParents /\ (NoCycle => NoCycle')
    BY <1>3, CommitKeeps
  <2>2. req'[r] = Idle /\ \A s \in Requests : s # r => req'[s] = req[s]
    BY <1>0, <2>1, ReqWritten
  <2>3. ~ Moving(r)'
    BY <2>2 DEF Moving, Idle
  <2>4. \A s \in Requests : Moving(s)' => req'[s] = req[s]
    BY <2>2, <2>3
  <2>5. CASE ~ Moving(r)
    BY <1>0, <2>1, <2>4, <2>5, SafeMovesKept DEF TreeInv
  <2>6. CASE Moving(r)
    <3>1. \A s \in Requests : s # r => ~ Moving(s)'
      BY <2>1, <2>2, <2>6, MovingKept DEF TreeInv, OneMover
    <3>2. OneMover' /\ PendingMoveSafe'
      BY <2>3, <3>1 DEF OneMover, PendingMoveSafe
    <3>3. NoCycle'
      <4>1. MoveCommit(r) /\ req[r].op = "move" /\ IsModule(req[r].row)
        BY <1>3, <2>6 DEF RaceCommit, Moving, CreateCommit, MoveCommit, DeleteCommit,
                          DeleteFeatureCommit, RestoreCommit, RestoreFeatureCommit
      <4>2. CASE Refused(r)
        BY <1>1, <4>2 DEF Refused, vars, treeVars
      <4>3. CASE MoveEffect(req[r].row, req[r].project, req[r].to, req[r].name,
                            req[r].from, req[r].order)
        <5>1. MovePending(req[r])
          BY DEF RaceInv, Pending
        <5>2. /\ req[r].row \in Modules /\ req[r].to \in Modules \cup {Root}
              /\ req[r].to # req[r].row
              /\ req[r].to # Root => req[r].row \notin Ancestors(req[r].to)
          BY <2>6, <4>1, <5>1 DEF MovePending, Modules, IsModule, TreeInv, PendingMoveSafe,
                                  Items, Root
        <5>3. parent' = [parent EXCEPT ![req[r].row] = req[r].to] /\ UNCHANGED kind
          BY <4>3 DEF MoveEffect
        <5> QED
          BY <1>0, <5>2, <5>3, MovedNoCycle
      <4> QED
        BY <4>1, <4>2, <4>3 DEF MoveCommit
    <3> QED
      BY <3>2, <3>3 DEF TreeInv
  <2> QED
    BY <2>5, <2>6
<1>4. CASE UNCHANGED <<kind, name, project, parent, req>>
  <2>1. NoCycle' /\ Grows /\ SameParents
    BY <1>1, <1>4
  <2>2. OneMover' /\ PendingMoveSafe'
    BY <1>4, <2>1, SafeMovesKept
  <2> QED
    BY <2>1, <2>2 DEF TreeInv
<1>5. CASE ProjectStep
  BY <1>0, <1>4, <1>5, ProjectStepStructure DEF ProjectStep
<1>6. CASE UNCHANGED raceVars
  BY <1>4, <1>6 DEF raceVars, vars, treeVars
<1> QED
  BY <1>2, <1>3, <1>5, <1>6 DEF RaceNext

\* The tree and the moves under way, when one request at a time moves a module.
LEMMA TreeInvAlways == ASSUME MaxMovers <= 1 PROVE RaceSpec => []TreeInv
<1>1. RaceInit => TreeInv
  BY DEF RaceInit, Init, TreeInv, NoCycle, Modules, IsModule, OneMover, PendingMoveSafe,
         Moving, Idle
<1>2. RaceInv /\ TreeInv /\ [RaceNext]_raceVars => TreeInv'
  BY TreeInvInductive
<1> QED
  BY <1>1, <1>2, RaceInvAlways, PTL DEF RaceSpec

\* What update() checked of a move outlives what is created, deleted, restored
\* and moved, features included, until its transaction.  (modules.service.ts:614)
THEOREM PendingMoveSafeAlways == ASSUME MaxMovers <= 1 PROVE RaceSpec => []PendingMoveSafe
  BY TreeInvAlways, PTL DEF TreeInv

\* So no cycle comes from races in which one request at a time moves a module.
\* Two that move modules at the same time do make one.
THEOREM RaceNoCycle == ASSUME MaxMovers <= 1 PROVE RaceSpec => []NoCycle
  BY TreeInvAlways, PTL DEF TreeInv

\* And what is deleted, whatever raced, is brought back from the top down.
THEOREM RaceSomeoneAboveRestorable ==
  ASSUME MaxMovers <= 1 PROVE RaceSpec => []SomeoneAboveRestorable
<1>1. RaceInv /\ TreeInv => SomeoneAboveRestorable
  BY TreeIsRestorable DEF RaceInv, TreeInv
<1> QED
  BY <1>1, TreeInvAlways, RaceInvAlways, PTL
=============================================================================
