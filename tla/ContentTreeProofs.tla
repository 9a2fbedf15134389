------------------------- MODULE ContentTreeProofs -------------------------
(***************************************************************************)
(* What the content of the projects keeps for every number of rows, names, *)
(* projects and deletions.  The rows are well formed (Structure), which    *)
(* gives the type invariant, the project of a module's parent and the      *)
(* names; on top of it, what is deleted with what (GoesWithParent), which  *)
(* deletion a time belongs to (StampInv), the sibling orders, and what the *)
(* readers show of it all.                                                 *)
(***************************************************************************)
EXTENDS TreeReading, FiniteSetTheorems, TLAPS

-----------------------------------------------------------------------------
(* The inductive invariants.                                               *)

\* A row that does not exist yet is blank, a created one is complete.
RowsComplete ==
  \A i \in Items :
    /\ kind[i] = "none" => deletedAt[i] = 0 /\ parent[i] = Root /\ versions[i] = {}
    /\ kind[i] # "none" => name[i] \in Names
    /\ kind[i] = "module" => project[i] \in Projects
    /\ kind[i] = "feature" => parent[i] # Root

\* The foreign keys: what a row is in is a module.
ParentIsModule == \A i \in Items : parent[i] # Root => kind[parent[i]] = "module"

\* So is the parent a recorded version of a module would bring back, and it is
\* in the module's project, because a row never changes project.
VersionsInProject ==
  \A m \in Items : \A v \in versions[m] :
    v.parent # Root =>
      /\ kind[m] = "module"
      /\ kind[v.parent] = "module"
      /\ project[v.parent] = project[m]

Structure ==
  /\ TypeOK
  /\ RowsComplete
  /\ ParentIsModule
  /\ ParentInSameProject
  /\ VersionsInProject

-----------------------------------------------------------------------------
(* Sibling order.                                                          *)

\* There are finitely many rows.
LEMMA ItemsFinite == IsFiniteSet(Items)
  BY BoundsAssumption, FS_Interval DEF Items

\* A position in the list shown is a natural number.
LEMMA RankIsNat ==
  ASSUME NEW ord, NEW S \in SUBSET Items, NEW i
  PROVE  Rank(ord, S, i) \in Nat
<1> DEFINE T == {j \in S : Before(ord, j, i)}
<1>1. T \subseteq Items
  OBVIOUS
<1>2. IsFiniteSet(T)
  BY <1>1, ItemsFinite, FS_Subset
<1> QED
  BY <1>2, FS_CardinalityType DEF Rank

\* Closing a gap leaves natural orders.
LEMMA CompactedType ==
  ASSUME NEW ord \in [Items -> Nat], NEW S, NEW r \in Nat
  PROVE  Compacted(ord, S, r) \in [Items -> Nat]
  BY DEF Compacted

\* Renumbering gives natural orders.
LEMMA NormalizedType ==
  ASSUME NEW ord \in [Items -> Nat], NEW S \in SUBSET Items
  PROVE  Normalized(ord, S) \in [Items -> Nat]
  BY RankIsNat DEF Normalized

-----------------------------------------------------------------------------
(* The rows stay well formed.                                              *)

\* Requests that leave the rows' kind, name, project, parent and versions as
\* they are, and give orders and deletion times of the right type.
LEMMA FrameKeepsStructure ==
  ASSUME Structure,
         UNCHANGED <<kind, name, project, parent, versions>>,
         order' \in [Items -> Nat],
         deletedAt' \in [Items -> 0..MaxClock],
         \A i \in Items : kind[i] = "none" => deletedAt'[i] = 0,
         projectDeletedAt' \in [Projects -> 0..MaxClock],
         published' \in [Items -> BOOLEAN]
  PROVE  Structure'
<1>1. TypeOK'
  BY DEF Structure, TypeOK
<1>2. RowsComplete'
  BY DEF Structure, RowsComplete
<1>3. ParentIsModule' /\ ParentInSameProject' /\ VersionsInProject'
  BY DEF Structure, ParentIsModule, ParentInSameProject, VersionsInProject,
         Modules, IsModule
<1> QED
  BY <1>1, <1>2, <1>3 DEF Structure

\* The empty tables are well formed.
LEMMA InitStructure == ASSUME Init PROVE Structure
<1>1. TypeOK
  BY BoundsAssumption DEF Init, TypeOK, Items, Root
<1> QED
  BY <1>1 DEF Init, Structure, RowsComplete, ParentIsModule, ParentInSameProject,
              VersionsInProject, Modules, IsModule

\* A new row is complete: a module is in the project of its parent, and a feature
\* in a module.
LEMMA AddedStructure ==
  ASSUME Structure, NEW i \in Items, kind[i] = "none", NEW k \in {"module", "feature"},
         NEW pr \in Projects, NEW p \in Items \cup {Root}, NEW n \in Names, NEW r \in Nat,
         kind' = [kind EXCEPT ![i] = k],
         name' = [name EXCEPT ![i] = n],
         project' = IF k = "module" THEN [project EXCEPT ![i] = pr] ELSE project,
         parent' = [parent EXCEPT ![i] = p],
         order' = [order EXCEPT ![i] = r],
         UNCHANGED <<deletedAt, projectDeletedAt, versionVars>>,
         k = "feature" => p # Root,
         p # Root => kind[p] = "module",
         k = "module" /\ p # Root => project[p] = pr
  PROVE  Structure'
<1> USE DEF versionVars
<1>1. p # i
  BY DEF Items, Root
<1>2. TypeOK'
  BY DEF Structure, TypeOK
<1>3. RowsComplete'
  BY <1>1 DEF Structure, TypeOK, RowsComplete, Root
<1>4. ParentIsModule'
  BY <1>1 DEF Structure, TypeOK, ParentIsModule
<1>5. ParentInSameProject'
  BY <1>1 DEF Structure, TypeOK, RowsComplete, ParentIsModule, ParentInSameProject, Modules, IsModule
<1>6. VersionsInProject'
  <2> SUFFICES ASSUME NEW m \in Items, NEW v \in versions[m], v.parent # Root
               PROVE  /\ kind'[m] = "module"
                      /\ kind'[v.parent] = "module"
                      /\ project'[v.parent] = project'[m]
    BY DEF VersionsInProject
  <2>1. m # i /\ v.parent \in Items /\ v.parent # i
    BY <1>1 DEF Structure, TypeOK, RowsComplete, VersionsInProject
  <2> QED
    BY <2>1 DEF Structure, TypeOK, VersionsInProject
<1> QED
  BY <1>2, <1>3, <1>4, <1>5, <1>6 DEF Structure

\* A module is created at the top of a project, or below one of its modules.
LEMMA CreateModuleStructure ==
  ASSUME Structure, NEW i \in Items, NEW pr \in Projects,
         NEW p \in Modules \cup {Root}, NEW n \in Names, CreateModule(i, pr, p, n)
  PROVE  Structure'
<1>1. kind[i] = "none" /\ p \in Items \cup {Root}
  BY DEF CreateModule, NextRow, Modules
<1>2. p # Root => kind[p] = "module" /\ project[p] = pr
  BY DEF CreateModule, Modules, IsModule
<1>3. PICK r \in 0..MaxOrder : order' = [order EXCEPT ![i] = r]
  BY DEF CreateModule
<1>4. r \in Nat
  BY BoundsAssumption
<1> QED
  BY <1>1, <1>2, <1>3, <1>4, AddedStructure DEF CreateModule

\* A feature is created in a module.
LEMMA CreateFeatureStructure ==
  ASSUME Structure, NEW i \in Items, NEW m \in Modules, NEW n \in Names,
         CreateFeature(i, m, n)
  PROVE  Structure'
<1>1. kind[i] = "none" /\ m \in Items /\ m # Root /\ kind[m] = "module"
  BY DEF CreateFeature, NextRow, Modules, IsModule, Items, Root
<1>2. PICK r \in 0..MaxOrder : order' = [order EXCEPT ![i] = r]
  BY DEF CreateFeature
<1>3. r \in Nat /\ project[m] \in Projects
  BY <1>1, BoundsAssumption DEF Structure, RowsComplete
<1> QED
  BY <1>1, <1>2, <1>3, AddedStructure DEF CreateFeature

\* Updates that write a name and a parent: Rename, the moves, the rollbacks.
LEMMA UpdateStructure ==
  ASSUME Structure, NEW i \in Items, NEW p \in Items \cup {Root}, NEW n \in Names,
         kind[i] # "none",
         name' = [name EXCEPT ![i] = n],
         parent' = [parent EXCEPT ![i] = p],
         order' \in [Items -> Nat],
         UNCHANGED <<kind, project, deletedAt, projectDeletedAt, versionVars>>,
         kind[i] = "feature" => p # Root,
         p # Root => kind[p] = "module",
         kind[i] = "module" /\ p # Root => project[p] = project[i]
  PROVE  Structure'
<1> USE DEF versionVars
<1>1. TypeOK'
  BY DEF Structure, TypeOK
<1>2. RowsComplete'
  BY DEF Structure, TypeOK, RowsComplete
<1>3. ParentIsModule' /\ ParentInSameProject' /\ VersionsInProject'
  BY DEF Structure, TypeOK, ParentIsModule, ParentInSameProject, VersionsInProject,
         Modules, IsModule
<1> QED
  BY <1>1, <1>2, <1>3 DEF Structure

\* Renaming writes back the parent the row has.
LEMMA RenameStructure ==
  ASSUME Structure, NEW i \in Items, NEW n \in Names, Rename(i, n)
  PROVE  Structure'
<1>1. kind[i] # "none"
  BY DEF Rename, ModuleAvailable, FeatureAvailable, LiveModule, LiveFeature, Live, LiveIn
<1>2. parent' = [parent EXCEPT ![i] = parent[i]] /\ parent[i] \in Items \cup {Root}
  BY DEF Rename, Structure, TypeOK
<1>3. order' \in [Items -> Nat]
  BY DEF Rename, Structure, TypeOK
<1>4. /\ kind[i] = "feature" => parent[i] # Root
      /\ parent[i] # Root => kind[parent[i]] = "module"
      /\ kind[i] = "module" /\ parent[i] # Root => project[parent[i]] = project[i]
  BY DEF Structure, RowsComplete, ParentIsModule, ParentInSameProject, Modules, IsModule
<1> QED
  BY <1>1, <1>2, <1>3, <1>4, UpdateStructure DEF Rename

\* A move gives the moved row, and those it leaves, natural orders.
LEMMA MoveEffectType ==
  ASSUME Structure, NEW i \in Items, NEW pr, NEW p, NEW n, NEW p0, NEW r0 \in Nat,
         MoveEffect(i, pr, p, n, p0, r0)
  PROVE  order' \in [Items -> Nat]
<1>1. Compacted(order, Contents(pr, p0), r0) \in [Items -> Nat]
  BY CompactedType DEF Structure, TypeOK
<1> QED
  BY <1>1, BoundsAssumption DEF MoveEffect

\* A module is moved to the top or below a module of its project.
LEMMA MoveModuleStructure ==
  ASSUME Structure, NEW m \in Modules, NEW t \in Modules \cup {Root}, NEW n \in Names,
         MoveModule(m, t, n)
  PROVE  Structure'
<1>1. m \in Items /\ kind[m] = "module" /\ t \in Items \cup {Root} /\ order[m] \in Nat
  BY DEF Modules, IsModule, Structure, TypeOK
<1>2. t # Root => kind[t] = "module" /\ project[t] = project[m]
  BY DEF MoveModule, MoveModuleAllowed, Modules, IsModule
<1>3. order' \in [Items -> Nat]
  BY <1>1, MoveEffectType DEF MoveModule
<1> QED
  BY <1>1, <1>2, <1>3, UpdateStructure DEF MoveModule, MoveEffect

\* A feature is moved into a module.
LEMMA MoveFeatureStructure ==
  ASSUME Structure, NEW f \in Items, NEW m \in Modules, NEW n \in Names,
         MoveFeature(f, m, n)
  PROVE  Structure'
<1>1. /\ m \in Items /\ kind[m] = "module" /\ m # Root
      /\ order[f] \in Nat /\ kind[f] = "feature"
  BY DEF Modules, IsModule, Structure, TypeOK, Items, Root, MoveFeature,
         MoveFeatureAllowed, FeatureAvailable, LiveFeature, IsFeature
<1>2. order' \in [Items -> Nat]
  BY <1>1, MoveEffectType DEF MoveFeature
<1> QED
  BY <1>1, <1>2, UpdateStructure DEF MoveFeature, MoveEffect

\* A feature rolled back keeps its module.
LEMMA RollbackFeatureStructure ==
  ASSUME Structure, NEW f \in Items, NEW v \in versions[f], RollbackFeature(f, v)
  PROVE  Structure'
<1>1. kind[f] = "feature" /\ v.name \in Names
  BY DEF RollbackFeature, FeatureAvailable, LiveFeature, IsFeature, Structure, TypeOK
<1>2. /\ parent' = [parent EXCEPT ![f] = parent[f]]
      /\ parent[f] \in Items \cup {Root}
      /\ order' \in [Items -> Nat]
  BY DEF RollbackFeature, Structure, TypeOK
<1>3. parent[f] # Root /\ kind[parent[f]] = "module"
  BY <1>1 DEF Structure, RowsComplete, ParentIsModule
<1> QED
  BY <1>1, <1>2, <1>3, UpdateStructure DEF RollbackFeature

\* A module rolled back gets a parent that was recorded in its project.
LEMMA RollbackModuleStructure ==
  ASSUME Structure, NEW m \in Modules, NEW v \in versions[m], RollbackModule(m, v)
  PROVE  Structure'
<1>1. m \in Items /\ kind[m] = "module" /\ v.name \in Names /\ v.parent \in Items \cup {Root}
  BY DEF Modules, IsModule, Structure, TypeOK
<1>2. v.parent # Root => kind[v.parent] = "module" /\ project[v.parent] = project[m]
  BY <1>1 DEF Structure, VersionsInProject
<1>3. order' \in [Items -> Nat]
  BY DEF RollbackModule, Structure, TypeOK
<1> QED
  BY <1>1, <1>2, <1>3, UpdateStructure DEF RollbackModule

\* What a snapshot records is in the project of the row.
LEMMA SnapshotStructure ==
  ASSUME Structure, NEW i \in Items, Snapshot(i)
  PROVE  Structure'
<1>1. kind[i] # "none"
  BY DEF Snapshot, Available, ModuleAvailable, FeatureAvailable, LiveModule,
         LiveFeature, Live, LiveIn
<1>2. Recorded(i) \in [name : Names, parent : Items \cup {Root}]
  BY <1>1 DEF Recorded, Structure, TypeOK, RowsComplete
<1>3. versions' = [versions EXCEPT ![i] = versions[i] \cup {Recorded(i)}]
  BY DEF Snapshot
<1>4. UNCHANGED <<treeVars, published>>
  BY DEF Snapshot
<1>5. TypeOK'
  <2>1. versions' \in [Items -> SUBSET [name : Names, parent : Items \cup {Root}]]
    BY <1>2, <1>3 DEF Structure, TypeOK
  <2> QED
    BY <1>4, <2>1 DEF Structure, TypeOK, treeVars
<1>6. RowsComplete'
  BY <1>1, <1>3, <1>4 DEF Structure, TypeOK, RowsComplete, treeVars
<1>7. ParentIsModule' /\ ParentInSameProject'
  BY <1>4 DEF treeVars, Structure, ParentIsModule, ParentInSameProject, Modules, IsModule
<1>8. VersionsInProject'
  <2> SUFFICES ASSUME NEW m \in Items, NEW v \in versions'[m], v.parent # Root
               PROVE  /\ kind[m] = "module"
                      /\ kind[v.parent] = "module"
                      /\ project[v.parent] = project[m]
    BY <1>4 DEF VersionsInProject, treeVars
  <2>1. CASE v \in versions[m]
    BY <2>1 DEF Structure, VersionsInProject
  <2>2. CASE v \notin versions[m]
    <3>1. m = i /\ v = Recorded(i)
      BY <1>3, <2>2 DEF Structure, TypeOK
    <3>2. IsModule(i) /\ v.parent = parent[i]
      BY <3>1 DEF Recorded
    <3> QED
      BY <3>1, <3>2 DEF IsModule, Modules, Structure, ParentIsModule, ParentInSameProject
  <2> QED
    BY <2>1, <2>2
<1> QED
  BY <1>5, <1>6, <1>7, <1>8 DEF Structure

\* Exchanging two orders after renumbering gives natural orders.
LEMMA SwapEffectType ==
  ASSUME Structure, NEW i \in Items, NEW pr, NEW p, NEW dir, SwapEffect(i, pr, p, dir)
  PROVE  order' \in [Items -> Nat]
<1> DEFINE ord == Normalized(order, Contents(pr, p))
<1>1. Contents(pr, p) \subseteq Items
  BY DEF Contents, ContentsIn
<1>2. ord \in [Items -> Nat]
  BY <1>1, NormalizedType DEF Structure, TypeOK
<1> HIDE DEF ord
<1>3. PICK j \in Neighbours(ord, Contents(pr, p), i, dir) :
         order' = [ord EXCEPT ![i] = ord[j], ![j] = ord[i]]
  BY DEF SwapEffect, ord
<1>4. j \in Items
  BY <1>1 DEF Neighbours
<1> QED
  BY <1>2, <1>3, <1>4

\* Moving a row one place touches orders only.
LEMMA MoveOrderStructure ==
  ASSUME Structure, NEW i \in Items, NEW dir,
         MoveModuleOrder(i, dir) \/ MoveFeatureOrder(i, dir)
  PROVE  Structure'
<1>1. PICK pr, p : SwapEffect(i, pr, p, dir)
  BY DEF MoveModuleOrder, MoveFeatureOrder
<1>2. order' \in [Items -> Nat]
  BY <1>1, SwapEffectType
<1>3. UNCHANGED <<kind, name, project, parent, deletedAt, projectDeletedAt, versionVars>>
  BY <1>1 DEF SwapEffect
<1> QED
  BY <1>2, <1>3, FrameKeepsStructure DEF Structure, TypeOK, RowsComplete, versionVars

\* Deleting and restoring write deletion times only, and orders.
LEMMA DeletedType ==
  ASSUME Structure, NEW S, NEW t \in 1..MaxClock
  PROVE  /\ Deleted(S, t) \in [Items -> 0..MaxClock]
         /\ \A i \in Items : kind[i] = "none" => Deleted(S, t)[i] = 0
  BY BoundsAssumption DEF Structure, TypeOK, RowsComplete, Deleted, Live, LiveIn

\* Bringing rows back clears deletion times.
LEMMA RestoredType ==
  ASSUME Structure, NEW S, NEW cutoff
  PROVE  /\ Restored(S, cutoff) \in [Items -> 0..MaxClock]
         /\ \A i \in Items : kind[i] = "none" => Restored(S, cutoff)[i] = 0
  BY BoundsAssumption DEF Structure, TypeOK, RowsComplete, Restored

\* Deleting touches deletion times only.
LEMMA DeleteStructure ==
  ASSUME Structure, NEW S, NEW t \in 1..MaxClock, deletedAt' = Deleted(S, t),
         UNCHANGED <<kind, name, project, parent, order, versionVars>>,
         projectDeletedAt' \in [Projects -> 0..MaxClock]
  PROVE  Structure'
  BY DeletedType, FrameKeepsStructure DEF Structure, TypeOK, versionVars

\* Restoring modules touches deletion times and orders only.
LEMMA RestoreEffectStructure ==
  ASSUME Structure, NEW m, NEW S, NEW cutoff, NEW p, RestoreEffect(m, S, cutoff, p)
  PROVE  Structure'
<1> DEFINE del == Restored(WithFeatures(S), cutoff)
           siblings(i) == ContentsIn(del, project[m], parent[i])
<1>1. deletedAt' = del
  BY DEF RestoreEffect
<1>2. order' = [i \in Items |->
                  IF parent[i] \in S \cup {p} /\ i \in siblings(i)
                  THEN Rank(order, siblings(i), i) ELSE order[i]]
  BY DEF RestoreEffect
<1>3. del \in [Items -> 0..MaxClock] /\ \A i \in Items : kind[i] = "none" => del[i] = 0
  BY RestoredType
<1>4. \A i \in Items : Rank(order, siblings(i), i) \in Nat
  <2>1. \A i \in Items : siblings(i) \subseteq Items
    BY DEF ContentsIn
  <2> QED
    BY <2>1, RankIsNat
<1> HIDE DEF del, siblings
<1>5. order' \in [Items -> Nat]
  BY <1>2, <1>4 DEF Structure, TypeOK
<1>6. UNCHANGED <<kind, name, project, parent, projectDeletedAt, versionVars>>
  BY DEF RestoreEffect
<1> QED
  BY <1>1, <1>3, <1>5, <1>6, FrameKeepsStructure DEF Structure, TypeOK, versionVars

\* Restoring a feature clears its deletion time.
LEMMA RestoreFeatureStructure ==
  ASSUME Structure, NEW f \in Items, RestoreFeature(f)
  PROVE  Structure'
<1>1. /\ deletedAt' \in [Items -> 0..MaxClock]
      /\ \A i \in Items : kind[i] = "none" => deletedAt'[i] = 0
  BY BoundsAssumption DEF RestoreFeature, Structure, TypeOK, RowsComplete
<1> QED
  BY <1>1, FrameKeepsStructure DEF RestoreFeature, Structure, TypeOK, versionVars

\* Removing and restoring a project touch deletion times only.
LEMMA RestoreProjectStructure ==
  ASSUME Structure, NEW pr \in Projects, RestoreProject(pr)
  PROVE  Structure'
<1>1. projectDeletedAt' \in [Projects -> 0..MaxClock]
  BY BoundsAssumption DEF RestoreProject, Structure, TypeOK
<1>2. /\ deletedAt' \in [Items -> 0..MaxClock]
      /\ \A i \in Items : kind[i] = "none" => deletedAt'[i] = 0
  BY RestoredType DEF RestoreProject
<1> QED
  BY <1>1, <1>2, FrameKeepsStructure DEF RestoreProject, Structure, TypeOK, versionVars

\* Publishing marks a row.
LEMMA PublishStructure ==
  ASSUME Structure, NEW i \in Items, Publish(i)
  PROVE  Structure'
<1>1. published' \in [Items -> BOOLEAN]
  BY DEF Publish, Structure, TypeOK
<1> QED
  BY <1>1, FrameKeepsStructure DEF Publish, treeVars, Structure, TypeOK, RowsComplete

\* Every request keeps the rows well formed.
LEMMA StructureInductive ==
  ASSUME Structure, [TreeNext \/ RollbackNext]_vars
  PROVE  Structure'
<1>1. ASSUME NEW i \in Items, NEW pr \in Projects, NEW p \in Modules \cup {Root},
             NEW n \in Names, CreateModule(i, pr, p, n)
      PROVE  Structure'
  BY <1>1, CreateModuleStructure
<1>2. ASSUME NEW i \in Items, NEW m \in Modules, NEW n \in Names, CreateFeature(i, m, n)
      PROVE  Structure'
  BY <1>2, CreateFeatureStructure
<1>3. ASSUME NEW i \in Items, NEW n \in Names, Rename(i, n)
      PROVE  Structure'
  BY <1>3, RenameStructure
<1>4. ASSUME NEW m \in Modules, NEW t \in Modules \cup {Root}, NEW n \in Names,
             MoveModule(m, t, n)
      PROVE  Structure'
  BY <1>4, MoveModuleStructure
<1>5. ASSUME NEW f \in Items, NEW m \in Modules, NEW n \in Names, MoveFeature(f, m, n)
      PROVE  Structure'
  BY <1>5, MoveFeatureStructure
<1>6. ASSUME NEW m \in Modules, NEW dir \in Directions, MoveModuleOrder(m, dir)
      PROVE  Structure'
  <2>1. m \in Items
    BY DEF Modules
  <2> QED
    BY <1>6, <2>1, MoveOrderStructure
<1>7. ASSUME NEW f \in Items, NEW dir \in Directions, MoveFeatureOrder(f, dir)
      PROVE  Structure'
  BY <1>7, MoveOrderStructure
<1>8. ASSUME NEW m \in Modules, NEW cascade \in BOOLEAN, NEW force \in BOOLEAN,
             DeleteModule(m, cascade, force)
      PROVE  Structure'
  <2>1. PICK t \in 1..MaxClock :
           deletedAt' = Deleted(WithFeatures(DoomedModules(m, cascade)), t)
    BY <1>8 DEF DeleteModule
  <2> QED
    BY <1>8, <2>1, DeleteStructure DEF DeleteModule, Structure, TypeOK
<1>9. ASSUME NEW f \in Items, NEW force \in BOOLEAN, DeleteFeature(f, force)
      PROVE  Structure'
  <2>1. PICK t \in 1..MaxClock : deletedAt' = Deleted({f}, t)
    BY <1>9 DEF DeleteFeature
  <2> QED
    BY <1>9, <2>1, DeleteStructure DEF DeleteFeature, Structure, TypeOK
<1>10. ASSUME NEW m \in Modules, RestoreModule(m)
       PROVE  Structure'
  BY <1>10, RestoreEffectStructure DEF RestoreModule
<1>11. ASSUME NEW f \in Items, RestoreFeature(f)
       PROVE  Structure'
  BY <1>11, RestoreFeatureStructure
<1>12. ASSUME NEW pr \in Projects, RemoveProject(pr)
       PROVE  Structure'
  <2>1. PICK t \in 1..MaxClock :
           /\ projectDeletedAt' = [projectDeletedAt EXCEPT ![pr] = t]
           /\ deletedAt' = Deleted(InProject(pr), t)
    BY <1>12 DEF RemoveProject
  <2>2. projectDeletedAt' \in [Projects -> 0..MaxClock]
    BY <2>1, BoundsAssumption DEF Structure, TypeOK
  <2> QED
    BY <1>12, <2>1, <2>2, DeleteStructure DEF RemoveProject
<1>13. ASSUME NEW pr \in Projects, RestoreProject(pr)
       PROVE  Structure'
  BY <1>13, RestoreProjectStructure
<1>14. ASSUME NEW i \in Items, Snapshot(i)
       PROVE  Structure'
  BY <1>14, SnapshotStructure
<1>15. ASSUME NEW i \in Items, Publish(i)
       PROVE  Structure'
  BY <1>15, PublishStructure
<1>16. ASSUME NEW f \in Items, NEW v \in versions[f], RollbackFeature(f, v)
       PROVE  Structure'
  BY <1>16, RollbackFeatureStructure
<1>17. ASSUME NEW m \in Modules, NEW v \in versions[m], RollbackModule(m, v)
       PROVE  Structure'
  BY <1>17, RollbackModuleStructure
<1>18. CASE UNCHANGED vars
  BY <1>18, FrameKeepsStructure DEF vars, treeVars, versionVars, Structure, TypeOK, RowsComplete
<1> QED
  BY <1>1, <1>2, <1>3, <1>4, <1>5, <1>6, <1>7, <1>8, <1>9, <1>10, <1>11, <1>12, <1>13,
     <1>14, <1>15, <1>16, <1>17, <1>18 DEF TreeNext, RollbackNext

\* The rows of the tables are well formed in every reachable state: what every
\* other proof rests on.  (schema.prisma:282)
THEOREM StructureAlways == Spec => []Structure
<1>1. Init => Structure
  BY InitStructure
<1>2. Structure /\ [TreeNext \/ RollbackNext]_vars => Structure'
  BY StructureInductive
<1> QED
  BY <1>1, <1>2, PTL DEF Spec

\* The rows keep their types.  (modules.service.ts, features.service.ts)
THEOREM TypeCorrect == Spec => []TypeOK
<1>1. Structure => TypeOK
  BY DEF Structure
<1> QED
  BY <1>1, StructureAlways, PTL

\* A module stays in the project of its parent through moves (checked by
\* update(), modules.service.ts:607) and through rollbacks, which check
\* nothing: every parent a version ever recorded was in the same project.
THEOREM ParentInSameProjectAlways == Spec => []ParentInSameProject
<1>1. Structure => ParentInSameProject
  BY DEF Structure
<1> QED
  BY <1>1, StructureAlways, PTL

-----------------------------------------------------------------------------
(* The search of a subtree.                                                *)

\* A module is in its own subtree.
LEMMA SubtreeSelf ==
  ASSUME NEW m \in Items, NEW inc \in BOOLEAN
  PROVE  m \in Subtree(m, inc)
  BY DEF Subtree

\* What contains m and is closed downwards contains its subtree.
LEMMA SubtreeLeast ==
  ASSUME NEW m \in Items, NEW inc \in BOOLEAN, NEW S \in SUBSET Items,
         m \in S, ClosedDown(S, inc)
  PROVE  Subtree(m, inc) \subseteq S
  BY DEF Subtree

\* With a module, a subtree holds the modules followed below it.
LEMMA SubtreeClosedDown ==
  ASSUME NEW m \in Items, NEW inc \in BOOLEAN
  PROVE  ClosedDown(Subtree(m, inc), inc)
<1> SUFFICES ASSUME NEW x \in Items, Followed(x, inc), parent[x] \in Subtree(m, inc),
                    NEW S \in SUBSET Items, m \in S, ClosedDown(S, inc)
             PROVE  x \in S
  BY DEF ClosedDown, Subtree
<1>1. parent[x] \in S
  BY SubtreeLeast
<1> QED
  BY <1>1 DEF ClosedDown

\* What is below m was followed from a parent that is in the subtree.
LEMMA SubtreeParent ==
  ASSUME NEW m \in Items, NEW inc \in BOOLEAN, NEW x \in Subtree(m, inc), x # m
  PROVE  Followed(x, inc) /\ parent[x] \in Subtree(m, inc)
<1> DEFINE S == {y \in Subtree(m, inc) :
                   y = m \/ (Followed(y, inc) /\ parent[y] \in Subtree(m, inc))}
<1>1. S \in SUBSET Items /\ m \in S
  BY SubtreeSelf DEF Subtree
<1>2. ClosedDown(S, inc)
  BY SubtreeClosedDown DEF ClosedDown
<1>3. x \in S
  BY <1>1, <1>2, SubtreeLeast
<1> QED
  BY <1>3

\* The subtree of a module holds modules of its project.
LEMMA SubtreeInProject ==
  ASSUME Structure, NEW m \in Modules, NEW inc \in BOOLEAN
  PROVE  \A x \in Subtree(m, inc) : x \in Modules /\ project[x] = project[m]
<1> DEFINE S == {x \in Modules : project[x] = project[m]}
<1>1. S \in SUBSET Items /\ m \in S /\ m \in Items
  BY DEF Modules
<1>2. ClosedDown(S, inc)
  <2> SUFFICES ASSUME NEW x \in Items, Followed(x, inc), parent[x] \in S
               PROVE  x \in S
    BY DEF ClosedDown
  <2>1. x \in Modules
    BY DEF Followed, Modules
  <2>2. parent[x] # Root
    BY DEF Modules, Items, Root
  <2> QED
    BY <2>1, <2>2 DEF Structure, ParentInSameProject
<1> HIDE DEF S
<1>3. Subtree(m, inc) \subseteq S
  BY <1>1, <1>2, SubtreeLeast
<1> QED
  BY <1>3 DEF S

-----------------------------------------------------------------------------
(* What is deleted with what.                                              *)

\* A row in a deleted module was deleted, with it or before it.  The times
\* matter: they are why a restoration that brings a row back, because it went
\* at the cutoff or later, also brings back the module it is in.
GoesWithParent(kinds) ==
  \A i \in Items :
    kind[i] \in kinds /\ parent[i] # Root /\ deletedAt[parent[i]] # 0 =>
      deletedAt[i] # 0 /\ deletedAt[i] <= deletedAt[parent[i]]

Rows == {"module", "feature"}

\* The time of a deletion is later than every time that is stored.
LEMMA NowIsLatest ==
  ASSUME Structure, NEW t, Now(t)
  PROVE  t \in 1..MaxClock /\ \A i \in Items : deletedAt[i] < t
  BY DEF Now, Stamps

\* Marking a set that, with a module, holds what is live in it.
LEMMA DeleteGoesWithParent ==
  ASSUME Structure, NEW kinds, GoesWithParent(kinds), NEW S, NEW t, Now(t),
         deletedAt' = Deleted(S, t), UNCHANGED <<kind, parent>>,
         \A i \in Items : kind[i] \in kinds /\ Live(i) /\ parent[i] \in S => i \in S
  PROVE  GoesWithParent(kinds)'
<1> SUFFICES ASSUME NEW i \in Items, kind[i] \in kinds, parent[i] # Root,
                    deletedAt'[parent[i]] # 0
             PROVE  deletedAt'[i] # 0 /\ deletedAt'[i] <= deletedAt'[parent[i]]
  BY DEF GoesWithParent
<1>1. parent[i] \in Items /\ kind[parent[i]] = "module"
  BY DEF Structure, TypeOK, ParentIsModule
<1>2. /\ t \in Nat /\ t # 0
      /\ deletedAt[i] \in Nat /\ deletedAt[parent[i]] \in Nat
      /\ deletedAt[i] < t /\ deletedAt[parent[i]] < t
  BY <1>1, NowIsLatest DEF Structure, TypeOK
<1>3. kind[i] # "none"
  BY DEF Structure, RowsComplete
<1>4. CASE deletedAt[parent[i]] # 0
  BY <1>1, <1>2, <1>4 DEF GoesWithParent, Deleted, Live, LiveIn
<1>5. CASE deletedAt[parent[i]] = 0
  <2>1. parent[i] \in S /\ deletedAt'[parent[i]] = t
    BY <1>1, <1>5 DEF Deleted
  <2>2. CASE deletedAt[i] = 0
    BY <1>2, <1>3, <2>1, <2>2 DEF Deleted, Live, LiveIn
  <2>3. CASE deletedAt[i] # 0
    BY <1>2, <2>1, <2>3 DEF Deleted, Live, LiveIn
  <2> QED
    BY <2>2, <2>3
<1> QED
  BY <1>4, <1>5

\* Bringing back a set that, with a row, holds the module it is in or finds
\* that module live.
LEMMA RestoreGoesWithParent ==
  ASSUME Structure, NEW kinds, GoesWithParent(kinds), NEW S, NEW cutoff \in Nat,
         deletedAt' = Restored(S, cutoff), UNCHANGED <<kind, parent>>,
         \A i \in S : kind[i] \in kinds /\ parent[i] # Root =>
           parent[i] \in S \/ deletedAt[parent[i]] = 0
  PROVE  GoesWithParent(kinds)'
<1> SUFFICES ASSUME NEW i \in Items, kind[i] \in kinds, parent[i] # Root,
                    deletedAt'[parent[i]] # 0
             PROVE  deletedAt'[i] # 0 /\ deletedAt'[i] <= deletedAt'[parent[i]]
  BY DEF GoesWithParent
<1>1. /\ parent[i] \in Items
      /\ deletedAt[i] \in Nat /\ deletedAt[parent[i]] \in Nat
  BY DEF Structure, TypeOK
<1>2. deletedAt'[parent[i]] = deletedAt[parent[i]] /\ deletedAt[parent[i]] # 0
  BY <1>1 DEF Restored
<1>3. deletedAt[i] # 0 /\ deletedAt[i] <= deletedAt[parent[i]]
  BY <1>2 DEF GoesWithParent
<1>4. ~ (i \in S /\ deletedAt[i] >= cutoff)
  BY <1>1, <1>2, <1>3 DEF Restored
<1> QED
  BY <1>2, <1>3, <1>4 DEF Restored

\* Putting a row in a live module, or at the top.
LEMMA PutGoesWithParent ==
  ASSUME Structure, NEW kinds, GoesWithParent(kinds), NEW i \in Items, NEW p,
         p # Root => deletedAt[p] = 0,
         parent' = [parent EXCEPT ![i] = p],
         \A j \in Items \ {i} : kind'[j] = kind[j],
         UNCHANGED deletedAt
  PROVE  GoesWithParent(kinds)'
  BY DEF GoesWithParent, Structure, TypeOK

\* Requests that leave kinds, parents and deletion times alone.
LEMMA SameGoesWithParent ==
  ASSUME NEW kinds, GoesWithParent(kinds), UNCHANGED <<kind, parent, deletedAt>>
  PROVE  GoesWithParent(kinds)'
  BY DEF GoesWithParent

\* The modules a deletion takes are closed under live content.
LEMMA DoomedClosed ==
  ASSUME Structure, NEW m \in Modules, NEW cascade \in BOOLEAN, NEW force \in BOOLEAN,
         DeleteModuleAllowed(m, cascade, force),
         NEW i \in Items, Live(i),
         parent[i] \in WithFeatures(DoomedModules(m, cascade))
  PROVE  i \in WithFeatures(DoomedModules(m, cascade))
<1> DEFINE D == DoomedModules(m, cascade)
<1>1. m \in Items
  BY DEF Modules
<1>2. parent[i] \in D
  <2>1. parent[i] \in Items => kind[parent[i]] = "module"
    BY DEF Structure, ParentIsModule, Items, Root
  <2> QED
    BY <2>1 DEF WithFeatures, IsFeature
<1>3. CASE cascade
  <2>1. D = Subtree(m, FALSE)
    BY <1>3 DEF DoomedModules
  <2>2. IsModule(i) => i \in D
    BY <1>1, <1>2, <2>1, SubtreeClosedDown DEF ClosedDown, Followed, Live, LiveIn
  <2>3. IsModule(i) \/ IsFeature(i)
    BY DEF Live, LiveIn, Structure, TypeOK, IsModule, IsFeature
  <2> QED
    BY <1>2, <2>2, <2>3 DEF WithFeatures
<1>4. CASE ~ cascade
  BY <1>2, <1>4 DEF DoomedModules, DeleteModuleAllowed
<1> QED
  BY <1>3, <1>4

\* Restoring a module below a live one brings no row back alone.
LEMMA RestoreModuleGoesWithParent ==
  ASSUME Structure, NEW kinds, GoesWithParent(kinds), NEW m \in Modules, RestoreModule(m)
  PROVE  GoesWithParent(kinds)'
<1> DEFINE S == Subtree(m, TRUE)
<1>1. m \in Items /\ deletedAt[m] \in Nat
  BY DEF Modules, Structure, TypeOK
<1>2. deletedAt' = Restored(WithFeatures(S), deletedAt[m]) /\ UNCHANGED <<kind, parent>>
  BY DEF RestoreModule, RestoreEffect
<1>3. \A i \in WithFeatures(S) : parent[i] # Root =>
        parent[i] \in WithFeatures(S) \/ deletedAt[parent[i]] = 0
  <2> SUFFICES ASSUME NEW i \in WithFeatures(S), parent[i] # Root
               PROVE  parent[i] \in S \/ deletedAt[parent[i]] = 0
    BY DEF WithFeatures
  <2>1. CASE i = m
    BY <2>1 DEF RestoreModule, RestoreModuleAllowed, LiveModule, Live, LiveIn
  <2>2. CASE i \in S /\ i # m
    BY <1>1, <2>2, SubtreeParent
  <2>3. CASE i \notin S
    BY <2>3 DEF WithFeatures
  <2> QED
    BY <2>1, <2>2, <2>3
<1> QED
  BY <1>1, <1>2, <1>3, RestoreGoesWithParent

\* Every request but the rollback of a module keeps it, for rows of any kind.
LEMMA GoesWithParentInductive ==
  ASSUME Structure, NEW kinds, kinds \subseteq Rows, GoesWithParent(kinds), TreeNext
  PROVE  GoesWithParent(kinds)'
<1> USE DEF versionVars, treeVars
<1>1. ASSUME NEW i \in Items, NEW pr \in Projects, NEW p \in Modules \cup {Root},
             NEW n \in Names, CreateModule(i, pr, p, n)
      PROVE  GoesWithParent(kinds)'
  <2>1. p # Root => deletedAt[p] = 0
    BY <1>1 DEF CreateModule, LiveModule, Live, LiveIn
  <2>2. \A j \in Items \ {i} : kind'[j] = kind[j]
    BY <1>1 DEF CreateModule, Structure, TypeOK
  <2> QED
    BY <1>1, <2>1, <2>2, PutGoesWithParent DEF CreateModule
<1>2. ASSUME NEW i \in Items, NEW m \in Modules, NEW n \in Names, CreateFeature(i, m, n)
      PROVE  GoesWithParent(kinds)'
  <2>1. deletedAt[m] = 0
    BY <1>2 DEF CreateFeature, ModuleAvailable, LiveModule, Live, LiveIn
  <2>2. \A j \in Items \ {i} : kind'[j] = kind[j]
    BY <1>2 DEF CreateFeature, Structure, TypeOK
  <2> QED
    BY <1>2, <2>1, <2>2, PutGoesWithParent DEF CreateFeature
<1>3. ASSUME NEW i \in Items, NEW n \in Names, Rename(i, n)
      PROVE  GoesWithParent(kinds)'
  BY <1>3, SameGoesWithParent DEF Rename
<1>4. ASSUME NEW m \in Modules, NEW t \in Modules \cup {Root}, NEW n \in Names,
             MoveModule(m, t, n)
      PROVE  GoesWithParent(kinds)'
  <2>1. m \in Items /\ (t # Root => deletedAt[t] = 0)
    BY <1>4 DEF Modules, MoveModule, MoveModuleAllowed, ModuleAvailable, LiveModule, Live, LiveIn
  <2> QED
    BY <1>4, <2>1, PutGoesWithParent DEF MoveModule, MoveEffect
<1>5. ASSUME NEW f \in Items, NEW m \in Modules, NEW n \in Names, MoveFeature(f, m, n)
      PROVE  GoesWithParent(kinds)'
  <2>1. deletedAt[m] = 0
    BY <1>5 DEF MoveFeature, MoveFeatureAllowed, ModuleAvailable, LiveModule, Live, LiveIn
  <2> QED
    BY <1>5, <2>1, PutGoesWithParent DEF MoveFeature, MoveEffect
<1>6. ASSUME NEW m \in Modules, NEW dir \in Directions, MoveModuleOrder(m, dir)
      PROVE  GoesWithParent(kinds)'
  BY <1>6, SameGoesWithParent DEF MoveModuleOrder, SwapEffect
<1>7. ASSUME NEW f \in Items, NEW dir \in Directions, MoveFeatureOrder(f, dir)
      PROVE  GoesWithParent(kinds)'
  BY <1>7, SameGoesWithParent DEF MoveFeatureOrder, SwapEffect
<1>8. ASSUME NEW m \in Modules, NEW cascade \in BOOLEAN, NEW force \in BOOLEAN,
             DeleteModule(m, cascade, force)
      PROVE  GoesWithParent(kinds)'
  <2> DEFINE S == WithFeatures(DoomedModules(m, cascade))
  <2>1. PICK t \in 1..MaxClock : Now(t) /\ deletedAt' = Deleted(S, t)
    BY <1>8 DEF DeleteModule
  <2>2. \A i \in Items : Live(i) /\ parent[i] \in S => i \in S
    BY <1>8, DoomedClosed DEF DeleteModule
  <2>3. UNCHANGED <<kind, parent>>
    BY <1>8 DEF DeleteModule
  <2> QED
    BY <2>1, <2>2, <2>3, DeleteGoesWithParent
<1>9. ASSUME NEW f \in Items, NEW force \in BOOLEAN, DeleteFeature(f, force)
      PROVE  GoesWithParent(kinds)'
  <2>1. PICK t \in 1..MaxClock : Now(t) /\ deletedAt' = Deleted({f}, t)
    BY <1>9 DEF DeleteFeature
  <2>2. \A i \in Items : parent[i] # f
    BY <1>9 DEF DeleteFeature, FeatureAvailable, LiveFeature, IsFeature, Structure,
                ParentIsModule, Items, Root
  <2>3. UNCHANGED <<kind, parent>>
    BY <1>9 DEF DeleteFeature
  <2> QED
    BY <2>1, <2>2, <2>3, DeleteGoesWithParent
<1>10. ASSUME NEW m \in Modules, RestoreModule(m)
       PROVE  GoesWithParent(kinds)'
  BY <1>10, RestoreModuleGoesWithParent
<1>11. ASSUME NEW f \in Items, RestoreFeature(f)
       PROVE  GoesWithParent(kinds)'
  <2>1. kind[f] = "feature" /\ deletedAt[parent[f]] = 0
    BY <1>11 DEF RestoreFeature, ModuleAvailable, LiveModule, Live, LiveIn, IsFeature
  <2>2. \A i \in Items : parent[i] # f
    BY <2>1 DEF Structure, ParentIsModule, Items, Root
  <2>3. \A i \in Items \ {f} : deletedAt'[i] = deletedAt[i]
    BY <1>11 DEF RestoreFeature, Structure, TypeOK
  <2>4. UNCHANGED <<kind, parent>>
    BY <1>11 DEF RestoreFeature
  <2>5. \A i \in Items : parent[i] # Root => parent[i] \in Items \ {f}
    BY <2>2 DEF Structure, TypeOK
  <2> QED
    BY <2>1, <2>3, <2>4, <2>5 DEF GoesWithParent
<1>12. ASSUME NEW pr \in Projects, RemoveProject(pr)
       PROVE  GoesWithParent(kinds)'
  <2>1. PICK t \in 1..MaxClock : Now(t) /\ deletedAt' = Deleted(InProject(pr), t)
    BY <1>12 DEF RemoveProject
  <2>2. \A i \in Items : Live(i) /\ parent[i] \in InProject(pr) => i \in InProject(pr)
    BY DEF InProject, ProjectOf, Structure, TypeOK, RowsComplete, ParentIsModule,
           ParentInSameProject, Live, LiveIn, IsFeature, IsModule, Modules, Items, Root
  <2>3. UNCHANGED <<kind, parent>>
    BY <1>12 DEF RemoveProject
  <2> QED
    BY <2>1, <2>2, <2>3, DeleteGoesWithParent
<1>13. ASSUME NEW pr \in Projects, RestoreProject(pr)
       PROVE  GoesWithParent(kinds)'
  <2>1. /\ deletedAt' = Restored(InProject(pr), projectDeletedAt[pr])
        /\ projectDeletedAt[pr] \in Nat
        /\ UNCHANGED <<kind, parent>>
    BY <1>13 DEF RestoreProject, Structure, TypeOK
  <2>2. \A i \in InProject(pr) : parent[i] # Root => parent[i] \in InProject(pr)
    BY DEF InProject, ProjectOf, Structure, TypeOK, ParentIsModule,
           ParentInSameProject, IsFeature, IsModule, Modules
  <2> QED
    BY <2>1, <2>2, RestoreGoesWithParent
<1>14. ASSUME NEW i \in Items, Snapshot(i) \/ Publish(i)
       PROVE  GoesWithParent(kinds)'
  BY <1>14, SameGoesWithParent DEF Snapshot, Publish
<1>15. ASSUME NEW f \in Items, NEW v \in versions[f], RollbackFeature(f, v)
       PROVE  GoesWithParent(kinds)'
  BY <1>15, SameGoesWithParent DEF RollbackFeature
<1> QED
  BY <1>1, <1>2, <1>3, <1>4, <1>5, <1>6, <1>7, <1>8, <1>9, <1>10, <1>11, <1>12, <1>13,
     <1>14, <1>15 DEF TreeNext

\* Rolling back a module may put it in a deleted one, but takes no feature.
LEMMA RollbackGoesWithParent ==
  ASSUME Structure, GoesWithParent({"feature"}), NEW m \in Modules, NEW v \in versions[m],
         RollbackModule(m, v)
  PROVE  GoesWithParent({"feature"})'
<1>1. \A i \in Items : kind[i] = "feature" => parent'[i] = parent[i]
  BY DEF RollbackModule, Modules, IsModule, Structure, TypeOK
<1> QED
  BY <1>1 DEF RollbackModule, GoesWithParent

\* Every request, rollbacks too, keeps features with their modules.
LEMMA FeatureGoesWithModuleInductive ==
  ASSUME Structure, GoesWithParent({"feature"}), [TreeNext \/ RollbackNext]_vars
  PROVE  GoesWithParent({"feature"})'
<1>1. CASE TreeNext
  BY <1>1, GoesWithParentInductive DEF Rows
<1>2. CASE RollbackNext
  BY <1>2, RollbackGoesWithParent DEF RollbackNext
<1>3. CASE UNCHANGED vars
  BY <1>3, SameGoesWithParent DEF vars, treeVars
<1> QED
  BY <1>1, <1>2, <1>3

\* No request leaves a live feature in a deleted module, where every later
\* request on it would answer "Module not found".  (features.service.ts:104)
THEOREM LiveFeatureHasLiveModuleAlways == Spec => []LiveFeatureHasLiveModule
<1>1. Init => GoesWithParent({"feature"})
  BY DEF Init, GoesWithParent
<1>2. Structure /\ GoesWithParent({"feature"}) /\ [TreeNext \/ RollbackNext]_vars
        => GoesWithParent({"feature"})'
  BY FeatureGoesWithModuleInductive
<1>3. Structure /\ GoesWithParent({"feature"}) => LiveFeatureHasLiveModule
  BY DEF Structure, TypeOK, RowsComplete, ParentIsModule, GoesWithParent,
         LiveFeatureHasLiveModule, LiveFeature, LiveModule, Live, LiveIn, IsFeature, IsModule
<1> QED
  BY <1>1, <1>2, <1>3, StructureAlways, PTL DEF Spec

\* TreeSpec is Spec without some of its steps.
LEMMA TreeSpecSpec == TreeSpec => Spec
<1>1. [TreeNext]_vars => [TreeNext \/ RollbackNext]_vars
  OBVIOUS
<1> QED
  BY <1>1, PTL DEF TreeSpec, Spec

LEMMA TreeSpecStructure == TreeSpec => []Structure
  BY TreeSpecSpec, StructureAlways, PTL

\* What is deleted with what, as long as no module is rolled back.
LEMMA GoesWithParentAlways == TreeSpec => []GoesWithParent(Rows)
<1>1. Init => GoesWithParent(Rows)
  BY DEF Init, GoesWithParent
<1>2. Structure /\ GoesWithParent(Rows) /\ [TreeNext]_vars => GoesWithParent(Rows)'
  <2>1. Structure /\ GoesWithParent(Rows) /\ TreeNext => GoesWithParent(Rows)'
    BY GoesWithParentInductive
  <2>2. GoesWithParent(Rows) /\ UNCHANGED vars => GoesWithParent(Rows)'
    BY SameGoesWithParent DEF vars, treeVars
  <2> QED
    BY <2>1, <2>2
<1> QED
  BY <1>1, <1>2, TreeSpecStructure, PTL DEF TreeSpec

\* As long as no module is rolled back, a live module is never left below a
\* deleted one: what restore() refuses for one module (modules.service.ts:1025)
\* no sequence of creations, moves, deletions and restorations brings about.
THEOREM LiveModuleHasLiveParentAlways == TreeSpec => []LiveModuleHasLiveParent
<1>1. Structure /\ GoesWithParent(Rows) => LiveModuleHasLiveParent
  BY DEF Structure, TypeOK, ParentIsModule, GoesWithParent, Rows, Modules,
         LiveModuleHasLiveParent, LiveModule, Live, LiveIn, IsModule
<1> QED
  BY <1>1, TreeSpecStructure, GoesWithParentAlways, PTL

-----------------------------------------------------------------------------
(* Removed projects.                                                       *)

\* Every request keeps what is live in live projects.
LEMMA LiveRowHasLiveProjectInductive ==
  ASSUME Structure, LiveRowHasLiveProject, [TreeNext \/ RollbackNext]_vars
  PROVE  LiveRowHasLiveProject'
<1> SUFFICES ASSUME NEW x \in Items, Live(x)'
             PROVE  ProjectLive(ProjectOf(x))'
  BY DEF LiveRowHasLiveProject
<1>0. parent[x] # Root => parent[x] \in Items /\ kind[parent[x]] = "module"
  BY DEF Structure, TypeOK, ParentIsModule
<1> USE DEF versionVars, Live, LiveIn, ProjectLive, ProjectOf, IsModule, IsFeature, Modules
<1>1. ASSUME NEW i \in Items, NEW pr \in Projects, NEW p \in Modules \cup {Root},
             NEW n \in Names, CreateModule(i, pr, p, n)
      PROVE  ProjectLive(ProjectOf(x))'
  <2>1. kind[i] = "none"
    BY <1>1 DEF CreateModule, NextRow
  <2>2. CASE x = i
    BY <1>1, <2>2 DEF CreateModule, Structure, TypeOK
  <2>3. CASE x # i
    BY <1>1, <1>0, <2>1, <2>3 DEF CreateModule, Structure, TypeOK, RowsComplete, LiveRowHasLiveProject
  <2> QED
    BY <2>2, <2>3
<1>2. ASSUME NEW i \in Items, NEW m \in Modules, NEW n \in Names, CreateFeature(i, m, n)
      PROVE  ProjectLive(ProjectOf(x))'
  <2>1. CASE x = i
    BY <1>2, <2>1 DEF CreateFeature, ModuleAvailable, Structure, TypeOK
  <2>2. CASE x # i
    BY <1>2, <2>2 DEF CreateFeature, Structure, TypeOK, LiveRowHasLiveProject
  <2> QED
    BY <2>1, <2>2
<1>3. ASSUME NEW i \in Items, NEW n \in Names, Rename(i, n)
      PROVE  ProjectLive(ProjectOf(x))'
  BY <1>3 DEF Rename, LiveRowHasLiveProject
<1>4. ASSUME NEW m \in Modules, NEW t \in Modules \cup {Root}, NEW n \in Names,
             MoveModule(m, t, n)
      PROVE  ProjectLive(ProjectOf(x))'
  BY <1>4 DEF MoveModule, MoveEffect, Structure, TypeOK, LiveRowHasLiveProject
<1>5. ASSUME NEW f \in Items, NEW m \in Modules, NEW n \in Names, MoveFeature(f, m, n)
      PROVE  ProjectLive(ProjectOf(x))'
  <2>1. parent'[f] = m
    BY <1>5 DEF MoveFeature, MoveEffect, Structure, TypeOK
  <2>2. \A j \in Items \ {f} : parent'[j] = parent[j]
    BY <1>5 DEF MoveFeature, MoveEffect, Structure, TypeOK
  <2>3. UNCHANGED <<kind, project, deletedAt, projectDeletedAt>>
    BY <1>5 DEF MoveFeature, MoveEffect
  <2>4. kind[f] = "feature" /\ projectDeletedAt[project[m]] = 0
    BY <1>5 DEF MoveFeature, MoveFeatureAllowed, ModuleAvailable, FeatureAvailable, LiveFeature
  <2> QED
    BY <2>1, <2>2, <2>3, <2>4 DEF LiveRowHasLiveProject
<1>6. ASSUME NEW i \in Items, NEW dir \in Directions,
             MoveModuleOrder(i, dir) \/ MoveFeatureOrder(i, dir)
      PROVE  ProjectLive(ProjectOf(x))'
  BY <1>6 DEF MoveModuleOrder, MoveFeatureOrder, SwapEffect, LiveRowHasLiveProject
<1>7. ASSUME NEW S, NEW t \in 1..MaxClock, deletedAt' = Deleted(S, t),
             UNCHANGED <<kind, project, parent, projectDeletedAt>>
      PROVE  ProjectLive(ProjectOf(x))'
  <2>1. Live(x)
    BY <1>7 DEF Deleted, Structure, TypeOK
  <2> QED
    BY <1>7, <2>1 DEF LiveRowHasLiveProject
<1>8. ASSUME NEW m \in Modules, RestoreModule(m)
      PROVE  ProjectLive(ProjectOf(x))'
  <2> DEFINE S == Subtree(m, TRUE)
  <2>1. projectDeletedAt[project[m]] = 0
    BY <1>8 DEF RestoreModule, RestoreModuleAllowed
  <2>2. \A y \in S : kind[y] = "module" /\ project[y] = project[m]
    BY SubtreeInProject
  <2>3. \A y \in WithFeatures(S) : ProjectOf(y) = project[m]
    BY <2>2 DEF WithFeatures
  <2>4. deletedAt' = Restored(WithFeatures(S), deletedAt[m])
        /\ UNCHANGED <<kind, project, parent, projectDeletedAt>>
    BY <1>8 DEF RestoreModule, RestoreEffect
  <2>5. CASE x \in WithFeatures(S)
    BY <2>1, <2>3, <2>4, <2>5
  <2>6. CASE x \notin WithFeatures(S)
    BY <2>4, <2>6 DEF Restored, LiveRowHasLiveProject
  <2> QED
    BY <2>5, <2>6
<1>9. ASSUME NEW f \in Items, RestoreFeature(f)
      PROVE  ProjectLive(ProjectOf(x))'
  BY <1>9 DEF RestoreFeature, ModuleAvailable, Structure, TypeOK, LiveRowHasLiveProject
<1>10. ASSUME NEW pr \in Projects, RemoveProject(pr)
       PROVE  ProjectLive(ProjectOf(x))'
  <2>1. PICK t \in 1..MaxClock : deletedAt' = Deleted(InProject(pr), t)
    BY <1>10 DEF RemoveProject
  <2>2. UNCHANGED <<kind, project, parent>>
    BY <1>10 DEF RemoveProject
  <2>3. Live(x) /\ x \notin InProject(pr)
    BY <2>1, <2>2 DEF Deleted, Structure, TypeOK
  <2>4. ProjectOf(x) # pr
    BY <2>3 DEF InProject
  <2>5. \A q : q # pr => projectDeletedAt'[q] = projectDeletedAt[q]
    BY <1>10 DEF RemoveProject, Structure, TypeOK
  <2> QED
    BY <2>2, <2>3, <2>4, <2>5 DEF LiveRowHasLiveProject
<1>11. ASSUME NEW pr \in Projects, RestoreProject(pr)
       PROVE  ProjectLive(ProjectOf(x))'
  <2>1. UNCHANGED <<kind, project, parent>>
    BY <1>11 DEF RestoreProject
  <2>2. projectDeletedAt' = [projectDeletedAt EXCEPT ![pr] = 0]
    BY <1>11 DEF RestoreProject
  <2>3. CASE x \in InProject(pr)
    BY <2>1, <2>2, <2>3 DEF InProject, Structure, TypeOK
  <2>4. CASE x \notin InProject(pr)
    BY <1>11, <2>1, <2>2, <2>4 DEF RestoreProject, Restored, Structure, TypeOK, LiveRowHasLiveProject
  <2> QED
    BY <2>3, <2>4
<1>12. ASSUME UNCHANGED <<kind, project, parent, deletedAt, projectDeletedAt>>
       PROVE  ProjectLive(ProjectOf(x))'
  BY <1>12 DEF LiveRowHasLiveProject
<1>13. ASSUME NEW m \in Modules, NEW v \in versions[m], RollbackModule(m, v)
       PROVE  ProjectLive(ProjectOf(x))'
  BY <1>13 DEF RollbackModule, Structure, TypeOK, LiveRowHasLiveProject
<1>14. CASE TreeNext
  <2>1. ASSUME NEW m \in Modules, NEW cascade \in BOOLEAN, NEW force \in BOOLEAN,
               DeleteModule(m, cascade, force)
        PROVE  ProjectLive(ProjectOf(x))'
    BY <2>1, <1>7 DEF DeleteModule
  <2>2. ASSUME NEW f \in Items, NEW force \in BOOLEAN, DeleteFeature(f, force)
        PROVE  ProjectLive(ProjectOf(x))'
    BY <2>2, <1>7 DEF DeleteFeature
  <2>3. ASSUME NEW i \in Items, Snapshot(i) \/ Publish(i)
        PROVE  ProjectLive(ProjectOf(x))'
    BY <2>3, <1>12 DEF Snapshot, Publish, treeVars
  <2>4. ASSUME NEW f \in Items, NEW v \in versions[f], RollbackFeature(f, v)
        PROVE  ProjectLive(ProjectOf(x))'
    BY <2>4, <1>12 DEF RollbackFeature
  <2> QED
    BY <1>14, <1>1, <1>2, <1>3, <1>4, <1>5, <1>6, <1>8, <1>9, <1>10, <1>11,
       <2>1, <2>2, <2>3, <2>4 DEF TreeNext
<1>15. CASE RollbackNext
  BY <1>13, <1>15 DEF RollbackNext
<1>16. CASE UNCHANGED vars
  BY <1>12, <1>16 DEF vars, treeVars
<1> QED
  BY <1>14, <1>15, <1>16

\* Removing a project takes all of its rows, and nothing is created in it, or
\* comes back to it, before the project itself does.  (projects.service.ts:1508)
THEOREM LiveRowHasLiveProjectAlways == Spec => []LiveRowHasLiveProject
<1>1. Init => LiveRowHasLiveProject
  BY DEF Init, LiveRowHasLiveProject, Live, LiveIn
<1>2. Structure /\ LiveRowHasLiveProject /\ [TreeNext \/ RollbackNext]_vars
        => LiveRowHasLiveProject'
  BY LiveRowHasLiveProjectInductive
<1> QED
  BY <1>1, <1>2, StructureAlways, PTL DEF Spec

-----------------------------------------------------------------------------
(* No module is below itself.                                              *)

\* Leaving the parents of the modules as they are.
LEMMA SameParentsNoCycle ==
  ASSUME NoCycle, Modules' = Modules, \A m \in Modules : parent'[m] = parent[m]
  PROVE  NoCycle'
  BY DEF NoCycle

\* A new module is in nobody's place.
LEMMA AddedNoCycle ==
  ASSUME Structure, NoCycle, NEW i \in Items, kind[i] = "none", NEW p \in Modules \cup {Root},
         kind' = [kind EXCEPT ![i] = "module"], parent' = [parent EXCEPT ![i] = p]
  PROVE  NoCycle'
<1>1. kind[i] = "none" /\ i \notin Modules /\ i # Root
  BY DEF Modules, IsModule, Items, Root
<1>2. Modules' = Modules \cup {i}
  BY DEF Modules, IsModule, Structure, TypeOK
<1>3. parent' = [parent EXCEPT ![i] = p] /\ p # i
  BY <1>1
<1> SUFFICES ASSUME NEW S \in SUBSET (Modules \cup {i}), S # {}
             PROVE  \E m \in S : parent'[m] \notin S
  BY <1>2 DEF NoCycle
<1>4. CASE S \ {i} = {}
  <2>1. S = {i}
    BY <1>4
  <2> QED
    BY <1>3, <2>1 DEF Structure, TypeOK
<1>5. CASE S \ {i} # {}
  <2>1. PICK m \in S \ {i} : parent[m] \notin S \ {i}
    BY <1>5 DEF NoCycle
  <2>2. m \in Modules /\ m # i
    BY <2>1
  <2>3. parent[m] # i
    BY <1>1, <2>2 DEF Modules, Structure, ParentIsModule
  <2>4. parent'[m] = parent[m]
    BY <1>3, <2>2 DEF Modules, Structure, TypeOK
  <2> QED
    BY <2>1, <2>3, <2>4
<1> QED
  BY <1>4, <1>5

\* Why the walk up from the target is enough.  Modules S that were each below
\* another of S after the move hold m and the target t.  Those of them that are
\* at or above t do not hold m, so one of them, x, had its parent elsewhere;
\* x was not moved, and its parent, being above t, is not in S.
LEMMA MovedNoCycle ==
  ASSUME Structure, NoCycle, NEW m \in Modules, NEW t \in Modules \cup {Root},
         t # m, t # Root => m \notin Ancestors(t),
         parent' = [parent EXCEPT ![m] = t], UNCHANGED kind
  PROVE  NoCycle'
<1>1. Modules' = Modules
  BY DEF Modules, IsModule
<1>2. \A x \in Modules : x \in Items /\ parent'[x] = IF x = m THEN t ELSE parent[x]
  BY <1>1 DEF Modules, Structure, TypeOK
<1> SUFFICES ASSUME NEW S \in SUBSET Modules, S # {}
             PROVE  \E x \in S : parent'[x] \notin S
  BY <1>1 DEF NoCycle
<1>3. CASE m \notin S
  <2>1. PICK x \in S : parent[x] \notin S
    BY DEF NoCycle
  <2> QED
    BY <1>2, <1>3, <2>1
<1>4. CASE m \in S /\ t \notin S
  BY <1>2, <1>4
<1>5. CASE m \in S /\ t \in S
  <2>1. t # Root /\ m \in Items
    BY <1>5 DEF Modules, Items, Root
  <2>2. m \notin Ancestors(t)
    BY <2>1
  <2>3. PICK A \in SUBSET Items :
           ClosedUp(A) /\ (parent[t] # Root => parent[t] \in A) /\ m \notin A
    BY <2>1, <2>2 DEF Ancestors
  <2> DEFINE C == S \cap (A \cup {t})
  <2>4. C \in SUBSET Modules /\ C # {} /\ m \notin C
    BY <1>1, <1>5, <2>3
  <2>5. PICK x \in C : parent[x] \notin C
    BY <2>4 DEF NoCycle
  <2>6. parent[x] \notin S
    <3> SUFFICES ASSUME parent[x] \in S PROVE FALSE
      OBVIOUS
    <3>1. parent[x] # Root
      BY DEF Modules, Items, Root
    <3>2. parent[x] \in A
      BY <2>3, <3>1 DEF ClosedUp
    <3> QED
      BY <2>5, <3>2
  <2>7. parent'[x] = parent[x]
    BY <1>2, <2>4
  <2> QED
    BY <2>6, <2>7
<1> QED
  BY <1>3, <1>4, <1>5

\* Every request but the rollback of a module keeps the tree free of cycles.
LEMMA NoCycleInductive ==
  ASSUME Structure, NoCycle, [TreeNext]_vars
  PROVE  NoCycle'
<1> USE DEF versionVars, treeVars
<1>1. ASSUME UNCHANGED <<kind, parent>>
      PROVE  NoCycle'
  BY <1>1, SameParentsNoCycle DEF Modules, IsModule
<1>2. ASSUME NEW i \in Items, NEW pr \in Projects, NEW p \in Modules \cup {Root},
             NEW n \in Names, CreateModule(i, pr, p, n)
      PROVE  NoCycle'
  BY <1>2, AddedNoCycle DEF CreateModule, NextRow
<1>3. ASSUME NEW i \in Items, NEW m \in Modules, NEW n \in Names, CreateFeature(i, m, n)
      PROVE  NoCycle'
  <2>1. kind[i] = "none"
    BY <1>3 DEF CreateFeature, NextRow
  <2>2. Modules' = Modules /\ \A x \in Modules : parent'[x] = parent[x]
    BY <1>3, <2>1 DEF CreateFeature, Modules, IsModule, Structure, TypeOK
  <2> QED
    BY <2>2, SameParentsNoCycle
<1>4. ASSUME NEW m \in Modules, NEW t \in Modules \cup {Root}, NEW n \in Names,
             MoveModule(m, t, n)
      PROVE  NoCycle'
  BY <1>4, MovedNoCycle DEF MoveModule, MoveModuleAllowed, MoveEffect
<1>5. ASSUME NEW f \in Items, NEW m \in Modules, NEW n \in Names, MoveFeature(f, m, n)
      PROVE  NoCycle'
  <2>1. kind[f] = "feature"
    BY <1>5 DEF MoveFeature, MoveFeatureAllowed, FeatureAvailable, LiveFeature, IsFeature
  <2>2. Modules' = Modules /\ \A x \in Modules : parent'[x] = parent[x]
    BY <1>5, <2>1 DEF MoveFeature, MoveEffect, Modules, IsModule, Structure, TypeOK
  <2> QED
    BY <2>2, SameParentsNoCycle
<1>6. CASE UNCHANGED vars
  BY <1>1, <1>6 DEF vars
<1> QED
  BY <1>1, <1>2, <1>3, <1>4, <1>5, <1>6
     DEF TreeNext, Rename, MoveModuleOrder, MoveFeatureOrder, SwapEffect, DeleteModule,
         DeleteFeature, RestoreModule, RestoreEffect, RestoreFeature, RemoveProject, RestoreProject,
         Snapshot, Publish, RollbackFeature

\* The check 'Cannot move module inside its own subtree' (modules.service.ts:614)
\* is enough: a sequence of moves, one at a time, never makes a cycle, however
\* deep the tree, deleted modules included.
THEOREM NoCycleAlways == TreeSpec => []NoCycle
<1>1. Init => NoCycle
  BY DEF Init, NoCycle, Modules, IsModule
<1>2. Structure /\ NoCycle /\ [TreeNext]_vars => NoCycle'
  BY NoCycleInductive
<1> QED
  BY <1>1, <1>2, TreeSpecStructure, PTL DEF TreeSpec

-----------------------------------------------------------------------------
(* What is deleted can be brought back.                                    *)

\* What is above a module are modules of its project, and it ends at the top.
LEMMA AncestorsInProject ==
  ASSUME Structure, NEW m \in Modules
  PROVE  /\ \A x \in Ancestors(m) : x \in Modules /\ project[x] = project[m]
         /\ \A x \in Ancestors(m) \cup {m} : parent[x] # Root => parent[x] \in Ancestors(m)
<1> DEFINE S == {x \in Modules : project[x] = project[m]}
<1>1. S \in SUBSET Items /\ m \in S /\ m \in Items
  BY DEF Modules
<1>2. \A x \in S : parent[x] # Root => parent[x] \in S
  BY DEF Modules, IsModule, Structure, TypeOK, ParentIsModule, ParentInSameProject
<1>3. Ancestors(m) \subseteq S
  BY <1>1, <1>2 DEF Ancestors, ClosedUp
<1>4. ASSUME NEW x \in Ancestors(m) \cup {m}, parent[x] # Root
      PROVE  parent[x] \in Ancestors(m)
  <2>1. parent[x] \in Items
    BY <1>1, <1>3, <1>4 DEF Structure, TypeOK
  <2> QED
    BY <1>4, <2>1 DEF Ancestors, ClosedUp
<1> QED
  BY <1>3, <1>4

\* A module that is not below itself is restored by a search that ends: were its
\* parent in its own subtree, every module of that would have its parent in it.
LEMMA SearchOfModuleEnds ==
  ASSUME Structure, NoCycle, NEW m \in Modules
  PROVE  SearchEnds(m, TRUE)
<1> SUFFICES ASSUME parent[m] \in Subtree(m, TRUE)
             PROVE  FALSE
  BY DEF SearchEnds
<1>1. m \in Subtree(m, TRUE) /\ Subtree(m, TRUE) \in SUBSET Modules
  BY SubtreeSelf, SubtreeInProject DEF Modules
<1>2. PICK x \in Subtree(m, TRUE) : parent[x] \notin Subtree(m, TRUE)
  BY <1>1 DEF NoCycle
<1>3. m \in Items
  BY DEF Modules
<1> QED
  BY <1>2, <1>3, SubtreeParent

\* The deleted modules at or above a deleted one are not all below one another: the
\* one whose parent is not among them is at the top, or in a live module.
LEMMA TreeIsRestorable ==
  ASSUME Structure, NoCycle
  PROVE  SomeoneAboveRestorable
<1>1. ASSUME NEW m \in Modules, deletedAt[m] # 0, ProjectLive(project[m])
      PROVE  \E a \in Ancestors(m) \cup {m} : RestoreModuleAllowed(a)
  <2> DEFINE Gone == {x \in Ancestors(m) \cup {m} : deletedAt[x] # 0}
  <2>1. Gone \in SUBSET Modules /\ m \in Gone
    BY <1>1, AncestorsInProject
  <2>2. PICK a \in Gone : parent[a] \notin Gone
    BY <1>1, <2>1 DEF NoCycle
  <2>3. IsModule(a) /\ project[a] = project[m]
    BY <1>1, <2>1, AncestorsInProject DEF Modules
  <2>4. parent[a] # Root => LiveModule(parent[a])
    <3> SUFFICES ASSUME parent[a] # Root
                 PROVE  LiveModule(parent[a])
      OBVIOUS
    <3>1. parent[a] \in Ancestors(m) /\ parent[a] \in Modules
      BY <1>1, AncestorsInProject
    <3>2. deletedAt[parent[a]] = 0
      BY <2>2, <3>1
    <3> QED
      BY <3>1, <3>2 DEF LiveModule, Live, LiveIn, Modules, IsModule
  <2>5. SearchEnds(a, TRUE)
    BY <1>1, <2>1, SearchOfModuleEnds
  <2> QED
    BY <1>1, <2>3, <2>4, <2>5 DEF RestoreModuleAllowed
<1> QED
  BY <1>1 DEF SomeoneAboveRestorable

\* Whatever was deleted and in which order, a request brings it back, or what it is
\* in.  (modules.service.ts:1009)
THEOREM SomeoneAboveRestorableAlways == TreeSpec => []SomeoneAboveRestorable
  BY TreeIsRestorable, TreeSpecStructure, NoCycleAlways, PTL

-----------------------------------------------------------------------------
(* Positions.                                                              *)

\* The order rows are shown in is total.
LEMMA BeforeOrders ==
  ASSUME NEW ord \in [Items -> Nat], NEW i \in Items, NEW j \in Items, NEW k \in Items
  PROVE  /\ ~ Before(ord, i, i)
         /\ i # j => Before(ord, i, j) \/ Before(ord, j, i)
         /\ Before(ord, i, j) => ~ Before(ord, j, i)
         /\ Before(ord, i, j) /\ Before(ord, j, k) => Before(ord, i, k)
<1>1. i \in Int /\ j \in Int /\ k \in Int
  BY DEF Items
<1> QED
  BY <1>1 DEF Before

\* A row is shown at one of the positions of the list.
LEMMA RankInList ==
  ASSUME NEW ord \in [Items -> Nat], NEW S \in SUBSET Items, NEW i \in S
  PROVE  /\ Cardinality(S) \in Nat /\ IsFiniteSet(S)
         /\ Rank(ord, S, i) \in 0..(Cardinality(S) - 1)
<1> DEFINE T == {j \in S : Before(ord, j, i)}
<1>1. IsFiniteSet(S) /\ Cardinality(S) \in Nat
  BY ItemsFinite, FS_Subset, FS_CardinalityType
<1>2. T \in SUBSET (S \ {i})
  BY BeforeOrders
<1>3. IsFiniteSet(S \ {i}) /\ Cardinality(S \ {i}) = Cardinality(S) - 1
  BY <1>1, FS_RemoveElement
<1>4. IsFiniteSet(T) /\ Cardinality(T) <= Cardinality(S) - 1
  BY <1>2, <1>3, FS_Subset
<1>5. Cardinality(T) \in Nat
  BY <1>4, FS_CardinalityType
<1> QED
  BY <1>1, <1>4, <1>5 DEF Rank

\* And before those that are shown after it.
LEMMA RankGrows ==
  ASSUME NEW ord \in [Items -> Nat], NEW S \in SUBSET Items, NEW i \in S, NEW j \in S,
         Before(ord, i, j)
  PROVE  Rank(ord, S, i) < Rank(ord, S, j)
<1> DEFINE T(x) == {k \in S : Before(ord, k, x)}
<1>1. IsFiniteSet(T(j))
  BY ItemsFinite, FS_Subset
<1>2. i \in T(j) /\ T(i) \in SUBSET (T(j) \ {i})
  BY BeforeOrders
<1>3. /\ IsFiniteSet(T(j) \ {i})
      /\ Cardinality(T(j) \ {i}) = Cardinality(T(j)) - 1
  BY <1>1, <1>2, FS_RemoveElement
<1>4. IsFiniteSet(T(i)) /\ Cardinality(T(i)) <= Cardinality(T(j)) - 1
  BY <1>2, <1>3, FS_Subset
<1>5. Cardinality(T(i)) \in Nat /\ Cardinality(T(j)) \in Nat
  BY <1>1, <1>4, FS_CardinalityType
<1> QED
  BY <1>4, <1>5 DEF Rank

\* Two rows are not shown at one position, and their positions tell their order.
LEMMA RankTells ==
  ASSUME NEW ord \in [Items -> Nat], NEW S \in SUBSET Items, NEW i \in S, NEW j \in S
  PROVE  /\ Rank(ord, S, i) = Rank(ord, S, j) => i = j
         /\ Rank(ord, S, i) < Rank(ord, S, j) <=> Before(ord, i, j)
<1>1. Rank(ord, S, i) \in Nat /\ Rank(ord, S, j) \in Nat
  BY RankIsNat
<1> QED
  BY <1>1, RankGrows, BeforeOrders

\* A list without gaps: every position up to its length is taken once.
Dense(q, S) ==
  /\ \A j \in S : q[j] \in 0..(Cardinality(S) - 1)
  /\ \A j, k \in S : q[j] = q[k] => j = k

\* Were a position free, the rows would share the others.
LEMMA DenseOnto ==
  ASSUME NEW q, NEW S \in SUBSET Items, Dense(q, S), NEW v \in 0..(Cardinality(S) - 1)
  PROVE  \E j \in S : q[j] = v
<1> SUFFICES ASSUME \A j \in S : q[j] # v
             PROVE  FALSE
  OBVIOUS
<1> DEFINE n == Cardinality(S)
           P == 0..(n - 1)
           T == P \ {v}
           f == [j \in S |-> q[j]]
<1>1. IsFiniteSet(S) /\ n \in Nat
  BY ItemsFinite, FS_Subset, FS_CardinalityType
<1> HIDE DEF n
<1>2. IsFiniteSet(P) /\ Cardinality(P) = n /\ v \in P
  BY <1>1, FS_Interval DEF n
<1> HIDE DEF P
<1>3. IsFiniteSet(T) /\ Cardinality(T) = n - 1
  BY <1>2, FS_RemoveElement
<1>4. f \in [S -> T]
  BY DEF Dense, P, n
<1>5. Cardinality(T) < Cardinality(S)
  BY <1>1, <1>3 DEF n
<1> HIDE DEF T, f
<1>6. \E j, k \in S : j # k /\ f[j] = f[k]
  BY <1>1, <1>3, <1>4, <1>5, FS_PigeonHole
<1> QED
  BY <1>6 DEF Dense, f

\* Its orders are the positions.
LEMMA DenseValues ==
  ASSUME NEW q, NEW S \in SUBSET Items, Dense(q, S)
  PROVE  {q[j] : j \in S} = 0..(Cardinality(S) - 1)
<1> DEFINE P == 0..(Cardinality(S) - 1)
<1>1. \A j \in S : q[j] \in P
  BY DEF Dense
<1>2. \A v \in P : \E j \in S : q[j] = v
  BY DenseOnto
<1> HIDE DEF P
<1>3. {q[j] : j \in S} = P
  BY <1>1, <1>2
<1> QED
  BY <1>3 DEF P

\* In a list without gaps a row's order is its position.
LEMMA RankOfDense ==
  ASSUME NEW q \in [Items -> Nat], NEW S \in SUBSET Items, Dense(q, S), NEW i \in S
  PROVE  Rank(q, S, i) = q[i]
<1> DEFINE T == {j \in S : Before(q, j, i)}
           V == 0..(q[i] - 1)
<1>0. q[i] \in Nat /\ Cardinality(S) \in Nat /\ IsFiniteSet(T)
  BY ItemsFinite, FS_Subset, FS_CardinalityType
<1>1. \A j \in S : j \in T <=> q[j] < q[i]
  BY DEF Before, Dense, Items
<1>2. IsFiniteSet(V) /\ Cardinality(V) = q[i]
  <2> DEFINE b == q[i] - 1
  <2>1. b \in Int /\ b + 1 = q[i] /\ b >= -1
    BY <1>0
  <2> HIDE DEF b
  <2>2. IsFiniteSet(0..b) /\ Cardinality(0..b) = IF 0 > b THEN 0 ELSE b - 0 + 1
    <3>1. 0 \in Int
      OBVIOUS
    <3> QED
      BY <2>1, <3>1, FS_Interval, Zenon
  <2> QED
    BY <2>1, <2>2 DEF b
<1>3. Cardinality(T) \in Nat
  BY <1>0, FS_CardinalityType
<1>4. Cardinality(T) <= q[i]
  <2> SUFFICES ASSUME Cardinality(V) < Cardinality(T)
               PROVE  FALSE
    BY <1>0, <1>2, <1>3
  <2> DEFINE f == [j \in T |-> q[j]]
  <2>1. f \in [T -> V]
    BY <1>0, <1>1
  <2> HIDE DEF f, V, T
  <2>2. \E j, k \in T : j # k /\ f[j] = f[k]
    BY <1>0, <1>2, <2>1, FS_PigeonHole
  <2> QED
    BY <2>2 DEF Dense, f, T
<1>5. q[i] <= Cardinality(T)
  <2> SUFFICES ASSUME Cardinality(T) < Cardinality(V)
               PROVE  FALSE
    BY <1>0, <1>2, <1>3
  <2> DEFINE f == [v \in V |-> CHOOSE j \in S : q[j] = v]
  <2>1. \A v \in V : v \in 0..(Cardinality(S) - 1)
    BY <1>0 DEF Dense
  <2>2. \A v \in V : f[v] \in S /\ q[f[v]] = v
    BY <2>1, DenseOnto
  <2>3. \A v \in V : f[v] \in T
    BY <1>0, <1>1, <2>2
  <2>4. f \in [V -> T]
    BY <2>3
  <2> HIDE DEF f, V, T
  <2>5. \E v, w \in V : v # w /\ f[v] = f[w]
    BY <1>0, <1>2, <2>4, FS_PigeonHole
  <2> QED
    BY <2>2, <2>5
<1> QED
  BY <1>0, <1>3, <1>4, <1>5 DEF Rank

\* Renumbering leaves no gap.
LEMMA NormalizedDense ==
  ASSUME NEW ord \in [Items -> Nat], NEW S \in SUBSET Items
  PROVE  Dense(Normalized(ord, S), S)
<1>1. \A j \in S : Normalized(ord, S)[j] = Rank(ord, S, j)
  BY DEF Normalized
<1> QED
  BY <1>1, RankInList, RankTells DEF Dense

-----------------------------------------------------------------------------
(* Moving a row one place.                                                 *)

\* In a list without gaps the neighbour is at the next position.
LEMMA NeighbourIsNext ==
  ASSUME NEW q \in [Items -> Nat], NEW S \in SUBSET Items, Dense(q, S), NEW i \in S,
         NEW dir \in Directions, NEW j \in Neighbours(q, S, i, dir)
  PROVE  j \in S \ {i} /\ q[j] = IF dir = "UP" THEN q[i] - 1 ELSE q[i] + 1
<1> DEFINE n == Cardinality(S)
<1>0. n \in Nat /\ \A k \in S : q[k] \in Nat /\ q[k] <= n - 1
  BY ItemsFinite, FS_Subset, FS_CardinalityType DEF Dense
<1> HIDE DEF n
<1>1. CASE dir = "UP"
  <2>1. j \in S \ {i} /\ q[j] < q[i] /\ \A k \in S \ {i} : q[k] < q[i] => q[k] <= q[j]
    BY <1>1 DEF Neighbours
  <2>2. q[i] - 1 \in 0..(n - 1)
    BY <1>0, <2>1
  <2>3. PICK k \in S : q[k] = q[i] - 1
    BY <2>2, DenseOnto DEF n
  <2>4. k # i
    BY <1>0, <2>3
  <2>5. q[k] <= q[j]
    BY <1>0, <2>1, <2>3, <2>4
  <2> QED
    BY <1>0, <1>1, <2>1, <2>3, <2>5
<1>2. CASE dir = "DOWN"
  <2>1. j \in S \ {i} /\ q[j] > q[i] /\ \A k \in S \ {i} : q[k] > q[i] => q[k] >= q[j]
    BY <1>2 DEF Neighbours
  <2>2. q[i] + 1 \in 0..(n - 1)
    BY <1>0, <2>1
  <2>3. PICK k \in S : q[k] = q[i] + 1
    BY <2>2, DenseOnto DEF n
  <2>4. k # i
    BY <1>0, <2>3
  <2>5. q[k] >= q[j]
    BY <1>0, <2>1, <2>3, <2>4
  <2> QED
    BY <1>0, <1>2, <2>1, <2>3, <2>5
<1> QED
  BY <1>1, <1>2 DEF Directions

\* Exchanging the row with its neighbour, after renumbering.
LEMMA SwapPassesOne ==
  ASSUME NEW o \in [Items -> Nat], NEW S \in SUBSET Items, NEW i \in S,
         NEW dir \in Directions, NEW nb \in Neighbours(Normalized(o, S), S, i, dir),
         NEW q \in [Items -> Nat],
         q[i] = Normalized(o, S)[nb], q[nb] = Normalized(o, S)[i],
         \A j \in S \ {i, nb} : q[j] = Normalized(o, S)[j]
  PROVE  /\ Dense(q, S)
         /\ Rank(q, S, i) = IF dir = "UP" THEN Rank(o, S, i) - 1 ELSE Rank(o, S, i) + 1
         /\ \A j, k \in S \ {i} : Before(o, j, k) => Before(q, j, k)
<1> DEFINE ord == Normalized(o, S)
<1>1. ord \in [Items -> Nat] /\ Dense(ord, S)
  BY NormalizedType, NormalizedDense
<1>2. \A j \in S : ord[j] = Rank(o, S, j)
  BY DEF Normalized
<1>3. nb \in S \ {i} /\ ord[nb] = IF dir = "UP" THEN ord[i] - 1 ELSE ord[i] + 1
  BY <1>1, NeighbourIsNext
<1>4. q[i] = ord[nb] /\ q[nb] = ord[i] /\ \A j \in S \ {i, nb} : q[j] = ord[j]
  OBVIOUS
<1> HIDE DEF ord
<1>5. Dense(q, S)
  BY <1>1, <1>3, <1>4 DEF Dense
<1>6. Rank(q, S, i) = q[i]
  BY <1>4, <1>5, RankOfDense
<1>7. ASSUME NEW j \in S \ {i}, NEW k \in S \ {i}, Before(o, j, k)
      PROVE  Before(q, j, k)
  <2>1. ord[j] \in Nat /\ ord[k] \in Nat /\ ord[i] \in Nat /\ ord[nb] \in Nat
    BY <1>1, <1>3
  <2>2. ord[j] < ord[k]
    BY <1>2, <1>7, RankGrows
  <2>3. ord[j] # ord[i] /\ ord[k] # ord[i]
    BY <1>1, <1>7 DEF Dense
  <2>4. j # nb /\ ord[j] = ord[nb] => FALSE
    BY <1>1, <1>3, <1>7 DEF Dense
  <2>5. k # nb /\ ord[k] = ord[nb] => FALSE
    BY <1>1, <1>3, <1>7 DEF Dense
  <2>6. q[j] < q[k]
    BY <1>3, <1>4, <1>7, <2>1, <2>2, <2>3, <2>4, <2>5 DEF Directions
  <2> QED
    BY <2>6 DEF Before
<1> QED
  BY <1>2, <1>3, <1>4, <1>5, <1>6, <1>7

\* The requests that move a row one place.
LEMMA MoveOrderPasses ==
  ASSUME Structure, NEW i \in Items, NEW dir \in Directions,
         MoveModuleOrder(i, dir) \/ MoveFeatureOrder(i, dir),
         NEW S, S = Contents(ProjectOf(i), parent[i])
  PROVE  /\ S \in SUBSET Items /\ i \in S
         /\ Dense(order', S) /\ order' \in [Items -> Nat]
         /\ {order'[j] : j \in S} = 0..(Cardinality(S) - 1)
         /\ Rank(order', S, i) = IF dir = "UP" THEN Rank(order, S, i) - 1
                                               ELSE Rank(order, S, i) + 1
         /\ \A j, k \in S \ {i} : Before(order, j, k) => Before(order', j, k)
         /\ \A j \in Items \ S : order'[j] = order[j]
<1>1. SwapEffect(i, ProjectOf(i), parent[i], dir)
  BY DEF MoveModuleOrder, MoveFeatureOrder, ModuleAvailable, LiveModule, ProjectOf,
         IsFeature, IsModule
<1>2. S \in SUBSET Items /\ i \in S
  BY <1>1 DEF SwapEffect, Live, Contents, ContentsIn, ProjectOf, IsFeature, IsModule
<1>3. order \in [Items -> Nat]
  BY DEF Structure, TypeOK
<1>4. PICK q : q = order'
  OBVIOUS
<1>5. PICK nb \in Neighbours(Normalized(order, S), S, i, dir) :
         q = [Normalized(order, S) EXCEPT ![i] = Normalized(order, S)[nb],
                                          ![nb] = Normalized(order, S)[i]]
  BY <1>1, <1>4 DEF SwapEffect
<1>6. nb \in S \ {i} /\ Normalized(order, S) \in [Items -> Nat]
  BY <1>2, <1>3, NormalizedType DEF Neighbours
<1>7. /\ q \in [Items -> Nat]
      /\ q[i] = Normalized(order, S)[nb] /\ q[nb] = Normalized(order, S)[i]
      /\ \A j \in S \ {i, nb} : q[j] = Normalized(order, S)[j]
  BY <1>2, <1>5, <1>6
<1>8. \A j \in Items \ S : q[j] = order[j]
  BY <1>2, <1>5, <1>6 DEF Normalized
<1>9. /\ Dense(q, S)
      /\ Rank(q, S, i) = IF dir = "UP" THEN Rank(order, S, i) - 1
                                       ELSE Rank(order, S, i) + 1
      /\ \A j, k \in S \ {i} : Before(order, j, k) => Before(q, j, k)
  BY <1>2, <1>3, <1>7, SwapPassesOne
<1>10. {q[j] : j \in S} = 0..(Cardinality(S) - 1)
  BY <1>2, <1>9, DenseValues
<1> QED
  BY <1>2, <1>4, <1>7, <1>8, <1>9, <1>10

\* Moving a row one place renumbers its siblings, whatever gaps and duplicates
\* their orders had, and exchanges it with the one it passes.
\* (modules.service.ts:676, features.service.ts:429)
THEOREM MoveOrderPassesOneSiblingAlways == TreeSpec => MoveOrderPassesOneSibling
<1>1. Structure /\ [TreeNext]_vars =>
        [\A i \in Items, dir \in Directions :
           MoveModuleOrder(i, dir) \/ MoveFeatureOrder(i, dir) =>
             LET S == Contents(ProjectOf(i), parent[i])
                 old == Rank(order, S, i)
                 new == Rank(order', S, i)
             IN  /\ {order'[j] : j \in S} = 0..(Cardinality(S) - 1)
                 /\ new = IF dir = "UP" THEN old - 1 ELSE old + 1
                 /\ \A j, k \in S \ {i} : Before(order, j, k) => Before(order', j, k)]_vars
  BY MoveOrderPasses
<1> QED
  BY <1>1, TreeSpecStructure, PTL DEF TreeSpec, MoveOrderPassesOneSibling

-----------------------------------------------------------------------------
(* One deletion, one time.                                                 *)

\* The topmost row a deletion took: its parent went in another one, or not.
Top(i) == parent[i] = Root \/ deletedAt[parent[i]] # deletedAt[i]

\* The rows of a removed project went with it or before it, and only they have
\* the time of its removal.
RemovedTogether ==
  \A p \in Projects, i \in Items : projectDeletedAt[p] # 0 =>
    /\ kind[i] # "none" /\ ProjectOf(i) = p => deletedAt[i] <= projectDeletedAt[p]
    /\ deletedAt[i] = projectDeletedAt[p] => ProjectOf(i) = p

\* What has the time of a deletion that did not remove a project is one tree:
\* it has one topmost row.
OneTop ==
  \A i, j \in Items :
    deletedAt[i] # 0 /\ deletedAt[j] = deletedAt[i] /\ Top(i) /\ Top(j) =>
      i = j \/ \E p \in Projects : projectDeletedAt[p] = deletedAt[i]

StampInv == RemovedTogether /\ OneTop

\* Requests that touch live rows only, and create rows.
LEMMA LiveChangesKeepStamps ==
  ASSUME Structure, StampInv, UNCHANGED <<deletedAt, projectDeletedAt>>,
         \A i \in Items : deletedAt[i] # 0 => parent'[i] = parent[i],
         \A i \in Items : kind[i] # "none" => ProjectOf(i)' = ProjectOf(i)
  PROVE  StampInv'
<1>1. \A i \in Items : deletedAt[i] # 0 => kind[i] # "none"
  BY DEF Structure, RowsComplete
<1>2. RemovedTogether'
  <2> SUFFICES ASSUME NEW p \in Projects, NEW i \in Items, projectDeletedAt[p] # 0
               PROVE  /\ ProjectOf(i)' = p => deletedAt[i] <= projectDeletedAt[p]
                      /\ deletedAt[i] = projectDeletedAt[p] => ProjectOf(i)' = p
    BY DEF RemovedTogether
  <2>1. deletedAt[i] \in Nat /\ projectDeletedAt[p] \in Nat
    BY DEF Structure, TypeOK
  <2>2. CASE kind[i] = "none"
    BY <1>1, <2>1, <2>2
  <2>3. CASE kind[i] # "none"
    BY <2>3 DEF StampInv, RemovedTogether
  <2> QED
    BY <2>2, <2>3
<1>3. OneTop'
  BY DEF StampInv, OneTop, Top
<1> QED
  BY <1>2, <1>3 DEF StampInv

\* Deleting rows that are one tree.
LEMMA DeleteKeepsStamps ==
  ASSUME Structure, StampInv, LiveRowHasLiveProject, NEW S \in SUBSET Items, NEW t, Now(t),
         deletedAt' = Deleted(S, t), UNCHANGED <<kind, project, parent, projectDeletedAt>>,
         \A i, j \in S : (Live(i) /\ (parent[i] \in S => ~ Live(parent[i]))
                             /\ Live(j) /\ (parent[j] \in S => ~ Live(parent[j]))) => i = j
  PROVE  StampInv'
<1>1. /\ t \in Nat /\ t # 0
      /\ \A i \in Items : deletedAt[i] \in Nat /\ deletedAt[i] < t
      /\ \A p \in Projects : projectDeletedAt[p] \in Nat /\ projectDeletedAt[p] < t
  BY DEF Now, Stamps, Structure, TypeOK
<1>2. \A i \in Items : /\ deletedAt[i] # 0 => deletedAt'[i] = deletedAt[i]
                       /\ i \in S /\ Live(i) => deletedAt'[i] = t
                       /\ ~ (i \in S /\ Live(i)) => deletedAt'[i] = deletedAt[i]
  BY DEF Deleted, Live, LiveIn
<1>3. \A i \in Items : ProjectOf(i)' = ProjectOf(i) /\ (parent[i] # Root => parent[i] \in Items)
  BY DEF ProjectOf, IsFeature, Structure, TypeOK
<1>4. RemovedTogether'
  <2> SUFFICES ASSUME NEW p \in Projects, NEW i \in Items, projectDeletedAt[p] # 0
               PROVE  /\ kind[i] # "none" /\ ProjectOf(i) = p => deletedAt'[i] <= projectDeletedAt[p]
                      /\ deletedAt'[i] = projectDeletedAt[p] => ProjectOf(i) = p
    BY <1>3 DEF RemovedTogether
  <2>1. CASE ~ (i \in S /\ Live(i))
    BY <1>2, <2>1 DEF StampInv, RemovedTogether
  <2>2. CASE i \in S /\ Live(i)
    <3>1. ProjectOf(i) # p
      BY <2>2 DEF LiveRowHasLiveProject, ProjectLive
    <3> QED
      BY <1>1, <1>2, <2>2, <3>1
  <2> QED
    BY <2>1, <2>2
<1>5. OneTop'
  <2> SUFFICES ASSUME NEW i \in Items, NEW j \in Items, deletedAt'[i] # 0,
                      deletedAt'[j] = deletedAt'[i], Top(i)', Top(j)'
               PROVE  i = j \/ \E p \in Projects : projectDeletedAt[p] = deletedAt'[i]
    BY DEF OneTop
  <2>1. CASE deletedAt'[i] = t
    <3>1. \A x \in Items : deletedAt'[x] = t => x \in S /\ Live(x)
      BY <1>1, <1>2
    <3>2. \A x \in Items : deletedAt'[x] = t /\ Top(x)' => (parent[x] \in S => ~ Live(parent[x]))
      <4> SUFFICES ASSUME NEW x \in Items, deletedAt'[x] = t, Top(x)',
                          parent[x] \in S, Live(parent[x])
                   PROVE  FALSE
        OBVIOUS
      <4>1. parent[x] # Root
        BY DEF Items, Root
      <4> QED
        BY <1>2, <1>3, <4>1 DEF Top
    <3> QED
      BY <2>1, <3>1, <3>2
  <2>2. CASE deletedAt'[i] # t
    <3>1. deletedAt[i] = deletedAt'[i] /\ deletedAt[j] = deletedAt[i]
      BY <1>2, <2>2
    <3>2. Top(i) /\ Top(j)
      BY <1>2, <1>3, <3>1 DEF Top
    <3> QED
      BY <3>1, <3>2 DEF StampInv, OneTop
  <2> QED
    BY <2>1, <2>2
<1> QED
  BY <1>4, <1>5 DEF StampInv

\* Bringing back rows with everything in them, and a project perhaps.
LEMMA RestoreKeepsStamps ==
  ASSUME Structure, StampInv, NEW S \in SUBSET Items, NEW cutoff \in Nat,
         deletedAt' = Restored(S, cutoff), UNCHANGED <<kind, project, parent>>,
         \A i \in Items : parent[i] \in S => i \in S,
         \A p \in Projects : \/ projectDeletedAt'[p] = projectDeletedAt[p]
                             \/ /\ projectDeletedAt'[p] = 0 /\ projectDeletedAt[p] = cutoff
                                /\ InProject(p) \subseteq S
  PROVE  StampInv'
<1>1. \A i \in Items : /\ deletedAt[i] \in Nat
                       /\ i \in S /\ deletedAt[i] >= cutoff => deletedAt'[i] = 0
                       /\ ~ (i \in S /\ deletedAt[i] >= cutoff) => deletedAt'[i] = deletedAt[i]
  BY DEF Restored, Structure, TypeOK
<1>2. \A i \in Items : ProjectOf(i)' = ProjectOf(i) /\ (parent[i] # Root => parent[i] \in Items)
  BY DEF ProjectOf, IsFeature, Structure, TypeOK
<1>3. \A p \in Projects : projectDeletedAt'[p] # 0 => projectDeletedAt'[p] = projectDeletedAt[p]
  OBVIOUS
<1>4. RemovedTogether'
  <2> SUFFICES ASSUME NEW p \in Projects, NEW i \in Items, projectDeletedAt'[p] # 0
               PROVE  /\ kind[i] # "none" /\ ProjectOf(i) = p => deletedAt'[i] <= projectDeletedAt[p]
                      /\ deletedAt'[i] = projectDeletedAt[p] => ProjectOf(i) = p
    BY <1>2, <1>3 DEF RemovedTogether
  <2>1. projectDeletedAt[p] # 0 /\ projectDeletedAt[p] \in Nat
    BY <1>3 DEF Structure, TypeOK
  <2>2. CASE deletedAt'[i] = 0
    BY <2>1, <2>2
  <2>3. CASE deletedAt'[i] = deletedAt[i]
    BY <2>1, <2>3 DEF StampInv, RemovedTogether
  <2> QED
    BY <1>1, <2>2, <2>3
<1>5. OneTop'
  <2> SUFFICES ASSUME NEW i \in Items, NEW j \in Items, deletedAt'[i] # 0,
                      deletedAt'[j] = deletedAt'[i], Top(i)', Top(j)', i # j
               PROVE  \E p \in Projects : projectDeletedAt'[p] = deletedAt'[i]
    BY DEF OneTop
  <2>1. ASSUME NEW x \in Items, deletedAt'[x] # 0, Top(x)'
        PROVE  deletedAt'[x] = deletedAt[x] /\ Top(x)
    <3>1. deletedAt'[x] = deletedAt[x] /\ ~ (x \in S /\ deletedAt[x] >= cutoff)
      BY <1>1, <2>1
    <3>2. ASSUME parent[x] # Root, deletedAt[parent[x]] = deletedAt[x]
          PROVE  FALSE
      <4>1. parent[x] \in Items /\ deletedAt'[parent[x]] # deletedAt'[x]
        BY <1>2, <2>1, <3>2 DEF Top
      <4>2. parent[x] \in S /\ deletedAt[x] >= cutoff
        BY <1>1, <3>1, <3>2, <4>1
      <4> QED
        BY <3>1, <4>2
    <3> QED
      BY <3>1, <3>2 DEF Top
  <2>2. deletedAt[j] # 0 /\ deletedAt'[i] = deletedAt[i] /\ deletedAt'[j] = deletedAt[j] /\ Top(i) /\ Top(j)
    BY <2>1
  <2>3. PICK p \in Projects : projectDeletedAt[p] = deletedAt[i]
    BY <2>2 DEF StampInv, OneTop
  <2>4. CASE projectDeletedAt'[p] = projectDeletedAt[p]
    BY <2>2, <2>3, <2>4
  <2>5. CASE projectDeletedAt[p] = cutoff /\ InProject(p) \subseteq S
    <3>1. kind[i] # "none" /\ ProjectOf(i) = p
      BY <2>2, <2>3 DEF StampInv, RemovedTogether, Structure, RowsComplete
    <3>2. i \in S /\ deletedAt[i] >= cutoff
      BY <1>1, <2>3, <2>5, <3>1 DEF InProject
    <3> QED
      BY <1>1, <3>2
  <2> QED
    BY <2>4, <2>5
<1> QED
  BY <1>4, <1>5 DEF StampInv

\* Removing a project with its rows.
LEMMA RemoveKeepsStamps ==
  ASSUME Structure, StampInv, LiveRowHasLiveProject, NEW pr \in Projects, RemoveProject(pr)
  PROVE  StampInv'
<1>0. PICK t \in 1..MaxClock :
         /\ Now(t)
         /\ projectDeletedAt' = [projectDeletedAt EXCEPT ![pr] = t]
         /\ deletedAt' = Deleted(InProject(pr), t)
  BY DEF RemoveProject
<1>1. /\ t \in Nat /\ t # 0
      /\ \A i \in Items : deletedAt[i] \in Nat /\ deletedAt[i] < t
      /\ \A p \in Projects : projectDeletedAt[p] \in Nat /\ projectDeletedAt[p] < t
  BY <1>0 DEF Now, Stamps, Structure, TypeOK
<1>2. UNCHANGED <<kind, project, parent>> /\ projectDeletedAt[pr] = 0
  BY DEF RemoveProject, ProjectLive
<1>3. \A i \in Items : ProjectOf(i)' = ProjectOf(i) /\ (parent[i] # Root => parent[i] \in Items)
  BY <1>2 DEF ProjectOf, IsFeature, Structure, TypeOK
<1>4. \A i \in Items : \/ deletedAt'[i] = t /\ ProjectOf(i) = pr /\ deletedAt[i] = 0
                       \/ deletedAt'[i] = deletedAt[i]
  BY <1>0 DEF Deleted, InProject, Live, LiveIn
<1>5. projectDeletedAt'[pr] = t /\ \A p \in Projects : p # pr => projectDeletedAt'[p] = projectDeletedAt[p]
  BY <1>0 DEF Structure, TypeOK
<1>6. RemovedTogether'
  <2> SUFFICES ASSUME NEW p \in Projects, NEW i \in Items, projectDeletedAt'[p] # 0
               PROVE  /\ kind[i] # "none" /\ ProjectOf(i) = p => deletedAt'[i] <= projectDeletedAt'[p]
                      /\ deletedAt'[i] = projectDeletedAt'[p] => ProjectOf(i) = p
    BY <1>2, <1>3 DEF RemovedTogether
  <2>1. CASE p = pr
    BY <1>1, <1>4, <1>5, <2>1
  <2>2. CASE p # pr
    <3>1. projectDeletedAt[p] = projectDeletedAt'[p] /\ projectDeletedAt[p] # 0
      BY <1>5, <2>2
    <3> QED
      BY <1>1, <1>4, <2>2, <3>1 DEF StampInv, RemovedTogether
  <2> QED
    BY <2>1, <2>2
<1>7. OneTop'
  <2> SUFFICES ASSUME NEW i \in Items, NEW j \in Items, deletedAt'[i] # 0,
                      deletedAt'[j] = deletedAt'[i], Top(i)', Top(j)', i # j
               PROVE  \E p \in Projects : projectDeletedAt'[p] = deletedAt'[i]
    BY DEF OneTop
  <2>1. CASE deletedAt'[i] = t
    BY <1>5, <2>1
  <2>2. CASE deletedAt'[i] # t
    <3>1. deletedAt[i] = deletedAt'[i] /\ deletedAt[j] = deletedAt[i] /\ deletedAt[i] # 0
      BY <1>4, <2>2
    <3>2. ASSUME NEW x \in Items, Top(x)', deletedAt'[x] = deletedAt[x], deletedAt[x] # 0
          PROVE  Top(x)
      BY <1>1, <1>2, <1>3, <1>4, <3>2 DEF Top
    <3>3. Top(i) /\ Top(j)
      BY <3>1, <3>2
    <3>4. PICK p \in Projects : projectDeletedAt[p] = deletedAt[i]
      BY <3>1, <3>3 DEF StampInv, OneTop
    <3>5. p # pr
      BY <1>2, <3>1, <3>4
    <3> QED
      BY <1>5, <3>1, <3>4, <3>5
  <2> QED
    BY <2>1, <2>2
<1> QED
  BY <1>6, <1>7 DEF StampInv

\* Every request but the rollback of a module keeps the times.
LEMMA StampInductive ==
  ASSUME Structure, StampInv, LiveRowHasLiveProject, [TreeNext]_vars
  PROVE  StampInv'
<1>0. \A i \in Items : /\ deletedAt[i] # 0 => kind[i] # "none"
                       /\ kind[i] # "none" => IsModule(i) \/ IsFeature(i)
                       /\ IsFeature(i) => parent[i] \in Modules
                       /\ parent[i] # Root => parent[i] \in Modules
  BY DEF Structure, TypeOK, RowsComplete, ParentIsModule, Modules, IsModule, IsFeature
<1>1. ASSUME UNCHANGED <<kind, project, parent, deletedAt, projectDeletedAt>>
      PROVE  StampInv'
  BY <1>1, LiveChangesKeepStamps DEF ProjectOf, IsFeature
<1>2. ASSUME NEW i \in Items, NEW pr \in Projects, NEW p \in Modules \cup {Root},
             NEW n \in Names, CreateModule(i, pr, p, n)
      PROVE  StampInv'
  <2>1. kind[i] = "none" /\ UNCHANGED <<deletedAt, projectDeletedAt>>
    BY <1>2 DEF CreateModule, NextRow
  <2>2. \A x \in Items \ {i} : kind'[x] = kind[x] /\ parent'[x] = parent[x] /\ project'[x] = project[x]
    BY <1>2 DEF CreateModule, Structure, TypeOK
  <2>3. i \notin Modules
    BY <2>1 DEF Modules, IsModule
  <2>4. \A x \in Items : kind[x] # "none" => ProjectOf(x)' = ProjectOf(x)
    BY <1>0, <2>1, <2>2, <2>3 DEF ProjectOf, IsFeature, Modules
  <2> QED
    BY <1>0, <2>1, <2>2, <2>4, LiveChangesKeepStamps
<1>3. ASSUME NEW i \in Items, NEW m \in Modules, NEW n \in Names, CreateFeature(i, m, n)
      PROVE  StampInv'
  <2>1. kind[i] = "none" /\ UNCHANGED <<project, deletedAt, projectDeletedAt>>
    BY <1>3 DEF CreateFeature, NextRow
  <2>2. \A x \in Items \ {i} : kind'[x] = kind[x] /\ parent'[x] = parent[x]
    BY <1>3 DEF CreateFeature, Structure, TypeOK
  <2>3. \A x \in Items : kind[x] # "none" => ProjectOf(x)' = ProjectOf(x)
    BY <2>1, <2>2 DEF ProjectOf, IsFeature
  <2> QED
    BY <1>0, <2>1, <2>2, <2>3, LiveChangesKeepStamps
<1>4. ASSUME NEW i \in Items, NEW n \in Names, Rename(i, n)
      PROVE  StampInv'
  BY <1>4, <1>1 DEF Rename
<1>5. ASSUME NEW m \in Modules, NEW t \in Modules \cup {Root}, NEW n \in Names,
             MoveModule(m, t, n)
      PROVE  StampInv'
  <2>1. deletedAt[m] = 0 /\ IsModule(m) /\ UNCHANGED <<kind, project, deletedAt, projectDeletedAt>>
    BY <1>5 DEF MoveModule, MoveModuleAllowed, MoveEffect, ModuleAvailable, LiveModule, Live, LiveIn
  <2>2. \A x \in Items \ {m} : parent'[x] = parent[x]
    BY <1>5 DEF MoveModule, MoveEffect, Structure, TypeOK
  <2>3. \A x \in Items : kind[x] # "none" => ProjectOf(x)' = ProjectOf(x)
    BY <2>1, <2>2 DEF ProjectOf, IsFeature, IsModule
  <2> QED
    BY <2>1, <2>2, <2>3, LiveChangesKeepStamps
<1>6. ASSUME NEW f \in Items, NEW m \in Modules, NEW n \in Names, MoveFeature(f, m, n)
      PROVE  StampInv'
  <2>1. /\ deletedAt[f] = 0 /\ IsFeature(f) /\ UNCHANGED <<kind, project, deletedAt, projectDeletedAt>>
        /\ project[m] = ProjectOf(f)
    BY <1>6 DEF MoveFeature, MoveFeatureAllowed, MoveEffect, FeatureAvailable, LiveFeature, Live, LiveIn
  <2>2. parent'[f] = m /\ \A x \in Items \ {f} : parent'[x] = parent[x]
    BY <1>6 DEF MoveFeature, MoveEffect, Structure, TypeOK
  <2>3. \A x \in Items : kind[x] # "none" => ProjectOf(x)' = ProjectOf(x)
    BY <2>1, <2>2 DEF ProjectOf, IsFeature
  <2> QED
    BY <2>1, <2>2, <2>3, LiveChangesKeepStamps
<1>7. ASSUME NEW i \in Items, NEW dir \in Directions,
             MoveModuleOrder(i, dir) \/ MoveFeatureOrder(i, dir)
      PROVE  StampInv'
  BY <1>7, <1>1 DEF MoveModuleOrder, MoveFeatureOrder, SwapEffect
<1>8. ASSUME NEW m \in Modules, NEW cascade \in BOOLEAN, NEW force \in BOOLEAN,
             DeleteModule(m, cascade, force)
      PROVE  StampInv'
  <2> DEFINE D == DoomedModules(m, cascade)
             S == WithFeatures(D)
  <2>1. PICK t \in 1..MaxClock : Now(t) /\ deletedAt' = Deleted(S, t)
    BY <1>8 DEF DeleteModule
  <2>2. UNCHANGED <<kind, project, parent, projectDeletedAt>>
    BY <1>8 DEF DeleteModule
  <2>3. m \in Items /\ LiveModule(m) /\ D \in SUBSET Items /\ S \in SUBSET Items /\ m \in S
    BY <1>8, SubtreeSelf DEF DeleteModule, DeleteModuleAllowed, ModuleAvailable, DoomedModules,
       Modules, Subtree, WithFeatures
  <2>4. ASSUME NEW x \in S, Live(x), parent[x] \in S => ~ Live(parent[x])
        PROVE  x = m
    <3> SUFFICES ASSUME x # m
                 PROVE  FALSE
      OBVIOUS
    <3>1. CASE ~ cascade
      <4>1. D = {m} /\ \A i \in Items : parent[i] = m => ~ Live(i)
        BY <1>8, <3>1 DEF DeleteModule, DeleteModuleAllowed, DoomedModules
      <4>2. parent[x] = m
        BY <2>4, <4>1 DEF WithFeatures
      <4> QED
        BY <2>3, <2>4, <4>1, <4>2
    <3>2. CASE cascade
      <4>1. D = Subtree(m, FALSE)
        BY <3>2 DEF DoomedModules
      <4>2. parent[x] \in D
        BY <2>3, <2>4, <4>1, SubtreeParent DEF WithFeatures
      <4>3. Live(parent[x])
        <5>1. CASE parent[x] = m
          BY <2>3, <5>1 DEF LiveModule
        <5>2. CASE parent[x] # m
          <6>1. Followed(parent[x], FALSE)
            BY <2>3, <4>1, <4>2, <5>2, SubtreeParent
          <6> QED
            BY <6>1 DEF Followed, Live, LiveIn, IsModule
        <5> QED
          BY <5>1, <5>2
      <4> QED
        BY <2>4, <4>2, <4>3 DEF WithFeatures
    <3> QED
      BY <3>1, <3>2
  <2> HIDE DEF S
  <2> QED
    BY <2>1, <2>2, <2>3, <2>4, DeleteKeepsStamps
<1>9. ASSUME NEW f \in Items, NEW force \in BOOLEAN, DeleteFeature(f, force)
      PROVE  StampInv'
  <2>1. PICK t \in 1..MaxClock : Now(t) /\ deletedAt' = Deleted({f}, t)
    BY <1>9 DEF DeleteFeature
  <2>2. UNCHANGED <<kind, project, parent, projectDeletedAt>>
    BY <1>9 DEF DeleteFeature
  <2> QED
    BY <2>1, <2>2, DeleteKeepsStamps
<1>10. ASSUME NEW m \in Modules, RestoreModule(m)
       PROVE  StampInv'
  <2> DEFINE S == Subtree(m, TRUE)
  <2>1. /\ deletedAt' = Restored(WithFeatures(S), deletedAt[m])
        /\ UNCHANGED <<kind, project, parent, projectDeletedAt>>
    BY <1>10 DEF RestoreModule, RestoreEffect
  <2>2. m \in Items /\ deletedAt[m] \in Nat /\ WithFeatures(S) \in SUBSET Items
    <3>1. m \in Items
      BY DEF Modules
    <3>2. S \in SUBSET Items
      BY DEF Subtree
    <3>3. WithFeatures(S) \in SUBSET Items
      BY <3>2 DEF WithFeatures
    <3>4. deletedAt[m] \in Nat
      BY <3>1 DEF Structure, TypeOK
    <3> QED
      BY <3>1, <3>3, <3>4
  <2>3. ASSUME NEW i \in Items, parent[i] \in WithFeatures(S)
        PROVE  i \in WithFeatures(S)
    <3>0. parent[i] \in Items
      BY <2>2, <2>3
    <3>1. parent[i] \in Modules
      BY <1>0, <3>0 DEF Items, Root
    <3>2. parent[i] \in S
      BY <2>3, <3>1 DEF WithFeatures, Modules, IsModule, IsFeature
    <3>3. IsModule(i) \/ IsFeature(i)
      BY <1>0, <3>1 DEF Structure, RowsComplete, Modules, Items, Root
    <3>4. IsModule(i) => i \in S
      BY <2>2, <3>2, SubtreeClosedDown DEF ClosedDown, Followed
    <3> QED
      BY <3>2, <3>3, <3>4 DEF WithFeatures
  <2> HIDE DEF S
  <2> QED
    BY <2>1, <2>2, <2>3, RestoreKeepsStamps
<1>11. ASSUME NEW f \in Items, RestoreFeature(f)
       PROVE  StampInv'
  <2>1. /\ IsFeature(f) /\ UNCHANGED <<kind, project, parent, projectDeletedAt>>
        /\ deletedAt' = [deletedAt EXCEPT ![f] = 0]
    BY <1>11 DEF RestoreFeature
  <2>2. deletedAt' = Restored({f}, 0)
    <3>1. deletedAt \in [Items -> 0..MaxClock] /\ \A i \in Items : deletedAt[i] >= 0
      BY DEF Structure, TypeOK
    <3> QED
      BY <2>1, <3>1 DEF Restored
  <2>3. \A i \in Items : parent[i] # f
    BY <1>0, <2>1 DEF Modules, IsModule, IsFeature, Items, Root
  <2> QED
    BY <2>1, <2>2, <2>3, RestoreKeepsStamps
<1>12. ASSUME NEW pr \in Projects, RemoveProject(pr)
       PROVE  StampInv'
  BY <1>12, RemoveKeepsStamps
<1>13. ASSUME NEW pr \in Projects, RestoreProject(pr)
       PROVE  StampInv'
  <2> DEFINE S == InProject(pr)
  <2>1. /\ deletedAt' = Restored(S, projectDeletedAt[pr])
        /\ UNCHANGED <<kind, project, parent>>
        /\ projectDeletedAt' = [projectDeletedAt EXCEPT ![pr] = 0]
    BY <1>13 DEF RestoreProject
  <2>2. projectDeletedAt[pr] \in Nat /\ S \in SUBSET Items
    BY DEF Structure, TypeOK, InProject
  <2>3. \A i \in Items : parent[i] \in S => i \in S
    BY <1>0 DEF InProject, ProjectOf, Structure, RowsComplete, ParentInSameProject, IsFeature,
                IsModule, Modules, Items, Root
  <2>4. \A p \in Projects : \/ projectDeletedAt'[p] = projectDeletedAt[p]
                            \/ p = pr /\ projectDeletedAt'[p] = 0
    BY <2>1 DEF Structure, TypeOK
  <2>5. InProject(pr) \subseteq S
    OBVIOUS
  <2> HIDE DEF S
  <2> QED
    BY <2>1, <2>2, <2>3, <2>4, <2>5, RestoreKeepsStamps
<1>14. ASSUME NEW i \in Items, Snapshot(i) \/ Publish(i)
       PROVE  StampInv'
  BY <1>14, <1>1 DEF Snapshot, Publish, treeVars
<1>15. ASSUME NEW f \in Items, NEW v \in versions[f], RollbackFeature(f, v)
       PROVE  StampInv'
  BY <1>15, <1>1 DEF RollbackFeature
<1>16. CASE UNCHANGED vars
  BY <1>1, <1>16 DEF vars, treeVars
<1>17. Modules \subseteq Items
  BY DEF Modules
<1> QED
  BY <1>2, <1>3, <1>4, <1>5, <1>6, <1>7, <1>8, <1>9, <1>10, <1>11, <1>12, <1>13, <1>14,
     <1>15, <1>16, <1>17 DEF TreeNext

\* Bringing back a module brings back what went with it: nothing below it went
\* later, and what has its time has it from the deletion of the one topmost row,
\* which is this module.
LEMMA RestoreModuleUndoes ==
  ASSUME Structure, GoesWithParent(Rows), NoCycle, StampInv,
         NEW m \in Modules, RestoreModule(m), NEW i \in Items
  PROVE  deletedAt[i] # 0 /\ deletedAt'[i] = 0 <=> deletedAt[i] = deletedAt[m]
<1> DEFINE S == Subtree(m, TRUE)
           W == WithFeatures(S)
<1>1. /\ m \in Items /\ kind[m] = "module" /\ deletedAt[m] # 0 /\ ProjectLive(project[m])
      /\ parent[m] # Root => LiveModule(parent[m])
  BY DEF RestoreModule, RestoreModuleAllowed, Modules, IsModule
<1>2. \A x \in Items : deletedAt[x] \in Nat
  BY DEF Structure, TypeOK
<1>3. /\ i \in W /\ deletedAt[i] >= deletedAt[m] => deletedAt'[i] = 0
      /\ ~ (i \in W /\ deletedAt[i] >= deletedAt[m]) => deletedAt'[i] = deletedAt[i]
  BY DEF RestoreModule, RestoreEffect, Restored
<1>4. \A x \in Items : /\ deletedAt[x] # 0 => kind[x] \in Rows
                       /\ parent[x] # Root => parent[x] \in Modules
                       /\ kind[x] = "feature" => parent[x] # Root
  BY DEF Structure, TypeOK, RowsComplete, ParentIsModule, Modules, IsModule, Rows
<1>5. ASSUME i \in W
      PROVE  deletedAt[i] <= deletedAt[m]
  <2> DEFINE U == {x \in Modules : deletedAt[x] # 0 /\ deletedAt[x] <= deletedAt[m]}
  <2>1. ASSUME NEW x \in Items, kind[x] \in Rows, parent[x] \in U
        PROVE  deletedAt[x] # 0 /\ deletedAt[x] <= deletedAt[m]
    <3>1. parent[x] # Root /\ parent[x] \in Items
      BY <2>1 DEF Modules, Items, Root
    <3>2. deletedAt[parent[x]] # 0 /\ deletedAt[parent[x]] <= deletedAt[m]
      BY <2>1
    <3>3. deletedAt[x] # 0 /\ deletedAt[x] <= deletedAt[parent[x]]
      BY <2>1, <3>1, <3>2 DEF GoesWithParent
    <3> QED
      BY <1>1, <1>2, <3>1, <3>2, <3>3
  <2>2. U \in SUBSET Items /\ m \in U
    BY <1>1, <1>2 DEF Modules, IsModule
  <2>3. \A x \in Items : IsModule(x) /\ parent[x] \in U => x \in U
    BY <2>1 DEF Rows, IsModule, Modules
  <2>4. \A x \in U : deletedAt[x] <= deletedAt[m]
    OBVIOUS
  <2> HIDE DEF U
  <2>5. S \subseteq U
    BY <1>1, <2>2, <2>3, SubtreeLeast DEF ClosedDown, Followed
  <2> QED
    BY <1>5, <2>1, <2>4, <2>5 DEF WithFeatures, IsFeature, Rows
<1>6. ASSUME deletedAt[i] = deletedAt[m]
      PROVE  i \in W
  <2>1. \A p \in Projects : projectDeletedAt[p] # deletedAt[m]
    <3> SUFFICES ASSUME NEW p \in Projects, projectDeletedAt[p] = deletedAt[m]
                 PROVE  FALSE
      OBVIOUS
    <3>1. ProjectOf(m) = p
      BY <1>1 DEF StampInv, RemovedTogether
    <3> QED
      BY <1>1, <3>1 DEF ProjectOf, IsFeature, ProjectLive
  <2>2. Top(m)
    BY <1>1 DEF Top, LiveModule, Live, LiveIn
  <2>3. ASSUME NEW x \in Items, deletedAt[x] = deletedAt[m], x # m
        PROVE  parent[x] \in Modules /\ deletedAt[parent[x]] = deletedAt[m]
    BY <1>1, <1>4, <2>1, <2>2, <2>3 DEF StampInv, OneTop, Top
  <2> DEFINE Q == {x \in Modules : deletedAt[x] = deletedAt[m] /\ x \notin S}
  <2>4. ASSUME NEW x \in Items, deletedAt[x] = deletedAt[m], x # m, parent[x] \notin S
        PROVE  parent[x] \in Q
    BY <2>3, <2>4
  <2>5. m \in S
    BY <1>1, SubtreeSelf
  <2>6. \A x \in Modules : parent[x] \in S => x \in S
    BY <1>1, SubtreeClosedDown DEF ClosedDown, Followed, Modules
  <2>7. \A x \in Q : parent[x] \in Q
    BY <2>4, <2>5, <2>6 DEF Modules
  <2>8. Q = {}
    <3>1. Q \in SUBSET Modules
      OBVIOUS
    <3> HIDE DEF Q
    <3> QED
      BY <2>7, <3>1 DEF NoCycle
  <2>9. CASE i \in Modules
    BY <1>6, <2>8, <2>9 DEF WithFeatures
  <2>10. CASE i \notin Modules
    <3>1. IsFeature(i) /\ i # m
      BY <1>1, <1>4, <1>6, <2>10 DEF Rows, Modules, IsModule, IsFeature
    <3>2. parent[i] \in S
      BY <1>6, <2>4, <2>8, <3>1
    <3> QED
      BY <3>1, <3>2 DEF WithFeatures
  <2> QED
    BY <2>9, <2>10
<1> HIDE DEF W
<1> QED
  BY <1>1, <1>2, <1>3, <1>5, <1>6

\* Bringing back a project brings back what its removal took, and nothing else.
LEMMA RestoreProjectUndoes ==
  ASSUME Structure, StampInv, NEW pr \in Projects, RestoreProject(pr), NEW i \in Items
  PROVE  deletedAt[i] # 0 /\ deletedAt'[i] = 0 <=> deletedAt[i] = projectDeletedAt[pr]
<1>1. projectDeletedAt[pr] # 0
  BY DEF RestoreProject, ProjectLive
<1>2. deletedAt[i] \in Nat /\ projectDeletedAt[pr] \in Nat
  BY DEF Structure, TypeOK
<1>3. deletedAt[i] # 0 => kind[i] # "none"
  BY DEF Structure, RowsComplete
<1>4. deletedAt'[i] = IF i \in InProject(pr) /\ deletedAt[i] >= projectDeletedAt[pr]
                      THEN 0 ELSE deletedAt[i]
  BY DEF RestoreProject, Restored
<1>5. /\ i \in InProject(pr) => deletedAt[i] <= projectDeletedAt[pr]
      /\ deletedAt[i] = projectDeletedAt[pr] => i \in InProject(pr)
  BY <1>1, <1>3 DEF StampInv, RemovedTogether, InProject
<1> QED
  BY <1>1, <1>2, <1>4, <1>5

\* The times tell one deletion from another.
LEMMA StampInvAlways == TreeSpec => []StampInv
<1>1. Init => StampInv
  BY DEF Init, StampInv, RemovedTogether, OneTop
<1>2. Structure /\ StampInv /\ LiveRowHasLiveProject /\ [TreeNext]_vars => StampInv'
  BY StampInductive
<1>3. TreeSpec => []LiveRowHasLiveProject
  BY TreeSpecSpec, LiveRowHasLiveProjectAlways, PTL
<1> QED
  BY <1>1, <1>2, <1>3, TreeSpecStructure, PTL DEF TreeSpec

\* A restoration undoes exactly one deletion, though all it compares is a time: the
\* rows deleted on their own before stay deleted, and none that went with the
\* module, or with the project, is left behind.
\* (modules.service.ts:1009, projects.service.ts:1559)
THEOREM RestoreUndoesOneDeleteAlways == TreeSpec => RestoreUndoesOneDelete
<1>1. ASSUME Structure, GoesWithParent(Rows), NoCycle, StampInv
      PROVE  LET revived == {i \in Items : deletedAt[i] # 0 /\ deletedAt'[i] = 0}
             IN  /\ \A m \in Modules : RestoreModule(m) =>
                       revived = {i \in Items : deletedAt[i] = deletedAt[m]}
                 /\ \A pr \in Projects : RestoreProject(pr) =>
                       revived = {i \in Items : deletedAt[i] = projectDeletedAt[pr]}
  <2> DEFINE revived == {i \in Items : deletedAt[i] # 0 /\ deletedAt'[i] = 0}
  <2>1. ASSUME NEW m \in Modules, RestoreModule(m)
        PROVE  revived = {i \in Items : deletedAt[i] = deletedAt[m]}
    BY <1>1, <2>1, RestoreModuleUndoes
  <2>2. ASSUME NEW pr \in Projects, RestoreProject(pr)
        PROVE  revived = {i \in Items : deletedAt[i] = projectDeletedAt[pr]}
    BY <1>1, <2>2, RestoreProjectUndoes
  <2> QED
    BY <2>1, <2>2
<1> QED
  BY <1>1, TreeSpecStructure, GoesWithParentAlways, NoCycleAlways, StampInvAlways, PTL
     DEF TreeSpec, RestoreUndoesOneDelete

-----------------------------------------------------------------------------
(* Siblings have orders of their own.                                      *)

\* What is listed together is in one project: the one of the parent.
LEMMA ListedInProject ==
  ASSUME Structure, NEW pr, NEW p, p # Root => p \in Items /\ kind[p] = "module" /\ project[p] = pr,
         NEW j \in Items
  PROVE  j \in Contents(pr, p) <=> Live(j) /\ parent[j] = p /\ ProjectOf(j) = pr
<1>1. Live(j) => IsModule(j) \/ IsFeature(j)
  BY DEF Live, LiveIn, Structure, TypeOK, IsModule, IsFeature
<1>2. IsFeature(j) => parent[j] # Root
  BY DEF Structure, RowsComplete, IsFeature
<1> QED
  BY <1>1, <1>2 DEF Contents, ContentsIn, Live, ProjectOf, IsFeature, IsModule

\* A row put after the rows of its new parent, the others being apart.
LEMMA PlacedLast ==
  ASSUME NEW i \in Items, NEW o \in [Items -> Nat], NEW S \in SUBSET Items,
         IsNextOrder(order'[i], o, S), order'[i] \in Nat,
         \A j \in Items \ {i} : order'[j] = o[j],
         \A j, k \in Items \ {i} : j # k /\ Grouped(j, k)' => o[j] # o[k],
         \A j \in Items \ {i} : Grouped(i, j)' => j \in S
  PROVE  OrdersDistinct'
<1> SUFFICES ASSUME NEW j \in Items, NEW k \in Items, j # k, Grouped(j, k)',
                    order'[j] = order'[k]
             PROVE  FALSE
  BY DEF OrdersDistinct
<1>1. \A x \in S : o[x] < order'[i]
  BY DEF IsNextOrder
<1>2. Grouped(k, j)'
  BY DEF Grouped
<1>3. CASE j = i
  BY <1>1, <1>3
<1>4. CASE k = i
  BY <1>1, <1>2, <1>4
<1>5. CASE j # i /\ k # i
  BY <1>5
<1> QED
  BY <1>3, <1>4, <1>5

\* Requests after which no other rows are grouped, and none got another's order.
LEMMA NothingNewGrouped ==
  ASSUME OrdersDistinct,
         \A j, k \in Items : j # k /\ Grouped(j, k)' /\ order'[j] = order'[k] =>
           Grouped(j, k) /\ order[j] = order[k]
  PROVE  OrdersDistinct'
  BY DEF OrdersDistinct

\* A created row goes to the end.
LEMMA AddedDistinct ==
  ASSUME Structure, OrdersDistinct, NEW i \in Items, kind[i] = "none", NEW p, NEW pr,
         NEW k \in {"module", "feature"},
         p # Root => p \in Items /\ kind[p] = "module" /\ project[p] = pr,
         k = "feature" => p # Root,
         kind' = [kind EXCEPT ![i] = k],
         project' = IF k = "module" THEN [project EXCEPT ![i] = pr] ELSE project,
         parent' = [parent EXCEPT ![i] = p],
         UNCHANGED deletedAt,
         NEW n0 \in Nat, IsNextOrder(n0, order, Contents(pr, p)),
         order' = [order EXCEPT ![i] = n0]
  PROVE  OrdersDistinct'
<1>0. /\ order \in [Items -> Nat] /\ Contents(pr, p) \in SUBSET Items
      /\ kind \in [Items -> {"none", "module", "feature"}]
      /\ DOMAIN parent = Items /\ DOMAIN project = Items
      /\ deletedAt[i] = 0 /\ p # i
  BY DEF Structure, TypeOK, RowsComplete, Contents, ContentsIn, Items, Root
<1>1. \A j \in Items \ {i} : /\ order'[j] = order[j] /\ kind'[j] = kind[j]
                             /\ parent'[j] = parent[j] /\ project'[j] = project[j]
                             /\ deletedAt'[j] = deletedAt[j]
  BY <1>0
<1>2. /\ order'[i] = n0 /\ kind'[i] = k /\ parent'[i] = p /\ deletedAt'[i] = 0
      /\ k = "module" => project'[i] = pr
  BY <1>0
<1>3. \A j \in Items \ {i} : kind[j] # "none" => ProjectOf(j)' = ProjectOf(j)
  <2> SUFFICES ASSUME NEW j \in Items \ {i}, kind[j] = "feature"
               PROVE  project'[parent[j]] = project[parent[j]]
    BY <1>1 DEF ProjectOf, IsFeature
  <2>1. parent[j] \in Items /\ kind[parent[j]] = "module"
    BY DEF Structure, TypeOK, RowsComplete, ParentIsModule
  <2> QED
    BY <1>1, <2>1
<1>4. ProjectOf(i)' = pr
  <2>1. CASE k = "module"
    BY <1>2, <2>1 DEF ProjectOf, IsFeature
  <2>2. CASE k = "feature"
    BY <1>0, <1>2, <2>2 DEF ProjectOf, IsFeature
  <2> QED
    BY <2>1, <2>2
<1>5. \A j, x \in Items \ {i} : Grouped(j, x)' => Grouped(j, x)
  BY <1>1, <1>3 DEF Grouped
<1>6. \A j \in Items \ {i} : Grouped(i, j)' => j \in Contents(pr, p)
  <2> SUFFICES ASSUME NEW j \in Items \ {i}, Grouped(i, j)'
               PROVE  j \in Contents(pr, p)
    OBVIOUS
  <2>1. kind[j] # "none" /\ parent[j] = p /\ ProjectOf(j) = pr /\ deletedAt[j] = 0
    BY <1>1, <1>2, <1>3, <1>4 DEF Grouped
  <2>2. Live(j)
    BY <2>1 DEF Live, LiveIn
  <2> QED
    BY <2>1, <2>2, ListedInProject
<1>7. \A j, x \in Items \ {i} : j # x /\ Grouped(j, x)' => order[j] # order[x]
  BY <1>5 DEF OrdersDistinct
<1> QED
  BY <1>0, <1>1, <1>2, <1>6, <1>7, PlacedLast

\* A moved row leaves no gap behind and goes to the end.
LEMMA MovedDistinct ==
  ASSUME Structure, OrdersDistinct, NEW i \in Items, Live(i), NEW p, NEW pr, NEW n,
         ProjectOf(i) = pr, p # parent[i],
         p # Root => p \in Items /\ kind[p] = "module" /\ project[p] = pr,
         IsFeature(i) => p # Root,
         MoveEffect(i, pr, p, n, parent[i], order[i])
  PROVE  OrdersDistinct'
<1> DEFINE p0 == parent[i]
           C == Contents(pr, p0)
           o == Compacted(order, C, order[i])
<1>0. /\ order \in [Items -> Nat] /\ order[i] \in Nat
      /\ parent \in [Items -> Items \cup {Root}]
      /\ kind \in [Items -> {"none", "module", "feature"}]
  BY DEF Structure, TypeOK
<1>1. PICK n0 \in 0..MaxOrder : /\ IsNextOrder(n0, o, Contents(pr, p))
                                /\ order' = [o EXCEPT ![i] = n0]
  BY DEF MoveEffect
<1>2. UNCHANGED <<kind, project, deletedAt>> /\ parent' = [parent EXCEPT ![i] = p]
  BY DEF MoveEffect
<1>3. p0 # Root => p0 \in Items /\ kind[p0] = "module" /\ project[p0] = pr
  <2>1. p0 # Root => p0 \in Items /\ kind[p0] = "module"
    BY <1>0 DEF Structure, ParentIsModule
  <2>2. IsModule(i) \/ IsFeature(i)
    BY <1>0 DEF Live, LiveIn, IsModule, IsFeature
  <2> QED
    BY <2>1, <2>2 DEF Structure, ParentInSameProject, ProjectOf, Modules, IsModule, IsFeature
<1>4. \A j \in Items : j \in C <=> Live(j) /\ parent[j] = p0 /\ ProjectOf(j) = pr
  BY <1>3, ListedInProject
<1>5. o \in [Items -> Nat] /\ Contents(pr, p) \in SUBSET Items /\ n0 \in Nat
  BY <1>0, CompactedType DEF Contents, ContentsIn
<1>6. \A j \in Items : o[j] = IF j \in C /\ order[j] > order[i] THEN order[j] - 1 ELSE order[j]
  BY DEF Compacted
<1> HIDE DEF o, C
<1>7. order'[i] = n0 /\ \A j \in Items \ {i} : order'[j] = o[j]
  BY <1>1, <1>5
<1>8. /\ \A j \in Items \ {i} : parent'[j] = parent[j] /\ ProjectOf(j)' = ProjectOf(j)
      /\ parent'[i] = p
  BY <1>0, <1>2 DEF ProjectOf, IsFeature
<1>9. ProjectOf(i)' = pr
  BY <1>0, <1>2, <1>8 DEF ProjectOf, IsFeature
<1>10. ASSUME NEW j \in Items \ {i}, NEW k \in Items \ {i}, j # k, Grouped(j, k)'
       PROVE  o[j] # o[k]
  <2>1. Grouped(j, k)
    BY <1>2, <1>8, <1>10 DEF Grouped
  <2>2. order[j] # order[k] /\ order[j] \in Nat /\ order[k] \in Nat
    BY <1>0, <1>10, <2>1 DEF OrdersDistinct
  <2>3. j \in C <=> k \in C
    BY <1>4, <2>1 DEF Grouped, Live, LiveIn
  <2>4. CASE j \notin C
    BY <1>6, <2>2, <2>3, <2>4
  <2>5. CASE j \in C
    <3>1. Grouped(i, j) /\ Grouped(i, k)
      BY <1>4, <2>3, <2>5 DEF Grouped, Live, LiveIn
    <3>2. order[j] # order[i] /\ order[k] # order[i]
      BY <3>1 DEF OrdersDistinct
    <3> QED
      BY <1>0, <1>6, <2>2, <2>3, <2>5, <3>2
  <2> QED
    BY <2>4, <2>5
<1>11. ASSUME NEW j \in Items \ {i}, Grouped(i, j)'
       PROVE  j \in Contents(pr, p)
  <2>1. Live(j) /\ parent[j] = p /\ ProjectOf(j) = pr
    BY <1>2, <1>8, <1>9, <1>11 DEF Grouped, Live, LiveIn
  <2> QED
    BY <2>1, ListedInProject
<1> QED
  BY <1>1, <1>5, <1>7, <1>10, <1>11, PlacedLast

\* Moving one place renumbers a whole group.
LEMMA MoveOrderDistinct ==
  ASSUME Structure, OrdersDistinct, NEW i \in Items, NEW dir \in Directions,
         MoveModuleOrder(i, dir) \/ MoveFeatureOrder(i, dir)
  PROVE  OrdersDistinct'
<1> DEFINE S == Contents(ProjectOf(i), parent[i])
<1>1. /\ Dense(order', S)
      /\ \A j \in Items \ S : order'[j] = order[j]
  BY MoveOrderPasses
<1>2. UNCHANGED <<kind, project, parent, deletedAt>> /\ Live(i)
  BY DEF MoveModuleOrder, MoveFeatureOrder, SwapEffect
<1>3. parent[i] # Root => /\ parent[i] \in Items /\ kind[parent[i]] = "module"
                          /\ project[parent[i]] = ProjectOf(i)
  BY <1>2 DEF Structure, TypeOK, ParentIsModule, ParentInSameProject, ProjectOf, Modules,
              IsModule, IsFeature, Live, LiveIn
<1>4. \A j \in Items : j \in S <=> Live(j) /\ parent[j] = parent[i] /\ ProjectOf(j) = ProjectOf(i)
  BY <1>3, ListedInProject
<1> HIDE DEF S
<1>5. ASSUME NEW j \in Items, NEW k \in Items, j # k, Grouped(j, k)', order'[j] = order'[k]
      PROVE  Grouped(j, k) /\ order[j] = order[k]
  <2>1. Grouped(j, k)
    BY <1>2, <1>5 DEF Grouped, ProjectOf, IsFeature
  <2>2. j \in S <=> k \in S
    BY <1>4, <2>1 DEF Grouped, Live, LiveIn
  <2>3. j \notin S
    BY <1>1, <1>5, <2>2 DEF Dense
  <2> QED
    BY <1>1, <1>5, <2>1, <2>2, <2>3
<1> QED
  BY <1>5, NothingNewGrouped

\* What a deletion takes from one group was live, and is together again.
LEMMA DeletedDistinct ==
  ASSUME Structure, OrdersDistinct, NEW S, NEW t, Now(t), deletedAt' = Deleted(S, t),
         UNCHANGED <<kind, project, parent, order>>
  PROVE  OrdersDistinct'
<1>1. t \in 1..MaxClock /\ \A i \in Items : deletedAt[i] < t /\ deletedAt[i] \in Nat
  BY NowIsLatest DEF Structure, TypeOK
<1>2. \A i \in Items : \/ deletedAt'[i] = t /\ deletedAt[i] = 0
                       \/ deletedAt'[i] = deletedAt[i] /\ deletedAt'[i] # t
  BY <1>1 DEF Deleted, Live, LiveIn
<1>3. \A j, k \in Items : Grouped(j, k)' => Grouped(j, k)
  BY <1>2 DEF Grouped, ProjectOf, IsFeature
<1> QED
  BY <1>3, NothingNewGrouped

\* What a module restored brings back is renumbered with the live rows next to it.
LEMMA RestoreModuleDistinct ==
  ASSUME Structure, OrdersDistinct, NEW m \in Modules, RestoreModule(m)
  PROVE  OrdersDistinct'
<1> DEFINE S == Subtree(m, TRUE)
           W == WithFeatures(S)
           p == parent[m]
           pr == project[m]
           listed(i) == ContentsIn(deletedAt', pr, parent[i])
<1>1. /\ deletedAt' = Restored(W, deletedAt[m])
      /\ order' = [i \in Items |-> IF parent[i] \in S \cup {p} /\ i \in listed(i)
                                   THEN Rank(order, listed(i), i) ELSE order[i]]
      /\ UNCHANGED <<kind, project, parent>>
  BY DEF RestoreModule, RestoreEffect
<1>2. /\ order \in [Items -> Nat] /\ m \in Items /\ kind[m] = "module"
      /\ parent \in [Items -> Items \cup {Root}]
      /\ kind \in [Items -> {"none", "module", "feature"}]
  BY DEF Structure, TypeOK, Modules, IsModule
<1>3. \A x \in S : x \in Modules /\ project[x] = pr
  BY SubtreeInProject
<1>4. p # Root => p \in Items /\ kind[p] = "module" /\ project[p] = pr
  BY <1>2 DEF Structure, ParentIsModule, ParentInSameProject, Modules, IsModule
<1>5. ASSUME NEW i \in W
      PROVE  parent[i] \in S \cup {p} /\ ProjectOf(i) = pr
  <2>1. CASE i \in S
    <3>1. i = m \/ parent[i] \in S
      BY <1>2, <2>1, SubtreeParent
    <3> QED
      BY <1>3, <2>1, <3>1 DEF ProjectOf, Modules, IsModule, IsFeature
  <2>2. CASE i \notin S
    BY <1>3, <2>2 DEF WithFeatures, ProjectOf
  <2> QED
    BY <2>1, <2>2
<1>6. \A i \in Items \ W : deletedAt'[i] = deletedAt[i]
  BY <1>1 DEF Restored
<1>7. \A i \in Items : deletedAt'[i] = 0 \/ deletedAt'[i] = deletedAt[i]
  BY <1>1 DEF Restored
<1>8. \A i \in Items : ProjectOf(i)' = ProjectOf(i)
  BY <1>1 DEF ProjectOf, IsFeature
<1>9. \A i \in Items : i \in listed(i) => deletedAt'[i] = 0
  BY DEF ContentsIn, LiveIn
<1>10. ASSUME NEW i \in Items, kind[i] # "none", parent[i] \in S \cup {p}, deletedAt'[i] = 0
       PROVE  i \in listed(i) <=> ProjectOf(i) = pr
  <2>1. parent[i] # Root => kind[parent[i]] = "module" /\ project[parent[i]] = pr
    BY <1>3, <1>4, <1>10 DEF Modules, IsModule
  <2>2. kind[i] = "feature" => parent[i] # Root
    BY DEF Structure, RowsComplete
  <2> QED
    BY <1>2, <1>10, <2>1, <2>2 DEF ContentsIn, LiveIn, ProjectOf, IsFeature, IsModule
<1>11. ASSUME NEW j \in Items, NEW k \in Items, j # k, Grouped(j, k)', order'[j] = order'[k]
       PROVE  Grouped(j, k) /\ order[j] = order[k]
  <2>0. /\ kind[j] # "none" /\ kind[k] # "none" /\ parent[j] = parent[k]
        /\ ProjectOf(j) = ProjectOf(k) /\ deletedAt'[j] = deletedAt'[k]
    BY <1>1, <1>8, <1>11 DEF Grouped
  <2>1. CASE j \notin W /\ k \notin W /\ ~ (parent[j] \in S \cup {p} /\ j \in listed(j))
                        /\ ~ (parent[k] \in S \cup {p} /\ k \in listed(k))
    <3>1. deletedAt[j] = deletedAt[k]
      BY <1>6, <2>0, <2>1
    <3>2. order'[j] = order[j] /\ order'[k] = order[k]
      BY <1>1, <2>1
    <3> QED
      BY <1>11, <2>0, <3>1, <3>2 DEF Grouped
  <2>2. CASE deletedAt'[j] # 0
    <3>1. deletedAt[j] = deletedAt[k]
      BY <1>7, <2>0, <2>2
    <3>2. j \notin listed(j) /\ k \notin listed(k)
      BY <1>9, <2>0, <2>2
    <3>3. order'[j] = order[j] /\ order'[k] = order[k]
      BY <1>1, <3>2
    <3> QED
      BY <1>11, <2>0, <3>1, <3>3 DEF Grouped
  <2>3. CASE parent[j] \in S \cup {p} /\ ProjectOf(j) = pr /\ deletedAt'[j] = 0
    <3>1. j \in listed(j) /\ k \in listed(k) /\ listed(j) = listed(k)
      BY <1>10, <2>0, <2>3
    <3>2. order'[j] = Rank(order, listed(j), j) /\ order'[k] = Rank(order, listed(j), k)
      BY <1>1, <2>0, <2>3, <3>1
    <3> DEFINE L == listed(j)
    <3>3. L \in SUBSET Items
      BY DEF ContentsIn
    <3>4. j \in L /\ k \in L /\ Rank(order, L, j) = Rank(order, L, k)
      BY <1>11, <3>1, <3>2
    <3> HIDE DEF L
    <3> QED
      BY <1>2, <1>11, <3>3, <3>4, RankTells
  <2>4. CASE /\ deletedAt'[j] = 0
             /\ ~ (parent[j] \in S \cup {p} /\ ProjectOf(j) = pr)
    <3>1. j \notin W /\ k \notin W
      BY <1>5, <2>0, <2>4
    <3>2. /\ ~ (parent[j] \in S \cup {p} /\ j \in listed(j))
          /\ ~ (parent[k] \in S \cup {p} /\ k \in listed(k))
      BY <1>10, <2>0, <2>4
    <3> QED
      BY <2>1, <3>1, <3>2
  <2> QED
    BY <2>2, <2>3, <2>4
<1> QED
  BY <1>11, NothingNewGrouped

\* What a project restored brings back was together when it went.
LEMMA RestoreProjectDistinct ==
  ASSUME Structure, StampInv, LiveRowHasLiveProject, OrdersDistinct,
         NEW pr \in Projects, RestoreProject(pr)
  PROVE  OrdersDistinct'
<1>1. UNCHANGED <<kind, project, parent, order>>
  BY DEF RestoreProject
<1>2. \A i \in Items : \/ deletedAt'[i] = 0 /\ i \in InProject(pr)
                       \/ deletedAt'[i] = deletedAt[i]
  BY DEF RestoreProject, Restored
<1>3. \A i \in Items : deletedAt[i] # 0 /\ deletedAt'[i] = 0 <=> deletedAt[i] = projectDeletedAt[pr]
  BY RestoreProjectUndoes
<1>4. \A i \in InProject(pr) : deletedAt[i] # 0
  BY DEF InProject, LiveRowHasLiveProject, Live, LiveIn, RestoreProject, ProjectLive
<1>5. ASSUME NEW j \in Items, NEW k \in Items, Grouped(j, k)'
      PROVE  Grouped(j, k)
  <2>1. /\ kind[j] # "none" /\ kind[k] # "none" /\ parent[j] = parent[k]
        /\ ProjectOf(j) = ProjectOf(k) /\ deletedAt'[j] = deletedAt'[k]
    BY <1>1, <1>5 DEF Grouped, ProjectOf, IsFeature
  <2>2. j \in InProject(pr) <=> k \in InProject(pr)
    BY <2>1 DEF InProject
  <2>3. deletedAt[j] = deletedAt[k]
    BY <1>2, <1>3, <1>4, <2>1, <2>2
  <2> QED
    BY <2>1, <2>3 DEF Grouped
<1> QED
  BY <1>1, <1>5, NothingNewGrouped

\* Every request but the two that are named keeps the orders apart.
LEMMA OrdersDistinctKept ==
  ASSUME Structure, StampInv, LiveRowHasLiveProject, OrdersDistinct, TreeNext
  PROVE  OrdersDistinct' \/ \E f \in Items : RestoreFeature(f)
<1>0. Modules \subseteq Items
  BY DEF Modules
<1>1. ASSUME UNCHANGED <<kind, project, parent, order, deletedAt>>
      PROVE  OrdersDistinct'
  BY <1>1 DEF OrdersDistinct, Grouped, ProjectOf, IsFeature
<1>2. ASSUME NEW i \in Items, NEW pr \in Projects, NEW p \in Modules \cup {Root},
             NEW n \in Names, CreateModule(i, pr, p, n)
      PROVE  OrdersDistinct'
  <2>1. kind[i] = "none" /\ UNCHANGED deletedAt
    BY <1>2 DEF CreateModule, NextRow
  <2>2. p # Root => p \in Items /\ kind[p] = "module" /\ project[p] = pr
    BY <1>2 DEF CreateModule, Modules, IsModule
  <2>3. PICK n0 \in 0..MaxOrder : /\ IsNextOrder(n0, order, Contents(pr, p))
                                  /\ order' = [order EXCEPT ![i] = n0]
    BY <1>2 DEF CreateModule
  <2>4. n0 \in Nat
    BY BoundsAssumption
  <2> QED
    BY <1>2, <2>1, <2>2, <2>3, <2>4, AddedDistinct DEF CreateModule
<1>3. ASSUME NEW i \in Items, NEW m \in Modules, NEW n \in Names, CreateFeature(i, m, n)
      PROVE  OrdersDistinct'
  <2>1. kind[i] = "none" /\ UNCHANGED <<project, deletedAt>>
    BY <1>3 DEF CreateFeature, NextRow
  <2>2. m # Root /\ m \in Items /\ kind[m] = "module"
    BY DEF Modules, IsModule, Items, Root
  <2>3. PICK n0 \in 0..MaxOrder : /\ IsNextOrder(n0, order, Contents(project[m], m))
                                  /\ order' = [order EXCEPT ![i] = n0]
    BY <1>3 DEF CreateFeature
  <2>4. n0 \in Nat
    BY BoundsAssumption
  <2> QED
    BY <1>3, <2>1, <2>2, <2>3, <2>4, AddedDistinct DEF CreateFeature
<1>4. ASSUME NEW i \in Items, NEW n \in Names, Rename(i, n)
      PROVE  OrdersDistinct'
  BY <1>1, <1>4 DEF Rename
<1>5. ASSUME NEW m \in Modules, NEW t \in Modules \cup {Root}, NEW n \in Names,
             MoveModule(m, t, n)
      PROVE  OrdersDistinct'
  <2>1. /\ m \in Items /\ Live(m) /\ ProjectOf(m) = project[m] /\ ~ IsFeature(m) /\ t # parent[m]
        /\ t # Root => t \in Items /\ kind[t] = "module" /\ project[t] = project[m]
    BY <1>5 DEF MoveModule, MoveModuleAllowed, ModuleAvailable, LiveModule, Modules, IsModule,
                IsFeature, ProjectOf
  <2> QED
    BY <1>5, <2>1, MovedDistinct DEF MoveModule
<1>6. ASSUME NEW f \in Items, NEW m \in Modules, NEW n \in Names, MoveFeature(f, m, n)
      PROVE  OrdersDistinct'
  <2>1. /\ Live(f) /\ ProjectOf(f) = project[m] /\ m # parent[f]
        /\ m # Root /\ m \in Items /\ kind[m] = "module"
    BY <1>6 DEF MoveFeature, MoveFeatureAllowed, FeatureAvailable, LiveFeature, Modules, IsModule,
                Items, Root
  <2> QED
    BY <1>6, <2>1, MovedDistinct DEF MoveFeature
<1>7. ASSUME NEW i \in Items, NEW dir \in Directions,
             MoveModuleOrder(i, dir) \/ MoveFeatureOrder(i, dir)
      PROVE  OrdersDistinct'
  BY <1>7, MoveOrderDistinct
<1>8. ASSUME NEW m \in Modules, NEW cascade \in BOOLEAN, NEW force \in BOOLEAN,
             DeleteModule(m, cascade, force)
      PROVE  OrdersDistinct'
  BY <1>8, DeletedDistinct DEF DeleteModule
<1>9. ASSUME NEW f \in Items, NEW force \in BOOLEAN, DeleteFeature(f, force)
      PROVE  OrdersDistinct'
  BY <1>9, DeletedDistinct DEF DeleteFeature
<1>10. ASSUME NEW m \in Modules, RestoreModule(m)
       PROVE  OrdersDistinct'
  BY <1>10, RestoreModuleDistinct
<1>11. ASSUME NEW pr \in Projects, RemoveProject(pr)
       PROVE  OrdersDistinct'
  BY <1>11, DeletedDistinct DEF RemoveProject
<1>12. ASSUME NEW pr \in Projects, RestoreProject(pr)
       PROVE  OrdersDistinct'
  BY <1>12, RestoreProjectDistinct
<1>13. ASSUME NEW i \in Items, Snapshot(i) \/ Publish(i)
       PROVE  OrdersDistinct'
  BY <1>1, <1>13 DEF Snapshot, Publish, treeVars
<1>14. ASSUME NEW f \in Items, NEW v \in versions[f], RollbackFeature(f, v)
       PROVE  OrdersDistinct'
  BY <1>1, <1>14 DEF RollbackFeature
<1> QED
  BY <1>0, <1>2, <1>3, <1>4, <1>5, <1>6, <1>7, <1>8, <1>9, <1>10, <1>11, <1>12, <1>13, <1>14
     DEF TreeNext

\* Two rows of one parent get the same sortOrder only from a feature restored with
\* its old order: a creation or a move goes after what is there, and a restored
\* module or project brings back what was apart, or is renumbered.
\* (modules.service.ts:500, modules.service.ts:1030, features.service.ts:831)
THEOREM OrdersStayDistinctAlways == TreeSpec => OrdersStayDistinct
<1>1. Structure /\ StampInv /\ LiveRowHasLiveProject /\ [TreeNext]_vars =>
        [OrdersDistinct => \/ OrdersDistinct'
                           \/ \E f \in Items : RestoreFeature(f)
                           \/ RollbackNext]_vars
  BY OrdersDistinctKept
<1>2. TreeSpec => []LiveRowHasLiveProject
  BY TreeSpecSpec, LiveRowHasLiveProjectAlways, PTL
<1> QED
  BY <1>1, <1>2, TreeSpecStructure, StampInvAlways, PTL DEF TreeSpec, OrdersStayDistinct

-----------------------------------------------------------------------------
(* The readers of the tree.                                                *)

\* A walk meets where it starts and what is below what it has met, and no more.
LEMMA BelowClosed ==
  ASSUME NEW rows \in SUBSET Items, NEW up, NEW from \in SUBSET Items
  PROVE  /\ from \subseteq Below(rows, up, from)
         /\ \A i \in rows : up[i] \in Below(rows, up, from) => i \in Below(rows, up, from)
  BY DEF Below

LEMMA BelowLeast ==
  ASSUME NEW rows \in SUBSET Items, NEW up, NEW from \in SUBSET Items, NEW S \in SUBSET Items,
         from \subseteq S, \A i \in rows : up[i] \in S => i \in S
  PROVE  Below(rows, up, from) \subseteq S
  BY DEF Below

\* The live rows of a project, by kind.
LEMMA LoadedRows ==
  ASSUME Structure, LiveFeatureHasLiveModule, NEW p
  PROVE  /\ LoadedModules(p) = {m \in Items : LiveModule(m) /\ project[m] = p}
         /\ Loaded(p) = {i \in Items : Live(i) /\ ProjectOf(i) = p}
         /\ LoadedModules(p) \in SUBSET Items /\ Loaded(p) \in SUBSET Items
         /\ LoadedModules(p) = {m \in Loaded(p) : IsModule(m)}
<1>1. \A i \in Items : Live(i) => IsModule(i) \/ IsFeature(i)
  BY DEF Live, LiveIn, Structure, TypeOK, IsModule, IsFeature
<1>2. \A i \in Items : IsFeature(i) => parent[i] \in Items
  BY DEF Structure, TypeOK, RowsComplete, IsFeature
<1>3. Loaded(p) = {i \in Items : Live(i) /\ ProjectOf(i) = p}
  BY <1>1, <1>2 DEF Loaded, LoadedModules, LiveModule, LiveFeature, LiveFeatureHasLiveModule,
     ProjectOf, IsModule, IsFeature
<1> QED
  BY <1>3 DEF LoadedModules, LiveModule, ProjectOf, IsModule, IsFeature

\* The structure of a project holds all that is live in it: every live module is
\* reached from the top.
LEMMA ProjectStructureHolds ==
  ASSUME Structure, LiveFeatureHasLiveModule, LiveModuleHasLiveParent, NoCycle, NEW p
  PROVE  ProjectStructure(p) = Loaded(p)
<1> DEFINE L == Loaded(p)
           M == LoadedModules(p)
           from == {m \in L : IsModule(m) /\ parent[m] = Root}
           B == Below(L, parent, from)
<1>1. /\ L = {i \in Items : Live(i) /\ ProjectOf(i) = p}
      /\ M = {m \in Items : LiveModule(m) /\ project[m] = p}
      /\ L \in SUBSET Items /\ M \in SUBSET Items /\ from \in SUBSET Items
      /\ M = {m \in L : IsModule(m)}
  BY LoadedRows
<1> HIDE DEF L, M
<1>2. B \subseteq L
  BY <1>1, BelowLeast
<1>3. from \subseteq B /\ \A i \in L : parent[i] \in B => i \in B
  BY <1>1, BelowClosed
<1> HIDE DEF B
<1>4. M \subseteq B
  <2> DEFINE Q == M \ B
  <2> SUFFICES ASSUME Q # {}
               PROVE  FALSE
    OBVIOUS
  <2>1. Q \in SUBSET Modules
    BY <1>1 DEF LiveModule, Modules
  <2> HIDE DEF Q
  <2>2. PICK m \in Q : parent[m] \notin Q
    BY <2>1 DEF NoCycle
  <2>3. m \in M /\ m \notin B /\ m \in Modules /\ Live(m) /\ project[m] = p /\ m \in L
    BY <1>1, <2>1 DEF Q, LiveModule
  <2>4. parent[m] # Root
    BY <1>1, <1>3, <2>3
  <2>5. parent[m] \in Items /\ LiveModule(parent[m]) /\ project[parent[m]] = p
    BY <2>3, <2>4 DEF Structure, TypeOK, ParentInSameProject, LiveModuleHasLiveParent, Modules
  <2>6. parent[m] \in B
    BY <1>1, <2>2, <2>5 DEF Q
  <2> QED
    BY <1>3, <2>3, <2>6
<1>5. ASSUME NEW i \in L
      PROVE  i \in B
  <2>1. CASE i \in M
    BY <1>4, <2>1
  <2>2. CASE i \notin M
    <3>1. IsFeature(i) /\ LiveFeature(i)
      BY <1>1, <2>2 DEF Live, LiveIn, Structure, TypeOK, IsModule, IsFeature, LiveFeature
    <3>2. parent[i] \in M
      BY <1>1, <3>1 DEF LiveFeatureHasLiveModule, ProjectOf, Structure, TypeOK, RowsComplete, IsFeature
    <3> QED
      BY <1>3, <1>4, <3>2
  <2> QED
    BY <2>1, <2>2
<1>6. ProjectStructure(p) = B
  BY DEF ProjectStructure, BuiltTree, B, L
<1> QED
  BY <1>2, <1>5, <1>6 DEF L

\* What a cascading deletion of a live module takes: the live rows below it.
Taken(m) == {i \in WithFeatures(Subtree(m, FALSE)) : Live(i)}

\* It is closed under what a reader loads, and its modules are live.
LEMMA TakenRows ==
  ASSUME Structure, LiveFeatureHasLiveModule, NEW p, NEW m \in LoadedModules(p)
  PROVE  /\ m \in Items /\ Taken(m) \in SUBSET Loaded(p) /\ m \in Taken(m)
         /\ Subtree(m, FALSE) = {x \in Taken(m) : IsModule(x)}
         /\ \A i \in Loaded(p) : parent[i] \in Taken(m) => i \in Taken(m)
         /\ \A i \in Taken(m) \ {m} : parent[i] \in Subtree(m, FALSE)
         /\ \A i \in Items : i \in Taken(m) <=> \/ i \in Subtree(m, FALSE)
                                                \/ LiveFeature(i) /\ parent[i] \in Subtree(m, FALSE)
<1> DEFINE S == Subtree(m, FALSE)
<1>1. m \in Modules /\ m \in Items /\ Live(m) /\ IsModule(m) /\ project[m] = p
  BY DEF LoadedModules, LiveModule, Modules
<1>2. \A x \in S : x \in Modules /\ x \in Items /\ IsModule(x) /\ project[x] = p
  BY <1>1, SubtreeInProject DEF Modules
<1>3. \A x \in S \ {m} : Live(x) /\ parent[x] \in S
  <2>1. \A x \in S \ {m} : Followed(x, FALSE) /\ parent[x] \in S
    BY <1>1, SubtreeParent
  <2> QED
    BY <2>1 DEF Followed, Live, LiveIn, IsModule
<1>4. m \in S /\ \A x \in Items : Live(x) /\ IsModule(x) /\ parent[x] \in S => x \in S
  BY <1>1, SubtreeSelf, SubtreeClosedDown DEF ClosedDown, Followed, Live, LiveIn
<1> HIDE DEF S
<1>5. \A i \in Items : i \in Taken(m) <=> i \in S \/ (LiveFeature(i) /\ parent[i] \in S)
  BY <1>1, <1>2, <1>3 DEF Taken, WithFeatures, LiveFeature, S
<1>6. \A i \in Taken(m) : i \in Items /\ Live(i)
  BY <1>2 DEF Taken, WithFeatures, S
<1>7. \A i \in Taken(m) : ProjectOf(i) = p
  BY <1>2, <1>5, <1>6 DEF ProjectOf, LiveFeature, IsModule, IsFeature
<1>8. Loaded(p) = {i \in Items : Live(i) /\ ProjectOf(i) = p}
  BY LoadedRows
<1>9. \A i \in Items : Live(i) => IsModule(i) \/ LiveFeature(i)
  BY DEF Live, LiveIn, Structure, TypeOK, IsModule, IsFeature, LiveFeature
<1>10. S = {x \in Taken(m) : IsModule(x)}
  BY <1>2, <1>5, <1>6 DEF LiveFeature, IsModule, IsFeature
<1>11. ASSUME NEW i \in Loaded(p), parent[i] \in Taken(m)
       PROVE  i \in Taken(m)
  <2>1. parent[i] \in S
    <3>1. parent[i] \in Items /\ parent[i] # Root
      BY <1>6, <1>11 DEF Items, Root
    <3>2. IsModule(parent[i])
      BY <1>8, <3>1 DEF Structure, ParentIsModule, IsModule
    <3> QED
      BY <1>10, <1>11, <3>2
  <2> QED
    BY <1>4, <1>5, <1>8, <1>9, <2>1
<1>12. \A i \in Taken(m) \ {m} : parent[i] \in S
  BY <1>3, <1>5, <1>6
<1> QED
  BY <1>1, <1>4, <1>5, <1>6, <1>7, <1>8, <1>10, <1>11, <1>12 DEF S

\* A walk over what is loaded, or over its modules only, meets them and no others.
LEMMA WalkMeetsTaken ==
  ASSUME Structure, LiveFeatureHasLiveModule, NEW p, NEW m \in LoadedModules(p),
         NEW rows \in SUBSET Items, NEW up, \A i \in Items \ {m} : up[i] = parent[i],
         up[m] = parent[m] \/ up[m] = Root,
         Subtree(m, FALSE) \subseteq rows, rows \subseteq Loaded(p)
  PROVE  Below(rows, up, {m}) = Taken(m) \cap (rows \cup {m})
<1> DEFINE S == Subtree(m, FALSE)
           T == Taken(m) \cap (rows \cup {m})
           B == Below(rows, up, {m})
<1>1. Loaded(p) \in SUBSET Items
  BY LoadedRows
<1>2. /\ m \in Items /\ Taken(m) \in SUBSET Items /\ m \in Taken(m)
      /\ \A i \in Loaded(p) : parent[i] \in Taken(m) => i \in Taken(m)
      /\ \A i \in Taken(m) \ {m} : parent[i] \in S
      /\ S \subseteq Taken(m)
  <2>1. /\ m \in Items /\ Taken(m) \in SUBSET Loaded(p) /\ m \in Taken(m)
        /\ S = {x \in Taken(m) : IsModule(x)}
        /\ \A i \in Loaded(p) : parent[i] \in Taken(m) => i \in Taken(m)
        /\ \A i \in Taken(m) \ {m} : parent[i] \in S
    BY TakenRows
  <2> QED
    BY <1>1, <2>1
<1> HIDE DEF S
<1>3. \A i \in rows : up[i] \in T => i \in T
  BY <1>2
<1>4. T \in SUBSET Items /\ {m} \subseteq T /\ {m} \in SUBSET Items
  BY <1>2
<1>5. B \subseteq T
  BY <1>3, <1>4, BelowLeast
<1>6. m \in B /\ \A i \in rows : up[i] \in B => i \in B
  BY <1>4, BelowClosed
<1> HIDE DEF B, T
<1>7. S \subseteq B
  <2> DEFINE U == {x \in S : x \in B}
  <2>1. U \in SUBSET Items /\ m \in U
    BY <1>2, <1>6, SubtreeSelf DEF S
  <2>2. ASSUME NEW x \in Items, Followed(x, FALSE), parent[x] \in U
        PROVE  x \in U
    <3>1. x \in S
      BY <1>2, <2>2, SubtreeClosedDown DEF ClosedDown, S
    <3>2. x = m \/ up[x] = parent[x]
      OBVIOUS
    <3> QED
      BY <1>6, <2>2, <3>1, <3>2 DEF S
  <2> HIDE DEF U
  <2>3. S \subseteq U
    BY <1>2, <2>1, <2>2, SubtreeLeast DEF ClosedDown, S
  <2> QED
    BY <2>3 DEF U
<1>8. T \subseteq B
  <2> SUFFICES ASSUME NEW i \in T, i # m
               PROVE  i \in B
    BY <1>6
  <2>1. i \in rows /\ i \in Taken(m) /\ i \in Items
    BY <1>2 DEF T
  <2>2. up[i] = parent[i] /\ parent[i] \in S
    BY <1>2, <2>1
  <2> QED
    BY <1>6, <1>7, <2>1, <2>2
<1> QED
  BY <1>5, <1>8 DEF B, T

\* The structure of a module, a manual rooted at it and the images of that manual
\* hold what a cascading deletion of it would take.
LEMMA ModuleReadersAgree ==
  ASSUME Structure, LiveFeatureHasLiveModule, NEW p, NEW m \in LoadedModules(p)
  PROVE  /\ ModuleStructure(m) = Taken(m)
         /\ Manual(m) = Taken(m)
         /\ ImagesFor(m) = Taken(m)
<1> DEFINE S == Subtree(m, FALSE)
           L == Loaded(p)
           M == LoadedModules(p)
<1>1. /\ m \in Items /\ Taken(m) \in SUBSET L /\ m \in Taken(m)
      /\ S = {x \in Taken(m) : IsModule(x)}
      /\ \A i \in L : parent[i] \in Taken(m) => i \in Taken(m)
      /\ \A i \in Taken(m) \ {m} : parent[i] \in S
      /\ \A i \in Items : i \in Taken(m) <=> i \in S \/ (LiveFeature(i) /\ parent[i] \in S)
  BY TakenRows
<1>2. /\ L \in SUBSET Items /\ M \in SUBSET Items /\ M = {x \in L : IsModule(x)}
      /\ L = {i \in Items : Live(i) /\ ProjectOf(i) = p}
  BY LoadedRows
<1>3. project[m] = p /\ IsModule(m)
  BY DEF LoadedModules, LiveModule
<1> HIDE DEF L, M, S
<1>4. S \subseteq M /\ M \subseteq L /\ S \subseteq Taken(m) /\ m \in S
  BY <1>1, <1>2, <1>3
<1>5. Below(L, parent, {m}) = Taken(m)
  <2>1. S \subseteq L
    BY <1>4
  <2>2. Below(L, parent, {m}) = Taken(m) \cap (L \cup {m})
    BY <1>2, <2>1, WalkMeetsTaken DEF L, S
  <2> QED
    BY <1>1, <2>2
<1>6. Collected(m) = S
  <2>1. Below(M, parent, {m}) = Taken(m) \cap (M \cup {m})
    BY <1>2, <1>4, WalkMeetsTaken DEF L, M, S
  <2>2. Collected(m) = Below(M, parent, {m})
    BY <1>3 DEF Collected, M
  <2> QED
    BY <1>1, <1>2, <1>3, <2>1, <2>2
<1>7. ImagesFor(m) = Taken(m)
  <2>1. ImagesFor(m) = S \cup {f \in L : IsFeature(f) /\ parent[f] \in S}
    BY <1>3, <1>6 DEF ImagesFor, L, IsModule, IsFeature
  <2> QED
    BY <1>1, <1>2, <2>1 DEF LiveFeature
<1>8. Manual(m) = Taken(m)
  <2> DEFINE rows == {x \in L : x \in S \/ parent[x] \in S}
             up == [parent EXCEPT ![m] = Root]
             from == {x \in rows : IsModule(x) /\ up[x] = Root}
  <2>1. Manual(m) = Below(rows, up, from)
    BY <1>3, <1>6 DEF Manual, BuiltTree, ProjectOf, IsModule, IsFeature, L
  <2>2. rows = Taken(m)
    BY <1>1, <1>4
  <2>3. up[m] = Root /\ \A i \in Items \ {m} : up[i] = parent[i]
    BY <1>1 DEF Structure, TypeOK
  <2>4. S \subseteq rows /\ rows \subseteq L /\ rows \in SUBSET Items
    BY <1>2, <1>4
  <2>5. from = {m}
    <3>1. m \in from
      BY <1>3, <1>4, <2>3, <2>4
    <3>2. ASSUME NEW x \in from, x # m
          PROVE  FALSE
      <4>1. x \in Taken(m) /\ x \in Items
        BY <2>2, <2>4
      <4>2. parent[x] \in S /\ parent[x] = Root
        BY <1>1, <2>3, <3>2, <4>1
      <4> QED
        BY <2>4, <4>2 DEF Items, Root
    <3> QED
      BY <3>1, <3>2
  <2> HIDE DEF rows, up, from
  <2>6. Below(rows, up, {m}) = Taken(m) \cap (rows \cup {m})
    BY <2>3, <2>4, WalkMeetsTaken DEF L, S
  <2> QED
    BY <1>1, <2>1, <2>2, <2>5, <2>6
<1>9. ModuleStructure(m) = Below(L, parent, {m})
  BY <1>3 DEF ModuleStructure, L
<1> QED
  BY <1>5, <1>7, <1>8, <1>9

\* A manual of a feature holds it and its module.
LEMMA FeatureManual ==
  ASSUME Structure, LiveFeatureHasLiveModule, NEW p, NEW f \in Loaded(p) \ LoadedModules(p)
  PROVE  Manual(f) = ImagesFor(f) /\ Manual(f) \subseteq Loaded(p)
<1> DEFINE r == parent[f]
           rows == {f, r}
           up == [parent EXCEPT ![r] = Root]
           from == {x \in rows : IsModule(x) /\ up[x] = Root}
<1>1. f \in Items /\ Live(f) /\ ProjectOf(f) = p /\ ~ IsModule(f)
  BY LoadedRows
<1>2. IsFeature(f) /\ LiveFeature(f)
  BY <1>1 DEF Live, LiveIn, Structure, TypeOK, IsModule, IsFeature, LiveFeature
<1>3. r \in Items /\ LiveModule(r) /\ project[r] = p /\ r # f /\ IsModule(r)
  BY <1>1, <1>2 DEF LiveFeatureHasLiveModule, LiveModule, ProjectOf, Structure, TypeOK,
     RowsComplete, IsModule, IsFeature
<1>4. Manual(f) = Below(rows, up, from)
  BY <1>1 DEF Manual, BuiltTree
<1>5. up[r] = Root /\ up[f] = r
  BY <1>1, <1>3 DEF Structure, TypeOK
<1>6. from = {r}
  BY <1>1, <1>3, <1>5
<1>7. rows \in SUBSET Items /\ {r} \in SUBSET Items
  BY <1>1, <1>3
<1> HIDE DEF rows, up, from
<1>8. r \in Below(rows, up, {r}) /\ \A i \in rows : up[i] \in Below(rows, up, {r}) => i \in Below(rows, up, {r})
  BY <1>7, BelowClosed
<1>9. Below(rows, up, {r}) \subseteq rows
  BY <1>7, BelowLeast DEF rows
<1>10. Below(rows, up, {r}) = {f, r}
  BY <1>5, <1>8, <1>9 DEF rows
<1>11. ImagesFor(f) = {f, r}
  BY <1>2 DEF ImagesFor
<1>12. r \in Loaded(p)
  BY <1>3 DEF Loaded, LoadedModules
<1> QED
  BY <1>4, <1>6, <1>10, <1>11, <1>12

\* Whatever was deleted and brought back before, in any order and at any depth, the
\* structure of a project holds the live rows among those a link without a root shows
\* images of, and the structure of a module, its manual, the images of that and its
\* deletion are about the same rows.
\* (projects.service.ts:492, 1092, 1164-1234, modules.service.ts:1062)
THEOREM ReadersAgreeAlways == TreeSpec => []ReadersAgree
<1>1. ASSUME Structure, LiveFeatureHasLiveModule, LiveModuleHasLiveParent, NoCycle
      PROVE  ReadersAgree
  <2> SUFFICES ASSUME NEW p \in Projects
               PROVE  /\ ProjectStructure(p) = {i \in ProjectImages(p) : Live(i)}
                      /\ \A m \in LoadedModules(p) :
                           /\ Manual(m) = ModuleStructure(m)
                           /\ ImagesFor(m) = ModuleStructure(m)
                           /\ ModuleStructure(m) = Taken(m)
                      /\ \A f \in Loaded(p) \ LoadedModules(p) :
                           Manual(f) = ImagesFor(f) /\ Manual(f) \subseteq ProjectStructure(p)
    BY DEF ReadersAgree, Taken
  <2>1. ProjectStructure(p) = Loaded(p)
    BY <1>1, ProjectStructureHolds
  <2>2. Loaded(p) = {i \in Items : Live(i) /\ ProjectOf(i) = p}
    BY <1>1, LoadedRows
  <2>3. \A m \in LoadedModules(p) : /\ ModuleStructure(m) = Taken(m)
                                    /\ Manual(m) = Taken(m)
                                    /\ ImagesFor(m) = Taken(m)
    BY <1>1, ModuleReadersAgree
  <2>4. \A f \in Loaded(p) \ LoadedModules(p) : Manual(f) = ImagesFor(f) /\ Manual(f) \subseteq Loaded(p)
    BY <1>1, FeatureManual
  <2>5. {i \in ProjectImages(p) : Live(i)} = {i \in Items : Live(i) /\ ProjectOf(i) = p}
    BY DEF ProjectImages, InProject, Live, LiveIn
  <2> QED
    BY <2>1, <2>2, <2>3, <2>4, <2>5
<1>2. TreeSpec => []LiveFeatureHasLiveModule
  BY TreeSpecSpec, LiveFeatureHasLiveModuleAlways, PTL
<1> QED
  BY <1>1, <1>2, TreeSpecStructure, LiveModuleHasLiveParentAlways, NoCycleAlways, PTL
=============================================================================
