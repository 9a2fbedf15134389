---------------------------- MODULE ContentTree ----------------------------
(***************************************************************************)
(* The content of the projects: a forest of modules whose nodes hold       *)
(* features, with soft deletion, sibling order, recorded versions and      *)
(* publication (modules.service.ts, features.service.ts, and the removal   *)
(* and restoration of a project in projects.service.ts).                   *)
(*                                                                         *)
(* One action is one request, executed alone: what concurrent requests do  *)
(* to each other is the subject of ContentTreeRaces, which runs the        *)
(* operators defined here on values that were read earlier.                *)
(*                                                                         *)
(* Rows are the numbers 1..MaxItems in the order of their creation, so     *)
(* comparing two numbers is comparing createdAt.  Permissions, timestamps  *)
(* other than deletedAt, descriptions and documentation are left out.      *)
(***************************************************************************)
EXTENDS Integers, FiniteSets

CONSTANTS
  Projects,     \* the projects, created before the behaviour starts
  Names,        \* names a module or a feature may be given
  None,         \* the value of a column of a row that does not exist
  MaxItems,     \* bound: rows of Module and Feature together
  MaxOrder,     \* bound: the sortOrder given to a row created or moved
  MaxClock,     \* bound: distinct deletedAt values kept apart
  MaxVersions,  \* bound: versions recorded of one row
  MaxPublished  \* bound: rows that are published

ASSUME BoundsAssumption ==
  {MaxItems, MaxOrder, MaxClock, MaxVersions, MaxPublished} \subseteq Nat
ASSUME NoneAssumption == None \notin Projects /\ None \notin Names

VARIABLES
  kind,             \* which table the row is in, "none" before its creation
  name,             \* Module.name, Feature.name
  project,          \* Module.projectId; None for a feature
  parent,           \* Module.parentModuleId (Root is null), Feature.moduleId
  order,            \* sortOrder
  deletedAt,        \* deletedAt of the row, 0 is null
  versions,         \* what the recorded versions of the row hold
  published,        \* publishedVersionId is not null
  projectDeletedAt  \* Project.deletedAt, 0 is null

treeVars == <<kind, name, project, parent, order, deletedAt, projectDeletedAt>>
versionVars == <<versions, published>>
vars == <<treeVars, versionVars>>

Root == 0
Items == 1..MaxItems
Directions == {"UP", "DOWN"}

IsModule(i) == kind[i] = "module"
IsFeature(i) == kind[i] = "feature"
Modules == {i \in Items : IsModule(i)}

-----------------------------------------------------------------------------
(* Reading the tables.  The operators that a transaction evaluates after   *)
(* its own writes take the column they read as a parameter.                *)

LiveIn(del, i) == kind[i] # "none" /\ del[i] = 0
Live(i) == LiveIn(deletedAt, i)
LiveModule(i) == Live(i) /\ IsModule(i)
LiveFeature(i) == Live(i) /\ IsFeature(i)

ProjectLive(p) == projectDeletedAt[p] = 0

\* The project a row belongs to: a feature has the project of its module.
ProjectOf(i) == IF IsFeature(i) THEN project[parent[i]] ELSE project[i]

\* requireModule: the module and its project are live (a caller without the
\* permission is turned away without an effect).
ModuleAvailable(m) == LiveModule(m) /\ ProjectLive(project[m])

\* requireFeature: the feature, its module and the project are live.
FeatureAvailable(f) ==
  /\ LiveFeature(f)
  /\ deletedAt[parent[f]] = 0
  /\ ProjectLive(ProjectOf(f))

\* The live rows listed together under parent p of project pr.
ContentsIn(del, pr, p) ==
  {i \in Items : LiveIn(del, i) /\ parent[i] = p
                   /\ (IsModule(i) => project[i] = pr)}
Contents(pr, p) == ContentsIn(deletedAt, pr, p)

\* The unique indexes (projectId, parentModuleId, name) and (moduleId, name).
\* They count soft-deleted rows, and none of them sees a null parent.
NameFree(i, pr, p, n) ==
  p = Root \/ \A j \in Items \ {i} :
                ~ (kind[j] = kind[i] /\ parent[j] = p /\ name[j] = n
                     /\ (IsModule(j) => project[j] = pr))
NameFreeFor(k, pr, p, n) ==
  p = Root \/ \A j \in Items :
                ~ (kind[j] = k /\ parent[j] = p /\ name[j] = n
                     /\ (IsModule(j) => project[j] = pr))

-----------------------------------------------------------------------------
(* Sibling order.                                                          *)

\* Wrong variant of IsNextOrder: the number of siblings.
IsSiblingCount(n, ord, S) == n = Cardinality(S)

\* n is one more than the greatest order in S, 0 when S is empty.
IsNextOrder(n, ord, S) ==
  /\ \A i \in S : ord[i] < n
  /\ n = 0 \/ \E i \in S : ord[i] = n - 1

\* Closing the gap that a row with order r leaves among its old siblings S.
Compacted(ord, S, r) ==
  [i \in Items |-> IF i \in S /\ ord[i] > r THEN ord[i] - 1 ELSE ord[i]]

\* The order rows are shown in: by sortOrder, then by createdAt.
Before(ord, i, j) == ord[i] < ord[j] \/ (ord[i] = ord[j] /\ i < j)

Rank(ord, S, i) == Cardinality({j \in S : Before(ord, j, i)})

\* Wrong variant of Normalized: the orders are taken as they are.
NotNormalized(ord, S) == ord

\* Renumbering S from 0 in the order it is shown in.
Normalized(ord, S) ==
  [i \in Items |-> IF i \in S THEN Rank(ord, S, i) ELSE ord[i]]

\* The rows next to i in S, in the given direction (none at the end).
Neighbours(ord, S, i, dir) ==
  LET side == {j \in S \ {i} : IF dir = "UP" THEN ord[j] < ord[i]
                                             ELSE ord[j] > ord[i]}
  IN  {j \in side : \A k \in side : IF dir = "UP" THEN ord[k] <= ord[j]
                                                  ELSE ord[k] >= ord[j]}

-----------------------------------------------------------------------------
(* Walking the tree.                                                       *)

ClosedUp(S) == \A x \in S : parent[x] # Root => parent[x] \in S

\* Wrong variant of Ancestors: only the target's own parent is looked at.
ParentOnly(t) == {parent[t]} \ {Root}

\* The ids update() visits when it walks from the target's parent to a root.
\* The walk stops at an id it has seen, so it ends on a cycle too.
Ancestors(t) ==
  LET closed == {S \in SUBSET Items :
                   (parent[t] # Root => parent[t] \in S) /\ ClosedUp(S)}
  IN  {x \in Items : \A S \in closed : x \in S}

\* A module row the breadth-first search follows down from its parent.
Followed(x, includeDeleted) == IsModule(x) /\ (includeDeleted \/ deletedAt[x] = 0)

ClosedDown(S, includeDeleted) ==
  \A x \in Items : Followed(x, includeDeleted) /\ parent[x] \in S => x \in S

\* collectModuleSubtreeIds: m and the modules below it.
Subtree(m, includeDeleted) ==
  LET closed == {S \in SUBSET Items : m \in S /\ ClosedDown(S, includeDeleted)}
  IN  {x \in Items : \A S \in closed : x \in S}

\* The search keeps no set of visited ids: it ends only when m is not below
\* itself.  A request that does not end has no effect.
SearchEnds(m, includeDeleted) ==
  ~ (Followed(m, includeDeleted) /\ parent[m] \in Subtree(m, includeDeleted))

\* The modules S and the features they hold.
WithFeatures(S) == S \cup {i \in Items : IsFeature(i) /\ parent[i] \in S}

-----------------------------------------------------------------------------
TypeOK ==
  /\ kind \in [Items -> {"none", "module", "feature"}]
  /\ name \in [Items -> Names \cup {None}]
  /\ project \in [Items -> Projects \cup {None}]
  /\ parent \in [Items -> Items \cup {Root}]
  /\ order \in [Items -> Nat]
  /\ deletedAt \in [Items -> 0..MaxClock]
  /\ versions \in [Items -> SUBSET [name : Names, parent : Items \cup {Root}]]
  /\ published \in [Items -> BOOLEAN]
  /\ projectDeletedAt \in [Projects -> 0..MaxClock]

Init ==
  /\ kind = [i \in Items |-> "none"]
  /\ name = [i \in Items |-> None]
  /\ project = [i \in Items |-> None]
  /\ parent = [i \in Items |-> Root]
  /\ order = [i \in Items |-> 0]
  /\ deletedAt = [i \in Items |-> 0]
  /\ versions = [i \in Items |-> {}]
  /\ published = [i \in Items |-> FALSE]
  /\ projectDeletedAt = [p \in Projects |-> 0]

-----------------------------------------------------------------------------
(* Creation.                                                               *)

\* Row i is the next one created.
NextRow(i) == kind[i] = "none" /\ \A j \in Items : j < i => kind[j] # "none"

CreateModule(i, pr, p, n) ==
  /\ NextRow(i)
  /\ ProjectLive(pr)
  /\ p # Root => LiveModule(p) /\ project[p] = pr
  /\ NameFreeFor("module", pr, p, n)
  /\ kind' = [kind EXCEPT ![i] = "module"]
  /\ name' = [name EXCEPT ![i] = n]
  /\ project' = [project EXCEPT ![i] = pr]
  /\ parent' = [parent EXCEPT ![i] = p]
  /\ \E n0 \in 0..MaxOrder : /\ IsNextOrder(n0, order, Contents(pr, p))
                             /\ order' = [order EXCEPT ![i] = n0]
  /\ UNCHANGED <<deletedAt, projectDeletedAt, versionVars>>

CreateFeature(i, m, n) ==
  /\ NextRow(i)
  /\ ModuleAvailable(m)
  /\ NameFreeFor("feature", project[m], m, n)
  /\ kind' = [kind EXCEPT ![i] = "feature"]
  /\ name' = [name EXCEPT ![i] = n]
  /\ parent' = [parent EXCEPT ![i] = m]
  /\ \E n0 \in 0..MaxOrder : /\ IsNextOrder(n0, order, Contents(project[m], m))
                             /\ order' = [order EXCEPT ![i] = n0]
  /\ UNCHANGED <<project, deletedAt, projectDeletedAt, versionVars>>

-----------------------------------------------------------------------------
(* Update: renaming, and moving under another parent.                      *)

Rename(i, n) ==
  /\ IF IsModule(i) THEN ModuleAvailable(i) ELSE FeatureAvailable(i)
  /\ NameFree(i, ProjectOf(i), parent[i], n)
  /\ name' = [name EXCEPT ![i] = n]
  /\ UNCHANGED <<kind, project, parent, order, deletedAt, projectDeletedAt, versionVars>>

\* Wrong variant of MoveModuleAllowed: a parent in another project is accepted.
MoveAcrossProjectsAllowed(m, t) ==
  /\ ModuleAvailable(m)
  /\ t # m /\ t # parent[m]
  /\ t # Root => ModuleAvailable(t) /\ m \notin Ancestors(t)

\* Wrong variant of MoveModuleAllowed: nothing above the target is looked at.
MoveWithoutWalkAllowed(m, t) ==
  /\ ModuleAvailable(m)
  /\ t # m /\ t # parent[m]
  /\ t # Root => ModuleAvailable(t) /\ project[t] = project[m]

\* What update() checks before its transaction when it moves m under t.
MoveModuleAllowed(m, t) ==
  /\ ModuleAvailable(m)
  /\ t # m /\ t # parent[m]
  /\ t # Root => /\ ModuleAvailable(t)
                 /\ project[t] = project[m]
                 /\ m \notin Ancestors(t)

\* The transaction: row i leaves parent p0, where it had order r0, and goes to
\* the end of the contents of p.
MoveEffect(i, pr, p, n, p0, r0) ==
  LET compacted == Compacted(order, Contents(pr, p0), r0)
  IN  /\ NameFree(i, pr, p, n)
      /\ name' = [name EXCEPT ![i] = n]
      /\ parent' = [parent EXCEPT ![i] = p]
      /\ \E n0 \in 0..MaxOrder : /\ IsNextOrder(n0, compacted, Contents(pr, p))
                                 /\ order' = [compacted EXCEPT ![i] = n0]
      /\ UNCHANGED <<kind, project, deletedAt, projectDeletedAt, versionVars>>

MoveModule(m, t, n) ==
  /\ MoveModuleAllowed(m, t)
  /\ MoveEffect(m, project[m], t, n, parent[m], order[m])

MoveFeatureAllowed(f, m) ==
  /\ FeatureAvailable(f)
  /\ m # parent[f]
  /\ ModuleAvailable(m)
  /\ project[m] = ProjectOf(f)

MoveFeature(f, m, n) ==
  /\ MoveFeatureAllowed(f, m)
  /\ MoveEffect(f, project[m], m, n, parent[f], order[f])

-----------------------------------------------------------------------------
(* Moving a row one place up or down among its siblings.                   *)

\* The transaction normalizes the siblings of parent p, then exchanges the
\* orders of i and its neighbour; without a neighbour it is rolled back.
SwapEffect(i, pr, p, dir) ==
  LET ord == Normalized(order, Contents(pr, p))
  IN  /\ Live(i)
      /\ UNCHANGED <<kind, name, project, parent, deletedAt, projectDeletedAt, versionVars>>
      /\ \E j \in Neighbours(ord, Contents(pr, p), i, dir) :
           order' = [ord EXCEPT ![i] = ord[j], ![j] = ord[i]]

MoveModuleOrder(m, dir) ==
  ModuleAvailable(m) /\ SwapEffect(m, project[m], parent[m], dir)

MoveFeatureOrder(f, dir) ==
  FeatureAvailable(f) /\ SwapEffect(f, ProjectOf(f), parent[f], dir)

-----------------------------------------------------------------------------
(* Soft deletion and restoration.                                          *)

\* The time of a deletion is later than that of every earlier one; only the
\* order of the times that are still stored matters, so it is the next number.
Stamps == {deletedAt[i] : i \in Items} \cup {projectDeletedAt[p] : p \in Projects}
Now(t) ==
  /\ t \in 1..MaxClock
  /\ \A s \in Stamps : s < t
  /\ t - 1 \in Stamps

\* Marking the live rows of S.
Deleted(S, t) ==
  [i \in Items |-> IF i \in S /\ Live(i) THEN t ELSE deletedAt[i]]

\* Wrong variant of Restored: everything below comes back.
RestoredWhole(S, cutoff) ==
  [i \in Items |-> IF i \in S THEN 0 ELSE deletedAt[i]]

\* Bringing back the rows of S marked at cutoff or later.
Restored(S, cutoff) ==
  [i \in Items |-> IF i \in S /\ deletedAt[i] >= cutoff THEN 0 ELSE deletedAt[i]]

DoomedModules(m, cascade) == IF cascade THEN Subtree(m, FALSE) ELSE {m}

DeleteModuleAllowed(m, cascade, force) ==
  /\ ModuleAvailable(m)
  /\ IF cascade THEN SearchEnds(m, FALSE) ELSE \A i \in Items : parent[i] = m => ~ Live(i)
  /\ force \/ \A i \in WithFeatures(DoomedModules(m, cascade)) : Live(i) => ~ published[i]

DeleteModule(m, cascade, force) ==
  /\ DeleteModuleAllowed(m, cascade, force)
  /\ \E t \in 1..MaxClock :
       Now(t) /\ deletedAt' = Deleted(WithFeatures(DoomedModules(m, cascade)), t)
  /\ UNCHANGED <<kind, name, project, parent, order, projectDeletedAt, versionVars>>

DeleteFeature(f, force) ==
  /\ FeatureAvailable(f)
  /\ force \/ ~ published[f]
  /\ \E t \in 1..MaxClock : Now(t) /\ deletedAt' = Deleted({f}, t)
  /\ UNCHANGED <<kind, name, project, parent, order, projectDeletedAt, versionVars>>

\* Wrong variant of RestoreModuleAllowed: the parent may be deleted.
RestoreAnywhereAllowed(m) ==
  IsModule(m) /\ deletedAt[m] # 0 /\ ProjectLive(project[m]) /\ SearchEnds(m, TRUE)

\* Wrong variant of RestoreModuleAllowed: one at the top level has no parent to find.
RestoreBelowParentAllowed(m) ==
  /\ IsModule(m) /\ deletedAt[m] # 0
  /\ ProjectLive(project[m])
  /\ parent[m] # Root /\ LiveModule(parent[m])
  /\ SearchEnds(m, TRUE)

\* Wrong variant of RestoreModuleAllowed: the project may be removed.
RestoreInRemovedProjectAllowed(m) ==
  /\ IsModule(m) /\ deletedAt[m] # 0
  /\ parent[m] # Root => LiveModule(parent[m])
  /\ SearchEnds(m, TRUE)

RestoreModuleAllowed(m) ==
  /\ IsModule(m) /\ deletedAt[m] # 0
  /\ ProjectLive(project[m])
  /\ parent[m] # Root => LiveModule(parent[m])
  /\ SearchEnds(m, TRUE)

\* The transaction: of modules S and their features, those marked at cutoff or
\* later come back, and what is listed in S and next to m, in p, is renumbered.
RestoreEffect(m, S, cutoff, p) ==
  LET del == Restored(WithFeatures(S), cutoff)
      siblings(i) == ContentsIn(del, project[m], parent[i])
  IN  /\ deletedAt' = del
      /\ order' = [i \in Items |->
                     IF parent[i] \in S \cup {p} /\ i \in siblings(i)
                     THEN Rank(order, siblings(i), i) ELSE order[i]]
      /\ UNCHANGED <<kind, name, project, parent, projectDeletedAt, versionVars>>

RestoreModule(m) ==
  RestoreModuleAllowed(m) /\ RestoreEffect(m, Subtree(m, TRUE), deletedAt[m], parent[m])

\* Wrong variant of RestoreFeature: the module is not looked at.
RestoreFeatureAlone(f) ==
  /\ IsFeature(f) /\ deletedAt[f] # 0
  /\ ProjectLive(ProjectOf(f))
  /\ deletedAt' = [deletedAt EXCEPT ![f] = 0]
  /\ UNCHANGED <<kind, name, project, parent, order, projectDeletedAt, versionVars>>

\* Unlike a module, a feature comes back with the order it had.
RestoreFeature(f) ==
  /\ IsFeature(f) /\ deletedAt[f] # 0
  /\ ModuleAvailable(parent[f])
  /\ deletedAt' = [deletedAt EXCEPT ![f] = 0]
  /\ UNCHANGED <<kind, name, project, parent, order, projectDeletedAt, versionVars>>

InProject(pr) == {i \in Items : kind[i] # "none" /\ ProjectOf(i) = pr}

RemoveProject(pr) ==
  /\ ProjectLive(pr)
  /\ \E t \in 1..MaxClock :
       /\ Now(t)
       /\ projectDeletedAt' = [projectDeletedAt EXCEPT ![pr] = t]
       /\ deletedAt' = Deleted(InProject(pr), t)
  /\ UNCHANGED <<kind, name, project, parent, order, versionVars>>

RestoreProject(pr) ==
  /\ ~ ProjectLive(pr)
  /\ projectDeletedAt' = [projectDeletedAt EXCEPT ![pr] = 0]
  /\ deletedAt' = Restored(InProject(pr), projectDeletedAt[pr])
  /\ UNCHANGED <<kind, name, project, parent, order, versionVars>>

-----------------------------------------------------------------------------
(* Versions.  A version of a module holds its name and its parent, one of  *)
(* a feature its name; version numbers, hashes and pins are left out.      *)

Recorded(i) == [name |-> name[i], parent |-> IF IsModule(i) THEN parent[i] ELSE Root]

Available(i) == IF IsModule(i) THEN ModuleAvailable(i) ELSE FeatureAvailable(i)

Snapshot(i) ==
  /\ Available(i)
  /\ Cardinality(versions[i] \cup {Recorded(i)}) <= MaxVersions
  /\ versions' = [versions EXCEPT ![i] = @ \cup {Recorded(i)}]
  /\ UNCHANGED <<treeVars, published>>

Publish(i) ==
  /\ Available(i)
  /\ versions[i] # {}
  /\ Cardinality({j \in Items : published[j]} \cup {i}) <= MaxPublished
  /\ published' = [published EXCEPT ![i] = TRUE]
  /\ UNCHANGED <<treeVars, versions>>

\* rollback of a feature writes back the name the version holds.  The snapshot
\* that ends a rollback records what was just written back: it adds nothing to
\* versions, which hold that already.
RollbackFeature(f, v) ==
  /\ FeatureAvailable(f)
  /\ v \in versions[f]
  /\ NameFree(f, ProjectOf(f), parent[f], v.name)
  /\ name' = [name EXCEPT ![f] = v.name]
  /\ UNCHANGED <<kind, project, parent, order, deletedAt, projectDeletedAt, versionVars>>

\* rollback of a module also writes back the parent, whatever has become of
\* that parent since, and leaves the order as it is.
RollbackModule(m, v) ==
  /\ ModuleAvailable(m)
  /\ v \in versions[m]
  /\ NameFree(m, project[m], v.parent, v.name)
  /\ name' = [name EXCEPT ![m] = v.name]
  /\ parent' = [parent EXCEPT ![m] = v.parent]
  /\ UNCHANGED <<kind, project, order, deletedAt, projectDeletedAt, versionVars>>

-----------------------------------------------------------------------------
(* The requests that keep the tree, those on versions, and everything.     *)

TreeNext ==
  \/ \E i \in Items, pr \in Projects, p \in Modules \cup {Root}, n \in Names :
       CreateModule(i, pr, p, n)
  \/ \E i \in Items, m \in Modules, n \in Names : CreateFeature(i, m, n)
  \/ \E i \in Items, n \in Names : Rename(i, n)
  \/ \E m \in Modules, t \in Modules \cup {Root}, n \in Names : MoveModule(m, t, n)
  \/ \E f \in Items, m \in Modules, n \in Names : MoveFeature(f, m, n)
  \/ \E m \in Modules, dir \in Directions : MoveModuleOrder(m, dir)
  \/ \E f \in Items, dir \in Directions : MoveFeatureOrder(f, dir)
  \/ \E m \in Modules, cascade, force \in BOOLEAN : DeleteModule(m, cascade, force)
  \/ \E f \in Items, force \in BOOLEAN : DeleteFeature(f, force)
  \/ \E m \in Modules : RestoreModule(m)
  \/ \E f \in Items : RestoreFeature(f)
  \/ \E pr \in Projects : RemoveProject(pr)
  \/ \E pr \in Projects : RestoreProject(pr)
  \/ \E i \in Items : Snapshot(i)
  \/ \E i \in Items : Publish(i)
  \/ \E f \in Items : \E v \in versions[f] : RollbackFeature(f, v)

RollbackNext == \E m \in Modules : \E v \in versions[m] : RollbackModule(m, v)

\* Without rollbacks of modules, and with them.
TreeSpec == Init /\ [][TreeNext]_vars
Spec == Init /\ [][TreeNext \/ RollbackNext]_vars

-----------------------------------------------------------------------------
(* Properties of every request.                                            *)

\* A live feature is in a live module: no way of deleting, moving, restoring
\* or rolling back leaves a feature that requireFeature (feature live, but
\* "Module not found") would turn away for ever.
LiveFeatureHasLiveModule ==
  \A f \in Items : LiveFeature(f) => LiveModule(parent[f])

\* Whatever is live is in a live project: removing a project takes all of its
\* rows and nothing is created in it or brought back to it meanwhile.
LiveRowHasLiveProject ==
  \A i \in Items : Live(i) => ProjectLive(ProjectOf(i))

\* Moves and rollbacks keep a module in the project of its parent.
ParentInSameProject ==
  \A m \in Modules : parent[m] # Root => project[parent[m]] = project[m]

\* Two rows listed together, or to be brought back together, in one parent.
Grouped(i, j) ==
  /\ kind[i] # "none" /\ kind[j] # "none"
  /\ parent[i] = parent[j] /\ ProjectOf(i) = ProjectOf(j)
  /\ deletedAt[i] = deletedAt[j]

OrdersDistinct ==
  \A i, j \in Items : i # j /\ order[i] = order[j] => ~ Grouped(i, j)

\* Only two requests can give two rows of one parent the same sortOrder: a
\* feature restored with its old order, and a module rolled back into another
\* parent.  Creating, moving, compacting, deleting and restoring modules and
\* projects keep the orders distinct.
OrdersStayDistinct ==
  [][OrdersDistinct => \/ OrdersDistinct'
                       \/ \E f \in Items : RestoreFeature(f)
                       \/ RollbackNext]_vars

\* Moving a row one place, even among siblings whose orders have gaps or
\* duplicates, renumbers them from 0, moves the row one place in the asked
\* direction and exchanges it with the row it passes, nothing else.
MoveOrderPassesOneSibling ==
  [][\A i \in Items, dir \in Directions :
       MoveModuleOrder(i, dir) \/ MoveFeatureOrder(i, dir) =>
         LET S == Contents(ProjectOf(i), parent[i])
             old == Rank(order, S, i)
             new == Rank(order', S, i)
         IN  /\ {order'[j] : j \in S} = 0..(Cardinality(S) - 1)
             /\ new = IF dir = "UP" THEN old - 1 ELSE old + 1
             /\ \A j, k \in S \ {i} : Before(order, j, k) => Before(order', j, k)]_vars

-----------------------------------------------------------------------------
(* Properties that rollbacks of modules break.                             *)

\* A live module is at the top of a live project or below a live module.
LiveModuleHasLiveParent ==
  \A m \in Modules : Live(m) /\ parent[m] # Root => LiveModule(parent[m])

\* No module is below itself: a set of modules has one whose parent is not in
\* it.  Everything that walks the tree relies on it.
NoCycle == \A S \in SUBSET Modules : S # {} => \E m \in S : parent[m] \notin S

\* No row is lost: of a deleted module in a live project, the module itself or
\* one above it can be restored, so that it is reached from the top.
SomeoneAboveRestorable ==
  \A m \in Modules : deletedAt[m] # 0 /\ ProjectLive(project[m]) =>
    \E a \in Ancestors(m) \cup {m} : RestoreModuleAllowed(a)

\* Restoring a module or a project brings back exactly the rows that went
\* with it in one deletion, not those deleted on their own before.
RestoreUndoesOneDelete ==
  [][LET revived == {i \in Items : deletedAt[i] # 0 /\ deletedAt'[i] = 0}
     IN  /\ \A m \in Modules : RestoreModule(m) =>
               revived = {i \in Items : deletedAt[i] = deletedAt[m]}
         /\ \A pr \in Projects : RestoreProject(pr) =>
               revived = {i \in Items : deletedAt[i] = projectDeletedAt[pr]}]_vars
=============================================================================
