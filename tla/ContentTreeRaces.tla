-------------------------- MODULE ContentTreeRaces --------------------------
(***************************************************************************)
(* The requests of ContentTree when they run at the same time.  A request  *)
(* reads and checks, and only then opens the transaction that writes, on   *)
(* what it read: the order for a new row, the old parent and order of a    *)
(* moved one, the ids of a subtree.  Requests commit in between.           *)
(*                                                                         *)
(* The reads of one request are one step here and its transaction another; *)
(* what follows a transaction (touching updatedAt) is left out.  Renaming, *)
(* reordering and rollbacks do not take part, versions and publication in  *)
(* PublishingSpec alone.                                                   *)
(***************************************************************************)
EXTENDS ContentTree

CONSTANTS
  Requests,   \* the requests that may be under way at the same time
  MaxMovers   \* how many of them may be moving a module

ASSUME MoversAssumption == MaxMovers \in Nat /\ IsFiniteSet(Requests)

VARIABLE
  req         \* what each request has read and is about to write

raceVars == <<vars, req>>

Idle == [op |-> "idle"]

IsIdle(r) == req[r] = Idle
Reads(r, what) == req' = [req EXCEPT ![r] = what] /\ UNCHANGED vars
Done(r) == req' = [req EXCEPT ![r] = Idle]
\* The database refuses a write, and the request ends without an effect.
Refused(r) == Done(r) /\ UNCHANGED vars

RaceInit == Init /\ req = [r \in Requests |-> Idle]

-----------------------------------------------------------------------------
CreateAllowed(k, pr, p) ==
  IF k = "module" THEN ProjectLive(pr) /\ (p # Root => LiveModule(p) /\ project[p] = pr)
                  ELSE p # Root /\ ModuleAvailable(p) /\ project[p] = pr

\* nextModuleSortOrder and nextSortOrderInModule run before the transaction.
CreateRead(r, k, pr, p, n) ==
  /\ IsIdle(r)
  /\ CreateAllowed(k, pr, p)
  /\ \E n0 \in 0..MaxOrder :
       /\ IsNextOrder(n0, order, Contents(pr, p))
       /\ Reads(r, [op |-> "create", kind |-> k, project |-> pr, to |-> p,
                    name |-> n, order |-> n0])

Insert(q) ==
  /\ \E i \in Items :
       /\ NextRow(i)
       /\ kind' = [kind EXCEPT ![i] = q.kind]
       /\ name' = [name EXCEPT ![i] = q.name]
       /\ project' = [project EXCEPT ![i] = IF q.kind = "module" THEN q.project ELSE @]
       /\ parent' = [parent EXCEPT ![i] = q.to]
       /\ order' = [order EXCEPT ![i] = q.order]
  /\ UNCHANGED <<deletedAt, projectDeletedAt, versionVars>>

CreateCommit(r) ==
  /\ req[r].op = "create"
  /\ LET q == req[r]
     IN  IF NameFreeFor(q.kind, q.project, q.to, q.name)
         THEN Insert(q) /\ Done(r)
         ELSE Refused(r)

-----------------------------------------------------------------------------
Moving(r) == req[r].op = "move" /\ IsModule(req[r].row)

\* requireModule or requireFeature, and the walk up from the target.
MoveRead(r, i, p, n) ==
  /\ IsIdle(r)
  /\ \/ /\ IsModule(i)
        /\ Cardinality({q \in Requests : Moving(q)}) < MaxMovers
        /\ MoveModuleAllowed(i, p)
     \/ IsFeature(i) /\ p # Root /\ MoveFeatureAllowed(i, p)
  /\ Reads(r, [op |-> "move", row |-> i, project |-> ProjectOf(i), to |-> p,
               name |-> n, from |-> parent[i], order |-> order[i]])

MoveCommit(r) ==
  /\ req[r].op = "move"
  /\ LET q == req[r]
     IN  IF NameFree(q.row, q.project, q.to, q.name)
         THEN MoveEffect(q.row, q.project, q.to, q.name, q.from, q.order) /\ Done(r)
         ELSE Refused(r)

-----------------------------------------------------------------------------
\* delete of a module collects the ids before its transaction; the features
\* are those that are in these modules when it runs.
DeleteRead(r, m, cascade, force) ==
  /\ IsIdle(r)
  /\ DeleteModuleAllowed(m, cascade, force)
  /\ Reads(r, [op |-> "delete", rows |-> DoomedModules(m, cascade), force |-> force])

DeleteCommit(r) ==
  /\ req[r].op = "delete"
  /\ \E t \in 1..MaxClock : Now(t) /\ deletedAt' = Deleted(WithFeatures(req[r].rows), t)
  /\ Done(r)
  /\ UNCHANGED <<kind, name, project, parent, order, projectDeletedAt, versionVars>>

\* delete of a feature writes whatever has become of the row meanwhile.
DeleteFeatureRead(r, f, force) ==
  /\ IsIdle(r)
  /\ FeatureAvailable(f) /\ (force \/ ~ published[f])
  /\ Reads(r, [op |-> "deleteFeature", row |-> f, force |-> force])

DeleteFeatureCommit(r) ==
  /\ req[r].op = "deleteFeature"
  /\ \E t \in 1..MaxClock : Now(t) /\ deletedAt' = [deletedAt EXCEPT ![req[r].row] = t]
  /\ Done(r)
  /\ UNCHANGED <<kind, name, project, parent, order, projectDeletedAt, versionVars>>

RestoreRead(r, m) ==
  /\ IsIdle(r)
  /\ RestoreModuleAllowed(m)
  /\ Reads(r, [op |-> "restore", row |-> m, rows |-> Subtree(m, TRUE),
               cutoff |-> deletedAt[m], from |-> parent[m]])

RestoreCommit(r) ==
  /\ req[r].op = "restore"
  /\ RestoreEffect(req[r].row, req[r].rows, req[r].cutoff, req[r].from)
  /\ Done(r)

RestoreFeatureRead(r, f) ==
  /\ IsIdle(r)
  /\ IsFeature(f) /\ deletedAt[f] # 0 /\ ModuleAvailable(parent[f])
  /\ Reads(r, [op |-> "restoreFeature", row |-> f])

RestoreFeatureCommit(r) ==
  /\ req[r].op = "restoreFeature"
  /\ deletedAt' = [deletedAt EXCEPT ![req[r].row] = 0]
  /\ Done(r)
  /\ UNCHANGED <<kind, name, project, parent, order, projectDeletedAt, versionVars>>

\* The transactions of a project write by its id and need no earlier read.
ProjectStep ==
  /\ \E pr \in Projects : RemoveProject(pr) \/ RestoreProject(pr)
  /\ UNCHANGED req

-----------------------------------------------------------------------------
RaceRead(r) ==
  \/ \E k \in {"module", "feature"}, pr \in Projects, p \in Modules \cup {Root}, n \in Names :
       CreateRead(r, k, pr, p, n)
  \/ \E i \in Items, p \in Modules \cup {Root}, n \in Names : MoveRead(r, i, p, n)
  \/ \E m \in Modules, cascade, force \in BOOLEAN : DeleteRead(r, m, cascade, force)
  \/ \E f \in Items, force \in BOOLEAN : DeleteFeatureRead(r, f, force)
  \/ \E m \in Modules : RestoreRead(r, m)
  \/ \E f \in Items : RestoreFeatureRead(r, f)

RaceCommit(r) ==
  \/ CreateCommit(r)
  \/ MoveCommit(r)
  \/ DeleteCommit(r)
  \/ DeleteFeatureCommit(r)
  \/ RestoreCommit(r)
  \/ RestoreFeatureCommit(r)

RaceNext == (\E r \in Requests : RaceRead(r) \/ RaceCommit(r)) \/ ProjectStep

RaceSpec == RaceInit /\ [][RaceNext]_raceVars

\* The same requests, while rows are recorded and published.
PublishStep ==
  /\ \E i \in Items : Snapshot(i) \/ Publish(i)
  /\ UNCHANGED req

PublishingSpec == RaceInit /\ [][RaceNext \/ PublishStep]_raceVars

-----------------------------------------------------------------------------
\* A deletion without ?force=true takes no published row.  The code counts the
\* published rows of the subtree before the transaction that deletes it, and a
\* row may be published in between (delete of modules.service.ts and of
\* features.service.ts).
UnforcedDeleteSparesPublished ==
  [][\A r \in Requests :
       (DeleteCommit(r) \/ DeleteFeatureCommit(r)) /\ ~ req[r].force =>
         \A i \in Items : Live(i) /\ published[i] => Live(i)']_raceVars

(* What survives the races: NoCycle and SomeoneAboveRestorable do while    *)
(* one request at a time moves a module.                                   *)

\* What update() checked of a move is still true when its transaction comes,
\* whatever was created, deleted or restored meanwhile: neither the target nor
\* anything above it is the moved module.
PendingMoveSafe ==
  \A r \in Requests : Moving(r) =>
    LET q == req[r] IN q.to # Root => q.row # q.to /\ q.row \notin Ancestors(q.to)
=============================================================================
