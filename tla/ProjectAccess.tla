--------------------------- MODULE ProjectAccess ---------------------------
(***************************************************************************)
(* Members of one project, their roles, and the roles that may see a       *)
(* documentation label (projects.service.ts, permissions.ts,               *)
(* qa.service.ts).                                                         *)
(*                                                                         *)
(* A request checks what it was given, by reads, and writes in a later     *)
(* statement: two steps, with other requests in between.  Foreign keys     *)
(* decide what is left of the second step.  Role 1 is the role of the      *)
(* owner; names and descriptions of roles are left out, and with them      *)
(* which one of the default roles a new member gets when none is named.    *)
(***************************************************************************)
EXTENDS Integers, FiniteSets

CONSTANTS
  Users,         \* the users
  Owner,         \* Project.ownerId
  Permissions,   \* permission keys of roles
  Labels,        \* documentation labels
  Callers,       \* requests under way
  Defaults,      \* the roles a project is created with
  MaxRoles       \* bound: roles ever created

ASSUME OwnerAssumption == Owner \in Users
ASSUME MaxRolesAssumption == MaxRoles \in Nat /\ Defaults \in 1..MaxRoles

VARIABLES
  roles,    \* ProjectRole, numbered in the order of createdAt
  member,   \* ProjectMember: the role of each user, 0 for none
  rows,     \* ProjectLabelVisibleRole: the roles of each label
  call,     \* what each request does next
  wanted    \* history: the roles each label was last given

accessVars == <<roles, member, rows, call, wanted>>

Roles == 1..MaxRoles
OwnerRole == 1

Role == [state : {"none", "live", "deleted"}, keys : SUBSET Permissions]

Idle == [op |-> "idle"]
Call == {Idle} \cup [op : {"add", "change"}, user : Users \ {Owner}, role : Roles \ {OwnerRole}]
        \cup [op : {"delete"}, role : Roles \ {OwnerRole}]
        \cup [op : {"show"}, label : Labels, roles : SUBSET Roles]

AccessTypeOK ==
  /\ roles \in [Roles -> Role]
  /\ member \in [Users -> Roles \cup {0}]
  /\ rows \in [Labels -> SUBSET Roles]
  /\ call \in [Callers -> Call]
  /\ wanted \in [Labels -> SUBSET Roles]

\* ProjectsService.create: the default roles, and the owner as a member.
AccessInit ==
  /\ roles \in [Roles -> Role]
  /\ \A n \in Roles : roles[n].state = (IF n <= Defaults THEN "live" ELSE "none")
  /\ \A n \in Roles : n > Defaults => roles[n].keys = {}
  /\ member = [u \in Users |-> IF u = Owner THEN OwnerRole ELSE 0]
  /\ rows = [l \in Labels |-> {}]
  /\ call = [c \in Callers |-> Idle]
  /\ wanted = [l \in Labels |-> {}]

LiveRoles == {n \in Roles : roles[n].state = "live"}

\* hasProjectPermission.
Has(u, key) ==
  member[u] # 0 /\ (member[u] = OwnerRole \/ key \in roles[member[u]].keys)

Somebody(key) == \E u \in Users : Has(u, key)

Calls(c, what) == call' = [call EXCEPT ![c] = what]

-----------------------------------------------------------------------------
(* Members.                                                                *)

Assignable == LiveRoles \ {OwnerRole}

AddMemberRead(c, u, n) ==
  /\ call[c] = Idle /\ Somebody("project.manage_members")
  /\ u # Owner /\ n \in Assignable
  /\ Calls(c, [op |-> "add", user |-> u, role |-> n])
  /\ UNCHANGED <<roles, member, rows, wanted>>

UpdateMemberRoleRead(c, u, n) ==
  /\ call[c] = Idle /\ Somebody("project.manage_members")
  /\ u # Owner /\ n \in Assignable
  /\ Calls(c, [op |-> "change", user |-> u, role |-> n])
  /\ UNCHANGED <<roles, member, rows, wanted>>

\* The upsert or update fails if the role is gone, and the update if the
\* member is.
AssignCommit(c) ==
  /\ call[c].op \in {"add", "change"}
  /\ LET q == call[c]
         found == q.role \in LiveRoles /\ (q.op = "change" => member[q.user] # 0)
     IN  member' = IF found THEN [member EXCEPT ![q.user] = q.role] ELSE member
  /\ Calls(c, Idle)
  /\ UNCHANGED <<roles, rows, wanted>>

RemoveMember(u) ==
  /\ Somebody("project.manage_members")
  /\ u # Owner /\ member[u] # 0
  /\ member' = [member EXCEPT ![u] = 0]
  /\ UNCHANGED <<roles, rows, call, wanted>>

-----------------------------------------------------------------------------
(* Roles.                                                                  *)

CreateRole(keys) ==
  /\ Somebody("project.manage_roles")
  /\ \E n \in Roles :
       /\ roles[n].state = "none" /\ \A k \in 1..(n - 1) : roles[k].state # "none"
       /\ roles' = [roles EXCEPT ![n] = [state |-> "live", keys |-> keys]]
  /\ UNCHANGED <<member, rows, call, wanted>>

\* The role that was found cannot become one of the owner, and is written by id.
UpdateRole(n, keys) ==
  /\ Somebody("project.manage_roles")
  /\ n \in LiveRoles \ {OwnerRole}
  /\ roles' = [roles EXCEPT ![n].keys = keys]
  /\ UNCHANGED <<member, rows, call, wanted>>

DeleteRoleRead(c, n) ==
  /\ call[c] = Idle /\ Somebody("project.manage_roles")
  /\ n \in LiveRoles \ {OwnerRole}
  /\ \A u \in Users : member[u] # n
  /\ Calls(c, [op |-> "delete", role |-> n])
  /\ UNCHANGED <<roles, member, rows, wanted>>

\* Wrong variant of Deletable: the members counted before are trusted.
DeletableAsCounted(n) == n \in LiveRoles

\* The foreign key of ProjectMember restricts the deletion.
Deletable(n) == n \in LiveRoles /\ \A u \in Users : member[u] # n

\* Wrong variant of WithoutRole: the rows of the labels stay.
WithRows(n) == rows

\* The rows of the labels are deleted in cascade.
WithoutRole(n) == [l \in Labels |-> rows[l] \ {n}]

DeleteRoleCommit(c) ==
  /\ call[c].op = "delete"
  /\ LET n == call[c].role IN
       IF Deletable(n) THEN /\ roles' = [roles EXCEPT ![n].state = "deleted"]
                            /\ rows' = WithoutRole(n)
       ELSE UNCHANGED <<roles, rows>>
  /\ Calls(c, Idle)
  /\ UNCHANGED <<member, wanted>>

-----------------------------------------------------------------------------
(* The roles that may see a label, of createProjectLabel and               *)
(* updateProjectLabel.                                                     *)

\* sanitizeRoleIds: the roles of the project among those asked for.
ShowLabelRead(c, l, S) ==
  /\ call[c] = Idle /\ Somebody("labels.manage")
  /\ S \subseteq LiveRoles
  /\ Calls(c, [op |-> "show", label |-> l, roles |-> S])
  /\ UNCHANGED <<roles, member, rows, wanted>>

\* All the rows are replaced, unless one of the roles is gone.
ShowLabelCommit(c) ==
  /\ call[c].op = "show"
  /\ LET q == call[c] IN
       IF q.roles \subseteq LiveRoles THEN /\ rows' = [rows EXCEPT ![q.label] = q.roles]
                                           /\ wanted' = [wanted EXCEPT ![q.label] = q.roles]
       ELSE UNCHANGED <<rows, wanted>>
  /\ Calls(c, Idle)
  /\ UNCHANGED <<roles, member>>

-----------------------------------------------------------------------------
AccessNext ==
  \/ \E c \in Callers :
       \/ \E u \in Users, n \in Roles : AddMemberRead(c, u, n) \/ UpdateMemberRoleRead(c, u, n)
       \/ AssignCommit(c)
       \/ \E n \in Roles : DeleteRoleRead(c, n)
       \/ DeleteRoleCommit(c)
       \/ \E l \in Labels, S \in SUBSET Roles : ShowLabelRead(c, l, S)
       \/ ShowLabelCommit(c)
  \/ \E u \in Users : RemoveMember(u)
  \/ \E keys \in SUBSET Permissions :
       \/ CreateRole(keys)
       \/ \E n \in Roles : UpdateRole(n, keys)

AccessSpec == AccessInit /\ [][AccessNext]_accessVars

-----------------------------------------------------------------------------
(* Who sees a label.                                                       *)

\* ProjectsService.resolveProjectRole finds the owner by the project,
\* QaService.getProjectMemberRole by the row of the member.
ResolvedRole(u) == IF u = Owner THEN OwnerRole ELSE member[u]

\* canViewDocumentationLabel
MayView(n, l) == n = OwnerRole \/ rows[l] = {} \/ n \in rows[l]

-----------------------------------------------------------------------------
\* A member has a role of the project that was not deleted, the owner the role
\* of the owner and nobody else that one: however the requests overlap, the
\* owner can always manage the project (addMember, updateMemberRole,
\* removeMember, deleteRole).
MembersHaveRoles ==
  /\ member[Owner] = OwnerRole /\ OwnerRole \in LiveRoles
  /\ \A u \in Users \ {Owner} : member[u] \in (LiveRoles \ {OwnerRole}) \cup {0}

\* A label is seen by the roles it was last given and that were not deleted
\* since, and by nobody else but the owner, unless all of them were deleted:
\* then everybody sees it (updateProjectLabel, deleteRole).
SeenByWanted ==
  \A l \in Labels, u \in Users :
    MayView(ResolvedRole(u), l) <=>
      \/ u = Owner \/ member[u] \in wanted[l]
      \/ wanted[l] \cap LiveRoles = {}
=============================================================================
