# TLA+ models of the Collasco backend

Collasco-back is a NestJS service over PostgreSQL (Prisma) that keeps, for each
project, a tree of modules and features with their documentation, versions,
issues and tests, and the tickets of the project, some of them reported by
outsiders through public links. This directory holds TLA+ models of its logic,
the TLC configurations that check them and TLAPS proofs about them.

Paths below are relative to the repository.

## 1. Inventory

The service is one stateless process per instance; everything it remembers is in
the database, except the rate limiter of the public ticket form, which is a map
in memory. Requests run at the same time, and every `await` is a point where
another request may run. Some operations end in a `$transaction` (at PostgreSQL's
default isolation, read committed), others issue one statement after another.

| Component | Source | State | Operations |
| --- | --- | --- | --- |
| Modules | `src/modules/modules.service.ts` | `Module` (parent, project, name, sortOrder, deletedAt, publishedVersionId) | create, update (rename, move), moveOrder, delete (cascade, force), restore, snapshot, publish, rollback |
| Features | `src/features/features.service.ts` | `Feature`, same columns below a module | the same |
| Issues | `src/features/features.service.ts` | `IssueElement` | link, update, unlink, synchronise commits, synchronise all |
| Versions | modules and features | `ModuleVersion`, `FeatureVersion` | snapshot (deduplicated by hash), publish, rollback |
| Projects | `src/projects/projects.service.ts` | `Project` | remove and restore with what is in them; structure; manual |
| Access | `src/projects/projects.service.ts`, `permissions.ts` | `ProjectMember`, `ProjectRole` | add, change and remove members; create, change and delete roles |
| Labels | `src/qa/qa.service.ts`, `projects.service.ts` | `ProjectLabel`, `ProjectLabelVisibleRole`, `UserProjectPreference`, `ManualShareLink` | create, update, delete, restore, reorder; prefer; share a manual |
| Documentation | `src/qa/qa.service.ts` | `DocumentationField`, `DocumentationImage` | write, list, show; upload, rename and delete images |
| Tests | `src/qa/qa.service.ts` | `TestCase`, `TestRun`, `TestResult` | cases, runs, results, dashboard |
| Links | `src/qa/qa.service.ts` | `FeatureLink` | link, retarget, unlink, list |
| Refresh tokens | `src/auth/tokens.service.ts`, `auth.service.ts` | `UserRefreshToken` | login/register, refresh, logout |
| Passwords | `src/auth/auth.service.ts` | `User.passwordHash`, `PasswordResetToken` | change, request a reset, reset |
| Tickets | `src/tickets/tickets.service.ts` | `Ticket` (version, status), `TicketSection` (lock), `TicketReadReceipt`, `TicketImage` | create, findById, openTicket, update, addSection, updateSection, delete |
| Who is told | `tickets.service.ts`, `ticket-notification.service.ts` | `TicketNotifyUser`, `TicketEmailUser`, preferences | follow, unfollow, reassign, send |
| Public intake | `src/tickets/public-tickets.service.ts`, `ticket-share-links.service.ts` | `TicketShareLink`, `Ticket.followUpToken`, the rate limiter | links: create, refresh, revoke; public: create a ticket, follow it, add and edit sections |
| MCP server | `src/mcp/collasco-mcp.ts` | tokens, the buffer of stdin | take messages, call the API, refresh once, retry |
| Outside services | `src/github`, `src/email`, `src/google-cloud-storage` | none here | GitHub calls, e-mail, files |
| The rest | controllers, guards, DTOs, `src/notifications`, `src/users` | rows of their own | forward, validate, single statements |

How they interact: features and modules are listed *together* below a parent and
share one numbering (`sortOrder`); deleting a module or removing a project marks
the rows below it with one timestamp, and restoring brings back what has that
timestamp or a later one; a version of a module records its parent, and a rollback
writes it back; resetting a password revokes the refresh tokens, which the MCP
server uses from outside; a member and the public reporter work on the same ticket
rows through two services; deleting a role changes who sees a label; preferences
and shared manuals keep ids of labels that are deleted and restored; QA reads the
features and modules that are live at the time.

What is hard here, and what each component must get right:

* **Tree.** A request reads and checks first (`requireModule`, the walk up from the
  target of a move, the next order, the ids of a subtree) and only then opens the
  transaction that writes. The tree must stay a forest inside one project; a live
  row must be reached from the top of a live project, and by every reader; a
  deletion is undone as a whole and nothing else is; no deleted row is lost; moving a
  row passes one sibling; an unforced deletion should spare what is published.
* **Sessions.** A refresh reads the newest row, hashes for a while, then
  deletes that row and writes another, racing logins, logouts, resets and other
  refreshes. One row must not be rotated twice (`README.md:38`, "Rota refresh"), and a
  row that a logout or reset deleted must not come back. Whether the *tokens* from
  before a logout are revoked (`README.md:40`, "Revoca todos los refresh del usuario")
  is another question, since a token is accepted over any row of its user. A reset is
  four statements and may end between any two. The client must not lose a message, or a
  call whose token expired.
* **Tickets.** Nothing is transactional: a section is written before the version
  counts it, a receipt is written after the ticket was read, sections are locked by
  ids read earlier, lists of users are rewritten one statement at a time, messages
  are sent after the request was answered. The unread count must cover what is new, a
  lock must be given only to somebody who was shown the section, and who follows
  must be told.
* **Documentation.** Nothing keeps an entity from having several rows for one label
  (the unique index has a null in each), so readers have to choose among them; what
  somebody wrote last must be what is shown, to those who may see the label.
* **Tests.** The scope of a run is an array that is read, changed and written back;
  the dashboard derives coverage and missing results from counts.
* **Access.** A role is checked or counted in one statement and deleted or
  given in another; a member must keep a role and the project its owner.
* **Public intake.** Refreshing a link is two statements; the limiter counts in fixed
  windows and forgets everything when the process restarts.
* **Files.** An image is a row and a file with nothing that joins them.

`PROJECT.json` lists every component and every hazard at its line, with the properties
that would catch it.

## 2. What is modelled

| Module | What it is | Proofs |
| --- | --- | --- |
| `ContentTree` | modules, features, versions and the removal of projects; one action per request | `ContentTreeProofs` |
| `ContentTreeRaces` | the same requests as a read step and a commit step, several at a time | `ContentTreeRacesProofs` |
| `TreeReading` | what each reader of the tree makes of it | `ContentTreeProofs` |
| `UserSessions` | abstract specification: which logins are open, that all of them end at once, and when a token may be handed out | |
| `RefreshTokens` | the rows of `UserRefreshToken` under interleaved statements; implements `UserSessions` | `RefreshTokensProofs` |
| `PresentedTokens` | `RefreshTokens` with a record of the logouts, for `logout_tokens` | |
| `McpClient` | the MCP server as client of `RefreshTokens` | `SessionsProofs` |
| `PasswordReset` | passwords and reset tokens on top of `RefreshTokens` | `SessionsProofs` |
| `Tickets` | one ticket: reading, opening, following, answering, editing | `TicketsProofs` |
| `TicketLists` | who is listed to be told of a ticket | `SidesProofs` |
| `TicketMessages` | who is told of one event | `ProjectProofs` |
| `ShareLinks`, `RateLimiter` | the public links, and the limiter of one address | `SidesProofs` |
| `StoredImages` | rows of images and files in the bucket | `SidesProofs` |
| `Documentation` | labels, their default rows, documentation written under them, and which row is shown | `DocumentationProofs` |
| `LabelOrder` | creating, deleting, restoring and reordering labels | `ProjectProofs` |
| `LabelReaders` | which labels somebody is shown, by preference, link and role | `ProjectProofs` |
| `Sorting` | the list of a set in an order; used by the two before | `ProjectProofs` |
| `TestRuns` | test cases, runs, results and the dashboard | `ProjectProofs` |
| `FeatureLinks` | links between features and their listings | `SidesProofs` |
| `IssueSync` | one issue of a feature, with GitHub moving on | `SidesProofs` |
| `ProjectAccess` | members, roles, and the roles a label is shown to | `ProjectProofs` |
| `MCProject`, `MCSides`, `MCSessions`, `MCTexts` | sums of components, for TLC | `ProjectProofs`, `SidesProofs`, `SessionsProofs`, `DocumentationProofs`: every sum is one of its parts |
| `MCContentTree`, `MCContentTreeRaces`, `MCTickets`, `MCDocumentation` | symmetry sets | |

In a sum the variable `part` says at the start which component a behaviour is about, and
the others stay as they are. Components of `MCProject`, `MCSides` and `MCTexts` share no state in the
code either. In `MCSessions` they do: `McpClient` and `PasswordReset` extend
`RefreshTokens`, and their steps are composed with its steps. `PasswordReset` runs with the
visitors in `Visitors`, the other two parts with all requests.

### ContentTree and TreeReading

Rows are the numbers `1..MaxItems` in order of creation (so comparing numbers is
comparing `createdAt`, the tie-break of `normalizeSiblingOrder`). A variable is a
column: `kind` says which table, `parent` is `parentModuleId` or `moduleId`, with
`Root` for null, `order` is `sortOrder`, `deletedAt` is 0 for null. Each request is
one action, its guard the checks of the handler and its effect the whole
transaction: `MoveModule` also compacts the old siblings and picks the new order,
`RestoreModule` also renumbers the siblings of every restored module,
`MoveModuleOrder` normalizes before it swaps.

* `NameFree` is the unique index: it counts deleted rows, and a null parent escapes it.
* `Ancestors` and `Subtree` are least closed sets, the sets that the two loops of the
  source visit (they are not RECURSIVE so that they can be proved about). `SearchEnds`
  says when the breadth-first search, which keeps no visited set, ends; a
  request that does not end has no effect.
* `Now` gives deletions distinct increasing times. The source takes `new Date()`, and
  two deletions in one millisecond would be undone together; ties are left out.
* A version holds what a rollback writes back and properties can tell apart: the name
  and the parent. Numbers, hashes and pins are left out, so recording the same state
  twice is one element of `versions`.

`TreeSpec` has every request except the rollback of a module, `Spec` has all. `TreeReading`
follows the walks of `getStructure`, `getModuleStructure`, `buildManualForViewer` and
`getSharedManualImages`, each over the rows it loads, and compares them with one another
and with what a cascading deletion takes. One of them walks nothing: the images of a link for the
whole project, the default, are chosen by project and labels (`projects.service.ts:1165`), so
that `ProjectImages` is every row, deleted or not, and `ReadersAgree` says that the manual and
the structure show the live ones of them. `Below` is the list a walk makes of the rows it has loaded,
again as the least closed set.

### ContentTreeRaces

EXTENDS `ContentTree` and applies its operators to what was read earlier: a read step
performs every check and query before the transaction and keeps what the code keeps
in its local variables (the order for the new row, the old parent and order, the ids
of the subtree, the cutoff), a commit step is the transaction. The reads of one request
are one step, as is its transaction. What runs after a transaction touches only
`updatedAt` and is left out. A unique index violation ends the request without effect.
`PublishingSpec` adds snapshots and publications, for `publish_during_delete`.

### Sessions: RefreshTokens, UserSessions, PasswordReset, McpClient

Each `await` on the database is a step. A refresh compares the token it is given with the
newest row of the user (`tokens.service.ts:27-35`). `bcrypt.compare` reads 72 bytes, and those
are the same in all refresh tokens of a user (the header of the JWT and the first half of
the user's id), so *every* token the user was ever given is accepted while there is a row;
only the signature and the expiry, which the guard checks, can turn it down. Hence
`RefreshRead` takes the newest row and a token of any session opened so far. A row carries, as history, two things the
program does not store: `login`, the login it goes back to through the rows it replaced, and
`session`, the login whose client holds its token. They part when an old token takes over a
newer login's row.

`UserSessions` promises what the rows do, whichever token is presented: a token is handed out by
a login, or while a login is open; every open login ends at once; an ended one does not open
again. `Sessions` maps the rows to the logins they go back to, and `SessionsImplemented` says that
every step is a step of `UserSessions`, or changes nothing there. What the rows do *not* promise
is that the session of the token is one that is open: `PresentedTokens` records the
logouts, and `logout_tokens` shows that a token from before one is exchanged after
the next login. `changePassword` does not touch the rows.

`PasswordReset` adds what a login is checked against and the four statements of a reset
(look up, write the password, revoke the sessions, mark the token); `ResetFails` ends it
between any two. Two requests that have found one token both set a password. `ResetLeavesNoOldRow` is
about rows: after a reset nobody refreshes until somebody logs in.

`McpClient` is the other end: the readers that `stdin`'s chunks start over one buffer, a call
with the token of the environment, the one refresh it may make after a refusal, the retry.
An invalid message is removed and ends its reader. One without `Content-Length` ("headless") ends
its reader before it is removed (`collasco-mcp.ts:592`), so it stays at the head and ends all
later ones.
Its refresh steps *are* steps of `RefreshTokens`. Tokens expire up to `MaxExpired` times, the
connection may break, sessions may end, the login script may run.

### Tickets, TicketLists, TicketMessages

One ticket; every statement is a step, since no request opens a transaction. In `Tickets`
the variables `shown`, `counted` and `writers` are history. `Team` are members with the
ticket permissions of a team, `Reporter` is whoever holds the follow-up link. The
version is 0 once the ticket is deleted, which ends everything under way. Restricting
`UnreadCoversNew` to members who have only looked is not an accident: `addSection` reads the
version again and `update` takes the version it wrote, so a member's own change marks as
read also what others wrote meanwhile and the member never saw.

`TicketLists` keeps the statements a reassignment has left as a sequence (`rest`) and lets the
request fail before any of them; the assignee is written last. An update that names the assignee it
finds has no statements on the lists, but writes the assignee all the same, over a reassignment
that came in between. `TicketMessages` is one event
and its sending, which nobody awaits, while the lists move at every step; an exception ends
it. The author of a section and whoever takes a ticket themselves are left out, the creator of a
new ticket is not. For a new assignee the two lists are read one after the other, as the source does.

### Public intake and files

`ShareLinks`: `origin` is history and says from which created link a link came by refreshing.
`RateLimiter`: `FirstOfWindow`, `WithinWindow`, the clock, and a restart of the process,
which forgets the records. `StoredImages`: a file is named after the millisecond of its upload and
the caller's name for it; the order of row and file is that of each handler (an image of the
documentation loses its file first, one of a ticket its row, and a deleted ticket the files of all
its images first). `deleteFile` leaves files whose URL contains `defaultPhotos` where they are (`Spared`); its other
exception, a file named `ProductDefault.png`, no upload can be, since the name begins with the millisecond.

### Documentation, LabelOrder, LabelReaders

`docs[e, l]` is the sequence of the rows of an entity and a label, in the order of
`createdAt`; rows are never deleted, so an index is an id. A request makes its reads in
one step and writes in the next: `UpsertRead` takes any of the rows there are, as a query
without an order may, and the fields of the request are chosen when it writes, where
nothing read before depends on them. The default rows of a label are a list of entities
(`ListEntities`) and then one transaction (`CreateDefaults`); the creation of a module or
feature commits in one step the row and the default rows for the labels it has read.
`Shown` compares row by row as `addDocumentationSummary` does, `Best` says what it should
find. A member's write has a later `updatedAt` than all before it; two in one
millisecond are left out. `lastText` is history. Project labels are soft-deleted, and an
update writes the label by its id even if it was deleted meanwhile.

`LabelOrder` keeps a reordering's list between its read and its writes; `outdated` marks the
requests whose list others have changed since. `LabelReaders` lets preferences and links
keep ids while labels are deleted, restored and restricted, and applies the filter of each
of its four readers. Both sort by rank (`SortedBy`): an element stands where it has as many before it as
its place says, which the provers can count with, as they cannot with a choice among permutations.

### TestRuns, FeatureLinks, IssueSync, ProjectAccess

`TestRuns`: a request on a run reads the scope and writes it back in another step, results
are rows written by themselves; `said` and `late` are history. `Missing`, `FullPass` and `Shown`
are the dashboard's. `FeatureLinks`: the pair in the order of the ids is the key, the row says who
asked; listing and tree read it separately. `IssueSync`: `merged` and `pushed` are GitHub's;
a synchronisation reads the row, asks, and writes some of its columns, while an update writes the whole row.
`ProjectAccess`: a request is its checks and then its write; the foreign keys on roles
decide what remains of the write (`onDelete` in the schema).

## 3. What TLC checks

| Run | What it asks | Instance |
| --- | --- | --- |
| `tree_lifecycle` | `NoCycle`, `LiveModuleHasLiveParent`, `SomeoneAboveRestorable`, `RestoreUndoesOneDelete`, `ReadersAgree`, `OrdersStayDistinct`, `MoveOrderPassesOneSibling` without rollbacks of modules | 1 project, 4 rows, 1 name (which modules at the top may share), orders to 3, 2 deletions kept apart |
| `tree_projects` | `ParentInSameProject`, `LiveFeatureHasLiveModule`, `LiveRowHasLiveProject` with all requests | 2 projects, 3 rows, 1 version per row, 1 published row |
| `races_one_mover` | `NoCycle`, `PendingMoveSafe`: two requests at a time, at most one moving a module | 3 rows, 2 deletions kept apart |
| `sessions` | `LoginsNotForked` and the refinement `SessionsImplemented`; `TokenSetsOnePassword`, `ResetLeavesNoOldRow`; `StrandedBehindInvalid`, `RefusedForAReason` and the liveness property `MessagesAnswered` | 3 requests (messages) at a time, 3 logins, 5 rows; with resets 1 visitor, 2 resetting, 2 rows, 1 reset token, 3 passwords; 2 expired access tokens |
| `texts` | `ShownIsBest`, `LastTextShown` (documentation); `UnreadCoversNew`, `LockedWasShown` (ticket) | 1 label, the project and a feature, 3 rows each, 2 writes, 2 texts; 2 members and the reporter, 3 sections, 4 versions; 2 requests at a time each |
| `project` | `MembersHaveRoles`, `SeenByWanted` (access); `ReorderMovesOne` (label order); `LabelReadersAgree`; `ScopeAsAsked`, `FullPassIsComplete`, `MissingIsExact` (test runs); `FollowersTold` (messages) | 2 users and 3 roles; 3 labels; 2 labels, a viewer and a role; 2 features, 2 cases, 1 run; 2 addressees; 2 requests at a time each |
| `sides` | `ListingsAgree`; `IssueConsistent`; `FilesMatchRows`; `ListedForAReason`; `NoDoubleLimit`; `OneOpenLink`; and `TypeOK` of all | 3 features; 2 repositories; 2 images, 2 ticks, 2 names, 2 files ever written; 2 people; a limit of 3 in a window of 3 up to time 8; 4 links; 2 requests at a time each |
| `rollback_cycle` | shows that `NoCycle` fails with rollbacks of modules | 3 rows |
| `publish_during_delete` | shows that a deletion that does not force may take a published row | 2 rows, 1 request at a time |
| `logout_tokens` | shows that a token from before a logout is good again after the next login | 1 request at a time, 3 logins, 4 rows |
| `locked_text` | shows that a locked section may still change | 1 section |
| `label_rows` | shows that an entity may have two rows for one label | 1 label, 1 entity, 1 request at a time |

Why the bounds are enough to meet the cases: four rows hold a chain of three modules
with a feature, or a module with three children, so a deletion can be nested in
another, a row can move past two others, and a gap or duplicate can arise and be
repaired. Two deletion times are enough for a row deleted on its own before its
parent; only the order of the stored times matters, which is what `Now` keeps. Orders have to be
bounded: each creation or move takes one more than the greatest, and features that
leave and come back can push it up for ever. Three rows are enough for the races because a cycle needs
two modules, and one more can be created, deleted or restored between. Four versions
of a ticket hold two sections more than its description and one other change. Three rows
of documentation let a row written twice stand before, between and after default rows, and make the
row-by-row comparison pass over one it has rejected; two writes are one text replaced by
another, in the same row or not. Three labels are the fewest in which a label moves past one
and stands before another; three roles are the owner's, the default one and one that can be
deleted; two requests for one role, run or link are one read before and written after the
other. Three features let a link be retargeted to a third. A limit of three, a window of three
and eight ticks hold the end of one window, a whole second one and the stretch across both.
Four share links are two links, one of which is refreshed twice, or one refreshed by two requests.
Three messages are one being called, one behind it and one that arrives in another chunk.
One reset token is enough since what is told of a token does not depend on the others.

Deadlock is checked in `tree_lifecycle`. Elsewhere it is switched off because
the system may really stop: a project with rollbacks can have all its modules deleted below one
another; a deleted ticket takes no more requests; one event's sending ends; and in the other
runs the bounded counters (rows, passwords, links, images, the clock) run out.

### Liveness and fairness

`MessagesAnswered` says that every message the MCP server has received is answered, or waits behind an
invalid one with no reader left, or at or behind one without `Content-Length`. It assumes `ClientFairness`: weak fairness of `TakeMessage` and `LengthMissing`
(the event loop resumes a reader whose promise is settled) and of the steps of each call
(`fetch` settles, with an answer or an error, and the API's statements end). Nothing is
assumed of what comes from outside: that messages arrive, tokens expire, sessions end, or the
login script runs. No other component has something that must follow: the service has no
scheduler, no retry and no background work, and a request may end between any two statements,
which the models allow wherever a failure leaves something half done; what then has to hold is
stated as safety.

### Disagreements between the code and its own text

The five `violation` runs:

1. `rollback_cycle`: B is put below A, recorded, moved to the top, A is moved below B,
   and a rollback of B closes the cycle `update()` refuses. By the same write a rollback can put a live module
   below a deleted one, which `restore` refuses ("Parent module is deleted. Restore the
   parent first.", `modules.service.ts:1025`).
2. `publish_during_delete`: the published rows of the subtree are counted
   (`modules.service.ts:941`), one is published, and the transaction deletes it by its id.
3. `logout_tokens`: login, logout, login; the token of the first login is compared
   with the row of the second, matches it, and is exchanged for a new one
   (`README.md:40`: "Revoca todos los refresh del usuario"). A reset of the password is passed in the same way.
4. `locked_text`: an edit checks `lockedAt`, then writes by the id alone.
5. `label_rows`: `createMany` with `skipDuplicates` relies on a unique index that has a null
   in every row. Making a label not applicable by default after somebody wrote under
   it adds an empty row, which the listing (`qa.service.ts:2808`) shows instead of the text.
   The tree and the manual compare rows and still show it: that is `LastTextShown`.

One more is found by changing one thing: with `MaxMovers = 2` in `races_one_mover.cfg`, two moves
pass the walk and both commit, so that `PendingMoveSafe` and then `NoCycle` fail.

Met while modelling, and modelled as the code has it:

* `README.md:189` documents `PATCH /modules/:moduleId/move`, which the controller has
  commented out (`modules.controller.ts:170-176`); moving goes through `update`.
* `README.md:140` says that the tree uses all visible labels when there are no preferences;
  `getStructure` uses none (`projects.service.ts:1026`), and all of them when the labels preferred are
  all deleted or hidden by now (`projects.service.ts:1018`). So `LabelReadersAgree` compares the structure
  with the preferences only when some are selected.
* A role with `project.read` alone (the default `Client`) is refused the documentation of an
  entity, but shown the same texts by `getStructure`.
* When every role a label was restricted to is deleted, everybody sees it; `SeenByWanted` says so.
* The images of a shared manual are not filtered by whether their label was deleted;
  the labels of the manual are. Those of a manual of the whole project are not filtered by
  whether their module or feature was deleted either.
* `deleteFile` keeps every file with `defaultPhotos` in its name, also one that was uploaded under
  that name (`google-cloud-storage.service.ts:96`): it outlives its image.
* `getTestHealth` (`qa.service.ts:2238`) reads the cases and results without asking whether the run
  was deleted; the dashboard looks at the latest runs and drops those that are deleted, so
  that a deleted latest run hides the one before. A result of an archived case makes up, in the
  count of missing results, for an active case without one: hence the exact form of `MissingIsExact`.
* Of the writers of the public service `updateSection` (`public-tickets.service.ts:342`) and `updateTicket`
  (`public-tickets.service.ts:425`) are not limited, the other three are.
* Whoever creates a ticket is told of it like everybody else with the preference (`tickets.service.ts:541`),
  whereas the author of a section is left out.

Each property of a passing run has a mutant in `PROJECT.json`: a variant of a modelled
operation (kept next to the operation and marked "Wrong variant") under which TLC
finds the property violated.

## 4. What is proved

TLAPS proves these for every value of the constants (any number of rows, projects,
requests, people), from the named assumptions of the modules, which say only that bounds
are natural numbers, that `None`, `Root`, `Nobody`, `Unset` and `NoRepo` are none of the things they
stand beside, that the owner is a user, that the visitors are requests, that messages are
numbered, and that the requests that race are finitely many. The theorems are about the specification of each
component (`Spec`, `TreeSpec`, `AccessSpec`, `ShareLinksSpec`, ...). Where a run checks a component inside a
sum, `SumImplementsParts`, `SessionsParts`, `ProjectImplementsParts` and `TextsImplementParts` say that the
behaviours of the sum are behaviours of its parts.

Seldom is a property inductive as it stands. For each group, the invariant it needed:

**The tree** (`ContentTreeProofs`)

* `StructureAlways`, for all requests: types, a row is created in one piece (`RowsComplete`), parents are
  modules (`ParentIsModule`) of the same project, and so are the parents recorded in versions
  (`VersionsInProject`). The last is what makes rollbacks safe: without it
  `ParentInSameProject` is not inductive. `TypeCorrect` and `ParentInSameProjectAlways` follow.
* `LiveFeatureHasLiveModuleAlways` (all requests) and `LiveModuleHasLiveParentAlways` (`TreeSpec`):
  a restoration brings back what was deleted at or after the module, so the strengthening
  `GoesWithParent(kinds)` says that a row below a deleted module is itself deleted, and no later than
  it. `LiveRowHasLiveProjectAlways` is the same comparison of times against the project.
* `NoCycleAlways` (`TreeSpec`): a set without a top after a move would contain the target,
  everything above it, and the moved module.
* `SomeoneAboveRestorableAlways` (`TreeSpec`) is not by induction but follows from the two before: of a deleted module
  and its ancestors, which a forest gives a top, the topmost deleted one is at the top of the
  project or below a live module, and the search for what it brings back ends, because one that does
  not would be a cycle.
* `RestoreUndoesOneDeleteAlways` (`TreeSpec`): rows with one deletion time are one tree
  (`OneTop`), unless a project was removed then, and that took only rows of the project
  (`RemovedTogether`). Hence whoever restores one row of a deletion and gets another gets all.
* `OrdersStayDistinctAlways` and `MoveOrderPassesOneSiblingAlways` (`TreeSpec`), for any orders with gaps and
  duplicates: `normalizeSiblingOrder` gives each sibling its rank, a list without gaps has every position taken
  once (`Dense`, `DenseOnto`), so there is a row to exchange places with.
* `ReadersAgreeAlways` (`TreeSpec`): what a reader loads of a live module is the closed set a deletion would
  take (`TakenRows`); in a forest whose live modules have live parents the walk from the top meets every live row,
  which are the live ones of those whose images a manual of the project lists.

**Racing requests** (`ContentTreeRacesProofs`)

* `RaceTypeCorrect`, `RaceParentInSameProject`, for any number of requests: what a
  request read of kinds and projects stays true until its transaction (`Pending`), since a row never changes
  either.
* `PendingMoveSafeAlways`, `RaceNoCycle`, `RaceSomeoneAboveRestorable`, for `MaxMovers <= 1`: nothing but a move
  gives a module another parent, so what a move found above its target is all there is above it at the end
  (`AncestorsKept`). With two movers they are false, which TLC shows; the hypothesis is the boundary between what the
  code guarantees and what it does not.

**Sessions** (`RefreshTokensProofs`, `SessionsProofs`)

* `InvAlways`, `LoginsNotForkedAlways`: rows have distinct ids that are never used again.
  `SessionsImplementedProof` is the refinement of `UserSessions`, for refreshes that present the token
  of any session: a row is replaced by one of the same login, and only while it is there. `ResetImplementsSessions` and
  `ClientImplementsSessions` carry it to the modules that extend `RefreshTokens`.
* `ResetInvAlways`, on top of that invariant; `TokenSetsOnePasswordAlways`, from a token being held
  by one request until it is marked unless it is `reused` (`TokensAreSpent`); `ResetLeavesNoOldRowAlways`, from
  every row and every login under way carrying a password that was checked (`LoginsAreChecked`) and that is of the
  last reset or later, or overtaken by it (`OldIsOvertaken`).
* `ClientInvAlways`, `StrandedBehindInvalidAlways`, `RefusedForAReasonAlways`: messages wait in the order of
  their arrival and each once (`ReadInOrder`), the row a refresh has read is there, or the call is excused
  (`RefreshesHold`), and a call refused once holds a good token, or is excused (`TokensHold`).

**Project** (`ProjectProofs`)

* `AccessInvAlways`, `MembersHaveRolesAlways`, `SeenByWantedAlways`: the rows of a label are the roles it was
  last given without those deleted since (`RowsAsWanted`), whatever was read before.
* `ReorderMovesOneAlways`: a list nobody changed since it was read is still the listing with one label moved
  (`PlansStand`); writing its indices makes it the listing (`PlanBecomesListing`), because a list that holds every label
  once and in order is the sorted one (`SortedByUnique`), whatever gaps and duplicates the orders had.
* `LabelReadersAgreeAlways`, from the types alone: a filtered list holds what the reader has of it once, in its order
  (`FilteredList`), and so is the list of the structure, by the same uniqueness.
* `RunsInvAlways`, `ScopeAsAskedAlways`, `FullPassIsCompleteAlways`, `MissingIsExactAlways`: a request that has
  not answered, and whose run nobody wrote since it read it, holds the scope it read (`HasRead`), that scope with what
  it was asked to add (`Extends`), or what it was asked for as a whole (`Intends`); results are of cases in the feature
  or project of the run (`ResultsInScope`), which makes the difference of the dashboard's counts exact.
* `MessagesInvAlways`, `FollowersToldAlways`: whoever stayed on a list was told or is still among those
  to come (`NobodyForgotten`), nobody else is (`OnlyAddressees`), and the parts of a sending come in
  its order (`InItsOrder`).

**Tickets** (`TicketsProofs`)

* `TypeCorrect`; `LockedWasShownAlways`, strengthened by what pending locks hold
  (`PendingLocksShown`: those sections were shown to whoever locks them);
  `UnreadCoversNewAlways`, strengthened by the same bound for the versions that requests under way are about to
  write as receipts (`PendingCover`), and by every counted section being written (`CountedWritten`).

**Around tickets and features** (`SidesProofs`)

* `LinkInvAlways`, `ListingsAgreeAlways`: a row is stored under the ordered pair (`OneRowPerPair`) and asked
  for by one of the two (`BetweenTwo`).
* `ShareInvAlways`, `OneOpenLinkAlways`: links go back to an origin that stays (`OriginsStand`), two requests on one
  link contest it (`SharedIsContested`), and of an origin nobody contests, one of three holds: a link is open,
  a refresh is between its two statements, or it is over (`OneOf`).
* `ListInvAlways`, `ListedForAReasonAlways`: the statements a request has left take out who was assigned, and
  put in who is now (`PendingSpeak`); a request without company still has the statement
  that takes out whoever is on a list without another reason (`AloneDrops`).
* `IssueInvAlways`, `IssueConsistentAlways`: a row a request is about to write whole is consistent by itself.
* `ImageInvAlways`, `FilesMatchRowsAlways`: a file that was written once has one row or one request that is about
  to create it, and whoever deletes it has begun to delete the row (`WrittenOnce`, `DeletersKnow`); a file left in the
  bucket that is not `Spared` has a row that is not `Spent` or a request on it (`Covered`).
* `LimiterInvAlways`, `NoDoubleLimitAlways`, for any limit and window: `accepted` is the sequence of the times at
  which requests were let through; the window in force was opened by the first of its requests,
  and those a whole limit before that one lie more than a window back (`WindowOpened`).
* `TypeOKAlways` for all six.

**Documentation** (`DocumentationProofs`)

* `TypeCorrect`, which includes that the row a request found stays. `LastTextShownAlways`, from the row
  written last being the one that applies, having that text, and being later than every other row with a text
  (`LastTextLeads`), with no row from a time to come (`RowsPast`).
* `ShownIsBestAlways`: the comparison row by row keeps a row that is best of those it has passed (`KeptIsBest`). The
  induction over the rows is by a least counterexample (`LeastNatural`, `CountingUp`), from the theorem that
  the natural numbers are well-founded.

The type invariants of `ContentTree`, `Tickets`, `Documentation`, `RefreshTokens`, `PasswordReset` and
`LabelReaders` are proved and stand in no configuration. Of `LabelTypeOK` the types are (`LabelTypes`), and not the bound
`MaxLabels` on orders.

Only model-checked:

* `MessagesAnswered`: liveness under fairness, and `ENABLED`, are out of reach of the provers installed.
* What the five `violation` runs show.

Induction over data by the theorems of the library is out of reach too (they take an
operator as parameter); where it was needed it is a least counterexample. No module uses a RECURSIVE operator.

## 5. What could come next

* Races of a rollback or a snapshot with other requests (`versionNumber` and its unique index).
* Transactions at the isolation level of statements rather than whole, in `ContentTreeRaces`.

## 6. Not modelled, and why

* Notifications, e-mail: written by single statements or handed over; whom they go to is in `TicketMessages`.
* Controllers, DTOs, guards, strategies, filters: routing and validation without state. Permissions
  are kept where a property depends on them (`Tickets`, `ProjectAccess`, `LabelReaders`) and left out elsewhere,
  since a refused request has no effect.
* Application shell, health, configuration: no logic of their own.
* Parts of modelled components: texts, statuses and priorities that no operation decides on; version
  numbers, hashes and pins; the listings with their filters and pages; `updatedAt` other than where
  readers compare it; the rendering of the manual; the list of MCP tools and the paths they call; the stored
  GitHub credential and the calls that pass an answer of GitHub on; the content and size of images; the bulk
  calls of the notification lists, which repeat the single ones; `readOnlyRoles` of labels; profiles of users.
  `PROJECT.json` names them per component.
