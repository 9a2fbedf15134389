----------------------------- MODULE IssueSync ------------------------------
(***************************************************************************)
(* One issue element of a feature (features.service.ts): the URLs of a     *)
(* GitHub issue and of a pull request, what is parsed from them, and what  *)
(* the two synchronisations bring from GitHub.                             *)
(*                                                                         *)
(* Updating reads the row and writes it whole in another step;             *)
(* synchronising reads it, asks GitHub, and writes some of its columns.    *)
(* GitHub itself (a pull request is merged, gets commits) is external.     *)
(***************************************************************************)
EXTENDS Integers, FiniteSets

CONSTANTS
  Repos,        \* repositories, owner and name
  MaxNumber,    \* bound: numbers of issues and pull requests
  Shas,         \* commits
  Syncers       \* requests under way

ASSUME MaxNumberAssumption == MaxNumber \in Nat \ {0}

VARIABLES
  issue,      \* the IssueElement
  merged,     \* GitHub: pull requests that are merged
  pushed,     \* GitHub: the commits of each pull request
  syncing     \* what each request does next

issueVars == <<issue, merged, pushed, syncing>>

Url == [repo : Repos, number : 1..MaxNumber]
NoUrl == [number |-> 0]
NoRepo == "null"

ASSUME ReposAssumption == NoRepo \notin Repos

\* reviewStatus: null, or what a caller or a synchronisation wrote.
Statuses == {"null", "PENDING", "APPROVED"}

NoIssue == [issueUrl |-> "none"]
Issue == [issueUrl : Url \cup {NoUrl}, pullUrl : Url \cup {NoUrl}, repo : Repos \cup {NoRepo},
          issueNumber : 0..MaxNumber, pullNumber : 0..MaxNumber,
          status : Statuses, commits : SUBSET Shas]

NotSyncing == [op |-> "idle"]
Syncing == {NotSyncing}
  \cup [op : {"write"}, row : Issue]
  \cup [op : {"ask", "list"}, pull : Url \cup {NoUrl}, status : Statuses, commits : SUBSET Shas]
  \cup [op : {"status"}, status : Statuses, commits : SUBSET Shas]
  \cup [op : {"append", "replace"}, pull : Url, commits : SUBSET Shas]
  \cup [op : {"commits"}, commits : SUBSET Shas]

IssueTypeOK ==
  /\ issue \in Issue \cup {NoIssue}
  /\ merged \subseteq Url
  /\ pushed \in [Url -> SUBSET Shas]
  /\ syncing \in [Syncers -> Syncing]

IssueInit ==
  /\ issue = NoIssue
  /\ merged = {}
  /\ pushed = [u \in Url |-> {}]
  /\ syncing = [r \in Syncers |-> NotSyncing]

Proceeds(r, what) == syncing' = [syncing EXCEPT ![r] = what]
GithubUnchanged == UNCHANGED <<merged, pushed>>

\* What the given URLs make of a row: the URL and what is parsed from it change
\* together, and the repository is that of the URL parsed last.
Parsed(row, i, p) ==
  [row EXCEPT !.issueUrl = IF i = NoUrl THEN @ ELSE i,
              !.issueNumber = IF i = NoUrl THEN @ ELSE i.number,
              !.pullUrl = IF p = NoUrl THEN @ ELSE p,
              !.pullNumber = IF p = NoUrl THEN @ ELSE p.number,
              !.repo = IF p # NoUrl THEN p.repo ELSE IF i # NoUrl THEN i.repo ELSE @]

\* A pull request must be of the repository known by then: the one of the URL of
\* the issue if that is given, else the stored one.
SameRepo(repo, i, p) ==
  p # NoUrl => LET known == IF i = NoUrl THEN repo ELSE i.repo IN known \in {NoRepo, p.repo}

Blank == [issueUrl |-> NoUrl, pullUrl |-> NoUrl, repo |-> NoRepo, issueNumber |-> 0,
          pullNumber |-> 0, status |-> "null", commits |-> {}]

-----------------------------------------------------------------------------
LinkIssue(i, p) ==
  /\ issue = NoIssue /\ SameRepo(NoRepo, i, p)
  /\ issue' = Parsed(Blank, i, p)
  /\ GithubUnchanged /\ UNCHANGED syncing

UpdateIssueRead(r, i, p, status) ==
  /\ syncing[r] = NotSyncing /\ issue # NoIssue
  /\ SameRepo(issue.repo, i, p)
  /\ Proceeds(r, [op |-> "write", row |->
       [Parsed(issue, i, p) EXCEPT !.status = IF status = "null" THEN @ ELSE status]])
  /\ GithubUnchanged /\ UNCHANGED issue

\* Wrong variant of Overwritten: the URLs the row has by now are left alone.
OverwrittenRest(row) ==
  [row EXCEPT !.issueUrl = issue.issueUrl, !.pullUrl = issue.pullUrl]

\* Every column is written, those that were only read as well.
Overwritten(row) == row

\* Writing to a row that was unlinked meanwhile fails.
UpdateIssueCommit(r) ==
  /\ syncing[r].op = "write"
  /\ issue' = IF issue = NoIssue THEN issue ELSE Overwritten(syncing[r].row)
  /\ Proceeds(r, NotSyncing)
  /\ GithubUnchanged

UnlinkIssue ==
  /\ issue # NoIssue
  /\ issue' = NoIssue
  /\ GithubUnchanged /\ UNCHANGED syncing

-----------------------------------------------------------------------------
\* syncIssueFromGithub reads the row, asks for the state of the pull request,
\* then for its commits, and writes status and commits.
SyncIssueRead(r) ==
  /\ syncing[r] = NotSyncing /\ issue # NoIssue
  /\ Proceeds(r, [op |-> "ask", pull |-> issue.pullUrl, status |-> issue.status, commits |-> issue.commits])
  /\ GithubUnchanged /\ UNCHANGED issue

SyncIssueAsk(r) ==
  /\ syncing[r].op = "ask"
  /\ LET pull == syncing[r].pull
         status == IF pull = NoUrl THEN syncing[r].status
                   ELSE IF pull \in merged THEN "APPROVED" ELSE "PENDING"
     IN  Proceeds(r, [syncing[r] EXCEPT !.op = "list", !.status = status])
  /\ GithubUnchanged /\ UNCHANGED issue

\* The commits of a pull request, now.
CommitsOf(pull) == IF pull = NoUrl THEN {} ELSE pushed[pull]

SyncIssueList(r) ==
  /\ syncing[r].op = "list"
  /\ Proceeds(r, [op |-> "status", status |-> syncing[r].status,
       commits |-> syncing[r].commits \cup CommitsOf(syncing[r].pull)])
  /\ GithubUnchanged /\ UNCHANGED issue

SyncIssueCommit(r) ==
  /\ syncing[r].op = "status"
  /\ issue' = IF issue = NoIssue THEN issue
              ELSE [issue EXCEPT !.status = syncing[r].status, !.commits = syncing[r].commits]
  /\ Proceeds(r, NotSyncing)
  /\ GithubUnchanged

\* syncIssueCommits adds to the commits that were read, or replaces them.
SyncCommitsRead(r, how) ==
  /\ syncing[r] = NotSyncing /\ issue # NoIssue /\ issue.pullUrl # NoUrl
  /\ Proceeds(r, [op |-> how, pull |-> issue.pullUrl, commits |-> issue.commits])
  /\ GithubUnchanged /\ UNCHANGED issue

\* A limit keeps the last of them.
SyncCommitsList(r) ==
  /\ syncing[r].op \in {"append", "replace"}
  /\ LET all == CommitsOf(syncing[r].pull)
                \cup IF syncing[r].op = "append" THEN syncing[r].commits ELSE {}
     IN  \E kept \in SUBSET all :
           /\ kept = all \/ Cardinality(kept) = 1
           /\ Proceeds(r, [op |-> "commits", commits |-> kept])
  /\ GithubUnchanged /\ UNCHANGED issue

SyncCommitsCommit(r) ==
  /\ syncing[r].op = "commits"
  /\ issue' = IF issue = NoIssue THEN issue ELSE [issue EXCEPT !.commits = syncing[r].commits]
  /\ Proceeds(r, NotSyncing)
  /\ GithubUnchanged

\* GitHub does not answer: the request ends with an error.
SyncFails(r) ==
  /\ syncing[r].op \in {"ask", "list", "append", "replace"}
  /\ Proceeds(r, NotSyncing)
  /\ GithubUnchanged /\ UNCHANGED issue

\* A pull request is merged, or a commit is pushed to one that is not.
GithubMoves(u) ==
  /\ \/ merged' = merged \cup {u} /\ UNCHANGED pushed
     \/ /\ u \notin merged /\ UNCHANGED merged
        /\ \E s \in Shas : pushed' = [pushed EXCEPT ![u] = @ \cup {s}]
  /\ UNCHANGED <<issue, syncing>>

IssueNext ==
  \/ \E i, p \in Url \cup {NoUrl} :
       LinkIssue(i, p) \/ \E r \in Syncers, s \in {"null", "APPROVED"} : UpdateIssueRead(r, i, p, s)
  \/ UnlinkIssue
  \/ \E r \in Syncers :
       \/ UpdateIssueCommit(r)
       \/ SyncIssueRead(r) \/ SyncIssueAsk(r) \/ SyncIssueList(r) \/ SyncIssueCommit(r)
       \/ \E how \in {"append", "replace"} : SyncCommitsRead(r, how)
       \/ SyncCommitsList(r) \/ SyncCommitsCommit(r) \/ SyncFails(r)
  \/ \E u \in Url : GithubMoves(u)

IssueSpec == IssueInit /\ [][IssueNext]_issueVars

-----------------------------------------------------------------------------
\* However updates and synchronisations overlap, the numbers of a stored issue
\* are those of its stored URLs, and its repository is that of one of them, so
\* that it is found by repository and number (linkIssue, updateIssue).  That both
\* URLs are of one repository does not hold: an update of the issue's URL alone
\* is not compared with the pull request.
IssueConsistent ==
  issue # NoIssue =>
    /\ issue.issueNumber = issue.issueUrl.number
    /\ issue.pullNumber = issue.pullUrl.number
    /\ issue.repo = NoRepo <=> issue.issueUrl = NoUrl /\ issue.pullUrl = NoUrl
    /\ issue.repo # NoRepo =>
         \E u \in {issue.issueUrl, issue.pullUrl} \ {NoUrl} : u.repo = issue.repo
=============================================================================
