------------------------------ MODULE TestRuns ------------------------------
(***************************************************************************)
(* The test cases of the features of one project, the runs of these cases, *)
(* and what the dashboard makes of them (qa.service.ts).                   *)
(*                                                                         *)
(* The scope of a run, when it is a custom one, is an array in its row: it *)
(* is read, changed and written back without a transaction, while results  *)
(* are rows of their own.  Every statement that writes is a step, a read   *)
(* is a step together with the checks that follow it, and the fields of a  *)
(* request are chosen when they are first used.  Names, notes, status and  *)
(* comments are left out, and the features are live all the time.          *)
(***************************************************************************)
EXTENDS Integers, FiniteSets

CONSTANTS
  Features,     \* the features of the project
  Names,        \* the names of test cases
  Project,      \* stands for a run of the whole project
  None,         \* no result
  Evaluations,  \* TestEvaluation
  Requests,     \* the requests, in any order and at the same time
  MaxCases,     \* bound: test cases
  MaxRuns,      \* bound: runs
  MaxGiven      \* bound: cases named in one field of a request

ASSUME ProjectAssumption == Project \notin Features
ASSUME EvaluationsAssumption == {"NOT_STARTED", "PASSED"} \subseteq Evaluations
ASSUME NoneAssumption == None \notin Evaluations
ASSUME BoundsAssumption == {MaxCases, MaxRuns, MaxGiven} \subseteq Nat

VARIABLES
  cases,    \* TestCase: not created, active or archived
  count,    \* the number of runs created
  runs,     \* TestRun, numbered in the order of runDate
  results,  \* TestResult of a run and a case
  req,      \* what each request does next, and what it holds
  asked,    \* history: what each request has asked for
  late,     \* history: the requests whose run got another scope since their read
  said,     \* history: the cases last asked in, and out, of the scope of a run
  stale     \* history: the runs on which a late request has ended

tables == <<cases, count, runs, results>>
history == <<asked, late, said, stale>>
vars == <<tables, req, history>>

Cases == Features \X Names   \* @@unique([featureId, name])
Runs == 1..MaxRuns
Created == 1..count

Run == [feature : Features \cup {Project}, targets : SUBSET Cases, custom : BOOLEAN,
        deleted : BOOLEAN]
Ask == [in : SUBSET Cases, out : SUBSET Cases, reset : BOOLEAN]
Nothing == [in |-> {}, out |-> {}, reset |-> FALSE]

\* What a request holds: the scope as it has it, and as its read found it.
Editing == [op : {"results", "remove", "write", "upsert", "extend"}, run : Runs,
            targets : SUBSET Cases, custom : BOOLEAN, had : BOOLEAN, changed : BOOLEAN]
New == [op |-> "new"]
Done == [op |-> "done"]
Pending == {New, Done} \cup Editing \cup [op : {"first"}, run : Runs]

TypeOK ==
  /\ cases \in [Cases -> {"none", "active", "archived"}]
  /\ count \in 0..MaxRuns
  /\ runs \in [Runs -> Run]
  /\ results \in [Runs -> [Cases -> Evaluations \cup {None}]]
  /\ req \in [Requests -> Pending]
  /\ \A r \in Requests : req[r] \notin {New, Done} => req[r].run \in Created
  /\ asked \in [Requests -> Ask]
  /\ late \subseteq Requests
  /\ said \in [Runs -> [in : SUBSET Cases, out : SUBSET Cases]]
  /\ stale \subseteq Runs

Init ==
  /\ cases = [c \in Cases |-> "none"]
  /\ count = 0
  /\ runs = [n \in Runs |-> [feature |-> Project, targets |-> {}, custom |-> FALSE,
                             deleted |-> FALSE]]
  /\ results = [n \in Runs |-> [c \in Cases |-> None]]
  /\ req = [r \in Requests |-> New]
  /\ asked = [r \in Requests |-> Nothing]
  /\ late = {}
  /\ said = [n \in Runs |-> [in |-> {}, out |-> {}]]
  /\ stale = {}

Existing == {c \in Cases : cases[c] # "none"}

\* Wrong variant of Scope: the cases of other features belong to it as well.
ScopeOfAll(f) == Existing

\* validateTestCasesBelongToFeature and ...ToProject: archived cases belong.
Scope(f) == {c \in Existing : f = Project \/ c[1] = f}

\* listScopeTestCaseIds: archived cases are not listed.
Listed(f) == {c \in Scope(f) : cases[c] = "active"}

Few(S) == {T \in SUBSET S : Cardinality(T) <= MaxGiven}

\* The results of a request: at most one for each case.
Given(S) == UNION {[T -> Evaluations] : T \in Few(S)}

Holds(r, op) == req[r].op = op
Becomes(r, what) == req' = [req EXCEPT ![r] = what]

-----------------------------------------------------------------------------
(* Test cases.                                                             *)

\* skipDuplicates: a case that exists stays as it is, archived or not.
CreateTestCases(f, S) ==
  /\ S \subseteq {f} \X Names /\ S # {} /\ IsFiniteSet(S)
  /\ Cardinality(Existing \cup S) <= MaxCases
  /\ cases' = [c \in Cases |-> IF c \in S \ Existing THEN "active" ELSE cases[c]]
  /\ UNCHANGED <<count, runs, results, req, history>>

UpdateTestCase(c, isArchived) ==
  /\ c \in Existing
  /\ cases' = [cases EXCEPT ![c] = IF isArchived THEN "archived" ELSE "active"]
  /\ UNCHANGED <<count, runs, results, req, history>>

-----------------------------------------------------------------------------
(* Creating a run: its row, and then the results it is created with, if    *)
(* any, which are not added to its scope.                                  *)

Creates(r, f, targets, next) ==
  /\ req[r] = New /\ count < MaxRuns
  /\ targets \subseteq Scope(f)
  /\ count' = count + 1
  /\ runs' = [runs EXCEPT ![count'] = [feature |-> f, targets |-> targets,
                                       custom |-> targets # {}, deleted |-> FALSE]]
  /\ said' = [said EXCEPT ![count'] = [in |-> targets, out |-> {}]]
  /\ Becomes(r, IF next THEN [op |-> "first", run |-> count'] ELSE New)
  /\ UNCHANGED <<cases, results, asked, late, stale>>

CreateTestRun(r, f, targets, next) == f # Project /\ Creates(r, f, targets, next)

\* A run of the project is refused without results.
CreateProjectTestRun(r, targets) == Creates(r, Project, targets, TRUE)

CreateResults(r, given) ==
  /\ Holds(r, "first")
  /\ LET n == req[r].run IN
       /\ given \in Given(Scope(runs[n].feature))
       /\ DOMAIN given # {}
       /\ results' = [results EXCEPT ![n] = [c \in Cases |->
            IF c \in DOMAIN given /\ @[c] = None THEN given[c] ELSE @[c]]]
  /\ Becomes(r, Done)
  /\ UNCHANGED <<cases, count, runs, history>>

-----------------------------------------------------------------------------
(* History: what was asked for takes effect when a request ends.           *)

Effect(old, ask) ==
  [in |-> ((IF ask.reset THEN {} ELSE old.in) \cup ask.in) \ ask.out,
   out |-> ((IF ask.reset THEN {} ELSE old.out) \ ask.in) \cup ask.out]

OnRun(n) == {s \in Requests : req[s] \notin {New, Done} /\ req[s].run = n}

\* A request on run n ends, having written its scope or not.
Ends(r, n, wrote) ==
  /\ Becomes(r, Done)
  /\ asked' = [asked EXCEPT ![r] = Nothing]
  /\ said' = [said EXCEPT ![n] = Effect(@, asked[r])]
  /\ late' = (IF wrote THEN late \cup OnRun(n) ELSE late) \ {r}
  /\ stale' = IF r \in late THEN stale \cup {n} ELSE stale

-----------------------------------------------------------------------------
(* updateTestRun.                                                          *)

Reads(r, n, op) ==
  /\ req[r] = New /\ n \in Created /\ ~ runs[n].deleted
  /\ Becomes(r, [op |-> op, run |-> n, targets |-> runs[n].targets,
                 custom |-> runs[n].custom, had |-> runs[n].custom, changed |-> FALSE])
  /\ UNCHANGED <<tables, history>>

UpdateRead(r, n) == Reads(r, n, "results")

\* One upsert for each result.
WithResults(n, given) ==
  results' = [results EXCEPT ![n] = [c \in Cases |->
                IF c \in DOMAIN given THEN given[c] ELSE @[c]]]

\* The scope that a request sets replaces the one read (an empty one is not
\* custom), cases to add make it custom, and results extend a custom one.
\* scopes holds the scope that is set, or nothing when the field is left out.
UpdateResults(r, scopes, additions, given) ==
  /\ Holds(r, "results")
  /\ LET q == req[r]
         set == scopes # {}
         scope == UNION scopes
         custom == (IF set THEN scope # {} ELSE q.custom) \/ additions # {}
         new == additions \cup (IF custom THEN DOMAIN given ELSE {})
         old == IF set THEN scope ELSE q.targets
     IN  /\ additions \cup scope \subseteq Scope(runs[q.run].feature)
         /\ given \in Given(Scope(runs[q.run].feature))
         /\ WithResults(q.run, given)
         /\ Becomes(r, [q EXCEPT !.op = "remove", !.targets = old \cup new,
                                 !.custom = custom, !.changed = set \/ ~ new \subseteq old])
         /\ asked' = [asked EXCEPT ![r] =
              [in |-> new \cup scope, out |-> {}, reset |-> set]]
  /\ UNCHANGED <<cases, count, runs, late, said, stale>>

\* Removing a case gives a run without a custom scope the cases of its feature
\* or project, which are listed now, and takes the case out.
UpdateRemove(r, removals) ==
  /\ Holds(r, "remove")
  /\ LET q == req[r]
         full == q.targets \cup (IF q.custom THEN {} ELSE Listed(runs[q.run].feature))
     IN  IF removals = {} THEN /\ Becomes(r, [q EXCEPT !.op = "write"])
                               /\ UNCHANGED <<results, asked>>
         ELSE /\ results' = [results EXCEPT ![q.run] = [c \in Cases |->
                   IF c \in removals THEN None ELSE @[c]]]
              /\ Becomes(r, [q EXCEPT !.op = "write", !.targets = full \ removals,
                   !.custom = TRUE, !.changed = @ \/ removals \cap full # {}])
              /\ asked' = [asked EXCEPT ![r].out = removals]
  /\ UNCHANGED <<cases, count, runs, late, said, stale>>

\* Wrong variant of Written: a scope that becomes custom is written only when
\* a case was added to it or taken out of it.
WrittenIfChanged(row, q) ==
  [row EXCEPT !.custom = q.custom, !.targets = IF q.custom /\ q.had /\ ~ q.changed THEN @
                                               ELSE IF q.custom /\ q.changed THEN q.targets
                                               ELSE @]

\* A custom scope is written if it was changed or was not custom; one that is
\* no longer custom is cleared.
Written(row, q) ==
  IF q.custom
  THEN [row EXCEPT !.targets = IF q.changed \/ ~ q.had THEN q.targets ELSE @,
                   !.custom = IF q.had THEN @ ELSE TRUE]
  ELSE [row EXCEPT !.targets = IF q.had THEN {} ELSE @, !.custom = IF q.had THEN FALSE ELSE @]

\* The row is written by its id, deleted meanwhile or not.
UpdateWrite(r) ==
  /\ Holds(r, "write")
  /\ LET q == req[r] IN
       /\ runs' = [runs EXCEPT ![q.run] = Written(@, q)]
       /\ Ends(r, q.run, IF q.custom THEN q.changed \/ ~ q.had ELSE q.had)
  /\ UNCHANGED <<cases, count, results>>

-----------------------------------------------------------------------------
(* upsertResults.                                                          *)

UpsertRead(r, n) == Reads(r, n, "upsert")

UpsertResults(r, given) ==
  /\ Holds(r, "upsert")
  /\ LET q == req[r] new == IF q.custom THEN DOMAIN given ELSE {} IN
       /\ given \in Given(Scope(runs[q.run].feature)) /\ DOMAIN given # {}
       /\ WithResults(q.run, given)
       /\ Becomes(r, [q EXCEPT !.op = "extend", !.targets = @ \cup new,
                               !.changed = ~ new \subseteq q.targets])
       /\ asked' = [asked EXCEPT ![r].in = new]
  /\ UNCHANGED <<cases, count, runs, late, said, stale>>

\* Wrong variant of UpsertExtend: the results do not extend a custom scope.
UpsertKeepScope(r) ==
  /\ Holds(r, "extend")
  /\ Ends(r, req[r].run, FALSE)
  /\ UNCHANGED tables

\* The array is written whole, and the flag is left as it is.
UpsertExtend(r) ==
  /\ Holds(r, "extend")
  /\ LET q == req[r] IN
       /\ runs' = [runs EXCEPT ![q.run].targets = IF q.changed THEN q.targets ELSE @]
       /\ Ends(r, q.run, q.changed)
  /\ UNCHANGED <<cases, count, results>>

DeleteRun(n) ==
  /\ n \in Created /\ ~ runs[n].deleted
  /\ runs' = [runs EXCEPT ![n].deleted = TRUE]
  /\ UNCHANGED <<cases, count, results, req, history>>

-----------------------------------------------------------------------------
Next ==
  \/ \E f \in Features, S \in SUBSET Cases : CreateTestCases(f, S)
  \/ \E c \in Cases, b \in BOOLEAN : UpdateTestCase(c, b)
  \/ \E n \in Runs : DeleteRun(n)
  \/ \E r \in Requests :
       \/ \E f \in Features :
            \E T \in Few(Scope(f)), next \in BOOLEAN : CreateTestRun(r, f, T, next)
       \/ \E T \in Few(Existing) : CreateProjectTestRun(r, T)
       \/ \E given \in Given(Existing) : CreateResults(r, given) \/ UpsertResults(r, given)
       \/ \E n \in Runs : UpdateRead(r, n) \/ UpsertRead(r, n)
       \/ \E s \in {{}} \cup {{S} : S \in Few(Existing)}, A \in Few(Existing), given \in Given(Existing) :
            UpdateResults(r, s, A, given)
       \/ \E R \in Few(Cases) : UpdateRemove(r, R)
       \/ UpdateWrite(r) \/ UpsertExtend(r)

Spec == Init /\ [][Next]_vars

-----------------------------------------------------------------------------
(* What is reported.                                                       *)

Executed(n) == {c \in Cases : results[n][c] # None}

\* buildCoverage: without targets, the cases executed are the whole.
Covered(n) == IF runs[n].targets # {} THEN runs[n].targets ELSE Executed(n)

\* Of each feature the run last created is taken, and shown unless deleted.
Shown ==
  {n \in Created :
    /\ runs[n].feature # Project /\ ~ runs[n].deleted
    /\ \A m \in Created : runs[m].feature = runs[n].feature => m <= n}

\* runsWithFullPass of the dashboard.
FullPass ==
  {n \in Shown :
    /\ Covered(n) # {} /\ Covered(n) \subseteq Executed(n)
    /\ \A c \in Executed(n) : results[n][c] = "PASSED"}

\* missingTestCases of a feature, by its active cases and the run shown.
Missing(n) ==
  LET gap == Cardinality(Listed(runs[n].feature)) - Cardinality(Executed(n))
  IN  IF gap > 0 THEN gap ELSE 0

-----------------------------------------------------------------------------
\* Unless a request ended that had read the scope before another one wrote it,
\* the scope of a run holds every case that was asked in last, none that was
\* asked out last, and is empty when it is not custom (updateTestRun,
\* upsertResults).
ScopeAsAsked ==
  \A n \in Created \ stale :
    /\ said[n].in \subseteq runs[n].targets
    /\ said[n].out \cap runs[n].targets = {}
    /\ ~ runs[n].custom => runs[n].targets = {}

\* A run that the dashboard lists with a full pass passed every case that was
\* asked into its scope, though the listing never looks at cases as such.
FullPassIsComplete ==
  \A n \in FullPass \ stale : \A c \in said[n].in : results[n][c] = "PASSED"

\* What the dashboard says is missing are the active cases without a result,
\* except that an archived case with a result makes up for one of them: every
\* result in the run of a feature is of one of its cases.
MissingIsExact ==
  \A n \in Shown :
    LET own == {c \in Cases : c[1] = runs[n].feature}
        due == {c \in own : cases[c] = "active" /\ results[n][c] = None}
        extra == {c \in own : cases[c] = "archived" /\ results[n][c] # None}
        gap == Cardinality(due) - Cardinality(extra)
    IN  Missing(n) = IF gap > 0 THEN gap ELSE 0
=============================================================================
