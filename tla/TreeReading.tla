---------------------------- MODULE TreeReading -----------------------------
(***************************************************************************)
(* What the readers of the content show of it: the structure of a project, *)
(* the structure of one module, and the manual of a share link with its    *)
(* images.  All but one load the live rows and walk them, each in its own  *)
(* way; the images of a link for the whole project are found without       *)
(* loading a row (projects.service.ts, modules.service.ts).  The requests  *)
(* that change the rows are those of ContentTree.                          *)
(***************************************************************************)
EXTENDS ContentTree

\* What a reader loads of project p: its live modules, and the live
\* features in them.
LoadedModules(p) == {m \in Items : LiveModule(m) /\ project[m] = p}
Loaded(p) ==
  LoadedModules(p) \cup {f \in Items : LiveFeature(f) /\ parent[f] \in LoadedModules(p)}

\* What a walk down meets among rows that are below one another by up: where it
\* starts, and whatever is below what it has met.
Below(rows, up, from) ==
  LET closed == {S \in SUBSET Items : from \subseteq S /\ \A i \in rows : up[i] \in S => i \in S}
  IN  {x \in Items : \A S \in closed : x \in S}

\* buildModuleTree: the modules without a parent, and what is below them.
BuiltTree(rows, up) == Below(rows, up, {m \in rows : IsModule(m) /\ up[m] = Root})

ProjectStructure(p) == BuiltTree(Loaded(p), parent)
ModuleStructure(m) == Below(Loaded(project[m]), parent, {m})

\* The modules the stack of a manual collects from its root m.
Collected(m) == Below(LoadedModules(project[m]), parent, {m})

\* Wrong variant of Manual: the root keeps the parent it has.
ManualInPlace(i) ==
  BuiltTree({x \in Loaded(ProjectOf(i)) : x \in Collected(i) \/ parent[x] \in Collected(i)},
            parent)

\* buildManualForViewer: the rows of a manual whose root is row i, as a tree of
\* which the root module has no parent.  Of the module of a feature it shows
\* that feature only.
Manual(i) ==
  LET root == IF IsModule(i) THEN i ELSE parent[i]
      rows == IF IsModule(i) THEN {x \in Loaded(project[i]) : x \in Collected(i)
                                                               \/ parent[x] \in Collected(i)}
              ELSE {i, root}
  IN  BuiltTree(rows, [parent EXCEPT ![root] = Root])

\* getSharedManualImages: the rows whose images a link without a root shows, which
\* is that of the project: every row an image can be of, deleted or not.
ProjectImages(p) == InProject(p)

\* And those of a link whose root is row i.
ImagesFor(i) ==
  IF IsFeature(i) THEN {i, parent[i]}
  ELSE Collected(i) \cup {f \in Loaded(project[i]) : IsFeature(f) /\ parent[f] \in Collected(i)}

-----------------------------------------------------------------------------
\* Nothing that is live is lost to the readers, and they agree on it: what is below
\* a module is the same in its own structure, in a manual rooted at it, among the
\* images of that manual, and for a cascading deletion (getModuleStructure,
\* buildManualForViewer, getSharedManualImages, delete).  For a whole project the
\* images go further than the manual: of the rows they are of, the structure and
\* the manual leave out the deleted ones, and those only (getStructure).
ReadersAgree ==
  \A p \in {q \in Projects : ProjectLive(q)} :
    /\ ProjectStructure(p) = {i \in ProjectImages(p) : Live(i)}
    /\ \A m \in LoadedModules(p) :
         LET shown == ModuleStructure(m)
         IN  /\ Manual(m) = shown
             /\ ImagesFor(m) = shown
             /\ shown = {i \in WithFeatures(Subtree(m, FALSE)) : Live(i)}
    /\ \A f \in Loaded(p) \ LoadedModules(p) :
         Manual(f) = ImagesFor(f) /\ Manual(f) \subseteq ProjectStructure(p)
=============================================================================
