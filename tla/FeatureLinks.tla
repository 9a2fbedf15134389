---------------------------- MODULE FeatureLinks ----------------------------
(***************************************************************************)
(* The links between the features of one project (qa.service.ts) and their *)
(* two readings: the list of one feature, and the tree of the project      *)
(* (projects.service.ts).                                                  *)
(*                                                                         *)
(* A link is one row whichever feature asked for it: its key is the pair   *)
(* in the order of the ids, and the row says who asked.  Ids are numbers   *)
(* here, for their order.  Linking and updating read first and write in    *)
(* another step.  The reason a link may carry is left out.                 *)
(***************************************************************************)
EXTENDS Integers, FiniteSets

CONSTANTS
  MaxFeatures,   \* bound: the features of the project
  Linkers        \* requests under way

ASSUME MaxFeaturesAssumption == MaxFeatures \in Nat

VARIABLES
  links,     \* FeatureLink, by its unique key
  hidden,    \* features with deletedAt
  linking    \* what each request does next

linkVars == <<links, hidden, linking>>

LinkedFeature == 1..MaxFeatures
Pairs == LinkedFeature \X LinkedFeature

\* A row says which feature asked for the link.
NoLink == 0

NotLinking == [op |-> "idle"]
Linking == {NotLinking}
  \cup [op : {"link"}, feature : LinkedFeature, target : LinkedFeature]
  \cup [op : {"update"}, feature : LinkedFeature, old : LinkedFeature, target : LinkedFeature]

FeatureLinksTypeOK ==
  /\ links \in [Pairs -> LinkedFeature \cup {NoLink}]
  /\ hidden \subseteq LinkedFeature
  /\ linking \in [Linkers -> Linking]

FeatureLinksInit ==
  /\ links = [p \in Pairs |-> NoLink]
  /\ hidden = {}
  /\ linking = [r \in Linkers |-> NotLinking]

\* Wrong variant of NormalizedPair: the pair as the caller gave it.
PairAsGiven(f, g) == <<f, g>>

NormalizedPair(f, g) == IF f < g THEN <<f, g>> ELSE <<g, f>>

Existing == {p \in Pairs : links[p] # NoLink}
Continues(r, what) == linking' = [linking EXCEPT ![r] = what]

-----------------------------------------------------------------------------
LinkFeaturesRead(r, f, g) ==
  /\ linking[r] = NotLinking
  /\ f # g /\ {f, g} \cap hidden = {}
  /\ Continues(r, [op |-> "link", feature |-> f, target |-> g])
  /\ UNCHANGED <<links, hidden>>

\* The upsert: a link that exists gets a new initiator.
LinkFeaturesCommit(r) ==
  /\ linking[r].op = "link"
  /\ links' = [links EXCEPT ![NormalizedPair(linking[r].feature, linking[r].target)] = linking[r].feature]
  /\ Continues(r, NotLinking)
  /\ UNCHANGED hidden

UpdateLinkRead(r, f, g, target) ==
  /\ linking[r] = NotLinking
  /\ f # g /\ target # f
  /\ {f, g, target} \cap hidden = {}
  /\ links[NormalizedPair(f, g)] # NoLink
  /\ Continues(r, [op |-> "update", feature |-> f, old |-> g, target |-> target])
  /\ UNCHANGED <<links, hidden>>

\* Another target: the old row goes, if it is still there, and the new one is
\* created or overwritten.  The same target: the row must still be there.
UpdateLinkCommit(r) ==
  /\ linking[r].op = "update"
  /\ LET u == linking[r]
         old == NormalizedPair(u.feature, u.old)
         new == NormalizedPair(u.feature, u.target)
     IN  \/ /\ new # old \/ links[old] # NoLink
            /\ links' = [p \in Pairs |->
                 IF p = new THEN u.feature ELSE IF p = old THEN NoLink ELSE links[p]]
         \/ /\ new = old /\ links[old] = NoLink
            /\ UNCHANGED links
  /\ Continues(r, NotLinking)
  /\ UNCHANGED hidden

UnlinkFeatures(f, g) ==
  /\ f # g /\ f \notin hidden
  /\ links[NormalizedPair(f, g)] # NoLink
  /\ links' = [links EXCEPT ![NormalizedPair(f, g)] = NoLink]
  /\ UNCHANGED <<hidden, linking>>

\* A feature is deleted or restored; its links stay.
HideFeature(f) ==
  /\ hidden' = IF f \in hidden THEN hidden \ {f} ELSE hidden \cup {f}
  /\ UNCHANGED <<links, linking>>

FeatureLinksNext ==
  \/ \E r \in Linkers, f, g \in LinkedFeature :
       \/ LinkFeaturesRead(r, f, g)
       \/ \E target \in LinkedFeature : UpdateLinkRead(r, f, g, target)
  \/ \E r \in Linkers : LinkFeaturesCommit(r) \/ UpdateLinkCommit(r)
  \/ \E f, g \in LinkedFeature : UnlinkFeatures(f, g)
  \/ \E f \in LinkedFeature : HideFeature(f)

FeatureLinksSpec == FeatureLinksInit /\ [][FeatureLinksNext]_linkVars

-----------------------------------------------------------------------------
\* What one feature shows: a row per link with a feature that is not deleted.
Shown == {p \in Existing : {p[1], p[2]} \cap hidden = {}}

\* The list of one feature.  Each entry carries its row: two rows are two entries.
References(f) ==
  {<<p, IF p[1] = f THEN p[2] ELSE p[1]>> : p \in {q \in Shown : f \in {q[1], q[2]} /\ links[q] = f}}
ReferencedBy(f) ==
  {<<p, IF p[1] = f THEN p[2] ELSE p[1]>> : p \in {q \in Shown : f \in {q[1], q[2]} /\ links[q] # f}}

\* The tree: each row is added to the lists of both its features.
TreeEntries(f) ==
  {<<p, p[2], links[p] = p[1]>> : p \in {q \in Shown : q[1] = f}}
  \cup {<<p, p[1], links[p] = p[2]>> : p \in {q \in Shown : q[2] = f}}

\* Two features are linked once, whoever asked and however often and whatever
\* was retargeted meanwhile: one lists the other as a reference exactly when
\* the other lists it as referenced by, in one entry, and the tree says the same
\* (listLinkedFeatures, linkFeatures, updateLinkedFeature).
ListingsAgree ==
  \A f \in LinkedFeature :
    /\ \A e \in References(f) \cup ReferencedBy(f) : e[2] # f
    /\ \A a, b \in References(f) \cup ReferencedBy(f) : a[2] = b[2] => a = b
    /\ \A g \in LinkedFeature :
         (\E e \in References(f) : e[2] = g) <=> (\E e \in ReferencedBy(g) : e[2] = f)
    /\ TreeEntries(f) = {<<e[1], e[2], TRUE>> : e \in References(f)}
                        \cup {<<e[1], e[2], FALSE>> : e \in ReferencedBy(f)}
=============================================================================
