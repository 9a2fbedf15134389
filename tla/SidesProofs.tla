----------------------------- MODULE SidesProofs -----------------------------
(* The components around tickets and features, each for any number of      *)
(* requests and of rows: an inductive invariant and the property that      *)
(* follows from it.  Last, the sum the runs check is every component, one  *)
(* at a time.                                                              *)
EXTENDS MCSides, FiniteSetTheorems, SequenceTheorems, TLAPS

(* FeatureLinks: a link is one row with one direction, and its three       *)
(* readings agree.                                                         *)
\* A row is stored under the pair in the order of the ids, and it was asked for
\* by one of the two: every reading of a row rests on it.
OneRowPerPair ==
  \A p \in Pairs : links[p] # NoLink => p[1] < p[2] /\ links[p] \in {p[1], p[2]}

\* A request that was let through links two different features.
BetweenTwo ==
  \A r \in Linkers :
    /\ linking[r].op \in {"link", "update"} => linking[r].feature # linking[r].target
    /\ linking[r].op = "update" => linking[r].feature # linking[r].old

LinkInv == FeatureLinksTypeOK /\ OneRowPerPair /\ BetweenTwo

\* The key of two different features is a pair in order, of the two.
LEMMA KeyInOrder ==
  ASSUME NEW f \in LinkedFeature, NEW g \in LinkedFeature, f # g
  PROVE  /\ NormalizedPair(f, g) \in Pairs
         /\ NormalizedPair(f, g)[1] < NormalizedPair(f, g)[2]
         /\ f \in {NormalizedPair(f, g)[1], NormalizedPair(f, g)[2]}
  BY MaxFeaturesAssumption DEF NormalizedPair, Pairs, LinkedFeature

\* Every statement of a request keeps the rows in order and of a pair.
LEMMA LinkInvInductive ==
  ASSUME LinkInv, [FeatureLinksNext]_linkVars
  PROVE  LinkInv'
<1> USE MaxFeaturesAssumption DEF LinkInv, FeatureLinksTypeOK, OneRowPerPair, BetweenTwo, Linking,
        NotLinking, Continues, NoLink
<1>1. ASSUME NEW r \in Linkers, NEW f \in LinkedFeature, NEW g \in LinkedFeature,
             LinkFeaturesRead(r, f, g)
      PROVE  LinkInv'
  BY <1>1 DEF LinkFeaturesRead
<1>2. ASSUME NEW r \in Linkers, NEW f \in LinkedFeature, NEW g \in LinkedFeature,
             NEW target \in LinkedFeature, UpdateLinkRead(r, f, g, target)
      PROVE  LinkInv'
  BY <1>2 DEF UpdateLinkRead
<1>3. ASSUME NEW r \in Linkers, LinkFeaturesCommit(r)
      PROVE  LinkInv'
  <2> DEFINE f == linking[r].feature
             g == linking[r].target
             key == NormalizedPair(f, g)
  <2>1. f \in LinkedFeature /\ g \in LinkedFeature /\ f # g
    BY <1>3 DEF LinkFeaturesCommit
  <2>2. key \in Pairs /\ key[1] < key[2] /\ f \in {key[1], key[2]}
    BY <2>1, KeyInOrder
  <2>3. links' = [links EXCEPT ![key] = f]
    BY <1>3 DEF LinkFeaturesCommit
  <2> HIDE DEF f, g, key
  <2>4. OneRowPerPair' /\ links' \in [Pairs -> LinkedFeature \cup {NoLink}]
    BY <2>1, <2>2, <2>3
  <2> QED
    BY <1>3, <2>4 DEF LinkFeaturesCommit
<1>4. ASSUME NEW r \in Linkers, UpdateLinkCommit(r)
      PROVE  LinkInv'
  <2> DEFINE f == linking[r].feature
             old == NormalizedPair(f, linking[r].old)
             new == NormalizedPair(f, linking[r].target)
  <2>1. f \in LinkedFeature /\ linking[r].target \in LinkedFeature /\ f # linking[r].target
    BY <1>4 DEF UpdateLinkCommit
  <2>2. new \in Pairs /\ new[1] < new[2] /\ f \in {new[1], new[2]}
    BY <2>1, KeyInOrder
  <2>3. \/ links' = [p \in Pairs |-> IF p = new THEN f ELSE IF p = old THEN NoLink ELSE links[p]]
        \/ UNCHANGED links
    BY <1>4 DEF UpdateLinkCommit
  <2> HIDE DEF f, old, new
  <2>4. OneRowPerPair' /\ links' \in [Pairs -> LinkedFeature \cup {NoLink}]
    BY <2>1, <2>2, <2>3
  <2> QED
    BY <1>4, <2>4 DEF UpdateLinkCommit
<1>5. ASSUME NEW f \in LinkedFeature, NEW g \in LinkedFeature, UnlinkFeatures(f, g)
      PROVE  LinkInv'
  <2> DEFINE key == NormalizedPair(f, g)
  <2>1. links' = [links EXCEPT ![key] = NoLink]
    BY <1>5 DEF UnlinkFeatures
  <2> HIDE DEF key
  <2> QED
    BY <1>5, <2>1 DEF UnlinkFeatures
<1>6. ASSUME NEW f \in LinkedFeature, HideFeature(f)
      PROVE  LinkInv'
  BY <1>6 DEF HideFeature
<1>7. CASE UNCHANGED linkVars
  BY <1>7 DEF linkVars
<1> QED
  BY <1>1, <1>2, <1>3, <1>4, <1>5, <1>6, <1>7 DEF FeatureLinksNext

\* Rows in order, each asked for by one of its two, however many requests
\* overlap.  (qa.service.ts:1088-1250, 2286-2293)
THEOREM LinkInvAlways == FeatureLinksSpec => []LinkInv
<1>1. FeatureLinksInit => LinkInv
  BY DEF FeatureLinksInit, LinkInv, FeatureLinksTypeOK, OneRowPerPair, BetweenTwo, Linking, NotLinking
<1>2. LinkInv /\ [FeatureLinksNext]_linkVars => LinkInv'
  BY LinkInvInductive
<1> QED
  BY <1>1, <1>2, PTL DEF FeatureLinksSpec


\* A row that shows is one of two features, and tells the two apart.
LEMMA ShownRow ==
  ASSUME LinkInv, NEW p \in Shown
  PROVE  /\ p = <<p[1], p[2]>> /\ p \in Pairs
         /\ p[1] \in LinkedFeature /\ p[2] \in LinkedFeature /\ p[1] < p[2]
         /\ links[p] \in {p[1], p[2]}
  BY DEF LinkInv, OneRowPerPair, Shown, Existing, Pairs

\* The list of what a feature refers to is the rows it asked for, by the other.
LEMMA InReferences ==
  ASSUME LinkInv, NEW f \in LinkedFeature, NEW e
  PROVE  e \in References(f) <=>
           \E p \in Shown : \/ p[1] = f /\ links[p] = f /\ e = <<p, p[2]>>
                            \/ p[2] = f /\ links[p] = f /\ e = <<p, p[1]>>
<1>1. \A p \in Shown : p[1] # p[2]
  BY ShownRow, MaxFeaturesAssumption DEF LinkedFeature
<1> QED
  BY <1>1 DEF References

\* The list of what refers to a feature is the rows the other asked for.
LEMMA InReferencedBy ==
  ASSUME LinkInv, NEW f \in LinkedFeature, NEW e
  PROVE  e \in ReferencedBy(f) <=>
           \E p \in Shown : \/ p[1] = f /\ links[p] = p[2] /\ e = <<p, p[2]>>
                            \/ p[2] = f /\ links[p] = p[1] /\ e = <<p, p[1]>>
<1>1. \A p \in Shown : p[1] # p[2] /\ links[p] \in {p[1], p[2]}
  BY ShownRow, MaxFeaturesAssumption DEF LinkedFeature
<1> QED
  BY <1>1 DEF ReferencedBy

\* From rows in order alone, the three readings agree.
LEMMA InvImpliesAgreement ==
  ASSUME LinkInv
  PROVE  ListingsAgree
<1> SUFFICES ASSUME NEW f \in LinkedFeature
             PROVE  /\ \A e \in References(f) \cup ReferencedBy(f) : e[2] # f
                    /\ \A a, b \in References(f) \cup ReferencedBy(f) : a[2] = b[2] => a = b
                    /\ \A g \in LinkedFeature :
                         (\E e \in References(f) : e[2] = g) <=> (\E e \in ReferencedBy(g) : e[2] = f)
                    /\ TreeEntries(f) = {<<e[1], e[2], TRUE>> : e \in References(f)}
                                        \cup {<<e[1], e[2], FALSE>> : e \in ReferencedBy(f)}
  BY DEF ListingsAgree
<1>1. \A p \in Shown : /\ p = <<p[1], p[2]>> /\ p[1] \in LinkedFeature /\ p[2] \in LinkedFeature
                       /\ p[1] < p[2] /\ p[1] # p[2] /\ links[p] \in {p[1], p[2]}
  BY ShownRow, MaxFeaturesAssumption DEF LinkedFeature
<1>2. \A e \in References(f) \cup ReferencedBy(f) :
        \E p \in Shown : \/ p[1] = f /\ e = <<p, p[2]>>
                         \/ p[2] = f /\ e = <<p, p[1]>>
  BY InReferences, InReferencedBy
<1>3. \A e \in References(f) \cup ReferencedBy(f) : e[2] # f
  BY <1>1, <1>2
<1>4. ASSUME NEW a \in References(f) \cup ReferencedBy(f), NEW b \in References(f) \cup ReferencedBy(f),
             a[2] = b[2]
      PROVE  a = b
  <2>1. PICK p \in Shown : \/ p[1] = f /\ a = <<p, p[2]>>
                           \/ p[2] = f /\ a = <<p, p[1]>>
    BY <1>2
  <2>2. PICK q \in Shown : \/ q[1] = f /\ b = <<q, q[2]>>
                           \/ q[2] = f /\ b = <<q, q[1]>>
    BY <1>2
  <2>3. p[1] = q[1] /\ p[2] = q[2]
    BY <1>1, <1>4, <2>1, <2>2, MaxFeaturesAssumption DEF LinkedFeature
  <2>4. p = q
    BY <1>1, <2>3
  <2> QED
    BY <1>4, <2>1, <2>2, <2>4
<1>5. ASSUME NEW g \in LinkedFeature
      PROVE  (\E e \in References(f) : e[2] = g) <=> (\E e \in ReferencedBy(g) : e[2] = f)
  <2>1. ASSUME NEW e \in References(f), e[2] = g
        PROVE  \E d \in ReferencedBy(g) : d[2] = f
    <3>1. PICK p \in Shown : \/ p[1] = f /\ links[p] = f /\ e = <<p, p[2]>>
                             \/ p[2] = f /\ links[p] = f /\ e = <<p, p[1]>>
      BY InReferences
    <3>2. <<p, f>> \in ReferencedBy(g)
      BY <2>1, <3>1, InReferencedBy
    <3> QED
      BY <3>2
  <2>2. ASSUME NEW e \in ReferencedBy(g), e[2] = f
        PROVE  \E d \in References(f) : d[2] = g
    <3>1. PICK p \in Shown : \/ p[1] = g /\ links[p] = p[2] /\ e = <<p, p[2]>>
                             \/ p[2] = g /\ links[p] = p[1] /\ e = <<p, p[1]>>
      BY InReferencedBy
    <3>2. <<p, g>> \in References(f)
      BY <2>2, <3>1, InReferences
    <3> QED
      BY <3>2
  <2> QED
    BY <2>1, <2>2
<1>6. TreeEntries(f) = {<<e[1], e[2], TRUE>> : e \in References(f)}
                       \cup {<<e[1], e[2], FALSE>> : e \in ReferencedBy(f)}
  <2>1. \A x : x \in TreeEntries(f) <=>
          \E p \in Shown : \/ p[1] = f /\ x = <<p, p[2], links[p] = p[1]>>
                           \/ p[2] = f /\ x = <<p, p[1], links[p] = p[2]>>
    BY DEF TreeEntries
  <2>2. ASSUME NEW e \in References(f)
        PROVE  <<e[1], e[2], TRUE>> \in TreeEntries(f)
    <3>1. PICK p \in Shown : \/ p[1] = f /\ links[p] = f /\ e = <<p, p[2]>>
                             \/ p[2] = f /\ links[p] = f /\ e = <<p, p[1]>>
      BY InReferences
    <3>2. CASE p[1] = f /\ links[p] = f /\ e = <<p, p[2]>>
      <4>1. <<p, p[2], links[p] = p[1]>> \in TreeEntries(f)
        BY <2>1, <3>2
      <4>2. (links[p] = p[1]) = TRUE /\ e[1] = p /\ e[2] = p[2]
        BY <3>2
      <4> QED
        BY <4>1, <4>2, Zenon
    <3>3. CASE p[2] = f /\ links[p] = f /\ e = <<p, p[1]>>
      <4>1. <<p, p[1], links[p] = p[2]>> \in TreeEntries(f)
        BY <2>1, <3>3
      <4>2. (links[p] = p[2]) = TRUE /\ e[1] = p /\ e[2] = p[1]
        BY <3>3
      <4> QED
        BY <4>1, <4>2, Zenon
    <3> QED
      BY <3>1, <3>2, <3>3
  <2>3. ASSUME NEW e \in ReferencedBy(f)
        PROVE  <<e[1], e[2], FALSE>> \in TreeEntries(f)
    <3>1. PICK p \in Shown : \/ p[1] = f /\ links[p] = p[2] /\ e = <<p, p[2]>>
                             \/ p[2] = f /\ links[p] = p[1] /\ e = <<p, p[1]>>
      BY InReferencedBy
    <3>2. CASE p[1] = f /\ links[p] = p[2] /\ e = <<p, p[2]>>
      <4>1. <<p, p[2], links[p] = p[1]>> \in TreeEntries(f)
        BY <2>1, <3>2
      <4>2. (links[p] = p[1]) = FALSE /\ e[1] = p /\ e[2] = p[2]
        BY <1>1, <3>2
      <4> QED
        BY <4>1, <4>2, Zenon
    <3>3. CASE p[2] = f /\ links[p] = p[1] /\ e = <<p, p[1]>>
      <4>1. <<p, p[1], links[p] = p[2]>> \in TreeEntries(f)
        BY <2>1, <3>3
      <4>2. (links[p] = p[2]) = FALSE /\ e[1] = p /\ e[2] = p[1]
        BY <1>1, <3>3
      <4> QED
        BY <4>1, <4>2, Zenon
    <3> QED
      BY <3>1, <3>2, <3>3
  <2>4. ASSUME NEW x \in TreeEntries(f)
        PROVE  \/ \E e \in References(f) : x = <<e[1], e[2], TRUE>>
               \/ \E e \in ReferencedBy(f) : x = <<e[1], e[2], FALSE>>
    <3>1. PICK p \in Shown : \/ p[1] = f /\ x = <<p, p[2], links[p] = p[1]>>
                             \/ p[2] = f /\ x = <<p, p[1], links[p] = p[2]>>
      BY <2>1
    <3> DEFINE g == IF p[1] = f THEN p[2] ELSE p[1]
    <3>2. x = <<p, g, links[p] = f>>
      BY <1>1, <3>1
    <3>3. CASE links[p] = f
      <4>1. <<p, g>> \in References(f)
        BY <3>1, <3>3, InReferences
      <4> QED
        BY <3>2, <3>3, <4>1
    <3>4. CASE links[p] # f
      <4>1. <<p, g>> \in ReferencedBy(f)
        BY <1>1, <3>1, <3>4, InReferencedBy
      <4> QED
        BY <3>2, <3>4, <4>1
    <3> QED
      BY <3>3, <3>4
  <2> QED
    BY <2>2, <2>3, <2>4
<1> QED
  BY <1>3, <1>4, <1>5, <1>6

\* For any number of features and of requests, in every interleaving of their
\* reads and writes, two features agree on the link between them.
\* (qa.service.ts:1033-1250, projects.service.ts:590-614)
THEOREM ListingsAgreeAlways == FeatureLinksSpec => []ListingsAgree
<1>1. LinkInv => ListingsAgree
  BY InvImpliesAgreement
<1> QED
  BY <1>1, LinkInvAlways, PTL

-----------------------------------------------------------------------------
(* ShareLinks: who refreshes a link, and what is open of one origin.       *)
Busy(r) == sharing[r] # NotSharing
GoesBackTo(l, o) == shareLink[l] # "none" /\ origin[l] = o
RefreshOf(r, o) == sharing[r].op = "create" /\ origin[sharing[r].link] = o
OpenLinks(o) == {k \in ShareLink : shareLink[k] = "live" /\ origin[k] = o}

\* Links go back to a link that exists, and that goes back to itself.
OriginsStand ==
  /\ \A l \in ShareLink :
       /\ origin[origin[l]] = origin[l]
       /\ shareLink[l] = "none" => origin[l] = l
       /\ shareLink[l] # "none" => shareLink[origin[l]] # "none"
  /\ \A r \in Managers : Busy(r) => shareLink[sharing[r].link] # "none"
  /\ \A o \in ended : shareLink[o] # "none"

\* Two requests on one link are what contested records.
SharedIsContested ==
  \A r, q \in Managers :
    r # q /\ Busy(r) /\ Busy(q) /\ sharing[r].link = sharing[q].link
      => origin[sharing[r].link] \in contested

\* One link at most is open of an uncontested origin, one request at most is on it,
\* a request that has yet to revoke holds a live link, and exactly one of three is
\* the case: a link is open, a refreshing is between its statements, it is over.
OneOf(o) ==
  /\ \A k, l \in OpenLinks(o) : k = l
  /\ \A r \in Managers : RefreshOf(r, o) => OpenLinks(o) = {} /\ o \notin ended
  /\ o \in ended => OpenLinks(o) = {}
  /\ \A r \in Managers :
       sharing[r].op \in {"revoke", "revokeToRefresh"} /\ origin[sharing[r].link] = o
         => shareLink[sharing[r].link] = "live"
  /\ \A r, q \in Managers : RefreshOf(r, o) /\ RefreshOf(q, o) => r = q
  /\ shareLink[o] # "none" /\ origin[o] = o =>
       \/ OpenLinks(o) # {} \/ o \in ended \/ \E r \in Managers : RefreshOf(r, o)

ShareInv ==
  /\ ShareLinksTypeOK /\ OriginsStand /\ SharedIsContested
  /\ \A o \in ShareLink \ contested : OneOf(o)

LEMMA BusyLink ==
  ASSUME ShareInv, NEW r \in Managers
  PROVE  /\ Busy(r) <=> sharing[r].op # "idle"
         /\ Busy(r) => /\ sharing[r].link \in ShareLink
                       /\ sharing[r].op \in {"revoke", "revokeToRefresh", "create"}
                       /\ shareLink[sharing[r].link] # "none"
                       /\ origin[sharing[r].link] \in ShareLink
<1>1. sharing[r] \in Sharing
  BY DEF ShareInv, ShareLinksTypeOK
<1>2. Busy(r) => sharing[r] \in [op : {"revoke", "revokeToRefresh", "create"}, link : ShareLink]
  BY <1>1 DEF Busy, Sharing
<1>3. Busy(r) => /\ sharing[r].link \in ShareLink
                 /\ sharing[r].op \in {"revoke", "revokeToRefresh", "create"}
  BY <1>2
<1>4. ~Busy(r) => sharing[r].op = "idle"
  BY DEF Busy, NotSharing
<1> QED
  BY <1>3, <1>4 DEF ShareInv, ShareLinksTypeOK, OriginsStand

\* Only one request is on an uncontested origin.
LEMMA AloneOnOrigin ==
  ASSUME ShareInv, NEW r \in Managers, NEW q \in Managers, Busy(r), Busy(q),
         origin[sharing[r].link] = origin[sharing[q].link],
         origin[sharing[r].link] \notin contested
  PROVE  r = q
<1> DEFINE o == origin[sharing[r].link]
<1>1. OneOf(o) /\ o \in ShareLink
  BY BusyLink DEF ShareInv
<1>2. /\ sharing[r].op # "create" => sharing[r].link \in OpenLinks(o)
      /\ sharing[q].op # "create" => sharing[q].link \in OpenLinks(o)
  BY <1>1, BusyLink DEF OneOf, OpenLinks
<1> QED
  BY <1>1, <1>2, BusyLink DEF OneOf, RefreshOf, ShareInv, SharedIsContested

LEMMA ShareCreateKeeps ==
  ASSUME ShareInv, CreateShareLink
  PROVE  ShareInv'
<1> USE DEF ShareInv
<1>1. PICK l \in ShareLink : /\ shareLink[l] = "none"
                             /\ shareLink' = [shareLink EXCEPT ![l] = "live"]
                             /\ origin' = [origin EXCEPT ![l] = l]
  BY DEF CreateShareLink, NewLink
<1>2. UNCHANGED <<sharing, contested, ended>>
  BY DEF CreateShareLink
<1>3. origin' = origin
  BY <1>1 DEF OriginsStand, ShareLinksTypeOK
<1>4. ShareLinksTypeOK'
  BY <1>1, <1>2, <1>3 DEF ShareLinksTypeOK
<1>5. OriginsStand'
  BY <1>1, <1>2, <1>3, BusyLink DEF ShareLinksTypeOK, OriginsStand, Busy
<1>6. SharedIsContested'
  BY <1>2, <1>3 DEF SharedIsContested, Busy
<1>7. ASSUME NEW o \in ShareLink \ contested
      PROVE  OneOf(o)'
  <2>1. \A r \in Managers : RefreshOf(r, o)' <=> RefreshOf(r, o)
    BY <1>2, <1>3 DEF RefreshOf
  <2>2. CASE o = l
    <3>1. OpenLinks(o)' = {l}
      BY <1>1, <1>3, <2>2 DEF OpenLinks, ShareLinksTypeOK, OriginsStand
    <3>2. o \notin ended /\ \A r \in Managers : Busy(r) => origin[sharing[r].link] # o
      BY <1>1, <2>2, BusyLink DEF OriginsStand
    <3>3. \A r \in Managers : sharing[r].op \in {"revoke", "revokeToRefresh", "create"} => Busy(r)
      BY BusyLink
    <3> QED
      BY <1>2, <1>3, <2>1, <3>1, <3>2, <3>3 DEF OneOf, RefreshOf
  <2>3. CASE o # l
    <3>1. OpenLinks(o)' = OpenLinks(o)
      BY <1>1, <1>3, <2>3 DEF OpenLinks, ShareLinksTypeOK, OriginsStand
    <3>2. shareLink[o]' = shareLink[o]
      BY <1>1, <2>3 DEF ShareLinksTypeOK
    <3>3. \A r \in Managers : sharing[r].op \in {"revoke", "revokeToRefresh", "create"} =>
            shareLink'[sharing[r].link] = shareLink[sharing[r].link]
      BY <1>1, BusyLink DEF ShareLinksTypeOK
    <3> QED
      BY <1>2, <1>3, <2>1, <3>1, <3>2, <3>3 DEF OneOf
  <2> QED
    BY <2>2, <2>3
<1> QED
  BY <1>2, <1>4, <1>5, <1>6, <1>7

LEMMA ShareFindKeeps ==
  ASSUME ShareInv, NEW r \in Managers, NEW l \in ShareLink,
         NEW next \in {"revoke", "revokeToRefresh"}, FindShareLink(r, l, next)
  PROVE  ShareInv'
<1> USE DEF ShareInv
<1>1. /\ sharing[r] = NotSharing /\ shareLink[l] = "live"
      /\ sharing' = [sharing EXCEPT ![r] = [op |-> next, link |-> l]]
      /\ UNCHANGED <<shareLink, origin, ended>>
      /\ contested \subseteq contested'
      /\ \A q \in Managers : Busy(q) /\ sharing[q].link = l => origin[l] \in contested'
      /\ contested' \subseteq ShareLink
  BY DEF FindShareLink, Findable, Steps, Busy, ShareLinksTypeOK
<1>2. ~Busy(r)
  BY <1>1 DEF Busy
<1>a. sharing'[r] = [op |-> next, link |-> l]
  BY <1>1 DEF ShareLinksTypeOK
<1>b. \A q \in Managers : q # r => sharing'[q] = sharing[q]
  BY <1>1 DEF ShareLinksTypeOK
<1>3. /\ sharing'[r].op = next /\ sharing'[r].link = l /\ sharing'[r] # NotSharing
      /\ \A q \in Managers : q # r => sharing'[q] = sharing[q]
  <2>1. sharing'[r].op = next /\ sharing'[r].link = l
    BY <1>a
  <2> QED
    BY <1>b, <2>1 DEF NotSharing
<1>4. ShareLinksTypeOK'
  BY <1>1 DEF ShareLinksTypeOK, Sharing
<1>5. OriginsStand'
  BY <1>1, <1>3 DEF OriginsStand, Busy
<1>6. SharedIsContested'
  BY <1>1, <1>3 DEF SharedIsContested, Busy
<1>7. ASSUME NEW o \in ShareLink \ contested'
      PROVE  OneOf(o)'
  <2>1. OpenLinks(o)' = OpenLinks(o)
    BY <1>1 DEF OpenLinks
  <2>2. \A q \in Managers : RefreshOf(q, o)' <=> RefreshOf(q, o)
    <3>1. sharing[r].op # "create" /\ sharing'[r].op # "create"
      BY <1>1, <1>3 DEF NotSharing
    <3> QED
      BY <1>1, <1>3, <3>1 DEF RefreshOf
  <2>3. OneOf(o)
    BY <1>1
  <2> QED
    BY <1>1, <1>3, <2>1, <2>2, <2>3 DEF OneOf
<1> QED
  BY <1>4, <1>5, <1>6, <1>7

\* What RefreshRevokes and RevokeShareLink have in common.
LEMMA RevokedOf ==
  ASSUME ShareInv, NEW r \in Managers, Busy(r), sharing[r].op # "create",
         shareLink' = [shareLink EXCEPT ![sharing[r].link] = "revoked"],
         origin' = origin,
         NEW o \in ShareLink \ contested
  PROVE  /\ o = origin[sharing[r].link] => OpenLinks(o)' = {} /\ o \notin ended /\ sharing[r].link \in OpenLinks(o)
         /\ o # origin[sharing[r].link] => OpenLinks(o)' = OpenLinks(o)
         /\ \A l \in ShareLink : shareLink'[l] = "none" <=> shareLink[l] = "none"
         /\ \A l \in ShareLink : l # sharing[r].link => shareLink'[l] = shareLink[l]
<1> DEFINE l == sharing[r].link
<1>1. l \in ShareLink /\ shareLink[l] # "none" /\ OneOf(o)
  BY BusyLink DEF ShareInv
<1>2. ASSUME o = origin[l]
      PROVE  OpenLinks(o)' = {} /\ o \notin ended /\ l \in OpenLinks(o)
  <2>1. l \in OpenLinks(o)
    BY <1>1, <1>2, BusyLink DEF OneOf, OpenLinks
  <2>2. \A k \in OpenLinks(o) : k = l
    BY <1>1, <2>1 DEF OneOf
  <2>3. \A k \in ShareLink : shareLink'[k] = IF k = l THEN "revoked" ELSE shareLink[k]
    BY <1>1 DEF ShareInv, ShareLinksTypeOK
  <2>4. OpenLinks(o)' = {}
    BY <2>2, <2>3 DEF OpenLinks
  <2> QED
    BY <1>1, <2>1, <2>4 DEF OneOf
<1> QED
  BY <1>1, <1>2 DEF ShareInv, ShareLinksTypeOK, OpenLinks

LEMMA RefreshRevokesKeeps ==
  ASSUME ShareInv, NEW r \in Managers, RefreshRevokes(r)
  PROVE  ShareInv'
<1> DEFINE l == sharing[r].link
<1>1. /\ Busy(r) /\ sharing[r].op = "revokeToRefresh" /\ l \in ShareLink /\ shareLink[l] # "none"
      /\ shareLink' = [shareLink EXCEPT ![l] = "revoked"]
      /\ sharing' = [sharing EXCEPT ![r] = [sharing[r] EXCEPT !.op = "create"]]
      /\ UNCHANGED <<origin, contested, ended>>
  BY BusyLink DEF RefreshRevokes, Steps
<1>a. sharing[r] \in [op : {"revoke", "revokeToRefresh", "create"}, link : ShareLink]
  BY <1>1 DEF ShareInv, ShareLinksTypeOK, Sharing, Busy
<1>b. sharing'[r] = [op |-> "create", link |-> l]
  BY <1>1, <1>a DEF ShareInv, ShareLinksTypeOK
<1>c. \A q \in Managers : q # r => sharing'[q] = sharing[q]
  BY <1>1 DEF ShareInv, ShareLinksTypeOK
<1>2. /\ sharing'[r].op = "create" /\ sharing'[r].link = l /\ sharing'[r] # NotSharing
      /\ \A q \in Managers : q # r => sharing'[q] = sharing[q]
  BY <1>b, <1>c DEF NotSharing
<1>3. ShareLinksTypeOK'
  BY <1>1, <1>b DEF ShareInv, ShareLinksTypeOK, Sharing
<1>4. \A q \in Managers : (Busy(q)' <=> Busy(q)) /\ (Busy(q) => sharing'[q].link = sharing[q].link)
  BY <1>1, <1>2 DEF Busy
<1>5. \A k \in ShareLink : shareLink'[k] = "none" <=> shareLink[k] = "none"
  BY <1>1 DEF ShareInv, ShareLinksTypeOK
<1>6. OriginsStand'
  BY <1>1, <1>4, <1>5, BusyLink DEF ShareInv, OriginsStand, ShareLinksTypeOK
<1>7. SharedIsContested'
  BY <1>1, <1>2 DEF ShareInv, SharedIsContested, Busy
<1>8. ASSUME NEW o \in ShareLink \ contested
      PROVE  OneOf(o)'
  <2>1. OneOf(o)
    BY DEF ShareInv
  <2>2. /\ o = origin[l] => OpenLinks(o)' = {} /\ o \notin ended
        /\ o # origin[l] => OpenLinks(o)' = OpenLinks(o)
        /\ \A k \in ShareLink : k # l => shareLink'[k] = shareLink[k]
    BY <1>1, RevokedOf
  <2>3. CASE o = origin[l]
    <3>1. \A q \in Managers : Busy(q) /\ origin[sharing[q].link] = o => q = r
      BY <1>1, <2>3, AloneOnOrigin
    <3>2. \A q \in Managers : RefreshOf(q, o)' => q = r
      BY <1>1, <1>2, <3>1, BusyLink DEF RefreshOf
    <3>3. RefreshOf(r, o)'
      BY <1>1, <1>2, <2>3 DEF RefreshOf
    <3> QED
      BY <1>1, <1>2, <2>2, <2>3, <3>1, <3>2, <3>3, BusyLink DEF OneOf
  <2>4. CASE o # origin[l]
    <3>1. \A q \in Managers : RefreshOf(q, o)' <=> RefreshOf(q, o)
      BY <1>1, <1>2, <2>4 DEF RefreshOf
    <3>2. \A q \in Managers : Busy(q) /\ origin[sharing[q].link] = o => sharing[q].link # l
      BY <2>4
    <3>3. OpenLinks(o)' = OpenLinks(o)
      BY <2>2, <2>4
    <3>4. ASSUME NEW q \in Managers, sharing'[q].op \in {"revoke", "revokeToRefresh"},
                 origin[sharing'[q].link] = o
          PROVE  shareLink'[sharing'[q].link] = "live"
      <4>1. q # r /\ sharing'[q] = sharing[q]
        BY <1>2, <3>4
      <4>2. Busy(q) /\ sharing[q].link \in ShareLink /\ sharing[q].link # l
        BY <3>2, <3>4, <4>1, BusyLink
      <4> QED
        BY <2>1, <2>2, <3>4, <4>1, <4>2 DEF OneOf
    <3>5. shareLink'[o] # "none" <=> shareLink[o] # "none"
      BY <1>5
    <3> QED
      BY <1>1, <2>1, <3>1, <3>3, <3>4, <3>5 DEF OneOf
  <2> QED
    BY <2>3, <2>4
<1> QED
  BY <1>1, <1>3, <1>6, <1>7, <1>8 DEF ShareInv

LEMMA RefreshCreatesKeeps ==
  ASSUME ShareInv, NEW r \in Managers, RefreshCreates(r)
  PROVE  ShareInv'
<1> DEFINE from == sharing[r].link
           p == origin[from]
<1>1. /\ Busy(r) /\ sharing[r].op = "create" /\ from \in ShareLink
      /\ p \in ShareLink /\ shareLink[from] # "none" /\ shareLink[p] # "none" /\ origin[p] = p
      /\ sharing' = [sharing EXCEPT ![r] = NotSharing]
      /\ UNCHANGED <<contested, ended>>
  BY BusyLink DEF RefreshCreates, Steps, ShareInv, OriginsStand
<1>2. from # 0
  BY <1>1, MaxLinksAssumption DEF ShareLink
<1>3. PICK l \in ShareLink : /\ shareLink[l] = "none"
                             /\ shareLink' = [shareLink EXCEPT ![l] = "live"]
                             /\ origin' = [origin EXCEPT ![l] = p]
  BY <1>2 DEF RefreshCreates, NewLink
<1>4. /\ sharing'[r] = NotSharing
      /\ \A q \in Managers : q # r => sharing'[q] = sharing[q]
  BY <1>1 DEF ShareInv, ShareLinksTypeOK
<1>5. /\ \A k \in ShareLink : shareLink'[k] = IF k = l THEN "live" ELSE shareLink[k]
      /\ \A k \in ShareLink : origin'[k] = IF k = l THEN p ELSE origin[k]
      /\ l # p /\ l # from
  BY <1>1, <1>3 DEF ShareInv, ShareLinksTypeOK
<1>6. ShareLinksTypeOK'
  BY <1>1, <1>3 DEF ShareInv, ShareLinksTypeOK, Sharing
<1>7. \A q \in Managers : Busy(q)' => q # r /\ Busy(q) /\ sharing'[q] = sharing[q]
                                   /\ sharing[q].link \in ShareLink /\ sharing[q].link # l
  BY <1>3, <1>4, BusyLink DEF Busy
<1>8. OriginsStand'
  <2>1. \A k \in ShareLink : origin[k] # l \/ k = l
    BY <1>3 DEF ShareInv, OriginsStand
  <2>2. \A k \in ShareLink : /\ origin'[origin'[k]] = origin'[k]
                             /\ shareLink'[k] = "none" => origin'[k] = k
                             /\ shareLink'[k] # "none" => shareLink'[origin'[k]] # "none"
    BY <1>1, <1>5, <2>1 DEF ShareInv, OriginsStand, ShareLinksTypeOK
  <2>3. \A q \in Managers : Busy(q)' => shareLink'[sharing'[q].link] # "none"
    BY <1>5, <1>7 DEF ShareInv, OriginsStand
  <2>4. \A o \in ended' : shareLink'[o] # "none"
    BY <1>1, <1>5 DEF ShareInv, OriginsStand, ShareLinksTypeOK
  <2> QED
    BY <2>2, <2>3, <2>4 DEF OriginsStand
<1>9. SharedIsContested'
  BY <1>1, <1>5, <1>7 DEF ShareInv, SharedIsContested
<1>10. ASSUME NEW o \in ShareLink \ contested
       PROVE  OneOf(o)'
  <2>1. OneOf(o)
    BY DEF ShareInv
  <2>2. \A q \in Managers : sharing'[q].op \in {"revoke", "revokeToRefresh", "create"} => Busy(q)'
    BY DEF Busy, NotSharing
  <2>3. \A q \in Managers : RefreshOf(q, o)' <=> q # r /\ RefreshOf(q, o)
    BY <1>4, <1>5, <1>7, <2>2 DEF RefreshOf, NotSharing
  <2>4. \A q \in Managers :
          sharing'[q].op \in {"revoke", "revokeToRefresh"} /\ origin'[sharing'[q].link] = o
            => shareLink'[sharing'[q].link] = "live"
    BY <1>5, <1>7, <2>1, <2>2 DEF OneOf
  <2>5. CASE o = p
    <3>1. RefreshOf(r, o) /\ OpenLinks(o) = {} /\ o \notin ended
      BY <1>1, <2>1, <2>5 DEF RefreshOf, OneOf
    <3>2. OpenLinks(o)' = {l}
      BY <1>5, <2>5, <3>1 DEF OpenLinks
    <3>3. \A q \in Managers : ~RefreshOf(q, o)'
      BY <2>1, <2>3, <3>1 DEF OneOf
    <3> QED
      BY <1>1, <2>4, <3>1, <3>2, <3>3 DEF OneOf
  <2>6. CASE o # p
    <3>1. OpenLinks(o)' = IF o = l THEN {} ELSE OpenLinks(o)
      BY <1>3, <1>5, <2>6 DEF OpenLinks, ShareInv, OriginsStand
    <3>2. ~RefreshOf(r, o)
      BY <1>1, <2>6 DEF RefreshOf
    <3>3. o # l => origin'[o] = origin[o] /\ shareLink'[o] = shareLink[o]
      BY <1>5
    <3>4. o = l => origin'[o] # o
      BY <1>5
    <3> QED
      BY <1>1, <2>1, <2>3, <2>4, <3>1, <3>2, <3>3, <3>4 DEF OneOf
  <2> QED
    BY <2>5, <2>6
<1> QED
  BY <1>1, <1>6, <1>8, <1>9, <1>10 DEF ShareInv

LEMMA ShareRevokeKeeps ==
  ASSUME ShareInv, NEW r \in Managers, RevokeShareLink(r)
  PROVE  ShareInv'
<1> DEFINE l == sharing[r].link
           p == origin[l]
<1>1. /\ Busy(r) /\ sharing[r].op = "revoke" /\ l \in ShareLink /\ p \in ShareLink
      /\ shareLink[l] # "none" /\ shareLink[p] # "none"
      /\ shareLink' = [shareLink EXCEPT ![l] = "revoked"]
      /\ sharing' = [sharing EXCEPT ![r] = NotSharing]
      /\ ended' = ended \cup {p}
      /\ UNCHANGED <<origin, contested>>
  BY BusyLink DEF RevokeShareLink, Steps, ShareInv, OriginsStand
<1>2. /\ sharing'[r] = NotSharing
      /\ \A q \in Managers : q # r => sharing'[q] = sharing[q]
  BY <1>1 DEF ShareInv, ShareLinksTypeOK
<1>3. \A k \in ShareLink : shareLink'[k] = IF k = l THEN "revoked" ELSE shareLink[k]
  BY <1>1 DEF ShareInv, ShareLinksTypeOK
<1>4. ShareLinksTypeOK'
  BY <1>1 DEF ShareInv, ShareLinksTypeOK, Sharing
<1>5. \A q \in Managers : Busy(q)' => /\ q # r /\ Busy(q) /\ sharing'[q] = sharing[q]
                                     /\ sharing[q].link \in ShareLink
  BY <1>2, BusyLink DEF Busy
<1>6. OriginsStand'
  BY <1>1, <1>3, <1>5 DEF ShareInv, OriginsStand, ShareLinksTypeOK
<1>7. SharedIsContested'
  BY <1>1, <1>5 DEF ShareInv, SharedIsContested
<1>8. ASSUME NEW o \in ShareLink \ contested
      PROVE  OneOf(o)'
  <2>1. OneOf(o)
    BY DEF ShareInv
  <2>2. /\ o = p => OpenLinks(o)' = {} /\ o \notin ended
        /\ o # p => OpenLinks(o)' = OpenLinks(o)
    BY <1>1, RevokedOf
  <2>3. \A q \in Managers : sharing'[q].op \in {"revoke", "revokeToRefresh", "create"} => Busy(q)'
    BY DEF Busy, NotSharing
  <2>4. CASE o = p
    <3>1. \A q \in Managers : Busy(q) /\ origin[sharing[q].link] = o => q = r
      BY <1>1, <2>4, AloneOnOrigin
    <3>2. \A q \in Managers : sharing'[q].op \in {"revoke", "revokeToRefresh", "create"}
            => origin'[sharing'[q].link] # o
      BY <1>1, <1>5, <2>3, <3>1
    <3>3. \A q \in Managers : ~RefreshOf(q, o)'
      BY <3>2 DEF RefreshOf
    <3> QED
      BY <1>1, <2>2, <2>4, <3>2, <3>3 DEF OneOf
  <2>5. CASE o # p
    <3>1. \A q \in Managers : RefreshOf(q, o)' <=> RefreshOf(q, o)
      <4>1. ~RefreshOf(r, o) /\ ~RefreshOf(r, o)'
        BY <1>1, <1>2, <2>5 DEF RefreshOf, NotSharing
      <4> QED
        BY <1>1, <1>2, <4>1 DEF RefreshOf
    <3>2. ASSUME NEW q \in Managers, sharing'[q].op \in {"revoke", "revokeToRefresh"},
                 origin'[sharing'[q].link] = o
          PROVE  shareLink'[sharing'[q].link] = "live"
      <4>1. /\ sharing'[q] = sharing[q] /\ sharing[q].link \in ShareLink /\ sharing[q].link # l
        BY <1>1, <1>5, <2>3, <2>5, <3>2
      <4> QED
        BY <1>1, <1>3, <2>1, <3>2, <4>1 DEF OneOf
    <3>3. shareLink'[o] # "none" <=> shareLink[o] # "none"
      BY <1>1, <1>3
    <3>4. OpenLinks(o)' = OpenLinks(o) /\ (o \in ended' <=> o \in ended)
      BY <1>1, <2>2, <2>5
    <3> QED
      BY <1>1, <2>1, <3>1, <3>2, <3>3, <3>4 DEF OneOf
  <2> QED
    BY <2>4, <2>5
<1> QED
  BY <1>1, <1>4, <1>6, <1>7, <1>8 DEF ShareInv

LEMMA ShareFailKeeps ==
  ASSUME ShareInv, NEW r \in Managers, SharingFails(r)
  PROVE  ShareInv'
<1> DEFINE p == origin[sharing[r].link]
<1>1. /\ Busy(r) /\ p \in ShareLink /\ shareLink[p] # "none"
      /\ sharing' = [sharing EXCEPT ![r] = NotSharing]
      /\ ended' = IF sharing[r].op = "create" THEN ended \cup {p} ELSE ended
      /\ UNCHANGED <<shareLink, origin, contested>>
  BY BusyLink DEF SharingFails, Steps, Busy, ShareInv, OriginsStand
<1>2. /\ sharing'[r] = NotSharing
      /\ \A q \in Managers : q # r => sharing'[q] = sharing[q]
  BY <1>1 DEF ShareInv, ShareLinksTypeOK
<1>3. ShareLinksTypeOK'
  BY <1>1 DEF ShareInv, ShareLinksTypeOK, Sharing
<1>4. \A q \in Managers : Busy(q)' => q # r /\ Busy(q) /\ sharing'[q] = sharing[q]
  BY <1>2 DEF Busy
<1>5. OriginsStand'
  BY <1>1, <1>4 DEF ShareInv, OriginsStand
<1>6. SharedIsContested'
  BY <1>1, <1>4 DEF ShareInv, SharedIsContested
<1>7. ASSUME NEW o \in ShareLink \ contested
      PROVE  OneOf(o)'
  <2>1. OneOf(o)
    BY DEF ShareInv
  <2>2. OpenLinks(o)' = OpenLinks(o)
    BY <1>1 DEF OpenLinks
  <2>3. \A q \in Managers : RefreshOf(q, o)' <=> q # r /\ RefreshOf(q, o)
    BY <1>1, <1>2 DEF RefreshOf, NotSharing
  <2>4. \A q \in Managers :
          sharing'[q].op \in {"revoke", "revokeToRefresh"} => q # r /\ sharing'[q] = sharing[q]
    BY <1>2 DEF NotSharing
  <2>5. RefreshOf(r, o) <=> sharing[r].op = "create" /\ p = o
    BY DEF RefreshOf
  <2>6. o \in ended' <=> o \in ended \/ RefreshOf(r, o)
    BY <1>1, <2>5
  <2> QED
    BY <1>1, <2>1, <2>2, <2>3, <2>4, <2>6 DEF OneOf
<1> QED
  BY <1>1, <1>3, <1>5, <1>6, <1>7 DEF ShareInv

LEMMA ShareInvInductive ==
  ASSUME ShareInv, [ShareLinksNext]_shareVars
  PROVE  ShareInv'
<1>1. CASE UNCHANGED shareVars
  <2>1. UNCHANGED <<shareLink, sharing, origin, contested, ended>>
    BY <1>1 DEF shareVars
  <2>2. ShareLinksTypeOK' /\ OriginsStand' /\ SharedIsContested'
    BY <2>1 DEF ShareInv, ShareLinksTypeOK, OriginsStand, SharedIsContested, Busy
  <2>3. \A o \in ShareLink \ contested : OneOf(o)'
    BY <2>1 DEF ShareInv, OneOf, OpenLinks, RefreshOf
  <2> QED
    BY <2>1, <2>2, <2>3 DEF ShareInv
<1>2. CASE ShareLinksNext
  BY <1>2, ShareCreateKeeps, ShareFindKeeps, RefreshRevokesKeeps, RefreshCreatesKeeps, ShareRevokeKeeps, ShareFailKeeps
     DEF ShareLinksNext
<1> QED
  BY <1>1, <1>2

\* A request that refreshes a link knows whose link it replaces, and no second
\* open link of that origin appears unless two requests were on it at once: for
\* any number of managers and of links.  (ticket-share-links.service.ts:19-128)
THEOREM ShareInvAlways == ShareLinksSpec => []ShareInv
<1>1. ShareLinksInit => ShareInv
  <2> SUFFICES ASSUME ShareLinksInit PROVE ShareInv
    OBVIOUS
  <2>1. ShareLinksTypeOK
    BY DEF ShareLinksInit, ShareLinksTypeOK, Sharing
  <2>2. \A r \in Managers : sharing[r] = NotSharing /\ sharing[r].op = "idle"
    BY DEF ShareLinksInit, NotSharing
  <2>3. OriginsStand /\ SharedIsContested
    BY <2>2 DEF ShareLinksInit, OriginsStand, SharedIsContested, Busy
  <2>4. ASSUME NEW o \in ShareLink PROVE OneOf(o)
    <3>1. OpenLinks(o) = {} /\ shareLink[o] = "none" /\ \A r \in Managers : ~RefreshOf(r, o)
      BY <2>2 DEF ShareLinksInit, OpenLinks, RefreshOf
    <3> QED
      BY <2>2, <3>1 DEF OneOf
  <2> QED
    BY <2>1, <2>3, <2>4 DEF ShareInv
<1>2. ShareInv /\ [ShareLinksNext]_shareVars => ShareInv'
  BY ShareInvInductive
<1> QED
  BY <1>1, <1>2, PTL DEF ShareLinksSpec

\* However the two statements of a refresh, creations and revocations interleave
\* or fail in between, an origin nobody refreshed twice at once has one open link
\* at most.  (ticket-share-links.service.ts:77-109)
THEOREM OneOpenLinkAlways == ShareLinksSpec => []OneOpenLink
<1>1. ASSUME ShareInv PROVE OneOpenLink
  <2> SUFFICES ASSUME NEW l \in ShareLink \ contested, shareLink[l] # "none", origin[l] = l
               PROVE  Cardinality(OpenLinks(l)) =
                        IF (\E r \in Managers : RefreshOf(r, l)) \/ l \in ended THEN 0 ELSE 1
    BY DEF OneOpenLink, OpenLinks, RefreshOf
  <2>1. OneOf(l)
    BY <1>1 DEF ShareInv
  <2>2. CASE (\E r \in Managers : RefreshOf(r, l)) \/ l \in ended
    BY <2>1, <2>2, FS_EmptySet DEF OneOf
  <2>3. CASE ~((\E r \in Managers : RefreshOf(r, l)) \/ l \in ended)
    <3>1. PICK k \in OpenLinks(l) : TRUE
      BY <2>1, <2>3 DEF OneOf
    <3>2. OpenLinks(l) = {k}
      BY <2>1, <3>1 DEF OneOf
    <3> QED
      BY <2>3, <3>2, FS_Singleton
  <2> QED
    BY <2>2, <2>3
<1> QED
  BY <1>1, ShareInvAlways, PTL

-----------------------------------------------------------------------------
(* TicketLists: the statements an update of a ticket has still to write.   *)
\* Who is in a list without a reason of their own.
Unreasoned(k) == listed[k] \ (onOwn[k] \cup leftIn[k])

\* Statements of a change from old to new: they drop old and add new.
Speaks(rest, old, new) ==
  /\ rest \in Seq(Statement)
  /\ \A n \in DOMAIN rest : /\ rest[n].do = "drop" => rest[n].user = old
                            /\ rest[n].do = "add" => rest[n].user = new

Drops(rest, k) == \E n \in DOMAIN rest : rest[n].do = "drop" /\ rest[n].list = k

\* A request that had no company found the assignee there is, and until it has
\* dropped them from a list it has a statement left that does.
AloneDrops ==
  \A r \in Pending : changing[r].alone =>
    /\ \A q \in Pending : q = r
    /\ assignee = changing[r].old
    /\ \A k \in Lists :
         changing[r].old # changing[r].new /\ changing[r].old \in Unreasoned(k)
           => Drops(changing[r].rest, k)

PendingSpeak ==
  \A r \in Pending : Speaks(changing[r].rest, changing[r].old, changing[r].new)

ListInv == TicketListsTypeOK /\ PendingSpeak /\ AloneDrops /\ ListedForAReason

LEMMA KindsAreLists ==
  /\ Kinds \in Seq(Lists)
  /\ \A k \in Lists : \E n \in DOMAIN Kinds : Kinds[n] = k
<1>1. CASE "notify" \in Lists /\ "email" \in Lists
  <2>1. Kinds = <<"notify">> \o <<"email">>
    BY <1>1 DEF Kinds
  <2> QED
    BY <1>1, <2>1, ListsAssumption
<1>2. CASE "notify" \in Lists /\ "email" \notin Lists
  <2>1. Kinds = <<"notify">>
    BY <1>2 DEF Kinds
  <2> QED
    BY <1>2, <2>1, ListsAssumption
<1>3. CASE "notify" \notin Lists /\ "email" \in Lists
  <2>1. Kinds = <<"email">>
    BY <1>3 DEF Kinds
  <2> QED
    BY <1>3, <2>1, ListsAssumption
<1>4. CASE "notify" \notin Lists /\ "email" \notin Lists
  <2>1. Kinds = << >>
    BY <1>4 DEF Kinds
  <2> QED
    BY <1>4, <2>1, ListsAssumption
<1> QED
  BY <1>1, <1>2, <1>3, <1>4

LEMMA EachStatement ==
  ASSUME NEW what \in {"drop", "keep", "add", "fill"}, NEW u \in People \cup {Nobody}
  PROVE  /\ Each(what, u) \in Seq(Statement)
         /\ \A n \in DOMAIN Each(what, u) : Each(what, u)[n].do = what /\ Each(what, u)[n].user = u
<1>1. /\ Len(Kinds) \in Nat /\ DOMAIN Kinds = 1..Len(Kinds)
      /\ \A n \in 1..Len(Kinds) : Kinds[n] \in Lists
  BY KindsAreLists
<1>2. \A n \in 1..Len(Kinds) : [do |-> what, list |-> Kinds[n], user |-> u] \in Statement
  BY <1>1 DEF Statement
<1>3. Each(what, u) = [n \in 1..Len(Kinds) |-> [do |-> what, list |-> Kinds[n], user |-> u]]
  BY <1>1 DEF Each
<1>4. Each(what, u) \in Seq(Statement)
  BY <1>1, <1>2, <1>3
<1> QED
  BY <1>1, <1>3, <1>4

LEMMA EachList ==
  ASSUME NEW what, NEW u, NEW k \in Lists
  PROVE  \E n \in DOMAIN Each(what, u) : Each(what, u)[n].list = k
<1>1. PICK n \in DOMAIN Kinds : Kinds[n] = k
  BY KindsAreLists
<1> QED
  BY <1>1 DEF Each

LEMMA BothSpeak ==
  ASSUME NEW s, NEW t, NEW old, NEW new, Speaks(s, old, new), Speaks(t, old, new)
  PROVE  /\ Speaks(s \o t, old, new)
         /\ \A k : Drops(s, k) => Drops(s \o t, k)
<1>1. /\ s \in Seq(Statement) /\ t \in Seq(Statement) /\ s \o t \in Seq(Statement)
      /\ Len(s \o t) = Len(s) + Len(t)
      /\ \A i \in 1..(Len(s) + Len(t)) : (s \o t)[i] = IF i <= Len(s) THEN s[i] ELSE t[i - Len(s)]
      /\ Len(s) \in Nat /\ Len(t) \in Nat
      /\ DOMAIN s = 1..Len(s) /\ DOMAIN t = 1..Len(t) /\ DOMAIN (s \o t) = 1..(Len(s) + Len(t))
  BY ConcatProperties, LenProperties DEF Speaks
<1>2. ASSUME NEW n \in DOMAIN (s \o t)
      PROVE  (\E i \in DOMAIN s : (s \o t)[n] = s[i]) \/ (\E i \in DOMAIN t : (s \o t)[n] = t[i])
  <2>1. CASE n <= Len(s)
    BY <1>1, <2>1
  <2>2. CASE ~(n <= Len(s))
    <3>1. n - Len(s) \in DOMAIN t /\ (s \o t)[n] = t[n - Len(s)]
      BY <1>1, <2>2
    <3> QED
      BY <3>1
  <2> QED
    BY <2>1, <2>2
<1>3. \A i \in DOMAIN s : i \in DOMAIN (s \o t) /\ (s \o t)[i] = s[i]
  BY <1>1
<1> QED
  BY <1>1, <1>2, <1>3 DEF Speaks, Drops

LEMMA PlanSpeaks ==
  ASSUME NEW old \in People \cup {Nobody}, NEW new \in People \cup {Nobody}
  PROVE  /\ Speaks(Plan(old, new), old, new)
         /\ old # Nobody /\ new # old => \A k \in Lists : Drops(Plan(old, new), k)
<1>1. /\ Speaks(Each("drop", old), old, new) /\ Speaks(Each("keep", old), old, new)
      /\ Speaks(Each("add", new), old, new) /\ Speaks(Each("fill", Nobody), old, new)
  BY EachStatement DEF Speaks
<1>2. \A k \in Lists : Drops(Each("drop", old), k)
  <2> SUFFICES ASSUME NEW k \in Lists
               PROVE  Drops(Each("drop", old), k)
    OBVIOUS
  <2>1. "drop" \in {"drop", "keep", "add", "fill"}
    OBVIOUS
  <2>2. \A n \in DOMAIN Each("drop", old) : Each("drop", old)[n].do = "drop"
    BY <2>1, EachStatement
  <2>3. \E n \in DOMAIN Each("drop", old) : Each("drop", old)[n].list = k
    BY EachList
  <2> QED
    BY <2>2, <2>3 DEF Drops
<1>3. CASE new = Nobody /\ new # old
  <2>1. Plan(old, new) = Each("drop", old) \o Each("fill", Nobody)
    BY <1>3 DEF Plan
  <2>2. Speaks(Plan(old, new), old, new)
    BY <1>1, <2>1, BothSpeak
  <2>3. \A k \in Lists : Drops(Plan(old, new), k)
    BY <1>1, <1>2, <2>1, BothSpeak
  <2> QED
    BY <2>2, <2>3
<1>4. CASE new # Nobody /\ old = Nobody /\ new # old
  BY <1>1, <1>4 DEF Plan
<1>5. CASE new # Nobody /\ old # Nobody /\ new # old
  <2> DEFINE first == Each("drop", old) \o Each("keep", old)
  <2>1. Plan(old, new) = first \o Each("add", new)
    BY <1>5 DEF Plan
  <2>2. Speaks(first, old, new) /\ \A k \in Lists : Drops(first, k)
    BY <1>1, <1>2, BothSpeak
  <2> HIDE DEF first
  <2>3. Speaks(Plan(old, new), old, new)
    BY <1>1, <2>1, <2>2, BothSpeak
  <2>4. \A k \in Lists : Drops(Plan(old, new), k)
    BY <1>1, <2>1, <2>2, BothSpeak
  <2> QED
    BY <2>3, <2>4
<1>6. CASE new = old
  BY <1>6, EmptySeq DEF Plan, Speaks
<1> QED
  BY <1>3, <1>4, <1>5, <1>6

\* What a statement leaves of those after it.
LEMMA TailSpeaks ==
  ASSUME NEW rest, NEW old, NEW new, Speaks(rest, old, new), rest # << >>
  PROVE  /\ Speaks(Tail(rest), old, new) /\ Head(rest) \in Statement
         /\ Head(rest).do = "drop" => Head(rest).user = old
         /\ Head(rest).do = "add" => Head(rest).user = new
         /\ \A k : Drops(rest, k) =>
              Drops(Tail(rest), k) \/ (Head(rest).do = "drop" /\ Head(rest).list = k)
<1>1. /\ rest \in Seq(Statement) /\ Tail(rest) \in Seq(Statement) /\ Head(rest) \in Statement
      /\ Len(rest) \in Nat \ {0} /\ DOMAIN rest = 1..Len(rest)
      /\ Len(Tail(rest)) = Len(rest) - 1 /\ DOMAIN Tail(rest) = 1..(Len(rest) - 1)
      /\ \A i \in 1..(Len(rest) - 1) : Tail(rest)[i] = rest[i + 1]
      /\ Head(rest) = rest[1]
  BY HeadTailProperties, LenProperties, EmptySeq DEF Speaks
<1>2. \A i \in DOMAIN Tail(rest) : i + 1 \in DOMAIN rest /\ Tail(rest)[i] = rest[i + 1]
  BY <1>1
<1>3. \A i \in DOMAIN rest : i = 1 \/ (i - 1 \in DOMAIN Tail(rest) /\ Tail(rest)[i - 1] = rest[i])
  BY <1>1
<1>4. 1 \in DOMAIN rest
  BY <1>1
<1>5. Speaks(Tail(rest), old, new)
  BY <1>1, <1>2 DEF Speaks
<1>6. /\ Head(rest).do = "drop" => Head(rest).user = old
      /\ Head(rest).do = "add" => Head(rest).user = new
  BY <1>1, <1>4 DEF Speaks
<1>7. ASSUME NEW k, Drops(rest, k)
      PROVE  Drops(Tail(rest), k) \/ (Head(rest).do = "drop" /\ Head(rest).list = k)
  <2>1. PICK i \in DOMAIN rest : rest[i].do = "drop" /\ rest[i].list = k
    BY <1>7 DEF Drops
  <2> QED
    BY <1>1, <1>3, <2>1 DEF Drops
<1> QED
  BY <1>1, <1>5, <1>6, <1>7

\* A pending request, by its fields.
LEMMA PendingRecord ==
  ASSUME ListInv, NEW r \in Pending
  PROVE  /\ r \in Changers /\ changing[r].op \in {"write", "fill"}
         /\ changing[r].rest \in Seq(Statement) /\ changing[r].saw \subseteq People
         /\ changing[r].old \in People \cup {Nobody} /\ changing[r].new \in People \cup {Nobody, Unset}
         /\ changing[r].alone \in BOOLEAN
         /\ changing[r] \in [op : {"write", "fill"}, rest : Seq(Statement), saw : SUBSET People,
              old : People \cup {Nobody}, new : People \cup {Nobody, Unset}, alone : BOOLEAN]
<1>1. changing[r] \in Changing /\ changing[r] # NotChanging /\ r \in Changers
  BY DEF ListInv, TicketListsTypeOK, Pending
<1>2. changing[r] \in [op : {"write", "fill"}, rest : Seq(Statement), saw : SUBSET People,
        old : People \cup {Nobody}, new : People \cup {Nobody, Unset}, alone : BOOLEAN]
  BY <1>1 DEF Changing
<1> QED
  BY <1>1, <1>2

\* A request starts with the statements of its change.
LEMMA ListStartsKeeps ==
  ASSUME ListInv, NEW r \in Changers, changing[r] = NotChanging,
         NEW old \in People \cup {Nobody}, NEW new \in People \cup {Nobody, Unset},
         NEW rest, Speaks(rest, old, new), Starts(r, old, new, rest),
         assignee' = old, assignee' # assignee => assignee = NoTicket,
         old # new /\ old # Nobody => \A k \in Lists : Drops(rest, k),
         UNCHANGED <<wants, staff, listed, onOwn, leftIn>>
  PROVE  ListInv'
<1> DEFINE fresh == [op |-> "write", rest |-> rest, saw |-> {}, old |-> old, new |-> new,
                     alone |-> Pending = {}]
<1>1. \A q \in Changers : changing'[q] =
        IF q = r THEN fresh
        ELSE IF q \in Pending THEN [changing[q] EXCEPT !.alone = FALSE]
        ELSE NotChanging
  BY DEF Starts
<1>2. /\ changing'[r] = fresh /\ fresh # NotChanging /\ r \notin Pending
  BY <1>1 DEF NotChanging, Pending
<1>3. ASSUME NEW q \in Pending
      PROVE  /\ changing'[q] # NotChanging
             /\ changing'[q].rest = changing[q].rest /\ changing'[q].old = changing[q].old
             /\ changing'[q].new = changing[q].new /\ changing'[q].alone = FALSE
             /\ changing'[q] \in Changing
  <2>1. q # r /\ q \in Changers /\ changing'[q] = [changing[q] EXCEPT !.alone = FALSE]
    BY <1>1, <1>2, PendingRecord
  <2>2. changing'[q] \in [op : {"write", "fill"}, rest : Seq(Statement), saw : SUBSET People,
                          old : People \cup {Nobody}, new : People \cup {Nobody, Unset}, alone : BOOLEAN]
    BY <2>1, PendingRecord
  <2>3. changing'[q] \in Changing
    BY <2>2 DEF Changing
  <2>4. changing'[q] # NotChanging
    BY <2>2 DEF NotChanging
  <2> QED
    BY <2>1, <2>3, <2>4, PendingRecord
<1>4. Pending' = Pending \cup {r}
  <2>1. \A q \in Changers : changing'[q] # NotChanging <=> q \in Pending \/ q = r
    BY <1>1, <1>2, <1>3
  <2>2. Pending \subseteq Changers /\ Pending' = {q \in Changers : changing'[q] # NotChanging}
    BY DEF Pending
  <2> QED
    BY <2>1, <2>2
<1>5. fresh \in Changing
  <2>1. fresh \in [op : {"write", "fill"}, rest : Seq(Statement), saw : SUBSET People,
                   old : People \cup {Nobody}, new : People \cup {Nobody, Unset}, alone : BOOLEAN]
    BY DEF Speaks
  <2> QED
    BY <2>1 DEF Changing
<1>6. TicketListsTypeOK'
  <2>1. changing' \in [Changers -> Changing]
    <3>1. \A q \in Changers : changing'[q] \in Changing
      BY <1>1, <1>3, <1>5 DEF Changing
    <3> QED
      BY <3>1 DEF Starts
  <2> QED
    BY <2>1 DEF ListInv, TicketListsTypeOK
<1>7. /\ changing'[r].rest = rest /\ changing'[r].old = old /\ changing'[r].new = new
      /\ changing'[r].alone = (Pending = {})
  <2>1. fresh.rest = rest /\ fresh.old = old /\ fresh.new = new
    OBVIOUS
  <2>2. fresh.alone = (Pending = {})
    BY Zenon
  <2> QED
    BY <1>2, <2>1, <2>2, Zenon
<1>8. PendingSpeak'
  <2>1. \A q \in Pending : Speaks(changing'[q].rest, changing'[q].old, changing'[q].new)
    BY <1>3 DEF ListInv, PendingSpeak
  <2>2. Speaks(changing'[r].rest, changing'[r].old, changing'[r].new)
    BY <1>7
  <2>3. \A q \in Pending \cup {r} : Speaks(changing'[q].rest, changing'[q].old, changing'[q].new)
    BY <2>1, <2>2
  <2> QED
    BY <1>4, <2>3 DEF PendingSpeak, Speaks
<1>9. AloneDrops'
  <2>1. \A k \in Lists : Unreasoned(k)' = Unreasoned(k) /\ Nobody \notin Unreasoned(k)
    BY PeopleAssumption DEF Unreasoned, ListInv, TicketListsTypeOK
  <2>2. \A k \in Lists : old # new /\ old \in Unreasoned(k) => Drops(rest, k)
    BY <2>1
  <2>3. Pending = {} => Pending' = {r}
    BY <1>4
  <2>4. \A k \in Lists : changing'[r].old # changing'[r].new /\ changing'[r].old \in Unreasoned(k)'
          => Drops(changing'[r].rest, k)
    BY <1>7, <2>1, <2>2
  <2>5. \A q \in Pending' : changing'[q].alone => q = r /\ Pending = {}
    BY <1>3, <1>4, <1>7
  <2>6. changing'[r].old = assignee'
    BY <1>7
  <2> QED
    BY <2>3, <2>4, <2>5, <2>6 DEF AloneDrops, Drops
<1>10. ListedForAReason'
  <2>1. \A k \in Lists : \A u \in Unreasoned(k) : u = assignee \/ \E q \in Pending : changing[q].new = u
    BY DEF ListInv, ListedForAReason, Unreasoned
  <2>2. \A k \in Lists : \A u \in Unreasoned(k) : u # NoTicket
    BY PeopleAssumption DEF Unreasoned, ListInv, TicketListsTypeOK
  <2>3. \A k \in Lists : \A u \in Unreasoned(k) : u = assignee' \/ \E q \in Pending' : changing'[q].new = u
    <3> SUFFICES ASSUME NEW k \in Lists, NEW u \in Unreasoned(k), u # assignee'
                 PROVE  \E q \in Pending' : changing'[q].new = u
      OBVIOUS
    <3>1. u # assignee
      BY <2>2
    <3>2. PICK q \in Pending : changing[q].new = u
      BY <2>1, <3>1
    <3> QED
      BY <1>3, <1>4, <3>2
  <2> QED
    BY <2>3 DEF ListedForAReason, Unreasoned
<1> QED
  BY <1>6, <1>8, <1>9, <1>10 DEF ListInv

LEMMA ListReadMembersKeeps ==
  ASSUME ListInv, NEW r \in Changers, ReadMembers(r)
  PROVE  ListInv'
<1>1. /\ r \in Pending
      /\ changing' = [changing EXCEPT ![r] = [changing[r] EXCEPT !.op = "fill", !.saw = staff]]
      /\ UNCHANGED <<wants, staff, assignee, listed, onOwn, leftIn>>
  BY DEF ReadMembers, Goes
<1>2. changing'[r] = [changing[r] EXCEPT !.op = "fill", !.saw = staff]
  BY <1>1 DEF ListInv, TicketListsTypeOK
<1>3. \A q \in Changers : q # r => changing'[q] = changing[q]
  BY <1>1 DEF ListInv, TicketListsTypeOK
<1>4. /\ changing'[r].rest = changing[r].rest /\ changing'[r].old = changing[r].old
      /\ changing'[r].new = changing[r].new /\ changing'[r].alone = changing[r].alone
  BY <1>1, <1>2, PendingRecord
<1>5. changing'[r] \in [op : {"write", "fill"}, rest : Seq(Statement), saw : SUBSET People,
        old : People \cup {Nobody}, new : People \cup {Nobody, Unset}, alone : BOOLEAN]
  BY <1>1, <1>2, PendingRecord DEF ListInv, TicketListsTypeOK
<1>6. changing'[r] \in Changing /\ changing'[r] # NotChanging
  BY <1>5 DEF Changing, NotChanging
<1>7. Pending' = Pending
  BY <1>1, <1>3, <1>6 DEF Pending
<1>8. TicketListsTypeOK'
  BY <1>1, <1>2, <1>6 DEF ListInv, TicketListsTypeOK
<1>9. \A q \in Pending : /\ changing'[q].rest = changing[q].rest /\ changing'[q].old = changing[q].old
                        /\ changing'[q].new = changing[q].new /\ changing'[q].alone = changing[q].alone
  BY <1>3, <1>4 DEF Pending
<1>10. PendingSpeak'
  BY <1>7, <1>9 DEF ListInv, PendingSpeak, Speaks
<1>11. AloneDrops'
  BY <1>1, <1>7, <1>9 DEF ListInv, AloneDrops, Unreasoned, Drops
<1>12. ListedForAReason'
  BY <1>1, <1>7, <1>9 DEF ListInv, ListedForAReason
<1> QED
  BY <1>8, <1>10, <1>11, <1>12 DEF ListInv

\* One statement.
LEMMA ListStatementKeeps ==
  ASSUME ListInv, NEW r \in Changers, NextStatement(r)
  PROVE  ListInv'
<1> DEFINE c == changing[r]
           s == Head(c.rest)
           own == (onOwn[s.list] \ Dropped(s)) \cup ByPreference(s, c.saw)
           to == (listed[s.list] \ Dropped(s)) \cup own \cup Added(s)
           left == leftIn[s.list] \ Dropped(s)
<1>1. /\ r \in Pending /\ c.rest # << >>
      /\ onOwn' = [onOwn EXCEPT ![s.list] = own]
      /\ leftIn' = [leftIn EXCEPT ![s.list] = left]
      /\ listed' = [listed EXCEPT ![s.list] = to]
      /\ changing' = [changing EXCEPT ![r] = [c EXCEPT !.rest = Tail(c.rest)]]
      /\ UNCHANGED <<wants, staff, assignee>>
  BY DEF NextStatement, Goes
<1>2. /\ Speaks(c.rest, c.old, c.new)
      /\ c.old \in People \cup {Nobody} /\ c.new \in People \cup {Nobody, Unset} /\ c.saw \subseteq People
  BY <1>1, PendingRecord DEF ListInv, PendingSpeak
<1>2a. /\ Speaks(Tail(c.rest), c.old, c.new) /\ Head(c.rest) \in Statement
       /\ Head(c.rest).do = "drop" => Head(c.rest).user = c.old
       /\ Head(c.rest).do = "add" => Head(c.rest).user = c.new
       /\ \A k : Drops(c.rest, k) =>
            Drops(Tail(c.rest), k) \/ (Head(c.rest).do = "drop" /\ Head(c.rest).list = k)
  <2> HIDE DEF c
  <2> QED
    BY <1>1, <1>2, TailSpeaks
<1>3. /\ Speaks(Tail(c.rest), c.old, c.new) /\ s \in Statement
      /\ s.do = "drop" => s.user = c.old
      /\ s.do = "add" => s.user = c.new
      /\ \A k : Drops(c.rest, k) => Drops(Tail(c.rest), k) \/ (s.do = "drop" /\ s.list = k)
  BY <1>2a
<1>4. s.list \in Lists
  BY <1>3 DEF Statement
<1>5. changing'[r] = [c EXCEPT !.rest = Tail(c.rest)]
  BY <1>1 DEF ListInv, TicketListsTypeOK
<1>6. \A q \in Changers : q # r => changing'[q] = changing[q]
  BY <1>1 DEF ListInv, TicketListsTypeOK
<1>7. /\ changing'[r].rest = Tail(c.rest) /\ changing'[r].old = c.old
      /\ changing'[r].new = c.new /\ changing'[r].alone = c.alone
  BY <1>1, <1>5, PendingRecord
<1>8. changing'[r] \in [op : {"write", "fill"}, rest : Seq(Statement), saw : SUBSET People,
        old : People \cup {Nobody}, new : People \cup {Nobody, Unset}, alone : BOOLEAN]
  <2>1. Tail(c.rest) \in Seq(Statement)
    BY <1>3 DEF Speaks
  <2>2. c \in [op : {"write", "fill"}, rest : Seq(Statement), saw : SUBSET People,
              old : People \cup {Nobody}, new : People \cup {Nobody, Unset}, alone : BOOLEAN]
    BY <1>1, PendingRecord
  <2> HIDE DEF c, s
  <2> QED
    BY <1>5, <2>1, <2>2
<1>9. changing'[r] \in Changing /\ changing'[r] # NotChanging
  BY <1>8 DEF Changing, NotChanging
<1>10. Pending' = Pending
  BY <1>1, <1>6, <1>9 DEF Pending
<1>11. /\ own \subseteq People /\ to \subseteq People /\ left \subseteq People
       /\ own \subseteq to /\ left \subseteq to
  <2>1. ByPreference(s, c.saw) \subseteq People /\ Added(s) \subseteq People
    BY DEF ByPreference, Added, Wants
  <2>2. /\ onOwn[s.list] \subseteq listed[s.list] /\ leftIn[s.list] \subseteq listed[s.list]
        /\ listed[s.list] \subseteq People
    BY <1>4 DEF ListInv, TicketListsTypeOK
  <2> QED
    BY <2>1, <2>2
<1>12. TicketListsTypeOK'
  <2> HIDE DEF own, to, left
  <2>1. onOwn' \in [Lists -> SUBSET People] /\ leftIn' \in [Lists -> SUBSET People]
        /\ listed' \in [Lists -> SUBSET People]
    BY <1>1, <1>4, <1>11 DEF ListInv, TicketListsTypeOK
  <2>2. \A k \in Lists : onOwn'[k] \subseteq listed'[k] /\ leftIn'[k] \subseteq listed'[k]
    BY <1>1, <1>4, <1>11 DEF ListInv, TicketListsTypeOK
  <2>3. changing' \in [Changers -> Changing]
    BY <1>1, <1>5, <1>9 DEF ListInv, TicketListsTypeOK
  <2> QED
    BY <1>1, <2>1, <2>2, <2>3 DEF ListInv, TicketListsTypeOK
<1>13. PendingSpeak'
  <2>1. \A q \in Pending : q # r =>
          /\ Speaks(changing[q].rest, changing[q].old, changing[q].new)
          /\ changing'[q] = changing[q]
    BY <1>6 DEF ListInv, PendingSpeak, Pending
  <2>2. \A q \in Pending : Speaks(changing'[q].rest, changing'[q].old, changing'[q].new)
    BY <1>3, <1>7, <2>1
  <2> QED
    BY <1>10, <2>2 DEF PendingSpeak, Speaks
\* Only the list of the statement changes, and who is new in it has the request's reason.
<1>14. \A k \in Lists : \A u \in Unreasoned(k)' :
         \/ (u \in Unreasoned(k) /\ ~(k = s.list /\ s.do = "drop" /\ u = c.old))
         \/ (s.do = "add" /\ u = c.new)
  <2> SUFFICES ASSUME NEW k \in Lists, NEW u \in Unreasoned(k)'
               PROVE  \/ (u \in Unreasoned(k) /\ ~(k = s.list /\ s.do = "drop" /\ u = c.old))
                      \/ (s.do = "add" /\ u = c.new)
    OBVIOUS
  <2>1. CASE k # s.list
    BY <1>1, <2>1 DEF ListInv, TicketListsTypeOK, Unreasoned
  <2>2. CASE k = s.list
    <3>1. onOwn'[k] = own /\ leftIn'[k] = left /\ listed'[k] = to
      BY <1>1, <2>2 DEF ListInv, TicketListsTypeOK
    <3>2. u \in to \ (own \cup left)
      BY <3>1 DEF Unreasoned
    <3> QED
      BY <1>3, <2>2, <3>2 DEF Unreasoned, Dropped, Added
  <2> QED
    BY <2>1, <2>2
<1> HIDE DEF c, s
<1>15. AloneDrops'
  <2> SUFFICES ASSUME NEW q \in Pending, changing'[q].alone
               PROVE  /\ \A p \in Pending : p = q
                      /\ assignee = changing'[q].old
                      /\ \A k \in Lists :
                           changing'[q].old # changing'[q].new /\ changing'[q].old \in Unreasoned(k)'
                             => Drops(changing'[q].rest, k)
    BY <1>1, <1>10 DEF AloneDrops, Drops
  <2>1. changing[q].alone
    BY <1>6, <1>7 DEF c, Pending
  <2>2. \A p \in Pending : p = q
    BY <2>1 DEF ListInv, AloneDrops
  <2>3. q = r
    BY <1>1, <2>2
  <2>4. assignee = c.old
    BY <2>1, <2>3 DEF ListInv, AloneDrops, c
  <2>5. ASSUME NEW k \in Lists, c.old # c.new, c.old \in Unreasoned(k)'
        PROVE  Drops(Tail(c.rest), k)
    <3>1. c.old \in Unreasoned(k) /\ ~(s.do = "drop" /\ s.list = k)
      BY <1>14, <2>5
    <3>2. Drops(c.rest, k)
      BY <2>1, <2>3, <2>5, <3>1 DEF ListInv, AloneDrops, c
    <3> QED
      BY <1>3, <3>1, <3>2
  <2> QED
    BY <1>7, <2>2, <2>3, <2>4, <2>5
<1>16. ListedForAReason'
  <2> SUFFICES ASSUME NEW k \in Lists, NEW u \in Unreasoned(k)'
               PROVE  u = assignee \/ \E q \in Pending : changing'[q].new = u
    BY <1>1, <1>10 DEF ListedForAReason, Unreasoned
  <2>1. \A q \in Pending : changing'[q].new = changing[q].new
    BY <1>6, <1>7 DEF Pending, c
  <2>2. CASE u \in Unreasoned(k)
    BY <2>1, <2>2 DEF ListInv, ListedForAReason, Unreasoned
  <2>3. CASE u \notin Unreasoned(k)
    BY <1>1, <1>7, <1>14, <2>3
  <2> QED
    BY <2>2, <2>3
<1> QED
  BY <1>12, <1>13, <1>15, <1>16 DEF ListInv

\* A request is over: its reason is gone, and so are its statements.
LEMMA ListOverKeeps ==
  ASSUME ListInv, NEW r \in Pending,
         changing' = [changing EXCEPT ![r] = NotChanging],
         UNCHANGED <<wants, staff, listed, onOwn>>,
         leftIn' \in [Lists -> SUBSET People],
         \A k \in Lists : leftIn[k] \subseteq leftIn'[k] /\ leftIn'[k] \subseteq listed[k],
         assignee' \in People \cup {Nobody, NoTicket},
         \A k \in Lists : \A u \in Unreasoned(k)' :
           (u = assignee /\ u \in Unreasoned(k)) \/ u = changing[r].new => u = assignee'
  PROVE  ListInv'
<1>1. r \in Changers /\ changing'[r] = NotChanging
  BY DEF ListInv, TicketListsTypeOK, Pending
<1>2. \A q \in Changers : q # r => changing'[q] = changing[q]
  BY DEF ListInv, TicketListsTypeOK
<1>3. Pending' = Pending \ {r}
  BY <1>1, <1>2 DEF Pending
<1>4. \A q \in Pending' : q \in Pending /\ q # r /\ changing'[q] = changing[q]
  BY <1>2, <1>3 DEF Pending
<1>5. TicketListsTypeOK'
  <2>1. changing' \in [Changers -> Changing]
    BY <1>1 DEF ListInv, TicketListsTypeOK, Changing
  <2> QED
    BY <2>1 DEF ListInv, TicketListsTypeOK
<1>6. PendingSpeak'
  BY <1>4 DEF ListInv, PendingSpeak, Speaks
<1>7. AloneDrops'
  <2>1. \A q \in Pending' : ~changing'[q].alone
    BY <1>4 DEF ListInv, AloneDrops
  <2> QED
    BY <2>1 DEF AloneDrops
<1>8. ListedForAReason'
  <2> SUFFICES ASSUME NEW k \in Lists, NEW u \in Unreasoned(k)'
               PROVE  u = assignee' \/ \E q \in Pending' : changing'[q].new = u
    BY DEF ListedForAReason, Unreasoned
  <2>1. u \in Unreasoned(k)
    BY DEF Unreasoned
  <2>2. u = assignee \/ \E q \in Pending : changing[q].new = u
    BY <2>1 DEF ListInv, ListedForAReason, Unreasoned
  <2>3. CASE u = assignee \/ u = changing[r].new
    BY <2>1, <2>3
  <2>4. CASE \E q \in Pending \ {r} : changing[q].new = u
    BY <1>2, <1>3, <2>4 DEF Pending
  <2> QED
    BY <2>2, <2>3, <2>4
<1> QED
  BY <1>5, <1>6, <1>7, <1>8 DEF ListInv

\* Whom an assignment strands is in the history.
LEMMA ListStranded ==
  ASSUME ListInv, NEW v, Strands(v), UNCHANGED <<listed, onOwn>>
  PROVE  /\ leftIn' \in [Lists -> SUBSET People]
         /\ \A k \in Lists : leftIn[k] \subseteq leftIn'[k] /\ leftIn'[k] \subseteq listed[k]
         /\ \A k \in Lists : v \notin Unreasoned(k)'
  BY DEF ListInv, TicketListsTypeOK, Strands, Unreasoned

LEMMA ListWriteKeeps ==
  ASSUME ListInv, NEW r \in Changers, UpdateTicketWrite(r)
  PROVE  ListInv'
<1> DEFINE c == changing[r]
<1>1. /\ r \in Pending /\ c.rest = << >>
      /\ assignee' = IF c.new = Unset THEN assignee ELSE c.new
      /\ IF c.alone \/ c.new \in {assignee, Unset} THEN UNCHANGED leftIn ELSE Strands(assignee)
      /\ changing' = [changing EXCEPT ![r] = NotChanging]
      /\ UNCHANGED <<wants, staff, listed, onOwn>>
  BY DEF UpdateTicketWrite, Goes
<1>2. c.new \in People \cup {Nobody, Unset}
  BY <1>1, PendingRecord
<1>3. assignee' \in People \cup {Nobody, NoTicket}
  BY <1>1, <1>2 DEF ListInv, TicketListsTypeOK
<1>4. /\ leftIn' \in [Lists -> SUBSET People]
      /\ \A k \in Lists : leftIn[k] \subseteq leftIn'[k] /\ leftIn'[k] \subseteq listed[k]
  <2>1. CASE c.alone \/ c.new \in {assignee, Unset}
    BY <1>1, <2>1 DEF ListInv, TicketListsTypeOK
  <2>2. CASE ~(c.alone \/ c.new \in {assignee, Unset})
    BY <1>1, <2>2, ListStranded
  <2> QED
    BY <2>1, <2>2
<1>5. ASSUME NEW k \in Lists, NEW u \in Unreasoned(k)',
             (u = assignee /\ u \in Unreasoned(k)) \/ u = c.new
      PROVE  u = assignee'
  <2>1. u \in People
    BY <1>1 DEF Unreasoned, ListInv, TicketListsTypeOK
  <2>2. CASE c.new = Unset
    BY <1>1, <1>5, <2>1, <2>2, PeopleAssumption
  <2>3. CASE c.new # Unset /\ c.new = assignee
    BY <1>1, <1>5, <2>3
  <2>4. CASE c.new \notin {assignee, Unset} /\ ~c.alone
    BY <1>1, <1>5, <2>4, ListStranded
  <2>5. CASE c.new \notin {assignee, Unset} /\ c.alone
    <3>1. assignee = c.old /\ (c.old \in Unreasoned(k) => Drops(c.rest, k))
      BY <1>1, <2>5 DEF ListInv, AloneDrops
    <3>2. ~Drops(c.rest, k)
      BY <1>1 DEF Drops
    <3> QED
      BY <1>1, <1>5, <2>5, <3>1, <3>2
  <2> QED
    BY <2>2, <2>3, <2>4, <2>5
<1> QED
  BY <1>1, <1>3, <1>4, <1>5, ListOverKeeps

LEMMA ListEndsKeeps ==
  ASSUME ListInv, NEW r \in Changers, RequestEnds(r)
  PROVE  ListInv'
<1>1. /\ r \in Pending /\ Strands(changing[r].new)
      /\ changing' = [changing EXCEPT ![r] = NotChanging]
      /\ UNCHANGED <<wants, staff, assignee, listed, onOwn>>
  BY DEF RequestEnds, Goes
<1>2. /\ leftIn' \in [Lists -> SUBSET People]
      /\ \A k \in Lists : leftIn[k] \subseteq leftIn'[k] /\ leftIn'[k] \subseteq listed[k]
      /\ \A k \in Lists : changing[r].new \notin Unreasoned(k)'
  BY <1>1, ListStranded
<1> QED
  BY <1>1, <1>2, ListOverKeeps DEF ListInv, TicketListsTypeOK

\* What users do themselves, and members who come and go.
LEMMA ListOthersKeep ==
  ASSUME ListInv, UNCHANGED <<wants, assignee, changing>>,
         staff' \subseteq People,
         listed' \in [Lists -> SUBSET People],
         onOwn' \in [Lists -> SUBSET People], leftIn' \in [Lists -> SUBSET People],
         \A k \in Lists : /\ onOwn'[k] \subseteq listed'[k] /\ leftIn'[k] \subseteq listed'[k]
                          /\ Unreasoned(k)' \subseteq Unreasoned(k)
  PROVE  ListInv'
<1>1. Pending' = Pending
  BY DEF Pending
<1>2. TicketListsTypeOK' /\ PendingSpeak'
  BY <1>1 DEF ListInv, TicketListsTypeOK, PendingSpeak, Speaks
<1>3. AloneDrops'
  BY <1>1 DEF ListInv, AloneDrops, Drops
<1>4. ListedForAReason'
  BY <1>1 DEF ListInv, ListedForAReason, Unreasoned
<1> QED
  BY <1>2, <1>3, <1>4 DEF ListInv

LEMMA ListInvInductive ==
  ASSUME ListInv, [TicketListsNext]_listVars
  PROVE  ListInv'
<1>1. ASSUME NEW r \in Changers, CreateTicket(r)
      PROVE  ListInv'
  <2>1. /\ assignee = NoTicket /\ changing[r] = NotChanging /\ assignee' = Nobody
        /\ Starts(r, Nobody, Unset, Each("fill", Nobody))
        /\ UNCHANGED <<wants, staff, listed, onOwn, leftIn>>
    BY <1>1 DEF CreateTicket
  <2>2. Speaks(Each("fill", Nobody), Nobody, Unset)
    BY EachStatement DEF Speaks
  <2> QED
    BY <2>1, <2>2, ListStartsKeeps
<1>2. ASSUME NEW r \in Changers, NEW u \in People \cup {Nobody}, UpdateTicketRead(r, u)
      PROVE  ListInv'
  <2>1. /\ assignee # NoTicket /\ changing[r] = NotChanging
        /\ Starts(r, assignee, u, Plan(assignee, u))
        /\ UNCHANGED <<wants, staff, assignee, listed, onOwn, leftIn>>
    BY <1>2 DEF UpdateTicketRead
  <2>2. assignee \in People \cup {Nobody}
    BY <2>1 DEF ListInv, TicketListsTypeOK
  <2>3. /\ Speaks(Plan(assignee, u), assignee, u)
        /\ assignee # Nobody /\ u # assignee => \A k \in Lists : Drops(Plan(assignee, u), k)
    BY <2>2, PlanSpeaks
  <2> QED
    BY <2>1, <2>2, <2>3, ListStartsKeeps
<1>3. ASSUME NEW u \in People, NEW k \in Lists, Follow(u, k)
      PROVE  ListInv'
  <2>1. /\ listed' = [listed EXCEPT ![k] = listed[k] \cup {u}]
        /\ onOwn' = [onOwn EXCEPT ![k] = onOwn[k] \cup {u}]
        /\ UNCHANGED <<wants, staff, assignee, changing, leftIn>>
    BY <1>3 DEF Follow
  <2>2. /\ listed' \in [Lists -> SUBSET People] /\ onOwn' \in [Lists -> SUBSET People]
        /\ leftIn' \in [Lists -> SUBSET People] /\ staff' \subseteq People
    BY <2>1 DEF ListInv, TicketListsTypeOK
  <2>3. \A j \in Lists : /\ onOwn'[j] \subseteq listed'[j] /\ leftIn'[j] \subseteq listed'[j]
                         /\ Unreasoned(j)' \subseteq Unreasoned(j)
    BY <2>1 DEF ListInv, TicketListsTypeOK, Unreasoned
  <2> QED
    BY <2>1, <2>2, <2>3, ListOthersKeep
<1>4. ASSUME NEW u \in People, NEW k \in Lists, Unfollow(u, k)
      PROVE  ListInv'
  <2>1. /\ listed' = [listed EXCEPT ![k] = listed[k] \ {u}]
        /\ onOwn' = [onOwn EXCEPT ![k] = onOwn[k] \ {u}]
        /\ leftIn' = [leftIn EXCEPT ![k] = leftIn[k] \ {u}]
        /\ UNCHANGED <<wants, staff, assignee, changing>>
    BY <1>4 DEF Unfollow
  <2>2. /\ listed' \in [Lists -> SUBSET People] /\ onOwn' \in [Lists -> SUBSET People]
        /\ leftIn' \in [Lists -> SUBSET People] /\ staff' \subseteq People
    BY <2>1 DEF ListInv, TicketListsTypeOK
  <2>3. \A j \in Lists : /\ onOwn'[j] \subseteq listed'[j] /\ leftIn'[j] \subseteq listed'[j]
                         /\ Unreasoned(j)' \subseteq Unreasoned(j)
    BY <2>1 DEF ListInv, TicketListsTypeOK, Unreasoned
  <2> QED
    BY <2>1, <2>2, <2>3, ListOthersKeep
<1>5. ASSUME NEW u \in People, MembershipMoves(u)
      PROVE  ListInv'
  <2>1. UNCHANGED <<wants, assignee, listed, changing, onOwn, leftIn>> /\ staff' \subseteq People
    BY <1>5 DEF MembershipMoves, ListInv, TicketListsTypeOK
  <2>2. \A j \in Lists : Unreasoned(j)' = Unreasoned(j)
    BY <2>1 DEF Unreasoned
  <2> QED
    BY <2>1, <2>2, ListOthersKeep DEF ListInv, TicketListsTypeOK
<1>6. CASE UNCHANGED listVars
  <2>1. UNCHANGED <<wants, staff, assignee, listed, changing, onOwn, leftIn>>
    BY <1>6 DEF listVars
  <2>2. \A j \in Lists : Unreasoned(j)' = Unreasoned(j)
    BY <2>1 DEF Unreasoned
  <2> QED
    BY <2>1, <2>2, ListOthersKeep DEF ListInv, TicketListsTypeOK
<1> QED
  BY <1>1, <1>2, <1>3, <1>4, <1>5, <1>6, ListReadMembersKeeps, ListStatementKeeps, ListWriteKeeps, ListEndsKeeps
     DEF TicketListsNext

\* What an update of a ticket has yet to write speaks for everybody it leaves
\* without a reason, for any number of people, of lists and of requests.
\* (tickets.service.ts:222-369)
THEOREM ListInvAlways == TicketListsSpec => []ListInv
<1>1. TicketListsInit => ListInv
  <2> SUFFICES ASSUME TicketListsInit PROVE ListInv
    OBVIOUS
  <2>1. TicketListsTypeOK
    BY DEF TicketListsInit, TicketListsTypeOK, Changing
  <2>2. Pending = {} /\ \A k \in Lists : listed[k] = {}
    BY DEF TicketListsInit, Pending
  <2> QED
    BY <2>1, <2>2 DEF ListInv, PendingSpeak, AloneDrops, ListedForAReason
<1>2. ListInv /\ [TicketListsNext]_listVars => ListInv'
  BY ListInvInductive
<1> QED
  BY <1>1, <1>2, PTL DEF TicketListsSpec

\* Nobody stays in a list whose reason is gone once the requests are over, unless
\* they asked for it or two updates overlapped.  (tickets.service.ts:293-352)
THEOREM ListedForAReasonAlways == TicketListsSpec => []ListedForAReason
<1>1. ListInv => ListedForAReason
  BY DEF ListInv
<1> QED
  BY <1>1, ListInvAlways, PTL

-----------------------------------------------------------------------------
(* IssueSync: a row, and the copies requests hold of it.                   *)
\* What is asked of the stored row, of any row.
RowConsistent(row) ==
  /\ row.issueNumber = row.issueUrl.number
  /\ row.pullNumber = row.pullUrl.number
  /\ row.repo = NoRepo <=> row.issueUrl = NoUrl /\ row.pullUrl = NoUrl
  /\ row.repo # NoRepo => \E u \in {row.issueUrl, row.pullUrl} \ {NoUrl} : u.repo = row.repo

\* A row that is on its way is consistent by itself: it is written whole, over
\* whatever the row has become.
IssueInv ==
  /\ IssueTypeOK
  /\ issue # NoIssue => RowConsistent(issue)
  /\ \A r \in Syncers : syncing[r].op = "write" => RowConsistent(syncing[r].row)

\* A URL is told from the missing one by its number.
LEMMA UrlNumber ==
  /\ NoUrl.number = 0 /\ NoUrl \notin Url
  /\ \A u \in Url : u.number \in 1..MaxNumber /\ u.number # 0 /\ u.repo \in Repos
  BY MaxNumberAssumption DEF NoUrl, Url

LEMMA ParsedConsistent ==
  ASSUME NEW row \in Issue, RowConsistent(row),
         NEW i \in Url \cup {NoUrl}, NEW p \in Url \cup {NoUrl}
  PROVE  /\ Parsed(row, i, p) \in Issue
         /\ RowConsistent(Parsed(row, i, p))
<1> DEFINE new == Parsed(row, i, p)
<1>1. /\ row.issueUrl \in Url \cup {NoUrl} /\ row.pullUrl \in Url \cup {NoUrl}
      /\ row.repo \in Repos \cup {NoRepo}
  BY DEF Issue
<1>2. /\ new.issueUrl = (IF i = NoUrl THEN row.issueUrl ELSE i)
      /\ new.issueNumber = (IF i = NoUrl THEN row.issueNumber ELSE i.number)
      /\ new.pullUrl = (IF p = NoUrl THEN row.pullUrl ELSE p)
      /\ new.pullNumber = (IF p = NoUrl THEN row.pullNumber ELSE p.number)
      /\ new.repo = (IF p # NoUrl THEN p.repo ELSE IF i # NoUrl THEN i.repo ELSE row.repo)
  BY DEF Parsed, Issue
<1>3. new \in Issue
  <2>1. /\ (IF i = NoUrl THEN row.issueNumber ELSE i.number) \in 0..MaxNumber
        /\ (IF p = NoUrl THEN row.pullNumber ELSE p.number) \in 0..MaxNumber
    BY UrlNumber, MaxNumberAssumption DEF Issue
  <2>2. (IF p # NoUrl THEN p.repo ELSE IF i # NoUrl THEN i.repo ELSE row.repo) \in Repos \cup {NoRepo}
    BY <1>1, UrlNumber
  <2> QED
    BY <2>1, <2>2 DEF Parsed, Issue
<1> HIDE DEF new
<1>4. /\ new.issueNumber = new.issueUrl.number /\ new.pullNumber = new.pullUrl.number
  BY <1>2 DEF RowConsistent
<1>5. /\ new.repo = NoRepo <=> new.issueUrl = NoUrl /\ new.pullUrl = NoUrl
      /\ new.repo # NoRepo => \E u \in {new.issueUrl, new.pullUrl} \ {NoUrl} : u.repo = new.repo
  <2>1. CASE p # NoUrl
    <3>1. new.repo = p.repo /\ new.pullUrl = p /\ p.repo \in Repos
      BY <1>2, <2>1, UrlNumber
    <3> QED
      BY <2>1, <3>1, ReposAssumption
  <2>2. CASE p = NoUrl /\ i # NoUrl
    <3>1. new.repo = i.repo /\ new.issueUrl = i /\ i.repo \in Repos
      BY <1>2, <2>2, UrlNumber
    <3> QED
      BY <2>2, <3>1, ReposAssumption
  <2>3. CASE p = NoUrl /\ i = NoUrl
    BY <1>2, <2>3 DEF RowConsistent
  <2> QED
    BY <2>1, <2>2, <2>3
<1>6. RowConsistent(new)
  BY <1>4, <1>5 DEF RowConsistent
<1> QED
  BY <1>3, <1>6 DEF new

LEMMA BlankConsistent == Blank \in Issue /\ RowConsistent(Blank)
  BY UrlNumber, MaxNumberAssumption DEF Blank, Issue, RowConsistent, Statuses

\* Only the status and the commits of a row differ.
LEMMA RestConsistent ==
  ASSUME NEW row \in Issue, RowConsistent(row), NEW s \in Statuses, NEW c \in SUBSET Shas
  PROVE  /\ [row EXCEPT !.status = s, !.commits = c] \in Issue
         /\ RowConsistent([row EXCEPT !.status = s, !.commits = c])
         /\ [row EXCEPT !.status = s] \in Issue
         /\ RowConsistent([row EXCEPT !.status = s])
         /\ [row EXCEPT !.commits = c] \in Issue
         /\ RowConsistent([row EXCEPT !.commits = c])
  BY DEF Issue, RowConsistent

\* What a request holds, by what it does next.
LEMMA IssueHeldBy ==
  ASSUME IssueInv, NEW r \in Syncers
  PROVE  /\ syncing[r].op = "write" => syncing[r].row \in Issue /\ RowConsistent(syncing[r].row)
         /\ syncing[r].op \in {"ask", "list"} =>
              syncing[r] \in [op : {"ask", "list"}, pull : Url \cup {NoUrl}, status : Statuses, commits : SUBSET Shas]
         /\ syncing[r].op = "status" => syncing[r].status \in Statuses /\ syncing[r].commits \in SUBSET Shas
         /\ syncing[r].op \in {"append", "replace"} => syncing[r].pull \in Url /\ syncing[r].commits \in SUBSET Shas
         /\ syncing[r].op = "commits" => syncing[r].commits \in SUBSET Shas
<1>1. syncing[r] \in Syncing
  BY DEF IssueInv, IssueTypeOK
<1> QED
  BY <1>1 DEF IssueInv, Syncing, NotSyncing

LEMMA CommitsAreShas ==
  ASSUME IssueInv, NEW pull \in Url \cup {NoUrl}
  PROVE  CommitsOf(pull) \in SUBSET Shas
  BY DEF IssueInv, IssueTypeOK, CommitsOf

\* A step that writes a consistent row, or none, and gives one request what it may hold.
LEMMA IssueStepKeeps ==
  ASSUME IssueInv, NEW r \in Syncers, NEW what \in Syncing,
         what.op = "write" => RowConsistent(what.row),
         Proceeds(r, what), GithubUnchanged,
         issue' \in Issue \cup {NoIssue}, issue' # NoIssue => RowConsistent(issue)'
  PROVE  IssueInv'
<1>1. syncing' = [syncing EXCEPT ![r] = what]
  BY DEF Proceeds
<1>2. IssueTypeOK'
  BY <1>1 DEF IssueInv, IssueTypeOK, GithubUnchanged
<1>3. \A q \in Syncers : syncing'[q] = IF q = r THEN what ELSE syncing[q]
  BY <1>1 DEF IssueInv, IssueTypeOK
<1>4. \A q \in Syncers : syncing'[q].op = "write" => RowConsistent(syncing'[q].row)
  BY <1>3 DEF IssueInv
<1> QED
  BY <1>2, <1>4 DEF IssueInv, RowConsistent

LEMMA IssueInvInductive ==
  ASSUME IssueInv, [IssueNext]_issueVars
  PROVE  IssueInv'
<1>1. ASSUME NEW i \in Url \cup {NoUrl}, NEW p \in Url \cup {NoUrl}, LinkIssue(i, p)
      PROVE  IssueInv'
  <2>1. issue' = Parsed(Blank, i, p) /\ UNCHANGED <<merged, pushed, syncing>>
    BY <1>1 DEF LinkIssue, GithubUnchanged
  <2>2. issue' \in Issue /\ RowConsistent(issue)'
    BY <2>1, ParsedConsistent, BlankConsistent DEF RowConsistent
  <2> QED
    BY <2>1, <2>2 DEF IssueInv, IssueTypeOK, RowConsistent
<1>2. ASSUME NEW i \in Url \cup {NoUrl}, NEW p \in Url \cup {NoUrl}, NEW r \in Syncers,
             NEW s \in {"null", "APPROVED"}, UpdateIssueRead(r, i, p, s)
      PROVE  IssueInv'
  <2> DEFINE parsed == Parsed(issue, i, p)
             row == [parsed EXCEPT !.status = IF s = "null" THEN parsed.status ELSE s]
             what == [op |-> "write", row |-> row]
  <2>1. issue # NoIssue /\ Proceeds(r, what) /\ GithubUnchanged /\ issue' = issue
    BY <1>2 DEF UpdateIssueRead
  <2>2. issue \in Issue /\ RowConsistent(issue)
    BY <2>1 DEF IssueInv, IssueTypeOK
  <2>3. parsed \in Issue /\ RowConsistent(parsed)
    BY <2>2, ParsedConsistent
  <2>4. (IF s = "null" THEN parsed.status ELSE s) \in Statuses
    BY <2>3 DEF Statuses, Issue
  <2> HIDE DEF parsed
  <2>5. row \in Issue /\ RowConsistent(row)
    BY <2>3, <2>4, RestConsistent
  <2> HIDE DEF row
  <2>6. what \in Syncing /\ RowConsistent(what.row)
    BY <2>5 DEF Syncing
  <2> HIDE DEF what
  <2> QED
    BY <2>1, <2>2, <2>6, IssueStepKeeps DEF RowConsistent
<1>3. CASE UnlinkIssue
  BY <1>3 DEF UnlinkIssue, IssueInv, IssueTypeOK, GithubUnchanged
<1> USE DEF NotSyncing
<1>4. NotSyncing \in Syncing /\ NotSyncing.op # "write"
  BY DEF Syncing
<1>5. issue \in Issue \cup {NoIssue} /\ (issue # NoIssue => RowConsistent(issue))
  BY DEF IssueInv, IssueTypeOK
<1> HIDE DEF NotSyncing
<1>6. ASSUME NEW r \in Syncers, UpdateIssueCommit(r)
      PROVE  IssueInv'
  <2>1. /\ issue' = (IF issue = NoIssue THEN issue ELSE syncing[r].row)
        /\ Proceeds(r, NotSyncing) /\ GithubUnchanged
        /\ syncing[r].row \in Issue /\ RowConsistent(syncing[r].row)
    BY <1>6, IssueHeldBy DEF UpdateIssueCommit, Overwritten
  <2>2. issue' \in Issue \cup {NoIssue} /\ (issue' # NoIssue => RowConsistent(issue)')
    BY <1>5, <2>1 DEF RowConsistent
  <2> QED
    BY <1>4, <2>1, <2>2, IssueStepKeeps
<1>7. ASSUME NEW r \in Syncers, SyncIssueRead(r)
      PROVE  IssueInv'
  <2> DEFINE what == [op |-> "ask", pull |-> issue.pullUrl, status |-> issue.status, commits |-> issue.commits]
  <2>1. issue # NoIssue /\ Proceeds(r, what) /\ GithubUnchanged /\ issue' = issue
    BY <1>7 DEF SyncIssueRead
  <2>2. what \in Syncing /\ what.op # "write"
    BY <1>5, <2>1 DEF Syncing, Issue
  <2> HIDE DEF what
  <2> QED
    BY <1>5, <2>1, <2>2, IssueStepKeeps DEF RowConsistent
<1>8. ASSUME NEW r \in Syncers, SyncIssueAsk(r)
      PROVE  IssueInv'
  <2> DEFINE status == IF syncing[r].pull = NoUrl THEN syncing[r].status
                       ELSE IF syncing[r].pull \in merged THEN "APPROVED" ELSE "PENDING"
             what == [syncing[r] EXCEPT !.op = "list", !.status = status]
  <2>1. syncing[r].op = "ask" /\ Proceeds(r, what) /\ GithubUnchanged /\ issue' = issue
    BY <1>8 DEF SyncIssueAsk
  <2>2. syncing[r] \in [op : {"ask", "list"}, pull : Url \cup {NoUrl}, status : Statuses, commits : SUBSET Shas]
    BY <2>1, IssueHeldBy
  <2>3. status \in Statuses
    BY <2>2 DEF Statuses
  <2> HIDE DEF status
  <2>4. what \in [op : {"ask", "list"}, pull : Url \cup {NoUrl}, status : Statuses, commits : SUBSET Shas]
        /\ what.op = "list"
    BY <2>2, <2>3
  <2>5. what \in Syncing /\ what.op # "write"
    BY <2>4 DEF Syncing
  <2> HIDE DEF what
  <2> QED
    BY <1>5, <2>1, <2>5, IssueStepKeeps DEF RowConsistent
<1>9. ASSUME NEW r \in Syncers, SyncIssueList(r)
      PROVE  IssueInv'
  <2> DEFINE what == [op |-> "status", status |-> syncing[r].status,
                      commits |-> syncing[r].commits \cup CommitsOf(syncing[r].pull)]
  <2>1. syncing[r].op = "list" /\ Proceeds(r, what) /\ GithubUnchanged /\ issue' = issue
    BY <1>9 DEF SyncIssueList
  <2>2. syncing[r] \in [op : {"ask", "list"}, pull : Url \cup {NoUrl}, status : Statuses, commits : SUBSET Shas]
    BY <2>1, IssueHeldBy
  <2>3. what \in Syncing /\ what.op # "write"
    BY <2>2, CommitsAreShas DEF Syncing
  <2> HIDE DEF what
  <2> QED
    BY <1>5, <2>1, <2>3, IssueStepKeeps DEF RowConsistent
<1>10. ASSUME NEW r \in Syncers, SyncIssueCommit(r)
       PROVE  IssueInv'
  <2>1. /\ issue' = (IF issue = NoIssue THEN issue
                    ELSE [issue EXCEPT !.status = syncing[r].status, !.commits = syncing[r].commits])
        /\ Proceeds(r, NotSyncing) /\ GithubUnchanged
        /\ syncing[r].status \in Statuses /\ syncing[r].commits \in SUBSET Shas
    BY <1>10, IssueHeldBy DEF SyncIssueCommit
  <2>2. issue' \in Issue \cup {NoIssue} /\ (issue' # NoIssue => RowConsistent(issue'))
    BY <1>5, <2>1, RestConsistent
  <2>3. issue' # NoIssue => RowConsistent(issue)'
    BY <2>2 DEF RowConsistent
  <2> QED
    BY <1>4, <2>1, <2>2, <2>3, IssueStepKeeps
<1>11. ASSUME NEW r \in Syncers, NEW how \in {"append", "replace"}, SyncCommitsRead(r, how)
       PROVE  IssueInv'
  <2> DEFINE what == [op |-> how, pull |-> issue.pullUrl, commits |-> issue.commits]
  <2>1. issue # NoIssue /\ issue.pullUrl # NoUrl /\ Proceeds(r, what) /\ GithubUnchanged /\ issue' = issue
    BY <1>11 DEF SyncCommitsRead
  <2>2. what \in Syncing /\ what.op # "write"
    BY <1>5, <2>1 DEF Syncing, Issue
  <2> HIDE DEF what
  <2> QED
    BY <1>5, <2>1, <2>2, IssueStepKeeps DEF RowConsistent
<1>12. ASSUME NEW r \in Syncers, SyncCommitsList(r)
       PROVE  IssueInv'
  <2> DEFINE all == CommitsOf(syncing[r].pull)
                    \cup IF syncing[r].op = "append" THEN syncing[r].commits ELSE {}
  <2>1. syncing[r].op \in {"append", "replace"} /\ GithubUnchanged /\ issue' = issue
    BY <1>12 DEF SyncCommitsList
  <2>2. PICK kept \in SUBSET all : Proceeds(r, [op |-> "commits", commits |-> kept])
    BY <1>12 DEF SyncCommitsList
  <2>3. all \in SUBSET Shas
    BY <2>1, IssueHeldBy, CommitsAreShas
  <2> HIDE DEF all
  <2> DEFINE what == [op |-> "commits", commits |-> kept]
  <2>4. what \in Syncing /\ what.op # "write"
    BY <2>2, <2>3 DEF Syncing
  <2>5. Proceeds(r, what)
    BY <2>2
  <2> HIDE DEF what
  <2> QED
    BY <1>5, <2>1, <2>4, <2>5, IssueStepKeeps DEF RowConsistent
<1>13. ASSUME NEW r \in Syncers, SyncCommitsCommit(r)
       PROVE  IssueInv'
  <2>1. /\ issue' = (IF issue = NoIssue THEN issue ELSE [issue EXCEPT !.commits = syncing[r].commits])
        /\ Proceeds(r, NotSyncing) /\ GithubUnchanged
        /\ syncing[r].commits \in SUBSET Shas
    BY <1>13, IssueHeldBy DEF SyncCommitsCommit
  <2>2. issue # NoIssue => [issue EXCEPT !.commits = syncing[r].commits] \in Issue
                           /\ RowConsistent([issue EXCEPT !.commits = syncing[r].commits])
    BY <1>5, <2>1, RestConsistent DEF Statuses
  <2>3. issue' \in Issue \cup {NoIssue} /\ (issue' # NoIssue => RowConsistent(issue'))
    BY <1>5, <2>1, <2>2
  <2>4. issue' # NoIssue => RowConsistent(issue)'
    BY <2>3 DEF RowConsistent
  <2> QED
    BY <1>4, <2>1, <2>3, <2>4, IssueStepKeeps
<1>14. ASSUME NEW r \in Syncers, SyncFails(r)
       PROVE  IssueInv'
  <2>1. Proceeds(r, NotSyncing) /\ GithubUnchanged /\ issue' = issue
    BY <1>14 DEF SyncFails
  <2> QED
    BY <1>4, <1>5, <2>1, IssueStepKeeps DEF RowConsistent
<1>15. ASSUME NEW u \in Url, GithubMoves(u)
       PROVE  IssueInv'
  BY <1>15 DEF GithubMoves, IssueInv, IssueTypeOK, RowConsistent
<1>16. CASE UNCHANGED issueVars
  BY <1>16 DEF issueVars, IssueInv, IssueTypeOK, RowConsistent
<1> QED
  BY <1>1, <1>2, <1>3, <1>6, <1>7, <1>8, <1>9, <1>10, <1>11, <1>12, <1>13, <1>14, <1>15, <1>16
     DEF IssueNext

\* The stored row, and every row a request is about to write, agrees with itself,
\* however links, updates and synchronisations overlap.  (features.service.ts:610-767)
THEOREM IssueInvAlways == IssueSpec => []IssueInv
<1>1. IssueInit => IssueInv
  BY DEF IssueInit, IssueInv, IssueTypeOK, Syncing, NotSyncing
<1>2. IssueInv /\ [IssueNext]_issueVars => IssueInv'
  BY IssueInvInductive
<1> QED
  BY <1>1, <1>2, PTL DEF IssueSpec

\* The number, the repository and the address of the stored issue are of one and
\* the same issue, whatever GitHub answers meanwhile.  (features.service.ts:610-767)
THEOREM IssueConsistentAlways == IssueSpec => []IssueConsistent
<1>1. IssueInv => IssueConsistent
  BY DEF IssueInv, IssueConsistent, RowConsistent
<1> QED
  BY <1>1, IssueInvAlways, PTL

-----------------------------------------------------------------------------
(* StoredImages: rows, files, and the requests between the two.            *)
\* Who has to do with a file: a row, a request about to create a row, a request
\* that deletes it.
RowOf(i, f) == i \in Stored /\ image[i].file = f
Holds(r, f) == storing[r].op = "createRow" /\ storing[r].file = f
Finishes(r, f) == storing[r].op = "ticketFile" /\ storing[r].file = f
Deletes(r, f) ==
  \/ storing[r].op \in {"docFile", "docRow", "ticketRow", "ticketFile"} /\ storing[r].file = f
  \/ storing[r].op = "deleteTicket" /\ f \in storing[r].files

\* A file written once has one row or one request about to create it, and whoever
\* deletes it has begun to delete the row.
WrittenOnce(f) ==
  /\ \A i, j \in ImageIds : RowOf(i, f) /\ RowOf(j, f) => i = j
  /\ \A r, q \in Uploaders : Holds(r, f) /\ Holds(q, f) => r = q
  /\ \A r, q \in Uploaders : ~(Holds(r, f) /\ Deletes(q, f))
  /\ \A r \in Uploaders, i \in ImageIds : ~(Holds(r, f) /\ RowOf(i, f))
  /\ \A r \in Uploaders, i \in ImageIds : Deletes(r, f) /\ RowOf(i, f) => i \in doomed
  /\ \A r \in Uploaders : Holds(r, f) => f \in bucket
  /\ \A i \in ImageIds : RowOf(i, f) /\ i \notin doomed => f \in bucket

NeverWritten(f) ==
  /\ \A i \in ImageIds : ~RowOf(i, f)
  /\ \A r \in Uploaders : ~Holds(r, f) /\ ~Deletes(r, f)

\* A request that deletes a row knows its file; one that deletes the ticket has
\* begun to delete the images it read.
DeletersKnow ==
  \A r \in Uploaders :
    /\ storing[r].op \in {"docFile", "docRow", "ticketRow", "ticketFile"} =>
         /\ storing[r].id \in doomed
         /\ storing[r].id \in Stored => image[storing[r].id].file = storing[r].file
    /\ storing[r].op = "deleteTicket" => storing[r].read \subseteq doomed

\* A row whose file a request has deleted and which it is about to delete as well.
Spent(i) ==
  \E r \in Uploaders :
    \/ storing[r].op = "docRow" /\ storing[r].id = i
    \/ storing[r].op = "deleteTicket" /\ i \in storing[r].read /\ image[i].file \notin storing[r].files

\* A file has a row that is not spent, or a request on it.
Covered(f) ==
  \/ \E i \in ImageIds : RowOf(i, f) /\ ~Spent(i)
  \/ \E r \in Uploaders : Holds(r, f) \/ Finishes(r, f)

ImageInv ==
  /\ ImagesTypeOK /\ DeletersKnow
  /\ \A f \in File : uploads[f] < 2 => WrittenOnce(f)
  /\ \A f \in File : uploads[f] = 0 => NeverWritten(f)
  /\ \A f \in bucket \ (lost \cup Spared) : Covered(f)
  /\ \A f \in Spared : uploads[f] > 0 => f \in bucket

\* What a request holds, by what it does next.
LEMMA StorerHolds ==
  ASSUME ImageInv, NEW r \in Uploaders
  PROVE  /\ storing[r].op = "writeFile" =>
              storing[r].owner \in Owners /\ storing[r].name \in ImageNames
         /\ storing[r].op = "createRow" =>
              storing[r].owner \in Owners /\ storing[r].name \in ImageNames /\ storing[r].file \in File
         /\ storing[r].op \in {"docFile", "docRow", "ticketRow", "ticketFile"} =>
              /\ storing[r] \in [op : {"docFile", "docRow", "ticketRow", "ticketFile"}, id : ImageIds, file : File]
              /\ storing[r].id \in ImageIds /\ storing[r].file \in File
         /\ storing[r].op = "deleteTicket" =>
              /\ storing[r] \in [op : {"deleteTicket"}, read : SUBSET ImageIds, files : SUBSET File]
              /\ storing[r].read \subseteq ImageIds /\ storing[r].files \subseteq File
<1>1. storing[r] \in Storing
  BY DEF ImageInv, ImagesTypeOK
<1> QED
  BY <1>1 DEF Storing, NotStoring

LEMMA StoredRow ==
  ASSUME ImageInv, NEW i \in Stored
  PROVE  /\ i \in ImageIds /\ image[i] \in Image /\ image[i].file \in File
         /\ image[i].owner \in Owners /\ image[i].name \in ImageNames
<1>1. i \in ImageIds /\ image[i] # NoImage /\ image[i] \in Image \cup {NoImage}
  BY DEF ImageInv, ImagesTypeOK, Stored
<1> QED
  BY <1>1 DEF Image

\* The other requests do what they did.
LEMMA OneStorerTurns ==
  ASSUME ImageInv, NEW r \in Uploaders, NEW what \in Storing, Turns(r, what)
  PROVE  /\ storing' \in [Uploaders -> Storing]
         /\ storing'[r] = what
         /\ \A q \in Uploaders : q # r => storing'[q] = storing[q]
  BY DEF ImageInv, ImagesTypeOK, Turns

LEMMA IdleStorer ==
  /\ NotStoring \in Storing
  /\ NotStoring.op = "idle"
  BY DEF NotStoring, Storing

LEMMA UploadCheckKeeps ==
  ASSUME ImageInv, NEW r \in Uploaders, NEW o \in Owners, NEW n \in ImageNames,
         NEW public \in BOOLEAN, UploadCheck(r, o, n, public)
  PROVE  ImageInv'
<1> DEFINE what == [op |-> "writeFile", owner |-> o, name |-> n]
<1>1. /\ storing[r] = NotStoring /\ Turns(r, what)
      /\ UNCHANGED <<image, bucket, ticketLives, tick, uploads, doomed, lost>>
  BY DEF UploadCheck
<1>2. what \in Storing /\ what.op = "writeFile"
  BY DEF Storing
<1> HIDE DEF what
<1>3. /\ storing' \in [Uploaders -> Storing] /\ storing'[r].op = "writeFile" /\ storing[r].op = "idle"
      /\ \A q \in Uploaders : q # r => storing'[q] = storing[q]
  BY <1>1, <1>2, OneStorerTurns, IdleStorer
<1>4. \A q \in Uploaders, f \in File :
        /\ Holds(q, f)' <=> Holds(q, f)
        /\ Deletes(q, f)' <=> Deletes(q, f)
        /\ Finishes(q, f)' <=> Finishes(q, f)
  BY <1>3 DEF Holds, Deletes, Finishes
<1>5. \A i \in ImageIds :
        /\ \A f \in File : RowOf(i, f)' <=> RowOf(i, f)
        /\ Spent(i)' <=> Spent(i)
  BY <1>1, <1>3 DEF RowOf, Stored, Spent
<1>6. ImagesTypeOK' /\ DeletersKnow'
  BY <1>1, <1>3 DEF ImageInv, ImagesTypeOK, DeletersKnow, Stored
<1>7. \A f \in File : WrittenOnce(f)' <=> WrittenOnce(f)
  BY <1>1, <1>4, <1>5 DEF WrittenOnce
<1>8. \A f \in File : NeverWritten(f)' <=> NeverWritten(f)
  BY <1>1, <1>4, <1>5 DEF NeverWritten
<1>9. \A f \in File : Covered(f)' <=> Covered(f)
  BY <1>1, <1>4, <1>5 DEF Covered
<1> QED
  BY <1>1, <1>6, <1>7, <1>8, <1>9 DEF ImageInv, ImagesTypeOK

LEMMA SparedFiles ==
  \A f \in Spared : f \in File
  BY DEF Spared

\* The counter of a file stops at two.
LEMMA UploadFileKeeps ==
  ASSUME ImageInv, NEW r \in Uploaders, UploadFile(r)
  PROVE  ImageInv'
<1> DEFINE Name(called) == [at |-> tick, called |-> called]
           Row(file) == [op |-> "createRow", owner |-> storing[r].owner, name |-> storing[r].name, file |-> file]
<1>0. PICK called \in Originals :
        /\ bucket' = bucket \cup {Name(called)}
        /\ uploads' = [uploads EXCEPT ![Name(called)] = IF @ = 2 THEN 2 ELSE @ + 1]
        /\ Turns(r, Row(Name(called)))
  BY DEF UploadFile
<1> DEFINE g == Name(called)
           what == Row(g)
<1>1. /\ storing[r].op = "writeFile" /\ Turns(r, what)
      /\ bucket' = bucket \cup {g}
      /\ uploads' = [uploads EXCEPT ![g] = IF uploads[g] = 2 THEN 2 ELSE uploads[g] + 1]
      /\ UNCHANGED <<image, ticketLives, tick, doomed, lost>>
  BY <1>0 DEF UploadFile
<1>2. g \in File /\ uploads \in [File -> 0..2]
  BY DEF ImageInv, ImagesTypeOK, File
<1> HIDE DEF g
<1>3. what \in Storing /\ what.op = "createRow" /\ what.file = g
  BY <1>1, <1>2, StorerHolds DEF Storing
<1> HIDE DEF what
<1>4. /\ storing' \in [Uploaders -> Storing] /\ storing'[r] = what
      /\ \A q \in Uploaders : q # r => storing'[q] = storing[q]
  BY <1>1, <1>3, OneStorerTurns
<1>5. \A q \in Uploaders, f \in File :
        /\ Holds(q, f)' <=> Holds(q, f) \/ (q = r /\ f = g)
        /\ Deletes(q, f)' <=> Deletes(q, f)
        /\ Finishes(q, f)' <=> Finishes(q, f)
  BY <1>1, <1>3, <1>4 DEF Holds, Deletes, Finishes
<1>6. \A i \in ImageIds :
        /\ \A f \in File : RowOf(i, f)' <=> RowOf(i, f)
        /\ Spent(i)' <=> Spent(i)
  BY <1>1, <1>3, <1>4 DEF RowOf, Stored, Spent
<1>7. /\ uploads' \in [File -> 0..2]
      /\ uploads'[g] # 0 /\ (uploads'[g] < 2 => uploads[g] = 0)
      /\ \A f \in File : f # g => uploads'[f] = uploads[f]
  BY <1>1, <1>2
<1>8. ImagesTypeOK'
  BY <1>1, <1>2, <1>4, <1>7 DEF ImageInv, ImagesTypeOK
<1>9. DeletersKnow'
  BY <1>1, <1>3, <1>4 DEF ImageInv, DeletersKnow, Stored
<1>10. \A f \in File : uploads'[f] < 2 => WrittenOnce(f)'
  <2> SUFFICES ASSUME NEW f \in File, uploads'[f] < 2
               PROVE  WrittenOnce(f)'
    OBVIOUS
  <2>1. CASE f = g
    <3>1. NeverWritten(f)
      BY <1>7, <2>1 DEF ImageInv
    <3>2. f \in bucket'
      BY <1>1, <2>1
    <3> QED
      BY <1>5, <1>6, <3>1, <3>2 DEF NeverWritten, WrittenOnce
  <2>2. CASE f # g
    <3>1. WrittenOnce(f)
      BY <1>7, <2>2 DEF ImageInv
    <3>2. f \in bucket' <=> f \in bucket
      BY <1>1, <2>2
    <3> QED
      BY <1>1, <1>5, <1>6, <2>2, <3>1, <3>2 DEF WrittenOnce
  <2> QED
    BY <2>1, <2>2
<1>11. \A f \in File : uploads'[f] = 0 => NeverWritten(f)'
  BY <1>5, <1>6, <1>7 DEF ImageInv, NeverWritten
<1>12. \A f \in bucket' \ (lost' \cup Spared) : Covered(f)'
  <2> SUFFICES ASSUME NEW f \in bucket' \ (lost' \cup Spared)
               PROVE  Covered(f)'
    OBVIOUS
  <2>1. f \in File
    BY <1>8 DEF ImagesTypeOK
  <2>2. CASE f = g
    BY <1>5, <2>1, <2>2 DEF Covered
  <2>3. CASE f # g
    <3>1. Covered(f)
      BY <1>1, <2>3 DEF ImageInv
    <3> QED
      BY <1>5, <1>6, <2>1, <3>1 DEF Covered
  <2> QED
    BY <2>2, <2>3
<1>13. \A f \in Spared : uploads'[f] > 0 => f \in bucket'
  BY <1>1, <1>7, SparedFiles DEF ImageInv
<1> QED
  BY <1>8, <1>9, <1>10, <1>11, <1>12, <1>13 DEF ImageInv

LEMMA CreateRowKeeps ==
  ASSUME ImageInv, NEW r \in Uploaders, CreateRow(r)
  PROVE  ImageInv'
<1> DEFINE g == storing[r].file
           row == [owner |-> storing[r].owner, name |-> storing[r].name, file |-> g]
<1>1. /\ storing[r].op = "createRow" /\ Turns(r, NotStoring)
      /\ UNCHANGED <<bucket, ticketLives, tick, uploads, doomed>>
  BY DEF CreateRow
<1>2. g \in File /\ storing[r].owner \in Owners /\ storing[r].name \in ImageNames
  BY <1>1, StorerHolds
<1>3. /\ storing' \in [Uploaders -> Storing] /\ storing'[r].op = "idle"
      /\ \A q \in Uploaders : q # r => storing'[q] = storing[q]
  BY <1>1, OneStorerTurns, IdleStorer
<1>4. Holds(r, g)
  BY <1>1 DEF Holds
<1>5. \A q \in Uploaders, f \in File :
        /\ Holds(q, f)' <=> Holds(q, f) /\ q # r
        /\ Deletes(q, f)' <=> Deletes(q, f)
        /\ Finishes(q, f)' <=> Finishes(q, f)
        /\ Holds(r, f) => f = g
  BY <1>1, <1>3 DEF Holds, Deletes, Finishes
<1>6. CASE lost' = lost \cup {g} /\ UNCHANGED image
  <2>1. \A i \in ImageIds :
          /\ \A f \in File : RowOf(i, f)' <=> RowOf(i, f)
          /\ Spent(i)' <=> Spent(i)
    BY <1>1, <1>3, <1>6 DEF RowOf, Stored, Spent
  <2>2. ImagesTypeOK'
    BY <1>1, <1>2, <1>3, <1>6 DEF ImageInv, ImagesTypeOK
  <2>3. DeletersKnow'
    BY <1>1, <1>3, <1>6 DEF ImageInv, DeletersKnow, Stored
  <2>4. \A f \in File : WrittenOnce(f) => WrittenOnce(f)'
    BY <1>1, <1>5, <2>1 DEF WrittenOnce
  <2>5. \A f \in File : NeverWritten(f) => NeverWritten(f)'
    BY <1>5, <2>1 DEF NeverWritten
  <2>6. \A f \in File : Covered(f) /\ f # g => Covered(f)'
    BY <1>5, <2>1 DEF Covered
  <2>7. bucket' \subseteq File /\ bucket' = bucket
    BY <1>1, <2>2 DEF ImagesTypeOK
  <2> QED
    BY <1>1, <1>6, <2>2, <2>3, <2>4, <2>5, <2>6, <2>7 DEF ImageInv
<1>7. ASSUME NEW i \in ImageIds \ (Stored \cup doomed), image' = [image EXCEPT ![i] = row], lost' = lost
      PROVE  ImageInv'
  <2>1. row \in Image /\ row.file = g /\ row # NoImage
    BY <1>2 DEF Image, NoImage, Owners
  <2> HIDE DEF row
  <2>2. /\ image' \in [ImageIds -> Image \cup {NoImage}] /\ image'[i] = row
        /\ \A j \in ImageIds : j # i => image'[j] = image[j]
    BY <1>7, <2>1 DEF ImageInv, ImagesTypeOK
  <2>3. \A j \in ImageIds : j \in Stored' <=> j \in Stored \/ j = i
    BY <2>1, <2>2 DEF Stored
  <2>4. \A j \in ImageIds, f \in File : RowOf(j, f)' <=> RowOf(j, f) \/ (j = i /\ f = g)
    BY <1>7, <2>1, <2>2, <2>3 DEF RowOf
  <2>5. \A j \in ImageIds : j # i => (Spent(j)' <=> Spent(j))
    BY <1>1, <1>3, <2>2 DEF Spent
  <2>6. ~Spent(i)'
    <3>1. ASSUME NEW q \in Uploaders
          PROVE  /\ storing'[q].op = "docRow" => storing'[q].id # i
                 /\ storing'[q].op = "deleteTicket" => i \notin storing'[q].read
      BY <1>3, <1>7 DEF ImageInv, DeletersKnow
    <3> QED
      BY <3>1 DEF Spent
  <2>7. ImagesTypeOK'
    BY <1>1, <1>3, <1>7, <2>2 DEF ImageInv, ImagesTypeOK
  <2>8. DeletersKnow'
    <3> SUFFICES ASSUME NEW q \in Uploaders, q # r
                 PROVE  /\ storing[q].op \in {"docFile", "docRow", "ticketRow", "ticketFile"} =>
                             /\ storing[q].id \in doomed
                             /\ storing[q].id \in Stored' => image'[storing[q].id].file = storing[q].file
                        /\ storing[q].op = "deleteTicket" => storing[q].read \subseteq doomed
      BY <1>1, <1>3 DEF DeletersKnow
    <3> QED
      BY <1>7, <2>2, <2>3, StorerHolds DEF ImageInv, DeletersKnow
  <2>9. \A f \in File : WrittenOnce(f) => WrittenOnce(f)'
    <3> SUFFICES ASSUME NEW f \in File, WrittenOnce(f)
                 PROVE  WrittenOnce(f)'
      OBVIOUS
    <3>1. CASE f # g
      BY <1>1, <1>5, <2>4, <3>1 DEF WrittenOnce
    <3>2. CASE f = g
      <4>1. /\ \A j \in ImageIds : ~RowOf(j, f)
            /\ \A q \in Uploaders : ~Deletes(q, f) /\ (Holds(q, f) => q = r)
            /\ f \in bucket
        BY <1>4, <3>2 DEF WrittenOnce
      <4> QED
        BY <1>1, <1>5, <2>4, <4>1 DEF WrittenOnce
    <3> QED
      BY <3>1, <3>2
  <2>10. \A f \in File : NeverWritten(f) => NeverWritten(f)' /\ f # g
    BY <1>4, <1>5, <2>4 DEF NeverWritten
  <2>11. \A f \in File : Covered(f) => Covered(f)'
    <3> SUFFICES ASSUME NEW f \in File, Covered(f)
                 PROVE  Covered(f)'
      OBVIOUS
    <3>1. CASE f = g
      BY <1>7, <2>4, <2>6, <3>1 DEF Covered
    <3>2. CASE f # g
      <4>1. ASSUME NEW j \in ImageIds, RowOf(j, f), ~Spent(j)
            PROVE  Covered(f)'
        <5>1. j # i
          BY <1>7, <4>1 DEF RowOf
        <5> QED
          BY <2>4, <2>5, <4>1, <5>1 DEF Covered
      <4>2. ASSUME NEW q \in Uploaders, Holds(q, f) \/ Finishes(q, f)
            PROVE  Covered(f)'
        BY <1>5, <3>2, <4>2 DEF Covered
      <4> QED
        BY <4>1, <4>2 DEF Covered
    <3> QED
      BY <3>1, <3>2
  <2>12. bucket' \subseteq File /\ bucket' = bucket
    BY <1>1, <2>7 DEF ImagesTypeOK
  <2> QED
    BY <1>1, <1>7, <2>7, <2>8, <2>9, <2>10, <2>11, <2>12 DEF ImageInv
<1> QED
  BY <1>6, <1>7 DEF CreateRow

LEMMA DeleteImageReadKeeps ==
  ASSUME ImageInv, NEW r \in Uploaders, NEW i \in ImageIds, DeleteImageRead(r, i)
  PROVE  ImageInv'
<1> DEFINE g == image[i].file
           what == [op |-> IF image[i].owner = "ticket" THEN "ticketRow" ELSE "docFile", id |-> i, file |-> g]
<1>1. /\ storing[r] = NotStoring /\ i \in Stored /\ Turns(r, what)
      /\ doomed' = doomed \cup {i}
      /\ UNCHANGED <<image, bucket, ticketLives, tick, uploads, lost>>
  BY DEF DeleteImageRead
<1>2. g \in File
  BY <1>1, StoredRow
<1>3. what \in Storing /\ what.op \in {"ticketRow", "docFile"} /\ what.id = i /\ what.file = g
  BY <1>2 DEF Storing
<1> HIDE DEF what
<1>4. /\ storing' \in [Uploaders -> Storing] /\ storing'[r] = what /\ storing[r].op = "idle"
      /\ \A q \in Uploaders : q # r => storing'[q] = storing[q]
  BY <1>1, <1>3, OneStorerTurns, IdleStorer
<1>5. \A q \in Uploaders, f \in File :
        /\ Holds(q, f)' <=> Holds(q, f)
        /\ Deletes(q, f)' <=> Deletes(q, f) \/ (q = r /\ f = g)
        /\ Finishes(q, f)' <=> Finishes(q, f)
  BY <1>3, <1>4 DEF Holds, Deletes, Finishes
<1>6. \A j \in ImageIds :
        /\ \A f \in File : RowOf(j, f)' <=> RowOf(j, f)
        /\ Spent(j)' <=> Spent(j)
  BY <1>1, <1>3, <1>4 DEF RowOf, Stored, Spent
<1>7. ImagesTypeOK'
  BY <1>1, <1>4 DEF ImageInv, ImagesTypeOK
<1>8. DeletersKnow'
  BY <1>1, <1>3, <1>4 DEF ImageInv, DeletersKnow, Stored
<1>9. RowOf(i, g)
  BY <1>1 DEF RowOf
<1>10. \A f \in File : WrittenOnce(f) => WrittenOnce(f)'
  <2> SUFFICES ASSUME NEW f \in File, WrittenOnce(f)
               PROVE  WrittenOnce(f)'
    OBVIOUS
  <2>1. \A q \in Uploaders : f = g => ~Holds(q, f)
    BY <1>9 DEF WrittenOnce
  <2>2. \A j \in ImageIds : f = g /\ RowOf(j, f) => j = i
    BY <1>9 DEF WrittenOnce
  <2>3. \A q \in Uploaders, j \in ImageIds : Deletes(q, f)' /\ RowOf(j, f)' => j \in doomed'
    BY <1>1, <1>5, <1>6, <2>2 DEF WrittenOnce
  <2> QED
    BY <1>1, <1>5, <1>6, <2>1, <2>3 DEF WrittenOnce
<1>11. \A f \in File : NeverWritten(f) => NeverWritten(f)'
  BY <1>5, <1>6, <1>9 DEF NeverWritten
<1>12. \A f \in File : Covered(f) => Covered(f)'
  BY <1>5, <1>6 DEF Covered
<1>13. bucket' \subseteq File
  BY <1>7 DEF ImagesTypeOK
<1> QED
  BY <1>1, <1>7, <1>8, <1>10, <1>11, <1>12, <1>13 DEF ImageInv

\* The file goes; the row it had is spent, or gone already.
LEMMA DeleteImageFileKeeps ==
  ASSUME ImageInv, NEW r \in Uploaders, DeleteImageFile(r)
  PROVE  ImageInv'
<1> DEFINE g == storing[r].file
           k == storing[r].id
           what == IF storing[r].op = "ticketFile" THEN NotStoring ELSE [storing[r] EXCEPT !.op = "docRow"]
<1>1. /\ storing[r].op \in {"docFile", "ticketFile"} /\ Turns(r, what)
      /\ bucket' = bucket \ Deleted(g)
      /\ UNCHANGED <<image, ticketLives, tick, uploads, doomed, lost>>
  BY DEF DeleteImageFile
<1>2. /\ storing[r] \in [op : {"docFile", "docRow", "ticketRow", "ticketFile"}, id : ImageIds, file : File]
      /\ k \in ImageIds /\ g \in File
  BY <1>1, StorerHolds
<1>3. /\ what \in Storing
      /\ storing[r].op = "ticketFile" => what.op = "idle"
      /\ storing[r].op = "docFile" => what.op = "docRow" /\ what.id = k /\ what.file = g
  BY <1>1, <1>2, IdleStorer DEF Storing
<1> HIDE DEF what
<1>4. /\ storing' \in [Uploaders -> Storing] /\ storing'[r] = what
      /\ \A q \in Uploaders : q # r => storing'[q] = storing[q]
  BY <1>1, <1>3, OneStorerTurns
<1>5. what.op \in {"idle", "docRow"} /\ (what.op = "docRow" => what.id = k /\ what.file = g)
  BY <1>1, <1>3
<1>6. \A q \in Uploaders, f \in File :
        /\ Holds(q, f)' <=> Holds(q, f)
        /\ Deletes(q, f)' => Deletes(q, f)
        /\ Finishes(q, f) /\ f # g => Finishes(q, f)'
  BY <1>1, <1>4, <1>5 DEF Holds, Deletes, Finishes
<1>7. Deletes(r, g)
  BY <1>1 DEF Deletes
<1>8. \A j \in ImageIds :
        /\ \A f \in File : RowOf(j, f)' <=> RowOf(j, f)
        /\ Spent(j)' => Spent(j) \/ j = k
  BY <1>1, <1>4, <1>5 DEF RowOf, Stored, Spent
<1>9. ImagesTypeOK'
  BY <1>1, <1>4 DEF ImageInv, ImagesTypeOK
<1>10. /\ k \in doomed
       /\ k \in Stored => image[k].file = g
  BY <1>1 DEF ImageInv, DeletersKnow
<1>11. DeletersKnow'
  BY <1>1, <1>4, <1>5, <1>10 DEF ImageInv, DeletersKnow, Stored
<1>12. \A f \in File : WrittenOnce(f) => WrittenOnce(f)'
  <2> SUFFICES ASSUME NEW f \in File, WrittenOnce(f)
               PROVE  WrittenOnce(f)'
    OBVIOUS
  <2>1. CASE f = g
    <3>1. /\ \A q \in Uploaders : ~Holds(q, f)
          /\ \A j \in ImageIds : RowOf(j, f) => j \in doomed
      BY <1>7, <2>1 DEF WrittenOnce
    <3> QED
      BY <1>1, <1>6, <1>8, <3>1 DEF WrittenOnce
  <2>2. CASE f # g
    <3>1. f \in bucket' <=> f \in bucket
      BY <1>1, <2>2 DEF Deleted
    <3> QED
      BY <1>1, <1>6, <1>8, <3>1 DEF WrittenOnce
  <2> QED
    BY <2>1, <2>2
<1>13. \A f \in File : NeverWritten(f) => NeverWritten(f)'
  BY <1>6, <1>8 DEF NeverWritten
<1>14. \A f \in File : Covered(f) /\ f # g => Covered(f)'
  <2> SUFFICES ASSUME NEW f \in File, Covered(f), f # g
               PROVE  Covered(f)'
    OBVIOUS
  <2>1. ASSUME NEW j \in ImageIds, RowOf(j, f), ~Spent(j)
        PROVE  Covered(f)'
    <3>1. j # k
      BY <1>10, <2>1 DEF RowOf
    <3> QED
      BY <1>8, <2>1, <3>1 DEF Covered
  <2>2. ASSUME NEW q \in Uploaders, Holds(q, f) \/ Finishes(q, f)
        PROVE  Covered(f)'
    BY <1>6, <2>2 DEF Covered
  <2> QED
    BY <2>1, <2>2 DEF Covered
<1>15. bucket' \subseteq File
  BY <1>9 DEF ImagesTypeOK
<1>16. g \in bucket' => g \in Spared
  BY <1>1 DEF Deleted
<1>17. /\ \A f \in bucket' \ (lost' \cup Spared) : f \in bucket \ (lost \cup Spared) /\ f # g
       /\ \A f \in Spared : f \in bucket' <=> f \in bucket
  BY <1>1, <1>16 DEF Deleted
<1> QED
  BY <1>1, <1>9, <1>11, <1>12, <1>13, <1>14, <1>15, <1>17 DEF ImageInv

\* A row that goes before its file leaves the request on the file.
LEMMA DeleteImageRowKeeps ==
  ASSUME ImageInv, NEW r \in Uploaders, DeleteImageRow(r)
  PROVE  ImageInv'
<1> DEFINE g == storing[r].file
           k == storing[r].id
           what == IF storing[r].op = "ticketRow" /\ k \in Stored
                   THEN [storing[r] EXCEPT !.op = "ticketFile"] ELSE NotStoring
<1>1. /\ storing[r].op \in {"docRow", "ticketRow"} /\ Turns(r, what)
      /\ image' = [image EXCEPT ![k] = NoImage]
      /\ UNCHANGED <<bucket, ticketLives, tick, uploads, doomed, lost>>
  BY DEF DeleteImageRow
<1>2. /\ storing[r] \in [op : {"docFile", "docRow", "ticketRow", "ticketFile"}, id : ImageIds, file : File]
      /\ k \in ImageIds /\ g \in File
  BY <1>1, StorerHolds
<1>3. /\ what \in Storing
      /\ storing[r].op = "ticketRow" /\ k \in Stored => what.op = "ticketFile" /\ what.id = k /\ what.file = g
      /\ what.op # "idle" => what.op = "ticketFile" /\ what.id = k /\ what.file = g
  BY <1>1, <1>2, IdleStorer DEF Storing
<1> HIDE DEF what
<1>4. /\ storing' \in [Uploaders -> Storing] /\ storing'[r] = what
      /\ \A q \in Uploaders : q # r => storing'[q] = storing[q]
  BY <1>1, <1>3, OneStorerTurns
<1>5. /\ image' \in [ImageIds -> Image \cup {NoImage}] /\ image'[k] = NoImage
      /\ \A j \in ImageIds : j # k => image'[j] = image[j]
  BY <1>1, <1>2 DEF ImageInv, ImagesTypeOK
<1>6. \A j \in ImageIds : j \in Stored' <=> j \in Stored /\ j # k
  BY <1>5 DEF Stored
<1>7. \A j \in ImageIds, f \in File : RowOf(j, f)' <=> RowOf(j, f) /\ j # k
  BY <1>5, <1>6 DEF RowOf
<1>8. \A q \in Uploaders, f \in File :
        /\ Holds(q, f)' <=> Holds(q, f)
        /\ Deletes(q, f)' => Deletes(q, f)
        /\ Finishes(q, f) => Finishes(q, f)'
  BY <1>1, <1>3, <1>4 DEF Holds, Deletes, Finishes
<1>9. \A j \in ImageIds : j # k /\ Spent(j)' => Spent(j)
  BY <1>1, <1>3, <1>4, <1>5 DEF Spent
<1>10. /\ k \in doomed
       /\ k \in Stored => image[k].file = g
  BY <1>1 DEF ImageInv, DeletersKnow
<1>11. ImagesTypeOK'
  BY <1>1, <1>4, <1>5 DEF ImageInv, ImagesTypeOK
<1>12. DeletersKnow'
  <2> SUFFICES ASSUME NEW q \in Uploaders
               PROVE  /\ storing'[q].op \in {"docFile", "docRow", "ticketRow", "ticketFile"} =>
                           /\ storing'[q].id \in doomed
                           /\ storing'[q].id \in Stored' => image'[storing'[q].id].file = storing'[q].file
                      /\ storing'[q].op = "deleteTicket" => storing'[q].read \subseteq doomed
    BY <1>1 DEF DeletersKnow
  <2>1. CASE q = r
    BY <1>2, <1>3, <1>4, <1>6, <1>10, <2>1
  <2>2. CASE q # r
    <3>1. storing'[q] = storing[q]
      BY <1>4, <2>2
    <3>2. \A j \in Stored' : j \in Stored /\ image'[j] = image[j]
      BY <1>5, <1>6 DEF Stored
    <3> QED
      BY <3>1, <3>2 DEF ImageInv, DeletersKnow
  <2> QED
    BY <2>1, <2>2
<1>13. \A f \in File : WrittenOnce(f) => WrittenOnce(f)'
  BY <1>1, <1>7, <1>8 DEF WrittenOnce
<1>14. \A f \in File : NeverWritten(f) => NeverWritten(f)'
  BY <1>7, <1>8 DEF NeverWritten
<1>15. \A f \in File : Covered(f) => Covered(f)'
  <2> SUFFICES ASSUME NEW f \in File, Covered(f)
               PROVE  Covered(f)'
    OBVIOUS
  <2>1. ASSUME NEW j \in ImageIds, RowOf(j, f), ~Spent(j)
        PROVE  Covered(f)'
    <3>1. CASE j # k
      BY <1>7, <1>9, <2>1, <3>1 DEF Covered
    <3>2. CASE j = k
      <4>1. storing[r].op = "ticketRow"
        BY <1>1, <2>1, <3>2 DEF Spent
      <4>2. k \in Stored /\ f = g
        BY <1>10, <2>1, <3>2 DEF RowOf
      <4> QED
        BY <1>3, <1>4, <4>1, <4>2 DEF Covered, Finishes
    <3> QED
      BY <3>1, <3>2
  <2>2. ASSUME NEW q \in Uploaders, Holds(q, f) \/ Finishes(q, f)
        PROVE  Covered(f)'
    BY <1>8, <2>2 DEF Covered
  <2> QED
    BY <2>1, <2>2 DEF Covered
<1>16. bucket' \subseteq File
  BY <1>11 DEF ImagesTypeOK
<1> QED
  BY <1>1, <1>11, <1>12, <1>13, <1>14, <1>15, <1>16 DEF ImageInv

\* A renamed image keeps its file.
LEMMA RenameImageKeeps ==
  ASSUME ImageInv, NEW i \in ImageIds, NEW n \in ImageNames, RenameImage(i, n)
  PROVE  ImageInv'
<1>1. /\ i \in Stored /\ image' = [image EXCEPT ![i].name = n]
      /\ UNCHANGED <<bucket, ticketLives, tick, storing, uploads, doomed, lost>>
  BY DEF RenameImage
<1>2. image[i] \in Image
  BY <1>1, StoredRow
<1>3. /\ image'[i] \in Image /\ image'[i].file = image[i].file /\ image'[i] # NoImage
      /\ \A j \in ImageIds : j # i => image'[j] = image[j]
      /\ image' \in [ImageIds -> Image \cup {NoImage}]
  BY <1>1, <1>2 DEF ImageInv, ImagesTypeOK, Image, NoImage, Owners
<1>4. \A j \in ImageIds : (j \in Stored' <=> j \in Stored) /\ (j \in Stored => image'[j].file = image[j].file)
  BY <1>1, <1>3 DEF Stored
<1>5. \A q \in Uploaders, f \in File :
        /\ Holds(q, f)' <=> Holds(q, f)
        /\ Deletes(q, f)' <=> Deletes(q, f)
        /\ Finishes(q, f)' <=> Finishes(q, f)
  BY <1>1 DEF Holds, Deletes, Finishes
<1>6. \A j \in ImageIds, f \in File : RowOf(j, f)' <=> RowOf(j, f)
  BY <1>4 DEF RowOf
<1>7. \A j \in Stored : Spent(j)' <=> Spent(j)
  BY <1>1, <1>4 DEF Spent, Stored
<1>8. \A f \in File, j \in ImageIds : RowOf(j, f) => (Spent(j)' <=> Spent(j))
  BY <1>7 DEF RowOf
<1>9. ImagesTypeOK'
  BY <1>1, <1>3 DEF ImageInv, ImagesTypeOK
<1>10. DeletersKnow'
  <2> SUFFICES ASSUME NEW q \in Uploaders,
                      storing[q].op \in {"docFile", "docRow", "ticketRow", "ticketFile"},
                      storing[q].id \in Stored'
               PROVE  image'[storing[q].id].file = storing[q].file
    BY <1>1 DEF ImageInv, DeletersKnow
  <2>1. storing[q].id \in ImageIds
    BY StorerHolds
  <2> QED
    BY <1>4, <2>1 DEF ImageInv, DeletersKnow
<1>11. \A f \in File : WrittenOnce(f)' <=> WrittenOnce(f)
  BY <1>1, <1>5, <1>6 DEF WrittenOnce
<1>12. \A f \in File : NeverWritten(f)' <=> NeverWritten(f)
  BY <1>5, <1>6 DEF NeverWritten
<1>13. \A f \in File : Covered(f) => Covered(f)'
  BY <1>5, <1>6, <1>8 DEF Covered
<1>14. bucket' \subseteq File
  BY <1>9 DEF ImagesTypeOK
<1> QED
  BY <1>1, <1>9, <1>10, <1>11, <1>12, <1>13, <1>14 DEF ImageInv

LEMMA DeleteTicketReadKeeps ==
  ASSUME ImageInv, NEW r \in Uploaders, DeleteTicketRead(r)
  PROVE  ImageInv'
<1> DEFINE what == [op |-> "deleteTicket", read |-> OfTicket, files |-> FilesOf(OfTicket)]
<1>1. /\ storing[r] = NotStoring /\ Turns(r, what)
      /\ doomed' = doomed \cup OfTicket
      /\ UNCHANGED <<image, bucket, ticketLives, tick, uploads, lost>>
  BY DEF DeleteTicketRead, TicketFiles
<1>2. OfTicket \subseteq Stored /\ OfTicket \subseteq ImageIds /\ FilesOf(OfTicket) \subseteq File
  BY StoredRow DEF OfTicket, FilesOf, Stored
<1>3. /\ what \in Storing /\ what.op = "deleteTicket"
      /\ what.read = OfTicket /\ what.files = FilesOf(OfTicket)
  BY <1>2 DEF Storing
<1> HIDE DEF what
<1>4. /\ storing' \in [Uploaders -> Storing] /\ storing'[r] = what /\ storing[r].op = "idle"
      /\ \A q \in Uploaders : q # r => storing'[q] = storing[q]
  BY <1>1, <1>3, OneStorerTurns, IdleStorer
<1>5. \A q \in Uploaders, f \in File :
        /\ Holds(q, f)' <=> Holds(q, f)
        /\ Deletes(q, f)' <=> Deletes(q, f) \/ (q = r /\ f \in FilesOf(OfTicket))
        /\ Finishes(q, f)' <=> Finishes(q, f)
  BY <1>3, <1>4 DEF Holds, Deletes, Finishes
<1>6. \A j \in ImageIds, f \in File : RowOf(j, f)' <=> RowOf(j, f)
  BY <1>1 DEF RowOf, Stored
<1>7. \A j \in ImageIds : Spent(j)' => Spent(j)
  <2> SUFFICES ASSUME NEW j \in ImageIds, NEW q \in Uploaders,
                      \/ storing'[q].op = "docRow" /\ storing'[q].id = j
                      \/ /\ storing'[q].op = "deleteTicket" /\ j \in storing'[q].read
                         /\ image[j].file \notin storing'[q].files
               PROVE  Spent(j)
    BY <1>1 DEF Spent
  <2>1. CASE q = r
    BY <1>3, <1>4, <2>1 DEF FilesOf
  <2>2. CASE q # r
    BY <1>4, <2>2 DEF Spent
  <2> QED
    BY <2>1, <2>2
<1>8. ImagesTypeOK'
  BY <1>1, <1>2, <1>4 DEF ImageInv, ImagesTypeOK
<1>9. DeletersKnow'
  <2> SUFFICES ASSUME NEW q \in Uploaders
               PROVE  /\ storing'[q].op \in {"docFile", "docRow", "ticketRow", "ticketFile"} =>
                           /\ storing'[q].id \in doomed'
                           /\ storing'[q].id \in Stored => image[storing'[q].id].file = storing'[q].file
                      /\ storing'[q].op = "deleteTicket" => storing'[q].read \subseteq doomed'
    BY <1>1 DEF DeletersKnow, Stored
  <2>1. CASE q = r
    BY <1>1, <1>3, <1>4, <2>1
  <2>2. CASE q # r
    <3>1. storing'[q] = storing[q]
      BY <1>4, <2>2
    <3> QED
      BY <1>1, <3>1 DEF ImageInv, DeletersKnow
  <2> QED
    BY <2>1, <2>2
<1>10. \A f \in FilesOf(OfTicket) : \E i \in OfTicket : RowOf(i, f)
  BY <1>2 DEF FilesOf, RowOf
<1>11. \A f \in File : WrittenOnce(f) => WrittenOnce(f)'
  <2> SUFFICES ASSUME NEW f \in File, WrittenOnce(f)
               PROVE  WrittenOnce(f)'
    OBVIOUS
  <2>1. f \in FilesOf(OfTicket) =>
          /\ \A q \in Uploaders : ~Holds(q, f)
          /\ \A j \in ImageIds : RowOf(j, f) => j \in OfTicket
    BY <1>2, <1>10 DEF WrittenOnce
  <2>2. \A q \in Uploaders, j \in ImageIds : Deletes(q, f)' /\ RowOf(j, f)' => j \in doomed'
    BY <1>1, <1>5, <1>6, <2>1 DEF WrittenOnce
  <2> QED
    BY <1>1, <1>5, <1>6, <2>1, <2>2 DEF WrittenOnce
<1>12. \A f \in File : NeverWritten(f) => NeverWritten(f)'
  BY <1>2, <1>5, <1>6, <1>10 DEF NeverWritten
<1>13. \A f \in File : Covered(f) => Covered(f)'
  BY <1>5, <1>6, <1>7 DEF Covered
<1>14. bucket' \subseteq File
  BY <1>8 DEF ImagesTypeOK
<1> QED
  BY <1>1, <1>8, <1>9, <1>11, <1>12, <1>13, <1>14 DEF ImageInv

LEMMA DeleteTicketFileKeeps ==
  ASSUME ImageInv, NEW r \in Uploaders, DeleteTicketFile(r)
  PROVE  ImageInv'
<1>0. PICK g \in storing[r].files :
        /\ bucket' = bucket \ Deleted(g)
        /\ Turns(r, [storing[r] EXCEPT !.files = @ \ {g}])
  BY DEF DeleteTicketFile
<1> DEFINE what == [storing[r] EXCEPT !.files = @ \ {g}]
<1>1. /\ storing[r].op = "deleteTicket" /\ Turns(r, what)
      /\ bucket' = bucket \ Deleted(g)
      /\ UNCHANGED <<image, ticketLives, tick, uploads, doomed, lost>>
  BY <1>0 DEF DeleteTicketFile
<1>2. /\ storing[r] \in [op : {"deleteTicket"}, read : SUBSET ImageIds, files : SUBSET File]
      /\ g \in File
  BY <1>1, StorerHolds
<1>3. /\ what \in Storing /\ what.op = "deleteTicket"
      /\ what.read = storing[r].read /\ what.files = storing[r].files \ {g}
  BY <1>2 DEF Storing
<1> HIDE DEF what
<1>4. /\ storing' \in [Uploaders -> Storing] /\ storing'[r] = what
      /\ \A q \in Uploaders : q # r => storing'[q] = storing[q]
  BY <1>1, <1>3, OneStorerTurns
<1>5. \A q \in Uploaders, f \in File :
        /\ Holds(q, f)' <=> Holds(q, f)
        /\ Deletes(q, f)' => Deletes(q, f)
        /\ Finishes(q, f)' <=> Finishes(q, f)
  BY <1>1, <1>3, <1>4 DEF Holds, Deletes, Finishes
<1>6. \A j \in ImageIds, f \in File : RowOf(j, f)' <=> RowOf(j, f)
  BY <1>1 DEF RowOf, Stored
<1>7. \A j \in ImageIds : Spent(j)' => Spent(j) \/ image[j].file = g
  <2> SUFFICES ASSUME NEW j \in ImageIds, NEW q \in Uploaders, image[j].file # g,
                      \/ storing'[q].op = "docRow" /\ storing'[q].id = j
                      \/ /\ storing'[q].op = "deleteTicket" /\ j \in storing'[q].read
                         /\ image[j].file \notin storing'[q].files
               PROVE  Spent(j)
    BY <1>1 DEF Spent
  <2>1. CASE q = r
    BY <1>1, <1>3, <1>4, <2>1 DEF Spent
  <2>2. CASE q # r
    BY <1>4, <2>2 DEF Spent
  <2> QED
    BY <2>1, <2>2
<1>8. ImagesTypeOK'
  BY <1>1, <1>4 DEF ImageInv, ImagesTypeOK
<1>9. DeletersKnow'
  <2> SUFFICES ASSUME NEW q \in Uploaders
               PROVE  /\ storing'[q].op \in {"docFile", "docRow", "ticketRow", "ticketFile"} =>
                           /\ storing'[q].id \in doomed
                           /\ storing'[q].id \in Stored => image[storing'[q].id].file = storing'[q].file
                      /\ storing'[q].op = "deleteTicket" => storing'[q].read \subseteq doomed
    BY <1>1 DEF DeletersKnow, Stored
  <2>1. CASE q = r
    BY <1>1, <1>3, <1>4, <2>1 DEF ImageInv, DeletersKnow
  <2>2. CASE q # r
    <3>1. storing'[q] = storing[q]
      BY <1>4, <2>2
    <3> QED
      BY <1>1, <3>1 DEF ImageInv, DeletersKnow
  <2> QED
    BY <2>1, <2>2
<1>10. Deletes(r, g)
  BY <1>1 DEF Deletes
<1>11. \A f \in File : WrittenOnce(f) => WrittenOnce(f)'
  <2> SUFFICES ASSUME NEW f \in File, WrittenOnce(f)
               PROVE  WrittenOnce(f)'
    OBVIOUS
  <2>1. CASE f = g
    <3>1. /\ \A q \in Uploaders : ~Holds(q, f)
          /\ \A j \in ImageIds : RowOf(j, f) => j \in doomed
      BY <1>10, <2>1 DEF WrittenOnce
    <3> QED
      BY <1>1, <1>5, <1>6, <3>1 DEF WrittenOnce
  <2>2. CASE f # g
    <3>1. f \in bucket' <=> f \in bucket
      BY <1>1, <2>2 DEF Deleted
    <3> QED
      BY <1>1, <1>5, <1>6, <3>1 DEF WrittenOnce
  <2> QED
    BY <2>1, <2>2
<1>12. \A f \in File : NeverWritten(f) => NeverWritten(f)'
  BY <1>5, <1>6 DEF NeverWritten
<1>13. \A f \in File : Covered(f) /\ f # g => Covered(f)'
  BY <1>5, <1>6, <1>7 DEF Covered, RowOf
<1>14. bucket' \subseteq File
  BY <1>8 DEF ImagesTypeOK
<1>15. g \in bucket' => g \in Spared
  BY <1>1 DEF Deleted
<1>16. /\ \A f \in bucket' \ (lost' \cup Spared) : f \in bucket \ (lost \cup Spared) /\ f # g
       /\ \A f \in Spared : f \in bucket' <=> f \in bucket
  BY <1>1, <1>15 DEF Deleted
<1> QED
  BY <1>1, <1>8, <1>9, <1>11, <1>12, <1>13, <1>14, <1>16 DEF ImageInv

\* A row the deletion of the ticket did not read leaves its file behind, counted as lost.
LEMMA DeleteTicketRowKeeps ==
  ASSUME ImageInv, NEW r \in Uploaders, DeleteTicketRow(r)
  PROVE  ImageInv'
<1>1. /\ storing[r].op = "deleteTicket" /\ storing[r].files = {} /\ Turns(r, NotStoring)
      /\ ticketLives' = FALSE
      /\ image' = [i \in ImageIds |-> IF i \in OfTicket THEN NoImage ELSE image[i]]
      /\ doomed' = doomed \cup OfTicket
      /\ lost' = lost \cup FilesOf(OfTicket \ storing[r].read)
      /\ UNCHANGED <<bucket, tick, uploads>>
  BY DEF DeleteTicketRow
<1>2. OfTicket \subseteq Stored /\ OfTicket \subseteq ImageIds /\ FilesOf(OfTicket \ storing[r].read) \subseteq File
  BY StoredRow DEF OfTicket, FilesOf, Stored
<1>3. /\ storing' \in [Uploaders -> Storing] /\ storing'[r].op = "idle"
      /\ \A q \in Uploaders : q # r => storing'[q] = storing[q]
  BY <1>1, OneStorerTurns, IdleStorer
<1>4. /\ image' \in [ImageIds -> Image \cup {NoImage}]
      /\ \A j \in OfTicket : image'[j] = NoImage
      /\ \A j \in ImageIds \ OfTicket : image'[j] = image[j]
  BY <1>1, <1>2 DEF ImageInv, ImagesTypeOK
<1>5. \A j \in ImageIds : j \in Stored' <=> j \in Stored /\ j \notin OfTicket
  BY <1>2, <1>4 DEF Stored
<1>6. \A j \in ImageIds, f \in File : RowOf(j, f)' <=> RowOf(j, f) /\ j \notin OfTicket
  BY <1>4, <1>5 DEF RowOf
<1>7. \A q \in Uploaders, f \in File :
        /\ Holds(q, f)' <=> Holds(q, f)
        /\ Deletes(q, f)' => Deletes(q, f)
        /\ Finishes(q, f)' <=> Finishes(q, f)
  BY <1>1, <1>3 DEF Holds, Deletes, Finishes
<1>8. \A j \in ImageIds \ OfTicket : Spent(j)' => Spent(j)
  BY <1>1, <1>3, <1>4 DEF Spent
<1>9. ImagesTypeOK'
  BY <1>1, <1>2, <1>3, <1>4 DEF ImageInv, ImagesTypeOK
<1>10. DeletersKnow'
  <2> SUFFICES ASSUME NEW q \in Uploaders, q # r
               PROVE  /\ storing[q].op \in {"docFile", "docRow", "ticketRow", "ticketFile"} =>
                           /\ storing[q].id \in doomed'
                           /\ storing[q].id \in Stored' => image'[storing[q].id].file = storing[q].file
                      /\ storing[q].op = "deleteTicket" => storing[q].read \subseteq doomed'
    BY <1>3 DEF DeletersKnow
  <2>1. \A j \in Stored' : j \in Stored /\ image'[j] = image[j]
    BY <1>4, <1>5 DEF Stored
  <2> QED
    BY <1>1, <2>1 DEF ImageInv, DeletersKnow
<1>11. \A f \in File : WrittenOnce(f) => WrittenOnce(f)'
  BY <1>1, <1>6, <1>7 DEF WrittenOnce
<1>12. \A f \in File : NeverWritten(f) => NeverWritten(f)'
  BY <1>6, <1>7 DEF NeverWritten
<1>13. \A f \in File : Covered(f) /\ f \notin FilesOf(OfTicket \ storing[r].read) => Covered(f)'
  <2> SUFFICES ASSUME NEW f \in File, Covered(f), f \notin FilesOf(OfTicket \ storing[r].read)
               PROVE  Covered(f)'
    OBVIOUS
  <2>1. ASSUME NEW j \in ImageIds, RowOf(j, f), ~Spent(j)
        PROVE  Covered(f)'
    <3>1. j \notin OfTicket
      <4> SUFFICES ASSUME j \in OfTicket
                   PROVE  FALSE
        OBVIOUS
      <4>1. j \in storing[r].read
        BY <2>1 DEF RowOf, FilesOf
      <4> QED
        BY <1>1, <2>1, <4>1 DEF Spent
    <3> QED
      BY <1>6, <1>8, <2>1, <3>1 DEF Covered
  <2>2. ASSUME NEW q \in Uploaders, Holds(q, f) \/ Finishes(q, f)
        PROVE  Covered(f)'
    BY <1>7, <2>2 DEF Covered
  <2> QED
    BY <2>1, <2>2 DEF Covered
<1>14. bucket' \subseteq File
  BY <1>9 DEF ImagesTypeOK
<1> QED
  BY <1>1, <1>9, <1>10, <1>11, <1>12, <1>13, <1>14 DEF ImageInv

\* Only a request on a file, ended early, leaves it without one.
LEMMA RequestFailsKeeps ==
  ASSUME ImageInv, NEW r \in Uploaders, RequestFails(r)
  PROVE  ImageInv'
<1> DEFINE left == IF storing[r].op \in {"createRow", "ticketFile"} THEN {storing[r].file} ELSE {}
<1>1. /\ Turns(r, NotStoring) /\ lost' = lost \cup left
      /\ UNCHANGED <<image, bucket, ticketLives, tick, uploads, doomed>>
  BY DEF RequestFails
<1>2. left \subseteq File
  BY StorerHolds
<1>3. /\ storing' \in [Uploaders -> Storing] /\ storing'[r].op = "idle"
      /\ \A q \in Uploaders : q # r => storing'[q] = storing[q]
  BY <1>1, OneStorerTurns, IdleStorer
<1>4. \A f \in File : Holds(r, f) \/ Finishes(r, f) => f \in left
  BY DEF Holds, Finishes
<1> HIDE DEF left
<1>5. \A q \in Uploaders, f \in File :
        /\ Holds(q, f)' <=> Holds(q, f) /\ q # r
        /\ Deletes(q, f)' => Deletes(q, f)
        /\ Finishes(q, f)' <=> Finishes(q, f) /\ q # r
  BY <1>3 DEF Holds, Deletes, Finishes
<1>6. \A j \in ImageIds :
        /\ \A f \in File : RowOf(j, f)' <=> RowOf(j, f)
        /\ Spent(j)' => Spent(j)
  BY <1>1, <1>3 DEF RowOf, Stored, Spent
<1>7. ImagesTypeOK'
  BY <1>1, <1>2, <1>3 DEF ImageInv, ImagesTypeOK
<1>8. DeletersKnow'
  BY <1>1, <1>3 DEF ImageInv, DeletersKnow, Stored
<1>9. \A f \in File : WrittenOnce(f) => WrittenOnce(f)'
  BY <1>1, <1>5, <1>6 DEF WrittenOnce
<1>10. \A f \in File : NeverWritten(f) => NeverWritten(f)'
  BY <1>5, <1>6 DEF NeverWritten
<1>11. \A f \in File : Covered(f) /\ f \notin left => Covered(f)'
  BY <1>4, <1>5, <1>6 DEF Covered
<1>12. bucket' \subseteq File
  BY <1>7 DEF ImagesTypeOK
<1> QED
  BY <1>1, <1>7, <1>8, <1>9, <1>10, <1>11, <1>12 DEF ImageInv

LEMMA ImageInvTime ==
  ASSUME ImageInv, TimePasses \/ UNCHANGED imageVars
  PROVE  ImageInv'
<1>1. /\ UNCHANGED <<image, bucket, ticketLives, storing, uploads, doomed, lost>>
      /\ tick' \in Ticks
  BY ImageBounds DEF TimePasses, imageVars, ImageInv, ImagesTypeOK, Ticks
<1>2. \A q \in Uploaders, f \in File :
        /\ Holds(q, f)' <=> Holds(q, f)
        /\ Deletes(q, f)' <=> Deletes(q, f)
        /\ Finishes(q, f)' <=> Finishes(q, f)
  BY <1>1 DEF Holds, Deletes, Finishes
<1>3. \A i \in ImageIds :
        /\ \A f \in File : RowOf(i, f)' <=> RowOf(i, f)
        /\ Spent(i)' <=> Spent(i)
  BY <1>1 DEF RowOf, Stored, Spent
<1>4. ImagesTypeOK' /\ DeletersKnow'
  BY <1>1 DEF ImageInv, ImagesTypeOK, DeletersKnow, Stored
<1>5. \A f \in File :
        /\ WrittenOnce(f)' <=> WrittenOnce(f)
        /\ NeverWritten(f)' <=> NeverWritten(f)
        /\ Covered(f)' <=> Covered(f)
  BY <1>1, <1>2, <1>3 DEF WrittenOnce, NeverWritten, Covered
<1> QED
  BY <1>1, <1>4, <1>5 DEF ImageInv, ImagesTypeOK

LEMMA ImageInvInductive ==
  /\ ImagesInit => ImageInv
  /\ ImageInv /\ [ImagesNext]_imageVars => ImageInv'
<1>1. ASSUME ImagesInit
      PROVE  ImageInv
  <2>1. ImagesTypeOK
    BY <1>1, ImageBounds, IdleStorer DEF ImagesInit, ImagesTypeOK, Ticks
  <2>2. Stored = {}
    BY <1>1 DEF ImagesInit, Stored
  <2>3. \A r \in Uploaders : storing[r].op = "idle"
    BY <1>1, IdleStorer DEF ImagesInit
  <2>4. \A f \in File : NeverWritten(f)
    BY <2>2, <2>3 DEF NeverWritten, RowOf, Holds, Deletes
  <2>5. \A f \in File : WrittenOnce(f)
    BY <2>4 DEF NeverWritten, WrittenOnce
  <2> QED
    BY <1>1, <2>1, <2>3, <2>4, <2>5, SparedFiles DEF ImageInv, ImagesInit, DeletersKnow
<1>2. ASSUME ImageInv, [ImagesNext]_imageVars
      PROVE  ImageInv'
  BY <1>2, UploadCheckKeeps, UploadFileKeeps, CreateRowKeeps, DeleteImageReadKeeps,
     DeleteImageFileKeeps, DeleteImageRowKeeps, DeleteTicketReadKeeps, DeleteTicketFileKeeps,
     DeleteTicketRowKeeps, RequestFailsKeeps, RenameImageKeeps, ImageInvTime
     DEF ImagesNext
<1> QED
  BY <1>1, <1>2

\* Whoever deletes a file has begun to delete its row, and every file in the bucket
\* that no request gave up has a row or a request on it: for any number of
\* requests, of images and of ticks.  (qa.service.ts:762-922, tickets.service.ts:631-658)
THEOREM ImageInvAlways == ImagesSpec => []ImageInv
  BY ImageInvInductive, PTL DEF ImagesSpec

LEMMA ImageInvMatches ==
  ImageInv => FilesMatchRows
<1> SUFFICES ASSUME ImageInv
             PROVE  FilesMatchRows
  OBVIOUS
<1>1. ASSUME NEW i \in Stored \ doomed, image[i].file \notin bucket
      PROVE  uploads[image[i].file] > 1
  <2>1. image[i].file \in File /\ i \in ImageIds
    BY StoredRow
  <2>2. ~WrittenOnce(image[i].file)
    BY <1>1, <2>1 DEF WrittenOnce, RowOf
  <2>3. uploads[image[i].file] \in 0..2
    BY <2>1 DEF ImageInv, ImagesTypeOK
  <2> QED
    BY <2>1, <2>2, <2>3 DEF ImageInv
<1>2. ASSUME NEW f \in bucket \ (lost \cup Spared)
      PROVE  f \in FilesOf(Stored) \cup InFlight
  BY <1>2 DEF ImageInv, Covered, RowOf, Holds, Finishes, FilesOf, InFlight
<1> QED
  BY <1>1, <1>2 DEF FilesMatchRows, ImageInv

\* A listed image can be opened and a file has an image, but for the exceptions
\* the property names, in every interleaving of uploads, deletions and failures.
\* (qa.service.ts:762-922, google-cloud-storage.service.ts:35-120)
THEOREM FilesMatchRowsAlways == ImagesSpec => []FilesMatchRows
  BY ImageInvAlways, ImageInvMatches, PTL

-----------------------------------------------------------------------------
(* RateLimiter: the requests of the window are the last ones let through.  *)
\* The times do not go back; the requests of the window are the last ones, the
\* first of them opened it, and those a whole limit before them lie more than a
\* window before it.
InOrder == \A i, j \in DOMAIN accepted : i <= j => accepted[i] <= accepted[j]
NoneLater == \A i \in DOMAIN accepted : accepted[i] <= time
WindowOpened ==
  IF limiter = NoRecord THEN accepted = <<>>
  ELSE LET first == Len(accepted) - limiter.count + 1 IN
         /\ first \in DOMAIN accepted
         /\ limiter.resetAt = accepted[first] + WindowSpan
         /\ \A i \in DOMAIN accepted : i + Limit <= first => accepted[first] - accepted[i] > WindowSpan

LimiterInv == RateLimiterTypeOK /\ InOrder /\ NoneLater /\ WindowOpened /\ NoDoubleLimit

LEMMA LimiterRecord ==
  ASSUME LimiterInv, limiter # NoRecord
  PROVE  /\ limiter \in [count : 1..Limit, resetAt : WindowSpan..(EndOfTime + WindowSpan)]
         /\ limiter.count \in 1..Limit /\ limiter.resetAt \in Nat
  BY LimiterBounds DEF LimiterInv, RateLimiterTypeOK

\* What one more request adds to the list.
LEMMA OneMore ==
  ASSUME LimiterInv, LetThrough
  PROVE  LET n == Len(accepted) IN
         /\ n \in Nat /\ DOMAIN accepted = 1..n
         /\ accepted' \in Seq(Times) /\ Len(accepted') = n + 1 /\ DOMAIN accepted' = 1..(n + 1)
         /\ \A i \in 1..n : accepted'[i] = accepted[i] /\ accepted[i] \in Nat
         /\ accepted'[n + 1] = time /\ time \in Nat
         /\ \A i \in 1..(n + 1) : accepted'[i] <= time
         /\ \A i, j \in 1..(n + 1) : i <= j => accepted'[i] <= accepted'[j]
<1> DEFINE n == Len(accepted)
<1>1. accepted \in Seq(Times) /\ time \in Times /\ Times \subseteq Nat
  BY DEF LimiterInv, RateLimiterTypeOK, Times
<1>2. accepted' = Append(accepted, time)
  BY DEF LetThrough
<1>3. /\ n \in Nat /\ DOMAIN accepted = 1..n
      /\ \A i \in 1..n : accepted[i] \in Times
  BY <1>1
<1>4. /\ accepted' \in Seq(Times) /\ Len(accepted') = n + 1 /\ DOMAIN accepted' = 1..(n + 1)
      /\ \A i \in 1..n : accepted'[i] = accepted[i]
      /\ accepted'[n + 1] = time
  BY <1>1, <1>2, AppendProperties
<1>5. \A i \in 1..n : accepted[i] <= time
  BY <1>3 DEF LimiterInv, NoneLater
<1>6. \A i, j \in 1..n : i <= j => accepted[i] <= accepted[j]
  BY <1>3 DEF LimiterInv, InOrder
<1> HIDE DEF n
<1>7. \A i \in 1..(n + 1) : i \in 1..n \/ i = n + 1
  BY <1>3
<1>8. \A i \in 1..(n + 1) : accepted'[i] <= time
  BY <1>1, <1>4, <1>5, <1>7
<1>9. \A i, j \in 1..(n + 1) : i <= j => accepted'[i] <= accepted'[j]
  <2> SUFFICES ASSUME NEW i \in 1..(n + 1), NEW j \in 1..(n + 1), i <= j
               PROVE  accepted'[i] <= accepted'[j]
    OBVIOUS
  <2>1. CASE j = n + 1
    BY <1>4, <1>8, <2>1
  <2>2. CASE j # n + 1
    <3>1. i \in 1..n /\ j \in 1..n
      BY <1>3, <2>2
    <3> QED
      BY <1>4, <1>6, <3>1
  <2> QED
    BY <2>1, <2>2
<1> QED
  BY <1>1, <1>3, <1>4, <1>8, <1>9 DEF n

\* The last request lies far enough after the one twice the limit before it.
LEMMA DoubleLimitKeeps ==
  ASSUME LimiterInv, LetThrough,
         Len(accepted) + 2 - 2 * Limit \in DOMAIN accepted' =>
           time - accepted'[Len(accepted) + 2 - 2 * Limit] > WindowSpan
  PROVE  NoDoubleLimit'
<1> DEFINE n == Len(accepted)
<1>1. /\ n \in Nat /\ DOMAIN accepted = 1..n /\ DOMAIN accepted' = 1..(n + 1)
      /\ \A i \in 1..n : accepted'[i] = accepted[i]
      /\ accepted'[n + 1] = time
  BY OneMore
<1>2. n + 2 - 2 * Limit \in 1..(n + 1) => time - accepted'[n + 2 - 2 * Limit] > WindowSpan
  BY <1>1
<1>3. \A i \in 1..n : i + 2 * Limit - 1 \in 1..n => accepted[i + 2 * Limit - 1] - accepted[i] > WindowSpan
  BY <1>1 DEF LimiterInv, NoDoubleLimit
<1> HIDE DEF n
<1> SUFFICES ASSUME NEW i \in 1..(n + 1), i + 2 * Limit - 1 \in 1..(n + 1)
             PROVE  accepted'[i + 2 * Limit - 1] - accepted'[i] > WindowSpan
  BY <1>1 DEF NoDoubleLimit
<1>4. CASE i + 2 * Limit - 1 = n + 1
  <2>1. i = n + 2 - 2 * Limit
    BY <1>1, <1>4, LimiterBounds
  <2> QED
    BY <1>1, <1>2, <1>4, <2>1
<1>5. CASE i + 2 * Limit - 1 # n + 1
  <2>1. i + 2 * Limit - 1 \in 1..n /\ i \in 1..n
    BY <1>1, <1>5, LimiterBounds
  <2> QED
    BY <1>1, <1>3, <2>1
<1> QED
  BY <1>4, <1>5

LEMMA FirstOfWindowKeeps ==
  ASSUME LimiterInv, FirstOfWindow
  PROVE  LimiterInv'
<1> DEFINE n == Len(accepted)
<1>1. /\ Over /\ LetThrough /\ time' = time
      /\ limiter' = [count |-> 1, resetAt |-> time + WindowSpan]
  BY DEF FirstOfWindow
<1>2. /\ n \in Nat /\ DOMAIN accepted = 1..n
      /\ accepted' \in Seq(Times) /\ Len(accepted') = n + 1 /\ DOMAIN accepted' = 1..(n + 1)
      /\ \A i \in 1..n : accepted'[i] = accepted[i] /\ accepted[i] \in Nat
      /\ accepted'[n + 1] = time /\ time \in Nat
      /\ \A i \in 1..(n + 1) : accepted'[i] <= time
      /\ \A i, j \in 1..(n + 1) : i <= j => accepted'[i] <= accepted'[j]
  BY <1>1, OneMore
<1>3. limiter' # NoRecord /\ limiter'.count = 1 /\ limiter'.resetAt = time + WindowSpan
  BY <1>1 DEF NoRecord
<1>4. RateLimiterTypeOK'
  BY <1>1, <1>2, LimiterBounds DEF LimiterInv, RateLimiterTypeOK, Times
<1>5. \A i \in 1..n : i + Limit <= n + 1 => time - accepted[i] > WindowSpan
  <2>1. CASE limiter = NoRecord
    BY <2>1 DEF LimiterInv, WindowOpened
  <2>2. CASE limiter # NoRecord
    <3> DEFINE first == n - limiter.count + 1
    <3>1. limiter.count \in 1..Limit /\ limiter.resetAt \in Nat /\ time > limiter.resetAt
      BY <1>1, <2>2, LimiterRecord DEF Over
    <3>2. first \in 1..n /\ limiter.resetAt = accepted[first] + WindowSpan
      BY <1>2, <2>2 DEF LimiterInv, WindowOpened
    <3>3. \A i \in 1..n : i <= first => accepted[i] <= accepted[first]
      BY <1>2, <3>2 DEF LimiterInv, InOrder
    <3>4. \A i \in 1..n : i + Limit <= n + 1 => i <= first
      BY <1>2, <3>1, LimiterBounds
    <3> HIDE DEF first, n
    <3> SUFFICES ASSUME NEW i \in 1..n, i + Limit <= n + 1
                 PROVE  time - accepted[i] > WindowSpan
      OBVIOUS
    <3>5. accepted[i] <= accepted[first] /\ accepted[i] \in Nat /\ accepted[first] \in Nat
      BY <1>2, <3>2, <3>3, <3>4
    <3> QED
      BY <1>2, <3>1, <3>2, <3>5, LimiterBounds
  <2> QED
    BY <2>1, <2>2
<1> HIDE DEF n
<1>6. \A i \in 1..(n + 1) : i + Limit <= n + 1 => time - accepted'[i] > WindowSpan
  <2> SUFFICES ASSUME NEW i \in 1..(n + 1), i + Limit <= n + 1
               PROVE  time - accepted'[i] > WindowSpan
    OBVIOUS
  <2>1. i \in 1..n
    BY <1>2, LimiterBounds
  <2> QED
    BY <1>2, <1>5, <2>1
<1>7. WindowOpened'
  <2>1. Len(accepted') - limiter'.count + 1 = n + 1
    BY <1>2, <1>3
  <2> QED
    BY <1>2, <1>3, <1>6, <2>1 DEF WindowOpened
<1>8. NoDoubleLimit'
  <2>1. n + 2 - 2 * Limit \in 1..(n + 1) => n + 2 - 2 * Limit + Limit <= n + 1
    BY <1>2, LimiterBounds
  <2> QED
    BY <1>1, <1>2, <1>6, <2>1, DoubleLimitKeeps DEF n
<1>9. InOrder' /\ NoneLater'
  BY <1>1, <1>2 DEF InOrder, NoneLater
<1> QED
  BY <1>4, <1>7, <1>8, <1>9 DEF LimiterInv

LEMMA WithinWindowKeeps ==
  ASSUME LimiterInv, WithinWindow
  PROVE  LimiterInv'
<1> DEFINE n == Len(accepted)
           first == n - limiter.count + 1
<1>1. /\ limiter # NoRecord /\ limiter.count < Limit /\ LetThrough /\ time' = time
      /\ limiter' = [limiter EXCEPT !.count = limiter.count + 1]
  BY DEF WithinWindow, Over
<1>2. /\ n \in Nat /\ DOMAIN accepted = 1..n
      /\ accepted' \in Seq(Times) /\ Len(accepted') = n + 1 /\ DOMAIN accepted' = 1..(n + 1)
      /\ \A i \in 1..n : accepted'[i] = accepted[i] /\ accepted[i] \in Nat
      /\ accepted'[n + 1] = time /\ time \in Nat
      /\ \A i \in 1..(n + 1) : accepted'[i] <= time
      /\ \A i, j \in 1..(n + 1) : i <= j => accepted'[i] <= accepted'[j]
  BY <1>1, OneMore
<1>3. /\ limiter \in [count : 1..Limit, resetAt : WindowSpan..(EndOfTime + WindowSpan)]
      /\ limiter.count \in 1..Limit /\ limiter.resetAt \in Nat
  BY <1>1, LimiterRecord
<1>4. /\ limiter' \in [count : 1..Limit, resetAt : WindowSpan..(EndOfTime + WindowSpan)]
      /\ limiter' # NoRecord
      /\ limiter'.count = limiter.count + 1 /\ limiter'.resetAt = limiter.resetAt
  <2>1. limiter.count + 1 \in 1..Limit
    BY <1>1, <1>3, LimiterBounds
  <2>2. limiter' = [count |-> limiter.count + 1, resetAt |-> limiter.resetAt]
    BY <1>1, <1>3
  <2> QED
    BY <1>3, <2>1, <2>2 DEF NoRecord
<1>5. RateLimiterTypeOK'
  BY <1>1, <1>2, <1>4 DEF LimiterInv, RateLimiterTypeOK
<1>6. /\ first \in 1..n /\ limiter.resetAt = accepted[first] + WindowSpan
      /\ \A i \in 1..n : i + Limit <= first => accepted[first] - accepted[i] > WindowSpan
  BY <1>1, <1>2 DEF LimiterInv, WindowOpened
<1>7. Len(accepted') - limiter'.count + 1 = first
  BY <1>2, <1>3, <1>4
<1>8. n + 2 - 2 * Limit + Limit <= first
  BY <1>1, <1>2, <1>3, LimiterBounds
<1> HIDE DEF n, first
<1>9. \A i \in 1..(n + 1) : i + Limit <= first => accepted'[first] - accepted'[i] > WindowSpan
  <2> SUFFICES ASSUME NEW i \in 1..(n + 1), i + Limit <= first
               PROVE  accepted'[first] - accepted'[i] > WindowSpan
    OBVIOUS
  <2>1. i \in 1..n
    BY <1>2, <1>6, LimiterBounds
  <2> QED
    BY <1>2, <1>6, <2>1
<1>10. WindowOpened'
  <2>1. first \in 1..(n + 1) /\ accepted'[first] = accepted[first]
    BY <1>2, <1>6
  <2> QED
    BY <1>2, <1>4, <1>6, <1>7, <1>9, <2>1 DEF WindowOpened
<1>11. n + 2 - 2 * Limit \in 1..(n + 1) => time - accepted'[n + 2 - 2 * Limit] > WindowSpan
  <2> SUFFICES ASSUME n + 2 - 2 * Limit \in 1..(n + 1)
               PROVE  time - accepted'[n + 2 - 2 * Limit] > WindowSpan
    OBVIOUS
  <2>1. accepted'[first] - accepted'[n + 2 - 2 * Limit] > WindowSpan
    BY <1>8, <1>9
  <2>2. first \in 1..n /\ accepted'[first] \in Nat /\ accepted'[first] <= time
    BY <1>2, <1>6
  <2>3. n + 2 - 2 * Limit \in 1..n
    BY <1>2, LimiterBounds
  <2> QED
    BY <1>2, <2>1, <2>2, <2>3, LimiterBounds
<1>12. NoDoubleLimit'
  BY <1>1, <1>2, <1>11, DoubleLimitKeeps DEF n
<1>13. InOrder' /\ NoneLater'
  BY <1>1, <1>2 DEF InOrder, NoneLater
<1> QED
  BY <1>5, <1>10, <1>12, <1>13 DEF LimiterInv

LEMMA LimiterInvInductive ==
  /\ RateLimiterInit => LimiterInv
  /\ LimiterInv /\ [RateLimiterNext]_limiterVars => LimiterInv'
<1>1. ASSUME RateLimiterInit
      PROVE  LimiterInv
  BY <1>1, LimiterBounds DEF RateLimiterInit, LimiterInv, RateLimiterTypeOK, InOrder, NoneLater,
     WindowOpened, NoDoubleLimit, Times
<1>2. ASSUME LimiterInv, [RateLimiterNext]_limiterVars
      PROVE  LimiterInv'
  <2>1. CASE FirstOfWindow
    BY <1>2, <2>1, FirstOfWindowKeeps
  <2>2. CASE WithinWindow
    BY <1>2, <2>2, WithinWindowKeeps
  <2>3. CASE ClockTicks
    <3>1. /\ time' = time + 1 /\ time < EndOfTime /\ limiter' = limiter /\ accepted' = accepted
          /\ time \in Nat
      BY <1>2, <2>3 DEF ClockTicks, LimiterInv, RateLimiterTypeOK, Times
    <3>2. RateLimiterTypeOK'
      BY <1>2, <3>1, LimiterBounds DEF LimiterInv, RateLimiterTypeOK, Times
    <3>3. \A i \in DOMAIN accepted : accepted[i] \in Nat
      <4>1. accepted \in Seq(Times) /\ Times \subseteq Nat
        BY <1>2 DEF LimiterInv, RateLimiterTypeOK, Times
      <4>2. \A i \in 1..Len(accepted) : accepted[i] \in Times
        BY <4>1
      <4>3. DOMAIN accepted = 1..Len(accepted)
        BY <4>1
      <4> QED
        BY <4>1, <4>2, <4>3, Zenon
    <3>4. NoneLater'
      BY <1>2, <3>1, <3>3 DEF LimiterInv, NoneLater
    <3> QED
      BY <1>2, <3>1, <3>2, <3>4 DEF LimiterInv, InOrder, WindowOpened, NoDoubleLimit
  <2>4. CASE ProcessRestarts
    <3>1. time' = time /\ limiter' = NoRecord /\ accepted' = <<>>
      BY <2>4 DEF ProcessRestarts
    <3>2. accepted' \in Seq(Times) /\ DOMAIN accepted' = {}
      BY <3>1
    <3>3. RateLimiterTypeOK'
      BY <1>2, <3>1, <3>2 DEF LimiterInv, RateLimiterTypeOK
    <3> QED
      BY <3>1, <3>2, <3>3 DEF LimiterInv, InOrder, NoneLater, WindowOpened, NoDoubleLimit
  <2>5. CASE UNCHANGED limiterVars
    BY <1>2, <2>5 DEF limiterVars, LimiterInv, RateLimiterTypeOK, InOrder, NoneLater, WindowOpened, NoDoubleLimit
  <2> QED
    BY <1>2, <2>1, <2>2, <2>3, <2>4, <2>5 DEF RateLimiterNext
<1> QED
  BY <1>1, <1>2

\* Between the request that opened the window and those a whole limit before it
\* lies more than a window.  (public-tickets.service.ts:35-50)
THEOREM LimiterInvAlways == RateLimiterSpec => []LimiterInv
  BY LimiterInvInductive, PTL DEF RateLimiterSpec

\* For every limit and every window, twice the limit of requests never fits in one
\* window's length while the process lives.  (public-tickets.service.ts:35-50)
THEOREM NoDoubleLimitAlways == RateLimiterSpec => []NoDoubleLimit
  BY LimiterInvAlways, PTL DEF LimiterInv

-----------------------------------------------------------------------------
(* The sum: what one component does, the others do not notice.             *)
LEMMA InitOfAll ==
  Init => /\ FeatureLinksInit /\ IssueInit /\ ImagesInit
          /\ TicketListsInit /\ RateLimiterInit /\ ShareLinksInit
  BY DEF Init

\* A step of the sum is a step of one component and no step of the others.
LEMMA NextOfEach ==
  [Next]_vars => /\ [FeatureLinksNext]_linkVars /\ [IssueNext]_issueVars
                 /\ [ImagesNext]_imageVars /\ [TicketListsNext]_listVars
                 /\ [RateLimiterNext]_limiterVars /\ [ShareLinksNext]_shareVars
  BY DEF Next, vars

\* The runs move one component in each behaviour: none of them sees more there
\* than in its own specification, so what holds of it holds in the sum.
THEOREM SumImplementsParts ==
  Spec => /\ FeatureLinksSpec /\ IssueSpec /\ ImagesSpec
          /\ TicketListsSpec /\ RateLimiterSpec /\ ShareLinksSpec
  BY InitOfAll, NextOfEach, PTL
     DEF Spec, FeatureLinksSpec, IssueSpec, ImagesSpec, TicketListsSpec, RateLimiterSpec, ShareLinksSpec

\* Every row and every pending request of the six components has its type, in
\* every interleaving: no order of their statements leaves a value behind that
\* the code could not have written.
THEOREM TypeOKAlways == Spec => []TypeOK
<1>1. Spec => [](FeatureLinksTypeOK /\ IssueTypeOK)
  <2>1. LinkInv => FeatureLinksTypeOK
    BY DEF LinkInv
  <2>2. IssueInv => IssueTypeOK
    BY DEF IssueInv
  <2> QED
    BY <2>1, <2>2, SumImplementsParts, LinkInvAlways, IssueInvAlways, PTL
<1>2. Spec => [](ImagesTypeOK /\ TicketListsTypeOK)
  <2>1. ImageInv => ImagesTypeOK
    BY DEF ImageInv
  <2>2. ListInv => TicketListsTypeOK
    BY DEF ListInv
  <2> QED
    BY <2>1, <2>2, SumImplementsParts, ImageInvAlways, ListInvAlways, PTL
<1>3. Spec => [](RateLimiterTypeOK /\ ShareLinksTypeOK)
  <2>1. LimiterInv => RateLimiterTypeOK
    BY DEF LimiterInv
  <2>2. ShareInv => ShareLinksTypeOK
    BY DEF ShareInv
  <2> QED
    BY <2>1, <2>2, SumImplementsParts, LimiterInvAlways, ShareInvAlways, PTL
<1> QED
  BY <1>1, <1>2, <1>3, PTL DEF TypeOK
=============================================================================
