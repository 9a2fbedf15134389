----------------------------- MODULE ShareLinks -----------------------------
(***************************************************************************)
(* The links through which outsiders open tickets in one project           *)
(* (ticket-share-links.service.ts).  Refreshing a link finds it, revokes   *)
(* it and creates another, in three statements; revoking finds and         *)
(* revokes it in two.  A request may end between any two statements.       *)
(***************************************************************************)
EXTENDS Integers, FiniteSets

CONSTANTS
  Managers,    \* requests under way
  MaxLinks     \* bound: links ever created

ASSUME MaxLinksAssumption == MaxLinks \in Nat

VARIABLES
  shareLink,   \* TicketShareLink: none, live or revoked
  sharing,     \* what each request does next
  origin,      \* history: the created link that a link goes back to by refreshing
  contested,   \* history: origins of a link that two requests had found at once
  ended        \* history: origins that were revoked, or whose refreshing failed halfway

shareVars == <<shareLink, sharing, origin, contested, ended>>

ShareLink == 1..MaxLinks

NotSharing == [op |-> "idle"]
Sharing == {NotSharing} \cup [op : {"revoke", "revokeToRefresh", "create"}, link : ShareLink]

ShareLinksTypeOK ==
  /\ shareLink \in [ShareLink -> {"none", "live", "revoked"}]
  /\ sharing \in [Managers -> Sharing]
  /\ origin \in [ShareLink -> ShareLink]
  /\ contested \subseteq ShareLink /\ ended \subseteq ShareLink

ShareLinksInit ==
  /\ shareLink = [l \in ShareLink |-> "none"]
  /\ sharing = [r \in Managers |-> NotSharing]
  /\ origin = [l \in ShareLink |-> l]
  /\ contested = {} /\ ended = {}

Steps(r, what) == sharing' = [sharing EXCEPT ![r] = what]

\* A token that was never used becomes a live link.
NewLink(from) ==
  \E l \in ShareLink :
    /\ shareLink[l] = "none" /\ \A k \in 1..(l - 1) : shareLink[k] # "none"
    /\ shareLink' = [shareLink EXCEPT ![l] = "live"]
    /\ origin' = [origin EXCEPT ![l] = IF from = 0 THEN l ELSE origin[from]]

\* Wrong variant of Findable: revoked links are found as well.
FindableOnce(l) == shareLink[l] # "none"

\* findFirst and validateToken know live links only.
Findable(l) == shareLink[l] = "live"

-----------------------------------------------------------------------------
CreateShareLink ==
  /\ NewLink(0)
  /\ UNCHANGED <<sharing, contested, ended>>

\* Refreshing and revoking find the link first.
FindShareLink(r, l, next) ==
  /\ sharing[r] = NotSharing /\ Findable(l)
  /\ Steps(r, [op |-> next, link |-> l])
  /\ contested' = contested \cup
       IF \E q \in Managers : sharing[q] # NotSharing /\ sharing[q].link = l THEN {origin[l]} ELSE {}
  /\ UNCHANGED <<shareLink, origin, ended>>

RefreshRevokes(r) ==
  /\ sharing[r].op = "revokeToRefresh"
  /\ shareLink' = [shareLink EXCEPT ![sharing[r].link] = "revoked"]
  /\ Steps(r, [sharing[r] EXCEPT !.op = "create"])
  /\ UNCHANGED <<origin, contested, ended>>

RefreshCreates(r) ==
  /\ sharing[r].op = "create"
  /\ NewLink(sharing[r].link)
  /\ Steps(r, NotSharing)
  /\ UNCHANGED <<contested, ended>>

RevokeShareLink(r) ==
  /\ sharing[r].op = "revoke"
  /\ shareLink' = [shareLink EXCEPT ![sharing[r].link] = "revoked"]
  /\ ended' = ended \cup {origin[sharing[r].link]}
  /\ Steps(r, NotSharing)
  /\ UNCHANGED <<origin, contested>>

\* The process ends or the database does not answer.
SharingFails(r) ==
  /\ sharing[r] # NotSharing
  /\ ended' = ended \cup IF sharing[r].op = "create" THEN {origin[sharing[r].link]} ELSE {}
  /\ Steps(r, NotSharing)
  /\ UNCHANGED <<shareLink, origin, contested>>

ShareLinksNext ==
  \/ CreateShareLink
  \/ \E r \in Managers :
       \/ \E l \in ShareLink, next \in {"revoke", "revokeToRefresh"} : FindShareLink(r, l, next)
       \/ RefreshRevokes(r) \/ RefreshCreates(r) \/ RevokeShareLink(r) \/ SharingFails(r)

ShareLinksSpec == ShareLinksInit /\ [][ShareLinksNext]_shareVars

-----------------------------------------------------------------------------
\* What was handed out as one link is open through one link, however often it was
\* refreshed: none while it is being refreshed, after it was revoked and after a
\* refresh that failed halfway; only two requests that found it at once can make
\* two of it, or leave one where one of them revoked it (refresh, revoke).
OneOpenLink ==
  \A l \in ShareLink \ contested : shareLink[l] # "none" /\ origin[l] = l =>
    LET refreshing == \E r \in Managers :
          sharing[r].op = "create" /\ origin[sharing[r].link] = l
    IN  Cardinality({k \in ShareLink : shareLink[k] = "live" /\ origin[k] = l})
          = IF refreshing \/ l \in ended THEN 0 ELSE 1
=============================================================================
