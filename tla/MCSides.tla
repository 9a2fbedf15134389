------------------------------ MODULE MCSides -------------------------------
(***************************************************************************)
(* The components around tickets and features on small instances.  They    *)
(* share no state: one of them moves in a behaviour, which part decides at *)
(* the start.                                                              *)
(***************************************************************************)
EXTENDS FeatureLinks, IssueSync, StoredImages, TicketLists, RateLimiter, ShareLinks, TLC

VARIABLE part

vars == <<linkVars, issueVars, imageVars, listVars, limiterVars, shareVars, part>>

Init ==
  /\ part \in {"links", "issue", "images", "lists", "limiter", "shares"}
  /\ FeatureLinksInit /\ IssueInit /\ ImagesInit /\ RateLimiterInit /\ ShareLinksInit
  /\ TicketListsInit /\ (part # "lists" => wants = {})

Next ==
  /\ UNCHANGED part
  /\ \/ /\ part = "links" /\ FeatureLinksNext
        /\ UNCHANGED <<issueVars, imageVars, listVars, limiterVars, shareVars>>
     \/ /\ part = "issue" /\ IssueNext
        /\ UNCHANGED <<linkVars, imageVars, listVars, limiterVars, shareVars>>
     \/ /\ part = "images" /\ ImagesNext
        /\ UNCHANGED <<linkVars, issueVars, listVars, limiterVars, shareVars>>
     \/ /\ part = "lists" /\ TicketListsNext
        /\ UNCHANGED <<linkVars, issueVars, imageVars, limiterVars, shareVars>>
     \/ /\ part = "limiter" /\ RateLimiterNext
        /\ UNCHANGED <<linkVars, issueVars, imageVars, listVars, shareVars>>
     \/ /\ part = "shares" /\ ShareLinksNext
        /\ UNCHANGED <<linkVars, issueVars, imageVars, listVars, limiterVars>>

Spec == Init /\ [][Next]_vars

\* Every value of every part is of its type.
TypeOK ==
  /\ FeatureLinksTypeOK /\ IssueTypeOK /\ ImagesTypeOK
  /\ TicketListsTypeOK /\ RateLimiterTypeOK /\ ShareLinksTypeOK

\* All components are given the same two requests, and the same two values for
\* what they tell apart: one exchange of each stands for all.
Symmetry == Permutations(Linkers) \cup Permutations(People)
=============================================================================
