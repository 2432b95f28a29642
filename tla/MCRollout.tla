----------------------------- MODULE MCRollout ------------------------------
(***************************************************************************)
(* Rollout on two routers of one failure domain that run v1: a release of  *)
(* both to v2, and beside or after it either an emergency withdrawal of    *)
(* what v1 and v2 originate, or a release that re-activates one router.    *)
(***************************************************************************)
EXTENDS Rollout, TLC

CONSTANTS d1, d2, a1, a2, v1, v2, v3, zone

To(v) == [rev |-> v, again |-> FALSE, retire |-> FALSE]
Again(v) == [rev |-> v, again |-> TRUE, retire |-> FALSE]

MCSeq == a1 :> 1 @@ a2 :> 2
MCPlan ==
  a1 :> {[withdraws |-> FALSE, target |-> d1 :> To(v2) @@ d2 :> To(v2)]} @@
  a2 :> {[withdraws |-> TRUE, target |-> d2 :> To(v3)],
         [withdraws |-> FALSE, target |-> d1 :> Again(v2) @@ d2 :> To(v1)]}
MCDomainOf == [d \in Deployment |-> zone]
=============================================================================
