-------------------------- MODULE MCDeploymentSync --------------------------
(***************************************************************************)
(* DeploymentSync on up to two revisions; r1 originates a prefix that an   *)
(* emergency withdrawal may revoke.                                        *)
(***************************************************************************)
EXTENDS DeploymentSync

CONSTANTS r1, r2, p1

MCRevs == {r1, r2}
MCOriginates == [r \in Revs |-> IF r = r1 THEN Prefixes ELSE {}]
MCRecoveries ==
  { [target |-> t, revoked |-> ps, retired |-> b] :
      t \in Revs \cup {NoRev}, ps \in SUBSET Prefixes, b \in BOOLEAN }
=============================================================================
