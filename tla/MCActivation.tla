---------------------------- MODULE MCActivation ----------------------------
(***************************************************************************)
(* Activation on two revisions, one of which originates a prefix that a    *)
(* recovery may revoke.                                                    *)
(***************************************************************************)
EXTENDS Activation

CONSTANTS r1, r2, p1

MCRevs == {r1, r2}
MCPrefixes == {p1}
MCOriginates == [r \in MCRevs |-> IF r = r1 THEN {p1} ELSE {}]

(* A recovery to r1, the same with its prefix revoked, none on a retired   *)
(* router, and one back to r2.                                             *)
MCRecoveries ==
  { [target |-> r1, revoked |-> {}, retired |-> FALSE],
    [target |-> r1, revoked |-> {p1}, retired |-> FALSE],
    [target |-> r2, revoked |-> {}, retired |-> FALSE],
    [target |-> NoRev, revoked |-> {}, retired |-> TRUE] }
=============================================================================
