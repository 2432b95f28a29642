---------------------------- MODULE MCEdgeRoute ----------------------------
(***************************************************************************)
(* EdgeRoute with two routes, whose prefixes are the same or overlap, and  *)
(* two attachments on nodes of their own.                                  *)
(***************************************************************************)
EXTENDS EdgeRoute, TLC

CONSTANTS r1, r2, a1, a2, p1, p2

Sym == Permutations({a1, a2}) \cup Permutations({r1, r2}) \cup Permutations({p1, p2})
=============================================================================
