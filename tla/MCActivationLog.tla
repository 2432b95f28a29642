-------------------------- MODULE MCActivationLog --------------------------
(* Two deployments of two epochs each, one revision with one recovery, and *)
(* one ConfigMap to hand back to.                                          *)
EXTENDS ActivationQueries

CONSTANTS r1, r2, cm1

MCEntries == {[rev |-> r1, prev |-> FALSE,
               recovery |-> [target |-> r2, revoked |-> {}, retired |-> FALSE]],
              [rev |-> r2, prev |-> TRUE, recovery |-> NoRecovery]}
=============================================================================
