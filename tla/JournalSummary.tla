--------------------------- MODULE JournalSummary ---------------------------
(***************************************************************************)
(* What the activation journal says, per promotion: the state the queries  *)
(* of internal/fabricconfig/activation/journal.go are answered from, and   *)
(* what one more record does to it.  Activation works on this summary;     *)
(* ActivationLog keeps the log itself and shows its queries compute it.    *)
(***************************************************************************)
EXTENDS Naturals

CONSTANTS MaxUid,      \* bound: deployments that succeed one another here
          MaxEpoch,    \* bound: promotions of one deployment
          Revs,        \* configuration revisions
          Prefixes,    \* what a recovery may revoke
          NoRev        \* no revision: no target, FRR not on any revision

Uids == 1..MaxUid
Epochs == 1..MaxEpoch
Keys == Uids \X Epochs
NoKey == <<0, 0>>

Recovery == [target : Revs \cup {NoRev}, revoked : SUBSET Prefixes, retired : BOOLEAN]

ASSUME BoundsAssumption == MaxUid \in Nat /\ MaxEpoch \in Nat
ASSUME RevsAssumption == NoRev \notin Revs

Stages == {"none", "accepted", "applied", "failed", "committed", "recovered"}
NoRecovery == [target |-> NoRev, revoked |-> {}, retired |-> FALSE]

(* The Accepted record of a key; prev is whether PreviousGood is set. *)
Entry == [rev : Revs \cup {NoRev}, prev : BOOLEAN, recovery : Recovery]
NoEntry == [rev |-> NoRev, prev |-> FALSE, recovery |-> NoRecovery]

(* stage: the type of LastForEpoch; newest: the key LatestRecovery reads;  *)
(* bound: BoundDeployment, 0 for none.                                     *)
Journal == [stage : [Keys -> Stages], entry : [Keys -> Entry],
            newest : Keys \cup {NoKey}, bound : 0..MaxUid]
NoJournal == [stage |-> [k \in Keys |-> "none"], entry |-> [k \in Keys |-> NoEntry],
              newest |-> NoKey, bound |-> 0]
-----------------------------------------------------------------------------
(* Queries of the journal. *)

Failed(j, k) == j.stage[k] \in {"failed", "recovered"}

(* HighWater(uid) = epoch, and HighWater(uid) below epoch or none. *)
IsHigh(j, k) ==
  /\ j.stage[k] # "none"
  /\ \A e \in Epochs : e > k[2] => j.stage[<<k[1], e>>] = "none"
AboveHigh(j, k) == \A e \in Epochs : e >= k[2] => j.stage[<<k[1], e>>] = "none"

(* Mutant: a journal bound to another deployment is taken over silently. *)
BoundToAnyone(j, u) == TRUE

BoundTo(j, u) == j.bound \in {0, u}

(* The stages an epoch may be taken to from each. *)
NextStages(t) ==
  CASE t = "accepted" -> {"applied", "failed"}
    [] t = "applied" -> {"failed", "committed"}
    [] t = "failed" -> {"recovered"}
    [] OTHER -> {}

-----------------------------------------------------------------------------
(* What one more record does. *)

Accepting(j, k, r, p, rc) ==
  [stage |-> [j.stage EXCEPT ![k] = "accepted"],
   entry |-> [j.entry EXCEPT ![k] = [rev |-> r, prev |-> p, recovery |-> rc]],
   newest |-> k,
   bound |-> k[1]]
Marking(j, k, s) ==
  [stage |-> [j.stage EXCEPT ![k] = s], entry |-> j.entry,
   newest |-> j.newest, bound |-> j.bound]
Rebinding(j, u) ==
  [stage |-> j.stage, entry |-> j.entry, newest |-> j.newest, bound |-> u]
=============================================================================
