------------------------- MODULE ActivationQueries --------------------------
(***************************************************************************)
(* The queries over the activation journal's records, module               *)
(* ActivationLog, against the summary per promotion that module Activation *)
(* works on.                                                               *)
(***************************************************************************)
EXTENDS ActivationLog

(* One more record, applied to the summary Activation works on. *)
Record1(j, r) ==
  CASE r.type = "accepted" ->
         Accepting(j, r.key, r.entry.rev, r.entry.prev, r.entry.recovery)
    [] r.type = "rebind" -> Rebinding(j, r.key[1])
    [] r.type = "source" -> j
    [] OTHER -> Marking(j, r.key, r.type)
Summary(s) ==
  LET upTo[n \in 0..Len(s)] ==
        IF n = 0 THEN NoJournal ELSE Record1(upTo[n - 1], s[n])
  IN upTo[Len(s)]

(* The n highest epochs of a deployment that were journaled. *)
Highest(j, u, n) ==
  LET journaled == {e \in Epochs : j.stage[<<u, e>>] # "none"}
  IN {e \in journaled : Cardinality({d \in journaled : d > e}) < n}

(* The loops over a log answer what its summary per promotion says. *)
Agree(s) ==
  LET j == Summary(s) IN
  /\ \A k \in Keys :
       /\ j.stage[k] = (IF LastForEpoch(s, k) = Blank THEN "none"
                        ELSE LastForEpoch(s, k).type)
       /\ FailedEver(s, k) = Failed(j, k)
       /\ NeedsRecovery(s, k) = (j.stage[k] = "failed")
       /\ Accepted(s, k) = j.entry[k]
       /\ (HighWater(s, k[1]) = k[2]) = IsHigh(j, k)
       /\ (HighWater(s, k[1]) < k[2]) = AboveHigh(j, k)
  /\ j.newest # NoKey => LatestRecovery(s) = j.entry[j.newest].recovery
  /\ BoundDeployment(s) = j.bound
  /\ \A u \in Uids, n \in Epochs : ReportedEpochs(s, u, n) = Highest(j, u, n)

(* The loops over the log answer what the summary per promotion says: the   *)
(* newest stage, whether an epoch ever failed, what it was accepted with,   *)
(* the high water, the newest recovery and the bound deployment.  The epochs *)
(* journaled last, which status reports, are the highest ones.              *)
QueriesAgree == Agree(recs)
-----------------------------------------------------------------------------
(* The file as the journal Activation uses. *)

(* The log as its readers know it: a record is there when Append returns,  *)
(* and without a process what the next one reads.                          *)
Known ==
  IF pc = "close" THEN base.whole ELSE IF Opened THEN recs ELSE Decoded(file)

(* An append was given up that could not be undone for certain. *)
InDoubt == broken /\ base.whole = recs

Jnl == INSTANCE SummaryJournal
         WITH jnl <- Summary(Known),
              disk <- IF InDoubt THEN Record1(Summary(recs), cur) ELSE Summary(Known),
              broken <- broken

(* To the Activator every step of the file, a power loss excepted, is one   *)
(* of the journal of summaries it relies on: an append, one of the outcomes *)
(* its error stands for, a reopen that keeps or drops the record in doubt,  *)
(* or nothing it can see.                                                   *)
IsSummaryJournal ==
  /\ Jnl!JournalInit
  /\ [][PowerLoss \/ Jnl!JournalNext]_<<Summary(Known),
         IF InDoubt THEN Record1(Summary(recs), cur) ELSE Summary(Known), broken>>
=============================================================================
