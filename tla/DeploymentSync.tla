--------------------------- MODULE DeploymentSync ---------------------------
(***************************************************************************)
(* The loop around the Activator: the release manager promotes a           *)
(* FabricRouterDeployment from what its status reports (internal/fabric/   *)
(* routing/rollout), and the node's DeploymentAgent syncs with it          *)
(* (internal/fabricconfig/deployment.go): it binds the journal, activates  *)
(* or reasserts, persists frr.conf and writes the status back.             *)
(*                                                                         *)
(* Abstractions.  The node is on the CRD source throughout (ConfigSource   *)
(* models the source).  A deployment's generation is its epoch.  Status    *)
(* keeps what the release manager decides from: the applied epoch and      *)
(* revision, the stage of every epoch, the Degraded condition, whether     *)
(* Accepted says PromotionRefused, and Ready.                              *)
(***************************************************************************)
EXTENDS Activation

(* Whether an append that failed may also fail to be undone, so that its   *)
(* record is found when the journal is next opened.                        *)
CONSTANT UndoMayFail

ASSUME UndoAssumption == UndoMayFail \in BOOLEAN

(* The promotions below choose what recovery they carry, so the Activator  *)
(* is not asked with fewer; and there is a deployment.                     *)
ASSUME AnyRecovery == Recoveries = Recovery
ASSUME SomeDeployment == MaxUid > 0

VARIABLES
  dep,     \* the deployment's spec in the API
  auth,    \* the phase of the release authorizing each promotion
  status,  \* the deployment's status in the API
  want,    \* the deployment the running Sync read
  sync,    \* where Sync is
  inSync,  \* DeploymentAgent.inSync
  cond,    \* the Degraded reason this Sync sets, "same" while it sets none
  conf     \* frr.conf in ConfigDir, which FRR starts from

syncVars == <<dep, auth, status, want, sync, inSync, cond, conf>>
allVars == <<vars, syncVars>>

Phases == {"none", "started", "unknown", "ended"}
SyncSteps == {"off", "ask", "activate", "reassert", "persist", "refuse", "report"}
Reasons == {"none", "Committed", "Recovered", "NoEligibleRecovery",
            "ReassertFailed", "PersistFailed"}

Deployment == [uid : Uids, epoch : 0..MaxEpoch, rev : Revs \cup {NoRev},
               recovery : Recovery, rebind : 0..MaxUid]
Status == [epoch : 0..MaxEpoch, rev : Revs \cup {NoRev}, stages : [Epochs -> Stages],
           degraded : Reasons, degradedAt : 0..MaxEpoch, refused : 0..MaxEpoch,
           ready : BOOLEAN]

NewDeployment(u) ==
  [uid |-> u, epoch |-> 0, rev |-> NoRev, recovery |-> NoRecovery, rebind |-> 0]
NoStatus ==
  [epoch |-> 0, rev |-> NoRev, stages |-> [e \in Epochs |-> "none"],
   degraded |-> "none", degradedAt |-> 0, refused |-> 0, ready |-> FALSE]

KeyOf(d) == <<d.uid, d.epoch>>
-----------------------------------------------------------------------------
(* The release manager's view of a deployment. *)

Committed ==
  /\ dep.epoch > 0
  /\ status.epoch = dep.epoch
  /\ status.rev = dep.rev

Refused ==
  /\ status.stages[dep.epoch] = "none"
  /\ status.refused = dep.epoch

DegradedFinal ==
  /\ status.degraded = "NoEligibleRecovery"
  /\ status.degradedAt = dep.epoch

(* Mutant: a failed apply counts as finished before its recovery is over,  *)
(* and an accepted one before it is.                                       *)
BusyUntilAccepted ==
  /\ dep.epoch > 0
  /\ ~Committed
  /\ ~Refused
  /\ status.stages[dep.epoch] = "none"

Busy ==
  /\ dep.epoch > 0
  /\ ~Committed
  /\ ~Refused
  /\ status.stages[dep.epoch] # "recovered"
  /\ ~(status.stages[dep.epoch] = "failed" /\ DegradedFinal)

(* Mutant: the active revision becomes the target, committed or not. *)
PromotionAny(r, withdrawn, retire) ==
  [dep EXCEPT !.epoch = @ + 1, !.rev = r,
              !.recovery.target = IF dep.rev = r THEN NoRev ELSE dep.rev]

(* promote, then eligibleRecovery: the committed active revision becomes   *)
(* the recovery target, unless it is promoted again or originates what is  *)
(* revoked; revocations only grow.                                         *)
Promotion(r, withdrawn, retire) ==
  LET revoked == dep.recovery.revoked \cup withdrawn
      target == IF Committed THEN dep.rev ELSE dep.recovery.target
      kept == target \notin {NoRev, r} /\ Originates[target] \cap revoked = {}
  IN [dep EXCEPT !.epoch = @ + 1, !.rev = r,
                 !.recovery = [target |-> IF kept THEN target ELSE NoRev,
                               revoked |-> revoked,
                               retired |-> dep.recovery.retired \/ retire]]

(* CheckTarget and promoteWaiting: under a started release, an idle        *)
(* deployment that is not retired moves to a revision that originates      *)
(* nothing revoked or withdrawn.                                           *)
Promote(r, withdrawn, retire) ==
  /\ ~Busy
  /\ dep.epoch < MaxEpoch
  /\ ~dep.recovery.retired
  /\ Originates[r] \cap (dep.recovery.revoked \cup withdrawn) = {}
  /\ dep' = Promotion(r, withdrawn, retire)
  /\ auth' = [auth EXCEPT ![<<dep.uid, dep.epoch + 1>>] = "started"]
  /\ UNCHANGED <<vars, status, want, sync, inSync, cond, conf>>

(* A release turns Unknown while its routers are silent, starts again, and *)
(* ends for good.  Nothing reads it once the epoch is accepted.            *)
ReleasePhase(phase) ==
  LET k == KeyOf(dep) IN
    /\ dep.epoch > 0
    /\ jnl.stage[k] = "none"
    /\ <<auth[k], phase>> \in {<<"started", "unknown">>, <<"unknown", "started">>,
                              <<"started", "ended">>, <<"unknown", "ended">>}
    /\ auth' = [auth EXCEPT ![k] = phase]
    /\ UNCHANGED <<vars, dep, status, want, sync, inSync, cond, conf>>

(* The deployment is deleted and created again; then an operator approves  *)
(* that it takes over the journal.                                         *)
Replace ==
  /\ dep.uid < MaxUid
  /\ dep' = NewDeployment(dep.uid + 1)
  /\ status' = NoStatus
  /\ UNCHANGED <<vars, auth, want, sync, inSync, cond, conf>>

ApproveRebind(u) ==
  /\ u < dep.uid
  /\ u # dep.rebind
  /\ dep' = [dep EXCEPT !.rebind = u]
  /\ UNCHANGED <<vars, auth, status, want, sync, inSync, cond, conf>>
-----------------------------------------------------------------------------
(* Sync. *)

(* Mutant: an epoch that was accepted once is left alone. *)
FinishedOnceAccepted(d) ==
  /\ d.epoch > 0
  /\ jnl.stage[KeyOf(d)] # "none"
  /\ jnl.entry[KeyOf(d)].rev = d.rev

(* The epoch asked for is finished, under this very revision. *)
Finished(d) ==
  /\ d.epoch > 0
  /\ jnl.stage[KeyOf(d)] \in {"committed", "recovered"}
  /\ jnl.entry[KeyOf(d)].rev = d.rev

(* Mutant: nothing is left to do for a finished epoch. *)
ChosenNoReassert(d) ==
  IF d.epoch = 0 \/ Finished(d) THEN "report" ELSE "ask"

(* What activate does with the deployment it read. *)
Chosen(d) ==
  CASE d.epoch = 0 -> "report"
    [] Finished(d) -> "reassert"
    [] OTHER -> "ask"

(* find and bind.  A journal bound to another deployment ends the Sync     *)
(* unless this one may take it over.                                       *)
Begin ==
  /\ pc = "idle"
  /\ sync = "off"
  /\ want' = dep
  /\ inSync' = FALSE
  /\ cond' = "same"
  /\ \/ /\ BoundTo(jnl, dep.uid)
        /\ sync' = Chosen(dep)
        /\ UNCHANGED vars
     \/ /\ ~BoundTo(jnl, dep.uid)
        /\ dep.rebind = jnl.bound
        /\ Rebind(dep.uid)
        /\ sync' = IF jnl' # jnl /\ ~broken' THEN Chosen(dep) ELSE "off"
  /\ UNCHANGED <<dep, auth, status, conf>>

(* Request: what it read of the recovery target is up to the API. *)
RequestOf(d, avail) ==
  [key |-> KeyOf(d), rev |-> d.rev, recovery |-> d.recovery, avail |-> avail]

(* The activation starts, and is reported to have started.  A committed    *)
(* epoch never gets here, so Resume's branch for it is not taken.          *)
Ask(avail) ==
  LET q == RequestOf(want, avail) IN
    /\ sync = "ask"
    /\ jnl.stage[q.key] = "none" => auth[q.key] = "started"
    /\ \/ ActivateNew(q)
       \/ ResumeFailed(q)
       \/ ResumeApplied(q)
       \/ ResumeAccepted(q)
    /\ sync' = "activate"
    /\ status' \in {status} \cup
         (IF want.uid = dep.uid THEN {[status EXCEPT !.refused = 0]} ELSE {})
    /\ UNCHANGED <<dep, auth, want, inSync, cond, conf>>

(* Mutant: any release that is not running refuses the promotion. *)
RefuseUnknown ==
  /\ sync = "ask"
  /\ jnl.stage[KeyOf(want)] = "none"
  /\ auth[KeyOf(want)] # "started"
  /\ sync' = "refuse"
  /\ UNCHANGED <<vars, dep, auth, status, want, inSync, cond, conf>>

(* errRefused: its release ended before the promotion was accepted. *)
Refuse ==
  /\ sync = "ask"
  /\ jnl.stage[KeyOf(want)] = "none"
  /\ auth[KeyOf(want)] = "ended"
  /\ sync' = "refuse"
  /\ UNCHANGED <<vars, dep, auth, status, want, inSync, cond, conf>>

(* Not authorized yet, a read error, a revision that fails validation or a *)
(* stale epoch: try again at the next Sync.                                *)
Wait ==
  /\ sync = "ask"
  /\ sync' = "report"
  /\ UNCHANGED <<vars, dep, auth, status, want, inSync, cond, conf>>

(* Activate returned.  An error may follow what is already durable, so an  *)
(* epoch that finished or failed may also be reported as an error.         *)
Outcome ==
  LET k == KeyOf(want)
      Result(r, ok, step) == cond' = r /\ inSync' = ok /\ sync' = step
  IN /\ sync = "activate"
     /\ pc = "idle"
     /\ \/ jnl.stage[k] = "committed" /\ cp = [key |-> k, rev |-> want.rev]
             /\ Result("Committed", TRUE, "persist")
        \/ jnl.stage[k] = "recovered" /\ Result("Recovered", TRUE, "persist")
        \/ jnl.stage[k] = "failed" /\ Result("NoEligibleRecovery", FALSE, "report")
        \/ Result(cond, FALSE, "report")
     /\ UNCHANGED <<vars, dep, auth, status, want, conf>>

(* The Degraded condition so far: set by this Sync, or what it started from. *)
DegradedReason == IF cond = "same" THEN status.degraded ELSE cond

(* reassert: FRR is brought back to the checkpoint, if there is one. *)
Reasserting ==
  /\ sync = "reassert"
  /\ \/ cp # NoCheckpoint /\ frr = cp.rev /\ inSync' = TRUE /\ UNCHANGED vars
     \/ Reassert /\ inSync' \in {FALSE, frr' = cp.rev}
     \/ inSync' = FALSE /\ UNCHANGED vars
  /\ sync' = IF inSync' THEN "persist" ELSE "report"
  /\ cond' = CASE ~inSync' -> "ReassertFailed"
               [] inSync' /\ DegradedReason = "ReassertFailed" -> "Committed"
               [] OTHER -> cond
  /\ UNCHANGED <<dep, auth, status, want, conf>>

(* Mutant: a failed write of frr.conf is not reported. *)
PersistSilently ==
  /\ sync = "persist"
  /\ sync' = "report"
  /\ conf' \in {conf, cp.rev}
  /\ UNCHANGED <<vars, dep, auth, status, want, inSync, cond>>

Persist ==
  /\ sync = "persist"
  /\ sync' = "report"
  /\ \/ /\ conf' = cp.rev
        /\ cond' = IF DegradedReason = "PersistFailed" THEN "Committed" ELSE cond
     \/ /\ conf' \in {conf, cp.rev}
        /\ cond' = "PersistFailed"
  /\ UNCHANGED <<vars, dep, auth, status, want, inSync>>

(* report: the applied epoch and revision are the checkpoint's, if it is   *)
(* of this deployment, and stay what they were otherwise.  A refusal       *)
(* counts only for the epoch it names, so an older one is dropped.         *)
Reported ==
  LET mine == cp.key[1] = want.uid
      epoch == IF mine THEN cp.key[2] ELSE status.epoch
      rev == IF mine THEN cp.rev ELSE status.rev
  IN [epoch |-> epoch,
      rev |-> rev,
      stages |-> [e \in Epochs |-> jnl.stage[<<want.uid, e>>]],
      degraded |-> DegradedReason,
      degradedAt |-> IF cond = "same" THEN status.degradedAt ELSE want.epoch,
      refused |-> IF sync = "refuse" THEN want.epoch ELSE 0,
      ready |-> want.epoch > 0 /\ epoch = want.epoch /\ rev = want.rev /\ inSync]

(* What one Sync kept in memory is gone. *)
Ended == sync' = "off" /\ want' = NewDeployment(1) /\ inSync' = FALSE /\ cond' = "same"

(* Mutant: the status goes to whatever deployment has the name now. *)
ReportToAny ==
  /\ sync \in {"report", "refuse"}
  /\ status' \in {status, Reported}
  /\ Ended
  /\ UNCHANGED <<vars, dep, auth, conf>>

(* report and writeStatus, which may fail and does not write to a          *)
(* deployment created since.                                               *)
Report ==
  /\ sync \in {"report", "refuse"}
  /\ status' \in {status} \cup (IF want.uid = dep.uid THEN {Reported} ELSE {})
  /\ Ended
  /\ UNCHANGED <<vars, dep, auth, conf>>
-----------------------------------------------------------------------------
(* The Activator at work, and what happens around it. *)

Work ==
  /\ \/ Reload
     \/ RecordApplied
     \/ RecordFailed
     \/ Observe
     \/ Commit
     \/ WriteCheckpoint
     \/ Recover
     \/ CheckpointRecovery
     \/ RecordRecovered
  /\ UNCHANGED syncVars

AgentCrash ==
  /\ Crash
  /\ Ended
  /\ UNCHANGED <<dep, auth, status, conf>>

PodCrash ==
  /\ PodRestart
  /\ Ended
  /\ UNCHANGED <<dep, auth, status, conf>>

(* FRR alone restarts, from the frr.conf it finds. *)
FRRRestart ==
  /\ Drift
  /\ frr' = conf
  /\ UNCHANGED syncVars

Edited ==
  /\ Drift
  /\ frr' = Other
  /\ UNCHANGED syncVars

(* Mutant: the active revision is booted without asking the journal. *)
BootUnchecked ==
  /\ pc = "boot"
  /\ dep.epoch > 0
  /\ frr' = dep.rev
  /\ conf' = frr'
  /\ Continue("idle", Booting(KeyOf(dep), dep.rev))
  /\ UNCHANGED <<jnl, disk, broken, cp, seen>>
  /\ UNCHANGED <<dep, auth, status, want, sync, inSync, cond>>

(* The init container installs what boot chose as frr.conf. *)
Boot ==
  /\ \/ BootCheckpoint
     \/ BootConfigMap
     \/ \E avail \in BOOLEAN :
          /\ dep.epoch > 0
          /\ jnl.stage[KeyOf(dep)] = "none" => auth[KeyOf(dep)] = "started"
          /\ BootActive(RequestOf(dep, avail))
  /\ conf' = frr'
  /\ UNCHANGED <<dep, auth, status, want, sync, inSync, cond>>
-----------------------------------------------------------------------------
SyncInit ==
  /\ Init
  /\ dep = NewDeployment(1)
  /\ auth = [k \in Keys |-> "none"]
  /\ status = NoStatus
  /\ want = NewDeployment(1)
  /\ sync = "off"
  /\ inSync = FALSE
  /\ cond = "same"
  /\ conf = Other

Agent ==
  \/ Begin
  \/ \E avail \in BOOLEAN : Ask(avail)
  \/ Refuse
  \/ Wait
  \/ Outcome
  \/ Reasserting
  \/ Persist
  \/ Report
  \/ Work

Environment ==
  \/ \E r \in Revs, withdrawn \in SUBSET Prefixes, retire \in BOOLEAN :
       Promote(r, withdrawn, retire)
  \/ \E phase \in Phases : ReleasePhase(phase)
  \/ Replace
  \/ \E u \in Uids : ApproveRebind(u)
  \/ FRRRestart
  \/ Edited

SyncNext ==
  /\ Agent \/ Environment \/ AgentCrash \/ PodCrash \/ Boot
  /\ UndoMayFail \/ disk' = jnl'

SyncSpec == SyncInit /\ [][SyncNext]_allVars

(* The agent and the init container keep running; from some point on they  *)
(* do not crash; and what is retried for ever works in the end: a request  *)
(* (with the API and the validation behind it), a journal append, a        *)
(* checkpoint write, a reload of the checkpoint.                           *)
Fairness ==
  /\ WF_allVars(Agent)
  /\ WF_allVars(Boot)
  /\ <>[][~AgentCrash /\ ~PodCrash]_allVars
  /\ SF_allVars(\E avail \in BOOLEAN : Ask(avail) /\ pc' # "idle")
  /\ SF_allVars(Work /\ jnl' # jnl)
  /\ SF_allVars(Work /\ cp' # cp)
  /\ SF_allVars(Reasserting /\ inSync')

FairSpec == SyncSpec /\ Fairness
-----------------------------------------------------------------------------
(* Properties. *)

SyncTypeOK ==
  /\ TypeOK
  /\ dep \in Deployment
  /\ auth \in [Keys -> Phases]
  /\ status \in Status
  /\ want \in Deployment
  /\ sync \in SyncSteps
  /\ inSync \in BOOLEAN
  /\ cond \in Reasons \cup {"same"}
  /\ conf \in Revs \cup {NoRev}

(* A deployment that reports itself Ready has committed the epoch and      *)
(* revision it reports as applied: one that recovered to its target, or    *)
(* whose checkpoint lags, is not Ready (report).                           *)
ReadyIsCommitted ==
  status.ready =>
    LET k == <<dep.uid, status.epoch>>
    IN jnl.stage[k] = "committed" /\ jnl.entry[k].rev = status.rev

(* busy holds a promotion back until the node is done with the one before: *)
(* no promotion overtakes an activation the node accepted and has not      *)
(* finished, however late or lost its reports are.                         *)
PromotionWaits ==
  \A e \in Epochs : e < dep.epoch =>
    jnl.stage[<<dep.uid, e>>] \notin {"accepted", "applied"}

(* promote names as recovery target only a revision this node committed    *)
(* for this deployment, never one that failed or was not tried.            *)
TargetWasCommitted ==
  dep.recovery.target # NoRev =>
    \E e \in Epochs : /\ jnl.stage[<<dep.uid, e>>] = "committed"
                      /\ jnl.entry[<<dep.uid, e>>].rev = dep.recovery.target

(* `A refusal reported for this generation, with no outcome for its epoch, *)
(* means nothing activates' (refused): the node never accepts it later.    *)
RefusedIsFinal ==
  dep.epoch > 0 /\ Refused => jnl.stage[KeyOf(dep)] = "none"

(* When Ready is reported, frr.conf holds the revision too, or a condition *)
(* says it does not (persist): a restart of FRR starts from it.            *)
ReadyIsPersisted ==
  [][status'.ready /\ status'.degraded # "PersistFailed" /\ status' # status
       /\ sync = "report" => conf = status'.rev]_allVars

(* The agent drives the Activator as module Activation says it is driven,  *)
(* so what is proved of Activation holds here.                             *)
ImplementsActivation == Spec

(* An accepted activation is finished in the end, one way or another,      *)
(* unless the journal takes no more records until a restart, or the router *)
(* is retired, whose restarted pod is never started.                       *)
AcceptedFinishes ==
  \A k \in Keys : jnl.stage[k] \in {"accepted", "applied"} ~>
    (jnl.stage[k] \notin {"accepted", "applied"} \/ broken \/ dep.recovery.retired)

(* A change made to FRR outside the agent is undone in the end, while the  *)
(* deployment's epoch is finished and it is not retired (reassert).        *)
DriftIsUndone ==
  (cp # NoCheckpoint /\ frr # cp.rev /\ Finished(dep)) ~>
    (frr = cp.rev \/ ~Finished(dep) \/ dep.recovery.retired)

(* `RecordCommitted marks an activation observed healthy and checkpointed' *)
(* (journal.go): when the epoch is journaled as committed, the checkpoint  *)
(* gets there in the end.                                                  *)
CommittedIsCheckpointed ==
  \A k \in Keys : jnl.stage[k] = "committed" ~> ~Before(cp.key, k)
=============================================================================
