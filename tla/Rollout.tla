------------------------------ MODULE Rollout -------------------------------
(***************************************************************************)
(* The fabric rollout manager (internal/fabric/routing/rollout) with the   *)
(* node agents that carry its promotions out.  Releases name deployments   *)
(* and the revision each may activate; one worker starts them, promotes    *)
(* their targets within the failure domains' limits and records how they   *)
(* end, while every agent accepts, applies, recovers and reports at its    *)
(* own pace, and operators create, delete and confirm releases.            *)
(*                                                                         *)
(* A prefix is withdrawn or not: Origin holds the revisions that originate *)
(* the one an emergency withdrawal withdraws.  The other checks of a       *)
(* target are one flag, usable, which an operator takes away by suspending *)
(* the deployment.  Deployments stay on the CRD source, keep their UID and *)
(* their revisions.  An agent's activation is its outcome only: module     *)
(* Activation has the steps.                                               *)
(***************************************************************************)
EXTENDS Naturals, FiniteSets

CONSTANTS Release, Deployment, Revision, Domain,
          Origin,          \* revisions that originate the withdrawn prefix
          First,           \* the revision every router runs at first
          NoRelease, NoRevision,
          Seq,             \* each release's fleet sequence
          Plan,            \* what each release may be created as
          DomainOf,        \* each deployment's failure domain
          MaxUnavailable,  \* the policies' limit
          MaxEpoch,        \* bound: promotions of one deployment
          MaxFaults        \* bound: crashes, silences, edits

(* Releases' sequences differ, as the fleet release tool numbers them. *)
ASSUME RolloutAssumption ==
  /\ Origin \subseteq Revision
  /\ First \in Revision /\ NoRevision \notin Revision
  /\ NoRelease \notin Release
  /\ Seq \in [Release -> Nat]
  /\ \A a \in Release : \A p \in Plan[a] :
       /\ p.withdraws \in BOOLEAN
       /\ DOMAIN p.target \subseteq Deployment /\ DOMAIN p.target # {}
       /\ \A d \in DOMAIN p.target :
            p.target[d] \in [rev : Revision, again : BOOLEAN, retire : BOOLEAN]
  /\ DomainOf \in [Deployment -> Domain]
  /\ IsFiniteSet(Deployment)
  /\ MaxUnavailable \in Nat \ {0}

(* The bounds of exploration, and the API's finitely many releases. *)
ASSUME BoundsAssumption ==
  MaxEpoch \in Nat \ {0} /\ MaxFaults \in Nat /\ IsFiniteSet(Release)

VARIABLES
  rel,     \* the releases, as the API server has them
  lag,     \* releases the manager's cache shows as they were, still running
  dep,     \* the deployments' specs
  status,  \* the deployments' statuses, as last written
  ag,      \* each node agent: its journal, checkpoint and current Sync
  pass,    \* promoteWaiting's loop, or NoPass
  faults   \* faults so far

vars == <<rel, lag, dep, status, ag, pass, faults>>

Live == {"started", "unknown"}
Ended == {"completed", "failed", "cancelled"}
Phase == {"none", "pending", "gone"} \cup Live \cup Ended

NoPass == [rel |-> NoRelease, stale |-> FALSE, bad |-> FALSE,
           todo |-> {}, count |-> [f \in Domain |-> 0]]
NoWant == [epoch |-> 0, rev |-> NoRevision, rec |-> NoRevision,
           revoked |-> FALSE, retired |-> FALSE]

(* Every router runs First, committed by an earlier release. *)
Init ==
  /\ rel = [a \in Release |->
              [phase |-> "none", at |-> 0, verified |-> FALSE, deleting |-> FALSE,
               withdraws |-> FALSE, target |-> <<>>]]
  /\ lag = [a \in Release |-> FALSE]
  /\ dep = [d \in Deployment |->
              [epoch |-> 1, rev |-> First, auth |-> NoRelease, rec |-> NoRevision,
               revoked |-> FALSE, retired |-> FALSE, usable |-> TRUE]]
  /\ status = [d \in Deployment |->
                 [epoch |-> 1, rev |-> First, last |-> 1, stage |-> "committed",
                  refused |-> FALSE, final |-> FALSE, fresh |-> TRUE]]
  /\ ag = [d \in Deployment |->
             [pc |-> "idle", want |-> NoWant, current |-> FALSE,
              epoch |-> 1, stage |-> "committed", revoked |-> FALSE,
              cp |-> [epoch |-> 1, rev |-> First]]]
  /\ pass = NoPass
  /\ faults = 0

(* What happens to the system from outside, a bounded number of times. *)
Fault == faults < MaxFaults /\ faults' = faults + 1
-----------------------------------------------------------------------------
(* What the manager reads from a deployment. *)

Target(a, d) == rel[a].target[d]
Targets(a) == DOMAIN rel[a].target
Withdraws(a) == rel[a].withdraws

(* committed: the status reports the active epoch and revision. *)
Committed(d) ==
  /\ status[d].epoch = dep[d].epoch
  /\ status[d].rev = dep[d].rev

(* Mutant: a refusal is not read: its epoch goes on activating. *)
RefusedNever(d) == FALSE

(* refused: reported for this generation, with no outcome for its epoch. *)
Refused(d) == status[d].last # dep[d].epoch /\ status[d].refused

(* busy: promoted, and neither committed nor finished failing nor refused. *)
Busy(d) ==
  /\ ~Committed(d)
  /\ ~Refused(d)
  /\ ~(status[d].last = dep[d].epoch /\ status[d].stage = "recovered")
  /\ ~(status[d].last = dep[d].epoch /\ status[d].stage = "failed" /\ status[d].final)

Runs(a, d) == Committed(d) /\ dep[d].rev = Target(a, d).rev

(* stateOf, of a target release a has not promoted, or not to this. *)
StateBefore(a, d) ==
  IF Runs(a, d) /\ ~Target(a, d).again THEN "committed"
  ELSE IF Busy(d) THEN "blocked" ELSE "waiting"

(* Mutant: an epoch the agent has journaled as over is committed. *)
StateOfAnyOutcome(a, d) ==
  IF dep[d].auth # a \/ dep[d].rev # Target(a, d).rev THEN StateBefore(a, d)
  ELSE IF status[d].last = dep[d].epoch /\ status[d].stage # "accepted" THEN "committed"
  ELSE IF Refused(d) THEN "failed"
  ELSE IF ~status[d].fresh THEN "silent" ELSE "activating"

(* stateOf: where one target of release a stands, by its status. *)
StateOf(a, d) ==
  LET reported == IF status[d].last = dep[d].epoch THEN status[d].stage ELSE "none" IN
    IF dep[d].auth # a \/ dep[d].rev # Target(a, d).rev THEN StateBefore(a, d)
    ELSE IF reported = "committed" /\ Committed(d) THEN "committed"
    ELSE IF reported \in {"failed", "recovered"} \/ Refused(d) THEN "failed"
    ELSE IF ~status[d].fresh THEN "silent" ELSE "activating"

(* supersededBy: another release, still there, moved d on after a started. *)
SupersededBy(a, d) ==
  LET b == dep[d].auth IN
    /\ b \notin {a, NoRelease}
    /\ rel[b].phase # "gone"
    /\ \/ Seq[b] > Seq[a]
       \/ rel[b].at > rel[a].at

(* One entry of survey. *)
Survey(a, d) ==
  IF StateOf(a, d) \in {"waiting", "blocked"} /\ SupersededBy(a, d)
    THEN "superseded"
    ELSE StateOf(a, d)

(* revokedOrigination, with WithdrawnOrigination: v would announce what is *)
(* withdrawn.                                                              *)
Announces(v, revoked) == revoked /\ v \in Origin

(* Mutant: only what the release itself withdraws is checked. *)
PromotableRevoked(a, d) ==
  LET t == Target(a, d) IN
    /\ dep[d].usable
    /\ ~dep[d].retired
    /\ t.again => Runs(a, d)
    /\ ~Announces(t.rev, Withdraws(a))

(* CheckTarget *)
Promotable(a, d) ==
  LET t == Target(a, d) IN
    /\ dep[d].usable
    /\ ~dep[d].retired
    /\ t.again => Runs(a, d)
    /\ ~Announces(t.rev, dep[d].revoked \/ Withdraws(a))

(* Mutant: only the release's own promotions count. *)
InFlightOwn(a, f) ==
  Cardinality({d \in Deployment : DomainOf[d] = f /\ Busy(d) /\ dep[d].auth = a})

(* inFlight: every deployment still activating, under any release. *)
InFlight(a, f) == Cardinality({d \in Deployment : DomainOf[d] = f /\ Busy(d)})
-----------------------------------------------------------------------------
(* Releases. *)

Outstanding(a) ==
  \/ rel[a].phase \in {"pending"} \cup Live
  \/ rel[a].phase = "failed" /\ ~rel[a].verified

HasStarted(a) == rel[a].phase \in Live \cup {"completed", "failed"}

Create(a) ==
  /\ rel[a].phase = "none"
  /\ \E p \in Plan[a] :
       rel' = [rel EXCEPT ![a].phase = "pending",
                          ![a].withdraws = p.withdraws, ![a].target = p.target]
  /\ UNCHANGED <<lag, dep, status, ag, pass, faults>>

Supersedes(o, a) == HasStarted(o) /\ Seq[o] >= Seq[a] /\ ~Withdraws(a)

(* Mutant: a failed release blocks nothing. *)
BlocksUntilFailed(o, a) ==
  /\ Outstanding(o) /\ rel[o].phase # "failed"
  /\ ~Withdraws(a)
  /\ HasStarted(o) \/ Seq[o] < Seq[a]

Blocks(o, a) ==
  /\ Outstanding(o)
  /\ ~Withdraws(a)
  /\ HasStarted(o) \/ Seq[o] < Seq[a]

(* tryStart, where the release can never start: a later one started, a     *)
(* target cannot be promoted, or its deadline passed or a read failed.     *)
Cancel(a) ==
  /\ pass = NoPass
  /\ rel[a].phase = "pending" /\ ~rel[a].deleting
  /\ \/ /\ \/ \E o \in Release \ {a} : Supersedes(o, a)
           \/ \E d \in Targets(a) : ~Promotable(a, d)
        /\ UNCHANGED faults
     \/ Fault
  /\ rel' = [rel EXCEPT ![a].phase = "cancelled"]
  /\ UNCHANGED <<lag, dep, status, ag, pass>>

Latest == CHOOSE t \in {rel[a].at : a \in Release} : \A a \in Release : rel[a].at <= t

(* tryStart.  StartedAt is stored in whole seconds: two releases may have  *)
(* the same.                                                               *)
TryStart(a) ==
  /\ pass = NoPass
  /\ rel[a].phase = "pending" /\ ~rel[a].deleting
  /\ \A o \in Release \ {a} : ~Supersedes(o, a) /\ ~Blocks(o, a)
  /\ \A d \in Targets(a) : Promotable(a, d)
  /\ \E t \in {Latest, Latest + 1} \ {0} :
       rel' = [rel EXCEPT ![a].phase = "started", ![a].at = t]
  /\ UNCHANGED <<lag, dep, status, ag, pass, faults>>

(* The cache may show a release running, or not being deleted, for a while. *)
Finish(a, phase) ==
  /\ rel' = [rel EXCEPT ![a].phase = phase]
  /\ \E b \in BOOLEAN : lag' = [lag EXCEPT ![a] = b]

CacheUpdate(a) ==
  /\ lag[a] /\ lag' = [lag EXCEPT ![a] = FALSE]
  /\ UNCHANGED <<rel, dep, status, ag, pass, faults>>

(* The bound on faults leaves room to delete a release that a fault holds up. *)
Delete(a) ==
  /\ rel[a].phase \notin {"none", "gone"} /\ ~rel[a].deleting
  /\ rel' = [rel EXCEPT ![a].deleting = TRUE]
  /\ \E b \in {lag[a], rel[a].phase \in Live} : lag' = [lag EXCEPT ![a] = b]
  /\ pass' = IF pass.rel = a THEN [pass EXCEPT !.stale = TRUE] ELSE pass
  /\ IF rel[a].phase = "unknown" THEN UNCHANGED faults ELSE Fault
  /\ UNCHANGED <<dep, status, ag>>

(* dropFinalizer: a pending release, or one no longer outstanding, goes. *)
DropFinalizer(a) ==
  /\ pass = NoPass
  /\ rel[a].deleting
  /\ rel[a].phase \in {"pending"} \cup Ended
  /\ rel[a].phase = "failed" => rel[a].verified
  /\ rel' = [rel EXCEPT ![a].phase = "gone"]
  /\ UNCHANGED <<lag, dep, status, ag, pass, faults>>

(* verifyRecovery: nothing is activating and every failed router is back   *)
(* on its recovery target, or an operator says so.                         *)
Recovered(d) ==
  /\ dep[d].rec # NoRevision
  /\ status[d].last = dep[d].epoch /\ status[d].stage = "recovered"
  /\ status[d].rev = dep[d].rec

VerifyRecovery(a) ==
  /\ pass = NoPass
  /\ rel[a].phase = "failed" /\ ~rel[a].verified
  /\ \A d \in Targets(a) :
       /\ StateOf(a, d) \notin {"activating", "silent"}
       /\ StateOf(a, d) = "failed" => Recovered(d)
  /\ rel' = [rel EXCEPT ![a].verified = TRUE]
  /\ UNCHANGED <<lag, dep, status, ag, pass, faults>>

Confirm(a) ==
  /\ pass = NoPass
  /\ rel[a].phase = "failed" /\ ~rel[a].verified
  /\ rel' = [rel EXCEPT ![a].verified = TRUE]
  /\ UNCHANGED <<lag, dep, status, ag, pass, faults>>
-----------------------------------------------------------------------------
(* progress: survey the targets, and record an outcome or promote. *)

Surveyed(a) == {Survey(a, d) : d \in Targets(a)}

(* A write of the status fails when the release was read before it changed. *)
ProgressEnds(a) ==
  /\ pass = NoPass
  /\ rel[a].phase \in Live /\ ~lag[a]
  /\ \/ "failed" \in Surveyed(a) /\ Finish(a, "failed")
     \/ Surveyed(a) \subseteq {"committed", "superseded"} /\ Finish(a, "completed")
  /\ UNCHANGED <<dep, status, ag, pass, faults>>

ProgressSilent(a) ==
  /\ pass = NoPass
  /\ rel[a].phase = "started" /\ ~lag[a]
  /\ "failed" \notin Surveyed(a) /\ "silent" \in Surveyed(a)
  /\ rel' = [rel EXCEPT ![a].phase = "unknown"]
  /\ UNCHANGED <<lag, dep, status, ag, pass, faults>>

(* The release goes on, in memory: the status is written after the loop. *)
ProgressPromotes(a) ==
  /\ pass = NoPass
  /\ lag[a] \/ (rel[a].phase \in Live /\ ~rel[a].deleting)
  /\ Surveyed(a) \cap {"failed", "silent"} = {}
  /\ ~(Surveyed(a) \subseteq {"committed", "superseded"})
  /\ pass' = [rel |-> a, stale |-> lag[a], bad |-> FALSE,
              todo |-> {d \in Targets(a) : Survey(a, d) = "waiting"},
              count |-> [f \in Domain |-> InFlight(a, f)]]
  /\ UNCHANGED <<rel, lag, dep, status, ag, faults>>

(* A release being deleted promotes no more; an Unknown one is running. *)
ProgressDeleting(a) ==
  /\ pass = NoPass
  /\ rel[a].phase = "unknown" /\ rel[a].deleting /\ ~lag[a]
  /\ Surveyed(a) \cap {"failed", "silent"} = {}
  /\ ~(Surveyed(a) \subseteq {"committed", "superseded"})
  /\ rel' = [rel EXCEPT ![a].phase = "started"]
  /\ UNCHANGED <<lag, dep, status, ag, pass, faults>>

Full(d) == pass.count[DomainOf[d]] >= MaxUnavailable

Next1(d) == pass.rel # NoRelease /\ ~pass.bad /\ d \in pass.todo

Skip(d) ==
  /\ Next1(d)
  /\ Full(d) \/ (Promotable(pass.rel, d) /\ Busy(d))
  /\ pass' = [pass EXCEPT !.todo = @ \ {d}]
  /\ UNCHANGED <<rel, lag, dep, status, ag, faults>>

Invalid(d) ==
  /\ Next1(d) /\ ~Full(d) /\ ~Promotable(pass.rel, d)
  /\ pass' = [pass EXCEPT !.todo = {}, !.bad = TRUE]
  /\ UNCHANGED <<rel, lag, dep, status, ag, faults>>

(* promote, with eligibleRecovery. *)
Promoted(a, d) ==
  LET t == Target(a, d)
      revoked == dep[d].revoked \/ Withdraws(a)
      rec == IF Committed(d) THEN dep[d].rev ELSE dep[d].rec
  IN [dep[d] EXCEPT
        !.epoch = @ + 1, !.rev = t.rev, !.auth = a,
        !.revoked = revoked, !.retired = @ \/ t.retire,
        !.rec = IF t.again \/ rec = t.rev \/ Announces(rec, revoked)
                  THEN NoRevision ELSE rec]

(* A spec written is a new generation. *)
NewGeneration(d, spec) ==
  /\ dep' = [dep EXCEPT ![d] = spec]
  /\ status' = [status EXCEPT ![d].refused = FALSE, ![d].final = FALSE]
  /\ ag' = [ag EXCEPT ![d].current = FALSE]

Promote(d) ==
  /\ Next1(d) /\ ~Full(d)
  /\ Promotable(pass.rel, d) /\ ~Busy(d)
  /\ dep[d].epoch < MaxEpoch
  /\ NewGeneration(d, Promoted(pass.rel, d))
  /\ pass' = [pass EXCEPT !.todo = @ \ {d}, !.count[DomainOf[d]] = @ + 1]
  /\ UNCHANGED <<rel, lag, faults>>

(* The pass is over, and its status written. *)
EndPass ==
  LET a == pass.rel IN
    /\ a # NoRelease /\ pass.todo = {}
    /\ pass' = NoPass
    /\ \/ pass.stale /\ UNCHANGED <<rel, lag>>
       \/ ~pass.stale /\ pass.bad /\ Finish(a, "failed")
       \/ ~pass.stale /\ ~pass.bad /\ rel' = [rel EXCEPT ![a].phase = "started"] /\ UNCHANGED lag
    /\ UNCHANGED <<dep, status, ag, faults>>

(* A read failed, an update conflicted, or the manager restarted. *)
PassFails ==
  /\ pass # NoPass /\ pass' = NoPass
  /\ Fault
  /\ UNCHANGED <<rel, lag, dep, status, ag>>

(* DeploymentReconciler sets another candidate: the generation rises. *)
Candidate(d) ==
  /\ Fault
  /\ NewGeneration(d, dep[d])
  /\ UNCHANGED <<rel, lag, pass>>

(* SetSuspended: an operator stops or resumes promotion; the agent carries *)
(* on.                                                                     *)
Suspend(d) ==
  /\ Fault
  /\ NewGeneration(d, [dep[d] EXCEPT !.usable = ~@])
  /\ UNCHANGED <<rel, lag, pass>>
-----------------------------------------------------------------------------
(* The node agents. *)

(* authorizedIn: only a started release authorizes; one that ended, or a   *)
(* withdrawal that would still announce, is refused for good.              *)
Authorization(d) ==
  LET a == dep[d].auth IN
    IF rel[a].phase \in Ended \cup {"gone"} THEN "refuse"
    ELSE IF rel[a].phase # "started" THEN "report"
    ELSE IF Announces(dep[d].rev, Withdraws(a)) THEN "refuse" ELSE "go"

(* What a Sync does next. *)
Step(d) ==
  IF ag[d].epoch # dep[d].epoch THEN Authorization(d)
  ELSE IF ag[d].stage = "accepted" THEN "apply"
  ELSE IF ag[d].stage = "failed" THEN "recover" ELSE "report"

(* Sync reads the deployment and its release. *)
Sync(d) ==
  /\ ag[d].pc = "idle" /\ Step(d) # "report"
  /\ ag' = [ag EXCEPT
       ![d].pc = Step(d), ![d].current = TRUE,
       ![d].want = [epoch |-> dep[d].epoch, rev |-> dep[d].rev, rec |-> dep[d].rec,
                    revoked |-> dep[d].revoked, retired |-> dep[d].retired]]
  /\ UNCHANGED <<rel, lag, dep, status, pass, faults>>

(* report and writeStatus.  A condition is for the generation Sync read. *)
Reported(d) ==
  [epoch |-> ag[d].cp.epoch, rev |-> ag[d].cp.rev,
   last |-> ag[d].epoch, stage |-> ag[d].stage,
   refused |-> ag[d].pc = "refuse" /\ ag[d].current,
   final |-> ag[d].pc = "degraded" /\ ag[d].current,
   fresh |-> TRUE]

(* A Sync that has nothing to do, or may not do it yet, only reports. *)
Heartbeat(d) ==
  /\ ag[d].pc = "idle" /\ Step(d) = "report"
  /\ status[d] # Reported(d)
  /\ status' = [status EXCEPT ![d] = Reported(d)]
  /\ UNCHANGED <<rel, lag, dep, ag, pass, faults>>

(* The activation is reported to start, if the write succeeds, and the     *)
(* epoch accepted.                                                         *)
Accept(d) ==
  /\ ag[d].pc = "go"
  /\ ag' = [ag EXCEPT ![d].pc = "apply", ![d].epoch = ag[d].want.epoch,
                      ![d].stage = "accepted", ![d].revoked = ag[d].want.revoked]
  /\ status' \in {status, [status EXCEPT ![d].refused = FALSE, ![d].fresh = TRUE]}
  /\ UNCHANGED <<rel, lag, dep, pass, faults>>

(* FRR's check refuses the revision, a bounded number of times. *)
Reject(d) ==
  /\ ag[d].pc = "go"
  /\ Fault
  /\ ag' = [ag EXCEPT ![d].pc = "report"]
  /\ UNCHANGED <<rel, lag, dep, status, pass>>

Apply(d) ==
  /\ ag[d].pc = "apply"
  /\ \/ ag' = [ag EXCEPT ![d].pc = "report", ![d].stage = "committed",
                         ![d].cp = [epoch |-> ag[d].want.epoch, rev |-> ag[d].want.rev]]
     \/ ag' = [ag EXCEPT ![d].pc = "recover", ![d].stage = "failed"]
  /\ UNCHANGED <<rel, lag, dep, status, pass, faults>>

Restorable(want) ==
  want.rec # NoRevision /\ ~want.retired /\ ~Announces(want.rec, want.revoked)

(* recover: the target is restored, or nothing can be. *)
Recover(d) ==
  /\ ag[d].pc = "recover"
  /\ \/ /\ Restorable(ag[d].want)
        /\ ag' = [ag EXCEPT ![d].pc = "report", ![d].stage = "recovered",
                            ![d].cp = [epoch |-> ag[d].want.epoch, rev |-> ag[d].want.rec]]
     \/ ag' = [ag EXCEPT ![d].pc = "degraded"]
  /\ UNCHANGED <<rel, lag, dep, status, pass, faults>>

Report(d) ==
  /\ ag[d].pc \in {"report", "refuse", "degraded"}
  /\ status' = [status EXCEPT ![d] = Reported(d)]
  /\ ag' = [ag EXCEPT ![d].pc = "idle", ![d].want = NoWant, ![d].current = FALSE]
  /\ UNCHANGED <<rel, lag, dep, pass, faults>>

(* The agent restarts, or a step failed with an error: what it journaled   *)
(* is kept.                                                                *)
Restart(d) ==
  /\ ag[d].pc # "idle"
  /\ Fault
  /\ ag' = [ag EXCEPT ![d].pc = "idle", ![d].want = NoWant, ![d].current = FALSE]
  /\ UNCHANGED <<rel, lag, dep, status, pass>>

(* No heartbeat for the policy's timeout. *)
Silence(d) ==
  /\ status[d].fresh
  /\ Fault
  /\ status' = [status EXCEPT ![d].fresh = FALSE]
  /\ UNCHANGED <<rel, lag, dep, ag, pass>>
-----------------------------------------------------------------------------
Progress(a) ==
  ProgressEnds(a) \/ ProgressSilent(a) \/ ProgressPromotes(a) \/ ProgressDeleting(a)

Promoting == EndPass \/ \E d \in Deployment : Skip(d) \/ Invalid(d) \/ Promote(d)

Agent(d) ==
  Sync(d) \/ Heartbeat(d) \/ Accept(d) \/ Apply(d) \/ Recover(d) \/ Report(d)

Next ==
  \/ \E a \in Release :
       \/ Create(a) \/ Cancel(a) \/ TryStart(a) \/ CacheUpdate(a)
       \/ Delete(a) \/ DropFinalizer(a) \/ VerifyRecovery(a) \/ Confirm(a)
       \/ Progress(a)
  \/ \E d \in Deployment :
       \/ Agent(d) \/ Reject(d) \/ Restart(d) \/ Silence(d)
       \/ Candidate(d) \/ Suspend(d)
  \/ Promoting \/ PassFails

Spec == Init /\ [][Next]_vars

(* The worker finishes its pass and comes back to every release (a pass of *)
(* one keeps the others waiting, hence strong fairness), the cache catches *)
(* up, and every agent runs Sync again and again.                          *)
Fairness ==
  /\ \A a \in Release : WF_vars(CacheUpdate(a)) /\ SF_vars(Progress(a))
  /\ \A d \in Deployment : WF_vars(Agent(d))
  /\ WF_vars(Promoting)

FairSpec == Spec /\ Fairness
-----------------------------------------------------------------------------
(* The variables' types, and what ties a status to the journal behind it:  *)
(* no agent has accepted an epoch the spec has not reached.                *)
TypeOK ==
  /\ rel \in [Release -> [phase : Phase, at : 0..Cardinality(Release),
                          verified : BOOLEAN, deleting : BOOLEAN,
                          withdraws : BOOLEAN,
                          target : {<<>>} \cup {p.target : p \in UNION {Plan[a] : a \in Release}}]]
  /\ lag \in [Release -> BOOLEAN]
  /\ \A d \in Deployment :
       /\ dep[d].epoch \in 1..MaxEpoch /\ dep[d].rev \in Revision
       /\ dep[d].auth \in Release \cup {NoRelease}
       /\ dep[d].rec \in Revision \cup {NoRevision}
       /\ status[d].last <= ag[d].epoch /\ ag[d].epoch <= dep[d].epoch
  /\ pass.rel \in Release \cup {NoRelease}
  /\ pass.todo \subseteq Deployment
  /\ faults \in 0..MaxFaults

(* "Within a routing domain at most one authorization is outstanding at a  *)
(* time": two that started and are outstanding are never both ordinary     *)
(* releases, whatever failed, was deleted or is being recovered meanwhile. *)
OneRelease ==
  \A a, b \in Release :
    a # b /\ ~Withdraws(a) /\ ~Withdraws(b) => ~(HasStarted(a) /\ Outstanding(a) /\ HasStarted(b) /\ Outstanding(b))

(* What is really activating, by the agent and not by its status: the      *)
(* epoch is accepted and has no outcome, or its agent may yet accept it.   *)
Activating(d) ==
  \/ ag[d].epoch = dep[d].epoch /\ ag[d].stage = "accepted"
  \/ ag[d].epoch # dep[d].epoch /\ (ag[d].pc = "go" \/ rel[dep[d].auth].phase \in Live)

(* At most MaxUnavailable routers of a failure domain are really           *)
(* activating, under whichever releases: inFlight's statuses lag behind    *)
(* the agents, and the limit must hold for the routers.                    *)
WithinLimit ==
  \A f \in Domain :
    Cardinality({d \in Deployment : DomainOf[d] = f /\ Activating(d)}) <= MaxUnavailable

(* A release completes only when every router it names runs its revision   *)
(* by its own checkpoint, or a newer release has moved it on.              *)
CompletedIsTrue ==
  [][\A a \in Release :
       rel[a].phase # "completed" /\ rel'[a].phase = "completed" =>
         \A d \in Targets(a) :
           \/ ag[d].cp.rev = Target(a, d).rev
           \/ dep[d].auth # NoRelease /\ Seq[dep[d].auth] > Seq[a]
           \/ dep[d].auth # NoRelease /\ rel[dep[d].auth].at > rel[a].at]_vars

(* "so no later release or recovery brings them back": once an agent has   *)
(* accepted an epoch that revokes the prefix, every later epoch revokes it *)
(* and neither an activation nor a recovery starts a revision that         *)
(* originates it.                                                          *)
WithdrawnStaysWithdrawn ==
  [][\A d \in Deployment :
       ag[d].revoked =>
         /\ ag'[d].revoked
         /\ ag'[d].cp # ag[d].cp => ag'[d].cp.rev \notin Origin]_vars

(* A release that started ends, unless it is deleted: silent routers       *)
(* report again, blocked targets are freed, and refused promotions fail it *)
(* instead of holding it.                                                  *)
StartedEnds ==
  \A a \in Release :
    rel[a].phase \in Live ~> (rel[a].phase \in Ended \cup {"gone"} \/ rel[a].deleting)

(* "one that started blocks its domain until it finishes or recovers": a   *)
(* started release that is deleted finishes, so that its domain is freed.  *)
DeletedEnds ==
  \A a \in Release :
    rel[a].phase \in Live /\ rel[a].deleting ~> rel[a].phase \in Ended \cup {"gone"}
=============================================================================
