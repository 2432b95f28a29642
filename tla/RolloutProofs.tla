--------------------------- MODULE RolloutProofs ----------------------------
(***************************************************************************)
(* Of module Rollout, for any releases, deployments, plans and limits: at  *)
(* most one ordinary release is started and outstanding, completion is     *)
(* true of the routers, what is withdrawn stays withdrawn, no failure      *)
(* domain loses more routers than it may, and types are kept.              *)
(*                                                                         *)
(* RelInv adds to OneRelease what a pass of promoteWaiting remembers: the  *)
(* release it promotes for is still running when the pass writes its       *)
(* status, or has been changed since it was read, and then the write is    *)
(* refused.  AgentInv relates every agent to its deployment's spec and     *)
(* status and to the releases: Told says how far status, checkpoint,       *)
(* journal and spec have got, Kept what is revoked in each, Held which     *)
(* releases promoted and refused what; Moves says how a release may move.  *)
(* LimitInv counts the routers really activating: every one of them is     *)
(* busy by its status, so that a pass starts from a count no smaller; only *)
(* a promotion makes a router activate; and a pass counts each of its own. *)
(***************************************************************************)
EXTENDS Rollout, FiniteSetTheorems, WellFoundedInduction, TLAPS

(* A release has its fields, and names deployments. *)
RelRow(r) ==
  [phase |-> r.phase, at |-> r.at, verified |-> r.verified,
   deleting |-> r.deleting, withdraws |-> r.withdraws, target |-> r.target]

RelShape ==
  /\ rel = [a \in Release |-> rel[a]]
  /\ \A a \in Release :
       rel[a] = RelRow(rel[a]) /\ DOMAIN rel[a].target \subseteq Deployment

PassShape ==
  /\ pass = [rel |-> pass.rel, stale |-> pass.stale, bad |-> pass.bad,
             todo |-> pass.todo, count |-> pass.count]
  /\ pass.rel \in Release \cup {NoRelease}

(* The release a pass promotes for is running, unless the manager read it  *)
(* before it changed: then the pass's status write fails.                  *)
PassLive ==
  pass.rel \in Release /\ ~pass.stale => rel[pass.rel].phase \in Live

RelInv == RelShape /\ PassShape /\ PassLive /\ OneRelease
-----------------------------------------------------------------------------
(* One release changes its phase: the others, and what it names, stay. *)
LEMMA OnePhase ==
  ASSUME RelShape, NEW a \in Release, NEW x,
         rel' = [rel EXCEPT ![a].phase = x]
  PROVE  /\ RelShape'
         /\ rel'[a].phase = x
         /\ rel'[a].verified = rel[a].verified
         /\ rel'[a].withdraws = rel[a].withdraws
         /\ rel'[a].target = rel[a].target
         /\ \A b \in Release \ {a} : rel'[b] = rel[b]
<1>1. rel[a] = RelRow(rel[a]) /\ DOMAIN rel = Release
  BY Zenon DEF RelShape
<1>2. rel'[a] = [RelRow(rel[a]) EXCEPT !.phase = x]
  BY Zenon, <1>1
<1>3. \A b \in Release \ {a} : rel'[b] = rel[b]
  BY Zenon, <1>1
<1>4. rel' = [b \in Release |-> rel'[b]]
  BY Zenon, <1>1
<1>5. rel'[a] = RelRow(rel'[a]) /\ rel'[a].target = rel[a].target
  BY Zenon, <1>2 DEF RelRow
<1>6. RelShape'
  BY Zenon, <1>3, <1>4, <1>5 DEF RelShape, RelRow
<1> QED BY <1>2, <1>3, <1>5, <1>6 DEF RelRow

(* The releases that started and are outstanding stay the same set or lose *)
(* a member: OneRelease stays.                                             *)
LEMMA FewerStarted ==
  ASSUME OneRelease,
         \A b \in Release :
           /\ rel'[b].withdraws = rel[b].withdraws \/ ~HasStarted(b)'
           /\ HasStarted(b)' /\ Outstanding(b)' => HasStarted(b) /\ Outstanding(b)
  PROVE  OneRelease'
BY Zenon DEF OneRelease, Withdraws

(* A step that only gives release a phase x, and leaves no pass under way, *)
(* keeps the invariant if a release is not newly started by it.            *)
LEMMA PhaseStep ==
  ASSUME RelInv, NEW a \in Release, NEW x,
         rel' = [rel EXCEPT ![a].phase = x],
         pass' = NoPass,
         x \in {"cancelled", "completed", "gone"} \/ (x \in Live \cup {"failed"} /\ rel[a].phase \in Live)
  PROVE  RelInv'
<1>1. /\ RelShape'
      /\ rel'[a].phase = x
      /\ rel'[a].verified = rel[a].verified
      /\ rel'[a].withdraws = rel[a].withdraws
      /\ \A b \in Release \ {a} : rel'[b] = rel[b]
  BY Zenon, OnePhase DEF RelInv
<1>2. \A b \in Release :
        /\ rel'[b].withdraws = rel[b].withdraws
        /\ HasStarted(b)' /\ Outstanding(b)' => HasStarted(b) /\ Outstanding(b)
  BY Zenon, <1>1 DEF HasStarted, Outstanding, Live
<1>3. OneRelease'
  BY Zenon, <1>2, FewerStarted DEF RelInv
<1>4. PassShape' /\ PassLive'
  BY Zenon, RolloutAssumption DEF NoPass, PassShape, PassLive
<1> QED BY Zenon, <1>1, <1>3, <1>4 DEF RelInv

(* What tryStart changes. *)
LEMMA TryStartEffect ==
  ASSUME RelShape, NEW a \in Release, TryStart(a)
  PROVE  /\ RelShape'
         /\ rel'[a].phase = "started"
         /\ rel'[a].withdraws = rel[a].withdraws
         /\ \A b \in Release \ {a} : rel'[b] = rel[b]
<1>1. PICK t : rel' = [rel EXCEPT ![a].phase = "started", ![a].at = t]
  BY Zenon DEF TryStart
<1>2. rel[a] = RelRow(rel[a]) /\ DOMAIN rel = Release
  BY Zenon DEF RelShape
<1>3. rel'[a] = [RelRow(rel[a]) EXCEPT !.phase = "started", !.at = t]
  BY Zenon, <1>1, <1>2
<1>4. \A b \in Release \ {a} : rel'[b] = rel[b]
  BY Zenon, <1>1, <1>2
<1>5. rel' = [b \in Release |-> rel'[b]]
  BY Zenon, <1>1, <1>2
<1>6. /\ rel'[a] = RelRow(rel'[a])
      /\ rel'[a].withdraws = rel[a].withdraws /\ rel'[a].target = rel[a].target
  BY Zenon, <1>3 DEF RelRow
<1>7. RelShape'
  BY Zenon, <1>4, <1>5, <1>6 DEF RelShape, RelRow
<1> QED BY Zenon, <1>3, <1>4, <1>6, <1>7 DEF RelRow

(* tryStart starts an ordinary release only when none that started is      *)
(* outstanding.                                                            *)
LEMMA TryStartStep ==
  ASSUME RelInv, NEW a \in Release, TryStart(a)
  PROVE  RelInv'
<1>1. /\ RelShape'
      /\ rel'[a].phase = "started"
      /\ rel'[a].withdraws = rel[a].withdraws
      /\ \A b \in Release \ {a} : rel'[b] = rel[b]
  BY Zenon, TryStartEffect DEF RelInv
<1>2. \A o \in Release \ {a} : ~(~Withdraws(a) /\ HasStarted(o) /\ Outstanding(o))
  BY Zenon DEF TryStart, Blocks
<1>3. OneRelease'
  BY <1>1, <1>2 DEF RelInv, OneRelease, Withdraws, HasStarted, Outstanding
<1>4. PassShape' /\ PassLive'
  BY Zenon, RolloutAssumption DEF TryStart, NoPass, PassShape, PassLive
<1> QED BY Zenon, <1>1, <1>3, <1>4 DEF RelInv

(* What creating a release changes. *)
LEMMA CreateEffect ==
  ASSUME RelShape, NEW a \in Release, Create(a)
  PROVE  /\ RelShape'
         /\ rel'[a].phase = "pending"
         /\ \A b \in Release \ {a} : rel'[b] = rel[b]
<1>1. PICK p \in Plan[a] :
        rel' = [rel EXCEPT ![a].phase = "pending",
                           ![a].withdraws = p.withdraws, ![a].target = p.target]
  BY Zenon DEF Create
<1>2. rel[a] = RelRow(rel[a]) /\ DOMAIN rel = Release
  BY Zenon DEF RelShape
<1>3. rel'[a] = [RelRow(rel[a]) EXCEPT !.phase = "pending",
                   !.withdraws = p.withdraws, !.target = p.target]
  BY Zenon, <1>1, <1>2
<1>4. \A b \in Release \ {a} : rel'[b] = rel[b]
  BY Zenon, <1>1, <1>2
<1>5. rel' = [b \in Release |-> rel'[b]]
  BY Zenon, <1>1, <1>2
<1>6. rel'[a] = RelRow(rel'[a]) /\ rel'[a].phase = "pending" /\ rel'[a].target = p.target
  BY Zenon, <1>3 DEF RelRow
<1>7. RelShape'
  BY <1>4, <1>5, <1>6, RolloutAssumption DEF RelShape, RelRow
<1> QED BY Zenon, <1>3, <1>4, <1>6, <1>7 DEF RelRow

(* A release is created pending. *)
LEMMA CreateStep ==
  ASSUME RelInv, NEW a \in Release, Create(a)
  PROVE  RelInv'
<1>1. /\ RelShape'
      /\ rel'[a].phase = "pending"
      /\ \A b \in Release \ {a} : rel'[b] = rel[b]
  BY Zenon, CreateEffect DEF RelInv
<1>2. \A b \in Release :
        /\ rel'[b].withdraws = rel[b].withdraws \/ ~HasStarted(b)'
        /\ HasStarted(b)' /\ Outstanding(b)' => HasStarted(b) /\ Outstanding(b)
  BY Zenon, <1>1 DEF HasStarted, Outstanding, Live
<1>3. OneRelease'
  BY Zenon, <1>2, FewerStarted DEF RelInv
<1>4. PassShape' /\ PassLive'
  BY Zenon, <1>1 DEF RelInv, Create, PassShape, PassLive, Live
<1> QED BY Zenon, <1>1, <1>3, <1>4 DEF RelInv

(* What deleting a release changes. *)
LEMMA DeleteEffect ==
  ASSUME RelShape, NEW a \in Release, Delete(a)
  PROVE  /\ RelShape'
         /\ rel'[a].phase = rel[a].phase /\ rel'[a].verified = rel[a].verified
         /\ rel'[a].withdraws = rel[a].withdraws
         /\ \A b \in Release \ {a} : rel'[b] = rel[b]
<1>1. rel' = [rel EXCEPT ![a].deleting = TRUE]
  BY Zenon DEF Delete
<1>2. rel[a] = RelRow(rel[a]) /\ DOMAIN rel = Release
  BY Zenon DEF RelShape
<1>3. rel'[a] = [RelRow(rel[a]) EXCEPT !.deleting = TRUE]
  BY Zenon, <1>1, <1>2
<1>4. \A b \in Release \ {a} : rel'[b] = rel[b]
  BY Zenon, <1>1, <1>2
<1>5. rel' = [b \in Release |-> rel'[b]]
  BY Zenon, <1>1, <1>2
<1>6. /\ rel'[a] = RelRow(rel'[a])
      /\ rel'[a].phase = rel[a].phase /\ rel'[a].verified = rel[a].verified
      /\ rel'[a].withdraws = rel[a].withdraws /\ rel'[a].target = rel[a].target
  BY Zenon, <1>3 DEF RelRow
<1>7. RelShape'
  BY Zenon, <1>4, <1>5, <1>6 DEF RelShape, RelRow
<1> QED BY Zenon, <1>3, <1>4, <1>6, <1>7 DEF RelRow

(* A release being deleted makes a pass that promotes for it stale. *)
LEMMA DeleteStep ==
  ASSUME RelInv, NEW a \in Release, Delete(a)
  PROVE  RelInv'
<1>1. /\ RelShape'
      /\ rel'[a].phase = rel[a].phase /\ rel'[a].verified = rel[a].verified
      /\ rel'[a].withdraws = rel[a].withdraws
      /\ \A b \in Release \ {a} : rel'[b] = rel[b]
  BY Zenon, DeleteEffect DEF RelInv
<1>2. OneRelease'
  <2>1. \A b \in Release :
          /\ rel'[b].withdraws = rel[b].withdraws
          /\ HasStarted(b)' /\ Outstanding(b)' => HasStarted(b) /\ Outstanding(b)
    BY Zenon, <1>1 DEF HasStarted, Outstanding
  <2> QED BY Zenon, <2>1, FewerStarted DEF RelInv
<1>3. PassShape' /\ PassLive'
  <2>1. CASE pass.rel = a
    <3>1. pass' = [pass EXCEPT !.stale = TRUE]
      BY Zenon, <2>1 DEF Delete
    <3> QED BY Zenon, <3>1 DEF RelInv, PassShape, PassLive
  <2>2. CASE pass.rel # a
    <3>1. pass' = pass
      BY Zenon, <2>2 DEF Delete
    <3> QED BY Zenon, <2>2, <3>1, <1>1 DEF RelInv, PassShape, PassLive
  <2> QED BY Zenon, <2>1, <2>2
<1> QED BY Zenon, <1>1, <1>2, <1>3 DEF RelInv

(* What verifying a recovery changes. *)
LEMMA VerifiedEffect ==
  ASSUME RelShape, NEW a \in Release, VerifyRecovery(a) \/ Confirm(a)
  PROVE  /\ RelShape'
         /\ rel'[a].phase = rel[a].phase /\ rel'[a].verified
         /\ rel'[a].withdraws = rel[a].withdraws
         /\ \A b \in Release \ {a} : rel'[b] = rel[b]
<1>1. rel' = [rel EXCEPT ![a].verified = TRUE] /\ pass = NoPass /\ pass' = pass
  BY Zenon DEF VerifyRecovery, Confirm
<1>2. rel[a] = RelRow(rel[a]) /\ DOMAIN rel = Release
  BY Zenon DEF RelShape
<1>3. rel'[a] = [RelRow(rel[a]) EXCEPT !.verified = TRUE]
  BY Zenon, <1>1, <1>2
<1>4. \A b \in Release \ {a} : rel'[b] = rel[b]
  BY Zenon, <1>1, <1>2
<1>5. rel' = [b \in Release |-> rel'[b]]
  BY Zenon, <1>1, <1>2
<1>6. /\ rel'[a] = RelRow(rel'[a])
      /\ rel'[a].phase = rel[a].phase /\ rel'[a].verified
      /\ rel'[a].withdraws = rel[a].withdraws /\ rel'[a].target = rel[a].target
  BY Zenon, <1>3 DEF RelRow
<1>7. RelShape'
  BY Zenon, <1>4, <1>5, <1>6 DEF RelShape, RelRow
<1> QED BY Zenon, <1>3, <1>4, <1>6, <1>7 DEF RelRow

(* Recovery is verified, by the manager or by an operator. *)
LEMMA VerifiedStep ==
  ASSUME RelInv, NEW a \in Release, VerifyRecovery(a) \/ Confirm(a)
  PROVE  RelInv'
<1>1. /\ RelShape'
      /\ rel'[a].phase = rel[a].phase /\ rel'[a].verified
      /\ rel'[a].withdraws = rel[a].withdraws
      /\ \A b \in Release \ {a} : rel'[b] = rel[b]
  BY Zenon, VerifiedEffect DEF RelInv
<1>2. OneRelease'
  <2>1. \A b \in Release :
          /\ rel'[b].withdraws = rel[b].withdraws
          /\ HasStarted(b)' /\ Outstanding(b)' => HasStarted(b) /\ Outstanding(b)
    BY Zenon, <1>1 DEF HasStarted, Outstanding, Live
  <2> QED BY Zenon, <2>1, FewerStarted DEF RelInv
<1>3. PassShape' /\ PassLive'
  BY RolloutAssumption DEF VerifyRecovery, Confirm, NoPass, PassShape, PassLive
<1> QED BY Zenon, <1>1, <1>2, <1>3 DEF RelInv

(* A step that leaves the releases alone keeps the invariant if the pass   *)
(* it leaves is for a running release.                                     *)
LEMMA PassStep ==
  ASSUME RelInv, rel' = rel, PassShape', PassLive'
  PROVE  RelInv'
BY Zenon DEF RelInv, RelShape, RelRow, OneRelease, Withdraws, HasStarted, Outstanding

(* The pass takes the next target. *)
LEMMA LoopStep ==
  ASSUME RelInv, NEW d \in Deployment, Skip(d) \/ Invalid(d) \/ Promote(d)
  PROVE  RelInv'
<1>1. rel' = rel
  BY Zenon DEF Skip, Invalid, Promote
<1>2. PICK todo, bad, count :
        pass' = [rel |-> pass.rel, stale |-> pass.stale, bad |-> bad,
                 todo |-> todo, count |-> count]
  <2>1. CASE Skip(d)
    BY Zenon, <2>1 DEF Skip, RelInv, PassShape
  <2>2. CASE Invalid(d)
    BY Zenon, <2>2 DEF Invalid, RelInv, PassShape
  <2>3. CASE Promote(d)
    BY Zenon, <2>3 DEF Promote, RelInv, PassShape
  <2> QED BY Zenon, <2>1, <2>2, <2>3
<1>3. PassShape' /\ PassLive'
  BY Zenon, <1>1, <1>2 DEF RelInv, PassShape, PassLive
<1> QED BY Zenon, <1>1, <1>3, PassStep

(* The pass ends, and writes the release's status unless it has changed. *)
LEMMA EndPassStep ==
  ASSUME RelInv, EndPass
  PROVE  RelInv'
<1>0. pass.rel \in Release
  BY Zenon DEF RelInv, PassShape, EndPass
<1>1. CASE rel' = rel
  <2>1. PassShape' /\ PassLive'
    BY Zenon, RolloutAssumption DEF EndPass, NoPass, PassShape, PassLive
  <2> QED BY Zenon, <1>1, <2>1, PassStep
<1>2. CASE ~pass.stale /\ \E x \in {"failed", "started"} : rel' = [rel EXCEPT ![pass.rel].phase = x]
  <2>1. PICK x \in {"failed", "started"} : rel' = [rel EXCEPT ![pass.rel].phase = x]
    BY Zenon, <1>2
  <2>2. pass' = NoPass
    BY Zenon DEF EndPass
  <2>3. rel[pass.rel].phase \in Live
    BY Zenon, <1>0, <1>2 DEF RelInv, PassLive
  <2>4. x \in Live \cup {"failed"}
    BY Zenon, <2>1 DEF Live
  <2> QED BY Zenon, <1>0, <2>1, <2>2, <2>3, <2>4, PhaseStep
<1> QED BY Zenon, <1>1, <1>2 DEF EndPass, Finish

(* progress, for one release. *)
LEMMA ProgressStep ==
  ASSUME RelInv, NEW a \in Release, Progress(a)
  PROVE  RelInv'
<1>1. CASE ProgressEnds(a)
  <2>1. /\ rel[a].phase \in Live /\ pass' = NoPass
        /\ \E x \in {"failed", "completed"} : rel' = [rel EXCEPT ![a].phase = x]
    BY Zenon, <1>1 DEF ProgressEnds, Finish
  <2>2. PICK x \in {"failed", "completed"} : rel' = [rel EXCEPT ![a].phase = x]
    BY Zenon, <2>1
  <2> QED BY Zenon, <2>1, <2>2, PhaseStep
<1>2. CASE ProgressSilent(a)
  <2>1. /\ rel[a].phase \in Live /\ pass' = NoPass
        /\ rel' = [rel EXCEPT ![a].phase = "unknown"]
        /\ "unknown" \in Live \cup {"failed"}
    BY Zenon, <1>2 DEF ProgressSilent, Live
  <2> QED BY Zenon, <2>1, PhaseStep
<1>3. CASE ProgressPromotes(a)
  <2>1. rel' = rel /\ PassShape' /\ PassLive'
    BY Zenon, <1>3 DEF ProgressPromotes, PassShape, PassLive
  <2> QED BY Zenon, <2>1, PassStep
<1>4. CASE ProgressDeleting(a)
  <2>1. /\ rel[a].phase \in Live /\ pass' = NoPass
        /\ rel' = [rel EXCEPT ![a].phase = "started"]
        /\ "started" \in Live \cup {"failed"}
    BY Zenon, <1>4 DEF ProgressDeleting, Live
  <2> QED BY Zenon, <2>1, PhaseStep
<1> QED BY Zenon, <1>1, <1>2, <1>3, <1>4 DEF Progress

(* What agents, faults and operators' edits of deployments do leaves the   *)
(* releases and the pass alone.                                            *)
LEMMA DeploymentFrame ==
  ASSUME NEW d \in Deployment,
         \/ Agent(d) \/ Reject(d) \/ Restart(d) \/ Silence(d)
         \/ Candidate(d) \/ Suspend(d)
  PROVE  rel' = rel /\ pass' = pass
BY Zenon DEF Agent, Sync, Heartbeat, Accept, Apply, Recover, Report, Reject, Restart,
       Silence, Candidate, Suspend

(* RelInv is inductive. *)
LEMMA RelInvStep == RelInv /\ [Next]_vars => RelInv'
<1> SUFFICES ASSUME RelInv, [Next]_vars
             PROVE  RelInv'
  BY Zenon
<1>1. ASSUME rel' = rel, pass' = pass
      PROVE  RelInv'
  <2>1. PassShape' /\ PassLive'
    BY Zenon, <1>1 DEF RelInv, PassShape, PassLive
  <2> QED BY Zenon, <1>1, <2>1, PassStep
<1>2. ASSUME NEW a \in Release,
             \/ Create(a) \/ Cancel(a) \/ TryStart(a) \/ CacheUpdate(a)
             \/ Delete(a) \/ DropFinalizer(a) \/ VerifyRecovery(a) \/ Confirm(a)
             \/ Progress(a)
      PROVE  RelInv'
  <2>1. CASE Cancel(a)
    <3>1. rel' = [rel EXCEPT ![a].phase = "cancelled"] /\ pass' = NoPass
      BY Zenon, <2>1 DEF Cancel
    <3> QED BY Zenon, <3>1, PhaseStep
  <2>2. CASE DropFinalizer(a)
    <3>1. rel' = [rel EXCEPT ![a].phase = "gone"] /\ pass' = NoPass
      BY Zenon, <2>2 DEF DropFinalizer
    <3> QED BY Zenon, <3>1, PhaseStep
  <2>3. CASE CacheUpdate(a)
    BY Zenon, <1>1, <2>3 DEF CacheUpdate
  <2> QED BY Zenon, <1>2, <2>1, <2>2, <2>3, CreateStep, TryStartStep, DeleteStep,
             VerifiedStep, ProgressStep
<1>3. ASSUME NEW d \in Deployment,
             \/ Agent(d) \/ Reject(d) \/ Restart(d) \/ Silence(d)
             \/ Candidate(d) \/ Suspend(d)
      PROVE  RelInv'
  BY Zenon, <1>1, <1>3, DeploymentFrame
<1>4. CASE Promoting
  BY Zenon, <1>4, EndPassStep, LoopStep DEF Promoting
<1>5. CASE PassFails
  <2>1. rel' = rel /\ PassShape' /\ PassLive'
    BY Zenon, <1>5, RolloutAssumption DEF PassFails, NoPass, PassShape, PassLive
  <2> QED BY Zenon, <2>1, PassStep
<1>6. CASE UNCHANGED vars
  BY Zenon, <1>1, <1>6 DEF vars
<1> QED BY Zenon, <1>2, <1>3, <1>4, <1>5, <1>6 DEF Next

(* No release has started at first. *)
LEMMA RelInvInit == Init => RelInv
<1> SUFFICES ASSUME Init
             PROVE  RelInv
  BY Zenon
<1>1. RelShape /\ \A a \in Release : rel[a].phase = "none"
  BY DEF Init, RelShape, RelRow
<1>2. OneRelease
  BY Zenon, <1>1 DEF OneRelease, HasStarted, Live
<1>3. PassShape /\ PassLive
  BY Zenon, RolloutAssumption DEF Init, NoPass, PassShape, PassLive
<1> QED BY Zenon, <1>1, <1>2, <1>3 DEF RelInv

(* tryStart and the status writes of progress never leave two ordinary     *)
(* releases started and outstanding at once.                               *)
THEOREM OneReleaseAtATime == Spec => []OneRelease
<1>1. RelInv => OneRelease
  BY Zenon DEF RelInv
<1> QED BY <1>1, RelInvInit, RelInvStep, PTL DEF Spec

-----------------------------------------------------------------------------
(* Agents, their deployments and the releases: AgentInv. *)

(* A deployment's spec and status and an agent have their fields. *)
DepRow(r) ==
  [epoch |-> r.epoch, rev |-> r.rev, auth |-> r.auth, rec |-> r.rec,
   revoked |-> r.revoked, retired |-> r.retired, usable |-> r.usable]
StatusRow(r) ==
  [epoch |-> r.epoch, rev |-> r.rev, last |-> r.last, stage |-> r.stage,
   refused |-> r.refused, final |-> r.final, fresh |-> r.fresh]
AgRow(r) ==
  [pc |-> r.pc, want |-> r.want, current |-> r.current, epoch |-> r.epoch,
   stage |-> r.stage, revoked |-> r.revoked, cp |-> r.cp]

Rows(d) ==
  dep[d] = DepRow(dep[d]) /\ status[d] = StatusRow(status[d]) /\ ag[d] = AgRow(ag[d])

Shape ==
  /\ dep = [d \in Deployment |-> dep[d]]
  /\ status = [d \in Deployment |-> status[d]]
  /\ ag = [d \in Deployment |-> ag[d]]
  /\ \A d \in Deployment : Rows(d)

(* A step changes one deployment, to the given spec, status and agent. *)
Only(d, spec, stat, agent) ==
  /\ dep'[d] = spec /\ status'[d] = stat /\ ag'[d] = agent
  /\ \A e \in Deployment \ {d} :
       dep'[e] = dep[e] /\ status'[e] = status[e] /\ ag'[e] = ag[e]
  /\ dep' = [e \in Deployment |-> dep'[e]]
  /\ status' = [e \in Deployment |-> status'[e]]
  /\ ag' = [e \in Deployment |-> ag'[e]]

-----------------------------------------------------------------------------
(* An agent after each of its steps. *)
AgSynced(d) ==
  [AgRow(ag[d]) EXCEPT !.pc = Step(d), !.current = TRUE,
     !.want = [epoch |-> dep[d].epoch, rev |-> dep[d].rev, rec |-> dep[d].rec,
               revoked |-> dep[d].revoked, retired |-> dep[d].retired]]
AgAccepted(d) ==
  [AgRow(ag[d]) EXCEPT !.pc = "apply", !.epoch = ag[d].want.epoch,
     !.stage = "accepted", !.revoked = ag[d].want.revoked]
AgRejected(d) == [AgRow(ag[d]) EXCEPT !.pc = "report"]
AgCommitted(d) ==
  [AgRow(ag[d]) EXCEPT !.pc = "report", !.stage = "committed",
     !.cp = [epoch |-> ag[d].want.epoch, rev |-> ag[d].want.rev]]
AgFailed(d) == [AgRow(ag[d]) EXCEPT !.pc = "recover", !.stage = "failed"]
AgRecovered(d) ==
  [AgRow(ag[d]) EXCEPT !.pc = "report", !.stage = "recovered",
     !.cp = [epoch |-> ag[d].want.epoch, rev |-> ag[d].want.rec]]
AgDegraded(d) == [AgRow(ag[d]) EXCEPT !.pc = "degraded"]
AgIdle(d) == [AgRow(ag[d]) EXCEPT !.pc = "idle", !.want = NoWant, !.current = FALSE]
AgOutdated(d) == [AgRow(ag[d]) EXCEPT !.current = FALSE]

(* A status after a step that does not report. *)
StatusStarting(d) == [StatusRow(status[d]) EXCEPT !.refused = FALSE, !.fresh = TRUE]
StatusSilent(d) == [StatusRow(status[d]) EXCEPT !.fresh = FALSE]
StatusOutdated(d) == [StatusRow(status[d]) EXCEPT !.refused = FALSE, !.final = FALSE]

(* Sync changes the agent only. *)
LEMMA SyncEffect ==
  ASSUME Shape, NEW d \in Deployment, Sync(d)
  PROVE  Only(d, dep[d], status[d], AgSynced(d))
<1>1. ag[d] = AgRow(ag[d]) /\ DOMAIN ag = Deployment
  BY Zenon DEF Shape, Rows
<1>2. ag'[d] = AgSynced(d)
  BY Zenon, <1>1 DEF Sync, AgSynced
<1>3. ag' = [e \in Deployment |-> ag'[e]] /\ \A e \in Deployment \ {d} : ag'[e] = ag[e]
  BY Zenon, <1>1 DEF Sync
<1> QED BY Zenon, <1>2, <1>3 DEF Sync, Only, Shape

(* A rejected revision changes the agent only. *)
LEMMA RejectEffect ==
  ASSUME Shape, NEW d \in Deployment, Reject(d)
  PROVE  Only(d, dep[d], status[d], AgRejected(d))
<1>1. ag[d] = AgRow(ag[d]) /\ DOMAIN ag = Deployment
  BY Zenon DEF Shape, Rows
<1>2. ag'[d] = AgRejected(d)
  BY Zenon, <1>1 DEF Reject, AgRejected
<1>3. ag' = [e \in Deployment |-> ag'[e]] /\ \A e \in Deployment \ {d} : ag'[e] = ag[e]
  BY Zenon, <1>1 DEF Reject
<1> QED BY Zenon, <1>2, <1>3 DEF Reject, Only, Shape

(* A restart changes the agent only. *)
LEMMA RestartEffect ==
  ASSUME Shape, NEW d \in Deployment, Restart(d)
  PROVE  Only(d, dep[d], status[d], AgIdle(d))
<1>1. ag[d] = AgRow(ag[d]) /\ DOMAIN ag = Deployment
  BY Zenon DEF Shape, Rows
<1>2. ag'[d] = AgIdle(d)
  BY Zenon, <1>1 DEF Restart, AgIdle
<1>3. ag' = [e \in Deployment |-> ag'[e]] /\ \A e \in Deployment \ {d} : ag'[e] = ag[e]
  BY Zenon, <1>1 DEF Restart
<1> QED BY Zenon, <1>2, <1>3 DEF Restart, Only, Shape

(* Applying commits or fails. *)
LEMMA ApplyEffect ==
  ASSUME Shape, NEW d \in Deployment, Apply(d)
  PROVE  Only(d, dep[d], status[d], AgCommitted(d)) \/ Only(d, dep[d], status[d], AgFailed(d))
<1>1. ag[d] = AgRow(ag[d]) /\ DOMAIN ag = Deployment
  BY Zenon DEF Shape, Rows
<1>2. ag'[d] = AgCommitted(d) \/ ag'[d] = AgFailed(d)
  BY Zenon, <1>1 DEF Apply, AgCommitted, AgFailed
<1>3. ag' = [e \in Deployment |-> ag'[e]] /\ \A e \in Deployment \ {d} : ag'[e] = ag[e]
  BY Zenon, <1>1 DEF Apply
<1> QED BY Zenon, <1>2, <1>3 DEF Apply, Only, Shape

(* Recovery restores the target it may restore, or gives up. *)
LEMMA RecoverEffect ==
  ASSUME Shape, NEW d \in Deployment, Recover(d)
  PROVE  \/ Restorable(ag[d].want) /\ Only(d, dep[d], status[d], AgRecovered(d))
         \/ Only(d, dep[d], status[d], AgDegraded(d))
<1>1. ag[d] = AgRow(ag[d]) /\ DOMAIN ag = Deployment
  BY Zenon DEF Shape, Rows
<1>2. (Restorable(ag[d].want) /\ ag'[d] = AgRecovered(d)) \/ ag'[d] = AgDegraded(d)
  BY Zenon, <1>1 DEF Recover, AgRecovered, AgDegraded
<1>3. ag' = [e \in Deployment |-> ag'[e]] /\ \A e \in Deployment \ {d} : ag'[e] = ag[e]
  BY Zenon, <1>1 DEF Recover
<1> QED BY Zenon, <1>2, <1>3 DEF Recover, Only, Shape

(* A heartbeat reports. *)
LEMMA HeartbeatEffect ==
  ASSUME Shape, NEW d \in Deployment, Heartbeat(d)
  PROVE  Only(d, dep[d], Reported(d), ag[d])
BY Zenon DEF Heartbeat, Only, Shape

(* A silent agent has an old status. *)
LEMMA SilenceEffect ==
  ASSUME Shape, NEW d \in Deployment, Silence(d)
  PROVE  Only(d, dep[d], StatusSilent(d), ag[d])
<1>1. status[d] = StatusRow(status[d]) /\ DOMAIN status = Deployment
  BY Zenon DEF Shape, Rows
<1>2. status'[d] = StatusSilent(d)
  BY Zenon, <1>1 DEF Silence, StatusSilent
<1> QED BY Zenon, <1>1, <1>2 DEF Silence, Only, Shape

(* Sync ends with a report. *)
LEMMA ReportEffect ==
  ASSUME Shape, NEW d \in Deployment, Report(d)
  PROVE  Only(d, dep[d], Reported(d), AgIdle(d))
<1>1. ag[d] = AgRow(ag[d]) /\ DOMAIN ag = Deployment
  BY Zenon DEF Shape, Rows
<1>2. ag'[d] = AgIdle(d)
  BY Zenon, <1>1 DEF Report, AgIdle
<1>3. ag' = [e \in Deployment |-> ag'[e]] /\ \A e \in Deployment \ {d} : ag'[e] = ag[e]
  BY Zenon, <1>1 DEF Report
<1>4. /\ status' = [e \in Deployment |-> status'[e]] /\ status'[d] = Reported(d)
      /\ \A e \in Deployment \ {d} : status'[e] = status[e]
  BY Zenon DEF Report, Shape
<1> QED BY Zenon, <1>2, <1>3, <1>4 DEF Report, Only, Shape

(* Accepting journals the epoch, and may report that it starts. *)
LEMMA AcceptEffect ==
  ASSUME Shape, NEW d \in Deployment, Accept(d)
  PROVE  Only(d, dep[d], status[d], AgAccepted(d)) \/ Only(d, dep[d], StatusStarting(d), AgAccepted(d))
<1>1. ag[d] = AgRow(ag[d]) /\ DOMAIN ag = Deployment
  BY Zenon DEF Shape, Rows
<1>2. ag'[d] = AgAccepted(d)
  BY Zenon, <1>1 DEF Accept, AgAccepted
<1>3. ag' = [e \in Deployment |-> ag'[e]] /\ \A e \in Deployment \ {d} : ag'[e] = ag[e]
  BY Zenon, <1>1 DEF Accept
<1>4. status[d] = StatusRow(status[d]) /\ DOMAIN status = Deployment
  BY Zenon DEF Shape, Rows
<1>5. CASE status' = status
  BY Zenon, <1>2, <1>3, <1>5 DEF Accept, Only, Shape
<1>6. CASE status' = [status EXCEPT ![d].refused = FALSE, ![d].fresh = TRUE]
  <2>1. status'[d] = StatusStarting(d)
    BY Zenon, <1>4, <1>6 DEF StatusStarting
  <2>2. /\ status' = [e \in Deployment |-> status'[e]]
        /\ \A e \in Deployment \ {d} : status'[e] = status[e]
    BY Zenon, <1>4, <1>6
  <2> QED BY Zenon, <1>2, <1>3, <2>1, <2>2 DEF Accept, Only, Shape
<1> QED BY Zenon, <1>5, <1>6 DEF Accept

(* A spec written outdates the agent's Sync and the status's conditions. *)
LEMMA NewGenerationEffect ==
  ASSUME Shape, NEW d \in Deployment, NEW spec, NewGeneration(d, spec)
  PROVE  Only(d, spec, StatusOutdated(d), AgOutdated(d))
<1>1. ag[d] = AgRow(ag[d]) /\ DOMAIN ag = Deployment
  BY Zenon DEF Shape, Rows
<1>2. ag'[d] = AgOutdated(d)
  BY Zenon, <1>1 DEF NewGeneration, AgOutdated
<1>3. ag' = [e \in Deployment |-> ag'[e]] /\ \A e \in Deployment \ {d} : ag'[e] = ag[e]
  BY Zenon, <1>1 DEF NewGeneration
<1>4. status[d] = StatusRow(status[d]) /\ DOMAIN status = Deployment
  BY Zenon DEF Shape, Rows
<1>5. status'[d] = StatusOutdated(d)
  BY Zenon, <1>4 DEF NewGeneration, StatusOutdated
<1>6. /\ status' = [e \in Deployment |-> status'[e]]
      /\ \A e \in Deployment \ {d} : status'[e] = status[e]
  BY Zenon, <1>4 DEF NewGeneration
<1>7. /\ dep' = [e \in Deployment |-> dep'[e]] /\ dep'[d] = spec
      /\ \A e \in Deployment \ {d} : dep'[e] = dep[e]
  BY Zenon DEF NewGeneration, Shape
<1> QED BY Zenon, <1>2, <1>3, <1>5, <1>6, <1>7 DEF Only
-----------------------------------------------------------------------------
(* A deployment's status, checkpoint, journal and spec are in order: each  *)
(* is at most as far as the next, a status that has reached the            *)
(* checkpoint's epoch reports its revision, an epoch has one outcome, and  *)
(* an agent works on the epoch it accepted or on one after it.             *)
Told(d) ==
  /\ dep[d].epoch \in Nat /\ ag[d].epoch \in Nat /\ ag[d].cp.epoch \in Nat
  /\ status[d].epoch \in Nat /\ status[d].last \in Nat /\ ag[d].want.epoch \in Nat
  /\ status[d].epoch <= ag[d].cp.epoch /\ ag[d].cp.epoch <= ag[d].epoch
  /\ ag[d].epoch <= dep[d].epoch /\ ag[d].want.epoch <= dep[d].epoch
  /\ status[d].last <= ag[d].epoch
  /\ status[d].epoch = ag[d].cp.epoch => status[d].rev = ag[d].cp.rev
  /\ ag[d].stage \in {"accepted", "failed"} => ag[d].cp.epoch < ag[d].epoch
  /\ status[d].last = ag[d].epoch /\ ag[d].stage = "accepted" => status[d].stage = "accepted"
  /\ ag[d].pc = "go" => ag[d].epoch < ag[d].want.epoch
  /\ ag[d].pc = "apply" => ag[d].stage = "accepted" /\ ag[d].want.epoch = ag[d].epoch
  /\ ag[d].pc = "recover" => ag[d].stage = "failed" /\ ag[d].want.epoch = ag[d].epoch

(* What is revoked for an agent is revoked in what it works from and in    *)
(* the spec, which then names no revision that originates it.              *)
Kept(d) ==
  /\ dep[d].revoked => dep[d].rev \notin Origin
  /\ ag[d].revoked => dep[d].revoked
  /\ ag[d].want.revoked => dep[d].revoked /\ ag[d].want.rev \notin Origin
  /\ ag[d].pc # "idle" /\ ag[d].revoked => ag[d].want.revoked

Begun(a) == rel[a].phase \notin {"none", "pending"}
Over(a) == rel[a].phase \in Ended \cup {"gone"}

(* What is promoted was promoted by a release that started, and what is    *)
(* refused by one that is over.                                            *)
Held(d) ==
  /\ dep[d].auth \in Release \cup {NoRelease}
  /\ ag[d].epoch # dep[d].epoch => dep[d].auth \in Release
  /\ dep[d].auth \in Release =>
       Begun(dep[d].auth) /\ (Withdraws(dep[d].auth) => dep[d].revoked)
  /\ status[d].refused \/ (ag[d].pc = "refuse" /\ ag[d].current) =>
       ag[d].epoch # dep[d].epoch /\ Over(dep[d].auth) /\ ag[d].pc # "go"

(* The cache and the pass hold only releases that started. *)
CacheInv ==
  /\ lag = [a \in Release |-> lag[a]]
  /\ \A a \in Release : lag[a] => Begun(a)
  /\ pass.rel \in Release => Begun(pass.rel)

Good(d) == Rows(d) /\ Told(d) /\ Kept(d) /\ Held(d)

AgentInv ==
  RelInv /\ CacheInv /\ Shape /\ \A d \in Deployment : Good(d)

(* The routers really activating are within the limit and, while a pass    *)
(* promotes, no more than it has counted.                                  *)
ActiveIn(f) == {d \in Deployment : DomainOf[d] = f /\ Activating(d)}

LimitInv ==
  /\ \A f \in Domain : Cardinality(ActiveIn(f)) <= MaxUnavailable
  /\ pass.rel \in Release =>
       /\ pass.count \in [Domain -> Nat]
       /\ \A f \in Domain : Cardinality(ActiveIn(f)) <= pass.count[f]
-----------------------------------------------------------------------------
(* How a release may move in one step. *)
Moves(b) ==
  \/ rel'[b].phase = rel[b].phase /\ rel'[b].withdraws = rel[b].withdraws
  \/ rel[b].phase = "none" /\ rel'[b].phase = "pending"
  \/ /\ rel'[b].withdraws = rel[b].withdraws
     /\ \/ rel[b].phase = "pending" /\ rel'[b].phase \in {"started", "cancelled", "gone"}
        \/ rel[b].phase \in Live /\ rel'[b].phase \in Live \cup {"failed"}
        \/ /\ rel[b].phase \in Live /\ rel'[b].phase = "completed"
           /\ Surveyed(b) \subseteq {"committed", "superseded"}
        \/ rel[b].phase \in Ended /\ rel'[b].phase = "gone"

(* A step that gives one release a phase it may move to moves the others   *)
(* nowhere.                                                                *)
LEMMA OneMoves ==
  ASSUME RelShape, NEW a \in Release, NEW x,
         rel' = [rel EXCEPT ![a].phase = x],
         \/ rel[a].phase = "pending" /\ x \in {"cancelled", "gone"}
         \/ rel[a].phase \in Live /\ x \in Live \cup {"failed"}
         \/ /\ rel[a].phase \in Live /\ x = "completed"
            /\ Surveyed(a) \subseteq {"committed", "superseded"}
         \/ rel[a].phase \in Ended /\ x = "gone"
  PROVE  \A b \in Release : Moves(b)
<1>1. /\ rel'[a].phase = x
      /\ rel'[a].withdraws = rel[a].withdraws
      /\ \A b \in Release \ {a} : rel'[b] = rel[b]
  BY Zenon, OnePhase
<1>2. Moves(a)
  BY Zenon, <1>1 DEF Moves
<1>3. \A b \in Release \ {a} : Moves(b)
  BY Zenon, <1>1 DEF Moves
<1> QED BY Zenon, <1>2, <1>3

(* progress moves the release it is about. *)
LEMMA ProgressMoves ==
  ASSUME RelInv, NEW a \in Release, Progress(a)
  PROVE  \A b \in Release : Moves(b)
<1>1. CASE ProgressEnds(a)
  <2>1. CASE "failed" \in Surveyed(a) /\ Finish(a, "failed")
    <3>1. rel[a].phase \in Live /\ rel' = [rel EXCEPT ![a].phase = "failed"]
      BY Zenon, <1>1, <2>1 DEF ProgressEnds, Finish
    <3> QED BY Zenon, <3>1, OneMoves DEF RelInv
  <2>2. CASE Surveyed(a) \subseteq {"committed", "superseded"} /\ Finish(a, "completed")
    <3>1. rel[a].phase \in Live /\ rel' = [rel EXCEPT ![a].phase = "completed"]
      BY Zenon, <1>1, <2>2 DEF ProgressEnds, Finish
    <3> QED BY Zenon, <2>2, <3>1, OneMoves DEF RelInv
  <2> QED BY Zenon, <1>1, <2>1, <2>2 DEF ProgressEnds
<1>2. CASE ProgressSilent(a)
  <2>1. /\ rel[a].phase \in Live /\ "unknown" \in Live
        /\ rel' = [rel EXCEPT ![a].phase = "unknown"]
    BY Zenon, <1>2 DEF ProgressSilent, Live
  <2> QED BY Zenon, <2>1, OneMoves DEF RelInv
<1>3. CASE ProgressPromotes(a)
  BY Zenon, <1>3 DEF ProgressPromotes, Moves
<1>4. CASE ProgressDeleting(a)
  <2>1. /\ rel[a].phase \in Live /\ "started" \in Live
        /\ rel' = [rel EXCEPT ![a].phase = "started"]
    BY Zenon, <1>4 DEF ProgressDeleting, Live
  <2> QED BY Zenon, <2>1, OneMoves DEF RelInv
<1> QED BY Zenon, <1>1, <1>2, <1>3, <1>4 DEF Progress

(* The end of a pass moves a release only if it is still running. *)
LEMMA EndPassMoves ==
  ASSUME RelInv, EndPass
  PROVE  \A b \in Release : Moves(b)
<1>1. pass.rel \in Release
  BY Zenon DEF RelInv, PassShape, EndPass
<1>2. CASE rel' = rel
  BY Zenon, <1>2 DEF Moves
<1>3. CASE ~pass.stale /\ rel' = [rel EXCEPT ![pass.rel].phase = "failed"]
  <2>1. rel[pass.rel].phase \in Live
    BY Zenon, <1>1, <1>3 DEF RelInv, PassLive
  <2> QED BY Zenon, <1>1, <1>3, <2>1, OneMoves DEF RelInv
<1>4. CASE ~pass.stale /\ rel' = [rel EXCEPT ![pass.rel].phase = "started"]
  <2>1. rel[pass.rel].phase \in Live /\ "started" \in Live
    BY Zenon, <1>1, <1>4 DEF RelInv, PassLive, Live
  <2> QED BY Zenon, <1>1, <1>4, <2>1, OneMoves DEF RelInv
<1> QED BY Zenon, <1>2, <1>3, <1>4 DEF EndPass, Finish

(* Every step moves every release as Moves says. *)
LEMMA AllMove ==
  ASSUME RelInv, [Next]_vars
  PROVE  \A b \in Release : Moves(b)
<1>1. ASSUME rel' = rel
      PROVE  \A b \in Release : Moves(b)
  BY Zenon, <1>1 DEF Moves
<1>2. ASSUME NEW a \in Release,
             \/ Create(a) \/ Cancel(a) \/ TryStart(a) \/ CacheUpdate(a)
             \/ Delete(a) \/ DropFinalizer(a) \/ VerifyRecovery(a) \/ Confirm(a)
             \/ Progress(a)
      PROVE  \A b \in Release : Moves(b)
  <2>1. CASE Create(a)
    BY Zenon, <2>1, CreateEffect DEF RelInv, Create, Moves
  <2>2. CASE Cancel(a)
    <3>1. rel[a].phase = "pending" /\ rel' = [rel EXCEPT ![a].phase = "cancelled"]
      BY Zenon, <2>2 DEF Cancel
    <3> QED BY Zenon, <3>1, OneMoves DEF RelInv
  <2>3. CASE TryStart(a)
    BY Zenon, <2>3, TryStartEffect DEF RelInv, TryStart, Moves
  <2>4. CASE CacheUpdate(a)
    BY Zenon, <1>1, <2>4 DEF CacheUpdate
  <2>5. CASE Delete(a)
    BY Zenon, <2>5, DeleteEffect DEF RelInv, Moves
  <2>6. CASE DropFinalizer(a)
    <3>1. /\ rel[a].phase = "pending" \/ rel[a].phase \in Ended
          /\ rel' = [rel EXCEPT ![a].phase = "gone"]
      BY Zenon, <2>6 DEF DropFinalizer
    <3> QED BY Zenon, <3>1, OneMoves DEF RelInv
  <2>7. CASE VerifyRecovery(a) \/ Confirm(a)
    BY Zenon, <2>7, VerifiedEffect DEF RelInv, Moves
  <2> QED BY Zenon, <1>2, <2>1, <2>2, <2>3, <2>4, <2>5, <2>6, <2>7, ProgressMoves
<1>3. ASSUME NEW d \in Deployment,
             \/ Agent(d) \/ Reject(d) \/ Restart(d) \/ Silence(d)
             \/ Candidate(d) \/ Suspend(d)
      PROVE  \A b \in Release : Moves(b)
  BY Zenon, <1>1, <1>3, DeploymentFrame
<1>4. CASE Promoting
  <2>1. ASSUME NEW d \in Deployment, Skip(d) \/ Invalid(d) \/ Promote(d)
        PROVE  rel' = rel
    BY Zenon, <2>1 DEF Skip, Invalid, Promote
  <2> QED BY Zenon, <1>1, <1>4, <2>1, EndPassMoves DEF Promoting
<1>5. CASE PassFails
  BY Zenon, <1>1, <1>5 DEF PassFails
<1>6. CASE UNCHANGED vars
  BY Zenon, <1>1, <1>6 DEF vars
<1> QED BY Zenon, <1>2, <1>3, <1>4, <1>5, <1>6 DEF Next
-----------------------------------------------------------------------------
(* What Sync's next step says of the journal and the release. *)
LEMMA StepFacts ==
  ASSUME NEW d
  PROVE  /\ Step(d) = "go" => ag[d].epoch # dep[d].epoch /\ rel[dep[d].auth].phase = "started"
         /\ Step(d) = "refuse" =>
              /\ ag[d].epoch # dep[d].epoch
              /\ Over(dep[d].auth) \/ Announces(dep[d].rev, Withdraws(dep[d].auth))
         /\ Step(d) = "apply" => ag[d].epoch = dep[d].epoch /\ ag[d].stage = "accepted"
         /\ Step(d) = "recover" => ag[d].epoch = dep[d].epoch /\ ag[d].stage = "failed"
BY Zenon DEF Step, Authorization, Over

(* The cache and the pass stay on releases that started. *)
LEMMA CacheStep ==
  ASSUME RelInv, CacheInv, [Next]_vars
  PROVE  CacheInv'
<1>1. \A b \in Release : Begun(b) => Begun(b)'
  BY Zenon, AllMove DEF Moves, Begun, Live, Ended
<1>2. ASSUME lag' = lag, pass'.rel \in {pass.rel, NoRelease}
      PROVE  CacheInv'
  BY Zenon, <1>1, <1>2, RolloutAssumption DEF CacheInv
<1>3. ASSUME NEW a \in Release, NEW x \in {"failed", "completed"}, Finish(a, x), pass'.rel = NoRelease
      PROVE  CacheInv'
  <2>1. PICK b : lag' = [lag EXCEPT ![a] = b]
    BY Zenon, <1>3 DEF Finish
  <2>2. Begun(a)'
    BY Zenon, <1>3, OnePhase DEF Finish, Begun, RelInv
  <2> QED BY Zenon, <1>1, <1>3, <2>1, <2>2, RolloutAssumption DEF CacheInv
<1>4. NoPass.rel = NoRelease
  BY Zenon DEF NoPass
<1>5. ASSUME NEW a \in Release, Create(a) \/ Cancel(a) \/ TryStart(a) \/ DropFinalizer(a)
                                \/ VerifyRecovery(a) \/ Confirm(a)
      PROVE  CacheInv'
  BY Zenon, <1>2, <1>5 DEF Create, Cancel, TryStart, DropFinalizer, VerifyRecovery, Confirm
<1>6. ASSUME NEW a \in Release, CacheUpdate(a)
      PROVE  CacheInv'
  BY Zenon, <1>1, <1>6, RolloutAssumption DEF CacheUpdate, CacheInv
<1>7. ASSUME NEW a \in Release, Delete(a)
      PROVE  CacheInv'
  <2>1. PICK b \in {lag[a], rel[a].phase \in Live} : lag' = [lag EXCEPT ![a] = b]
    BY Zenon, <1>7 DEF Delete
  <2>2. b => Begun(a)
    BY Zenon, <2>1 DEF CacheInv, Begun, Live
  <2>3. pass'.rel = pass.rel
    BY Zenon, <1>7 DEF Delete, RelInv, PassShape
  <2> QED BY Zenon, <1>1, <2>1, <2>2, <2>3, RolloutAssumption DEF CacheInv
<1>8. ASSUME NEW a \in Release, Progress(a)
      PROVE  CacheInv'
  <2>1. CASE ProgressEnds(a)
    BY Zenon, <1>3, <1>4, <2>1 DEF ProgressEnds
  <2>2. CASE ProgressSilent(a) \/ ProgressDeleting(a)
    BY Zenon, <1>2, <2>2 DEF ProgressSilent, ProgressDeleting
  <2>3. CASE ProgressPromotes(a)
    <3>1. Begun(a) /\ lag' = lag /\ pass'.rel = a
      BY Zenon, <2>3 DEF ProgressPromotes, CacheInv, Begun, Live
    <3> QED BY Zenon, <1>1, <3>1 DEF CacheInv
  <2> QED BY Zenon, <1>8, <2>1, <2>2, <2>3 DEF Progress
<1>9. ASSUME NEW d \in Deployment,
             \/ Agent(d) \/ Reject(d) \/ Restart(d) \/ Silence(d)
             \/ Candidate(d) \/ Suspend(d)
      PROVE  CacheInv'
  <2>1. lag' = lag
    BY Zenon, <1>9 DEF Agent, Sync, Heartbeat, Accept, Apply, Recover, Report, Reject,
                Restart, Silence, Candidate, Suspend
  <2> QED BY Zenon, <1>2, <1>9, <2>1, DeploymentFrame
<1>10. ASSUME NEW d \in Deployment, Skip(d) \/ Invalid(d) \/ Promote(d)
       PROVE  CacheInv'
  <2>1. lag' = lag /\ pass'.rel = pass.rel
    BY Zenon, <1>10 DEF Skip, Invalid, Promote, RelInv, PassShape
  <2> QED BY Zenon, <1>2, <2>1
<1>11. CASE EndPass
  <2>1. pass.rel \in Release
    BY Zenon, <1>11 DEF RelInv, PassShape, EndPass
  <2>2. lag' = lag \/ Finish(pass.rel, "failed")
    BY Zenon, <1>11 DEF EndPass
  <2> QED BY Zenon, <1>2, <1>3, <1>4, <1>11, <2>1, <2>2 DEF EndPass
<1>12. CASE PassFails
  BY Zenon, <1>2, <1>4, <1>12 DEF PassFails
<1>13. CASE UNCHANGED vars
  BY Zenon, <1>2, <1>13 DEF vars
<1> QED BY Zenon, <1>5, <1>6, <1>7, <1>8, <1>9, <1>10, <1>11, <1>12, <1>13 DEF Next, Promoting
-----------------------------------------------------------------------------
(* Sync takes what it reads. *)
LEMMA SyncGood ==
  ASSUME AgentInv, NEW d \in Deployment, Sync(d)
  PROVE  Good(d)'
<1>1. rel' = rel /\ dep'[d] = dep[d] /\ ag'[d] = AgSynced(d) /\ status'[d] = status[d]
  BY Zenon, SyncEffect DEF Sync, AgentInv, Only
<1>2. /\ ag'[d].pc = Step(d)
      /\ ag'[d].want = [epoch |-> dep[d].epoch, rev |-> dep[d].rev, rec |-> dep[d].rec,
                        revoked |-> dep[d].revoked, retired |-> dep[d].retired]
      /\ ag'[d].current = TRUE /\ ag'[d].epoch = ag[d].epoch
      /\ ag'[d].stage = ag[d].stage /\ ag'[d].revoked = ag[d].revoked
      /\ ag'[d].cp = ag[d].cp /\ status'[d].epoch = status[d].epoch
      /\ status'[d].rev = status[d].rev /\ status'[d].last = status[d].last
      /\ status'[d].stage = status[d].stage
      /\ status'[d].refused = status[d].refused
      /\ status'[d].final = status[d].final
      /\ status'[d].fresh = status[d].fresh
  BY Zenon, <1>1 DEF AgRow, AgSynced
<1>3. Rows(d)'
  BY Zenon, <1>1 DEF AgentInv, Good, Rows, DepRow, StatusRow, AgRow, AgSynced
<1>4. Told(d)'
  <2>1. /\ Step(d) = "go" => ag[d].epoch # dep[d].epoch
        /\ Step(d) = "apply" => ag[d].epoch = dep[d].epoch /\ ag[d].stage = "accepted"
        /\ Step(d) = "recover" => ag[d].epoch = dep[d].epoch /\ ag[d].stage = "failed"
    BY Zenon, StepFacts
  <2> QED BY <1>1, <1>2, <2>1 DEF AgentInv, Good, Told
<1>5. Kept(d)'
  BY <1>1, <1>2 DEF AgentInv, Good, Kept
<1>6. Held(d)'
  <2>1. Step(d) = "refuse" => ag[d].epoch # dep[d].epoch /\ Over(dep[d].auth)
    BY Zenon, StepFacts DEF AgentInv, Good, Kept, Held, Announces
  <2>2. status[d].refused => Step(d) # "go"
    BY Zenon, StepFacts DEF AgentInv, Good, Held, Over, Ended
  <2>3. Over(dep[d].auth)' = Over(dep[d].auth) /\ Begun(dep[d].auth)' = Begun(dep[d].auth)
        /\ Withdraws(dep[d].auth)' = Withdraws(dep[d].auth)
    BY Zenon, <1>1 DEF Over, Begun, Withdraws
  <2> QED BY <1>1, <1>2, <2>1, <2>2, <2>3 DEF AgentInv, Good, Held
<1> QED BY Zenon, <1>3, <1>4, <1>5, <1>6 DEF Good

(* An epoch is accepted. *)
LEMMA AcceptGood ==
  ASSUME AgentInv, NEW d \in Deployment, Accept(d)
  PROVE  Good(d)'
<1>1. rel' = rel /\ dep'[d] = dep[d]
  BY Zenon, AcceptEffect DEF Accept, AgentInv, Only
<1>2. CASE ag'[d] = AgAccepted(d) /\ status'[d] = status[d]
  <2>2. /\ ag'[d].pc = "apply" /\ ag'[d].want = ag[d].want
        /\ ag'[d].current = ag[d].current /\ ag'[d].epoch = ag[d].want.epoch
        /\ ag'[d].stage = "accepted" /\ ag'[d].revoked = ag[d].want.revoked
        /\ ag'[d].cp = ag[d].cp /\ status'[d].epoch = status[d].epoch
        /\ status'[d].rev = status[d].rev /\ status'[d].last = status[d].last
        /\ status'[d].stage = status[d].stage
        /\ status'[d].refused = status[d].refused
        /\ status'[d].final = status[d].final
        /\ status'[d].fresh = status[d].fresh
    BY Zenon, <1>2 DEF AgRow, AgAccepted
  <2>3. Rows(d)'
    BY Zenon, <1>1, <1>2 DEF AgentInv, Good, Rows, DepRow, StatusRow, AgRow, AgAccepted
  <2>4. Told(d)'
    BY <1>1, <2>2 DEF Accept, AgentInv, Good, Told
  <2>5. Kept(d)'
    BY Zenon, <1>1, <2>2 DEF Accept, AgentInv, Good, Kept
  <2>6. Held(d)'
    <3>1. ag[d].pc = "go" /\ ag[d].epoch # dep[d].epoch
      BY DEF Accept, AgentInv, Good, Told
    <3> QED BY Zenon, <1>1, <2>2, <3>1 DEF AgentInv, Good, Held, Begun, Over, Withdraws
  <2> QED BY Zenon, <2>3, <2>4, <2>5, <2>6 DEF Good
<1>3. CASE ag'[d] = AgAccepted(d) /\ status'[d] = StatusStarting(d)
  <2>2. /\ ag'[d].pc = "apply" /\ ag'[d].want = ag[d].want
        /\ ag'[d].current = ag[d].current /\ ag'[d].epoch = ag[d].want.epoch
        /\ ag'[d].stage = "accepted" /\ ag'[d].revoked = ag[d].want.revoked
        /\ ag'[d].cp = ag[d].cp /\ status'[d].epoch = status[d].epoch
        /\ status'[d].rev = status[d].rev /\ status'[d].last = status[d].last
        /\ status'[d].stage = status[d].stage /\ status'[d].refused = FALSE
        /\ status'[d].final = status[d].final /\ status'[d].fresh = TRUE
    BY <1>3 DEF AgRow, AgAccepted, StatusRow, StatusStarting
  <2>3. Rows(d)'
    BY Zenon, <1>1, <1>3 DEF AgentInv, Good, Rows, DepRow, StatusRow, AgRow, AgAccepted, StatusStarting
  <2>4. Told(d)'
    BY <1>1, <2>2 DEF Accept, AgentInv, Good, Told
  <2>5. Kept(d)'
    BY Zenon, <1>1, <2>2 DEF Accept, AgentInv, Good, Kept
  <2>6. Held(d)'
    <3>1. ag[d].pc = "go" /\ ag[d].epoch # dep[d].epoch
      BY DEF Accept, AgentInv, Good, Told
    <3> QED BY Zenon, <1>1, <2>2, <3>1 DEF AgentInv, Good, Held, Begun, Over, Withdraws
  <2> QED BY Zenon, <2>3, <2>4, <2>5, <2>6 DEF Good
<1> QED BY Zenon, <1>2, <1>3, AcceptEffect DEF AgentInv, Only

(* A revision is rejected. *)
LEMMA RejectGood ==
  ASSUME AgentInv, NEW d \in Deployment, Reject(d)
  PROVE  Good(d)'
<1>1. rel' = rel /\ dep'[d] = dep[d] /\ ag'[d] = AgRejected(d) /\ status'[d] = status[d]
  BY Zenon, RejectEffect DEF Reject, AgentInv, Only
<1>2. /\ ag'[d].pc = "report" /\ ag'[d].want = ag[d].want
      /\ ag'[d].current = ag[d].current /\ ag'[d].epoch = ag[d].epoch
      /\ ag'[d].stage = ag[d].stage /\ ag'[d].revoked = ag[d].revoked
      /\ ag'[d].cp = ag[d].cp /\ status'[d].epoch = status[d].epoch
      /\ status'[d].rev = status[d].rev /\ status'[d].last = status[d].last
      /\ status'[d].stage = status[d].stage
      /\ status'[d].refused = status[d].refused
      /\ status'[d].final = status[d].final
      /\ status'[d].fresh = status[d].fresh
  BY Zenon, <1>1 DEF AgRow, AgRejected
<1>3. Rows(d)'
  BY Zenon, <1>1 DEF AgentInv, Good, Rows, DepRow, StatusRow, AgRow, AgRejected
<1>4. Told(d)'
  BY <1>1, <1>2 DEF Reject, AgentInv, Good, Told
<1>5. Kept(d)'
  BY Zenon, <1>1, <1>2 DEF Reject, AgentInv, Good, Kept
<1>6. Held(d)'
  BY Zenon, <1>1, <1>2 DEF Reject, AgentInv, Good, Held, Begun, Over, Withdraws
<1> QED BY Zenon, <1>3, <1>4, <1>5, <1>6 DEF Good

(* An agent restarts. *)
LEMMA RestartGood ==
  ASSUME AgentInv, NEW d \in Deployment, Restart(d)
  PROVE  Good(d)'
<1>1. rel' = rel /\ dep'[d] = dep[d] /\ ag'[d] = AgIdle(d) /\ status'[d] = status[d]
  BY Zenon, RestartEffect DEF Restart, AgentInv, Only
<1>2. /\ ag'[d].pc = "idle" /\ ag'[d].want = NoWant
      /\ ag'[d].current = FALSE /\ ag'[d].epoch = ag[d].epoch
      /\ ag'[d].stage = ag[d].stage /\ ag'[d].revoked = ag[d].revoked
      /\ ag'[d].cp = ag[d].cp /\ status'[d].epoch = status[d].epoch
      /\ status'[d].rev = status[d].rev /\ status'[d].last = status[d].last
      /\ status'[d].stage = status[d].stage
      /\ status'[d].refused = status[d].refused
      /\ status'[d].final = status[d].final
      /\ status'[d].fresh = status[d].fresh
  BY Zenon, <1>1 DEF AgRow, AgIdle
<1>3. Rows(d)'
  BY Zenon, <1>1 DEF AgentInv, Good, Rows, DepRow, StatusRow, AgRow, AgIdle
<1>4. Told(d)'
  BY <1>1, <1>2 DEF Restart, AgentInv, Good, Told, NoWant
<1>5. Kept(d)'
  BY <1>1, <1>2 DEF Restart, AgentInv, Good, Kept, NoWant
<1>6. Held(d)'
  BY <1>1, <1>2 DEF Restart, AgentInv, Good, Held, Begun, Over, Withdraws
<1> QED BY Zenon, <1>3, <1>4, <1>5, <1>6 DEF Good

(* An epoch is applied, or fails. *)
LEMMA ApplyGood ==
  ASSUME AgentInv, NEW d \in Deployment, Apply(d)
  PROVE  Good(d)'
<1>1. rel' = rel /\ dep'[d] = dep[d]
  BY Zenon, ApplyEffect DEF Apply, AgentInv, Only
<1>2. CASE ag'[d] = AgCommitted(d) /\ status'[d] = status[d]
  <2>2. /\ ag'[d].pc = "report" /\ ag'[d].want = ag[d].want
        /\ ag'[d].current = ag[d].current /\ ag'[d].epoch = ag[d].epoch
        /\ ag'[d].stage = "committed" /\ ag'[d].revoked = ag[d].revoked
        /\ ag'[d].cp = [epoch |-> ag[d].want.epoch, rev |-> ag[d].want.rev]
        /\ status'[d].epoch = status[d].epoch
        /\ status'[d].rev = status[d].rev /\ status'[d].last = status[d].last
        /\ status'[d].stage = status[d].stage
        /\ status'[d].refused = status[d].refused
        /\ status'[d].final = status[d].final
        /\ status'[d].fresh = status[d].fresh
    BY Zenon, <1>2 DEF AgRow, AgCommitted
  <2>3. Rows(d)'
    BY Zenon, <1>1, <1>2 DEF AgentInv, Good, Rows, DepRow, StatusRow, AgRow, AgCommitted
  <2>4. Told(d)'
    BY <1>1, <2>2 DEF Apply, AgentInv, Good, Told
  <2>5. Kept(d)'
    BY Zenon, <1>1, <2>2 DEF Apply, AgentInv, Good, Kept
  <2>6. Held(d)'
    BY Zenon, <1>1, <2>2 DEF Apply, AgentInv, Good, Held, Begun, Over, Withdraws
  <2> QED BY Zenon, <2>3, <2>4, <2>5, <2>6 DEF Good
<1>3. CASE ag'[d] = AgFailed(d) /\ status'[d] = status[d]
  <2>2. /\ ag'[d].pc = "recover" /\ ag'[d].want = ag[d].want
        /\ ag'[d].current = ag[d].current /\ ag'[d].epoch = ag[d].epoch
        /\ ag'[d].stage = "failed" /\ ag'[d].revoked = ag[d].revoked
        /\ ag'[d].cp = ag[d].cp /\ status'[d].epoch = status[d].epoch
        /\ status'[d].rev = status[d].rev /\ status'[d].last = status[d].last
        /\ status'[d].stage = status[d].stage
        /\ status'[d].refused = status[d].refused
        /\ status'[d].final = status[d].final
        /\ status'[d].fresh = status[d].fresh
    BY Zenon, <1>3 DEF AgRow, AgFailed
  <2>3. Rows(d)'
    BY Zenon, <1>1, <1>3 DEF AgentInv, Good, Rows, DepRow, StatusRow, AgRow, AgFailed
  <2>4. Told(d)'
    BY <1>1, <2>2 DEF Apply, AgentInv, Good, Told
  <2>5. Kept(d)'
    BY Zenon, <1>1, <2>2 DEF Apply, AgentInv, Good, Kept
  <2>6. Held(d)'
    BY Zenon, <1>1, <2>2 DEF Apply, AgentInv, Good, Held, Begun, Over, Withdraws
  <2> QED BY Zenon, <2>3, <2>4, <2>5, <2>6 DEF Good
<1> QED BY Zenon, <1>2, <1>3, ApplyEffect DEF AgentInv, Only

(* A failed epoch is recovered, or not. *)
LEMMA RecoverGood ==
  ASSUME AgentInv, NEW d \in Deployment, Recover(d)
  PROVE  Good(d)'
<1>1. rel' = rel /\ dep'[d] = dep[d]
  BY Zenon, RecoverEffect DEF Recover, AgentInv, Only
<1>2. CASE ag'[d] = AgRecovered(d) /\ status'[d] = status[d]
  <2>2. /\ ag'[d].pc = "report" /\ ag'[d].want = ag[d].want
        /\ ag'[d].current = ag[d].current /\ ag'[d].epoch = ag[d].epoch
        /\ ag'[d].stage = "recovered" /\ ag'[d].revoked = ag[d].revoked
        /\ ag'[d].cp = [epoch |-> ag[d].want.epoch, rev |-> ag[d].want.rec]
        /\ status'[d].epoch = status[d].epoch
        /\ status'[d].rev = status[d].rev /\ status'[d].last = status[d].last
        /\ status'[d].stage = status[d].stage
        /\ status'[d].refused = status[d].refused
        /\ status'[d].final = status[d].final
        /\ status'[d].fresh = status[d].fresh
    BY Zenon, <1>2 DEF AgRow, AgRecovered
  <2>3. Rows(d)'
    BY Zenon, <1>1, <1>2 DEF AgentInv, Good, Rows, DepRow, StatusRow, AgRow, AgRecovered
  <2>4. Told(d)'
    BY <1>1, <2>2 DEF Recover, AgentInv, Good, Told
  <2>5. Kept(d)'
    BY Zenon, <1>1, <2>2 DEF Recover, AgentInv, Good, Kept
  <2>6. Held(d)'
    BY Zenon, <1>1, <2>2 DEF Recover, AgentInv, Good, Held, Begun, Over, Withdraws
  <2> QED BY Zenon, <2>3, <2>4, <2>5, <2>6 DEF Good
<1>3. CASE ag'[d] = AgDegraded(d) /\ status'[d] = status[d]
  <2>2. /\ ag'[d].pc = "degraded" /\ ag'[d].want = ag[d].want
        /\ ag'[d].current = ag[d].current /\ ag'[d].epoch = ag[d].epoch
        /\ ag'[d].stage = ag[d].stage /\ ag'[d].revoked = ag[d].revoked
        /\ ag'[d].cp = ag[d].cp /\ status'[d].epoch = status[d].epoch
        /\ status'[d].rev = status[d].rev /\ status'[d].last = status[d].last
        /\ status'[d].stage = status[d].stage
        /\ status'[d].refused = status[d].refused
        /\ status'[d].final = status[d].final
        /\ status'[d].fresh = status[d].fresh
    BY Zenon, <1>3 DEF AgRow, AgDegraded
  <2>3. Rows(d)'
    BY Zenon, <1>1, <1>3 DEF AgentInv, Good, Rows, DepRow, StatusRow, AgRow, AgDegraded
  <2>4. Told(d)'
    BY <1>1, <2>2 DEF Recover, AgentInv, Good, Told
  <2>5. Kept(d)'
    BY Zenon, <1>1, <2>2 DEF Recover, AgentInv, Good, Kept
  <2>6. Held(d)'
    BY Zenon, <1>1, <2>2 DEF Recover, AgentInv, Good, Held, Begun, Over, Withdraws
  <2> QED BY Zenon, <2>3, <2>4, <2>5, <2>6 DEF Good
<1> QED BY Zenon, <1>2, <1>3, RecoverEffect DEF AgentInv, Only

(* A heartbeat reports. *)
LEMMA HeartbeatGood ==
  ASSUME AgentInv, NEW d \in Deployment, Heartbeat(d)
  PROVE  Good(d)'
<1>1. rel' = rel /\ dep'[d] = dep[d] /\ ag'[d] = ag[d] /\ status'[d] = Reported(d)
  BY Zenon, HeartbeatEffect DEF Heartbeat, AgentInv, Only
<1>2. /\ ag'[d].pc = ag[d].pc /\ ag'[d].want = ag[d].want
      /\ ag'[d].current = ag[d].current /\ ag'[d].epoch = ag[d].epoch
      /\ ag'[d].stage = ag[d].stage /\ ag'[d].revoked = ag[d].revoked
      /\ ag'[d].cp = ag[d].cp /\ status'[d].epoch = ag[d].cp.epoch
      /\ status'[d].rev = ag[d].cp.rev /\ status'[d].last = ag[d].epoch
      /\ status'[d].stage = ag[d].stage
      /\ status'[d].refused = (ag[d].pc = "refuse" /\ ag[d].current)
      /\ status'[d].final = (ag[d].pc = "degraded" /\ ag[d].current)
      /\ status'[d].fresh = TRUE
  BY <1>1 DEF Reported
<1>3. Rows(d)'
  BY Zenon, <1>1 DEF AgentInv, Good, Rows, DepRow, StatusRow, AgRow, Reported
<1>4. Told(d)'
  BY <1>1, <1>2 DEF Heartbeat, AgentInv, Good, Told
<1>5. Kept(d)'
  BY Zenon, <1>1, <1>2 DEF Heartbeat, AgentInv, Good, Kept
<1>6. Held(d)'
  BY Zenon, <1>1, <1>2 DEF Heartbeat, AgentInv, Good, Held, Begun, Over, Withdraws
<1> QED BY Zenon, <1>3, <1>4, <1>5, <1>6 DEF Good

(* Sync ends with its report. *)
LEMMA ReportGood ==
  ASSUME AgentInv, NEW d \in Deployment, Report(d)
  PROVE  Good(d)'
<1>1. rel' = rel /\ dep'[d] = dep[d] /\ ag'[d] = AgIdle(d) /\ status'[d] = Reported(d)
  BY Zenon, ReportEffect DEF Report, AgentInv, Only
<1>2. /\ ag'[d].pc = "idle" /\ ag'[d].want = NoWant
      /\ ag'[d].current = FALSE /\ ag'[d].epoch = ag[d].epoch
      /\ ag'[d].stage = ag[d].stage /\ ag'[d].revoked = ag[d].revoked
      /\ ag'[d].cp = ag[d].cp /\ status'[d].epoch = ag[d].cp.epoch
      /\ status'[d].rev = ag[d].cp.rev /\ status'[d].last = ag[d].epoch
      /\ status'[d].stage = ag[d].stage
      /\ status'[d].refused = (ag[d].pc = "refuse" /\ ag[d].current)
      /\ status'[d].final = (ag[d].pc = "degraded" /\ ag[d].current)
      /\ status'[d].fresh = TRUE
  BY <1>1 DEF AgRow, AgIdle, Reported
<1>3. Rows(d)'
  BY Zenon, <1>1 DEF AgentInv, Good, Rows, DepRow, StatusRow, AgRow, AgIdle, Reported
<1>4. Told(d)'
  BY <1>1, <1>2 DEF Report, AgentInv, Good, Told, NoWant
<1>5. Kept(d)'
  BY <1>1, <1>2 DEF Report, AgentInv, Good, Kept, NoWant
<1>6. Held(d)'
  BY Zenon, <1>1, <1>2 DEF Report, AgentInv, Good, Held, Begun, Over, Withdraws
<1> QED BY Zenon, <1>3, <1>4, <1>5, <1>6 DEF Good

(* A status grows old. *)
LEMMA SilenceGood ==
  ASSUME AgentInv, NEW d \in Deployment, Silence(d)
  PROVE  Good(d)'
<1>1. rel' = rel /\ dep'[d] = dep[d] /\ ag'[d] = ag[d] /\ status'[d] = StatusSilent(d)
  BY Zenon, SilenceEffect DEF Silence, AgentInv, Only
<1>2. /\ ag'[d].pc = ag[d].pc /\ ag'[d].want = ag[d].want
      /\ ag'[d].current = ag[d].current /\ ag'[d].epoch = ag[d].epoch
      /\ ag'[d].stage = ag[d].stage /\ ag'[d].revoked = ag[d].revoked
      /\ ag'[d].cp = ag[d].cp /\ status'[d].epoch = status[d].epoch
      /\ status'[d].rev = status[d].rev /\ status'[d].last = status[d].last
      /\ status'[d].stage = status[d].stage
      /\ status'[d].refused = status[d].refused
      /\ status'[d].final = status[d].final /\ status'[d].fresh = FALSE
  BY Zenon, <1>1 DEF StatusRow, StatusSilent
<1>3. Rows(d)'
  BY Zenon, <1>1 DEF AgentInv, Good, Rows, DepRow, StatusRow, AgRow, StatusSilent
<1>4. Told(d)'
  BY <1>1, <1>2 DEF Silence, AgentInv, Good, Told
<1>5. Kept(d)'
  BY Zenon, <1>1, <1>2 DEF Silence, AgentInv, Good, Kept
<1>6. Held(d)'
  BY Zenon, <1>1, <1>2 DEF Silence, AgentInv, Good, Held, Begun, Over, Withdraws
<1> QED BY Zenon, <1>3, <1>4, <1>5, <1>6 DEF Good

(* An edit of the spec that promotes nothing. *)
LEMMA EditGood ==
  ASSUME AgentInv, NEW d \in Deployment, Candidate(d) \/ Suspend(d)
  PROVE  Good(d)'
<1>1. PICK u : /\ NewGeneration(d, [DepRow(dep[d]) EXCEPT !.usable = u])
               /\ rel' = rel
  <2>1. dep[d] = DepRow(dep[d])
    BY Zenon DEF AgentInv, Good, Rows
  <2>2. CASE Candidate(d)
    <3>1. dep[d] = [DepRow(dep[d]) EXCEPT !.usable = dep[d].usable]
      BY Zenon, <2>1 DEF DepRow
    <3> QED BY Zenon, <2>2, <3>1 DEF Candidate
  <2>3. CASE Suspend(d)
    <3>1. [dep[d] EXCEPT !.usable = ~@] = [DepRow(dep[d]) EXCEPT !.usable = ~dep[d].usable]
      BY Zenon, <2>1 DEF DepRow
    <3> QED BY Zenon, <2>3, <3>1 DEF Suspend
  <2> QED BY Zenon, <2>2, <2>3
<1>2. /\ dep'[d] = [DepRow(dep[d]) EXCEPT !.usable = u]
      /\ status'[d] = StatusOutdated(d) /\ ag'[d] = AgOutdated(d)
  BY Zenon, <1>1, NewGenerationEffect DEF AgentInv, Only
<1>3. /\ dep'[d].epoch = dep[d].epoch /\ dep'[d].rev = dep[d].rev
      /\ dep'[d].auth = dep[d].auth /\ dep'[d].revoked = dep[d].revoked
      /\ ag'[d].pc = ag[d].pc /\ ag'[d].want = ag[d].want /\ ag'[d].current = FALSE
      /\ ag'[d].epoch = ag[d].epoch /\ ag'[d].stage = ag[d].stage
      /\ ag'[d].revoked = ag[d].revoked /\ ag'[d].cp = ag[d].cp
      /\ status'[d].epoch = status[d].epoch /\ status'[d].rev = status[d].rev
      /\ status'[d].last = status[d].last /\ status'[d].stage = status[d].stage
      /\ status'[d].refused = FALSE
  BY <1>2 DEF DepRow, StatusRow, AgRow, StatusOutdated, AgOutdated
<1>4. Rows(d)'
  BY Zenon, <1>2 DEF Rows, DepRow, StatusRow, AgRow, StatusOutdated, AgOutdated
<1>5. Told(d)'
  BY <1>3 DEF AgentInv, Good, Told
<1>6. Kept(d)'
  BY Zenon, <1>3 DEF AgentInv, Good, Kept
<1>7. Held(d)'
  BY Zenon, <1>1, <1>3 DEF AgentInv, Good, Held, Begun, Over, Withdraws
<1> QED BY Zenon, <1>4, <1>5, <1>6, <1>7 DEF Good

(* What promote writes. *)
LEMMA PromotedFields ==
  ASSUME AgentInv, NEW d \in Deployment, NEW a
  PROVE  LET p == Promoted(a, d) IN
           /\ p = DepRow(p)
           /\ p.epoch = dep[d].epoch + 1 /\ p.rev = Target(a, d).rev /\ p.auth = a
           /\ p.revoked = (dep[d].revoked \/ Withdraws(a))
<1>1. dep[d] = DepRow(dep[d])
  BY Zenon DEF AgentInv, Good, Rows
<1>2. PICK rec, retired : Promoted(a, d) =
        [DepRow(dep[d]) EXCEPT !.epoch = @ + 1, !.rev = Target(a, d).rev, !.auth = a,
           !.revoked = (dep[d].revoked \/ Withdraws(a)), !.retired = retired, !.rec = rec]
  BY Zenon, <1>1 DEF Promoted
<1> QED BY Zenon, <1>2 DEF DepRow

(* A promotion by a release that started, of what may be promoted. *)
LEMMA PromoteGood ==
  ASSUME AgentInv, NEW d \in Deployment, Promote(d)
  PROVE  Good(d)'
<1>1. PICK a \in Release : a = pass.rel /\ Begun(a) /\ rel' = rel
  BY Zenon DEF Promote, Next1, AgentInv, RelInv, PassShape, CacheInv
<1>2. dep'[d] = Promoted(a, d) /\ status'[d] = StatusOutdated(d) /\ ag'[d] = AgOutdated(d)
  BY Zenon, <1>1, NewGenerationEffect DEF Promote, AgentInv, Only
<1>3. /\ dep'[d] = DepRow(dep'[d])
      /\ dep'[d].epoch = dep[d].epoch + 1 /\ dep'[d].rev = Target(a, d).rev
      /\ dep'[d].auth = a /\ dep'[d].revoked = (dep[d].revoked \/ Withdraws(a))
  BY <1>2, PromotedFields
<1>4. /\ ag'[d].pc = ag[d].pc /\ ag'[d].want = ag[d].want /\ ag'[d].current = FALSE
      /\ ag'[d].epoch = ag[d].epoch /\ ag'[d].stage = ag[d].stage
      /\ ag'[d].revoked = ag[d].revoked /\ ag'[d].cp = ag[d].cp
      /\ status'[d].epoch = status[d].epoch /\ status'[d].rev = status[d].rev
      /\ status'[d].last = status[d].last /\ status'[d].stage = status[d].stage
      /\ status'[d].refused = FALSE
  BY Zenon, <1>2 DEF StatusRow, AgRow, StatusOutdated, AgOutdated
<1>5. Rows(d)'
  BY Zenon, <1>2, <1>3 DEF Rows, StatusRow, AgRow, StatusOutdated, AgOutdated
<1>6. Told(d)'
  BY <1>3, <1>4 DEF AgentInv, Good, Told
<1>7. Kept(d)'
  <2>1. dep'[d].revoked => dep'[d].rev \notin Origin
    BY Zenon, <1>1, <1>3 DEF Promote, Promotable, Announces
  <2> QED BY Zenon, <1>3, <1>4, <2>1 DEF AgentInv, Good, Kept
<1>8. Held(d)'
  <2>1. Begun(a)' /\ (Withdraws(a)' => dep'[d].revoked)
    BY Zenon, <1>1, <1>3 DEF Begun, Withdraws
  <2> QED BY Zenon, <1>1, <1>3, <1>4, <2>1 DEF Held
<1> QED BY Zenon, <1>5, <1>6, <1>7, <1>8 DEF Good

(* A deployment no step is about stays as it is, and releases do not start *)
(* again.                                                                  *)
LEMMA OthersGood ==
  ASSUME AgentInv, [Next]_vars, NEW e \in Deployment,
         dep'[e] = dep[e], status'[e] = status[e], ag'[e] = ag[e]
  PROVE  Good(e)'
<1>1. Rows(e)' /\ Told(e)' /\ Kept(e)'
  BY SMTT(30) DEF AgentInv, Good, Rows, DepRow, StatusRow, AgRow, Told, Kept
<1>2. \A b \in Release :
        /\ Begun(b) => Begun(b)' /\ Withdraws(b)' = Withdraws(b)
        /\ Over(b) => Over(b)'
  BY Zenon, AllMove DEF AgentInv, Moves, Begun, Over, Withdraws, Live, Ended
<1>3. Held(e)'
  BY Zenon, <1>2 DEF AgentInv, Good, Held
<1> QED BY Zenon, <1>1, <1>3 DEF Good
-----------------------------------------------------------------------------
(* AgentInv is inductive. *)

(* A step about one deployment that leaves it good keeps the invariant. *)
LEMMA OneStep ==
  ASSUME AgentInv, [Next]_vars, NEW d \in Deployment, NEW D, NEW S, NEW A,
         Only(d, D, S, A), Good(d)'
  PROVE  AgentInv'
<1>1. \A e \in Deployment \ {d} :
        dep'[e] = dep[e] /\ status'[e] = status[e] /\ ag'[e] = ag[e]
  BY Zenon DEF Only
<1>2. \A e \in Deployment \ {d} : Good(e)'
  BY Zenon, <1>1, OthersGood
<1>3. \A e \in Deployment : Good(e)'
  BY Zenon, <1>2
<1>4. Shape'
  BY Zenon, <1>3 DEF Only, Shape, Good
<1>5. RelInv' /\ CacheInv'
  BY Zenon, RelInvStep, CacheStep DEF AgentInv
<1> QED BY Zenon, <1>3, <1>4, <1>5 DEF AgentInv

(* A step about no deployment keeps the invariant. *)
LEMMA QuietStep ==
  ASSUME AgentInv, [Next]_vars, dep' = dep, status' = status, ag' = ag
  PROVE  AgentInv'
<1>1. \A e \in Deployment : Good(e)'
  BY Zenon, OthersGood
<1>2. Shape'
  BY Zenon, <1>1 DEF AgentInv, Shape, Good
<1>3. RelInv' /\ CacheInv'
  BY Zenon, RelInvStep, CacheStep DEF AgentInv
<1> QED BY Zenon, <1>1, <1>2, <1>3 DEF AgentInv

(* The steps about no deployment. *)
LEMMA Quiet ==
  ASSUME [Next]_vars
  PROVE  \/ dep' = dep /\ status' = status /\ ag' = ag
         \/ \E d \in Deployment :
              \/ Sync(d) \/ Heartbeat(d) \/ Accept(d) \/ Apply(d) \/ Recover(d) \/ Report(d)
              \/ Reject(d) \/ Restart(d) \/ Silence(d) \/ Candidate(d) \/ Suspend(d)
              \/ Promote(d)
<1>1. ASSUME NEW a \in Release,
             \/ Create(a) \/ Cancel(a) \/ TryStart(a) \/ CacheUpdate(a)
             \/ Delete(a) \/ DropFinalizer(a) \/ VerifyRecovery(a) \/ Confirm(a)
             \/ Progress(a)
      PROVE  dep' = dep /\ status' = status /\ ag' = ag
  BY Zenon, <1>1 DEF Create, Cancel, TryStart, CacheUpdate, Delete, DropFinalizer,
              VerifyRecovery, Confirm, Progress, ProgressEnds, ProgressSilent,
              ProgressPromotes, ProgressDeleting
<1>2. ASSUME NEW d \in Deployment, Skip(d) \/ Invalid(d)
      PROVE  dep' = dep /\ status' = status /\ ag' = ag
  BY Zenon, <1>2 DEF Skip, Invalid
<1>3. ASSUME EndPass \/ PassFails \/ UNCHANGED vars
      PROVE  dep' = dep /\ status' = status /\ ag' = ag
  BY Zenon, <1>3 DEF EndPass, PassFails, vars
<1> QED BY Zenon, <1>1, <1>2, <1>3 DEF Next, Promoting, Agent

(* AgentInv is inductive. *)
LEMMA AgentInvStep == AgentInv /\ [Next]_vars => AgentInv'
<1> SUFFICES ASSUME AgentInv, [Next]_vars
             PROVE  AgentInv'
  BY Zenon
<1>1. CASE dep' = dep /\ status' = status /\ ag' = ag
  BY Zenon, <1>1, QuietStep
<1>2. ASSUME NEW d \in Deployment, Sync(d)
      PROVE  AgentInv'
  BY Zenon, <1>2, SyncEffect, SyncGood, OneStep DEF AgentInv
<1>3. ASSUME NEW d \in Deployment, Heartbeat(d)
      PROVE  AgentInv'
  BY Zenon, <1>3, HeartbeatEffect, HeartbeatGood, OneStep DEF AgentInv
<1>4. ASSUME NEW d \in Deployment, Accept(d)
      PROVE  AgentInv'
  BY Zenon, <1>4, AcceptEffect, AcceptGood, OneStep DEF AgentInv
<1>5. ASSUME NEW d \in Deployment, Apply(d)
      PROVE  AgentInv'
  BY Zenon, <1>5, ApplyEffect, ApplyGood, OneStep DEF AgentInv
<1>6. ASSUME NEW d \in Deployment, Recover(d)
      PROVE  AgentInv'
  BY Zenon, <1>6, RecoverEffect, RecoverGood, OneStep DEF AgentInv
<1>7. ASSUME NEW d \in Deployment, Report(d)
      PROVE  AgentInv'
  BY SMTT(30), <1>7, ReportEffect, ReportGood, OneStep DEF AgentInv
<1>8. ASSUME NEW d \in Deployment, Reject(d)
      PROVE  AgentInv'
  BY Zenon, <1>8, RejectEffect, RejectGood, OneStep DEF AgentInv
<1>9. ASSUME NEW d \in Deployment, Restart(d)
      PROVE  AgentInv'
  BY Zenon, <1>9, RestartEffect, RestartGood, OneStep DEF AgentInv
<1>10. ASSUME NEW d \in Deployment, Silence(d)
       PROVE  AgentInv'
  BY Zenon, <1>10, SilenceEffect, SilenceGood, OneStep DEF AgentInv
<1>11. ASSUME NEW d \in Deployment, Candidate(d) \/ Suspend(d)
       PROVE  AgentInv'
  <2>1. PICK spec : NewGeneration(d, spec)
    BY Zenon, <1>11 DEF Candidate, Suspend
  <2>2. Only(d, spec, StatusOutdated(d), AgOutdated(d))
    BY Zenon, <2>1, NewGenerationEffect DEF AgentInv
  <2> QED BY Zenon, <1>11, <2>2, EditGood, OneStep
<1>12. ASSUME NEW d \in Deployment, Promote(d)
       PROVE  AgentInv'
  <2>1. PICK spec : NewGeneration(d, spec)
    BY Zenon, <1>12 DEF Promote
  <2>2. Only(d, spec, StatusOutdated(d), AgOutdated(d))
    BY Zenon, <2>1, NewGenerationEffect DEF AgentInv
  <2> QED BY Zenon, <1>12, <2>2, PromoteGood, OneStep
<1> QED BY SMTT(30), <1>1, <1>2, <1>3, <1>4, <1>5, <1>6, <1>7, <1>8, <1>9, <1>10, <1>11,
           <1>12, Quiet

(* Every router runs First, as its status says. *)
LEMMA AgentInvInit == Init => AgentInv
<1> SUFFICES ASSUME Init
             PROVE  AgentInv
  BY Zenon
<1>1. CacheInv
  BY Zenon, RolloutAssumption DEF Init, CacheInv, NoPass
<1>2. Shape /\ \A d \in Deployment : Rows(d)
  BY Zenon DEF Init, Shape, Rows, DepRow, StatusRow, AgRow
<1>3. \A d \in Deployment : Told(d)
  BY DEF Init, Told, NoWant
<1>4. \A d \in Deployment : Kept(d) /\ Held(d)
  BY Zenon, RolloutAssumption DEF Init, Kept, Held, NoWant
<1> QED BY Zenon, <1>1, <1>2, <1>3, <1>4, RelInvInit DEF AgentInv, Good

(* AgentInv holds of every state of every behaviour. *)
LEMMA AgentInvAlways == Spec => []AgentInv
BY AgentInvInit, AgentInvStep, PTL DEF Spec
-----------------------------------------------------------------------------
(* A target survey reads as committed runs the revision named for it, by   *)
(* the agent's checkpoint.                                                 *)
LEMMA CommittedIsTrue ==
  ASSUME AgentInv, NEW a \in Release, NEW d \in Deployment, StateOf(a, d) = "committed"
  PROVE  ag[d].cp.rev = Target(a, d).rev
<1>1. Committed(d) /\ dep[d].rev = Target(a, d).rev
  BY Zenon DEF StateOf, StateBefore, Runs
<1>2. status[d].epoch = ag[d].cp.epoch
  BY <1>1 DEF Committed, AgentInv, Good, Told
<1> QED BY Zenon, <1>1, <1>2 DEF Committed, AgentInv, Good, Told

(* progress records Completed only when every router named runs its        *)
(* revision, or a newer release has moved it on.                           *)
THEOREM CompletionIsTrue == Spec => CompletedIsTrue
<1>1. ASSUME AgentInv, [Next]_vars, NEW a \in Release,
             rel[a].phase # "completed", rel'[a].phase = "completed",
             NEW d \in Targets(a)
      PROVE  \/ ag[d].cp.rev = Target(a, d).rev
             \/ dep[d].auth # NoRelease /\ Seq[dep[d].auth] > Seq[a]
             \/ dep[d].auth # NoRelease /\ rel[dep[d].auth].at > rel[a].at
  <2>1. Surveyed(a) \subseteq {"committed", "superseded"}
    BY Zenon, <1>1, AllMove DEF AgentInv, Moves, Live
  <2>2. d \in Deployment
    BY Zenon, <1>1 DEF Targets, AgentInv, RelInv, RelShape
  <2>3. Survey(a, d) \in {"committed", "superseded"}
    BY Zenon, <1>1, <2>1 DEF Surveyed
  <2>4. CASE StateOf(a, d) \in {"waiting", "blocked"} /\ SupersededBy(a, d)
    BY Zenon, <2>4 DEF SupersededBy
  <2>5. CASE StateOf(a, d) = "committed"
    BY Zenon, <1>1, <2>2, <2>5, CommittedIsTrue
  <2> QED BY Zenon, <2>3, <2>4, <2>5 DEF Survey, StateOf, StateBefore
<1>2. AgentInv /\ [Next]_vars =>
        [\A a \in Release :
           rel[a].phase # "completed" /\ rel'[a].phase = "completed" =>
             \A d \in Targets(a) :
               \/ ag[d].cp.rev = Target(a, d).rev
               \/ dep[d].auth # NoRelease /\ Seq[dep[d].auth] > Seq[a]
               \/ dep[d].auth # NoRelease /\ rel[dep[d].auth].at > rel[a].at]_vars
  BY Zenon, <1>1
<1> QED BY <1>2, AgentInvAlways, PTL DEF Spec, CompletedIsTrue

(* What one step does to a revoked prefix. *)
StaysWithdrawn(d) ==
  ag[d].revoked => ag'[d].revoked /\ (ag'[d].cp # ag[d].cp => ag'[d].cp.rev \notin Origin)

(* A step about one deployment leaves what its agent has withdrawn. *)
LEMMA StepStaysWithdrawn ==
  ASSUME AgentInv, NEW d \in Deployment,
         \/ Sync(d) \/ Heartbeat(d) \/ Accept(d) \/ Apply(d) \/ Recover(d) \/ Report(d)
         \/ Reject(d) \/ Restart(d) \/ Silence(d) \/ Candidate(d) \/ Suspend(d)
         \/ Promote(d)
  PROVE  \A e \in Deployment : StaysWithdrawn(e)
<1>0. Shape
  BY Zenon DEF AgentInv
<1>1. ASSUME NEW D, NEW S, NEW A, Only(d, D, S, A),
             ag[d].revoked => A.revoked /\ (A.cp = ag[d].cp \/ A.cp.rev \notin Origin)
      PROVE  \A e \in Deployment : StaysWithdrawn(e)
  BY Zenon, <1>1 DEF Only, StaysWithdrawn
<1>2. CASE Sync(d)
  BY Zenon, <1>0, <1>1, <1>2, SyncEffect DEF AgSynced, AgRow
<1>3. CASE Heartbeat(d)
  BY Zenon, <1>0, <1>1, <1>3, HeartbeatEffect
<1>4. CASE Accept(d)
  <2>1. ag[d].revoked => ag[d].want.revoked
    BY Zenon, <1>4 DEF Accept, AgentInv, Good, Kept
  <2>2. ag[d].revoked => AgAccepted(d).revoked /\ AgAccepted(d).cp = ag[d].cp
    BY Zenon, <2>1 DEF AgAccepted, AgRow
  <2> QED BY Zenon, <1>0, <1>1, <1>4, <2>2, AcceptEffect
<1>5. CASE Apply(d)
  <2>1. ag[d].revoked => ag[d].want.rev \notin Origin
    BY Zenon, <1>5 DEF Apply, AgentInv, Good, Kept
  <2>2. ag[d].revoked => AgCommitted(d).revoked /\ AgCommitted(d).cp.rev \notin Origin
    BY Zenon, <2>1 DEF AgCommitted, AgRow
  <2>3. ag[d].revoked => AgFailed(d).revoked /\ AgFailed(d).cp = ag[d].cp
    BY Zenon DEF AgFailed, AgRow
  <2> QED BY Zenon, <1>0, <1>1, <1>5, <2>2, <2>3, ApplyEffect
<1>6. CASE Recover(d)
  <2>1. ag[d].revoked /\ Restorable(ag[d].want) => ag[d].want.rec \notin Origin
    BY Zenon, <1>6 DEF Recover, Restorable, Announces, AgentInv, Good, Kept
  <2>2. ag[d].revoked /\ Restorable(ag[d].want) =>
          AgRecovered(d).revoked /\ AgRecovered(d).cp.rev \notin Origin
    BY Zenon, <2>1 DEF AgRecovered, AgRow
  <2>3. ag[d].revoked => AgDegraded(d).revoked /\ AgDegraded(d).cp = ag[d].cp
    BY Zenon DEF AgDegraded, AgRow
  <2> QED BY Zenon, <1>0, <1>1, <1>6, <2>2, <2>3, RecoverEffect
<1>7. ag[d].revoked =>
        /\ AgIdle(d).revoked /\ AgIdle(d).cp = ag[d].cp
        /\ AgRejected(d).revoked /\ AgRejected(d).cp = ag[d].cp
        /\ AgOutdated(d).revoked /\ AgOutdated(d).cp = ag[d].cp
  BY Zenon DEF AgIdle, AgRejected, AgOutdated, AgRow
<1>8. CASE Report(d)
  BY Zenon, <1>0, <1>1, <1>7, <1>8, ReportEffect
<1>9. CASE Reject(d)
  BY Zenon, <1>0, <1>1, <1>7, <1>9, RejectEffect
<1>10. CASE Restart(d)
  BY Zenon, <1>0, <1>1, <1>7, <1>10, RestartEffect
<1>11. CASE Silence(d)
  BY Zenon, <1>0, <1>1, <1>11, SilenceEffect
<1>12. CASE Candidate(d) \/ Suspend(d) \/ Promote(d)
  <2>1. PICK spec : NewGeneration(d, spec)
    BY Zenon, <1>12 DEF Candidate, Suspend, Promote
  <2> QED BY Zenon, <1>0, <1>1, <1>7, <2>1, NewGenerationEffect
<1> QED BY Zenon, <1>2, <1>3, <1>4, <1>5, <1>6, <1>8, <1>9, <1>10, <1>11, <1>12

(* Neither CheckTarget's promotions nor an agent's recovery bring back     *)
(* what an agent has accepted as withdrawn.                                *)
THEOREM WithdrawalIsKept == Spec => WithdrawnStaysWithdrawn
<1>1. AgentInv /\ [Next]_vars => \A d \in Deployment : StaysWithdrawn(d)
  <2> SUFFICES ASSUME AgentInv, [Next]_vars
               PROVE  \A d \in Deployment : StaysWithdrawn(d)
    BY Zenon
  <2>1. CASE ag' = ag
    BY Zenon, <2>1 DEF StaysWithdrawn
  <2> QED BY Zenon, <2>1, Quiet, StepStaysWithdrawn
<1>2. AgentInv /\ [Next]_vars =>
        [\A d \in Deployment :
           ag[d].revoked =>
             /\ ag'[d].revoked
             /\ ag'[d].cp # ag[d].cp => ag'[d].cp.rev \notin Origin]_vars
  BY Zenon, <1>1 DEF StaysWithdrawn
<1> QED BY <1>2, AgentInvAlways, PTL DEF Spec, WithdrawnStaysWithdrawn
-----------------------------------------------------------------------------
(* inFlight misses no router that is really activating: its status reports *)
(* neither a commit nor a failure nor a refusal of the epoch.              *)
LEMMA ActiveIsBusy ==
  ASSUME AgentInv, NEW d \in Deployment, Activating(d)
  PROVE  Busy(d)
<1>1. /\ Told(d) /\ Held(d)
      /\ \/ ag[d].epoch = dep[d].epoch /\ ag[d].stage = "accepted"
         \/ ag[d].epoch # dep[d].epoch /\ (ag[d].pc = "go" \/ rel[dep[d].auth].phase \in Live)
  BY Zenon DEF AgentInv, Good, Activating
<1>2. ~Committed(d)
  BY <1>1 DEF Told, Committed
<1>3. ~Refused(d)
  BY Zenon, <1>1 DEF Held, Refused, Over, Live, Ended
<1>4. status[d].last = dep[d].epoch => status[d].stage = "accepted"
  BY <1>1 DEF Told
<1> QED BY Zenon, <1>2, <1>3, <1>4 DEF Busy

(* Nothing but a promotion makes a router activate. *)
Calm(e) == Activating(e)' => Activating(e)

(* A deployment no step is about stays inactive. *)
LEMMA OthersCalm ==
  ASSUME AgentInv, [Next]_vars, NEW e \in Deployment, dep'[e] = dep[e], ag'[e] = ag[e]
  PROVE  Calm(e)
<1>1. \A b \in Release : Begun(b) /\ rel'[b].phase \in Live => rel[b].phase \in Live
  BY Zenon, AllMove DEF AgentInv, Moves, Begun, Live, Ended
<1>2. ag[e].epoch # dep[e].epoch => dep[e].auth \in Release /\ Begun(dep[e].auth)
  BY Zenon DEF AgentInv, Good, Held
<1> QED BY Zenon, <1>1, <1>2 DEF Calm, Activating

(* A step of its agent, or an edit, does not make a router activate. *)
LEMMA AgentCalm ==
  ASSUME AgentInv, NEW d \in Deployment, rel' = rel,
         \/ Sync(d) \/ Heartbeat(d) \/ Accept(d) \/ Apply(d) \/ Recover(d) \/ Report(d)
         \/ Reject(d) \/ Restart(d) \/ Silence(d) \/ Candidate(d) \/ Suspend(d)
  PROVE  Calm(d)
<1>0. Shape
  BY Zenon DEF AgentInv
<1>1. ASSUME dep'[d].epoch = dep[d].epoch, dep'[d].auth = dep[d].auth,
             ag'[d].epoch = ag[d].epoch,
             ag'[d].stage = "accepted" => ag[d].stage = "accepted",
             ag'[d].pc = "go" => ag[d].pc = "go" \/ rel[dep[d].auth].phase \in Live
      PROVE  Calm(d)
  BY Zenon, <1>1 DEF Calm, Activating
<1>2. CASE Sync(d)
  <2>1. dep'[d] = dep[d] /\ ag'[d] = AgSynced(d)
    BY Zenon, <1>0, <1>2, SyncEffect DEF Only
  <2>2. ag'[d].epoch = ag[d].epoch /\ ag'[d].stage = ag[d].stage /\ ag'[d].pc = Step(d)
    BY Zenon, <2>1 DEF AgSynced, AgRow
  <2> QED BY Zenon, <1>1, <2>1, <2>2, StepFacts DEF Live
<1>3. CASE Accept(d)
  BY <1>3 DEF Accept, AgentInv, Good, Told, Calm, Activating
<1>4. CASE Apply(d)
  <2>1. dep'[d] = dep[d] /\ (ag'[d] = AgCommitted(d) \/ ag'[d] = AgFailed(d))
    BY Zenon, <1>0, <1>4, ApplyEffect DEF Only
  <2>2. /\ ag'[d].epoch = ag[d].epoch /\ ag'[d].stage \in {"committed", "failed"}
        /\ ag'[d].pc # "go"
    BY Zenon, <2>1 DEF AgCommitted, AgFailed, AgRow
  <2> QED BY Zenon, <1>1, <2>1, <2>2
<1>5. CASE Recover(d)
  <2>1. dep'[d] = dep[d] /\ (ag'[d] = AgRecovered(d) \/ ag'[d] = AgDegraded(d))
    BY Zenon, <1>0, <1>5, RecoverEffect DEF Only
  <2>2. /\ ag'[d].epoch = ag[d].epoch /\ ag'[d].stage \in {"recovered", ag[d].stage}
        /\ ag'[d].pc # "go"
    BY Zenon, <2>1 DEF AgRecovered, AgDegraded, AgRow
  <2> QED BY Zenon, <1>1, <2>1, <2>2
<1>6. CASE Report(d) \/ Reject(d) \/ Restart(d)
  <2>1. dep'[d] = dep[d] /\ (ag'[d] = AgIdle(d) \/ ag'[d] = AgRejected(d))
    BY Zenon, <1>0, <1>6, ReportEffect, RejectEffect, RestartEffect DEF Only
  <2>2. ag'[d].epoch = ag[d].epoch /\ ag'[d].stage = ag[d].stage /\ ag'[d].pc # "go"
    BY Zenon, <2>1 DEF AgIdle, AgRejected, AgRow
  <2> QED BY Zenon, <1>1, <2>1, <2>2
<1>7. CASE Heartbeat(d) \/ Silence(d)
  <2>1. dep'[d] = dep[d] /\ ag'[d] = ag[d]
    BY Zenon, <1>0, <1>7, HeartbeatEffect, SilenceEffect DEF Only
  <2> QED BY Zenon, <1>1, <2>1
<1>8. CASE Candidate(d) \/ Suspend(d)
  <2>1. PICK spec : NewGeneration(d, spec) /\ spec.epoch = dep[d].epoch /\ spec.auth = dep[d].auth
    <3>1. dep[d] = DepRow(dep[d])
      BY Zenon DEF AgentInv, Good, Rows
    <3>2. LET spec == [dep[d] EXCEPT !.usable = ~@] IN
            spec.epoch = dep[d].epoch /\ spec.auth = dep[d].auth
      BY Zenon, <3>1 DEF DepRow
    <3> QED BY Zenon, <1>8, <3>2 DEF Candidate, Suspend
  <2>2. dep'[d] = spec /\ ag'[d] = AgOutdated(d)
    BY Zenon, <1>0, <2>1, NewGenerationEffect DEF Only
  <2>3. ag'[d].epoch = ag[d].epoch /\ ag'[d].stage = ag[d].stage /\ ag'[d].pc = ag[d].pc
    BY Zenon, <2>2 DEF AgOutdated, AgRow
  <2> QED BY Zenon, <1>1, <2>1, <2>2, <2>3
<1> QED BY Zenon, <1>2, <1>3, <1>4, <1>5, <1>6, <1>7, <1>8

(* Every step but a promotion leaves every router as inactive as it was,   *)
(* and a promotion every other.                                            *)
LEMMA AllCalm ==
  ASSUME AgentInv, [Next]_vars
  PROVE  \/ \A e \in Deployment : Calm(e)
         \/ \E d \in Deployment : Promote(d) /\ \A e \in Deployment \ {d} : Calm(e)
<1>1. CASE dep' = dep /\ status' = status /\ ag' = ag
  BY Zenon, <1>1, OthersCalm
<1>2. ASSUME NEW d \in Deployment,
             \/ Sync(d) \/ Heartbeat(d) \/ Accept(d) \/ Apply(d) \/ Recover(d) \/ Report(d)
             \/ Reject(d) \/ Restart(d) \/ Silence(d) \/ Candidate(d) \/ Suspend(d)
             \/ Promote(d)
      PROVE  \A e \in Deployment \ {d} : Calm(e)
  <2>1. PICK D, S, A : Only(d, D, S, A)
    <3>1. CASE Candidate(d) \/ Suspend(d) \/ Promote(d)
      <4>1. PICK spec : NewGeneration(d, spec)
        BY Zenon, <3>1 DEF Candidate, Suspend, Promote
      <4> QED BY Zenon, <4>1, NewGenerationEffect DEF AgentInv
    <3> QED BY SMTT(30), <1>2, <3>1, SyncEffect, HeartbeatEffect, AcceptEffect, ApplyEffect,
               RecoverEffect, ReportEffect, RejectEffect, RestartEffect, SilenceEffect
            DEF AgentInv
  <2> QED BY Zenon, <2>1, OthersCalm DEF Only
<1>3. ASSUME NEW d \in Deployment,
             \/ Sync(d) \/ Heartbeat(d) \/ Accept(d) \/ Apply(d) \/ Recover(d) \/ Report(d)
             \/ Reject(d) \/ Restart(d) \/ Silence(d) \/ Candidate(d) \/ Suspend(d)
      PROVE  Calm(d)
  <2>1. rel' = rel
    BY Zenon, <1>3, DeploymentFrame DEF Agent
  <2> QED BY Zenon, <1>3, <2>1, AgentCalm
<1> QED BY Zenon, <1>1, <1>2, <1>3, Quiet

(* What a step does to the pass's counts. *)
LEMMA PassMoves ==
  ASSUME AgentInv, [Next]_vars
  PROVE  \/ pass'.rel = NoRelease
         \/ pass'.rel = pass.rel /\ pass'.count = pass.count
         \/ \E a \in Release : ProgressPromotes(a)
         \/ \E d \in Deployment : Promote(d)
<1>0. PassShape
  BY Zenon DEF AgentInv, RelInv
<1>1. ASSUME NEW a \in Release,
             \/ Create(a) \/ Cancel(a) \/ TryStart(a) \/ CacheUpdate(a)
             \/ DropFinalizer(a) \/ VerifyRecovery(a) \/ Confirm(a)
             \/ ProgressEnds(a) \/ ProgressSilent(a) \/ ProgressDeleting(a)
      PROVE  pass' = pass
  BY Zenon, <1>1 DEF Create, Cancel, TryStart, CacheUpdate, DropFinalizer, VerifyRecovery,
              Confirm, ProgressEnds, ProgressSilent, ProgressDeleting
<1>2. ASSUME NEW a \in Release, Delete(a)
      PROVE  pass'.rel = pass.rel /\ pass'.count = pass.count
  BY Zenon, <1>0, <1>2 DEF Delete, PassShape
<1>3. ASSUME NEW d \in Deployment, Skip(d) \/ Invalid(d)
      PROVE  pass'.rel = pass.rel /\ pass'.count = pass.count
  BY Zenon, <1>0, <1>3 DEF Skip, Invalid, PassShape
<1>4. ASSUME EndPass \/ PassFails
      PROVE  pass'.rel = NoRelease
  BY <1>4 DEF EndPass, PassFails, NoPass
<1>5. ASSUME UNCHANGED vars
      PROVE  pass' = pass
  BY Zenon, <1>5 DEF vars
<1> QED BY Zenon, <1>1, <1>2, <1>3, <1>4, <1>5, DeploymentFrame DEF Next, Promoting, Progress

(* Sets of deployments are finite. *)
LEMMA FewerDeployments ==
  ASSUME NEW S \in SUBSET Deployment, NEW T \in SUBSET S
  PROVE  Cardinality(S) \in Nat /\ Cardinality(T) \in Nat /\ Cardinality(T) <= Cardinality(S)
<1>1. IsFiniteSet(S)
  BY Zenon, FS_Subset, RolloutAssumption
<1>2. IsFiniteSet(T) /\ Cardinality(T) <= Cardinality(S)
  BY Zenon, <1>1, FS_Subset
<1> QED BY Zenon, <1>1, <1>2, FS_CardinalityType

(* One deployment more is one more at most. *)
LEMMA OneMoreDeployment ==
  ASSUME NEW S \in SUBSET Deployment, NEW d \in Deployment, NEW T \in SUBSET (S \cup {d})
  PROVE  Cardinality(T) <= Cardinality(S) + 1
<1>1. IsFiniteSet(S) /\ Cardinality(S) \in Nat
  BY Zenon, FS_Subset, FS_CardinalityType, RolloutAssumption
<1>2. Cardinality(S \cup {d}) \in {Cardinality(S), Cardinality(S) + 1}
  BY Zenon, <1>1, FS_AddElement
<1>3. Cardinality(T) \in Nat /\ Cardinality(T) <= Cardinality(S \cup {d})
  BY Zenon, FewerDeployments
<1> QED BY <1>1, <1>2, <1>3

(* LimitInv is inductive, beside AgentInv: a pass promotes only below the  *)
(* limit by its count, and its count started from every busy router and    *)
(* went up with every promotion since.                                     *)
LEMMA LimitStep == AgentInv /\ LimitInv /\ [Next]_vars => LimitInv'
<1> SUFFICES ASSUME AgentInv, LimitInv, [Next]_vars
             PROVE  LimitInv'
  BY Zenon
<1>0. \A f : ActiveIn(f) \in SUBSET Deployment /\ ActiveIn(f)' \in SUBSET Deployment
  BY Zenon DEF ActiveIn
<1>1. CASE \A e \in Deployment : Calm(e)
  <2>1. \A f : ActiveIn(f)' \in SUBSET ActiveIn(f)
    BY Zenon, <1>1 DEF ActiveIn, Calm
  <2>2. \A f : /\ Cardinality(ActiveIn(f)) \in Nat /\ Cardinality(ActiveIn(f)') \in Nat
               /\ Cardinality(ActiveIn(f)') <= Cardinality(ActiveIn(f))
    BY Zenon, <1>0, <2>1, FewerDeployments
  <2>3. \A f \in Domain : Cardinality(ActiveIn(f))' <= MaxUnavailable
    BY <2>2, RolloutAssumption DEF LimitInv
  <2>4. CASE pass'.rel = NoRelease
    BY Zenon, <2>3, <2>4, RolloutAssumption DEF LimitInv
  <2>5. CASE pass'.rel = pass.rel /\ pass'.count = pass.count
    BY <2>2, <2>3, <2>5 DEF LimitInv
  <2>6. ASSUME NEW a \in Release, ProgressPromotes(a)
        PROVE  LimitInv'
    <3>1. pass'.count = [f \in Domain |-> InFlight(a, f)]
      BY Zenon, <2>6 DEF ProgressPromotes
    <3>2. \A f : /\ InFlight(a, f) \in Nat
                 /\ Cardinality(ActiveIn(f)) <= InFlight(a, f)
      <4> TAKE f
      <4> DEFINE B == {d \in Deployment : DomainOf[d] = f /\ Busy(d)}
      <4>1. \A d \in Deployment : Activating(d) => Busy(d)
        BY Zenon, ActiveIsBusy
      <4>2. B \in SUBSET Deployment /\ ActiveIn(f) \in SUBSET B
        BY Zenon, <4>1 DEF ActiveIn
      <4>3. Cardinality(B) \in Nat /\ Cardinality(ActiveIn(f)) <= Cardinality(B)
        BY Zenon, <4>2, FewerDeployments
      <4> QED BY Zenon, <4>3 DEF InFlight
    <3>3. \A f \in Domain : Cardinality(ActiveIn(f))' <= pass'.count[f]
      BY <2>2, <3>1, <3>2
    <3> QED BY Zenon, <2>3, <3>1, <3>2, <3>3 DEF LimitInv
  <2>7. ASSUME NEW d \in Deployment, Promote(d)
        PROVE  LimitInv'
    <3>1. /\ pass.rel \in Release
          /\ pass' = [pass EXCEPT !.todo = @ \ {d}, !.count[DomainOf[d]] = @ + 1]
      BY Zenon, <2>7 DEF Promote, Next1, AgentInv, RelInv, PassShape
    <3>2. pass.count \in [Domain -> Nat] /\ DomainOf[d] \in Domain
      BY Zenon, <3>1, RolloutAssumption DEF LimitInv
    <3>3. pass'.count = [pass.count EXCEPT ![DomainOf[d]] = @ + 1]
      BY Zenon, <3>1 DEF AgentInv, RelInv, PassShape
    <3>4. /\ pass'.count \in [Domain -> Nat]
          /\ \A f \in Domain : pass'.count[f] \in Nat /\ pass.count[f] <= pass'.count[f]
      BY <3>2, <3>3
    <3>5. \A f \in Domain : Cardinality(ActiveIn(f))' <= pass'.count[f]
      BY <2>2, <3>1, <3>2, <3>4 DEF LimitInv
    <3> QED BY Zenon, <2>3, <3>4, <3>5 DEF LimitInv
  <2> QED BY Zenon, <2>4, <2>5, <2>6, <2>7, PassMoves
<1>2. ASSUME NEW d \in Deployment, Promote(d), \A e \in Deployment \ {d} : Calm(e)
      PROVE  LimitInv'
  <2>1. /\ pass.rel \in Release /\ ~Full(d)
        /\ pass' = [pass EXCEPT !.todo = @ \ {d}, !.count[DomainOf[d]] = @ + 1]
    BY Zenon, <1>2 DEF Promote, Next1, AgentInv, RelInv, PassShape
  <2>2. pass.count \in [Domain -> Nat] /\ DomainOf[d] \in Domain
    BY Zenon, <2>1, RolloutAssumption DEF LimitInv
  <2>3. pass'.count = [pass.count EXCEPT ![DomainOf[d]] = @ + 1]
    BY Zenon, <2>1 DEF AgentInv, RelInv, PassShape
  <2>4. pass.count[DomainOf[d]] + 1 <= MaxUnavailable
    BY <2>1, <2>2, RolloutAssumption DEF Full
  <2>5. ASSUME NEW f \in Domain
        PROVE  /\ Cardinality(ActiveIn(f))' <= MaxUnavailable
               /\ Cardinality(ActiveIn(f))' <= pass'.count[f]
    <3>1. Cardinality(ActiveIn(f)) \in Nat /\ Cardinality(ActiveIn(f)') \in Nat
      BY Zenon, <1>0, FewerDeployments
    <3>2. /\ Cardinality(ActiveIn(f)) <= MaxUnavailable
          /\ Cardinality(ActiveIn(f)) <= pass.count[f]
      BY Zenon, <2>1 DEF LimitInv
    <3>3. CASE f = DomainOf[d]
      <4>1. ActiveIn(f)' \in SUBSET (ActiveIn(f) \cup {d})
        BY Zenon, <1>2 DEF ActiveIn, Calm
      <4>2. Cardinality(ActiveIn(f)') <= Cardinality(ActiveIn(f)) + 1
        BY Zenon, <1>0, <4>1, OneMoreDeployment
      <4>3. pass'.count[f] = pass.count[f] + 1 /\ pass.count[f] \in Nat
        BY Zenon, <2>2, <2>3, <3>3
      <4> QED BY SMTT(30), <2>4, <3>1, <3>2, <3>3, <4>2, <4>3, RolloutAssumption
    <3>4. CASE f # DomainOf[d]
      <4>1. ActiveIn(f)' \in SUBSET ActiveIn(f)
        BY Zenon, <1>2, <3>4 DEF ActiveIn, Calm
      <4>2. Cardinality(ActiveIn(f)') <= Cardinality(ActiveIn(f))
        BY Zenon, <1>0, <4>1, FewerDeployments
      <4>3. pass'.count[f] = pass.count[f] /\ pass.count[f] \in Nat
        BY Zenon, <2>2, <2>3, <3>4
      <4> QED BY <3>1, <3>2, <4>2, <4>3, RolloutAssumption
    <3> QED BY Zenon, <3>3, <3>4
  <2>6. pass'.count \in [Domain -> Nat]
    BY <2>2, <2>3
  <2> QED BY Zenon, <2>5, <2>6 DEF LimitInv
<1> QED BY Zenon, <1>1, <1>2, AllCalm

(* Nothing activates at first. *)
LEMMA LimitInit == Init => LimitInv
<1> SUFFICES ASSUME Init
             PROVE  LimitInv
  BY Zenon
<1>1. \A f : ActiveIn(f) = {}
  BY Zenon DEF Init, ActiveIn, Activating
<1>2. pass.rel \notin Release
  BY Zenon, RolloutAssumption DEF Init, NoPass
<1>3. \A f : Cardinality(ActiveIn(f)) = 0
  BY Zenon, <1>1, FS_EmptySet
<1>4. 0 <= MaxUnavailable
  BY RolloutAssumption
<1> QED BY Zenon, <1>2, <1>3, <1>4 DEF LimitInv

(* promoteWaiting keeps the routers really activating in every failure     *)
(* domain within MaxUnavailable, for any number of routers and releases.   *)
THEOREM LimitHolds == Spec => []WithinLimit
<1>1. LimitInv => WithinLimit
  BY Zenon DEF LimitInv, WithinLimit, ActiveIn
<1> QED BY <1>1, LimitInit, LimitStep, AgentInvAlways, PTL DEF Spec
-----------------------------------------------------------------------------
(* Types: TypeOK bounds the start times by the number of releases, for     *)
(* which TypeInv counts those that have one.                               *)

Planned == {<<>>} \cup {p.target : p \in UNION {Plan[a] : a \in Release}}
ReleaseObject ==
  [phase : Phase, at : Nat, verified : BOOLEAN, deleting : BOOLEAN,
   withdraws : BOOLEAN, target : Planned]
Dated == {a \in Release : rel[a].at # 0}

DatesInv ==
  /\ rel \in [Release -> ReleaseObject]
  /\ \A a \in Release : rel[a].phase \in {"none", "pending"} => rel[a].at = 0
  /\ \A a \in Release : rel[a].at <= Cardinality(Dated)

SpecInv(d) ==
  dep[d].epoch \in 1..MaxEpoch /\ dep[d].rev \in Revision
    /\ dep[d].rec \in Revision \cup {NoRevision}

(* A pass has targets of its release still to do. *)
TodoInv == pass.todo \subseteq Deployment
             /\ (pass.rel \in Release => pass.todo \subseteq Targets(pass.rel))

TypeInv ==
  /\ DatesInv /\ TodoInv
  /\ \A d \in Deployment : SpecInv(d)
  /\ lag \in [Release -> BOOLEAN]
  /\ faults \in 0..MaxFaults

(* A set of natural numbers has a least one. *)
LEMMA LeastOf ==
  ASSUME NEW T \in SUBSET Nat, T # {}
  PROVE  \E x \in T : \A y \in T : x <= y
<1> DEFINE less == {p \in Nat \X Nat : p[1] < p[2]}
<1>1. IsWellFoundedOn(less, Nat)
  BY NatLessThanWellFounded DEF OpToRel
<1> HIDE DEF less
<1>2. PICK x \in T : \A y \in T : ~(<<y, x>> \in less)
  BY Zenon, <1>1, WFMin
<1>3. \A y \in T : <<y, x>> \notin less => x <= y
  BY DEF less
<1> QED BY Zenon, <1>2, <1>3

(* How many releases have started. *)
LEMMA DatedFacts ==
  /\ IsFiniteSet(Dated) /\ Cardinality(Dated) \in Nat
  /\ Cardinality(Release) \in Nat /\ Cardinality(Dated) <= Cardinality(Release)
<1>1. Dated \in SUBSET Release
  BY Zenon DEF Dated
<1> QED BY Zenon, <1>1, FS_Subset, FS_CardinalityType, BoundsAssumption

(* The latest start is one of those recorded. *)
LEMMA LatestIs ==
  ASSUME DatesInv, NEW a \in Release
  PROVE  Latest \in Nat /\ Latest <= Cardinality(Dated) /\ \A b \in Release : rel[b].at <= Latest
<1> DEFINE N == Cardinality(Dated)
           U == {m \in Nat : \A b \in Release : rel[b].at <= m}
<1>1. N \in Nat
  BY Zenon, DatedFacts
<1> HIDE DEF N
<1>2. \A b \in Release : rel[b].at \in Nat /\ rel[b].at <= N
  BY DEF DatesInv, ReleaseObject, N
<1>3. N \in U
  BY <1>1, <1>2
<1>4. PICK m \in U : \A n \in U : m <= n
  BY Zenon, <1>3, LeastOf
<1>5. m \in Nat /\ \A b \in Release : rel[b].at <= m
  OBVIOUS
<1>6. \E b \in Release : rel[b].at = m
  <2>1. CASE m = 0
    <3>1. rel[a].at = 0
      BY <1>2, <1>5, <2>1
    <3> QED BY Zenon, <2>1, <3>1
  <2>2. CASE m # 0
    <3>1. m - 1 \in Nat /\ m - 1 \notin U
      <4>1. m - 1 \in Nat /\ ~(m <= m - 1)
        BY <1>5, <2>2
      <4> HIDE DEF U
      <4> QED BY Zenon, <1>4, <4>1
    <3>2. PICK b \in Release : ~(rel[b].at <= m - 1)
      BY Zenon, <3>1
    <3> QED BY <1>2, <1>5, <3>1, <3>2
  <2> QED BY Zenon, <2>1, <2>2
<1>7. \E t \in {rel[b].at : b \in Release} : \A b \in Release : rel[b].at <= t
  BY Zenon, <1>5, <1>6
<1>8. /\ Latest \in {rel[b].at : b \in Release}
      /\ \A b \in Release : rel[b].at <= Latest
  BY Zenon, <1>7 DEF Latest
<1> QED BY <1>2, <1>8 DEF N

(* Steps that date no release. *)
LEMMA SameDates ==
  ASSUME DatesInv, rel' \in [Release -> ReleaseObject],
         \A b \in Release :
           /\ rel'[b].at = rel[b].at
           /\ rel'[b].phase \in {"none", "pending"} => rel[b].phase \in {"none", "pending"}
  PROVE  DatesInv'
<1>1. Dated' = Dated
  BY Zenon DEF Dated
<1> QED BY Zenon, <1>1 DEF DatesInv

(* A release that starts is dated no later than one after the latest. *)
LEMMA StartDates ==
  ASSUME DatesInv, NEW a \in Release, TryStart(a)
  PROVE  DatesInv'
<1>1. PICK t \in {Latest, Latest + 1} \ {0} :
        rel' = [rel EXCEPT ![a].phase = "started", ![a].at = t]
  BY Zenon DEF TryStart
<1>2. Latest \in Nat /\ Latest <= Cardinality(Dated) /\ Cardinality(Dated) \in Nat
  BY Zenon, LatestIs, DatedFacts
<1>3. t \in Nat /\ t # 0 /\ t <= Cardinality(Dated) + 1
  BY <1>1, <1>2
<1>4. rel' \in [Release -> ReleaseObject] /\ rel'[a].at = t /\ rel'[a].phase = "started"
      /\ \A b \in Release \ {a} : rel'[b] = rel[b]
  BY <1>1, <1>3 DEF DatesInv, ReleaseObject, Phase, Live
<1>5. rel[a].at = 0
  BY Zenon DEF DatesInv, TryStart
<1>6. Dated' = Dated \cup {a} /\ a \notin Dated
  <2>1. \A b \in Release : rel'[b].at # 0 <=> rel[b].at # 0 \/ b = a
    BY <1>3, <1>4, <1>5
  <2> QED BY Zenon, <1>5, <2>1 DEF Dated
<1>7. Cardinality(Dated)' = Cardinality(Dated) + 1
  BY Zenon, <1>6, DatedFacts, FS_AddElement
<1>8. \A b \in Release : rel'[b].at <= Cardinality(Dated)'
  <2>1. \A b \in Release : rel[b].at \in Nat /\ rel[b].at <= Cardinality(Dated)
    BY DEF DatesInv, ReleaseObject
  <2> QED BY <1>2, <1>3, <1>4, <1>7, <2>1
<1> QED BY <1>4, <1>8 DEF DatesInv

(* What a step does to the releases. *)
LEMMA RelSteps ==
  ASSUME RelInv, [Next]_vars
  PROVE  \/ rel' = rel
         \/ \E a \in Release : \E x \in Phase \ {"none", "pending"} :
              rel' = [rel EXCEPT ![a].phase = x]
         \/ \E a \in Release : rel' = [rel EXCEPT ![a].deleting = TRUE]
         \/ \E a \in Release : rel' = [rel EXCEPT ![a].verified = TRUE]
         \/ \E a \in Release : Create(a) \/ TryStart(a)
<1> DEFINE Phased == \E a \in Release : \E x \in Phase \ {"none", "pending"} :
                       rel' = [rel EXCEPT ![a].phase = x]
<1>1. {"cancelled", "gone", "failed", "completed", "started", "unknown"}
        \subseteq Phase \ {"none", "pending"}
  BY DEF Phase, Live, Ended
<1>2. ASSUME NEW a \in Release, Cancel(a) \/ DropFinalizer(a)
      PROVE  Phased
  BY Zenon, <1>1, <1>2 DEF Cancel, DropFinalizer
<1>3. ASSUME NEW a \in Release, Progress(a)
      PROVE  rel' = rel \/ Phased
  BY Zenon, <1>1, <1>3 DEF Progress, ProgressEnds, ProgressSilent, ProgressPromotes,
              ProgressDeleting, Finish
<1>4. ASSUME EndPass
      PROVE  rel' = rel \/ Phased
  <2>1. pass.rel \in Release
    BY Zenon, <1>4 DEF RelInv, PassShape, EndPass
  <2> QED BY Zenon, <1>1, <1>4, <2>1 DEF EndPass, Finish
<1>5. ASSUME NEW d \in Deployment, Skip(d) \/ Invalid(d) \/ Promote(d)
      PROVE  rel' = rel
  BY Zenon, <1>5 DEF Skip, Invalid, Promote
<1>6. ASSUME PassFails \/ UNCHANGED vars
      PROVE  rel' = rel
  BY Zenon, <1>6 DEF PassFails, vars
<1>7. ASSUME NEW a \in Release, Delete(a)
      PROVE  rel' = [rel EXCEPT ![a].deleting = TRUE]
  BY Zenon, <1>7 DEF Delete
<1>8. ASSUME NEW a \in Release, VerifyRecovery(a) \/ Confirm(a)
      PROVE  rel' = [rel EXCEPT ![a].verified = TRUE]
  BY Zenon, <1>8 DEF VerifyRecovery, Confirm
<1>9. ASSUME NEW a \in Release, CacheUpdate(a)
      PROVE  rel' = rel
  BY Zenon, <1>9 DEF CacheUpdate
<1> HIDE DEF Phased
<1>10. \/ rel' = rel \/ Phased
       \/ \E a \in Release : rel' = [rel EXCEPT ![a].deleting = TRUE]
       \/ \E a \in Release : rel' = [rel EXCEPT ![a].verified = TRUE]
       \/ \E a \in Release : Create(a) \/ TryStart(a)
  BY Zenon, <1>2, <1>3, <1>4, <1>5, <1>6, <1>7, <1>8, <1>9, DeploymentFrame
     DEF Next, Promoting
<1> QED BY Zenon, <1>10 DEF Phased

(* Releases keep their types and dates, and what they name once created. *)
LEMMA ReleasesTyped ==
  ASSUME RelInv, DatesInv, [Next]_vars
  PROVE  DatesInv' /\ \A b \in Release : rel[b].phase # "none" => rel'[b].target = rel[b].target
<1>1. CASE rel' = rel
  BY Zenon, <1>1, SameDates DEF DatesInv
<1>2. ASSUME NEW a \in Release, NEW x \in Phase \ {"none", "pending"},
             rel' = [rel EXCEPT ![a].phase = x]
      PROVE  DatesInv' /\ \A b \in Release : rel'[b].target = rel[b].target
  <2>1. /\ rel' \in [Release -> ReleaseObject] /\ rel'[a].phase = x /\ rel'[a].at = rel[a].at
        /\ rel'[a].target = rel[a].target /\ \A b \in Release \ {a} : rel'[b] = rel[b]
    BY <1>2 DEF DatesInv, ReleaseObject
  <2> QED BY Zenon, <2>1, SameDates
<1>3. ASSUME NEW a \in Release, rel' = [rel EXCEPT ![a].deleting = TRUE]
      PROVE  DatesInv' /\ \A b \in Release : rel'[b].target = rel[b].target
  <2>1. /\ rel' \in [Release -> ReleaseObject] /\ rel'[a].phase = rel[a].phase
        /\ rel'[a].at = rel[a].at
        /\ rel'[a].target = rel[a].target /\ \A b \in Release \ {a} : rel'[b] = rel[b]
    BY <1>3 DEF DatesInv, ReleaseObject
  <2> QED BY Zenon, <2>1, SameDates
<1>4. ASSUME NEW a \in Release, rel' = [rel EXCEPT ![a].verified = TRUE]
      PROVE  DatesInv' /\ \A b \in Release : rel'[b].target = rel[b].target
  <2>1. /\ rel' \in [Release -> ReleaseObject] /\ rel'[a].phase = rel[a].phase
        /\ rel'[a].at = rel[a].at
        /\ rel'[a].target = rel[a].target /\ \A b \in Release \ {a} : rel'[b] = rel[b]
    BY <1>4 DEF DatesInv, ReleaseObject
  <2> QED BY Zenon, <2>1, SameDates
<1>5. ASSUME NEW a \in Release, Create(a)
      PROVE  /\ DatesInv'
             /\ \A b \in Release : rel[b].phase # "none" => rel'[b].target = rel[b].target
  <2>1. PICK p \in Plan[a] :
          rel' = [rel EXCEPT ![a].phase = "pending",
                             ![a].withdraws = p.withdraws, ![a].target = p.target]
    BY Zenon, <1>5 DEF Create
  <2>2. p.withdraws \in BOOLEAN /\ p.target \in Planned /\ "pending" \in Phase
    BY RolloutAssumption DEF Planned, Phase
  <2>3. /\ rel' \in [Release -> ReleaseObject] /\ rel'[a].at = rel[a].at
        /\ \A b \in Release \ {a} : rel'[b] = rel[b]
    BY <2>1, <2>2 DEF DatesInv, ReleaseObject
  <2>4. rel[a].phase = "none"
    BY Zenon, <1>5 DEF Create
  <2> QED BY Zenon, <2>3, <2>4, SameDates
<1>6. ASSUME NEW a \in Release, TryStart(a)
      PROVE  DatesInv' /\ \A b \in Release : rel'[b].target = rel[b].target
  <2>1. PICK t : rel' = [rel EXCEPT ![a].phase = "started", ![a].at = t]
    BY Zenon, <1>6 DEF TryStart
  <2>2. \A b \in Release : rel'[b].target = rel[b].target
    BY <2>1 DEF DatesInv, ReleaseObject
  <2> QED BY Zenon, <1>6, <2>2, StartDates
<1> QED BY Zenon, <1>1, <1>2, <1>3, <1>4, <1>5, <1>6, RelSteps

(* What a release names has a revision. *)
LEMMA TargetsTyped ==
  ASSUME DatesInv, NEW a \in Release, NEW d \in Targets(a)
  PROVE  Target(a, d).rev \in Revision
<1>1. rel[a].target \in Planned /\ d \in DOMAIN rel[a].target
  BY DEF DatesInv, ReleaseObject, Targets
<1>2. rel[a].target # <<>>
  BY <1>1
<1>3. PICK b \in Release : \E p \in Plan[b] : rel[a].target = p.target
  BY <1>1, <1>2 DEF Planned
<1>4. PICK p \in Plan[b] : rel[a].target = p.target
  BY Zenon, <1>3
<1>5. p.target[d] \in [rev : Revision, again : BOOLEAN, retire : BOOLEAN]
  BY Zenon, <1>4, <1>1, RolloutAssumption
<1> QED BY <1>4, <1>5 DEF Target

(* A promotion writes a revision, and a recovery target or none. *)
LEMMA PromoteTyped ==
  ASSUME AgentInv, TypeInv, NEW d \in Deployment, Promote(d)
  PROVE  SpecInv(d)'
<1>1. PICK a \in Release : a = pass.rel /\ d \in Targets(a) /\ dep[d].epoch < MaxEpoch
                           /\ NewGeneration(d, Promoted(a, d))
  BY Zenon DEF Promote, Next1, AgentInv, RelInv, PassShape, TypeInv, TodoInv
<1>2. Target(a, d).rev \in Revision
  BY Zenon, <1>1, TargetsTyped DEF TypeInv
<1>3. dep'[d] = Promoted(a, d)
  BY Zenon, <1>1, NewGenerationEffect DEF AgentInv, Only
<1>4. dep'[d].epoch = dep[d].epoch + 1 /\ dep'[d].rev = Target(a, d).rev
  BY <1>3, PromotedFields
<1>5. dep'[d].rec \in {NoRevision, dep[d].rev, dep[d].rec}
  <2>1. dep[d] = DepRow(dep[d])
    BY Zenon DEF AgentInv, Good, Rows
  <2> DEFINE t == Target(a, d)
             revoked == dep[d].revoked \/ Withdraws(a)
             rec == IF Committed(d) THEN dep[d].rev ELSE dep[d].rec
             kept == IF t.again \/ rec = t.rev \/ Announces(rec, revoked)
                       THEN NoRevision ELSE rec
  <2>2. Promoted(a, d) =
          [DepRow(dep[d]) EXCEPT !.epoch = @ + 1, !.rev = t.rev, !.auth = a,
             !.revoked = revoked, !.retired = @ \/ t.retire, !.rec = kept]
    BY Zenon, <2>1 DEF Promoted
  <2>3. kept \in {NoRevision, dep[d].rev, dep[d].rec}
    OBVIOUS
  <2> HIDE DEF t, revoked, rec, kept
  <2>4. Promoted(a, d).rec = kept
    BY Zenon, <2>2 DEF DepRow
  <2> QED BY Zenon, <1>3, <2>3, <2>4
<1>6. dep[d].epoch \in 1..MaxEpoch /\ dep[d].rev \in Revision
      /\ dep[d].rec \in Revision \cup {NoRevision}
  BY Zenon DEF TypeInv, SpecInv
<1>7. dep'[d].epoch \in 1..MaxEpoch
  BY <1>1, <1>4, <1>6, BoundsAssumption
<1> QED BY Zenon, <1>2, <1>4, <1>5, <1>6, <1>7 DEF SpecInv

(* Specs keep their types. *)
LEMMA SpecsTyped ==
  ASSUME AgentInv, TypeInv, [Next]_vars
  PROVE  \A d \in Deployment : SpecInv(d)'
<1> DEFINE Same(e) == /\ dep'[e].epoch = dep[e].epoch /\ dep'[e].rev = dep[e].rev
                      /\ dep'[e].rec = dep[e].rec
<1>1. ASSUME NEW e \in Deployment, Same(e)
      PROVE  SpecInv(e)'
  BY Zenon, <1>1 DEF TypeInv, SpecInv
<1>2. ASSUME NEW d \in Deployment, NEW spec, NewGeneration(d, spec)
      PROVE  dep'[d] = spec /\ \A e \in Deployment \ {d} : Same(e)
  BY Zenon, <1>2, NewGenerationEffect DEF AgentInv, Only
<1>3. ASSUME dep' = dep
      PROVE  \A e \in Deployment : Same(e)
  BY Zenon, <1>3
<1>4. ASSUME NEW d \in Deployment, Candidate(d)
      PROVE  \A e \in Deployment : Same(e)
  BY Zenon, <1>2, <1>4 DEF Candidate
<1>5. ASSUME NEW d \in Deployment, Suspend(d)
      PROVE  \A e \in Deployment : Same(e)
  <2>1. dep[d] = DepRow(dep[d])
    BY Zenon DEF AgentInv, Good, Rows
  <2>2. dep'[d] = [dep[d] EXCEPT !.usable = ~@] /\ \A e \in Deployment \ {d} : Same(e)
    BY Zenon, <1>2, <1>5 DEF Suspend
  <2>3. PICK u : dep'[d] = [DepRow(dep[d]) EXCEPT !.usable = u]
    BY Zenon, <2>1, <2>2
  <2>4. Same(d)
    BY Zenon, <2>3 DEF DepRow
  <2> QED BY Zenon, <2>2, <2>4
<1>6. ASSUME NEW d \in Deployment, Promote(d)
      PROVE  \A e \in Deployment : SpecInv(e)'
  <2>1. \A e \in Deployment \ {d} : Same(e)
    BY Zenon, <1>2, <1>6 DEF Promote
  <2> QED BY Zenon, <1>1, <1>6, <2>1, PromoteTyped
<1>7. ASSUME NEW d \in Deployment,
             \/ Sync(d) \/ Heartbeat(d) \/ Accept(d) \/ Apply(d) \/ Recover(d) \/ Report(d)
             \/ Reject(d) \/ Restart(d) \/ Silence(d)
      PROVE  dep' = dep
  BY Zenon, <1>7 DEF Sync, Heartbeat, Accept, Apply, Recover, Report, Reject, Restart, Silence
<1> HIDE DEF Same
<1> QED BY Zenon, <1>1, <1>3, <1>4, <1>5, <1>6, <1>7, Quiet

(* A pass's targets stay those of its release. *)
LEMMA TodoTyped ==
  ASSUME AgentInv, TypeInv, [Next]_vars
  PROVE  TodoInv'
<1>1. pass.rel \in Release => DOMAIN rel'[pass.rel].target = Targets(pass.rel)
  BY Zenon, ReleasesTyped DEF AgentInv, CacheInv, Begun, TypeInv, Targets
<1>2. ASSUME pass'.rel = pass.rel, pass'.todo \subseteq pass.todo
      PROVE  TodoInv'
  BY Zenon, <1>1, <1>2 DEF TypeInv, TodoInv, Targets
<1>3. ASSUME pass' = NoPass
      PROVE  TodoInv'
  <2>1. pass'.rel = NoRelease /\ pass'.todo = {}
    BY Zenon, <1>3 DEF NoPass
  <2> QED BY Zenon, <2>1, RolloutAssumption DEF TodoInv
<1>4. ASSUME pass' = pass
      PROVE  TodoInv'
  BY Zenon, <1>2, <1>4
<1>5. PassShape
  BY Zenon DEF AgentInv, RelInv
<1>6. ASSUME NEW a \in Release,
             \/ Create(a) \/ Cancel(a) \/ TryStart(a) \/ CacheUpdate(a)
             \/ DropFinalizer(a) \/ VerifyRecovery(a) \/ Confirm(a)
             \/ ProgressEnds(a) \/ ProgressSilent(a) \/ ProgressDeleting(a)
      PROVE  pass' = pass
  BY Zenon, <1>6 DEF Create, Cancel, TryStart, CacheUpdate, DropFinalizer, VerifyRecovery,
              Confirm, ProgressEnds, ProgressSilent, ProgressDeleting
<1>7. ASSUME NEW a \in Release, Delete(a)
      PROVE  pass'.rel = pass.rel /\ pass'.todo = pass.todo
  BY Zenon, <1>5, <1>7 DEF Delete, PassShape
<1>8. ASSUME NEW d \in Deployment, Skip(d) \/ Invalid(d) \/ Promote(d)
      PROVE  pass'.rel = pass.rel /\ pass'.todo \subseteq pass.todo
  BY Zenon, <1>5, <1>8 DEF Skip, Invalid, Promote, PassShape
<1>9. ASSUME EndPass \/ PassFails
      PROVE  pass' = NoPass
  BY Zenon, <1>9 DEF EndPass, PassFails
<1>10. ASSUME UNCHANGED vars
       PROVE  pass' = pass
  BY Zenon, <1>10 DEF vars
<1>11. ASSUME NEW a \in Release, ProgressPromotes(a)
       PROVE  TodoInv'
  <2>1. pass'.rel = a /\ pass'.todo \subseteq Targets(a) /\ rel' = rel
    BY Zenon, <1>11 DEF ProgressPromotes
  <2>2. Targets(a) \subseteq Deployment /\ Targets(a)' = Targets(a)
    BY Zenon, <2>1 DEF AgentInv, RelInv, RelShape, Targets
  <2> QED BY Zenon, <2>1, <2>2 DEF TodoInv, Targets
<1>12. ASSUME NEW a \in Release, Delete(a)
       PROVE  TodoInv'
  BY Zenon, <1>2, <1>7, <1>12
<1> QED BY Zenon, <1>2, <1>3, <1>4, <1>6, <1>8, <1>9, <1>10, <1>11, <1>12, DeploymentFrame
        DEF Next, Promoting, Progress

(* The cache flags stay flags. *)
LEMMA LagTyped ==
  ASSUME lag \in [Release -> BOOLEAN], [Next]_vars
  PROVE  lag' \in [Release -> BOOLEAN]
<1> DEFINE Flagged == lag' = lag \/ \E a \in Release, b \in BOOLEAN : lag' = [lag EXCEPT ![a] = b]
<1>1. ASSUME NEW a \in Release,
             \/ Create(a) \/ Cancel(a) \/ TryStart(a) \/ DropFinalizer(a)
             \/ VerifyRecovery(a) \/ Confirm(a)
      PROVE  Flagged
  BY Zenon, <1>1 DEF Create, Cancel, TryStart, DropFinalizer, VerifyRecovery, Confirm
<1>2. ASSUME NEW a \in Release, CacheUpdate(a) \/ Progress(a)
      PROVE  Flagged
  BY Zenon, <1>2 DEF CacheUpdate, Progress, ProgressEnds, ProgressSilent, ProgressPromotes,
              ProgressDeleting, Finish
<1>3. ASSUME NEW a \in Release, Delete(a)
      PROVE  Flagged
  <2>1. lag[a] \in BOOLEAN /\ (rel[a].phase \in Live) \in BOOLEAN
    OBVIOUS
  <2> QED BY Zenon, <1>3, <2>1 DEF Delete
<1>4. ASSUME NEW d \in Deployment, Skip(d) \/ Invalid(d) \/ Promote(d)
      PROVE  Flagged
  BY Zenon, <1>4 DEF Skip, Invalid, Promote
<1>5. ASSUME EndPass
      PROVE  lag' \in [Release -> BOOLEAN]
  <2>1. lag' = lag \/ \E b \in BOOLEAN : lag' = [lag EXCEPT ![pass.rel] = b]
    BY Zenon, <1>5 DEF EndPass, Finish
  <2> QED BY <2>1
<1>6. ASSUME PassFails \/ UNCHANGED vars
      PROVE  Flagged
  BY Zenon, <1>6 DEF PassFails, vars
<1>7. ASSUME NEW d \in Deployment,
             \/ Agent(d) \/ Reject(d) \/ Restart(d) \/ Silence(d)
             \/ Candidate(d) \/ Suspend(d)
      PROVE  Flagged
  BY Zenon, <1>7 DEF Agent, Sync, Heartbeat, Accept, Apply, Recover, Report, Reject, Restart,
              Silence, Candidate, Suspend
<1>8. ASSUME Flagged
      PROVE  lag' \in [Release -> BOOLEAN]
  BY <1>8
<1> HIDE DEF Flagged
<1> QED BY Zenon, <1>1, <1>2, <1>3, <1>4, <1>5, <1>6, <1>7, <1>8 DEF Next, Promoting

(* What happens from outside happens at most MaxFaults times. *)
LEMMA FaultsBounded ==
  ASSUME faults \in 0..MaxFaults, [Next]_vars
  PROVE  faults' \in 0..MaxFaults
<1>1. ASSUME NEW a \in Release,
             \/ Create(a) \/ Cancel(a) \/ TryStart(a) \/ CacheUpdate(a)
             \/ Delete(a) \/ DropFinalizer(a) \/ VerifyRecovery(a) \/ Confirm(a)
             \/ Progress(a)
      PROVE  faults' = faults \/ Fault
  BY Zenon, <1>1 DEF Create, Cancel, TryStart, CacheUpdate, Delete, DropFinalizer,
              VerifyRecovery, Confirm, Progress, ProgressEnds, ProgressSilent,
              ProgressPromotes, ProgressDeleting
<1>2. ASSUME NEW d \in Deployment,
             \/ Agent(d) \/ Reject(d) \/ Restart(d) \/ Silence(d)
             \/ Candidate(d) \/ Suspend(d)
      PROVE  faults' = faults \/ Fault
  BY Zenon, <1>2 DEF Agent, Sync, Heartbeat, Accept, Apply, Recover, Report, Reject, Restart,
              Silence, Candidate, Suspend
<1>3. ASSUME NEW d \in Deployment, Skip(d) \/ Invalid(d) \/ Promote(d)
      PROVE  faults' = faults
  BY Zenon, <1>3 DEF Skip, Invalid, Promote
<1>4. ASSUME EndPass \/ PassFails \/ UNCHANGED vars
      PROVE  faults' = faults \/ Fault
  BY Zenon, <1>4 DEF EndPass, PassFails, vars
<1>5. faults' = faults \/ Fault
  BY Zenon, <1>1, <1>2, <1>3, <1>4 DEF Next, Promoting
<1> QED BY <1>5, BoundsAssumption DEF Fault

(* TypeInv is inductive, given AgentInv. *)
LEMMA TypeStep == AgentInv /\ TypeInv /\ [Next]_vars => TypeInv'
<1> SUFFICES ASSUME AgentInv, TypeInv, [Next]_vars
             PROVE  TypeInv'
  BY Zenon
<1>1. DatesInv'
  BY Zenon, ReleasesTyped DEF AgentInv, TypeInv
<1>2. TodoInv' /\ \A d \in Deployment : SpecInv(d)'
  BY Zenon, TodoTyped, SpecsTyped
<1>3. (lag \in [Release -> BOOLEAN])' /\ (faults \in 0..MaxFaults)'
  BY Zenon, LagTyped, FaultsBounded DEF TypeInv
<1> QED BY Zenon, <1>1, <1>2, <1>3 DEF TypeInv

(* No release exists yet, and every router runs First. *)
LEMMA TypeInit == Init => TypeInv
<1> SUFFICES ASSUME Init
             PROVE  TypeInv
  BY Zenon
<1>1. <<>> \in Planned
  BY DEF Planned
<1>2. rel \in [Release -> ReleaseObject] /\ \A a \in Release : rel[a].at = 0
  BY <1>1 DEF Init, ReleaseObject, Phase
<1>3. DatesInv
  BY <1>2, DatedFacts DEF DatesInv
<1>4. TodoInv
  BY RolloutAssumption DEF Init, NoPass, TodoInv
<1>5. \A d \in Deployment : SpecInv(d)
  BY RolloutAssumption, BoundsAssumption DEF Init, SpecInv
<1>6. lag \in [Release -> BOOLEAN] /\ faults \in 0..MaxFaults
  BY BoundsAssumption DEF Init
<1> QED BY Zenon, <1>3, <1>4, <1>5, <1>6 DEF TypeInv

(* The variables keep their types, for any number of releases, deployments *)
(* and promotions: a release starts no later than one second after the     *)
(* latest, only revisions are promoted, and no status is ahead of its      *)
(* agent's journal nor the journal ahead of the spec.                      *)
THEOREM TypeCorrect == Spec => []TypeOK
<1>1. AgentInv /\ TypeInv => TypeOK
  <2> SUFFICES ASSUME AgentInv, TypeInv
               PROVE  TypeOK
    BY Zenon
  <2>1. rel \in [Release -> [phase : Phase, at : 0..Cardinality(Release),
                             verified : BOOLEAN, deleting : BOOLEAN,
                             withdraws : BOOLEAN, target : Planned]]
    <3>1. rel \in [Release -> ReleaseObject]
          /\ \A a \in Release : rel[a].at <= Cardinality(Dated)
      BY Zenon DEF TypeInv, DatesInv
    <3>2. \A a \in Release : rel[a].at \in 0..Cardinality(Release)
      BY <3>1, DatedFacts DEF ReleaseObject
    <3> QED BY <3>1, <3>2 DEF ReleaseObject
  <2>2. \A d \in Deployment :
          /\ dep[d].epoch \in 1..MaxEpoch /\ dep[d].rev \in Revision
          /\ dep[d].auth \in Release \cup {NoRelease}
          /\ dep[d].rec \in Revision \cup {NoRevision}
          /\ status[d].last <= ag[d].epoch /\ ag[d].epoch <= dep[d].epoch
    BY Zenon DEF AgentInv, Good, Told, Held, TypeInv, SpecInv
  <2>3. pass.rel \in Release \cup {NoRelease} /\ pass.todo \subseteq Deployment
    BY Zenon DEF AgentInv, RelInv, PassShape, TypeInv, TodoInv
  <2> QED BY Zenon, <2>1, <2>2, <2>3 DEF TypeInv, TypeOK, Planned
<1> QED BY <1>1, TypeInit, TypeStep, AgentInvAlways, PTL DEF Spec
=============================================================================
