------------------------ MODULE DeploymentSyncProofs ------------------------
(***************************************************************************)
(* Of module DeploymentSync, for any number of deployments, epochs,        *)
(* revisions and prefixes: the agent drives the Activator as module        *)
(* Activation says, and what the release manager concludes from the status *)
(* it reads is true of the journal the status was written from.            *)
(*                                                                         *)
(* SyncInv adds to the Activator's invariant: how spec, request and Sync's *)
(* place go together (Flow), that the journal knows no promotion but those *)
(* made, at the revision they were made with (Reached), that what status   *)
(* says was so and stays so (Told), and, when failed appends are undone,   *)
(* that an epoch left behind is finished or refused for good (Settled).    *)
(***************************************************************************)
EXTENDS DeploymentSync, ActivationProofs

(* A deployment that has been promoted names a revision, and a recovery    *)
(* target that is another one.                                             *)
Sound(d) ==
  /\ d \in Deployment
  /\ d.epoch > 0 => d.rev \in Revs /\ d.recovery.target # d.rev

Types ==
  /\ Sound(dep)
  /\ Sound(want)
  /\ auth \in [Keys -> Phases]
  /\ status \in Status
  /\ sync \in SyncSteps
  /\ inSync \in BOOLEAN
  /\ cond \in Reasons \cup {"same"}
  /\ conf \in Revs \cup {NoRev}

(* The promotion of deployment u to epoch e has been made. *)
Made(u, e) == u < dep.uid \/ (u = dep.uid /\ e <= dep.epoch)

Flow ==
  /\ Made(want.uid, want.epoch)
  /\ want.epoch > 0 /\ KeyOf(want) = KeyOf(dep) => want.rev = dep.rev
  /\ sync \in {"ask", "refuse"} => want.epoch > 0
  /\ sync # "activate" => pc \in {"idle", "boot"}
  /\ pc = "boot" => sync = "off"
  /\ inSync => sync \in {"persist", "report"}
  /\ sync = "report" /\ inSync => cond = "PersistFailed" \/ conf = cp.rev

Reached(j) ==
  \A k \in Keys : j.stage[k] # "none" =>
    /\ Made(k[1], k[2])
    /\ j.entry[k].recovery.target # j.entry[k].rev
    /\ k = KeyOf(dep) => j.entry[k].rev = dep.rev
    /\ k = KeyOf(want) => j.entry[k].rev = want.rev
Authorized == \A k \in Keys : auth[k] # "none" => Made(k[1], k[2])

Told ==
  /\ status.epoch > 0 =>
       /\ cp.key[1] = dep.uid
       /\ Vouches(jnl, [key |-> <<dep.uid, status.epoch>>, rev |-> status.rev])
  /\ status.ready => status.epoch > 0
  /\ ReadyIsCommitted
  /\ \A e \in Epochs : status.stages[e] \in {"failed", "recovered"} =>
       Failed(jnl, <<dep.uid, e>>)
  /\ status.refused <= dep.epoch

(* The release of key k ended before the node accepted it. *)
Given(k) == auth[k] = "ended" /\ jnl.stage[k] = "none"

Settled ==
  /\ disk = jnl
  /\ sync = "refuse" => Given(KeyOf(want))
  /\ dep.epoch > 0 /\ status.refused = dep.epoch =>
       Given(KeyOf(dep)) \/ status.stages[dep.epoch] # "none"
  /\ \A e \in Epochs : e < dep.epoch =>
       LET k == <<dep.uid, e>>
       IN jnl.stage[k] \in {"committed", "failed", "recovered"} \/ Given(k)

SyncInv ==
  /\ IInv
  /\ Types
  /\ Flow
  /\ Reached(jnl) /\ Reached(disk) /\ Authorized
  /\ Told
  /\ TargetWasCommitted
  /\ ~UndoMayFail => Settled
-----------------------------------------------------------------------------
(* No checkpoint is of no key. *)
LEMMA NoneFacts == NoCheckpoint.key[1] = 0 /\ NoKey[2] = 0
  BY Zenon DEF NoCheckpoint, NoKey

(* A key is its parts. *)
LEMMA PairFacts ==
  ASSUME NEW k, NEW u, NEW e, k = <<u, e>>
  PROVE  k[1] = u /\ k[2] = e
  BY Zenon

(* A deployment is created without a promotion. *)
LEMMA NewEpoch ==
  ASSUME NEW u
  PROVE  NewDeployment(u).epoch = 0
  BY Zenon DEF NewDeployment

(* What a deployment that was promoted asks for is a request of Activation. *)
LEMMA RequestFacts ==
  ASSUME NEW d, Sound(d), d.epoch > 0, NEW avail \in BOOLEAN
  PROVE  /\ RequestOf(d, avail) \in Requests
         /\ Askable(RequestOf(d, avail))
         /\ KeyOf(d) \in Keys
         /\ RequestOf(d, avail).key = KeyOf(d)
         /\ RequestOf(d, avail).rev = d.rev
         /\ RequestOf(d, avail).recovery = d.recovery
<1>1. d.uid \in Uids /\ d.epoch \in 0..MaxEpoch /\ d.recovery \in Recovery
  BY Zenon DEF Sound, Deployment
<1>2. d.epoch \in Epochs
  BY <1>1 DEF Epochs
<1>3. KeyOf(d) \in Keys
  BY Zenon, <1>1, <1>2 DEF KeyOf, Keys
<1> QED
  BY Zenon, <1>1, <1>3, AnyRecovery DEF RequestOf, Requests, Askable, Sound

(* Every step of the agent and around it is one of the Activator's, or     *)
(* leaves the Activator alone.                                             *)
LEMMA Simulates ==
  ASSUME Types, Flow, [SyncNext]_allVars
  PROVE  [Next]_vars
<1>1. CASE Begin
  <2>1. dep.uid \in Uids
    BY Zenon DEF Types, Sound, Deployment
  <2> QED
    BY Zenon, <1>1, <2>1 DEF Begin, Next
<1>2. ASSUME NEW avail \in BOOLEAN, Ask(avail) PROVE Next
  <2>1. Sound(want) /\ want.epoch > 0
    BY Zenon, <1>2 DEF Types, Flow, Ask
  <2> QED
    BY Zenon, <1>2, <2>1, RequestFacts DEF Ask, Next
<1>3. CASE Reasserting
  BY Zenon, <1>3 DEF Reasserting, Next
<1>4. CASE Work
  BY Zenon, <1>4 DEF Work, Next
<1>5. CASE AgentCrash \/ PodCrash \/ FRRRestart \/ Edited
  BY Zenon, <1>5 DEF AgentCrash, PodCrash, FRRRestart, Edited, Next
<1>6. CASE Boot
  <2>1. ASSUME NEW avail \in BOOLEAN, dep.epoch > 0, BootActive(RequestOf(dep, avail))
        PROVE  Next
    BY Zenon, <2>1, RequestFacts DEF Types, Next
  <2> QED
    BY Zenon, <1>6, <2>1 DEF Boot, Next
<1> QED
  BY Zenon, <1>1, <1>2, <1>3, <1>4, <1>5, <1>6 DEF SyncNext, Agent, Environment, Refuse,
     Wait, Outcome, Persist, Report, Promote, ReleasePhase, Replace, ApproveRebind, allVars

-----------------------------------------------------------------------------
(* What journal n keeps of journal j. *)
Grows(j, n) ==
  \A k \in Keys : j.stage[k] # "none" =>
    /\ n.stage[k] # "none"
    /\ n.entry[k] = j.entry[k]
    /\ j.stage[k] = "committed" => n.stage[k] = "committed"
    /\ Failed(j, k) => Failed(n, k)

(* Journal n knows no acceptance but those memory or the file knows, and   *)
(* the one that Sync asks for, while it is authorized.                     *)
Known(n) ==
  \A k \in Keys : n.stage[k] # "none" =>
    \/ \E j \in {jnl, disk} : j.stage[k] # "none" /\ n.entry[k] = j.entry[k]
    \/ /\ k = KeyOf(want)
       /\ auth[k] = "started"
       /\ n.entry[k].rev = want.rev
       /\ n.entry[k].recovery.target # want.rev

(* Memory and the file know themselves. *)
LEMMA SameKnown == Known(jnl) /\ Known(disk)
  BY Zenon DEF Known

(* An append, kept or lost, leaves one of two journals. *)
LEMMA AppendChoice ==
  ASSUME NEW new, NEW step, NEW q, AppendThen(new, step, q)
  PROVE  jnl' \in {jnl, new} /\ disk' \in {disk, new}
  BY Zenon DEF AppendThen, Append, AppendError

(* The record of a later stage names an acceptance there is. *)
LEMMA MarkKnown ==
  ASSUME jnl \in Journal, NEW k \in Keys, NEW s, NEW step, NEW q,
         jnl.stage[k] # "none", AppendThen(Marking(jnl, k, s), step, q)
  PROVE  Known(jnl') /\ Known(disk')
<1> DEFINE new == Marking(jnl, k, s)
<1>1. new.entry = jnl.entry /\ \A l \in Keys : l # k => new.stage[l] = jnl.stage[l]
  BY Zenon DEF Marking, Journal
<1>2. Known(new)
  BY Zenon, <1>1 DEF Known
<1>3. jnl' \in {jnl, new} /\ disk' \in {disk, new}
  BY Zenon, AppendChoice
<1> QED
  BY Zenon, <1>2, <1>3, SameKnown

(* A rebinding, and opening the file again, accept nothing. *)
LEMMA RebindKnown ==
  ASSUME NEW u, Rebind(u)
  PROVE  Known(jnl') /\ Known(disk')
<1> DEFINE new == Rebinding(jnl, u)
<1>1. Known(new)
  BY Zenon DEF Known, Rebinding
<1>2. jnl' \in {jnl, new} /\ disk' \in {disk, new}
  BY Zenon, AppendChoice DEF Rebind
<1> QED
  BY Zenon, <1>1, <1>2, SameKnown

LEMMA OpenKnown ==
  ASSUME Open
  PROVE  Known(jnl') /\ Known(disk')
  BY Zenon, SameKnown DEF Open

(* The Activator's own steps accept nothing. *)
LEMMA WorkKnown ==
  ASSUME IInv, Work
  PROVE  Known(jnl') /\ Known(disk')
<1>1. jnl \in Journal
  BY Zenon DEF IInv, JournalPart, Good
<1>2. CASE UNCHANGED <<jnl, disk>>
  BY Zenon, <1>2, SameKnown
<1>3. ASSUME RecordApplied \/ RecordFailed \/ Commit \/ RecordRecovered
      PROVE  Known(jnl') /\ Known(disk')
  <2>1. Working
    BY Zenon, <1>3 DEF RecordApplied, RecordFailed, Commit, RecordRecovered, Working
  <2>2. req.key \in Keys /\ jnl.stage[req.key] # "none"
    BY Zenon, <2>1 DEF IInv, WorkInv, IsHigh
  <2> QED
    BY Zenon, <1>1, <1>3, <2>2, MarkKnown DEF RecordApplied, RecordFailed, Commit,
       RecordRecovered
<1> QED
  BY Zenon, <1>2, <1>3 DEF Work, Reload, Observe, WriteCheckpoint, Recover, CheckpointRecovery

(* What Sync asks for is accepted as asked, or was accepted before. *)
LEMMA AskKnown ==
  ASSUME IInv, Types, Flow, NEW avail \in BOOLEAN, Ask(avail)
  PROVE  Known(jnl') /\ Known(disk')
<1> DEFINE q == RequestOf(want, avail)
           k == KeyOf(want)
<1>1. /\ Sound(want)
      /\ want.epoch > 0
      /\ jnl \in Journal
  BY Zenon DEF Types, Flow, Ask, IInv, JournalPart, Good
<1>2. /\ q \in Requests
      /\ k \in Keys
      /\ q.key = k
      /\ q.rev = want.rev
      /\ q.recovery = want.recovery
  BY Zenon, <1>1, RequestFacts
<1> HIDE DEF q
<1>3. CASE ActivateNew(q)
  <2> DEFINE new == Accepting(jnl, k, q.rev, cp # NoCheckpoint, q.recovery)
  <2>1. k[2] \in Epochs /\ k[2] >= k[2] /\ k = <<k[1], k[2]>>
    BY <1>2, KeyFacts DEF Epochs
  <2>2. jnl.stage[k] = "none"
    BY Zenon, <1>2, <1>3, <2>1 DEF ActivateNew, AboveHigh
  <2>3. auth[k] = "started"
    BY Zenon, <1>2, <2>2 DEF Ask, q
  <2>4. /\ \A l \in Keys : l # k => new.stage[l] = jnl.stage[l] /\ new.entry[l] = jnl.entry[l]
        /\ new.entry[k].rev = want.rev
        /\ new.entry[k].recovery.target # want.rev
    BY Zenon, <1>1, <1>2 DEF Accepting, Journal, Sound
  <2> HIDE DEF k
  <2>5. Known(new)
    BY Zenon, <2>3, <2>4 DEF Known, k
  <2>6. jnl' \in {jnl, new} /\ disk' \in {disk, new}
    BY Zenon, <1>2, <1>3, AppendChoice DEF ActivateNew
  <2> QED
    BY Zenon, <2>5, <2>6, SameKnown
<1>4. CASE ResumeFailed(q) \/ ResumeApplied(q)
  BY Zenon, <1>4, SameKnown DEF ResumeFailed, ResumeApplied
<1>5. CASE ResumeAccepted(q)
  <2>1. jnl.stage[k] # "none"
    BY Zenon, <1>2, <1>5 DEF ResumeAccepted
  <2> HIDE DEF k
  <2> QED
    BY Zenon, <1>1, <1>2, <1>5, <2>1, MarkKnown, SameKnown DEF ResumeAccepted
<1> QED
  BY Zenon, <1>3, <1>4, <1>5 DEF Ask, q

(* Whatever happens, the journal gains no other acceptance. *)
LEMMA StepKnown ==
  ASSUME IInv, Types, Flow, [SyncNext]_allVars
  PROVE  Known(jnl') /\ Known(disk')
<1>1. CASE UNCHANGED <<jnl, disk>>
  BY Zenon, <1>1, SameKnown
<1>2. CASE Begin
  BY Zenon, <1>1, <1>2, RebindKnown DEF Begin, vars
<1>3. CASE AgentCrash \/ PodCrash
  BY Zenon, <1>3, OpenKnown DEF AgentCrash, PodCrash, Crash, PodRestart
<1> QED
  BY Zenon, <1>1, <1>2, <1>3, AskKnown, WorkKnown DEF SyncNext, Agent, Environment, Refuse,
     Wait, Outcome, Reasserting, Reassert, Persist, Report, Promote, ReleasePhase, Replace,
     ApproveRebind, FRRRestart, Edited, Drift, Boot, BootCheckpoint, BootConfigMap,
     BootActive, allVars, vars

(* What the journal accepted, committed or failed stays so, as accepted. *)
LEMMA StepGrows ==
  ASSUME IInv, [Next]_vars
  PROVE  Grows(jnl, jnl')
<1> DEFINE Stay == \A k \in Keys : jnl.stage[k] # "none" => jnl'.entry[k] = jnl.entry[k]
<1>1. jnl \in Journal /\ DiskRel(jnl, disk)
  BY Zenon DEF IInv, JournalPart, Good
<1>2. ASSUME jnl'.entry = jnl.entry PROVE Stay
  BY Zenon, <1>2
<1>3. ASSUME NEW q \in Requests, ActivateNew(q) PROVE Stay
  <2> DEFINE new == Accepting(jnl, q.key, q.rev, cp # NoCheckpoint, q.recovery)
  <2>1. q.key \in Keys /\ q.key[2] \in Epochs /\ q.key[2] >= q.key[2]
        /\ q.key = <<q.key[1], q.key[2]>>
    BY KeyFacts DEF Epochs, Requests
  <2>2. jnl.stage[q.key] = "none"
    BY Zenon, <1>3, <2>1 DEF ActivateNew, AboveHigh
  <2>3. \A k \in Keys : k # q.key => new.entry[k] = jnl.entry[k]
    BY Zenon, <1>1 DEF Accepting, Journal
  <2>4. jnl' \in {jnl, new}
    BY Zenon, <1>3, AppendChoice DEF ActivateNew
  <2> HIDE DEF new
  <2> QED
    BY Zenon, <2>2, <2>3, <2>4
<1>4. ASSUME Open PROVE Stay
  BY Zenon, <1>1, <1>4 DEF Open, DiskRel
<1>5. ASSUME NEW k, NEW s, NEW step, NEW q, AppendThen(Marking(jnl, k, s), step, q)
      PROVE  jnl'.entry = jnl.entry
  <2>1. jnl' \in {jnl, Marking(jnl, k, s)}
    BY Zenon, <1>5, AppendChoice
  <2> QED
    BY <2>1 DEF Marking
<1>6. ASSUME NEW u, Rebind(u) PROVE jnl'.entry = jnl.entry
  <2>1. jnl' \in {jnl, Rebinding(jnl, u)}
    BY Zenon, <1>6, AppendChoice DEF Rebind
  <2> QED
    BY <2>1 DEF Rebinding
<1>7. Stay
  BY Zenon, <1>2, <1>3, <1>4, <1>5, <1>6 DEF Next, vars, ResumeCommitted, ResumeFailed,
     ResumeApplied, ResumeAccepted, BootActive, Reload, RecordApplied, RecordFailed, Observe,
     Commit, WriteCheckpoint, Recover, CheckpointRecovery, RecordRecovered, Reassert, Crash,
     Drift, PodRestart, BootCheckpoint, BootConfigMap
<1>8. jnl' = jnl \/ Advanced
  BY Zenon, StepAdvances
<1> QED
  BY Zenon, <1>7, <1>8 DEF Grows, Failed, Advanced, Advances

-----------------------------------------------------------------------------
(* How spec and request move: promotions made stay made, a new one has a   *)
(* key of its own, and the request is kept, read from the spec or dropped. *)
Steady ==
  /\ \A k \in Keys : Made(k[1], k[2]) => Made(k[1], k[2])'
  /\ \A k \in Keys : Made(k[1], k[2]) /\ k = KeyOf(dep') => k = KeyOf(dep) /\ dep'.rev = dep.rev
  /\ \A k \in Keys : k = KeyOf(want') => \/ k = KeyOf(want) /\ want'.rev = want.rev
                                         \/ k = KeyOf(dep) /\ want'.rev = dep.rev

(* A deployment's fields, and its key. *)
LEMMA DeploymentFacts ==
  ASSUME NEW d \in Deployment
  PROVE  /\ d.uid \in Nat /\ d.uid \in Uids /\ d.uid # 0 /\ ~(d.uid < 0)
         /\ d.epoch \in Nat /\ d.epoch \in 0..MaxEpoch
         /\ d.rev \in Revs \cup {NoRev}
         /\ d.recovery \in Recovery
         /\ d.rebind \in 0..MaxUid
         /\ KeyOf(d)[1] = d.uid /\ KeyOf(d)[2] = d.epoch
<1>1. /\ d.uid \in Uids
      /\ d.epoch \in 0..MaxEpoch
      /\ d.rev \in Revs \cup {NoRev}
      /\ d.recovery \in Recovery
      /\ d.rebind \in 0..MaxUid
  BY Zenon DEF Deployment
<1>2. d.uid \in Nat /\ d.epoch \in Nat /\ d.uid # 0 /\ ~(d.uid < 0)
  BY <1>1, BoundsAssumption DEF Uids
<1> QED
  BY Zenon, <1>1, <1>2 DEF KeyOf

(* Nothing has been asked of a deployment just created. *)
LEMMA NewFacts ==
  ASSUME NEW u \in Uids
  PROVE  /\ Sound(NewDeployment(u))
         /\ NewDeployment(u).uid = u
         /\ NewDeployment(u).epoch = 0
         /\ KeyOf(NewDeployment(u)) \notin Keys
<1>1. 0 \in 0..MaxEpoch /\ 0 \in 0..MaxUid /\ ~(0 > 0) /\ 0 \notin Epochs
  BY BoundsAssumption DEF Epochs
<1>2. NoRecovery \in Recovery
  BY Zenon DEF NoRecovery, Recovery
<1> QED
  BY Zenon, <1>1, <1>2 DEF NewDeployment, Sound, Deployment, KeyOf, Keys

(* What a promotion makes of the spec. *)
LEMMA PromoteFacts ==
  ASSUME Types, NEW r \in Revs, NEW withdrawn \in SUBSET Prefixes, NEW retire \in BOOLEAN,
         Promote(r, withdrawn, retire)
  PROVE  /\ Sound(dep')
         /\ dep'.uid = dep.uid
         /\ dep'.epoch = dep.epoch + 1
         /\ dep'.recovery.target # NoRev =>
              \/ Committed /\ dep'.recovery.target = dep.rev
              \/ dep'.recovery.target = dep.recovery.target
<1> DEFINE revoked == dep.recovery.revoked \cup withdrawn
           target == IF Committed THEN dep.rev ELSE dep.recovery.target
           kept == target \notin {NoRev, r} /\ Originates[target] \cap revoked = {}
           recovery == [target |-> IF kept THEN target ELSE NoRev,
                        revoked |-> revoked,
                        retired |-> dep.recovery.retired \/ retire]
<1>1. dep \in Deployment /\ dep.epoch \in Nat /\ dep.epoch < MaxEpoch
  BY Zenon, DeploymentFacts DEF Types, Sound, Promote
<1>2. dep' = [dep EXCEPT !.epoch = @ + 1, !.rev = r, !.recovery = recovery]
  BY Zenon DEF Promote, Promotion
<1>3. /\ dep.recovery.target \in Revs \cup {NoRev}
      /\ dep.recovery.revoked \in SUBSET Prefixes
      /\ dep.recovery.retired \in BOOLEAN
  BY Zenon, <1>1, DeploymentFacts DEF Recovery
<1>4. target \in Revs \cup {NoRev}
  BY Zenon, <1>1, <1>3, DeploymentFacts
<1>5. recovery \in Recovery
  BY Zenon, <1>3, <1>4 DEF Recovery
<1>6. recovery.target # r /\ (recovery.target # NoRev => recovery.target = target)
  BY Zenon, RevsAssumption
<1> HIDE DEF recovery
<1>7. dep.epoch + 1 \in 0..MaxEpoch
  BY <1>1, BoundsAssumption
<1>8. /\ dep' \in Deployment
      /\ dep'.uid = dep.uid /\ dep'.epoch = dep.epoch + 1
      /\ dep'.rev = r /\ dep'.recovery = recovery
  BY Zenon, <1>1, <1>2, <1>5, <1>7 DEF Deployment
<1> QED
  BY Zenon, <1>6, <1>8 DEF Sound

(* Every step moves spec and request so. *)
LEMMA StepSteady ==
  ASSUME Types, [SyncNext]_allVars
  PROVE  Steady
<1>1. dep \in Deployment /\ want \in Deployment
  BY Zenon DEF Types, Sound
<1>2. 1 \in Uids
  BY BoundsAssumption, SomeDeployment DEF Uids
<1>3. ASSUME dep' = dep, want' \in {want, dep, NewDeployment(1)} PROVE Steady
  BY Zenon, <1>2, <1>3, NewFacts DEF Steady, Made
<1>4. ASSUME want' = want, dep'.uid = dep.uid, dep'.epoch = dep.epoch + 1 PROVE Steady
  <2>1. ASSUME NEW k \in Keys
        PROVE  /\ Made(k[1], k[2]) => k[1] < dep'.uid \/ (k[1] = dep'.uid /\ k[2] <= dep'.epoch)
               /\ ~(Made(k[1], k[2]) /\ k[1] = dep.uid /\ k[2] = dep.epoch + 1)
    <3>1. k[1] \in Nat /\ k[2] \in Nat /\ dep.uid \in Nat /\ dep.epoch \in Nat
      BY Zenon, <1>1, KeyFacts, DeploymentFacts
    <3> QED
      BY <1>4, <3>1 DEF Made
  <2> QED
    BY <1>4, <2>1 DEF Steady, Made, KeyOf
<1>5. CASE Replace
  <2>1. dep.uid + 1 \in Uids /\ dep' = NewDeployment(dep.uid + 1) /\ want' = want
    BY <1>1, <1>5, DeploymentFacts, BoundsAssumption DEF Replace, Uids
  <2>2. dep'.uid = dep.uid + 1 /\ KeyOf(dep') \notin Keys
    BY Zenon, <2>1, NewFacts
  <2>3. \A k \in Keys : Made(k[1], k[2]) => k[1] < dep'.uid
    BY <1>1, <2>2, KeyFacts, DeploymentFacts DEF Made
  <2> QED
    BY Zenon, <2>1, <2>2, <2>3 DEF Steady, Made
<1>6. ASSUME NEW u \in Uids, ApproveRebind(u) PROVE Steady
  <2>1. want' = want /\ dep'.uid = dep.uid /\ dep'.epoch = dep.epoch /\ dep'.rev = dep.rev
    BY Zenon, <1>1, <1>6 DEF ApproveRebind, Deployment
  <2> QED
    BY Zenon, <2>1 DEF Steady, Made, KeyOf
<1> QED
  BY Zenon, <1>3, <1>4, <1>5, <1>6, PromoteFacts DEF SyncNext, Agent, Environment, Begin, Ask,
     Refuse, Wait, Outcome, Reasserting, Persist, Report, Work, AgentCrash, PodCrash, Ended,
     Promote, ReleasePhase, FRRRestart, Edited, Boot, allVars, syncVars

(* No step lets the journal know of a promotion not made, or under another *)
(* revision.                                                               *)
LEMMA StepReached ==
  ASSUME Types, Flow, Reached(jnl), Reached(disk), Steady, Known(jnl'), Known(disk')
  PROVE  Reached(jnl)' /\ Reached(disk)'
<1>1. ASSUME NEW n \in {jnl', disk'}, NEW k \in Keys, n.stage[k] # "none"
      PROVE  /\ Made(k[1], k[2])
             /\ n.entry[k].recovery.target # n.entry[k].rev
             /\ k = KeyOf(dep) => n.entry[k].rev = dep.rev
             /\ k = KeyOf(want) => n.entry[k].rev = want.rev
  <2>1. CASE \E j \in {jnl, disk} : j.stage[k] # "none" /\ n.entry[k] = j.entry[k]
    BY Zenon, <2>1 DEF Reached
  <2>2. CASE /\ k = KeyOf(want)
             /\ n.entry[k].rev = want.rev
             /\ n.entry[k].recovery.target # want.rev
    <3>1. k[1] = want.uid /\ k[2] = want.epoch
      BY Zenon, <2>2 DEF KeyOf
    <3>2. want.epoch > 0
      BY Zenon, <3>1, KeyFacts
    <3> QED
      BY Zenon, <2>2, <3>1, <3>2 DEF Flow
  <2> QED
    BY Zenon, <1>1, <2>1, <2>2 DEF Known
<1>2. ASSUME NEW n \in {jnl', disk'}, NEW k \in Keys, n.stage[k] # "none"
      PROVE  /\ Made(k[1], k[2])'
             /\ n.entry[k].recovery.target # n.entry[k].rev
             /\ k = KeyOf(dep') => n.entry[k].rev = dep'.rev
             /\ k = KeyOf(want') => n.entry[k].rev = want'.rev
  BY Zenon, <1>1, <1>2 DEF Steady
<1> QED
  BY Zenon, <1>2 DEF Reached, KeyOf

(* No step authorizes a promotion not made. *)
LEMMA StepAuthorized ==
  ASSUME Types, Authorized, Steady, [SyncNext]_allVars
  PROVE  Authorized'
<1>1. dep \in Deployment /\ auth \in [Keys -> Phases]
  BY Zenon DEF Types, Sound
<1>2. CASE auth' = auth
  BY Zenon, <1>2 DEF Authorized, Steady
<1>3. ASSUME NEW r \in Revs, NEW withdrawn \in SUBSET Prefixes, NEW retire \in BOOLEAN,
             Promote(r, withdrawn, retire)
      PROVE  Authorized'
  <2>1. dep'.uid = dep.uid /\ dep'.epoch = dep.epoch + 1
    BY Zenon, <1>3, PromoteFacts
  <2>2. dep.epoch + 1 <= dep.epoch + 1
    BY <1>1, DeploymentFacts
  <2>3. ASSUME NEW k \in Keys, k = <<dep.uid, dep.epoch + 1>> PROVE Made(k[1], k[2])'
    BY Zenon, <2>1, <2>2, <2>3 DEF Made
  <2>4. \A k \in Keys : k # <<dep.uid, dep.epoch + 1>> => auth'[k] = auth[k]
    BY Zenon, <1>1, <1>3 DEF Promote
  <2> QED
    BY Zenon, <2>3, <2>4 DEF Authorized, Steady
<1>4. ASSUME NEW phase \in Phases, ReleasePhase(phase) PROVE Authorized'
  <2> DEFINE k == KeyOf(dep)
  <2>1. \A l \in Keys : l # k => auth'[l] = auth[l]
    BY Zenon, <1>1, <1>4 DEF ReleasePhase
  <2>2. dep.epoch <= dep.epoch
    BY <1>1, DeploymentFacts
  <2>3. k[1] = dep.uid /\ k[2] = dep.epoch /\ Made(k[1], k[2])
    BY Zenon, <1>1, <2>2, DeploymentFacts DEF Made
  <2> HIDE DEF k
  <2> QED
    BY Zenon, <2>1, <2>3 DEF Authorized, Steady
<1> QED
  BY Zenon, <1>2, <1>3, <1>4 DEF SyncNext, Agent, Environment, Begin, Ask, Refuse, Wait, Outcome,
     Reasserting, Persist, Report, Work, AgentCrash, PodCrash, Replace, ApproveRebind,
     FRRRestart, Edited, Boot, allVars, syncVars

-----------------------------------------------------------------------------
(* Keys of the deployment, and numbers in them. *)
LEMMA EpochKey ==
  ASSUME NEW u \in Uids, NEW e \in Nat, e > 0, e <= MaxEpoch
  PROVE  <<u, e>> \in Keys /\ e \in Epochs
<1>1. e \in Epochs
  BY BoundsAssumption DEF Epochs
<1> QED
  BY Zenon, <1>1 DEF Keys

(* A checkpoint the journal vouches for is vouched for ever after. *)
LEMMA VouchesGrows ==
  ASSUME NEW j, NEW n, Grows(j, n), NEW k \in Keys, NEW r,
         Vouches(j, [key |-> k, rev |-> r])
  PROVE  Vouches(n, [key |-> k, rev |-> r])
  BY Zenon DEF Vouches, Grows, Failed

(* What status told stays true while the Activator works on. *)
LEMMA ToldKept ==
  ASSUME IInv, IInv', Types, Types', [Next]_vars, Told, Reached(jnl)',
         dep'.uid = dep.uid, dep.epoch <= dep'.epoch,
         status'.epoch = status.epoch, status'.rev = status.rev,
         status'.stages = status.stages, status'.ready = status.ready,
         status'.refused \in {status.refused, 0}
  PROVE  Told'
<1>1. dep \in Deployment /\ dep' \in Deployment /\ status \in Status /\ Grows(jnl, jnl')
  BY Zenon, StepGrows DEF Types, Sound
<1>2. /\ dep.uid \in Uids /\ dep.uid \in Nat /\ dep.epoch \in Nat /\ dep'.epoch \in Nat
      /\ status.epoch \in 0..MaxEpoch /\ status.refused \in 0..MaxEpoch
  BY Zenon, <1>1, DeploymentFacts DEF Status
<1>3. status'.refused <= dep'.epoch
  BY <1>2, BoundsAssumption DEF Told
<1>4. ASSUME status.epoch > 0
      PROVE  /\ cp'.key[1] = dep.uid
             /\ Vouches(jnl', [key |-> <<dep.uid, status.epoch>>, rev |-> status.rev])
  <2>1. status.epoch \in Nat /\ status.epoch <= MaxEpoch
    BY <1>2, BoundsAssumption
  <2>2. <<dep.uid, status.epoch>> \in Keys
    BY Zenon, <1>2, <1>4, <2>1, EpochKey
  <2>3. cp.key[1] = dep.uid
    BY Zenon, <1>4 DEF Told
  <2>4. CASE cp' = cp
    BY Zenon, <1>1, <1>4, <2>2, <2>3, <2>4, VouchesGrows DEF Told
  <2>5. CASE cp' # cp
    <3>1. Before(cp.key, cp'.key)
      BY Zenon, <2>5, StepCheckpoints
    <3>2. cp' # NoCheckpoint
      <4>1. ~(dep.uid < 0) /\ dep.uid # 0
        BY Zenon, <1>1, DeploymentFacts
      <4> QED
        BY Zenon, <2>3, <3>1, <4>1, NoneFacts DEF Before
    <3>3. cp'.key \in Keys /\ jnl'.stage[cp'.key] # "none"
      BY Zenon, <3>2 DEF IInv, JournalPart, Good, CpInv
    <3>4. cp'.key[1] < dep.uid \/ cp'.key[1] = dep.uid
      BY Zenon, <3>3 DEF Reached, Made
    <3>5. cp'.key[1] = dep.uid
      BY <1>2, <2>3, <3>1, <3>3, <3>4, KeyFacts DEF Before
    <3> QED
      BY Zenon, <1>1, <1>4, <2>2, <3>5, VouchesGrows DEF Told
  <2> QED
    BY Zenon, <2>4, <2>5
<1>5. ASSUME status.ready
      PROVE  /\ jnl'.stage[<<dep.uid, status.epoch>>] = "committed"
             /\ jnl'.entry[<<dep.uid, status.epoch>>].rev = status.rev
  <2>1. status.epoch > 0 /\ status.epoch \in Nat /\ status.epoch <= MaxEpoch
    BY <1>2, <1>5, BoundsAssumption DEF Told
  <2>2. <<dep.uid, status.epoch>> \in Keys
    BY Zenon, <1>2, <2>1, EpochKey
  <2> QED
    BY Zenon, <1>1, <1>5, <2>2 DEF Told, ReadyIsCommitted, Grows
<1>6. ASSUME NEW e \in Epochs, status.stages[e] \in {"failed", "recovered"}
      PROVE  Failed(jnl', <<dep.uid, e>>)
  <2>1. <<dep.uid, e>> \in Keys
    BY Zenon, <1>2 DEF Keys
  <2> QED
    BY Zenon, <1>1, <1>6, <2>1 DEF Told, Grows, Failed
<1> QED
  BY Zenon, <1>3, <1>4, <1>5, <1>6 DEF Told, ReadyIsCommitted

(* The status Sync reports, field by field. *)
LEMMA ReportedFacts ==
  ASSUME IInv, Types
  PROVE  /\ Reported \in Status
         /\ Reported.epoch = IF cp.key[1] = want.uid THEN cp.key[2] ELSE status.epoch
         /\ Reported.rev = IF cp.key[1] = want.uid THEN cp.rev ELSE status.rev
         /\ \A e \in Epochs : Reported.stages[e] = jnl.stage[<<want.uid, e>>]
         /\ Reported.degraded = DegradedReason
         /\ Reported.refused = IF sync = "refuse" THEN want.epoch ELSE 0
         /\ Reported.ready => /\ want.epoch > 0
                              /\ Reported.epoch = want.epoch
                              /\ Reported.rev = want.rev
                              /\ inSync
<1>1. /\ want \in Deployment
      /\ status \in Status
      /\ cp \in Checkpoint
      /\ jnl \in Journal
  BY Zenon DEF Types, Sound, IInv, RestType, JournalPart, Good
<1>2. /\ want.uid \in Uids
      /\ want.epoch \in 0..MaxEpoch
      /\ status.epoch \in 0..MaxEpoch
      /\ status.rev \in Revs \cup {NoRev}
      /\ status.degraded \in Reasons
      /\ status.degradedAt \in 0..MaxEpoch
      /\ cp.rev \in Revs \cup {NoRev}
      /\ cp.key \in Keys \cup {NoKey}
      /\ jnl.stage \in [Keys -> Stages]
  BY Zenon, <1>1, DeploymentFacts DEF Status, Checkpoint, Journal
<1>3. 0 \in 0..MaxEpoch /\ \A e \in Epochs : e \in 0..MaxEpoch
  BY BoundsAssumption DEF Epochs
<1>4. cp.key[2] \in 0..MaxEpoch
  BY Zenon, <1>2, <1>3, KeyFacts, NoneFacts
<1>5. DegradedReason \in Reasons
  BY Zenon, <1>2 DEF DegradedReason, Types
<1>6. \A e \in Epochs : <<want.uid, e>> \in Keys
  BY Zenon, <1>2 DEF Keys
<1>7. [e \in Epochs |-> jnl.stage[<<want.uid, e>>]] \in [Epochs -> Stages]
  BY Zenon, <1>2, <1>6
<1> DEFINE r == Reported
<1>8. /\ r.epoch = IF cp.key[1] = want.uid THEN cp.key[2] ELSE status.epoch
      /\ r.rev = IF cp.key[1] = want.uid THEN cp.rev ELSE status.rev
      /\ r.stages = [e \in Epochs |-> jnl.stage[<<want.uid, e>>]]
      /\ r.degraded = DegradedReason
      /\ r.degradedAt = IF cond = "same" THEN status.degradedAt ELSE want.epoch
      /\ r.refused = IF sync = "refuse" THEN want.epoch ELSE 0
      /\ r.ready = (want.epoch > 0 /\ r.epoch = want.epoch /\ r.rev = want.rev /\ inSync)
      /\ r = [epoch |-> r.epoch, rev |-> r.rev, stages |-> r.stages, degraded |-> r.degraded,
              degradedAt |-> r.degradedAt, refused |-> r.refused, ready |-> r.ready]
  BY Zenon DEF Reported
<1> HIDE DEF r
<1>9. /\ r.epoch \in 0..MaxEpoch
      /\ r.rev \in Revs \cup {NoRev}
      /\ r.stages \in [Epochs -> Stages]
      /\ r.degraded \in Reasons
      /\ r.degradedAt \in 0..MaxEpoch
      /\ r.refused \in 0..MaxEpoch
      /\ r.ready \in BOOLEAN
  BY Zenon, <1>2, <1>3, <1>4, <1>5, <1>7, <1>8
<1>10. r \in Status
  BY Zenon, <1>8, <1>9 DEF Status
<1> QED
  BY Zenon, <1>8, <1>10 DEF r

(* What a report tells is true of the journal. *)
LEMMA ReportTells ==
  ASSUME IInv, Types, Flow, Told, Reached(jnl), want.uid = dep.uid, status' = Reported,
         UNCHANGED vars, UNCHANGED dep
  PROVE  Told'
<1>1. dep \in Deployment /\ want \in Deployment /\ KeyOf(want) = <<dep.uid, want.epoch>>
  BY Zenon DEF Types, Sound, KeyOf
<1>2. /\ dep.uid \in Uids /\ dep.epoch \in Nat /\ want.epoch \in Nat
      /\ dep.uid # 0 /\ dep.uid \in Nat
  BY Zenon, <1>1, DeploymentFacts
<1>3. ASSUME Reported.epoch > 0
      PROVE  /\ cp.key[1] = dep.uid
             /\ Vouches(jnl, [key |-> <<dep.uid, Reported.epoch>>, rev |-> Reported.rev])
  <2>1. CASE cp.key[1] = want.uid
    <3>1. cp # NoCheckpoint
      BY Zenon, <1>2, <2>1, NoneFacts
    <3>2. cp.key \in Keys /\ Vouches(jnl, cp)
      BY Zenon, <3>1 DEF IInv, JournalPart, Good, CpInv
    <3>3. cp.key = <<dep.uid, Reported.epoch>> /\ cp.rev = Reported.rev
      BY Zenon, <2>1, <3>2, KeyFacts, ReportedFacts
    <3>4. cp \in Checkpoint
      BY Zenon DEF IInv, RestType
    <3>5. cp = [key |-> cp.key, rev |-> cp.rev]
      BY Zenon, <3>4 DEF Checkpoint
    <3> QED
      BY Zenon, <2>1, <3>2, <3>3, <3>5
  <2>2. CASE cp.key[1] # want.uid
    <3>1. Reported.epoch = status.epoch /\ Reported.rev = status.rev
      BY Zenon, <2>2, ReportedFacts
    <3> QED
      BY Zenon, <1>3, <3>1 DEF Told
  <2> QED
    BY Zenon, <2>1, <2>2
<1>4. ASSUME Reported.ready
      PROVE  /\ Reported.epoch > 0
             /\ jnl.stage[<<dep.uid, Reported.epoch>>] = "committed"
             /\ jnl.entry[<<dep.uid, Reported.epoch>>].rev = Reported.rev
  <2>1. want.epoch > 0 /\ Reported.epoch = want.epoch /\ Reported.rev = want.rev
    BY Zenon, <1>4, ReportedFacts
  <2>2. KeyOf(want) \in Keys
    BY Zenon, <2>1, RequestFacts DEF Types
  <2>3. Vouches(jnl, [key |-> KeyOf(want), rev |-> want.rev])
    BY Zenon, <1>1, <1>3, <2>1
  <2>4. ~Failed(jnl, KeyOf(want)) \/ want.rev # jnl.entry[KeyOf(want)].recovery.target
    BY Zenon, <2>2 DEF Failed, Reached
  <2> QED
    BY Zenon, <1>1, <2>1, <2>3, <2>4 DEF Vouches
<1>5. ASSUME NEW e \in Epochs, Reported.stages[e] \in {"failed", "recovered"}
      PROVE  Failed(jnl, <<dep.uid, e>>)
  BY Zenon, <1>5, ReportedFacts DEF Failed
<1>6. Reported.refused <= dep.epoch
  <2>1. want.epoch <= dep.epoch
    BY <1>2 DEF Flow, Made
  <2>2. 0 <= dep.epoch
    BY <1>2
  <2> QED
    BY Zenon, <2>1, <2>2, ReportedFacts
<1> QED
  BY Zenon, <1>3, <1>4, <1>5, <1>6 DEF Told, ReadyIsCommitted, vars

-----------------------------------------------------------------------------
(* Every step keeps the types, and a promoted deployment sound. *)
LEMMA StepTypes ==
  ASSUME IInv, IInv', Types, [SyncNext]_allVars
  PROVE  Types'
<1>1. /\ dep \in Deployment /\ want \in Deployment
      /\ Sound(dep) /\ Sound(want)
      /\ auth \in [Keys -> Phases]
      /\ status \in Status
      /\ cp.rev \in Revs \cup {NoRev}
      /\ frr' \in Revs \cup {NoRev}
  BY Zenon DEF Types, Sound, IInv, RestType, Checkpoint
<1>2. 1 \in Uids
  BY BoundsAssumption, SomeDeployment DEF Uids
<1>3. Sound(dep')
  <2>1. CASE Replace
    <3>1. dep.uid + 1 \in Uids
      BY <1>1, <2>1, DeploymentFacts, BoundsAssumption DEF Replace, Uids
    <3> QED
      BY Zenon, <2>1, <3>1, NewFacts DEF Replace
  <2>2. ASSUME NEW u \in Uids, ApproveRebind(u) PROVE Sound(dep')
    <3>1. u \in 0..MaxUid
      BY BoundsAssumption DEF Uids
    <3>2. dep' \in Deployment /\ dep'.epoch = dep.epoch /\ dep'.rev = dep.rev
          /\ dep'.recovery = dep.recovery
      BY Zenon, <1>1, <2>2, <3>1 DEF ApproveRebind, Deployment
    <3> QED
      BY Zenon, <1>1, <3>2 DEF Sound
  <2> QED
    BY Zenon, <1>1, <2>1, <2>2, PromoteFacts DEF SyncNext, Agent, Environment, Begin, Ask,
       Refuse, Wait, Outcome, Reasserting, Persist, Report, Work, AgentCrash, PodCrash,
       ReleasePhase, FRRRestart, Edited, Boot, allVars, syncVars
<1>4. Sound(want')
  BY Zenon, <1>1, <1>2, NewFacts DEF SyncNext, Agent, Environment, Begin, Ask, Refuse, Wait,
     Outcome, Reasserting, Persist, Report, Work, AgentCrash, PodCrash, Ended, Promote,
     ReleasePhase, Replace, ApproveRebind, FRRRestart, Edited, Boot, allVars, syncVars
<1>5. auth' \in [Keys -> Phases]
  <2>1. ASSUME NEW k, NEW p \in Phases, auth' = [auth EXCEPT ![k] = p]
        PROVE  auth' \in [Keys -> Phases]
    BY Zenon, <1>1, <2>1
  <2>2. "started" \in Phases
    BY Zenon DEF Phases
  <2> QED
    BY Zenon, <1>1, <2>1, <2>2 DEF SyncNext, Agent, Environment, Begin, Ask, Refuse, Wait,
       Outcome, Reasserting, Persist, Report, Work, AgentCrash, PodCrash, Promote,
       ReleasePhase, Replace, ApproveRebind, FRRRestart, Edited, Boot, allVars, syncVars
<1>6. status' \in Status
  <2>1. 0 \in 0..MaxEpoch
    BY BoundsAssumption
  <2>2. NoStatus \in Status /\ [status EXCEPT !.refused = 0] \in Status
    BY Zenon, <1>1, <2>1 DEF NoStatus, Status, Stages, Reasons
  <2> QED
    BY Zenon, <1>1, <2>2, ReportedFacts DEF SyncNext, Agent, Environment, Begin, Ask, Refuse,
       Wait, Outcome, Reasserting, Persist, Report, Work, AgentCrash, PodCrash, Promote,
       ReleasePhase, Replace, ApproveRebind, FRRRestart, Edited, Boot, allVars, syncVars
<1>7. /\ sync' \in SyncSteps
      /\ inSync' \in BOOLEAN
      /\ cond' \in Reasons \cup {"same"}
      /\ conf' \in Revs \cup {NoRev}
  <2>1. CASE UNCHANGED <<sync, inSync, cond, conf>>
    BY Zenon, <2>1 DEF Types
  <2>2. CASE Begin \/ Refuse \/ Wait \/ Outcome \/ \E avail \in BOOLEAN : Ask(avail)
    BY Zenon, <2>2 DEF Begin, Refuse, Wait, Outcome, Ask, Chosen, Types, SyncSteps, Reasons
  <2>3. CASE Reasserting
    BY Zenon, <2>3 DEF Reasserting, Types, SyncSteps, Reasons
  <2>4. CASE Persist
    BY Zenon, <1>1, <2>4 DEF Persist, Types, SyncSteps, Reasons
  <2>5. CASE Report \/ AgentCrash \/ PodCrash
    BY Zenon, <2>5 DEF Report, AgentCrash, PodCrash, Ended, Types, SyncSteps
  <2>6. CASE Boot
    BY Zenon, <1>1, <2>6 DEF Boot, Types
  <2> QED
    BY Zenon, <2>1, <2>2, <2>3, <2>4, <2>5, <2>6 DEF SyncNext, Agent, Environment, Work, Promote,
       ReleasePhase, Replace, ApproveRebind, FRRRestart, Edited, allVars, syncVars
<1> QED
  BY Zenon, <1>3, <1>4, <1>5, <1>6, <1>7 DEF Types, Sound

(* Every step keeps what Sync works on a promotion that was made, and      *)
(* leaves its place, the Activator's and the flags in agreement.           *)
LEMMA StepFlow ==
  ASSUME IInv, Types, Flow, [SyncNext]_allVars
  PROVE  Flow'
<1> DEFINE Placed == /\ sync' \in {"ask", "refuse"} => want'.epoch > 0
                     /\ sync' # "activate" => pc' \in {"idle", "boot"}
                     /\ pc' = "boot" => sync' = "off"
                     /\ inSync' => sync' \in {"persist", "report"}
                     /\ sync' = "report" /\ inSync' => cond' = "PersistFailed" \/ conf' = cp'.rev
<1>1. dep \in Deployment /\ want \in Deployment
  BY Zenon DEF Types, Sound
<1>2. /\ dep.uid \in Nat /\ dep.epoch \in Nat /\ want.uid \in Nat /\ want.epoch \in Nat
      /\ dep.uid # 0
  BY Zenon, <1>1, DeploymentFacts
<1>3. 1 \in Uids
  BY BoundsAssumption, SomeDeployment DEF Uids
<1> HIDE DEF Placed
<1>4. /\ want'.uid < dep'.uid \/ (want'.uid = dep'.uid /\ want'.epoch <= dep'.epoch)
      /\ want'.epoch > 0 /\ KeyOf(want') = KeyOf(dep') => want'.rev = dep'.rev
  <2>1. CASE dep' = dep /\ want' = want
    BY Zenon, <2>1 DEF Flow, Made
  <2>2. CASE dep' = dep /\ want' = dep
    <3>1. dep.epoch <= dep.epoch
      BY <1>2
    <3> QED
      BY Zenon, <2>2, <3>1
  <2>3. CASE dep' = dep /\ want' = NewDeployment(1)
    <3>1. 1 < dep.uid \/ (1 = dep.uid /\ 0 <= dep.epoch)
      BY <1>2
    <3>2. ~(0 > 0)
      OBVIOUS
    <3>3. want'.uid = 1 /\ want'.epoch = 0
      BY Zenon, <1>3, <2>3, NewFacts
    <3> QED
      BY Zenon, <2>3, <3>1, <3>2, <3>3
  <2>4. CASE want' = want /\ dep'.uid = dep.uid /\ dep'.epoch = dep.epoch + 1
    <3>1. want.uid < dep.uid \/ (want.uid = dep.uid /\ want.epoch <= dep.epoch)
      BY Zenon DEF Flow, Made
    <3>2. /\ want.uid < dep.uid \/ (want.uid = dep.uid /\ want.epoch <= dep.epoch + 1)
          /\ ~(want.uid = dep.uid /\ want.epoch = dep.epoch + 1)
      BY <1>2, <3>1
    <3> QED
      BY Zenon, <2>4, <3>2 DEF KeyOf
  <2>5. CASE Replace
    <3>1. dep.uid + 1 \in Uids
      BY <1>1, <2>5, DeploymentFacts, BoundsAssumption DEF Replace, Uids
    <3>2. dep'.uid = dep.uid + 1 /\ dep'.epoch = 0 /\ want' = want
      BY Zenon, <2>5, <3>1, NewFacts DEF Replace
    <3>3. want.uid < dep.uid \/ want.uid = dep.uid
      BY Zenon DEF Flow, Made
    <3>4. want.uid < dep.uid + 1 /\ want.uid # dep.uid + 1
      BY <1>2, <3>3
    <3> QED
      BY Zenon, <3>2, <3>4 DEF KeyOf
  <2>6. ASSUME NEW u \in Uids, ApproveRebind(u)
        PROVE  want' = want /\ dep'.uid = dep.uid /\ dep'.epoch = dep.epoch /\ dep'.rev = dep.rev
    BY Zenon, <1>1, <2>6 DEF ApproveRebind, Deployment
  <2>7. CASE want' = want /\ dep'.uid = dep.uid /\ dep'.epoch = dep.epoch /\ dep'.rev = dep.rev
    BY Zenon, <2>7 DEF Flow, Made, KeyOf
  <2> QED
    BY Zenon, <2>1, <2>2, <2>3, <2>4, <2>5, <2>6, <2>7, PromoteFacts DEF SyncNext, Agent,
       Environment, Begin, Ask, Refuse, Wait, Outcome, Reasserting, Persist, Report, Work,
       AgentCrash, PodCrash, Ended, Promote, ReleasePhase, FRRRestart, Edited, Boot, allVars,
       syncVars
<1>5. Placed
  <2>1. CASE UNCHANGED <<pc, cp, want, sync, inSync, cond, conf>>
    BY Zenon, <2>1 DEF Placed, Flow
  <2>2. CASE Begin
    <3>1. pc' = "idle" /\ inSync' = FALSE /\ sync' \in {"off", Chosen(dep)}
      BY Zenon, <2>2 DEF Begin, Rebind, AppendThen, Continue, Return, vars
    <3>2. Chosen(dep) \in {"report", "reassert", "ask"}
          /\ (Chosen(dep) = "ask" => dep.epoch # 0)
      BY Zenon DEF Chosen
    <3>3. dep.epoch # 0 => dep.epoch > 0
      BY <1>2
    <3> QED
      BY Zenon, <2>2, <3>1, <3>2, <3>3 DEF Placed, Begin
  <2>3. ASSUME NEW avail \in BOOLEAN, Ask(avail) PROVE Placed
    <3>1. pc' # "boot" /\ sync' = "activate" /\ inSync' = inSync /\ sync = "ask"
      BY Zenon, <2>3 DEF Ask, ActivateNew, ResumeFailed, ResumeApplied, ResumeAccepted,
         AppendThen, Continue, Return
    <3> QED
      BY Zenon, <3>1 DEF Placed, Flow
  <2>4. CASE Refuse \/ Wait
    <3>1. sync = "ask" /\ sync' \in {"refuse", "report"} /\ UNCHANGED <<pc, want, inSync>>
      BY Zenon, <2>4 DEF Refuse, Wait, vars
    <3>2. ~inSync /\ pc = "idle" /\ want.epoch > 0
      BY Zenon, <3>1 DEF Flow
    <3>3. ~inSync'
      BY Zenon, <3>1, <3>2
    <3> QED
      BY Zenon, <3>1, <3>2, <3>3 DEF Placed
  <2>5. CASE Outcome
    BY Zenon, <2>5 DEF Placed, Flow, Outcome, vars
  <2>6. CASE Reasserting
    <3>1. pc' = pc /\ sync' = (IF inSync' THEN "persist" ELSE "report")
      BY Zenon, <2>6 DEF Reasserting, Reassert, vars
    <3> QED
      BY Zenon, <2>6, <3>1 DEF Placed, Flow, Reasserting
  <2>7. CASE Persist
    BY Zenon, <2>7 DEF Placed, Flow, Persist, vars
  <2>8. CASE Report \/ AgentCrash \/ PodCrash
    BY Zenon, <2>8 DEF Placed, Flow, Report, AgentCrash, PodCrash, Ended, Crash, PodRestart,
       Return, Continue, vars
  <2>9. CASE Work
    <3>1. pc \notin {"idle", "boot"} /\ pc' # "boot"
      BY Zenon, <2>9 DEF Work, Reload, RecordApplied, RecordFailed, Observe, Commit,
         WriteCheckpoint, Recover, CheckpointRecovery, RecordRecovered, AppendThen, Continue,
         Return
    <3> QED
      BY Zenon, <2>9, <3>1 DEF Placed, Flow, Work, syncVars
  <2>10. CASE Boot
    <3>1. pc = "boot" /\ pc' = "idle"
      BY Zenon, <2>10 DEF Boot, BootCheckpoint, BootConfigMap, BootActive, Continue, Return
    <3> QED
      BY Zenon, <2>10, <3>1 DEF Placed, Flow, Boot
  <2> QED
    BY Zenon, <2>1, <2>2, <2>3, <2>4, <2>5, <2>6, <2>7, <2>8, <2>9, <2>10 DEF SyncNext, Agent,
       Environment, Promote, ReleasePhase, Replace, ApproveRebind, FRRRestart, Edited, Drift,
       allVars, syncVars, vars
<1> QED
  BY Zenon, <1>4, <1>5 DEF Flow, Made, Placed, KeyOf

-----------------------------------------------------------------------------
(* What every step does to the deployment and its status. *)
LEMMA StepStatus ==
  ASSUME Types, [SyncNext]_allVars
  PROVE  \/ /\ dep'.uid = dep.uid /\ dep.epoch <= dep'.epoch
            /\ status'.epoch = status.epoch /\ status'.rev = status.rev
            /\ status'.stages = status.stages /\ status'.ready = status.ready
            /\ status'.refused \in {status.refused, 0}
         \/ Report /\ want.uid = dep.uid /\ status' = Reported
         \/ Replace
<1>1. dep \in Deployment /\ status \in Status /\ dep.epoch \in Nat
  BY Zenon, DeploymentFacts DEF Types, Sound
<1>2. dep.epoch <= dep.epoch /\ dep.epoch <= dep.epoch + 1
  BY <1>1
<1>3. ASSUME NEW u \in Uids, ApproveRebind(u)
      PROVE  dep'.uid = dep.uid /\ dep'.epoch = dep.epoch /\ status' = status
  BY Zenon, <1>1, <1>3 DEF ApproveRebind, Deployment
<1>4. ASSUME NEW avail \in BOOLEAN, Ask(avail)
      PROVE  /\ dep' = dep
             /\ status'.epoch = status.epoch /\ status'.rev = status.rev
             /\ status'.stages = status.stages /\ status'.ready = status.ready
             /\ status'.refused \in {status.refused, 0}
  BY Zenon, <1>1, <1>4 DEF Ask, Status
<1>5. CASE dep' = dep /\ status' = status
  BY Zenon, <1>2, <1>5
<1>6. CASE Report
  BY Zenon, <1>5, <1>6 DEF Report
<1>7. ASSUME NEW r \in Revs, NEW withdrawn \in SUBSET Prefixes, NEW retire \in BOOLEAN,
             Promote(r, withdrawn, retire)
      PROVE  dep'.uid = dep.uid /\ dep'.epoch = dep.epoch + 1 /\ status' = status
  BY Zenon, <1>7, PromoteFacts DEF Promote
<1> QED
  BY Zenon, <1>2, <1>3, <1>4, <1>5, <1>6, <1>7 DEF SyncNext, Agent, Environment, Begin, Refuse,
     Wait, Outcome, Reasserting, Persist, Work, AgentCrash, PodCrash, ReleasePhase,
     FRRRestart, Edited, Boot, allVars, syncVars

(* What status tells stays true, and so does what it newly tells. *)
LEMMA StepTold ==
  ASSUME IInv, IInv', Types, Types', Flow, Told, Reached(jnl), Reached(jnl)',
         [SyncNext]_allVars
  PROVE  Told'
<1>1. CASE Replace
  <2>1. status' = NoStatus /\ dep'.epoch \in Nat
    BY Zenon, <1>1, DeploymentFacts DEF Replace, Types, Sound
  <2>2. /\ ~(0 > 0)
        /\ 0 <= dep'.epoch
    BY <2>1
  <2>3. /\ NoStatus.epoch = 0 /\ ~NoStatus.ready /\ NoStatus.refused = 0
        /\ \A e \in Epochs : NoStatus.stages[e] = "none"
    BY Zenon DEF NoStatus
  <2> QED
    BY Zenon, <2>1, <2>2, <2>3 DEF Told, ReadyIsCommitted
<1>2. ASSUME Report, want.uid = dep.uid, status' = Reported PROVE Told'
  BY Zenon, <1>2, ReportTells DEF Report
<1> QED
  BY Zenon, <1>1, <1>2, StepStatus, ToldKept, Simulates

(* A deployment the release manager takes for committed is, by the journal. *)
LEMMA CommittedFacts ==
  ASSUME Types, Told, Reached(jnl), Committed
  PROVE  /\ KeyOf(dep) \in Keys
         /\ jnl.stage[KeyOf(dep)] = "committed"
         /\ jnl.entry[KeyOf(dep)].rev = dep.rev
<1>1. KeyOf(dep) \in Keys /\ KeyOf(dep) = <<dep.uid, dep.epoch>>
  BY Zenon, RequestFacts DEF Types, Committed, KeyOf
<1>2. Vouches(jnl, [key |-> KeyOf(dep), rev |-> dep.rev])
  BY Zenon, <1>1 DEF Told, Committed
<1>3. ~Failed(jnl, KeyOf(dep)) \/ dep.rev # jnl.entry[KeyOf(dep)].recovery.target
  BY Zenon, <1>1 DEF Failed, Reached
<1> QED
  BY Zenon, <1>1, <1>2, <1>3 DEF Vouches

(* A promotion names a target that was committed, or the one before. *)
LEMMA StepTarget ==
  ASSUME IInv, Types, Flow, Told, Reached(jnl), TargetWasCommitted, [SyncNext]_allVars
  PROVE  TargetWasCommitted'
<1>1. dep \in Deployment /\ dep.uid \in Uids /\ Grows(jnl, jnl')
  BY Zenon, Simulates, StepGrows, DeploymentFacts DEF Types, Sound
<1>2. ASSUME dep'.uid = dep.uid, dep'.recovery.target = dep.recovery.target
      PROVE  TargetWasCommitted'
  <2>1. ASSUME NEW e \in Epochs, jnl.stage[<<dep.uid, e>>] = "committed"
        PROVE  /\ jnl'.stage[<<dep.uid, e>>] = "committed"
               /\ jnl'.entry[<<dep.uid, e>>] = jnl.entry[<<dep.uid, e>>]
    <3>1. <<dep.uid, e>> \in Keys
      BY Zenon, <1>1 DEF Keys
    <3> QED
      BY Zenon, <1>1, <2>1, <3>1 DEF Grows
  <2> QED
    BY Zenon, <1>2, <2>1 DEF TargetWasCommitted
<1>3. ASSUME NEW r \in Revs, NEW withdrawn \in SUBSET Prefixes, NEW retire \in BOOLEAN,
             Promote(r, withdrawn, retire)
      PROVE  TargetWasCommitted'
  <2>1. dep'.uid = dep.uid /\ jnl' = jnl
    BY Zenon, <1>3, PromoteFacts DEF Promote, vars
  <2>2. CASE dep'.recovery.target = NoRev
    BY Zenon, <2>2 DEF TargetWasCommitted
  <2>3. CASE Committed /\ dep'.recovery.target = dep.rev
    <3>1. KeyOf(dep) = <<dep.uid, dep.epoch>> /\ dep.epoch \in Epochs
      BY Zenon, <2>3, CommittedFacts, KeyFacts DEF KeyOf
    <3> QED
      BY Zenon, <2>1, <2>3, <3>1, CommittedFacts DEF TargetWasCommitted
  <2> QED
    BY Zenon, <1>2, <1>3, <2>1, <2>2, <2>3, PromoteFacts
<1>4. CASE Replace
  BY Zenon, <1>4 DEF Replace, NewDeployment, NoRecovery, TargetWasCommitted
<1>5. ASSUME NEW u \in Uids, ApproveRebind(u)
      PROVE  dep'.uid = dep.uid /\ dep'.recovery = dep.recovery
  BY Zenon, <1>1, <1>5 DEF ApproveRebind, Deployment
<1> QED
  BY Zenon, <1>2, <1>3, <1>4, <1>5 DEF SyncNext, Agent, Environment, Begin, Ask, Refuse, Wait,
     Outcome, Reasserting, Persist, Report, Work, AgentCrash, PodCrash, ReleasePhase,
     FRRRestart, Edited, Boot, allVars, syncVars

-----------------------------------------------------------------------------
(* Where failed appends are undone. *)

(* A promotion that is known to be given up stays given up. *)
LEMMA GivenStays ==
  ASSUME IInv, Types, Flow, Authorized, disk = jnl, [SyncNext]_allVars,
         NEW k \in Keys, Given(k)
  PROVE  auth'[k] = "ended" /\ jnl'.stage[k] = "none"
<1>1. jnl'.stage[k] = "none"
  BY Zenon, StepKnown DEF Known, Given
<1>2. CASE auth' = auth
  BY Zenon, <1>1, <1>2 DEF Given
<1>3. auth \in [Keys -> Phases] /\ dep \in Deployment
  BY Zenon DEF Types, Sound
<1>4. ASSUME NEW r \in Revs, NEW withdrawn \in SUBSET Prefixes, NEW retire \in BOOLEAN,
             Promote(r, withdrawn, retire)
      PROVE  auth'[k] = "ended"
  <2>1. Made(k[1], k[2])
    BY Zenon DEF Authorized, Given
  <2>2. dep.uid \in Nat /\ dep.epoch \in Nat
    BY Zenon, <1>3, DeploymentFacts
  <2>3. ~(dep.uid < dep.uid) /\ ~(dep.epoch + 1 <= dep.epoch)
    BY <2>2
  <2>4. k # <<dep.uid, dep.epoch + 1>>
    <3>1. k = <<dep.uid, dep.epoch + 1>> => k[1] = dep.uid /\ k[2] = dep.epoch + 1
      BY Zenon, PairFacts
    <3>2. Made(k[1], k[2]) <=> k[1] < dep.uid \/ (k[1] = dep.uid /\ k[2] <= dep.epoch)
      BY Zenon DEF Made
    <3> QED
      BY <2>1, <2>2, <3>1, <3>2
  <2> QED
    BY Zenon, <1>3, <1>4, <2>4 DEF Promote, Given
<1>5. ASSUME NEW phase \in Phases, ReleasePhase(phase) PROVE auth'[k] = "ended"
  <2>1. KeyOf(dep) # k
    BY Zenon, <1>5 DEF ReleasePhase, Given
  <2> QED
    BY Zenon, <1>3, <1>5, <2>1 DEF ReleasePhase, Given
<1> QED
  BY Zenon, <1>1, <1>2, <1>4, <1>5 DEF SyncNext, Agent, Environment, Begin, Ask, Refuse, Wait,
     Outcome, Reasserting, Persist, Report, Work, AgentCrash, PodCrash, Replace, ApproveRebind,
     FRRRestart, Edited, Boot, allVars, syncVars

(* A promotion that busy no longer holds back is finished, or given up. *)
LEMMA IdleIsSettled ==
  ASSUME Types, Told, Reached(jnl), Settled, dep.epoch > 0, ~Busy
  PROVE  LET k == <<dep.uid, dep.epoch>>
         IN jnl.stage[k] \in {"committed", "failed", "recovered"} \/ Given(k)
<1>1. KeyOf(dep) \in Keys /\ KeyOf(dep) = <<dep.uid, dep.epoch>>
  BY Zenon, RequestFacts DEF Types, KeyOf
<1>2. dep.epoch \in Epochs
  BY Zenon, <1>1, KeyFacts
<1> QED
  BY Zenon, <1>1, <1>2, CommittedFacts DEF Busy, Refused, Told, Settled, Failed

(* What was settled stays so, and a promotion leaves behind what is. *)
LEMMA StepSettled ==
  ASSUME IInv, Types, Flow, Authorized, Told, Reached(jnl), Settled, ~UndoMayFail,
         [SyncNext]_allVars
  PROVE  Settled'
<1>1. /\ dep \in Deployment /\ want \in Deployment /\ status \in Status
      /\ disk = jnl
      /\ Grows(jnl, jnl')
  BY Zenon, Simulates, StepGrows DEF Types, Sound, Settled
<1>2. /\ dep.uid \in Uids /\ dep.epoch \in Nat /\ dep.epoch \in 0..MaxEpoch
      /\ want.epoch \in Nat /\ status.refused \in 0..MaxEpoch
  BY Zenon, <1>1, DeploymentFacts DEF Status
<1>3. disk' = jnl'
  BY Zenon, <1>1 DEF SyncNext, allVars, vars
<1>4. ASSUME NEW k \in Keys, Given(k) PROVE Given(k)'
  BY Zenon, <1>1, <1>4, GivenStays DEF Given
<1>5. sync' = "refuse" => Given(KeyOf(want))'
  <2> SUFFICES ASSUME sync' = "refuse" PROVE Given(KeyOf(want))'
    OBVIOUS
  <2>1. ASSUME sync = "refuse", want' = want PROVE Given(KeyOf(want))'
    <3>1. KeyOf(want) \in Keys
      BY Zenon, <2>1, RequestFacts DEF Types, Flow
    <3> QED
      BY Zenon, <1>4, <2>1, <3>1 DEF Settled
  <2>2. CASE Refuse
    BY Zenon, <2>2 DEF Refuse, Given, vars, KeyOf
  <2>3. ASSUME NEW d PROVE Chosen(d) # "refuse"
    BY DEF Chosen
  <2>4. ~Begin
    BY Zenon, <2>3 DEF Begin
  <2>5. ~Reasserting
    BY Zenon DEF Reasserting
  <2> QED
    BY Zenon, <2>1, <2>2, <2>4, <2>5 DEF SyncNext, Agent, Environment, Ask, Wait, Outcome,
       Persist, Report, Work, AgentCrash, PodCrash, Ended, Promote, ReleasePhase, Replace,
       ApproveRebind, FRRRestart, Edited, Boot, allVars, syncVars
<1>6. ASSUME dep'.epoch > 0, status'.refused = dep'.epoch
      PROVE  Given(KeyOf(dep))' \/ status'.stages[dep'.epoch] # "none"
  <2>1. ASSUME dep.epoch > 0, dep'.uid = dep.uid, dep'.epoch = dep.epoch, Given(KeyOf(dep))
        PROVE  Given(KeyOf(dep))'
    <3>1. KeyOf(dep) \in Keys /\ KeyOf(dep') = KeyOf(dep)
      BY Zenon, <2>1, RequestFacts DEF Types, KeyOf
    <3> QED
      BY Zenon, <1>4, <2>1, <3>1 DEF Given
  <2>2. CASE /\ dep'.uid = dep.uid /\ dep.epoch <= dep'.epoch
             /\ status'.stages = status.stages
             /\ status'.refused \in {status.refused, 0}
    <3>1. dep'.epoch = status.refused /\ status.refused <= dep.epoch
      <4>1. dep'.epoch # 0
        BY <1>6
      <4> QED
        BY Zenon, <1>6, <2>2, <4>1 DEF Told
    <3>2. dep'.epoch = dep.epoch
      BY <1>2, <2>2, <3>1, BoundsAssumption
    <3> QED
      BY Zenon, <1>6, <2>1, <2>2, <3>1, <3>2 DEF Settled
  <2>3. ASSUME Report, want.uid = dep.uid, status' = Reported
        PROVE  Given(KeyOf(dep))'
    <3>1. dep' = dep /\ dep.epoch # 0
      BY <1>6, <2>3 DEF Report
    <3>2. sync = "refuse" /\ want.epoch = dep.epoch
      BY Zenon, <1>6, <2>3, <3>1, ReportedFacts
    <3>3. KeyOf(want) = KeyOf(dep)
      BY Zenon, <2>3, <3>2 DEF KeyOf
    <3> QED
      BY Zenon, <1>6, <2>1, <3>1, <3>2, <3>3 DEF Settled
  <2>4. ~Replace
    <3>1. NewDeployment(dep.uid + 1).epoch = 0
      BY Zenon, NewEpoch
    <3>2. Replace => dep'.epoch = 0
      BY Zenon, <3>1 DEF Replace
    <3> QED
      BY <1>6, <3>2
  <2> QED
    BY Zenon, <2>2, <2>3, <2>4, StepStatus
<1>7. ASSUME NEW e \in Epochs, e < dep'.epoch
      PROVE  jnl'.stage[<<dep'.uid, e>>] \in {"committed", "failed", "recovered"}
             \/ Given(<<dep.uid, e>>)'
  <2>1. e \in Nat /\ ~(e < 0) /\ e > 0 /\ <<dep.uid, e>> \in Keys
    <3>1. <<dep.uid, e>> \in Keys
      BY Zenon, <1>2 DEF Keys
    <3> QED
      BY <3>1, BoundsAssumption DEF Epochs
  <2>2. ASSUME jnl.stage[<<dep.uid, e>>] \in {"committed", "failed", "recovered"}
               \/ Given(<<dep.uid, e>>),
               dep'.uid = dep.uid
        PROVE  jnl'.stage[<<dep'.uid, e>>] \in {"committed", "failed", "recovered"}
               \/ Given(<<dep.uid, e>>)'
    <3>1. CASE Given(<<dep.uid, e>>)
      BY Zenon, <1>4, <2>1, <2>2, <3>1 DEF Given
    <3>2. CASE jnl.stage[<<dep.uid, e>>] \in {"committed", "failed", "recovered"}
      BY Zenon, <1>1, <2>1, <2>2, <3>2 DEF Grows, Failed
    <3> QED
      BY Zenon, <2>2, <3>1, <3>2
  <2>3. ASSUME dep'.uid = dep.uid, dep'.epoch = dep.epoch
        PROVE  jnl'.stage[<<dep'.uid, e>>] \in {"committed", "failed", "recovered"}
               \/ Given(<<dep.uid, e>>)'
    BY Zenon, <1>7, <2>2, <2>3 DEF Settled
  <2>4. ASSUME NEW r \in Revs, NEW withdrawn \in SUBSET Prefixes, NEW retire \in BOOLEAN,
               Promote(r, withdrawn, retire)
        PROVE  jnl'.stage[<<dep'.uid, e>>] \in {"committed", "failed", "recovered"}
               \/ Given(<<dep.uid, e>>)'
    <3>1. dep'.uid = dep.uid /\ dep'.epoch = dep.epoch + 1 /\ ~Busy
      BY Zenon, <2>4, PromoteFacts DEF Promote
    <3>2. e < dep.epoch \/ (e = dep.epoch /\ dep.epoch > 0)
      BY <1>2, <1>7, <2>1, <3>1
    <3> QED
      BY Zenon, <2>2, <3>1, <3>2, IdleIsSettled DEF Settled
  <2>5. ~Replace
    <3>1. NewDeployment(dep.uid + 1).epoch = 0
      BY Zenon, NewEpoch
    <3>2. Replace => dep'.epoch = 0
      BY Zenon, <3>1 DEF Replace
    <3> QED
      BY <1>7, <2>1, <3>2
  <2>6. ASSUME NEW u \in Uids, ApproveRebind(u)
        PROVE  dep'.uid = dep.uid /\ dep'.epoch = dep.epoch
    BY Zenon, <1>1, <2>6 DEF ApproveRebind, Deployment
  <2> QED
    BY Zenon, <2>3, <2>4, <2>5, <2>6 DEF SyncNext, Agent, Environment, Begin, Ask, Refuse,
       Wait, Outcome, Reasserting, Persist, Report, Work, AgentCrash, PodCrash, ReleasePhase,
       FRRRestart, Edited, Boot, allVars, syncVars
<1> QED
  BY Zenon, <1>3, <1>5, <1>6, <1>7 DEF Settled

-----------------------------------------------------------------------------
(* The invariant holds of a node before its first boot. *)
LEMMA SyncInitKeeps == SyncInit => SyncInv
<1> SUFFICES ASSUME SyncInit PROVE SyncInv
  BY Zenon
<1>1. IInv /\ jnl = NoJournal /\ disk = jnl /\ pc = "boot" /\ \A k \in Keys : jnl.stage[k] = "none"
  BY Zenon, InitKeeps DEF SyncInit, Init, NoJournal
<1>2. 1 \in Uids /\ 0 \in 0..MaxEpoch /\ ~(0 > 0) /\ 0 <= 0
  BY BoundsAssumption, SomeDeployment DEF Uids
<1>3. Sound(dep) /\ dep = want /\ dep.epoch = 0 /\ dep.uid = 1 /\ dep = NewDeployment(1)
  BY Zenon, <1>2, NewFacts DEF SyncInit
<1>4. status \in Status /\ ~status.ready /\ status.epoch = 0 /\ status.refused = 0
      /\ \A e \in Epochs : status.stages[e] = "none"
  <2>1. [e \in Epochs |-> "none"] \in [Epochs -> Stages]
    BY Zenon DEF Stages
  <2>2. NoStatus \in Status
    BY Zenon, <1>2, <2>1 DEF NoStatus, Status, Reasons
  <2>3. ~NoStatus.ready /\ NoStatus.epoch = 0 /\ NoStatus.refused = 0
        /\ \A e \in Epochs : NoStatus.stages[e] = "none"
    BY Zenon DEF NoStatus
  <2>4. status = NoStatus
    BY Zenon DEF SyncInit
  <2> QED
    BY <2>2, <2>3, <2>4
<1>5. Types
  <2>1. auth \in [Keys -> Phases]
    BY Zenon DEF SyncInit, Phases
  <2> QED
    BY Zenon, <1>3, <1>4, <2>1 DEF SyncInit, Types, SyncSteps, Reasons, Other
<1>6. Flow
  BY Zenon, <1>2, <1>3 DEF SyncInit, Flow, Made, Init
<1>7. Reached(jnl) /\ Reached(disk) /\ Authorized
  BY Zenon, <1>1 DEF Reached, Authorized, SyncInit
<1>8. Told
  BY Zenon, <1>2, <1>3, <1>4 DEF Told, ReadyIsCommitted
<1>9. TargetWasCommitted
  <2>1. NewDeployment(1).recovery = NoRecovery /\ NoRecovery.target = NoRev
    BY Zenon DEF NewDeployment, NoRecovery
  <2>2. dep.recovery.target = NoRev
    BY Zenon, <1>3, <2>1
  <2> QED
    BY Zenon, <2>2 DEF TargetWasCommitted
<1>10. Settled
  <2>1. \A e \in Epochs : ~(e < 0)
    BY BoundsAssumption DEF Epochs
  <2> QED
    BY Zenon, <1>1, <1>2, <1>3, <2>1 DEF Settled, SyncInit
<1> QED
  BY Zenon, <1>1, <1>5, <1>6, <1>7, <1>8, <1>9, <1>10 DEF SyncInv

(* Every step of the loop keeps it. *)
LEMMA SyncStepKeeps == SyncInv /\ [SyncNext]_allVars => SyncInv'
<1> SUFFICES ASSUME SyncInv, [SyncNext]_allVars PROVE SyncInv'
  BY Zenon
<1>1. /\ IInv /\ Types /\ Flow /\ Reached(jnl) /\ Reached(disk) /\ Authorized
      /\ Told /\ TargetWasCommitted
      /\ ~UndoMayFail => Settled
  BY Zenon DEF SyncInv
<1>2. IInv'
  BY Zenon, <1>1, Simulates, StepKeeps
<1>3. Types' /\ Flow'
  BY Zenon, <1>1, <1>2, StepTypes, StepFlow
<1>4. Steady /\ Known(jnl') /\ Known(disk')
  BY Zenon, <1>1, StepSteady, StepKnown
<1>5. Reached(jnl)' /\ Reached(disk)'
  BY Zenon, <1>1, <1>4, StepReached
<1>6. Authorized'
  BY Zenon, <1>1, <1>4, StepAuthorized
<1>7. Told'
  BY Zenon, <1>1, <1>2, <1>3, <1>5, StepTold
<1>8. TargetWasCommitted'
  BY Zenon, <1>1, StepTarget
<1>9. (~UndoMayFail => Settled)'
  BY Zenon, <1>1, StepSettled
<1> QED
  BY Zenon, <1>2, <1>3, <1>5, <1>6, <1>7, <1>8, <1>9 DEF SyncInv

(* The inductive invariant of the loop holds throughout. *)
THEOREM SyncInvariance == SyncSpec => []SyncInv
BY SyncInitKeeps, SyncStepKeeps, PTL DEF SyncSpec

(* The deployment, its status and the agent's state keep their types. *)
THEOREM SyncTypeCorrect == SyncSpec => []SyncTypeOK
<1>1. SyncInv => SyncTypeOK
  BY Zenon DEF SyncInv, IInv, JournalPart, Good, RestType, TypeOK, Types, Sound, SyncTypeOK
<1> QED
  BY <1>1, SyncInvariance, PTL

(* The agent, the init container and the release manager together drive    *)
(* the Activator only as Activation lets it be driven, so what is proved   *)
(* of the Activator holds in the loop.                                     *)
THEOREM LoopImplementsActivation == SyncSpec => ImplementsActivation
<1>1. SyncInit => Init
  BY Zenon DEF SyncInit
<1>2. SyncInv /\ [SyncNext]_allVars => [Next]_vars
  BY Zenon, Simulates DEF SyncInv
<1> QED
  BY <1>1, <1>2, SyncInvariance, PTL DEF SyncSpec, ImplementsActivation, Spec

(* A deployment that reports Ready has committed what it reports. *)
THEOREM ReadyMeansCommitted == SyncSpec => []ReadyIsCommitted
<1>1. SyncInv => ReadyIsCommitted
  BY Zenon DEF SyncInv, Told
<1> QED
  BY <1>1, SyncInvariance, PTL

(* A promotion's recovery target was committed by this node. *)
THEOREM TargetsWereCommitted == SyncSpec => []TargetWasCommitted
<1>1. SyncInv => TargetWasCommitted
  BY Zenon DEF SyncInv
<1> QED
  BY <1>1, SyncInvariance, PTL

(* Where failed appends are undone, no promotion overtakes an activation   *)
(* the node accepted and has not finished.                                 *)
THEOREM PromotionsWait == ASSUME ~UndoMayFail PROVE SyncSpec => []PromotionWaits
<1>1. SyncInv => PromotionWaits
  <2> SUFFICES ASSUME SyncInv, NEW e \in Epochs, e < dep.epoch
               PROVE  jnl.stage[<<dep.uid, e>>] \notin {"accepted", "applied"}
    BY Zenon DEF PromotionWaits
  <2>1. \/ jnl.stage[<<dep.uid, e>>] \in {"committed", "failed", "recovered"}
        \/ jnl.stage[<<dep.uid, e>>] = "none"
    BY Zenon DEF SyncInv, Settled, Given
  <2> QED
    BY <2>1
<1> QED
  BY <1>1, SyncInvariance, PTL

(* Where failed appends are undone, a refusal the release manager counts   *)
(* on is final: the node has not accepted the epoch.                       *)
THEOREM RefusalsAreFinal == ASSUME ~UndoMayFail PROVE SyncSpec => []RefusedIsFinal
<1>1. SyncInv => RefusedIsFinal
  BY Zenon DEF SyncInv, Settled, Given, RefusedIsFinal, Refused
<1> QED
  BY <1>1, SyncInvariance, PTL

(* What Ready needs of frr.conf, step by step. *)
LEMMA StepPersisted ==
  ASSUME SyncInv, [SyncNext]_allVars,
         status'.ready, status'.degraded # "PersistFailed", status' # status, sync = "report"
  PROVE  conf = status'.rev
<1>1. IInv /\ Types /\ Flow /\ Told
  BY Zenon DEF SyncInv
<1>2. ~Replace
  <2>1. ~NoStatus.ready
    BY Zenon DEF NoStatus
  <2> QED
    BY Zenon, <2>1 DEF Replace
<1>3. Report /\ want.uid = dep.uid /\ status' = Reported
  BY Zenon, <1>2 DEF SyncNext, Agent, Environment, Begin, Ask, Refuse, Wait, Outcome,
     Reasserting, Persist, Report, Work, AgentCrash, PodCrash, Promote, ReleasePhase,
     ApproveRebind, FRRRestart, Edited, Boot, allVars, syncVars
<1>4. inSync /\ want.epoch > 0 /\ Reported.epoch = want.epoch /\ Reported.degraded = DegradedReason
  BY Zenon, <1>1, <1>3, ReportedFacts
<1>5. cond # "PersistFailed"
  BY <1>3, <1>4 DEF DegradedReason
<1>6. conf = cp.rev
  BY Zenon, <1>1, <1>4, <1>5 DEF Flow
<1>7. cp.key[1] = want.uid
  BY Zenon, <1>1, <1>3, <1>4, ReportedFacts DEF Told
<1> QED
  BY Zenon, <1>1, <1>3, <1>6, <1>7, ReportedFacts

(* Ready is not reported without frr.conf holding the revision, unless a   *)
(* condition says so.                                                      *)
THEOREM ReadyMeansPersisted == SyncSpec => ReadyIsPersisted
<1>1. SyncInv /\ [SyncNext]_allVars =>
        [status'.ready /\ status'.degraded # "PersistFailed" /\ status' # status
           /\ sync = "report" => conf = status'.rev]_allVars
  BY Zenon, StepPersisted
<1> QED
  BY <1>1, SyncInvariance, PTL DEF SyncSpec, ReadyIsPersisted
=============================================================================
