# Verification of Galactic

TLA+ models of the parts of Galactic whose correctness depends on the order in
which processes, crashes and failures happen: how a fabric router node takes a
configuration through activation, checkpoint and recovery; how releases drive
many such nodes; who may write FRR at all; and how edge writers, edge instances
and the gates of edge routes exclude one another. TLC checks the models on small
instances. TLAPS proves all of their safety properties, and the refinements
between the modules, for every value of the constants.

- [The system](#the-system)
- [Modules](#modules)
- [Runs](#runs)
- [Bounds](#bounds)
- [Fairness](#fairness)
- [Proofs](#proofs)
- [Disagreements found](#disagreements-found)
- [What is not modelled](#what-is-not-modelled)

`PROJECT.json` has the map from definitions to source lines, the hazards with
the properties that cover them, and one mutant per property: a plausible bug,
written beside the definition it replaces, with which TLC finds the property
violated.

## The system

| Part | State it keeps | Operations | Talks to |
|---|---|---|---|
| Release manager (`internal/fabric/routing/rollout`) | release phase, a `FabricRouterDeployment` per router | start, promote, finish, recover | deployment specs and statuses in the API |
| Deployment agent (`internal/fabricconfig/deployment.go`) | last status, `inSync` | `Sync`: settle the source, bind, activate, reassert, persist, report | API, activator, `frr.conf`, writer lock |
| Activator (`internal/fabricconfig/activation`) | journal file, checkpoint file, identity file | `Activate`, `Resume`, `Reassert`, `Rebind`, boot | FRR |
| ConfigMap agent (`internal/fabricconfig/agent.go`) | applied text, gate version | `Watch`, `converge` | informer, FRR, writer lock |
| Source gate and writer lock (`gate.go`, `lock.go`) | source, handoff, holder | set, read, lock | both agents, next-hop guard |
| Scope ownership (`internal/edge/ownership`) | one record and lock file per datapath scope | `Claim`, `Begin`, `Fence`, `Adopt`, `Commit`, `CommitSnapshot`, `Exclusive` | edge agent, garbage collection |
| Claims (`internal/edge/claim`, `provider`) | a Lease record, each instance's lease and observation | `Acquire`, `Renew`, `Release` | API server as compare-and-swap store |
| Edge routes and gates (`internal/edge/route`, `agent/gate.go`) | route claims and status, the VPC's index, open gates | claim, release, accept, fence, revoke, remove, open, close | instance leases, ownership |
| Attachment chain (`internal/cni*`) | links, routes, addresses | ADD, DEL, CHECK | kernel, API |
| Tenant routers, gateway, NAT, services, traffic policy, sidecar | BGP tables, eBPF maps | reconcile loops | kernel, API, GoBGP |
| Central controllers (`internal/cloud`) | identifiers | allocate, admit | API |

What makes these hard to test, and what correctness means where:

- **A node is driven by two writers and a journal.** Both agents run in one
  process and reach FRR through the same lock; the source of configuration may
  change while either is in the middle of a write. Only one may write, it must
  be the one the journal names, and the node must settle on what was asked for.
- **An activation is several writes.** Accepted, applied and committed records,
  FRR itself, the checkpoint and `frr.conf` are written one after the other, and
  each may fail, or be interrupted, or turn out to have happened after all. What
  boot and recovery rely on must be true after any prefix of them.
- **Decisions are made from reports.** The release manager sees only a status,
  which may lag the node or describe a deployment that no longer exists, and its
  own releases through a cache. It must still bound what it takes down, and what
  it records as completed or withdrawn must be so.
- **Edge writers die while they hold things.** A lock file is released by the
  kernel, the half-applied change it protected is not undone.
- **Leases are kept by clocks that drift.** A holder stops on its own clock and
  a replacement starts on another one; updates may be executed after their
  caller gave up.

## Modules

| Module | Models | State and actions |
|---|---|---|
| `Ownership` | `edge/ownership/ownership.go` | One scope. The durable record, its lock, each writer's ticket and call, the host's content. Every operation enters the lock, checks, persists `Pending`, mutates and persists again in separate steps; `Crash` and `Reboot` fall between any two. A failed persist may or may not have reached the disk. |
| `JournalSummary` | queries of `activation/journal.go` | What the journal says per promotion, and what one more record does to it. No state of its own. |
| `SummaryJournal` | `Journal` as the activator uses it | The summary in memory and the one a reopen may find. `Append`, `AppendError` and `Open` are the outcomes an append and an open can have; `JournalSpec` says which records may follow which. |
| `Activation` | `activation/activator.go`, `files.go` | Extends `SummaryJournal` with the checkpoint, what FRR runs and where `Activate` is. One action per record, reload, observation and checkpoint write; `Drift`, `Crash` and `PodRestart` for the environment. |
| `DurableLog` | what `Journal` promises | An append-only log whose acknowledged part is never lost. |
| `ActivationLog` | `activation/journal.go` | The file with its page cache and medium: write, fsync, undo, second fsync, directory sync, rewrite at open, process crash and power loss. |
| `ActivationQueries` | queries of `activation/journal.go` | The queries over the file's records, as the loops the code has, compared with `JournalSummary`; and the file seen as a `SummaryJournal`. |
| `DeploymentSync` | `fabricconfig/deployment.go`, `rollout/promote.go` | Extends `Activation` with the deployment, its status, the release that authorizes it and `Sync`. Every step of the agent on the journal, checkpoint or FRR is an action of `Activation`. |
| `ConfigSource` | `fabricconfig/agent.go`, `gate.go`, `lock.go`, `settleSource` | Both agents, the gate, the lock, the informer, the journal's source records, `frr.conf` and FRR. `handed` is a history variable no action reads: the ConfigMap a handoff named, until the agent takes one in, and whether the agent has restarted since. |
| `Rollout` | `rollout/release.go`, `promote.go`, and of the node agent what they depend on | Releases over several deployments: create, start, promote within the failure domain's limit, complete, fail, recover, confirm, delete. The worker's promotion pass is one step per target, on top of statuses the agents write at their own pace and of a release that may be read stale (`lag`). An agent reads the spec, accepts, applies, recovers, reports, falls silent, restarts. |
| `Claim` | `edge/claim/claim.go`, store of `edge/provider/provider.go` | The record, each instance's lease, call and observation, updates still on their way, and what dead processes still forward. `Tick` lets time pass on all clocks, each at its own rate. |
| `EdgeRoute` | `edge/route/reconciler.go`, `index.go`, `edge/agent/gate.go`, `provider.Claim` and `Release` | Routes whose prefixes overlap, the VPC's index, an instance lease and a gate per attachment, the leader's passes and what it has observed. Reads and writes of a pass are separate steps; the leader, the index reconciler, providers and agents interleave, each with its own clock. |

`MCxxx` modules give the constants values. They define no behaviour. `xxxProofs`
modules hold the theorems about `xxx` and their proofs.

How the modules fit together:

- `DeploymentSync` refines `Activation` (property `ImplementsActivation`): what
  is proved of `Activation` holds of the loop around it.
- `ActivationLog` refines `DurableLog` (property `Durable`) under a mapping that
  decodes the file, and the queries of `ActivationQueries` over its records agree
  with `JournalSummary` (`QueriesAgree`), the summary `Activation` works on.
- `SummaryJournal` is the interface between the two. `Activation` uses its journal
  only as `JournalSpec` allows (theorem `AppendsAllowed`), and every step of the file
  but a power loss is one `JournalSpec` allows, or nothing the Activator sees
  (`FileIsSummaryJournal`): a failed append, a torn line or a crash in the middle of
  one does to the Activator nothing that `Activation` leaves out.
- `ConfigSource` abstracts an activation to one reload under the lock; the rest
  of it is `DeploymentSync`'s.
- `Rollout` abstracts an agent to the outcome of its activations; the steps of
  one are `Activation`'s and the loop around them `DeploymentSync`'s. What it
  assumes of an agent is what is checked there: Ready and the epoch entries of
  a status describe a journal the agent has (`ReadyIsCommitted`), and a refusal
  is final (`RefusedIsFinal`).
- `EdgeRoute` uses an instance lease as `Claim` provides it: one holder per term,
  whose renewals are of a known age. Every commit of a gate goes through
  `Ownership`'s scope and is one step here.

Abstractions shared by all modules: a configuration text is a value, with
equality; names, digests and UIDs are small numbers or model values; validation,
health and I/O results are nondeterministic; API conflicts are retries. Each
module's header lists its own.

Choices in `Rollout` a reader should know: one worker reconciles releases, as
`release.go:71-73` sets it up; the survey of a release's targets is one step,
promotions that follow are one step each; the order of `spec.Deployments` is left
open; start times, which have whole seconds, may be equal. Sequences may be equal
too, which nothing in the code rules out, and what is proved holds then as well. The
run has different ones: `StartedEnds` needs promotions without bound when a release
that is over, but still read from the cache, and a newer one of the same sequence and
start second take a deployment from each other for as long as that read is old.
Suspension takes a deployment out of promotion and leaves its agent
alone (`deployment.go:157-220`). An agent commits and checkpoints in one step: the
gap between the two is `committed_checkpointed`'s subject.

## Runs

| Run | Asks | Properties |
|---|---|---|
| `ownership` | Can a stale, fenced or partly informed change land, or a torn scope be taken for clean? | `MutationsFenced`, `IncrementalBase`, `SnapshotFirst`, `TornIsPending`, `TicketNeverRevives` |
| `activation` | Are journal, checkpoint and boot consistent whatever fails and whenever the process dies, with a second deployment taking the node over? | `CheckpointSound`, `ObservedBeforeCommit`, `RecoveredIsCheckpointed`, `WorksOnNewest`, `CheckpointForward`, `BootSafe` |
| `journal_file` | Is the file a durable log, and do the loops over it answer what `Activation` assumes? | `NeverCorrupt`, `AckedSurvive`, `QueriesAgree`, `Durable` |
| `deployment_sync` | Does the status tell the release manager what it needs about two successive promotions, do accepted activations finish and does drift go away? | `PromotionWaits`, `TargetWasCommitted`, `RefusedIsFinal`, `ReadyIsPersisted`, `AcceptedFinishes`, `DriftIsUndone` |
| `deployment_replaced` | Is Ready true of the deployment that carries it when one is deleted and created again in the middle of a `Sync`, and is the loop a refinement of `Activation`? | `ReadyIsCommitted`, `ImplementsActivation` |
| `config_source` | Can a writer write that the journal does not name, or an old or wrong ConfigMap be applied first after a handoff? | `OneWriter`, `FirstApplyIsNamed` |
| `config_source_liveness` | Does the node end up on what was asked for? | `ConfigMapConverges`, `CrdConverges`, `SourceSettles` |
| `claim` | Can two instances forward at once, or under an identity that was taken over? | `OneForwarder`, `ValidIsNewest`, `EpochsForward` |
| `edge_route` | Can two nodes deliver one prefix at once, whoever pauses, fails or reads something old? | `ExclusiveGates`, `ClosedIsClosed`, `AcceptedDisjoint`, `WaitBoundsGate` |
| `rollout` | Do releases exclude one another, keep the limit, tell the truth when they end, keep what was withdrawn withdrawn, and end? | `OneRelease`, `WithinLimit`, `CompletedIsTrue`, `WithdrawnStaysWithdrawn`, `StartedEnds` |
| `committed_checkpointed`, `released_reopens` | Violated: see [Disagreements found](#disagreements-found). | one each |

All runs but the last two pass. Every component's state machine has a type
invariant (`TypeOK`, `SyncTypeOK`, `SourceTypeOK`). It is proved for
every one of them. `TypeOK` of `Rollout`, which no run lists, also holds when it is
added to the INVARIANTS of `MCRollout.cfg`, and `ReadyIsCommitted`, which
`deployment_replaced` checks, when it is added to those of `MCDeploymentSync.cfg`.

Deadlock is checked in all but four runs. In `ownership` every writer may be dead (a
writer's ID is never used again), in `edge_route` and `released_reopens` claims and
terms are bounded and a route that is gone is not claimed again, and in `rollout`
every release may be over.

What the results mean, in the terms of the code:

- *Ownership.* A mutation happens only under the scope's lock and, for an owner,
  with the ticket on record. An incremental commit finds the host exactly as it
  was when the change was prepared. After any transfer the first completed
  commit of a generation is a snapshot, also when garbage collection ran in
  between. A mutation that did not complete leaves `Pending` set until a
  snapshot completes.
- *Activation.* The checkpoint always names a committed activation, or the
  recorded recovery of a failed one; it never goes back. Nothing is committed
  that was not read back from FRR, also when an interrupted activation is
  resumed. A restarted pod never starts a revision that failed, nor one the
  newest recovery revokes.
- *Journal file.* An acknowledged record survives crashes and power loss. A
  record whose append failed is either absent or whole; no sequence of failures
  makes the next open refuse the file.
- *Deployment loop.* Ready is reported only for a committed epoch of the very
  deployment that carries the status, whose configuration is in `frr.conf`. A
  promotion never overtakes one in progress, and a recovery target is a revision
  that was committed. `RefusedIsFinal` is checked with `UndoMayFail` FALSE: when
  an append fails, cannot be undone and its record is found at the next open, an
  epoch whose refusal was reported is accepted after all.
- *Releases.* Two ordinary releases are never started and outstanding at once.
  The routers of a failure domain that are activating, by their own journals and
  not by their statuses, never exceed `MaxUnavailable`, an emergency withdrawal
  beside a release included. A release is recorded completed only when each of its
  routers runs its revision or a newer release moved it on. Once an agent accepted
  a withdrawal, nothing it activates or recovers originates the prefix. A started
  release ends unless it is deleted.
- *Edge routes.* At most one of the gates of overlapping prefixes is open at any
  time, whatever the agents, the leader and the index reconciler last read, as
  long as a provider replaces an accepted claim it released only after its node
  recorded the closing (`MayReclaim` FALSE; the other case is `released_reopens`),
  and no index is lost. A claim released before it was accepted may be replaced at
  any time. While the leader counts towards a takeover, the gate it waits for was
  opened from a renewal at least as old as its wait.
- *Configuration source.* The two agents never write FRR against the journal's
  source. The first ConfigMap the agent takes in and applies after a handoff is never
  older than the version named, restarts included. It is the ConfigMap named as long
  as the agent runs on; a restart in between lets a replacement through, since the
  new process does not compare UIDs until the gate moves again
  (`MCConfigSourceRestart.cfg`, under [Disagreements found](#disagreements-found)). The
  pin is spent on the first ConfigMap taken in, also when that is rejected or its
  reload fails. The init container reads the ConfigMap without it.
- *Claims.* At most one instance forwards at any time, counting what a crashed
  process left programmed, for clocks that differ as much as `MaxDrift` allows.

## Bounds

| Run | Bounds | Why they are enough to matter |
|---|---|---|
| `ownership` | 3 writers (symmetric), 3 generations, 2 revisions, 3 mutations | An owner, a successor and garbage collection; two transfers; a commit after a snapshot. |
| `activation` | 2 deployments of 1 epoch, 2 revisions, 1 revocable prefix, 4 recoveries | Order between keys is the same within and across deployments; the rebind is the harder case. Two epochs of one deployment are in `deployment_sync`. |
| `journal_file` | 3 records, 2 deployments of 2 epochs, 3 contents in doubt | A record before, at and after a failure; a rebind between two acceptances. |
| `deployment_sync` | 1 deployment, 2 epochs, 2 revisions, 1 revocable prefix | A promotion with an earlier commit to fall back to. |
| `deployment_replaced` | 2 deployments, 1 epoch, 1 revision, undo may fail | The second deployment starts its epochs again at 1. |
| `config_source` | 2 ConfigMaps, 3 versions, the second invalid, `ConfigMap` and `CRD` as sources | A handoff that names the first or an edited version, a replacement whose text is valid or not, an informer one or two versions behind. With `Asked <- Sources`, which adds `Shadow`, the same properties hold too, in 17 minutes (32,267,000 states); the proof has all three. |
| `config_source_liveness` | 1 ConfigMap, 2 versions | Convergence is asked of what stays. |
| `claim` | 2 instances (symmetric), lease of 3 units, clocks of rate 2 to 3, 4 writes, margin 0 | Create, take, renew or release, and take over; the wait of 4.5 units is cut to 4 and covers the lease with nothing to spare. |
| `edge_route` | 2 routes of the same or of overlapping prefixes, 2 attachments (all symmetric), lease of 2 units, 2 claims, 1 acquired term per lease, equal clocks, margin 0 | A holder and a successor, on one route or two, and a lease that lapses and is fenced. Clocks of different rates, more routes and more terms are left to the proof, which has no such bounds. |
| `rollout` | 2 routers of one failure domain, limit 1, 2 releases, 3 revisions, 6 promotions per router, 1 fault, and deletion of a release that a silent router holds up | A release of both routers with, beside or after it, an emergency withdrawal or a re-activation; every step may be the one that fails. With deletions not counted as faults the same properties hold too, in a quarter of an hour (2,034,000 states). |

`MaxGeneration`, `MaxRevision`, `MaxWrites`, `MaxUid`, `MaxEpoch`, `MaxRecords`,
`MaxMedia`, `MaxVer`, `MaxTerm` and `MaxFaults` are bounds of exploration; the code
has none, or one that is far away. The proofs hold for every value of them.

Symmetry is used only in runs without liveness properties.

## Fairness

- `DeploymentSync`: the agent's loop and the init container keep running (weak
  fairness: the ticker and the watch call `Sync` again whatever the last one
  returned); from some point on neither the agent nor the pod crashes; and what
  is retried for ever succeeds in the end (strong fairness of a request that
  gets through, an append, a checkpoint write and a reload that work). No
  fairness is given to the release manager or to operators.
- `ConfigSource`: both agents, the informer and the init container keep running;
  whoever polls the writer lock gets it (strong fairness: it is held for one
  step of a pass and polled at an interval); restarts and failures cease at some
  point.
- `Rollout`: the worker finishes its pass and comes back to every release (weak
  fairness of the pass; strong fairness of a release's turn, since a pass of one
  keeps the others waiting in the queue), the cache catches up, and every agent
  keeps calling `Sync`. Faults are finitely many. None for operators: no release
  need be created, confirmed or deleted. `StartedEnds` also rests on what the model
  leaves out: FRR's check does not refuse a revision for ever
  (`activator.go:339-341` returns without an outcome when it does), and no
  deployment is handed back to the ConfigMap, or loses its revision, in the middle.
- Safety runs, `Claim`, `Ownership` and `EdgeRoute` assume none.

## Proofs

| Module | Theorems | Inductive invariant |
|---|---|---|
| `OwnershipProofs` | `TypeCorrect`, `Fenced`, `IncrementalFromBase`, `SnapshotBeforeIncrement`, `TornStaysPending`, `NoRevival` | `IInv` |
| `ActivationProofs` | `TypeCorrect`, `CheckpointSoundness`, `CommitsAreObserved`, `RecoveriesAreCheckpointed`, `NewestOnly`, `CheckpointsGoForward`, `StagesOnlyAdvance`, `BootsSafely`, `AppendsAllowed` | `IInv` |
| `ActivationLogProofs` | `TypeCorrect`, `FilesDecode`, `AcknowledgedStays`, `FileIsDurableLog`, `LogsAgree`, `QueriesAnswerSummary`, `FileIsSummaryJournal` | `IInv`, `LogInv`, `DoubtInv` |
| `DeploymentSyncProofs` | `SyncTypeCorrect`, `LoopImplementsActivation`, `ReadyMeansCommitted`, `TargetsWereCommitted`, `ReadyMeansPersisted`; with `UndoMayFail` FALSE `PromotionsWait`, `RefusalsAreFinal` | `SyncInv` |
| `ConfigSourceProofs` | `TypeCorrect`, `WritersExclude`, `HandoffIsKept` | `IInv` |
| `ClaimProofs` | `TypeCorrect`, `MutualExclusion`, `Newest`, `Forward` | `IInv` |
| `EdgeRouteProofs` | `TypeCorrect`, `ClosedStaysClosed`; with `MayReclaim` FALSE `GatesExclusive`, `AcceptancesDisjoint`, `WaitCoversGate` | `IInv` |
| `RolloutProofs` | `OneReleaseAtATime`, `CompletionIsTrue`, `WithdrawalIsKept`, `LimitHolds`, `TypeCorrect` | `RelInv`, `AgentInv`, `LimitInv`, `TypeInv` |

Each proof shows `Init => IInv`, `IInv /\ [Next]_vars => IInv'` with one lemma
per action or per conjunct, and derives the properties from it. The properties
alone are not inductive; what each invariant adds is the argument. Each inductive
invariant also holds as an invariant of TLC's small instances.

**Ownership.** Assumed: `NoWriter` is no writer, bounds are natural numbers. A
commit decides under the lock but acts on what it prepared before it. `TicketInv`
says no ticket is ahead of the record and one of the record's generation belongs
to its settled owner; `BaseInv` that a change prepared under such a ticket was
prepared from the host as it is, as long as `Pending` is clear; `CallInv` and
`WholeInv` carry both through the steps of a call; `SyncedInv` ties a clear
`Pending` to a completed snapshot of the generation. `NoRevival` follows from the
record's generation and revision never going back.

**Activation.** Assumed: bounds are natural numbers, `NoRev` is no revision,
recoveries and prefixes have their types. The journal in memory and the one on
disk may differ by the last record, and a reopen takes either. `Good` therefore
holds of both, and `DiskRel` says what the file may say beyond memory: known
acceptances and final stages stand, and only a failed epoch may turn out
recovered. `JInv` orders acceptances, so that the bound deployment's highest epoch
is the newest key. `WorkInv` ties every step of `Activate` to the stage its key
must have. `BootsSafely` needs both, since a boot decides from a reopened journal.
`AppendsAllowed` follows from `WorkInv`: the record a step appends is of the bound
deployment's highest epoch, and its stage is one that may follow the last.

**ActivationLog.** Assumed: what is appended is an entry. For files of any length
and any number of failures. `CleanInv` says files, media and memory hold whole
records, with at most an unterminated or torn line behind them. `AppendInv` follows
one append: before the write and after the undo the file is the one it started
from, after the write it is that one and the line, and whenever the journal is open
the file decodes to memory's records, or to those and the record in doubt. `AckInv`
says whatever a power loss may leave begins with what was acknowledged, also while
the file's directory entry is not durable yet. `FileIsDurableLog` shows step by step
that memory, the record in doubt and the acknowledged prefix move as `DurableLog`
allows, and stay as they are in the steps between.

The queries are loops over a log of any length. `Sums` says of a log that it answers
every query as its summary does, and is preserved by any record the agent may append
(`SumsAppend`): the newest record of a kind, the highest accepted epoch, the first
acceptance of a key and the order of the epochs all move as `JournalSummary` says. It
also has to know the order of the log itself, that a higher epoch of a deployment is
journaled later, or the epochs `Epochs` reports would not be the highest. What a
recursive definition computes is obtained without an induction rule, from the least
number at which two chains of summaries could differ (`Least`, `ChainsAgree`,
`SummaryAppend`). `LogInv` says that every log the file, its medium, memory and a
pending undo may hold is one that was written this way, and that a record being
appended may follow them.

For `FileIsSummaryJournal` the log its readers know (`Known`) is memory's, without the
record until `Append` returns, and while no process runs what the next one decodes.
`DoubtInv` says what a failed append leaves: either memory lacks its record, which then
may be found and was one the agent may append, or memory and file both hold it. A crash
is then an `Append` (the line was whole), an `Open` (the record was in doubt) or
nothing.

**DeploymentSync.** Assumed: besides `Activation`'s assumptions, that every recovery
may be asked for and that there is a deployment. `SyncInv` contains the Activator's
invariant, and so `LoopImplementsActivation` needs no more than that every step of
the loop is a step of `Activation` or leaves its variables alone. To it come:

- `Flow`: what `Sync` works from was promoted, and is of the revision promoted; the
  Activator is idle except while `Sync` activates; `inSync` is set only on the way to
  the report, and then `frr.conf` holds the checkpoint's revision or the condition
  says that it does not. This is `ReadyMeansPersisted`.
- `Reached`: neither the journal in memory nor the one on disk knows a promotion that
  was not made, and both have it at the revision it was made with. An append that
  could not be undone may be found at the next open, which is why the file needs it.
- `Told`: what status says of an epoch was so when it was written and is final, and it
  is of the deployment that carries it: a deployment created again in the middle of a
  `Sync` starts with an empty status, and the report of the old one is not written.
- `Settled`, only where failed appends are undone: an epoch the deployment has left
  behind is finished, or its release ended before the node accepted it. Where an
  append can be left undone it is false, and with it `RefusedIsFinal`.

**ConfigSource.** Assumed: there is at least one ConfigMap with a version, and
sources are the three of the API. Both agents decide from the gate and not from the
journal. `GateInv` says gate and journal agree except between the journal's append
and the gate's update; `LockInv` that the deployment agent makes both under the
writer lock; so whoever decides under the lock decides by the journal. `StepInv`
carries what was decided to the write that follows; `MapInv` gives the texts their
types: a ConfigMap that exists has a version.

`HandoffIsKept` goes by the history variable `handed` and not by the gate's version,
which a restart forgets. `NamedInv` says a handoff never names a version
that was not there, and the node leaves CRD only for one that names a ConfigMap.
`HandInv` has two cases. While the process that journaled the handoff runs, the
journal pins the ConfigMap named and the gate has moved or is about to under the
lock (`Due`), so converge reads the API and compares UIDs. After a restart the store
and what converge works with were read since the handoff (`ReadSince`), so neither is
older than the version named.

**Claim.** Assumed: what `Params.Validate` demands (positive duration, margin not
negative, drift below one half, so that the fast rate is at most three times the
slow one). For any instances, duration, margin, rates and number of writes. `AuthOK`
is the heart: while an instance may forward, by its lease, by an update that was
executed but not yet answered, or by what a dead process left, nobody else may; the
record names it or nobody; no takeover or release that could still be executed
matches the record's version; and whoever observes the record at its present version
satisfies

    waited * Slow + left * Fast <= Duration * Fast

A tick adds at most `Fast` to `waited` and takes at least `Slow` from `left`, which
preserves the inequality (`TickInStep`), and with `waited >= TakeoverWait` it leaves
nothing for `left` (`WaitCovers`): what the division in `TakeoverWait` cuts off is
less than a unit of the waiting clock, so the margin is not needed for it. The other
conjuncts make versions identify records (`Versions`), say what updates in flight
would do (`OpOK`, `LateOK`) and which identity a lease has (`LeaseOK`, `IdOK`).

**Rollout.** Assumed: sequences of releases are natural numbers, a release
names at least one deployment and a revision for each, deployments are finitely
many, the limit is positive; for the types also that releases are finitely many and
the bounds natural numbers. For any releases, deployments, failure domains, plans,
limits, promotions and faults. Four facts carry it:

- `RelInv`: the release a promotion pass works for is running, or was read before
  it changed, and then the pass's status write is refused. A start requires that
  no ordinary release is outstanding, so `OneRelease` needs only that no other step
  makes a release outstanding again.
- `Told`: status, checkpoint, journal and spec of a deployment are each at most
  as far as the next, and a status that has reached the checkpoint's epoch reports
  its revision. A status that shows the spec's epoch committed is therefore
  not out of date, which is `CompletionIsTrue`.
- `Kept`: what is revoked in the journal is revoked in what the agent works from
  and in the spec, and a spec that revokes the prefix activates no revision that
  originates it. An agent in the middle of a `Sync` works
  from an older spec, which is why the middle one is needed for `WithdrawalIsKept`.
- `Held`: what is promoted was promoted by a release that started, and a refusal
  is of a release that is over. With `Told` it gives `ActiveIsBusy`: a router that
  is activating, or may yet, is one the manager counts as in flight although the
  status lags. `LimitInv` says the routers really activating are within the limit
  and, while a pass promotes, no more than the pass has counted; a promotion adds
  one router and one to the count (`OneMoreDeployment`), and no other step adds any
  (`AllCalm`).

`TypeCorrect` needs two things more (`TypeInv`). Start times are bounded by the number
of releases, because the latest is at most the number of releases that have one and a
start adds one to each (`StartDates`). What a pass still has to promote is named by its
release, which keeps its targets (`ReleasesTyped`), so that only revisions of a plan
reach a spec.

**EdgeRoute.** Assumed: as in `Claim`, and that the routes of a VPC are finitely
many. For any routes, prefixes, attachments, duration, margin, rates, claims and
terms. `CoreInv` holds whatever providers do. It says that the accepted claim, the
entry of the index and the last claim of a route come in this order (`Ordered`), that
a lease has reached the terms they were made in (`Known`), that the index has at
most one entry, and what a pass or a sweep is about to write; with it a recorded
closing is final (`ClosedStaysClosed`). The rest, `SafeInv`, holds when a provider
claims a released route only after the closing was recorded, and is false otherwise
(`released_reopens`):

- `GateInv`: an open gate is at the attachment of the entry. With one entry this is
  `GatesExclusive`. So an entry may change hands, or leave, only when its gate is
  closed and nobody can open it between the decision and the write.
- `HandoverInv`: a pass about to commit has no gate open but those of the attachment
  it commits, and the accepted holder can open none (`Shut`): it is recorded closed, or
  its lease is in a later term or held by nobody. Leases only go forward
  (`LeasesForward`), so this stays true however long the pass takes.
- `SweepInv` and `MarkInv`: an entry that is marked, or about to leave, is dead
  (`Dead`): its route is gone, or neither its accepted claim nor a status write that is
  still to come lets an agent open the gate. Staying dead (`DeadStays`) is what
  needs the condition on providers.
- `ObservedInv` and `MarkInv`: a gate that is open while the leader counts was opened
  from a renewal at least as old as the count, in the sense of `Claim`'s inequality
  (`RunsOut`). A tick keeps it (`TickTogether`), a renewal ends the observation, and a
  gate opened meanwhile is opened from the lease that was observed (`OpenedInStep`).
  When the wait is over the gate is closed (`OutAfterWait`).
- `EntryInv`: who may forward by its status has the entry, though the index is written
  before the status. This is `AcceptancesDisjoint`.

What stays with TLC is liveness under fairness (`AcceptedFinishes`, `DriftIsUndone`,
`ConfigMapConverges`, `CrdConverges`, `SourceSettles`, `StartedEnds`) and anything with
ENABLED, which are out of the prover's reach.

## Disagreements found

Two runs show the code doing something a comment or a document says it does not.

1. `committed_checkpointed`. `journal.go:31` says a Committed record marks an
   activation "observed healthy and checkpointed". The record is written before
   the checkpoint, and `DeploymentAgent.activate` (`deployment.go:432`) returns
   through `reassert` as soon as it finds the record, so `Resume`'s repair of a
   missing checkpoint is not reached after a crash between the two. Later Syncs
   put the previous checkpoint back over the committed revision, or report
   `ReassertFailed` when there is none.
2. `released_reopens`. `index.go:43-45` says that a gate is extended "only after
   reading the route accepted and unreleased", and `docs/edge/provider-contract.md:242`
   that a released route is free only after its node confirms the gate is closed. An
   entry leaves the index `TakeoverWait` after the release, without that confirmation
   (`index.go:172`), and `provider.Claim` (`provider.go:468-472`) may already have
   replaced the released claim by the next epoch. Nothing then tells the node that
   the accepted epoch was released: it opens the gate while an overlapping
   route is accepted elsewhere.

Further configurations show disagreements of less weight. Each is violated and
can be reproduced with `tlc -config <cfg> <module>`:

| Configuration | Module | What happens |
|---|---|---|
| `MCConfigSourcePin.cfg` | `MCConfigSource` | `gate.go:55` and `deployment.go:303` say that after a handoff only the ConfigMap it named is applied. `convergeLocked` (`agent.go:350`) compares UIDs only the first time after the gate moved, so a ConfigMap created again under the same name is applied later. |
| `MCConfigSourceRestart.cfg` | `MCConfigSource` | `deployment.go:303` says the ConfigMap named "stays pinned, across restarts". The journal keeps the pin, but a new process starts its gate at version 0 (`main.go:415`), which is what the agent has seen, so `convergeLocked` (`agent.go:350`) does not compare UIDs: if the agent restarts between the handoff and the first apply, a ConfigMap created again is the first one applied. |
| `MCConfigSourceTorn.cfg` | `MCConfigSource` | `agent.go:275` says `Watch` keeps FRR converged on the ConfigMap. `convergeLocked` (`agent.go:394`) skips a text equal to the last one it applied, so a reload that failed half way and an edit that goes back to the old text leave FRR half way. |
| `MCEdgeRouteLoss.cfg` | `MCEdgeRoute` | `reconciler.go:455-459`, `edgeroute_types.go:300-305` and `provider-contract.md:251` say that after an index was lost and rebuilt first claims wait, since entries of deleted routes are gone. A route whose earlier holder is recorded closed is not a first claim (`reconciler.go:218`), is accepted at once, and may overlap a deleted route whose gate is still open. |
| `MCRolloutDeleted.cfg` | `MCRollout` | `release.go:118-119` says a started release that is deleted "blocks its domain until it finishes or recovers". Promotion stops with the deletion (`release.go:433-438`), so one with a target still waiting does neither, and its domain stays blocked. |

Met while modelling, and not checked by a configuration:

- A withdrawal's target that already runs its revision counts as committed
  (`promote.go:321`) without its spec ever revoking the prefix, where
  `docs/fabric-routing/operations.md:44` and `:156-158` read as if every target did.
- `supersededBy` (`release.go:643`) names no release once the newer one's object was
  deleted, so the older release takes the deployment for one nobody moved on; the
  comment at `release.go:631-634` makes no such exception.
- A release read stale may promote once more after it ended. Its agents refuse the
  promotion, and the limit holds (`WithinLimit`).

## What is not modelled

Within modelled parts:

- `ConfigSource`: the legacy shared ConfigMap, the `daemons` and `vtysh.conf` files,
  transient failures of a validation or of opening the lock, the next-hop guard as
  a third holder of the lock, appends that cannot be undone, and power loss.
- `DeploymentSync`: staging of candidates. Several routers under one release are
  `Rollout`'s.
- `Rollout`: the handback to the ConfigMap, deletion of deployments and revisions,
  two managers at once during a change of leader, credentials, and the steps inside
  an activation.
- `EdgeRoute`: the contents of `Check` and `Conflict` (they may pass or refuse at any
  time), prefixes that do not overlap (they share nothing but the index), several
  instances per attachment, publication, maintenance, and the host routes a gate's
  commit programs beside its row.
- `Activation`: power loss (`ActivationLog` has it), a failed append of a source record,
  which the journal shares with activations and which would refuse theirs too, identity and version checks
  other than as refusals, `Stage` and `Classify`, which write no FRR.
- `ActivationLog`: record times, `LatestTime`, line encoding and checksums beyond
  whole, unterminated and torn lines.
- `Ownership`: scope names and JSON; `Read`, which changes nothing.
- `Claim`: several keys (they share nothing), `Sequence` and `RenewStart`, which no
  decision here reads, and the controller's `Fence`, which is in `EdgeRoute`.

Parts left out are components with status `not_modelled` in `PROJECT.json`, each
with the reason. They fall into three groups:

- Out of reach, or only restated by a model: packet programs, netlink effects, text
  rendering and parsing, generated code, wiring.
- Level-triggered reconcilers that derive their output afresh from one read of the
  API: publication, maintenance, the tenant router's resource controllers, webhooks.
- State machines of their own that this development does not reach: the MASQUE
  authority's ledger, the CNI chain and its address allocation, central identities,
  the GoBGP runtime's leases and moves, the gateway, service routes, the ingress
  sidecar, traffic-policy heartbeats, permits of the fabric API, Maglev. Each is a
  component that shares no state with the modules here, except the next-hop guard,
  which would be a third actor of `ConfigSource`.

The modelled parts are about the order of events. They are a small share of the
repository's lines, most of which are in the first group.
