----------------------------- MODULE Activation -----------------------------
(***************************************************************************)
(* The Activator of one fabric router node                                 *)
(* (internal/fabricconfig/activation): it takes promotions of              *)
(* configuration revisions through journaled stages, checkpoints what it   *)
(* commits, recovers what fails, resumes after a crash, and chooses what a *)
(* restarted pod may boot from.                                            *)
(*                                                                         *)
(* Abstractions.  A promotion is identified by a key <<uid, epoch>> (the   *)
(* deployment's UID and its activation epoch) and a revision, which stands *)
(* for its name, digest and rendered configuration.  The journal is its    *)
(* summary per key; ActivationLog shows the log's queries compute it.      *)
(* `disk' is what the journal file decodes to with its last line, `jnl'    *)
(* what the process holds.  A crash is of the process or its pod, so what  *)
(* reached the file stays; power loss is left to ActivationLog.  FRR runs  *)
(* a revision's configuration or Other (another writer's, a half-applied   *)
(* or an edited configuration).  A prefix stands for anything a recovery   *)
(* can revoke.  Health, validation, clocks and I/O failures are            *)
(* nondeterministic.                                                       *)
(***************************************************************************)
EXTENDS SummaryJournal

CONSTANTS Originates,  \* the prefixes each revision originates
          Recoveries   \* the recovery authorizations promotions carry

Other == NoRev

ASSUME OriginatesAssumption == Originates \in [Revs -> SUBSET Prefixes]
ASSUME RecoveriesAssumption == Recoveries \subseteq Recovery

VARIABLES
  cp,      \* the checkpoint file
  frr,     \* the configuration FRR runs
  pc,      \* where the single caller is in Activate
  req,     \* the Request it carries out, or the one a boot started from
  seen     \* history: keys whose revision was read back from FRR

vars == <<jnl, disk, broken, cp, frr, pc, req, seen>>

Steps == {"idle", "reload", "reloaded", "failing", "observe", "commit",
          "checkpoint", "recover", "restored", "record", "boot"}

Checkpoint == [key : Keys \cup {NoKey}, rev : Revs \cup {NoRev}]
NoCheckpoint == [key |-> NoKey, rev |-> NoRev]
Request == [key : Keys \cup {NoKey}, rev : Revs \cup {NoRev},
            recovery : Recovery, avail : BOOLEAN]
NoRequest == [key |-> NoKey, rev |-> NoRev, recovery |-> NoRecovery, avail |-> FALSE]

(* What the agent may ask for: avail is whether the recovery target could  *)
(* be read and its credentials resolved when the request was assembled.    *)
Requests == [key : Keys, rev : Revs, recovery : Recoveries, avail : BOOLEAN]
Askable(q) == q.recovery.target # q.rev
-----------------------------------------------------------------------------
MergeRecovery(journaled, asked) ==
  [journaled EXCEPT !.revoked = @ \cup asked.revoked,
                    !.retired = @ \/ asked.retired]

RevokedOrigination(recovery, rev) == Originates[rev] \cap recovery.revoked # {}

Eligible(recovery, avail) ==
  /\ ~recovery.retired
  /\ recovery.target # NoRev
  /\ avail
  /\ ~RevokedOrigination(recovery, recovery.target)
-----------------------------------------------------------------------------
(* Journal appends and the steps that follow. *)

(* The call goes on with q at the next step, or returns. *)
Continue(step, q) == pc' = step /\ req' = q
Return == pc' = "idle" /\ req' = NoRequest

(* An append followed by the next step, or an error that ends the call. *)
AppendThen(new, step, q) ==
  \/ Append(new) /\ Continue(step, q)
  \/ AppendError(new) /\ Return

(* What a reload to rev may leave running: it is replaced, untouched when  *)
(* the reload failed at once, or neither when it stopped half way.         *)
AfterReload(rev) == {rev, frr, Other}
-----------------------------------------------------------------------------
(* Activate: a new epoch. *)

ActivateNew(q) ==
  /\ pc = "idle"
  /\ BoundTo(jnl, q.key[1])
  /\ AboveHigh(jnl, q.key)
  /\ AppendThen(Accepting(jnl, q.key, q.rev, cp # NoCheckpoint, q.recovery), "reload", q)
  /\ UNCHANGED <<cp, frr, seen>>

(* Resume: a redelivery of the newest accepted activation, or the unfinished *)
(* recovery of a failed one.  The journaled target stands; a target read     *)
(* under another name cannot be restored.                                    *)
Resumed(q) ==
  LET journaled == jnl.entry[q.key].recovery
  IN [key |-> q.key, rev |-> q.rev,
      recovery |-> MergeRecovery(journaled, q.recovery),
      avail |-> q.avail /\ q.recovery.target = journaled.target]

Redelivery(q) ==
  /\ pc = "idle"
  /\ BoundTo(jnl, q.key[1])
  /\ IsHigh(jnl, q.key)
  /\ jnl.entry[q.key].rev = q.rev
  /\ UNCHANGED <<frr>>

(* Mutant: any committed activation asked for rewrites the checkpoint. *)
ResumeCommittedAny(q) ==
  /\ pc = "idle"
  /\ jnl.entry[q.key].rev = q.rev
  /\ jnl.stage[q.key] = "committed"
  /\ cp' = [key |-> q.key, rev |-> q.rev]
  /\ Return
  /\ UNCHANGED <<jnl, disk, broken, frr, seen>>

(* A crash, or a failed write, between the commit and the checkpoint left  *)
(* the checkpoint behind: write it again.                                  *)
ResumeCommitted(q) ==
  /\ Redelivery(q)
  /\ jnl.stage[q.key] = "committed"
  /\ cp # [key |-> q.key, rev |-> q.rev]
  /\ cp' \in {cp, [key |-> q.key, rev |-> q.rev]}
  /\ Return
  /\ UNCHANGED <<jnl, disk, broken, seen>>

ResumeFailed(q) ==
  /\ Redelivery(q)
  /\ jnl.stage[q.key] = "failed"
  /\ Continue("recover", Resumed(q))
  /\ UNCHANGED <<jnl, disk, broken, cp, seen>>

(* Mutant: a journaled reload is committed without observing it. *)
ResumeAppliedCommits(q) ==
  /\ Redelivery(q)
  /\ jnl.stage[q.key] = "applied"
  /\ Continue("commit", Resumed(q))
  /\ UNCHANGED <<jnl, disk, broken, cp, seen>>

ResumeApplied(q) ==
  /\ Redelivery(q)
  /\ jnl.stage[q.key] = "applied"
  /\ Continue("observe", Resumed(q))
  /\ UNCHANGED <<jnl, disk, broken, cp, seen>>

ResumeAccepted(q) ==
  /\ Redelivery(q)
  /\ jnl.stage[q.key] = "accepted"
  /\ UNCHANGED <<cp, seen>>
  /\ \/ /\ frr = q.rev
        /\ AppendThen(Marking(jnl, q.key, "applied"), "observe", Resumed(q))
     \/ /\ frr # q.rev
        /\ ~jnl.entry[q.key].prev \/ (cp # NoCheckpoint /\ frr = cp.rev)
        /\ Continue("reload", Resumed(q))
        /\ UNCHANGED <<jnl, disk, broken>>
     \/ /\ frr # q.rev
        /\ jnl.entry[q.key].prev
        /\ cp = NoCheckpoint \/ frr # cp.rev
        /\ AppendThen(Marking(jnl, q.key, "failed"), "recover", Resumed(q))
-----------------------------------------------------------------------------
(* The stages of one activation. *)

Reload ==
  /\ pc = "reload"
  /\ \/ frr' \in {req.rev, Other} /\ pc' = "reloaded"
     \/ frr' \in AfterReload(req.rev) /\ pc' = "failing"
  /\ UNCHANGED <<jnl, disk, broken, cp, req, seen>>

RecordApplied ==
  /\ pc = "reloaded"
  /\ AppendThen(Marking(jnl, req.key, "applied"), "observe", req)
  /\ UNCHANGED <<cp, frr, seen>>

RecordFailed ==
  /\ pc = "failing"
  /\ AppendThen(Marking(jnl, req.key, "failed"), "recover", req)
  /\ UNCHANGED <<cp, frr, seen>>

(* observeAndCommit up to its verdict: the running configuration is read   *)
(* back, then health holds through the stabilization window or it fails.   *)
Observe ==
  /\ pc = "observe"
  /\ \/ frr = req.rev /\ pc' \in {"commit", "failing"} /\ seen' = seen \cup {req.key}
     \/ frr # req.rev /\ pc' = "failing" /\ UNCHANGED seen
  /\ UNCHANGED <<jnl, disk, broken, cp, frr, req>>

Commit ==
  /\ pc = "commit"
  /\ AppendThen(Marking(jnl, req.key, "committed"), "checkpoint", req)
  /\ UNCHANGED <<cp, frr, seen>>

(* writeAtomic: the new checkpoint, or an error with the old one kept or,  *)
(* when only the directory sync failed, the new one in place.              *)
WriteCheckpoint ==
  /\ pc = "checkpoint"
  /\ cp' \in {cp, [key |-> req.key, rev |-> req.rev]}
  /\ Return
  /\ UNCHANGED <<jnl, disk, broken, frr, seen>>

(* Mutant: the Recovered record goes before the recovery's checkpoint. *)
RecoverRecordsFirst ==
  /\ pc = "recover"
  /\ \/ /\ Eligible(req.recovery, req.avail)
        /\ frr' = req.recovery.target
        /\ AppendThen(Marking(jnl, req.key, "recovered"), "restored", req)
     \/ /\ ~Eligible(req.recovery, req.avail)
        /\ Return
        /\ UNCHANGED <<jnl, disk, broken, frr>>
  /\ UNCHANGED <<cp, seen>>

(* recover: Degraded when the target is not eligible or its reload fails. *)
Recover ==
  /\ pc = "recover"
  /\ \/ /\ Eligible(req.recovery, req.avail)
        /\ \/ frr' \in {req.recovery.target, Other} /\ Continue("restored", req)
           \/ frr' \in AfterReload(req.recovery.target) /\ Return
     \/ ~Eligible(req.recovery, req.avail) /\ Return /\ UNCHANGED frr
  /\ UNCHANGED <<jnl, disk, broken, cp, seen>>

(* Mutant: the restored activation keeps the failed revision's name. *)
CheckpointRecoveryKeepsRev ==
  /\ pc = "restored"
  /\ cp' = [key |-> req.key, rev |-> req.rev]
  /\ Continue("record", req)
  /\ UNCHANGED <<jnl, disk, broken, frr, seen>>

(* The recovery's checkpoint goes first, its Recovered record second. *)
CheckpointRecovery ==
  /\ pc = "restored"
  /\ LET new == [key |-> req.key, rev |-> req.recovery.target] IN
       \/ cp' = new /\ Continue("record", req)
       \/ cp' \in {cp, new} /\ Return
  /\ UNCHANGED <<jnl, disk, broken, frr, seen>>

RecordRecovered ==
  /\ pc = "record"
  /\ AppendThen(Marking(jnl, req.key, "recovered"), "idle", NoRequest)
  /\ UNCHANGED <<cp, frr, seen>>
-----------------------------------------------------------------------------
(* Between activations. *)

(* Reassert: FRR runs something else than the checkpoint; reload it. *)
Reassert ==
  /\ pc = "idle"
  /\ cp # NoCheckpoint
  /\ frr # cp.rev
  /\ frr' \in AfterReload(cp.rev)
  /\ UNCHANGED <<jnl, disk, broken, cp, pc, req, seen>>

(* Rebind, to the deployment that replaced the one the journal is bound to. *)
Rebind(u) ==
  /\ pc = "idle"
  /\ jnl.bound # 0
  /\ u > jnl.bound
  /\ AppendThen(Rebinding(jnl, u), "idle", NoRequest)
  /\ UNCHANGED <<cp, frr, seen>>

(* The agent's process stops anywhere, a reload possibly half done. *)
Crash ==
  /\ pc # "boot"
  /\ Open
  /\ frr' \in CASE pc = "reload" -> AfterReload(req.rev)
                [] pc = "recover" /\ Eligible(req.recovery, req.avail) ->
                     AfterReload(req.recovery.target)
                [] OTHER -> {frr}
  /\ Return
  /\ UNCHANGED <<cp, seen>>

(* What FRR runs changes outside the agent: someone edits it, or FRR alone *)
(* restarts from whatever frr.conf holds.                                  *)
Drift ==
  /\ pc # "boot"
  /\ frr' \in (Revs \cup {Other}) \ {frr}
  /\ UNCHANGED <<jnl, disk, broken, cp, pc, req, seen>>

(* The pod restarts: FRR is down until the init container chose. *)
PodRestart ==
  /\ Open
  /\ frr' = Other
  /\ Continue("boot", NoRequest)
  /\ UNCHANGED <<cp, seen>>

(* boot: the newest accepted recovery must allow the checkpoint. *)
CheckpointAllowed ==
  /\ cp # NoCheckpoint
  /\ jnl.newest # NoKey =>
       /\ ~jnl.entry[jnl.newest].recovery.retired
       /\ ~RevokedOrigination(jnl.entry[jnl.newest].recovery, cp.rev)

Booting(k, r) == [NoRequest EXCEPT !.key = k, !.rev = r]

BootCheckpoint ==
  /\ pc = "boot"
  /\ CheckpointAllowed
  /\ frr' = cp.rev
  /\ Continue("idle", Booting(cp.key, cp.rev))
  /\ UNCHANGED <<jnl, disk, broken, cp, seen>>

(* Mutant: the active revision is not checked against failed epochs. *)
StartAllowedAfterFailure(q) ==
  /\ BoundTo(jnl, q.key[1])
  /\ AboveHigh(jnl, q.key) \/ IsHigh(jnl, q.key)
  /\ jnl.stage[q.key] # "none" => jnl.entry[q.key].rev = q.rev

StartAllowed(q) ==
  LET journaled == IF jnl.newest = NoKey THEN NoRecovery
                   ELSE jnl.entry[jnl.newest].recovery
      recovery == MergeRecovery(journaled, q.recovery)
  IN /\ BoundTo(jnl, q.key[1])
     /\ AboveHigh(jnl, q.key) \/ IsHigh(jnl, q.key)
     /\ ~Failed(jnl, q.key)
     /\ jnl.stage[q.key] # "none" => jnl.entry[q.key].rev = q.rev
     /\ ~recovery.retired
     /\ ~RevokedOrigination(recovery, q.rev)

(* bootConfig's last resort, the deployment's active revision.  A          *)
(* checkpoint may be refused for its identity, version, age or credentials *)
(* too, so this may happen whatever CheckpointAllowed says.                *)
BootActive(q) ==
  /\ pc = "boot"
  /\ jnl.newest # NoKey \/ cp # NoCheckpoint
  /\ StartAllowed(q)
  /\ frr' = q.rev
  /\ Continue("idle", Booting(q.key, q.rev))
  /\ UNCHANGED <<jnl, disk, broken, cp, seen>>

(* Nothing activated yet: the pod starts from its ConfigMap. *)
BootConfigMap ==
  /\ pc = "boot"
  /\ jnl.newest = NoKey
  /\ cp = NoCheckpoint
  /\ Return
  /\ UNCHANGED <<jnl, disk, broken, cp, frr, seen>>
-----------------------------------------------------------------------------
Init ==
  /\ jnl = NoJournal
  /\ disk = jnl
  /\ broken = FALSE
  /\ cp = NoCheckpoint
  /\ frr = Other
  /\ pc = "boot"
  /\ req = NoRequest
  /\ seen = {}

Next ==
  \/ \E q \in Requests :
       /\ Askable(q)
       /\ \/ ActivateNew(q)
          \/ ResumeCommitted(q)
          \/ ResumeFailed(q)
          \/ ResumeApplied(q)
          \/ ResumeAccepted(q)
          \/ BootActive(q)
  \/ Reload
  \/ RecordApplied
  \/ RecordFailed
  \/ Observe
  \/ Commit
  \/ WriteCheckpoint
  \/ Recover
  \/ CheckpointRecovery
  \/ RecordRecovered
  \/ Reassert
  \/ \E u \in Uids : Rebind(u)
  \/ Crash
  \/ Drift
  \/ PodRestart
  \/ BootCheckpoint
  \/ BootConfigMap

Spec == Init /\ [][Next]_vars
-----------------------------------------------------------------------------
(* Properties. *)

TypeOK ==
  /\ jnl \in Journal
  /\ disk \in Journal
  /\ broken \in BOOLEAN
  /\ cp \in Checkpoint
  /\ frr \in Revs \cup {NoRev}
  /\ pc \in Steps
  /\ req \in Request
  /\ seen \subseteq Keys

(* The checkpoint vouches for k in journal j: k committed and it holds its *)
(* revision, or k failed and it holds the target its acceptance recorded.  *)
Vouches(j, c) ==
  \/ j.stage[c.key] = "committed" /\ c.rev = j.entry[c.key].rev
  \/ Failed(j, c.key) /\ c.rev = j.entry[c.key].recovery.target

(* The checkpoint on disk is always of an activation the journal committed *)
(* (at its own revision) or recovered from (at the recorded target), across *)
(* crashes, failed writes and torn journal lines; boot and Reassert install *)
(* it without looking at the journal's stages again.                        *)
CheckpointSound == cp # NoCheckpoint => Vouches(jnl, cp)

(* Nothing is committed that observeAndCommit did not first read back from *)
(* FRR: resuming after a crash never takes a journaled reload on trust.    *)
ObservedBeforeCommit ==
  \A k \in Keys : jnl.stage[k] = "committed" => k \in seen

(* A Recovered record of the newest activation means the checkpoint already *)
(* holds its recovery: the order recover writes them in survives a crash in *)
(* between.                                                                 *)
RecoveredIsCheckpointed ==
  jnl.newest # NoKey /\ jnl.stage[jnl.newest] = "recovered" =>
    cp = [key |-> jnl.newest, rev |-> jnl.entry[jnl.newest].recovery.target]

(* The stage an activation may be in while the caller is at each step. *)
StepStages(step) ==
  CASE step \in {"reload", "reloaded"} -> {"accepted"}
    [] step = "failing" -> {"accepted", "applied"}
    [] step \in {"observe", "commit"} -> {"applied"}
    [] step = "checkpoint" -> {"committed"}
    [] OTHER -> {"failed"}

(* Whatever was redelivered, reordered or replayed, Activate works only on *)
(* the newest accepted epoch of the bound deployment, at the revision it   *)
(* was accepted with, and never reloads or observes a failed epoch again.  *)
WorksOnNewest ==
  pc \notin {"idle", "boot"} =>
    /\ IsHigh(jnl, req.key)
    /\ jnl.bound = req.key[1]
    /\ jnl.entry[req.key].rev = req.rev
    /\ jnl.stage[req.key] \in StepStages(pc)

(* Keys in the order a node accepts them. *)
Before(k, l) == k[1] < l[1] \/ (k[1] = l[1] /\ k[2] < l[2])

(* The checkpoint never goes back to an earlier epoch or deployment, and is *)
(* never rewritten for the same epoch with another revision.                *)
CheckpointForward ==
  [][cp' # cp => Before(cp.key, cp'.key)]_cp

(* An epoch's stage only advances: a finished epoch is never reopened, a   *)
(* failed one is never committed.                                          *)
Advances(s, t) ==
  <<s, t>> \in {<<"none", "accepted">>, <<"accepted", "applied">>,
               <<"accepted", "failed">>, <<"applied", "failed">>,
               <<"applied", "committed">>, <<"failed", "recovered">>}
StagesAdvance ==
  [][\A k \in Keys : jnl'.stage[k] # jnl.stage[k] =>
       Advances(jnl.stage[k], jnl'.stage[k])]_jnl

(* What boot starts FRR with is the recorded target of a failed epoch, or   *)
(* the revision of an epoch that has not failed, and it originates nothing *)
(* the newest accepted recovery revokes and does not start a retired router *)
(* (boot and StartAllowed).                                                 *)
BootSafe ==
  [][pc = "boot" /\ frr' # Other =>
       /\ frr' = req'.rev
       /\ IF Failed(jnl, req'.key)
          THEN frr' = jnl.entry[req'.key].recovery.target
          ELSE jnl.stage[req'.key] # "none" => frr' = jnl.entry[req'.key].rev
       /\ jnl.newest # NoKey =>
            /\ ~jnl.entry[jnl.newest].recovery.retired
            /\ ~RevokedOrigination(jnl.entry[jnl.newest].recovery, frr')]_vars
=============================================================================
