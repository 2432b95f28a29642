-------------------------- MODULE ActivationProofs --------------------------
(***************************************************************************)
(* Proofs of the Activator's safety for any number of deployments, epochs, *)
(* revisions, prefixes and recoveries.                                     *)
(***************************************************************************)
EXTENDS Activation, TLAPS

(* The newest accepted key is the last one in the order of acceptance, and *)
(* no accepted key is of a later deployment than the bound one.            *)
JInv(j) ==
  /\ \A k \in Keys : j.stage[k] # "none" => k[1] <= j.bound
  /\ \A k \in Keys : j.stage[k] # "none" => k = j.newest \/ Before(k, j.newest)
  /\ j.newest # NoKey => j.stage[j.newest] # "none"

(* What a reopened file may say beyond memory: acceptances memory knows    *)
(* stand, final stages stand, and only a failed epoch can turn out         *)
(* recovered.                                                              *)
DiskRel(j, d) ==
  /\ \A k \in Keys : j.stage[k] # "none" => d.entry[k] = j.entry[k]
  /\ \A k \in Keys : j.stage[k] = "committed" => d.stage[k] = "committed"
  /\ \A k \in Keys : Failed(j, k) => Failed(d, k)
  /\ d.newest # NoKey /\ d.stage[d.newest] = "recovered" =>
       j.newest = d.newest /\ Failed(j, d.newest)
  /\ \A k \in Keys : d.stage[k] # j.stage[k] => Advances(j.stage[k], d.stage[k])

CpInv(j) == cp # NoCheckpoint => cp.key \in Keys /\ j.stage[cp.key] # "none" /\ Vouches(j, cp)
RecInv(j) ==
  j.newest # NoKey /\ j.stage[j.newest] = "recovered" =>
    cp = [key |-> j.newest, rev |-> j.entry[j.newest].recovery.target]
SeenInv(j) == \A k \in Keys : j.stage[k] = "committed" => k \in seen

Good(j) == j \in Journal /\ JInv(j) /\ CpInv(j) /\ RecInv(j) /\ SeenInv(j)

JournalPart ==
  /\ Good(jnl)
  /\ Good(disk)
  /\ DiskRel(jnl, disk)
  /\ broken \in BOOLEAN
  /\ ~broken => disk = jnl

RestType ==
  /\ cp \in Checkpoint
  /\ frr \in Revs \cup {NoRev}
  /\ pc \in Steps
  /\ req \in Request
  /\ seen \subseteq Keys
  /\ pc = "boot" => frr = Other

Working == pc \notin {"idle", "boot"}

WorkInv ==
  Working =>
    /\ req.key \in Keys
    /\ req.rev \in Revs
    /\ IsHigh(jnl, req.key)
    /\ jnl.bound = req.key[1]
    /\ jnl.entry[req.key].rev = req.rev
    /\ jnl.entry[req.key].recovery.target = req.recovery.target
    /\ jnl.stage[req.key] \in StepStages(pc)
    /\ pc = "commit" => req.key \in seen
    /\ pc = "restored" => req.recovery.target \in Revs
    /\ pc = "record" => cp = [key |-> req.key, rev |-> req.recovery.target]

IInv == JournalPart /\ RestType /\ WorkInv
-----------------------------------------------------------------------------
(* Keys are ordered pairs of positive numbers, and NoKey is none of them. *)
LEMMA KeyFacts ==
  /\ NoKey \notin Keys
  /\ \A k \in Keys : /\ k[1] \in Nat /\ k[2] \in Nat /\ k[1] > 0 /\ k[2] > 0
                     /\ k[1] \in Uids /\ k[2] \in Epochs /\ k = <<k[1], k[2]>>
BY BoundsAssumption DEF Keys, Uids, Epochs, NoKey

(* The high-water epoch of the bound deployment is the newest key. *)
LEMMA HighIsNewest ==
  ASSUME NEW j \in Journal, JInv(j), NEW k \in Keys, IsHigh(j, k), j.bound = k[1]
  PROVE  j.newest = k
<1>1. k = j.newest \/ Before(k, j.newest)
  BY Zenon DEF JInv, IsHigh
<1>2. SUFFICES ASSUME Before(k, j.newest) PROVE FALSE
  BY Zenon, <1>1
<1>3. j.newest \in Keys
  BY <1>2, KeyFacts DEF Journal, Before, NoKey
<1>4. j.stage[j.newest] # "none" /\ j.newest[1] <= j.bound
  BY Zenon, <1>3, KeyFacts DEF JInv
<1>5. j.newest[1] = k[1] /\ j.newest[2] > k[2]
  BY <1>2, <1>3, <1>4, KeyFacts DEF Before
<1>6. j.stage[<<k[1], j.newest[2]>>] = "none"
  BY Zenon, <1>3, <1>5, KeyFacts DEF IsHigh
<1>7. j.newest = <<k[1], j.newest[2]>>
  BY Zenon, <1>3, <1>5, KeyFacts
<1> QED
  BY Zenon, <1>4, <1>6, <1>7

(* A journal append of a good journal, successful or not, keeps the journal *)
(* part of the invariant.                                                   *)
LEMMA AppendKeeps ==
  ASSUME JournalPart, NEW new, Good(new), DiskRel(jnl, new),
         Append(new) \/ AppendError(new), UNCHANGED <<cp, seen>>
  PROVE  JournalPart'
<1>1. DiskRel(new, new)
  BY Zenon DEF DiskRel, Failed
<1>2. CASE jnl' = new /\ disk' = new /\ broken' \in BOOLEAN
  BY Zenon, <1>1, <1>2 DEF JournalPart, Good, JInv, CpInv, RecInv, SeenInv, Vouches, DiskRel, Failed
<1>3. CASE jnl' = jnl /\ disk' = new /\ broken' = TRUE
  BY <1>3 DEF JournalPart, Good, JInv, CpInv, RecInv, SeenInv, Vouches, DiskRel, Failed
<1>4. CASE UNCHANGED <<jnl, disk, broken>>
  BY <1>4 DEF JournalPart, Good, JInv, CpInv, RecInv, SeenInv, Vouches, DiskRel, Failed
<1> QED
  BY Zenon, <1>2, <1>3, <1>4 DEF Append, AppendError, JournalPart

(* Steps that leave the journal, the checkpoint and the history alone. *)
LEMMA JournalStutters ==
  ASSUME JournalPart, UNCHANGED <<jnl, disk, broken, cp, seen>>
  PROVE  JournalPart'
BY DEF JournalPart, Good, JInv, CpInv, RecInv, SeenInv, Vouches, DiskRel, Failed

(* Accepting a new epoch of the bound deployment yields a good journal in   *)
(* which its key is the high water.                                         *)
LEMMA AcceptGood ==
  ASSUME JournalPart, cp \in Checkpoint, NEW k \in Keys, NEW r \in Revs, NEW p \in BOOLEAN,
         NEW rc \in Recovery, BoundTo(jnl, k[1]), AboveHigh(jnl, k)
  PROVE  LET new == Accepting(jnl, k, r, p, rc)
         IN /\ Good(new) /\ DiskRel(jnl, new) /\ IsHigh(new, k)
            /\ new.bound = k[1] /\ new.stage[k] = "accepted"
            /\ new.entry[k].rev = r /\ new.entry[k].recovery = rc
<1> DEFINE new == Accepting(jnl, k, r, p, rc)
           entry == [rev |-> r, prev |-> p, recovery |-> rc]
<1>1. jnl \in Journal /\ JInv(jnl) /\ CpInv(jnl) /\ RecInv(jnl) /\ SeenInv(jnl)
  BY Zenon DEF JournalPart, Good
<1>2. entry \in Entry
  BY Zenon DEF Entry
<1>3. /\ new.stage = [jnl.stage EXCEPT ![k] = "accepted"]
      /\ new.entry = [jnl.entry EXCEPT ![k] = entry]
      /\ new.newest = k /\ new.bound = k[1]
  BY Zenon DEF Accepting
<1>4. new \in Journal
  <2>1. [jnl.stage EXCEPT ![k] = "accepted"] \in [Keys -> Stages]
    BY Zenon, <1>1 DEF Journal, Stages
  <2>2. [jnl.entry EXCEPT ![k] = entry] \in [Keys -> Entry]
    BY Zenon, <1>1, <1>2 DEF Journal
  <2>3. k[1] \in 0..MaxUid
    BY KeyFacts, BoundsAssumption DEF Uids
  <2> QED
    BY Zenon, <2>1, <2>2, <2>3 DEF Accepting, Journal
<1>5. jnl.stage[k] = "none"
  BY KeyFacts DEF AboveHigh
<1>6. \A l \in Keys : jnl.stage[l] # "none" =>
         l # k /\ new.stage[l] = jnl.stage[l] /\ new.entry[l] = jnl.entry[l]
  BY Zenon, <1>1, <1>3, <1>5 DEF Journal
<1>7. \A l \in Keys : jnl.stage[l] # "none" => l[1] <= k[1] /\ Before(l, k)
  <2> SUFFICES ASSUME NEW l \in Keys, jnl.stage[l] # "none"
               PROVE  l[1] <= k[1] /\ Before(l, k)
    BY Zenon
  <2>1. l[1] <= jnl.bound
    BY Zenon, <1>1 DEF JInv
  <2>2. jnl.bound = k[1]
    BY <2>1, <1>1, KeyFacts DEF BoundTo, Journal
  <2>3. CASE l[1] < k[1]
    BY <2>3, KeyFacts DEF Before
  <2>4. CASE l[1] = k[1]
    <3>1. l = <<k[1], l[2]>> /\ l[2] \in Epochs
      BY Zenon, <2>4, KeyFacts
    <3>2. ~(l[2] >= k[2])
      BY Zenon, <3>1 DEF AboveHigh
    <3> QED
      BY <3>2, <2>4, KeyFacts DEF Before
  <2> QED
    BY <2>1, <2>2, <2>3, <2>4, KeyFacts
<1>8. \A l \in Keys : new.stage[l] # "none" => l = k \/ jnl.stage[l] # "none"
  BY Zenon, <1>1, <1>3 DEF Journal
<1>9. new.stage[k] = "accepted" /\ new.entry[k] = entry
  BY Zenon, <1>1, <1>3 DEF Journal
<1>10. JInv(new)
  BY <1>3, <1>7, <1>8, <1>9, KeyFacts DEF JInv
<1>11. CpInv(new)
  BY Zenon, <1>1, <1>6 DEF CpInv, Vouches, Failed
<1>12. RecInv(new) /\ SeenInv(new)
  BY Zenon, <1>1, <1>3, <1>9 DEF RecInv, SeenInv, Journal
<1>13. DiskRel(jnl, new)
  <2>1. \A l \in Keys : new.stage[l] # jnl.stage[l] => l = k
    BY Zenon, <1>1, <1>3 DEF Journal
  <2> QED
    BY Zenon, <1>3, <1>5, <1>6, <1>9, <2>1 DEF DiskRel, Failed, Advances
<1>14. IsHigh(new, k)
  <2> SUFFICES ASSUME NEW e \in Epochs, e > k[2] PROVE new.stage[<<k[1], e>>] = "none"
    BY Zenon, <1>9 DEF IsHigh
  <2>1. <<k[1], e>> \in Keys /\ <<k[1], e>> # k
    BY KeyFacts DEF Keys
  <2>2. jnl.stage[<<k[1], e>>] = "none"
    BY KeyFacts DEF AboveHigh, Epochs
  <2> QED
    BY Zenon, <2>1, <2>2, <1>3, <1>1 DEF Journal
<1>15. new.entry[k].rev = r /\ new.entry[k].recovery = rc
  BY <1>9
<1> QED
  BY Zenon, <1>3, <1>4, <1>9, <1>10, <1>11, <1>12, <1>13, <1>14, <1>15 DEF Good

(* Marking the newest key with its next stage yields a good journal. *)
LEMMA MarkGood ==
  ASSUME JournalPart, NEW k \in Keys, NEW s \in Stages, s # "none",
         IsHigh(jnl, k), jnl.bound = k[1],
         Advances(jnl.stage[k], s),
         s = "recovered" => cp = [key |-> k, rev |-> jnl.entry[k].recovery.target],
         s = "committed" => k \in seen
  PROVE  LET new == Marking(jnl, k, s)
         IN /\ Good(new) /\ DiskRel(jnl, new) /\ IsHigh(new, k)
            /\ new.bound = k[1] /\ new.stage[k] = s /\ new.entry = jnl.entry
<1> DEFINE new == Marking(jnl, k, s)
<1>1. jnl \in Journal /\ JInv(jnl) /\ CpInv(jnl) /\ RecInv(jnl) /\ SeenInv(jnl)
  BY Zenon DEF JournalPart, Good
<1>2. /\ new.stage = [jnl.stage EXCEPT ![k] = s]
      /\ new.entry = jnl.entry /\ new.newest = jnl.newest /\ new.bound = jnl.bound
  BY Zenon DEF Marking
<1>3. new \in Journal
  BY Zenon, <1>1 DEF Marking, Journal
<1>4. jnl.newest = k
  BY Zenon, <1>1, HighIsNewest
<1>5. new.stage[k] = s /\ \A l \in Keys : l # k => new.stage[l] = jnl.stage[l]
  BY Zenon, <1>1, <1>2 DEF Journal
<1>6. /\ jnl.stage[k] \notin {"none", "committed"}
      /\ Failed(jnl, k) => s = "recovered"
      /\ s = "recovered" => jnl.stage[k] = "failed"
  BY Zenon DEF IsHigh, Advances, Failed
<1>7. JInv(new)
  BY Zenon, <1>1, <1>2, <1>4, <1>5, <1>6 DEF JInv
<1>8. CpInv(new)
  BY Zenon, <1>1, <1>2, <1>5, <1>6 DEF CpInv, Vouches, Failed
<1>9. RecInv(new) /\ SeenInv(new)
  BY <1>1, <1>2, <1>4, <1>5, <1>6 DEF RecInv, SeenInv
<1>10. DiskRel(jnl, new)
  BY <1>1, <1>2, <1>4, <1>5, <1>6, KeyFacts DEF DiskRel, Failed
<1>11. IsHigh(new, k)
  <2> SUFFICES ASSUME NEW e \in Epochs, e > k[2] PROVE new.stage[<<k[1], e>>] = "none"
    BY Zenon, <1>5 DEF IsHigh
  <2>1. <<k[1], e>> \in Keys /\ <<k[1], e>> # k
    BY KeyFacts DEF Keys
  <2> QED
    BY Zenon, <2>1, <1>5 DEF IsHigh
<1> QED
  BY Zenon, <1>2, <1>3, <1>5, <1>7, <1>8, <1>9, <1>10, <1>11 DEF Good

(* A redelivery that Resume goes on with is of the newest key. *)
LEMMA RedeliveryFacts ==
  ASSUME IInv, NEW q \in Requests, Redelivery(q)
  PROVE  /\ q.key \in Keys /\ q.rev \in Revs /\ IsHigh(jnl, q.key)
         /\ jnl.bound = q.key[1] /\ jnl.newest = q.key
         /\ jnl.entry[q.key].rev = q.rev
         /\ Resumed(q) \in Request /\ Resumed(q).key = q.key /\ Resumed(q).rev = q.rev
         /\ Resumed(q).recovery.target = jnl.entry[q.key].recovery.target
<1>1. jnl \in Journal /\ JInv(jnl)
  BY Zenon DEF IInv, JournalPart, Good
<1>2. q.key \in Keys /\ q.rev \in Revs /\ q.recovery \in Recovery /\ q.avail \in BOOLEAN
  BY Zenon, RecoveriesAssumption DEF Requests
<1>3. IsHigh(jnl, q.key) /\ jnl.entry[q.key].rev = q.rev /\ BoundTo(jnl, q.key[1])
  BY Zenon DEF Redelivery
<1>4. jnl.bound = q.key[1]
  BY <1>1, <1>2, <1>3, KeyFacts DEF JInv, IsHigh, BoundTo, Journal
<1>5. jnl.newest = q.key
  BY Zenon, <1>1, <1>2, <1>3, <1>4, HighIsNewest
<1>6. jnl.entry[q.key].recovery \in Recovery
  BY Zenon, <1>1, <1>2 DEF Journal, Entry
<1>7. /\ MergeRecovery(jnl.entry[q.key].recovery, q.recovery) \in Recovery
      /\ MergeRecovery(jnl.entry[q.key].recovery, q.recovery).target = jnl.entry[q.key].recovery.target
  BY Zenon, <1>2, <1>6 DEF MergeRecovery, Recovery
<1>8. /\ Resumed(q) \in Request /\ Resumed(q).key = q.key /\ Resumed(q).rev = q.rev
      /\ Resumed(q).recovery.target = jnl.entry[q.key].recovery.target
  BY Zenon, <1>2, <1>7 DEF Resumed, Request
<1> QED
  BY Zenon, <1>2, <1>3, <1>4, <1>5, <1>8

(* Writing, or failing to write, a checkpoint the journal vouches for. *)
LEMMA CheckpointKeeps ==
  ASSUME JournalPart, NEW k \in Keys, NEW r \in Revs,
         IsHigh(jnl, k), jnl.bound = k[1], jnl.stage[k] # "recovered",
         Vouches(jnl, [key |-> k, rev |-> r]),
         cp' \in {cp, [key |-> k, rev |-> r]}, UNCHANGED <<jnl, disk, broken, seen>>
  PROVE  JournalPart'
<1> DEFINE c == [key |-> k, rev |-> r]
<1>1. CASE cp' = cp
  BY Zenon, <1>1, JournalStutters
<1>2. CASE cp' = c
  <2>1. Good(jnl) /\ Good(disk) /\ DiskRel(jnl, disk)
    BY Zenon DEF JournalPart
  <2>2. jnl.newest = k
    BY Zenon, <2>1, HighIsNewest DEF Good
  <2>3. jnl.stage[k] # "none"
    BY Zenon DEF IsHigh
  <2>4. Vouches(disk, c)
    BY Zenon, <2>1, <2>3 DEF DiskRel, Vouches, Failed
  <2>5. disk.stage[k] # "none"
    BY Zenon, <2>4 DEF Vouches, Failed
  <2>6. (CpInv(jnl) /\ CpInv(disk))'
    BY Zenon, <1>2, <2>3, <2>4, <2>5 DEF CpInv, Vouches, Failed
  <2>7. RecInv(jnl)'
    BY Zenon, <2>2 DEF RecInv
  <2>8. RecInv(disk)'
    <3> SUFFICES ASSUME disk.newest # NoKey, disk.stage[disk.newest] = "recovered"
                 PROVE  c = [key |-> disk.newest, rev |-> disk.entry[disk.newest].recovery.target]
      BY Zenon, <1>2 DEF RecInv
    <3>1. disk.newest = k /\ Failed(jnl, k)
      BY Zenon, <2>1, <2>2 DEF DiskRel
    <3>2. r = jnl.entry[k].recovery.target
      BY Zenon, <3>1 DEF Vouches, Failed
    <3>3. disk.entry[k] = jnl.entry[k]
      BY Zenon, <2>1, <2>3 DEF DiskRel
    <3> QED
      BY Zenon, <3>1, <3>2, <3>3
  <2>9. (JInv(jnl) /\ JInv(disk) /\ SeenInv(jnl) /\ SeenInv(disk) /\ DiskRel(jnl, disk))'
    BY Zenon, <2>1 DEF Good, JInv, SeenInv, DiskRel, Failed
  <2> QED
    BY Zenon, <2>1, <2>6, <2>7, <2>8, <2>9 DEF JournalPart, Good
<1> QED
  BY Zenon, <1>1, <1>2

(* Nothing is left to show of a caller that returned. *)
LEMMA ReturnKeeps ==
  ASSUME Return
  PROVE  pc' \in Steps /\ pc' # "boot" /\ req' \in Request /\ WorkInv'
<1>1. NoRequest \in Request
  BY Zenon DEF NoRequest, Request, NoRecovery, Recovery
<1> QED
  BY Zenon, <1>1 DEF Return, Steps, WorkInv, Working

(* Activate of a new epoch keeps the invariant. *)
LEMMA ActivateNewStep ==
  ASSUME IInv, NEW q \in Requests, Askable(q), ActivateNew(q)
  PROVE  IInv'
<1> DEFINE p == cp # NoCheckpoint
           new == Accepting(jnl, q.key, q.rev, p, q.recovery)
<1>1. q.key \in Keys /\ q.rev \in Revs /\ q.recovery \in Recovery /\ q \in Request
  BY Zenon, RecoveriesAssumption DEF Requests, Request
<1>2. p \in BOOLEAN
  BY Zenon
<1>3. /\ Good(new) /\ DiskRel(jnl, new) /\ IsHigh(new, q.key)
      /\ new.bound = q.key[1] /\ new.stage[q.key] = "accepted"
      /\ new.entry[q.key].rev = q.rev /\ new.entry[q.key].recovery = q.recovery
  <2>1. JournalPart /\ cp \in Checkpoint /\ BoundTo(jnl, q.key[1]) /\ AboveHigh(jnl, q.key)
    BY Zenon DEF IInv, RestType, ActivateNew
  <2> HIDE DEF p
  <2> QED
    BY <1>1, <1>2, <2>1, AcceptGood
<1>4. AppendThen(new, "reload", q) /\ UNCHANGED <<cp, frr, seen>>
  BY Zenon DEF ActivateNew
<1> HIDE DEF new
<1>5. JournalPart'
  BY Zenon, <1>3, <1>4, AppendKeeps DEF AppendThen, IInv
<1>6. CASE AppendError(new) /\ Return
  BY Zenon, <1>4, <1>5, <1>6, ReturnKeeps DEF IInv, RestType
<1>7. CASE Append(new) /\ Continue("reload", q)
  <2>1. RestType'
    BY Zenon, <1>1, <1>4, <1>7 DEF IInv, RestType, Continue, Steps
  <2>2. WorkInv'
    BY Zenon, <1>1, <1>3, <1>7 DEF WorkInv, Continue, Append, StepStages, IsHigh
  <2> QED
    BY Zenon, <1>5, <2>1, <2>2 DEF IInv
<1> QED
  BY Zenon, <1>4, <1>6, <1>7 DEF AppendThen

(* Resume of a committed epoch keeps the invariant. *)
LEMMA ResumeCommittedStep ==
  ASSUME IInv, NEW q \in Requests, Askable(q), ResumeCommitted(q)
  PROVE  IInv'
<1>1. Redelivery(q) /\ jnl.stage[q.key] = "committed" /\ Return
  BY Zenon DEF ResumeCommitted
<1>2. q.key \in Keys /\ q.rev \in Revs /\ IsHigh(jnl, q.key) /\ jnl.bound = q.key[1]
      /\ jnl.entry[q.key].rev = q.rev
  BY Zenon, <1>1, RedeliveryFacts
<1>3. Vouches(jnl, [key |-> q.key, rev |-> q.rev])
  BY Zenon, <1>1, <1>2 DEF Vouches
<1>4. JournalPart'
  BY Zenon, <1>1, <1>2, <1>3, CheckpointKeeps DEF ResumeCommitted, IInv
<1>5. RestType'
  BY <1>1, <1>2, ReturnKeeps DEF IInv, RestType, ResumeCommitted, Redelivery, Checkpoint
<1> QED
  BY Zenon, <1>1, <1>4, <1>5, ReturnKeeps DEF IInv

(* Resume of a failed epoch keeps the invariant. *)
LEMMA ResumeFailedStep ==
  ASSUME IInv, NEW q \in Requests, Askable(q), ResumeFailed(q)
  PROVE  IInv'
<1>1. /\ Redelivery(q) /\ jnl.stage[q.key] = "failed"
      /\ pc' = "recover" /\ req' = Resumed(q) /\ UNCHANGED <<jnl, disk, broken, cp, frr, seen>>
  BY Zenon DEF ResumeFailed, Continue, Redelivery
<1>2. JournalPart'
  BY Zenon, <1>1, JournalStutters DEF IInv
<1>3. RestType'
  BY Zenon, <1>1, RedeliveryFacts DEF IInv, RestType, Steps
<1>4. WorkInv'
  BY <1>1, RedeliveryFacts DEF WorkInv, StepStages, IsHigh
<1> QED
  BY Zenon, <1>2, <1>3, <1>4 DEF IInv

(* Resume of an applied epoch keeps the invariant. *)
LEMMA ResumeAppliedStep ==
  ASSUME IInv, NEW q \in Requests, Askable(q), ResumeApplied(q)
  PROVE  IInv'
<1>1. /\ Redelivery(q) /\ jnl.stage[q.key] = "applied"
      /\ pc' = "observe" /\ req' = Resumed(q) /\ UNCHANGED <<jnl, disk, broken, cp, frr, seen>>
  BY Zenon DEF ResumeApplied, Continue, Redelivery
<1>2. JournalPart'
  BY Zenon, <1>1, JournalStutters DEF IInv
<1>3. RestType'
  BY Zenon, <1>1, RedeliveryFacts DEF IInv, RestType, Steps
<1>4. WorkInv'
  BY <1>1, RedeliveryFacts DEF WorkInv, StepStages, IsHigh
<1> QED
  BY Zenon, <1>2, <1>3, <1>4 DEF IInv

(* The shape shared by the steps that journal a stage of the request and go *)
(* on to the next step.                                                     *)
LEMMA MarkStep ==
  ASSUME IInv, NEW q \in Request, NEW s \in Stages, NEW step \in Steps,
         q.key \in Keys, q.rev \in Revs, IsHigh(jnl, q.key), jnl.bound = q.key[1],
         jnl.entry[q.key].rev = q.rev,
         jnl.entry[q.key].recovery.target = q.recovery.target,
         <<jnl.stage[q.key], s, step>> \in
           {<<"accepted", "applied", "observe">>, <<"accepted", "failed", "recover">>,
            <<"applied", "failed", "recover">>, <<"applied", "committed", "checkpoint">>},
         s = "committed" => q.key \in seen,
         AppendThen(Marking(jnl, q.key, s), step, q),
         UNCHANGED <<cp, frr, seen>>
  PROVE  IInv'
<1> DEFINE new == Marking(jnl, q.key, s)
<1>1. /\ Good(new) /\ DiskRel(jnl, new) /\ IsHigh(new, q.key)
      /\ new.bound = q.key[1] /\ new.stage[q.key] = s /\ new.entry = jnl.entry
  BY Zenon, MarkGood DEF IInv, Advances
<1>2. AppendThen(new, step, q)
  BY Zenon
<1> HIDE DEF new
<1>3. JournalPart'
  BY Zenon, <1>1, <1>2, AppendKeeps DEF AppendThen, IInv
<1>4. CASE AppendError(new) /\ Return
  BY Zenon, <1>3, <1>4, ReturnKeeps DEF IInv, RestType
<1>5. CASE Append(new) /\ Continue(step, q)
  <2>1. RestType'
    BY Zenon, <1>5 DEF IInv, RestType, Continue
  <2>2. WorkInv'
    BY Zenon, <1>1, <1>5 DEF WorkInv, Continue, Append, StepStages, IsHigh
  <2> QED
    BY Zenon, <1>3, <2>1, <2>2 DEF IInv
<1> QED
  BY Zenon, <1>2, <1>4, <1>5 DEF AppendThen

(* Resume of an accepted epoch keeps the invariant. *)
LEMMA ResumeAcceptedStep ==
  ASSUME IInv, NEW q \in Requests, Askable(q), ResumeAccepted(q)
  PROVE  IInv'
<1>1. Redelivery(q) /\ jnl.stage[q.key] = "accepted" /\ UNCHANGED <<cp, seen, frr>>
  BY Zenon DEF ResumeAccepted, Redelivery
<1>2. /\ q.key \in Keys /\ q.rev \in Revs /\ IsHigh(jnl, q.key)
      /\ jnl.bound = q.key[1] /\ jnl.entry[q.key].rev = q.rev
      /\ Resumed(q) \in Request /\ Resumed(q).key = q.key /\ Resumed(q).rev = q.rev
      /\ Resumed(q).recovery.target = jnl.entry[q.key].recovery.target
  BY Zenon, <1>1, RedeliveryFacts
<1>3. "applied" \in Stages /\ "failed" \in Stages /\ "observe" \in Steps /\ "recover" \in Steps
  BY Zenon DEF Stages, Steps
<1>4. CASE AppendThen(Marking(jnl, q.key, "applied"), "observe", Resumed(q))
  <2> DEFINE x == Resumed(q)
  <2>1. x \in Request /\ x.key = q.key /\ x.rev = q.rev
        /\ x.recovery.target = jnl.entry[q.key].recovery.target
    BY Zenon, <1>2
  <2>2. AppendThen(Marking(jnl, x.key, "applied"), "observe", x)
    BY Zenon, <1>4, <1>2
  <2> HIDE DEF x
  <2> QED
    BY Zenon, <1>1, <1>2, <1>3, <2>1, <2>2, MarkStep
<1>5. CASE AppendThen(Marking(jnl, q.key, "failed"), "recover", Resumed(q))
  <2> DEFINE x == Resumed(q)
  <2>1. x \in Request /\ x.key = q.key /\ x.rev = q.rev
        /\ x.recovery.target = jnl.entry[q.key].recovery.target
    BY Zenon, <1>2
  <2>2. AppendThen(Marking(jnl, x.key, "failed"), "recover", x)
    BY Zenon, <1>5, <1>2
  <2> HIDE DEF x
  <2> QED
    BY Zenon, <1>1, <1>2, <1>3, <2>1, <2>2, MarkStep
<1>6. CASE Continue("reload", Resumed(q)) /\ UNCHANGED <<jnl, disk, broken>>
  <2>1. JournalPart'
    BY Zenon, <1>1, <1>6, JournalStutters DEF IInv
  <2>2. RestType'
    BY Zenon, <1>1, <1>2, <1>6 DEF IInv, RestType, Steps, Continue
  <2>3. WorkInv'
    BY Zenon, <1>1, <1>2, <1>6 DEF WorkInv, StepStages, IsHigh, Continue
  <2> QED
    BY Zenon, <2>1, <2>2, <2>3 DEF IInv
<1> QED
  BY Zenon, <1>4, <1>5, <1>6 DEF ResumeAccepted

(* A reload, finished or not, keeps the invariant. *)
LEMMA ReloadStep ==
  ASSUME IInv, Reload PROVE IInv'
<1>1. JournalPart'
  BY Zenon, JournalStutters DEF IInv, Reload
<1>2. WorkInv /\ pc = "reload" /\ req.rev \in Revs
  BY Zenon DEF IInv, Reload, WorkInv, Working
<1>3. RestType'
  BY Zenon, <1>2 DEF IInv, RestType, Reload, AfterReload, Other, Steps
<1>4. WorkInv'
  BY Zenon, <1>2 DEF WorkInv, Working, Reload, StepStages, IsHigh
<1> QED
  BY Zenon, <1>1, <1>3, <1>4 DEF IInv

(* The facts a working caller starts its next step from. *)
LEMMA WorkFacts ==
  ASSUME IInv, Working
  PROVE  /\ req \in Request /\ req.key \in Keys /\ req.rev \in Revs
         /\ IsHigh(jnl, req.key) /\ jnl.bound = req.key[1]
         /\ jnl.entry[req.key].rev = req.rev
         /\ jnl.entry[req.key].recovery.target = req.recovery.target
         /\ jnl.stage[req.key] \in StepStages(pc)
BY Zenon DEF IInv, WorkInv, RestType

(* Journaling a finished reload keeps the invariant. *)
LEMMA RecordAppliedStep ==
  ASSUME IInv, RecordApplied PROVE IInv'
<1>1. Working /\ jnl.stage[req.key] = "accepted"
  BY Zenon, WorkFacts DEF RecordApplied, Working, StepStages
<1>2. "applied" \in Stages /\ "observe" \in Steps
  BY Zenon DEF Stages, Steps
<1> QED
  BY Zenon, <1>1, <1>2, WorkFacts, MarkStep DEF RecordApplied

(* Journaling a failed apply keeps the invariant. *)
LEMMA RecordFailedStep ==
  ASSUME IInv, RecordFailed PROVE IInv'
<1>1. Working /\ jnl.stage[req.key] \in {"accepted", "applied"}
  BY Zenon, WorkFacts DEF RecordFailed, Working, StepStages
<1>2. "failed" \in Stages /\ "recover" \in Steps
  BY Zenon DEF Stages, Steps
<1> QED
  BY Zenon, <1>1, <1>2, WorkFacts, MarkStep DEF RecordFailed

(* Journaling a commit keeps the invariant. *)
LEMMA CommitStep ==
  ASSUME IInv, Commit PROVE IInv'
<1>1. Working /\ jnl.stage[req.key] = "applied" /\ req.key \in seen
  BY Zenon, WorkFacts DEF Commit, Working, StepStages, IInv, WorkInv
<1>2. "committed" \in Stages /\ "checkpoint" \in Steps
  BY Zenon DEF Stages, Steps
<1> QED
  BY Zenon, <1>1, <1>2, WorkFacts, MarkStep DEF Commit

(* Observing FRR keeps the invariant. *)
LEMMA ObserveStep ==
  ASSUME IInv, Observe PROVE IInv'
<1>1. Working /\ pc = "observe" /\ UNCHANGED <<jnl, disk, broken, cp, frr, req>>
      /\ pc' \in {"commit", "failing"} /\ seen' \in {seen, seen \cup {req.key}}
      /\ (pc' = "commit" => req.key \in seen')
  BY Zenon DEF Observe, Working
<1>2. req.key \in Keys
  BY Zenon, <1>1, WorkFacts
<1>3. JournalPart'
  <2>1. seen \subseteq seen'
    BY Zenon, <1>1
  <2> QED
    BY <1>1, <2>1 DEF IInv, JournalPart, Good, JInv, CpInv, RecInv, SeenInv, Vouches, DiskRel, Failed
<1>4. RestType'
  BY Zenon, <1>1, <1>2 DEF IInv, RestType, Steps
<1>5. WorkInv'
  BY Zenon, <1>1 DEF IInv, WorkInv, Working, StepStages, IsHigh
<1> QED
  BY Zenon, <1>3, <1>4, <1>5 DEF IInv

(* Writing the checkpoint of a commit keeps the invariant. *)
LEMMA WriteCheckpointStep ==
  ASSUME IInv, WriteCheckpoint PROVE IInv'
<1>1. Working /\ jnl.stage[req.key] = "committed"
  BY Zenon, WorkFacts DEF WriteCheckpoint, Working, StepStages
<1>2. Vouches(jnl, [key |-> req.key, rev |-> req.rev])
  BY Zenon, <1>1, WorkFacts DEF Vouches
<1>3. JournalPart'
  BY Zenon, <1>1, <1>2, WorkFacts, CheckpointKeeps DEF IInv, WriteCheckpoint
<1>4. RestType'
  BY <1>1, WorkFacts, ReturnKeeps DEF IInv, RestType, WriteCheckpoint, Checkpoint
<1> QED
  BY Zenon, <1>3, <1>4, ReturnKeeps DEF IInv, WriteCheckpoint

(* Reloading the recovery target keeps the invariant. *)
LEMMA RecoverStep ==
  ASSUME IInv, Recover PROVE IInv'
<1>1. Working /\ pc = "recover" /\ UNCHANGED <<jnl, disk, broken, cp, seen>>
  BY Zenon DEF Recover, Working
<1>2. JournalPart'
  BY Zenon, <1>1, JournalStutters DEF IInv
<1>3. req.recovery.target \in Revs \cup {NoRev}
  BY Zenon, <1>1, WorkFacts DEF Request, Recovery
<1>4. frr' \in Revs \cup {NoRev}
  BY Zenon, <1>1, <1>3 DEF Recover, AfterReload, Other, IInv, RestType
<1>5. CASE Return
  BY Zenon, <1>1, <1>2, <1>4, <1>5, ReturnKeeps DEF IInv, RestType
<1>6. CASE Continue("restored", req) /\ Eligible(req.recovery, req.avail)
  <2>1. RestType'
    BY Zenon, <1>1, <1>4, <1>6 DEF IInv, RestType, Continue, Steps
  <2>2. req.recovery.target \in Revs
    BY Zenon, <1>3, <1>6 DEF Eligible
  <2>3. WorkInv'
    BY Zenon, <1>1, <1>6, <2>2 DEF IInv, WorkInv, Working, Continue, StepStages, IsHigh
  <2> QED
    BY Zenon, <1>2, <2>1, <2>3 DEF IInv
<1> QED
  BY Zenon, <1>5, <1>6 DEF Recover

(* Writing the checkpoint of a recovery keeps the invariant. *)
LEMMA CheckpointRecoveryStep ==
  ASSUME IInv, CheckpointRecovery PROVE IInv'
<1> DEFINE c == [key |-> req.key, rev |-> req.recovery.target]
<1>1. Working /\ pc = "restored" /\ jnl.stage[req.key] = "failed"
  BY Zenon, WorkFacts DEF CheckpointRecovery, Working, StepStages
<1>2. req.recovery.target \in Revs
  BY Zenon, <1>1 DEF IInv, WorkInv, Working
<1>3. Vouches(jnl, c)
  BY Zenon, <1>1, WorkFacts DEF Vouches, Failed
<1>4. cp' \in {cp, c} /\ UNCHANGED <<jnl, disk, broken, frr, seen>>
  BY Zenon DEF CheckpointRecovery
<1>5. JournalPart'
  BY Zenon, <1>1, <1>2, <1>3, <1>4, WorkFacts, CheckpointKeeps DEF IInv
<1>6. cp' \in Checkpoint
  BY <1>1, <1>2, <1>4, WorkFacts DEF Checkpoint, IInv, RestType
<1>7. CASE Return
  BY Zenon, <1>4, <1>5, <1>6, <1>7, ReturnKeeps DEF IInv, RestType
<1>8. CASE cp' = c /\ Continue("record", req)
  <2>1. RestType'
    BY Zenon, <1>4, <1>6, <1>8 DEF IInv, RestType, Continue, Steps
  <2>2. WorkInv'
    BY Zenon, <1>1, <1>4, <1>8 DEF IInv, WorkInv, Working, Continue, StepStages, IsHigh
  <2> QED
    BY Zenon, <1>5, <2>1, <2>2 DEF IInv
<1> QED
  BY Zenon, <1>7, <1>8 DEF CheckpointRecovery

(* Journaling a recovery keeps the invariant. *)
LEMMA RecordRecoveredStep ==
  ASSUME IInv, RecordRecovered PROVE IInv'
<1> DEFINE new == Marking(jnl, req.key, "recovered")
<1>1. Working /\ pc = "record" /\ jnl.stage[req.key] = "failed"
  BY Zenon, WorkFacts DEF RecordRecovered, Working, StepStages
<1>2. cp = [key |-> req.key, rev |-> jnl.entry[req.key].recovery.target]
  BY Zenon, <1>1 DEF IInv, WorkInv, Working
<1>3. Good(new) /\ DiskRel(jnl, new)
  <2>1. "recovered" \in Stages
    BY Zenon DEF Stages
  <2> QED
    BY Zenon, <1>1, <1>2, <2>1, WorkFacts, MarkGood DEF IInv, Advances
<1>4. AppendThen(new, "idle", NoRequest) /\ UNCHANGED <<cp, frr, seen>>
  BY Zenon DEF RecordRecovered
<1> HIDE DEF new
<1>5. Return /\ (Append(new) \/ AppendError(new))
  BY Zenon, <1>4 DEF AppendThen, Continue, Return
<1>6. JournalPart'
  BY Zenon, <1>3, <1>4, <1>5, AppendKeeps DEF IInv
<1> QED
  BY Zenon, <1>4, <1>5, <1>6, ReturnKeeps DEF IInv, RestType

(* Reloading the checkpoint keeps the invariant. *)
LEMMA ReassertStep ==
  ASSUME IInv, Reassert PROVE IInv'
<1>1. JournalPart'
  BY Zenon, JournalStutters DEF IInv, Reassert
<1>2. RestType'
  BY Zenon DEF IInv, RestType, Reassert, AfterReload, Other, Checkpoint
<1>3. WorkInv'
  BY Zenon DEF WorkInv, Working, Reassert
<1> QED
  BY Zenon, <1>1, <1>2, <1>3 DEF IInv

(* Rebinding to a later deployment keeps the invariant. *)
LEMMA RebindStep ==
  ASSUME IInv, NEW u \in Uids, Rebind(u) PROVE IInv'
<1> DEFINE new == Rebinding(jnl, u)
<1>1. Good(jnl) /\ u > jnl.bound /\ u \in 0..MaxUid
  BY BoundsAssumption DEF IInv, JournalPart, Rebind, Uids
<1>2. /\ new.stage = jnl.stage /\ new.entry = jnl.entry
      /\ new.newest = jnl.newest /\ new.bound = u
  BY Zenon DEF Rebinding
<1>3. new \in Journal
  BY Zenon, <1>1 DEF Good, Journal, Rebinding
<1>4. JInv(new)
  BY SMTT(30), <1>1, <1>2, KeyFacts DEF Good, JInv, Journal
<1>5. Good(new)
  BY Zenon, <1>1, <1>2, <1>3, <1>4 DEF Good, CpInv, RecInv, SeenInv, Vouches, Failed
<1>6. DiskRel(jnl, new)
  BY Zenon, <1>2 DEF DiskRel, Failed
<1>7. AppendThen(new, "idle", NoRequest) /\ UNCHANGED <<cp, frr, seen>>
  BY Zenon DEF Rebind
<1> HIDE DEF new
<1>8. Return /\ (Append(new) \/ AppendError(new))
  BY Zenon, <1>7 DEF AppendThen, Continue, Return
<1>9. JournalPart'
  BY Zenon, <1>5, <1>6, <1>7, <1>8, AppendKeeps DEF IInv
<1>10. RestType'
  BY Zenon, <1>7, <1>8, ReturnKeeps DEF IInv, RestType, Return
<1> QED
  BY Zenon, <1>8, <1>9, <1>10, ReturnKeeps DEF IInv

(* Reopening the journal, with its last line or without, keeps its part. *)
LEMMA OpenKeeps ==
  ASSUME JournalPart, Open, UNCHANGED <<cp, seen>> PROVE JournalPart'
<1>1. Good(jnl) /\ Good(disk) /\ disk' = jnl' /\ broken' = FALSE
  BY Zenon DEF JournalPart, Open
<1>2. Good(jnl')
  BY Zenon, <1>1 DEF Open
<1>3. Good(jnl)' /\ Good(disk)'
  BY Zenon, <1>1, <1>2 DEF Good, CpInv, RecInv, SeenInv
<1>4. DiskRel(jnl', jnl')
  BY Zenon DEF DiskRel, Failed
<1> QED
  BY Zenon, <1>1, <1>3, <1>4 DEF JournalPart

(* A crash of the agent keeps the invariant. *)
LEMMA CrashStep ==
  ASSUME IInv, Crash PROVE IInv'
<1>1. JournalPart'
  BY Zenon, OpenKeeps DEF IInv, Crash
<1>2. req.rev \in Revs \cup {NoRev} /\ req.recovery.target \in Revs \cup {NoRev}
  BY Zenon DEF IInv, RestType, Request, Recovery
<1>3. frr' \in Revs \cup {NoRev}
  BY Zenon, <1>2 DEF IInv, RestType, Crash, AfterReload, Other
<1>4. RestType'
  BY Zenon, <1>3, ReturnKeeps DEF IInv, RestType, Crash, Return
<1> QED
  BY Zenon, <1>1, <1>4, ReturnKeeps DEF IInv, Crash

(* An edit of FRR by someone else keeps the invariant. *)
LEMMA DriftStep ==
  ASSUME IInv, Drift PROVE IInv'
<1>1. JournalPart'
  BY Zenon, JournalStutters DEF IInv, Drift
<1>2. RestType'
  BY Zenon DEF IInv, RestType, Drift, Other
<1>3. WorkInv'
  BY Zenon DEF IInv, WorkInv, Working, Drift, IsHigh
<1> QED
  BY Zenon, <1>1, <1>2, <1>3 DEF IInv

(* A pod restart keeps the invariant. *)
LEMMA PodRestartStep ==
  ASSUME IInv, PodRestart PROVE IInv'
<1>1. JournalPart'
  BY Zenon, OpenKeeps DEF IInv, PodRestart
<1>2. NoRequest \in Request
  BY Zenon DEF NoRequest, Request, NoRecovery, Recovery
<1>3. RestType'
  BY Zenon, <1>2 DEF IInv, RestType, PodRestart, Continue, Steps, Other
<1>4. WorkInv'
  BY Zenon DEF WorkInv, Working, PodRestart, Continue
<1> QED
  BY Zenon, <1>1, <1>3, <1>4 DEF IInv

(* What a boot starts from is a request. *)
LEMMA BootingType ==
  ASSUME NEW k \in Keys \cup {NoKey}, NEW r \in Revs \cup {NoRev}
  PROVE  Booting(k, r) \in Request /\ Booting(k, r).key = k /\ Booting(k, r).rev = r
BY Zenon DEF Booting, NoRequest, Request, NoRecovery, Recovery

(* The three ways to boot keep the invariant. *)
LEMMA BootStep ==
  ASSUME IInv,
         BootCheckpoint \/ BootConfigMap \/ \E q \in Requests : BootActive(q)
  PROVE  IInv'
<1>1. UNCHANGED <<jnl, disk, broken, cp, seen>> /\ pc' = "idle"
  BY Zenon DEF BootCheckpoint, BootConfigMap, BootActive, Continue, Return
<1>2. JournalPart'
  BY Zenon, <1>1, JournalStutters DEF IInv
<1>3. req' \in Request /\ frr' \in Revs \cup {NoRev}
  <2>1. CASE BootCheckpoint
    <3>1. cp.key \in Keys \cup {NoKey} /\ cp.rev \in Revs \cup {NoRev}
      BY Zenon DEF IInv, RestType, Checkpoint
    <3> QED
      BY Zenon, <2>1, <3>1, BootingType DEF BootCheckpoint, Continue
  <2>2. CASE BootConfigMap
    BY Zenon, <2>2, ReturnKeeps DEF BootConfigMap, IInv, RestType
  <2>3. ASSUME NEW q \in Requests, BootActive(q)
        PROVE  req' \in Request /\ frr' \in Revs \cup {NoRev}
    <3>1. q.key \in Keys \cup {NoKey} /\ q.rev \in Revs \cup {NoRev}
      BY Zenon DEF Requests
    <3> QED
      BY Zenon, <2>3, <3>1, BootingType DEF BootActive, Continue
  <2> QED
    BY Zenon, <2>1, <2>2, <2>3
<1>4. RestType'
  BY Zenon, <1>1, <1>3 DEF IInv, RestType, Steps
<1>5. WorkInv'
  BY Zenon, <1>1 DEF WorkInv, Working
<1> QED
  BY Zenon, <1>2, <1>4, <1>5 DEF IInv
-----------------------------------------------------------------------------
(* Every step keeps the invariant. *)
LEMMA StepKeeps == IInv /\ [Next]_vars => IInv'
<1> SUFFICES ASSUME IInv, [Next]_vars PROVE IInv'
  BY Zenon
<1>1. CASE UNCHANGED vars
  <2>1. JournalPart'
    BY Zenon, <1>1, JournalStutters DEF IInv, vars
  <2>2. RestType' /\ WorkInv'
    BY Zenon, <1>1 DEF IInv, vars, RestType, WorkInv, Working, IsHigh
  <2> QED
    BY Zenon, <2>1, <2>2 DEF IInv
<1>2. CASE Next
  <2>1. ASSUME NEW q \in Requests, Askable(q),
               \/ ActivateNew(q) \/ ResumeCommitted(q) \/ ResumeFailed(q)
               \/ ResumeApplied(q) \/ ResumeAccepted(q) \/ BootActive(q)
        PROVE  IInv'
    BY Zenon, <2>1, ActivateNewStep, ResumeCommittedStep, ResumeFailedStep,
       ResumeAppliedStep, ResumeAcceptedStep, BootStep
  <2>2. CASE Reload \/ RecordApplied \/ RecordFailed \/ Observe \/ Commit \/ WriteCheckpoint
    BY Zenon, <2>2, ReloadStep, RecordAppliedStep, RecordFailedStep, ObserveStep,
       CommitStep, WriteCheckpointStep
  <2>3. CASE Recover \/ CheckpointRecovery \/ RecordRecovered \/ Reassert
    BY Zenon, <2>3, RecoverStep, CheckpointRecoveryStep, RecordRecoveredStep, ReassertStep
  <2>4. ASSUME NEW u \in Uids, Rebind(u) PROVE IInv'
    BY Zenon, <2>4, RebindStep
  <2>5. CASE Crash \/ Drift \/ PodRestart \/ BootCheckpoint \/ BootConfigMap
    BY Zenon, <2>5, CrashStep, DriftStep, PodRestartStep, BootStep
  <2> QED
    BY Zenon, <1>2, <2>1, <2>2, <2>3, <2>4, <2>5 DEF Next
<1> QED
  BY Zenon, <1>1, <1>2

(* The empty journal, checkpoint and request satisfy the invariant. *)
LEMMA InitKeeps == Init => IInv
<1> SUFFICES ASSUME Init PROVE IInv
  BY Zenon
<1>1. NoRecovery \in Recovery
  BY Zenon DEF NoRecovery, Recovery
<1>2. NoEntry \in Entry /\ NoRequest \in Request
  BY Zenon, <1>1 DEF NoEntry, Entry, NoRequest, Request
<1>3. jnl \in Journal
  BY <1>2, BoundsAssumption DEF Init, NoJournal, Journal, Stages
<1>4. JInv(jnl) /\ DiskRel(jnl, jnl) /\ RecInv(jnl) /\ SeenInv(jnl) /\ CpInv(jnl)
  BY Zenon DEF Init, NoJournal, JInv, DiskRel, Failed, RecInv, SeenInv, CpInv
<1>5. JournalPart
  BY Zenon, <1>3, <1>4 DEF Init, JournalPart, Good
<1>6. RestType
  BY Zenon, <1>2 DEF Init, RestType, Checkpoint, NoCheckpoint, Steps, Other
<1>7. WorkInv
  BY Zenon DEF Init, WorkInv, Working
<1> QED
  BY Zenon, <1>5, <1>6, <1>7 DEF IInv

(* The inductive invariant holds throughout. *)
THEOREM Invariance == Spec => []IInv
BY InitKeeps, StepKeeps, PTL DEF Spec

(* The Activator's state keeps its types. *)
THEOREM TypeCorrect == Spec => []TypeOK
<1>1. IInv => TypeOK
  BY Zenon DEF IInv, JournalPart, Good, RestType, TypeOK
<1> QED
  BY <1>1, Invariance, PTL

(* The checkpoint a pod boots from is always of an activation the journal  *)
(* committed, or of the recorded recovery of one that failed.              *)
THEOREM CheckpointSoundness == Spec => []CheckpointSound
<1>1. IInv => CheckpointSound
  BY Zenon DEF IInv, JournalPart, Good, CpInv, CheckpointSound
<1> QED
  BY <1>1, Invariance, PTL

(* Only what was read back from FRR is committed. *)
THEOREM CommitsAreObserved == Spec => []ObservedBeforeCommit
<1>1. IInv => ObservedBeforeCommit
  BY Zenon DEF IInv, JournalPart, Good, SeenInv, ObservedBeforeCommit
<1> QED
  BY <1>1, Invariance, PTL

(* A journaled recovery of the newest activation is in the checkpoint. *)
THEOREM RecoveriesAreCheckpointed == Spec => []RecoveredIsCheckpointed
<1>1. IInv => RecoveredIsCheckpointed
  BY Zenon DEF IInv, JournalPart, Good, RecInv, RecoveredIsCheckpointed
<1> QED
  BY <1>1, Invariance, PTL

(* The caller works only on the newest accepted epoch. *)
THEOREM NewestOnly == Spec => []WorksOnNewest
<1>1. IInv => WorksOnNewest
  BY Zenon DEF IInv, WorkInv, Working, WorksOnNewest
<1> QED
  BY <1>1, Invariance, PTL

(* A checkpoint of the newest key that the journal vouches for either is   *)
(* the one there already or is of a later key.                             *)
LEMMA CheckpointMoves ==
  ASSUME IInv, NEW k \in Keys, NEW r, IsHigh(jnl, k), jnl.bound = k[1],
         Vouches(jnl, [key |-> k, rev |-> r]),
         cp' \in {cp, [key |-> k, rev |-> r]}, cp' # cp
  PROVE  Before(cp.key, cp'.key)
<1>1. Good(jnl) /\ cp \in Checkpoint /\ cp' = [key |-> k, rev |-> r]
  BY Zenon DEF IInv, JournalPart, RestType
<1>2. jnl.newest = k
  BY Zenon, <1>1, HighIsNewest DEF Good
<1>3. CASE cp = NoCheckpoint
  BY Zenon, <1>1, <1>3, KeyFacts DEF Before, NoCheckpoint, NoKey
<1>4. CASE cp # NoCheckpoint
  <2>1. cp.key \in Keys /\ jnl.stage[cp.key] # "none" /\ Vouches(jnl, cp)
    BY Zenon, <1>1, <1>4 DEF Good, CpInv
  <2>2. cp.key = k \/ Before(cp.key, k)
    BY Zenon, <1>1, <1>2, <2>1 DEF Good, JInv
  <2>3. ASSUME cp.key = k PROVE FALSE
    <3>1. cp.rev = r
      BY Zenon, <2>1, <2>3 DEF Vouches, Failed
    <3>2. cp = [key |-> cp.key, rev |-> cp.rev]
      BY Zenon, <1>1 DEF Checkpoint
    <3> QED
      BY Zenon, <1>1, <2>3, <3>1, <3>2
  <2> QED
    BY Zenon, <1>1, <2>2, <2>3
<1> QED
  BY Zenon, <1>3, <1>4

(* A step replaces the checkpoint only by a later one. *)
LEMMA StepCheckpoints ==
  IInv /\ [Next]_vars => [cp' # cp => Before(cp.key, cp'.key)]_cp
<1> SUFFICES ASSUME IInv, [Next]_vars, cp' # cp PROVE Before(cp.key, cp'.key)
  BY Zenon
<1>1. CASE WriteCheckpoint
  <2>1. Working /\ jnl.stage[req.key] = "committed"
    BY Zenon, <1>1, WorkFacts DEF WriteCheckpoint, Working, StepStages
  <2>2. Vouches(jnl, [key |-> req.key, rev |-> req.rev])
    BY Zenon, <2>1, WorkFacts DEF Vouches
  <2> QED
    BY Zenon, <1>1, <2>1, <2>2, WorkFacts, CheckpointMoves DEF WriteCheckpoint
<1>2. CASE CheckpointRecovery
  <2>1. Working /\ jnl.stage[req.key] = "failed"
    BY Zenon, <1>2, WorkFacts DEF CheckpointRecovery, Working, StepStages
  <2>2. Vouches(jnl, [key |-> req.key, rev |-> req.recovery.target])
    BY Zenon, <2>1, WorkFacts DEF Vouches, Failed
  <2>3. cp' \in {cp, [key |-> req.key, rev |-> req.recovery.target]}
    BY Zenon, <1>2 DEF CheckpointRecovery
  <2> QED
    BY Zenon, <2>1, <2>2, <2>3, WorkFacts, CheckpointMoves
<1>3. ASSUME NEW q \in Requests, ResumeCommitted(q) PROVE Before(cp.key, cp'.key)
  <2>1. Redelivery(q) /\ jnl.stage[q.key] = "committed"
        /\ cp' \in {cp, [key |-> q.key, rev |-> q.rev]}
    BY Zenon, <1>3 DEF ResumeCommitted
  <2>2. Vouches(jnl, [key |-> q.key, rev |-> q.rev])
    BY Zenon, <2>1 DEF Vouches, Redelivery
  <2> QED
    BY Zenon, <2>1, <2>2, RedeliveryFacts, CheckpointMoves
<1> QED
  BY Zenon, <1>1, <1>2, <1>3 DEF Next, vars, ActivateNew, ResumeFailed, ResumeApplied,
     ResumeAccepted, BootActive, Reload, RecordApplied, RecordFailed, Observe, Commit,
     Recover, RecordRecovered, Reassert, Rebind, Crash, Drift, PodRestart,
     BootCheckpoint, BootConfigMap

(* The checkpoint never goes back. *)
THEOREM CheckpointsGoForward == Spec => CheckpointForward
  BY StepCheckpoints, Invariance, PTL DEF Spec, CheckpointForward

(* A stage differs after a step only by an advance. *)
Advanced == \A k \in Keys : jnl'.stage[k] # jnl.stage[k] =>
              Advances(jnl.stage[k], jnl'.stage[k])

(* An append that marks a key with its next stage advances it. *)
LEMMA MarkAdvances ==
  ASSUME jnl \in Journal, NEW k \in Keys, NEW s, NEW step, NEW q,
         Advances(jnl.stage[k], s), AppendThen(Marking(jnl, k, s), step, q)
  PROVE  Advanced
<1>1. jnl' = jnl \/ jnl'.stage = [jnl.stage EXCEPT ![k] = s]
  BY DEF AppendThen, Append, AppendError, Marking
<1> QED
  BY Zenon, <1>1 DEF Journal, Advanced

(* A step changes a stage only to one after it. *)
LEMMA StepAdvances == IInv /\ [Next]_vars => [Advanced]_jnl
<1> SUFFICES ASSUME IInv, [Next]_vars PROVE Advanced \/ jnl' = jnl
  BY Zenon
<1>1. jnl \in Journal
  BY Zenon DEF IInv, JournalPart, Good
<1>2. ASSUME NEW q \in Requests, ActivateNew(q) PROVE Advanced
  <2>1. q.key \in Keys /\ jnl.stage[q.key] = "none"
    BY SMTT(30), <1>2, KeyFacts DEF Requests, ActivateNew, AboveHigh
  <2>2. jnl' = jnl \/ jnl'.stage = [jnl.stage EXCEPT ![q.key] = "accepted"]
    BY SMTT(30), <1>2 DEF ActivateNew, AppendThen, Append, AppendError, Accepting
  <2> QED
    BY Zenon, <1>1, <2>1, <2>2 DEF Journal, Advanced, Advances
<1>3. ASSUME NEW q \in Requests, ResumeAccepted(q) PROVE Advanced \/ jnl' = jnl
  <2>1. q.key \in Keys /\ jnl.stage[q.key] = "accepted"
    BY Zenon, <1>3 DEF Requests, ResumeAccepted
  <2>2. Advances("accepted", "applied") /\ Advances("accepted", "failed")
    BY Zenon DEF Advances
  <2> QED
    BY Zenon, <1>1, <1>3, <2>1, <2>2, MarkAdvances DEF ResumeAccepted
<1>4. CASE RecordApplied
  <2>1. Working /\ jnl.stage[req.key] = "accepted"
    BY Zenon, <1>4, WorkFacts DEF RecordApplied, Working, StepStages
  <2> QED
    BY <1>1, <1>4, <2>1, WorkFacts, MarkAdvances DEF RecordApplied, Advances
<1>5. CASE RecordFailed
  <2>1. Working /\ jnl.stage[req.key] \in {"accepted", "applied"}
    BY Zenon, <1>5, WorkFacts DEF RecordFailed, Working, StepStages
  <2> QED
    BY <1>1, <1>5, <2>1, WorkFacts, MarkAdvances DEF RecordFailed, Advances
<1>6. CASE Commit
  <2>1. Working /\ jnl.stage[req.key] = "applied"
    BY Zenon, <1>6, WorkFacts DEF Commit, Working, StepStages
  <2> QED
    BY <1>1, <1>6, <2>1, WorkFacts, MarkAdvances DEF Commit, Advances
<1>7. CASE RecordRecovered
  <2>1. Working /\ jnl.stage[req.key] = "failed"
    BY Zenon, <1>7, WorkFacts DEF RecordRecovered, Working, StepStages
  <2> QED
    BY <1>1, <1>7, <2>1, WorkFacts, MarkAdvances DEF RecordRecovered, Advances
<1>8. ASSUME NEW u \in Uids, Rebind(u) PROVE Advanced
  BY SMTT(30), <1>8 DEF Rebind, AppendThen, Append, AppendError, Rebinding, Advanced
<1>9. CASE Crash \/ PodRestart
  <2>1. jnl' \in {jnl, disk} /\ DiskRel(jnl, disk)
    BY Zenon, <1>9 DEF Crash, PodRestart, Open, IInv, JournalPart
  <2> QED
    BY Zenon, <2>1 DEF DiskRel, Advanced
<1> QED
  BY Zenon, <1>2, <1>3, <1>4, <1>5, <1>6, <1>7, <1>8, <1>9 DEF Next, vars, ResumeCommitted,
     ResumeFailed, ResumeApplied, BootActive, Reload, Observe, WriteCheckpoint, Recover,
     CheckpointRecovery, Reassert, Drift, BootCheckpoint, BootConfigMap

(* Stages only advance, across crashes and lost or late journal lines. *)
THEOREM StagesOnlyAdvance == Spec => StagesAdvance
<1>1. Advanced <=> \A k \in Keys : jnl'.stage[k] # jnl.stage[k] =>
                     Advances(jnl.stage[k], jnl'.stage[k])
  BY Zenon DEF Advanced
<1>2. IInv /\ [Next]_vars => [\A k \in Keys : jnl'.stage[k] # jnl.stage[k] =>
                                Advances(jnl.stage[k], jnl'.stage[k])]_jnl
  BY Zenon, <1>1, StepAdvances
<1> QED
  BY <1>2, Invariance, PTL DEF Spec, StagesAdvance

(* What a boot may start FRR with. *)
SafeBoot ==
  pc = "boot" /\ frr' # Other =>
    /\ frr' = req'.rev
    /\ IF Failed(jnl, req'.key)
       THEN frr' = jnl.entry[req'.key].recovery.target
       ELSE jnl.stage[req'.key] # "none" => frr' = jnl.entry[req'.key].rev
    /\ jnl.newest # NoKey =>
         /\ ~jnl.entry[jnl.newest].recovery.retired
         /\ ~RevokedOrigination(jnl.entry[jnl.newest].recovery, frr')

(* Boot starts only what the journal allows. *)
THEOREM BootsSafely == Spec => BootSafe
<1>1. IInv /\ [Next]_vars => [SafeBoot]_vars
  <2> SUFFICES ASSUME IInv, Next, pc = "boot", frr' # Other PROVE SafeBoot
    BY Zenon DEF SafeBoot
  <2>1. frr = Other
    BY Zenon DEF IInv, RestType
  <2>2. BootCheckpoint \/ \E q \in Requests : BootActive(q)
    BY Zenon, <2>1 DEF Next, ActivateNew, ResumeCommitted, ResumeFailed, ResumeApplied,
       ResumeAccepted, Redelivery, Reload, RecordApplied, RecordFailed, Observe, Commit,
       WriteCheckpoint, Recover, CheckpointRecovery, RecordRecovered, Reassert, Rebind,
       Crash, Drift, PodRestart, BootConfigMap
  <2>3. CASE BootCheckpoint
    <3>1. cp \in Checkpoint /\ cp # NoCheckpoint /\ CheckpointAllowed
          /\ frr' = cp.rev /\ req' = Booting(cp.key, cp.rev)
      BY Zenon, <2>3 DEF IInv, RestType, BootCheckpoint, CheckpointAllowed, Continue
    <3>2. req'.key = cp.key /\ req'.rev = cp.rev
      BY Zenon, <3>1, BootingType DEF Checkpoint
    <3>3. Vouches(jnl, cp)
      BY Zenon, <3>1 DEF IInv, JournalPart, Good, CpInv
    <3> QED
      BY Zenon, <3>1, <3>2, <3>3 DEF SafeBoot, Vouches, Failed, CheckpointAllowed
  <2>4. ASSUME NEW q \in Requests, BootActive(q) PROVE SafeBoot
    <3>1. q.key \in Keys /\ q.rev \in Revs /\ q.recovery \in Recovery
      BY Zenon, RecoveriesAssumption DEF Requests
    <3>2. frr' = q.rev /\ req'.key = q.key /\ req'.rev = q.rev /\ StartAllowed(q)
      BY Zenon, <2>4, <3>1, BootingType DEF BootActive, Continue
    <3>3. ~Failed(jnl, q.key) /\ (jnl.stage[q.key] # "none" => jnl.entry[q.key].rev = q.rev)
      BY Zenon, <3>2 DEF StartAllowed
    <3>4. ASSUME jnl.newest # NoKey
          PROVE  /\ ~jnl.entry[jnl.newest].recovery.retired
                 /\ ~RevokedOrigination(jnl.entry[jnl.newest].recovery, q.rev)
      <4> DEFINE journaled == jnl.entry[jnl.newest].recovery
                 merged == MergeRecovery(journaled, q.recovery)
      <4>1. jnl \in Journal /\ jnl.newest \in Keys
        BY Zenon, <3>4 DEF IInv, JournalPart, Good, Journal
      <4>2. journaled \in Recovery
        BY Zenon, <4>1 DEF Journal, Entry
      <4>3. ~merged.retired /\ ~RevokedOrigination(merged, q.rev)
        BY Zenon, <3>2, <3>4 DEF StartAllowed
      <4>4. merged.retired = (journaled.retired \/ q.recovery.retired)
            /\ merged.revoked = journaled.revoked \cup q.recovery.revoked
        BY Zenon, <4>2 DEF MergeRecovery, Recovery
      <4> HIDE DEF merged, journaled
      <4>5. ~journaled.retired /\ ~RevokedOrigination(journaled, q.rev)
        BY Zenon, <4>3, <4>4 DEF RevokedOrigination
      <4> QED
        BY Zenon, <4>5 DEF journaled
    <3> QED
      BY Zenon, <3>2, <3>3, <3>4 DEF SafeBoot
  <2> QED
    BY Zenon, <2>2, <2>3, <2>4
<1> QED
  BY <1>1, Invariance, PTL DEF Spec, BootSafe, SafeBoot
-----------------------------------------------------------------------------
(* The Activator's use of its journal. *)

(* Marking the bound deployment's highest epoch with a next stage is one of *)
(* the appends the journal takes.                                           *)
LEMMA MarkGrows ==
  ASSUME NEW k \in Keys, jnl.bound = k[1], IsHigh(jnl, k),
         NEW s, s \in NextStages(jnl.stage[k]),
         NEW step, NEW q, AppendThen(Marking(jnl, k, s), step, q)
  PROVE  JournalNext
<1>1. Marking(jnl, k, s) \in Grown(jnl)
  <2> DEFINE ks == {l \in Keys : jnl.bound = l[1] /\ IsHigh(jnl, l)}
  <2>1. k \in ks
    BY Zenon
  <2>2. Marking(jnl, k, s) \in {Marking(jnl, k, t) : t \in NextStages(jnl.stage[k])}
    BY Zenon
  <2>3. Marking(jnl, k, s) \in UNION {{Marking(jnl, l, t) : t \in NextStages(jnl.stage[l])} : l \in ks}
    <3> HIDE DEF ks
    <3> QED
      BY Zenon, <2>1, <2>2
  <2>4. Marking(jnl, k, s) \in Markings(jnl)
    BY Zenon, <2>3 DEF Markings
  <2> QED
    BY Zenon, <2>4 DEF Grown
<1>2. Append(Marking(jnl, k, s)) \/ AppendError(Marking(jnl, k, s))
  BY Zenon DEF AppendThen
<1> QED
  BY Zenon, <1>1, <1>2 DEF JournalNext

(* The stages that follow one another. *)
LEMMA StagesFollow ==
  /\ "applied" \in NextStages("accepted") /\ "failed" \in NextStages("accepted")
  /\ "failed" \in NextStages("applied") /\ "committed" \in NextStages("applied")
  /\ "recovered" \in NextStages("failed")
  BY SMT DEF NextStages

(* A step appends what the journal takes, reopens it, or leaves it alone. *)
LEMMA StepUsesJournal ==
  ASSUME IInv, [Next]_vars
  PROVE  JournalNext \/ UNCHANGED <<jnl, disk, broken>>
<1>1. jnl \in Journal
  BY Zenon DEF IInv, JournalPart, Good
<1>2. ASSUME NEW q \in Requests, ActivateNew(q) PROVE JournalNext
  <2> DEFINE e == [rev |-> q.rev, prev |-> cp # NoCheckpoint, recovery |-> q.recovery]
  <2>1. q.key \in Keys /\ q.rev \in Revs /\ q.recovery \in Recovery
    BY Zenon, RecoveriesAssumption DEF Requests
  <2>2. (cp # NoCheckpoint) \in BOOLEAN
    OBVIOUS
  <2>3. e \in Entry
    BY Zenon, <2>1, <2>2 DEF Entry
  <2>4. e.rev = q.rev /\ e.prev = (cp # NoCheckpoint) /\ e.recovery = q.recovery
    BY Zenon
  <2>5. BoundTo(jnl, q.key[1]) /\ AboveHigh(jnl, q.key)
        /\ AppendThen(Accepting(jnl, q.key, q.rev, cp # NoCheckpoint, q.recovery), "reload", q)
    BY Zenon, <1>2 DEF ActivateNew
  <2> HIDE DEF e
  <2>6. Accepting(jnl, q.key, e.rev, e.prev, e.recovery) \in Grown(jnl)
    <3>1. q.key \in {k \in Keys : BoundTo(jnl, k[1]) /\ AboveHigh(jnl, k)}
      BY Zenon, <2>1, <2>5
    <3>2. Accepting(jnl, q.key, e.rev, e.prev, e.recovery) \in Acceptances(jnl)
      BY SMT, <2>3, <3>1 DEF Acceptances
    <3> QED
      BY Zenon, <3>2 DEF Grown
  <2>7. /\ Accepting(jnl, q.key, q.rev, cp # NoCheckpoint, q.recovery) \in Grown(jnl)
        /\ \/ Append(Accepting(jnl, q.key, q.rev, cp # NoCheckpoint, q.recovery))
           \/ AppendError(Accepting(jnl, q.key, q.rev, cp # NoCheckpoint, q.recovery))
    BY Zenon, <2>4, <2>5, <2>6 DEF AppendThen
  <2> QED
    BY Zenon, <2>7 DEF JournalNext
<1>3. ASSUME NEW q \in Requests, ResumeAccepted(q)
      PROVE  JournalNext \/ UNCHANGED <<jnl, disk, broken>>
  <2>1. Redelivery(q) /\ jnl.stage[q.key] = "accepted"
    BY Zenon, <1>3 DEF ResumeAccepted
  <2>2. q.key \in Keys /\ IsHigh(jnl, q.key) /\ jnl.bound = q.key[1]
    BY Zenon, <2>1, RedeliveryFacts
  <2>3. "applied" \in NextStages(jnl.stage[q.key]) /\ "failed" \in NextStages(jnl.stage[q.key])
    BY Zenon, <2>1, StagesFollow
  <2> QED
    BY Zenon, <1>3, <2>2, <2>3, MarkGrows DEF ResumeAccepted
<1>4. ASSUME Working
      PROVE  req.key \in Keys /\ IsHigh(jnl, req.key) /\ jnl.bound = req.key[1]
             /\ jnl.stage[req.key] \in StepStages(pc)
  BY Zenon, <1>4 DEF IInv, WorkInv
<1>5. CASE RecordApplied
  <2>1. Working /\ StepStages(pc) = {"accepted"}
    BY Zenon, <1>5 DEF RecordApplied, Working, StepStages
  <2>2. "applied" \in NextStages(jnl.stage[req.key])
    BY Zenon, <1>4, <2>1, StagesFollow
  <2> QED
    BY Zenon, <1>4, <1>5, <2>1, <2>2, MarkGrows DEF RecordApplied
<1>6. CASE RecordFailed
  <2>1. Working /\ StepStages(pc) = {"accepted", "applied"}
    BY Zenon, <1>6 DEF RecordFailed, Working, StepStages
  <2>2. "failed" \in NextStages(jnl.stage[req.key])
    BY Zenon, <1>4, <2>1, StagesFollow
  <2> QED
    BY Zenon, <1>4, <1>6, <2>1, <2>2, MarkGrows DEF RecordFailed
<1>7. CASE Commit
  <2>1. Working /\ StepStages(pc) = {"applied"}
    BY Zenon, <1>7 DEF Commit, Working, StepStages
  <2>2. "committed" \in NextStages(jnl.stage[req.key])
    BY Zenon, <1>4, <2>1, StagesFollow
  <2> QED
    BY Zenon, <1>4, <1>7, <2>1, <2>2, MarkGrows DEF Commit
<1>8. CASE RecordRecovered
  <2>1. Working /\ StepStages(pc) = {"failed"}
    BY Zenon, <1>8 DEF RecordRecovered, Working, StepStages
  <2>2. "recovered" \in NextStages(jnl.stage[req.key])
    BY Zenon, <1>4, <2>1, StagesFollow
  <2> QED
    BY Zenon, <1>4, <1>8, <2>1, <2>2, MarkGrows DEF RecordRecovered
<1>9. ASSUME NEW u \in Uids, Rebind(u) PROVE JournalNext
  <2>1. ~BoundTo(jnl, u)
    BY <1>1, <1>9, BoundsAssumption DEF Rebind, BoundTo, Uids, Journal
  <2>2. Rebinding(jnl, u) \in Grown(jnl)
    <3>1. u \in {v \in Uids : ~BoundTo(jnl, v)}
      BY Zenon, <2>1
    <3>2. Rebinding(jnl, u) \in Rebindings(jnl)
      BY Zenon, <3>1 DEF Rebindings
    <3> QED
      BY Zenon, <3>2 DEF Grown
  <2>3. Append(Rebinding(jnl, u)) \/ AppendError(Rebinding(jnl, u))
    BY Zenon, <1>9 DEF Rebind, AppendThen
  <2> QED
    BY Zenon, <2>2, <2>3 DEF JournalNext
<1>10. CASE Crash \/ PodRestart
  BY Zenon, <1>10 DEF Crash, PodRestart, JournalNext
<1> QED
  BY Zenon, <1>2, <1>3, <1>5, <1>6, <1>7, <1>8, <1>9, <1>10 DEF Next, vars, ResumeCommitted,
     ResumeFailed, ResumeApplied, BootActive, Reload, Observe, WriteCheckpoint, Recover,
     CheckpointRecovery, Reassert, Drift, BootCheckpoint, BootConfigMap

(* The Activator appends to its journal only what the journal file's model  *)
(* lets the agent append, in the order it lets it: the file is checked      *)
(* against every caller the Activator can be.                               *)
THEOREM AppendsAllowed == Spec => JournalSpec
<1>1. Init => JournalInit
  BY Zenon DEF Init, JournalInit
<1>2. IInv /\ [Next]_vars => [JournalNext]_<<jnl, disk, broken>>
  BY Zenon, StepUsesJournal
<1> QED
  BY <1>1, <1>2, Invariance, PTL DEF Spec, JournalSpec
=============================================================================
