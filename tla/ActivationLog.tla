--------------------------- MODULE ActivationLog ---------------------------
(***************************************************************************)
(* The activation journal as a file (internal/fabricconfig/activation/     *)
(* journal.go): Append's write, fsync and undo with the failures each can  *)
(* have, OpenJournal's treatment of a torn last line, crashes of the       *)
(* process and of the machine, and the queries over the records.           *)
(*                                                                         *)
(* Abstractions.  A file is its complete lines and an unterminated tail:   *)
(* `torn' fails its checksum, `bare' lacks only its newline.  A line fused *)
(* with a tail decodes to Corrupt.  `media' is the set of contents a power *)
(* loss may leave, which a successful fsync narrows to the file's own.     *)
(* Sequence numbers and times are left out: a record's place is its number.*)
(***************************************************************************)
EXTENDS JournalSummary, Sequences, FiniteSets, FiniteSetsExt

CONSTANTS MaxRecords,  \* bound: records in the log
          MaxMedia,    \* bound: contents in doubt when an append starts
          Entries,     \* the Accepted records' contents
          Handoffs,    \* ConfigMap UIDs a handoff may name
          NoHandoff

(* What is accepted has the form of an Accepted record. *)
ASSUME EntriesAssumption == Entries \subseteq Entry

CRD == "CRD"
ConfigMap == "ConfigMap"
Sources == {CRD, ConfigMap}

(* A record; the key of a rebind has no epoch, a source record no key. *)
Record == [type : (Stages \ {"none"}) \cup {"source", "rebind"},
           key : Keys \cup {<<u, 0>> : u \in Uids} \cup {NoKey},
           entry : Entry,
           source : Sources \cup {""},
           handoff : Handoffs \cup {NoHandoff}]

Blank == [type |-> "source", key |-> NoKey, entry |-> NoEntry,
          source |-> "", handoff |-> NoHandoff]
AcceptedRecord(k, e) == [Blank EXCEPT !.type = "accepted", !.key = k, !.entry = e]
StageRecord(k, s) == [Blank EXCEPT !.type = s, !.key = k]
RebindRecord(u) == [Blank EXCEPT !.type = "rebind", !.key = <<u, 0>>]
SourceRecord(s, h) == [Blank EXCEPT !.source = s, !.handoff = h]
Corrupt == [Blank EXCEPT !.type = "corrupt"]

VARIABLES file,    \* the journal file as the kernel sees it
          media,   \* what a power loss may leave of it
          linked,  \* whether its directory entry is durable
          recs,    \* Journal.records
          broken,  \* Journal.broken
          pc,      \* where Append or OpenJournal is
          cur,     \* the record Append writes
          base,    \* the file as Append found it (info.Size)
          acked    \* history: the log when Append last returned it durable

vars == <<file, media, linked, recs, broken, pc, cur, base, acked>>

Empty == [whole |-> <<>>, tail |-> "none", last |-> Blank]
-----------------------------------------------------------------------------
(* The file's contents. *)

(* A complete line written at the end; it fuses with what is left there. *)
WriteLine(f, r) ==
  [whole |-> Append(f.whole, IF f.tail = "none" THEN r ELSE Corrupt),
   tail |-> "none", last |-> Blank]

(* A write reaches some point of the line: one of these in turn. *)
Reached(f, r) ==
  LET cut(t) == [whole |-> f.whole, tail |-> t, last |-> r]
  IN <<f, cut("torn"), cut("bare"), WriteLine(f, r)>>

(* What OpenJournal reads: an unterminated last line counts if it decodes. *)
Decoded(f) == IF f.tail = "bare" THEN Append(f.whole, f.last) ELSE f.whole

IsCorrupt(f) == \E i \in DOMAIN f.whole : f.whole[i] = Corrupt
-----------------------------------------------------------------------------
(* The queries: loops over the records, newest first unless noted. *)

Newest(s, P(_)) ==
  LET at == {i \in DOMAIN s : P(s[i])}
  IN IF at = {} THEN Blank ELSE s[Max(at)]

IsStage(r) == r.type \notin {"source", "rebind"}

HighWater(s, u) ==
  LET accepted == {i \in DOMAIN s : s[i].type = "accepted" /\ s[i].key[1] = u}
  IN IF accepted = {} THEN 0 ELSE Max({s[i].key[2] : i \in accepted})

(* Mutant: the records of another deployment's epoch count too. *)
LastForEpochNumber(s, k) == Newest(s, LAMBDA r : r.key[2] = k[2] /\ IsStage(r))
LastForEpoch(s, k) == Newest(s, LAMBDA r : r.key = k /\ IsStage(r))

FailedEver(s, k) ==
  \E i \in DOMAIN s : s[i].key = k /\ s[i].type \in {"failed", "recovered"}

(* The first Accepted record of a key. *)
Accepted(s, k) ==
  LET at == {i \in DOMAIN s : s[i].key = k /\ s[i].type = "accepted"}
  IN IF at = {} THEN NoEntry ELSE s[Min(at)].entry

NeedsRecovery(s, k) == LastForEpoch(s, k).type = "failed"

LatestRecovery(s) == Newest(s, LAMBDA r : r.type = "accepted").entry.recovery

BoundDeployment(s) == Newest(s, LAMBDA r : r.type \in {"accepted", "rebind"}).key[1]

Source(s) == Newest(s, LAMBDA r : r.type = "source").source
Handoff(s) == Newest(s, LAMBDA r : r.type = "source").handoff

(* Epochs: the epochs of the n distinct ones journaled last. *)
ReportedEpochs(s, u, n) ==
  LET of(e) == {i \in DOMAIN s : s[i].key = <<u, e>> /\ IsStage(s[i])}
      all == {e \in Epochs : of(e) # {}}
  IN {e \in all : Cardinality({d \in all : Max(of(d)) > Max(of(e))}) < n}
-----------------------------------------------------------------------------
(* What the agent may append to a log: the guards of Activate, Resume, bind *)
(* and SetSourceHandoff.                                                    *)
MayAccept(s, k) == BoundDeployment(s) \in {0, k[1]} /\ k[2] > HighWater(s, k[1])

NewAcceptances(s) ==
  {AcceptedRecord(k, e) : k \in {k \in Keys : MayAccept(s, k)}, e \in Entries}
NewStages(s) ==
  UNION {{StageRecord(k, t) : t \in NextStages(LastForEpoch(s, k).type)} :
           k \in {k \in Keys : BoundDeployment(s) = k[1] /\ HighWater(s, k[1]) = k[2]}}
NewRebinds(s) == {RebindRecord(u) : u \in {u \in Uids : BoundDeployment(s) \notin {0, u}}}
NewSources(s) ==
  IF Source(s) = CRD THEN {SourceRecord(ConfigMap, h) : h \in Handoffs}
  ELSE {SourceRecord(CRD, NoHandoff)}

Appendable(s) == NewAcceptances(s) \cup NewStages(s) \cup NewRebinds(s) \cup NewSources(s)
-----------------------------------------------------------------------------
(* Append. *)

Begin ==
  /\ pc = "idle"
  /\ ~broken
  /\ Len(recs) < MaxRecords
  /\ Cardinality(media) <= MaxMedia
  /\ \E r \in Appendable(recs) : cur' = r
  /\ base' = file
  /\ pc' = "write"
  /\ UNCHANGED <<file, media, linked, recs, broken, acked>>

Write ==
  /\ pc = "write"
  /\ \E n \in 1..4 :
       /\ file' = Reached(file, cur)[n]
       /\ media' = media \cup {Reached(file, cur)[m] : m \in 1..n}
       /\ pc' = IF n = 4 THEN "sync" ELSE "undo"
  /\ UNCHANGED <<linked, recs, broken, cur, base, acked>>

(* What fsync makes durable: the contents, reachable once the entry is. *)
Synced(f) == {f} \cup (IF linked THEN {} ELSE {Empty})

Sync ==
  /\ pc = "sync"
  /\ \/ /\ pc' = "close"
        /\ media' = Synced(file)
        /\ recs' = Append(recs, cur)
     \/ pc' = "undo" /\ UNCHANGED <<media, recs>>
  /\ UNCHANGED <<file, linked, broken, cur, base, acked>>

(* The failed append is cut back off; if that fails the journal is broken. *)
Undo ==
  /\ pc = "undo"
  /\ \/ /\ file' = base
        /\ media' = media \cup {base}
        /\ pc' = "resync"
        /\ UNCHANGED broken
     \/ /\ broken' = TRUE
        /\ pc' = "idle"
        /\ UNCHANGED <<file, media>>
  /\ UNCHANGED <<linked, recs, cur, base, acked>>

Resync ==
  /\ pc = "resync"
  /\ \/ media' = Synced(file) /\ UNCHANGED broken
     \/ broken' = TRUE /\ UNCHANGED media
  /\ pc' = "idle"
  /\ UNCHANGED <<file, linked, recs, cur, base, acked>>

(* Mutant: the directory is not synced. *)
CloseNoDirSync ==
  /\ pc = "close"
  /\ acked' = recs
  /\ pc' = "idle"
  /\ UNCHANGED <<file, media, linked, recs, broken, cur, base>>

(* Close and syncDir. *)
Close ==
  /\ pc = "close"
  /\ \/ /\ linked' = TRUE
        /\ media' = {file}
        /\ acked' = recs
        /\ UNCHANGED broken
     \/ broken' = TRUE /\ UNCHANGED <<media, linked, acked>>
  /\ pc' = "idle"
  /\ UNCHANGED <<file, recs, cur, base>>
-----------------------------------------------------------------------------
(* OpenJournal. *)

(* Mutant: an unterminated last line is always dropped. *)
OpenDropsLast ==
  /\ pc = "down"
  /\ ~IsCorrupt(file)
  /\ recs' = file.whole
  /\ pc' = IF file.tail = "none" THEN "idle" ELSE "rewrite"
  /\ UNCHANGED <<file, media, linked, broken, cur, base, acked>>

(* Mutant: the file is not rewritten without its torn or bare line. *)
OpenKeepsTail ==
  /\ pc = "down"
  /\ ~IsCorrupt(file)
  /\ recs' = Decoded(file)
  /\ pc' = "idle"
  /\ UNCHANGED <<file, media, linked, broken, cur, base, acked>>

Open ==
  /\ pc = "down"
  /\ ~IsCorrupt(file)
  /\ recs' = Decoded(file)
  /\ pc' = IF file.tail = "none" THEN "idle" ELSE "rewrite"
  /\ UNCHANGED <<file, media, linked, broken, cur, base, acked>>

(* rewrite, by writeAtomic: the records read so far replace the file, or   *)
(* an error before or after the rename leaves OpenJournal to be retried.   *)
Rewrite ==
  /\ pc = "rewrite"
  /\ LET new == [whole |-> recs, tail |-> "none", last |-> Blank] IN
       \/ file' = new /\ media' = {new} /\ linked' = TRUE /\ pc' = "idle" /\ UNCHANGED recs
       \/ /\ file' \in {file, new}
          /\ media' = media \cup {file'}
          /\ pc' = "down"
          /\ recs' = <<>>
          /\ UNCHANGED linked
  /\ UNCHANGED <<broken, cur, base, acked>>

Stopped ==
  /\ pc' = "down"
  /\ recs' = <<>>
  /\ broken' = FALSE
  /\ cur' = Blank
  /\ base' = Empty

(* The process or its pod stops: the file keeps what was written. *)
Crash ==
  /\ pc # "down"
  /\ Stopped
  /\ UNCHANGED <<file, media, linked, acked>>

PowerLoss ==
  /\ Stopped
  /\ file' \in media
  /\ media' = {file'}
  /\ UNCHANGED <<linked, acked>>
-----------------------------------------------------------------------------
Init ==
  /\ file = Empty
  /\ media = {Empty}
  /\ linked = FALSE
  /\ recs = <<>>
  /\ broken = FALSE
  /\ pc = "idle"
  /\ cur = Blank
  /\ base = Empty
  /\ acked = <<>>

Next ==
  \/ Begin \/ Write \/ Sync \/ Undo \/ Resync \/ Close
  \/ Open \/ Rewrite \/ Crash \/ PowerLoss

Spec == Init /\ [][Next]_vars
-----------------------------------------------------------------------------
(* Properties. *)

Contents == [whole : Seq(Record \cup {Corrupt}), tail : {"none", "torn", "bare"},
             last : Record]
TypeOK ==
  /\ file \in Contents
  /\ media \subseteq Contents
  /\ linked \in BOOLEAN
  /\ recs \in Seq(Record)
  /\ broken \in BOOLEAN
  /\ pc \in {"idle", "write", "sync", "undo", "resync", "close", "down", "rewrite"}
  /\ cur \in Record
  /\ base \in Contents
  /\ acked \in Seq(Record)

(* Whatever a failed append, a crash or a power loss leaves, the next open  *)
(* finds at most a torn last line: OpenJournal never reports ErrCorrupt for *)
(* damage the journal did to itself.                                        *)
NeverCorrupt == \A f \in media \cup {file} : ~IsCorrupt(f)

(* The file implements the log its callers rely on; while the process is   *)
(* down, a reader is whoever opens the file next.                          *)
Opened == pc \notin {"down", "rewrite"}
Log == INSTANCE DurableLog
         WITH log <- IF Opened THEN recs ELSE Decoded(file), up <- Opened
Durable == Log!Spec

(* A record whose Append returned without error is in the journal after any *)
(* crash, power loss, failed append or failed rewrite, with everything      *)
(* before it.                                                               *)
AckedSurvive == \A f \in media \cup {file} : Log!Keeps(Decoded(f))
=============================================================================
