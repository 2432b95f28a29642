------------------------ MODULE ActivationLogProofs -------------------------
(***************************************************************************)
(* Of modules ActivationLog and ActivationQueries, for logs of any length  *)
(* and any number of failed appends, crashes and power losses: the journal *)
(* file never damages itself, keeps what it acknowledged and implements    *)
(* DurableLog; its queries answer what the summary of its records says;    *)
(* and to the Activator it is the journal of module SummaryJournal.        *)
(*                                                                         *)
(* The invariant follows one append through the file: what the file and    *)
(* memory hold at each of its steps (AppendInv), and that whatever a power *)
(* loss may leave begins with what was acknowledged (AckInv).  LogInv adds *)
(* that every log the file may hold was written record by record as the    *)
(* agent writes them, DoubtInv what is known of an append that failed.     *)
(***************************************************************************)
EXTENDS ActivationQueries, WellFoundedInduction, TLAPS

(* IsPrefix of SequencesExt; that module's other definitions would slow     *)
(* every obligation here.                                                   *)
Begins(s, t) == Len(t) >= Len(s) /\ SubSeq(t, 1, Len(s)) = s

(* A file that holds records only. *)
Clean == [whole : Seq(Record), tail : {"none", "torn", "bare"}, last : Record]

CleanInv ==
  /\ file \in Clean
  /\ media \subseteq Clean
  /\ base \in Clean
  /\ recs \in Seq(Record)
  /\ acked \in Seq(Record)
  /\ cur \in Record
  /\ linked \in BOOLEAN
  /\ broken \in BOOLEAN
  /\ pc \in {"idle", "write", "sync", "undo", "resync", "close", "down", "rewrite"}

Appending == pc \in {"write", "sync", "undo", "resync"}

AppendInv ==
  /\ Appending => base.tail = "none" /\ base.whole = recs
  /\ pc \in {"write", "resync"} => file = base
  /\ pc = "sync" => file = WriteLine(base, cur)
  /\ pc = "close" \/ (pc = "idle" /\ ~broken) => file.tail = "none" /\ file.whole = recs
  /\ pc = "rewrite" => recs = Decoded(file)
  /\ Opened => Decoded(file) \in {recs, Append(recs, cur)}

AckInv ==
  /\ \A f \in media \cup {file} : Begins(acked, f.whole)
  /\ Appending => Begins(acked, base.whole)
  /\ ~linked => acked = <<>>

IInv == CleanInv /\ AppendInv /\ AckInv
-----------------------------------------------------------------------------
(* Prefixes. *)

(* A prefix stays one when the log grows. *)
LEMMA PrefixAppend ==
  ASSUME NEW S, NEW s \in Seq(S), NEW t \in Seq(S), NEW x \in S, Begins(s, t)
  PROVE  Begins(s, Append(t, x))
  BY DEF Begins

(* A log begins with itself, and with nothing. *)
LEMMA PrefixSelf ==
  ASSUME NEW S, NEW s \in Seq(S)
  PROVE  Begins(s, s) /\ Begins(<<>>, s)
  BY DEF Begins

(* What it means for DurableLog that a log has one record more. *)
LEMMA AppendFacts ==
  ASSUME NEW S, NEW t \in Seq(S), NEW x \in S
  PROVE  /\ Append(t, x) \in Seq(S)
         /\ Len(Append(t, x)) = Len(t) + 1
         /\ SubSeq(Append(t, x), 1, Len(t)) = t
         /\ Append(t, x)[Len(Append(t, x))] = x
  OBVIOUS

(* No file begins shorter than empty. *)
LEMMA EmptyLog == <<>> \in Seq(Record)
  OBVIOUS
-----------------------------------------------------------------------------
(* Records and files. *)

(* A fused line is no record; the blank one is, and the empty file is clean. *)
LEMMA BlankFacts ==
  /\ Blank \in Record
  /\ Corrupt \notin Record
  /\ Empty \in Clean
  /\ Empty.whole = <<>>
<1>1. NoEntry \in Entry
  BY Zenon DEF NoEntry, Entry, NoRecovery, Recovery
<1>2. Blank \in Record
  BY Zenon, <1>1 DEF Blank, Record
<1>3. Corrupt.type = "corrupt"
  BY Zenon DEF Corrupt, Blank
<1>4. \A r \in Record : r.type # "corrupt"
  BY DEF Record, Stages
<1>5. Corrupt \notin Record
  BY Zenon, <1>3, <1>4
<1>6. Empty \in Clean /\ Empty.whole = <<>>
  BY Zenon, <1>2, EmptyLog DEF Empty, Clean
<1> QED
  BY Zenon, <1>2, <1>5, <1>6

(* What the agent appends is a record. *)
LEMMA AppendableRecords ==
  ASSUME NEW s, NEW r \in Appendable(s)
  PROVE  r \in Record
<1>1. Blank \in Record
  BY Zenon, BlankFacts
<1>2. ASSUME NEW k \in Keys, NEW e \in Entries PROVE AcceptedRecord(k, e) \in Record
  <2>1. e \in Entry /\ "accepted" \in Stages \ {"none"}
    BY EntriesAssumption DEF Stages
  <2> QED
    BY Zenon, <1>1, <2>1 DEF AcceptedRecord, Record
<1>3. ASSUME NEW k \in Keys, NEW p, NEW t \in NextStages(p) PROVE StageRecord(k, t) \in Record
  <2>1. t \in Stages \ {"none"}
    BY DEF NextStages, Stages
  <2> QED
    BY Zenon, <1>1, <2>1 DEF StageRecord, Record
<1>4. ASSUME NEW u \in Uids PROVE RebindRecord(u) \in Record
  BY Zenon, <1>1 DEF RebindRecord, Record
<1>5. ASSUME NEW c \in Sources, NEW h \in Handoffs \cup {NoHandoff}
      PROVE  SourceRecord(c, h) \in Record
  BY <1>1 DEF SourceRecord, Record
<1>6. CRD \in Sources /\ ConfigMap \in Sources
  BY Zenon DEF Sources
<1>7. CASE r \in NewAcceptances(s)
  <2>1. \E k \in Keys, e \in Entries : r = AcceptedRecord(k, e)
    BY <1>7 DEF NewAcceptances
  <2> QED
    BY Zenon, <1>2, <2>1
<1>8. CASE r \in NewStages(s)
  <2>1. \E k \in Keys : \E t \in NextStages(LastForEpoch(s, k).type) : r = StageRecord(k, t)
    BY Zenon, <1>8 DEF NewStages
  <2> QED
    BY Zenon, <1>3, <2>1
<1>9. CASE r \in NewRebinds(s)
  BY Zenon, <1>4, <1>9 DEF NewRebinds
<1>10. CASE r \in NewSources(s)
  <2>1. (\E h \in Handoffs : r = SourceRecord(ConfigMap, h)) \/ r = SourceRecord(CRD, NoHandoff)
    BY <1>10 DEF NewSources
  <2> QED
    BY Zenon, <1>5, <1>6, <2>1
<1> QED
  BY Zenon, <1>7, <1>8, <1>9, <1>10 DEF Appendable

(* What OpenJournal reads from a clean file begins with its whole lines. *)
LEMMA DecodedFacts ==
  ASSUME NEW f \in Clean
  PROVE  /\ Decoded(f) \in Seq(Record)
         /\ \A a \in Seq(Record) : Begins(a, f.whole) => Begins(a, Decoded(f))
         /\ ~IsCorrupt(f)
<1>1. f.whole \in Seq(Record) /\ f.last \in Record
  BY Zenon DEF Clean
<1>2. \A i \in DOMAIN f.whole : f.whole[i] \in Record
  BY <1>1
<1> QED
  BY Zenon, <1>1, <1>2, AppendFacts, PrefixAppend, BlankFacts DEF Decoded, IsCorrupt

(* Wherever a write of a line to a clean file ends, the file is clean and  *)
(* holds the line, or lacks it.                                            *)
LEMMA ReachedFacts ==
  ASSUME NEW f \in Clean, f.tail = "none", NEW r \in Record, NEW n \in 1..4
  PROVE  /\ Reached(f, r)[n] \in Clean
         /\ Reached(f, r)[n].whole \in {f.whole, Append(f.whole, r)}
         /\ Decoded(Reached(f, r)[n]) \in {f.whole, Append(f.whole, r)}
         /\ n = 4 => Reached(f, r)[n] = WriteLine(f, r)
<1> DEFINE cut(t) == [whole |-> f.whole, tail |-> t, last |-> r]
<1>1. f.whole \in Seq(Record) /\ Append(f.whole, r) \in Seq(Record)
  BY Zenon, AppendFacts DEF Clean
<1>2. Reached(f, r)[n] \in {f, cut("torn"), cut("bare"), WriteLine(f, r)}
      /\ (n = 4 => Reached(f, r)[n] = WriteLine(f, r))
  BY DEF Reached
<1>3. WriteLine(f, r) = [whole |-> Append(f.whole, r), tail |-> "none", last |-> Blank]
  BY Zenon DEF WriteLine
<1>4. ASSUME NEW g \in {f, cut("torn"), cut("bare"), WriteLine(f, r)}
      PROVE  /\ g \in Clean
             /\ g.whole \in {f.whole, Append(f.whole, r)}
             /\ Decoded(g) \in {f.whole, Append(f.whole, r)}
  <2>1. CASE g = f
    BY <2>1 DEF Decoded
  <2>2. ASSUME NEW t \in {"torn", "bare"}, g = cut(t)
        PROVE  g \in Clean /\ g.whole = f.whole /\ Decoded(g) \in {f.whole, Append(f.whole, r)}
    BY Zenon, <1>1, <2>2 DEF Clean, Decoded
  <2>3. CASE g = WriteLine(f, r)
    <3>1. g = [whole |-> Append(f.whole, r), tail |-> "none", last |-> Blank]
      BY Zenon, <1>3, <2>3
    <3>2. g.whole = Append(f.whole, r) /\ g.tail = "none"
      BY Zenon, <3>1
    <3>3. g \in Clean
      BY Zenon, <1>1, <3>1, BlankFacts DEF Clean
    <3> QED
      BY <3>2, <3>3 DEF Decoded
  <2> QED
    BY Zenon, <1>4, <2>1, <2>2, <2>3
<1> QED
  BY Zenon, <1>2, <1>4
-----------------------------------------------------------------------------
(* The steps. *)

(* What the file holds, read back. *)
LEMMA WholeFile ==
  ASSUME NEW f, f.tail = "none"
  PROVE  Decoded(f) = f.whole
  BY DEF Decoded

(* A record is chosen. *)
LEMMA BeginKeeps == ASSUME IInv, Begin PROVE IInv'
<1> USE DEF IInv
<1>1. cur' \in Record
  BY Zenon, AppendableRecords DEF Begin
<1>2. file.tail = "none" /\ file.whole = recs /\ Decoded(file) = recs
  BY Zenon, WholeFile DEF Begin, AppendInv
<1>3. /\ base' = file /\ pc' = "write"
      /\ UNCHANGED <<file, media, linked, recs, broken, acked>>
  BY Zenon DEF Begin
<1>4. CleanInv'
  BY Zenon, <1>1, <1>3 DEF CleanInv
<1>5. AppendInv'
  BY <1>2, <1>3 DEF AppendInv, Appending, Opened, Decoded
<1>6. AckInv'
  BY Zenon, <1>3 DEF AckInv
<1> QED
  BY Zenon, <1>4, <1>5, <1>6

(* The line is written, whole or in part. *)
LEMMA WriteKeeps == ASSUME IInv, Write PROVE IInv'
<1> USE DEF IInv
<1>1. /\ file = base /\ file.tail = "none" /\ file.whole = recs
      /\ file \in Clean /\ cur \in Record /\ acked \in Seq(Record) /\ recs \in Seq(Record)
      /\ Begins(acked, recs)
  BY Zenon DEF Write, AppendInv, CleanInv, AckInv, Appending
<1>2. PICK n \in 1..4 :
        /\ file' = Reached(file, cur)[n]
        /\ media' = media \cup {Reached(file, cur)[m] : m \in 1..n}
        /\ pc' = IF n = 4 THEN "sync" ELSE "undo"
  BY Zenon DEF Write
<1>3. UNCHANGED <<linked, recs, broken, cur, base, acked>>
  BY Zenon DEF Write
<1>4. 1..n \subseteq 1..4
  BY <1>2
<1>5. ASSUME NEW m \in 1..4
      PROVE  /\ Reached(file, cur)[m] \in Clean
             /\ Begins(acked, Reached(file, cur)[m].whole)
  <2>1. Begins(acked, Append(recs, cur))
    BY Zenon, <1>1, PrefixAppend
  <2>2. /\ Reached(file, cur)[m] \in Clean
        /\ Reached(file, cur)[m].whole \in {file.whole, Append(file.whole, cur)}
    BY Zenon, <1>1, ReachedFacts
  <2> QED
    BY Zenon, <1>1, <2>1, <2>2
<1>6. CleanInv'
  <2>1. file' \in Clean /\ media' \subseteq Clean
    BY Zenon, <1>2, <1>4, <1>5 DEF CleanInv
  <2>2. pc' \in {"sync", "undo"}
    BY Zenon, <1>2
  <2> QED
    BY Zenon, <1>3, <2>1, <2>2 DEF CleanInv
<1>7. AppendInv'
  <2>1. pc' \in {"sync", "undo"} /\ (pc' = "sync" => n = 4)
    BY <1>2
  <2>2. Decoded(file') \in {recs, Append(recs, cur)} /\ (n = 4 => file' = WriteLine(base, cur))
    BY Zenon, <1>1, <1>2, ReachedFacts
  <2> QED
    BY <1>1, <1>3, <2>1, <2>2 DEF AppendInv, Appending, Opened, Decoded, WriteLine
<1>8. AckInv'
  <2>1. ASSUME NEW f \in media' \cup {file'} PROVE Begins(acked, f.whole)
    BY Zenon, <1>2, <1>4, <1>5, <2>1 DEF AckInv
  <2> QED
    BY Zenon, <1>1, <1>3, <2>1 DEF AckInv
<1> QED
  BY Zenon, <1>6, <1>7, <1>8

(* fsync succeeds, or the append is to be undone. *)
LEMMA SyncKeeps == ASSUME IInv, Sync PROVE IInv'
<1> USE DEF IInv
<1>1. /\ base.tail = "none" /\ base.whole = recs /\ file = WriteLine(base, cur)
      /\ Begins(acked, base.whole)
      /\ file \in Clean /\ cur \in Record /\ acked \in Seq(Record) /\ recs \in Seq(Record)
      /\ UNCHANGED <<file, linked, broken, cur, base, acked>>
  BY Zenon DEF Sync, AppendInv, CleanInv, AckInv, Appending
<1>2. file.tail = "none" /\ file.whole = Append(recs, cur) /\ Decoded(file) = Append(recs, cur)
  <2>1. file = [whole |-> Append(recs, cur), tail |-> "none", last |-> Blank]
    BY Zenon, <1>1 DEF WriteLine
  <2>2. file.tail = "none" /\ file.whole = Append(recs, cur)
    BY Zenon, <2>1
  <2> QED
    BY Zenon, <2>2, WholeFile
<1>3. CASE pc' = "close" /\ media' = Synced(file) /\ recs' = Append(recs, cur)
  <2>1. recs' \in Seq(Record)
    BY Zenon, <1>1, <1>3, AppendFacts
  <2>2. ASSUME NEW f \in media' PROVE f = file \/ (f = Empty /\ ~linked)
    BY Zenon, <1>3, <2>2 DEF Synced
  <2>3. CleanInv'
    BY Zenon, <1>1, <1>3, <2>1, <2>2, BlankFacts DEF CleanInv
  <2>4. AppendInv'
    BY <1>1, <1>2, <1>3 DEF AppendInv, Appending, Opened, Decoded
  <2>5. ASSUME NEW f \in media' PROVE Begins(acked, f.whole)
    BY Zenon, <1>1, <2>2, <2>5, BlankFacts, PrefixSelf DEF AckInv
  <2>6. AckInv'
    <3>1. ~Appending'
      BY <1>3 DEF Appending
    <3> QED
      BY Zenon, <1>1, <2>5, <3>1 DEF AckInv
  <2> QED
    BY Zenon, <2>3, <2>4, <2>6
<1>4. CASE pc' = "undo" /\ UNCHANGED <<media, recs>>
  <2>1. CleanInv'
    BY Zenon, <1>1, <1>4 DEF CleanInv
  <2>2. AppendInv'
    BY <1>1, <1>2, <1>4 DEF AppendInv, Appending, Opened, Decoded
  <2>3. AckInv'
    BY Zenon, <1>1, <1>4 DEF AckInv
  <2> QED
    BY Zenon, <2>1, <2>2, <2>3
<1> QED
  BY Zenon, <1>3, <1>4 DEF Sync

(* The file goes back to what it was, or the journal is broken. *)
LEMMA UndoKeeps == ASSUME IInv, Undo PROVE IInv'
<1> USE DEF IInv
<1>1. /\ base.tail = "none" /\ base.whole = recs /\ base \in Clean
      /\ Begins(acked, base.whole)
      /\ Decoded(file) \in {recs, Append(recs, cur)}
      /\ UNCHANGED <<linked, recs, cur, base, acked>>
  BY Zenon DEF Undo, AppendInv, CleanInv, AckInv, Appending, Opened
<1>2. CASE file' = base /\ media' = media \cup {base} /\ pc' = "resync" /\ UNCHANGED broken
  <2>1. CleanInv'
    BY Zenon, <1>1, <1>2 DEF CleanInv
  <2>2. AppendInv'
    BY <1>1, <1>2 DEF AppendInv, Appending, Opened, Decoded
  <2>3. AckInv'
    BY Zenon, <1>1, <1>2 DEF AckInv
  <2> QED
    BY Zenon, <2>1, <2>2, <2>3
<1>3. CASE broken' = TRUE /\ pc' = "idle" /\ UNCHANGED <<file, media>>
  <2>1. CleanInv'
    BY Zenon, <1>1, <1>3 DEF CleanInv
  <2>2. AppendInv'
    BY <1>1, <1>3 DEF AppendInv, Appending, Opened, Decoded
  <2>3. AckInv'
    <3>1. ~Appending'
      BY <1>3 DEF Appending
    <3> QED
      BY Zenon, <1>1, <1>3, <3>1 DEF AckInv
  <2> QED
    BY Zenon, <2>1, <2>2, <2>3
<1> QED
  BY Zenon, <1>2, <1>3 DEF Undo

(* The second fsync, of the cut back file. *)
LEMMA ResyncKeeps == ASSUME IInv, Resync PROVE IInv'
<1> USE DEF IInv
<1>1. /\ file = base /\ base.tail = "none" /\ base.whole = recs /\ Decoded(file) = recs
      /\ acked \in Seq(Record) /\ pc' = "idle" /\ file \in Clean /\ Begins(acked, file.whole)
      /\ UNCHANGED <<file, linked, recs, cur, base, acked>>
  BY Zenon, WholeFile DEF Resync, AppendInv, CleanInv, AckInv, Appending
<1>2. broken' \in BOOLEAN
  BY Zenon DEF Resync, CleanInv
<1>3. ASSUME NEW f \in media' PROVE f \in media \/ f = file \/ (f = Empty /\ ~linked)
  BY Zenon, <1>3 DEF Resync, Synced
<1>4. CleanInv'
  BY Zenon, <1>1, <1>2, <1>3, BlankFacts DEF CleanInv
<1>5. AppendInv'
  BY <1>1 DEF AppendInv, Appending, Opened
<1>6. ASSUME NEW f \in media' PROVE Begins(acked, f.whole)
  BY Zenon, <1>1, <1>3, <1>6, BlankFacts, PrefixSelf DEF AckInv
<1>7. ~Appending'
  BY <1>1 DEF Appending
<1>8. AckInv'
  BY Zenon, <1>1, <1>6, <1>7 DEF AckInv
<1> QED
  BY Zenon, <1>4, <1>5, <1>8

(* The directory is synced and Append returns, or reports an error. *)
LEMMA CloseKeeps == ASSUME IInv, Close PROVE IInv'
<1> USE DEF IInv
<1>1. /\ file.tail = "none" /\ file.whole = recs /\ Decoded(file) = recs
      /\ recs \in Seq(Record) /\ pc' = "idle"
      /\ UNCHANGED <<file, recs, cur, base>>
  BY Zenon, WholeFile DEF Close, AppendInv, CleanInv
<1>2. AppendInv'
  BY <1>1 DEF AppendInv, Appending, Opened
<1>3. ~Appending'
  BY <1>1 DEF Appending
<1>4. CASE linked' = TRUE /\ media' = {file} /\ acked' = recs /\ UNCHANGED broken
  <2>1. CleanInv'
    BY Zenon, <1>1, <1>4 DEF CleanInv
  <2>2. AckInv'
    BY Zenon, <1>1, <1>3, <1>4, PrefixSelf DEF AckInv
  <2> QED
    BY Zenon, <1>2, <2>1, <2>2
<1>5. CASE broken' = TRUE /\ UNCHANGED <<media, linked, acked>>
  <2>1. CleanInv'
    BY Zenon, <1>1, <1>5 DEF CleanInv
  <2>2. AckInv'
    BY Zenon, <1>1, <1>3, <1>5 DEF AckInv
  <2> QED
    BY Zenon, <1>2, <2>1, <2>2
<1> QED
  BY Zenon, <1>4, <1>5 DEF Close

(* OpenJournal reads the file. *)
LEMMA OpenKeeps == ASSUME IInv, Open PROVE IInv'
<1> USE DEF IInv
<1>1. /\ file \in Clean /\ recs' = Decoded(file) /\ recs' \in Seq(Record)
      /\ UNCHANGED <<file, media, linked, broken, cur, base, acked>>
  BY Zenon, DecodedFacts DEF Open, CleanInv
<1>2. pc' = IF file.tail = "none" THEN "idle" ELSE "rewrite"
  BY Zenon DEF Open
<1>3. pc' = "rewrite" \/ (pc' = "idle" /\ file.tail = "none" /\ Decoded(file) = file.whole)
  BY Zenon, <1>2, WholeFile
<1>4. CleanInv'
  BY Zenon, <1>1, <1>3 DEF CleanInv
<1>5. ~Appending'
  BY <1>3 DEF Appending
<1>6. AppendInv'
  BY <1>1, <1>3, <1>5 DEF AppendInv, Opened, Decoded
<1>7. AckInv'
  BY Zenon, <1>1, <1>5 DEF AckInv
<1> QED
  BY Zenon, <1>4, <1>6, <1>7

(* The file OpenJournal writes in place of one with a torn or bare line. *)
Rewritten == [whole |-> recs, tail |-> "none", last |-> Blank]

(* The rewrite, done or failed. *)
LEMMA RewriteKeeps == ASSUME IInv, Rewrite PROVE IInv'
<1> USE DEF IInv
<1>1. /\ recs = Decoded(file) /\ file \in Clean /\ recs \in Seq(Record) /\ acked \in Seq(Record)
      /\ Begins(acked, file.whole)
      /\ UNCHANGED <<broken, cur, base, acked>>
  BY Zenon DEF Rewrite, AppendInv, CleanInv, AckInv
<1>2. /\ Rewritten \in Clean /\ Rewritten.whole = recs /\ Rewritten.tail = "none"
      /\ Decoded(Rewritten) = recs
  <2>1. Rewritten \in Clean /\ Rewritten.whole = recs /\ Rewritten.tail = "none"
    BY Zenon, <1>1, BlankFacts DEF Rewritten, Clean
  <2> QED
    BY Zenon, <2>1, WholeFile
<1>3. Begins(acked, Rewritten.whole)
  BY Zenon, <1>1, <1>2, DecodedFacts
<1>4. CASE /\ file' = Rewritten /\ media' = {Rewritten} /\ linked' = TRUE
           /\ pc' = "idle" /\ UNCHANGED recs
  <2>1. CleanInv'
    BY Zenon, <1>1, <1>2, <1>4 DEF CleanInv
  <2>2. ~Appending'
    BY <1>4 DEF Appending
  <2>3. AppendInv'
    BY <1>2, <1>4, <2>2 DEF AppendInv, Opened
  <2>4. AckInv'
    BY Zenon, <1>1, <1>3, <1>4, <2>2 DEF AckInv
  <2> QED
    BY Zenon, <2>1, <2>3, <2>4
<1>5. CASE /\ file' \in {file, Rewritten} /\ media' = media \cup {file'}
           /\ pc' = "down" /\ recs' = <<>> /\ UNCHANGED linked
  <2>1. file' \in Clean /\ Begins(acked, file'.whole)
    BY Zenon, <1>1, <1>2, <1>3, <1>5
  <2>2. CleanInv'
    BY Zenon, <1>1, <1>5, <2>1, EmptyLog DEF CleanInv
  <2>3. ~Appending'
    BY <1>5 DEF Appending
  <2>4. AppendInv'
    BY <1>5, <2>3 DEF AppendInv, Opened
  <2>5. AckInv'
    BY Zenon, <1>1, <1>5, <2>1, <2>3 DEF AckInv
  <2> QED
    BY Zenon, <2>2, <2>4, <2>5
<1> QED
  BY Zenon, <1>4, <1>5 DEF Rewrite, Rewritten

(* The process is gone, and with it what it had in memory. *)
LEMMA StoppedKeeps ==
  ASSUME IInv, Stopped, file' \in media \cup {file}, media' \subseteq media \cup {file'},
         UNCHANGED <<linked, acked>>
  PROVE  IInv'
<1> USE DEF IInv
<1>1. pc' = "down" /\ recs' = <<>> /\ broken' = FALSE /\ cur' = Blank /\ base' = Empty
  BY Zenon DEF Stopped
<1>2. ASSUME NEW f \in media' \cup {file'} PROVE f \in Clean /\ Begins(acked, f.whole)
  BY Zenon, <1>2 DEF CleanInv, AckInv
<1>3. CleanInv'
  BY Zenon, <1>1, <1>2, BlankFacts, EmptyLog DEF CleanInv
<1>4. ~Appending'
  BY <1>1 DEF Appending
<1>5. AppendInv'
  BY <1>1, <1>4 DEF AppendInv, Opened
<1>6. AckInv'
  BY Zenon, <1>2, <1>4 DEF AckInv
<1> QED
  BY Zenon, <1>3, <1>5, <1>6

(* The journal starts empty. *)
LEMMA InitKeeps == Init => IInv
<1> SUFFICES ASSUME Init PROVE IInv
  OBVIOUS
<1>1. file = Empty /\ media = {Empty} /\ base = Empty /\ recs = <<>> /\ acked = <<>> /\ cur = Blank
      /\ linked = FALSE /\ broken = FALSE /\ pc = "idle"
  BY Zenon DEF Init
<1>2. Empty.tail = "none" /\ Decoded(Empty) = <<>>
  BY Zenon, BlankFacts, WholeFile DEF Empty
<1>3. CleanInv
  BY Zenon, <1>1, BlankFacts, EmptyLog DEF CleanInv
<1>4. ~Appending
  BY <1>1 DEF Appending
<1>5. AppendInv
  BY <1>1, <1>2, <1>4, BlankFacts DEF AppendInv, Opened
<1>6. AckInv
  BY Zenon, <1>1, <1>4, BlankFacts, EmptyLog, PrefixSelf DEF AckInv
<1> QED
  BY Zenon, <1>3, <1>5, <1>6 DEF IInv
-----------------------------------------------------------------------------
(* The theorems. *)

(* Append, OpenJournal, a crash and a power loss keep the invariant. *)
THEOREM Invariance == Spec => []IInv
<1>1. IInv /\ [Next]_vars => IInv'
  <2> SUFFICES ASSUME IInv, [Next]_vars PROVE IInv'
    OBVIOUS
  <2>1. CASE Crash
    BY Zenon, <2>1, StoppedKeeps DEF Crash
  <2>2. CASE PowerLoss
    BY Zenon, <2>2, StoppedKeeps DEF PowerLoss
  <2>3. CASE UNCHANGED vars
    <3>1. UNCHANGED file /\ UNCHANGED media /\ UNCHANGED linked /\ UNCHANGED recs
          /\ UNCHANGED broken /\ UNCHANGED pc /\ UNCHANGED cur /\ UNCHANGED base /\ UNCHANGED acked
      BY Zenon, <2>3 DEF vars
    <3> QED
      BY Zenon, <3>1 DEF IInv, CleanInv, AppendInv, AckInv, Appending, Opened
  <2> QED
    BY Zenon, <2>1, <2>2, <2>3, BeginKeeps, WriteKeeps, SyncKeeps, UndoKeeps, ResyncKeeps,
       CloseKeeps, OpenKeeps, RewriteKeeps DEF Next
<1> QED
  BY InitKeeps, <1>1, PTL DEF Spec

(* Append and OpenJournal keep every variable in its type. *)
THEOREM TypeCorrect == Spec => []TypeOK
<1>1. Seq(Record) \subseteq Seq(Record \cup {Corrupt})
  OBVIOUS
<1>2. Clean \subseteq Contents
  BY Zenon, <1>1 DEF Clean, Contents
<1>3. IInv => TypeOK
  BY Zenon, <1>2 DEF IInv, CleanInv, TypeOK
<1> QED
  BY Invariance, <1>3, PTL

(* Whatever a failed append, a crash or a power loss leaves of the file,   *)
(* OpenJournal does not report ErrCorrupt for it.                          *)
THEOREM FilesDecode == Spec => []NeverCorrupt
<1>1. IInv => NeverCorrupt
  BY Zenon, DecodedFacts DEF IInv, CleanInv, NeverCorrupt
<1> QED
  BY Invariance, <1>1, PTL

(* What Append acknowledged is what OpenJournal reads first, whatever      *)
(* happened to the process, the machine or a later append in between.      *)
THEOREM AcknowledgedStays == Spec => []AckedSurvive
<1>1. IInv => AckedSurvive
  BY Zenon, DecodedFacts DEF IInv, CleanInv, AckInv, AckedSurvive, Begins, Log!Keeps
<1> QED
  BY Invariance, <1>1, PTL
-----------------------------------------------------------------------------
(* The file implements the log. *)

(* What a reader of the journal finds. *)
Readable == IF Opened THEN recs ELSE Decoded(file)

(* One record more is one record more for the reader. *)
LEMMA OneRecordMore ==
  ASSUME Readable \in Seq(Record), NEW r \in Record, Readable' = Append(Readable, r)
  PROVE  Log!OneMore
<1>1. Len(Readable') = Len(Readable) + 1 /\ SubSeq(Readable', 1, Len(Readable)) = Readable
      /\ Readable'[Len(Readable')] = r
  BY Zenon, AppendFacts
<1> QED
  BY Zenon, <1>1 DEF Log!OneMore, Readable

(* The reader finds records only, those of memory while the journal is open. *)
LEMMA ReadableFacts ==
  ASSUME IInv
  PROVE  /\ Readable \in Seq(Record)
         /\ Opened => Readable = recs
         /\ ~Opened => Readable = Decoded(file)
<1>1. recs \in Seq(Record) /\ Decoded(file) \in Seq(Record)
  BY Zenon, DecodedFacts DEF IInv, CleanInv
<1> QED
  BY Zenon, <1>1 DEF Readable

(* The steps of an append before its fsync and after a failed one change   *)
(* nothing for the reader.                                                 *)
LEMMA SilentSteps ==
  ASSUME IInv, IInv', Begin \/ Write \/ Undo \/ Resync
  PROVE  UNCHANGED <<Readable, acked, Opened>>
<1>1. /\ pc \in {"idle", "write", "undo", "resync"}
      /\ pc' \in {"idle", "write", "sync", "undo", "resync"}
      /\ UNCHANGED recs /\ UNCHANGED acked
  BY DEF Begin, Write, Undo, Resync
<1>2. Opened = TRUE /\ Opened' = TRUE
  BY <1>1 DEF Opened
<1> QED
  BY Zenon, <1>1, <1>2 DEF Readable

(* A successful fsync extends the log; after a failed one it is as before. *)
LEMMA SyncExtends ==
  ASSUME IInv, IInv', Sync
  PROVE  Log!Extend \/ UNCHANGED <<Readable, acked, Opened>>
<1>1. pc = "sync" /\ pc' \in {"close", "undo"} /\ cur \in Record /\ UNCHANGED acked
      /\ recs' \in {recs, Append(recs, cur)}
  BY Zenon DEF Sync, IInv, CleanInv
<1>2. Opened = TRUE /\ Opened' = TRUE
  BY <1>1 DEF Opened
<1>3. Readable = recs /\ Readable' = recs' /\ Readable \in Seq(Record)
  BY Zenon, <1>2, ReadableFacts DEF Readable
<1>4. CASE recs' = Append(recs, cur)
  <2>1. Log!OneMore
    BY Zenon, <1>1, <1>3, <1>4, OneRecordMore
  <2> QED
    BY Zenon, <1>1, <1>2, <2>1 DEF Log!Extend
<1>5. CASE recs' = recs
  BY Zenon, <1>1, <1>2, <1>3, <1>5
<1> QED
  BY Zenon, <1>1, <1>4, <1>5

(* Append returns: what the log holds is acknowledged, or nothing new is. *)
LEMMA CloseAcknowledges ==
  ASSUME IInv, IInv', Close
  PROVE  Log!Acknowledge \/ UNCHANGED <<Readable, acked, Opened>>
<1>1. pc = "close" /\ pc' = "idle" /\ UNCHANGED recs /\ acked' \in {acked, recs}
  BY Zenon DEF Close
<1>2. Opened = TRUE /\ Opened' = TRUE
  BY <1>1 DEF Opened
<1>3. Readable = recs /\ Readable' = recs
  BY Zenon, <1>1, <1>2 DEF Readable
<1>4. CASE acked' = recs
  BY Zenon, <1>1, <1>2, <1>4 DEF Log!Acknowledge
<1>5. CASE acked' = acked
  BY Zenon, <1>2, <1>3, <1>5
<1> QED
  BY Zenon, <1>1, <1>4, <1>5

(* OpenJournal, with its rewrite if it needs one, reopens the same log. *)
LEMMA OpenReopens ==
  ASSUME IInv, IInv', Open \/ Rewrite
  PROVE  Log!Reopen \/ UNCHANGED <<Readable, acked, Opened>>
<1>1. Opened = FALSE /\ UNCHANGED acked
  BY DEF Open, Rewrite, Opened
<1>2. Readable = Decoded(file)
  BY Zenon, <1>1, ReadableFacts
<1>3. CASE pc' = "idle"
  <2>1. Opened' = TRUE
    BY <1>3 DEF Opened
  <2>2. recs' = Decoded(file)
    BY Zenon, <1>3 DEF Open, Rewrite, IInv, AppendInv
  <2> QED
    BY Zenon, <1>1, <2>1, <2>2 DEF Log!Reopen
<1>4. CASE pc' \in {"rewrite", "down"}
  <2>1. Opened' = FALSE
    BY <1>4 DEF Opened
  <2>2. Decoded(file)' = Decoded(file)
    <3>1. CASE Open
      BY Zenon, <3>1 DEF Open
    <3>2. CASE Rewrite
      <4>1. recs = Decoded(file)
        BY Zenon, <3>2 DEF Rewrite, IInv, AppendInv
      <4>2. file' \in {file, Rewritten}
        BY Zenon, <3>2 DEF Rewrite, Rewritten
      <4>3. Rewritten.tail = "none" /\ Rewritten.whole = recs
        BY Zenon DEF Rewritten
      <4>4. Decoded(Rewritten) = recs
        BY Zenon, <4>3, WholeFile
      <4>5. Decoded(file') = Decoded(file)
        BY Zenon, <4>1, <4>2, <4>4
      <4> QED
        BY Zenon, <4>5 DEF Decoded
    <3> QED
      BY Zenon, <3>1, <3>2
  <2>3. Readable' = Decoded(file)
    BY Zenon, <2>1, <2>2 DEF Readable
  <2> QED
    BY Zenon, <1>1, <1>2, <2>1, <2>3
<1>5. pc' \in {"idle", "rewrite", "down"}
  BY DEF Open, Rewrite
<1> QED
  BY Zenon, <1>3, <1>4, <1>5

(* A crash leaves the log as it was, or with the record being appended. *)
LEMMA CrashStops ==
  ASSUME IInv, IInv', Crash
  PROVE  Log!Stop \/ UNCHANGED <<Readable, acked, Opened>>
<1>1. pc' = "down" /\ UNCHANGED file /\ UNCHANGED acked /\ cur \in Record
  BY Zenon DEF Crash, Stopped, IInv, CleanInv
<1>2. Opened' = FALSE
  BY <1>1 DEF Opened
<1>3. Readable' = Decoded(file)
  BY Zenon, <1>1, <1>2 DEF Readable, Decoded
<1>4. Opened \in BOOLEAN
  BY DEF Opened
<1>5. CASE Opened = TRUE
  <2>1. Readable = recs /\ Readable \in Seq(Record)
    BY Zenon, <1>5, ReadableFacts
  <2>2. Decoded(file) \in {recs, Append(recs, cur)}
    BY Zenon, <1>5 DEF IInv, AppendInv
  <2>3. CASE Decoded(file) = recs
    <3>1. Readable' = Readable
      BY Zenon, <1>3, <2>1, <2>3
    <3> QED
      BY Zenon, <1>1, <1>2, <1>5, <3>1 DEF Log!Stop, Readable
  <2>4. CASE Decoded(file) = Append(recs, cur)
    <3>1. Log!OneMore
      BY Zenon, <1>1, <1>3, <2>1, <2>4, OneRecordMore
    <3> QED
      BY Zenon, <1>1, <1>2, <1>5, <3>1 DEF Log!Stop
  <2> QED
    BY Zenon, <2>2, <2>3, <2>4
<1>6. CASE Opened = FALSE
  <2>1. Readable = Decoded(file)
    BY Zenon, <1>6, ReadableFacts
  <2> QED
    BY Zenon, <1>1, <1>2, <1>3, <1>6, <2>1
<1> QED
  BY Zenon, <1>4, <1>5, <1>6

(* A power loss leaves at least what was acknowledged. *)
LEMMA PowerLossLoses ==
  ASSUME IInv, IInv', PowerLoss
  PROVE  Log!Lose
<1>1. pc' = "down" /\ file' \in Clean /\ UNCHANGED acked /\ acked \in Seq(Record)
      /\ Begins(acked, file'.whole)
  BY Zenon DEF PowerLoss, Stopped, IInv, CleanInv, AckInv
<1>2. Opened' = FALSE
  BY <1>1 DEF Opened
<1>3. Decoded(file') \in Seq(Record) /\ Begins(acked, Decoded(file'))
  BY Zenon, <1>1, DecodedFacts
<1>4. Len(Decoded(file')) >= Len(acked) /\ SubSeq(Decoded(file'), 1, Len(acked)) = acked
  BY Zenon, <1>3 DEF Begins
<1>5. Readable' = Decoded(file')
  BY Zenon, <1>2 DEF Readable, Decoded
<1>6. /\ Readable' \in Seq(Record)
      /\ Len(Readable') >= Len(acked) /\ SubSeq(Readable', 1, Len(acked)) = acked
  BY Zenon, <1>3, <1>4, <1>5
<1> QED
  BY Zenon, <1>1, <1>2, <1>6 DEF Log!Lose, Log!Keeps, Readable

(* The journal file, with its failed appends, torn lines, rewrites, crashes *)
(* and power losses, implements the append-only log its callers rely on.    *)
THEOREM FileIsDurableLog == Spec => Durable
<1>1. Init => Log!Init
  <2> SUFFICES ASSUME Init PROVE Log!Init
    OBVIOUS
  <2>1. Opened = TRUE
    BY DEF Init, Opened
  <2> QED
    BY Zenon, <2>1 DEF Init, Log!Init
<1>2. IInv /\ IInv' /\ [Next]_vars => [Log!Next]_<<Readable, acked, Opened>>
  <2> SUFFICES ASSUME IInv, IInv', [Next]_vars
               PROVE  Log!Next \/ UNCHANGED <<Readable, acked, Opened>>
    OBVIOUS
  <2>1. CASE UNCHANGED vars
    <3>1. UNCHANGED file /\ UNCHANGED recs /\ UNCHANGED pc /\ UNCHANGED acked
      BY Zenon, <2>1 DEF vars
    <3> QED
      BY Zenon, <3>1 DEF Readable, Opened
  <2> QED
    BY Zenon, <2>1, SilentSteps, SyncExtends, CloseAcknowledges, OpenReopens, CrashStops,
       PowerLossLoses DEF Next, Log!Next
<1>3. IInv /\ IInv' /\ [Next]_vars
        => [Log!Next]_<<IF Opened THEN recs ELSE Decoded(file), acked, Opened>>
  BY Zenon, <1>2 DEF Readable
<1> QED
  BY <1>1, <1>3, Invariance, PTL DEF Spec, Durable, Log!Spec
-----------------------------------------------------------------------------
(* Induction over natural numbers, in the form of sets: the library's      *)
(* theorems about it take an operator, which the provers cannot supply.    *)

Less == {p \in Nat \X Nat : p[1] < p[2]}

(* A set of natural numbers has a least one. *)
LEMMA Least ==
  ASSUME NEW T \in SUBSET Nat, T # {}
  PROVE  \E x \in T : \A y \in T : x <= y
<1>1. IsWellFoundedOn(Less, Nat)
  BY NatLessThanWellFounded DEF Less, OpToRel
<1>2. PICK x \in T : \A y \in T : ~(<<y, x>> \in Less)
  BY Zenon, <1>1, WFMin
<1>3. ASSUME NEW y \in T PROVE x <= y
  <2>1. ~(<<y, x>> \in Less)
    BY Zenon, <1>2
  <2>2. y \in Nat /\ x \in Nat
    OBVIOUS
  <2>3. y < x => <<y, x>> \in Less
    BY <2>2 DEF Less
  <2> QED
    BY <2>1, <2>2, <2>3
<1> QED
  BY Zenon, <1>3

(* What holds of 0, and of a number when of the one before, holds up to N. *)
LEMMA Induction ==
  ASSUME NEW N \in Nat, NEW P, 0 \in P, \A n \in 1..N : n - 1 \in P => n \in P
  PROVE  \A n \in 0..N : n \in P
<1> DEFINE T == (0..N) \ P
<1>1. SUFFICES ASSUME T # {} PROVE FALSE
  OBVIOUS
<1>2. T \in SUBSET Nat
  OBVIOUS
<1>3. PICK x \in T : \A y \in T : x <= y
  <2> HIDE DEF T
  <2> QED
    BY Zenon, <1>1, <1>2, Least
<1>4. x \in 1..N /\ x - 1 \in 0..N
  OBVIOUS
<1>5. x - 1 \in P
  BY <1>3, <1>4
<1> QED
  BY <1>4, <1>5

(* A bounded set of numbers has a greatest one, and Max is it. *)
LEMMA MaxIs ==
  ASSUME NEW N \in Nat, NEW S \in SUBSET (0..N), S # {}
  PROVE  Max(S) \in S /\ \A y \in S : y <= Max(S)
<1> DEFINE T == {n \in 0..N : N - n \in S}
<1>1. T \in SUBSET Nat /\ T # {}
  <2>1. PICK x \in S : TRUE
    OBVIOUS
  <2>2. N - x \in 0..N /\ N - (N - x) = x
    OBVIOUS
  <2>3. N - x \in T
    BY <2>2
  <2>4. T \in SUBSET Nat
    OBVIOUS
  <2> QED
    BY Zenon, <2>3, <2>4
<1>2. PICK x \in T : \A y \in T : x <= y
  <2> HIDE DEF T
  <2> QED
    BY Zenon, <1>1, Least
<1>3. ASSUME NEW y \in S PROVE N - x >= y
  <2>1. N - y \in 0..N /\ N - (N - y) = y
    OBVIOUS
  <2>2. x <= N - y
    BY <1>2, <2>1
  <2> QED
    BY <2>2
<1>4. \E m \in S : \A y \in S : m >= y
  BY <1>3
<1>5. Max(S) \in S /\ \A y \in S : Max(S) >= y
  BY Zenon, <1>4 DEF Max
<1> QED
  BY <1>5

(* The greatest element of a set is its Max. *)
LEMMA MaxOf ==
  ASSUME NEW S \in SUBSET Nat, NEW x \in S, \A y \in S : y <= x
  PROVE  Max(S) = x
<1>1. \A y \in S : x >= y
  OBVIOUS
<1>2. Max(S) \in S /\ \A y \in S : Max(S) >= y
  BY Zenon, <1>1 DEF Max
<1>3. Max(S) \in Nat /\ x \in Nat /\ Max(S) <= x /\ Max(S) >= x
  BY Zenon, <1>2
<1> QED
  BY <1>3

(* The least element of a set is its Min. *)
LEMMA MinIs ==
  ASSUME NEW S \in SUBSET Nat, S # {}
  PROVE  Min(S) \in S /\ \A y \in S : Min(S) <= y
  BY Zenon, Least DEF Min
-----------------------------------------------------------------------------
(* The summary of a log, record by record. *)

(* The summaries of the first records of a log, up to N of them. *)
Chain(s, N, f) ==
  f = [n \in 0..N |-> IF n = 0 THEN NoJournal ELSE Record1(f[n - 1], s[n])]

(* They exist. *)
LEMMA ChainExists ==
  ASSUME NEW s, NEW N \in Nat
  PROVE  \E f : Chain(s, N, f)
<1> DEFINE P == {n \in 0..N : \E f : Chain(s, n, f)}
<1>1. 0 \in P
  <2>1. Chain(s, 0, [n \in 0..0 |-> NoJournal])
    BY DEF Chain
  <2> QED
    BY <2>1
<1>2. ASSUME NEW n \in 1..N, n - 1 \in P PROVE n \in P
  <2>1. PICK f : Chain(s, n - 1, f)
    BY <1>2
  <2> DEFINE g == [m \in 0..n |-> IF m = n THEN Record1(f[n - 1], s[n]) ELSE f[m]]
  <2>2. ASSUME NEW m \in 0..n
        PROVE  g[m] = IF m = 0 THEN NoJournal ELSE Record1(g[m - 1], s[m])
    <3>1. CASE m = n
      <4>1. g[n - 1] = f[n - 1] /\ n # 0
        OBVIOUS
      <4> QED
        BY <3>1, <4>1
    <3>2. CASE m # n
      <4>1. m \in 0..(n - 1) /\ (m # 0 => m - 1 \in 0..n /\ m - 1 # n)
        BY <3>2
      <4>2. f[m] = IF m = 0 THEN NoJournal ELSE Record1(f[m - 1], s[m])
        BY <2>1, <4>1 DEF Chain
      <4> QED
        BY <3>2, <4>1, <4>2
    <3> QED
      BY <3>1, <3>2
  <2>3. Chain(s, n, g)
    <3> HIDE DEF g
    <3>1. g = [m \in 0..n |-> g[m]]
      BY DEF g
    <3> QED
      BY <2>2, <3>1 DEF Chain
  <2> QED
    BY <2>3
<1>3. \A n \in 0..N : n \in P
  <2> HIDE DEF P
  <2> QED
    BY Zenon, <1>1, <1>2, Induction
<1>4. N \in 0..N
  OBVIOUS
<1> QED
  BY Zenon, <1>3, <1>4

SameTo(s, t, N) == \A n \in 1..N : s[n] = t[n]

(* They do not depend on what comes later. *)
LEMMA ChainsAgree ==
  ASSUME NEW s, NEW t, NEW N \in Nat, NEW M \in Nat, NEW f, NEW g,
         Chain(s, N, f), Chain(t, M, g), N <= M, SameTo(s, t, N)
  PROVE  f[N] = g[N]
<1> DEFINE P == {n \in 0..N : f[n] = g[n]}
<1>1. 0 \in P
  BY DEF Chain
<1>2. ASSUME NEW n \in 1..N, n - 1 \in P PROVE n \in P
  <2>1. n # 0 /\ n \in 0..N /\ n \in 0..M
    OBVIOUS
  <2>2. f[n] = Record1(f[n - 1], s[n])
    BY <2>1 DEF Chain
  <2>3. g[n] = Record1(g[n - 1], t[n])
    BY <2>1 DEF Chain
  <2> QED
    BY <1>2, <2>1, <2>2, <2>3 DEF SameTo
<1>3. \A n \in 0..N : n \in P
  <2> HIDE DEF P
  <2> QED
    BY Zenon, <1>1, <1>2, Induction
<1>4. N \in 0..N
  OBVIOUS
<1> QED
  BY Zenon, <1>3, <1>4

(* The summary is the last of them. *)
LEMMA SummaryIs ==
  ASSUME NEW s \in Seq(Record)
  PROVE  \E f : Chain(s, Len(s), f) /\ Summary(s) = f[Len(s)]
<1> DEFINE f == CHOOSE h : h = [n \in 0..Len(s) |->
                  IF n = 0 THEN NoJournal ELSE Record1(h[n - 1], s[n])]
<1>1. Summary(s) = f[Len(s)]
  BY Zenon DEF Summary
<1>2. Len(s) \in Nat
  OBVIOUS
<1>3. \E h : h = [n \in 0..Len(s) |->
                    IF n = 0 THEN NoJournal ELSE Record1(h[n - 1], s[n])]
  BY Zenon, ChainExists, <1>2 DEF Chain
<1>4. Chain(s, Len(s), f)
  BY Zenon, <1>3 DEF Chain
<1> QED
  BY Zenon, <1>1, <1>4

(* A log of no records says nothing. *)
LEMMA SummaryEmpty == Summary(<<>>) = NoJournal
<1>1. <<>> \in Seq(Record)
  OBVIOUS
<1>2. PICK f : Chain(<<>>, Len(<<>>), f) /\ Summary(<<>>) = f[Len(<<>>)]
  BY Zenon, SummaryIs, <1>1
<1> QED
  BY <1>2 DEF Chain

(* One more record changes the summary as Record1 says. *)
LEMMA SummaryAppend ==
  ASSUME NEW s \in Seq(Record), NEW r \in Record
  PROVE  Summary(Append(s, r)) = Record1(Summary(s), r)
<1> DEFINE t == Append(s, r)
           N == Len(s)
           M == Len(t)
<1>1. PICK f : Chain(s, N, f) /\ Summary(s) = f[N]
  BY Zenon, SummaryIs
<1>2. t \in Seq(Record) /\ M = N + 1 /\ t[M] = r /\ \A n \in 1..N : s[n] = t[n]
  OBVIOUS
<1>3. PICK g : Chain(t, M, g) /\ Summary(t) = g[M]
  <2> HIDE DEF t
  <2> QED
    BY Zenon, SummaryIs, <1>2
<1>4. N \in Nat /\ M \in Nat /\ N <= M /\ N \in 0..N /\ M \in 0..M /\ M # 0 /\ M - 1 = N
  BY <1>2
<1> HIDE DEF t, N, M
<1>5. f[N] = g[N]
  <2>1. SameTo(s, t, N)
    BY Zenon, <1>2 DEF SameTo
  <2> QED
    BY SMT, <1>1, <1>3, <1>4, <2>1, ChainsAgree
<1>6. g[M] = Record1(g[M - 1], t[M])
  BY <1>3, <1>4 DEF Chain
<1> QED
  BY Zenon, <1>1, <1>2, <1>3, <1>4, <1>5, <1>6 DEF t
-----------------------------------------------------------------------------
(* What one more record does to the queries. *)

Places(s) == SUBSET DOMAIN s
LastAt(s, at) == IF at = {} THEN Blank ELSE s[Max(at)]

(* The newest of the records at some places is not changed by one more, and *)
(* with it is that one.                                                      *)
LEMMA NewestAppend ==
  ASSUME NEW s \in Seq(Record), NEW r \in Record, NEW at \in Places(s)
  PROVE  /\ LastAt(Append(s, r), at) = LastAt(s, at)
         /\ LastAt(Append(s, r), at \cup {Len(s) + 1}) = r
<1>1. at \in SUBSET (0..Len(s)) /\ Len(s) \in Nat /\ at \in SUBSET DOMAIN s
  BY DEF Places
<1>2. ASSUME at # {} PROVE Append(s, r)[Max(at)] = s[Max(at)]
  <2>1. Max(at) \in at
    BY Zenon, <1>1, <1>2, MaxIs
  <2> QED
    BY <1>1, <2>1
<1>3. Max(at \cup {Len(s) + 1}) = Len(s) + 1
  <2>1. /\ at \cup {Len(s) + 1} \in SUBSET Nat
        /\ Len(s) + 1 \in at \cup {Len(s) + 1}
        /\ \A y \in at \cup {Len(s) + 1} : y <= Len(s) + 1
    BY <1>1
  <2> QED
    BY Zenon, <2>1, MaxOf
<1>4. Append(s, r)[Len(s) + 1] = r
  OBVIOUS
<1>5. at \cup {Len(s) + 1} # {}
  BY Zenon
<1> QED
  BY Zenon, <1>2, <1>3, <1>4, <1>5 DEF LastAt

(* The places of one more record. *)
LEMMA DomainAppend ==
  ASSUME NEW s \in Seq(Record), NEW r \in Record
  PROVE  /\ Append(s, r) \in Seq(Record)
         /\ DOMAIN Append(s, r) = DOMAIN s \cup {Len(s) + 1}
         /\ \A i \in DOMAIN s : Append(s, r)[i] = s[i]
         /\ Append(s, r)[Len(s) + 1] = r
         /\ Len(s) + 1 \notin DOMAIN s
  OBVIOUS

(* LastForEpoch finds one more record if it is a stage of the epoch. *)
LEMMA LastAppend ==
  ASSUME NEW s \in Seq(Record), NEW r \in Record, NEW k
  PROVE  LastForEpoch(Append(s, r), k) =
           IF r.key = k /\ IsStage(r) THEN r ELSE LastForEpoch(s, k)
<1> DEFINE t == Append(s, r)
           at == {i \in DOMAIN s : s[i].key = k /\ IsStage(s[i])}
           new == {i \in DOMAIN t : t[i].key = k /\ IsStage(t[i])}
<1>0. /\ DOMAIN t = DOMAIN s \cup {Len(s) + 1}
      /\ \A i \in DOMAIN s : t[i] = s[i]
      /\ t[Len(s) + 1] = r
      /\ Len(s) + 1 \notin DOMAIN s
  BY Zenon, DomainAppend
<1>1. new = IF r.key = k /\ IsStage(r) THEN at \cup {Len(s) + 1} ELSE at
  <2> HIDE DEF t
  <2> QED
    BY <1>0
<1>2. LastForEpoch(s, k) = LastAt(s, at)
  BY Zenon DEF LastForEpoch, Newest, LastAt
<1>3. LastForEpoch(t, k) = LastAt(t, new)
  BY Zenon DEF LastForEpoch, Newest, LastAt
<1>4. at \in Places(s)
  BY DEF Places
<1>5. LastAt(t, at) = LastAt(s, at) /\ LastAt(t, at \cup {Len(s) + 1}) = r
  <2> HIDE DEF at
  <2> QED
    BY Zenon, <1>4, NewestAppend DEF t
<1> HIDE DEF at, new, t
<1> QED
  BY Zenon, <1>1, <1>2, <1>3, <1>5 DEF t

(* LatestRecovery reads one more Accepted record. *)
LEMMA RecoveryAppend ==
  ASSUME NEW s \in Seq(Record), NEW r \in Record
  PROVE  LatestRecovery(Append(s, r)) =
           IF r.type = "accepted" THEN r.entry.recovery ELSE LatestRecovery(s)
<1> DEFINE t == Append(s, r)
           at == {i \in DOMAIN s : s[i].type = "accepted"}
           new == {i \in DOMAIN t : t[i].type = "accepted"}
<1>0. /\ DOMAIN t = DOMAIN s \cup {Len(s) + 1}
      /\ \A i \in DOMAIN s : t[i] = s[i]
      /\ t[Len(s) + 1] = r
      /\ Len(s) + 1 \notin DOMAIN s
  BY Zenon, DomainAppend
<1>1. new = IF r.type = "accepted" THEN at \cup {Len(s) + 1} ELSE at
  <2> HIDE DEF t
  <2> QED
    BY <1>0
<1>2. LatestRecovery(s) = LastAt(s, at).entry.recovery
  BY Zenon DEF LatestRecovery, Newest, LastAt
<1>3. LatestRecovery(t) = LastAt(t, new).entry.recovery
  BY Zenon DEF LatestRecovery, Newest, LastAt
<1>4. at \in Places(s)
  BY DEF Places
<1>5. LastAt(t, at) = LastAt(s, at) /\ LastAt(t, at \cup {Len(s) + 1}) = r
  <2> HIDE DEF at
  <2> QED
    BY Zenon, <1>4, NewestAppend DEF t
<1> HIDE DEF at, new, t
<1> QED
  BY Zenon, <1>1, <1>2, <1>3, <1>5 DEF t

(* BoundDeployment reads one more Accepted or rebind record. *)
LEMMA BoundAppend ==
  ASSUME NEW s \in Seq(Record), NEW r \in Record
  PROVE  BoundDeployment(Append(s, r)) =
           IF r.type \in {"accepted", "rebind"} THEN r.key[1] ELSE BoundDeployment(s)
<1> DEFINE t == Append(s, r)
           at == {i \in DOMAIN s : s[i].type \in {"accepted", "rebind"}}
           new == {i \in DOMAIN t : t[i].type \in {"accepted", "rebind"}}
<1>0. /\ DOMAIN t = DOMAIN s \cup {Len(s) + 1}
      /\ \A i \in DOMAIN s : t[i] = s[i]
      /\ t[Len(s) + 1] = r
      /\ Len(s) + 1 \notin DOMAIN s
  BY Zenon, DomainAppend
<1>1. new = IF r.type \in {"accepted", "rebind"} THEN at \cup {Len(s) + 1} ELSE at
  <2> HIDE DEF t
  <2> QED
    BY <1>0
<1>2. BoundDeployment(s) = LastAt(s, at).key[1]
  BY Zenon DEF BoundDeployment, Newest, LastAt
<1>3. BoundDeployment(t) = LastAt(t, new).key[1]
  BY Zenon DEF BoundDeployment, Newest, LastAt
<1>4. at \in Places(s)
  BY DEF Places
<1>5. LastAt(t, at) = LastAt(s, at) /\ LastAt(t, at \cup {Len(s) + 1}) = r
  <2> HIDE DEF at
  <2> QED
    BY Zenon, <1>4, NewestAppend DEF t
<1> HIDE DEF at, new, t
<1> QED
  BY Zenon, <1>1, <1>2, <1>3, <1>5 DEF t

(* An epoch failed if it did before, or one more record says so. *)
LEMMA FailedAppend ==
  ASSUME NEW s \in Seq(Record), NEW r \in Record, NEW k
  PROVE  FailedEver(Append(s, r), k) <=>
           FailedEver(s, k) \/ (r.key = k /\ r.type \in {"failed", "recovered"})
<1> DEFINE t == Append(s, r)
<1>1. /\ DOMAIN t = DOMAIN s \cup {Len(s) + 1}
      /\ \A i \in DOMAIN s : t[i] = s[i]
      /\ t[Len(s) + 1] = r
  BY Zenon, DomainAppend
<1>2. FailedEver(t, k) <=>
        FailedEver(s, k) \/ (r.key = k /\ r.type \in {"failed", "recovered"})
  <2> HIDE DEF t
  <2> QED
    BY Zenon, <1>1 DEF FailedEver
<1> QED
  BY Zenon, <1>2

AcceptedAt(s, k) == {i \in DOMAIN s : s[i].key = k /\ s[i].type = "accepted"}

(* Accepted keeps to the first Accepted record of a key. *)
LEMMA AcceptedAppend ==
  ASSUME NEW s \in Seq(Record), NEW r \in Record, NEW k
  PROVE  Accepted(Append(s, r), k) =
           IF AcceptedAt(s, k) # {} THEN Accepted(s, k)
           ELSE IF r.key = k /\ r.type = "accepted" THEN r.entry ELSE NoEntry
<1> DEFINE t == Append(s, r)
           at == AcceptedAt(s, k)
           new == AcceptedAt(t, k)
<1>0. /\ DOMAIN t = DOMAIN s \cup {Len(s) + 1}
      /\ \A i \in DOMAIN s : t[i] = s[i]
      /\ t[Len(s) + 1] = r
      /\ Len(s) + 1 \notin DOMAIN s
  BY Zenon, DomainAppend
<1>1. new = IF r.key = k /\ r.type = "accepted" THEN at \cup {Len(s) + 1} ELSE at
  <2> HIDE DEF t
  <2> QED
    BY <1>0 DEF AcceptedAt
<1>2. Accepted(s, k) = IF at = {} THEN NoEntry ELSE s[Min(at)].entry
  BY Zenon DEF Accepted, AcceptedAt
<1>3. Accepted(t, k) = IF new = {} THEN NoEntry ELSE t[Min(new)].entry
  BY Zenon DEF Accepted, AcceptedAt
<1>4. at \in SUBSET (1..Len(s)) /\ DOMAIN s = 1..Len(s) /\ Len(s) \in Nat
  BY DEF AcceptedAt
<1> HIDE DEF at, new, t
<1>5. CASE at # {}
  <2>1. Min(at) \in at /\ \A y \in at : Min(at) <= y
    <3>1. at \in SUBSET Nat
      BY <1>4
    <3> QED
      BY Zenon, <3>1, <1>5, MinIs
  <2>2. Min(new) = Min(at)
    <3>0. /\ \A y \in new : y \in at \/ y = Len(s) + 1
          /\ Min(at) \in new
      BY <1>1, <2>1
    <3>1. new \in SUBSET Nat /\ new # {} /\ Min(at) \in new /\ \A y \in new : Min(at) <= y
      <4>1. \A y \in at : y \in Nat /\ y <= Len(s)
        BY <1>4
      <4>2. ASSUME NEW y \in new PROVE y \in Nat /\ Min(at) <= y
        <5>1. CASE y \in at
          BY Zenon, <2>1, <4>1, <5>1
        <5>2. CASE y = Len(s) + 1
          <6>1. Min(at) \in Nat /\ Min(at) <= Len(s) /\ Len(s) \in Nat
            BY Zenon, <1>4, <2>1, <4>1
          <6> QED
            BY <5>2, <6>1
        <5> QED
          BY Zenon, <3>0, <5>1, <5>2
      <4> QED
        BY Zenon, <3>0, <4>2
    <3>2. Min(new) \in new /\ \A y \in new : Min(new) <= y
      BY Zenon, <3>1, MinIs
    <3>3. Min(new) \in Nat /\ Min(at) \in Nat /\ Min(new) <= Min(at) /\ Min(at) <= Min(new)
      BY Zenon, <3>1, <3>2
    <3> QED
      BY <3>3
  <2>3. Min(at) \in DOMAIN s /\ new # {}
    BY Zenon, <1>1, <1>4, <2>1
  <2> QED
    BY Zenon, <1>0, <1>2, <1>3, <1>5, <2>2, <2>3 DEF t, at
<1>6. CASE at = {} /\ r.key = k /\ r.type = "accepted"
  <2>1. new = {Len(s) + 1}
    BY <1>1, <1>6
  <2>2. new \in SUBSET Nat /\ new # {}
    BY <1>4, <2>1
  <2>3. Min(new) \in new
    BY Zenon, <2>2, MinIs
  <2> QED
    BY Zenon, <1>0, <1>3, <1>6, <2>1, <2>3 DEF t, at
<1>7. CASE at = {} /\ ~(r.key = k /\ r.type = "accepted")
  BY Zenon, <1>1, <1>3, <1>7 DEF t, at
<1> QED
  BY Zenon, <1>5, <1>6, <1>7

(* The fields of a record and of a key. *)
LEMMA KeyFacts ==
  /\ \A k \in Keys : k[1] \in Uids /\ k[2] \in Epochs /\ k = <<k[1], k[2]>>
  /\ \A u \in Uids, e \in Epochs : <<u, e>> \in Keys
  /\ \A r \in Record : r.key[2] \in 0..MaxEpoch
  /\ \A u : <<u, 0>> \notin Keys
  /\ NoKey \notin Keys
<1>1. MaxEpoch \in Nat /\ MaxUid \in Nat
  BY BoundsAssumption
<1>2. \A k \in Keys : k[1] \in Uids /\ k[2] \in Epochs /\ k = <<k[1], k[2]>>
  BY DEF Keys
<1>3. \A u \in Uids, e \in Epochs : <<u, e>> \in Keys
  BY DEF Keys
<1>4. 0 \notin Epochs /\ Epochs \subseteq 0..MaxEpoch /\ 0 \in 0..MaxEpoch
  BY <1>1 DEF Epochs
<1>5. \A u : <<u, 0>> \notin Keys
  BY <1>4 DEF Keys
<1>6. NoKey \notin Keys
  BY <1>5, Zenon DEF NoKey
<1>7. ASSUME NEW r \in Record PROVE r.key[2] \in 0..MaxEpoch
  <2>1. r.key \in Keys \cup {<<u, 0>> : u \in Uids} \cup {NoKey}
    BY Zenon DEF Record
  <2>2. CASE r.key \in Keys
    BY Zenon, <1>2, <1>4, <2>2
  <2>3. CASE r.key \in {<<u, 0>> : u \in Uids}
    BY <1>4, <2>3
  <2>4. CASE r.key = NoKey
    BY <1>4, <2>4 DEF NoKey
  <2> QED
    BY Zenon, <2>1, <2>2, <2>3, <2>4
<1> QED
  BY Zenon, <1>2, <1>3, <1>5, <1>6, <1>7

Levels(s, u) ==
  {s[i].key[2] : i \in {i \in DOMAIN s : s[i].type = "accepted" /\ s[i].key[1] = u}}

(* HighWater is the greatest epoch a deployment was accepted with, or 0. *)
LEMMA HighIs ==
  ASSUME NEW s \in Seq(Record), NEW u
  PROVE  /\ Levels(s, u) \in SUBSET (0..MaxEpoch)
         /\ HighWater(s, u) = IF Levels(s, u) = {} THEN 0 ELSE Max(Levels(s, u))
         /\ HighWater(s, u) \in 0..MaxEpoch
         /\ \A e \in Levels(s, u) : e <= HighWater(s, u)
<1> DEFINE at == {i \in DOMAIN s : s[i].type = "accepted" /\ s[i].key[1] = u}
<1>1. \A i \in DOMAIN s : s[i] \in Record
  OBVIOUS
<1>2. Levels(s, u) \in SUBSET (0..MaxEpoch)
  BY Zenon, <1>1, KeyFacts DEF Levels
<1>3. Levels(s, u) = {} <=> at = {}
  BY Zenon DEF Levels
<1>4. HighWater(s, u) = IF at = {} THEN 0 ELSE Max(Levels(s, u))
  BY Zenon DEF HighWater, Levels
<1>5. MaxEpoch \in Nat /\ 0 \in 0..MaxEpoch
  BY BoundsAssumption
<1> HIDE DEF at
<1>6. Levels(s, u) # {} =>
        /\ Max(Levels(s, u)) \in Levels(s, u)
        /\ \A e \in Levels(s, u) : e <= Max(Levels(s, u))
  BY Zenon, <1>2, <1>5, MaxIs
<1> QED
  BY Zenon, <1>2, <1>3, <1>4, <1>5, <1>6

(* HighWater moves up to the epoch of one more acceptance. *)
LEMMA HighAppend ==
  ASSUME NEW s \in Seq(Record), NEW r \in Record, NEW u
  PROVE  /\ ~(r.type = "accepted" /\ r.key[1] = u) =>
               HighWater(Append(s, r), u) = HighWater(s, u)
         /\ r.type = "accepted" /\ r.key[1] = u /\ r.key[2] > HighWater(s, u) =>
               HighWater(Append(s, r), u) = r.key[2]
<1> DEFINE t == Append(s, r)
<1>0. /\ DOMAIN t = DOMAIN s \cup {Len(s) + 1}
      /\ \A i \in DOMAIN s : t[i] = s[i]
      /\ t[Len(s) + 1] = r
      /\ Len(s) + 1 \notin DOMAIN s
      /\ t \in Seq(Record)
  BY Zenon, DomainAppend
<1> HIDE DEF t
<1>1. Levels(t, u) = IF r.type = "accepted" /\ r.key[1] = u
                     THEN Levels(s, u) \cup {r.key[2]} ELSE Levels(s, u)
  BY <1>0 DEF Levels
<1>2. /\ HighWater(s, u) = IF Levels(s, u) = {} THEN 0 ELSE Max(Levels(s, u))
      /\ Levels(s, u) \in SUBSET (0..MaxEpoch)
      /\ HighWater(s, u) \in 0..MaxEpoch
      /\ \A e \in Levels(s, u) : e <= HighWater(s, u)
  BY Zenon, HighIs
<1>3. HighWater(t, u) = IF Levels(t, u) = {} THEN 0 ELSE Max(Levels(t, u))
  BY Zenon, <1>0, HighIs
<1>4. ASSUME r.type = "accepted", r.key[1] = u, r.key[2] > HighWater(s, u)
      PROVE  HighWater(t, u) = r.key[2]
  <2>1. r.key[2] \in Nat /\ HighWater(s, u) \in Nat
    BY <1>2, KeyFacts
  <2>2. /\ Levels(t, u) \in SUBSET Nat
        /\ r.key[2] \in Levels(t, u)
        /\ \A e \in Levels(t, u) : e <= r.key[2]
    BY <1>1, <1>2, <1>4, <2>1
  <2>3. Max(Levels(t, u)) = r.key[2]
    BY Zenon, <2>2, MaxOf
  <2> QED
    BY Zenon, <1>3, <2>2, <2>3
<1> QED
  BY Zenon, <1>1, <1>2, <1>3, <1>4 DEF t

StagesAt(s, k) == {i \in DOMAIN s : s[i].key = k /\ IsStage(s[i])}

(* The places of an epoch's stages. *)
LEMMA StagesAppend ==
  ASSUME NEW s \in Seq(Record), NEW r \in Record, NEW k
  PROVE  StagesAt(Append(s, r), k) =
           IF r.key = k /\ IsStage(r) THEN StagesAt(s, k) \cup {Len(s) + 1}
           ELSE StagesAt(s, k)
<1> DEFINE t == Append(s, r)
<1>0. /\ DOMAIN t = DOMAIN s \cup {Len(s) + 1}
      /\ \A i \in DOMAIN s : t[i] = s[i]
      /\ t[Len(s) + 1] = r
      /\ Len(s) + 1 \notin DOMAIN s
  BY Zenon, DomainAppend
<1> HIDE DEF t
<1>1. StagesAt(t, k) = IF r.key = k /\ IsStage(r) THEN StagesAt(s, k) \cup {Len(s) + 1}
                       ELSE StagesAt(s, k)
  BY <1>0 DEF StagesAt
<1> QED
  BY Zenon, <1>1 DEF t
-----------------------------------------------------------------------------
(* What the agent appends keeps log and summary in agreement. *)

StageAgrees(s, j) ==
  \A k \in Keys : j.stage[k] = IF LastForEpoch(s, k) = Blank THEN "none"
                               ELSE LastForEpoch(s, k).type
FailAgrees(s, j) == \A k \in Keys : FailedEver(s, k) <=> Failed(j, k)
EntryAgrees(s, j) == \A k \in Keys : Accepted(s, k) = j.entry[k]
HighAgrees(s, j) ==
  \A u \in Uids :
    /\ HighWater(s, u) # 0 => j.stage[<<u, HighWater(s, u)>>] # "none"
    /\ \A e \in Epochs : j.stage[<<u, e>>] # "none" => e <= HighWater(s, u)
NewestAgrees(s, j) == j.newest # NoKey => LatestRecovery(s) = j.entry[j.newest].recovery
BoundAgrees(s, j) == BoundDeployment(s) = j.bound

(* An epoch above another has a stage after all of the other's. *)
OrderAgrees(s, j) ==
  \A u \in Uids :
    /\ \A e \in Epochs : StagesAt(s, <<u, e>>) # {} <=> j.stage[<<u, e>>] # "none"
    /\ \A e, d \in Epochs :
         e < d /\ StagesAt(s, <<u, d>>) # {} =>
           \E m \in StagesAt(s, <<u, d>>) : \A i \in StagesAt(s, <<u, e>>) : i < m

AgreesWith(s, j) ==
  /\ StageAgrees(s, j) /\ FailAgrees(s, j) /\ EntryAgrees(s, j) /\ HighAgrees(s, j)
  /\ NewestAgrees(s, j) /\ BoundAgrees(s, j) /\ OrderAgrees(s, j)

(* A log whose summary agrees with it. *)
Sums(s) == s \in Seq(Record) /\ Summary(s) \in Journal /\ AgreesWith(s, Summary(s))

(* The records the agent may append, by kind. *)
Acceptance(s, r, k) ==
  /\ r.type = "accepted" /\ r.key = k /\ r.entry \in Entry
  /\ BoundDeployment(s) \in {0, k[1]} /\ k[2] > HighWater(s, k[1])
Stage(s, r, k) ==
  /\ r.type \in NextStages(LastForEpoch(s, k).type) /\ r.key = k
  /\ BoundDeployment(s) = k[1] /\ HighWater(s, k[1]) = k[2]
NoStage(s, r) ==
  \/ r.type = "rebind" /\ \E u \in Uids : r.key = <<u, 0>> /\ BoundDeployment(s) \notin {0, u}
  \/ r.type = "source" /\ r.key = NoKey

(* Every record the agent may append is of one of these kinds. *)
LEMMA Kinds ==
  ASSUME NEW s, NEW r \in Appendable(s)
  PROVE  \/ \E k \in Keys : Acceptance(s, r, k)
         \/ \E k \in Keys : Stage(s, r, k)
         \/ NoStage(s, r)
<1>2. CASE r \in NewAcceptances(s)
  <2>1. PICK k \in Keys, e \in Entries : MayAccept(s, k) /\ r = AcceptedRecord(k, e)
    BY <1>2 DEF NewAcceptances
  <2>2. e \in Entry
    BY Zenon, EntriesAssumption
  <2>3. r.type = "accepted" /\ r.key = k /\ r.entry = e
    BY Zenon, <2>1 DEF AcceptedRecord, Blank
  <2>4. Acceptance(s, r, k)
    BY Zenon, <2>1, <2>2, <2>3 DEF MayAccept, Acceptance
  <2> QED
    BY Zenon, <2>4
<1>3. CASE r \in NewStages(s)
  <2>1. PICK k \in Keys : /\ BoundDeployment(s) = k[1] /\ HighWater(s, k[1]) = k[2]
                          /\ \E t \in NextStages(LastForEpoch(s, k).type) : r = StageRecord(k, t)
    BY Zenon, <1>3 DEF NewStages
  <2>2. PICK t \in NextStages(LastForEpoch(s, k).type) : r = StageRecord(k, t)
    BY Zenon, <2>1
  <2>3. r.type = t /\ r.key = k
    BY Zenon, <2>2 DEF StageRecord, Blank
  <2>4. Stage(s, r, k)
    BY Zenon, <2>1, <2>2, <2>3 DEF Stage
  <2> QED
    BY Zenon, <2>4
<1>4. CASE r \in NewRebinds(s)
  <2>1. PICK u \in Uids : r = RebindRecord(u) /\ BoundDeployment(s) \notin {0, u}
    BY Zenon, <1>4 DEF NewRebinds
  <2>2. r.type = "rebind" /\ r.key = <<u, 0>>
    BY Zenon, <2>1 DEF RebindRecord, Blank
  <2> QED
    BY Zenon, <2>1, <2>2 DEF NoStage
<1>5. CASE r \in NewSources(s)
  <2>1. PICK c, h : r = SourceRecord(c, h)
    <3>1. (\E h \in Handoffs : r = SourceRecord(ConfigMap, h)) \/ r = SourceRecord(CRD, NoHandoff)
      BY <1>5 DEF NewSources
    <3> QED
      BY Zenon, <3>1
  <2>2. r.type = "source" /\ r.key = NoKey
    BY Zenon, <2>1 DEF SourceRecord, Blank
  <2> QED
    BY Zenon, <2>2 DEF NoStage
<1> QED
  BY Zenon, <1>2, <1>3, <1>4, <1>5 DEF Appendable

(* The log t is s with one more stage, of k, its deployment's highest epoch. *)
Follows(s, t, j, n, k) ==
  /\ n.stage[k] # "none"
  /\ \A x \in Keys : x # k => n.stage[x] = j.stage[x]
  /\ \A e \in Epochs : j.stage[<<k[1], e>>] # "none" => e <= k[2]
  /\ \A x : StagesAt(t, x) = IF x = k THEN StagesAt(s, x) \cup {Len(s) + 1}
                              ELSE StagesAt(s, x)

(* One more stage of a deployment's highest epoch keeps the order. *)
LEMMA OrderStep ==
  ASSUME NEW s \in Seq(Record), NEW t, NEW j, NEW n, NEW k \in Keys,
         OrderAgrees(s, j), Follows(s, t, j, n, k)
  PROVE  OrderAgrees(t, n)
<1>0. /\ n.stage[k] # "none"
      /\ \A x \in Keys : x # k => n.stage[x] = j.stage[x]
      /\ \A e \in Epochs : j.stage[<<k[1], e>>] # "none" => e <= k[2]
      /\ \A x : StagesAt(t, x) = IF x = k THEN StagesAt(s, x) \cup {Len(s) + 1}
                                  ELSE StagesAt(s, x)
  BY Zenon DEF Follows
<1>1. k[1] \in Uids /\ k[2] \in Epochs /\ k = <<k[1], k[2]>>
  BY Zenon, KeyFacts
<1>2. SUFFICES ASSUME NEW u \in Uids
      PROVE  /\ \A e \in Epochs : StagesAt(t, <<u, e>>) # {} <=> n.stage[<<u, e>>] # "none"
             /\ \A e, d \in Epochs :
                  e < d /\ StagesAt(t, <<u, d>>) # {} =>
                    \E m \in StagesAt(t, <<u, d>>) : \A i \in StagesAt(t, <<u, e>>) : i < m
  BY Zenon DEF OrderAgrees
<1>3. /\ \A e \in Epochs : StagesAt(s, <<u, e>>) # {} <=> j.stage[<<u, e>>] # "none"
      /\ \A e, d \in Epochs :
           e < d /\ StagesAt(s, <<u, d>>) # {} =>
             \E m \in StagesAt(s, <<u, d>>) : \A i \in StagesAt(s, <<u, e>>) : i < m
  BY Zenon DEF OrderAgrees
<1>4. ASSUME NEW e \in Epochs
      PROVE  StagesAt(t, <<u, e>>) # {} <=> n.stage[<<u, e>>] # "none"
  <2>1. <<u, e>> \in Keys
    BY Zenon, KeyFacts
  <2> QED
    BY Zenon, <1>0, <1>3, <2>1
<1>5. ASSUME NEW e \in Epochs, NEW d \in Epochs, e < d, StagesAt(t, <<u, d>>) # {}
      PROVE  \E m \in StagesAt(t, <<u, d>>) : \A i \in StagesAt(t, <<u, e>>) : i < m
  <2>1. e \in Nat /\ d \in Nat /\ e # d
    BY <1>5 DEF Epochs
  <2>2. <<u, e>> # <<u, d>>
    BY <2>1
  <2>3. CASE <<u, d>> = k
    <3>1. StagesAt(t, <<u, e>>) = StagesAt(s, <<u, e>>) /\ Len(s) + 1 \in StagesAt(t, <<u, d>>)
      BY Zenon, <1>0, <2>2, <2>3
    <3>2. \A i \in StagesAt(s, <<u, e>>) : i < Len(s) + 1
      BY DEF StagesAt
    <3> QED
      BY Zenon, <3>1, <3>2
  <2>4. CASE <<u, d>> # k
    <3>1. StagesAt(t, <<u, d>>) = StagesAt(s, <<u, d>>)
      BY Zenon, <1>0, <2>4
    <3>2. <<u, e>> # k
      <4>1. SUFFICES ASSUME <<u, e>> = k PROVE FALSE
        OBVIOUS
      <4>2. u = k[1] /\ e = k[2]
        BY <1>1, <4>1
      <4>3. d <= k[2]
        BY Zenon, <1>0, <1>3, <1>5, <3>1, <4>2
      <4> QED
        BY <1>5, <2>1, <4>2, <4>3
    <3>3. StagesAt(t, <<u, e>>) = StagesAt(s, <<u, e>>)
      BY Zenon, <1>0, <3>2
    <3> QED
      BY Zenon, <1>3, <1>5, <3>1, <3>3
  <2> QED
    BY Zenon, <2>3, <2>4
<1> QED
  BY Zenon, <1>4, <1>5

(* The fields of a summary. *)
LEMMA JournalFacts ==
  ASSUME NEW j \in Journal
  PROVE  /\ j.stage \in [Keys -> Stages] /\ j.entry \in [Keys -> Entry]
         /\ j.newest \in Keys \cup {NoKey} /\ j.bound \in 0..MaxUid
  BY Zenon DEF Journal

(* An accepted epoch is above all the deployment had: nothing was journaled *)
(* for it.                                                                   *)
LEMMA AcceptanceIsNew ==
  ASSUME NEW s \in Seq(Record), NEW j \in Journal, AgreesWith(s, j),
         NEW r, NEW k \in Keys, Acceptance(s, r, k)
  PROVE  /\ j.stage[k] = "none"
         /\ AcceptedAt(s, k) = {}
         /\ ~FailedEver(s, k)
         /\ \A e \in Epochs : j.stage[<<k[1], e>>] # "none" => e < k[2]
<1>1. k[1] \in Uids /\ k[2] \in Epochs /\ k = <<k[1], k[2]>>
  BY Zenon, KeyFacts
<1>2. HighWater(s, k[1]) \in 0..MaxEpoch /\ \A e \in Levels(s, k[1]) : e <= HighWater(s, k[1])
  BY Zenon, HighIs
<1>3. k[2] > HighWater(s, k[1]) /\ k[2] \in Nat /\ HighWater(s, k[1]) \in Nat
  BY <1>1, <1>2 DEF Acceptance, Epochs
<1>4. \A e \in Epochs : j.stage[<<k[1], e>>] # "none" => e <= HighWater(s, k[1])
  BY Zenon, <1>1 DEF AgreesWith, HighAgrees
<1>5. \A e \in Epochs : e \in Nat
  BY DEF Epochs
<1>6. \A e \in Epochs : j.stage[<<k[1], e>>] # "none" => e < k[2]
  BY <1>3, <1>4, <1>5
<1>7. j.stage[k] = "none"
  BY <1>1, <1>3, <1>6
<1>8. AcceptedAt(s, k) = {}
  <2>1. SUFFICES ASSUME NEW i \in DOMAIN s, s[i].key = k, s[i].type = "accepted" PROVE FALSE
    BY Zenon DEF AcceptedAt
  <2>2. k[2] \in Levels(s, k[1])
    BY Zenon, <2>1 DEF Levels
  <2> QED
    BY <1>2, <1>3, <2>2
<1>9. ~FailedEver(s, k)
  BY <1>7 DEF AgreesWith, FailAgrees, Failed
<1> QED
  BY Zenon, <1>6, <1>7, <1>8, <1>9

(* An acceptance keeps the agreement. *)
LEMMA AcceptanceAgrees ==
  ASSUME NEW s \in Seq(Record), NEW j \in Journal, AgreesWith(s, j),
         NEW r \in Record, NEW k \in Keys, Acceptance(s, r, k)
  PROVE  Record1(j, r) \in Journal /\ AgreesWith(Append(s, r), Record1(j, r))
<1> DEFINE t == Append(s, r)
           n == Record1(j, r)
<1>1. r.type = "accepted" /\ r.key = k /\ r.entry \in Entry
  BY Zenon DEF Acceptance
<1>2. k[1] \in Uids /\ k[2] \in Epochs /\ k = <<k[1], k[2]>>
  BY Zenon, KeyFacts
<1>3. IsStage(r)
  BY Zenon, <1>1 DEF IsStage
<1>4. n = Accepting(j, k, r.entry.rev, r.entry.prev, r.entry.recovery)
  BY Zenon, <1>1 DEF Record1
<1>5. r.entry = [rev |-> r.entry.rev, prev |-> r.entry.prev, recovery |-> r.entry.recovery]
  BY <1>1 DEF Entry
<1>6. /\ n.stage = [j.stage EXCEPT ![k] = "accepted"]
      /\ n.entry = [j.entry EXCEPT ![k] = r.entry]
      /\ n.newest = k /\ n.bound = k[1]
      /\ n = [stage |-> n.stage, entry |-> n.entry, newest |-> n.newest, bound |-> n.bound]
  <2> HIDE DEF n
  <2>1. n = [stage |-> [j.stage EXCEPT ![k] = "accepted"],
             entry |-> [j.entry EXCEPT ![k] = r.entry],
             newest |-> k, bound |-> k[1]]
    <3>1. n = [stage |-> [j.stage EXCEPT ![k] = "accepted"],
               entry |-> [j.entry EXCEPT ![k] =
                            [rev |-> r.entry.rev, prev |-> r.entry.prev,
                             recovery |-> r.entry.recovery]],
               newest |-> k, bound |-> k[1]]
      BY Zenon, <1>4 DEF Accepting
    <3> QED
      BY Zenon, <1>5, <3>1
  <2> QED
    BY Zenon, <2>1
<1>7. /\ j.stage \in [Keys -> Stages] /\ j.entry \in [Keys -> Entry]
      /\ j.newest \in Keys \cup {NoKey} /\ j.bound \in 0..MaxUid
  BY Zenon, JournalFacts
<1> HIDE DEF n, t
<1>8. /\ n.stage \in [Keys -> Stages] /\ n.stage[k] = "accepted"
      /\ \A x \in Keys : x # k => n.stage[x] = j.stage[x]
  <2>1. "accepted" \in Stages
    BY Zenon DEF Stages
  <2> QED
    BY Zenon, <1>6, <1>7, <2>1
<1>9. /\ n.entry \in [Keys -> Entry] /\ n.entry[k] = r.entry
      /\ \A x \in Keys : x # k => n.entry[x] = j.entry[x]
  BY Zenon, <1>1, <1>6, <1>7
<1>10. n \in Journal
  <2>1. n.bound \in 0..MaxUid
    BY <1>2, <1>6, BoundsAssumption DEF Uids
  <2> QED
    BY Zenon, <1>6, <1>8, <1>9, <2>1 DEF Journal
<1>11. /\ j.stage[k] = "none"
       /\ AcceptedAt(s, k) = {}
       /\ ~FailedEver(s, k)
       /\ \A e \in Epochs : j.stage[<<k[1], e>>] # "none" => e < k[2]
  BY Zenon, AcceptanceIsNew
<1>12. r # Blank
  <2>1. Blank.type = "source"
    BY Zenon DEF Blank
  <2> QED
    BY <1>1, <2>1
<1>13. StageAgrees(t, n)
  <2>1. \A x \in Keys : LastForEpoch(t, x) = IF x = k THEN r ELSE LastForEpoch(s, x)
    BY Zenon, LastAppend, <1>1, <1>3 DEF t
  <2> QED
    BY Zenon, <1>1, <1>8, <1>12, <2>1 DEF AgreesWith, StageAgrees
<1>14. FailAgrees(t, n)
  <2>1. \A x \in Keys : FailedEver(t, x) <=> FailedEver(s, x)
    BY Zenon, FailedAppend, <1>1 DEF t
  <2>2. ASSUME NEW x \in Keys, x # k PROVE FailedEver(t, x) <=> Failed(n, x)
    BY Zenon, <1>8, <2>1, <2>2 DEF AgreesWith, FailAgrees, Failed
  <2>3. ~FailedEver(t, k) /\ ~Failed(n, k)
    BY Zenon, <1>8, <1>11, <2>1 DEF Failed
  <2> QED
    BY Zenon, <2>2, <2>3 DEF FailAgrees
<1>15. EntryAgrees(t, n)
  <2>1. Accepted(t, k) = n.entry[k]
    BY Zenon, AcceptedAppend, <1>1, <1>9, <1>11 DEF t
  <2>2. ASSUME NEW x \in Keys, x # k PROVE Accepted(t, x) = n.entry[x]
    <3>1. Accepted(t, x) = IF AcceptedAt(s, x) # {} THEN Accepted(s, x) ELSE NoEntry
      BY Zenon, AcceptedAppend, <1>1, <2>2 DEF t
    <3>2. AcceptedAt(s, x) = {} => Accepted(s, x) = NoEntry
      BY Zenon DEF AcceptedAt, Accepted
    <3> QED
      BY Zenon, <1>9, <2>2, <3>1, <3>2 DEF AgreesWith, EntryAgrees
  <2> QED
    BY Zenon, <2>1, <2>2 DEF EntryAgrees
<1>16. HighAgrees(t, n)
  <2>1. HighWater(t, k[1]) = k[2]
    <3>1. r.key[1] = k[1] /\ r.key[2] = k[2] /\ k[2] > HighWater(s, k[1])
      BY Zenon, <1>1 DEF Acceptance
    <3> QED
      BY Zenon, HighAppend, <1>1, <3>1 DEF t
  <2>2. ASSUME NEW u \in Uids, u # k[1] PROVE HighWater(t, u) = HighWater(s, u)
    BY Zenon, HighAppend, <1>1, <2>2 DEF t
  <2>3. ASSUME NEW u \in Uids, u # k[1], NEW e PROVE <<u, e>> # k
    BY <2>3, <1>2
  <2>4. ASSUME NEW u \in Uids, u = k[1]
        PROVE  /\ HighWater(t, u) # 0 => n.stage[<<u, HighWater(t, u)>>] # "none"
               /\ \A e \in Epochs : n.stage[<<u, e>>] # "none" => e <= HighWater(t, u)
    <3>1. n.stage[<<u, HighWater(t, u)>>] # "none"
      BY <1>2, <1>8, <2>1, <2>4
    <3>2. ASSUME NEW e \in Epochs, n.stage[<<u, e>>] # "none" PROVE e <= k[2]
      <4>1. e \in Nat /\ k[2] \in Nat
        BY <1>2 DEF Epochs
      <4>2. CASE e = k[2]
        BY <4>1, <4>2
      <4>3. CASE e # k[2]
        <5>1. <<u, e>> \in Keys /\ <<u, e>> # k
          BY <1>2, <4>3, KeyFacts
        <5>2. e < k[2]
          BY Zenon, <1>8, <1>11, <2>4, <3>2, <5>1
        <5> QED
          BY <4>1, <5>2
      <4> QED
        BY Zenon, <4>2, <4>3
    <3> QED
      BY Zenon, <2>1, <2>4, <3>1, <3>2
  <2>5. ASSUME NEW u \in Uids, u # k[1]
        PROVE  /\ HighWater(t, u) # 0 => n.stage[<<u, HighWater(t, u)>>] # "none"
               /\ \A e \in Epochs : n.stage[<<u, e>>] # "none" => e <= HighWater(t, u)
    <3>1. /\ HighWater(s, u) # 0 => j.stage[<<u, HighWater(s, u)>>] # "none"
          /\ \A e \in Epochs : j.stage[<<u, e>>] # "none" => e <= HighWater(s, u)
      BY Zenon DEF AgreesWith, HighAgrees
    <3>2. \A e \in Epochs : n.stage[<<u, e>>] = j.stage[<<u, e>>]
      BY Zenon, <1>8, <2>3, <2>5, KeyFacts
    <3>3. HighWater(s, u) # 0 => HighWater(s, u) \in Epochs
      <4>1. HighWater(s, u) \in 0..MaxEpoch
        BY Zenon, HighIs
      <4> QED
        BY <4>1, BoundsAssumption DEF Epochs
    <3>4. HighWater(t, u) = HighWater(s, u)
      BY Zenon, <2>2, <2>5
    <3> QED
      BY Zenon, <3>1, <3>2, <3>3, <3>4
  <2> QED
    BY Zenon, <2>4, <2>5 DEF HighAgrees
<1>17. NewestAgrees(t, n)
  <2>1. LatestRecovery(t) = r.entry.recovery
    BY Zenon, RecoveryAppend, <1>1 DEF t
  <2>2. n.entry[n.newest] = r.entry
    BY Zenon, <1>6, <1>9
  <2> QED
    BY Zenon, <2>1, <2>2 DEF NewestAgrees
<1>18. BoundAgrees(t, n)
  BY Zenon, BoundAppend, <1>1, <1>6 DEF t, BoundAgrees
<1>19. OrderAgrees(t, n)
  <2>1. \A x : StagesAt(t, x) = IF x = k THEN StagesAt(s, x) \cup {Len(s) + 1} ELSE StagesAt(s, x)
    BY Zenon, StagesAppend, <1>1, <1>3 DEF t
  <2> QED
    <3>1. n.stage[k] # "none"
      BY Zenon, <1>8
    <3>2. \A e \in Epochs : j.stage[<<k[1], e>>] # "none" => e <= k[2]
      <4>1. \A e \in Epochs : e \in Nat
        BY DEF Epochs
      <4> QED
        BY <1>2, <1>11, <4>1
    <3>3. Follows(s, t, j, n, k)
      BY Zenon, <1>8, <2>1, <3>1, <3>2 DEF Follows
    <3> QED
      BY Zenon, <3>3, OrderStep DEF AgreesWith
<1> QED
  BY Zenon, <1>10, <1>13, <1>14, <1>15, <1>16, <1>17, <1>18, <1>19 DEF AgreesWith, n, t

(* The stages that follow one another. *)
LEMMA NextStagesAre ==
  ASSUME NEW t, NEW x \in NextStages(t)
  PROVE  /\ x \in {"applied", "failed", "committed", "recovered"}
         /\ x \in {"applied", "committed"} => t \in {"accepted", "applied"}
<1>1. CASE t = "accepted"
  BY SMT, <1>1 DEF NextStages
<1>2. CASE t = "applied"
  BY SMT, <1>2 DEF NextStages
<1>3. CASE t = "failed"
  BY SMT, <1>3 DEF NextStages
<1>4. CASE t \notin {"accepted", "applied", "failed"}
  BY SMT, <1>4 DEF NextStages
<1> QED
  BY Zenon, <1>1, <1>2, <1>3, <1>4

(* A further stage of an epoch keeps the agreement. *)
LEMMA StageAgreesOn ==
  ASSUME NEW s \in Seq(Record), NEW j \in Journal, AgreesWith(s, j),
         NEW r \in Record, NEW k \in Keys, Stage(s, r, k)
  PROVE  Record1(j, r) \in Journal /\ AgreesWith(Append(s, r), Record1(j, r))
<1> DEFINE t == Append(s, r)
           n == Record1(j, r)
           last == LastForEpoch(s, k).type
<1>1. /\ r.key = k
      /\ r.type \in {"applied", "failed", "committed", "recovered"}
      /\ r.type \in {"applied", "committed"} => last \in {"accepted", "applied"}
  BY Zenon, NextStagesAre DEF Stage
<1>2. k[1] \in Uids /\ k[2] \in Epochs /\ k = <<k[1], k[2]>>
  BY Zenon, KeyFacts
<1>3. IsStage(r) /\ r.type \notin {"accepted", "rebind", "source"}
  BY <1>1 DEF IsStage
<1>4. n = Marking(j, k, r.type)
  BY Zenon, <1>1, <1>3 DEF Record1
<1> HIDE DEF n
<1>6. /\ n.stage = [j.stage EXCEPT ![k] = r.type]
      /\ n.entry = j.entry /\ n.newest = j.newest /\ n.bound = j.bound
      /\ n = [stage |-> n.stage, entry |-> n.entry, newest |-> n.newest, bound |-> n.bound]
  <2>1. n = [stage |-> [j.stage EXCEPT ![k] = r.type], entry |-> j.entry,
             newest |-> j.newest, bound |-> j.bound]
    BY Zenon, <1>4 DEF Marking
  <2> QED
    BY Zenon, <2>1
<1>7. /\ j.stage \in [Keys -> Stages] /\ j.entry \in [Keys -> Entry]
      /\ j.newest \in Keys \cup {NoKey} /\ j.bound \in 0..MaxUid
  BY Zenon, JournalFacts
<1> HIDE DEF t, last
<1>8. /\ n.stage \in [Keys -> Stages] /\ n.stage[k] = r.type
      /\ \A x \in Keys : x # k => n.stage[x] = j.stage[x]
  <2>1. r.type \in Stages
    BY Zenon, <1>1 DEF Stages
  <2> QED
    BY Zenon, <1>6, <1>7, <2>1
<1>10. n \in Journal
  BY Zenon, <1>6, <1>7, <1>8 DEF Journal
<1>11. /\ j.stage[k] # "none" /\ j.stage[k] = last
       /\ \A e \in Epochs : j.stage[<<k[1], e>>] # "none" => e <= k[2]
  <2>1. HighWater(s, k[1]) = k[2] /\ k[2] # 0
    BY <1>2 DEF Stage, Epochs
  <2>2. /\ j.stage[k] # "none"
        /\ \A e \in Epochs : j.stage[<<k[1], e>>] # "none" => e <= k[2]
    BY Zenon, <1>2, <2>1 DEF AgreesWith, HighAgrees
  <2> QED
    BY Zenon, <2>2 DEF AgreesWith, StageAgrees, last
<1>12. r # Blank
  <2>1. Blank.type = "source"
    BY Zenon DEF Blank
  <2> QED
    BY <1>3, <2>1
<1>13. StageAgrees(t, n)
  <2>1. \A x \in Keys : LastForEpoch(t, x) = IF x = k THEN r ELSE LastForEpoch(s, x)
    BY Zenon, LastAppend, <1>1, <1>3 DEF t
  <2> QED
    BY Zenon, <1>8, <1>12, <2>1 DEF AgreesWith, StageAgrees
<1>14. FailAgrees(t, n)
  <2>1. \A x \in Keys : FailedEver(t, x) <=>
          FailedEver(s, x) \/ (x = k /\ r.type \in {"failed", "recovered"})
    BY Zenon, FailedAppend, <1>1 DEF t
  <2>2. ASSUME NEW x \in Keys, x # k PROVE FailedEver(t, x) <=> Failed(n, x)
    BY Zenon, <1>8, <2>1, <2>2 DEF AgreesWith, FailAgrees, Failed
  <2>3. FailedEver(t, k) <=> Failed(n, k)
    <3>1. FailedEver(s, k) <=> j.stage[k] \in {"failed", "recovered"}
      BY Zenon DEF AgreesWith, FailAgrees, Failed
    <3>2. r.type \in {"applied", "committed"} => ~FailedEver(s, k)
      BY <1>1, <1>11, <3>1
    <3> QED
      BY Zenon, <1>1, <1>8, <2>1, <3>2 DEF Failed
  <2> QED
    BY Zenon, <2>2, <2>3 DEF FailAgrees
<1>15. EntryAgrees(t, n)
  <2>2. ASSUME NEW x \in Keys PROVE Accepted(t, x) = n.entry[x]
    <3>1. Accepted(t, x) = IF AcceptedAt(s, x) # {} THEN Accepted(s, x) ELSE NoEntry
      BY Zenon, AcceptedAppend, <1>3 DEF t
    <3>2. AcceptedAt(s, x) = {} => Accepted(s, x) = NoEntry
      BY Zenon DEF AcceptedAt, Accepted
    <3> QED
      BY Zenon, <1>6, <2>2, <3>1, <3>2 DEF AgreesWith, EntryAgrees
  <2> QED
    BY Zenon, <2>2 DEF EntryAgrees
<1>16. HighAgrees(t, n)
  <2>1. \A u \in Uids : HighWater(t, u) = HighWater(s, u)
    BY Zenon, HighAppend, <1>3 DEF t
  <2>2. \A x \in Keys : n.stage[x] = "none" <=> j.stage[x] = "none"
    <3>1. n.stage[k] # "none"
      BY <1>1, <1>8
    <3> QED
      BY Zenon, <1>8, <1>11, <3>1
  <2>3. \A u \in Uids : HighWater(s, u) # 0 => HighWater(s, u) \in Epochs
    <3>1. ASSUME NEW u \in Uids PROVE HighWater(s, u) \in 0..MaxEpoch
      BY Zenon, HighIs
    <3> QED
      BY <3>1, BoundsAssumption DEF Epochs
  <2>4. \A u \in Uids, e \in Epochs : <<u, e>> \in Keys
    BY Zenon, KeyFacts
  <2> QED
    BY Zenon, <2>1, <2>2, <2>3, <2>4 DEF AgreesWith, HighAgrees
<1>17. NewestAgrees(t, n)
  <2>1. LatestRecovery(t) = LatestRecovery(s)
    BY Zenon, RecoveryAppend, <1>3 DEF t
  <2> QED
    BY Zenon, <1>6, <2>1 DEF AgreesWith, NewestAgrees
<1>18. BoundAgrees(t, n)
  <2>1. BoundDeployment(t) = BoundDeployment(s)
    BY Zenon, BoundAppend, <1>3 DEF t
  <2> QED
    BY Zenon, <1>6, <2>1 DEF AgreesWith, BoundAgrees
<1>19. OrderAgrees(t, n)
  <2>1. \A x : StagesAt(t, x) = IF x = k THEN StagesAt(s, x) \cup {Len(s) + 1} ELSE StagesAt(s, x)
    BY Zenon, StagesAppend, <1>1, <1>3 DEF t
  <2>2. n.stage[k] # "none"
    BY <1>1, <1>8
  <2>3. Follows(s, t, j, n, k)
    BY Zenon, <1>8, <1>11, <2>1, <2>2 DEF Follows
  <2> QED
    BY Zenon, <2>3, OrderStep DEF AgreesWith
<1> QED
  BY Zenon, <1>10, <1>13, <1>14, <1>15, <1>16, <1>17, <1>18, <1>19 DEF AgreesWith, n, t

(* A rebind or a source record keeps the agreement. *)
LEMMA NoStageAgrees ==
  ASSUME NEW s \in Seq(Record), NEW j \in Journal, AgreesWith(s, j),
         NEW r \in Record, NoStage(s, r)
  PROVE  Record1(j, r) \in Journal /\ AgreesWith(Append(s, r), Record1(j, r))
<1> DEFINE t == Append(s, r)
           n == Record1(j, r)
<1>1. ~IsStage(r) /\ r.type \notin {"accepted", "failed", "recovered"}
  BY DEF IsStage, NoStage
<1>7. /\ j.stage \in [Keys -> Stages] /\ j.entry \in [Keys -> Entry]
      /\ j.newest \in Keys \cup {NoKey} /\ j.bound \in 0..MaxUid
  BY Zenon, JournalFacts
<1>18. n \in Journal /\ BoundAgrees(t, n)
       /\ n.stage = j.stage /\ n.entry = j.entry /\ n.newest = j.newest
  <2>1. CASE r.type = "source"
    <3>1. n = j
      BY Zenon, <2>1 DEF Record1
    <3>2. BoundDeployment(t) = BoundDeployment(s)
      BY Zenon, BoundAppend, <2>1
    <3> QED
      BY Zenon, <3>1, <3>2 DEF AgreesWith, BoundAgrees
  <2>2. CASE r.type = "rebind"
    <3>1. PICK u \in Uids : r.key = <<u, 0>>
      BY Zenon, <2>2 DEF NoStage
    <3>2. r.key[1] = u
      BY <3>1
    <3>3. n = Rebinding(j, u)
      BY Zenon, <2>2, <3>2 DEF Record1
    <3>4. BoundDeployment(t) = u
      BY Zenon, BoundAppend, <2>2, <3>2
    <3> HIDE DEF n, t
    <3>5. n = [stage |-> j.stage, entry |-> j.entry, newest |-> j.newest, bound |-> u]
      BY Zenon, <3>3 DEF Rebinding
    <3>6. u \in 0..MaxUid
      BY BoundsAssumption DEF Uids
    <3>7. n \in Journal
      BY Zenon, <1>7, <3>5, <3>6 DEF Journal
    <3> QED
      BY Zenon, <3>4, <3>5, <3>7 DEF BoundAgrees
  <2> QED
    BY Zenon, <2>1, <2>2 DEF NoStage
<1> HIDE DEF t, n
<1>13. StageAgrees(t, n)
  <2>1. \A x \in Keys : LastForEpoch(t, x) = LastForEpoch(s, x)
    BY Zenon, LastAppend, <1>1 DEF t
  <2> QED
    BY Zenon, <1>18, <2>1 DEF AgreesWith, StageAgrees
<1>14. FailAgrees(t, n)
  <2>1. \A x \in Keys : FailedEver(t, x) <=> FailedEver(s, x)
    BY Zenon, FailedAppend, <1>1 DEF t
  <2> QED
    BY Zenon, <1>18, <2>1 DEF AgreesWith, FailAgrees, Failed
<1>15. EntryAgrees(t, n)
  <2>2. ASSUME NEW x \in Keys PROVE Accepted(t, x) = n.entry[x]
    <3>1. Accepted(t, x) = IF AcceptedAt(s, x) # {} THEN Accepted(s, x) ELSE NoEntry
      BY Zenon, AcceptedAppend, <1>1 DEF t
    <3>2. AcceptedAt(s, x) = {} => Accepted(s, x) = NoEntry
      BY Zenon DEF AcceptedAt, Accepted
    <3> QED
      BY Zenon, <1>18, <2>2, <3>1, <3>2 DEF AgreesWith, EntryAgrees
  <2> QED
    BY Zenon, <2>2 DEF EntryAgrees
<1>16. HighAgrees(t, n)
  <2>1. \A u \in Uids : HighWater(t, u) = HighWater(s, u)
    BY Zenon, HighAppend, <1>1 DEF t
  <2> QED
    BY Zenon, <1>18, <2>1 DEF AgreesWith, HighAgrees
<1>17. NewestAgrees(t, n)
  <2>1. LatestRecovery(t) = LatestRecovery(s)
    BY Zenon, RecoveryAppend, <1>1 DEF t
  <2> QED
    BY Zenon, <1>18, <2>1 DEF AgreesWith, NewestAgrees
<1>19. OrderAgrees(t, n)
  <2>1. \A x : StagesAt(t, x) = StagesAt(s, x)
    BY Zenon, StagesAppend, <1>1 DEF t
  <2> QED
    BY Zenon, <1>18, <2>1 DEF AgreesWith, OrderAgrees
<1> QED
  BY Zenon, <1>13, <1>14, <1>15, <1>16, <1>17, <1>18, <1>19 DEF AgreesWith, n, t

(* Appending what the agent may append keeps a log and its summary in *)
(* agreement.                                                          *)
LEMMA SumsAppend ==
  ASSUME NEW s, Sums(s), NEW r \in Appendable(s), r \in Record
  PROVE  Sums(Append(s, r))
<1>1. s \in Seq(Record) /\ Summary(s) \in Journal /\ AgreesWith(s, Summary(s))
  BY Zenon DEF Sums
<1>2. Append(s, r) \in Seq(Record)
  BY <1>1
<1>3. Summary(Append(s, r)) = Record1(Summary(s), r)
  BY Zenon, <1>1, SummaryAppend
<1>4. /\ Record1(Summary(s), r) \in Journal
      /\ AgreesWith(Append(s, r), Record1(Summary(s), r))
  BY Zenon, <1>1, Kinds, AcceptanceAgrees, StageAgreesOn, NoStageAgrees
<1> QED
  BY Zenon, <1>2, <1>3, <1>4 DEF Sums

(* The empty log and its summary agree. *)
LEMMA SumsEmpty == Sums(<<>>)
<1> DEFINE j == NoJournal
<1>1. /\ j.stage = [k \in Keys |-> "none"] /\ j.entry = [k \in Keys |-> NoEntry]
      /\ j.newest = NoKey /\ j.bound = 0
  BY Zenon DEF NoJournal
<1>2. DOMAIN <<>> = {} /\ <<>> \in Seq(Record)
  OBVIOUS
<1>3. j \in Journal
  <2>1. "none" \in Stages
    BY Zenon DEF Stages
  <2>2. NoRecovery \in Recovery
    BY DEF NoRecovery, Recovery
  <2>3. NoEntry \in Entry
    BY <2>2 DEF NoEntry, Entry
  <2>4. 0 \in 0..MaxUid
    BY BoundsAssumption
  <2>5. [k \in Keys |-> "none"] \in [Keys -> Stages]
    BY Zenon, <2>1
  <2>6. [k \in Keys |-> NoEntry] \in [Keys -> Entry]
    BY Zenon, <2>3
  <2> QED
    BY <2>4, <2>5, <2>6 DEF NoJournal, Journal
<1>4. \A k \in Keys : j.stage[k] = "none" /\ j.entry[k] = NoEntry
  BY Zenon, <1>1
<1> HIDE DEF j
<1>5. StageAgrees(<<>>, j)
  <2>1. \A k \in Keys : LastForEpoch(<<>>, k) = Blank
    BY Zenon, <1>2 DEF LastForEpoch, Newest
  <2> QED
    BY Zenon, <1>4, <2>1 DEF StageAgrees
<1>6. FailAgrees(<<>>, j)
  <2>1. \A k \in Keys : ~FailedEver(<<>>, k)
    BY Zenon, <1>2 DEF FailedEver
  <2>2. \A k \in Keys : ~Failed(j, k)
    BY <1>4 DEF Failed
  <2> QED
    BY Zenon, <2>1, <2>2 DEF FailAgrees
<1>7. EntryAgrees(<<>>, j)
  <2>1. \A k \in Keys : Accepted(<<>>, k) = NoEntry
    BY Zenon, <1>2 DEF Accepted
  <2> QED
    BY Zenon, <1>4, <2>1 DEF EntryAgrees
<1>8. HighAgrees(<<>>, j)
  <2>1. \A u \in Uids : HighWater(<<>>, u) = 0
    BY Zenon, <1>2 DEF HighWater
  <2>2. \A u \in Uids, e \in Epochs : j.stage[<<u, e>>] = "none"
    BY Zenon, <1>4, KeyFacts
  <2> QED
    BY Zenon, <2>1, <2>2 DEF HighAgrees
<1>9. NewestAgrees(<<>>, j)
  BY Zenon, <1>1 DEF NewestAgrees, j
<1>10. BoundAgrees(<<>>, j)
  <2>1. BoundDeployment(<<>>) = Blank.key[1]
    BY Zenon, <1>2 DEF BoundDeployment, Newest
  <2>2. Blank.key[1] = 0
    BY DEF Blank, NoKey
  <2> QED
    BY Zenon, <1>1, <2>1, <2>2 DEF BoundAgrees, j
<1>11. OrderAgrees(<<>>, j)
  <2>1. \A k : StagesAt(<<>>, k) = {}
    BY Zenon, <1>2 DEF StagesAt
  <2>2. \A u \in Uids, e \in Epochs : j.stage[<<u, e>>] = "none"
    BY Zenon, <1>4, KeyFacts
  <2> QED
    BY Zenon, <2>1, <2>2 DEF OrderAgrees
<1>12. Summary(<<>>) = j
  BY Zenon, SummaryEmpty DEF j
<1> QED
  BY Zenon, <1>2, <1>3, <1>5, <1>6, <1>7, <1>8, <1>9, <1>10, <1>11, <1>12 DEF Sums, AgreesWith

(* The epoch journaled later is the higher one. *)
LEMMA LaterIsHigher ==
  ASSUME NEW s \in Seq(Record), NEW j, OrderAgrees(s, j), NEW u \in Uids,
         NEW e \in Epochs, NEW d \in Epochs,
         StagesAt(s, <<u, e>>) # {}, StagesAt(s, <<u, d>>) # {}
  PROVE  Max(StagesAt(s, <<u, d>>)) > Max(StagesAt(s, <<u, e>>)) <=> d > e
<1> DEFINE at(x) == StagesAt(s, <<u, x>>)
<1>1. Len(s) \in Nat /\ \A x : at(x) \in SUBSET (0..Len(s))
  BY DEF StagesAt
<1>2. \A x : at(x) # {} => Max(at(x)) \in at(x) /\ \A y \in at(x) : y <= Max(at(x))
  <2> HIDE DEF at
  <2> QED
    BY <1>1, MaxIs
<1>3. \A x, y \in Epochs : x < y /\ at(y) # {} => \E m \in at(y) : \A i \in at(x) : i < m
  BY Zenon DEF OrderAgrees
<1>4. ASSUME NEW x \in Epochs, NEW y \in Epochs, x < y, at(x) # {}, at(y) # {}
      PROVE  Max(at(x)) < Max(at(y))
  <2>1. PICK m \in at(y) : \A i \in at(x) : i < m
    BY Zenon, <1>3, <1>4
  <2>2. Max(at(x)) \in at(x) /\ m <= Max(at(y)) /\ Max(at(y)) \in at(y)
    BY Zenon, <1>2, <1>4, <2>1
  <2>3. Max(at(x)) < m
    BY Zenon, <2>1, <2>2
  <2>4. Max(at(x)) \in Nat /\ m \in Nat /\ Max(at(y)) \in Nat
    <3> HIDE DEF at
    <3> QED
      BY <1>1, <2>1, <2>2
  <2> QED
    BY <2>2, <2>3, <2>4
<1>5. Max(at(e)) \in Nat /\ Max(at(d)) \in Nat /\ e \in Nat /\ d \in Nat
  <2>1. e \in Nat /\ d \in Nat
    BY DEF Epochs
  <2>2. Max(at(e)) \in at(e) /\ Max(at(d)) \in at(d)
    BY Zenon, <1>2
  <2> HIDE DEF at
  <2> QED
    BY <1>1, <2>1, <2>2
<1>6. /\ e < d => Max(at(e)) < Max(at(d))
      /\ d < e => Max(at(d)) < Max(at(e))
  BY Zenon, <1>4
<1>7. e = d => Max(at(e)) = Max(at(d))
  OBVIOUS
<1> QED
  <2> HIDE DEF at
  <2>1. Max(at(d)) > Max(at(e)) <=> d > e
    BY <1>5, <1>6, <1>7
  <2> QED
    BY <2>1 DEF at

(* The epochs journaled last are the highest ones. *)
LEMMA ReportedAreHighest ==
  ASSUME NEW s \in Seq(Record), NEW j, OrderAgrees(s, j), NEW u \in Uids, NEW n
  PROVE  ReportedEpochs(s, u, n) = Highest(j, u, n)
<1> DEFINE at(x) == StagesAt(s, <<u, x>>)
           all == {e \in Epochs : at(e) # {}}
           later(e) == {d \in all : Max(at(d)) > Max(at(e))}
           higher(e) == {d \in all : d > e}
<1>1. ReportedEpochs(s, u, n) = {e \in all : Cardinality(later(e)) < n}
  BY Zenon DEF ReportedEpochs, StagesAt
<1>2. all = {e \in Epochs : j.stage[<<u, e>>] # "none"}
  BY Zenon DEF OrderAgrees
<1>3. Highest(j, u, n) = {e \in all : Cardinality(higher(e)) < n}
  BY Zenon, <1>2 DEF Highest
<1>4. \A e \in all : later(e) = higher(e)
  <2>1. ASSUME NEW e \in all, NEW d \in all PROVE Max(at(d)) > Max(at(e)) <=> d > e
    BY Zenon, LaterIsHigher
  <2> QED
    BY Zenon, <2>1
<1> HIDE DEF all, later, higher
<1> QED
  BY Zenon, <1>1, <1>3, <1>4

(* A deployment's high water, in terms of the summary. *)
LEMMA HighInSummary ==
  ASSUME NEW s \in Seq(Record), NEW j, HighAgrees(s, j), NEW k \in Keys
  PROVE  /\ HighWater(s, k[1]) = k[2] <=> IsHigh(j, k)
         /\ HighWater(s, k[1]) < k[2] <=> AboveHigh(j, k)
<1> DEFINE h == HighWater(s, k[1])
           on(e) == j.stage[<<k[1], e>>] # "none"
<1>1. k[1] \in Uids /\ k[2] \in Epochs /\ k = <<k[1], k[2]>>
  BY Zenon, KeyFacts
<1>2. h \in 0..MaxEpoch
  BY Zenon, HighIs
<1>3. (h # 0 => on(h)) /\ \A e \in Epochs : on(e) => e <= h
  BY Zenon, <1>1 DEF HighAgrees
<1>4. IsHigh(j, k) <=> on(k[2]) /\ \A e \in Epochs : e > k[2] => ~on(e)
  BY Zenon, <1>1 DEF IsHigh
<1>5. AboveHigh(j, k) <=> \A e \in Epochs : e >= k[2] => ~on(e)
  BY Zenon DEF AboveHigh
<1> HIDE DEF h, on
<1>6. h = k[2] <=> on(k[2]) /\ \A e \in Epochs : e > k[2] => ~on(e)
  BY <1>1, <1>2, <1>3, BoundsAssumption DEF Epochs
<1>7. h < k[2] <=> \A e \in Epochs : e >= k[2] => ~on(e)
  BY <1>1, <1>2, <1>3, BoundsAssumption DEF Epochs
<1> QED
  BY Zenon, <1>4, <1>5, <1>6, <1>7 DEF h

(* A log in agreement with its summary answers as the summary does. *)
LEMMA SumsAnswer ==
  ASSUME NEW s, Sums(s)
  PROVE  Agree(s)
<1> DEFINE j == Summary(s)
<1>1. s \in Seq(Record) /\ j \in Journal /\ AgreesWith(s, j)
  BY Zenon DEF Sums
<1> HIDE DEF j
<1>2. ASSUME NEW k \in Keys
      PROVE  NeedsRecovery(s, k) = (j.stage[k] = "failed")
  <2>1. j.stage[k] = IF LastForEpoch(s, k) = Blank THEN "none" ELSE LastForEpoch(s, k).type
    BY Zenon, <1>1 DEF AgreesWith, StageAgrees
  <2>2. Blank.type # "failed"
    BY DEF Blank
  <2> QED
    BY <2>1, <2>2 DEF NeedsRecovery
<1>3. ASSUME NEW k \in Keys PROVE FailedEver(s, k) = Failed(j, k)
  <2>1. FailedEver(s, k) <=> Failed(j, k)
    BY Zenon, <1>1 DEF AgreesWith, FailAgrees
  <2>2. FailedEver(s, k) \in BOOLEAN
    BY SMT DEF FailedEver
  <2>3. Failed(j, k) \in BOOLEAN
    BY SMT DEF Failed
  <2> QED
    BY SMT, <2>1, <2>2, <2>3
<1>4. ASSUME NEW k \in Keys
      PROVE  /\ (HighWater(s, k[1]) = k[2]) = IsHigh(j, k)
             /\ (HighWater(s, k[1]) < k[2]) = AboveHigh(j, k)
  <2>1. /\ HighWater(s, k[1]) = k[2] <=> IsHigh(j, k)
        /\ HighWater(s, k[1]) < k[2] <=> AboveHigh(j, k)
    BY Zenon, <1>1, HighInSummary DEF AgreesWith
  <2>2. k[1] \in Uids /\ k[2] \in Nat
    <3>1. k[1] \in Uids /\ k[2] \in Epochs
      BY Zenon, KeyFacts
    <3> QED
      BY <3>1 DEF Epochs
  <2>3. HighWater(s, k[1]) \in Nat
    <3>1. HighWater(s, k[1]) \in 0..MaxEpoch
      BY Zenon, <1>1, HighIs
    <3> QED
      BY <3>1
  <2>4. IsHigh(j, k) \in BOOLEAN /\ AboveHigh(j, k) \in BOOLEAN
    BY Zenon DEF IsHigh, AboveHigh
  <2> QED
    BY <2>1, <2>2, <2>3, <2>4
<1>5. \A u \in Uids, n \in Epochs : ReportedEpochs(s, u, n) = Highest(j, u, n)
  BY Zenon, <1>1, ReportedAreHighest DEF AgreesWith
<1> QED
  BY Zenon, <1>1, <1>2, <1>3, <1>4, <1>5
     DEF Agree, AgreesWith, StageAgrees, EntryAgrees, NewestAgrees, BoundAgrees, j
-----------------------------------------------------------------------------
(* The queries answer what the summary says, whatever happened to the file. *)

(* Whatever the file, memory or a power loss may leave is a log the agent  *)
(* wrote record by record, each record one it may append to those before.  *)
LogInv ==
  /\ \A f \in media \cup {file, base} : Sums(f.whole) /\ Sums(Decoded(f))
  /\ Sums(recs)
  /\ Appending => cur \in Appendable(recs)

(* A whole file holds its log. *)
LEMMA WholeSums ==
  ASSUME NEW f, f.tail = "none", Sums(f.whole)
  PROVE  Sums(f.whole) /\ Sums(Decoded(f))
  BY Zenon, WholeFile

(* The empty file holds the empty log. *)
LEMMA EmptySums == Sums(Empty.whole) /\ Sums(Decoded(Empty))
<1>1. Empty.tail = "none" /\ Empty.whole = <<>>
  BY Zenon DEF Empty
<1> QED
  BY Zenon, <1>1, SumsEmpty, WholeSums

(* Wherever a write stops, the file holds the log or the log and the record. *)
LEMMA ReachedSums ==
  ASSUME NEW f \in Clean, f.tail = "none", Sums(f.whole),
         NEW r \in Appendable(f.whole), NEW m \in 1..4
  PROVE  Sums(Reached(f, r)[m].whole) /\ Sums(Decoded(Reached(f, r)[m]))
<1>1. r \in Record
  BY Zenon, AppendableRecords
<1>2. /\ Reached(f, r)[m].whole \in {f.whole, Append(f.whole, r)}
      /\ Decoded(Reached(f, r)[m]) \in {f.whole, Append(f.whole, r)}
  BY Zenon, <1>1, ReachedFacts
<1>3. Sums(Append(f.whole, r))
  BY Zenon, <1>1, SumsAppend
<1> QED
  BY Zenon, <1>2, <1>3

(* Every step of an append leaves logs the agent wrote. *)
LEMMA AppendSums ==
  ASSUME IInv, LogInv, Begin \/ Write \/ Sync \/ Undo \/ Resync \/ Close
  PROVE  LogInv'
<1>1. CASE Begin
  <2>1. /\ base' = file /\ cur' \in Appendable(recs) /\ UNCHANGED <<file, media, recs>>
    BY Zenon, <1>1 DEF Begin
  <2>2. cur' \in Appendable(recs')
    BY Zenon, <2>1
  <2> QED
    BY Zenon, <2>1, <2>2 DEF LogInv
<1>2. CASE Write
  <2>1. /\ file.tail = "none" /\ file.whole = recs /\ file \in Clean
        /\ Sums(recs) /\ cur \in Appendable(recs)
    BY Zenon, <1>2 DEF Write, IInv, AppendInv, CleanInv, Appending, LogInv
  <2>2. PICK n \in 1..4 :
          /\ file' = Reached(file, cur)[n]
          /\ media' = media \cup {Reached(file, cur)[m] : m \in 1..n}
    BY Zenon, <1>2 DEF Write
  <2>3. UNCHANGED <<recs, cur, base>>
    BY Zenon, <1>2 DEF Write
  <2>4. 1..n \subseteq 1..4
    BY <2>2
  <2>5. \A m \in 1..4 :
          Sums(Reached(file, cur)[m].whole) /\ Sums(Decoded(Reached(file, cur)[m]))
    BY Zenon, <2>1, ReachedSums
  <2>6. ASSUME NEW f \in media' \cup {file', base'} PROVE Sums(f.whole) /\ Sums(Decoded(f))
    BY Zenon, <2>2, <2>3, <2>4, <2>5, <2>6 DEF LogInv
  <2> QED
    BY Zenon, <2>1, <2>3, <2>6 DEF LogInv
<1>3. CASE Sync
  <2>1. UNCHANGED <<file, cur, base>>
    BY Zenon, <1>3 DEF Sync
  <2>2. cur \in Appendable(recs) /\ cur \in Record /\ Sums(recs)
    BY Zenon, <1>3 DEF Sync, LogInv, Appending, IInv, CleanInv
  <2>3. CASE pc' = "close" /\ media' = Synced(file) /\ recs' = Append(recs, cur)
    <3>1. Sums(recs')
      BY Zenon, <2>2, <2>3, SumsAppend
    <3>2. ~Appending'
      BY <2>3 DEF Appending
    <3>3. \A f \in media' : f \in {file, Empty}
      BY Zenon, <2>3 DEF Synced
    <3> QED
      BY Zenon, <2>1, <3>1, <3>2, <3>3, EmptySums DEF LogInv
  <2>4. CASE pc' = "undo" /\ UNCHANGED <<media, recs>>
    BY Zenon, <2>1, <2>2, <2>4 DEF LogInv
  <2> QED
    BY Zenon, <1>3, <2>3, <2>4 DEF Sync
<1>4. CASE Undo
  <2>1. /\ cur \in Appendable(recs) /\ UNCHANGED <<recs, cur, base>>
        /\ file' \in {file, base} /\ media' \subseteq media \cup {base}
    BY Zenon, <1>4 DEF Undo, LogInv, Appending
  <2> QED
    BY Zenon, <2>1 DEF LogInv
<1>5. CASE Resync
  <2>1. /\ UNCHANGED <<file, recs, cur, base>> /\ cur \in Appendable(recs)
        /\ \A f \in media' : f \in media \cup {file, Empty}
    BY Zenon, <1>5 DEF Resync, Synced, LogInv, Appending
  <2> QED
    BY Zenon, <2>1, EmptySums DEF LogInv
<1>6. CASE Close
  <2>1. /\ UNCHANGED <<file, recs, base>> /\ pc' = "idle"
        /\ \A f \in media' : f \in media \cup {file}
    BY Zenon, <1>6 DEF Close
  <2>2. ~Appending'
    BY <2>1 DEF Appending
  <2> QED
    BY Zenon, <2>1, <2>2 DEF LogInv
<1> QED
  BY Zenon, <1>1, <1>2, <1>3, <1>4, <1>5, <1>6

(* Opening, a crash and a power loss leave logs the agent wrote. *)
LEMMA RestartSums ==
  ASSUME IInv, LogInv, Open \/ Rewrite \/ Crash \/ PowerLoss
  PROVE  LogInv'
<1>1. ~Appending'
  <2>1. pc' \in {"idle", "rewrite", "down"}
    BY DEF Open, Rewrite, Crash, PowerLoss, Stopped
  <2> QED
    BY <2>1 DEF Appending
<1>2. CASE Open
  <2>1. recs' = Decoded(file) /\ UNCHANGED <<file, media, base>>
    BY Zenon, <1>2 DEF Open
  <2> QED
    BY Zenon, <1>1, <2>1 DEF LogInv
<1>3. CASE Rewrite
  <2>1. /\ file' \in {file, Rewritten} /\ UNCHANGED base
        /\ \A f \in media' : f \in media \cup {file'}
        /\ recs' \in {recs, <<>>}
    BY Zenon, <1>3 DEF Rewrite, Rewritten
  <2>2. Rewritten.tail = "none" /\ Rewritten.whole = recs
    BY Zenon DEF Rewritten
  <2>3. Sums(Rewritten.whole) /\ Sums(Decoded(Rewritten))
    BY Zenon, <2>2, WholeSums DEF LogInv
  <2>4. Sums(recs')
    BY Zenon, <2>1, SumsEmpty DEF LogInv
  <2> QED
    BY Zenon, <1>1, <2>1, <2>3, <2>4 DEF LogInv
<1>4. CASE Crash \/ PowerLoss
  <2>1. /\ recs' = <<>> /\ base' = Empty
        /\ file' \in media \cup {file} /\ media' \subseteq media \cup {file'}
    BY Zenon, <1>4 DEF Crash, PowerLoss, Stopped
  <2>2. Sums(recs')
    BY Zenon, <2>1, SumsEmpty
  <2> QED
    BY Zenon, <1>1, <2>1, <2>2, EmptySums DEF LogInv
<1> QED
  BY Zenon, <1>2, <1>3, <1>4

(* Whatever is ever read back is a log the agent wrote, in agreement with *)
(* its summary.                                                           *)
THEOREM LogsAgree == Spec => []LogInv
<1>1. Init => LogInv
  <2> SUFFICES ASSUME Init PROVE LogInv
    OBVIOUS
  <2>1. file = Empty /\ media = {Empty} /\ base = Empty /\ recs = <<>> /\ ~Appending
    BY DEF Init, Appending
  <2> QED
    BY Zenon, <2>1, EmptySums, SumsEmpty DEF LogInv
<1>2. IInv /\ LogInv /\ [Next]_vars => LogInv'
  <2> SUFFICES ASSUME IInv, LogInv, [Next]_vars PROVE LogInv'
    OBVIOUS
  <2>1. CASE UNCHANGED vars
    <3>1. UNCHANGED <<file, media, recs, pc, cur, base>>
      BY Zenon, <2>1 DEF vars
    <3> QED
      BY Zenon, <3>1 DEF LogInv, Appending
  <2> QED
    BY Zenon, <2>1, AppendSums, RestartSums DEF Next
<1> QED
  BY <1>1, <1>2, Invariance, PTL DEF Spec

(* Journal's loops over its records (HighWater, LastForEpoch, FailedEver,   *)
(* Accepted, NeedsRecovery, LatestRecovery, BoundDeployment and Epochs)     *)
(* answer what the summary per promotion that the activation protocol works *)
(* on says, for logs of any length and after any failure, crash or power    *)
(* loss.                                                                    *)
THEOREM QueriesAnswerSummary == Spec => []QueriesAgree
<1>1. LogInv => QueriesAgree
  BY Zenon, SumsAnswer DEF LogInv, QueriesAgree
<1> QED
  BY <1>1, LogsAgree, PTL
-----------------------------------------------------------------------------
(* To the Activator the file is a journal of summaries. *)

(* The instance's definitions over constants are the ones used here. *)
LEMMA SameSets ==
  /\ Jnl!Keys = Keys /\ Jnl!Uids = Uids /\ Jnl!Epochs = Epochs /\ Jnl!Entry = Entry
  /\ Jnl!NoJournal = NoJournal
  BY Zenon DEF Jnl!Keys, Keys, Jnl!Uids, Uids, Jnl!Epochs, Epochs, Jnl!Entry, Entry,
     Jnl!Recovery, Recovery, Jnl!NoJournal, NoJournal, Jnl!NoEntry, NoEntry,
     Jnl!NoRecovery, NoRecovery, Jnl!NoKey, NoKey

(* So are its queries of a summary. *)
LEMMA SameQueries ==
  ASSUME NEW j, NEW k
  PROVE  /\ Jnl!IsHigh(j, k) <=> IsHigh(j, k)
         /\ Jnl!AboveHigh(j, k) <=> AboveHigh(j, k)
         /\ Jnl!BoundTo(j, k) <=> BoundTo(j, k)
         /\ Jnl!NextStages(k) = NextStages(k)
  BY Zenon, SameSets DEF Jnl!IsHigh, IsHigh, Jnl!AboveHigh, AboveHigh, Jnl!BoundTo, BoundTo,
     Jnl!NextStages, NextStages

(* And what a record does to one. *)
LEMMA SameUpdates ==
  ASSUME NEW j, NEW k, NEW x, NEW y, NEW z
  PROVE  /\ Jnl!Accepting(j, k, x, y, z) = Accepting(j, k, x, y, z)
         /\ Jnl!Marking(j, k, x) = Marking(j, k, x)
         /\ Jnl!Rebinding(j, k) = Rebinding(j, k)
  BY Zenon DEF Jnl!Accepting, Accepting, Jnl!Marking, Marking, Jnl!Rebinding, Rebinding

(* A record the agent may append makes of a log's summary what the journal *)
(* of summaries allows.                                                     *)
LEMMA AppendableGrows ==
  ASSUME NEW s, Sums(s), NEW r \in Appendable(s)
  PROVE  Record1(Summary(s), r) \in Jnl!Grown(Summary(s))
<1> DEFINE j == Summary(s)
<1>1. s \in Seq(Record) /\ j \in Journal /\ AgreesWith(s, j) /\ BoundDeployment(s) = j.bound
  BY Zenon DEF Sums, AgreesWith, BoundAgrees
<1> HIDE DEF j
<1>2. ASSUME NEW k \in Keys, Acceptance(s, r, k) PROVE Record1(j, r) \in Jnl!Acceptances(j)
  <2>1. Record1(j, r) = Accepting(j, k, r.entry.rev, r.entry.prev, r.entry.recovery)
    BY Zenon, <1>2 DEF Acceptance, Record1
  <2>2. BoundTo(j, k[1])
    BY Zenon, <1>1, <1>2 DEF Acceptance, BoundTo
  <2>3. HighWater(s, k[1]) < k[2]
    <3>1. HighWater(s, k[1]) \in 0..MaxEpoch /\ k[2] \in Epochs
      BY Zenon, <1>1, HighIs, KeyFacts
    <3> QED
      BY <1>2, <3>1 DEF Acceptance, Epochs
  <2>4. AboveHigh(j, k)
    BY Zenon, <1>1, <2>3, HighInSummary DEF AgreesWith
  <2>5. k \in {l \in Jnl!Keys : Jnl!BoundTo(j, l[1]) /\ Jnl!AboveHigh(j, l)}
    BY Zenon, <2>2, <2>4, SameSets, SameQueries
  <2>6. r.entry \in Jnl!Entry
    BY Zenon, <1>2, SameSets DEF Acceptance
  <2>7. Record1(j, r) = Jnl!Accepting(j, k, r.entry.rev, r.entry.prev, r.entry.recovery)
    BY Zenon, <2>1, SameUpdates
  <2> QED
    BY SMT, <2>5, <2>6, <2>7 DEF Jnl!Acceptances
<1>3. ASSUME NEW k \in Keys, Stage(s, r, k) PROVE Record1(j, r) \in Jnl!Markings(j)
  <2>1. /\ r.key = k /\ r.type \in NextStages(LastForEpoch(s, k).type)
        /\ HighWater(s, k[1]) = k[2] /\ BoundDeployment(s) = k[1]
    BY Zenon, <1>3 DEF Stage
  <2>2. r.type \notin {"accepted", "rebind", "source"}
    <3>1. r.type \in {"applied", "failed", "committed", "recovered"}
      BY Zenon, <2>1, NextStagesAre
    <3> QED
      BY <3>1
  <2>3. Record1(j, r) = Marking(j, k, r.type)
    BY Zenon, <2>1, <2>2 DEF Record1
  <2>4. IsHigh(j, k)
    BY Zenon, <1>1, <2>1, HighInSummary DEF AgreesWith
  <2>5. r.type \in NextStages(j.stage[k])
    BY Zenon, <1>1, <2>1, <2>4 DEF AgreesWith, StageAgrees, IsHigh
  <2>6. k \in {l \in Jnl!Keys : j.bound = l[1] /\ Jnl!IsHigh(j, l)}
    BY Zenon, <1>1, <2>1, <2>4, SameSets, SameQueries
  <2>7. Record1(j, r) \in {Jnl!Marking(j, k, t) : t \in Jnl!NextStages(j.stage[k])}
    BY Zenon, <2>3, <2>5, SameUpdates, SameQueries
  <2> QED
    BY Zenon, <2>6, <2>7 DEF Jnl!Markings
<1>4. ASSUME NoStage(s, r) PROVE Record1(j, r) \in Jnl!Rebindings(j) \cup {j}
  <2>1. CASE r.type = "source"
    BY Zenon, <2>1 DEF Record1
  <2>2. CASE r.type = "rebind"
    <3>1. PICK u \in Uids : r.key = <<u, 0>> /\ BoundDeployment(s) \notin {0, u}
      BY <1>4, <2>2 DEF NoStage
    <3>2. r.key[1] = u
      BY <3>1
    <3>3. Record1(j, r) = Rebinding(j, u)
      BY Zenon, <2>2, <3>2 DEF Record1
    <3>4. ~BoundTo(j, u)
      BY Zenon, <1>1, <3>1 DEF BoundTo
    <3>5. u \in {v \in Jnl!Uids : ~Jnl!BoundTo(j, v)}
      BY Zenon, <3>4, SameSets, SameQueries
    <3>6. Record1(j, r) = Jnl!Rebinding(j, u)
      BY Zenon, <3>3, SameUpdates
    <3> QED
      BY Zenon, <3>5, <3>6 DEF Jnl!Rebindings
  <2> QED
    BY Zenon, <1>4, <2>1, <2>2 DEF NoStage
<1> QED
  BY Zenon, <1>2, <1>3, <1>4, Kinds DEF Jnl!Grown, j

(* What is known of an append that ended in an error: where its record may *)
(* be, and that it was one the agent may append.                           *)
DoubtInv ==
  /\ broken => pc = "idle"
  /\ pc = "close" => recs = Append(base.whole, cur) /\ cur \in Appendable(base.whole)
  /\ InDoubt => cur \in Appendable(recs)
  /\ broken /\ ~InDoubt => Decoded(file) = recs

(* A log is not the log with one record more. *)
LEMMA AppendDiffers ==
  ASSUME NEW s \in Seq(Record), NEW r \in Record
  PROVE  s # Append(s, r)
<1>1. Len(Append(s, r)) = Len(s) + 1 /\ Len(s) \in Nat
  OBVIOUS
<1> QED
  BY <1>1

(* Where nothing failed and no append is being closed there is no doubt. *)
LEMMA NoDoubt ==
  ASSUME ~broken', pc' # "close"
  PROVE  DoubtInv'
  BY Zenon DEF DoubtInv, InDoubt

(* Every step keeps what is known of a failed append. *)
LEMMA DoubtKept ==
  ASSUME IInv, LogInv, DoubtInv, Next
  PROVE  DoubtInv'
<1>1. broken \in BOOLEAN /\ (pc # "idle" => ~broken)
  BY Zenon DEF IInv, CleanInv, DoubtInv
<1>2. CASE Begin
  <2>1. ~broken' /\ pc' # "close"
    BY <1>2 DEF Begin
  <2> QED
    BY Zenon, <2>1, NoDoubt
<1>3. CASE Write
  <2>1. pc # "idle" /\ UNCHANGED broken /\ pc' # "close"
    BY <1>3 DEF Write
  <2> QED
    BY Zenon, <1>1, <2>1, NoDoubt
<1>4. CASE Sync
  <2>1. pc # "idle" /\ UNCHANGED <<broken, cur, base>>
    BY <1>4 DEF Sync
  <2>2. base.whole = recs /\ cur \in Appendable(recs)
    BY Zenon, <1>4 DEF Sync, IInv, AppendInv, LogInv, Appending
  <2>3. CASE pc' = "close" /\ recs' = Append(recs, cur)
    BY Zenon, <1>1, <2>1, <2>2, <2>3 DEF DoubtInv, InDoubt
  <2>4. CASE pc' = "undo"
    <3>1. pc' # "close"
      BY <2>4
    <3> QED
      BY Zenon, <1>1, <2>1, <3>1, NoDoubt
  <2> QED
    BY Zenon, <1>4, <2>3, <2>4 DEF Sync
<1>5. CASE Undo \/ Resync
  <2>1. pc \in {"undo", "resync"} /\ Appending /\ pc # "idle" /\ pc' # "close"
    BY <1>5 DEF Undo, Resync, Appending
  <2>2. UNCHANGED <<recs, cur, base>> /\ (UNCHANGED broken \/ (broken' = TRUE /\ pc' = "idle"))
    BY Zenon, <1>5 DEF Undo, Resync
  <2>3. base.whole = recs /\ cur \in Appendable(recs)
    BY Zenon, <2>1 DEF IInv, AppendInv, LogInv
  <2>4. CASE UNCHANGED broken
    BY Zenon, <1>1, <2>1, <2>4, NoDoubt
  <2>5. CASE broken' = TRUE /\ pc' = "idle"
    <3>1. InDoubt'
      BY Zenon, <2>2, <2>3, <2>5 DEF InDoubt
    <3> QED
      BY Zenon, <2>1, <2>2, <2>3, <2>5, <3>1 DEF DoubtInv
  <2> QED
    BY Zenon, <2>2, <2>4, <2>5
<1>6. CASE Close
  <2>1. /\ pc = "close" /\ pc # "idle" /\ pc' = "idle" /\ pc' # "close"
        /\ UNCHANGED <<file, recs, cur, base>>
    BY <1>6 DEF Close
  <2>2. /\ recs = Append(base.whole, cur) /\ base \in Clean /\ cur \in Record
        /\ file.tail = "none" /\ file.whole = recs
    BY Zenon, <2>1 DEF DoubtInv, IInv, CleanInv, AppendInv
  <2>3. CASE UNCHANGED broken
    BY Zenon, <1>1, <2>1, <2>3, NoDoubt
  <2>4. CASE broken' = TRUE
    <3>1. base.whole \in Seq(Record)
      BY Zenon, <2>2 DEF Clean
    <3>2. ~InDoubt'
      BY Zenon, <2>1, <2>2, <3>1, AppendDiffers DEF InDoubt
    <3>3. Decoded(file) = recs
      BY Zenon, <2>2, WholeFile
    <3>4. Decoded(file)' = recs'
      BY Zenon, <2>1, <3>3 DEF Decoded
    <3> QED
      BY Zenon, <2>1, <3>2, <3>4 DEF DoubtInv
  <2> QED
    BY Zenon, <1>6, <2>3, <2>4 DEF Close
<1>7. CASE Open \/ Rewrite
  <2>1. pc # "idle" /\ UNCHANGED broken /\ pc' # "close"
    BY <1>7 DEF Open, Rewrite
  <2> QED
    BY Zenon, <1>1, <2>1, NoDoubt
<1>8. CASE Crash \/ PowerLoss
  <2>1. ~broken' /\ pc' # "close"
    BY <1>8 DEF Crash, PowerLoss, Stopped
  <2> QED
    BY Zenon, <2>1, NoDoubt
<1> QED
  BY Zenon, <1>2, <1>3, <1>4, <1>5, <1>6, <1>7, <1>8 DEF Next

(* What the Activator sees of the file. *)
InMemory == Summary(Known)
OnDisk == IF InDoubt THEN Record1(Summary(recs), cur) ELSE Summary(Known)
Seen == <<InMemory, OnDisk, broken>>

(* Which log is the known one. *)
LEMMA KnownIs ==
  /\ pc = "close" => Known = base.whole
  /\ pc # "close" /\ Opened => Known = recs
  /\ ~Opened => Known = Decoded(file)
  /\ pc # "close" => Known = Readable
<1>1. ~Opened => pc # "close"
  BY DEF Opened
<1> QED
  BY Zenon, <1>1 DEF Known, Readable

(* Steps that change neither the known log nor what failed are nothing to  *)
(* the Activator.                                                          *)
LEMMA Unseen ==
  ASSUME Known' = Known, broken = FALSE, broken' = FALSE
  PROVE  UNCHANGED Seen
<1>1. ~InDoubt /\ ~InDoubt'
  BY Zenon DEF InDoubt
<1> QED
  BY Zenon, <1>1 DEF OnDisk, InMemory, Seen

(* An append that succeeds, or is found by whoever opens the file next. *)
LEMMA SeenAppend ==
  ASSUME NEW s, NEW r, Known = s, Sums(s), r \in Appendable(s),
         Known' = Append(s, r), broken = FALSE, broken' = FALSE
  PROVE  Jnl!JournalNext
<1>1. s \in Seq(Record) /\ r \in Record
  BY Zenon, AppendableRecords DEF Sums
<1>2. InMemory' = Record1(Summary(s), r) /\ OnDisk' = InMemory' /\ InMemory = Summary(s)
  BY Zenon, <1>1, SummaryAppend DEF InMemory, OnDisk, InDoubt
<1>3. Record1(Summary(s), r) \in Jnl!Grown(InMemory)
  BY Zenon, <1>2, AppendableGrows
<1>4. Jnl!Append(Record1(Summary(s), r))
  BY Zenon, <1>2 DEF Jnl!Append, InMemory, OnDisk
<1> QED
  BY Zenon, <1>3, <1>4 DEF Jnl!JournalNext, InMemory

(* Begin, Write and Sync show nothing: the record is there when Append     *)
(* returns.                                                                *)
LEMMA EarlySteps ==
  ASSUME IInv, IInv', DoubtInv, Begin \/ Write \/ Sync
  PROVE  UNCHANGED Seen
<1>1. broken \in BOOLEAN /\ pc \in {"idle", "write", "sync"} /\ (pc = "idle" => ~broken)
      /\ UNCHANGED broken /\ pc' \in {"write", "sync", "undo", "close"}
  BY DEF Begin, Write, Sync, IInv, CleanInv
<1>2. broken = FALSE /\ broken' = FALSE
  BY Zenon, <1>1 DEF DoubtInv
<1>3. Opened /\ Opened' /\ pc # "close"
  BY <1>1 DEF Opened
<1>4. Known = recs
  BY Zenon, <1>3, KnownIs
<1>5. Known' = recs
  <2>1. CASE pc' = "close"
    <3>1. Sync /\ Appending /\ UNCHANGED base
      BY <2>1 DEF Begin, Write, Sync, Appending
    <3>2. base.whole = recs
      BY Zenon, <3>1 DEF IInv, AppendInv
    <3> QED
      BY Zenon, <2>1, <3>1, <3>2 DEF Known
  <2>2. CASE pc' # "close"
    <3>1. recs' = recs
      BY Zenon, <2>2 DEF Begin, Write, Sync
    <3> QED
      BY Zenon, <1>3, <2>2, <3>1 DEF Known
  <2> QED
    BY Zenon, <2>1, <2>2
<1> QED
  BY Zenon, <1>2, <1>4, <1>5, Unseen

(* An append given up is undone, or in doubt. *)
LEMMA GivenUp ==
  ASSUME IInv, LogInv, DoubtInv, Undo \/ Resync
  PROVE  Jnl!JournalNext \/ UNCHANGED Seen
<1>1. /\ broken \in BOOLEAN /\ pc \in {"undo", "resync"} /\ pc' \in {"resync", "idle"}
      /\ Appending /\ UNCHANGED <<recs, cur, base>> /\ broken' \in {broken, TRUE}
  BY DEF Undo, Resync, Appending, IInv, CleanInv
<1>2. pc # "idle" /\ pc # "close" /\ pc' # "close" /\ Opened /\ Opened'
  BY <1>1 DEF Opened
<1>3. broken = FALSE
  BY Zenon, <1>1, <1>2 DEF DoubtInv
<1>4. Known = recs /\ Known' = recs
  BY Zenon, <1>1, <1>2 DEF Known
<1>5. base.whole = recs /\ cur \in Appendable(recs) /\ Sums(recs)
  BY Zenon, <1>1 DEF IInv, AppendInv, LogInv
<1>6. CASE broken' = TRUE
  <2>1. InDoubt'
    BY Zenon, <1>1, <1>5, <1>6 DEF InDoubt
  <2>2. InMemory = Summary(recs) /\ InMemory' = InMemory
        /\ OnDisk' = Record1(Summary(recs), cur)
    BY Zenon, <1>1, <1>4, <2>1 DEF InMemory, OnDisk
  <2>3. Record1(Summary(recs), cur) \in Jnl!Grown(InMemory)
    BY Zenon, <1>5, <2>2, AppendableGrows
  <2>4. Jnl!AppendError(Record1(Summary(recs), cur))
    BY Zenon, <1>3, <1>6, <2>2 DEF Jnl!AppendError, InMemory, OnDisk
  <2> QED
    BY Zenon, <2>3, <2>4 DEF Jnl!JournalNext, InMemory
<1>7. CASE broken' = broken
  BY Zenon, <1>3, <1>4, <1>7, Unseen
<1> QED
  BY Zenon, <1>1, <1>6, <1>7

(* Append returns: with the record, or with the error of close or of the   *)
(* directory's sync, after which memory and the file hold it.              *)
LEMMA Returned ==
  ASSUME IInv, LogInv, DoubtInv, Close
  PROVE  Jnl!JournalNext
<1>1. /\ pc = "close" /\ pc # "idle" /\ pc' = "idle" /\ pc' # "close"
      /\ UNCHANGED <<file, recs, cur, base>> /\ broken' \in {broken, TRUE}
  BY DEF Close
<1>2. broken = FALSE
  BY Zenon, <1>1 DEF DoubtInv, IInv, CleanInv
<1>3. /\ recs = Append(base.whole, cur) /\ cur \in Appendable(base.whole)
      /\ base \in Clean /\ cur \in Record /\ Sums(base.whole)
  BY Zenon, <1>1 DEF DoubtInv, IInv, CleanInv, LogInv
<1>4. Opened'
  BY <1>1 DEF Opened
<1>5. Known = base.whole /\ Known' = Append(base.whole, cur)
  BY Zenon, <1>1, <1>3, <1>4 DEF Known
<1>6. CASE broken' = broken
  BY Zenon, <1>2, <1>3, <1>5, <1>6, SeenAppend
<1>7. CASE broken' = TRUE
  <2>1. base.whole \in Seq(Record)
    BY Zenon, <1>3 DEF Clean
  <2>2. ~InDoubt'
    BY Zenon, <1>1, <1>3, <2>1, AppendDiffers DEF InDoubt
  <2>3. InMemory = Summary(base.whole) /\ InMemory' = Record1(Summary(base.whole), cur)
    BY Zenon, <1>3, <1>5, <2>1, SummaryAppend DEF InMemory
  <2>4. OnDisk' = InMemory'
    BY Zenon, <2>2 DEF OnDisk, InMemory
  <2>5. Record1(Summary(base.whole), cur) \in Jnl!Grown(InMemory)
    BY Zenon, <1>3, <2>3, AppendableGrows
  <2>6. Jnl!AppendError(Record1(Summary(base.whole), cur))
    BY Zenon, <1>2, <1>7, <2>3, <2>4 DEF Jnl!AppendError, InMemory, OnDisk
  <2> QED
    BY Zenon, <2>5, <2>6 DEF Jnl!JournalNext, InMemory
<1> QED
  BY Zenon, <1>1, <1>6, <1>7

(* OpenJournal reads what the Activator already counts on. *)
LEMMA Reopened ==
  ASSUME IInv, IInv', DoubtInv, Open \/ Rewrite
  PROVE  UNCHANGED Seen
<1>1. /\ pc \in {"down", "rewrite"} /\ pc # "idle" /\ pc # "close" /\ pc' # "close"
      /\ UNCHANGED broken
  BY DEF Open, Rewrite
<1>2. broken = FALSE
  BY Zenon, <1>1 DEF DoubtInv, IInv, CleanInv
<1>3. Readable' = Readable
  BY Zenon, OpenReopens DEF Log!Reopen, Readable
<1>4. Known = Readable
  BY Zenon, <1>1, KnownIs
<1>5. Known' = Readable'
  BY Zenon, <1>1 DEF Known, Readable
<1> QED
  BY Zenon, <1>1, <1>2, <1>3, <1>4, <1>5, Unseen

(* A process that stops leaves the log, the log with the record it was      *)
(* appending, or, after an append in doubt, either.                         *)
LEMMA StoppedReopens ==
  ASSUME IInv, LogInv, DoubtInv, Crash
  PROVE  Jnl!JournalNext \/ UNCHANGED Seen
<1>1. /\ pc' = "down" /\ pc' # "close" /\ UNCHANGED file /\ broken' = FALSE
      /\ broken \in BOOLEAN /\ recs \in Seq(Record) /\ cur \in Record
  BY Zenon DEF Crash, Stopped, IInv, CleanInv
<1>2. ~Opened'
  BY <1>1 DEF Opened
<1>3. Known' = Decoded(file)
  BY Zenon, <1>1, <1>2 DEF Known, Decoded
<1>4. ~InDoubt' /\ OnDisk' = InMemory' /\ InMemory' = Summary(Decoded(file))
  BY Zenon, <1>1, <1>3 DEF InDoubt, OnDisk, InMemory
<1>5. CASE broken = TRUE
  <2>1. pc = "idle"
    BY Zenon, <1>5 DEF DoubtInv
  <2>2. Opened /\ pc # "close"
    BY <2>1 DEF Opened
  <2>3. Known = recs /\ InMemory = Summary(recs)
    BY Zenon, <2>2 DEF Known, InMemory
  <2>4. Decoded(file) \in {recs, Append(recs, cur)}
    BY Zenon, <2>2 DEF IInv, AppendInv
  <2>5. InMemory' \in {InMemory, OnDisk}
    <3>1. CASE InDoubt
      <4>1. OnDisk = Record1(Summary(recs), cur)
        BY Zenon, <3>1 DEF OnDisk
      <4> QED
        BY Zenon, <1>1, <1>4, <2>3, <2>4, <4>1, SummaryAppend
    <3>2. CASE ~InDoubt
      BY Zenon, <1>4, <1>5, <2>3, <3>2 DEF DoubtInv
    <3> QED
      BY Zenon, <3>1, <3>2
  <2>6. Jnl!Open
    BY Zenon, <1>1, <1>4, <2>5 DEF Jnl!Open, InMemory, OnDisk
  <2> QED
    BY Zenon, <2>6 DEF Jnl!JournalNext
<1>6. CASE broken = FALSE /\ pc = "close"
  <2>1. /\ recs = Append(base.whole, cur) /\ cur \in Appendable(base.whole)
        /\ file.tail = "none" /\ file.whole = recs /\ Sums(base.whole)
    BY Zenon, <1>6 DEF DoubtInv, IInv, AppendInv, LogInv
  <2>2. Known = base.whole /\ Known' = Append(base.whole, cur)
    BY Zenon, <1>3, <1>6, <2>1, WholeFile DEF Known
  <2> QED
    BY Zenon, <1>1, <1>6, <2>1, <2>2, SeenAppend
<1>7. CASE broken = FALSE /\ pc # "close" /\ Opened
  <2>1. Known = recs /\ Decoded(file) \in {recs, Append(recs, cur)}
    BY Zenon, <1>7 DEF Known, IInv, AppendInv
  <2>2. CASE Decoded(file) = recs
    BY Zenon, <1>1, <1>3, <1>7, <2>1, <2>2, Unseen
  <2>3. CASE Decoded(file) = Append(recs, cur) /\ Appending
    <3>1. cur \in Appendable(recs) /\ Sums(recs)
      BY Zenon, <2>3 DEF LogInv
    <3> QED
      BY Zenon, <1>1, <1>3, <1>7, <2>1, <2>3, <3>1, SeenAppend
  <2>4. ~Appending => Decoded(file) = recs
    <3>1. ~Appending => pc = "idle"
      BY <1>7 DEF Appending, Opened, IInv, CleanInv
    <3>2. pc = "idle" => file.tail = "none" /\ file.whole = recs
      BY Zenon, <1>7 DEF IInv, AppendInv
    <3> QED
      BY Zenon, <3>1, <3>2, WholeFile
  <2> QED
    BY Zenon, <2>1, <2>2, <2>3, <2>4
<1>8. CASE broken = FALSE /\ ~Opened
  BY Zenon, <1>1, <1>3, <1>8, KnownIs, Unseen
<1> QED
  BY Zenon, <1>1, <1>5, <1>6, <1>7, <1>8

(* Every step of the journal file, its failed appends, crashes and reopens *)
(* included, is to the Activator a step of the journal of summaries that    *)
(* the activation protocol is modelled on, or none; a power loss is the one *)
(* exception, which that protocol does not model.                           *)
THEOREM FileIsSummaryJournal == Spec => IsSummaryJournal
<1>1. Init => DoubtInv /\ Jnl!JournalInit
  <2> SUFFICES ASSUME Init PROVE DoubtInv /\ Jnl!JournalInit
    OBVIOUS
  <2>1. pc = "idle" /\ pc # "close" /\ broken = FALSE /\ recs = <<>>
    BY DEF Init
  <2>2. Opened /\ ~InDoubt
    BY <2>1 DEF Opened, InDoubt
  <2>3. Known = <<>>
    BY Zenon, <2>1, <2>2 DEF Known
  <2>4. InMemory = Jnl!NoJournal /\ OnDisk = InMemory
    BY Zenon, <2>2, <2>3, SummaryEmpty, SameSets DEF InMemory, OnDisk
  <2> QED
    BY Zenon, <2>1, <2>2, <2>4 DEF DoubtInv, Jnl!JournalInit, InMemory, OnDisk
<1>2. IInv /\ LogInv /\ DoubtInv /\ [Next]_vars => DoubtInv'
  <2> SUFFICES ASSUME IInv, LogInv, DoubtInv, UNCHANGED vars PROVE DoubtInv'
    BY Zenon, DoubtKept
  <2>1. UNCHANGED <<file, recs, pc, cur, base, broken>>
    BY Zenon DEF vars
  <2> QED
    BY Zenon, <2>1 DEF DoubtInv, InDoubt
<1>3. IInv /\ IInv' /\ LogInv /\ DoubtInv /\ [Next]_vars
        => PowerLoss \/ Jnl!JournalNext \/ UNCHANGED Seen
  <2> SUFFICES ASSUME IInv, IInv', LogInv, DoubtInv, [Next]_vars
               PROVE  PowerLoss \/ Jnl!JournalNext \/ UNCHANGED Seen
    OBVIOUS
  <2>1. CASE UNCHANGED vars
    <3>1. UNCHANGED <<file, recs, pc, cur, base, broken>>
      BY Zenon, <2>1 DEF vars
    <3> QED
      BY Zenon, <3>1 DEF Seen, InMemory, OnDisk, Known, Opened, InDoubt
  <2> QED
    BY Zenon, <2>1, EarlySteps, GivenUp, Returned, Reopened, StoppedReopens DEF Next
<1>4. IInv /\ IInv' /\ LogInv /\ DoubtInv /\ [Next]_vars
        => [PowerLoss \/ Jnl!JournalNext]_<<Summary(Known),
              IF InDoubt THEN Record1(Summary(recs), cur) ELSE Summary(Known), broken>>
  BY Zenon, <1>3 DEF Seen, InMemory, OnDisk
<1> QED
  BY <1>1, <1>2, <1>4, Invariance, LogsAgree, PTL DEF Spec, IsSummaryJournal
=============================================================================
