--------------------------- MODULE SummaryJournal ---------------------------
(***************************************************************************)
(* The activation journal as the Activator uses it: summaries of what      *)
(* memory and the file hold, grown by one record at a time, with the       *)
(* outcomes an append and a reopen can have.  Activation makes its appends  *)
(* here; ActivationLog, the file behind it, is shown to take these steps.  *)
(***************************************************************************)
EXTENDS JournalSummary

VARIABLES
  jnl,     \* the journal in memory
  disk,    \* the journal file with its last line, which a reopen may keep
  broken   \* Journal.broken: appends fail until the process reopens the file

(* Append writes and fsyncs one record: durably, or with an error after    *)
(* which memory follows the file but no further append is taken.           *)
Append(new) ==
  /\ ~broken
  /\ jnl' = new
  /\ disk' = new
  /\ UNCHANGED broken

(* The error outcomes: refused or undone; not undone, so the line may be   *)
(* found at the next open; durable, with the close or directory sync lost. *)
AppendError(new) ==
  \/ UNCHANGED <<jnl, disk, broken>>
  \/ /\ ~broken
     /\ disk' = new
     /\ broken' = TRUE
     /\ UNCHANGED jnl
  \/ /\ ~broken
     /\ jnl' = new
     /\ disk' = new
     /\ broken' = TRUE

(* OpenJournal: a torn last line is dropped, a whole one is kept. *)
Open ==
  /\ jnl' \in {jnl, disk}
  /\ disk' = jnl'
  /\ broken' = FALSE
-----------------------------------------------------------------------------
(* What one record more, of those the agent appends, makes of a summary.  A *)
(* record of the source leaves it as it is.                                 *)
Acceptances(j) ==
  {Accepting(j, k, e.rev, e.prev, e.recovery) :
     k \in {k \in Keys : BoundTo(j, k[1]) /\ AboveHigh(j, k)}, e \in Entry}
Markings(j) ==
  UNION {{Marking(j, k, t) : t \in NextStages(j.stage[k])} :
           k \in {k \in Keys : j.bound = k[1] /\ IsHigh(j, k)}}
Rebindings(j) == {Rebinding(j, u) : u \in {u \in Uids : ~BoundTo(j, u)}}

Grown(j) == Acceptances(j) \cup Markings(j) \cup Rebindings(j) \cup {j}

JournalInit ==
  /\ jnl = NoJournal
  /\ disk = jnl
  /\ broken = FALSE

(* An append that the process does not outlive, and whose record is found  *)
(* at the next open, is an Append here.                                    *)
JournalNext ==
  \/ \E new \in Grown(jnl) : Append(new) \/ AppendError(new)
  \/ Open

JournalSpec == JournalInit /\ [][JournalNext]_<<jnl, disk, broken>>
=============================================================================
