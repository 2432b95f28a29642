----------------------------- MODULE DurableLog -----------------------------
(***************************************************************************)
(* What the activation journal promises its callers: an append-only log    *)
(* that grows by one record at a time while it is open, whose content does *)
(* not depend on when it is reopened, and of which the part that was       *)
(* acknowledged is never lost or changed.  A record whose append reported  *)
(* an error, or was interrupted, may be found in the log, and may be gone  *)
(* or back after power is lost.                                            *)
(***************************************************************************)
EXTENDS Sequences, Naturals

CONSTANT Record

VARIABLES log,    \* the records a reader finds
          acked,  \* the part of it appends have acknowledged
          up      \* whether a process has it open

Init == log = <<>> /\ acked = <<>> /\ up = TRUE

OneMore ==
  /\ Len(log') = Len(log) + 1
  /\ SubSeq(log', 1, Len(log)) = log
  /\ log'[Len(log')] \in Record

(* A log that has what was acknowledged. *)
Keeps(s) == Len(s) >= Len(acked) /\ SubSeq(s, 1, Len(acked)) = acked

(* One record is appended, acknowledged or not. *)
Extend ==
  /\ up
  /\ OneMore
  /\ acked' \in {acked, log'}
  /\ UNCHANGED up

Acknowledge ==
  /\ up
  /\ acked' = log
  /\ UNCHANGED <<log, up>>

(* The process stops, in the middle of an append or not. *)
Stop ==
  /\ up
  /\ up' = FALSE
  /\ UNCHANGED log \/ OneMore
  /\ UNCHANGED acked

Reopen ==
  /\ ~up
  /\ up' = TRUE
  /\ UNCHANGED <<log, acked>>

(* Power is lost: only what was acknowledged has to be there afterwards. *)
Lose ==
  /\ up' = FALSE
  /\ log' \in Seq(Record)
  /\ Keeps(log')
  /\ UNCHANGED acked

Next == Extend \/ Acknowledge \/ Stop \/ Reopen \/ Lose

Spec == Init /\ [][Next]_<<log, acked, up>>
=============================================================================
