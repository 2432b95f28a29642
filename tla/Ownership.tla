----------------------------- MODULE Ownership -----------------------------
(***************************************************************************)
(* The fenced ownership of one datapath scope of a node                    *)
(* (src/internal/edge/ownership/ownership.go).  Every writer process of    *)
(* the node shares one durable record and one lock file per scope, and     *)
(* scopes are independent of each other, so one scope is modelled.         *)
(*                                                                         *)
(* A commit is not atomic: the writer takes the scope's file lock, checks  *)
(* its ticket, persists Pending, mutates the host, and persists the        *)
(* cleared Pending with the next revision.  A process may die between any  *)
(* two of these, every write of the record may fail with or without having *)
(* reached the disk, and the machine may reboot, which empties the host    *)
(* state but not the record.                                               *)
(***************************************************************************)
EXTENDS Integers

CONSTANTS
    Writer,        \* writer incarnations; an ID is never used twice
    NoWriter,      \* the empty owner
    MaxGeneration, \* bound on the generations explored
    MaxRevision,   \* bound on the revisions explored
    MaxWrites      \* bound on the host contents explored

ASSUME NoWriterAssumption == NoWriter \notin Writer
ASSUME BoundsAssumption == /\ MaxGeneration \in Nat
                           /\ MaxRevision \in Nat
                           /\ MaxWrites \in Nat

VARIABLES
    rec,     \* the scope's durable record
    lock,    \* the holder of the scope's file lock
    dead,    \* the incarnations whose process has died
    ticket,  \* the ticket each writer holds
    base,    \* the host content each writer prepared its change from
    fenced,  \* the generation each writer's last Fence returned, 0 for none
    call,    \* the commit or exclusive call each writer is in
    host,    \* the host content, numbered by complete mutations
    torn,    \* TRUE when a mutation was left partly applied
    synced   \* history: generations in which a snapshot mutation completed

vars == <<rec, lock, dead, ticket, base, fenced, call, host, torn, synced>>

Kind == {"commit", "snapshot", "exclusive"}
Phase == {"none", "ready", "mutating", "mutated"}

Record == [owner: Writer \cup {NoWriter}, generation: Nat, revision: Nat,
           transitioning: BOOLEAN, pending: BOOLEAN]

NoTicket == [generation |-> -1, revision |-> -1]
Ticket == [generation: Nat, revision: Nat]

Call == [phase: Phase, kind: Kind, pending: BOOLEAN]
NoCall == [phase |-> "none", kind |-> "commit", pending |-> FALSE]

Unprepared == -1   \* nothing prepared with this ticket yet
Partial == -2      \* prepared from a host state in the middle of a change

TypeOK ==
    /\ rec \in Record
    /\ lock \in Writer \cup {NoWriter}
    /\ dead \subseteq Writer
    /\ ticket \in [Writer -> Ticket \cup {NoTicket}]
    /\ base \in [Writer -> Int]
    /\ fenced \in [Writer -> Nat]
    /\ call \in [Writer -> Call]
    /\ host \in Nat
    /\ torn \in BOOLEAN
    /\ synced \subseteq Nat

-----------------------------------------------------------------------------
Idle(w) == call[w].phase = "none"

ticketOf(r) == [generation |-> r.generation, revision |-> r.revision]

checkOwner(w, r) == ~r.transitioning /\ r.owner = w

Current(w) == ticket[w] = ticketOf(rec)

\* A call enters the lock file only when nobody holds it, and a process
\* makes one call at a time.
Enter(w) == /\ w \notin dead
            /\ Idle(w)
            /\ lock = NoWriter

Issue(w, t) == /\ ticket' = [ticket EXCEPT ![w] = t]
               /\ base' = [base EXCEPT ![w] = Unprepared]

\* Whatever existed in the kernel before the scope had a record is unknown.
Init ==
    /\ rec = [owner |-> NoWriter, generation |-> 0, revision |-> 0,
              transitioning |-> FALSE, pending |-> FALSE]
    /\ lock = NoWriter
    /\ dead = {}
    /\ ticket = [w \in Writer |-> NoTicket]
    /\ base = [w \in Writer |-> Unprepared]
    /\ fenced = [w \in Writer |-> 0]
    /\ call = [w \in Writer |-> NoCall]
    /\ host = 0
    /\ torn \in BOOLEAN
    /\ synced = {}

-----------------------------------------------------------------------------
(* The calls that only read and write the record.  A write of the record   *)
(* that fails before the rename changes nothing; one that fails after it   *)
(* leaves the new record on disk and reports an error, so the caller has   *)
(* no ticket (reported is FALSE).                                          *)

Claim(w, reported) ==
    /\ Enter(w)
    /\ rec.owner = NoWriter /\ ~rec.transitioning
    /\ rec.generation < MaxGeneration
    /\ rec' = [rec EXCEPT !.owner = w, !.generation = @ + 1, !.pending = TRUE]
    /\ IF reported THEN Issue(w, ticketOf(rec')) ELSE UNCHANGED <<ticket, base>>
    /\ UNCHANGED <<lock, dead, fenced, call, host, torn, synced>>

\* Begin, and Claim of a scope the caller already owns.
Begin(w) ==
    /\ Enter(w)
    /\ checkOwner(w, rec)
    /\ Issue(w, ticketOf(rec))
    /\ UNCHANGED <<rec, lock, dead, fenced, call, host, torn, synced>>

FenceSameGeneration(w, reported) ==   \* mutant: the transfer keeps the generation
    /\ Enter(w)
    /\ rec' = [rec EXCEPT !.transitioning = TRUE]
    /\ fenced' = [fenced EXCEPT ![w] = IF reported THEN rec.generation ELSE 0]
    /\ UNCHANGED <<lock, dead, ticket, base, call, host, torn, synced>>

Fence(w, reported) ==
    /\ Enter(w)
    /\ rec.generation < MaxGeneration
    /\ rec' = [rec EXCEPT !.transitioning = TRUE, !.generation = @ + 1]
    /\ fenced' = [fenced EXCEPT ![w] = IF reported THEN rec'.generation ELSE 0]
    /\ UNCHANGED <<lock, dead, ticket, base, call, host, torn, synced>>

Adopt(w, reported) ==
    /\ Enter(w)
    /\ fenced[w] # 0
    /\ rec.transitioning /\ rec.generation = fenced[w]
    /\ rec' = [rec EXCEPT !.owner = w, !.transitioning = FALSE, !.pending = TRUE]
    /\ IF reported THEN Issue(w, ticketOf(rec')) ELSE UNCHANGED <<ticket, base>>
    /\ UNCHANGED <<lock, dead, fenced, call, host, torn, synced>>

-----------------------------------------------------------------------------
(* Commit, CommitSnapshot and Exclusive.                                    *)

\* A writer prepares its change from the host state, holding no lock.
Prepare(w) ==
    /\ w \notin dead
    /\ Idle(w)
    /\ ticket[w] # NoTicket
    /\ base[w] = Unprepared
    /\ base' = [base EXCEPT ![w] =
                  IF torn \/ \E x \in Writer : call[x].phase = "mutating"
                  THEN Partial ELSE host]
    /\ UNCHANGED <<rec, lock, dead, ticket, fenced, call, host, torn, synced>>

AcceptsAnyGeneration(w, kind) ==   \* mutant: only the revision is compared
    \/ kind = "exclusive" /\ ~rec.transitioning
    \/ /\ kind # "exclusive"
       /\ base[w] # Unprepared
       /\ ticket[w].revision = rec.revision
       /\ ~rec.pending \/ kind = "snapshot"

Accepts(w, kind) ==
    \/ kind = "exclusive" /\ ~rec.transitioning
    \/ /\ kind # "exclusive"
       /\ base[w] # Unprepared
       /\ checkOwner(w, rec)
       /\ Current(w)
       /\ ~rec.pending \/ kind = "snapshot"

\* The checks and the first persist.  When the persist fails the call ends
\* with nothing mutated, whether or not Pending reached the disk.
CommitEnter(w, kind, persisted) ==
    /\ Enter(w)
    /\ Accepts(w, kind)
    /\ rec.revision < MaxRevision /\ host < MaxWrites
    /\ rec' = [rec EXCEPT !.pending = TRUE]
    /\ IF persisted
       THEN /\ lock' = w
            /\ call' = [call EXCEPT ![w] =
                 [phase |-> "ready", kind |-> kind, pending |-> rec.pending]]
       ELSE UNCHANGED <<lock, call>>
    /\ UNCHANGED <<dead, ticket, base, fenced, host, torn, synced>>

MutateStart(w) ==
    /\ call[w].phase = "ready"
    /\ call' = [call EXCEPT ![w].phase = "mutating"]
    /\ UNCHANGED <<rec, lock, dead, ticket, base, fenced, host, torn, synced>>

\* Only a snapshot replaces whatever an earlier mutation left behind.
MutateEnd(w) ==
    /\ call[w].phase = "mutating"
    /\ call' = [call EXCEPT ![w].phase = "mutated"]
    /\ host' = host + 1
    /\ torn' = (torn /\ call[w].kind # "snapshot")
    /\ synced' = IF call[w].kind = "snapshot"
                 THEN synced \cup {rec.generation} ELSE synced
    /\ UNCHANGED <<rec, lock, dead, ticket, base, fenced>>

Leave(w) == /\ call' = [call EXCEPT ![w] = NoCall]
            /\ lock' = NoWriter

MutateFail(w) ==
    /\ call[w].phase = "mutating"
    /\ torn' = TRUE
    /\ Leave(w)
    /\ UNCHANGED <<rec, dead, ticket, base, fenced, host, synced>>

SettledKeepsRevision(r, c) ==   \* mutant: no new revision
    [r EXCEPT !.pending = (c.kind = "exclusive" /\ c.pending)]
SettledAlwaysClears(r, c) ==    \* mutant: Exclusive clears Pending
    [r EXCEPT !.pending = FALSE, !.revision = @ + 1]

\* The record the call leaves: a commit clears Pending, Exclusive restores
\* what it found, and both take the next revision.
Settled(r, c) ==
    [r EXCEPT !.pending = (c.kind = "exclusive" /\ c.pending), !.revision = @ + 1]

\* The second persist.  written and reported tell apart a success, a failure
\* before the rename and a failure after it.
Finish(w, written, reported) ==
    /\ call[w].phase = "mutated"
    /\ reported => written
    /\ rec' = IF written THEN Settled(rec, call[w]) ELSE rec
    /\ IF reported /\ call[w].kind # "exclusive"
       THEN Issue(w, ticketOf(rec'))
       ELSE UNCHANGED <<ticket, base>>
    /\ Leave(w)
    /\ UNCHANGED <<dead, fenced, host, torn, synced>>

-----------------------------------------------------------------------------
\* A process dies: its lock is released with its open files, its tickets are
\* gone and a mutation it was in stays partly applied.
Crash(w) ==
    /\ w \notin dead
    /\ dead' = dead \cup {w}
    /\ lock' = IF lock = w THEN NoWriter ELSE lock
    /\ ticket' = [ticket EXCEPT ![w] = NoTicket]
    /\ base' = [base EXCEPT ![w] = Unprepared]
    /\ fenced' = [fenced EXCEPT ![w] = 0]
    /\ call' = [call EXCEPT ![w] = NoCall]
    /\ torn' = (torn \/ call[w].phase = "mutating")
    /\ UNCHANGED <<rec, host, synced>>

\* The machine reboots: some incarnations that ran before it are dead after
\* it, the kernel state is gone, the record is not.  Writers that have not
\* run yet survive: their process starts after the reboot.
Fresh(w) == /\ w \notin dead
            /\ ticket[w] = NoTicket /\ fenced[w] = 0 /\ Idle(w)
            /\ rec.owner # w

Reboot ==
    /\ \E w \in Writer \ dead : ~Fresh(w)
    /\ dead' = {w \in Writer : ~Fresh(w)}
    /\ host < MaxWrites
    /\ lock' = NoWriter
    /\ ticket' = [w \in Writer |-> NoTicket]
    /\ base' = [w \in Writer |-> Unprepared]
    /\ fenced' = [w \in Writer |-> 0]
    /\ call' = [w \in Writer |-> NoCall]
    /\ host' = host + 1
    /\ torn' = TRUE
    /\ UNCHANGED <<rec, synced>>

Step(w) ==
    \/ \E reported \in BOOLEAN : Claim(w, reported)
    \/ Begin(w)
    \/ \E reported \in BOOLEAN : Fence(w, reported)
    \/ \E reported \in BOOLEAN : Adopt(w, reported)
    \/ Prepare(w)
    \/ \E kind \in Kind, persisted \in BOOLEAN : CommitEnter(w, kind, persisted)
    \/ MutateStart(w)
    \/ MutateEnd(w)
    \/ MutateFail(w)
    \/ \E written, reported \in BOOLEAN : Finish(w, written, reported)
    \/ Crash(w)

Next == Reboot \/ \E w \in Writer : Step(w)

Spec == Init /\ [][Next]_vars

-----------------------------------------------------------------------------
(* Properties                                                               *)

Mutating(w) == call[w].phase \in {"ready", "mutating"}

\* Every mutation runs under the file lock, and an owner's mutation only for
\* the owner and generation the record names at that moment, never while the
\* scope is transitioning: what Fence waits for and what a paused writer
\* cannot get around (commit, ownership.go:213-239).
MutationsFenced ==
    \A w \in Writer : Mutating(w) =>
        /\ lock = w
        /\ ~rec.transitioning
        /\ call[w].kind # "exclusive" => rec.owner = w /\ Current(w)

\* An incremental commit only ever starts from exactly the complete host
\* content its writer prepared it from: no write of another process, no
\* failed mutation, no crash and no reboot can come between the two
\* (ownership.go:13-18 and 28-31, commit and Exclusive).
IncrementalBase ==
    \A w \in Writer :
        call[w].phase = "ready" /\ call[w].kind = "commit"
            => base[w] = host /\ ~torn

\* No incremental commit mutates the host in a generation whose owner has not
\* first completed a snapshot of its desired state (Adopt and Claim set
\* Pending; ownership.go:22-26).
SnapshotFirst ==
    \A w \in Writer :
        Mutating(w) /\ call[w].kind = "commit" => rec.generation \in synced

\* A change left partly applied is never forgotten: while the owner is alive,
\* the record says Pending from before the mutation started until a snapshot
\* repaired it, whoever mutated and however the call ended.
TornIsPending ==
    torn /\ rec.owner \in Writer \ dead => rec.pending

\* A ticket that has once become useless stays useless: no sequence of
\* commits, transfers and exclusive writes brings a record back to the
\* generation and revision of an old ticket.
Usable(w) == ticket[w] # NoTicket /\ checkOwner(w, rec) /\ Current(w)
TicketNeverRevives ==
    [][\A w \in Writer :
         ticket[w] # NoTicket /\ ~Usable(w) /\ Usable(w)'
             => ticket'[w] # ticket[w]]_vars
=============================================================================
