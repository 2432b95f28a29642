-------------------------- MODULE OwnershipProofs --------------------------
(* Proofs about Ownership, for any set of writers and any bounds.           *)
EXTENDS Ownership, TLAPS

OwnerAlive == rec.owner \in Writer \ dead

\* Whoever is inside a call holds the lock; the dead hold nothing.
LockInv ==
    \A w \in Writer :
        /\ ~Idle(w) => lock = w
        /\ w \in dead => ticket[w] = NoTicket /\ Idle(w)

\* No ticket is ahead of the record, and one of the record's generation
\* belongs to its settled owner.
TicketInv ==
    \A w \in Writer : ticket[w] # NoTicket =>
        /\ ticket[w].generation <= rec.generation
        /\ ticket[w].revision <= rec.revision
        /\ ticket[w].generation = rec.generation
             => rec.owner = w /\ ~rec.transitioning

\* What a call in progress may rely on.
CallInv ==
    \A w \in Writer : ~Idle(w) =>
        /\ rec.pending /\ ~rec.transitioning
        /\ call[w].kind # "exclusive" =>
             rec.owner = w /\ Current(w) /\ ticket[w] # NoTicket

\* A call after which Pending may be clear has a whole host under it.
Clears(w) ==
    \/ call[w].kind = "commit"
    \/ call[w].kind = "exclusive" /\ ~call[w].pending
    \/ call[w].kind = "snapshot" /\ call[w].phase = "mutated"

WholeInv ==
    \A w \in Writer : ~Idle(w) /\ Clears(w) =>
        /\ OwnerAlive => ~torn
        /\ rec.owner # NoWriter => rec.generation \in synced

SyncedInv ==
    ~rec.pending /\ ~rec.transitioning /\ rec.owner # NoWriter
        => rec.generation \in synced

\* A change prepared with a ticket that can still commit incrementally was
\* prepared from the host as it is.
BaseInv ==
    \A w \in Writer :
        /\ ticket[w] # NoTicket /\ Current(w) /\ base[w] # Unprepared /\ ~rec.pending
             => base[w] = host
        /\ call[w].phase = "ready" /\ call[w].kind = "commit"
             => base[w] = host

IInv == /\ TypeOK
        /\ LockInv
        /\ TicketInv
        /\ CallInv
        /\ WholeInv
        /\ SyncedInv
        /\ TornIsPending
        /\ BaseInv

-----------------------------------------------------------------------------
\* A first owner starts with Pending set.
LEMMA ClaimPreserves ==
    ASSUME IInv, NEW w \in Writer, NEW reported \in BOOLEAN,
           Claim(w, reported)
    PROVE  IInv'
<1> USE NoWriterAssumption DEF Ticket, Call, Kind, Phase, NoTicket, NoCall,
        Unprepared, Partial, Idle
<1>1. TypeOK'
  <2>0. rec.generation + 1 \in Nat
    BY DEF IInv, TypeOK, Record
  <2>1. rec' \in Record
    BY Zenon, <2>0 DEF IInv, TypeOK, Record, Claim, Enter, Issue, ticketOf
  <2> QED
    BY <2>1 DEF IInv, TypeOK, Claim, Enter, Issue, ticketOf, Record
<1>2. LockInv'
  BY DEF IInv, TypeOK, LockInv, Claim, Enter, Issue, ticketOf, Record
<1>3. TicketInv'
  BY DEF IInv, TypeOK, TicketInv, CallInv, Claim, Enter, Issue, ticketOf,
     Record
<1>4. CallInv'
  BY DEF IInv, TypeOK, LockInv, TicketInv, CallInv, Current, ticketOf, Claim,
     Enter, Issue, Record
<1>5. WholeInv'
  BY DEF IInv, TypeOK, LockInv, CallInv, WholeInv, SyncedInv, TornIsPending,
     Clears, OwnerAlive, Current, Claim, Enter, Issue, ticketOf, Record
<1>6. SyncedInv'
  BY Zenon DEF IInv, TypeOK, CallInv, WholeInv, SyncedInv, Clears, Claim, Enter,
     Issue, ticketOf, Record
<1>7. TornIsPending'
  BY Zenon DEF IInv, TypeOK, LockInv, CallInv, WholeInv, TornIsPending, Clears,
     OwnerAlive, Claim, Enter, Issue, ticketOf, Record
<1>8. BaseInv'
  BY DEF IInv, TypeOK, LockInv, TicketInv, CallInv, TornIsPending, BaseInv,
     Current, ticketOf, Claim, Enter, Issue, Record
<1> QED
  BY Zenon, <1>1, <1>2, <1>3, <1>4, <1>5, <1>6, <1>7, <1>8 DEF IInv

\* A ticket is the record it was issued from.
LEMMA BeginPreserves ==
    ASSUME IInv, NEW w \in Writer, Begin(w)
    PROVE  IInv'
<1> USE NoWriterAssumption DEF Ticket, Call, Kind, Phase, NoTicket, NoCall,
        Unprepared, Partial, Idle
<1>1. TypeOK'
  BY DEF IInv, TypeOK, Begin, Enter, Issue, ticketOf, checkOwner, Record
<1>2. LockInv'
  BY Zenon DEF IInv, TypeOK, LockInv, Begin, Enter, Issue, ticketOf, checkOwner,
     Record
<1>3. TicketInv'
  BY DEF IInv, TypeOK, TicketInv, CallInv, Begin, Enter, Issue, ticketOf,
     checkOwner, Record
<1>4. CallInv'
  BY Zenon DEF IInv, TypeOK, LockInv, TicketInv, CallInv, Current, ticketOf, Begin,
     Enter, Issue, checkOwner, Record
<1>5. WholeInv'
  BY Zenon DEF IInv, TypeOK, LockInv, CallInv, WholeInv, SyncedInv, TornIsPending,
     Clears, OwnerAlive, Current, Begin, Enter, Issue, ticketOf, checkOwner,
     Record
<1>6. SyncedInv'
  BY Zenon DEF IInv, TypeOK, CallInv, WholeInv, SyncedInv, Clears, Begin, Enter,
     Issue, ticketOf, checkOwner, Record
<1>7. TornIsPending'
  BY Zenon DEF IInv, TypeOK, LockInv, CallInv, WholeInv, TornIsPending, Clears,
     OwnerAlive, Begin, Enter, Issue, ticketOf, checkOwner, Record
<1>8. BaseInv'
  BY DEF IInv, TypeOK, LockInv, TicketInv, CallInv, TornIsPending, BaseInv,
     Current, ticketOf, Begin, Enter, Issue, checkOwner, Record
<1> QED
  BY Zenon, <1>1, <1>2, <1>3, <1>4, <1>5, <1>6, <1>7, <1>8 DEF IInv

\* A new generation is ahead of every ticket.
LEMMA FencePreserves ==
    ASSUME IInv, NEW w \in Writer, NEW reported \in BOOLEAN,
           Fence(w, reported)
    PROVE  IInv'
<1> USE NoWriterAssumption DEF Ticket, Call, Kind, Phase, NoTicket, NoCall,
        Unprepared, Partial, Idle
<1>1. TypeOK'
  <2>0. rec.generation + 1 \in Nat
    BY DEF IInv, TypeOK, Record
  <2>1. rec' \in Record
    BY Zenon, <2>0 DEF IInv, TypeOK, Record, Fence, Enter
  <2> QED
    BY Zenon, <2>1 DEF IInv, TypeOK, Fence, Enter, Record
<1>2. LockInv'
  BY Zenon DEF IInv, TypeOK, LockInv, Fence, Enter, Record
<1>3. TicketInv'
  BY DEF IInv, TypeOK, TicketInv, CallInv, Fence, Enter, Record
<1>4. CallInv'
  BY DEF IInv, TypeOK, LockInv, TicketInv, CallInv, Current, ticketOf, Fence,
     Enter, Record
<1>5. WholeInv'
  BY DEF IInv, TypeOK, LockInv, CallInv, WholeInv, SyncedInv, TornIsPending,
     Clears, OwnerAlive, Current, Fence, Enter, Record
<1>6. SyncedInv'
  BY Zenon DEF IInv, TypeOK, CallInv, WholeInv, SyncedInv, Clears, Fence, Enter,
     Record
<1>7. TornIsPending'
  BY Zenon DEF IInv, TypeOK, LockInv, CallInv, WholeInv, TornIsPending, Clears,
     OwnerAlive, Fence, Enter, Record
<1>8. BaseInv'
  BY DEF IInv, TypeOK, LockInv, TicketInv, CallInv, TornIsPending, BaseInv,
     Current, ticketOf, Fence, Enter, Record
<1> QED
  BY Zenon, <1>1, <1>2, <1>3, <1>4, <1>5, <1>6, <1>7, <1>8 DEF IInv

\* While the scope transitions no ticket has its generation.
LEMMA AdoptPreserves ==
    ASSUME IInv, NEW w \in Writer, NEW reported \in BOOLEAN,
           Adopt(w, reported)
    PROVE  IInv'
<1> USE NoWriterAssumption DEF Ticket, Call, Kind, Phase, NoTicket, NoCall,
        Unprepared, Partial, Idle
<1>1. TypeOK'
  <2>1. rec' \in Record
    BY Zenon DEF IInv, TypeOK, Record, Adopt, Enter, Issue, ticketOf
  <2> QED
    BY <2>1 DEF IInv, TypeOK, Adopt, Enter, Issue, ticketOf, Record
<1>2. LockInv'
  BY DEF IInv, TypeOK, LockInv, Adopt, Enter, Issue, ticketOf, Record
<1>3. TicketInv'
  BY DEF IInv, TypeOK, TicketInv, CallInv, Adopt, Enter, Issue, ticketOf,
     Record
<1>4. CallInv'
  BY Zenon DEF IInv, TypeOK, LockInv, TicketInv, CallInv, Current, ticketOf, Adopt,
     Enter, Issue, Record
<1>5. WholeInv'
  BY Zenon DEF IInv, TypeOK, LockInv, CallInv, WholeInv, SyncedInv, TornIsPending,
     Clears, OwnerAlive, Current, Adopt, Enter, Issue, ticketOf, Record
<1>6. SyncedInv'
  BY Zenon DEF IInv, TypeOK, CallInv, WholeInv, SyncedInv, Clears, Adopt, Enter,
     Issue, ticketOf, Record
<1>7. TornIsPending'
  BY Zenon DEF IInv, TypeOK, LockInv, CallInv, WholeInv, TornIsPending, Clears,
     OwnerAlive, Adopt, Enter, Issue, ticketOf, Record
<1>8. BaseInv'
  BY Zenon DEF IInv, TypeOK, LockInv, TicketInv, CallInv, TornIsPending, BaseInv,
     Current, ticketOf, Adopt, Enter, Issue, Record
<1> QED
  BY Zenon, <1>1, <1>2, <1>3, <1>4, <1>5, <1>6, <1>7, <1>8 DEF IInv

\* With Pending clear nobody is mutating and the host is whole.
LEMMA PreparePreserves ==
    ASSUME IInv, NEW w \in Writer, Prepare(w)
    PROVE  IInv'
<1> USE NoWriterAssumption DEF Ticket, Call, Kind, Phase, NoTicket, NoCall,
        Unprepared, Partial, Idle
<1>1. TypeOK'
  BY DEF IInv, TypeOK, Prepare, Record
<1>2. LockInv'
  BY Zenon DEF IInv, TypeOK, LockInv, Prepare, Record
<1>3. TicketInv'
  BY Zenon DEF IInv, TypeOK, TicketInv, CallInv, Prepare, Record
<1>4. CallInv'
  BY Zenon DEF IInv, TypeOK, LockInv, TicketInv, CallInv, Current, ticketOf,
     Prepare, Record
<1>5. WholeInv'
  BY Zenon DEF IInv, TypeOK, LockInv, CallInv, WholeInv, SyncedInv, TornIsPending,
     Clears, OwnerAlive, Current, Prepare, Record
<1>6. SyncedInv'
  BY Zenon DEF IInv, TypeOK, CallInv, WholeInv, SyncedInv, Clears, Prepare, Record
<1>7. TornIsPending'
  BY Zenon DEF IInv, TypeOK, LockInv, CallInv, WholeInv, TornIsPending, Clears,
     OwnerAlive, Prepare, Record
<1>8. BaseInv'
  BY DEF IInv, TypeOK, LockInv, TicketInv, CallInv, TornIsPending, BaseInv,
     Current, ticketOf, Prepare, Record
<1> QED
  BY Zenon, <1>1, <1>2, <1>3, <1>4, <1>5, <1>6, <1>7, <1>8 DEF IInv

\* The checks under the lock establish what the call relies on.
LEMMA CommitEnterPreserves ==
    ASSUME IInv, NEW w \in Writer, NEW kind \in Kind, NEW persisted \in BOOLEAN,
           CommitEnter(w, kind, persisted)
    PROVE  IInv'
<1> USE NoWriterAssumption DEF Ticket, Call, Kind, Phase, NoTicket, NoCall,
        Unprepared, Partial, Idle
<1>1. TypeOK'
  <2>1. rec' \in Record
    BY Zenon DEF IInv, TypeOK, Record, CommitEnter, Enter, Accepts, checkOwner
  <2> QED
    BY SMTT(30), <2>1 DEF IInv, TypeOK, CommitEnter, Enter, Accepts, checkOwner, Record
<1>2. LockInv'
  BY DEF IInv, TypeOK, LockInv, CommitEnter, Enter, Accepts, checkOwner, Record
<1>3. TicketInv'
  BY Zenon DEF IInv, TypeOK, TicketInv, CallInv, CommitEnter, Enter, Accepts,
     checkOwner, Record
<1>4. CallInv'
  <2>1. CASE ~persisted
    BY Zenon, <2>1 DEF IInv, TypeOK, LockInv, CallInv, Current, ticketOf, CommitEnter, Record
  <2>2. CASE persisted
    <3>1. ticketOf(rec)' = ticketOf(rec) /\ ticketOf(rec) # NoTicket
      BY DEF IInv, TypeOK, Record, CommitEnter, ticketOf
    <3>2. \A x \in Writer : x # w => Idle(x)'
      BY Zenon, <2>2 DEF IInv, TypeOK, LockInv, CommitEnter, Enter
    <3>3. ~rec'.transitioning /\ rec'.pending /\ rec'.owner = rec.owner
      BY Zenon DEF IInv, TypeOK, Record, CommitEnter, Accepts, checkOwner
    <3>4. call'[w].kind # "exclusive" => rec.owner = w /\ ticket[w] = ticketOf(rec)
      BY <2>2 DEF IInv, TypeOK, CommitEnter, Accepts, checkOwner, Current
    <3> QED
      BY Zenon, <3>1, <3>2, <3>3, <3>4 DEF CallInv, Current, CommitEnter
  <2> QED
    BY Zenon, <2>1, <2>2
<1>5. WholeInv'
  <2>0. rec'.owner = rec.owner /\ rec'.generation = rec.generation
    BY Zenon DEF IInv, TypeOK, Record, CommitEnter
  <2>1. CASE ~persisted
    BY <2>0, <2>1 DEF IInv, TypeOK, WholeInv, Clears, OwnerAlive, CommitEnter
  <2>2. CASE persisted
    <3>1. \A x \in Writer : x # w => Idle(x)'
      BY Zenon, <2>2 DEF IInv, TypeOK, LockInv, CommitEnter, Enter
    <3>2. ASSUME Clears(w)'
          PROVE  ~rec.pending /\ ~rec.transitioning
      BY <2>2, <3>2 DEF IInv, TypeOK, Clears, CommitEnter, Accepts, checkOwner, Record
    <3> QED
      BY <2>0, <3>1, <3>2 DEF IInv, WholeInv, SyncedInv, TornIsPending, OwnerAlive,
         CommitEnter
  <2> QED
    BY Zenon, <2>1, <2>2
<1>6. SyncedInv'
  BY Zenon DEF IInv, TypeOK, CallInv, WholeInv, SyncedInv, Clears, CommitEnter,
     Enter, Accepts, checkOwner, Record
<1>7. TornIsPending'
  BY Zenon DEF IInv, TypeOK, LockInv, CallInv, WholeInv, TornIsPending, Clears,
     OwnerAlive, CommitEnter, Enter, Accepts, checkOwner, Record
<1>8. BaseInv'
  BY DEF IInv, TypeOK, LockInv, TicketInv, CallInv, TornIsPending, BaseInv,
     Current, ticketOf, CommitEnter, Enter, Accepts, checkOwner, Record
<1> QED
  BY Zenon, <1>1, <1>2, <1>3, <1>4, <1>5, <1>6, <1>7, <1>8 DEF IInv

\* The host changes only while Pending is on disk.
LEMMA MutateStartPreserves ==
    ASSUME IInv, NEW w \in Writer, MutateStart(w)
    PROVE  IInv'
<1> USE NoWriterAssumption DEF Ticket, Call, Kind, Phase, NoTicket, NoCall,
        Unprepared, Partial, Idle
<1>1. TypeOK'
  BY SMTT(30) DEF IInv, TypeOK, MutateStart, Record
<1>2. LockInv'
  BY Zenon DEF IInv, TypeOK, LockInv, MutateStart, Record
<1>3. TicketInv'
  BY Zenon DEF IInv, TypeOK, TicketInv, CallInv, MutateStart, Record
<1>4. CallInv'
  BY DEF IInv, TypeOK, LockInv, TicketInv, CallInv, Current, ticketOf,
     MutateStart, Record
<1>5. WholeInv'
  BY DEF IInv, TypeOK, LockInv, CallInv, WholeInv, SyncedInv, TornIsPending,
     Clears, OwnerAlive, Current, MutateStart, Record
<1>6. SyncedInv'
  BY Zenon DEF IInv, TypeOK, CallInv, WholeInv, SyncedInv, Clears, MutateStart,
     Record
<1>7. TornIsPending'
  BY Zenon DEF IInv, TypeOK, LockInv, CallInv, WholeInv, TornIsPending, Clears,
     OwnerAlive, MutateStart, Record
<1>8. BaseInv'
  BY DEF IInv, TypeOK, LockInv, TicketInv, CallInv, TornIsPending, BaseInv,
     Current, ticketOf, MutateStart, Record
<1> QED
  BY Zenon, <1>1, <1>2, <1>3, <1>4, <1>5, <1>6, <1>7, <1>8 DEF IInv

\* The host changes only while Pending is on disk.
LEMMA MutateEndPreserves ==
    ASSUME IInv, NEW w \in Writer, MutateEnd(w)
    PROVE  IInv'
<1> USE NoWriterAssumption DEF Ticket, Call, Kind, Phase, NoTicket, NoCall,
        Unprepared, Partial, Idle
<1>1. TypeOK'
  BY DEF IInv, TypeOK, MutateEnd, Record
<1>2. LockInv'
  BY Zenon DEF IInv, TypeOK, LockInv, MutateEnd, Record
<1>3. TicketInv'
  BY Zenon DEF IInv, TypeOK, TicketInv, CallInv, MutateEnd, Record
<1>4. CallInv'
  BY DEF IInv, TypeOK, LockInv, TicketInv, CallInv, Current, ticketOf,
     MutateEnd, Record
<1>5. WholeInv'
  BY DEF IInv, TypeOK, LockInv, CallInv, WholeInv, SyncedInv, TornIsPending,
     Clears, OwnerAlive, Current, MutateEnd, Record
<1>6. SyncedInv'
  BY Zenon DEF IInv, TypeOK, CallInv, WholeInv, SyncedInv, Clears, MutateEnd, Record
<1>7. TornIsPending'
  BY Zenon DEF IInv, TypeOK, LockInv, CallInv, WholeInv, TornIsPending, Clears,
     OwnerAlive, MutateEnd, Record
<1>8. BaseInv'
  BY DEF IInv, TypeOK, LockInv, TicketInv, CallInv, TornIsPending, BaseInv,
     Current, ticketOf, MutateEnd, Record
<1> QED
  BY Zenon, <1>1, <1>2, <1>3, <1>4, <1>5, <1>6, <1>7, <1>8 DEF IInv

\* Pending outlives a failed mutation.
LEMMA MutateFailPreserves ==
    ASSUME IInv, NEW w \in Writer, MutateFail(w)
    PROVE  IInv'
<1> USE NoWriterAssumption DEF Ticket, Call, Kind, Phase, NoTicket, NoCall,
        Unprepared, Partial, Idle
<1>1. TypeOK'
  BY Zenon DEF IInv, TypeOK, MutateFail, Leave, Record
<1>2. LockInv'
  BY Zenon DEF IInv, TypeOK, LockInv, MutateFail, Leave, Record
<1>3. TicketInv'
  BY Zenon DEF IInv, TypeOK, TicketInv, CallInv, MutateFail, Leave, Record
<1>4. CallInv'
  BY DEF IInv, TypeOK, LockInv, TicketInv, CallInv, Current, ticketOf,
     MutateFail, Leave, Record
<1>5. WholeInv'
  BY DEF IInv, TypeOK, LockInv, CallInv, WholeInv, SyncedInv, TornIsPending,
     Clears, OwnerAlive, Current, MutateFail, Leave, Record
<1>6. SyncedInv'
  BY Zenon DEF IInv, TypeOK, CallInv, WholeInv, SyncedInv, Clears, MutateFail,
     Leave, Record
<1>7. TornIsPending'
  BY Zenon DEF IInv, TypeOK, LockInv, CallInv, WholeInv, TornIsPending, Clears,
     OwnerAlive, MutateFail, Leave, Record
<1>8. BaseInv'
  BY DEF IInv, TypeOK, LockInv, TicketInv, CallInv, TornIsPending, BaseInv,
     Current, ticketOf, MutateFail, Leave, Record
<1> QED
  BY Zenon, <1>1, <1>2, <1>3, <1>4, <1>5, <1>6, <1>7, <1>8 DEF IInv

\* Pending is cleared only together with a new revision.
LEMMA FinishPreserves ==
    ASSUME IInv, NEW w \in Writer, NEW written \in BOOLEAN, NEW reported \in BOOLEAN,
           Finish(w, written, reported)
    PROVE  IInv'
<1> USE NoWriterAssumption DEF Ticket, Call, Kind, Phase, NoTicket, NoCall,
        Unprepared, Partial, Idle
<1>1. TypeOK'
  <2>0. rec.revision + 1 \in Nat
    BY DEF IInv, TypeOK, Record
  <2>1. rec' \in Record
    BY Zenon, <2>0 DEF IInv, TypeOK, Record, Finish, Leave, Settled, Issue, ticketOf
  <2> QED
    BY <2>1 DEF IInv, TypeOK, Finish, Leave, Settled, Issue, ticketOf, Record
<1>2. LockInv'
  BY DEF IInv, TypeOK, LockInv, Finish, Leave, Settled, Issue, ticketOf, Record
<1>3. TicketInv'
  BY DEF IInv, TypeOK, TicketInv, CallInv, Finish, Leave, Settled, Issue,
     ticketOf, Record
<1>4. CallInv'
  BY DEF IInv, TypeOK, LockInv, TicketInv, CallInv, Current, ticketOf, Finish,
     Leave, Settled, Issue, Record
<1>5. WholeInv'
  BY DEF IInv, TypeOK, LockInv, CallInv, WholeInv, SyncedInv, TornIsPending,
     Clears, OwnerAlive, Current, Finish, Leave, Settled, Issue, ticketOf,
     Record
<1>6. SyncedInv'
  BY Zenon DEF IInv, TypeOK, CallInv, WholeInv, SyncedInv, Clears, Finish, Leave,
     Settled, Issue, ticketOf, Record
<1>7. TornIsPending'
  BY Zenon DEF IInv, TypeOK, LockInv, CallInv, WholeInv, TornIsPending, Clears,
     OwnerAlive, Finish, Leave, Settled, Issue, ticketOf, Record
<1>8. BaseInv'
  BY DEF IInv, TypeOK, LockInv, TicketInv, CallInv, TornIsPending, BaseInv,
     Current, ticketOf, Finish, Leave, Settled, Issue, Record
<1> QED
  BY Zenon, <1>1, <1>2, <1>3, <1>4, <1>5, <1>6, <1>7, <1>8 DEF IInv

\* Pending outlives a mutation cut short.
LEMMA CrashPreserves ==
    ASSUME IInv, NEW w \in Writer, Crash(w)
    PROVE  IInv'
<1> USE NoWriterAssumption DEF Ticket, Call, Kind, Phase, NoTicket, NoCall,
        Unprepared, Partial, Idle
<1>1. TypeOK'
  BY DEF IInv, TypeOK, Crash, Record
<1>2. LockInv'
  BY DEF IInv, TypeOK, LockInv, Crash, Record
<1>3. TicketInv'
  BY Zenon DEF IInv, TypeOK, TicketInv, CallInv, Crash, Record
<1>4. CallInv'
  BY DEF IInv, TypeOK, LockInv, TicketInv, CallInv, Current, ticketOf, Crash,
     Record
<1>5. WholeInv'
  BY DEF IInv, TypeOK, LockInv, CallInv, WholeInv, SyncedInv, TornIsPending,
     Clears, OwnerAlive, Current, Crash, Record
<1>6. SyncedInv'
  BY Zenon DEF IInv, TypeOK, CallInv, WholeInv, SyncedInv, Clears, Crash, Record
<1>7. TornIsPending'
  BY Zenon DEF IInv, TypeOK, LockInv, CallInv, WholeInv, TornIsPending, Clears,
     OwnerAlive, Crash, Record
<1>8. BaseInv'
  BY DEF IInv, TypeOK, LockInv, TicketInv, CallInv, TornIsPending, BaseInv,
     Current, ticketOf, Crash, Record
<1> QED
  BY Zenon, <1>1, <1>2, <1>3, <1>4, <1>5, <1>6, <1>7, <1>8 DEF IInv

\* No owner survives a reboot.
LEMMA RebootPreserves ==
    ASSUME IInv, Reboot
    PROVE  IInv'
<1> USE NoWriterAssumption DEF Ticket, Call, Kind, Phase, NoTicket, NoCall,
        Unprepared, Partial, Idle
<1>1. TypeOK'
  BY DEF IInv, TypeOK, Reboot, Fresh, Record
<1>2. LockInv'
  BY Zenon DEF IInv, TypeOK, LockInv, Reboot, Fresh, Record
<1>3. TicketInv'
  BY Zenon DEF IInv, TypeOK, TicketInv, CallInv, Reboot, Fresh, Record
<1>4. CallInv'
  BY Zenon DEF IInv, TypeOK, LockInv, TicketInv, CallInv, Current, ticketOf, Reboot,
     Fresh, Record
<1>5. WholeInv'
  BY Zenon DEF IInv, TypeOK, LockInv, CallInv, WholeInv, SyncedInv, TornIsPending,
     Clears, OwnerAlive, Current, Reboot, Fresh, Record
<1>6. SyncedInv'
  BY Zenon DEF IInv, TypeOK, CallInv, WholeInv, SyncedInv, Clears, Reboot, Fresh,
     Record
<1>7. TornIsPending'
  BY Zenon DEF IInv, TypeOK, LockInv, CallInv, WholeInv, TornIsPending, Clears,
     OwnerAlive, Reboot, Fresh, Record
<1>8. BaseInv'
  BY Zenon DEF IInv, TypeOK, LockInv, TicketInv, CallInv, TornIsPending, BaseInv,
     Current, ticketOf, Reboot, Fresh, Record
<1> QED
  BY Zenon, <1>1, <1>2, <1>3, <1>4, <1>5, <1>6, <1>7, <1>8 DEF IInv

-----------------------------------------------------------------------------
LEMMA InitInvariant == Init => IInv
  BY NoWriterAssumption DEF Init, IInv, TypeOK, Record, Ticket, Call, Kind, Phase,
     NoTicket, NoCall, Unprepared, Idle, LockInv, TicketInv, CallInv, WholeInv,
     SyncedInv, TornIsPending, BaseInv

LEMMA NextPreserves == IInv /\ [Next]_vars => IInv'
<1> SUFFICES ASSUME IInv, [Next]_vars
             PROVE  IInv'
  BY Zenon
<1>1. CASE Reboot
  BY Zenon, <1>1, RebootPreserves
<1>2. ASSUME NEW w \in Writer, Step(w)
      PROVE  IInv'
  BY Zenon, <1>2, ClaimPreserves, BeginPreserves, FencePreserves, AdoptPreserves,
     PreparePreserves, CommitEnterPreserves, MutateStartPreserves,
     MutateEndPreserves, MutateFailPreserves, FinishPreserves, CrashPreserves
     DEF Step
<1>3. CASE UNCHANGED vars
  BY Zenon, <1>3 DEF vars, IInv, TypeOK, LockInv, TicketInv, CallInv, WholeInv, Clears,
     OwnerAlive, SyncedInv, TornIsPending, BaseInv, Idle, Current
<1> QED
  BY Zenon, <1>1, <1>2, <1>3 DEF Next

\* The inductive invariant holds of every behaviour of the authority, whatever
\* its writers do and wherever they die.
THEOREM Invariance == Spec => []IInv
  BY InitInvariant, NextPreserves, PTL DEF Spec

\* The record, the tickets and the calls in progress keep their types.
THEOREM TypeCorrect == Spec => []TypeOK
<1>1. IInv => TypeOK
  BY Zenon DEF IInv
<1> QED
  BY <1>1, Invariance, PTL

\* Every mutation of the host runs under the lock, and an owner's only for the
\* owner, generation and revision on record.
THEOREM Fenced == Spec => []MutationsFenced
<1>1. IInv => MutationsFenced
  BY Zenon DEF IInv, TypeOK, LockInv, CallInv, MutationsFenced, Mutating, Idle
<1> QED
  BY <1>1, Invariance, PTL

\* An incremental commit starts from the host content it was prepared from.
THEOREM IncrementalFromBase == Spec => []IncrementalBase
<1>1. IInv => IncrementalBase
  BY Zenon, NoWriterAssumption DEF IInv, TypeOK, LockInv, CallInv, WholeInv, Clears, OwnerAlive, BaseInv,
     IncrementalBase, Idle
<1> QED
  BY <1>1, Invariance, PTL

\* The owner of a generation completes a snapshot before its first increment.
THEOREM SnapshotBeforeIncrement == Spec => []SnapshotFirst
<1>1. IInv => SnapshotFirst
  BY NoWriterAssumption DEF IInv, TypeOK, CallInv, WholeInv, Clears, SnapshotFirst, Mutating, Idle
<1> QED
  BY <1>1, Invariance, PTL

\* A partly applied change stays on record until a snapshot repairs it.
THEOREM TornStaysPending == Spec => []TornIsPending
<1>1. IInv => TornIsPending
  BY Zenon DEF IInv
<1> QED
  BY <1>1, Invariance, PTL

\* No call takes the generation or the revision back.
LEMMA RecordAdvances ==
    ASSUME IInv, [Next]_vars
    PROVE  /\ rec.generation <= rec'.generation
           /\ rec.revision <= rec'.revision
<1> USE DEF IInv, TypeOK, Record
<1>1. CASE Reboot
  BY <1>1 DEF Reboot
<1>2. ASSUME NEW w \in Writer, Step(w)
      PROVE  /\ rec.generation <= rec'.generation
             /\ rec.revision <= rec'.revision
  <2> USE <1>2
  <2>1. ASSUME NEW reported \in BOOLEAN,
               Claim(w, reported) \/ Fence(w, reported) \/ Adopt(w, reported)
        PROVE  /\ rec.generation <= rec'.generation
               /\ rec.revision <= rec'.revision
    <3>1. CASE Claim(w, reported)
      BY <3>1 DEF Claim
    <3>2. CASE Fence(w, reported)
      BY <3>2 DEF Fence
    <3>3. CASE Adopt(w, reported)
      BY <3>3 DEF Adopt
    <3> QED
      BY Zenon, <2>1, <3>1, <3>2, <3>3
  <2>2. ASSUME NEW kind \in Kind, NEW persisted \in BOOLEAN,
               CommitEnter(w, kind, persisted)
        PROVE  /\ rec.generation <= rec'.generation
               /\ rec.revision <= rec'.revision
    BY <2>2 DEF CommitEnter
  <2>3. ASSUME NEW written \in BOOLEAN, NEW reported \in BOOLEAN,
               Finish(w, written, reported)
        PROVE  /\ rec.generation <= rec'.generation
               /\ rec.revision <= rec'.revision
    BY <2>3 DEF Finish, Settled
  <2>4. ASSUME \/ Begin(w) \/ Prepare(w) \/ MutateStart(w)
               \/ MutateEnd(w) \/ MutateFail(w) \/ Crash(w)
        PROVE  rec' = rec
    BY Zenon, <2>4 DEF Begin, Prepare, MutateStart, MutateEnd, MutateFail, Crash
  <2> QED
    BY <2>1, <2>2, <2>3, <2>4 DEF Step
<1>3. CASE UNCHANGED vars
  BY <1>3 DEF vars
<1> QED
  BY Zenon, <1>1, <1>2, <1>3 DEF Next

\* A ticket that has become useless never becomes usable again.
THEOREM NoRevival == Spec => TicketNeverRevives
<1>1. ASSUME IInv, [Next]_vars, NEW w \in Writer,
             ticket[w] # NoTicket, Usable(w)', ticket'[w] = ticket[w]
      PROVE  Usable(w)
  <2>1. /\ rec.generation <= rec'.generation
        /\ rec.revision <= rec'.revision
    BY Zenon, <1>1, RecordAdvances
  <2>2. IInv'
    BY Zenon, <1>1, NextPreserves
  <2>3. /\ ticket[w].generation = rec'.generation
        /\ ticket[w].revision = rec'.revision
    BY <1>1 DEF Usable, Current, ticketOf
  <2>4. /\ ticket[w].generation <= rec.generation
        /\ ticket[w].revision <= rec.revision
    BY Zenon, <1>1 DEF IInv, TicketInv
  <2>5. /\ ticket[w].generation = rec.generation
        /\ ticket[w].revision = rec.revision
    BY <1>1, <2>1, <2>2, <2>3, <2>4 DEF IInv, TypeOK, Record
  <2>6. ticket[w] = ticketOf(rec)
    BY Zenon, <1>1, <2>5 DEF IInv, TypeOK, Ticket, ticketOf
  <2> QED
    BY Zenon, <1>1, <2>5, <2>6 DEF IInv, TicketInv, Usable, Current, checkOwner
<1>2. IInv /\ [Next]_vars =>
        [\A w \in Writer : ticket[w] # NoTicket /\ ~Usable(w) /\ Usable(w)'
             => ticket'[w] # ticket[w]]_vars
  BY Zenon, <1>1
<1> QED
  BY <1>2, Invariance, PTL DEF Spec, TicketNeverRevives
=============================================================================
