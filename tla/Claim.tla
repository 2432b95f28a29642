------------------------------- MODULE Claim -------------------------------
(***************************************************************************)
(* Leases of the edge (internal/edge/claim): instances acquire, renew and  *)
(* release one claim through a store with compare-and-swap, and stop       *)
(* forwarding at a deadline on their own clock.  A replacement takes over  *)
(* after it has seen the record unchanged for TakeoverWait on its clock.   *)
(*                                                                         *)
(* Time.  In one tick of real time every clock advances by Slow..Fast.     *)
(* Instants are kept as what is left until them, or has passed since them, *)
(* on the clock of the instance concerned; both stop where no test can     *)
(* tell them apart any more.                                               *)
(*                                                                         *)
(* Abstractions.  One key.  A version is the number of the write that made *)
(* it, and an incarnation the version of its creation.  Sequence and       *)
(* RenewStart are not read here.  The authorization ceiling only shortens  *)
(* a lease or turns it into an error, which Timeout allows at any step.    *)
(***************************************************************************)
EXTENDS Integers, FiniteSets

CONSTANTS Instance, NoOne,
          Duration,    \* Params.Duration
          Margin,      \* Params.Margin
          Slow, Fast,  \* (1 - MaxDrift) and (1 + MaxDrift), in clock units per tick
          MaxWrites    \* bound on the writes to the store

(* Params.Validate; MaxDrift below one half keeps Fast below three Slow.   *)
ASSUME ParamsAssumption ==
  /\ Duration \in Nat \ {0}
  /\ Margin \in Nat
  /\ Slow \in Nat \ {0}
  /\ Fast \in Slow..(3 * Slow)
  /\ MaxWrites \in Nat
  /\ NoOne \notin Instance

(* Mutant: the two clocks are taken to run at the same rate. *)
TakeoverWaitNoDrift == Duration + Margin

TakeoverWait == (Duration * Fast) \div Slow + Margin

VARIABLES
  rec,     \* the record in the store, version 0 when there is none
  writes,  \* writes to the store so far
  late,    \* updates sent by calls that were given up, still to be executed
  lease,   \* the lease each instance holds
  op,      \* the call each instance is in
  seen,    \* Instance.observed
  old      \* how long the forwarding of an instance's dead process goes on

vars == <<rec, writes, late, lease, op, seen, old>>

Record == [ver : 0..MaxWrites, inc : 0..MaxWrites, epoch : 0..MaxWrites,
           holder : Instance \cup {NoOne}, released : BOOLEAN]
Missing == [ver |-> 0, inc |-> 0, epoch |-> 0, holder |-> NoOne, released |-> FALSE]

Lease ==
  [ver : 0..MaxWrites, inc : 0..MaxWrites, epoch : 0..MaxWrites, left : 0..Duration]
NoLease == [ver |-> 0, inc |-> 0, epoch |-> 0, left |-> 0]

(* A call: the step it is at, the time since it started, the update it     *)
(* sends (ver is the version it replaces) and what the store answered.     *)
Calls == {"idle", "acquire", "renew", "renewAgain", "release"}
Steps == {"get", "got", "create", "created", "put", "done", "conflict", "failed"}
Op == [call : Calls, step : Steps, since : 0..Duration, next : Record, got : Record]
Idle == [call |-> "idle", step |-> "get", since |-> 0, next |-> Missing, got |-> Missing]

Observation == [ver : 0..MaxWrites, waited : 0..TakeoverWait]
Unseen == [ver |-> 0, waited |-> 0]

AtMost(n, bound) == IF n > bound THEN bound ELSE n
Left(n, a) == IF a < n THEN n - a ELSE 0

Valid(i) == lease[i].left > 0
Begin(i, call, step, next) ==
  op' = [op EXCEPT ![i] = [call |-> call, step |-> step, since |-> 0,
                           next |-> next, got |-> Missing]]
Go(i, call, step, next) ==
  op' = [op EXCEPT ![i] = [@ EXCEPT !.call = call, !.step = step, !.next = next]]
Answer(i, step, got) == op' = [op EXCEPT ![i] = [@ EXCEPT !.step = step, !.got = got]]
Return(i) == op' = [op EXCEPT ![i] = Idle]
At(i, calls, step) == op[i].call \in calls /\ op[i].step = step
-----------------------------------------------------------------------------
(* The store.  An update is executed at some moment between its call and   *)
(* its answer, or after its caller gave up; once the record has moved on   *)
(* it does nothing, so it need not be kept.                                *)

Write(r) ==
  /\ writes < MaxWrites
  /\ writes' = writes + 1
  /\ rec' = [r EXCEPT !.ver = writes + 1]
  /\ late' = {}

StoreGet(i) ==
  /\ op[i].step = "get"
  /\ op[i].call # "idle"
  /\ Answer(i, "got", rec)
  /\ UNCHANGED <<rec, writes, late, lease, seen, old>>

StoreCreate(i) ==
  /\ op[i].step = "create"
  /\ \/ /\ rec = Missing
        /\ Write([Missing EXCEPT !.inc = writes + 1])
        /\ Answer(i, "created", rec')
     \/ /\ rec # Missing
        /\ Answer(i, "failed", Missing)
        /\ UNCHANGED <<rec, writes, late>>
  /\ UNCHANGED <<lease, seen, old>>

StorePut(i) ==
  /\ op[i].step = "put"
  /\ \/ /\ rec.ver = op[i].next.ver
        /\ Write(op[i].next)
        /\ Answer(i, "done", rec')
     \/ /\ rec.ver # op[i].next.ver
        /\ Answer(i, IF rec = Missing THEN "failed" ELSE "conflict", Missing)
        /\ UNCHANGED <<rec, writes, late>>
  /\ UNCHANGED <<lease, seen, old>>

StorePutLate ==
  /\ \E r \in late : Write(r)
  /\ UNCHANGED <<lease, op, seen, old>>

(* The Lease object is deleted, with its EdgeInstance or by hand. *)
Delete ==
  /\ rec # Missing
  /\ rec' = Missing
  /\ late' = {}
  /\ UNCHANGED <<writes, lease, op, seen, old>>
-----------------------------------------------------------------------------
(* Acquire. *)

(* The caller has no lease, or drops the one that expired. *)
Acquire(i) ==
  /\ op[i] = Idle
  /\ ~Valid(i)
  /\ lease' = [lease EXCEPT ![i] = NoLease]
  /\ Begin(i, "acquire", "get", Missing)
  /\ UNCHANGED <<rec, writes, late, seen, old>>

Waited(i) ==
  /\ seen[i].ver = op[i].got.ver
  /\ seen[i].waited >= TakeoverWait

(* waited: a version seen for the first time starts the wait, when the     *)
(* read returns.                                                           *)
Observe(i, ver) ==
  seen' = IF seen[i].ver = ver THEN seen
          ELSE [seen EXCEPT ![i] = [ver |-> ver, waited |-> 0]]

Taking(i) ==
  [op[i].got EXCEPT !.epoch = @ + 1, !.holder = i, !.released = FALSE]

(* Mutant: the instance's own record is taken back without waiting. *)
AcquireGotOwn(i) ==
  LET free == op[i].got.released \/ op[i].got.holder = i \/ Waited(i) IN
    /\ At(i, {"acquire"}, "got")
    /\ \/ op[i].got = Missing /\ Go(i, "acquire", "create", Missing) /\ UNCHANGED seen
       \/ op[i].got # Missing /\ ~free /\ Observe(i, op[i].got.ver) /\ Return(i)
       \/ /\ op[i].got # Missing /\ free
          /\ Go(i, "acquire", "put", Taking(i))
          /\ UNCHANGED seen
    /\ UNCHANGED <<rec, writes, late, lease, old>>

AcquireGot(i) ==
  LET free == op[i].got.released \/ Waited(i) IN
    /\ At(i, {"acquire"}, "got")
    /\ \/ op[i].got = Missing /\ Go(i, "acquire", "create", Missing) /\ UNCHANGED seen
       \/ op[i].got # Missing /\ ~free /\ Observe(i, op[i].got.ver) /\ Return(i)
       \/ /\ op[i].got # Missing /\ free
          /\ Go(i, "acquire", "put", Taking(i))
          /\ UNCHANGED seen
    /\ UNCHANGED <<rec, writes, late, lease, old>>

(* A missing record was created unheld: the wait starts on it. *)
AcquireCreated(i) ==
  /\ op[i].step \in {"created", "failed"}
  /\ op[i].next = Missing
  /\ seen' = [seen EXCEPT ![i] =
       IF op[i].step = "created" THEN [ver |-> op[i].got.ver, waited |-> 0] ELSE Unseen]
  /\ Return(i)
  /\ UNCHANGED <<rec, writes, late, lease, old>>

(* The update succeeded; the lease runs from the start of the call. *)
Granted(i) ==
  lease' = [lease EXCEPT ![i] = [ver |-> op[i].got.ver, inc |-> op[i].got.inc,
                                 epoch |-> op[i].got.epoch,
                                 left |-> Duration - op[i].since]]

AcquireDone(i) ==
  /\ At(i, {"acquire"}, "done")
  /\ Granted(i)
  /\ seen' = [seen EXCEPT ![i] = Unseen]
  /\ Return(i)
  /\ UNCHANGED <<rec, writes, late, old>>
-----------------------------------------------------------------------------
(* Renew. *)

Renew(i) ==
  /\ op[i] = Idle
  /\ Valid(i)
  /\ Begin(i, "renew", "put",
           [ver |-> lease[i].ver, inc |-> lease[i].inc, epoch |-> lease[i].epoch,
            holder |-> i, released |-> FALSE])
  /\ UNCHANGED <<rec, writes, late, lease, seen, old>>

(* The record changed since: by a renewal whose reply was lost, or for good. *)
RenewConflict(i) ==
  /\ At(i, {"renew"}, "conflict")
  /\ Go(i, "renew", "get", op[i].next)
  /\ UNCHANGED <<rec, writes, late, lease, seen, old>>

SameClaim(r, s) == r.inc = s.inc /\ r.epoch = s.epoch /\ r.holder = s.holder

(* Mutant: whoever holds the record, it is renewed. *)
RenewGotAny(i) ==
  LET got == op[i].got IN
    /\ At(i, {"renew"}, "got")
    /\ \/ got = Missing /\ Return(i)
       \/ /\ got # Missing
          /\ Go(i, "renewAgain", "put", [op[i].next EXCEPT !.ver = got.ver])
    /\ UNCHANGED <<rec, writes, late, lease, seen, old>>

RenewGot(i) ==
  LET got == op[i].got
      held == SameClaim(got, op[i].next) /\ ~got.released
  IN /\ At(i, {"renew"}, "got")
     /\ \/ got = Missing /\ Return(i) /\ UNCHANGED lease
        \/ /\ got # Missing
           /\ ~held
           /\ lease' = [lease EXCEPT ![i] = NoLease]
           /\ Return(i)
        \/ /\ held
           /\ Go(i, "renewAgain", "put", [op[i].next EXCEPT !.ver = got.ver])
           /\ UNCHANGED lease
     /\ UNCHANGED <<rec, writes, late, seen, old>>

RenewDone(i) ==
  /\ At(i, {"renew", "renewAgain"}, "done")
  /\ Granted(i)
  /\ Return(i)
  /\ UNCHANGED <<rec, writes, late, seen, old>>
-----------------------------------------------------------------------------
(* Release: the caller stopped forwarding first. *)

Release(i) ==
  /\ op[i] = Idle
  /\ lease[i] # NoLease
  /\ lease' = [lease EXCEPT ![i] = NoLease]
  /\ Begin(i, "release", "get",
           [ver |-> lease[i].ver, inc |-> lease[i].inc, epoch |-> lease[i].epoch,
            holder |-> i, released |-> TRUE])
  /\ UNCHANGED <<rec, writes, late, seen, old>>

ReleaseGot(i) ==
  LET got == op[i].got IN
    /\ At(i, {"release"}, "got")
    /\ \/ ~SameClaim(got, op[i].next) /\ Return(i)
       \/ /\ SameClaim(got, op[i].next)
          /\ Go(i, "release", "put", [op[i].next EXCEPT !.ver = got.ver])
    /\ UNCHANGED <<rec, writes, late, lease, seen, old>>

(* Every other way a call ends leaves what the instance knows alone. *)
Ended(i) ==
  /\ \/ At(i, {"acquire"}, "conflict")
     \/ At(i, {"acquire"}, "failed") /\ op[i].next # Missing
     \/ At(i, {"renew"}, "failed")
     \/ op[i].call = "renewAgain" /\ op[i].step \in {"conflict", "failed"}
     \/ op[i].call = "release" /\ op[i].step \in {"done", "conflict", "failed"}
  /\ Return(i)
  /\ UNCHANGED <<rec, writes, late, lease, seen, old>>
-----------------------------------------------------------------------------
(* The call's context ends, or the store fails: what it sent may still be  *)
(* executed.                                                               *)
Sent(i) == IF op[i].step = "put" /\ op[i].next.ver = rec.ver THEN {op[i].next} ELSE {}

Timeout(i) ==
  /\ op[i] # Idle
  /\ late' = late \cup Sent(i)
  /\ seen' = IF op[i].step \in {"create", "created"}
             THEN [seen EXCEPT ![i] = Unseen] ELSE seen
  /\ Return(i)
  /\ UNCHANGED <<rec, writes, lease, old>>

(* The process dies and starts again.  What it had programmed to forward   *)
(* stops at its deadline and no earlier.                                   *)
Crash(i) ==
  /\ late' = late \cup Sent(i)
  /\ old' = [old EXCEPT ![i] = IF Valid(i) THEN lease[i].left ELSE @]
  /\ lease' = [lease EXCEPT ![i] = NoLease]
  /\ seen' = [seen EXCEPT ![i] = Unseen]
  /\ Return(i)
  /\ UNCHANGED <<rec, writes>>

Tick ==
  \E by \in [Instance -> Slow..Fast] :
    /\ lease' = [i \in Instance |-> [lease[i] EXCEPT !.left = Left(@, by[i])]]
    /\ old' = [i \in Instance |-> Left(old[i], by[i])]
    /\ op' = [i \in Instance |->
                IF op[i] = Idle THEN Idle
                ELSE [op[i] EXCEPT !.since = AtMost(@ + by[i], Duration)]]
    /\ seen' = [i \in Instance |->
                  IF seen[i] = Unseen THEN Unseen
                  ELSE [seen[i] EXCEPT !.waited = AtMost(@ + by[i], TakeoverWait)]]
    /\ UNCHANGED <<rec, writes, late>>
-----------------------------------------------------------------------------
Init ==
  /\ rec = Missing
  /\ writes = 0
  /\ late = {}
  /\ lease = [i \in Instance |-> NoLease]
  /\ op = [i \in Instance |-> Idle]
  /\ seen = [i \in Instance |-> Unseen]
  /\ old = [i \in Instance |-> 0]

Next ==
  \/ Tick
  \/ Delete
  \/ StorePutLate
  \/ \E i \in Instance :
       \/ StoreGet(i) \/ StoreCreate(i) \/ StorePut(i)
       \/ Acquire(i) \/ AcquireGot(i) \/ AcquireCreated(i) \/ AcquireDone(i)
       \/ Renew(i) \/ RenewConflict(i) \/ RenewGot(i) \/ RenewDone(i)
       \/ Release(i) \/ ReleaseGot(i)
       \/ Ended(i) \/ Timeout(i) \/ Crash(i)

Spec == Init /\ [][Next]_vars
-----------------------------------------------------------------------------
(* Properties. *)

TypeOK ==
  /\ rec \in Record
  /\ writes \in 0..MaxWrites
  /\ late \subseteq Record
  /\ lease \in [Instance -> Lease]
  /\ op \in [Instance -> Op]
  /\ seen \in [Instance -> Observation]
  /\ old \in [Instance -> 0..Duration]

(* What is forwarding: instances with a valid lease, and what dead         *)
(* processes left behind.                                                  *)
Forwarders ==
  {<<i, "lease">> : i \in {j \in Instance : Valid(j)}}
    \cup {<<i, "old">> : i \in {j \in Instance : old[j] > 0}}

(* Never do two holders forward at the same time, whatever the clocks do   *)
(* within their drift and whatever the store loses or delays: the promise  *)
(* of the package, which Valid and TakeoverWait keep together.             *)
OneForwarder == \A f, g \in Forwarders : f = g

(* Incarnation and epoch fence: while an instance forwards, nobody has     *)
(* taken the claim at a later epoch of its incarnation or holds a later    *)
(* incarnation, so what accepts the newest identity only accepts it.       *)
ValidIsNewest ==
  \A i \in Instance : Valid(i) /\ rec # Missing =>
    \/ SameClaim(rec, [inc |-> lease[i].inc, epoch |-> lease[i].epoch, holder |-> i])
    \/ rec.inc > lease[i].inc /\ rec.holder = NoOne

(* Within an incarnation the epoch never goes back, one epoch has one      *)
(* holder, and a released epoch stays released: no renewal or release that *)
(* arrives late undoes a takeover.                                         *)
EpochsForward ==
  [][rec # Missing /\ rec'.inc = rec.inc =>
       /\ rec'.epoch >= rec.epoch
       /\ rec'.epoch = rec.epoch =>
            /\ rec'.holder = rec.holder
            /\ rec.released => rec'.released]_rec
=============================================================================
