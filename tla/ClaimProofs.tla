---------------------------- MODULE ClaimProofs -----------------------------
(***************************************************************************)
(* Of module Claim: two holders never forward at the same time, and the    *)
(* theorems that go with it, for any number of instances, any lease,       *)
(* margin and drift, and any number of writes.                             *)
(*                                                                         *)
(* First the conjuncts of the inductive invariant IInv, the arithmetic of  *)
(* clocks that drift, and what a step has to satisfy to keep it: a step    *)
(* that writes nothing to the store (Quiet, Ungranted, Ends) and one that  *)
(* does (Wrote).  Then every action keeps it, and then the theorems.       *)
(***************************************************************************)
EXTENDS Claim, TLAPS

Grants == {"acquire", "renew", "renewAgain"}
Renews == {"renew", "renewAgain"}

(* The lease an update that was executed will give, once its reply comes.  *)
Pending(i) ==
  IF op[i].call \in Grants /\ op[i].step = "done" THEN Duration - op[i].since ELSE 0

(* What instance i may forward for, and whether it may. *)
Times(i) == {lease[i].left, old[i], Pending(i)}
Auth(i) == \E t \in Times(i) : t > 0

(* Versions grow, and a version identifies a record. *)
RecOK(r) ==
  /\ r.ver <= writes
  /\ r.inc <= writes
  /\ r.ver = 0 => r = Missing
  /\ r.ver > 0 => r.inc > 0 /\ r.epoch < r.ver

Versions ==
  /\ RecOK(rec)
  /\ \A i \in Instance :
       /\ seen[i].ver <= writes
       /\ op[i].next.ver <= writes
       /\ RecOK(op[i].got)
       /\ op[i].got.ver = rec.ver => op[i].got = rec

(* A lease whose version is the record's is the record's claim. *)
LeaseOK(i) ==
  /\ lease[i].ver <= writes
  /\ lease[i].inc <= writes
  /\ lease[i].ver = 0 => lease[i] = NoLease
  /\ lease[i].ver = rec.ver /\ rec.ver > 0 =>
       /\ rec.inc = lease[i].inc
       /\ rec.epoch = lease[i].epoch
       /\ rec.holder = i
       /\ ~rec.released

(* An update takes the claim over, renews it or releases it. *)
Takes(r) == r.inc = rec.inc /\ r.epoch = rec.epoch + 1 /\ r.holder \in Instance /\ ~r.released
Keeps(r) == SameClaim(r, rec) /\ ~r.released /\ ~rec.released
Frees(r) == SameClaim(r, rec) /\ r.released

OpOK(i) ==
  /\ op[i].call = "idle" => op[i] = Idle
  /\ op[i].call \in {"acquire", "release"} => lease[i].left = 0
  /\ op[i].call \in Renews \cup {"release"} => op[i].next.holder = i /\ op[i].next.ver > 0
  /\ op[i].call \in Renews => ~op[i].next.released
  /\ op[i].call = "release" => op[i].next.released
  /\ op[i].step \in {"create", "created"} => op[i].call = "acquire"
  /\ op[i].step = "put" =>
       /\ op[i].next.ver > 0
       /\ op[i].call = "acquire" => op[i].next.holder = i
       /\ op[i].next.ver = rec.ver =>
            /\ op[i].call = "acquire" => Takes(op[i].next)
            /\ op[i].call \in Renews => Keeps(op[i].next)
            /\ op[i].call = "release" => Frees(op[i].next)
  /\ op[i].step = "done" /\ op[i].call \in Grants =>
       /\ op[i].got.ver > 0
       /\ op[i].got.holder = i
       /\ ~op[i].got.released

(* A dead process's forwarding is all its instance has. *)
OldOK(i) ==
  old[i] > 0 => lease[i] = NoLease /\ op[i].call \in {"idle", "acquire"} /\ op[i].step # "done"

LateOK ==
  \A r \in late :
    /\ r.ver = rec.ver
    /\ rec.ver > 0
    /\ \/ Keeps(r)
       \/ (Takes(r) \/ Frees(r)) /\ \A j \in Instance : ~Auth(j)

(* While an instance may forward nobody else may, the claim is its own or  *)
(* nobody's, nothing that would end it can still be executed, and whoever  *)
(* observes the record has not waited longer than the lease has run.       *)
AuthOK(i) ==
  Auth(i) =>
    /\ rec.ver > 0 => rec.holder \in {NoOne, i}
    /\ ~rec.released
    /\ \A j \in Instance : Auth(j) => j = i
    /\ \A j \in Instance :
         op[j].step = "put" /\ op[j].next.ver = rec.ver => op[j].call \in Renews
    /\ \A j \in Instance, t \in Times(i) :
         seen[j].ver = rec.ver /\ rec.ver > 0 /\ t > 0 =>
           seen[j].waited * Slow + t * Fast <= Duration * Fast

(* Which claim it is. *)
IdOK(i) ==
  /\ lease[i].left > 0 /\ rec.ver > 0 =>
       \/ rec.holder = i /\ rec.inc = lease[i].inc /\ rec.epoch = lease[i].epoch
       \/ rec.holder = NoOne /\ rec.inc > lease[i].inc
  /\ Pending(i) > 0 /\ rec.ver > 0 =>
       \/ rec.holder = i /\ rec.inc = op[i].got.inc /\ rec.epoch = op[i].got.epoch
       \/ rec.holder = NoOne /\ rec.inc > op[i].got.inc

IInv ==
  /\ TypeOK
  /\ Versions
  /\ LateOK
  /\ \A i \in Instance : LeaseOK(i) /\ OpOK(i) /\ OldOK(i) /\ AuthOK(i) /\ IdOK(i)
-----------------------------------------------------------------------------
(* TakeoverWait covers Duration in real time, on the slowest and the       *)
(* fastest clock, but for less than a unit that the division cuts off.     *)
LEMMA WaitCovers ==
  /\ TakeoverWait \in Nat
  /\ TakeoverWait * Slow + Slow > Duration * Fast
<1> DEFINE p == Duration * Fast
           q == p \div Slow
           r == p % Slow
<1>1. p \in Nat /\ Slow \in Nat /\ Slow > 0 /\ Margin \in Nat
  BY ParamsAssumption
<1>2. q \in Nat /\ r \in Nat /\ r < Slow /\ p = Slow * q + r
  BY <1>1
<1>3. TakeoverWait = q + Margin
  BY Zenon DEF TakeoverWait
<1> HIDE DEF p, q, r
<1>4. (q + Margin) * Slow = Slow * q + Margin * Slow /\ Margin * Slow \in Nat /\ Slow * q \in Nat
  BY <1>1, <1>2
<1>5. (q + Margin) * Slow + Slow > p /\ q + Margin \in Nat
  BY <1>1, <1>2, <1>4
<1> QED BY Zenon, <1>3, <1>5 DEF p

(* One tick keeps the wait and the lease in step: a clock that counts the  *)
(* wait advances by at most Fast while one that runs the lease out         *)
(* advances by at least Slow.                                              *)
LEMMA TickInStep ==
  ASSUME NEW w \in Nat, NEW t \in Nat, NEW a \in Nat, NEW b \in Nat,
         a <= Fast, b >= Slow, b < t,
         w * Slow + t * Fast <= Duration * Fast
  PROVE  (w + a) * Slow + (t - b) * Fast <= Duration * Fast
<1>1. Slow \in Nat /\ Fast \in Nat
  BY ParamsAssumption
<1>2. (w + a) * Slow = w * Slow + a * Slow
  BY <1>1
<1>3. (t - b) * Fast = t * Fast - b * Fast
  BY <1>1
<1>4. a * Slow <= Fast * Slow
  BY <1>1
<1>5. Slow * Fast <= b * Fast
  BY <1>1
<1>6. Fast * Slow = Slow * Fast
  BY <1>1
<1> QED BY <1>1, <1>2, <1>3, <1>4, <1>5, <1>6, ParamsAssumption
-----------------------------------------------------------------------------
(* What is scaled keeps its order. *)
LEMMA Scaled ==
  ASSUME NEW t \in Nat, NEW d \in Nat, NEW f \in Nat, t <= d
  PROVE  t * f <= d * f /\ t * f \in Nat
<1> DEFINE e == d - t
<1>1. e \in Nat /\ d = t + e
  OBVIOUS
<1>2. d * f = t * f + e * f /\ e * f \in Nat /\ t * f \in Nat
  BY <1>1
<1> QED BY <1>2

(* The invariant, for one instance. *)
LEMMA Each ==
  ASSUME IInv, NEW j \in Instance
  PROVE  LeaseOK(j) /\ OpOK(j) /\ OldOK(j) /\ AuthOK(j) /\ IdOK(j)
BY Zenon DEF IInv

(* The values actions start from have their types. *)
LEMMA Values ==
  /\ Missing \in Record
  /\ NoLease \in Lease
  /\ Idle \in Op
  /\ Unseen \in Observation
<1>1. Missing \in Record
  BY ParamsAssumption DEF Missing, Record
<1>2. NoLease \in Lease
  BY ParamsAssumption DEF NoLease, Lease
<1>3. Idle \in Op
  BY <1>1, ParamsAssumption DEF Idle, Op, Calls, Steps
<1>4. Unseen \in Observation
  BY WaitCovers, ParamsAssumption DEF Unseen, Observation
<1> QED BY Zenon, <1>1, <1>2, <1>3, <1>4

(* The parts of a call have their types. *)
LEMMA Fields ==
  ASSUME NEW o \in Op
  PROVE  /\ o.call \in Calls
         /\ o.step \in Steps
         /\ o.since \in 0..Duration
         /\ o.next \in Record
         /\ o.got \in Record
BY Zenon DEF Op

(* A call that goes on to its next step keeps its start and its answer. *)
LEMMA Went ==
  ASSUME op \in [Instance -> Op], NEW i \in Instance, NEW call \in Calls,
         NEW step \in Steps, NEW next \in Record, Go(i, call, step, next)
  PROVE  /\ op' \in [Instance -> Op]
         /\ op'[i].call = call
         /\ op'[i].step = step
         /\ op'[i].next = next
         /\ op'[i].since = op[i].since
         /\ op'[i].got = op[i].got
         /\ \A j \in Instance : j # i => op'[j] = op[j]
<1>1. op' = [op EXCEPT ![i] = [op[i] EXCEPT !.call = call, !.step = step, !.next = next]]
  BY Zenon DEF Go
<1>2. op[i] \in Op
  BY Zenon
<1>3. [op[i] EXCEPT !.call = call, !.step = step, !.next = next] \in Op
  BY Zenon, <1>2, Zenon DEF Op
<1>4. op'[i] = [op[i] EXCEPT !.call = call, !.step = step, !.next = next]
  BY Zenon, <1>1
<1>5. op' \in [Instance -> Op] /\ \A j \in Instance : j # i => op'[j] = op[j]
  BY Zenon, <1>1, <1>3
<1> QED BY Zenon, <1>2, <1>4, <1>5 DEF Op

(* An answered call keeps what it asked. *)
LEMMA Answered ==
  ASSUME op \in [Instance -> Op], NEW i \in Instance,
         NEW step \in Steps, NEW got \in Record, Answer(i, step, got)
  PROVE  /\ op' \in [Instance -> Op]
         /\ op'[i].call = op[i].call
         /\ op'[i].step = step
         /\ op'[i].next = op[i].next
         /\ op'[i].since = op[i].since
         /\ op'[i].got = got
         /\ \A j \in Instance : j # i => op'[j] = op[j]
<1>1. op' = [op EXCEPT ![i] = [op[i] EXCEPT !.step = step, !.got = got]]
  BY Zenon DEF Answer
<1>2. op[i] \in Op
  BY Zenon
<1>3. [op[i] EXCEPT !.step = step, !.got = got] \in Op
  BY Zenon, <1>2, Zenon DEF Op
<1>4. op'[i] = [op[i] EXCEPT !.step = step, !.got = got]
  BY Zenon, <1>1
<1>5. op' \in [Instance -> Op] /\ \A j \in Instance : j # i => op'[j] = op[j]
  BY Zenon, <1>1, <1>3
<1> QED BY Zenon, <1>2, <1>4, <1>5 DEF Op

(* A call that begins has no answer yet. *)
LEMMA Begun ==
  ASSUME op \in [Instance -> Op], NEW i \in Instance, NEW call \in Calls,
         NEW step \in Steps, NEW next \in Record, Begin(i, call, step, next)
  PROVE  /\ op' \in [Instance -> Op]
         /\ op'[i].call = call
         /\ op'[i].step = step
         /\ op'[i].next = next
         /\ op'[i].since = 0
         /\ op'[i].got = Missing
         /\ \A j \in Instance : j # i => op'[j] = op[j]
<1> DEFINE o == [call |-> call, step |-> step, since |-> 0, next |-> next, got |-> Missing]
<1>1. op' = [op EXCEPT ![i] = o]
  BY Zenon DEF Begin
<1>2. o \in Op
  BY Values, ParamsAssumption DEF Op
<1>3. op'[i] = o /\ op' \in [Instance -> Op] /\ \A j \in Instance : j # i => op'[j] = op[j]
  BY Zenon, <1>1, <1>2
<1> QED BY <1>3

(* A call that returns leaves nothing behind. *)
LEMMA Returned ==
  ASSUME op \in [Instance -> Op], NEW i \in Instance, Return(i)
  PROVE  /\ op' \in [Instance -> Op]
         /\ op'[i] = Idle
         /\ \A j \in Instance : j # i => op'[j] = op[j]
BY Zenon, Values DEF Return

(* A write gives the record the next version and drops what was late. *)
LEMMA Written ==
  ASSUME NEW r \in Record, writes \in 0..MaxWrites, Write(r)
  PROVE  /\ rec' \in Record
         /\ writes' \in 0..MaxWrites
         /\ writes' = writes + 1
         /\ late' = {}
         /\ rec'.ver = writes + 1
         /\ rec'.inc = r.inc
         /\ rec'.epoch = r.epoch
         /\ rec'.holder = r.holder
         /\ rec'.released = r.released
<1>1. writes' = writes + 1 /\ writes' \in 0..MaxWrites /\ late' = {}
  BY ParamsAssumption DEF Write
<1>2. rec' = [r EXCEPT !.ver = writes + 1] /\ writes + 1 \in 0..MaxWrites
  BY ParamsAssumption DEF Write
<1> QED BY Zenon, <1>1, <1>2 DEF Record
-----------------------------------------------------------------------------
(* Times are within the lease's duration. *)
LEMMA TimesType ==
  ASSUME TypeOK, NEW i \in Instance
  PROVE  Times(i) \subseteq 0..Duration /\ Pending(i) \in 0..Duration
<1>1. lease[i] \in Lease /\ op[i] \in Op /\ old[i] \in 0..Duration
  BY Zenon DEF TypeOK
<1>2. lease[i].left \in 0..Duration /\ op[i].since \in 0..Duration
  BY Zenon, <1>1 DEF Lease, Op
<1>3. Pending(i) \in 0..Duration
  BY <1>2, ParamsAssumption DEF Pending
<1> QED BY Zenon, <1>1, <1>2, <1>3 DEF Times

(* An action of one instance that writes nothing: it keeps the invariant   *)
(* when it lengthens no lease, starts no wait but from zero, and sends an  *)
(* What is kept of an instance nothing happened to. *)
LEMMA Same ==
  ASSUME NEW j \in Instance, UNCHANGED <<rec, writes>>,
         op'[j] = op[j], lease'[j] = lease[j], old'[j] = old[j],
         LeaseOK(j), OpOK(j), OldOK(j), IdOK(j)
  PROVE  LeaseOK(j)' /\ OpOK(j)' /\ OldOK(j)' /\ IdOK(j)'
<1>1. LeaseOK(j)' /\ OldOK(j)'
  BY Zenon DEF LeaseOK, OldOK
<1>2. OpOK(j)'
  BY DEF OpOK, Takes, Keeps, Frees, SameClaim
<1>3. IdOK(j)'
  BY Zenon DEF IdOK, Pending
<1> QED BY Zenon, <1>1, <1>2, <1>3

(* update that ends a claim only when nobody may forward.                  *)
LEMMA Quiet ==
  ASSUME IInv, TypeOK', NEW i \in Instance,
         UNCHANGED <<rec, writes>>,
         late' = late \/ late' = late \cup Sent(i),
         \A j \in Instance : j # i =>
           op'[j] = op[j] /\ lease'[j] = lease[j] /\ seen'[j] = seen[j] /\ old'[j] = old[j],
         seen'[i] = seen[i] \/ (seen'[i].waited = 0 /\ seen'[i].ver <= writes),
         \A t \in Times(i)' : t > 0 => t \in Times(i),
         op'[i].next.ver <= writes,
         RecOK(op'[i].got),
         op'[i].got.ver = rec.ver => op'[i].got = rec,
         op'[i].step = "put" /\ op'[i].next.ver = rec.ver =>
           op'[i].call \in Renews \/ \A k \in Instance : ~Auth(k),
         LeaseOK(i)', OpOK(i)', OldOK(i)', IdOK(i)'
  PROVE  IInv'
<1>a. /\ TypeOK /\ Versions /\ LateOK
      /\ LeaseOK(i) /\ OpOK(i) /\ OldOK(i) /\ AuthOK(i) /\ IdOK(i)
  BY Zenon DEF IInv
<1>1. Versions'
  BY <1>a DEF Versions, RecOK
<1>2. ASSUME NEW j \in Instance
      PROVE  /\ Auth(j)' => Auth(j)
             /\ \A t \in Times(j)' : t > 0 => t \in Times(j)
  <2>1. CASE j = i
    BY Zenon, <2>1 DEF Auth
  <2>2. CASE j # i
    <3>1. Times(j)' = Times(j)
      BY Zenon, <2>2 DEF Times, Pending
    <3> QED BY Zenon, <3>1 DEF Auth
  <2> QED BY Zenon, <2>1, <2>2
<1>3. LateOK'
  <2> SUFFICES ASSUME NEW r \in late'
               PROVE  /\ r.ver = rec.ver
                      /\ rec.ver > 0
                      /\ \/ Keeps(r)
                         \/ (Takes(r) \/ Frees(r)) /\ \A j \in Instance : ~Auth(j)'
    BY Zenon, <1>a DEF LateOK, Keeps, Takes, Frees, SameClaim
  <2>1. CASE r \in late
    BY Zenon, <1>a, <1>2, <2>1 DEF LateOK
  <2>2. CASE r \in Sent(i)
    <3>1. r = op[i].next /\ op[i].step = "put" /\ op[i].next.ver = rec.ver
      BY Zenon, <2>2 DEF Sent
    <3>2. r.ver > 0
      BY Zenon, <1>a, <3>1 DEF OpOK
    <3>3. CASE op[i].call \in Renews
      <4>1. Keeps(r)
        BY Zenon, <1>a, <3>1, <3>3 DEF OpOK, Renews
      <4> QED BY Zenon, <3>1, <3>2, <4>1
    <3>4. CASE op[i].call \notin Renews
      <4>1. ASSUME NEW j \in Instance PROVE ~Auth(j)
        <5>1. AuthOK(j)
          BY Zenon, Each
        <5> QED BY Zenon, <3>1, <3>4, <5>1 DEF AuthOK
      <4>2. op[i].call \in {"acquire", "release"}
        BY SMTT(30), <1>a, <3>1, <3>4, Fields DEF OpOK, TypeOK, Calls, Renews, Idle
      <4>3. Takes(r) \/ Frees(r)
        BY Zenon, <1>a, <3>1, <4>2 DEF OpOK
      <4> QED BY Zenon, <1>2, <3>1, <3>2, <4>1, <4>3
    <3> QED BY Zenon, <3>3, <3>4
  <2> QED BY Zenon, <2>1, <2>2
<1>4. ASSUME NEW j \in Instance
      PROVE  LeaseOK(j)' /\ OpOK(j)' /\ OldOK(j)' /\ IdOK(j)'
  <2>1. CASE j = i
    BY Zenon, <2>1
  <2>2. CASE j # i
    <3>0. /\ op'[j] = op[j] /\ lease'[j] = lease[j] /\ old'[j] = old[j]
          /\ LeaseOK(j) /\ OpOK(j) /\ OldOK(j) /\ IdOK(j)
      BY Zenon, <2>2, Each
    <3> QED BY Zenon, <3>0, Same
  <2> QED BY Zenon, <2>1, <2>2
<1>5. ASSUME NEW j \in Instance, Auth(j)' PROVE AuthOK(j)'
  <2>1. AuthOK(j) /\ Auth(j) /\ \A t \in Times(j)' : t > 0 => t \in Times(j)
    BY Zenon, <1>2, <1>5, Each
  <2>2. /\ rec.ver > 0 => rec.holder \in {NoOne, j}
        /\ ~rec.released
        /\ \A k \in Instance : Auth(k)' => k = j
    BY Zenon, <1>2, <2>1 DEF AuthOK
  <2>3. ASSUME NEW k \in Instance, op'[k].step = "put", op'[k].next.ver = rec.ver
        PROVE  op'[k].call \in Renews
    <3>1. CASE k = i
      BY Zenon, <2>1, <2>3, <3>1
    <3>2. CASE k # i
      BY Zenon, <2>1, <2>3, <3>2 DEF AuthOK
    <3> QED BY Zenon, <3>1, <3>2
  <2>4. ASSUME NEW k \in Instance, NEW t \in Times(j)',
               seen'[k].ver = rec.ver, rec.ver > 0, t > 0
        PROVE  seen'[k].waited * Slow + t * Fast <= Duration * Fast
    <3>1. t \in Times(j)
      BY Zenon, <2>1, <2>4
    <3>2. CASE seen'[k] = seen[k]
      BY Zenon, <2>1, <2>4, <3>1, <3>2 DEF AuthOK
    <3>3. CASE seen'[k].waited = 0
      <4>1. t \in 0..Duration
        BY Zenon, <1>a, <3>1, TimesType
      <4>2. t * Fast <= Duration * Fast /\ t * Fast \in Nat
        BY <4>1, Scaled, ParamsAssumption
      <4> QED BY <3>3, <4>2, ParamsAssumption
    <3> QED BY Zenon, <3>2, <3>3
  <2> QED BY Zenon, <2>2, <2>3, <2>4 DEF AuthOK
<1>6. \A j \in Instance : AuthOK(j)'
  BY Zenon, <1>5 DEF AuthOK
<1> QED BY Zenon, <1>1, <1>3, <1>4, <1>6 DEF IInv

(* A write that is executed: it keeps the invariant when the holder it     *)
(* names is the only one who may forward.  Every version sent, seen or     *)
(* leased before is an older one.                                          *)
LEMMA Wrote ==
  ASSUME IInv, TypeOK', NEW i \in Instance, NEW r \in Record, Write(r),
         UNCHANGED <<lease, seen, old>>,
         \A j \in Instance : j # i => op'[j] = op[j],
         r.inc > 0 /\ r.inc <= writes + 1,
         r.epoch <= writes,
         op'[i].next = op[i].next,
         op'[i] = op[i] \/ (op'[i].got = rec' /\ op'[i].step # "put"),
         OpOK(i)', OldOK(i)',
         \A j \in Instance : Auth(j)' =>
           /\ r.holder \in {NoOne, j}
           /\ ~r.released
           /\ \A k \in Instance : Auth(k)' => k = j,
         \A j \in Instance : IdOK(j)'
  PROVE  IInv'
<1>a. /\ TypeOK /\ Versions /\ LateOK
      /\ LeaseOK(i) /\ OpOK(i) /\ OldOK(i) /\ AuthOK(i) /\ IdOK(i)
  BY Zenon DEF IInv
<1>1. /\ rec' \in Record
      /\ writes' = writes + 1
      /\ writes \in Nat
      /\ late' = {}
      /\ rec'.ver = writes + 1
      /\ rec'.inc = r.inc
      /\ rec'.epoch = r.epoch
      /\ rec'.holder = r.holder
      /\ rec'.released = r.released
  BY <1>a, Written DEF TypeOK
<1>2. RecOK(rec)'
  BY <1>1 DEF RecOK, Record
<1>3. ASSUME NEW j \in Instance
      PROVE  /\ seen[j].ver <= writes /\ seen[j].ver \in Nat
             /\ op[j].next.ver <= writes /\ op[j].next.ver \in Nat
             /\ op[j].got.ver <= writes /\ op[j].got.ver \in Nat
             /\ op[j].got.inc <= writes /\ op[j].got.inc \in Nat
             /\ lease[j].ver <= writes /\ lease[j].ver \in Nat
             /\ lease[j].inc <= writes /\ lease[j].inc \in Nat
  <2>1. /\ seen[j] \in Observation /\ op[j] \in Op /\ lease[j] \in Lease
        /\ op[j].next \in Record /\ op[j].got \in Record
    BY Zenon, <1>a, Fields DEF TypeOK
  <2>2. /\ seen[j].ver \in Nat
        /\ op[j].next.ver \in Nat
        /\ op[j].got.ver \in Nat /\ op[j].got.inc \in Nat
        /\ lease[j].ver \in Nat /\ lease[j].inc \in Nat
    BY <2>1 DEF Observation, Record, Lease
  <2>3. lease[j].ver <= writes /\ lease[j].inc <= writes
    <3>1. LeaseOK(j)
      BY Zenon, Each
    <3> QED BY Zenon, <3>1 DEF LeaseOK
  <2>4. /\ seen[j].ver <= writes
        /\ op[j].next.ver <= writes
        /\ op[j].got.ver <= writes /\ op[j].got.inc <= writes
    BY Zenon, <1>a DEF Versions, RecOK
  <2> QED BY Zenon, <2>2, <2>3, <2>4
<1>4. Versions'
  <2>1. ASSUME NEW j \in Instance
        PROVE  /\ seen'[j].ver <= writes'
               /\ op'[j].next.ver <= writes'
               /\ RecOK(op[j].got)'
               /\ op'[j].got.ver = rec'.ver => op'[j].got = rec'
    <3>1. seen'[j].ver <= writes' /\ op'[j].next.ver <= writes'
      BY SMTT(30), <1>1, <1>3
    <3>2. CASE op'[j] = op[j]
      BY SMTT(30), <1>a, <1>1, <1>3, <3>2 DEF Versions, RecOK
    <3>3. CASE op'[j].got = rec'
      <4>1. RecOK(op[j].got)'
        BY Zenon, <1>2, <3>3 DEF RecOK
      <4> QED BY Zenon, <3>1, <3>3, <4>1
    <3> QED BY Zenon, <3>1, <3>2, <3>3
  <2> QED BY Zenon, <1>2, <2>1 DEF Versions
<1>5. LateOK'
  BY Zenon, <1>1 DEF LateOK
<1>6. ASSUME NEW j \in Instance PROVE LeaseOK(j)'
  <2>1. lease'[j].ver <= writes' /\ lease'[j].inc <= writes' /\ lease'[j].ver # rec'.ver
    BY SMTT(30), <1>1, <1>3
  <2>2. LeaseOK(j) /\ lease'[j] = lease[j]
    BY Zenon, Each
  <2> QED BY Zenon, <2>1, <2>2 DEF LeaseOK
<1>7. ASSUME NEW j \in Instance PROVE OpOK(j)' /\ OldOK(j)'
  <2>1. CASE j = i
    BY Zenon, <2>1
  <2>2. CASE j # i
    <3>1. /\ op'[j] = op[j] /\ op'[j].next.ver # rec'.ver
          /\ lease'[j] = lease[j] /\ old'[j] = old[j]
          /\ OpOK(j) /\ OldOK(j)
      BY SMTT(30), <1>1, <1>3, <2>2, Each
    <3>2. OpOK(j)'
      BY Zenon, <3>1 DEF OpOK
    <3>3. OldOK(j)'
      BY Zenon, <3>1 DEF OldOK
    <3> QED BY Zenon, <3>2, <3>3
  <2> QED BY Zenon, <2>1, <2>2
<1>8. ASSUME NEW j \in Instance, Auth(j)' PROVE AuthOK(j)'
  <2>1. /\ rec'.holder \in {NoOne, j}
        /\ ~rec'.released
        /\ \A k \in Instance : Auth(k)' => k = j
    BY Zenon, <1>1, <1>8
  <2>2. \A k \in Instance : op'[k].next.ver # rec'.ver /\ seen'[k].ver # rec'.ver
    BY <1>1, <1>3
  <2> QED BY Zenon, <2>1, <2>2 DEF AuthOK
<1>9. \A j \in Instance : AuthOK(j)'
  BY Zenon, <1>8 DEF AuthOK
<1> QED BY Zenon, <1>4, <1>5, <1>6, <1>7, <1>9 DEF IInv
-----------------------------------------------------------------------------
(* A step of a call that gives no lease. *)
LEMMA Ungranted ==
  ASSUME IInv, TypeOK', NEW i \in Instance,
         UNCHANGED <<rec, writes, old>>,
         late' = late \/ late' = late \cup Sent(i),
         \A j \in Instance : j # i =>
           op'[j] = op[j] /\ lease'[j] = lease[j] /\ seen'[j] = seen[j],
         lease'[i] \in {lease[i], NoLease},
         seen'[i] = seen[i] \/ (seen'[i].waited = 0 /\ seen'[i].ver <= writes),
         op'[i].step # "done",
         op'[i].next.ver <= writes,
         RecOK(op'[i].got),
         op'[i].got.ver = rec.ver => op'[i].got = rec,
         op'[i].step = "put" /\ op'[i].next.ver = rec.ver =>
           op'[i].call \in Renews \/ \A k \in Instance : ~Auth(k),
         OpOK(i)',
         old[i] > 0 => op'[i].call \in {"idle", "acquire"}
  PROVE  IInv'
<1>a. /\ TypeOK /\ Versions /\ LateOK
      /\ LeaseOK(i) /\ OpOK(i) /\ OldOK(i) /\ AuthOK(i) /\ IdOK(i)
  BY Zenon DEF IInv
<1>1. Pending(i)' = 0
  BY Zenon DEF Pending
<1>2. lease'[i].left \in {0, lease[i].left}
  BY DEF NoLease
<1>3. \A t \in Times(i)' : t > 0 => t \in Times(i)
  BY SMTT(30), <1>1, <1>2 DEF Times
<1>4. LeaseOK(i)'
  <2>1. CASE lease'[i] = lease[i]
    BY Zenon, <1>a, <2>1 DEF LeaseOK
  <2>2. CASE lease'[i] = NoLease
    <3>1. writes \in Nat
      BY SMTT(30), <1>a DEF TypeOK
    <3> QED BY SMTT(30), <1>a, <2>2, <3>1 DEF LeaseOK, NoLease
  <2> QED BY Zenon, <2>1, <2>2
<1>5. OldOK(i)'
  BY Zenon, <1>a, <1>1, <1>2 DEF OldOK
<1>6. IdOK(i)'
  <2>0. Pending(i)' = 0 /\ rec' = rec /\ IdOK(i)
    BY Zenon, <1>a, <1>1
  <2>1. CASE lease'[i] = lease[i]
    BY <2>0, <2>1 DEF IdOK
  <2>2. CASE lease'[i] = NoLease
    <3>1. lease'[i].left = 0
      BY <2>2 DEF NoLease
    <3> QED BY SMTT(30), <2>0, <3>1 DEF IdOK
  <2> QED BY Zenon, <2>1, <2>2
<1> QED BY Zenon, <1>3, <1>4, <1>5, <1>6, Quiet

(* Missing is a record like any other, and the only one at version 0. *)
LEMMA Absent ==
  ASSUME TypeOK, Versions
  PROVE  /\ RecOK(Missing)
         /\ Missing.ver <= writes
         /\ rec.ver = 0 <=> rec = Missing
         /\ \A i \in Instance : op[i].got.ver = 0 <=> op[i].got = Missing
<1>1. writes \in Nat
  BY DEF TypeOK
<1>2. RecOK(Missing) /\ Missing.ver = 0
  BY SMTT(30), <1>1 DEF RecOK, Missing
<1> QED BY Zenon, <1>1, <1>2 DEF Versions, RecOK

(* A call that ends without a lease. *)
LEMMA Ends ==
  ASSUME IInv, TypeOK', NEW i \in Instance,
         UNCHANGED <<rec, writes, old>>,
         late' = late \/ late' = late \cup Sent(i),
         \A j \in Instance : j # i =>
           op'[j] = op[j] /\ lease'[j] = lease[j] /\ seen'[j] = seen[j],
         lease'[i] \in {lease[i], NoLease},
         seen'[i] = seen[i] \/ (seen'[i].waited = 0 /\ seen'[i].ver <= writes),
         op'[i] = Idle
  PROVE  IInv'
<1>1. /\ op'[i].call = "idle"
      /\ op'[i].step = "get"
      /\ op'[i].next = Missing
      /\ op'[i].got = Missing
  BY DEF Idle
<1>2. OpOK(i)'
  BY Zenon, <1>1 DEF OpOK, Renews, Grants
<1>3. /\ RecOK(Missing)
      /\ Missing.ver <= writes
      /\ Missing.ver = rec.ver => Missing = rec
  BY Zenon, Absent DEF IInv, Missing
<1> QED BY Zenon, <1>1, <1>2, <1>3, Ungranted

(* Whoever may not forward has nothing left. *)
LEMMA NoAuth ==
  ASSUME TypeOK, NEW j \in Instance
  PROVE  ~Auth(j) <=> lease[j].left = 0 /\ old[j] = 0 /\ Pending(j) = 0
<1>1. /\ lease[j].left \in Nat
      /\ old[j] \in Nat
      /\ Pending(j) \in Nat
  BY TimesType DEF Times
<1> QED BY <1>1 DEF Auth, Times

(* What an update that can be executed says of the record it replaces. *)
LEMMA Current ==
  ASSUME IInv, NEW r \in Record, rec.ver > 0, Takes(r) \/ Keeps(r) \/ Frees(r)
  PROVE  r.inc > 0 /\ r.inc <= writes + 1 /\ r.epoch <= writes
<1>1. /\ rec.ver \in Nat /\ rec.inc \in Nat /\ rec.epoch \in Nat /\ writes \in Nat
      /\ rec.ver <= writes /\ rec.inc <= writes /\ rec.inc > 0 /\ rec.epoch < rec.ver
  BY DEF IInv, TypeOK, Versions, RecOK, Record
<1> QED BY SMTT(30), <1>1 DEF Takes, Keeps, Frees, SameClaim

-----------------------------------------------------------------------------
(* The store's operations and the acquisition of a claim. *)

(* A read answers with the record. *)
LEMMA StoreGetStep ==
  ASSUME IInv, NEW i \in Instance, StoreGet(i)
  PROVE  IInv'
<1>a. /\ TypeOK /\ Versions /\ LateOK
      /\ LeaseOK(i) /\ OpOK(i) /\ OldOK(i) /\ AuthOK(i) /\ IdOK(i)
  BY Zenon DEF IInv
<1>1. /\ op' \in [Instance -> Op]
      /\ op'[i].call = op[i].call
      /\ op'[i].step = "got"
      /\ op'[i].next = op[i].next
      /\ op'[i].got = rec
      /\ \A j \in Instance : j # i => op'[j] = op[j]
  BY Zenon, <1>a, Answered DEF StoreGet, TypeOK, Steps
<1>2. TypeOK'
  BY Zenon, <1>a, <1>1 DEF StoreGet, TypeOK
<1>3. OpOK(i)'
  BY Zenon, <1>a, <1>1 DEF StoreGet, OpOK, Renews
<1>4. old[i] > 0 => op'[i].call \in {"idle", "acquire"}
  BY Zenon, <1>a, <1>1 DEF OldOK
<1>5. RecOK(rec) /\ op[i].next.ver <= writes
  BY Zenon, <1>a DEF Versions
<1> QED BY Zenon, <1>1, <1>2, <1>3, <1>4, <1>5, Ungranted DEF StoreGet

(* A record is created unheld. *)
LEMMA StoreCreateStep ==
  ASSUME IInv, NEW i \in Instance, StoreCreate(i)
  PROVE  IInv'
<1>a. /\ TypeOK /\ Versions /\ LateOK
      /\ LeaseOK(i) /\ OpOK(i) /\ OldOK(i) /\ AuthOK(i) /\ IdOK(i)
  BY Zenon DEF IInv
<1>0. op[i].call = "acquire" /\ op[i].step = "create"
  BY Zenon, <1>a DEF StoreCreate, OpOK
<1>1. CASE rec = Missing /\ Write([Missing EXCEPT !.inc = writes + 1])
             /\ Answer(i, "created", rec')
  <2> DEFINE r == [Missing EXCEPT !.inc = writes + 1]
  <2>1. /\ r \in Record
        /\ r.inc = writes + 1
        /\ r.epoch = 0
        /\ r.holder = NoOne
        /\ r.released = FALSE
        /\ writes \in Nat
    <3>1. writes \in Nat /\ writes + 1 \in 0..MaxWrites
      BY <1>a, <1>1, ParamsAssumption DEF Write, TypeOK
    <3>2. r \in Record /\ r.inc = writes + 1 /\ r.epoch = Missing.epoch
            /\ r.holder = Missing.holder /\ r.released = Missing.released
      BY Zenon, <3>1, Values DEF Record
    <3>3. Missing.epoch = 0 /\ Missing.holder = NoOne /\ Missing.released = FALSE
      BY Zenon DEF Missing
    <3> QED BY Zenon, <3>1, <3>2, <3>3
  <2>2. /\ rec' \in Record
        /\ writes' \in 0..MaxWrites
        /\ late' = {}
        /\ rec'.inc = writes + 1
        /\ rec'.holder = NoOne
    BY Zenon, <1>a, <1>1, <2>1, Written DEF TypeOK
  <2>3. /\ op' \in [Instance -> Op]
        /\ op'[i].call = op[i].call
        /\ op'[i].step = "created"
        /\ op'[i].next = op[i].next
        /\ op'[i].got = rec'
        /\ \A j \in Instance : j # i => op'[j] = op[j]
    BY Zenon, <1>a, <1>1, <2>2, Answered DEF TypeOK, Steps
  <2>4. TypeOK'
    BY Zenon, <1>a, <2>2, <2>3 DEF StoreCreate, TypeOK
  <2>5. OpOK(i)'
    BY Zenon, <1>a, <1>0, <2>3 DEF StoreCreate, OpOK, Renews
  <2>6. OldOK(i)' /\ Pending(i)' = 0
    BY Zenon, <1>a, <1>0, <2>3 DEF StoreCreate, OldOK, OpOK, Pending
  <2>7. ASSUME NEW j \in Instance
        PROVE  /\ Pending(j)' \in {0, Pending(j)}
               /\ lease'[j].left = lease[j].left
               /\ old'[j] = old[j]
               /\ Auth(j)' => Auth(j)
    <3>1. Pending(j)' \in {0, Pending(j)}
      BY Zenon, <2>3, <2>6 DEF Pending
    <3>2. lease'[j].left = lease[j].left /\ old'[j] = old[j]
      BY Zenon DEF StoreCreate
    <3> QED BY <3>1, <3>2 DEF Auth, Times
  <2>8. ASSUME NEW j \in Instance, Auth(j)'
        PROVE  \A k \in Instance : Auth(k)' => k = j
    <3>1. AuthOK(j) /\ Auth(j)
      BY Zenon, <2>7, <2>8, Each
    <3> QED BY Zenon, <2>7, <3>1 DEF AuthOK
  <2>9. ASSUME NEW j \in Instance PROVE IdOK(j)'
    <3>1. /\ lease'[j].inc \in Nat /\ lease'[j].inc <= writes
          /\ op[j].got.inc \in Nat /\ op[j].got.inc <= writes
      <4>1. lease[j] \in Lease /\ op[j].got \in Record /\ lease' = lease
        BY Zenon, <1>a, Fields DEF TypeOK, StoreCreate
      <4>2. LeaseOK(j) /\ RecOK(op[j].got)
        BY Zenon, <1>a, Each DEF Versions
      <4> QED BY <4>1, <4>2 DEF LeaseOK, RecOK, Lease, Record
    <3>2. Pending(j)' > 0 => op'[j] = op[j]
      BY <2>3, <2>6
    <3> QED BY <1>a, <2>1, <2>2, <3>1, <3>2 DEF IdOK
  <2>10. Write(r)
    BY Zenon, <1>1
  <2>11. UNCHANGED <<lease, seen, old>>
    BY Zenon DEF StoreCreate
  <2> HIDE DEF r
  <2> QED BY <2>1, <2>3, <2>4, <2>5, <2>6, <2>8, <2>9, <2>10, <2>11, Wrote
<1>2. CASE rec # Missing /\ Answer(i, "failed", Missing) /\ UNCHANGED <<rec, writes, late>>
  <2>1. /\ op' \in [Instance -> Op]
        /\ op'[i].call = op[i].call
        /\ op'[i].step = "failed"
        /\ op'[i].next = op[i].next
        /\ op'[i].got = Missing
        /\ \A j \in Instance : j # i => op'[j] = op[j]
    BY Zenon, <1>a, <1>2, Values, Answered DEF TypeOK, Steps
  <2>2. TypeOK'
    BY Zenon, <1>a, <1>2, <2>1 DEF StoreCreate, TypeOK
  <2>3. OpOK(i)'
    BY Zenon, <1>a, <1>0, <2>1 DEF StoreCreate, OpOK, Renews
  <2>4. RecOK(Missing) /\ (Missing.ver = rec.ver => Missing = rec) /\ op[i].next.ver <= writes
    BY Zenon, <1>a, Absent DEF Versions, Missing
  <2> QED BY Zenon, <1>0, <1>2, <2>1, <2>2, <2>3, <2>4, Ungranted DEF StoreCreate
<1> QED BY Zenon, <1>1, <1>2 DEF StoreCreate

(* An update is executed and answered. *)
LEMMA StorePutDone ==
  ASSUME IInv, NEW i \in Instance, op[i].step = "put", rec.ver = op[i].next.ver,
         Write(op[i].next), Answer(i, "done", rec'), UNCHANGED <<lease, seen, old>>
  PROVE  IInv'
<1>a. /\ TypeOK /\ Versions /\ LateOK
      /\ LeaseOK(i) /\ OpOK(i) /\ OldOK(i) /\ AuthOK(i) /\ IdOK(i)
  BY Zenon DEF IInv
<1> DEFINE r == op[i].next
<1>1. /\ r \in Record
      /\ rec.ver > 0
      /\ op[i].call \in {"acquire", "renew", "renewAgain", "release"}
      /\ writes \in 0..MaxWrites
  BY <1>a, Fields DEF TypeOK, OpOK, Calls, Idle
<1>2. /\ rec' \in Record
      /\ writes' \in 0..MaxWrites
      /\ late' = {}
      /\ rec'.inc = r.inc
      /\ rec'.epoch = r.epoch
      /\ rec'.holder = r.holder
      /\ rec'.released = r.released
      /\ rec'.ver > 0
  BY <1>1, Written
<1>3. /\ op' \in [Instance -> Op]
      /\ op'[i].call = op[i].call
      /\ op'[i].step = "done"
      /\ op'[i].next = op[i].next
      /\ op'[i].got = rec'
      /\ \A j \in Instance : j # i => op'[j] = op[j]
  BY Zenon, <1>a, <1>2, Answered DEF TypeOK, Steps
<1>4. TypeOK'
  BY Zenon, <1>a, <1>2, <1>3 DEF TypeOK
<1>5. ASSUME NEW j \in Instance
      PROVE  /\ lease'[j] = lease[j]
             /\ old'[j] = old[j]
             /\ j # i => Pending(j)' = Pending(j) /\ (Auth(j)' <=> Auth(j))
  BY Zenon, <1>3 DEF Pending, Times, Auth
<1>6. r.holder = i
  BY Zenon, <1>a, <1>1 DEF OpOK, Renews
<1>7. CASE op[i].call \in Renews
  <2>1. Keeps(r) /\ rec.holder = i /\ ~r.released
    BY Zenon, <1>a, <1>1, <1>6, <1>7 DEF OpOK, Keeps, SameClaim
  <2>2. ASSUME NEW j \in Instance, Auth(j) PROVE j = i
    <3>1. AuthOK(j)
      BY Zenon, Each
    <3> QED BY Zenon, <1>1, <2>1, <2>2, <3>1, ParamsAssumption DEF AuthOK
  <2>3. \A j \in Instance : Auth(j)' => j = i
    BY Zenon, <1>5, <2>2
  <2>4. OpOK(i)'
    BY Zenon, <1>a, <1>2, <1>3, <1>6, <1>7, <2>1 DEF OpOK, Renews
  <2>5. OldOK(i)'
    BY Zenon, <1>a, <1>7 DEF OldOK, Renews
  <2>6. ASSUME NEW j \in Instance PROVE IdOK(j)'
    <3>1. lease[j].left > 0 \/ (j # i /\ Pending(j)' > 0) => j = i
      <4>1. lease[j].left > 0 => Auth(j)
        BY Zenon DEF Auth, Times
      <4>2. j # i /\ Pending(j)' > 0 => Auth(j)
        BY Zenon, <1>5 DEF Auth, Times
      <4> QED BY Zenon, <2>2, <4>1, <4>2
    <3>2. /\ rec.holder = r.holder
          /\ rec.inc = r.inc
          /\ rec.epoch = r.epoch
      BY Zenon, <2>1 DEF Keeps, SameClaim
    <3>3. rec.holder # NoOne
      BY Zenon, <2>1, ParamsAssumption
    <3> QED BY Zenon, <1>a, <1>1, <1>2, <1>3, <1>5, <1>6, <3>1, <3>2, <3>3 DEF IdOK
  <2>7. r.inc > 0 /\ r.inc <= writes + 1 /\ r.epoch <= writes
    BY Zenon, <1>1, <2>1, Current
  <2> HIDE DEF r
  <2>8. Write(r)
    BY Zenon DEF r
  <2> QED BY Zenon, <1>1, <1>3, <1>4, <1>6, <2>1, <2>3, <2>4, <2>5, <2>6, <2>7, <2>8, Wrote DEF r
<1>8. CASE op[i].call \in {"acquire", "release"}
  <2>1. ASSUME NEW j \in Instance PROVE ~Auth(j)
    <3>1. AuthOK(j)
      BY Zenon, Each
    <3> QED BY Zenon, <1>8, <3>1 DEF AuthOK, Renews
  <2>2. \A j \in Instance : lease[j].left = 0 /\ old[j] = 0 /\ Pending(j) = 0
    BY Zenon, <1>a, <2>1, NoAuth
  <2>3. \A j \in Instance : Auth(j)' => j = i /\ op[i].call = "acquire"
    <3>1. op[i].call = "release" => Pending(i)' = 0
      BY Zenon, <1>3 DEF Pending, Grants
    <3> QED BY Zenon, <1>5, <1>8, <2>1, <2>2, <3>1 DEF Auth, Times
  <2>4. op[i].call = "acquire" => Takes(r) /\ ~r.released
    BY Zenon, <1>a DEF OpOK, Takes
  <2>5. OpOK(i)'
    BY Zenon, <1>a, <1>2, <1>3, <1>6, <1>8, <2>2, <2>4 DEF OpOK, Renews, Grants
  <2>6. OldOK(i)'
    BY <1>a, <2>2 DEF OldOK
  <2>7. ASSUME NEW j \in Instance PROVE IdOK(j)'
    <3>1. lease'[j].left = 0 /\ (Pending(j)' > 0 => j = i)
      BY <1>5, <2>2
    <3> QED BY <1>a, <1>2, <1>3, <1>6, <3>1 DEF IdOK
  <2>8. r.inc > 0 /\ r.inc <= writes + 1 /\ r.epoch <= writes
    <3>1. Takes(r) \/ Frees(r)
      BY Zenon, <1>a, <1>8 DEF OpOK
    <3> QED BY Zenon, <1>1, <3>1, Current
  <2> HIDE DEF r
  <2>9. Write(r)
    BY Zenon DEF r
  <2> QED BY Zenon, <1>1, <1>3, <1>4, <1>6, <2>3, <2>4, <2>5, <2>6, <2>7, <2>8, <2>9, Wrote DEF r
<1> QED BY Zenon, <1>1, <1>7, <1>8 DEF Renews

(* An update is executed or refused. *)
LEMMA StorePutStep ==
  ASSUME IInv, NEW i \in Instance, StorePut(i)
  PROVE  IInv'
<1>a. /\ TypeOK /\ Versions /\ LateOK
      /\ LeaseOK(i) /\ OpOK(i) /\ OldOK(i) /\ AuthOK(i) /\ IdOK(i)
  BY Zenon DEF IInv
<1>1. CASE rec.ver = op[i].next.ver
  BY Zenon, <1>1, StorePutDone DEF StorePut
<1>2. CASE rec.ver # op[i].next.ver
  <2> DEFINE step == IF rec = Missing THEN "failed" ELSE "conflict"
  <2>1. step \in {"failed", "conflict"} /\ Answer(i, step, Missing)
    BY Zenon, <1>2 DEF StorePut
  <2> HIDE DEF step
  <2>2. /\ op' \in [Instance -> Op]
        /\ op'[i].call = op[i].call
        /\ op'[i].step = step
        /\ op'[i].next = op[i].next
        /\ op'[i].got = Missing
        /\ \A j \in Instance : j # i => op'[j] = op[j]
    BY <1>a, <2>1, Values, Answered DEF TypeOK, Steps
  <2>3. UNCHANGED <<rec, writes, late, lease, seen, old>>
    BY Zenon, <1>2 DEF StorePut
  <2>4. TypeOK'
    BY Zenon, <1>a, <2>2, <2>3 DEF TypeOK
  <2>5. OpOK(i)'
    BY <1>a, <2>1, <2>2, <2>3 DEF StorePut, OpOK, Renews, Idle
  <2>6. RecOK(Missing) /\ (Missing.ver = rec.ver => Missing = rec) /\ op[i].next.ver <= writes
    BY Zenon, <1>a, Absent DEF Versions, Missing
  <2>7. old[i] > 0 => op'[i].call \in {"idle", "acquire"}
    BY Zenon, <1>a, <2>2 DEF OldOK
  <2> QED BY Zenon, <2>1, <2>2, <2>3, <2>4, <2>5, <2>6, <2>7, Ungranted
<1> QED BY Zenon, <1>1, <1>2

(* An update is executed after its caller gave up. *)
LEMMA StorePutLateStep ==
  ASSUME IInv, StorePutLate, Instance # {}
  PROVE  IInv'
<1>a. TypeOK /\ Versions /\ LateOK
  BY Zenon DEF IInv
<1>1. PICK r \in late : Write(r)
  BY Zenon DEF StorePutLate
<1>2. PICK i \in Instance : TRUE
  BY Zenon
<1>3. UNCHANGED <<lease, op, seen, old>>
  BY Zenon DEF StorePutLate
<1>4. r \in Record /\ rec.ver > 0 /\ writes \in 0..MaxWrites
  BY Zenon, <1>a DEF TypeOK, LateOK
<1>5. /\ rec' \in Record
      /\ writes' \in 0..MaxWrites
      /\ late' = {}
      /\ rec'.ver = writes + 1
      /\ rec'.inc = r.inc
      /\ rec'.epoch = r.epoch
      /\ rec'.holder = r.holder
  BY Zenon, <1>1, <1>4, Written
<1>6. TypeOK'
  BY Zenon, <1>a, <1>3, <1>5 DEF TypeOK
<1>7. ASSUME NEW j \in Instance
      PROVE  Pending(j)' = Pending(j) /\ (Auth(j)' <=> Auth(j))
  BY Zenon, <1>3 DEF Pending, Times, Auth
<1>8. op[i].next.ver <= writes /\ op[i].next.ver \in Nat
  BY SMTT(30), <1>a DEF Versions, TypeOK, Op, Record
<1>9. OpOK(i)' /\ OldOK(i)'
  <2>1. op'[i].next.ver # rec'.ver
    BY <1>3, <1>4, <1>5, <1>8
  <2>2. OpOK(i) /\ OldOK(i)
    BY Zenon, Each
  <2> QED BY Zenon, <1>3, <1>5, <1>7, <2>1, <2>2 DEF OpOK, OldOK
<1>10. Keeps(r) \/ Takes(r) \/ Frees(r)
  BY Zenon, <1>a DEF LateOK
<1>11. r.inc > 0 /\ r.inc <= writes + 1 /\ r.epoch <= writes
  BY Zenon, <1>4, <1>10, Current
<1>12. CASE Keeps(r)
  <2>1. ASSUME NEW j \in Instance, Auth(j)'
        PROVE  /\ r.holder \in {NoOne, j}
               /\ ~r.released
               /\ \A k \in Instance : Auth(k)' => k = j
    <3>1. AuthOK(j) /\ Auth(j)
      BY Zenon, <1>7, <2>1, Each
    <3> QED BY Zenon, <1>4, <1>7, <1>12, <3>1 DEF AuthOK, Keeps, SameClaim
  <2>2. ASSUME NEW j \in Instance PROVE IdOK(j)'
    <3>1. IdOK(j)
      BY Zenon, Each
    <3> QED BY Zenon, <1>3, <1>4, <1>5, <1>7, <1>12, <3>1 DEF IdOK, Keeps, SameClaim
  <2> QED BY Zenon, <1>1, <1>3, <1>4, <1>6, <1>9, <1>11, <2>1, <2>2, Wrote
<1>13. CASE \A j \in Instance : ~Auth(j)
  <2>1. ASSUME NEW j \in Instance PROVE IdOK(j)'
    <3>1. lease[j].left = 0 /\ Pending(j) = 0
      BY Zenon, <1>a, <1>13, NoAuth
    <3> QED BY <1>a, <1>3, <1>7, <3>1 DEF IdOK
  <2> QED BY Zenon, <1>1, <1>3, <1>4, <1>6, <1>7, <1>9, <1>11, <1>13, <2>1, Wrote
<1> QED BY Zenon, <1>a, <1>12, <1>13 DEF LateOK

(* A deleted record leaves leases as they are. *)
LEMMA DeleteStep ==
  ASSUME IInv, Delete
  PROVE  IInv'
<1>a. TypeOK /\ Versions /\ LateOK
  BY Zenon DEF IInv
<1>1. /\ rec' = Missing
      /\ rec'.ver = 0
      /\ rec'.released = FALSE
      /\ late' = {}
      /\ UNCHANGED <<writes, lease, op, seen, old>>
  BY Zenon DEF Delete, Missing
<1>2. TypeOK'
  BY Zenon, <1>a, <1>1, Values DEF TypeOK
<1>3. Versions'
  BY Zenon, <1>a, <1>1, Absent DEF Versions, RecOK
<1>4. LateOK'
  BY Zenon, <1>a, <1>1 DEF LateOK
<1>5. ASSUME NEW j \in Instance
      PROVE  /\ Pending(j)' = Pending(j)
             /\ Auth(j)' <=> Auth(j)
             /\ op[j].step = "put" => op[j].next.ver # 0
  <2>1. OpOK(j)
    BY Zenon, Each
  <2> QED BY <1>1, <2>1 DEF Pending, Times, Auth, OpOK
<1>6. ASSUME NEW j \in Instance PROVE LeaseOK(j)' /\ OldOK(j)' /\ IdOK(j)'
  <2>1. LeaseOK(j) /\ OldOK(j)
    BY Zenon, Each
  <2> QED BY <1>1, <2>1 DEF LeaseOK, OldOK, IdOK
<1>7. ASSUME NEW j \in Instance PROVE OpOK(j)'
  <2>1. OpOK(j)
    BY Zenon, Each
  <2> QED BY Zenon, <1>1, <1>5, <2>1 DEF OpOK
<1>8. ASSUME NEW j \in Instance PROVE AuthOK(j)'
  <2>1. AuthOK(j)
    BY Zenon, Each
  <2> QED BY <1>1, <1>5, <2>1 DEF AuthOK
<1> QED BY Zenon, <1>2, <1>3, <1>4, <1>6, <1>7, <1>8 DEF IInv

(* An acquisition starts. *)
LEMMA AcquireStep ==
  ASSUME IInv, NEW i \in Instance, Acquire(i)
  PROVE  IInv'
<1>a. /\ TypeOK /\ Versions /\ LateOK
      /\ LeaseOK(i) /\ OpOK(i) /\ OldOK(i) /\ AuthOK(i) /\ IdOK(i)
  BY Zenon DEF IInv
<1>1. /\ op' \in [Instance -> Op]
      /\ op'[i].call = "acquire"
      /\ op'[i].step = "get"
      /\ op'[i].next = Missing
      /\ op'[i].got = Missing
      /\ \A j \in Instance : j # i => op'[j] = op[j]
  BY <1>a, Values, Begun DEF Acquire, TypeOK, Steps, Calls
<1>2. /\ lease' \in [Instance -> Lease]
      /\ lease'[i] = NoLease
      /\ \A j \in Instance : j # i => lease'[j] = lease[j]
  BY Zenon, <1>a, Values DEF Acquire, TypeOK
<1>3. UNCHANGED <<rec, writes, late, seen, old>>
  BY Zenon DEF Acquire
<1>4. TypeOK'
  BY Zenon, <1>a, <1>1, <1>2, <1>3 DEF TypeOK
<1>5. OpOK(i)'
  BY SMTT(30), <1>a, <1>1, <1>2 DEF OpOK, NoLease, Renews
<1>6. RecOK(Missing) /\ (Missing.ver = rec.ver => Missing = rec) /\ Missing.ver <= writes
  BY Zenon, <1>a, Absent DEF Missing
<1> QED BY Zenon, <1>1, <1>2, <1>3, <1>4, <1>5, <1>6, Ungranted

(* Who waited long enough finds nobody who may forward. *)
LEMMA FreeIsFree ==
  ASSUME IInv, NEW i \in Instance, op[i].got.ver = rec.ver, rec.ver > 0,
         op[i].got.released \/ Waited(i)
  PROVE  \A k \in Instance : ~Auth(k)
<1>a. /\ TypeOK /\ Versions /\ LateOK
      /\ LeaseOK(i) /\ OpOK(i) /\ OldOK(i) /\ AuthOK(i) /\ IdOK(i)
  BY Zenon DEF IInv
<1> SUFFICES ASSUME NEW k \in Instance, Auth(k) PROVE FALSE
  BY Zenon
<1>1. op[i].got = rec /\ ~rec.released
  <2>1. AuthOK(k)
    BY Zenon, Each
  <2> QED BY Zenon, <1>a, <2>1 DEF Versions, AuthOK
<1>2. seen[i].ver = rec.ver /\ seen[i].waited >= TakeoverWait
  BY Zenon, <1>1 DEF Waited
<1>3. PICK t \in Times(k) : t > 0
  BY Zenon DEF Auth
<1>4. seen[i].waited * Slow + t * Fast <= Duration * Fast
  <2>1. AuthOK(k)
    BY Zenon, Each
  <2> QED BY Zenon, <1>2, <1>3, <2>1 DEF AuthOK
<1>5. t \in Nat /\ seen[i].waited \in Nat
  BY <1>a, <1>3, TimesType, ParamsAssumption, WaitCovers DEF TypeOK, Observation
<1>6. TakeoverWait * Slow <= seen[i].waited * Slow
  BY Zenon, <1>2, <1>5, WaitCovers, Scaled, ParamsAssumption
<1>7. 1 * Fast <= t * Fast
  BY <1>3, <1>5, Scaled, ParamsAssumption
<1>8. /\ TakeoverWait * Slow \in Nat /\ seen[i].waited * Slow \in Nat
      /\ t * Fast \in Nat /\ Duration * Fast \in Nat /\ Fast \in Nat /\ Slow \in Nat /\ Slow <= Fast
  BY <1>5, WaitCovers, ParamsAssumption
<1> QED BY SMTT(30), <1>4, <1>6, <1>7, <1>8, WaitCovers

(* An acquisition creates, waits or takes over. *)
LEMMA AcquireGotStep ==
  ASSUME IInv, NEW i \in Instance, AcquireGot(i)
  PROVE  IInv'
<1>a. /\ TypeOK /\ Versions /\ LateOK
      /\ LeaseOK(i) /\ OpOK(i) /\ OldOK(i) /\ AuthOK(i) /\ IdOK(i)
  BY Zenon DEF IInv
<1>0. /\ op[i].call = "acquire"
      /\ op[i].got \in Record
      /\ RecOK(op[i].got)
      /\ op[i].got.ver = rec.ver => op[i].got = rec
      /\ lease[i].left = 0
      /\ UNCHANGED <<rec, writes, late, lease, old>>
  BY Zenon, <1>a, Fields DEF AcquireGot, At, TypeOK, Versions, OpOK
<1>1. CASE op[i].got = Missing /\ Go(i, "acquire", "create", Missing) /\ UNCHANGED seen
  <2>1. /\ op' \in [Instance -> Op]
        /\ op'[i].call = "acquire"
        /\ op'[i].step = "create"
        /\ op'[i].next = Missing
        /\ op'[i].got = op[i].got
        /\ \A j \in Instance : j # i => op'[j] = op[j]
    BY <1>a, <1>1, Values, Went DEF TypeOK, Steps, Calls
  <2>2. TypeOK'
    BY Zenon, <1>a, <1>0, <1>1, <2>1 DEF TypeOK
  <2>3. OpOK(i)'
    BY Zenon, <1>a, <1>0, <2>1 DEF OpOK, Renews
  <2>4. Missing.ver <= writes
    BY Zenon, <1>a, Absent
  <2> QED BY Zenon, <1>0, <1>1, <2>1, <2>2, <2>3, <2>4, Ungranted
<1>2. CASE Observe(i, op[i].got.ver) /\ Return(i)
  <2>1. /\ op' \in [Instance -> Op]
        /\ op'[i] = Idle
        /\ \A j \in Instance : j # i => op'[j] = op[j]
    BY Zenon, <1>a, <1>2, Returned DEF TypeOK
  <2>2. /\ seen' \in [Instance -> Observation]
        /\ seen'[i] = seen[i] \/ (seen'[i].waited = 0 /\ seen'[i].ver = op[i].got.ver)
        /\ \A j \in Instance : j # i => seen'[j] = seen[j]
    <3>1. [ver |-> op[i].got.ver, waited |-> 0] \in Observation
      BY <1>0, WaitCovers DEF Record, Observation
    <3> QED BY Zenon, <1>a, <1>2, <3>1 DEF TypeOK, Observe
  <2>3. TypeOK'
    BY Zenon, <1>a, <1>0, <2>1, <2>2 DEF TypeOK
  <2>4. op[i].got.ver <= writes
    BY Zenon, <1>0 DEF RecOK
  <2> QED BY Zenon, <1>0, <2>1, <2>2, <2>3, <2>4, Ends
<1>3. CASE /\ op[i].got # Missing
           /\ op[i].got.released \/ Waited(i)
           /\ Go(i, "acquire", "put", Taking(i))
           /\ UNCHANGED seen
  <2> DEFINE r == Taking(i)
  <2>1. op[i].got.ver > 0 /\ op[i].got.ver \in 0..MaxWrites /\ op[i].got.epoch < op[i].got.ver
    BY <1>0, <1>3 DEF RecOK, Record
  <2>2. /\ r \in Record
        /\ r.ver = op[i].got.ver
        /\ r.inc = op[i].got.inc
        /\ r.epoch = op[i].got.epoch + 1
        /\ r.holder = i
        /\ r.released = FALSE
    <3>1. op[i].got.epoch + 1 \in 0..MaxWrites
      BY <1>0, <2>1, ParamsAssumption DEF Record
    <3> QED BY Zenon, <1>0, <3>1 DEF Record, Taking
  <2> HIDE DEF r
  <2>3. Go(i, "acquire", "put", r)
    BY Zenon, <1>3 DEF r
  <2>4. /\ op' \in [Instance -> Op]
        /\ op'[i].call = "acquire"
        /\ op'[i].step = "put"
        /\ op'[i].next = r
        /\ op'[i].got = op[i].got
        /\ \A j \in Instance : j # i => op'[j] = op[j]
    BY <1>a, <2>2, <2>3, Went DEF TypeOK, Steps, Calls
  <2>5. TypeOK'
    BY Zenon, <1>a, <1>0, <1>3, <2>4 DEF TypeOK
  <2>6. r.ver = rec.ver => Takes(r)
    BY Zenon, <1>0, <2>2 DEF Takes
  <2>7. OpOK(i)'
    BY Zenon, <1>a, <1>0, <2>1, <2>2, <2>4, <2>6 DEF OpOK, Renews, Takes
  <2>8. r.ver = rec.ver => \A k \in Instance : ~Auth(k)
    BY Zenon, <1>3, <2>1, <2>2, FreeIsFree
  <2>9. r.ver <= writes
    BY Zenon, <1>0, <2>2 DEF RecOK
  <2> QED BY Zenon, <1>0, <1>3, <2>4, <2>5, <2>7, <2>8, <2>9, Ungranted
<1> QED BY Zenon, <1>1, <1>2, <1>3 DEF AcquireGot

(* The wait on a created record starts. *)
LEMMA AcquireCreatedStep ==
  ASSUME IInv, NEW i \in Instance, AcquireCreated(i)
  PROVE  IInv'
<1>a. /\ TypeOK /\ Versions /\ LateOK
      /\ LeaseOK(i) /\ OpOK(i) /\ OldOK(i) /\ AuthOK(i) /\ IdOK(i)
  BY Zenon DEF IInv
<1>1. /\ op' \in [Instance -> Op]
      /\ op'[i] = Idle
      /\ \A j \in Instance : j # i => op'[j] = op[j]
  BY Zenon, <1>a, Returned DEF AcquireCreated, TypeOK
<1>2. op[i].got.ver \in 0..MaxWrites /\ op[i].got.ver <= writes /\ writes \in Nat
  BY <1>a DEF TypeOK, Op, Record, Versions, RecOK
<1>3. /\ seen' \in [Instance -> Observation]
      /\ seen'[i].waited = 0 /\ seen'[i].ver <= writes
      /\ \A j \in Instance : j # i => seen'[j] = seen[j]
  <2> DEFINE o == IF op[i].step = "created"
                  THEN [ver |-> op[i].got.ver, waited |-> 0] ELSE Unseen
  <2>1. o \in Observation /\ o.waited = 0 /\ o.ver <= writes
    BY <1>2, Values, WaitCovers DEF Observation, Unseen
  <2>2. seen' = [seen EXCEPT ![i] = o]
    BY Zenon DEF AcquireCreated
  <2> HIDE DEF o
  <2> QED BY Zenon, <1>a, <2>1, <2>2 DEF TypeOK
<1>4. UNCHANGED <<rec, writes, late, lease, old>>
  BY Zenon DEF AcquireCreated
<1>5. TypeOK'
  BY Zenon, <1>a, <1>1, <1>3, <1>4 DEF TypeOK
<1> QED BY Zenon, <1>1, <1>3, <1>4, <1>5, Ends

(* The reply to an executed update gives the lease that was pending. *)
LEMMA Grant ==
  ASSUME IInv, NEW i \in Instance, op[i].call \in Grants, op[i].step = "done",
         Granted(i), Return(i), UNCHANGED <<rec, writes, late, old>>,
         seen' \in [Instance -> Observation],
         \A j \in Instance : j # i => seen'[j] = seen[j],
         seen'[i] = seen[i] \/ seen'[i] = Unseen
  PROVE  IInv'
<1>a. /\ TypeOK /\ Versions /\ LateOK
      /\ LeaseOK(i) /\ OpOK(i) /\ OldOK(i) /\ AuthOK(i) /\ IdOK(i)
  BY Zenon DEF IInv
<1>1. /\ op' \in [Instance -> Op]
      /\ op'[i] = Idle
      /\ \A j \in Instance : j # i => op'[j] = op[j]
  BY Zenon, <1>a, Returned DEF TypeOK
<1>2. /\ op[i].got \in Record
      /\ op[i].since \in 0..Duration
      /\ RecOK(op[i].got)
      /\ op[i].got.ver = rec.ver => op[i].got = rec
      /\ op[i].got.ver > 0
      /\ op[i].got.holder = i
      /\ ~op[i].got.released
  BY Zenon, <1>a, Fields DEF TypeOK, Versions, OpOK
<1>3. Pending(i) = Duration - op[i].since /\ Pending(i) \in 0..Duration
  BY Zenon, <1>a, TimesType DEF Pending
<1>4. /\ lease' \in [Instance -> Lease]
      /\ lease'[i].ver = op[i].got.ver
      /\ lease'[i].inc = op[i].got.inc
      /\ lease'[i].epoch = op[i].got.epoch
      /\ lease'[i].left = Pending(i)
      /\ \A j \in Instance : j # i => lease'[j] = lease[j]
  <2> DEFINE l == [ver |-> op[i].got.ver, inc |-> op[i].got.inc,
                   epoch |-> op[i].got.epoch, left |-> Duration - op[i].since]
  <2>1. l \in Lease
    <3>1. /\ op[i].got.ver \in 0..MaxWrites
          /\ op[i].got.inc \in 0..MaxWrites
          /\ op[i].got.epoch \in 0..MaxWrites
      BY Zenon, <1>2 DEF Record
    <3>2. Duration - op[i].since \in 0..Duration
      BY Zenon, <1>3
    <3> QED BY Zenon, <3>1, <3>2 DEF Lease
  <2>2. lease' = [lease EXCEPT ![i] = l]
    BY Zenon DEF Granted
  <2>3. lease' \in [Instance -> Lease] /\ lease'[i] = l
          /\ \A j \in Instance : j # i => lease'[j] = lease[j]
    BY Zenon, <1>a, <2>1, <2>2 DEF TypeOK
  <2> QED BY SMTT(30), <1>3, <2>3
<1>5. TypeOK'
  BY Zenon, <1>a, <1>1, <1>4 DEF TypeOK
<1>6. /\ op'[i].call = "idle"
      /\ op'[i].step = "get"
      /\ op'[i].next = Missing
      /\ op'[i].got = Missing
  BY SMTT(30), <1>1 DEF Idle
<1>7. OpOK(i)'
  <2>1. op'[i] = Idle
    BY Zenon, <1>1
  <2> QED BY Zenon, <1>6, <2>1 DEF OpOK, Renews, Grants
<1>8. LeaseOK(i)'
  BY SMTT(30), <1>2, <1>4 DEF LeaseOK, RecOK
<1>9. Pending(i)' = 0
  BY Zenon, <1>6 DEF Pending
<1>10. OldOK(i)'
  BY Zenon, <1>a DEF OldOK
<1>11. IdOK(i)'
  <2>1. IdOK(i) /\ rec' = rec
    BY Zenon, <1>a
  <2> QED BY SMTT(30), <1>4, <1>9, <2>1 DEF IdOK
<1>12. \A t \in Times(i)' : t > 0 => t \in Times(i)
  BY SMTT(30), <1>4, <1>9 DEF Times
<1>13. RecOK(Missing) /\ (Missing.ver = rec.ver => Missing = rec) /\ Missing.ver <= writes
  BY Zenon, <1>a, Absent DEF Missing
<1>14. seen'[i] = seen[i] \/ (seen'[i].waited = 0 /\ seen'[i].ver <= writes)
  BY SMTT(30), <1>a DEF Unseen, TypeOK
<1> QED BY Zenon, <1>1, <1>4, <1>5, <1>6, <1>7, <1>8, <1>10, <1>11, <1>12, <1>13, <1>14, Quiet

(* An acquisition is granted. *)
LEMMA AcquireDoneStep ==
  ASSUME IInv, NEW i \in Instance, AcquireDone(i)
  PROVE  IInv'
<1>1. /\ seen' \in [Instance -> Observation]
      /\ seen'[i] = Unseen
      /\ \A j \in Instance : j # i => seen'[j] = seen[j]
  BY Zenon, Values DEF AcquireDone, IInv, TypeOK
<1> QED BY Zenon, <1>1, Grant DEF AcquireDone, At, Grants

(* A renewal is granted. *)
LEMMA RenewDoneStep ==
  ASSUME IInv, NEW i \in Instance, RenewDone(i)
  PROVE  IInv'
<1>1. UNCHANGED seen /\ seen' \in [Instance -> Observation]
  BY Zenon DEF RenewDone, IInv, TypeOK
<1> QED BY Zenon, <1>1, Grant DEF RenewDone, At, Grants

-----------------------------------------------------------------------------
(* Renewal, release, failures and the passing of time, and the theorems. *)

(* A renewal starts from the lease it renews. *)
LEMMA RenewStep ==
  ASSUME IInv, NEW i \in Instance, Renew(i)
  PROVE  IInv'
<1>a. /\ TypeOK /\ Versions /\ LateOK
      /\ LeaseOK(i) /\ OpOK(i) /\ OldOK(i) /\ AuthOK(i) /\ IdOK(i)
  BY Zenon DEF IInv
<1> DEFINE r == [ver |-> lease[i].ver, inc |-> lease[i].inc, epoch |-> lease[i].epoch,
                 holder |-> i, released |-> FALSE]
<1>1. r \in Record
  BY Zenon, <1>a DEF TypeOK, Lease, Record
<1>2. /\ r.ver = lease[i].ver
      /\ r.inc = lease[i].inc
      /\ r.epoch = lease[i].epoch
      /\ r.holder = i
      /\ r.released = FALSE
  BY Zenon
<1>3. Begin(i, "renew", "put", r)
  BY Zenon DEF Renew
<1> HIDE DEF r
<1>4. UNCHANGED <<rec, writes, late, lease, seen, old>>
  BY Zenon DEF Renew
<1>5. /\ op' \in [Instance -> Op]
      /\ op'[i].call = "renew"
      /\ op'[i].step = "put"
      /\ op'[i].next = r
      /\ op'[i].got = Missing
      /\ \A j \in Instance : j # i => op'[j] = op[j]
  BY <1>a, <1>1, <1>3, Begun DEF TypeOK, Steps, Calls
<1>6. TypeOK'
  BY Zenon, <1>a, <1>4, <1>5 DEF TypeOK
<1>7. lease[i].left > 0 /\ lease[i].ver > 0 /\ lease[i].ver <= writes
  BY <1>a DEF Renew, Valid, LeaseOK, NoLease, TypeOK, Lease
<1>8. r.ver = rec.ver => Keeps(r)
  BY Zenon, <1>a, <1>2, <1>7 DEF LeaseOK, Keeps, SameClaim
<1>9. OpOK(i)'
  BY Zenon, <1>a, <1>2, <1>4, <1>5, <1>7, <1>8 DEF OpOK, Renews, Keeps, SameClaim
<1>10. ~(old[i] > 0)
  BY <1>a, <1>7 DEF OldOK, NoLease
<1>11. RecOK(Missing) /\ (Missing.ver = rec.ver => Missing = rec)
  BY Zenon, <1>a, Absent DEF Missing
<1> QED BY Zenon, <1>2, <1>4, <1>5, <1>6, <1>7, <1>9, <1>10, <1>11, Ungranted DEF Renews

(* A renewal that was refused reads the record. *)
LEMMA RenewConflictStep ==
  ASSUME IInv, NEW i \in Instance, RenewConflict(i)
  PROVE  IInv'
<1>a. /\ TypeOK /\ Versions /\ LateOK
      /\ LeaseOK(i) /\ OpOK(i) /\ OldOK(i) /\ AuthOK(i) /\ IdOK(i)
  BY Zenon DEF IInv
<1>1. op[i].call = "renew" /\ op[i].next \in Record
  BY Zenon, <1>a, Fields DEF RenewConflict, At, TypeOK
<1>2. /\ op' \in [Instance -> Op]
      /\ op'[i].call = "renew"
      /\ op'[i].step = "get"
      /\ op'[i].next = op[i].next
      /\ op'[i].got = op[i].got
      /\ \A j \in Instance : j # i => op'[j] = op[j]
  BY <1>a, <1>1, Went DEF RenewConflict, TypeOK, Steps, Calls
<1>3. UNCHANGED <<rec, writes, late, lease, seen, old>>
  BY Zenon DEF RenewConflict
<1>4. TypeOK'
  BY Zenon, <1>a, <1>2, <1>3 DEF TypeOK
<1>5. OpOK(i)'
  BY Zenon, <1>a, <1>1, <1>2, <1>3 DEF OpOK, Renews
<1>6. ~(old[i] > 0)
  BY Zenon, <1>a, <1>1 DEF OldOK
<1>7. /\ op[i].next.ver <= writes
      /\ RecOK(op[i].got)
      /\ op[i].got.ver = rec.ver => op[i].got = rec
  BY Zenon, <1>a DEF Versions
<1> QED BY Zenon, <1>2, <1>3, <1>4, <1>5, <1>6, <1>7, Ungranted

(* A call that goes on to an update at the version it read: it sends the   *)
(* claim it holds, in the record it read.                                  *)
LEMMA Again ==
  ASSUME IInv, NEW i \in Instance, NEW call \in {"renewAgain", "release"},
         op[i].call \in {"renew", "release"},
         call = "release" <=> op[i].call = "release",
         SameClaim(op[i].got, op[i].next),
         call = "renewAgain" => ~op[i].got.released,
         Go(i, call, "put", [op[i].next EXCEPT !.ver = op[i].got.ver]),
         UNCHANGED <<rec, writes, late, lease, seen, old>>
  PROVE  IInv'
<1>a. /\ TypeOK /\ Versions /\ LateOK
      /\ LeaseOK(i) /\ OpOK(i) /\ OldOK(i) /\ AuthOK(i) /\ IdOK(i)
  BY Zenon DEF IInv
<1> DEFINE r == [op[i].next EXCEPT !.ver = op[i].got.ver]
<1>1. /\ op[i].next \in Record
      /\ op[i].got \in Record
      /\ op[i].next.holder = i
      /\ op[i].next.released <=> call = "release"
      /\ RecOK(op[i].got)
      /\ op[i].got.ver = rec.ver => op[i].got = rec
  BY Zenon, <1>a, Fields DEF TypeOK, Versions, OpOK, Renews
<1>2. /\ r \in Record
      /\ r.ver = op[i].got.ver
      /\ r.inc = op[i].next.inc
      /\ r.epoch = op[i].next.epoch
      /\ r.holder = i
      /\ r.released = op[i].next.released
  BY Zenon, <1>1 DEF Record
<1> HIDE DEF r
<1>3. Go(i, call, "put", r)
  BY Zenon DEF r
<1>4. /\ op' \in [Instance -> Op]
      /\ op'[i].call = call
      /\ op'[i].step = "put"
      /\ op'[i].next = r
      /\ op'[i].got = op[i].got
      /\ \A j \in Instance : j # i => op'[j] = op[j]
  BY <1>a, <1>2, <1>3, Went DEF TypeOK, Steps, Calls
<1>5. TypeOK'
  BY Zenon, <1>a, <1>4 DEF TypeOK
<1>6. op[i].got.ver > 0 /\ op[i].got.ver <= writes
  <2>1. op[i].got # Missing
    BY <1>1, ParamsAssumption DEF SameClaim, Missing
  <2> QED BY <1>1, <2>1 DEF RecOK, Record
<1>7. r.ver = rec.ver => /\ SameClaim(r, rec)
                         /\ rec.holder = i
                         /\ call = "renewAgain" => ~rec.released
  BY Zenon, <1>1, <1>2 DEF SameClaim
<1>8. call = "release" => lease[i].left = 0
  BY Zenon, <1>a DEF OpOK
<1>9. OpOK(i)'
  BY <1>a, <1>1, <1>2, <1>4, <1>6, <1>7, <1>8 DEF OpOK, Renews, Keeps, Frees, SameClaim
<1>10. ~(old[i] > 0)
  BY Zenon, <1>a DEF OldOK
<1>11. ASSUME r.ver = rec.ver, call = "release", NEW k \in Instance, Auth(k) PROVE FALSE
  <2>1. k = i
    <3>1. AuthOK(k)
      BY Zenon, Each
    <3> QED BY Zenon, <1>2, <1>6, <1>7, <1>11, <3>1, ParamsAssumption DEF AuthOK
  <2>2. lease[i].left = 0 /\ Pending(i) = 0
    BY Zenon, <1>8, <1>11 DEF Pending, Grants
  <2> QED BY <1>10, <1>11, <2>1, <2>2 DEF Auth, Times
<1> QED BY <1>1, <1>2, <1>4, <1>5, <1>6, <1>9, <1>10, <1>11, Ungranted DEF Renews

(* A refused renewal ends or is sent again. *)
LEMMA RenewGotStep ==
  ASSUME IInv, NEW i \in Instance, RenewGot(i)
  PROVE  IInv'
<1>a. /\ TypeOK /\ Versions /\ LateOK
      /\ LeaseOK(i) /\ OpOK(i) /\ OldOK(i) /\ AuthOK(i) /\ IdOK(i)
  BY Zenon DEF IInv
<1>0. UNCHANGED <<rec, writes, late, seen, old>> /\ op[i].call = "renew"
  BY Zenon DEF RenewGot, At
<1>1. CASE Return(i) /\ (lease' = [lease EXCEPT ![i] = NoLease] \/ UNCHANGED lease)
  <2>1. /\ op' \in [Instance -> Op]
        /\ op'[i] = Idle
        /\ \A j \in Instance : j # i => op'[j] = op[j]
    BY Zenon, <1>a, <1>1, Returned DEF TypeOK
  <2>2. /\ lease' \in [Instance -> Lease]
        /\ lease'[i] \in {lease[i], NoLease}
        /\ \A j \in Instance : j # i => lease'[j] = lease[j]
    BY Zenon, <1>a, <1>1, Values DEF TypeOK
  <2>3. TypeOK'
    BY Zenon, <1>a, <1>0, <2>1, <2>2 DEF TypeOK
  <2> QED BY Zenon, <1>0, <2>1, <2>2, <2>3, Ends
<1>2. CASE /\ SameClaim(op[i].got, op[i].next) /\ ~op[i].got.released
           /\ Go(i, "renewAgain", "put", [op[i].next EXCEPT !.ver = op[i].got.ver])
           /\ UNCHANGED lease
  BY Zenon, <1>0, <1>2, Again
<1> QED BY Zenon, <1>1, <1>2 DEF RenewGot

(* A release starts; its lease is gone. *)
LEMMA ReleaseStep ==
  ASSUME IInv, NEW i \in Instance, Release(i)
  PROVE  IInv'
<1>a. /\ TypeOK /\ Versions /\ LateOK
      /\ LeaseOK(i) /\ OpOK(i) /\ OldOK(i) /\ AuthOK(i) /\ IdOK(i)
  BY Zenon DEF IInv
<1> DEFINE r == [ver |-> lease[i].ver, inc |-> lease[i].inc, epoch |-> lease[i].epoch,
                 holder |-> i, released |-> TRUE]
<1>1. r \in Record
  BY Zenon, <1>a DEF TypeOK, Lease, Record
<1>2. r.ver = lease[i].ver /\ r.holder = i /\ r.released = TRUE
  BY Zenon
<1>3. Begin(i, "release", "get", r)
  BY Zenon DEF Release
<1> HIDE DEF r
<1>4. UNCHANGED <<rec, writes, late, seen, old>>
  BY Zenon DEF Release
<1>5. /\ op' \in [Instance -> Op]
      /\ op'[i].call = "release"
      /\ op'[i].step = "get"
      /\ op'[i].next = r
      /\ op'[i].got = Missing
      /\ \A j \in Instance : j # i => op'[j] = op[j]
  BY <1>a, <1>1, <1>3, Begun DEF TypeOK, Steps, Calls
<1>6. /\ lease' \in [Instance -> Lease]
      /\ lease'[i] = NoLease
      /\ \A j \in Instance : j # i => lease'[j] = lease[j]
  BY Zenon, <1>a, Values DEF Release, TypeOK
<1>7. TypeOK'
  BY Zenon, <1>a, <1>4, <1>5, <1>6 DEF TypeOK
<1>8. lease[i].ver > 0 /\ lease[i].ver <= writes /\ ~(old[i] > 0)
  BY SMTT(30), <1>a DEF Release, LeaseOK, OldOK, TypeOK, Lease
<1>9. OpOK(i)'
  <2>1. /\ op'[i].next.holder = i /\ op'[i].next.ver > 0 /\ op'[i].next.released
        /\ lease'[i].left = 0
    <3>1. op'[i].next.holder = i /\ op'[i].next.ver > 0 /\ op'[i].next.released = TRUE
      BY Zenon, <1>2, <1>5, <1>8
    <3>2. lease'[i].left = 0
      <4>1. NoLease.left = 0
        BY Zenon DEF NoLease
      <4> QED
        BY Zenon, <1>6, <4>1
    <3> QED
      BY Zenon, <3>1, <3>2
  <2>2. /\ op'[i].call # "idle" /\ op'[i].call \notin Renews
        /\ op'[i].step \notin {"create", "created", "put", "done"}
    BY Zenon, <1>5 DEF Renews
  <2> QED
    BY Zenon, <2>1, <2>2 DEF OpOK
<1>10. RecOK(Missing) /\ (Missing.ver = rec.ver => Missing = rec)
  BY Zenon, <1>a, Absent DEF Missing
<1> QED BY Zenon, <1>2, <1>4, <1>5, <1>6, <1>7, <1>8, <1>9, <1>10, Ungranted

(* A release is sent for the claim that was held, or ends. *)
LEMMA ReleaseGotStep ==
  ASSUME IInv, NEW i \in Instance, ReleaseGot(i)
  PROVE  IInv'
<1>a. /\ TypeOK /\ Versions /\ LateOK
      /\ LeaseOK(i) /\ OpOK(i) /\ OldOK(i) /\ AuthOK(i) /\ IdOK(i)
  BY Zenon DEF IInv
<1>0. UNCHANGED <<rec, writes, late, lease, seen, old>> /\ op[i].call = "release"
  BY Zenon DEF ReleaseGot, At
<1>1. CASE Return(i)
  <2>1. /\ op' \in [Instance -> Op]
        /\ op'[i] = Idle
        /\ \A j \in Instance : j # i => op'[j] = op[j]
    BY Zenon, <1>a, <1>1, Returned DEF TypeOK
  <2>2. TypeOK'
    BY Zenon, <1>a, <1>0, <2>1 DEF TypeOK
  <2> QED BY Zenon, <1>0, <2>1, <2>2, Ends
<1>2. CASE /\ SameClaim(op[i].got, op[i].next)
           /\ Go(i, "release", "put", [op[i].next EXCEPT !.ver = op[i].got.ver])
  BY Zenon, <1>0, <1>2, Again
<1> QED BY Zenon, <1>1, <1>2 DEF ReleaseGot

(* A call ends. *)
LEMMA EndedStep ==
  ASSUME IInv, NEW i \in Instance, Ended(i)
  PROVE  IInv'
<1>a. /\ TypeOK /\ Versions /\ LateOK
      /\ LeaseOK(i) /\ OpOK(i) /\ OldOK(i) /\ AuthOK(i) /\ IdOK(i)
  BY Zenon DEF IInv
<1>1. UNCHANGED <<rec, writes, late, lease, seen, old>>
  BY Zenon DEF Ended
<1>2. /\ op' \in [Instance -> Op]
      /\ op'[i] = Idle
      /\ \A j \in Instance : j # i => op'[j] = op[j]
  BY Zenon, <1>a, Returned DEF Ended, TypeOK
<1>3. TypeOK'
  BY Zenon, <1>a, <1>1, <1>2 DEF TypeOK
<1> QED BY Zenon, <1>1, <1>2, <1>3, Ends

(* What is sent is a record. *)
LEMMA SentType ==
  ASSUME TypeOK, NEW i \in Instance
  PROVE  Sent(i) \subseteq Record
BY Zenon, Fields DEF TypeOK, Sent

(* A call is given up. *)
LEMMA TimeoutStep ==
  ASSUME IInv, NEW i \in Instance, Timeout(i)
  PROVE  IInv'
<1>a. /\ TypeOK /\ Versions /\ LateOK
      /\ LeaseOK(i) /\ OpOK(i) /\ OldOK(i) /\ AuthOK(i) /\ IdOK(i)
  BY Zenon DEF IInv
<1>1. UNCHANGED <<rec, writes, lease, old>> /\ late' = late \cup Sent(i)
  BY Zenon DEF Timeout
<1>2. /\ op' \in [Instance -> Op]
      /\ op'[i] = Idle
      /\ \A j \in Instance : j # i => op'[j] = op[j]
  BY Zenon, <1>a, Returned DEF Timeout, TypeOK
<1>3. /\ seen' \in [Instance -> Observation]
      /\ seen'[i] = seen[i] \/ (seen'[i].waited = 0 /\ seen'[i].ver = 0)
      /\ \A j \in Instance : j # i => seen'[j] = seen[j]
  <2>1. CASE seen' = seen
    BY Zenon, <1>a, <2>1 DEF TypeOK
  <2>2. CASE seen' = [seen EXCEPT ![i] = Unseen]
    <3>1. seen' \in [Instance -> Observation] /\ seen'[i] = Unseen
            /\ \A j \in Instance : j # i => seen'[j] = seen[j]
      BY Zenon, <1>a, <2>2, Values DEF TypeOK
    <3> QED BY <3>1 DEF Unseen
  <2> QED BY Zenon, <2>1, <2>2 DEF Timeout
<1>4. TypeOK'
  BY Zenon, <1>a, <1>1, <1>2, <1>3, SentType DEF TypeOK
<1>5. 0 <= writes
  BY SMTT(30), <1>a DEF TypeOK
<1> QED BY Zenon, <1>1, <1>2, <1>3, <1>4, <1>5, Ends

(* A process dies and leaves its forwarding behind. *)
LEMMA CrashStep ==
  ASSUME IInv, NEW i \in Instance, Crash(i)
  PROVE  IInv'
<1>a. /\ TypeOK /\ Versions /\ LateOK
      /\ LeaseOK(i) /\ OpOK(i) /\ OldOK(i) /\ AuthOK(i) /\ IdOK(i)
  BY Zenon DEF IInv
<1>1. UNCHANGED <<rec, writes>> /\ late' = late \cup Sent(i)
  BY Zenon DEF Crash
<1>2. /\ op' \in [Instance -> Op]
      /\ op'[i] = Idle
      /\ \A j \in Instance : j # i => op'[j] = op[j]
  BY Zenon, <1>a, Returned DEF Crash, TypeOK
<1>3. /\ seen' \in [Instance -> Observation]
      /\ seen'[i] = Unseen
      /\ \A j \in Instance : j # i => seen'[j] = seen[j]
  BY Zenon, <1>a, Values DEF Crash, TypeOK
<1>4. /\ lease' \in [Instance -> Lease]
      /\ lease'[i] = NoLease
      /\ \A j \in Instance : j # i => lease'[j] = lease[j]
  BY Zenon, <1>a, Values DEF Crash, TypeOK
<1>5. /\ old' \in [Instance -> 0..Duration]
      /\ old'[i] \in {old[i], lease[i].left}
      /\ \A j \in Instance : j # i => old'[j] = old[j]
  <2>1. lease[i].left \in 0..Duration /\ old[i] \in 0..Duration
    BY Zenon, <1>a DEF TypeOK, Lease
  <2> QED BY Zenon, <1>a, <2>1 DEF Crash, TypeOK
<1>6. TypeOK'
  BY Zenon, <1>a, <1>1, <1>2, <1>3, <1>4, <1>5, SentType DEF TypeOK
<1>7. /\ op'[i].call = "idle"
      /\ op'[i].step = "get"
      /\ op'[i].next = Missing
      /\ op'[i].got = Missing
      /\ seen'[i].waited = 0
      /\ seen'[i].ver <= writes
      /\ lease'[i].left = 0
  BY SMTT(30), <1>a, <1>2, <1>3, <1>4 DEF Idle, Unseen, NoLease, TypeOK
<1>8. OpOK(i)'
  BY Zenon, <1>a, <1>2, <1>7 DEF OpOK, Renews, Grants
<1>9. LeaseOK(i)'
  <2>1. writes \in Nat
    BY <1>a DEF TypeOK
  <2> QED BY <1>a, <1>1, <1>4, <2>1 DEF LeaseOK, NoLease
<1>10. Pending(i)' = 0
  BY Zenon, <1>7 DEF Pending
<1>11. OldOK(i)' /\ IdOK(i)'
  BY <1>a, <1>4, <1>7, <1>10 DEF OldOK, IdOK
<1>12. \A t \in Times(i)' : t > 0 => t \in Times(i)
  BY SMTT(30), <1>5, <1>7, <1>10 DEF Times
<1>13. RecOK(Missing) /\ (Missing.ver = rec.ver => Missing = rec) /\ Missing.ver <= writes
  BY Zenon, <1>a, Absent DEF Missing
<1> QED BY Zenon, <1>1, <1>2, <1>3, <1>4, <1>5, <1>6, <1>7, <1>8, <1>9, <1>11, <1>12, <1>13, Quiet

(* What is left of a lease, and of the lease a call will give, shrinks by  *)
(* what the clock advanced.                                                *)
LEMMA LeftIs ==
  ASSUME NEW n \in 0..Duration, NEW a \in Nat
  PROVE  /\ Left(n, a) \in 0..Duration
         /\ Left(n, a) > 0 => Left(n, a) = n - a
         /\ n = 0 => Left(n, a) = 0
         /\ AtMost(n + a, Duration) \in 0..Duration
         /\ Duration - AtMost(n + a, Duration) > 0 =>
              Duration - AtMost(n + a, Duration) = (Duration - n) - a
BY ParamsAssumption DEF Left, AtMost

(* A wait grows by at most what its clock advanced. *)
LEMMA TickSeen ==
  ASSUME NEW o \in Observation, NEW a \in Nat, NEW p,
         p = IF o = Unseen THEN Unseen
             ELSE [o EXCEPT !.waited = AtMost(@ + a, TakeoverWait)]
  PROVE  /\ p \in Observation
         /\ p.ver = o.ver
         /\ p.waited <= o.waited + a
<1>1. /\ o.waited \in Nat
      /\ AtMost(o.waited + a, TakeoverWait) \in 0..TakeoverWait
      /\ AtMost(o.waited + a, TakeoverWait) <= o.waited + a
  BY WaitCovers DEF AtMost, Observation
<1>2. CASE o = Unseen
  BY <1>1, <1>2
<1>3. CASE o # Unseen
  <2>1. p = [o EXCEPT !.waited = AtMost(@ + a, TakeoverWait)]
    BY Zenon, <1>3
  <2> QED BY Zenon, <1>1, <2>1 DEF Observation
<1> QED BY Zenon, <1>2, <1>3

(* Time passes. *)
LEMMA TickStep ==
  ASSUME IInv, Tick
  PROVE  IInv'
<1>a. TypeOK /\ Versions /\ LateOK
  BY Zenon DEF IInv
<1>1. PICK by \in [Instance -> Slow..Fast] :
        /\ lease' = [i \in Instance |-> [lease[i] EXCEPT !.left = Left(@, by[i])]]
        /\ old' = [i \in Instance |-> Left(old[i], by[i])]
        /\ op' = [i \in Instance |->
                    IF op[i] = Idle THEN Idle
                    ELSE [op[i] EXCEPT !.since = AtMost(@ + by[i], Duration)]]
        /\ seen' = [i \in Instance |->
                      IF seen[i] = Unseen THEN Unseen
                      ELSE [seen[i] EXCEPT !.waited = AtMost(@ + by[i], TakeoverWait)]]
        /\ UNCHANGED <<rec, writes, late>>
  BY Zenon DEF Tick
<1>2. ASSUME NEW j \in Instance PROVE by[j] \in Nat /\ Slow <= by[j] /\ by[j] <= Fast
  BY ParamsAssumption
<1>3. ASSUME NEW j \in Instance
      PROVE  /\ lease'[j] \in Lease
             /\ lease'[j].ver = lease[j].ver
             /\ lease'[j].inc = lease[j].inc
             /\ lease'[j].epoch = lease[j].epoch
             /\ lease'[j].left > 0 => lease'[j].left = lease[j].left - by[j]
             /\ lease[j] = NoLease => lease'[j] = NoLease
  <2>1. lease'[j] = [lease[j] EXCEPT !.left = Left(@, by[j])] /\ lease[j] \in Lease
    BY Zenon, <1>a, <1>1 DEF TypeOK
  <2>2. lease[j].left \in 0..Duration
    BY Zenon, <2>1 DEF Lease
  <2>3. /\ Left(lease[j].left, by[j]) \in 0..Duration
        /\ Left(lease[j].left, by[j]) > 0 => Left(lease[j].left, by[j]) = lease[j].left - by[j]
        /\ lease[j].left = 0 => Left(lease[j].left, by[j]) = 0
    BY Zenon, <1>2, <2>2, LeftIs
  <2>4. /\ lease'[j] \in Lease
        /\ lease'[j].ver = lease[j].ver
        /\ lease'[j].inc = lease[j].inc
        /\ lease'[j].epoch = lease[j].epoch
        /\ lease'[j].left = Left(lease[j].left, by[j])
    BY Zenon, <2>1, <2>3 DEF Lease
  <2>5. ASSUME lease[j] = NoLease PROVE lease'[j] = NoLease
    <3>1. lease'[j].ver = 0 /\ lease'[j].inc = 0 /\ lease'[j].epoch = 0 /\ lease'[j].left = 0
      BY <2>3, <2>4, <2>5 DEF NoLease
    <3> QED BY Zenon, <2>4, <3>1 DEF Lease, NoLease
  <2> QED BY Zenon, <2>3, <2>4, <2>5
<1>4. ASSUME NEW j \in Instance
      PROVE  /\ op'[j] \in Op
             /\ op'[j].call = op[j].call
             /\ op'[j].step = op[j].step
             /\ op'[j].next = op[j].next
             /\ op'[j].got = op[j].got
             /\ op[j] = Idle => op'[j] = Idle
             /\ op[j] # Idle /\ Duration - op'[j].since > 0 =>
                  Duration - op'[j].since = (Duration - op[j].since) - by[j]
  <2>1. op[j] \in Op
    BY Zenon, <1>a DEF TypeOK
  <2>2. op'[j] = IF op[j] = Idle THEN Idle
                 ELSE [op[j] EXCEPT !.since = AtMost(@ + by[j], Duration)]
    BY Zenon, <1>1
  <2>3. op[j].since \in 0..Duration
    BY Zenon, <2>1, Fields
  <2>4. /\ AtMost(op[j].since + by[j], Duration) \in 0..Duration
        /\ Duration - AtMost(op[j].since + by[j], Duration) > 0 =>
             Duration - AtMost(op[j].since + by[j], Duration) = (Duration - op[j].since) - by[j]
    BY Zenon, <1>2, <2>3, LeftIs
  <2>5. CASE op[j] = Idle
    BY Zenon, <2>1, <2>2, <2>5
  <2>6. CASE op[j] # Idle
    <3>1. op'[j] = [op[j] EXCEPT !.since = AtMost(@ + by[j], Duration)]
      BY Zenon, <2>2, <2>6
    <3>2. /\ op'[j] \in Op
          /\ op'[j].call = op[j].call
          /\ op'[j].step = op[j].step
          /\ op'[j].next = op[j].next
          /\ op'[j].got = op[j].got
          /\ op'[j].since = AtMost(op[j].since + by[j], Duration)
      BY Zenon, <2>1, <2>4, <3>1 DEF Op
    <3> QED BY Zenon, <2>4, <2>6, <3>2
  <2> QED BY Zenon, <2>5, <2>6
<1>5. ASSUME NEW j \in Instance
      PROVE  /\ seen'[j] \in Observation
             /\ seen'[j].ver = seen[j].ver
             /\ seen'[j].waited <= seen[j].waited + by[j]
  <2>1. seen[j] \in Observation
    BY Zenon, <1>a DEF TypeOK
  <2>2. seen'[j] = IF seen[j] = Unseen THEN Unseen
                   ELSE [seen[j] EXCEPT !.waited = AtMost(@ + by[j], TakeoverWait)]
    BY Zenon, <1>1
  <2> QED BY Zenon, <1>2, <2>1, <2>2, TickSeen
<1>6. ASSUME NEW j \in Instance
      PROVE  /\ old'[j] \in 0..Duration
             /\ old'[j] > 0 => old'[j] = old[j] - by[j]
  <2>1. old[j] \in 0..Duration /\ old'[j] = Left(old[j], by[j])
    BY Zenon, <1>a, <1>1 DEF TypeOK
  <2> QED BY <1>2, <2>1, ParamsAssumption DEF Left
<1>7. ASSUME NEW j \in Instance
      PROVE  Pending(j)' > 0 => Pending(j)' = Pending(j) - by[j]
  <2>1. op[j] = Idle => Pending(j)' = 0
    BY <1>4 DEF Pending, Idle
  <2> QED BY <1>4, <2>1 DEF Pending
<1>8. TypeOK'
  <2>1. /\ DOMAIN lease' = Instance /\ DOMAIN old' = Instance
        /\ DOMAIN op' = Instance /\ DOMAIN seen' = Instance
    BY Zenon, <1>1
  <2>2. lease' \in [Instance -> Lease] /\ op' \in [Instance -> Op]
    BY Zenon, <1>1, <1>3, <1>4
  <2>3. seen' \in [Instance -> Observation] /\ old' \in [Instance -> 0..Duration]
    BY Zenon, <1>1, <1>5, <1>6
  <2> QED BY Zenon, <1>a, <1>1, <2>2, <2>3 DEF TypeOK
<1>9. ASSUME NEW j \in Instance, NEW t \in Times(j)', t > 0
      PROVE  t + by[j] \in Times(j) /\ t + by[j] > 0 /\ t \in Nat
  <2>1. t \in Nat
    <3>1. lease'[j].left \in 0..Duration /\ op'[j].since \in 0..Duration /\ old'[j] \in 0..Duration
      BY Zenon, <1>3, <1>4, <1>6 DEF Lease, Op
    <3> QED BY SMTT(30), <1>9, <3>1, ParamsAssumption DEF Times, Pending
  <2>2. lease[j].left \in 0..Duration /\ old[j] \in 0..Duration /\ Pending(j) \in 0..Duration
    BY Zenon, <1>a, TimesType DEF Times
  <2> QED BY <1>2, <1>3, <1>6, <1>7, <1>9, <2>1, <2>2, ParamsAssumption DEF Times
<1>10. ASSUME NEW j \in Instance PROVE Auth(j)' => Auth(j)
  BY Zenon, <1>9 DEF Auth
<1>11. Versions'
  BY <1>a, <1>1, <1>4, <1>5 DEF Versions, RecOK
<1>12. LateOK'
  BY Zenon, <1>a, <1>1, <1>10 DEF LateOK, Keeps, Takes, Frees, SameClaim
<1>13. ASSUME NEW j \in Instance PROVE LeaseOK(j)'
  <2>1. LeaseOK(j)
    BY Zenon, Each
  <2> QED BY Zenon, <1>1, <1>3, <2>1 DEF LeaseOK
<1>14. ASSUME NEW j \in Instance PROVE lease[j].left = 0 => lease'[j].left = 0
  BY SMTT(30), <1>2, <1>3 DEF Lease
<1>15. ASSUME NEW j \in Instance PROVE OpOK(j)'
  <2>1. /\ Takes(op[j].next)' <=> Takes(op[j].next)
        /\ Keeps(op[j].next)' <=> Keeps(op[j].next)
        /\ Frees(op[j].next)' <=> Frees(op[j].next)
    BY Zenon, <1>1, <1>4 DEF Takes, Keeps, Frees, SameClaim
  <2>2. OpOK(j)
    BY Zenon, Each
  <2>3. /\ op'[j].call = op[j].call /\ op'[j].step = op[j].step
        /\ op'[j].next = op[j].next /\ op'[j].got = op[j].got
        /\ op[j] = Idle => op'[j] = Idle
        /\ rec' = rec
    BY Zenon, <1>1, <1>4
  <2> QED BY Zenon, <1>14, <2>1, <2>2, <2>3 DEF OpOK
<1>16. ASSUME NEW j \in Instance PROVE OldOK(j)'
  <2>1. old'[j] > 0 => old[j] > 0
    BY <1>a, <1>2, <1>6 DEF TypeOK
  <2>2. OldOK(j)
    BY Zenon, Each
  <2> QED BY Zenon, <1>3, <1>4, <2>1, <2>2 DEF OldOK
<1>17. ASSUME NEW j \in Instance PROVE IdOK(j)'
  <2>1. lease'[j].left > 0 => lease[j].left > 0
    BY <1>a, <1>2, <1>3 DEF TypeOK, Lease
  <2>2. Pending(j)' > 0 => Pending(j) > 0
    <3>1. Pending(j) \in 0..Duration
      BY Zenon, <1>a, TimesType
    <3> QED BY <1>2, <1>7, <3>1, ParamsAssumption
  <2>3. IdOK(j)
    BY Zenon, Each
  <2> QED BY Zenon, <1>1, <1>3, <1>4, <2>1, <2>2, <2>3 DEF IdOK
<1>18. ASSUME NEW j \in Instance, Auth(j)' PROVE AuthOK(j)'
  <2>0. AuthOK(j) /\ Auth(j)
    BY Zenon, <1>10, <1>18, Each
  <2>1. /\ rec.ver > 0 => rec.holder \in {NoOne, j}
        /\ ~rec.released
        /\ \A k \in Instance : Auth(k)' => k = j
        /\ \A k \in Instance :
             op'[k].step = "put" /\ op'[k].next.ver = rec.ver => op'[k].call \in Renews
    BY Zenon, <1>4, <1>10, <2>0 DEF AuthOK
  <2>2. ASSUME NEW k \in Instance, NEW t \in Times(j)',
               seen'[k].ver = rec.ver, rec.ver > 0, t > 0
        PROVE  seen'[k].waited * Slow + t * Fast <= Duration * Fast
    <3>1. t + by[j] \in Times(j) /\ t + by[j] > 0 /\ t \in Nat
      BY Zenon, <1>9, <2>2
    <3>2. seen[k].waited * Slow + (t + by[j]) * Fast <= Duration * Fast
      BY Zenon, <1>5, <2>0, <2>2, <3>1 DEF AuthOK
    <3>3. seen[k].waited \in Nat /\ seen'[k].waited \in Nat
      BY <1>a, <1>5, WaitCovers DEF TypeOK, Observation
    <3>4. (seen[k].waited + by[k]) * Slow + ((t + by[j]) - by[j]) * Fast <= Duration * Fast
      BY <1>2, <2>2, <3>1, <3>2, <3>3, TickInStep
    <3>5. (t + by[j]) - by[j] = t
      BY <1>2, <3>1
    <3>6. seen'[k].waited * Slow <= (seen[k].waited + by[k]) * Slow
      <4>1. seen'[k].waited <= seen[k].waited + by[k]
        BY Zenon, <1>5
      <4>2. by[k] \in Nat /\ Slow \in Nat
        BY Zenon, <1>2, ParamsAssumption
      <4>3. seen[k].waited + by[k] \in Nat
        BY <3>3, <4>2
      <4> QED BY Zenon, <3>3, <4>1, <4>2, <4>3, Scaled
    <3>7. /\ seen'[k].waited * Slow \in Nat /\ (seen[k].waited + by[k]) * Slow \in Nat
          /\ t * Fast \in Nat /\ Duration * Fast \in Nat
      BY <1>2, <3>1, <3>3, ParamsAssumption
    <3> QED BY <3>4, <3>5, <3>6, <3>7
  <2> QED BY Zenon, <1>a, <1>1, <2>1, <2>2 DEF AuthOK
<1>19. \A j \in Instance : AuthOK(j)'
  BY Zenon, <1>a, <1>18 DEF AuthOK
<1> QED BY Zenon, <1>8, <1>11, <1>12, <1>13, <1>15, <1>16, <1>17, <1>19 DEF IInv

-----------------------------------------------------------------------------
(* The invariant holds at the start. *)
LEMMA InitIInv == Init => IInv
<1> SUFFICES ASSUME Init PROVE IInv
  BY Zenon
<1>1. TypeOK
  BY Values, ParamsAssumption DEF Init, TypeOK
<1>2. RecOK(Missing)
  BY DEF Init, RecOK, Missing
<1>3. ASSUME NEW i \in Instance
      PROVE  /\ seen[i].ver = 0
             /\ op[i] = Idle
             /\ op[i].call = "idle" /\ op[i].step = "get"
             /\ op[i].next.ver = 0 /\ op[i].got = Missing
             /\ lease[i] = NoLease /\ lease[i].ver = 0 /\ lease[i].inc = 0 /\ lease[i].left = 0
             /\ old[i] = 0
             /\ Pending(i) = 0
  BY Zenon DEF Init, Unseen, Idle, NoLease, Missing, Pending
<1>4. rec = Missing /\ rec.ver = 0 /\ writes = 0 /\ late = {}
  BY Zenon DEF Init, Missing
<1>5. Versions
  BY <1>2, <1>3, <1>4 DEF Versions
<1>6. LateOK
  BY Zenon, <1>4 DEF LateOK
<1>7. ASSUME NEW i \in Instance PROVE LeaseOK(i) /\ OpOK(i) /\ OldOK(i) /\ IdOK(i)
  BY <1>3, <1>4 DEF LeaseOK, OpOK, OldOK, IdOK, Renews
<1>8. ASSUME NEW i \in Instance PROVE AuthOK(i)
  BY Zenon, <1>1, <1>3, NoAuth DEF AuthOK
<1> QED BY Zenon, <1>1, <1>5, <1>6, <1>7, <1>8 DEF IInv

(* With no instance at all nothing but the store is left to hold. *)
LEMMA NextIInv == IInv /\ [Next]_vars => IInv'
<1> SUFFICES ASSUME IInv, [Next]_vars PROVE IInv'
  BY Zenon
<1>1. CASE Tick
  BY Zenon, <1>1, TickStep
<1>2. CASE Delete
  BY Zenon, <1>2, DeleteStep
<1>3. CASE StorePutLate
  <2>1. CASE Instance # {}
    BY Zenon, <1>3, <2>1, StorePutLateStep
  <2>2. CASE Instance = {}
    <3>1. PICK r \in late : Write(r)
      BY Zenon, <1>3 DEF StorePutLate
    <3>2. r \in Record /\ rec.ver > 0 /\ writes \in 0..MaxWrites
      BY Zenon DEF IInv, TypeOK, LateOK
    <3>3. r.inc > 0 /\ r.inc <= writes + 1 /\ r.epoch <= writes
      BY Zenon, <3>2, Current DEF IInv, LateOK
    <3>4. /\ rec' \in Record
          /\ writes' \in 0..MaxWrites /\ writes' = writes + 1
          /\ late' = {}
          /\ rec'.ver = writes + 1
          /\ rec'.inc = r.inc
          /\ rec'.epoch = r.epoch
      BY Zenon, <3>1, <3>2, Written
    <3>5. TypeOK'
      BY Zenon, <1>3, <3>4 DEF StorePutLate, IInv, TypeOK
    <3>6. Versions'
      BY <2>2, <3>2, <3>3, <3>4 DEF Versions, RecOK, Record
    <3>7. LateOK'
      BY Zenon, <3>4 DEF LateOK
    <3> QED BY Zenon, <2>2, <3>5, <3>6, <3>7 DEF IInv
  <2> QED BY Zenon, <2>1, <2>2
<1>4. ASSUME NEW i \in Instance,
             StoreGet(i) \/ StoreCreate(i) \/ StorePut(i)
      PROVE  IInv'
  BY Zenon, <1>4, StoreGetStep, StoreCreateStep, StorePutStep
<1>5. ASSUME NEW i \in Instance,
             Acquire(i) \/ AcquireGot(i) \/ AcquireCreated(i) \/ AcquireDone(i)
      PROVE  IInv'
  BY Zenon, <1>5, AcquireStep, AcquireGotStep, AcquireCreatedStep, AcquireDoneStep
<1>6. ASSUME NEW i \in Instance,
             Renew(i) \/ RenewConflict(i) \/ RenewGot(i) \/ RenewDone(i)
      PROVE  IInv'
  BY Zenon, <1>6, RenewStep, RenewConflictStep, RenewGotStep, RenewDoneStep
<1>7. ASSUME NEW i \in Instance,
             Release(i) \/ ReleaseGot(i) \/ Ended(i) \/ Timeout(i) \/ Crash(i)
      PROVE  IInv'
  BY Zenon, <1>7, ReleaseStep, ReleaseGotStep, EndedStep, TimeoutStep, CrashStep
<1>8. CASE UNCHANGED vars
  <2>1. UNCHANGED <<rec, writes, late, lease, op, seen, old>>
    BY Zenon, <1>8 DEF vars
  <2>2. TypeOK' /\ Versions'
    BY Zenon, <2>1 DEF IInv, TypeOK, Versions, RecOK
  <2>3. ASSUME NEW j \in Instance PROVE Auth(j)' <=> Auth(j)
    BY Zenon, <2>1 DEF Auth, Times, Pending
  <2>4. LateOK'
    BY Zenon, <2>1, <2>3 DEF IInv, LateOK, Takes, Keeps, Frees, SameClaim
  <2>5. ASSUME NEW j \in Instance
        PROVE  LeaseOK(j)' /\ OpOK(j)' /\ OldOK(j)' /\ AuthOK(j)' /\ IdOK(j)'
    <3>1. LeaseOK(j) /\ OpOK(j) /\ OldOK(j) /\ AuthOK(j) /\ IdOK(j)
      BY Zenon, Each
    <3>2. LeaseOK(j)' /\ OldOK(j)'
      BY Zenon, <2>1, <3>1 DEF LeaseOK, OldOK
    <3>3. OpOK(j)'
      BY Zenon, <2>1, <3>1 DEF OpOK, Takes, Keeps, Frees, SameClaim
    <3>4. AuthOK(j)'
      BY Zenon, <2>1, <2>3, <3>1 DEF AuthOK, Times, Pending
    <3>5. IdOK(j)'
      BY Zenon, <2>1, <3>1 DEF IdOK, Pending
    <3> QED BY Zenon, <3>2, <3>3, <3>4, <3>5
  <2> QED BY Zenon, <2>2, <2>4, <2>5 DEF IInv
<1> QED BY Zenon, <1>1, <1>2, <1>3, <1>4, <1>5, <1>6, <1>7, <1>8 DEF Next

(* The inductive invariant holds in every behaviour of the claim protocol. *)
THEOREM Invariant == Spec => []IInv
<1> QED BY InitIInv, NextIInv, PTL DEF Spec

(* The state of instances and store keeps its types: in particular a lease *)
(* never lasts longer than Duration, however late the reply that gave it.  *)
THEOREM TypeCorrect == Spec => []TypeOK
<1>1. IInv => TypeOK
  BY Zenon DEF IInv
<1> QED BY <1>1, Invariant, PTL

(* Of all the processes that ever held the claim, those that died with a   *)
(* lease included, at most one forwards at any moment: for every number of *)
(* instances, every duration, margin and drift that Params.Validate        *)
(* accepts, and every loss, delay and deletion in the store.               *)
THEOREM MutualExclusion == Spec => []OneForwarder
<1>1. ASSUME IInv PROVE OneForwarder
  <2> SUFFICES ASSUME NEW f \in Forwarders, NEW g \in Forwarders PROVE f = g
    BY Zenon DEF OneForwarder
  <2>1. ASSUME NEW h \in Forwarders
        PROVE  \E i \in Instance :
                 /\ Auth(i)
                 /\ \/ h = <<i, "lease">> /\ lease[i].left > 0
                    \/ h = <<i, "old">> /\ old[i] > 0
    BY Zenon DEF Forwarders, Valid, Auth, Times
  <2>2. PICK i \in Instance : /\ Auth(i)
                              /\ \/ f = <<i, "lease">> /\ lease[i].left > 0
                                 \/ f = <<i, "old">> /\ old[i] > 0
    BY Zenon, <2>1
  <2>3. PICK j \in Instance : /\ Auth(j)
                              /\ \/ g = <<j, "lease">> /\ lease[j].left > 0
                                 \/ g = <<j, "old">> /\ old[j] > 0
    BY Zenon, <2>1
  <2>4. i = j
    BY Zenon, <1>1, <2>2, <2>3 DEF IInv, AuthOK
  <2>5. old[i] > 0 => lease[i].left = 0
    BY SMTT(30), <1>1 DEF IInv, OldOK, NoLease
  <2> QED BY <2>2, <2>3, <2>4, <2>5
<1> QED BY <1>1, Invariant, PTL

(* Whoever forwards holds the newest claim, or the record was deleted and  *)
(* created anew and nobody has taken it yet.                               *)
THEOREM Newest == Spec => []ValidIsNewest
<1>1. ASSUME IInv PROVE ValidIsNewest
  <2>1. rec # Missing => rec.ver > 0
    BY <1>1 DEF IInv, TypeOK, Versions, RecOK, Record
  <2> QED BY Zenon, <1>1, <2>1 DEF ValidIsNewest, Valid, IInv, IdOK, SameClaim
<1> QED BY <1>1, Invariant, PTL

(* No step takes the epoch of an incarnation back, gives one epoch to a    *)
(* second holder, or takes a release back.                                 *)
THEOREM Forward == Spec => EpochsForward
<1> DEFINE A == rec # Missing /\ rec'.inc = rec.inc =>
                  /\ rec'.epoch >= rec.epoch
                  /\ rec'.epoch = rec.epoch =>
                       /\ rec'.holder = rec.holder
                       /\ rec.released => rec'.released
<1>1. ASSUME IInv, [Next]_vars PROVE [A]_rec
  <2>1. rec.epoch \in Nat /\ rec.inc \in Nat /\ (rec # Missing => rec.ver > 0 /\ rec.inc > 0)
    BY SMTT(30), <1>1 DEF IInv, TypeOK, Versions, RecOK, Record
  <2>2. ASSUME NEW r \in Record, Write(r), Takes(r) \/ Keeps(r) \/ Frees(r) PROVE A
    <3>1. rec'.epoch = r.epoch /\ rec'.holder = r.holder /\ rec'.released = r.released
      BY Zenon, <1>1, <2>2, Written DEF IInv, TypeOK
    <3> QED BY <2>1, <2>2, <3>1 DEF Takes, Keeps, Frees, SameClaim
  <2>3. CASE Delete
    BY <2>1, <2>3 DEF Delete, Missing
  <2>4. CASE StorePutLate
    <3>1. PICK r \in late : Write(r)
      BY Zenon, <2>4 DEF StorePutLate
    <3>2. r \in Record /\ (Takes(r) \/ Keeps(r) \/ Frees(r))
      BY Zenon, <1>1 DEF IInv, TypeOK, LateOK
    <3> QED BY Zenon, <2>2, <3>1, <3>2
  <2>5. ASSUME NEW i \in Instance, StoreCreate(i) PROVE [A]_rec
    BY Zenon, <2>5 DEF StoreCreate
  <2>6. ASSUME NEW i \in Instance, StorePut(i) PROVE [A]_rec
    <3>1. CASE rec.ver # op[i].next.ver
      BY Zenon, <2>6, <3>1 DEF StorePut
    <3>2. CASE rec.ver = op[i].next.ver
      <4>1. Write(op[i].next) /\ op[i].step = "put"
        BY Zenon, <2>6, <3>2 DEF StorePut
      <4>2. op[i] \in Op
        BY Zenon, <1>1 DEF IInv, TypeOK
      <4>3. op[i].call \in {"acquire", "renew", "renewAgain", "release"}
        BY SMTT(30), <1>1, <4>1, <4>2, Fields DEF IInv, OpOK, Calls, Idle
      <4>4. Takes(op[i].next) \/ Keeps(op[i].next) \/ Frees(op[i].next)
        BY Zenon, <1>1, <3>2, <4>1, <4>3 DEF IInv, OpOK, Renews
      <4> QED BY Zenon, <2>2, <4>1, <4>2, <4>4, Fields
    <3> QED BY Zenon, <3>1, <3>2
  <2>7. ASSUME NEW i \in Instance,
               \/ StoreGet(i)
               \/ Acquire(i) \/ AcquireGot(i) \/ AcquireCreated(i) \/ AcquireDone(i)
               \/ Renew(i) \/ RenewConflict(i) \/ RenewGot(i) \/ RenewDone(i)
               \/ Release(i) \/ ReleaseGot(i) \/ Ended(i) \/ Timeout(i) \/ Crash(i)
        PROVE  rec' = rec
    BY Zenon, <2>7 DEF StoreGet, Acquire, AcquireGot, AcquireCreated, AcquireDone, Renew, RenewConflict,
                RenewGot, RenewDone, Release, ReleaseGot, Ended, Timeout, Crash
  <2>8. CASE Tick \/ UNCHANGED vars
    BY Zenon, <2>8 DEF Tick, vars
  <2> QED BY Zenon, <1>1, <2>3, <2>4, <2>5, <2>6, <2>7, <2>8 DEF Next
<1> QED BY <1>1, Invariant, PTL DEF Spec, EpochsForward

=============================================================================
