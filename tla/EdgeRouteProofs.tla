-------------------------- MODULE EdgeRouteProofs ---------------------------
(***************************************************************************)
(* Of module EdgeRoute, for any number of routes, prefixes and             *)
(* attachments, and any lease duration, margin and drift.                  *)
(*                                                                         *)
(* An open gate is always at the attachment of the index's entry, and      *)
(* there is at most one entry.  An entry changes hands, or leaves, when    *)
(* nothing can open the gates of the one it names any more (Shut, Dead)    *)
(* and those that are open have run out, which a wait of the leader tells  *)
(* (RunsOut): a gate is opened from a renewal that is older than the wait. *)
(***************************************************************************)
EXTENDS EdgeRoute, FiniteSetTheorems, TLAPS

(* The holder of a claim: its lease has had the term it was claimed in. *)
Known(h, leases) ==
  \/ h = NoHolder
  \/ /\ h.epoch > 0 /\ h.att \in Attachment
     /\ h.term <= leases[h.att].term

(* Of the claims of a route, g is h or was made before it. *)
Precedes(g, h) ==
  /\ g.epoch <= h.epoch
  /\ g.epoch = h.epoch => g = h
  /\ g.att = h.att => g.term <= h.term

(* An object that is not there any more, or not yet. *)
StateInv ==
  \A r \in Route : ~Live(r) =>
    /\ rt[r] = [NewRoute EXCEPT !.state = rt[r].state]
    /\ obs[r] = Unseen
    /\ rt[r].state = "new" => idx.entry[r] = NoHolder /\ pass.r # r

(* A name is of one object. *)
NameInv == \A r, s \in Route : Live(r) /\ Live(s) /\ pfx[r] = pfx[s] => r = s

(* A route's claims: the accepted one, the one in the index, the last. *)
Ordered(o, e, leases) ==
  /\ Known(o.claim, leases) /\ Known(o.acc, leases) /\ Known(e, leases)
  /\ Precedes(o.acc, o.claim)
  /\ o.closed <= o.acc.epoch
  /\ o.state = "live" => o.claim.epoch > 0
  /\ o.state = "live" /\ e.epoch > 0 => Precedes(o.acc, e) /\ Precedes(e, o.claim)
HolderInv == \A r \in Route : Ordered(rt[r], idx.entry[r], lease)

LeaseInv == \A a \in Attachment : lease[a].held => lease[a].term \in 1..MaxTerm

(* A claim about to be committed comes after what is accepted or in the    *)
(* index.                                                                  *)
Committable(c, o, e) ==
  /\ c.epoch > e.epoch /\ (e.epoch > 0 => Precedes(e, c))
  /\ o.state = "live" => Precedes(o.acc, c) /\ o.acc.epoch < c.epoch /\ Precedes(c, o.claim)
PassInv ==
  pass # NoPass =>
    /\ idx.there /\ pass.r \in Route
    /\ Known(pass.claim, lease)
    /\ Committable(pass.claim, rt[pass.r], idx.entry[pass.r])
    /\ pass.rtSame => Live(pass.r) /\ pass.claim = rt[pass.r].claim
    /\ \A s \in Route \ {pass.r} : idx.entry[s] = NoHolder

(* The index has one entry, and what is about to be written to it differs  *)
(* by entries that leave.                                                  *)
IndexInv ==
  /\ ~idx.there => idx = NoIndex /\ ~sweep.there /\ \A r \in Route : rt[r].acc = NoHolder
  /\ \A r, s \in Route : idx.entry[r].epoch > 0 /\ idx.entry[s].epoch > 0 => r = s
  /\ \A r \in idx.removing : idx.entry[r].epoch > 0
  /\ sweep.there =>
       /\ \A r \in Route : sweep.entry[r] \in {idx.entry[r], NoHolder}
       /\ \A r \in sweep.removing : sweep.entry[r].epoch > 0
  /\ \A r \in Route :
       /\ marks[r] = NoMark \/ (marks[r].epoch > 0 /\ marks[r].epoch = idx.entry[r].epoch)
       /\ sweep.there /\ sweep.entry[r] # idx.entry[r] => marks[r] = NoMark

(* What holds of whoever claims again, and when. *)
CoreInv ==
  /\ TypeOK
  /\ StateInv /\ NameInv /\ HolderInv /\ LeaseInv /\ PassInv /\ IndexInv
  /\ ClosedIsClosed
-----------------------------------------------------------------------------
(* The accepted holder cannot open its gate any more. *)
Holds(h, leases) == leases[h.att].held /\ leases[h.att].term = h.term
Shut(o, leases) == o.closed >= o.acc.epoch \/ ~Holds(o.acc, leases)

(* No gate is opened for the entry e of a route, whatever comes. *)
Dead(o, e) ==
  \/ o.state # "live"
  \/ /\ o.acc.epoch = e
     /\ ~o.accepted \/ (o.claim.epoch = e /\ o.released) \/ o.closed >= e
  \/ /\ o.acc.epoch # e
     /\ ~(o.claim.epoch = e /\ ~o.released)
     /\ ~(o.acc.epoch > 0 /\ o.accepted /\ o.closed < o.acc.epoch)

(* A gate that is open was opened from a renewal as old as a wait. *)
RunsOut(g, waited) == Open(g) => g.age * Fast >= waited * Slow

(* Whoever may forward is in the index, and forwards as its entry says. *)
EntryInv ==
  \A r \in Route :
    /\ MayForward(r) => idx.entry[r].epoch > 0
    /\ Live(r) /\ rt[r].acc.epoch > 0 /\ idx.entry[r].epoch > 0 =>
         rt[r].acc.att = idx.entry[r].att \/ Shut(rt[r], lease)

GateInv ==
  \A a \in Attachment, p \in Prefix : Open(row[a][p]) =>
    \E r \in Route : pfx[r] = p /\ idx.entry[r].epoch > 0 /\ idx.entry[r].att = a

HandoverInv ==
  pass # NoPass =>
    /\ \A a \in Attachment, p \in Prefix : Open(row[a][p]) => a = pass.claim.att
    /\ Live(pass.r) /\ rt[pass.r].acc.epoch > 0 =>
         rt[pass.r].acc.att = pass.claim.att \/ Shut(rt[pass.r], lease)

(* What was observed of the previous holder. *)
Watched(o, prev, leases, g) ==
  /\ o.epoch >= prev.epoch
  /\ o.epoch = prev.epoch =>
       /\ prev.epoch > 0 /\ o.att = prev.att
       /\ o.ver = "gone" => ~Holds(prev, leases)
       /\ o.ver = "lease" =>
            /\ Holds(prev, leases)
            /\ leases[prev.att].age < Duration => leases[prev.att].age * Fast >= o.waited * Slow
       /\ RunsOut(g, o.waited)
ObservedInv ==
  \A r \in Route : obs[r].ver # "none" =>
    LET prev == Previous(rt[r], idx.entry[r])
    IN Watched(obs[r], prev, lease, row[prev.att][pfx[r]])

MarkInv ==
  \A r \in Route : marks[r] # NoMark =>
    /\ Dead(rt[r], idx.entry[r].epoch)
    /\ RunsOut(row[idx.entry[r].att][pfx[r]], marks[r].waited)

SweepInv ==
  sweep.there => \A r \in Route : sweep.entry[r] # idx.entry[r] =>
    /\ Dead(rt[r], idx.entry[r].epoch)
    /\ ~Open(row[idx.entry[r].att][pfx[r]])

(* What holds while nobody claims a route again before its closing is      *)
(* recorded.                                                               *)
SafeInv == EntryInv /\ GateInv /\ HandoverInv /\ ObservedInv /\ MarkInv /\ SweepInv

IInv == CoreInv /\ (~MayReclaim => SafeInv)
-----------------------------------------------------------------------------
(* Time. *)

(* What is scaled keeps its order. *)
LEMMA Scaled ==
  ASSUME NEW t \in Nat, NEW d \in Nat, NEW f \in Nat, t <= d
  PROVE  t * f <= d * f /\ t * f \in Nat
<1> DEFINE e == d - t
<1>1. e \in Nat /\ d = t + e
  OBVIOUS
<1> HIDE DEF e
<1>2. d * f = t * f + e * f /\ e * f \in Nat /\ t * f \in Nat
  BY <1>1
<1> QED
  BY <1>2

(* The takeover wait is as long as a lease on the slowest clock, but for   *)
(* what the division cuts off.                                             *)
LEMMA WaitCovers ==
  /\ TakeoverWait \in Nat
  /\ TakeoverWait * Slow + Slow > Duration * Fast
<1> DEFINE p == Duration * Fast
           q == p \div Slow
           r == p % Slow
<1>1. p \in Nat /\ Slow \in Nat /\ Slow > 0 /\ Margin \in Nat
  BY EdgeAssumption
<1>2. q \in Nat /\ r \in Nat /\ r < Slow /\ p = Slow * q + r
  BY <1>1
<1>3. TakeoverWait = q + Margin
  BY Zenon DEF TakeoverWait
<1> HIDE DEF p, q, r
<1>4. (q + Margin) * Slow = Slow * q + Margin * Slow /\ Margin * Slow \in Nat /\ Slow * q \in Nat
  BY <1>1, <1>2
<1>5. (q + Margin) * Slow + Slow > p /\ q + Margin \in Nat
  BY <1>1, <1>2, <1>4
<1> QED
  BY Zenon, <1>3, <1>5 DEF p

(* One tick keeps the wait and the gate in step: the clock that counts the *)
(* wait advances by at most Fast while the node's advances by at least     *)
(* Slow.                                                                   *)
LEMMA TickInStep ==
  ASSUME NEW w \in Nat, NEW t \in Nat, NEW a \in Nat, NEW b \in Nat,
         a <= Fast, b >= Slow, t * Fast >= w * Slow
  PROVE  (t + b) * Fast >= (w + a) * Slow
<1>1. Slow \in Nat /\ Fast \in Nat
  BY EdgeAssumption
<1>2. (w + a) * Slow = w * Slow + a * Slow
  BY <1>1
<1>3. (t + b) * Fast = t * Fast + b * Fast
  BY <1>1
<1>4. a * Slow <= Fast * Slow /\ a * Slow \in Nat
  BY Zenon, <1>1, Scaled
<1>5. Slow * Fast <= b * Fast /\ Slow * Fast \in Nat
  BY Zenon, <1>1, Scaled
<1>6. Fast * Slow = Slow * Fast
  BY <1>1
<1>7. t * Fast \in Nat /\ w * Slow \in Nat /\ b * Fast \in Nat
  BY <1>1
<1> QED
  BY <1>2, <1>3, <1>4, <1>5, <1>6, <1>7

(* After the wait a gate in step with it has run out. *)
LEMMA WaitEnds ==
  ASSUME NEW w \in Nat, NEW t \in Nat, w >= TakeoverWait, t * Fast >= w * Slow
  PROVE  t >= Duration
<1>1. Slow \in Nat /\ Fast \in Nat /\ Slow <= Fast /\ Duration \in Nat
  BY EdgeAssumption
<1>2. TakeoverWait * Slow <= w * Slow /\ TakeoverWait * Slow \in Nat
  BY Zenon, <1>1, WaitCovers, Scaled
<1>3. (t + 1) * Fast = t * Fast + Fast /\ t * Fast \in Nat /\ w * Slow \in Nat /\ Duration * Fast \in Nat
  BY <1>1
<1>4. (t + 1) * Fast > Duration * Fast
  BY <1>1, <1>2, <1>3, WaitCovers
<1>5. ASSUME t + 1 <= Duration PROVE FALSE
  <2>1. (t + 1) * Fast <= Duration * Fast
    <3>1. t + 1 \in Nat
      OBVIOUS
    <3> QED
      BY Zenon, <1>1, <1>5, <3>1, Scaled
  <2> QED
    BY <1>1, <1>3, <1>4, <2>1
<1> QED
  BY <1>1, <1>5

(* What is older than a gate in step with a wait is in step with it. *)
LEMMA OlderInStep ==
  ASSUME NEW t \in Age, NEW u \in Age, NEW w \in 0..TakeoverWait, u >= t, t * Fast >= w * Slow
  PROVE  u * Fast >= w * Slow
<1>1. t \in Nat /\ u \in Nat /\ w \in Nat /\ Fast \in Nat /\ Slow \in Nat /\ t <= u
  BY EdgeAssumption, WaitCovers DEF Age
<1>2. t * Fast <= u * Fast
  BY Zenon, <1>1, Scaled
<1>3. t * Fast \in Nat /\ u * Fast \in Nat /\ w * Slow \in Nat
  BY <1>1
<1> QED
  BY <1>2, <1>3

(* Order, for what is compared below. *)
LEMMA Compared ==
  ASSUME NEW i \in Nat, NEW j \in Nat, NEW k \in Nat
  PROVE  /\ i >= j /\ j >= k => i >= k
         /\ i >= j /\ k < j => i >= k /\ i # k
         /\ i <= j /\ j <= k /\ k = i => k = j
  OBVIOUS
-----------------------------------------------------------------------------
(* Types. *)

(* The parts of the state have their types. *)
LEMMA Parts ==
  ASSUME TypeOK
  PROVE  /\ \A r \in Route :
              /\ rt[r] \in RouteObject
              /\ pfx[r] \in Prefix
              /\ idx.entry[r] \in Holder /\ sweep.entry[r] \in Holder
              /\ obs[r] \in Observation /\ marks[r] \in Mark
         /\ \A a \in Attachment : lease[a] \in LeaseRecord /\ row[a] \in [Prefix -> Row]
         /\ \A a \in Attachment, p \in Prefix : row[a][p] \in Row
         /\ idx \in Index /\ sweep \in Index /\ pass \in Pass
<1>1. idx \in Index /\ sweep \in Index /\ pass \in Pass
  BY Zenon DEF TypeOK
<1>2. idx.entry \in [Route -> Holder] /\ sweep.entry \in [Route -> Holder]
  BY Zenon, <1>1 DEF Index
<1>3. \A r \in Route : rt[r] \in RouteObject /\ pfx[r] \in Prefix
  BY Zenon DEF TypeOK
<1>4. \A r \in Route : obs[r] \in Observation /\ marks[r] \in Mark
  BY Zenon DEF TypeOK
<1>5. \A r \in Route : idx.entry[r] \in Holder /\ sweep.entry[r] \in Holder
  BY Zenon, <1>2
<1>6. \A a \in Attachment : lease[a] \in LeaseRecord /\ row[a] \in [Prefix -> Row]
  BY Zenon DEF TypeOK
<1>7. \A a \in Attachment, p \in Prefix : row[a][p] \in Row
  BY Zenon, <1>6
<1> QED
  BY Zenon, <1>1, <1>3, <1>4, <1>5, <1>6, <1>7

(* The parts of a route. *)
LEMMA RouteParts ==
  ASSUME NEW o \in RouteObject
  PROVE  /\ o.state \in {"new", "live", "gone"} /\ o.claim \in Holder /\ o.acc \in Holder
         /\ o.released \in BOOLEAN /\ o.accepted \in BOOLEAN /\ o.closed \in Epoch
  BY Zenon DEF RouteObject

(* The parts of a holder. *)
LEMMA HolderParts ==
  ASSUME NEW h \in Holder
  PROVE  /\ h.epoch \in Epoch /\ h.att \in Attachment \cup {NoAtt} /\ h.term \in Term
         /\ h.epoch \in Nat /\ h.term \in Nat
<1>1. h.epoch \in Epoch /\ h.att \in Attachment \cup {NoAtt} /\ h.term \in Term
  BY Zenon DEF Holder
<1> QED
  BY <1>1, EdgeAssumption DEF Epoch, Term

(* The constants of the model have their types. *)
LEMMA Initials ==
  /\ NoHolder \in Holder /\ NewRoute \in RouteObject /\ NoIndex \in Index
  /\ NoLease \in LeaseRecord /\ NoRow \in Row /\ NoPass \in Pass
  /\ Unseen \in Observation /\ NoMark \in Mark
  /\ 0 \in Epoch /\ 0 \in Term /\ 0 \in Age /\ Duration \in Age /\ 0 \in 0..TakeoverWait
<1>1. /\ 0 \in Epoch /\ 0 \in Term /\ 0 \in Age /\ Duration \in Age /\ 0 \in 0..TakeoverWait
  BY EdgeAssumption, WaitCovers DEF Epoch, Term, Age
<1>2. NoHolder \in Holder
  BY Zenon, <1>1 DEF NoHolder, Holder
<1>3. NewRoute \in RouteObject
  BY Zenon, <1>1, <1>2 DEF NewRoute, RouteObject
<1>4. NoIndex \in Index
  <2>1. [r \in Route |-> NoHolder] \in [Route -> Holder]
    BY Zenon, <1>2
  <2> QED
    BY Zenon, <2>1 DEF NoIndex, Index
<1>5. NoLease \in LeaseRecord /\ NoRow \in Row /\ NoPass \in Pass
  BY Zenon, <1>1, <1>2 DEF NoLease, LeaseRecord, NoRow, Row, NoPass, Pass
<1>6. Unseen \in Observation /\ NoMark \in Mark
  BY Zenon, <1>1 DEF Unseen, Observation, NoMark, Mark
<1> QED
  BY Zenon, <1>1, <1>2, <1>3, <1>4, <1>5, <1>6

(* The parts of what is empty. *)
LEMMA Blanks ==
  /\ NoHolder.epoch = 0 /\ NoHolder.att = NoAtt /\ NoHolder.term = 0
  /\ NewRoute.state = "new" /\ NewRoute.claim = NoHolder /\ NewRoute.acc = NoHolder
  /\ NewRoute.released = FALSE /\ NewRoute.accepted = FALSE /\ NewRoute.closed = 0
  /\ NoIndex.there = FALSE /\ NoIndex.removing = {}
  /\ \A r \in Route : NoIndex.entry[r] = NoHolder
  /\ NoPass.r = NoRoute /\ NoPass.rtSame = FALSE
  /\ Unseen.ver = "none" /\ NoMark.epoch = 0 /\ NoRow.age = Duration
  /\ NoLease.held = FALSE /\ NoLease.term = 0
<1>1. NoIndex.entry = [r \in Route |-> NoHolder]
  BY Zenon DEF NoIndex
<1> QED
  BY Zenon, <1>1 DEF NoHolder, NewRoute, NoIndex, NoPass, Unseen, NoMark, NoRow, NoLease

(* A write of a route, lease or index keeps the types. *)
LEMMA WriteTypes ==
  ASSUME TypeOK
  PROVE  /\ \A r \in Route, new \in RouteObject :
              WriteRoute(r, new) => rt' \in [Route -> RouteObject] /\ pass' \in Pass
         /\ \A a \in Attachment, new \in LeaseRecord :
              WriteLease(a, new) =>
                lease' \in [Attachment -> LeaseRecord] /\ obs' \in [Route -> Observation]
         /\ \A new \in Index : WriteIndex(new) => idx' \in Index /\ pass' \in Pass /\ sweep' \in Index
<1>1. ASSUME NEW r \in Route, NEW new \in RouteObject, WriteRoute(r, new)
      PROVE  rt' \in [Route -> RouteObject] /\ pass' \in Pass
  <2>1. rt' \in [Route -> RouteObject]
    BY Zenon, <1>1 DEF WriteRoute, TypeOK
  <2>2. [pass EXCEPT !.rtSame = FALSE] \in Pass
    BY Zenon DEF Pass, TypeOK
  <2> QED
    BY Zenon, <1>1, <2>1, <2>2 DEF WriteRoute, TypeOK
<1>2. ASSUME NEW a \in Attachment, NEW new \in LeaseRecord, WriteLease(a, new)
      PROVE  lease' \in [Attachment -> LeaseRecord] /\ obs' \in [Route -> Observation]
  <2>1. lease' \in [Attachment -> LeaseRecord]
    BY Zenon, <1>2 DEF WriteLease, TypeOK
  <2>2. \A r \in Route : (IF obs[r].ver = "lease" /\ obs[r].att = a THEN Unseen ELSE obs[r]) \in Observation
    BY Zenon, Initials, Parts
  <2> QED
    BY Zenon, <1>2, <2>1, <2>2 DEF WriteLease
<1>3. ASSUME NEW new \in Index, WriteIndex(new)
      PROVE  idx' \in Index /\ pass' \in Pass /\ sweep' \in Index
  BY Zenon, <1>3, Initials DEF WriteIndex
<1> QED
  BY Zenon, <1>1, <1>2, <1>3

(* A route's claims are among all claims. *)
LEMMA ClaimsCount ==
  ASSUME TypeOK, NEW r \in Route
  PROVE  Claims \in Nat /\ rt[r].claim.epoch <= Claims
<1> DEFINE of(s) == {s} \X (1..rt[s].claim.epoch)
           all == UNION {of(s) : s \in Route}
<1>1. \A s \in Route : rt[s].claim.epoch \in 0..MaxEpoch
  BY Zenon, Parts, RouteParts, HolderParts DEF Epoch
<1>2. IsFiniteSet(Route \X (1..MaxEpoch))
  <2>1. IsFiniteSet(1..MaxEpoch)
    BY FS_Interval, EdgeAssumption
  <2> QED
    BY Zenon, <2>1, FS_Product, EdgeAssumption
<1>3. all \subseteq Route \X (1..MaxEpoch)
  <2>1. \A s \in Route : 1..rt[s].claim.epoch \subseteq 1..MaxEpoch
    BY <1>1, EdgeAssumption
  <2>2. \A s \in Route : of(s) \subseteq Route \X (1..MaxEpoch)
    BY Zenon, <2>1
  <2> QED
    BY Zenon, <2>2
<1>4. IsFiniteSet(all)
  BY Zenon, <1>2, <1>3, FS_Subset
<1>5. Cardinality(of(r)) <= Cardinality(all)
  <2>1. of(r) \subseteq all
    BY Zenon
  <2> QED
    BY Zenon, <1>4, <2>1, FS_Subset
<1>6. Cardinality(of(r)) = rt[r].claim.epoch
  <2>1. IsFiniteSet(1..rt[r].claim.epoch) /\ Cardinality(1..rt[r].claim.epoch) = rt[r].claim.epoch
    <3>1. rt[r].claim.epoch \in Nat
      BY <1>1, EdgeAssumption
    <3>2. 1 \in Int /\ rt[r].claim.epoch \in Int
      BY <3>1
    <3>3. /\ IsFiniteSet(1..rt[r].claim.epoch)
          /\ Cardinality(1..rt[r].claim.epoch)
               = IF 1 > rt[r].claim.epoch THEN 0 ELSE rt[r].claim.epoch - 1 + 1
      BY Zenon, <3>2, FS_Interval
    <3> QED
      BY <3>1, <3>3
  <2>2. IsFiniteSet({r}) /\ Cardinality({r}) = 1
    BY Zenon, FS_Singleton
  <2>3. Cardinality({r} \X (1..rt[r].claim.epoch)) = Cardinality({r}) * Cardinality(1..rt[r].claim.epoch)
    BY Zenon, <2>1, <2>2, FS_Product
  <2>4. Cardinality(of(r)) = 1 * rt[r].claim.epoch
    BY Zenon, <2>1, <2>2, <2>3
  <2> QED
    BY <1>1, <2>4, EdgeAssumption
<1>7. Cardinality(all) \in Nat
  BY Zenon, <1>4, FS_CardinalityType
<1>8. Claims = Cardinality(all)
  BY Zenon DEF Claims
<1> QED
  BY Zenon, <1>5, <1>6, <1>7, <1>8

(* Time passing keeps ages and waits in their ranges. *)
LEMMA Aging ==
  ASSUME NEW by \in Slow..Fast
  PROVE  /\ \A x \in LeaseRecord :
              /\ Older(x, by) \in LeaseRecord /\ Older(x, by).term = x.term
              /\ Older(x, by).held = x.held /\ Older(x, by).age = AtMost(x.age + by, Duration)
         /\ \A x \in Row :
              /\ Older(x, by) \in Row /\ Older(x, by).epoch = x.epoch
              /\ Older(x, by).age = AtMost(x.age + by, Duration)
         /\ \A x \in Observation :
              /\ Longer(x, by) \in Observation /\ Longer(x, by).ver = x.ver
              /\ Longer(x, by).att = x.att /\ Longer(x, by).epoch = x.epoch
              /\ Longer(x, by).waited = AtMost(x.waited + by, TakeoverWait)
         /\ \A x \in Mark :
              /\ Longer(x, by) \in Mark /\ Longer(x, by).epoch = x.epoch
              /\ Longer(x, by).waited = AtMost(x.waited + by, TakeoverWait)
<1>1. ASSUME NEW n \in Nat, NEW t \in 0..n PROVE AtMost(t + by, n) \in 0..n
  BY EdgeAssumption DEF AtMost
<1>2. Duration \in Nat /\ TakeoverWait \in Nat
  BY WaitCovers, EdgeAssumption
<1>3. ASSUME NEW t \in Age PROVE AtMost(t + by, Duration) \in Age
  BY Zenon, <1>1, <1>2 DEF Age
<1>4. ASSUME NEW t \in 0..TakeoverWait PROVE AtMost(t + by, TakeoverWait) \in 0..TakeoverWait
  BY Zenon, <1>1, <1>2
<1>5. ASSUME NEW x \in LeaseRecord
      PROVE  /\ Older(x, by) \in LeaseRecord /\ Older(x, by).term = x.term
             /\ Older(x, by).held = x.held /\ Older(x, by).age = AtMost(x.age + by, Duration)
  BY Zenon, <1>3 DEF Older, LeaseRecord
<1>6. ASSUME NEW x \in Row
      PROVE  /\ Older(x, by) \in Row /\ Older(x, by).epoch = x.epoch
             /\ Older(x, by).age = AtMost(x.age + by, Duration)
  BY Zenon, <1>3 DEF Older, Row
<1>7. ASSUME NEW x \in Observation
      PROVE  /\ Longer(x, by) \in Observation /\ Longer(x, by).ver = x.ver
             /\ Longer(x, by).att = x.att /\ Longer(x, by).epoch = x.epoch
             /\ Longer(x, by).waited = AtMost(x.waited + by, TakeoverWait)
  BY Zenon, <1>4 DEF Longer, Observation
<1>8. ASSUME NEW x \in Mark
      PROVE  /\ Longer(x, by) \in Mark /\ Longer(x, by).epoch = x.epoch
             /\ Longer(x, by).waited = AtMost(x.waited + by, TakeoverWait)
  BY Zenon, <1>4 DEF Longer, Mark
<1> QED
  BY Zenon, <1>5, <1>6, <1>7, <1>8

(* A tick keeps the types. *)
LEMMA TickTypes == ASSUME TypeOK, Tick PROVE TypeOK'
<1>1. PICK by \in [Attachment -> Slow..Fast], lby \in Slow..Fast :
        /\ lease' = [a \in Attachment |->
             IF lease[a].held THEN Older(lease[a], by[a]) ELSE lease[a]]
        /\ row' = [a \in Attachment |-> [p \in Prefix |-> Older(row[a][p], by[a])]]
        /\ obs' = [r \in Route |-> IF obs[r] = Unseen THEN Unseen ELSE Longer(obs[r], lby)]
        /\ marks' = [r \in Route |-> IF marks[r] = NoMark THEN NoMark ELSE Longer(marks[r], lby)]
        /\ quiet' = IF quiet = NoMark THEN NoMark ELSE Longer(quiet, lby)
        /\ UNCHANGED <<pfx, rt, idx, pass, sweep>>
  BY Zenon DEF Tick
<1>2. \A a \in Attachment : by[a] \in Slow..Fast
  BY Zenon
<1>3. lease' \in [Attachment -> LeaseRecord]
  <2>1. \A a \in Attachment : (IF lease[a].held THEN Older(lease[a], by[a]) ELSE lease[a]) \in LeaseRecord
    BY Zenon, <1>2, Aging, Parts
  <2> QED
    BY Zenon, <1>1, <2>1
<1>4. row' \in [Attachment -> [Prefix -> Row]]
  <2>1. \A a \in Attachment, p \in Prefix : Older(row[a][p], by[a]) \in Row
    BY Zenon, <1>2, Aging, Parts
  <2>2. \A a \in Attachment : [p \in Prefix |-> Older(row[a][p], by[a])] \in [Prefix -> Row]
    BY Zenon, <2>1
  <2> QED
    BY Zenon, <1>1, <2>2
<1>5. obs' \in [Route -> Observation]
  <2>1. \A r \in Route : (IF obs[r] = Unseen THEN Unseen ELSE Longer(obs[r], lby)) \in Observation
    BY Zenon, Aging, Parts, Initials
  <2> QED
    BY Zenon, <1>1, <2>1
<1>6. marks' \in [Route -> Mark] /\ quiet' \in Mark
  <2>1. \A r \in Route : (IF marks[r] = NoMark THEN NoMark ELSE Longer(marks[r], lby)) \in Mark
    BY Zenon, Aging, Parts, Initials
  <2>2. (IF quiet = NoMark THEN NoMark ELSE Longer(quiet, lby)) \in Mark
    BY Zenon, Aging, Initials DEF TypeOK
  <2> QED
    BY Zenon, <1>1, <2>1, <2>2
<1> QED
  BY Zenon, <1>1, <1>3, <1>4, <1>5, <1>6 DEF TypeOK

(* What a step writes to a route is a route. *)
LEMMA NewObjects ==
  ASSUME TypeOK, NEW r \in Route
  PROVE  /\ \A h \in Holder : Accepted(r, h) \in RouteObject
         /\ [rt[r] EXCEPT !.released = TRUE] \in RouteObject
         /\ [rt[r] EXCEPT !.accepted = FALSE] \in RouteObject
         /\ \A e \in Epoch : [rt[r] EXCEPT !.closed = e] \in RouteObject
         /\ [NewRoute EXCEPT !.state = "gone"] \in RouteObject
<1>1. rt[r] \in RouteObject
  BY Zenon, Parts
<1>2. ASSUME NEW h \in Holder PROVE Accepted(r, h) \in RouteObject
  BY Zenon, <1>1 DEF Accepted, RouteObject
<1>3. [rt[r] EXCEPT !.released = TRUE] \in RouteObject /\ [rt[r] EXCEPT !.accepted = FALSE] \in RouteObject
  BY Zenon, <1>1 DEF RouteObject
<1>4. ASSUME NEW e \in Epoch PROVE [rt[r] EXCEPT !.closed = e] \in RouteObject
  BY Zenon, <1>1 DEF RouteObject
<1>5. [NewRoute EXCEPT !.state = "gone"] \in RouteObject
  BY Zenon, Initials DEF RouteObject
<1> QED
  BY Zenon, <1>2, <1>3, <1>4, <1>5

(* The route as Claim writes it. *)
Claimed(a, r) ==
  [rt[r] EXCEPT !.state = "live", !.released = FALSE,
     !.claim = [epoch |-> rt[r].claim.epoch + 1, att |-> a, term |-> lease[a].term]]

(* It is a route: the epoch of the claim is one that is left. *)
LEMMA ClaimedType ==
  ASSUME TypeOK, NEW a \in Attachment, NEW r \in Route, Claim(a, r)
  PROVE  Claimed(a, r) \in RouteObject /\ WriteRoute(r, Claimed(a, r))
<1>1. rt[r] \in RouteObject /\ lease[a].term \in Term
  BY Zenon, Parts DEF LeaseRecord
<1>2. rt[r].claim.epoch \in Nat
  BY Zenon, <1>1, RouteParts, HolderParts
<1>3. Claims \in Nat /\ Claims < MaxEpoch /\ rt[r].claim.epoch <= Claims
  BY Zenon, ClaimsCount DEF Claim
<1>4. rt[r].claim.epoch + 1 \in Epoch
  BY <1>2, <1>3, EdgeAssumption DEF Epoch
<1>5. [epoch |-> rt[r].claim.epoch + 1, att |-> a, term |-> lease[a].term] \in Holder
  BY Zenon, <1>1, <1>4 DEF Holder
<1>6. Claimed(a, r) \in RouteObject
  BY Zenon, <1>1, <1>5 DEF Claimed, RouteObject
<1> QED
  BY Zenon, <1>6 DEF Claim, Claimed

(* Steps that write a route keep the types. *)
LEMMA RouteTypes ==
  ASSUME TypeOK, NEW a, NEW r \in Route,
         (a \in Attachment /\ Claim(a, r)) \/ Release(a, r) \/ DeleteRoute(r) \/ Revoke(r) \/ Status(r)
  PROVE  TypeOK'
<1>1. PICK new \in RouteObject : WriteRoute(r, new)
  <2>1. CASE a \in Attachment /\ Claim(a, r)
    BY Zenon, <2>1, ClaimedType
  <2>2. CASE Release(a, r)
    BY Zenon, <2>2, NewObjects DEF Release
  <2>3. CASE DeleteRoute(r)
    BY Zenon, <2>3, NewObjects DEF DeleteRoute
  <2>4. CASE Revoke(r)
    BY Zenon, <2>4, NewObjects DEF Revoke
  <2>5. CASE Status(r)
    <3>1. rt[r].claim \in Holder
      BY Zenon, Parts, RouteParts
    <3> QED
      BY Zenon, <2>5, <3>1, NewObjects DEF Status
  <2> QED
    BY Zenon, <2>1, <2>2, <2>3, <2>4, <2>5
<1>2. rt' \in [Route -> RouteObject] /\ pass' \in Pass
  BY Zenon, <1>1, WriteTypes
<1>3. obs' \in [Route -> Observation]
  BY Zenon, Initials DEF TypeOK, Claim, Release, DeleteRoute, Revoke, Status
<1>4. UNCHANGED pfx /\ UNCHANGED idx /\ UNCHANGED lease /\ UNCHANGED row /\ UNCHANGED sweep
      /\ UNCHANGED marks /\ UNCHANGED quiet
  BY Zenon DEF Claim, Release, DeleteRoute, Revoke, Status, indexer
<1> QED
  BY Zenon, <1>2, <1>3, <1>4 DEF TypeOK

(* Steps of the agent keep the types. *)
LEMMA GateTypes ==
  ASSUME TypeOK, NEW a \in Attachment, NEW r, NEW p,
         \/ r \in Route /\ (GateRemove(a, r) \/ GateClose(a, r) \/ GateOpen(a, r))
         \/ p \in Prefix /\ SweepGates(a, p)
  PROVE  TypeOK'
<1>1. r \in Route => rt[r].acc.epoch \in Epoch /\ pfx[r] \in Prefix
  BY Zenon, Parts, RouteParts, HolderParts
<1>2. ASSUME NEW g \in Row, NEW q \in Prefix, row' = [row EXCEPT ![a] = [@ EXCEPT ![q] = g]]
      PROVE  row' \in [Attachment -> [Prefix -> Row]]
  <2>1. row[a] \in [Prefix -> Row] /\ row \in [Attachment -> [Prefix -> Row]]
    BY Zenon, Parts DEF TypeOK
  <2>2. [row[a] EXCEPT ![q] = g] \in [Prefix -> Row]
    BY Zenon, <2>1
  <2>3. row' = [row EXCEPT ![a] = [row[a] EXCEPT ![q] = g]]
    BY Zenon, <1>2
  <2> QED
    BY Zenon, <2>1, <2>2, <2>3
<1>3. row' \in [Attachment -> [Prefix -> Row]]
  <2>1. CASE r \in Route /\ GateRemove(a, r)
    BY Zenon, <1>1, <1>2, <2>1, Initials DEF GateRemove, SetRow
  <2>2. CASE r \in Route /\ GateClose(a, r)
    <3>1. ClosedRow(row[a][pfx[r]], rt[r].acc.epoch) \in Row
      BY Zenon, <1>1, <2>2, Initials DEF ClosedRow, Row
    <3> QED
      BY Zenon, <1>1, <1>2, <2>2, <3>1 DEF GateClose, SetRow
  <2>3. CASE r \in Route /\ GateOpen(a, r)
    <3>1. PICK age \in lease[a].age..(Duration - 1) :
            SetRow(a, r, [epoch |-> rt[r].acc.epoch, age |-> age])
      BY Zenon, <2>3 DEF GateOpen
    <3>2. lease[a].age \in Age
      BY Zenon, Parts DEF LeaseRecord
    <3>3. age \in Age
      BY <3>2, EdgeAssumption DEF Age
    <3>4. [epoch |-> rt[r].acc.epoch, age |-> age] \in Row
      BY Zenon, <1>1, <2>3, <3>3 DEF Row
    <3> QED
      BY Zenon, <1>1, <1>2, <2>3, <3>1, <3>4 DEF SetRow
  <2>4. CASE p \in Prefix /\ SweepGates(a, p)
    BY Zenon, <1>2, <2>4, Initials DEF SweepGates
  <2> QED
    BY Zenon, <2>1, <2>2, <2>3, <2>4
<1>4. rt' \in [Route -> RouteObject] /\ pass' \in Pass
  <2>1. CASE r \in Route /\ GateClose(a, r)
    <3>1. [rt[r] EXCEPT !.closed = rt[r].acc.epoch] \in RouteObject
      BY Zenon, <1>1, <2>1, NewObjects
    <3> QED
      BY Zenon, <2>1, <3>1, WriteTypes DEF GateClose, RecordClosed, TypeOK
  <2> QED
    BY Zenon, <2>1 DEF GateRemove, GateOpen, SweepGates, TypeOK
<1>5. UNCHANGED pfx /\ UNCHANGED idx /\ UNCHANGED lease /\ UNCHANGED obs /\ UNCHANGED sweep
      /\ UNCHANGED marks /\ UNCHANGED quiet
  BY Zenon DEF GateRemove, GateClose, GateOpen, SweepGates, indexer
<1> QED
  BY Zenon, <1>3, <1>4, <1>5 DEF TypeOK

(* The holder a claim is fenced from is one whose lease is known. *)
LEMMA PreviousFacts ==
  ASSUME TypeOK, HolderInv, NEW r \in Route
  PROVE  /\ Previous(rt[r], idx.entry[r]) \in Holder
         /\ Known(Previous(rt[r], idx.entry[r]), lease)
         /\ Previous(rt[r], idx.entry[r]) \in {rt[r].acc, idx.entry[r]}
         /\ Previous(rt[r], idx.entry[r]).epoch >= rt[r].acc.epoch
         /\ Previous(rt[r], idx.entry[r]).epoch >= idx.entry[r].epoch
<1>1. rt[r].acc \in Holder /\ idx.entry[r] \in Holder
  BY Zenon, Parts, RouteParts
<1>2. rt[r].acc.epoch \in Nat /\ idx.entry[r].epoch \in Nat
  BY Zenon, <1>1, HolderParts
<1>3. Known(rt[r].acc, lease) /\ Known(idx.entry[r], lease)
  BY Zenon DEF HolderInv, Ordered
<1>4. CASE idx.entry[r].epoch > rt[r].acc.epoch
  <2>1. Previous(rt[r], idx.entry[r]) = idx.entry[r]
    BY Zenon, <1>4 DEF Previous
  <2>2. idx.entry[r].epoch >= rt[r].acc.epoch /\ idx.entry[r].epoch >= idx.entry[r].epoch
    BY <1>2, <1>4
  <2> QED
    BY Zenon, <1>1, <1>3, <2>1, <2>2
<1>5. CASE ~(idx.entry[r].epoch > rt[r].acc.epoch)
  <2>1. Previous(rt[r], idx.entry[r]) = rt[r].acc
    BY Zenon, <1>5 DEF Previous
  <2>2. rt[r].acc.epoch >= rt[r].acc.epoch /\ rt[r].acc.epoch >= idx.entry[r].epoch
    BY <1>2, <1>5
  <2> QED
    BY Zenon, <1>1, <1>3, <2>1, <2>2
<1> QED
  BY Zenon, <1>4, <1>5

(* A write of a lease: terms go forward, and one that ended stays ended. *)
Renewed(a, new) ==
  /\ new \in LeaseRecord
  /\ WriteLease(a, new)
  /\ new.term >= lease[a].term
  /\ new.held => new.term \in 1..MaxTerm
  /\ new.held /\ new.term = lease[a].term => lease[a].held

(* Providers write leases this way. *)
LEMMA ProviderWrites ==
  ASSUME TypeOK, LeaseInv, NEW a \in Attachment, LeaseWrite(a) \/ LeaseEnd(a)
  PROVE  \E new : Renewed(a, new)
<1>1. lease[a].term \in Term /\ lease[a].term \in Nat
  <2>1. lease[a].term \in Term
    BY Zenon, Parts DEF LeaseRecord
  <2> QED
    BY <2>1, EdgeAssumption DEF Term
<1>2. CASE LeaseWrite(a)
  <2>1. PICK term \in {lease[a].term, lease[a].term + 1} \cap (1..MaxTerm), age \in Age :
          /\ term = lease[a].term => lease[a].held
          /\ WriteLease(a, [term |-> term, held |-> TRUE, age |-> age])
    BY Zenon, <1>2 DEF LeaseWrite
  <2> DEFINE new == [term |-> term, held |-> TRUE, age |-> age]
  <2>2. new.term = term /\ new.held = TRUE
    BY Zenon
  <2>3. term \in Term /\ term \in 1..MaxTerm /\ term >= lease[a].term
    BY <1>1, EdgeAssumption DEF Term
  <2>4. new \in LeaseRecord
    BY Zenon, <2>3 DEF LeaseRecord
  <2>5. Renewed(a, new)
    BY Zenon, <2>1, <2>2, <2>3, <2>4 DEF Renewed
  <2> QED
    BY Zenon, <2>5
<1>3. CASE LeaseEnd(a)
  <2> DEFINE new == [term |-> lease[a].term, held |-> FALSE, age |-> 0]
  <2>1. new.term = lease[a].term /\ new.held = FALSE
    BY Zenon
  <2>2. lease[a].term >= lease[a].term
    BY <1>1
  <2>3. new \in LeaseRecord
    BY Zenon, <1>1, Initials DEF LeaseRecord
  <2>4. Renewed(a, new)
    BY Zenon, <1>3, <2>1, <2>2, <2>3 DEF Renewed, LeaseEnd
  <2> QED
    BY Zenon, <2>4
<1> QED
  BY Zenon, <1>2, <1>3

(* Acceptance leaves the leases alone, or fences the one it waited for. *)
LEMMA AcceptWrites ==
  ASSUME TypeOK, LeaseInv, HolderInv, NEW r \in Route, Accept(r)
  PROVE  LET prev == Previous(rt[r], idx.entry[r]) IN
         \/ UNCHANGED <<lease, obs>> /\ (Fenced(rt[r], prev) \/ (WaitOver(r, prev) /\ ~LeaseHeld(prev)))
         \/ /\ ~Fenced(rt[r], prev) /\ WaitOver(r, prev)
            /\ prev.att \in Attachment
            /\ \E new : Renewed(prev.att, new) /\ ~new.held
<1> DEFINE prev == Previous(rt[r], idx.entry[r])
<1>1. prev \in Holder /\ Known(prev, lease)
  BY Zenon, PreviousFacts
<1> HIDE DEF prev
<1>2. LeaseVersion(prev) = IF LeaseHeld(prev) THEN "lease" ELSE "gone"
  BY Zenon DEF LeaseVersion
<1>3. CASE UNCHANGED <<lease, obs>> /\ Fenced(rt[r], prev)
  BY Zenon, <1>3 DEF prev
<1>4. CASE UNCHANGED <<lease, obs>> /\ WaitOver(r, prev) /\ LeaseVersion(prev) = "gone"
  BY Zenon, <1>2, <1>4 DEF prev
<1>5. CASE ~Fenced(rt[r], prev) /\ WaitOver(r, prev) /\ LeaseVersion(prev) = "lease" /\ Fence(prev.att)
  <2>1. LeaseHeld(prev)
    BY Zenon, <1>2, <1>5
  <2>2. prev.att \in Attachment
    BY Zenon, <1>1, <1>5, Blanks DEF Known, Fenced
  <2>3. lease[prev.att].held /\ lease[prev.att].term \in 1..MaxTerm
    BY Zenon, <2>1, <2>2 DEF LeaseHeld, LeaseInv
  <2> DEFINE new == [term |-> lease[prev.att].term + 1, held |-> FALSE, age |-> 0]
  <2>4. new.term = lease[prev.att].term + 1 /\ new.held = FALSE
    BY Zenon
  <2>5. lease[prev.att].term + 1 \in Term /\ lease[prev.att].term + 1 >= lease[prev.att].term
    BY <2>3, EdgeAssumption DEF Term
  <2>6. new \in LeaseRecord
    BY Zenon, <2>5, Initials DEF LeaseRecord
  <2>7. Renewed(prev.att, new) /\ ~new.held
    BY Zenon, <1>5, <2>4, <2>5, <2>6 DEF Renewed, Fence
  <2> QED
    BY Zenon, <1>5, <2>2, <2>7 DEF prev
<1> QED
  BY Zenon, <1>3, <1>4, <1>5 DEF Accept, prev

(* The index is created before anything was accepted, so empty. *)
LEMMA CreatedEmpty ==
  ASSUME TypeOK, IndexInv, NEW r \in Route, CreateIndex(r)
  PROVE  /\ idx' \in Index /\ idx'.there = TRUE /\ idx'.removing = {}
         /\ \A s \in Route : idx'.entry[s] = NoHolder
         /\ WriteIndex(idx')
<1> DEFINE held == {s \in Route : Live(s) /\ rt[s].acc.epoch > 0}
           only(S) == [there |-> TRUE, rebuilt |-> TRUE,
                       entry |-> [s \in Route |-> IF s \in S THEN rt[s].acc ELSE NoHolder],
                       removing |-> {s \in S : ~rt[s].accepted}]
<1>1. \A s \in Route : rt[s].acc.epoch = 0
  BY Zenon, Blanks DEF CreateIndex, IndexInv
<1>2. held = {}
  BY <1>1
<1>3. Rebuilt = {only({})}
  BY Zenon, <1>2 DEF Rebuilt
<1>4. WriteIndex(only({}))
  <2>1. \E new \in Rebuilt : WriteIndex(new)
    BY Zenon DEF CreateIndex
  <2> QED
    BY Zenon, <1>3, <2>1
<1>5. idx' = only({})
  BY Zenon, <1>4 DEF WriteIndex
<1>6. only({}).entry = [s \in Route |-> IF s \in {} THEN rt[s].acc ELSE NoHolder]
  BY Zenon
<1>7. \A s \in Route : only({}).entry[s] = NoHolder
  BY Zenon, <1>6
<1>8. only({}).removing = {} /\ only({}).there = TRUE
  <2>1. {s \in {} : ~rt[s].accepted} = {}
    BY Zenon
  <2> QED
    BY Zenon, <2>1
<1>9. only({}) \in Index
  <2>1. [s \in Route |-> IF s \in {} THEN rt[s].acc ELSE NoHolder] \in [Route -> Holder]
    BY Zenon, Initials
  <2>2. {s \in {} : ~rt[s].accepted} \in SUBSET Route
    BY Zenon
  <2> QED
    BY Zenon, <2>1, <2>2 DEF Index
<1> HIDE DEF only
<1> QED
  BY Zenon, <1>4, <1>5, <1>7, <1>8, <1>9

(* The parts of SweepRead. *)
Removed == {r \in Route : idx.entry[r].epoch > 0 /\ Removal(r)}
Out == {r \in Removed : Leaves(r)}
Noticed == {r \in (Removed \cap idx.removing) \ Out : ~MarkedFor(r)}
Swept ==
  [there |-> TRUE,
   rebuilt |-> idx.rebuilt /\ ~(quiet.epoch = 1 /\ quiet.waited >= TakeoverWait),
   entry |-> [r \in Route |-> IF r \in Out THEN NoHolder ELSE idx.entry[r]],
   removing |-> (idx.removing \cup Removed) \ Out]

(* What SweepRead notes and plans. *)
LEMMA SweepFacts ==
  ASSUME TypeOK, SweepRead
  PROVE  /\ ~sweep.there /\ idx.there
         /\ \A r \in Route :
              marks'[r] = IF r \in Out THEN NoMark
                          ELSE IF r \in Noticed THEN [epoch |-> idx.entry[r].epoch, waited |-> 0]
                          ELSE marks[r]
         /\ sweep' \in {NoIndex, Swept}
         /\ Swept.there = TRUE /\ Swept.removing = (idx.removing \cup Removed) \ Out
         /\ \A r \in Route : Swept.entry[r] = IF r \in Out THEN NoHolder ELSE idx.entry[r]
         /\ UNCHANGED pfx /\ UNCHANGED rt /\ UNCHANGED idx /\ UNCHANGED lease /\ UNCHANGED row
         /\ UNCHANGED pass /\ UNCHANGED obs
<1>1. /\ marks' = [r \in Route |->
           IF r \in Out THEN NoMark
           ELSE IF r \in Noticed THEN [epoch |-> idx.entry[r].epoch, waited |-> 0]
           ELSE marks[r]]
      /\ sweep' = IF Swept = idx THEN NoIndex ELSE Swept
      /\ ~sweep.there /\ idx.there
      /\ UNCHANGED <<pfx, rt, idx, lease, row, pass, obs>>
  BY Zenon DEF SweepRead, Swept, Removed, Out, Noticed
<1>2. /\ Swept.entry = [r \in Route |-> IF r \in Out THEN NoHolder ELSE idx.entry[r]]
      /\ Swept.there = TRUE /\ Swept.removing = (idx.removing \cup Removed) \ Out
  BY Zenon DEF Swept
<1>3. sweep' \in {NoIndex, Swept}
  BY Zenon, <1>1
<1> QED
  BY Zenon, <1>1, <1>2, <1>3

(* Steps of the index reconciler keep the types. *)
LEMMA SweepTypes ==
  ASSUME TypeOK, SweepRead \/ SweepWrite \/ LeaderChange
  PROVE  TypeOK'
<1>1. CASE SweepRead
  <2>1. Out \subseteq Route /\ Removed \subseteq Route /\ idx.removing \subseteq Route
        /\ idx.rebuilt \in BOOLEAN
    BY Zenon DEF Out, Removed, TypeOK, Index
  <2>2. Swept \in Index
    <3>1. [r \in Route |-> IF r \in Out THEN NoHolder ELSE idx.entry[r]] \in [Route -> Holder]
      BY Zenon, Parts, Initials
    <3>2. (idx.removing \cup Removed) \ Out \in SUBSET Route
      BY Zenon, <2>1
    <3>3. (idx.rebuilt /\ ~(quiet.epoch = 1 /\ quiet.waited >= TakeoverWait)) \in BOOLEAN
      BY Zenon
    <3> QED
      BY Zenon, <3>1, <3>2, <3>3 DEF Swept, Index
  <2>3. sweep' \in Index
    BY Zenon, <1>1, <2>2, SweepFacts, Initials
  <2>4. \A r \in Route :
          (IF r \in Out THEN NoMark
           ELSE IF r \in Noticed THEN [epoch |-> idx.entry[r].epoch, waited |-> 0]
           ELSE marks[r]) \in Mark
    <3>1. \A r \in Route : [epoch |-> idx.entry[r].epoch, waited |-> 0] \in Mark
      BY Zenon, Parts, HolderParts, Initials DEF Mark
    <3> QED
      BY Zenon, <3>1, Parts, Initials
  <2>5. marks' = [r \in Route |->
           IF r \in Out THEN NoMark
           ELSE IF r \in Noticed THEN [epoch |-> idx.entry[r].epoch, waited |-> 0]
           ELSE marks[r]]
    BY Zenon, <1>1 DEF SweepRead, Removed, Out, Noticed
  <2>6. marks' \in [Route -> Mark]
    BY Zenon, <2>4, <2>5
  <2>7. quiet' \in Mark
    <3>1. 1 \in Epoch
      BY EdgeAssumption DEF Epoch
    <3>2. [epoch |-> 1, waited |-> 0] \in Mark
      BY Zenon, <3>1, Initials DEF Mark
    <3> QED
      BY Zenon, <1>1, <3>2 DEF SweepRead, TypeOK
  <2> QED
    BY Zenon, <1>1, <2>3, <2>6, <2>7, SweepFacts DEF TypeOK
<1>2. CASE SweepWrite
  <2>1. WriteIndex(sweep) /\ sweep \in Index
    BY Zenon, <1>2 DEF SweepWrite, TypeOK
  <2>2. idx' \in Index /\ pass' \in Pass /\ sweep' \in Index
    BY Zenon, <2>1, WriteTypes
  <2> QED
    BY Zenon, <1>2, <2>2 DEF SweepWrite, TypeOK
<1>3. CASE LeaderChange
  <2>1. obs' \in [Route -> Observation] /\ marks' \in [Route -> Mark] /\ quiet' \in Mark
        /\ sweep' \in Index
    BY Zenon, <1>3, Initials DEF LeaderChange, TypeOK
  <2> QED
    BY Zenon, <1>3, <2>1 DEF LeaderChange, TypeOK
<1> QED
  BY Zenon, <1>1, <1>2, <1>3

(* What Commit writes to the index. *)
LEMMA CommitFacts ==
  ASSUME TypeOK, PassInv, Commit
  PROVE  /\ pass.r \in Route /\ pass.claim \in Holder
         /\ WriteIndex(idx') /\ idx' \in Index /\ idx'.there = idx.there
         /\ idx'.entry[pass.r] = pass.claim
         /\ \A s \in Route \ {pass.r} : idx'.entry[s] = idx.entry[s]
         /\ idx'.removing = idx.removing \ {pass.r}
<1> DEFINE new == [idx EXCEPT !.entry = [@ EXCEPT ![pass.r] = pass.claim],
                              !.removing = @ \ {pass.r}]
<1>1. pass.r \in Route /\ pass.claim \in Holder
  BY Zenon DEF Commit, PassInv, TypeOK, Pass
<1>2. idx \in Index /\ idx.entry \in [Route -> Holder]
  BY Zenon DEF TypeOK, Index
<1>3. WriteIndex(new)
  BY Zenon DEF Commit
<1>4. idx' = new
  BY Zenon, <1>3 DEF WriteIndex
<1>5. /\ new.entry = [idx.entry EXCEPT ![pass.r] = pass.claim]
      /\ new.removing = idx.removing \ {pass.r} /\ new.there = idx.there /\ new.rebuilt = idx.rebuilt
  BY Zenon, <1>2 DEF Index
<1>6. new \in Index
  <2>1. [idx.entry EXCEPT ![pass.r] = pass.claim] \in [Route -> Holder]
    BY Zenon, <1>1, <1>2
  <2>2. idx.removing \ {pass.r} \in SUBSET Route
    BY Zenon, <1>2 DEF Index
  <2> QED
    BY Zenon, <1>2, <2>1, <2>2 DEF Index
<1>7. new.entry[pass.r] = pass.claim /\ \A s \in Route \ {pass.r} : new.entry[s] = idx.entry[s]
  BY Zenon, <1>1, <1>2, <1>5
<1> HIDE DEF new
<1> QED
  BY Zenon, <1>1, <1>3, <1>4, <1>5, <1>6, <1>7

(* Steps of the route reconciler keep the types. *)
LEMMA LeaderTypes ==
  ASSUME TypeOK, LeaseInv, HolderInv, PassInv, IndexInv, NEW r \in Route,
         CreateIndex(r) \/ Observe(r) \/ Accept(r) \/ Commit \/ PassFails
  PROVE  TypeOK'
<1>1. CASE CreateIndex(r)
  <2>1. idx' \in Index /\ pass' \in Pass /\ sweep' \in Index
    BY Zenon, <1>1, CreatedEmpty, WriteTypes
  <2>2. marks' \in [Route -> Mark] /\ quiet' \in Mark
    BY Zenon, <1>1, Initials DEF CreateIndex
  <2> QED
    BY Zenon, <1>1, <2>1, <2>2 DEF CreateIndex, TypeOK
<1>2. CASE Observe(r)
  <2> DEFINE prev == Previous(rt[r], idx.entry[r])
             o == [ver |-> LeaseVersion(prev), att |-> prev.att, epoch |-> prev.epoch, waited |-> 0]
  <2>1. prev \in Holder
    BY Zenon, PreviousFacts
  <2>2. LeaseVersion(prev) \in {"none", "lease", "gone"}
    BY Zenon DEF LeaseVersion
  <2>3. o \in Observation
    BY Zenon, <2>1, <2>2, HolderParts, Initials DEF Observation
  <2>4. obs' = [obs EXCEPT ![r] = o]
    BY Zenon, <1>2 DEF Observe
  <2>5. obs' \in [Route -> Observation]
    BY Zenon, <2>3, <2>4 DEF TypeOK
  <2> QED
    BY Zenon, <1>2, <2>5 DEF Observe, indexer, TypeOK
<1>3. CASE Accept(r)
  <2>1. lease' \in [Attachment -> LeaseRecord] /\ obs' \in [Route -> Observation]
    BY Zenon, <1>3, AcceptWrites, WriteTypes DEF Renewed, TypeOK
  <2>2. [r |-> r, claim |-> rt[r].claim, rtSame |-> TRUE] \in Pass
    BY Zenon, Parts, RouteParts DEF Pass
  <2>3. pass' \in Pass
    BY Zenon, <1>3, <2>2, Initials DEF Accept
  <2> QED
    BY Zenon, <1>3, <2>1, <2>3 DEF Accept, indexer, TypeOK
<1>4. CASE Commit
  <2>1. idx' \in Index /\ pass' \in Pass /\ sweep' \in Index
    BY Zenon, <1>4, CommitFacts, WriteTypes
  <2>2. obs' \in [Route -> Observation] /\ marks' \in [Route -> Mark]
    BY Zenon, <1>4, Initials DEF Commit, TypeOK
  <2>3. rt' \in [Route -> RouteObject]
    <3>1. Accepted(pass.r, pass.claim) \in RouteObject
      BY Zenon, <1>4, CommitFacts, NewObjects
    <3> QED
      BY Zenon, <1>4, <3>1 DEF Commit, TypeOK
  <2> QED
    BY Zenon, <1>4, <2>1, <2>2, <2>3 DEF Commit, TypeOK
<1>5. CASE PassFails
  BY Zenon, <1>5, Initials DEF PassFails, indexer, TypeOK
<1> QED
  BY Zenon, <1>1, <1>2, <1>3, <1>4, <1>5

(* Steps of providers on a lease keep the types. *)
LEMMA LeaseTypes ==
  ASSUME TypeOK, LeaseInv, NEW a \in Attachment, LeaseWrite(a) \/ LeaseEnd(a)
  PROVE  TypeOK'
<1>1. lease' \in [Attachment -> LeaseRecord] /\ obs' \in [Route -> Observation]
  BY Zenon, ProviderWrites, WriteTypes DEF Renewed
<1> QED
  BY Zenon, <1>1 DEF LeaseWrite, LeaseEnd, indexer, TypeOK
-----------------------------------------------------------------------------
(* Leases. *)

(* Terms go forward, and a term that ended is not held again. *)
Forward(old, new) ==
  \A a \in Attachment :
    /\ new[a].term >= old[a].term
    /\ new[a].held => new[a].term \in 1..MaxTerm
    /\ new[a].held /\ new[a].term = old[a].term => old[a].held

(* What is known of a holder, and that its lease is not held any more, is  *)
(* so for ever.                                                            *)
LEMMA ForwardKeeps ==
  ASSUME TypeOK, TypeOK', Forward(lease, lease'), NEW h \in Holder, Known(h, lease)
  PROVE  /\ Known(h, lease')
         /\ h.epoch > 0 /\ ~Holds(h, lease) => ~Holds(h, lease')
<1>1. CASE h = NoHolder
  <2>1. ~(h.epoch > 0)
    BY <1>1, Blanks
  <2> QED
    BY Zenon, <1>1, <2>1 DEF Known
<1>2. CASE h # NoHolder
  <2>1. h.epoch > 0 /\ h.att \in Attachment /\ h.term <= lease[h.att].term
    BY Zenon, <1>2 DEF Known
  <2>2. lease[h.att].term \in Nat /\ lease'[h.att].term \in Nat /\ h.term \in Nat
    <3>1. lease[h.att].term \in Term /\ lease'[h.att].term \in Term
      BY Zenon, <2>1 DEF TypeOK, LeaseRecord
    <3> QED
      BY <3>1, HolderParts, EdgeAssumption DEF Term
  <2>3. /\ lease'[h.att].term >= lease[h.att].term
        /\ lease'[h.att].held /\ lease'[h.att].term = lease[h.att].term => lease[h.att].held
    BY Zenon, <2>1 DEF Forward
  <2>4. h.term <= lease'[h.att].term
    BY <2>1, <2>2, <2>3
  <2>5. lease'[h.att].term = h.term => lease[h.att].term = h.term /\ lease'[h.att].term = lease[h.att].term
    BY <2>1, <2>2, <2>3
  <2> QED
    BY Zenon, <2>1, <2>3, <2>4, <2>5 DEF Known, Holds
<1> QED
  BY Zenon, <1>1, <1>2

(* A write to a lease goes forward. *)
LEMMA RenewedForward ==
  ASSUME TypeOK, LeaseInv, NEW a \in Attachment, NEW new, Renewed(a, new)
  PROVE  Forward(lease, lease')
<1>1. \A b \in Attachment : lease'[b] = IF b = a THEN new ELSE lease[b]
  BY Zenon DEF Renewed, WriteLease, TypeOK
<1>2. \A b \in Attachment : lease[b].term >= lease[b].term
  <2>1. \A b \in Attachment : lease[b].term \in Term
    BY Zenon DEF TypeOK, LeaseRecord
  <2> QED
    BY <2>1, EdgeAssumption DEF Term
<1>3. SUFFICES ASSUME NEW b \in Attachment
               PROVE  /\ lease'[b].term >= lease[b].term
                      /\ lease'[b].held => lease'[b].term \in 1..MaxTerm
                      /\ lease'[b].held /\ lease'[b].term = lease[b].term => lease[b].held
  BY Zenon DEF Forward
<1>4. CASE b = a
  BY Zenon, <1>1, <1>4 DEF Renewed
<1>5. CASE b # a
  BY Zenon, <1>1, <1>2, <1>5 DEF LeaseInv
<1> QED
  BY Zenon, <1>4, <1>5

(* Time passing leaves the terms. *)
LEMMA TickForward == ASSUME TypeOK, LeaseInv, Tick PROVE Forward(lease, lease')
<1>1. PICK by \in [Attachment -> Slow..Fast] :
        lease' = [a \in Attachment |->
             IF lease[a].held THEN Older(lease[a], by[a]) ELSE lease[a]]
  BY Zenon DEF Tick
<1>2. ASSUME NEW a \in Attachment PROVE lease'[a].term = lease[a].term /\ lease'[a].held = lease[a].held
  <2>1. by[a] \in Slow..Fast /\ lease[a] \in LeaseRecord
    BY Zenon, Parts
  <2>2. Older(lease[a], by[a]).term = lease[a].term /\ Older(lease[a], by[a]).held = lease[a].held
    BY Zenon, <2>1, Aging
  <2> QED
    BY Zenon, <1>1, <2>2
<1>3. \A a \in Attachment : lease[a].term >= lease[a].term
  <2>1. \A b \in Attachment : lease[b].term \in Term
    BY Zenon DEF TypeOK, LeaseRecord
  <2> QED
    BY <2>1, EdgeAssumption DEF Term
<1> QED
  BY Zenon, <1>2, <1>3 DEF Forward, LeaseInv
-----------------------------------------------------------------------------
(* Writes of a route. *)

(* What a write of a route changes. *)
LEMMA RouteWritten ==
  ASSUME TypeOK, PassInv, NEW r \in Route, NEW new, WriteRoute(r, new)
  PROVE  /\ rt'[r] = new
         /\ \A s \in Route : s # r => rt'[s] = rt[s]
         /\ pass'.r = pass.r /\ pass'.claim = pass.claim
         /\ (pass' # NoPass) = (pass # NoPass)
         /\ pass'.rtSame => pass.rtSame /\ pass.r # r
<1>1. rt'[r] = new /\ \A s \in Route : s # r => rt'[s] = rt[s]
  BY Zenon DEF WriteRoute, TypeOK
<1>2. CASE pass.r = r
  <2>1. pass' = [pass EXCEPT !.rtSame = FALSE] /\ pass \in Pass
    BY Zenon, <1>2 DEF WriteRoute, TypeOK
  <2>2. pass'.r = r /\ pass'.claim = pass.claim /\ pass'.rtSame = FALSE
    BY Zenon, <1>2, <2>1 DEF Pass
  <2>3. pass # NoPass /\ pass' # NoPass
    BY Zenon, <1>2, <2>2, Blanks, EdgeAssumption
  <2> QED
    BY Zenon, <1>1, <1>2, <2>2, <2>3
<1>3. CASE pass.r # r
  BY Zenon, <1>1, <1>3 DEF WriteRoute
<1> QED
  BY Zenon, <1>2, <1>3

(* What a write of a route must respect. *)
Proper(r, new) ==
  /\ new \in RouteObject
  /\ WriteRoute(r, new)
  /\ UNCHANGED pfx /\ UNCHANGED idx /\ UNCHANGED lease /\ UNCHANGED sweep /\ UNCHANGED marks
  /\ \/ /\ new.state = "live" /\ UNCHANGED obs
        /\ Live(r) \/ \A s \in Route : pfx[s] = pfx[r] => ~Live(s)
     \/ new = [NewRoute EXCEPT !.state = "gone"] /\ obs' = [obs EXCEPT ![r] = Unseen]
  /\ Ordered(new, idx.entry[r], lease)
  /\ pass.r = r => Committable(pass.claim, new, idx.entry[r])
  /\ ~idx.there => new.acc = NoHolder

(* It keeps what relates the routes to the index. *)
LEMMA RouteWriteKeeps ==
  ASSUME TypeOK, StateInv, NameInv, HolderInv, LeaseInv, PassInv, IndexInv,
         NEW r \in Route, NEW new, Proper(r, new)
  PROVE  StateInv' /\ NameInv' /\ HolderInv' /\ LeaseInv' /\ PassInv' /\ IndexInv'
<1>1. /\ rt'[r] = new
      /\ \A s \in Route : s # r => rt'[s] = rt[s]
      /\ pass'.r = pass.r /\ pass'.claim = pass.claim
      /\ (pass' # NoPass) = (pass # NoPass)
      /\ pass'.rtSame => pass.rtSame /\ pass.r # r
  BY Zenon, RouteWritten DEF Proper
<1>2. pfx' = pfx /\ idx' = idx /\ lease' = lease /\ sweep' = sweep /\ marks' = marks
  BY Zenon DEF Proper
<1>3. ASSUME new.state = "live" PROVE StateInv' /\ NameInv'
  <2>1. UNCHANGED obs /\ (Live(r) \/ \A s \in Route : pfx[s] = pfx[r] => ~Live(s))
    <3>1. [NewRoute EXCEPT !.state = "gone"].state = "gone"
      BY Zenon DEF NewRoute
    <3>2. "gone" # "live"
      OBVIOUS
    <3> QED
      BY Zenon, <1>3, <3>1, <3>2 DEF Proper
  <2>2. ASSUME NEW s \in Route, rt'[s].state # "live"
        PROVE  /\ rt'[s] = [NewRoute EXCEPT !.state = rt'[s].state]
               /\ obs'[s] = Unseen
               /\ rt'[s].state = "new" => idx'.entry[s] = NoHolder /\ pass'.r # s
    <3>1. s # r
      BY Zenon, <1>1, <1>3, <2>2
    <3>2. rt'[s] = rt[s] /\ ~Live(s)
      BY Zenon, <1>1, <2>2, <3>1 DEF Live
    <3> QED
      BY Zenon, <1>1, <1>2, <2>1, <3>2 DEF StateInv
  <2>3. StateInv'
    BY Zenon, <2>2 DEF StateInv, Live
  <2>4. ASSUME NEW s \in Route, s # r, rt'[s].state = "live", pfx[s] = pfx[r] PROVE FALSE
    <3>1. Live(s)
      BY Zenon, <1>1, <2>4 DEF Live
    <3> QED
      BY Zenon, <2>1, <2>4, <3>1 DEF NameInv
  <2>5. ASSUME NEW s \in Route, NEW t \in Route, rt'[s].state = "live", rt'[t].state = "live",
               pfx[s] = pfx[t], s # t
        PROVE  FALSE
    <3>1. s # r /\ t # r
      BY Zenon, <2>4, <2>5
    <3>2. Live(s) /\ Live(t)
      BY Zenon, <1>1, <2>5, <3>1 DEF Live
    <3> QED
      BY Zenon, <2>5, <3>2 DEF NameInv
  <2>6. NameInv'
    BY Zenon, <1>2, <2>5 DEF NameInv, Live
  <2> QED
    BY Zenon, <2>3, <2>6
<1>4. ASSUME new = [NewRoute EXCEPT !.state = "gone"], obs' = [obs EXCEPT ![r] = Unseen]
      PROVE  StateInv' /\ NameInv'
  <2>1. new.state = "gone" /\ new.state # "live" /\ new.state # "new"
    <3>1. new.state = "gone"
      BY Zenon, <1>4 DEF NewRoute
    <3> QED
      BY <3>1
  <2>2. obs'[r] = Unseen /\ \A s \in Route : s # r => obs'[s] = obs[s]
    BY Zenon, <1>4 DEF TypeOK
  <2>3. ASSUME NEW s \in Route, rt'[s].state # "live"
        PROVE  /\ rt'[s] = [NewRoute EXCEPT !.state = rt'[s].state]
               /\ obs'[s] = Unseen
               /\ rt'[s].state = "new" => idx'.entry[s] = NoHolder /\ pass'.r # s
    <3>1. CASE s = r
      BY Zenon, <1>1, <1>4, <2>1, <2>2, <3>1
    <3>2. CASE s # r
      <4>1. rt'[s] = rt[s] /\ ~Live(s)
        BY Zenon, <1>1, <2>3, <3>2 DEF Live
      <4>2. /\ rt[s] = [NewRoute EXCEPT !.state = rt[s].state]
            /\ obs[s] = Unseen
            /\ rt[s].state = "new" => idx.entry[s] = NoHolder /\ pass.r # s
        BY Zenon, <4>1 DEF StateInv
      <4>3. obs'[s] = obs[s] /\ idx' = idx /\ pass'.r = pass.r
        BY Zenon, <1>1, <1>2, <2>2, <3>2
      <4> QED
        BY Zenon, <4>1, <4>2, <4>3
    <3> QED
      BY Zenon, <3>1, <3>2
  <2>4. StateInv'
    BY Zenon, <2>3 DEF StateInv, Live
  <2>5. ASSUME NEW s \in Route, rt'[s].state = "live" PROVE s # r /\ Live(s)
    BY Zenon, <1>1, <2>1, <2>5 DEF Live
  <2>6. ASSUME NEW s \in Route, NEW t \in Route, rt'[s].state = "live", rt'[t].state = "live",
               pfx[s] = pfx[t]
        PROVE  s = t
    BY Zenon, <2>5, <2>6 DEF NameInv
  <2>7. NameInv'
    BY Zenon, <1>2, <2>6 DEF NameInv, Live
  <2> QED
    BY Zenon, <2>4, <2>7
<1>5. HolderInv'
  BY Zenon, <1>1, <1>2 DEF HolderInv, Proper
<1>6. LeaseInv'
  BY Zenon, <1>2 DEF LeaseInv
<1>7. PassInv'
  <2>1. ASSUME pass' # NoPass
        PROVE  /\ idx.there /\ pass.r \in Route
               /\ Known(pass.claim, lease)
               /\ Committable(pass.claim, rt'[pass.r], idx.entry[pass.r])
               /\ pass'.rtSame => rt'[pass.r].state = "live" /\ pass.claim = rt'[pass.r].claim
               /\ \A s \in Route \ {pass.r} : idx.entry[s] = NoHolder
    <3>1. pass # NoPass
      BY Zenon, <1>1, <2>1
    <3>2. CASE pass.r = r
      BY Zenon, <1>1, <3>1, <3>2 DEF PassInv, Proper
    <3>3. CASE pass.r # r
      BY Zenon, <1>1, <3>1, <3>3 DEF PassInv, Live
    <3> QED
      BY Zenon, <3>2, <3>3
  <2> QED
    BY Zenon, <1>1, <1>2, <2>1 DEF PassInv, Live
<1>8. IndexInv'
  <2>1. ~idx.there => \A s \in Route : rt'[s].acc = NoHolder
    BY Zenon, <1>1 DEF IndexInv, Proper
  <2> QED
    BY Zenon, <1>2, <2>1 DEF IndexInv
<1> QED
  BY Zenon, <1>3, <1>4, <1>5, <1>6, <1>7, <1>8 DEF Proper

(* What is asked of a route's claims looks at no other part of it. *)
LEMMA SameClaims ==
  ASSUME NEW o, NEW n, n.state = o.state, n.claim = o.claim, n.acc = o.acc, n.closed = o.closed,
         NEW e, NEW c, NEW leases
  PROVE  /\ Ordered(o, e, leases) => Ordered(n, e, leases)
         /\ Committable(c, o, e) => Committable(c, n, e)
  BY Zenon DEF Ordered, Committable

(* A release or a revocation respects the claims. *)
LEMMA ReleaseProper ==
  ASSUME TypeOK, HolderInv, PassInv, IndexInv,
         NEW a, NEW r \in Route, Release(a, r) \/ Revoke(r)
  PROVE  \E new : Proper(r, new)
<1>1. PICK new \in RouteObject :
        /\ WriteRoute(r, new) /\ Live(r)
        /\ new.state = rt[r].state /\ new.claim = rt[r].claim /\ new.acc = rt[r].acc
        /\ new.closed = rt[r].closed
  <2>1. rt[r] \in RouteObject
    BY Zenon, Parts
  <2>2. CASE Release(a, r)
    <3> DEFINE n == [rt[r] EXCEPT !.released = TRUE]
    <3>1. n \in RouteObject /\ n.state = rt[r].state /\ n.claim = rt[r].claim /\ n.acc = rt[r].acc
          /\ n.closed = rt[r].closed
      BY Zenon, <2>1 DEF RouteObject
    <3>2. WriteRoute(r, n) /\ Live(r)
      BY Zenon, <2>2 DEF Release
    <3> HIDE DEF n
    <3> QED
      BY Zenon, <3>1, <3>2
  <2>3. CASE Revoke(r)
    <3> DEFINE n == [rt[r] EXCEPT !.accepted = FALSE]
    <3>1. n \in RouteObject /\ n.state = rt[r].state /\ n.claim = rt[r].claim /\ n.acc = rt[r].acc
          /\ n.closed = rt[r].closed
      BY Zenon, <2>1 DEF RouteObject
    <3>2. WriteRoute(r, n) /\ Live(r)
      BY Zenon, <2>3 DEF Revoke
    <3> HIDE DEF n
    <3> QED
      BY Zenon, <3>1, <3>2
  <2> QED
    BY Zenon, <2>2, <2>3
<1>2. UNCHANGED pfx /\ UNCHANGED idx /\ UNCHANGED lease /\ UNCHANGED sweep /\ UNCHANGED marks
      /\ UNCHANGED obs
  BY Zenon DEF Release, Revoke, indexer
<1>3. Ordered(new, idx.entry[r], lease)
  BY Zenon, <1>1, SameClaims DEF HolderInv
<1>4. pass.r = r => Committable(pass.claim, new, idx.entry[r])
  <2>1. pass.r = r => Committable(pass.claim, rt[r], idx.entry[r])
    BY Zenon, Blanks, EdgeAssumption DEF PassInv
  <2> QED
    BY Zenon, <1>1, <2>1, SameClaims
<1>5. ~idx.there => new.acc = NoHolder
  BY Zenon, <1>1 DEF IndexInv
<1>6. new.state = "live"
  BY Zenon, <1>1 DEF Live
<1> QED
  BY Zenon, <1>1, <1>2, <1>3, <1>4, <1>5, <1>6 DEF Proper

(* A deletion leaves no claims. *)
LEMMA DeleteProper ==
  ASSUME TypeOK, HolderInv, PassInv, NEW r \in Route, DeleteRoute(r)
  PROVE  Proper(r, [NewRoute EXCEPT !.state = "gone"])
<1> DEFINE n == [NewRoute EXCEPT !.state = "gone"]
<1>1. n.state = "gone" /\ n.claim = NoHolder /\ n.acc = NoHolder /\ n.closed = 0
  BY Zenon DEF NewRoute
<1>2. n \in RouteObject /\ n.state # "live"
  <2>1. "gone" # "live"
    OBVIOUS
  <2> QED
    BY Zenon, <1>1, <2>1, NewObjects
<1>3. WriteRoute(r, n) /\ obs' = [obs EXCEPT ![r] = Unseen]
      /\ UNCHANGED pfx /\ UNCHANGED idx /\ UNCHANGED lease /\ UNCHANGED sweep /\ UNCHANGED marks
  BY Zenon DEF DeleteRoute, indexer
<1>4. n = [NewRoute EXCEPT !.state = "gone"]
  BY Zenon
<1> HIDE DEF n
<1>5. Ordered(n, idx.entry[r], lease)
  <2>1. Known(NoHolder, lease) /\ Known(idx.entry[r], lease)
    BY Zenon DEF Known, HolderInv, Ordered
  <2>2. NoHolder.epoch <= NoHolder.epoch /\ NoHolder.term <= NoHolder.term /\ 0 <= NoHolder.epoch
    BY Blanks
  <2> QED
    BY Zenon, <1>1, <1>2, <2>1, <2>2 DEF Ordered, Precedes
<1>6. pass.r = r => Committable(pass.claim, n, idx.entry[r])
  <2>1. pass.r = r => Committable(pass.claim, rt[r], idx.entry[r])
    BY Zenon, Blanks, EdgeAssumption DEF PassInv
  <2> QED
    BY Zenon, <1>2, <2>1 DEF Committable
<1> QED
  BY Zenon, <1>1, <1>2, <1>3, <1>4, <1>5, <1>6 DEF Proper

(* A new claim follows every claim its route has had. *)
LEMMA ClaimFollows ==
  ASSUME TypeOK, NEW a \in Attachment, NEW h \in Holder, Known(h, lease),
         NEW n \in Nat, h.epoch <= n,
         NEW c, c.epoch = n + 1, c.att = a, c.term = lease[a].term
  PROVE  Precedes(h, c) /\ h.epoch < c.epoch
<1>1. h.epoch \in Nat /\ h.term \in Nat
  BY Zenon, HolderParts
<1>2. h.epoch < c.epoch /\ h.epoch <= c.epoch /\ h.epoch # c.epoch
  BY <1>1
<1>3. h.att = c.att => h.term <= c.term
  <2>1. h = NoHolder => h.att # a
    BY Zenon, Blanks, EdgeAssumption
  <2> QED
    BY Zenon, <2>1 DEF Known
<1> QED
  BY Zenon, <1>2, <1>3 DEF Precedes

(* A claim follows what is accepted, in the index or about to be. *)
LEMMA ClaimProper ==
  ASSUME TypeOK, StateInv, HolderInv, PassInv, IndexInv,
         NEW a \in Attachment, NEW r \in Route, Claim(a, r)
  PROVE  Proper(r, Claimed(a, r))
<1> DEFINE o == rt[r]
           n == Claimed(a, r)
           e == idx.entry[r]
<1>1. o \in RouteObject /\ n \in RouteObject /\ WriteRoute(r, n) /\ e \in Holder
  BY Zenon, Parts, ClaimedType
<1>2. /\ n.state = "live" /\ n.acc = o.acc /\ n.closed = o.closed /\ n.accepted = o.accepted
      /\ n.claim = [epoch |-> o.claim.epoch + 1, att |-> a, term |-> lease[a].term]
  BY Zenon, <1>1 DEF Claimed, RouteObject
<1>3. n.claim.epoch = o.claim.epoch + 1 /\ n.claim.att = a /\ n.claim.term = lease[a].term
  BY <1>2
<1>4. o.claim \in Holder /\ o.acc \in Holder /\ o.claim.epoch \in Nat /\ lease[a].term \in Nat
      /\ o.acc.epoch \in Nat
  <2>1. lease[a].term \in Term
    BY Zenon, Parts DEF LeaseRecord
  <2>2. lease[a].term \in Nat
    BY <2>1, EdgeAssumption DEF Term
  <2> QED
    BY Zenon, <1>1, <2>2, RouteParts, HolderParts
<1>5. Ordered(o, e, lease)
  BY Zenon DEF HolderInv
<1>6. Live(r) \/ (o.state = "new" /\ \A s \in Route : pfx[s] = pfx[r] => ~Live(s))
  BY Zenon DEF Claim
<1>7. UNCHANGED pfx /\ UNCHANGED idx /\ UNCHANGED lease /\ UNCHANGED sweep /\ UNCHANGED marks
      /\ UNCHANGED obs
  BY Zenon DEF Claim, indexer
<1>8. Known(n.claim, lease) /\ n.claim.epoch > 0
  <2>1. n.claim.epoch > 0 /\ n.claim.term <= lease[a].term
    BY <1>3, <1>4
  <2> QED
    BY Zenon, <1>3, <2>1 DEF Known
<1>9. ASSUME NEW h \in Holder, Known(h, lease), h.epoch <= o.claim.epoch
      PROVE  Precedes(h, n.claim)
  BY Zenon, <1>3, <1>4, <1>9, ClaimFollows
<1>10. Precedes(o.acc, n.claim)
  BY Zenon, <1>4, <1>5, <1>9 DEF Ordered, Precedes
<1>11. Live(r) /\ e.epoch > 0 => Precedes(o.acc, e) /\ Precedes(e, n.claim)
  BY Zenon, <1>1, <1>5, <1>9 DEF Ordered, Precedes, Live
<1>12. ~Live(r) => ~(e.epoch > 0) /\ pass.r # r
  <2>1. ~(NoHolder.epoch > 0)
    BY Blanks
  <2> QED
    BY Zenon, <1>6, <2>1 DEF StateInv
<1>13. Ordered(n, e, lease)
  BY Zenon, <1>2, <1>5, <1>8, <1>10, <1>11, <1>12 DEF Ordered
<1>14. pass.r = r => Committable(pass.claim, n, e)
  <2>1. SUFFICES ASSUME pass.r = r PROVE Committable(pass.claim, n, e)
    BY Zenon
  <2>2. Committable(pass.claim, o, e) /\ Known(pass.claim, lease) /\ pass.claim \in Holder /\ Live(r)
    BY Zenon, <1>12, <2>1, Blanks, EdgeAssumption DEF PassInv, TypeOK, Pass
  <2>3. Precedes(pass.claim, n.claim)
    BY Zenon, <1>9, <2>2 DEF Committable, Precedes, Live
  <2> QED
    BY Zenon, <1>2, <2>2, <2>3 DEF Committable, Live
<1>15. ~idx.there => n.acc = NoHolder
  BY Zenon, <1>2 DEF IndexInv
<1> HIDE DEF n
<1> QED
  BY Zenon, <1>1, <1>2, <1>6, <1>7, <1>13, <1>14, <1>15 DEF Proper, n

(* A status write of a claim that is in the index. *)
LEMMA StatusProper ==
  ASSUME TypeOK, HolderInv, PassInv, NEW r \in Route, Status(r)
  PROVE  /\ Proper(r, Accepted(r, rt[r].claim))
         /\ idx.entry[r] = rt[r].claim /\ rt[r].claim.epoch > 0 /\ pass.r # r
<1> DEFINE o == rt[r]
           n == Accepted(r, o.claim)
           e == idx.entry[r]
<1>1. o \in RouteObject /\ e \in Holder /\ o.claim \in Holder /\ o.acc \in Holder
  BY Zenon, Parts, RouteParts
<1>2. /\ n \in RouteObject
      /\ n.state = o.state /\ n.claim = o.claim /\ n.acc = o.claim /\ n.closed = o.closed
  BY Zenon, <1>1 DEF Accepted, RouteObject
<1>3. Live(r) /\ e.epoch = o.claim.epoch /\ idx.there /\ WriteRoute(r, n) /\ UNCHANGED obs
      /\ UNCHANGED pfx /\ UNCHANGED idx /\ UNCHANGED lease /\ UNCHANGED sweep /\ UNCHANGED marks
  BY Zenon DEF Status, Acceptable, Committed, indexer
<1>4. Ordered(o, e, lease)
  BY Zenon DEF HolderInv
<1>5. o.claim.epoch > 0 /\ e = o.claim
  BY Zenon, <1>3, <1>4 DEF Ordered, Precedes, Live
<1>6. /\ o.claim.epoch \in Nat /\ o.claim.term \in Nat /\ o.acc.epoch \in Nat /\ o.closed \in Nat
  <2>1. o.closed \in Epoch
    BY Zenon, <1>1, RouteParts
  <2>2. o.closed \in Nat
    BY <2>1, EdgeAssumption DEF Epoch
  <2> QED
    BY Zenon, <1>1, <2>2, HolderParts
<1>7. Precedes(o.claim, o.claim)
  <2>1. o.claim.epoch <= o.claim.epoch /\ o.claim.term <= o.claim.term
    BY <1>6
  <2> QED
    BY Zenon, <2>1 DEF Precedes
<1>8. o.closed <= o.claim.epoch
  <2>1. o.closed <= o.acc.epoch /\ o.acc.epoch <= o.claim.epoch
    BY Zenon, <1>4 DEF Ordered, Precedes
  <2> QED
    BY <1>6, <2>1
<1>9. Ordered(n, e, lease)
  BY Zenon, <1>2, <1>4, <1>5, <1>7, <1>8 DEF Ordered
<1>10. pass.r # r
  <2>1. SUFFICES ASSUME pass.r = r PROVE FALSE
    BY Zenon
  <2>2. Committable(pass.claim, o, e) /\ pass.claim \in Holder
    BY Zenon, <2>1, Blanks, EdgeAssumption DEF PassInv, TypeOK, Pass
  <2>3. pass.claim.epoch > o.claim.epoch /\ pass.claim.epoch <= o.claim.epoch /\ pass.claim.epoch \in Nat
    BY Zenon, <1>3, <2>2, HolderParts DEF Committable, Precedes, Live
  <2> QED
    BY <1>6, <2>3
<1>11. n.state = "live"
  BY Zenon, <1>2, <1>3 DEF Live
<1> HIDE DEF n
<1> QED
  BY Zenon, <1>2, <1>3, <1>5, <1>9, <1>10, <1>11 DEF Proper, n

(* The record of a closing. *)
LEMMA CloseProper ==
  ASSUME TypeOK, HolderInv, PassInv, IndexInv, NEW a \in Attachment, NEW r \in Route,
         GateClose(a, r), ~UNCHANGED <<rt, pass>>
  PROVE  Proper(r, [rt[r] EXCEPT !.closed = rt[r].acc.epoch])
<1> DEFINE n == [rt[r] EXCEPT !.closed = rt[r].acc.epoch]
<1>1. rt[r] \in RouteObject /\ rt[r].acc \in Holder /\ rt[r].acc.epoch \in Epoch /\ rt[r].acc.epoch \in Nat
  BY Zenon, Parts, RouteParts, HolderParts
<1>2. /\ n \in RouteObject
      /\ n.state = rt[r].state /\ n.claim = rt[r].claim /\ n.acc = rt[r].acc
      /\ n.closed = rt[r].acc.epoch
  BY Zenon, <1>1 DEF RouteObject
<1>3. Live(r) /\ WriteRoute(r, n) /\ UNCHANGED obs
      /\ UNCHANGED pfx /\ UNCHANGED idx /\ UNCHANGED lease /\ UNCHANGED sweep /\ UNCHANGED marks
  BY Zenon DEF GateClose, Moved, RecordClosed, indexer
<1> HIDE DEF n
<1>4. Ordered(n, idx.entry[r], lease)
  <2>1. n.closed <= n.acc.epoch
    BY <1>1, <1>2
  <2> QED
    BY Zenon, <1>2, <2>1 DEF HolderInv, Ordered
<1>5. pass.r = r => Committable(pass.claim, n, idx.entry[r])
  <2>1. pass.r = r => Committable(pass.claim, rt[r], idx.entry[r])
    BY Zenon, Blanks, EdgeAssumption DEF PassInv
  <2> QED
    BY Zenon, <1>2, <2>1 DEF Committable
<1>6. ~idx.there => n.acc = NoHolder
  BY Zenon, <1>2 DEF IndexInv
<1>7. n.state = "live"
  BY Zenon, <1>2, <1>3 DEF Live
<1> QED
  BY Zenon, <1>2, <1>3, <1>4, <1>5, <1>6, <1>7 DEF Proper, n
-----------------------------------------------------------------------------
(* The other writes. *)

(* What relates routes, leases and the index. *)
RecordsInv == StateInv /\ NameInv /\ HolderInv /\ LeaseInv /\ PassInv /\ IndexInv

(* No pass of the route reconciler is under way. *)
LEMMA NoPassInv == ASSUME pass' = NoPass PROVE PassInv' /\ \A r \in Route : pass'.r # r
<1>1. PassInv'
  BY Zenon DEF PassInv
<1>2. \A r \in Route : pass'.r # r
  BY Zenon, Blanks, EdgeAssumption
<1> QED
  BY Zenon, <1>1, <1>2

(* A step that writes neither a route nor the index. *)
LEMMA QuietKeeps ==
  ASSUME TypeOK, TypeOK', RecordsInv, Forward(lease, lease'),
         UNCHANGED pfx, UNCHANGED rt, UNCHANGED idx,
         sweep' \in {sweep, NoIndex},
         \A r \in Route : ~Live(r) /\ obs[r] = Unseen => obs'[r] = Unseen,
         \A r \in Route : marks'[r] = NoMark \/ (marks[r] # NoMark /\ marks'[r].epoch = marks[r].epoch),
         pass' \in {NoPass, pass} \/ (PassInv' /\ Live(pass'.r))
  PROVE  RecordsInv'
<1>1. StateInv /\ NameInv /\ HolderInv /\ LeaseInv /\ PassInv /\ IndexInv
  BY Zenon DEF RecordsInv
<1>2. \A h \in Holder : Known(h, lease) => Known(h, lease')
  BY Zenon, ForwardKeeps
<1>3. LeaseInv'
  BY Zenon DEF Forward, LeaseInv
<1>4. NameInv'
  BY Zenon, <1>1 DEF NameInv, Live
<1>5. HolderInv'
  <2>1. ASSUME NEW r \in Route PROVE Ordered(rt[r], idx.entry[r], lease')
    <3>1. rt[r].claim \in Holder /\ rt[r].acc \in Holder /\ idx.entry[r] \in Holder
      BY Zenon, Parts, RouteParts
    <3> QED
      BY Zenon, <1>1, <1>2, <3>1 DEF HolderInv, Ordered
  <2> QED
    BY Zenon, <2>1 DEF HolderInv
<1>6. PassInv' /\ \A r \in Route : rt[r].state = "new" => pass'.r # r
  <2>1. CASE pass' = NoPass
    BY Zenon, <2>1, NoPassInv
  <2>2. CASE pass' = pass
    <3>1. \A r \in Route : rt[r].state = "new" => pass'.r # r
      <4>1. \A r \in Route : rt[r].state = "new" => ~Live(r)
        BY DEF Live
      <4> QED
        BY Zenon, <1>1, <2>2, <4>1 DEF StateInv
    <3>2. pass # NoPass => Known(pass.claim, lease')
      BY Zenon, <1>1, <1>2 DEF PassInv, TypeOK, Pass
    <3>3. PassInv'
      BY Zenon, <1>1, <2>2, <3>2 DEF PassInv, Live
    <3> QED
      BY Zenon, <3>1, <3>3
  <2>3. CASE PassInv' /\ Live(pass'.r)
    <3>1. \A r \in Route : rt[r].state = "new" => ~Live(r)
      BY DEF Live
    <3> QED
      BY Zenon, <2>3, <3>1 DEF Live
  <2> QED
    BY Zenon, <2>1, <2>2, <2>3
<1>7. StateInv'
  <2>1. ASSUME NEW r \in Route, ~Live(r)
        PROVE  /\ rt[r] = [NewRoute EXCEPT !.state = rt[r].state]
               /\ obs'[r] = Unseen
               /\ rt[r].state = "new" => idx.entry[r] = NoHolder /\ pass'.r # r
    BY Zenon, <1>1, <1>6, <2>1 DEF StateInv
  <2> QED
    BY Zenon, <2>1 DEF StateInv, Live
<1>8. IndexInv'
  <2>1. sweep'.there => sweep' = sweep /\ sweep.there
    BY Zenon, Blanks
  <2>2. ASSUME NEW r \in Route
        PROVE  /\ marks'[r] = NoMark \/ (marks'[r].epoch > 0 /\ marks'[r].epoch = idx.entry[r].epoch)
               /\ sweep'.there /\ sweep'.entry[r] # idx.entry[r] => marks'[r] = NoMark
    BY Zenon, <1>1, <2>1, <2>2 DEF IndexInv
  <2>3. sweep'.there =>
          /\ \A r \in Route : sweep'.entry[r] \in {idx.entry[r], NoHolder}
          /\ \A r \in sweep'.removing : sweep'.entry[r].epoch > 0
    BY Zenon, <1>1, <2>1 DEF IndexInv
  <2>4. /\ ~idx.there => idx = NoIndex /\ ~sweep'.there /\ \A r \in Route : rt[r].acc = NoHolder
        /\ \A r, s \in Route : idx.entry[r].epoch > 0 /\ idx.entry[s].epoch > 0 => r = s
        /\ \A r \in idx.removing : idx.entry[r].epoch > 0
    BY Zenon, <1>1, <2>1 DEF IndexInv
  <2> QED
    BY Zenon, <2>2, <2>3, <2>4 DEF IndexInv
<1> QED
  BY Zenon, <1>3, <1>4, <1>5, <1>6, <1>7, <1>8 DEF RecordsInv

(* No time passes, and no lease is written. *)
LEMMA StillForward == ASSUME TypeOK, LeaseInv, UNCHANGED lease PROVE Forward(lease, lease')
<1>1. \A a \in Attachment : lease[a].term >= lease[a].term
  <2>1. \A b \in Attachment : lease[b].term \in Term
    BY Zenon DEF TypeOK, LeaseRecord
  <2> QED
    BY <2>1, EdgeAssumption DEF Term
<1> QED
  BY Zenon, <1>1 DEF Forward, LeaseInv

(* A lease written, or time passing, makes no observation. *)
LEMMA NothingSeen ==
  ASSUME TypeOK, NEW r \in Route, obs[r] = Unseen,
         Tick \/ \E a \in Attachment : \E new : WriteLease(a, new)
  PROVE  obs'[r] = Unseen
<1>1. CASE Tick
  BY Zenon, <1>1 DEF Tick
<1>2. CASE \E a \in Attachment : \E new : WriteLease(a, new)
  BY Zenon, <1>2 DEF WriteLease
<1> QED
  BY Zenon, <1>1, <1>2

(* A tick leaves the epochs that marks are for. *)
LEMMA MarksAge ==
  ASSUME TypeOK, Tick, NEW r \in Route
  PROVE  marks'[r] = NoMark \/ (marks[r] # NoMark /\ marks'[r].epoch = marks[r].epoch)
<1>1. PICK lby \in Slow..Fast :
        marks' = [s \in Route |-> IF marks[s] = NoMark THEN NoMark ELSE Longer(marks[s], lby)]
  BY Zenon DEF Tick
<1>2. Longer(marks[r], lby).epoch = marks[r].epoch
  BY Zenon, Parts, Aging
<1> QED
  BY Zenon, <1>1, <1>2

(* Time, the providers' leases and a new leader. *)
LEMMA QuietSteps ==
  ASSUME TypeOK, TypeOK', RecordsInv, NEW a, NEW r,
         \/ Tick \/ LeaderChange \/ PassFails
         \/ a \in Attachment /\ (LeaseWrite(a) \/ LeaseEnd(a))
         \/ r \in Route /\ Observe(r)
  PROVE  RecordsInv'
<1>1. LeaseInv /\ HolderInv
  BY Zenon DEF RecordsInv
<1>2. CASE Tick
  <2>1. UNCHANGED pfx /\ UNCHANGED rt /\ UNCHANGED idx /\ UNCHANGED pass /\ UNCHANGED sweep
    BY Zenon, <1>2 DEF Tick
  <2>2. \A s \in Route : ~Live(s) /\ obs[s] = Unseen => obs'[s] = Unseen
    BY Zenon, <1>2, NothingSeen
  <2>3. \A s \in Route : marks'[s] = NoMark \/ (marks[s] # NoMark /\ marks'[s].epoch = marks[s].epoch)
    BY Zenon, <1>2, MarksAge
  <2>4. Forward(lease, lease')
    BY Zenon, <1>1, <1>2, TickForward
  <2> QED
    BY Zenon, <2>1, <2>2, <2>3, <2>4, QuietKeeps
<1>3. CASE a \in Attachment /\ (LeaseWrite(a) \/ LeaseEnd(a))
  <2>1. UNCHANGED pfx /\ UNCHANGED rt /\ UNCHANGED idx /\ UNCHANGED pass /\ UNCHANGED sweep
        /\ UNCHANGED marks
    BY Zenon, <1>3 DEF LeaseWrite, LeaseEnd, indexer
  <2>2. PICK new : Renewed(a, new)
    BY Zenon, <1>1, <1>3, ProviderWrites
  <2>3. \A s \in Route : ~Live(s) /\ obs[s] = Unseen => obs'[s] = Unseen
    BY Zenon, <1>3, <2>2, NothingSeen DEF Renewed
  <2>4. Forward(lease, lease')
    BY Zenon, <1>1, <1>3, <2>2, RenewedForward
  <2> QED
    BY Zenon, <2>1, <2>3, <2>4, QuietKeeps
<1>4. CASE LeaderChange
  <2>1. UNCHANGED pfx /\ UNCHANGED rt /\ UNCHANGED idx /\ UNCHANGED pass /\ UNCHANGED lease
        /\ sweep' \in {sweep, NoIndex} /\ \A s \in Route : obs'[s] = Unseen /\ marks'[s] = NoMark
    BY Zenon, <1>4 DEF LeaderChange
  <2>2. Forward(lease, lease')
    BY Zenon, <1>1, <2>1, StillForward
  <2> QED
    BY Zenon, <2>1, <2>2, QuietKeeps
<1>5. CASE PassFails
  <2>1. UNCHANGED pfx /\ UNCHANGED rt /\ UNCHANGED idx /\ UNCHANGED lease /\ UNCHANGED obs
        /\ UNCHANGED sweep /\ UNCHANGED marks /\ pass' = NoPass
    BY Zenon, <1>5 DEF PassFails, indexer
  <2>2. Forward(lease, lease')
    BY Zenon, <1>1, <2>1, StillForward
  <2> QED
    BY Zenon, <2>1, <2>2, QuietKeeps
<1>6. CASE r \in Route /\ Observe(r)
  <2>1. UNCHANGED pfx /\ UNCHANGED rt /\ UNCHANGED idx /\ UNCHANGED lease /\ UNCHANGED pass
        /\ UNCHANGED sweep /\ UNCHANGED marks /\ Live(r)
    BY Zenon, <1>6 DEF Observe, Deciding, Acceptable, indexer
  <2>2. \A s \in Route : s # r => obs'[s] = obs[s]
    BY Zenon, <1>6 DEF Observe, TypeOK
  <2>3. Forward(lease, lease')
    BY Zenon, <1>1, <2>1, StillForward
  <2> QED
    BY Zenon, <2>1, <2>2, <2>3, QuietKeeps
<1> QED
  BY Zenon, <1>2, <1>3, <1>4, <1>5, <1>6

(* Steps of the agents that write no route. *)
LEMMA GateSteps ==
  ASSUME TypeOK, TypeOK', RecordsInv, UNCHANGED <<pfx, rt, idx, lease, pass, obs, indexer>>
  PROVE  RecordsInv'
<1>1. UNCHANGED pfx /\ UNCHANGED rt /\ UNCHANGED idx /\ UNCHANGED lease /\ UNCHANGED pass
        /\ UNCHANGED obs /\ UNCHANGED sweep /\ UNCHANGED marks
  BY Zenon DEF indexer
<1>2. Forward(lease, lease')
  BY Zenon, <1>1, StillForward DEF RecordsInv
<1> QED
  BY Zenon, <1>1, <1>2, QuietKeeps

(* A claim is before itself. *)
LEMMA PrecedesItself == ASSUME NEW h \in Holder PROVE Precedes(h, h)
<1>1. h.epoch <= h.epoch /\ h.term <= h.term
  BY HolderParts
<1> QED
  BY Zenon, <1>1 DEF Precedes

(* Acceptance hands over a claim that comes after what the index holds. *)
LEMMA AcceptHands ==
  ASSUME TypeOK, TypeOK', HolderInv, Forward(lease, lease'), NEW r \in Route, Accept(r), pass' # NoPass
  PROVE  /\ pass'.r = r /\ pass'.claim = rt[r].claim
         /\ PassInv' /\ Live(r)
<1> DEFINE o == rt[r]
           e == idx.entry[r]
<1>1. o.claim \in Holder /\ o.acc \in Holder /\ e \in Holder
  BY Zenon, Parts, RouteParts
<1>2. o.claim.epoch \in Nat /\ o.acc.epoch \in Nat /\ e.epoch \in Nat
  BY Zenon, <1>1, HolderParts
<1>3. pass' = [r |-> r, claim |-> o.claim, rtSame |-> TRUE] /\ ~Overlapping(r)
      /\ Deciding(r) /\ UNCHANGED rt /\ UNCHANGED idx
  BY Zenon DEF Accept
<1>4. pass'.r = r /\ pass'.claim = o.claim
  BY Zenon, <1>3
<1>5. Live(r) /\ o.claim.epoch > o.acc.epoch /\ idx.there /\ ~Committed(r)
  BY Zenon, <1>3 DEF Deciding, Acceptable
<1>6. Ordered(o, e, lease)
  BY Zenon DEF HolderInv
<1>7. Known(o.claim, lease')
  BY Zenon, <1>1, <1>6, ForwardKeeps DEF Ordered
<1>8. \A s \in Route \ {r} : idx.entry[s] = NoHolder
  BY Zenon, <1>3 DEF Overlapping, HolderInv, Ordered, Known
<1>9. Committable(o.claim, o, e)
  <2>1. e.epoch > 0 => Precedes(e, o.claim)
    BY Zenon, <1>5, <1>6 DEF Ordered, Live
  <2>2. o.claim.epoch # e.epoch
    <3>1. SUFFICES ASSUME o.claim.epoch = e.epoch PROVE FALSE
      BY Zenon
    <3>2. e.epoch > 0
      BY Zenon, <1>5, <1>6, <3>1 DEF Ordered, Live
    <3>3. e = o.claim
      BY Zenon, <2>1, <3>1, <3>2 DEF Precedes
    <3> QED
      BY Zenon, <1>5, <3>3 DEF Committed
  <2>3. o.claim.epoch > e.epoch
    <3>1. e.epoch > 0 => e.epoch <= o.claim.epoch
      BY Zenon, <2>1 DEF Precedes
    <3> QED
      BY <1>2, <1>5, <2>2, <3>1
  <2>4. o.acc.epoch < o.claim.epoch /\ Precedes(o.claim, o.claim) /\ Precedes(o.acc, o.claim)
    <3>1. o.acc.epoch < o.claim.epoch
      BY <1>2, <1>5
    <3> QED
      BY Zenon, <1>1, <1>6, <3>1, PrecedesItself DEF Ordered
  <2> QED
    BY Zenon, <2>1, <2>3, <2>4 DEF Committable
<1>10. PassInv'
  BY Zenon, <1>3, <1>4, <1>5, <1>7, <1>8, <1>9 DEF PassInv, Live
<1> QED
  BY Zenon, <1>4, <1>5, <1>10

(* Acceptance keeps the records. *)
LEMMA AcceptKeeps ==
  ASSUME TypeOK, TypeOK', RecordsInv, NEW r \in Route, Accept(r)
  PROVE  RecordsInv' /\ Forward(lease, lease')
<1>1. LeaseInv /\ HolderInv
  BY Zenon DEF RecordsInv
<1>2. UNCHANGED pfx /\ UNCHANGED rt /\ UNCHANGED idx /\ UNCHANGED sweep /\ UNCHANGED marks
  BY Zenon DEF Accept, indexer
<1> DEFINE prev == Previous(rt[r], idx.entry[r])
<1>3. \/ UNCHANGED lease /\ UNCHANGED obs
      \/ prev.att \in Attachment /\ \E new : Renewed(prev.att, new)
  BY Zenon, <1>1, AcceptWrites
<1> HIDE DEF prev
<1>4. Forward(lease, lease')
  BY Zenon, <1>1, <1>3, StillForward, RenewedForward
<1>5. \A s \in Route : ~Live(s) /\ obs[s] = Unseen => obs'[s] = Unseen
  BY Zenon, <1>3, NothingSeen DEF Renewed
<1>6. pass' = NoPass \/ (PassInv' /\ Live(pass'.r))
  BY Zenon, <1>1, <1>4, AcceptHands
<1> QED
  BY Zenon, <1>2, <1>4, <1>5, <1>6, QuietKeeps

(* An entry may leave the index. *)
LEMMA EntryLeaves ==
  ASSUME NEW o, NEW e, NEW leases, Ordered(o, e, leases) PROVE Ordered(o, NoHolder, leases)
<1>1. ~(NoHolder.epoch > 0)
  BY Blanks
<1> QED
  BY Zenon, <1>1 DEF Ordered, Known

(* An index written with fewer entries, or none. *)
LEMMA IndexKeeps ==
  ASSUME TypeOK, RecordsInv, NEW new, WriteIndex(new), new.there = TRUE,
         UNCHANGED pfx, UNCHANGED rt, UNCHANGED lease, UNCHANGED obs,
         \A r \in Route : new.entry[r] \in {idx.entry[r], NoHolder},
         \A r \in new.removing : r \in Route /\ new.entry[r].epoch > 0,
         \A r \in Route : marks'[r] = NoMark \/ (marks'[r] = marks[r] /\ new.entry[r] = idx.entry[r])
  PROVE  RecordsInv'
<1>1. StateInv /\ NameInv /\ HolderInv /\ LeaseInv /\ PassInv /\ IndexInv
  BY Zenon DEF RecordsInv
<1>2. idx' = new /\ pass' = NoPass /\ sweep' = NoIndex
  BY Zenon DEF WriteIndex
<1>3. PassInv' /\ \A r \in Route : pass'.r # r
  BY Zenon, <1>2, NoPassInv
<1>4. StateInv'
  BY Zenon, <1>1, <1>2, <1>3 DEF StateInv, Live
<1>5. NameInv' /\ LeaseInv'
  BY Zenon, <1>1 DEF NameInv, LeaseInv, Live
<1>6. HolderInv'
  BY Zenon, <1>1, <1>2, EntryLeaves DEF HolderInv
<1>7. IndexInv'
  <2>1. ~(NoHolder.epoch > 0) /\ ~sweep'.there
    BY <1>2, Blanks
  <2>2. \A r \in Route : new.entry[r].epoch > 0 => new.entry[r] = idx.entry[r]
    BY Zenon, <2>1
  <2>3. ASSUME NEW r \in Route, NEW s \in Route, new.entry[r].epoch > 0, new.entry[s].epoch > 0
        PROVE  r = s
    <3>1. idx.entry[r].epoch > 0 /\ idx.entry[s].epoch > 0
      BY Zenon, <2>2, <2>3
    <3> QED
      BY Zenon, <1>1, <3>1 DEF IndexInv
  <2>4. ASSUME NEW r \in Route
        PROVE  marks'[r] = NoMark \/ (marks'[r].epoch > 0 /\ marks'[r].epoch = new.entry[r].epoch)
    BY Zenon, <1>1 DEF IndexInv
  <2> QED
    BY Zenon, <1>2, <2>1, <2>3, <2>4 DEF IndexInv
<1> QED
  BY Zenon, <1>3, <1>4, <1>5, <1>6, <1>7 DEF RecordsInv

(* The index is created, or written by the index reconciler. *)
LEMMA IndexSteps ==
  ASSUME TypeOK, RecordsInv, NEW r, (r \in Route /\ CreateIndex(r)) \/ SweepWrite
  PROVE  RecordsInv'
<1>1. IndexInv
  BY Zenon DEF RecordsInv
<1>2. CASE r \in Route /\ CreateIndex(r)
  <2>1. /\ idx'.there = TRUE /\ idx'.removing = {} /\ WriteIndex(idx')
        /\ \A s \in Route : idx'.entry[s] = NoHolder
    BY Zenon, <1>1, <1>2, CreatedEmpty
  <2>2. UNCHANGED pfx /\ UNCHANGED rt /\ UNCHANGED lease /\ UNCHANGED obs
        /\ \A s \in Route : marks'[s] = NoMark
    BY Zenon, <1>2 DEF CreateIndex
  <2> QED
    BY Zenon, <2>1, <2>2, IndexKeeps
<1>3. CASE SweepWrite
  <2>1. WriteIndex(sweep) /\ sweep.there = TRUE /\ UNCHANGED marks
        /\ UNCHANGED pfx /\ UNCHANGED rt /\ UNCHANGED lease /\ UNCHANGED obs
    <3>1. sweep.there /\ sweep.there \in BOOLEAN
      BY Zenon, <1>3 DEF SweepWrite, TypeOK, Index
    <3> QED
      BY Zenon, <1>3, <3>1 DEF SweepWrite
  <2>2. \A s \in sweep.removing : s \in Route /\ sweep.entry[s].epoch > 0
    BY Zenon, <1>1, <2>1 DEF IndexInv, TypeOK, Index
  <2>3. \A s \in Route : /\ sweep.entry[s] \in {idx.entry[s], NoHolder}
                         /\ sweep.entry[s] # idx.entry[s] => marks[s] = NoMark
    BY Zenon, <1>1, <2>1 DEF IndexInv
  <2> QED
    BY Zenon, <2>1, <2>2, <2>3, IndexKeeps
<1> QED
  BY Zenon, <1>2, <1>3

(* A pass of the index reconciler. *)
LEMMA SweepReadKeeps ==
  ASSUME TypeOK, RecordsInv, SweepRead
  PROVE  RecordsInv'
<1>1. StateInv /\ NameInv /\ HolderInv /\ LeaseInv /\ PassInv /\ IndexInv
  BY Zenon DEF RecordsInv
<1>2. /\ idx.there
      /\ \A r \in Route :
              marks'[r] = IF r \in Out THEN NoMark
                          ELSE IF r \in Noticed THEN [epoch |-> idx.entry[r].epoch, waited |-> 0]
                          ELSE marks[r]
      /\ sweep' \in {NoIndex, Swept}
      /\ Swept.there = TRUE /\ Swept.removing = (idx.removing \cup Removed) \ Out
      /\ \A r \in Route : Swept.entry[r] = IF r \in Out THEN NoHolder ELSE idx.entry[r]
      /\ UNCHANGED pfx /\ UNCHANGED rt /\ UNCHANGED idx /\ UNCHANGED lease /\ UNCHANGED row
      /\ UNCHANGED pass /\ UNCHANGED obs
  BY Zenon, SweepFacts
<1>3. StateInv' /\ NameInv' /\ LeaseInv'
  BY Zenon, <1>1, <1>2 DEF StateInv, NameInv, LeaseInv, Live
<1>4. HolderInv' /\ PassInv'
  BY Zenon, <1>1, <1>2 DEF HolderInv, PassInv, Live
<1>5. IndexInv'
  <2>1. sweep'.there => sweep' = Swept
    BY Zenon, <1>2, Blanks
  <2>2. ASSUME NEW r \in (idx.removing \cup Removed) \ Out
        PROVE  r \in Route /\ Swept.entry[r].epoch > 0
    <3>1. r \in Route /\ idx.entry[r].epoch > 0
      BY Zenon, <1>1 DEF IndexInv, Removed, TypeOK, Index
    <3> QED
      BY Zenon, <1>2, <3>1
  <2>3. sweep'.there =>
          /\ \A r \in Route : sweep'.entry[r] \in {idx.entry[r], NoHolder}
          /\ \A r \in sweep'.removing : sweep'.entry[r].epoch > 0
    BY Zenon, <1>2, <2>1, <2>2
  <2>4. ASSUME NEW r \in Route
        PROVE  marks'[r] = NoMark \/ (marks'[r].epoch > 0 /\ marks'[r].epoch = idx.entry[r].epoch)
    <3>1. [epoch |-> idx.entry[r].epoch, waited |-> 0].epoch = idx.entry[r].epoch
      BY Zenon
    <3>2. r \in Noticed => idx.entry[r].epoch > 0
      BY Zenon DEF Noticed, Removed
    <3>3. marks[r] = NoMark \/ (marks[r].epoch > 0 /\ marks[r].epoch = idx.entry[r].epoch)
      BY Zenon, <1>1 DEF IndexInv
    <3> QED
      BY Zenon, <1>2, <3>1, <3>2, <3>3
  <2>5. ASSUME NEW r \in Route, sweep'.there, sweep'.entry[r] # idx.entry[r]
        PROVE  marks'[r] = NoMark
    BY Zenon, <1>2, <2>1, <2>5
  <2>6. /\ ~idx.there => idx = NoIndex /\ ~sweep'.there /\ \A r \in Route : rt[r].acc = NoHolder
        /\ \A r, s \in Route : idx.entry[r].epoch > 0 /\ idx.entry[s].epoch > 0 => r = s
        /\ \A r \in idx.removing : idx.entry[r].epoch > 0
    BY Zenon, <1>1, <1>2 DEF IndexInv
  <2> QED
    BY Zenon, <1>2, <2>3, <2>4, <2>5, <2>6 DEF IndexInv
<1> QED
  BY Zenon, <1>3, <1>4, <1>5 DEF RecordsInv

(* What Commit writes to the route: its acceptance, or nothing. *)
LEMMA CommitRoute ==
  ASSUME TypeOK, PassInv, Commit
  PROVE  /\ \A s \in Route : s # pass.r => rt'[s] = rt[s]
         /\ \/ rt'[pass.r] = rt[pass.r]
            \/ /\ Live(pass.r) /\ pass.claim = rt[pass.r].claim
               /\ rt'[pass.r].state = rt[pass.r].state /\ rt'[pass.r].claim = pass.claim
               /\ rt'[pass.r].acc = pass.claim /\ rt'[pass.r].closed = rt[pass.r].closed
               /\ rt'[pass.r].accepted = TRUE /\ rt'[pass.r].released = rt[pass.r].released
<1>1. pass.r \in Route /\ pass # NoPass /\ rt[pass.r] \in RouteObject /\ rt \in [Route -> RouteObject]
  BY Zenon, CommitFacts, Parts DEF Commit, TypeOK
<1>2. CASE UNCHANGED rt
  BY Zenon, <1>2
<1>3. CASE pass.rtSame /\ rt' = [rt EXCEPT ![pass.r] = Accepted(pass.r, pass.claim)]
  <2> DEFINE n == Accepted(pass.r, pass.claim)
             o == rt[pass.r]
  <2>1. /\ n.state = o.state /\ n.claim = o.claim /\ n.acc = pass.claim /\ n.closed = o.closed
        /\ n.accepted = TRUE /\ n.released = o.released
    BY Zenon, <1>1 DEF Accepted, RouteObject
  <2>2. rt'[pass.r] = n /\ \A s \in Route : s # pass.r => rt'[s] = rt[s]
    BY Zenon, <1>1, <1>3
  <2>3. Live(pass.r) /\ pass.claim = o.claim
    BY Zenon, <1>1, <1>3 DEF PassInv
  <2> HIDE DEF n
  <2> QED
    BY Zenon, <2>1, <2>2, <2>3
<1> QED
  BY Zenon, <1>2, <1>3 DEF Commit

(* The commit of a claim keeps the records. *)
LEMMA CommitKeeps ==
  ASSUME TypeOK, TypeOK', RecordsInv, Commit
  PROVE  RecordsInv'
<1>1. StateInv /\ NameInv /\ HolderInv /\ LeaseInv /\ PassInv /\ IndexInv
  BY Zenon DEF RecordsInv
<1> DEFINE r == pass.r
           c == pass.claim
           o == rt[r]
<1>2. /\ r \in Route /\ c \in Holder
      /\ idx'.there = idx.there
      /\ idx'.entry[r] = c
      /\ \A s \in Route \ {r} : idx'.entry[s] = idx.entry[s]
      /\ idx'.removing = idx.removing \ {r}
      /\ pass' = NoPass /\ sweep' = NoIndex
  BY Zenon, <1>1, CommitFacts DEF WriteIndex
<1>3. /\ \A s \in Route : s # r => rt'[s] = rt[s]
      /\ \/ rt'[r] = o
         \/ /\ Live(r) /\ c = o.claim
            /\ rt'[r].state = o.state /\ rt'[r].claim = c
            /\ rt'[r].acc = c /\ rt'[r].closed = o.closed
  BY Zenon, <1>1, CommitRoute
<1>4. /\ idx.there /\ Known(c, lease) /\ Committable(c, o, idx.entry[r])
      /\ \A s \in Route \ {r} : idx.entry[s] = NoHolder
  BY Zenon, <1>1 DEF PassInv, Commit
<1>5. UNCHANGED pfx /\ UNCHANGED lease
  BY Zenon DEF Commit
<1>6. /\ obs'[r] = Unseen /\ marks'[r] = NoMark
      /\ \A s \in Route : s # r => obs'[s] = obs[s] /\ marks'[s] = marks[s]
  BY Zenon, <1>2 DEF Commit, TypeOK
<1>7. o.state # "new"
  <2>1. o.state = "new" => ~Live(r)
    BY DEF Live
  <2> QED
    BY Zenon, <1>1, <1>2, <2>1 DEF StateInv
<1>8. PassInv' /\ \A s \in Route : pass'.r # s
  BY Zenon, <1>2, NoPassInv
<1>9. \A s \in Route : rt'[s].state = rt[s].state
  BY Zenon, <1>2, <1>3
<1>10. NameInv' /\ LeaseInv'
  BY Zenon, <1>1, <1>5, <1>9 DEF NameInv, LeaseInv, Live
<1> HIDE DEF r, c
<1>11. StateInv'
  <2>1. ASSUME NEW s \in Route, rt'[s].state # "live"
        PROVE  /\ rt'[s] = [NewRoute EXCEPT !.state = rt'[s].state]
               /\ obs'[s] = Unseen
               /\ rt'[s].state = "new" => idx'.entry[s] = NoHolder /\ pass'.r # s
    <3>1. rt'[s] = rt[s]
      BY Zenon, <1>3, <2>1 DEF Live
    <3>2. /\ rt[s] = [NewRoute EXCEPT !.state = rt[s].state]
          /\ obs[s] = Unseen
          /\ rt[s].state = "new" => idx.entry[s] = NoHolder
      BY Zenon, <1>1, <2>1, <3>1 DEF StateInv, Live
    <3>3. rt[s].state = "new" => s # r
      BY Zenon, <1>7
    <3> QED
      BY Zenon, <1>2, <1>6, <1>8, <3>1, <3>2, <3>3
  <2> QED
    BY Zenon, <2>1 DEF StateInv, Live
<1>12. HolderInv'
  <2>1. Ordered(o, idx.entry[r], lease)
    BY Zenon, <1>1, <1>2 DEF HolderInv
  <2>2. CASE rt'[r] = o
    BY Zenon, <1>1, <1>2, <1>3, <1>4, <1>5, <2>1, <2>2 DEF HolderInv, Ordered, Committable
  <2>3. CASE Live(r) /\ c = o.claim /\ rt'[r].state = o.state /\ rt'[r].claim = c
             /\ rt'[r].acc = c /\ rt'[r].closed = o.closed
    <3>1. o.closed <= o.acc.epoch /\ o.acc.epoch < c.epoch
      BY Zenon, <1>4, <2>1, <2>3 DEF Ordered, Committable, Live
    <3>2. o.closed \in Nat /\ o.acc.epoch \in Nat /\ c.epoch \in Nat
      <4>1. o \in RouteObject /\ o.closed \in Epoch /\ o.acc \in Holder
        BY Zenon, <1>2, Parts, RouteParts
      <4>2. o.closed \in Nat
        BY <4>1, EdgeAssumption DEF Epoch
      <4> QED
        BY Zenon, <1>2, <4>1, <4>2, HolderParts
    <3>3. o.closed <= c.epoch /\ c.epoch > 0
      BY <3>1, <3>2
    <3>4. Precedes(c, c)
      BY Zenon, <1>2, PrecedesItself
    <3>5. Ordered(rt'[r], c, lease)
      BY Zenon, <1>4, <2>3, <3>3, <3>4 DEF Ordered
    <3> QED
      BY Zenon, <1>1, <1>2, <1>3, <1>5, <3>5 DEF HolderInv
  <2> QED
    BY Zenon, <1>3, <2>2, <2>3
<1>13. IndexInv'
  <2>1. ~(NoHolder.epoch > 0) /\ ~sweep'.there
    BY <1>2, Blanks
  <2>2. \A s \in Route : idx'.entry[s].epoch > 0 => s = r
    BY Zenon, <1>2, <1>4, <2>1
  <2>3. ASSUME NEW s \in idx'.removing PROVE idx'.entry[s].epoch > 0
    <3>1. s \in idx.removing /\ s # r /\ s \in Route
      BY Zenon, <1>2 DEF TypeOK, Index
    <3> QED
      BY Zenon, <1>1, <1>2, <3>1 DEF IndexInv
  <2>4. ASSUME NEW s \in Route
        PROVE  marks'[s] = NoMark \/ (marks'[s].epoch > 0 /\ marks'[s].epoch = idx'.entry[s].epoch)
    BY Zenon, <1>1, <1>2, <1>6 DEF IndexInv
  <2> QED
    BY Zenon, <1>2, <1>4, <2>1, <2>2, <2>3, <2>4 DEF IndexInv
<1> QED
  BY Zenon, <1>8, <1>10, <1>11, <1>12, <1>13 DEF RecordsInv

(* Every step keeps the types and the records. *)
LEMMA RecordsStep ==
  ASSUME TypeOK, RecordsInv, [Next]_vars
  PROVE  TypeOK' /\ RecordsInv'
<1>1. StateInv /\ NameInv /\ HolderInv /\ LeaseInv /\ PassInv /\ IndexInv
  BY Zenon DEF RecordsInv
<1>2. ASSUME NEW r \in Route, NEW new, Proper(r, new) PROVE RecordsInv'
  BY Zenon, <1>1, <1>2, RouteWriteKeeps DEF RecordsInv
<1>3. CASE Tick \/ LeaderChange
  BY Zenon, <1>3, TickTypes, SweepTypes, QuietSteps
<1>4. CASE Commit \/ PassFails
  <2>1. pass.r \in Route
    BY Zenon, <1>1, <1>4 DEF PassInv, Commit, PassFails
  <2>2. TypeOK'
    BY Zenon, <1>1, <1>4, <2>1, LeaderTypes
  <2> QED
    BY Zenon, <1>4, <2>2, CommitKeeps, QuietSteps
<1>5. CASE SweepRead \/ SweepWrite
  BY Zenon, <1>5, SweepTypes, SweepReadKeeps, IndexSteps
<1>6. ASSUME NEW r \in Route, CreateIndex(r) \/ Observe(r) \/ Accept(r)
      PROVE  TypeOK' /\ RecordsInv'
  <2>1. TypeOK'
    BY Zenon, <1>1, <1>6, LeaderTypes
  <2> QED
    BY Zenon, <1>6, <2>1, IndexSteps, QuietSteps, AcceptKeeps
<1>7. ASSUME NEW r \in Route, NEW a, Release(a, r) \/ DeleteRoute(r) \/ Revoke(r) \/ Status(r)
      PROVE  TypeOK' /\ RecordsInv'
  <2>1. TypeOK'
    BY Zenon, <1>7, RouteTypes
  <2>2. \E new : Proper(r, new)
    BY Zenon, <1>1, <1>7, ReleaseProper, DeleteProper, StatusProper
  <2> QED
    BY Zenon, <1>2, <2>1, <2>2
<1>8. ASSUME NEW a \in Attachment, NEW r \in Route, Claim(a, r)
      PROVE  TypeOK' /\ RecordsInv'
  <2>1. TypeOK'
    BY Zenon, <1>8, RouteTypes
  <2>2. Proper(r, Claimed(a, r))
    BY Zenon, <1>1, <1>8, ClaimProper
  <2> QED
    BY Zenon, <1>2, <2>1, <2>2
<1>9. ASSUME NEW a \in Attachment, LeaseWrite(a) \/ LeaseEnd(a)
      PROVE  TypeOK' /\ RecordsInv'
  <2>1. TypeOK'
    BY Zenon, <1>1, <1>9, LeaseTypes
  <2> QED
    BY Zenon, <1>9, <2>1, QuietSteps
<1>10. ASSUME NEW a \in Attachment, NEW r \in Route,
              GateRemove(a, r) \/ GateClose(a, r) \/ GateOpen(a, r)
       PROVE  TypeOK' /\ RecordsInv'
  <2>1. TypeOK'
    BY Zenon, <1>10, GateTypes
  <2>2. CASE UNCHANGED <<pfx, rt, idx, lease, pass, obs, indexer>>
    BY Zenon, <2>1, <2>2, GateSteps
  <2>3. CASE GateClose(a, r) /\ ~UNCHANGED <<rt, pass>>
    BY Zenon, <1>1, <1>2, <2>1, <2>3, CloseProper
  <2>4. GateClose(a, r) /\ UNCHANGED <<rt, pass>> => UNCHANGED <<pfx, rt, idx, lease, pass, obs, indexer>>
    BY Zenon DEF GateClose
  <2>5. GateRemove(a, r) \/ GateOpen(a, r) => UNCHANGED <<pfx, rt, idx, lease, pass, obs, indexer>>
    BY Zenon DEF GateRemove, GateOpen
  <2> QED
    BY Zenon, <1>10, <2>2, <2>3, <2>4, <2>5
<1>11. ASSUME NEW a \in Attachment, NEW p \in Prefix, SweepGates(a, p)
       PROVE  TypeOK' /\ RecordsInv'
  <2>1. TypeOK'
    BY Zenon, <1>11, GateTypes
  <2>2. UNCHANGED <<pfx, rt, idx, lease, pass, obs, indexer>>
    BY Zenon, <1>11 DEF SweepGates
  <2> QED
    BY Zenon, <2>1, <2>2, GateSteps
<1>12. CASE UNCHANGED vars
  <2>1. TypeOK'
    BY Zenon, <1>12 DEF TypeOK, vars, indexer
  <2>2. UNCHANGED <<pfx, rt, idx, lease, pass, obs, indexer>>
    BY Zenon, <1>12 DEF vars
  <2> QED
    BY Zenon, <2>1, <2>2, GateSteps
<1> QED
  BY Zenon, <1>3, <1>4, <1>5, <1>6, <1>7, <1>8, <1>9, <1>10, <1>11, <1>12 DEF Next
-----------------------------------------------------------------------------
(* Gates. *)

(* A write of one gate. *)
WriteRow(a, p, g) == row' = [row EXCEPT ![a] = [@ EXCEPT ![p] = g]]

(* It leaves the others. *)
LEMMA RowSet ==
  ASSUME TypeOK, NEW a \in Attachment, NEW p \in Prefix, NEW g, WriteRow(a, p, g)
  PROVE  /\ row'[a][p] = g
         /\ \A b \in Attachment, q \in Prefix : b # a \/ q # p => row'[b][q] = row[b][q]
<1>1. row \in [Attachment -> [Prefix -> Row]] /\ row[a] \in [Prefix -> Row]
  BY Zenon DEF TypeOK
<1>2. row' = [row EXCEPT ![a] = [row[a] EXCEPT ![p] = g]]
  BY Zenon DEF WriteRow
<1>3. row'[a] = [row[a] EXCEPT ![p] = g] /\ \A b \in Attachment : b # a => row'[b] = row[b]
  BY Zenon, <1>1, <1>2
<1>4. row'[a][p] = g /\ \A q \in Prefix : q # p => row'[a][q] = row[a][q]
  BY Zenon, <1>1, <1>3
<1> QED
  BY Zenon, <1>3, <1>4

(* It is written. *)
LEMMA RowSetThere ==
  ASSUME TypeOK, NEW a \in Attachment, NEW p \in Prefix, NEW g, WriteRow(a, p, g)
  PROVE  row'[a][p] = g
  BY Zenon, RowSet

(* A gate past its deadline is closed. *)
LEMMA PastDeadline ==
  /\ ~Open(NoRow)
  /\ \A g, e : ~Open(ClosedRow(g, e))
<1>1. ~(Duration < Duration)
  BY EdgeAssumption
<1>2. ~Open(NoRow)
  BY Zenon, <1>1, Blanks DEF Open
<1>3. ASSUME NEW g, NEW e PROVE ~Open(ClosedRow(g, e))
  <2>1. [epoch |-> e, age |-> Duration].age = Duration
    BY Zenon
  <2> QED
    BY Zenon, <1>1, <1>2, <2>1 DEF ClosedRow, Open
<1> QED
  BY Zenon, <1>2, <1>3

(* But for time, a gate changes by being closed or by GateOpen. *)
LEMMA RowSteps ==
  ASSUME TypeOK, [Next]_vars, ~Tick, NEW b \in Attachment, NEW q \in Prefix
  PROVE  \/ row'[b][q] = row[b][q]
         \/ ~Open(row'[b][q])
         \/ \E r \in Route : pfx[r] = q /\ GateOpen(b, r)
<1>1. ASSUME NEW a \in Attachment, NEW p \in Prefix, NEW g, ~Open(g),
             WriteRow(a, p, g)
      PROVE  row'[b][q] = row[b][q] \/ ~Open(row'[b][q])
  <2>1. /\ row'[a][p] = g
        /\ \A c \in Attachment, s \in Prefix : c # a \/ s # p => row'[c][s] = row[c][s]
    BY Zenon, <1>1, RowSet
  <2> QED
    BY Zenon, <1>1, <2>1
<1>2. CASE UNCHANGED row
  BY Zenon, <1>2
<1>3. ASSUME NEW a \in Attachment, NEW r \in Route, GateRemove(a, r) \/ GateClose(a, r)
      PROVE  row'[b][q] = row[b][q] \/ ~Open(row'[b][q])
  <2>1. pfx[r] \in Prefix
    BY Zenon, Parts
  <2>2. \E g : ~Open(g) /\ WriteRow(a, pfx[r], g)
    BY Zenon, <1>3, PastDeadline DEF GateRemove, GateClose, SetRow, WriteRow
  <2> QED
    BY Zenon, <1>1, <2>1, <2>2
<1>4. ASSUME NEW a \in Attachment, NEW p \in Prefix, SweepGates(a, p)
      PROVE  row'[b][q] = row[b][q] \/ ~Open(row'[b][q])
  BY Zenon, <1>1, <1>4, PastDeadline DEF SweepGates, WriteRow
<1>5. ASSUME NEW a \in Attachment, NEW r \in Route, GateOpen(a, r)
      PROVE  row'[b][q] = row[b][q] \/ \E s \in Route : pfx[s] = q /\ GateOpen(b, s)
  <2>1. pfx[r] \in Prefix
    BY Zenon, Parts
  <2>2. PICK g : WriteRow(a, pfx[r], g)
    BY Zenon, <1>5 DEF GateOpen, SetRow, WriteRow
  <2>3. \A c \in Attachment, s \in Prefix : c # a \/ s # pfx[r] => row'[c][s] = row[c][s]
    BY Zenon, <2>1, <2>2, RowSet
  <2> QED
    BY Zenon, <1>5, <2>3
<1>6. CASE Commit \/ PassFails \/ SweepRead \/ SweepWrite \/ LeaderChange
  BY Zenon, <1>2, <1>6 DEF Commit, PassFails, SweepRead, SweepWrite, LeaderChange
<1>7. ASSUME NEW r \in Route,
             DeleteRoute(r) \/ Revoke(r) \/ CreateIndex(r) \/ Observe(r) \/ Accept(r) \/ Status(r)
      PROVE  UNCHANGED row
  BY Zenon, <1>7 DEF DeleteRoute, Revoke, CreateIndex, Observe, Accept, Status
<1>8. ASSUME NEW a \in Attachment, LeaseWrite(a) \/ LeaseEnd(a)
      PROVE  UNCHANGED row
  BY Zenon, <1>8 DEF LeaseWrite, LeaseEnd
<1>9. ASSUME NEW a \in Attachment, NEW r \in Route, Claim(a, r) \/ Release(a, r)
      PROVE  UNCHANGED row
  BY Zenon, <1>9 DEF Claim, Release
<1>10. CASE UNCHANGED vars
  BY Zenon, <1>10 DEF vars
<1> QED
  BY Zenon, <1>2, <1>3, <1>4, <1>5, <1>6, <1>7, <1>8, <1>9, <1>10 DEF Next

(* What GateOpen does, and to whose gate. *)
LEMMA GateOpened ==
  ASSUME TypeOK, NEW a \in Attachment, NEW r \in Route, GateOpen(a, r)
  PROVE  /\ Live(r) /\ rt[r].acc.att = a /\ rt[r].acc.epoch > rt[r].closed
         /\ rt[r].accepted /\ ~(rt[r].claim.epoch = rt[r].acc.epoch /\ rt[r].released)
         /\ Holds(rt[r].acc, lease)
         /\ row'[a][pfx[r]].age >= lease[a].age /\ lease[a].age < Duration
<1>1. PICK age \in lease[a].age..(Duration - 1) :
        WriteRow(a, pfx[r], [epoch |-> rt[r].acc.epoch, age |-> age])
  BY Zenon DEF GateOpen, SetRow, WriteRow
<1>2. row'[a][pfx[r]] = [epoch |-> rt[r].acc.epoch, age |-> age]
  <2> DEFINE g == [epoch |-> rt[r].acc.epoch, age |-> age]
  <2>1. pfx[r] \in Prefix /\ WriteRow(a, pfx[r], g)
    BY Zenon, <1>1, Parts
  <2> HIDE DEF g
  <2>2. row'[a][pfx[r]] = g
    BY Zenon, <2>1, RowSetThere
  <2> QED
    BY Zenon, <2>2 DEF g
<1>3. row'[a][pfx[r]].age = age
  BY <1>2
<1>4. lease[a].age \in Age
  BY Zenon, Parts DEF LeaseRecord
<1>5. age >= lease[a].age /\ lease[a].age < Duration
  BY <1>1, <1>4, EdgeAssumption DEF Age
<1>6. Live(r) /\ rt[r].acc.att = a /\ ~(rt[r].acc.epoch <= rt[r].closed)
      /\ rt[r].accepted /\ ~(rt[r].claim.epoch = rt[r].acc.epoch /\ rt[r].released)
      /\ Holds(rt[r].acc, lease)
  BY Zenon DEF GateOpen, Moved, GateEnded, LeaseHeld, Holds
<1>7. rt[r].acc.epoch > rt[r].closed
  <2>1. rt[r].acc.epoch \in Nat /\ rt[r].closed \in Epoch
    BY Zenon, Parts, RouteParts, HolderParts
  <2> QED
    BY <1>6, <2>1, EdgeAssumption DEF Epoch
<1> QED
  BY Zenon, <1>3, <1>5, <1>6, <1>7

(* Of an age and a wait in step, both capped. *)
LEMMA AgeInStep ==
  ASSUME NEW t \in Age, NEW w \in 0..TakeoverWait, NEW by \in Slow..Fast, NEW lby \in Slow..Fast,
         AtMost(t + by, Duration) < Duration
  PROVE  /\ t < Duration
         /\ t * Fast >= w * Slow =>
              AtMost(t + by, Duration) * Fast >= AtMost(w + lby, TakeoverWait) * Slow
<1>1. /\ Slow \in Nat /\ Fast \in Nat /\ Duration \in Nat /\ TakeoverWait \in Nat
      /\ t \in Nat /\ w \in Nat /\ by \in Nat /\ lby \in Nat /\ lby <= Fast /\ by >= Slow
  BY EdgeAssumption, WaitCovers DEF Age
<1>2. t < Duration /\ AtMost(t + by, Duration) = t + by
  BY <1>1 DEF AtMost
<1>3. AtMost(w + lby, TakeoverWait) <= w + lby /\ AtMost(w + lby, TakeoverWait) \in Nat
      /\ w + lby \in Nat
  BY <1>1 DEF AtMost
<1>4. AtMost(w + lby, TakeoverWait) * Slow <= (w + lby) * Slow
  BY Zenon, <1>1, <1>3, Scaled
<1>5. t * Fast >= w * Slow => (t + by) * Fast >= (w + lby) * Slow
  BY Zenon, <1>1, TickInStep
<1> DEFINE x == AtMost(w + lby, TakeoverWait) * Slow
           y == (w + lby) * Slow
           z == (t + by) * Fast
<1>6. x \in Nat /\ y \in Nat /\ z \in Nat
  BY <1>1, <1>3
<1>7. x <= y /\ (t * Fast >= w * Slow => z >= y)
  BY Zenon, <1>4, <1>5
<1> HIDE DEF x, y, z
<1>8. z >= y => z >= x
  BY <1>6, <1>7
<1> QED
  BY Zenon, <1>2, <1>7, <1>8 DEF x, z

(* A tick: the gates, the leases and the leader's waits go on together. *)
LEMMA TickTogether ==
  ASSUME TypeOK, Tick
  PROVE  \E lby \in Slow..Fast :
           /\ \A b \in Attachment, q \in Prefix :
                /\ Open(row'[b][q]) => Open(row[b][q])
                /\ \A w \in 0..TakeoverWait : RunsOut(row[b][q], w) =>
                     RunsOut(row'[b][q], AtMost(w + lby, TakeoverWait))
           /\ \A b \in Attachment :
                /\ lease'[b].term = lease[b].term /\ lease'[b].held = lease[b].held
                /\ lease[b].held /\ lease'[b].age < Duration =>
                     /\ lease[b].age < Duration
                     /\ \A w \in 0..TakeoverWait : lease[b].age * Fast >= w * Slow =>
                          lease'[b].age * Fast >= AtMost(w + lby, TakeoverWait) * Slow
           /\ \A r \in Route :
                /\ obs'[r] = IF obs[r] = Unseen THEN Unseen ELSE Longer(obs[r], lby)
                /\ marks'[r] = IF marks[r] = NoMark THEN NoMark ELSE Longer(marks[r], lby)
<1>1. PICK by \in [Attachment -> Slow..Fast], lby \in Slow..Fast :
        /\ lease' = [a \in Attachment |->
             IF lease[a].held THEN Older(lease[a], by[a]) ELSE lease[a]]
        /\ row' = [a \in Attachment |-> [p \in Prefix |-> Older(row[a][p], by[a])]]
        /\ obs' = [r \in Route |-> IF obs[r] = Unseen THEN Unseen ELSE Longer(obs[r], lby)]
        /\ marks' = [r \in Route |-> IF marks[r] = NoMark THEN NoMark ELSE Longer(marks[r], lby)]
  BY Zenon DEF Tick
<1>2. \A a \in Attachment : by[a] \in Slow..Fast
  BY Zenon
<1>3. ASSUME NEW b \in Attachment, NEW q \in Prefix
      PROVE  /\ Open(row'[b][q]) => Open(row[b][q])
             /\ \A w \in 0..TakeoverWait : RunsOut(row[b][q], w) =>
                  RunsOut(row'[b][q], AtMost(w + lby, TakeoverWait))
  <2>1. row'[b][q] = Older(row[b][q], by[b])
    BY Zenon, <1>1
  <2>2. row'[b][q].age = AtMost(row[b][q].age + by[b], Duration) /\ row[b][q].age \in Age
    <3>1. row[b][q] \in Row /\ by[b] \in Slow..Fast
      BY Zenon, <1>2, Parts
    <3>2. Older(row[b][q], by[b]).age = AtMost(row[b][q].age + by[b], Duration)
      BY Zenon, <3>1, Aging
    <3>3. row[b][q].age \in Age
      BY Zenon, <3>1 DEF Row
    <3> QED
      BY Zenon, <2>1, <3>2, <3>3
  <2>3. Open(row'[b][q]) => Open(row[b][q])
    <3>1. 0 \in 0..TakeoverWait
      BY Zenon, Initials
    <3> QED
      BY Zenon, <1>2, <2>2, <3>1, AgeInStep DEF Open
  <2>4. ASSUME NEW w \in 0..TakeoverWait, RunsOut(row[b][q], w), Open(row'[b][q])
        PROVE  row'[b][q].age * Fast >= AtMost(w + lby, TakeoverWait) * Slow
    <3>1. row[b][q].age * Fast >= w * Slow
      BY Zenon, <2>3, <2>4 DEF RunsOut
    <3>2. AtMost(row[b][q].age + by[b], Duration) < Duration
      BY Zenon, <2>2, <2>4 DEF Open
    <3> QED
      BY Zenon, <1>2, <2>2, <3>1, <3>2, AgeInStep
  <2> QED
    BY Zenon, <2>3, <2>4 DEF RunsOut
<1>4. ASSUME NEW b \in Attachment
      PROVE  /\ lease'[b].term = lease[b].term /\ lease'[b].held = lease[b].held
             /\ lease[b].held /\ lease'[b].age < Duration =>
                  /\ lease[b].age < Duration
                  /\ \A w \in 0..TakeoverWait : lease[b].age * Fast >= w * Slow =>
                       lease'[b].age * Fast >= AtMost(w + lby, TakeoverWait) * Slow
  <2>1. lease'[b] = IF lease[b].held THEN Older(lease[b], by[b]) ELSE lease[b]
    BY Zenon, <1>1
  <2>2. lease[b] \in LeaseRecord /\ lease[b].age \in Age
    BY Zenon, Parts DEF LeaseRecord
  <2>3. /\ Older(lease[b], by[b]).term = lease[b].term /\ Older(lease[b], by[b]).held = lease[b].held
        /\ Older(lease[b], by[b]).age = AtMost(lease[b].age + by[b], Duration)
    BY Zenon, <1>2, <2>2, Aging
  <2>4. lease'[b].term = lease[b].term /\ lease'[b].held = lease[b].held
    BY Zenon, <2>1, <2>3
  <2>5. ASSUME lease[b].held, lease'[b].age < Duration
        PROVE  /\ lease[b].age < Duration
               /\ \A w \in 0..TakeoverWait : lease[b].age * Fast >= w * Slow =>
                    lease'[b].age * Fast >= AtMost(w + lby, TakeoverWait) * Slow
    <3>1. lease'[b].age = AtMost(lease[b].age + by[b], Duration)
      BY Zenon, <2>1, <2>3, <2>5
    <3>2. AtMost(lease[b].age + by[b], Duration) < Duration /\ 0 \in 0..TakeoverWait
      BY Zenon, <2>5, <3>1, Initials
    <3> QED
      BY Zenon, <1>2, <2>2, <3>1, <3>2, AgeInStep
  <2> QED
    BY Zenon, <2>4, <2>5
<1>5. ASSUME NEW r \in Route
      PROVE  /\ obs'[r] = IF obs[r] = Unseen THEN Unseen ELSE Longer(obs[r], lby)
             /\ marks'[r] = IF marks[r] = NoMark THEN NoMark ELSE Longer(marks[r], lby)
  BY Zenon, <1>1
<1> QED
  BY Zenon, <1>3, <1>4, <1>5
-----------------------------------------------------------------------------
(* What may become of a route. *)

(* Its acceptance loses force: a release, a revocation or a closing. *)
Weaker(o, n) ==
  /\ o.state = "live" /\ n.state = "live" /\ n.claim = o.claim /\ n.acc = o.acc
  /\ n.closed \in {o.closed, o.acc.epoch}
  /\ n.accepted => o.accepted
  /\ o.released => n.released

(* It is claimed again. *)
ClaimedAgain(o, n) ==
  /\ o.state = "live" \/ (o.acc = NoHolder /\ ~o.accepted)
  /\ n.state = "live" /\ n.acc = o.acc /\ n.closed = o.closed /\ n.accepted = o.accepted
  /\ ~n.released
  /\ n.claim.epoch = o.claim.epoch + 1
  /\ o.released /\ o.acc.epoch = o.claim.epoch => MayReclaim \/ o.closed >= o.claim.epoch

(* Its last claim is accepted. *)
AcceptedAs(c, o, n) ==
  /\ o.state = "live" /\ n.state = "live" /\ o.claim = c /\ n.claim = c /\ n.acc = c
  /\ n.closed = o.closed /\ n.released = o.released
  /\ o.acc.epoch < c.epoch /\ o.closed < c.epoch

Change(r) ==
  \/ rt'[r] = rt[r]
  \/ Weaker(rt[r], rt'[r]) /\ (rt'[r].closed = rt[r].closed \/ \E a \in Attachment : GateClose(a, r))
  \/ rt'[r].state # "live"
  \/ ClaimedAgain(rt[r], rt'[r]) /\ \E a \in Attachment : Claim(a, r)
  \/ AcceptedAs(rt[r].claim, rt[r], rt'[r]) /\ Status(r)
  \/ AcceptedAs(pass.claim, rt[r], rt'[r]) /\ Commit /\ pass.r = r

(* A write that weakens a route. *)
LEMMA WeakerWrites ==
  ASSUME TypeOK, NEW r \in Route, Live(r)
  PROVE  /\ Weaker(rt[r], [rt[r] EXCEPT !.released = TRUE])
         /\ Weaker(rt[r], [rt[r] EXCEPT !.accepted = FALSE])
         /\ Weaker(rt[r], [rt[r] EXCEPT !.closed = rt[r].acc.epoch])
         /\ [rt[r] EXCEPT !.released = TRUE].closed = rt[r].closed
         /\ [rt[r] EXCEPT !.accepted = FALSE].closed = rt[r].closed
<1> DEFINE o == rt[r]
           x == [rt[r] EXCEPT !.released = TRUE]
           y == [rt[r] EXCEPT !.accepted = FALSE]
           z == [rt[r] EXCEPT !.closed = rt[r].acc.epoch]
<1>1. o \in RouteObject /\ o.state = "live"
  BY Zenon, Parts DEF Live
<1>2. /\ x.state = o.state /\ x.claim = o.claim /\ x.acc = o.acc /\ x.closed = o.closed
      /\ x.accepted = o.accepted /\ x.released = TRUE
  BY Zenon, <1>1 DEF RouteObject
<1>3. /\ y.state = o.state /\ y.claim = o.claim /\ y.acc = o.acc /\ y.closed = o.closed
      /\ y.accepted = FALSE /\ y.released = o.released
  BY Zenon, <1>1 DEF RouteObject
<1>4. /\ z.state = o.state /\ z.claim = o.claim /\ z.acc = o.acc /\ z.closed = o.acc.epoch
      /\ z.accepted = o.accepted /\ z.released = o.released
  BY Zenon, <1>1 DEF RouteObject
<1> HIDE DEF x, y, z
<1>5. Weaker(o, x) /\ Weaker(o, y) /\ Weaker(o, z)
  BY Zenon, <1>1, <1>2, <1>3, <1>4 DEF Weaker
<1> QED
  BY Zenon, <1>2, <1>3, <1>5 DEF x, y, z

(* A route that is not there has nothing accepted. *)
LEMMA Vacant ==
  ASSUME NEW o, o = [NewRoute EXCEPT !.state = o.state]
  PROVE  o.acc = NoHolder /\ o.claim = NoHolder /\ ~o.accepted /\ ~o.released /\ o.closed = 0
<1>1. ASSUME NEW x PROVE
        LET n == [NewRoute EXCEPT !.state = x]
        IN n.acc = NoHolder /\ n.claim = NoHolder /\ ~n.accepted /\ ~n.released /\ n.closed = 0
  BY DEF NewRoute
<1> QED
  BY Zenon, <1>1

(* A claim. *)
LEMMA ClaimChange ==
  ASSUME TypeOK, StateInv, NEW a \in Attachment, NEW r \in Route, Claim(a, r)
  PROVE  ClaimedAgain(rt[r], Claimed(a, r))
<1> DEFINE o == rt[r]
           n == Claimed(a, r)
<1>1. o \in RouteObject
  BY Zenon, Parts
<1>2. /\ n.state = "live" /\ n.acc = o.acc /\ n.closed = o.closed /\ n.accepted = o.accepted
      /\ n.released = FALSE
      /\ n.claim = [epoch |-> o.claim.epoch + 1, att |-> a, term |-> lease[a].term]
  BY <1>1 DEF Claimed, RouteObject
<1> HIDE DEF n
<1>3. n.claim.epoch = o.claim.epoch + 1
  BY <1>2
<1>4. o.released /\ o.acc.epoch = o.claim.epoch => MayReclaim \/ o.closed >= o.claim.epoch
  BY Zenon DEF Claim
<1>5. o.state = "live" \/ (o.acc = NoHolder /\ ~o.accepted)
  <2>1. CASE Live(r)
    BY Zenon, <2>1 DEF Live
  <2>2. CASE ~Live(r)
    <3>1. o = [NewRoute EXCEPT !.state = o.state]
      BY Zenon, <2>2 DEF StateInv
    <3> QED
      BY Zenon, <3>1, Vacant
  <2> QED
    BY Zenon, <2>1, <2>2
<1>6. ClaimedAgain(o, n)
  BY Zenon, <1>2, <1>3, <1>4, <1>5 DEF ClaimedAgain
<1> QED
  BY Zenon, <1>6 DEF n

(* An acceptance. *)
LEMMA AcceptChange ==
  ASSUME TypeOK, HolderInv, NEW r \in Route, NEW n, Live(r),
         n.state = rt[r].state, n.claim = rt[r].claim, n.acc = rt[r].claim, n.closed = rt[r].closed,
         n.released = rt[r].released, rt[r].acc.epoch < rt[r].claim.epoch
  PROVE  AcceptedAs(rt[r].claim, rt[r], n)
<1>1. rt[r].closed <= rt[r].acc.epoch
  BY Zenon DEF HolderInv, Ordered
<1>2. rt[r].closed \in Epoch /\ rt[r].acc.epoch \in Nat /\ rt[r].claim.epoch \in Nat
  BY Zenon, Parts, RouteParts, HolderParts
<1>3. rt[r].closed < rt[r].claim.epoch
  BY <1>1, <1>2, EdgeAssumption DEF Epoch
<1> QED
  BY Zenon, <1>3 DEF AcceptedAs, Live

(* Every step. *)
LEMMA RouteChange ==
  ASSUME TypeOK, RecordsInv, [Next]_vars, NEW s \in Route
  PROVE  Change(s)
<1>1. StateInv /\ NameInv /\ HolderInv /\ LeaseInv /\ PassInv /\ IndexInv
  BY Zenon DEF RecordsInv
<1>2. ASSUME UNCHANGED rt PROVE Change(s)
  BY Zenon, <1>2 DEF Change
<1>3. ASSUME NEW r \in Route, NEW new, WriteRoute(r, new)
      PROVE  rt'[r] = new /\ (s # r => rt'[s] = rt[s])
  BY Zenon, <1>1, <1>3, RouteWritten
<1>4. CASE Tick \/ PassFails \/ SweepRead \/ SweepWrite \/ LeaderChange
  BY Zenon, <1>2, <1>4 DEF Tick, PassFails, SweepRead, SweepWrite, LeaderChange
<1>5. CASE Commit
  <2>1. pass.r # s => rt'[s] = rt[s]
    BY Zenon, <1>1, <1>5, CommitRoute
  <2>2. CASE pass.r = s
    <3>1. \/ rt'[s] = rt[s]
          \/ /\ Live(s) /\ pass.claim = rt[s].claim
             /\ rt'[s].state = rt[s].state /\ rt'[s].claim = pass.claim
             /\ rt'[s].acc = pass.claim /\ rt'[s].closed = rt[s].closed
             /\ rt'[s].released = rt[s].released
      BY Zenon, <1>1, <1>5, <2>2, CommitRoute
    <3>2. Live(s) => rt[s].acc.epoch < pass.claim.epoch
      BY Zenon, <1>1, <1>5, <2>2 DEF Commit, PassInv, Committable, Live
    <3> QED
      BY Zenon, <1>1, <1>5, <2>2, <3>1, <3>2, AcceptChange DEF Change
  <2> QED
    BY Zenon, <2>1, <2>2 DEF Change
<1>6. ASSUME NEW r \in Route, CreateIndex(r) \/ Observe(r) \/ Accept(r)
      PROVE  Change(s)
  BY Zenon, <1>2, <1>6 DEF CreateIndex, Observe, Accept
<1>7. ASSUME NEW r \in Route, DeleteRoute(r) PROVE Change(s)
  <2>1. [NewRoute EXCEPT !.state = "gone"].state # "live"
    BY DEF NewRoute
  <2> QED
    BY Zenon, <1>3, <1>7, <2>1 DEF DeleteRoute, Change
<1>8. ASSUME NEW r \in Route, Status(r) PROVE Change(s)
  <2>1. WriteRoute(r, Accepted(r, rt[r].claim)) /\ Live(r)
    BY Zenon, <1>8 DEF Status, Acceptable
  <2> DEFINE n == Accepted(r, rt[r].claim)
  <2>2. n.state = rt[r].state /\ n.claim = rt[r].claim /\ n.acc = rt[r].claim
        /\ n.closed = rt[r].closed /\ n.released = rt[r].released
    BY Zenon, Parts DEF Accepted, RouteObject
  <2>3. rt[r].acc.epoch < rt[r].claim.epoch
    <3>1. rt[r].claim.epoch > rt[r].acc.epoch
      BY Zenon, <1>8 DEF Status, Acceptable
    <3>2. rt[r].acc.epoch \in Nat /\ rt[r].claim.epoch \in Nat
      BY Zenon, Parts, RouteParts, HolderParts
    <3> QED
      BY <3>1, <3>2
  <2> HIDE DEF n
  <2>4. AcceptedAs(rt[r].claim, rt[r], n)
    BY Zenon, <1>1, <2>1, <2>2, <2>3, AcceptChange
  <2> QED
    BY Zenon, <1>3, <1>8, <2>1, <2>4 DEF Change, n
<1>9. ASSUME NEW r \in Route, Revoke(r) PROVE Change(s)
  <2>1. WriteRoute(r, [rt[r] EXCEPT !.accepted = FALSE]) /\ Live(r)
    BY Zenon, <1>9 DEF Revoke
  <2>2. rt'[r] = [rt[r] EXCEPT !.accepted = FALSE] /\ (s # r => rt'[s] = rt[s])
    BY Zenon, <1>3, <2>1
  <2>3. Weaker(rt[r], rt'[r]) /\ rt'[r].closed = rt[r].closed
    BY Zenon, <2>1, <2>2, WeakerWrites
  <2> QED
    BY Zenon, <2>2, <2>3 DEF Change
<1>10. ASSUME NEW a \in Attachment, NEW r \in Route, Release(a, r) PROVE Change(s)
  <2>1. WriteRoute(r, [rt[r] EXCEPT !.released = TRUE]) /\ Live(r)
    BY Zenon, <1>10 DEF Release
  <2>2. rt'[r] = [rt[r] EXCEPT !.released = TRUE] /\ (s # r => rt'[s] = rt[s])
    BY Zenon, <1>3, <2>1
  <2>3. Weaker(rt[r], rt'[r]) /\ rt'[r].closed = rt[r].closed
    BY Zenon, <2>1, <2>2, WeakerWrites
  <2> QED
    BY Zenon, <2>2, <2>3 DEF Change
<1>11. ASSUME NEW a \in Attachment, NEW r \in Route, GateClose(a, r) PROVE Change(s)
  <2>1. Live(r) /\ (UNCHANGED rt \/ WriteRoute(r, [rt[r] EXCEPT !.closed = rt[r].acc.epoch]))
    BY Zenon, <1>11 DEF GateClose, Moved, RecordClosed
  <2>2. CASE UNCHANGED rt
    BY Zenon, <1>2, <2>2
  <2>3. CASE WriteRoute(r, [rt[r] EXCEPT !.closed = rt[r].acc.epoch])
    <3>1. rt'[r] = [rt[r] EXCEPT !.closed = rt[r].acc.epoch] /\ (s # r => rt'[s] = rt[s])
      BY Zenon, <1>3, <2>3
    <3>2. Weaker(rt[r], rt'[r])
      BY Zenon, <2>1, <3>1, WeakerWrites
    <3> QED
      BY Zenon, <1>11, <3>1, <3>2 DEF Change
  <2> QED
    BY Zenon, <2>1, <2>2, <2>3
<1>12. ASSUME NEW a \in Attachment, NEW r \in Route, Claim(a, r) PROVE Change(s)
  <2>1. WriteRoute(r, Claimed(a, r)) /\ ClaimedAgain(rt[r], Claimed(a, r))
    BY Zenon, <1>1, <1>12, ClaimedType, ClaimChange
  <2> QED
    BY Zenon, <1>3, <1>12, <2>1 DEF Change
<1>13. ASSUME NEW a \in Attachment, NEW r \in Route, GateRemove(a, r) \/ GateOpen(a, r)
       PROVE  Change(s)
  BY Zenon, <1>2, <1>13 DEF GateRemove, GateOpen
<1>14. ASSUME NEW a \in Attachment, LeaseWrite(a) \/ LeaseEnd(a) PROVE Change(s)
  BY Zenon, <1>2, <1>14 DEF LeaseWrite, LeaseEnd
<1>15. ASSUME NEW a \in Attachment, NEW p \in Prefix, SweepGates(a, p) PROVE Change(s)
  BY Zenon, <1>2, <1>15 DEF SweepGates
<1>16. CASE UNCHANGED vars
  BY Zenon, <1>2, <1>16 DEF vars
<1> QED
  BY Zenon, <1>4, <1>5, <1>6, <1>7, <1>8, <1>9, <1>10, <1>11, <1>12, <1>13, <1>14, <1>15, <1>16 DEF Next

(* The prefix of a route does not change. *)
LEMMA SamePrefix == ASSUME [Next]_vars PROVE UNCHANGED pfx
<1>1. CASE Tick \/ Commit \/ PassFails \/ SweepRead \/ SweepWrite \/ LeaderChange
  BY Zenon, <1>1 DEF Tick, Commit, PassFails, SweepRead, SweepWrite, LeaderChange
<1>2. ASSUME NEW r \in Route,
             DeleteRoute(r) \/ Revoke(r) \/ CreateIndex(r) \/ Observe(r) \/ Accept(r) \/ Status(r)
      PROVE  UNCHANGED pfx
  BY Zenon, <1>2 DEF DeleteRoute, Revoke, CreateIndex, Observe, Accept, Status
<1>3. ASSUME NEW a \in Attachment, NEW r \in Route,
             \/ Claim(a, r) \/ Release(a, r)
             \/ GateRemove(a, r) \/ GateClose(a, r) \/ GateOpen(a, r)
      PROVE  UNCHANGED pfx
  BY Zenon, <1>3 DEF Claim, Release, GateRemove, GateClose, GateOpen
<1>4. ASSUME NEW a \in Attachment,
             LeaseWrite(a) \/ LeaseEnd(a) \/ \E p \in Prefix : SweepGates(a, p)
      PROVE  UNCHANGED pfx
  BY Zenon, <1>4 DEF LeaseWrite, LeaseEnd, SweepGates
<1>5. CASE UNCHANGED vars
  BY Zenon, <1>5 DEF vars
<1> QED
  BY Zenon, <1>1, <1>2, <1>3, <1>4, <1>5 DEF Next

(* Gates open and close one by one. *)
LEMMA GateStays ==
  ASSUME TypeOK, [Next]_vars, NEW b \in Attachment, NEW q \in Prefix, Open(row'[b][q])
  PROVE  Open(row[b][q]) \/ \E r \in Route : pfx[r] = q /\ GateOpen(b, r)
<1>1. CASE Tick
  BY Zenon, <1>1, TickTogether
<1>2. CASE ~Tick
  BY Zenon, <1>2, RowSteps
<1> QED
  BY Zenon, <1>1, <1>2

(* A gate recorded closed stays closed. *)
LEMMA ClosedStep ==
  ASSUME TypeOK, TypeOK', RecordsInv, ClosedIsClosed, [Next]_vars
  PROVE  ClosedIsClosed'
<1>1. StateInv /\ NameInv /\ HolderInv
  BY Zenon DEF RecordsInv
<1>2. UNCHANGED pfx
  BY Zenon, SamePrefix
<1>3. SUFFICES ASSUME NEW r \in Route, rt'[r].state = "live", rt'[r].acc.epoch > 0,
                      rt'[r].closed >= rt'[r].acc.epoch
               PROVE  ~Open(row'[rt'[r].acc.att][pfx[r]])
  BY Zenon, <1>2 DEF ClosedIsClosed, Live
<1>4. ASSUME Live(r), rt'[r].acc = rt[r].acc, rt'[r].closed = rt[r].closed
      PROVE  ~Open(row'[rt'[r].acc.att][pfx[r]])
  <2> DEFINE b == rt[r].acc.att
  <2>1. rt[r].acc.epoch > 0 /\ rt[r].closed >= rt[r].acc.epoch
    BY Zenon, <1>3, <1>4
  <2>2. b \in Attachment /\ pfx[r] \in Prefix
    <3>1. ~(NoHolder.epoch > 0)
      BY Blanks
    <3> QED
      BY Zenon, <1>1, <2>1, <3>1, Parts DEF HolderInv, Ordered, Known
  <2>3. ~Open(row[b][pfx[r]])
    BY Zenon, <1>4, <2>1 DEF ClosedIsClosed
  <2>4. ASSUME NEW s \in Route, pfx[s] = pfx[r], GateOpen(b, s) PROVE FALSE
    <3>1. Live(s) /\ rt[s].acc.epoch > rt[s].closed
      BY Zenon, <2>2, <2>4, GateOpened
    <3>2. s = r
      BY Zenon, <1>1, <1>4, <2>4, <3>1 DEF NameInv
    <3>3. rt[r].closed \in Epoch /\ rt[r].acc.epoch \in Nat
      BY Zenon, Parts, RouteParts, HolderParts
    <3>4. rt[r].acc.epoch > rt[r].closed
      BY Zenon, <3>1, <3>2
    <3> QED
      BY <2>1, <3>3, <3>4, EdgeAssumption DEF Epoch
  <2> QED
    BY Zenon, <1>4, <2>2, <2>3, <2>4, GateStays
<1>5. ASSUME NEW a \in Attachment, GateClose(a, r), rt'[r].acc = rt[r].acc
      PROVE  ~Open(row'[rt'[r].acc.att][pfx[r]])
  <2> DEFINE g == ClosedRow(row[a][pfx[r]], rt[r].acc.epoch)
  <2>1. WriteRow(a, pfx[r], g) /\ rt[r].acc.att = a
    BY Zenon, <1>5 DEF GateClose, Moved, SetRow, WriteRow
  <2>2. ~Open(g) /\ pfx[r] \in Prefix
    BY Zenon, PastDeadline, Parts
  <2> HIDE DEF g
  <2>3. row'[a][pfx[r]] = g
    BY Zenon, <2>1, <2>2, RowSetThere
  <2> QED
    BY Zenon, <1>5, <2>1, <2>2, <2>3
<1>6. Change(r)
  BY Zenon, RouteChange
<1>7. CASE rt'[r] = rt[r]
  BY Zenon, <1>3, <1>4, <1>7 DEF Live
<1>8. CASE Weaker(rt[r], rt'[r]) /\ (rt'[r].closed = rt[r].closed \/ \E a \in Attachment : GateClose(a, r))
  BY Zenon, <1>4, <1>5, <1>8 DEF Weaker, Live
<1>9. CASE ClaimedAgain(rt[r], rt'[r])
  <2>1. ~(NoHolder.epoch > 0)
    BY Blanks
  <2> QED
    BY Zenon, <1>3, <1>4, <1>9, <2>1 DEF ClaimedAgain, Live
<1>10. ASSUME NEW c, AcceptedAs(c, rt[r], rt'[r]) PROVE FALSE
  <2>1. rt[r].closed < c.epoch /\ rt[r].closed >= c.epoch /\ c = rt[r].claim
    BY Zenon, <1>3, <1>10 DEF AcceptedAs
  <2>2. rt[r].closed \in Epoch /\ rt[r].claim.epoch \in Nat
    BY Zenon, Parts, RouteParts, HolderParts
  <2> QED
    BY <2>1, <2>2, EdgeAssumption DEF Epoch
<1> QED
  BY Zenon, <1>3, <1>6, <1>7, <1>8, <1>9, <1>10 DEF Change
-----------------------------------------------------------------------------
(* What may become of the index and of a pass. *)

(* The entry of a route changes by a commit, or leaves. *)
LEMMA EntryChange ==
  ASSUME TypeOK, RecordsInv, [Next]_vars, NEW s \in Route
  PROVE  \/ idx'.entry[s] = idx.entry[s]
         \/ Commit /\ pass.r = s /\ idx'.entry[s] = pass.claim
         \/ SweepWrite /\ sweep.entry[s] # idx.entry[s] /\ idx'.entry[s] = NoHolder
<1>1. PassInv /\ IndexInv
  BY Zenon DEF RecordsInv
<1>2. ASSUME UNCHANGED idx PROVE idx'.entry[s] = idx.entry[s]
  BY Zenon, <1>2
<1>3. CASE Commit
  BY Zenon, <1>1, <1>3, CommitFacts
<1>4. CASE SweepWrite
  <2>1. idx' = sweep /\ sweep.there
    BY Zenon, <1>4 DEF SweepWrite, WriteIndex
  <2>2. sweep.entry[s] \in {idx.entry[s], NoHolder}
    BY Zenon, <1>1, <2>1 DEF IndexInv
  <2> QED
    BY Zenon, <1>4, <2>1, <2>2
<1>5. ASSUME NEW r \in Route, CreateIndex(r) PROVE idx'.entry[s] = idx.entry[s]
  <2>1. idx'.entry[s] = NoHolder
    BY Zenon, <1>1, <1>5, CreatedEmpty
  <2>2. idx.entry[s] = NoHolder
    BY Zenon, <1>1, <1>5, Blanks DEF IndexInv, CreateIndex
  <2> QED
    BY Zenon, <2>1, <2>2
<1>6. CASE Tick \/ PassFails \/ SweepRead \/ LeaderChange
  BY Zenon, <1>2, <1>6 DEF Tick, PassFails, SweepRead, LeaderChange
<1>7. ASSUME NEW r \in Route, DeleteRoute(r) \/ Revoke(r) \/ Observe(r) \/ Accept(r) \/ Status(r)
      PROVE  UNCHANGED idx
  BY Zenon, <1>7 DEF DeleteRoute, Revoke, Observe, Accept, Status
<1>8. ASSUME NEW a \in Attachment, NEW r \in Route,
             \/ Claim(a, r) \/ Release(a, r)
             \/ GateRemove(a, r) \/ GateClose(a, r) \/ GateOpen(a, r)
      PROVE  UNCHANGED idx
  BY Zenon, <1>8 DEF Claim, Release, GateRemove, GateClose, GateOpen
<1>9. ASSUME NEW a \in Attachment,
             LeaseWrite(a) \/ LeaseEnd(a) \/ \E p \in Prefix : SweepGates(a, p)
      PROVE  UNCHANGED idx
  BY Zenon, <1>9 DEF LeaseWrite, LeaseEnd, SweepGates
<1>10. CASE UNCHANGED vars
  BY Zenon, <1>2, <1>10 DEF vars
<1> QED
  BY Zenon, <1>2, <1>3, <1>4, <1>5, <1>6, <1>7, <1>8, <1>9, <1>10 DEF Next

(* A pass under way is the one that was, or begins with Accept; meanwhile  *)
(* the index is not written.                                               *)
LEMMA PassChange ==
  ASSUME TypeOK, RecordsInv, [Next]_vars
  PROVE  \/ pass' = NoPass
         \/ UNCHANGED idx /\ pass'.r = pass.r /\ pass'.claim = pass.claim /\ pass # NoPass /\ ~Commit
         \/ \E r \in Route : Accept(r)
<1>1. PassInv
  BY Zenon DEF RecordsInv
<1>2. ASSUME UNCHANGED pass, UNCHANGED idx, ~Commit
      PROVE  pass' = NoPass \/ (UNCHANGED idx /\ pass'.r = pass.r /\ pass'.claim = pass.claim /\ pass # NoPass /\ ~Commit)
  BY Zenon, <1>2
<1>3. ASSUME NEW r \in Route, NEW new, WriteRoute(r, new), UNCHANGED idx, ~Commit
      PROVE  pass' = NoPass \/ (UNCHANGED idx /\ pass'.r = pass.r /\ pass'.claim = pass.claim /\ pass # NoPass /\ ~Commit)
  <2>1. pass'.r = pass.r /\ pass'.claim = pass.claim /\ (pass' # NoPass) = (pass # NoPass)
    BY Zenon, <1>1, <1>3, RouteWritten
  <2> QED
    BY Zenon, <1>3, <2>1
<1>4. Commit => pass' = NoPass
  BY Zenon DEF Commit, WriteIndex
<1>5. CASE Commit \/ PassFails \/ SweepWrite
  BY Zenon, <1>4, <1>5 DEF PassFails, SweepWrite, WriteIndex
<1>6. CASE Tick \/ SweepRead \/ LeaderChange
  BY Zenon, <1>2, <1>4, <1>6 DEF Tick, SweepRead, LeaderChange
<1>7. ASSUME NEW r \in Route, CreateIndex(r) PROVE pass' = NoPass
  BY Zenon, <1>7 DEF CreateIndex, WriteIndex
<1>8. ASSUME NEW r \in Route, DeleteRoute(r) \/ Revoke(r) \/ Status(r)
      PROVE  UNCHANGED idx /\ \E new : WriteRoute(r, new)
  BY Zenon, <1>8 DEF DeleteRoute, Revoke, Status
<1>9. ASSUME NEW r \in Route, Observe(r) PROVE UNCHANGED idx /\ UNCHANGED pass
  BY Zenon, <1>9 DEF Observe
<1>10. ASSUME NEW a \in Attachment, NEW r \in Route,
              Claim(a, r) \/ Release(a, r) \/ GateRemove(a, r) \/ GateClose(a, r) \/ GateOpen(a, r)
       PROVE  UNCHANGED idx /\ (UNCHANGED pass \/ \E new : WriteRoute(r, new))
  BY Zenon, <1>10 DEF Claim, Release, GateRemove, GateClose, GateOpen, RecordClosed
<1>11. ASSUME NEW a \in Attachment,
              LeaseWrite(a) \/ LeaseEnd(a) \/ \E p \in Prefix : SweepGates(a, p)
       PROVE  UNCHANGED idx /\ UNCHANGED pass
  BY Zenon, <1>11 DEF LeaseWrite, LeaseEnd, SweepGates
<1>12. CASE UNCHANGED vars
  BY Zenon, <1>2, <1>4, <1>12 DEF vars
<1> QED
  BY Zenon, <1>2, <1>3, <1>4, <1>5, <1>6, <1>7, <1>8, <1>9, <1>10, <1>11, <1>12 DEF Next

(* Leases go forward in every step. *)
LEMMA LeasesForward ==
  ASSUME TypeOK, TypeOK', RecordsInv, [Next]_vars
  PROVE  Forward(lease, lease')
<1>1. LeaseInv
  BY Zenon DEF RecordsInv
<1>2. CASE Tick
  BY Zenon, <1>1, <1>2, TickForward
<1>3. ASSUME NEW r \in Route, Accept(r) PROVE Forward(lease, lease')
  BY Zenon, <1>3, AcceptKeeps
<1>4. ASSUME NEW a \in Attachment, LeaseWrite(a) \/ LeaseEnd(a) PROVE Forward(lease, lease')
  BY Zenon, <1>1, <1>4, ProviderWrites, RenewedForward
<1>5. ASSUME UNCHANGED lease PROVE Forward(lease, lease')
  BY Zenon, <1>1, <1>5, StillForward
<1>6. CASE Commit \/ PassFails \/ SweepRead \/ SweepWrite \/ LeaderChange
  BY Zenon, <1>5, <1>6 DEF Commit, PassFails, SweepRead, SweepWrite, LeaderChange
<1>7. ASSUME NEW r \in Route, DeleteRoute(r) \/ Revoke(r) \/ CreateIndex(r) \/ Observe(r) \/ Status(r)
      PROVE  UNCHANGED lease
  BY Zenon, <1>7 DEF DeleteRoute, Revoke, CreateIndex, Observe, Status
<1>8. ASSUME NEW a \in Attachment, NEW r \in Route,
             \/ Claim(a, r) \/ Release(a, r)
             \/ GateRemove(a, r) \/ GateClose(a, r) \/ GateOpen(a, r)
      PROVE  UNCHANGED lease
  BY Zenon, <1>8 DEF Claim, Release, GateRemove, GateClose, GateOpen
<1>9. ASSUME NEW a \in Attachment, NEW p \in Prefix, SweepGates(a, p) PROVE UNCHANGED lease
  BY Zenon, <1>9 DEF SweepGates
<1>10. CASE UNCHANGED vars
  BY Zenon, <1>5, <1>10 DEF vars
<1> QED
  BY Zenon, <1>2, <1>3, <1>4, <1>5, <1>6, <1>7, <1>8, <1>9, <1>10 DEF Next
-----------------------------------------------------------------------------
(* Who may forward. *)

(* An epoch is a number. *)
LEMMA Numbers ==
  ASSUME TypeOK, NEW r \in Route
  PROVE  /\ rt[r].claim.epoch \in Nat /\ rt[r].acc.epoch \in Nat /\ rt[r].closed \in Nat
         /\ idx.entry[r].epoch \in Nat
         /\ rt[r].claim \in Holder /\ rt[r].acc \in Holder /\ idx.entry[r] \in Holder
<1>1. rt[r].closed \in Epoch /\ rt[r].claim \in Holder /\ rt[r].acc \in Holder /\ idx.entry[r] \in Holder
  BY Zenon, Parts, RouteParts
<1>2. rt[r].closed \in Nat
  BY <1>1, EdgeAssumption DEF Epoch
<1> QED
  BY Zenon, <1>1, <1>2, HolderParts

(* While a route is in the index its entry is what it is fenced from. *)
LEMMA PreviousIsEntry ==
  ASSUME TypeOK, HolderInv, NEW r \in Route, Live(r), idx.entry[r].epoch > 0
  PROVE  Previous(rt[r], idx.entry[r]) = idx.entry[r]
<1>1. rt[r].acc.epoch <= idx.entry[r].epoch /\ (rt[r].acc.epoch = idx.entry[r].epoch => rt[r].acc = idx.entry[r])
  BY Zenon DEF HolderInv, Ordered, Precedes, Live
<1>2. CASE idx.entry[r].epoch > rt[r].acc.epoch
  BY Zenon, <1>2 DEF Previous
<1>3. CASE ~(idx.entry[r].epoch > rt[r].acc.epoch)
  <2>1. rt[r].acc.epoch = idx.entry[r].epoch
    BY <1>1, <1>3, Numbers
  <2> QED
    BY Zenon, <1>1, <1>3, <2>1 DEF Previous
<1> QED
  BY Zenon, <1>2, <1>3

(* Nobody forwards for an entry that is dead. *)
LEMMA DeadBlocks ==
  ASSUME TypeOK, NEW r \in Route, Dead(rt[r], idx.entry[r].epoch)
  PROVE  ~MayForward(r)
<1>1. SUFFICES ASSUME MayForward(r) PROVE FALSE
  BY Zenon
<1>2. Live(r) /\ rt[r].accepted /\ rt[r].closed < rt[r].acc.epoch
      /\ ~(rt[r].claim.epoch = rt[r].acc.epoch /\ rt[r].released)
  BY Zenon, <1>1 DEF MayForward
<1>3. rt[r].acc.epoch > 0 /\ ~(rt[r].closed >= rt[r].acc.epoch)
  BY <1>2, Numbers
<1> QED
  BY Zenon, <1>2, <1>3 DEF Dead, Live

(* An entry to remove is dead. *)
LEMMA RemovalDead ==
  ASSUME NEW r \in Route, Removal(r)
  PROVE  Dead(rt[r], idx.entry[r].epoch)
  BY Zenon DEF Removal, Dead, Live

(* Whoever opens its gate may forward, and is in the index. *)
LEMMA Opener ==
  ASSUME TypeOK, EntryInv, NEW a \in Attachment, NEW r \in Route, GateOpen(a, r)
  PROVE  MayForward(r) /\ idx.entry[r].epoch > 0 /\ idx.entry[r].att = a
<1>1. /\ Live(r) /\ rt[r].acc.att = a /\ rt[r].acc.epoch > rt[r].closed
      /\ rt[r].accepted /\ ~(rt[r].claim.epoch = rt[r].acc.epoch /\ rt[r].released)
      /\ Holds(rt[r].acc, lease)
  BY Zenon, GateOpened
<1>2. rt[r].closed < rt[r].acc.epoch /\ rt[r].acc.epoch > 0 /\ ~(rt[r].closed >= rt[r].acc.epoch)
  BY <1>1, Numbers
<1>3. MayForward(r)
  BY Zenon, <1>1, <1>2 DEF MayForward
<1>4. idx.entry[r].epoch > 0
  BY Zenon, <1>3 DEF EntryInv
<1>5. rt[r].acc.att = idx.entry[r].att
  BY Zenon, <1>1, <1>2, <1>4 DEF EntryInv, Shut
<1> QED
  BY Zenon, <1>1, <1>3, <1>4, <1>5

(* No gate opens while the entry of the index is dead. *)
LEMMA NoOpener ==
  ASSUME TypeOK, EntryInv, IndexInv, NEW r \in Route, idx.entry[r].epoch > 0,
         Dead(rt[r], idx.entry[r].epoch),
         NEW a \in Attachment, NEW s \in Route
  PROVE  ~GateOpen(a, s)
<1>1. SUFFICES ASSUME GateOpen(a, s) PROVE FALSE
  BY Zenon
<1>2. MayForward(s) /\ idx.entry[s].epoch > 0
  BY Zenon, <1>1, Opener
<1>3. s = r
  BY Zenon, <1>2 DEF IndexInv
<1> QED
  BY Zenon, <1>2, <1>3, DeadBlocks

(* An accepted holder that cannot open its gate any more never can. *)
LEMMA ShutStays ==
  ASSUME TypeOK, TypeOK', RecordsInv, [Next]_vars, NEW r \in Route, rt[r].acc.epoch > 0,
         Shut(rt[r], lease), rt'[r].acc = rt[r].acc,
         rt'[r].closed \in {rt[r].closed, rt[r].acc.epoch}
  PROVE  Shut(rt'[r], lease')
<1>1. CASE rt[r].closed >= rt[r].acc.epoch
  <2>1. rt'[r].closed >= rt'[r].acc.epoch
    BY <1>1, Numbers
  <2> QED
    BY Zenon, <2>1 DEF Shut
<1>2. CASE ~Holds(rt[r].acc, lease)
  <2>1. Known(rt[r].acc, lease) /\ rt[r].acc \in Holder
    BY Zenon, Numbers DEF RecordsInv, HolderInv, Ordered
  <2>2. ~Holds(rt[r].acc, lease')
    BY Zenon, <1>2, <2>1, LeasesForward, ForwardKeeps
  <2> QED
    BY Zenon, <2>2 DEF Shut
<1> QED
  BY Zenon, <1>1, <1>2 DEF Shut

(* A route is accepted, or keeps its acceptance. *)
LEMMA AcceptanceKept ==
  ASSUME TypeOK, RecordsInv, [Next]_vars, NEW r \in Route, rt'[r].state = "live"
  PROVE  \/ /\ rt'[r].acc = rt[r].acc /\ rt'[r].closed \in {rt[r].closed, rt[r].acc.epoch}
            /\ Live(r) \/ rt[r].acc.epoch = 0
         \/ rt'[r].acc = rt[r].claim /\ Status(r)
         \/ rt'[r].acc = pass.claim /\ Commit /\ pass.r = r
<1>1. Change(r)
  BY Zenon, RouteChange
<1>2. CASE rt'[r] = rt[r]
  BY Zenon, <1>2 DEF Live
<1>3. CASE Weaker(rt[r], rt'[r])
  BY Zenon, <1>3 DEF Weaker, Live
<1>4. CASE ClaimedAgain(rt[r], rt'[r])
  BY Zenon, <1>4, Blanks DEF ClaimedAgain, Live
<1>5. CASE AcceptedAs(rt[r].claim, rt[r], rt'[r]) /\ Status(r)
  BY Zenon, <1>5 DEF AcceptedAs
<1>6. CASE AcceptedAs(pass.claim, rt[r], rt'[r]) /\ Commit /\ pass.r = r
  BY Zenon, <1>6 DEF AcceptedAs
<1> QED
  BY Zenon, <1>1, <1>2, <1>3, <1>4, <1>5, <1>6 DEF Change

(* Whoever may forward could before, or has just been accepted. *)
LEMMA ForwardBefore ==
  ASSUME TypeOK, TypeOK', RecordsInv, [Next]_vars, ~MayReclaim, NEW r \in Route, MayForward(r)'
  PROVE  MayForward(r) \/ Status(r) \/ (Commit /\ pass.r = r)
<1>1. /\ rt'[r].state = "live" /\ rt'[r].accepted
      /\ rt'[r].closed < rt'[r].acc.epoch
      /\ ~(rt'[r].claim.epoch = rt'[r].acc.epoch /\ rt'[r].released)
  BY Zenon DEF MayForward, Live
<1>2. Change(r)
  BY Zenon, RouteChange
<1>3. CASE rt'[r] = rt[r]
  BY Zenon, <1>1, <1>3 DEF MayForward, Live
<1>4. CASE Weaker(rt[r], rt'[r])
  <2>1. rt[r].closed < rt[r].acc.epoch
    <3>1. rt'[r].acc = rt[r].acc /\ rt'[r].closed \in {rt[r].closed, rt[r].acc.epoch}
      BY Zenon, <1>4 DEF Weaker
    <3>2. ~(rt[r].acc.epoch < rt[r].acc.epoch)
      BY Numbers
    <3> QED
      BY Zenon, <1>1, <3>1, <3>2
  <2> QED
    BY Zenon, <1>1, <1>4, <2>1 DEF Weaker, MayForward, Live
<1>5. CASE ClaimedAgain(rt[r], rt'[r])
  <2>1. rt[r].closed < rt[r].acc.epoch /\ rt[r].accepted /\ Live(r)
    BY Zenon, <1>1, <1>5 DEF ClaimedAgain, Live
  <2>2. ~(rt[r].closed >= rt[r].acc.epoch)
    BY <2>1, Numbers
  <2>3. ~(rt[r].claim.epoch = rt[r].acc.epoch /\ rt[r].released)
    BY Zenon, <1>5, <2>2 DEF ClaimedAgain
  <2> QED
    BY Zenon, <2>1, <2>3 DEF MayForward
<1> QED
  BY Zenon, <1>1, <1>2, <1>3, <1>4, <1>5 DEF Change

(* A dead entry stays dead while it is the entry. *)
LEMMA DeadStays ==
  ASSUME TypeOK, RecordsInv, [Next]_vars, ~MayReclaim, NEW r \in Route, idx.entry[r].epoch > 0,
         Dead(rt[r], idx.entry[r].epoch), ~(Commit /\ pass.r = r)
  PROVE  Dead(rt'[r], idx.entry[r].epoch)
<1> DEFINE e == idx.entry[r].epoch
           o == rt[r]
           n == rt'[r]
<1>0. StateInv /\ HolderInv /\ PassInv
  BY Zenon DEF RecordsInv
<1>1. Change(r)
  BY Zenon, RouteChange
<1>2. CASE rt'[r] = rt[r]
  BY Zenon, <1>2
<1>3. CASE Weaker(o, n)
  <2>1. /\ o.state = "live" /\ n.claim = o.claim /\ n.acc = o.acc
        /\ n.closed \in {o.closed, o.acc.epoch}
        /\ n.accepted => o.accepted
        /\ o.released => n.released
    BY Zenon, <1>3 DEF Weaker
  <2>2. CASE o.acc.epoch = e
    <3>1. e >= e
      BY Numbers
    <3>2. ~o.accepted \/ (o.claim.epoch = e /\ o.released) \/ o.closed >= e
      BY Zenon, <2>1, <2>2 DEF Dead
    <3>3. ~n.accepted \/ (n.claim.epoch = e /\ n.released) \/ n.closed >= e
      BY Zenon, <2>1, <2>2, <3>1, <3>2
    <3> QED
      BY Zenon, <2>1, <2>2, <3>3 DEF Dead
  <2>3. CASE o.acc.epoch # e
    <3>1. ~(o.claim.epoch = e /\ ~o.released) /\ ~(o.acc.epoch > 0 /\ o.accepted /\ o.closed < o.acc.epoch)
      BY Zenon, <2>1, <2>3 DEF Dead
    <3>2. ~(o.acc.epoch < o.acc.epoch)
      BY Numbers
    <3>3. ~(n.claim.epoch = e /\ ~n.released) /\ ~(n.acc.epoch > 0 /\ n.accepted /\ n.closed < n.acc.epoch)
      BY Zenon, <2>1, <3>1, <3>2
    <3> QED
      BY Zenon, <2>1, <2>3, <3>3 DEF Dead
  <2> QED
    BY Zenon, <2>2, <2>3
<1>4. CASE n.state # "live"
  BY Zenon, <1>4 DEF Dead
<1>5. CASE ClaimedAgain(o, n) /\ \E a \in Attachment : Claim(a, r)
  <2>1. Live(r)
    <3>1. ~(NoHolder.epoch > 0)
      BY Blanks
    <3> QED
      BY Zenon, <1>0, <1>5, <3>1 DEF Claim, StateInv
  <2>2. /\ o.state = "live" /\ n.acc = o.acc /\ n.closed = o.closed /\ n.accepted = o.accepted
        /\ n.claim.epoch = o.claim.epoch + 1
        /\ o.released /\ o.acc.epoch = o.claim.epoch => o.closed >= o.claim.epoch
    BY Zenon, <1>5, <2>1 DEF ClaimedAgain, Live
  <2>3. n.claim.epoch # e
    <3>1. e <= o.claim.epoch
      BY Zenon, <1>0, <2>2 DEF HolderInv, Ordered, Precedes
    <3> QED
      BY <2>2, <3>1, Numbers
  <2> QED
    BY Zenon, <2>2, <2>3 DEF Dead
<1>6. CASE Status(r)
  <2>1. Live(r) /\ ~o.released /\ o.claim.epoch > o.acc.epoch /\ e = o.claim.epoch
    BY Zenon, <1>6 DEF Status, Acceptable, Committed
  <2>2. o.acc.epoch # e
    BY <2>1, Numbers
  <2> QED
    BY Zenon, <2>1, <2>2 DEF Dead, Live
<1> QED
  BY Zenon, <1>1, <1>2, <1>3, <1>4, <1>5, <1>6 DEF Change
-----------------------------------------------------------------------------
(* Who may forward is in the index, and forwards as its entry says. *)

(* What leaves the index was dead, its gate closed. *)
LEMMA LeavesDead ==
  ASSUME SweepInv, SweepWrite, NEW r \in Route, sweep.entry[r] # idx.entry[r]
  PROVE  Dead(rt[r], idx.entry[r].epoch) /\ ~Open(row[idx.entry[r].att][pfx[r]])
  BY Zenon DEF SweepInv, SweepWrite

(* A claim handed over has an epoch. *)
LEMMA HandedEpoch ==
  ASSUME TypeOK, PassInv, pass # NoPass
  PROVE  pass.r \in Route /\ pass.claim \in Holder /\ pass.claim.epoch > 0
<1>1. pass.r \in Route /\ pass.claim \in Holder /\ pass.claim.epoch > idx.entry[pass.r].epoch
  BY Zenon DEF PassInv, Committable, TypeOK, Pass
<1>2. pass.claim.epoch \in Nat /\ idx.entry[pass.r].epoch \in Nat
  BY Zenon, <1>1, Numbers, HolderParts
<1>3. pass.claim.epoch > 0
  BY <1>1, <1>2
<1> QED
  BY Zenon, <1>1, <1>3

(* A status write follows the entry; an entry leaves when it is dead. *)
LEMMA EntryStep ==
  ASSUME TypeOK, TypeOK', RecordsInv, SafeInv, [Next]_vars, ~MayReclaim
  PROVE  EntryInv'
<1>0. HolderInv /\ PassInv /\ IndexInv /\ EntryInv /\ HandoverInv /\ SweepInv
  BY Zenon DEF RecordsInv, SafeInv
<1>1. Commit => pass # NoPass
  BY Zenon DEF Commit
<1>2. ASSUME NEW r \in Route, MayForward(r)'
      PROVE  idx'.entry[r].epoch > 0
  <2>1. CASE MayForward(r)
    <3>1. idx.entry[r].epoch > 0
      BY Zenon, <1>0, <2>1 DEF EntryInv
    <3>2. CASE idx'.entry[r] = idx.entry[r]
      BY Zenon, <3>1, <3>2
    <3>3. CASE Commit /\ pass.r = r /\ idx'.entry[r] = pass.claim
      BY Zenon, <1>0, <1>1, <3>3, HandedEpoch
    <3>4. CASE SweepWrite /\ sweep.entry[r] # idx.entry[r]
      BY Zenon, <1>0, <2>1, <3>4, LeavesDead, DeadBlocks
    <3> QED
      BY Zenon, <3>2, <3>3, <3>4, EntryChange
  <2>2. CASE Status(r)
    <3>1. idx.entry[r] = rt[r].claim /\ rt[r].claim.epoch > 0
      BY Zenon, <1>0, <2>2, StatusProper
    <3> QED
      BY Zenon, <2>2, <3>1 DEF Status
  <2>3. CASE Commit /\ pass.r = r
    <3>1. idx'.entry[r] = pass.claim
      BY Zenon, <1>0, <2>3, CommitFacts
    <3> QED
      BY Zenon, <1>0, <1>1, <2>3, <3>1, HandedEpoch
  <2> QED
    BY Zenon, <1>2, <2>1, <2>2, <2>3, ForwardBefore
<1>3. ASSUME NEW r \in Route, rt'[r].state = "live", rt'[r].acc.epoch > 0, idx'.entry[r].epoch > 0
      PROVE  rt'[r].acc.att = idx'.entry[r].att \/ Shut(rt'[r], lease')
  <2>1. CASE rt'[r].acc = rt[r].acc /\ rt'[r].closed \in {rt[r].closed, rt[r].acc.epoch}
             /\ (Live(r) \/ rt[r].acc.epoch = 0)
    <3>1. rt[r].acc.epoch > 0 /\ Live(r)
      <4>1. rt[r].acc.epoch > 0
        BY Zenon, <1>3, <2>1
      <4>2. rt[r].acc.epoch # 0
        BY <4>1
      <4> QED
        BY Zenon, <2>1, <4>1, <4>2
    <3>2. Shut(rt[r], lease) => Shut(rt'[r], lease')
      BY Zenon, <2>1, <3>1, ShutStays
    <3>3. CASE idx'.entry[r] = idx.entry[r]
      BY Zenon, <1>0, <1>3, <2>1, <3>1, <3>2, <3>3 DEF EntryInv
    <3>4. CASE Commit /\ pass.r = r /\ idx'.entry[r] = pass.claim
      BY Zenon, <1>0, <1>1, <2>1, <3>1, <3>2, <3>4 DEF HandoverInv
    <3>5. CASE idx'.entry[r] = NoHolder
      <4>1. ~(NoHolder.epoch > 0)
        BY Blanks
      <4> QED
        BY Zenon, <1>3, <3>5, <4>1
    <3> QED
      BY Zenon, <3>3, <3>4, <3>5, EntryChange
  <2>2. CASE rt'[r].acc = rt[r].claim /\ Status(r)
    <3>1. idx.entry[r] = rt[r].claim
      BY Zenon, <1>0, <2>2, StatusProper
    <3> QED
      BY Zenon, <2>2, <3>1 DEF Status
  <2>3. CASE rt'[r].acc = pass.claim /\ Commit /\ pass.r = r
    <3>1. idx'.entry[r] = pass.claim
      BY Zenon, <1>0, <2>3, CommitFacts
    <3> QED
      BY Zenon, <2>3, <3>1
  <2> QED
    BY Zenon, <1>3, <2>1, <2>2, <2>3, AcceptanceKept
<1> QED
  BY Zenon, <1>2, <1>3 DEF EntryInv, Live

(* An open gate is at the attachment of the entry. *)
LEMMA GateStep ==
  ASSUME TypeOK, TypeOK', RecordsInv, SafeInv, [Next]_vars
  PROVE  GateInv'
<1>0. HolderInv /\ PassInv /\ IndexInv /\ EntryInv /\ GateInv /\ HandoverInv /\ SweepInv
  BY Zenon DEF RecordsInv, SafeInv
<1>1. UNCHANGED pfx
  BY Zenon, SamePrefix
<1>2. ASSUME NEW a \in Attachment, NEW p \in Prefix, Open(row'[a][p])
      PROVE  \E r \in Route : pfx[r] = p /\ idx'.entry[r].epoch > 0 /\ idx'.entry[r].att = a
  <2>1. CASE Open(row[a][p])
    <3>1. PICK r \in Route : pfx[r] = p /\ idx.entry[r].epoch > 0 /\ idx.entry[r].att = a
      BY Zenon, <1>0, <2>1 DEF GateInv
    <3>2. CASE idx'.entry[r] = idx.entry[r]
      BY Zenon, <3>1, <3>2
    <3>3. CASE Commit /\ pass.r = r /\ idx'.entry[r] = pass.claim
      <4>1. pass # NoPass
        BY Zenon, <3>3 DEF Commit
      <4>2. a = pass.claim.att /\ pass.claim.epoch > 0
        BY Zenon, <1>0, <2>1, <4>1, HandedEpoch DEF HandoverInv
      <4> QED
        BY Zenon, <3>1, <3>3, <4>2
    <3>4. CASE SweepWrite /\ sweep.entry[r] # idx.entry[r]
      BY Zenon, <1>0, <2>1, <3>1, <3>4, LeavesDead
    <3> QED
      BY Zenon, <3>2, <3>3, <3>4, EntryChange
  <2>2. ASSUME NEW r \in Route, pfx[r] = p, GateOpen(a, r)
        PROVE  \E s \in Route : pfx[s] = p /\ idx'.entry[s].epoch > 0 /\ idx'.entry[s].att = a
    <3>1. idx.entry[r].epoch > 0 /\ idx.entry[r].att = a
      BY Zenon, <1>0, <2>2, Opener
    <3>2. UNCHANGED idx
      BY Zenon, <2>2 DEF GateOpen
    <3> QED
      BY Zenon, <2>2, <3>1, <3>2
  <2> QED
    BY Zenon, <1>2, <2>1, <2>2, GateStays
<1> QED
  BY Zenon, <1>1, <1>2 DEF GateInv
-----------------------------------------------------------------------------
(* A pass that is about to commit has the gates of the route closed but    *)
(* those of the attachment it commits.                                     *)

(* A gate that is in step with a wait that is over is closed. *)
LEMMA OutAfterWait ==
  ASSUME NEW g \in Row, NEW w \in 0..TakeoverWait, w >= TakeoverWait, RunsOut(g, w)
  PROVE  ~Open(g)
<1>1. g.age \in Age
  BY Zenon DEF Row
<1>2. g.age \in Nat /\ Duration \in Nat /\ w \in Nat
  BY <1>1, EdgeAssumption, WaitCovers DEF Age
<1>3. CASE g.age * Fast >= w * Slow
  <2>1. g.age >= Duration
    BY Zenon, <1>2, <1>3, WaitEnds
  <2>2. ~(g.age < Duration)
    BY <1>2, <2>1
  <2> QED
    BY Zenon, <2>2 DEF Open
<1> QED
  BY Zenon, <1>3 DEF RunsOut

(* The previous holder's gate is, when its observation has lasted. *)
LEMMA WaitedOut ==
  ASSUME TypeOK, HolderInv, ObservedInv, NEW r \in Route, NEW prev,
         prev = Previous(rt[r], idx.entry[r]), prev.att \in Attachment, WaitOver(r, prev)
  PROVE  ~Open(row[prev.att][pfx[r]])
<1>1. obs[r].ver # "none" /\ obs[r].epoch = prev.epoch /\ obs[r].waited >= TakeoverWait
  BY Zenon DEF WaitOver, Seen, LeaseVersion
<1>2. RunsOut(row[prev.att][pfx[r]], obs[r].waited)
  BY Zenon, <1>1 DEF ObservedInv, Watched
<1>3. obs[r].waited \in 0..TakeoverWait
  BY Zenon DEF TypeOK, Observation
<1>4. row[prev.att][pfx[r]] \in Row
  BY Zenon, Parts
<1> QED
  BY Zenon, <1>1, <1>2, <1>3, <1>4, OutAfterWait

(* An acceptance recorded closed is the entry's. *)
LEMMA ClosedEntry ==
  ASSUME TypeOK, HolderInv, ClosedIsClosed, NEW r \in Route, Live(r), idx.entry[r].epoch > 0,
         rt[r].closed >= idx.entry[r].epoch
  PROVE  rt[r].acc = idx.entry[r] /\ ~Open(row[idx.entry[r].att][pfx[r]])
<1> DEFINE o == rt[r]
           e == idx.entry[r]
<1>1. o.closed <= o.acc.epoch /\ Precedes(o.acc, e)
  BY Zenon DEF HolderInv, Ordered, Live
<1>2. o.acc.epoch <= e.epoch /\ (o.acc.epoch = e.epoch => o.acc = e)
  BY Zenon, <1>1 DEF Precedes
<1>3. o.closed \in Nat /\ o.acc.epoch \in Nat /\ e.epoch \in Nat
  BY Zenon, Numbers
<1>4. o.closed >= e.epoch
  BY Zenon
<1> HIDE DEF o, e
<1>5. o.acc.epoch = e.epoch
  BY <1>1, <1>2, <1>3, <1>4
<1>6. o.acc = e
  BY Zenon, <1>2, <1>5
<1>7. rt[r].acc.epoch > 0 /\ rt[r].closed >= rt[r].acc.epoch
  BY Zenon, <1>6 DEF o, e
<1> QED
  BY Zenon, <1>6, <1>7 DEF ClosedIsClosed, o, e

(* Accept, which no other entry overlaps, finds the gates of any other     *)
(* attachment closed: recorded closed, or waited for.                      *)
LEMMA HandedGates ==
  ASSUME TypeOK, RecordsInv, ClosedIsClosed, SafeInv, NEW r \in Route, Accept(r), pass' # NoPass,
         NEW a \in Attachment, NEW p \in Prefix, Open(row[a][p])
  PROVE  a = rt[r].claim.att
<1>0. HolderInv /\ LeaseInv /\ GateInv /\ ObservedInv
  BY Zenon DEF RecordsInv, SafeInv
<1>1. PICK s \in Route : pfx[s] = p /\ idx.entry[s].epoch > 0 /\ idx.entry[s].att = a
  BY Zenon, <1>0 DEF GateInv
<1>2. ~Overlapping(r) /\ Live(r)
  BY Zenon DEF Accept, Deciding, Acceptable
<1>3. s = r
  BY Zenon, <1>1, <1>2 DEF Overlapping
<1> DEFINE prev == Previous(rt[r], idx.entry[r])
<1>4. prev = idx.entry[r]
  BY Zenon, <1>0, <1>1, <1>2, <1>3, PreviousIsEntry
<1>5. Fenced(rt[r], prev) \/ WaitOver(r, prev)
  BY Zenon, <1>0, AcceptWrites
<1>6. ~WaitOver(r, prev)
  <2>1. prev.att \in Attachment
    BY Zenon, <1>1, <1>3, <1>4
  <2>2. WaitOver(r, prev) => ~Open(row[prev.att][pfx[r]])
    BY Zenon, <1>0, <2>1, WaitedOut
  <2> QED
    BY Zenon, <1>1, <1>3, <1>4, <2>2
<1>7. prev.epoch # 0
  <2>1. idx.entry[r].epoch > 0
    BY Zenon, <1>1, <1>3
  <2>2. idx.entry[r].epoch # 0
    BY <2>1
  <2> QED
    BY Zenon, <1>4, <2>2
<1>8. ~(rt[r].closed >= prev.epoch)
  BY Zenon, <1>0, <1>1, <1>2, <1>3, <1>4, ClosedEntry
<1>9. prev.att = rt[r].claim.att
  BY Zenon, <1>5, <1>6, <1>7, <1>8 DEF Fenced
<1> QED
  BY Zenon, <1>1, <1>3, <1>4, <1>9

(* And the accepted holder, when it is another, cannot open its gate. *)
LEMMA OlderLost ==
  ASSUME TypeOK, NEW g \in Holder, NEW h \in Holder, Precedes(g, h), g.att = h.att,
         Known(h, lease), h.epoch > 0, ~Holds(h, lease)
  PROVE  ~Holds(g, lease)
<1>1. h.att \in Attachment /\ h.term <= lease[h.att].term
  <2>1. h.epoch # 0
    BY HolderParts
  <2> QED
    BY Zenon, <2>1, Blanks DEF Known
<1>2. g.term <= h.term
  BY Zenon DEF Precedes
<1>3. lease[h.att].term \in Term
  BY Zenon, <1>1 DEF TypeOK, LeaseRecord
<1>4. g.term \in Nat /\ h.term \in Nat /\ lease[h.att].term \in Nat
  <2>1. g.term \in Nat /\ h.term \in Nat
    BY Zenon, HolderParts
  <2> QED
    BY <1>3, <2>1, EdgeAssumption DEF Term
<1>5. lease[h.att].term = g.term => lease[h.att].term = h.term
  BY Zenon, <1>1, <1>2, <1>4, Compared
<1> QED
  BY Zenon, <1>5 DEF Holds

(* What comes before it, of whoever holds the attachment now. *)
LEMMA PreviousFollows ==
  ASSUME TypeOK, HolderInv, EntryInv, NEW r \in Route, Live(r), rt[r].acc.epoch > 0
  PROVE  LET prev == Previous(rt[r], idx.entry[r]) IN
         /\ prev.epoch > 0 /\ prev.epoch >= rt[r].acc.epoch /\ Precedes(rt[r].acc, prev)
         /\ rt[r].acc.att = prev.att \/ Shut(rt[r], lease)
<1> DEFINE o == rt[r]
           e == idx.entry[r]
           prev == Previous(o, e)
<1>1. prev \in Holder /\ prev \in {o.acc, e} /\ prev.epoch >= o.acc.epoch
  BY Zenon, PreviousFacts
<1>2. prev.epoch \in Nat /\ o.acc.epoch \in Nat /\ o.acc \in Holder
  BY Zenon, <1>1, HolderParts, Numbers
<1>3. o.acc.epoch > 0
  BY Zenon
<1>4. CASE e.epoch > 0
  <2>1. prev = e
    BY Zenon, <1>4, PreviousIsEntry
  <2>2. Precedes(o.acc, e)
    BY Zenon, <1>4 DEF HolderInv, Ordered, Live
  <2>3. o.acc.att = e.att \/ Shut(o, lease)
    BY Zenon, <1>3, <1>4 DEF EntryInv
  <2>4. prev.epoch > 0
    BY Zenon, <1>4, <2>1
  <2> QED
    BY Zenon, <1>1, <2>1, <2>2, <2>3, <2>4
<1>5. CASE ~(e.epoch > 0)
  <2>1. prev = o.acc
    <3>1. ~(e.epoch > o.acc.epoch)
      <4>1. e.epoch \in Nat
        BY Zenon, Numbers
      <4> HIDE DEF e, o
      <4> QED
        BY <1>2, <1>5, <4>1
    <3> QED
      BY Zenon, <3>1 DEF Previous
  <2>2. Precedes(o.acc, o.acc)
    BY Zenon, <1>2, PrecedesItself
  <2> QED
    BY Zenon, <1>1, <1>3, <2>1, <2>2
<1> QED
  BY Zenon, <1>4, <1>5

(* Accept finds the accepted holder shut, or fences its lease. *)
LEMMA HandedShut ==
  ASSUME TypeOK, TypeOK', RecordsInv, SafeInv, [Next]_vars, NEW r \in Route, Accept(r),
         rt[r].acc.epoch > 0
  PROVE  rt[r].acc.att = rt[r].claim.att \/ Shut(rt[r], lease')
<1>0. HolderInv /\ LeaseInv /\ EntryInv
  BY Zenon DEF RecordsInv, SafeInv
<1> DEFINE o == rt[r]
           prev == Previous(o, idx.entry[r])
<1>1. Live(r) /\ UNCHANGED rt
  BY Zenon DEF Accept, Deciding, Acceptable
<1>2. Shut(o, lease) => Shut(o, lease')
  <2>1. rt'[r] = rt[r]
    BY Zenon, <1>1
  <2>2. Shut(rt[r], lease) => Shut(rt'[r], lease')
    BY Zenon, <2>1, ShutStays
  <2> QED
    BY Zenon, <2>1, <2>2
<1>3. /\ prev.epoch > 0 /\ prev.epoch >= o.acc.epoch /\ Precedes(o.acc, prev)
      /\ o.acc.att = prev.att \/ Shut(o, lease)
  BY Zenon, <1>0, <1>1, PreviousFollows
<1>4. prev \in Holder /\ Known(prev, lease) /\ o.acc \in Holder
  BY Zenon, <1>0, PreviousFacts, Numbers
<1>5. prev.epoch \in Nat /\ o.acc.epoch \in Nat /\ o.closed \in Nat
  BY Zenon, <1>4, HolderParts, Numbers
<1>6. \/ UNCHANGED <<lease, obs>> /\ (Fenced(o, prev) \/ (WaitOver(r, prev) /\ ~LeaseHeld(prev)))
      \/ prev.att \in Attachment /\ \E new : Renewed(prev.att, new) /\ ~new.held
  BY Zenon, <1>0, AcceptWrites
<1> HIDE DEF o, prev
<1>7. SUFFICES ASSUME o.acc.att = prev.att PROVE o.acc.att = o.claim.att \/ Shut(o, lease')
  BY Zenon, <1>2, <1>3 DEF o
<1>8. CASE Fenced(o, prev)
  <2>1. prev.epoch # 0
    BY <1>3
  <2>2. CASE o.closed >= prev.epoch
    <3>1. o.closed >= o.acc.epoch
      BY Zenon, <1>3, <1>5, <2>2, Compared
    <3> QED
      BY Zenon, <3>1 DEF Shut
  <2> QED
    BY Zenon, <1>7, <1>8, <2>1, <2>2 DEF Fenced
<1>9. CASE ~LeaseHeld(prev) /\ UNCHANGED lease
  <2>1. ~Holds(prev, lease)
    BY Zenon, <1>9 DEF Holds, LeaseHeld
  <2>2. ~Holds(o.acc, lease)
    BY Zenon, <1>3, <1>4, <1>7, <2>1, OlderLost
  <2> QED
    BY Zenon, <1>9, <2>2 DEF Shut
<1>10. CASE prev.att \in Attachment /\ \E new : Renewed(prev.att, new) /\ ~new.held
  <2>1. PICK new : Renewed(prev.att, new) /\ ~new.held
    BY Zenon, <1>10
  <2>2. lease'[prev.att] = new
    BY Zenon, <1>10, <2>1 DEF Renewed, WriteLease, TypeOK
  <2>3. ~Holds(o.acc, lease')
    BY Zenon, <1>7, <2>1, <2>2 DEF Holds
  <2> QED
    BY Zenon, <2>3 DEF Shut
<1> QED
  BY Zenon, <1>6, <1>8, <1>9, <1>10

(* So it stays until the commit, whatever is renewed or opened meanwhile. *)
LEMMA HandoverStep ==
  ASSUME TypeOK, TypeOK', RecordsInv, ClosedIsClosed, SafeInv, [Next]_vars
  PROVE  HandoverInv'
<1>0. PassInv /\ HolderInv /\ EntryInv /\ HandoverInv
  BY Zenon DEF RecordsInv, SafeInv
<1>1. SUFFICES ASSUME pass' # NoPass
               PROVE  /\ \A a \in Attachment, p \in Prefix : Open(row'[a][p]) => a = pass'.claim.att
                      /\ rt'[pass'.r].state = "live" /\ rt'[pass'.r].acc.epoch > 0 =>
                           rt'[pass'.r].acc.att = pass'.claim.att \/ Shut(rt'[pass'.r], lease')
  BY Zenon DEF HandoverInv, Live
<1>2. CASE UNCHANGED idx /\ pass'.r = pass.r /\ pass'.claim = pass.claim /\ pass # NoPass /\ ~Commit
  <2> DEFINE r == pass.r
  <2>1. r \in Route
    BY Zenon, <1>0, <1>2, HandedEpoch
  <2>2. /\ \A a \in Attachment, p \in Prefix : Open(row[a][p]) => a = pass.claim.att
        /\ Live(r) /\ rt[r].acc.epoch > 0 => rt[r].acc.att = pass.claim.att \/ Shut(rt[r], lease)
    BY Zenon, <1>0, <1>2 DEF HandoverInv
  <2>3. ASSUME NEW a \in Attachment, NEW s \in Route, GateOpen(a, s)
        PROVE  a = pass.claim.att
    <3>1. /\ Live(s) /\ rt[s].acc.att = a /\ rt[s].acc.epoch > rt[s].closed
          /\ Holds(rt[s].acc, lease)
      BY Zenon, <2>3, GateOpened
    <3>2. idx.entry[s].epoch > 0
      BY Zenon, <1>0, <2>3, Opener
    <3>3. s = r
      <4>1. ~(NoHolder.epoch > 0)
        BY Blanks
      <4>2. \A t \in Route \ {pass.r} : idx.entry[t] = NoHolder
        BY Zenon, <1>0, <1>2 DEF PassInv
      <4> QED
        BY Zenon, <3>2, <4>1, <4>2
    <3>4. rt[s].acc.epoch > 0 /\ ~(rt[s].closed >= rt[s].acc.epoch)
      <4>1. rt[s].acc.epoch \in Nat /\ rt[s].closed \in Nat
        BY Zenon, Numbers
      <4> QED
        BY <3>1, <4>1
    <3>5. ~Shut(rt[s], lease)
      BY Zenon, <3>1, <3>4 DEF Shut
    <3> QED
      BY Zenon, <2>2, <3>1, <3>3, <3>4, <3>5
  <2>4. \A a \in Attachment, p \in Prefix : Open(row'[a][p]) => a = pass.claim.att
    BY Zenon, <2>2, <2>3, GateStays
  <2>5. ASSUME rt'[r].state = "live", rt'[r].acc.epoch > 0
        PROVE  rt'[r].acc.att = pass.claim.att \/ Shut(rt'[r], lease')
    <3>1. ~Status(r)
      BY Zenon, <1>0, <2>1, StatusProper
    <3>2. /\ rt'[r].acc = rt[r].acc /\ rt'[r].closed \in {rt[r].closed, rt[r].acc.epoch}
          /\ Live(r) \/ rt[r].acc.epoch = 0
      BY Zenon, <1>2, <2>1, <2>5, <3>1, AcceptanceKept
    <3>3. rt[r].acc.epoch > 0
      BY Zenon, <2>5, <3>2
    <3>4. rt[r].acc.epoch # 0
      BY <3>3
    <3>5. Shut(rt[r], lease) => Shut(rt'[r], lease')
      BY Zenon, <2>1, <3>2, <3>3, ShutStays
    <3> QED
      BY Zenon, <2>2, <3>2, <3>3, <3>4, <3>5
  <2> HIDE DEF r
  <2> QED
    BY Zenon, <1>2, <2>4, <2>5 DEF r
<1>3. ASSUME NEW r \in Route, Accept(r)
      PROVE  /\ \A a \in Attachment, p \in Prefix : Open(row'[a][p]) => a = pass'.claim.att
             /\ rt'[pass'.r].state = "live" /\ rt'[pass'.r].acc.epoch > 0 =>
                  rt'[pass'.r].acc.att = pass'.claim.att \/ Shut(rt'[pass'.r], lease')
  <2>1. UNCHANGED rt /\ UNCHANGED row
    BY Zenon, <1>3 DEF Accept
  <2>2. pass'.r = r /\ pass'.claim = rt[r].claim
    <3>1. Forward(lease, lease')
      BY Zenon, LeasesForward
    <3> QED
      BY Zenon, <1>0, <1>1, <1>3, <3>1, AcceptHands
  <2>3. \A a \in Attachment, p \in Prefix : Open(row[a][p]) => a = rt[r].claim.att
    BY Zenon, <1>1, <1>3, HandedGates
  <2>4. rt[r].acc.epoch > 0 => rt[r].acc.att = rt[r].claim.att \/ Shut(rt[r], lease')
    BY Zenon, <1>3, HandedShut
  <2> QED
    BY Zenon, <2>1, <2>2, <2>3, <2>4
<1> QED
  BY Zenon, <1>1, <1>2, <1>3, PassChange
-----------------------------------------------------------------------------
(* The previous holder's gate is in step with what was observed of it. *)

(* An observation made before a step other than a tick is of the same      *)
(* version of the lease after it.                                          *)
LEMMA SeenStays ==
  ASSUME TypeOK, RecordsInv, [Next]_vars, ~Tick, NEW r \in Route, obs'[r] # Unseen, ~Observe(r)
  PROVE  /\ obs'[r] = obs[r] /\ ~(Commit /\ pass.r = r)
         /\ obs[r].ver = "lease" => \A b \in Attachment : obs[r].att = b => lease'[b] = lease[b]
<1>0. HolderInv /\ LeaseInv
  BY Zenon DEF RecordsInv
<1>1. ASSUME NEW a \in Attachment, NEW new, WriteLease(a, new)
      PROVE  /\ obs'[r] = obs[r]
             /\ obs[r].ver = "lease" => \A b \in Attachment : obs[r].att = b => lease'[b] = lease[b]
  <2>1. obs'[r] = IF obs[r].ver = "lease" /\ obs[r].att = a THEN Unseen ELSE obs[r]
    BY Zenon, <1>1 DEF WriteLease
  <2>2. ~(obs[r].ver = "lease" /\ obs[r].att = a) /\ obs'[r] = obs[r]
    BY Zenon, <2>1
  <2>3. \A b \in Attachment : b # a => lease'[b] = lease[b]
    BY Zenon, <1>1 DEF WriteLease, TypeOK
  <2> QED
    BY Zenon, <2>2, <2>3
<1>2. ~(Commit /\ pass.r = r)
  BY Zenon DEF Commit, TypeOK
<1>3. SUFFICES \/ UNCHANGED lease /\ obs'[r] = obs[r]
               \/ \E a \in Attachment : \E new : WriteLease(a, new)
  BY Zenon, <1>1, <1>2
<1>4. CASE Commit \/ PassFails \/ SweepRead \/ SweepWrite \/ LeaderChange
  <2>1. CASE Commit
    BY Zenon, <1>2, <2>1 DEF Commit, TypeOK
  <2>2. CASE PassFails \/ SweepRead \/ SweepWrite
    BY Zenon, <2>2 DEF PassFails, SweepRead, SweepWrite
  <2>3. CASE LeaderChange
    BY Zenon, <2>3 DEF LeaderChange
  <2> QED
    BY Zenon, <1>4, <2>1, <2>2, <2>3
<1>5. ASSUME NEW s \in Route,
             DeleteRoute(s) \/ Revoke(s) \/ CreateIndex(s) \/ Observe(s) \/ Status(s)
      PROVE  UNCHANGED lease /\ obs'[r] = obs[r]
  <2>1. CASE DeleteRoute(s)
    BY Zenon, <2>1 DEF DeleteRoute, TypeOK
  <2>2. CASE Revoke(s) \/ CreateIndex(s) \/ Status(s)
    BY Zenon, <2>2 DEF Revoke, CreateIndex, Status
  <2>3. CASE Observe(s)
    BY Zenon, <2>3 DEF Observe, TypeOK
  <2> QED
    BY Zenon, <1>5, <2>1, <2>2, <2>3
<1>6. ASSUME NEW s \in Route, Accept(s)
      PROVE  \/ UNCHANGED lease /\ obs'[r] = obs[r]
             \/ \E a \in Attachment : \E new : WriteLease(a, new)
  BY Zenon, <1>0, <1>6, AcceptWrites DEF Renewed
<1>7. ASSUME NEW a \in Attachment, LeaseWrite(a) \/ LeaseEnd(a)
      PROVE  \E new : WriteLease(a, new)
  BY Zenon, <1>7 DEF LeaseWrite, LeaseEnd
<1>8. ASSUME NEW a, NEW s,
             Claim(a, s) \/ Release(a, s) \/ GateRemove(a, s) \/ GateClose(a, s) \/ GateOpen(a, s)
             \/ SweepGates(a, s)
      PROVE  UNCHANGED lease /\ obs'[r] = obs[r]
  BY Zenon, <1>8 DEF Claim, Release, GateRemove, GateClose, GateOpen, SweepGates
<1>9. CASE UNCHANGED vars
  BY Zenon, <1>9 DEF vars
<1> QED
  BY Zenon, <1>4, <1>5, <1>6, <1>7, <1>8, <1>9 DEF Next

(* The previous holder stays, but for an entry that leaves. *)
LEMMA PreviousKept ==
  ASSUME TypeOK, RecordsInv, [Next]_vars, NEW r \in Route, Live(r), rt'[r].state = "live",
         ~(Commit /\ pass.r = r)
  PROVE  LET prev == Previous(rt[r], idx.entry[r])
             next == Previous(rt'[r], idx'.entry[r])
         IN next = prev \/ next.epoch < prev.epoch
<1>0. HolderInv /\ PassInv /\ IndexInv
  BY Zenon DEF RecordsInv
<1> DEFINE prev == Previous(rt[r], idx.entry[r])
           next == Previous(rt'[r], idx'.entry[r])
<1>1. CASE Status(r)
  <2>1. idx.entry[r] = rt[r].claim /\ rt[r].claim.epoch > 0
    BY Zenon, <1>0, <1>1, StatusProper
  <2>2. prev = rt[r].claim
    BY Zenon, <1>0, <2>1, PreviousIsEntry
  <2>3. idx'.entry[r] = rt[r].claim /\ rt'[r].acc = rt[r].claim
    <3>1. UNCHANGED idx /\ rt'[r] = Accepted(r, rt[r].claim)
      BY Zenon, <1>1 DEF Status, WriteRoute, TypeOK
    <3>2. Accepted(r, rt[r].claim).acc = rt[r].claim
      <4>1. rt[r] \in RouteObject
        BY Zenon, Parts
      <4> QED
        BY Zenon, <4>1 DEF Accepted, RouteObject
    <3> QED
      BY Zenon, <2>1, <3>1, <3>2
  <2>4. next = rt[r].claim
    BY Zenon, <2>3 DEF Previous
  <2> QED
    BY Zenon, <2>2, <2>4
<1>2. CASE rt'[r].acc = rt[r].acc
  <2>1. CASE idx'.entry[r] = idx.entry[r]
    BY Zenon, <1>2, <2>1 DEF Previous
  <2>2. CASE SweepWrite /\ sweep.entry[r] # idx.entry[r] /\ idx'.entry[r] = NoHolder
    <3>1. sweep.entry[r] = NoHolder
      BY Zenon, <1>0, <2>2 DEF IndexInv, SweepWrite
    <3>2. idx.entry[r].epoch > 0
      BY Zenon, <1>0, <2>2, <3>1 DEF HolderInv, Ordered, Known
    <3>3. prev = idx.entry[r]
      BY Zenon, <1>0, <3>2, PreviousIsEntry
    <3>4. next = rt[r].acc
      <4>1. ~(0 > rt[r].acc.epoch)
        <5>1. rt[r].acc.epoch \in Nat
          BY Zenon, Numbers
        <5> QED
          BY <5>1
      <4>2. ~(idx'.entry[r].epoch > rt'[r].acc.epoch)
        BY Zenon, <1>2, <2>2, <4>1, Blanks
      <4> QED
        BY Zenon, <1>2, <4>2 DEF Previous
    <3>5. rt[r].acc.epoch <= idx.entry[r].epoch /\ (rt[r].acc.epoch = idx.entry[r].epoch => rt[r].acc = idx.entry[r])
      BY Zenon, <1>0, <3>2 DEF HolderInv, Ordered, Live, Precedes
    <3>6. rt[r].acc.epoch = idx.entry[r].epoch \/ rt[r].acc.epoch < idx.entry[r].epoch
      <4>1. rt[r].acc.epoch \in Nat /\ idx.entry[r].epoch \in Nat
        BY Zenon, Numbers
      <4> QED
        BY <3>5, <4>1
    <3> QED
      BY Zenon, <3>3, <3>4, <3>5, <3>6
  <2> QED
    BY Zenon, <2>1, <2>2, EntryChange
<1> QED
  BY Zenon, <1>1, <1>2, AcceptanceKept

(* A gate opened is in step with the lease it was opened from. *)
LEMMA OpenedInStep ==
  ASSUME TypeOK, TypeOK', RecordsInv, EntryInv, NEW r \in Route, Live(r),
         NEW prev, prev = Previous(rt[r], idx.entry[r]), prev.att \in Attachment,
         Watched(obs[r], prev, lease, row[prev.att][pfx[r]]), obs[r].epoch = prev.epoch,
         obs[r].ver # "none", NEW s \in Route, pfx[s] = pfx[r], GateOpen(prev.att, s)
  PROVE  RunsOut(row'[prev.att][pfx[r]], obs[r].waited)
<1>0. HolderInv /\ NameInv
  BY Zenon DEF RecordsInv
<1> DEFINE b == prev.att
           g == row'[b][pfx[r]]
<1>1. /\ Live(s) /\ rt[s].acc.att = b /\ Holds(rt[s].acc, lease)
      /\ row'[b][pfx[s]].age >= lease[b].age /\ lease[b].age < Duration
  BY Zenon, GateOpened
<1>2. s = r
  BY Zenon, <1>0, <1>1 DEF NameInv
<1>3. idx.entry[r].epoch > 0
  BY Zenon, <1>2, Opener
<1>4. prev = idx.entry[r]
  BY Zenon, <1>0, <1>3, PreviousIsEntry
<1>5. prev \in Holder /\ rt[r].acc \in Holder /\ Known(prev, lease) /\ Precedes(rt[r].acc, prev)
  BY Zenon, <1>0, <1>3, <1>4, Numbers DEF HolderInv, Ordered, Live
<1>6. Holds(prev, lease)
  BY Zenon, <1>1, <1>2, <1>3, <1>4, <1>5, OlderLost
<1>7. obs[r].ver = "lease"
  <2>1. obs[r].ver \in {"none", "lease", "gone"}
    BY Zenon DEF TypeOK, Observation
  <2>2. obs[r].ver # "gone"
    BY Zenon, <1>6 DEF Watched
  <2> QED
    BY Zenon, <2>1, <2>2
<1>8. lease[b].age * Fast >= obs[r].waited * Slow
  BY Zenon, <1>1, <1>7 DEF Watched
<1>9. g.age \in Age /\ lease[b].age \in Age /\ obs[r].waited \in 0..TakeoverWait
  <2>1. g \in Row
    BY Zenon DEF TypeOK
  <2>2. lease[b] \in LeaseRecord /\ obs[r] \in Observation
    BY Zenon, Parts
  <2> QED
    BY Zenon, <2>1, <2>2 DEF Row, LeaseRecord, Observation
<1>10. g.age >= lease[b].age
  BY Zenon, <1>1, <1>2
<1>11. g.age * Fast >= obs[r].waited * Slow
  <2> HIDE DEF b, g
  <2> QED
    BY Zenon, <1>8, <1>9, <1>10, OlderInStep
<1> QED
  BY Zenon, <1>11 DEF RunsOut

(* Of an observation that starts. *)
LEMMA NotYet ==
  /\ \A g \in Row : RunsOut(g, 0)
  /\ \A l \in LeaseRecord : l.age * Fast >= 0 * Slow
<1>1. ASSUME NEW t \in Age PROVE t * Fast >= 0 * Slow
  <2>1. t \in Nat /\ Fast \in Nat /\ Slow \in Nat
    BY EdgeAssumption DEF Age
  <2>2. t * Fast \in Nat /\ 0 * Slow = 0
    BY <2>1
  <2> QED
    BY <2>2
<1> QED
  BY Zenon, <1>1 DEF RunsOut, Row, LeaseRecord

(* Observe starts from what it reads. *)
LEMMA ObserveWatches ==
  ASSUME TypeOK, HolderInv, NEW r \in Route, Observe(r)
  PROVE  LET prev == Previous(rt[r], idx.entry[r])
         IN Watched(obs'[r], prev, lease, row[prev.att][pfx[r]])
<1> DEFINE prev == Previous(rt[r], idx.entry[r])
           o == obs'[r]
<1>1. o = [ver |-> LeaseVersion(prev), att |-> prev.att, epoch |-> prev.epoch, waited |-> 0]
  BY Zenon DEF Observe, TypeOK
<1>2. o.ver = LeaseVersion(prev) /\ o.att = prev.att /\ o.epoch = prev.epoch /\ o.waited = 0
  <2> HIDE DEF o, prev
  <2> QED
    BY Zenon, <1>1
<1>3. prev \in Holder /\ Known(prev, lease) /\ prev.epoch \in Nat
  BY Zenon, PreviousFacts, HolderParts
<1>4. prev.epoch # 0
  BY Zenon DEF Observe, Fenced
<1> HIDE DEF prev, o
<1>5. prev.epoch > 0 /\ prev.epoch >= prev.epoch
  BY <1>3, <1>4
<1>6. prev.att \in Attachment
  BY Zenon, <1>3, <1>4, Blanks DEF Known
<1>7. lease[prev.att] \in LeaseRecord /\ row[prev.att][pfx[r]] \in Row
  BY Zenon, <1>6, Parts
<1>8. RunsOut(row[prev.att][pfx[r]], 0) /\ lease[prev.att].age * Fast >= 0 * Slow
  BY Zenon, <1>7, NotYet
<1>9. (o.ver = "gone" => ~Holds(prev, lease)) /\ (o.ver = "lease" => Holds(prev, lease))
  BY Zenon, <1>2 DEF LeaseVersion, LeaseHeld, Holds
<1>10. Watched(o, prev, lease, row[prev.att][pfx[r]])
  BY Zenon, <1>2, <1>5, <1>8, <1>9 DEF Watched
<1> QED
  BY Zenon, <1>10 DEF prev, o

(* A tick lengthens the observation, the lease's age and the gate's        *)
(* together.                                                               *)
LEMMA TickWatches ==
  ASSUME TypeOK, RecordsInv, ObservedInv, Tick, NEW r \in Route, obs'[r].ver # "none"
  PROVE  LET prev == Previous(rt'[r], idx'.entry[r])
         IN Watched(obs'[r], prev, lease', row'[prev.att][pfx'[r]])
<1>0. HolderInv
  BY Zenon DEF RecordsInv
<1>1. UNCHANGED rt /\ UNCHANGED idx /\ UNCHANGED pfx
  BY Zenon DEF Tick
<1> DEFINE prev == Previous(rt[r], idx.entry[r])
           o == obs[r]
           w == o.waited
           b == prev.att
           g == row[b][pfx[r]]
<1>2. PICK lby \in Slow..Fast :
           /\ \A c \in Attachment, q \in Prefix : \A v \in 0..TakeoverWait :
                RunsOut(row[c][q], v) => RunsOut(row'[c][q], AtMost(v + lby, TakeoverWait))
           /\ \A c \in Attachment :
                /\ lease'[c].term = lease[c].term /\ lease'[c].held = lease[c].held
                /\ lease[c].held /\ lease'[c].age < Duration =>
                     /\ lease[c].age < Duration
                     /\ \A v \in 0..TakeoverWait : lease[c].age * Fast >= v * Slow =>
                          lease'[c].age * Fast >= AtMost(v + lby, TakeoverWait) * Slow
           /\ obs'[r] = IF o = Unseen THEN Unseen ELSE Longer(o, lby)
  BY Zenon, TickTogether
<1>3. o # Unseen /\ obs'[r] = Longer(o, lby)
  BY Zenon, <1>2, Blanks
<1>4. o \in Observation
  BY Zenon, Parts
<1>5. /\ obs'[r].ver = o.ver /\ obs'[r].att = o.att /\ obs'[r].epoch = o.epoch
      /\ obs'[r].waited = AtMost(w + lby, TakeoverWait)
  <2> HIDE DEF o
  <2>1. /\ Longer(o, lby).ver = o.ver /\ Longer(o, lby).att = o.att /\ Longer(o, lby).epoch = o.epoch
        /\ Longer(o, lby).waited = AtMost(o.waited + lby, TakeoverWait)
    BY Zenon, <1>4, Aging
  <2> QED
    BY Zenon, <1>3, <2>1
<1>6. o.ver # "none"
  BY Zenon, <1>5
<1>7. Watched(o, prev, lease, g)
  BY Zenon, <1>6 DEF ObservedInv
<1>8. w \in 0..TakeoverWait /\ pfx[r] \in Prefix
  BY Zenon, <1>4, Parts DEF Observation
<1>9. prev \in Holder /\ Known(prev, lease)
  BY Zenon, <1>0, PreviousFacts
<1> HIDE DEF prev, o, w
<1>10. SUFFICES Watched(obs'[r], prev, lease', row'[b][pfx[r]])
  BY Zenon, <1>1 DEF prev
<1>11. CASE o.epoch = prev.epoch
  <2>1. prev.epoch > 0 /\ prev.epoch # 0
    <3>1. prev.epoch > 0
      BY Zenon, <1>7, <1>11 DEF Watched
    <3>2. prev.epoch # 0
      BY <3>1
    <3> QED
      BY Zenon, <3>1, <3>2
  <2>2. b \in Attachment
    BY Zenon, <1>9, <2>1, Blanks DEF Known
  <2>3. RunsOut(row'[b][pfx[r]], obs'[r].waited)
    <3>1. RunsOut(g, w)
      BY Zenon, <1>7, <1>11 DEF Watched, w
    <3> QED
      BY Zenon, <1>2, <1>5, <1>8, <2>2, <3>1
  <2>4. Holds(prev, lease') = Holds(prev, lease)
    BY Zenon, <1>2, <2>2 DEF Holds
  <2>5. ASSUME o.ver = "lease", lease'[b].age < Duration
        PROVE  lease'[b].age * Fast >= obs'[r].waited * Slow
    <3>1. lease[b].held
      BY Zenon, <1>7, <1>11, <2>5 DEF Watched, Holds
    <3>2. lease[b].age < Duration
      BY Zenon, <1>2, <2>2, <2>5, <3>1
    <3>3. lease[b].age * Fast >= w * Slow
      BY Zenon, <1>7, <1>11, <2>5, <3>2 DEF Watched, w
    <3> QED
      BY Zenon, <1>2, <1>5, <1>8, <2>2, <2>5, <3>1, <3>3
  <2>6. prev.epoch >= prev.epoch /\ o.att = b
    BY Zenon, <1>7, <1>11 DEF Watched
  <2> QED
    BY Zenon, <1>5, <1>7, <1>11, <2>1, <2>3, <2>4, <2>5, <2>6 DEF Watched
<1> QED
  BY Zenon, <1>5, <1>7, <1>11 DEF Watched

(* A write of the lease ends the observation; a gate opened in between is  *)
(* opened from the version observed.                                       *)
LEMMA ObservedStep ==
  ASSUME TypeOK, TypeOK', RecordsInv, RecordsInv', SafeInv, [Next]_vars
  PROVE  ObservedInv'
<1>0. HolderInv /\ StateInv /\ StateInv' /\ EntryInv /\ ObservedInv
  BY Zenon DEF RecordsInv, SafeInv
<1>1. SUFFICES ASSUME NEW r \in Route, obs'[r].ver # "none"
               PROVE  LET prev == Previous(rt'[r], idx'.entry[r])
                      IN Watched(obs'[r], prev, lease', row'[prev.att][pfx'[r]])
  BY Zenon DEF ObservedInv
<1> DEFINE prev == Previous(rt[r], idx.entry[r])
           next == Previous(rt'[r], idx'.entry[r])
<1>2. CASE Tick
  BY Zenon, <1>0, <1>1, <1>2, TickWatches
<1>3. CASE Observe(r)
  <2>1. UNCHANGED rt /\ UNCHANGED idx /\ UNCHANGED lease /\ UNCHANGED row /\ UNCHANGED pfx
    BY Zenon, <1>3 DEF Observe
  <2>2. Watched(obs'[r], prev, lease, row[prev.att][pfx[r]])
    BY Zenon, <1>0, <1>3, ObserveWatches
  <2> QED
    BY Zenon, <2>1, <2>2
<1>4. CASE ~Tick /\ ~Observe(r)
  <2>1. obs'[r] # Unseen /\ rt'[r].state = "live"
    BY Zenon, <1>0, <1>1, Blanks DEF StateInv, Live
  <2>2. /\ obs'[r] = obs[r] /\ ~(Commit /\ pass.r = r)
        /\ obs[r].ver = "lease" => \A b \in Attachment : obs[r].att = b => lease'[b] = lease[b]
    BY Zenon, <1>4, <2>1, SeenStays
  <2>3. Live(r) /\ obs[r].ver # "none"
    BY Zenon, <1>0, <1>1, <2>1, <2>2 DEF StateInv
  <2>4. Watched(obs[r], prev, lease, row[prev.att][pfx[r]])
    BY Zenon, <1>0, <2>3 DEF ObservedInv
  <2>5. next = prev \/ next.epoch < prev.epoch
    BY Zenon, <2>1, <2>2, <2>3, PreviousKept
  <2>6. prev \in Holder /\ Known(prev, lease) /\ prev.epoch \in Nat /\ obs[r].epoch \in Nat
    <3>1. prev \in Holder /\ Known(prev, lease) /\ prev.epoch \in Nat
      BY Zenon, <1>0, PreviousFacts, HolderParts
    <3>2. obs[r].epoch \in Epoch
      BY Zenon DEF TypeOK, Observation
    <3>3. obs[r].epoch \in Nat
      BY <3>2, EdgeAssumption DEF Epoch
    <3> QED
      BY Zenon, <3>1, <3>3
  <2>7. CASE next.epoch < prev.epoch
    <3>1. HolderInv' /\ TypeOK'
      BY Zenon DEF RecordsInv
    <3>2. next \in Holder /\ next.epoch \in Nat
      <4>1. next \in Holder
        <5>1. idx'.entry[r] \in Holder /\ rt'[r] \in RouteObject
          BY Zenon DEF TypeOK, Index
        <5> QED
          BY Zenon, <5>1, RouteParts DEF Previous
      <4> QED
        BY Zenon, <4>1, HolderParts
    <3>3. obs[r].epoch >= prev.epoch
      BY Zenon, <2>4 DEF Watched
    <3> HIDE DEF prev, next
    <3>4. obs[r].epoch >= next.epoch /\ obs[r].epoch # next.epoch
      BY Zenon, <2>6, <2>7, <3>2, <3>3, Compared
    <3>5. Watched(obs'[r], next, lease', row'[next.att][pfx'[r]])
      BY Zenon, <2>2, <3>4 DEF Watched
    <3> QED
      BY Zenon, <3>5 DEF next
  <2>8. CASE next = prev
    <3> HIDE DEF prev, next
    <3> DEFINE b == prev.att
    <3>1. UNCHANGED pfx
      BY Zenon, SamePrefix
    <3>2. SUFFICES Watched(obs[r], prev, lease', row'[b][pfx[r]])
      BY Zenon, <2>2, <2>8, <3>1 DEF next
    <3>3. CASE obs[r].epoch = prev.epoch
      <4>1. prev.epoch > 0 /\ obs[r].att = b
        BY Zenon, <2>4, <3>3 DEF Watched
      <4>2. prev.epoch # 0
        BY <4>1
      <4>3. b \in Attachment
        BY Zenon, <2>6, <4>2, Blanks DEF Known
      <4>4. ~Holds(prev, lease) => ~Holds(prev, lease')
        BY Zenon, <2>6, <4>1, ForwardKeeps, LeasesForward
      <4>5. obs[r].ver = "lease" => lease'[b] = lease[b]
        BY Zenon, <2>2, <4>1, <4>3
      <4>6. RunsOut(row'[b][pfx[r]], obs[r].waited)
        <5>1. CASE row'[b][pfx[r]] = row[b][pfx[r]]
          BY Zenon, <2>4, <3>3, <5>1 DEF Watched
        <5>2. CASE ~Open(row'[b][pfx[r]])
          BY Zenon, <5>2 DEF RunsOut
        <5>3. ASSUME NEW s \in Route, pfx[s] = pfx[r], GateOpen(b, s)
              PROVE  RunsOut(row'[b][pfx[r]], obs[r].waited)
          BY Zenon, <1>0, <2>3, <2>4, <3>3, <4>3, <5>3, OpenedInStep DEF prev
        <5>4. pfx[r] \in Prefix
          BY Zenon, Parts
        <5> QED
          BY Zenon, <1>4, <4>3, <5>1, <5>2, <5>3, <5>4, RowSteps
      <4>7. Holds(prev, lease) /\ lease'[b] = lease[b] => Holds(prev, lease')
        BY Zenon DEF Holds
      <4> QED
        BY Zenon, <2>4, <3>3, <4>1, <4>4, <4>5, <4>6, <4>7 DEF Watched
    <3> QED
      BY Zenon, <2>4, <3>3 DEF Watched
  <2> QED
    BY Zenon, <2>5, <2>7, <2>8
<1> QED
  BY Zenon, <1>2, <1>3, <1>4
-----------------------------------------------------------------------------
(* What is marked is dead, and its gate in step with the mark; what is to  *)
(* leave the index has its gate closed.                                    *)

(* The holder of an entry. *)
LEMMA EntryHolder ==
  ASSUME HolderInv, NEW r \in Route, idx.entry[r].epoch > 0
  PROVE  idx.entry[r].att \in Attachment
<1>1. idx.entry[r].epoch # 0
  OBVIOUS
<1> QED
  BY Zenon, <1>1, Blanks DEF HolderInv, Ordered, Known

(* A mark is old, and its entry stays, or is new. *)
LEMMA MarkStays ==
  ASSUME TypeOK, RecordsInv, RecordsInv', [Next]_vars, ~Tick, NEW r \in Route, marks'[r] # NoMark
  PROVE  /\ marks'[r] = marks[r] \/ (SweepRead /\ r \in Noticed /\ marks'[r].waited = 0)
         /\ idx'.entry[r] = idx.entry[r] /\ ~(Commit /\ pass.r = r)
<1>1. ~(Commit /\ pass.r = r)
  BY Zenon DEF Commit, TypeOK
<1>2. marks'[r] = marks[r] \/ (SweepRead /\ r \in Noticed /\ marks'[r].waited = 0)
  <2>1. CASE Commit \/ PassFails \/ SweepWrite
    <3>1. CASE Commit
      BY Zenon, <1>1, <3>1 DEF Commit, TypeOK
    <3>2. CASE PassFails \/ SweepWrite
      BY Zenon, <3>2 DEF PassFails, SweepWrite, indexer
    <3> QED
      BY Zenon, <2>1, <3>1, <3>2
  <2>2. CASE LeaderChange
    BY Zenon, <2>2 DEF LeaderChange
  <2>3. CASE SweepRead
    <3>1. marks'[r] = IF r \in Out THEN NoMark
                      ELSE IF r \in Noticed THEN [epoch |-> idx.entry[r].epoch, waited |-> 0]
                      ELSE marks[r]
      BY Zenon, <2>3, SweepFacts
    <3>2. marks'[r] = marks[r]
          \/ (r \in Noticed /\ marks'[r] = [epoch |-> idx.entry[r].epoch, waited |-> 0])
      BY Zenon, <3>1
    <3>3. [epoch |-> idx.entry[r].epoch, waited |-> 0].waited = 0
      BY Zenon
    <3> QED
      BY Zenon, <2>3, <3>2, <3>3
  <2>4. ASSUME NEW s \in Route,
               \/ DeleteRoute(s) \/ Revoke(s) \/ CreateIndex(s) \/ Observe(s) \/ Accept(s) \/ Status(s)
        PROVE  marks'[r] = marks[r]
    <3>1. CASE DeleteRoute(s) \/ Revoke(s) \/ Status(s)
      BY Zenon, <3>1 DEF DeleteRoute, Revoke, Status, indexer
    <3>2. CASE Observe(s) \/ Accept(s)
      BY Zenon, <3>2 DEF Observe, Accept, indexer
    <3>3. CASE CreateIndex(s)
      BY Zenon, <3>3 DEF CreateIndex
    <3> QED
      BY Zenon, <2>4, <3>1, <3>2, <3>3
  <2>5. ASSUME NEW a, LeaseWrite(a) \/ LeaseEnd(a)
        PROVE  marks'[r] = marks[r]
    BY Zenon, <2>5 DEF LeaseWrite, LeaseEnd, indexer
  <2>6. ASSUME NEW a, NEW s,
               Claim(a, s) \/ Release(a, s) \/ GateRemove(a, s) \/ GateClose(a, s) \/ GateOpen(a, s)
               \/ SweepGates(a, s)
        PROVE  marks'[r] = marks[r]
    BY Zenon, <2>6 DEF Claim, Release, GateRemove, GateClose, GateOpen, SweepGates, indexer
  <2>7. CASE UNCHANGED vars
    BY Zenon, <2>7 DEF vars, indexer
  <2> QED
    BY Zenon, <2>1, <2>2, <2>3, <2>4, <2>5, <2>6, <2>7 DEF Next
<1>3. ~(SweepWrite /\ sweep.entry[r] # idx.entry[r])
  <2>1. SweepWrite => sweep.there /\ marks'[r] = marks[r]
    BY Zenon DEF SweepWrite
  <2> QED
    BY Zenon, <2>1 DEF RecordsInv, IndexInv
<1>4. idx'.entry[r] = idx.entry[r]
  BY Zenon, <1>1, <1>3, EntryChange
<1> QED
  BY Zenon, <1>1, <1>2, <1>4

(* A tick lengthens the mark and the gate's age together. *)
LEMMA TickMarks ==
  ASSUME TypeOK, RecordsInv, MarkInv, Tick, NEW r \in Route, marks'[r] # NoMark
  PROVE  /\ Dead(rt'[r], idx'.entry[r].epoch)
         /\ RunsOut(row'[idx'.entry[r].att][pfx'[r]], marks'[r].waited)
<1>0. HolderInv /\ IndexInv
  BY Zenon DEF RecordsInv
<1>1. UNCHANGED rt /\ UNCHANGED idx /\ UNCHANGED pfx
  BY Zenon DEF Tick
<1> DEFINE b == idx.entry[r].att
           m == marks[r]
<1>2. PICK lby \in Slow..Fast :
           /\ \A c \in Attachment, q \in Prefix : \A v \in 0..TakeoverWait :
                RunsOut(row[c][q], v) => RunsOut(row'[c][q], AtMost(v + lby, TakeoverWait))
           /\ marks'[r] = IF m = NoMark THEN NoMark ELSE Longer(m, lby)
  BY Zenon, TickTogether
<1>3. m # NoMark /\ marks'[r] = Longer(m, lby)
  BY Zenon, <1>2
<1>4. m \in Mark
  BY Zenon, Parts
<1>5. idx.entry[r].epoch > 0
  BY Zenon, <1>0, <1>3 DEF IndexInv
<1>6. b \in Attachment
  BY Zenon, <1>0, <1>5, EntryHolder
<1>7. Dead(rt[r], idx.entry[r].epoch) /\ RunsOut(row[b][pfx[r]], m.waited)
  BY Zenon, <1>3 DEF MarkInv
<1> HIDE DEF m
<1>8. Longer(m, lby).waited = AtMost(m.waited + lby, TakeoverWait)
  BY Zenon, <1>4, Aging
<1>9. m.waited \in 0..TakeoverWait /\ pfx[r] \in Prefix
  BY Zenon, <1>4, Parts DEF Mark
<1>10. RunsOut(row'[b][pfx[r]], marks'[r].waited)
  BY Zenon, <1>2, <1>3, <1>6, <1>7, <1>8, <1>9
<1> QED
  BY Zenon, <1>1, <1>7, <1>10

(* No gate is opened for a dead entry. *)
LEMMA DeadGate ==
  ASSUME TypeOK, RecordsInv, EntryInv, [Next]_vars, NEW r \in Route, idx.entry[r].epoch > 0,
         Dead(rt[r], idx.entry[r].epoch)
  PROVE  LET b == idx.entry[r].att IN
         /\ Open(row'[b][pfx[r]]) => Open(row[b][pfx[r]])
         /\ ~Tick => \A w : RunsOut(row[b][pfx[r]], w) => RunsOut(row'[b][pfx[r]], w)
<1>0. HolderInv /\ IndexInv
  BY Zenon DEF RecordsInv
<1> DEFINE b == idx.entry[r].att
<1>1. b \in Attachment /\ pfx[r] \in Prefix
  BY Zenon, <1>0, EntryHolder, Parts
<1>2. \A s \in Route : ~GateOpen(b, s)
  BY Zenon, <1>0, <1>1, NoOpener
<1> HIDE DEF b
<1>3. Open(row'[b][pfx[r]]) => Open(row[b][pfx[r]])
  BY Zenon, <1>1, <1>2, GateStays
<1>4. ~Tick => row'[b][pfx[r]] = row[b][pfx[r]] \/ ~Open(row'[b][pfx[r]])
  BY Zenon, <1>1, <1>2, RowSteps
<1>5. ~Tick => \A w : RunsOut(row[b][pfx[r]], w) => RunsOut(row'[b][pfx[r]], w)
  BY Zenon, <1>4 DEF RunsOut
<1> QED
  BY Zenon, <1>3, <1>5 DEF b

(* SweepRead notices an entry that is dead; it stays dead, and its gate is *)
(* not opened again.                                                       *)
LEMMA MarkStep ==
  ASSUME TypeOK, TypeOK', RecordsInv, RecordsInv', SafeInv, [Next]_vars, ~MayReclaim
  PROVE  MarkInv'
<1>0. HolderInv /\ IndexInv /\ EntryInv /\ MarkInv
  BY Zenon DEF RecordsInv, SafeInv
<1>1. SUFFICES ASSUME NEW r \in Route, marks'[r] # NoMark
               PROVE  /\ Dead(rt'[r], idx'.entry[r].epoch)
                      /\ RunsOut(row'[idx'.entry[r].att][pfx'[r]], marks'[r].waited)
  BY Zenon DEF MarkInv
<1>2. CASE Tick
  BY Zenon, <1>0, <1>1, <1>2, TickMarks
<1>3. CASE ~Tick
  <2>1. /\ marks'[r] = marks[r] \/ (SweepRead /\ r \in Noticed /\ marks'[r].waited = 0)
        /\ idx'.entry[r] = idx.entry[r] /\ ~(Commit /\ pass.r = r)
    BY Zenon, <1>1, <1>3, MarkStays
  <2>2. UNCHANGED pfx
    BY Zenon, SamePrefix
  <2>3. CASE marks'[r] = marks[r]
    <3>1. idx.entry[r].epoch > 0
      BY Zenon, <1>0, <1>1, <2>3 DEF IndexInv
    <3>2. Dead(rt[r], idx.entry[r].epoch) /\ RunsOut(row[idx.entry[r].att][pfx[r]], marks[r].waited)
      BY Zenon, <1>0, <1>1, <2>3 DEF MarkInv
    <3>3. Dead(rt'[r], idx.entry[r].epoch)
      BY Zenon, <2>1, <3>1, <3>2, DeadStays
    <3>4. RunsOut(row'[idx.entry[r].att][pfx[r]], marks[r].waited)
      BY Zenon, <1>0, <1>3, <3>1, <3>2, DeadGate
    <3> QED
      BY Zenon, <2>1, <2>2, <2>3, <3>3, <3>4
  <2>4. CASE SweepRead /\ r \in Noticed /\ marks'[r].waited = 0
    <3>1. UNCHANGED rt /\ UNCHANGED row
      BY Zenon, <2>4, SweepFacts
    <3>2. idx.entry[r].epoch > 0 /\ Removal(r)
      BY Zenon, <2>4 DEF Noticed, Removed
    <3>3. Dead(rt[r], idx.entry[r].epoch)
      BY Zenon, <3>2, RemovalDead
    <3>4. row[idx.entry[r].att][pfx[r]] \in Row
      BY Zenon, <1>0, <3>2, EntryHolder, Parts
    <3>5. RunsOut(row[idx.entry[r].att][pfx[r]], 0)
      BY Zenon, <3>4, NotYet
    <3> QED
      BY Zenon, <2>1, <2>2, <2>4, <3>1, <3>3, <3>5
  <2> QED
    BY Zenon, <2>1, <2>3, <2>4
<1> QED
  BY Zenon, <1>2, <1>3

(* What the index reconciler is about to write stays as it is, of an index *)
(* that stays as it is.                                                    *)
LEMMA SweepStays ==
  ASSUME TypeOK, RecordsInv, [Next]_vars, ~SweepRead, sweep'.there
  PROVE  UNCHANGED sweep /\ UNCHANGED idx /\ ~Commit
<1>1. ASSUME NEW new, WriteIndex(new) PROVE FALSE
  BY Zenon, <1>1, Blanks DEF WriteIndex
<1>2. ~Commit
  BY Zenon, <1>1 DEF Commit
<1>3. CASE Tick \/ PassFails \/ SweepWrite \/ LeaderChange
  <2>1. CASE Tick \/ PassFails
    BY Zenon, <1>2, <2>1 DEF Tick, PassFails, indexer
  <2>2. CASE SweepWrite
    BY Zenon, <1>1, <2>2 DEF SweepWrite
  <2>3. CASE LeaderChange
    BY Zenon, <1>2, <2>3, Blanks DEF LeaderChange
  <2> QED
    BY Zenon, <1>3, <2>1, <2>2, <2>3
<1>4. ASSUME NEW s,
             \/ DeleteRoute(s) \/ Revoke(s) \/ CreateIndex(s) \/ Observe(s) \/ Accept(s) \/ Status(s)
      PROVE  UNCHANGED sweep /\ UNCHANGED idx
  <2>1. CASE DeleteRoute(s) \/ Revoke(s) \/ Status(s)
    BY Zenon, <2>1 DEF DeleteRoute, Revoke, Status, indexer
  <2>2. CASE Observe(s) \/ Accept(s)
    BY Zenon, <2>2 DEF Observe, Accept, indexer
  <2>3. CASE CreateIndex(s)
    BY Zenon, <1>1, <2>3 DEF CreateIndex
  <2> QED
    BY Zenon, <1>4, <2>1, <2>2, <2>3
<1>5. ASSUME NEW a, LeaseWrite(a) \/ LeaseEnd(a)
      PROVE  UNCHANGED sweep /\ UNCHANGED idx
  BY Zenon, <1>5 DEF LeaseWrite, LeaseEnd, indexer
<1>6. ASSUME NEW a, NEW s,
             Claim(a, s) \/ Release(a, s) \/ GateRemove(a, s) \/ GateClose(a, s) \/ GateOpen(a, s)
             \/ SweepGates(a, s)
      PROVE  UNCHANGED sweep /\ UNCHANGED idx
  BY Zenon, <1>6 DEF Claim, Release, GateRemove, GateClose, GateOpen, SweepGates, indexer
<1>7. CASE UNCHANGED vars
  BY Zenon, <1>2, <1>7 DEF vars, indexer
<1> QED
  BY Zenon, <1>2, <1>3, <1>4, <1>5, <1>6, <1>7 DEF Next

(* What is to leave was found dead, its gate recorded closed or waited     *)
(* for.                                                                    *)
LEMMA FoundClosed ==
  ASSUME TypeOK, RecordsInv, ClosedIsClosed, MarkInv, NEW r \in Out
  PROVE  Dead(rt[r], idx.entry[r].epoch) /\ ~Open(row[idx.entry[r].att][pfx[r]])
<1>0. HolderInv /\ IndexInv
  BY Zenon DEF RecordsInv
<1>1. r \in Route /\ idx.entry[r].epoch > 0 /\ Removal(r) /\ Leaves(r)
  BY Zenon DEF Out, Removed
<1>2. Dead(rt[r], idx.entry[r].epoch)
  BY Zenon, <1>1, RemovalDead
<1>3. CASE NodeClosed(r)
  <2>1. Live(r) /\ rt[r].closed >= idx.entry[r].epoch
    BY Zenon, <1>3 DEF NodeClosed
  <2> QED
    BY Zenon, <1>0, <1>1, <1>2, <2>1, ClosedEntry
<1>4. CASE MarkedFor(r) /\ marks[r].waited >= TakeoverWait
  <2>1. marks[r] # NoMark
    <3>1. idx.entry[r].epoch # 0
      BY <1>1
    <3> QED
      BY Zenon, <1>4, <3>1, Blanks DEF MarkedFor
  <2>2. RunsOut(row[idx.entry[r].att][pfx[r]], marks[r].waited)
    BY Zenon, <1>1, <2>1 DEF MarkInv
  <2>3. row[idx.entry[r].att][pfx[r]] \in Row
    BY Zenon, <1>0, <1>1, EntryHolder, Parts
  <2>4. marks[r].waited \in 0..TakeoverWait
    BY Zenon, <1>1 DEF TypeOK, Mark
  <2>5. ~Open(row[idx.entry[r].att][pfx[r]])
    BY Zenon, <1>4, <2>2, <2>3, <2>4, OutAfterWait
  <2> QED
    BY Zenon, <1>2, <2>5
<1> QED
  BY Zenon, <1>1, <1>3, <1>4 DEF Leaves

(* It stays so until SweepWrite, although routes, leases and gates change  *)
(* in between.                                                             *)
LEMMA SweepStep ==
  ASSUME TypeOK, TypeOK', RecordsInv, ClosedIsClosed, SafeInv, [Next]_vars, ~MayReclaim
  PROVE  SweepInv'
<1>0. HolderInv /\ IndexInv /\ EntryInv /\ MarkInv /\ SweepInv
  BY Zenon DEF RecordsInv, SafeInv
<1>1. SUFFICES ASSUME sweep'.there, NEW r \in Route, sweep'.entry[r] # idx'.entry[r]
               PROVE  /\ Dead(rt'[r], idx'.entry[r].epoch)
                      /\ ~Open(row'[idx'.entry[r].att][pfx'[r]])
  BY Zenon DEF SweepInv
<1>2. CASE SweepRead
  <2>1. UNCHANGED rt /\ UNCHANGED row /\ UNCHANGED idx /\ UNCHANGED pfx
    BY Zenon, <1>2, SweepFacts
  <2>2. sweep' = Swept
    BY Zenon, <1>1, <1>2, SweepFacts, Blanks
  <2>3. Swept.entry[r] = IF r \in Out THEN NoHolder ELSE idx.entry[r]
    BY Zenon, <1>2, SweepFacts
  <2>4. r \in Out
    BY Zenon, <1>1, <2>1, <2>2, <2>3
  <2>5. Dead(rt[r], idx.entry[r].epoch) /\ ~Open(row[idx.entry[r].att][pfx[r]])
    BY Zenon, <1>0, <2>4, FoundClosed
  <2> QED
    BY Zenon, <2>1, <2>5
<1>3. CASE ~SweepRead
  <2>1. UNCHANGED sweep /\ UNCHANGED idx /\ ~Commit
    BY Zenon, <1>1, <1>3, SweepStays
  <2>2. UNCHANGED pfx
    BY Zenon, SamePrefix
  <2>3. sweep.there /\ sweep.entry[r] # idx.entry[r]
    BY Zenon, <1>1, <2>1
  <2>4. Dead(rt[r], idx.entry[r].epoch) /\ ~Open(row[idx.entry[r].att][pfx[r]])
    BY Zenon, <1>0, <2>3 DEF SweepInv
  <2>5. idx.entry[r].epoch > 0
    BY Zenon, <1>0, <2>3 DEF IndexInv, HolderInv, Ordered, Known
  <2>6. Dead(rt'[r], idx.entry[r].epoch)
    BY Zenon, <2>1, <2>4, <2>5, DeadStays
  <2>7. ~Open(row'[idx.entry[r].att][pfx[r]])
    BY Zenon, <1>0, <2>4, <2>5, DeadGate
  <2> QED
    BY Zenon, <2>1, <2>2, <2>6, <2>7
<1> QED
  BY Zenon, <1>2, <1>3
-----------------------------------------------------------------------------
(* Together. *)

(* Nothing is claimed, and no gate is open. *)
LEMMA InitInv == Init => IInv
<1> SUFFICES ASSUME Init PROVE IInv
  OBVIOUS
<1>1. \A r \in Route :
        /\ rt[r] = NewRoute /\ obs[r] = Unseen /\ marks[r] = NoMark
        /\ idx.entry[r] = NoHolder /\ ~Live(r)
  BY Zenon, Blanks DEF Init, Live
<1>2. \A a \in Attachment : lease[a] = NoLease /\ \A p \in Prefix : row[a][p] = NoRow
  BY Zenon DEF Init
<1>3. idx = NoIndex /\ sweep = NoIndex /\ pass = NoPass
  BY Zenon DEF Init
<1>4. \A a \in Attachment, p \in Prefix : ~Open(row[a][p])
  BY Zenon, <1>2, PastDeadline
<1>5. ~(NoHolder.epoch > 0) /\ NewRoute.closed <= NoHolder.epoch
  BY Blanks
<1>6. TypeOK
  BY Zenon, Initials DEF Init, TypeOK
<1>7. StateInv
  <2>1. NewRoute = [NewRoute EXCEPT !.state = NewRoute.state]
    BY Zenon DEF NewRoute
  <2>2. \A r \in Route : pass.r # r
    BY Zenon, <1>3, Blanks, EdgeAssumption
  <2> QED
    BY Zenon, <1>1, <2>1, <2>2 DEF StateInv
<1>8. NameInv
  BY Zenon, <1>1 DEF NameInv
<1>9. HolderInv
  <2>1. Precedes(NoHolder, NoHolder)
    BY Zenon, PrecedesItself, Initials
  <2>2. Ordered(NewRoute, NoHolder, lease)
    BY Zenon, <1>5, <2>1, Blanks DEF Ordered, Known
  <2> QED
    BY Zenon, <1>1, <2>2 DEF HolderInv
<1>10. LeaseInv
  BY Zenon, <1>2, Blanks DEF LeaseInv
<1>11. PassInv /\ HandoverInv
  BY Zenon, <1>3 DEF PassInv, HandoverInv
<1>12. IndexInv
  <2>1. \A r \in Route : rt[r].acc = NoHolder
    BY Zenon, <1>1, Blanks
  <2>2. ~sweep.there /\ idx.removing = {}
    BY Zenon, <1>3, Blanks
  <2> QED
    BY Zenon, <1>1, <1>3, <1>5, <2>1, <2>2 DEF IndexInv
<1>13. ClosedIsClosed /\ EntryInv
  <2>1. \A r \in Route : ~MayForward(r)
    BY Zenon, <1>1 DEF MayForward
  <2> QED
    BY Zenon, <1>1, <2>1 DEF ClosedIsClosed, EntryInv
<1>14. GateInv
  BY Zenon, <1>4 DEF GateInv
<1>15. ObservedInv /\ MarkInv /\ SweepInv
  BY Zenon, <1>1, <1>3, Blanks DEF ObservedInv, MarkInv, SweepInv
<1>16. CoreInv
  BY Zenon, <1>6, <1>7, <1>8, <1>9, <1>10, <1>11, <1>12, <1>13 DEF CoreInv
<1>17. SafeInv
  BY Zenon, <1>11, <1>13, <1>14, <1>15 DEF SafeInv
<1> QED
  BY Zenon, <1>16, <1>17 DEF IInv

(* Every step of providers, leader, agents and clocks keeps it. *)
LEMMA NextInv == IInv /\ [Next]_vars => IInv'
<1> SUFFICES ASSUME IInv, [Next]_vars PROVE IInv'
  OBVIOUS
<1>1. TypeOK /\ RecordsInv /\ ClosedIsClosed
  BY Zenon DEF IInv, CoreInv, RecordsInv
<1>2. TypeOK' /\ RecordsInv'
  BY Zenon, <1>1, RecordsStep
<1>3. ClosedIsClosed'
  BY Zenon, <1>1, <1>2, ClosedStep
<1>4. CoreInv'
  BY Zenon, <1>2, <1>3 DEF CoreInv, RecordsInv
<1>5. ASSUME ~MayReclaim PROVE SafeInv'
  <2>1. SafeInv
    BY Zenon, <1>5 DEF IInv
  <2>2. EntryInv'
    BY Zenon, <1>1, <1>2, <1>5, <2>1, EntryStep
  <2>3. GateInv'
    BY Zenon, <1>1, <1>2, <2>1, GateStep
  <2>4. HandoverInv'
    BY Zenon, <1>1, <1>2, <2>1, HandoverStep
  <2>5. ObservedInv'
    BY Zenon, <1>1, <1>2, <2>1, ObservedStep
  <2>6. MarkInv'
    BY Zenon, <1>1, <1>2, <1>5, <2>1, MarkStep
  <2>7. SweepInv'
    BY Zenon, <1>1, <1>2, <1>5, <2>1, SweepStep
  <2> QED
    BY Zenon, <2>2, <2>3, <2>4, <2>5, <2>6, <2>7 DEF SafeInv
<1> QED
  BY Zenon, <1>4, <1>5 DEF IInv

(* The inductive invariant. *)
THEOREM Invariance == Spec => []IInv
  BY InitInv, NextInv, PTL DEF Spec

(* Objects, index, leases, gates and memories have their types, and no     *)
(* epoch or term leaves its bound.                                         *)
THEOREM TypeCorrect == Spec => []TypeOK
<1>1. IInv => TypeOK
  BY Zenon DEF IInv, CoreInv
<1> QED
  BY <1>1, Invariance, PTL

(* A gate whose closing the node recorded stays closed, whoever claims the *)
(* route again and when: "an epoch at or below closedEpoch is never opened *)
(* again".                                                                 *)
THEOREM ClosedStaysClosed == Spec => []ClosedIsClosed
<1>1. IInv => ClosedIsClosed
  BY Zenon DEF IInv, CoreInv
<1> QED
  BY <1>1, Invariance, PTL

(* Two attachments' gates are never open at once, when a provider claims a *)
(* route it released only once the gate's closing is recorded: acceptance, *)
(* wait, fence, index and marks are enough, whatever was read when.        *)
THEOREM GatesExclusive == ASSUME ~MayReclaim PROVE Spec => []ExclusiveGates
<1>1. IInv => ExclusiveGates
  <2> SUFFICES ASSUME IInv, NEW a \in Attachment, NEW b \in Attachment,
                      NEW p \in Prefix, NEW q \in Prefix, Open(row[a][p]), Open(row[b][q])
               PROVE  a = b
    BY Zenon DEF ExclusiveGates
  <2>1. GateInv /\ IndexInv
    BY Zenon DEF IInv, CoreInv, SafeInv
  <2>2. PICK r \in Route : idx.entry[r].epoch > 0 /\ idx.entry[r].att = a
    BY Zenon, <2>1 DEF GateInv
  <2>3. PICK s \in Route : idx.entry[s].epoch > 0 /\ idx.entry[s].att = b
    BY Zenon, <2>1 DEF GateInv
  <2>4. r = s
    BY Zenon, <2>1, <2>2, <2>3 DEF IndexInv
  <2> QED
    BY Zenon, <2>2, <2>3, <2>4
<1> QED
  BY <1>1, Invariance, PTL

(* Of the routes that overlap one at most may forward, under the same      *)
(* condition: the index keeps acceptances apart.                           *)
THEOREM AcceptancesDisjoint == ASSUME ~MayReclaim PROVE Spec => []AcceptedDisjoint
<1>1. IInv => AcceptedDisjoint
  BY Zenon DEF IInv, CoreInv, SafeInv, EntryInv, IndexInv, AcceptedDisjoint
<1> QED
  BY <1>1, Invariance, PTL

(* What the leader has counted, towards a removal or a takeover, bounds    *)
(* the gate it waits for, under the same condition.                        *)
THEOREM WaitCoversGate == ASSUME ~MayReclaim PROVE Spec => []WaitBoundsGate
<1>1. IInv => WaitBoundsGate
  <2> SUFFICES ASSUME IInv, NEW r \in Route, Counted(r) > 0
               PROVE  RunsOut(row[HolderOf(r)][pfx[r]], Counted(r))
    BY Zenon DEF WaitBoundsGate, RunsOut
  <2>0. TypeOK /\ HolderInv /\ IndexInv /\ MarkInv /\ ObservedInv
    BY Zenon DEF IInv, CoreInv, SafeInv
  <2> DEFINE prev == Previous(rt[r], idx.entry[r])
  <2>1. CASE MarkedFor(r) /\ r \in idx.removing /\ Removal(r)
    <3>1. idx.entry[r].epoch > 0
      BY Zenon, <2>0, <2>1 DEF IndexInv
    <3>2. idx.entry[r].epoch # 0
      BY <3>1
    <3>3. marks[r] # NoMark
      BY Zenon, <2>1, <3>2, Blanks DEF MarkedFor
    <3>4. RunsOut(row[idx.entry[r].att][pfx[r]], marks[r].waited)
      BY Zenon, <2>0, <3>3 DEF MarkInv
    <3>5. HolderOf(r) = idx.entry[r].att
      BY Zenon, <2>0, <3>1, PreviousIsEntry DEF HolderOf
    <3>6. Counted(r) = marks[r].waited
      BY Zenon, <2>1 DEF Counted
    <3> QED
      BY Zenon, <3>4, <3>5, <3>6
  <2>2. CASE ~(MarkedFor(r) /\ r \in idx.removing /\ Removal(r))
             /\ Live(r) /\ prev.epoch > 0 /\ Seen(r, prev)
    <3>1. obs[r].ver # "none" /\ obs[r].epoch = prev.epoch
      BY Zenon, <2>2 DEF Seen, LeaseVersion
    <3>2. RunsOut(row[prev.att][pfx[r]], obs[r].waited)
      BY Zenon, <2>0, <3>1 DEF ObservedInv, Watched
    <3>3. HolderOf(r) = prev.att /\ Counted(r) = obs[r].waited
      BY Zenon, <2>2 DEF HolderOf, Counted
    <3> QED
      BY Zenon, <3>2, <3>3
  <2>3. CASE Counted(r) = 0
    BY <2>3
  <2> QED
    BY Zenon, <2>1, <2>2, <2>3 DEF Counted
<1> QED
  BY <1>1, Invariance, PTL
====
