----------------------------- MODULE EdgeRoute -----------------------------
(***************************************************************************)
(* Forwarding claims on a prefix of a VPC (internal/edge/route and         *)
(* internal/edge/agent/gate.go).  Providers claim EdgeRoutes for their     *)
(* attachments, galactic-controller's leader accepts a claim once the      *)
(* previous holder cannot forward any more and serializes acceptance       *)
(* through the VPC's EdgeRouteIndex, and the agent on the holder's node    *)
(* opens the link's forwarding gate until a deadline taken from the        *)
(* holder's instance lease.                                                *)
(*                                                                         *)
(* Time is as in Claim: a tick advances the clock of every node and of the *)
(* leader by Slow..Fast, and instants are kept as ages, capped where no    *)
(* test can tell them apart any more.                                      *)
(*                                                                         *)
(* Abstractions.  All prefixes overlap.  A route is an object: created     *)
(* again under its name it is another route with the same prefix.  Every   *)
(* attachment is on a node of its own, with one instance; term stands for  *)
(* the incarnation and the epoch of the instance's lease.  Attachments,    *)
(* services, providers and subnets change at any time, so Check, its lease *)
(* aside, and Conflict may refuse or pass whenever they are called; that a *)
(* grant expires is one of the reasons.  A write is conditional on the     *)
(* version read, so a pass whose object is written by another ends there.  *)
(* The status write that follows a commit to the index lands with it, or   *)
(* is left to a later pass.                                                *)
(* The agent's cache may be arbitrarily old, and a pass may pause for any  *)
(* time between its reads and its writes.                                  *)
(* A route's first claim creates it.                                       *)
(*                                                                         *)
(* MayReclaim tells two environments apart.  With FALSE a provider claims  *)
(* a route whose accepted claim it released only after the node recorded   *)
(* the gate's closing; the code does not make it wait, which is TRUE.  A   *)
(* claim released before it was accepted is replaced at any time in both.  *)
(***************************************************************************)
EXTENDS Integers, FiniteSets

CONSTANTS Route, Prefix, Attachment, NoAtt, NoRoute,
          Duration,      \* Params.Duration
          Margin,        \* Params.Margin
          Slow, Fast,    \* (1 - MaxDrift) and (1 + MaxDrift), in clock units per tick
          MaxEpoch,      \* bound on the claims of all routes
          MaxTerm,       \* bound on the terms of a lease that are acquired
          MayReclaim     \* an accepted claim, once released, may be replaced before its gate's closing is recorded

ASSUME EdgeAssumption ==
  /\ Duration \in Nat \ {0} /\ Margin \in Nat
  /\ Slow \in Nat \ {0} /\ Fast \in Slow..(3 * Slow)
  /\ MaxEpoch \in Nat \ {0} /\ MaxTerm \in Nat
  /\ MayReclaim \in BOOLEAN
  /\ NoAtt \notin Attachment /\ NoRoute \notin Route /\ IsFiniteSet(Route)

TakeoverWait == (Duration * Fast) \div Slow + Margin

VARIABLES
  pfx,    \* the prefix, so the name, of each route
  rt,     \* the EdgeRoutes
  idx,    \* the VPC's EdgeRouteIndex
  lease,  \* the instance lease of each attachment
  row,    \* the gate of each attachment's link for each prefix
  pass,   \* the pass of the route reconciler
  obs,    \* Reconciler.observed
  sweep,  \* the index the pass of the index reconciler is about to write
  marks,  \* IndexReconciler.marks of entries
  quiet   \* IndexReconciler.marks of the rebuilt index

indexer == <<sweep, marks, quiet>>
vars == <<pfx, rt, idx, lease, row, pass, obs, indexer>>

Epoch == 0..MaxEpoch
Term == 0..(MaxTerm + 1)
Age == 0..Duration
Holder == [epoch : Epoch, att : Attachment \cup {NoAtt}, term : Term]
NoHolder == [epoch |-> 0, att |-> NoAtt, term |-> 0]

(* An EdgeRoute: spec.claim, status.accepted, its Accepted condition and   *)
(* status.closedEpoch.                                                     *)
RouteObject ==
  [state : {"new", "live", "gone"}, claim : Holder, released : BOOLEAN,
   acc : Holder, accepted : BOOLEAN, closed : Epoch]
NewRoute ==
  [state |-> "new", claim |-> NoHolder, released |-> FALSE,
   acc |-> NoHolder, accepted |-> FALSE, closed |-> 0]

Index == [there : BOOLEAN, rebuilt : BOOLEAN,
          entry : [Route -> Holder], removing : SUBSET Route]
NoIndex == [there |-> FALSE, rebuilt |-> FALSE,
            entry |-> [r \in Route |-> NoHolder], removing |-> {}]

LeaseRecord == [term : Term, held : BOOLEAN, age : Age]
NoLease == [term |-> 0, held |-> FALSE, age |-> 0]

(* A gate: the epoch it was opened for and the age of the renewal it was   *)
(* opened from; a gate closed before its deadline is as one past it.       *)
Row == [epoch : Epoch, age : Age]
NoRow == [epoch |-> 0, age |-> Duration]

(* A pass of the route reconciler about to commit: the claim it read, and  *)
(* whether the route is still as it read it.                               *)
Pass == [r : Route \cup {NoRoute}, claim : Holder, rtSame : BOOLEAN]
NoPass == [r |-> NoRoute, claim |-> NoHolder, rtSame |-> FALSE]

Observation ==
  [ver : {"none", "lease", "gone"}, att : Attachment \cup {NoAtt},
   epoch : Epoch, waited : 0..TakeoverWait]
Unseen == [ver |-> "none", att |-> NoAtt, epoch |-> 0, waited |-> 0]

Mark == [epoch : Epoch, waited : 0..TakeoverWait]
NoMark == [epoch |-> 0, waited |-> 0]

AtMost(n, bound) == IF n > bound THEN bound ELSE n
Live(r) == rt[r].state = "live"
-----------------------------------------------------------------------------
(* Writes.  A lease written is another version of it for the leader, and   *)
(* an index written is one no pass has read.                               *)

WriteRoute(r, new) ==
  /\ rt' = [rt EXCEPT ![r] = new]
  /\ pass' = IF pass.r = r THEN [pass EXCEPT !.rtSame = FALSE] ELSE pass

WriteLease(a, new) ==
  /\ lease' = [lease EXCEPT ![a] = new]
  /\ obs' = [r \in Route |-> IF obs[r].ver = "lease" /\ obs[r].att = a THEN Unseen ELSE obs[r]]

WriteIndex(new) ==
  /\ idx' = new
  /\ pass' = NoPass
  /\ sweep' = NoIndex
-----------------------------------------------------------------------------
(* Providers: internal/edge/claim and internal/edge/provider. *)

(* An acquisition of the next term, or a renewal, takes effect some time   *)
(* after it was started.                                                   *)
LeaseWrite(a) ==
  /\ \E term \in {lease[a].term, lease[a].term + 1} \cap (1..MaxTerm), age \in Age :
       /\ term = lease[a].term => lease[a].held
       /\ WriteLease(a, [term |-> term, held |-> TRUE, age |-> age])
  /\ UNCHANGED <<pfx, rt, idx, row, pass, indexer>>

(* The provider releases its lease, or the lease is deleted with its       *)
(* instance, as InstanceReaper does.                                       *)
LeaseEnd(a) ==
  /\ lease[a].held
  /\ WriteLease(a, [term |-> lease[a].term, held |-> FALSE, age |-> 0])
  /\ UNCHANGED <<pfx, rt, idx, row, pass, indexer>>

(* The claim at its epoch can never forward again. *)
ClaimEnded(o) ==
  \/ o.closed >= o.claim.epoch
  \/ o.acc.epoch = o.claim.epoch /\ ~o.accepted

(* The claims made so far, of routes that still exist. *)
Claims == Cardinality(UNION {{r} \X (1..rt[r].claim.epoch) : r \in Route})

Claim(a, r) ==
  LET o == rt[r]
      same == o.claim.att = a /\ o.claim.term = lease[a].term
  IN /\ Live(r) \/ (o.state = "new" /\ \A s \in Route : pfx[s] = pfx[r] => ~Live(s))
     /\ lease[a].held
     /\ Claims < MaxEpoch
     /\ o.claim.epoch = 0 \/ ~same \/ o.released \/ ClaimEnded(o)
     /\ o.released /\ o.acc.epoch = o.claim.epoch => MayReclaim \/ o.closed >= o.claim.epoch
     /\ WriteRoute(r, [o EXCEPT !.state = "live", !.released = FALSE,
          !.claim = [epoch |-> o.claim.epoch + 1, att |-> a, term |-> lease[a].term]])
     /\ UNCHANGED <<pfx, idx, lease, row, obs, indexer>>

Release(a, r) ==
  /\ Live(r)
  /\ rt[r].claim.att = a
  /\ ~rt[r].released
  /\ WriteRoute(r, [rt[r] EXCEPT !.released = TRUE])
  /\ UNCHANGED <<pfx, idx, lease, row, obs, indexer>>

(* By its provider, or by reap once nothing can use it. *)
DeleteRoute(r) ==
  /\ Live(r)
  /\ WriteRoute(r, [NewRoute EXCEPT !.state = "gone"])
  /\ obs' = [obs EXCEPT ![r] = Unseen]
  /\ UNCHANGED <<pfx, idx, lease, row, indexer>>

(* The index is deleted, by hand or by a restored backup. *)
LoseIndex ==
  /\ idx.there
  /\ WriteIndex(NoIndex)
  /\ UNCHANGED <<pfx, rt, lease, row, obs, marks, quiet>>
-----------------------------------------------------------------------------
(* The route reconciler. *)

(* decide: an accepted holder whose authority ended is revoked. *)
Revoke(r) ==
  /\ Live(r)
  /\ rt[r].accepted
  /\ WriteRoute(r, [rt[r] EXCEPT !.accepted = FALSE])
  /\ UNCHANGED <<pfx, idx, lease, row, obs, indexer>>

(* A claim that is pending and that Check does not refuse. *)
LeaseHeld(h) == lease[h.att].held /\ lease[h.att].term = h.term
Acceptable(r) ==
  LET o == rt[r] IN
    /\ Live(r)
    /\ o.claim.epoch > o.acc.epoch /\ ~o.released
    /\ LeaseHeld(o.claim)

(* index: a missing index is rebuilt from the holders of every route; of   *)
(* two that overlap, the one found later is left out.                      *)
Rebuilt ==
  LET held == {r \in Route : Live(r) /\ rt[r].acc.epoch > 0}
      only(S) == [there |-> TRUE, rebuilt |-> TRUE,
                  entry |-> [r \in Route |-> IF r \in S THEN rt[r].acc ELSE NoHolder],
                  removing |-> {r \in S : ~rt[r].accepted}]
  IN IF held = {} THEN {only({})} ELSE {only({r}) : r \in held}

CreateIndex(r) ==
  /\ Acceptable(r)
  /\ ~idx.there
  /\ \E new \in Rebuilt : WriteIndex(new)
  /\ marks' = [s \in Route |-> NoMark]
  /\ quiet' = NoMark
  /\ UNCHANGED <<pfx, rt, lease, row, obs>>

(* previous: the entry when its status write has not followed yet. *)
Previous(o, entry) == IF entry.epoch > o.acc.epoch THEN entry ELSE o.acc

(* No other forwarder can exist, or the previous one's node confirmed its  *)
(* gate closed.                                                            *)
Fenced(o, prev) ==
  \/ prev.epoch = 0
  \/ prev.att = o.claim.att
  \/ o.closed >= prev.epoch

(* The claim is in the index, or must be fenced from prev first: not while *)
(* a first claim waits for the quiet period of a rebuilt index.            *)
Committed(r) ==
  idx.entry[r].epoch = rt[r].claim.epoch /\ idx.entry[r].att = rt[r].claim.att
Deciding(r) ==
  /\ Acceptable(r)
  /\ idx.there
  /\ ~Committed(r)
  /\ ~(Previous(rt[r], idx.entry[r]).epoch = 0 /\ idx.rebuilt)

(* Mutant: only the same prefix overlaps. *)
OverlappingEqual(r) == \E s \in Route \ {r} : pfx[s] = pfx[r] /\ idx.entry[s].epoch > 0
Overlapping(r) == \E s \in Route \ {r} : idx.entry[s].epoch > 0

(* waited *)
LeaseVersion(h) == IF LeaseHeld(h) THEN "lease" ELSE "gone"
Seen(r, prev) == obs[r].ver = LeaseVersion(prev) /\ obs[r].epoch = prev.epoch
WaitOver(r, prev) == Seen(r, prev) /\ obs[r].waited >= TakeoverWait

(* A version seen for the first time starts the wait. *)
Observe(r) ==
  LET prev == Previous(rt[r], idx.entry[r]) IN
    /\ Deciding(r)
    /\ ~Fenced(rt[r], prev)
    /\ ~Seen(r, prev)
    /\ obs' = [obs EXCEPT ![r] = [ver |-> LeaseVersion(prev), att |-> prev.att,
                                  epoch |-> prev.epoch, waited |-> 0]]
    /\ UNCHANGED <<pfx, rt, idx, lease, row, pass, indexer>>

(* The wait is over.  A lease that could still be renewed is fenced at the *)
(* version waited for: the next term, held by nobody.                      *)
Fence(a) ==
  WriteLease(a, [term |-> lease[a].term + 1, held |-> FALSE, age |-> 0])

Accept(r) ==
  LET o == rt[r]
      prev == Previous(o, idx.entry[r])
  IN /\ Deciding(r)
     /\ \/ Fenced(o, prev) /\ UNCHANGED <<lease, obs>>
        \/ /\ ~Fenced(o, prev) /\ WaitOver(r, prev)
           /\ \/ LeaseVersion(prev) = "gone" /\ UNCHANGED <<lease, obs>>
              \/ LeaseVersion(prev) = "lease" /\ Fence(prev.att)
     /\ pass' = IF Overlapping(r) THEN NoPass
                ELSE [r |-> r, claim |-> o.claim, rtSame |-> TRUE]
     /\ UNCHANGED <<pfx, rt, idx, row, indexer>>

Accepted(r, h) == [rt[r] EXCEPT !.acc = h, !.accepted = TRUE]

(* The commit to the index, then the status write, which fails when the    *)
(* route has changed, and may fail otherwise.                              *)
Commit ==
  LET r == pass.r IN
    /\ pass # NoPass
    /\ WriteIndex([idx EXCEPT !.entry = [@ EXCEPT ![r] = pass.claim], !.removing = @ \ {r}])
    /\ obs' = [obs EXCEPT ![r] = Unseen]
    /\ marks' = [marks EXCEPT ![r] = NoMark]
    /\ \/ pass.rtSame /\ rt' = [rt EXCEPT ![r] = Accepted(r, pass.claim)]
       \/ UNCHANGED rt
    /\ UNCHANGED <<pfx, lease, row, quiet>>

(* A claim committed by a pass whose status write failed. *)
Status(r) ==
  /\ Acceptable(r)
  /\ idx.there
  /\ Committed(r)
  /\ WriteRoute(r, Accepted(r, rt[r].claim))
  /\ UNCHANGED <<pfx, idx, lease, row, obs, indexer>>

(* A call of the pass fails, or its process dies. *)
PassFails ==
  /\ pass # NoPass
  /\ pass' = NoPass
  /\ UNCHANGED <<pfx, rt, idx, lease, row, obs, indexer>>
-----------------------------------------------------------------------------
(* The index reconciler. *)

(* removal: the entry's holder is no longer accepted, and neither the      *)
(* status write that makes it so is to come nor an earlier holder forwards *)
Removal(r) ==
  LET o == rt[r]
      e == idx.entry[r].epoch
      pending == o.claim.epoch = e /\ ~o.released
      live == o.acc.epoch > 0 /\ o.accepted /\ o.closed < o.acc.epoch
  IN \/ ~Live(r)
     \/ o.acc.epoch # e /\ ~pending /\ ~live
     \/ o.acc.epoch = e /\ (~o.accepted \/ (o.claim.epoch = e /\ o.released))

(* The holder's node confirmed its gate closed. *)
NodeClosed(r) ==
  Live(r) /\ rt[r].acc.epoch = idx.entry[r].epoch /\ rt[r].closed >= rt[r].acc.epoch

MarkedFor(r) == marks[r].epoch = idx.entry[r].epoch
(* Mutant: an entry found marked leaves without the wait. *)
LeavesMarked(r) == r \in idx.removing /\ (NodeClosed(r) \/ MarkedFor(r))
Leaves(r) ==
  /\ r \in idx.removing
  /\ NodeClosed(r) \/ (MarkedFor(r) /\ marks[r].waited >= TakeoverWait)

(* An entry to remove is first marked in the index, then waited for from   *)
(* the first pass that finds it marked.                                    *)
SweepRead ==
  LET removed == {r \in Route : idx.entry[r].epoch > 0 /\ Removal(r)}
      out == {r \in removed : Leaves(r)}
      noticed == {r \in (removed \cap idx.removing) \ out : ~MarkedFor(r)}
      new == [there |-> TRUE,
              rebuilt |-> idx.rebuilt /\ ~(quiet.epoch = 1 /\ quiet.waited >= TakeoverWait),
              entry |-> [r \in Route |-> IF r \in out THEN NoHolder ELSE idx.entry[r]],
              removing |-> (idx.removing \cup removed) \ out]
  IN /\ ~sweep.there
     /\ idx.there
     /\ marks' = [r \in Route |->
          IF r \in out THEN NoMark
          ELSE IF r \in noticed THEN [epoch |-> idx.entry[r].epoch, waited |-> 0]
          ELSE marks[r]]
     /\ quiet' = IF idx.rebuilt /\ quiet.epoch = 0 THEN [epoch |-> 1, waited |-> 0] ELSE quiet
     /\ sweep' = IF new = idx THEN NoIndex ELSE new
     /\ UNCHANGED <<pfx, rt, idx, lease, row, pass, obs>>

SweepWrite ==
  /\ sweep.there
  /\ WriteIndex(sweep)
  /\ UNCHANGED <<pfx, rt, lease, row, obs, marks, quiet>>

(* Another leader starts: what the last one had observed is gone, and what *)
(* it was about to write may still be written.                             *)
LeaderChange ==
  /\ obs' = [r \in Route |-> Unseen]
  /\ marks' = [r \in Route |-> NoMark]
  /\ quiet' = NoMark
  /\ sweep' \in {sweep, NoIndex}
  /\ UNCHANGED <<pfx, rt, idx, lease, row, pass>>
-----------------------------------------------------------------------------
(* The agent on the attachment's node. *)

(* The cache, which may be old, has the route accepted on the node. *)
Cached(a, r) == rt[r].state = "gone" \/ rt[r].acc.att = a \/ rt[r].acc.epoch > 1

SetRow(a, r, g) == row' = [row EXCEPT ![a] = [@ EXCEPT ![pfx[r]] = g]]
Open(g) == g.age < Duration

(* The route, read after the lease, is no longer the node's or is closed. *)
Moved(a, r) ==
  ~Live(r) \/ rt[r].acc.att # a \/ rt[r].acc.epoch <= rt[r].closed

GateRemove(a, r) ==
  /\ Cached(a, r)
  /\ row[a][pfx[r]] # NoRow
  /\ Moved(a, r)
  /\ SetRow(a, r, NoRow)
  /\ UNCHANGED <<pfx, rt, idx, lease, pass, obs, indexer>>

(* ended *)
Expired(r, g) == g.epoch = rt[r].acc.epoch /\ ~Open(g)
(* Mutant: the claim's release is not looked at. *)
EndedUnreleased(r, g) == ~rt[r].accepted \/ Expired(r, g) \/ ~LeaseHeld(rt[r].acc)
GateEnded(r, g) ==
  \/ ~rt[r].accepted
  \/ rt[r].claim.epoch = rt[r].acc.epoch /\ rt[r].released
  \/ Expired(r, g)
  \/ ~LeaseHeld(rt[r].acc)

(* Mutant: the closing is recorded of a gate whose write failed. *)
GateCloseUnwritten(a, r) ==
  /\ ~Moved(a, r)
  /\ WriteRoute(r, [rt[r] EXCEPT !.closed = rt[r].acc.epoch])
  /\ UNCHANGED <<pfx, idx, lease, row, obs, indexer>>

(* closeGate *)
ClosedRow(g, e) == IF g = NoRow THEN NoRow ELSE [epoch |-> e, age |-> Duration]

(* recordClosed, which may fail.  confirmClosed finds the gate just closed *)
(* and, on a node of its own, no other.                                    *)
RecordClosed(r, e) ==
  \/ WriteRoute(r, [rt[r] EXCEPT !.closed = e])
  \/ UNCHANGED <<rt, pass>>

(* The gate is closed, for GateEnded or another refusal of Check, and kept *)
(* until its closing is recorded.                                          *)
GateClose(a, r) ==
  LET e == rt[r].acc.epoch IN
    /\ ~Moved(a, r)
    /\ SetRow(a, r, ClosedRow(row[a][pfx[r]], e))
    /\ RecordClosed(r, e)
    /\ UNCHANGED <<pfx, idx, lease, obs, indexer>>

(* Opened, or extended by a renewal newer than the gate's.  The lease is   *)
(* read before the route: it may have been renewed since, never the other  *)
(* way around.                                                             *)
GateOpen(a, r) ==
  LET g == row[a][pfx[r]]
      acc == rt[r].acc
  IN /\ ~Moved(a, r)
     /\ ~GateEnded(r, g)
     /\ \E age \in lease[a].age..(Duration - 1) :
          /\ g.epoch # acc.epoch \/ age < g.age
          /\ SetRow(a, r, [epoch |-> acc.epoch, age |-> age])
     /\ UNCHANGED <<pfx, rt, idx, lease, pass, obs, indexer>>

(* An expired gate that no route in the cache claims. *)
SweepGates(a, p) ==
  /\ row[a][p] # NoRow
  /\ ~Open(row[a][p])
  /\ row' = [row EXCEPT ![a] = [@ EXCEPT ![p] = NoRow]]
  /\ UNCHANGED <<pfx, rt, idx, lease, pass, obs, indexer>>
-----------------------------------------------------------------------------
Older(x, by) == [x EXCEPT !.age = AtMost(@ + by, Duration)]
Longer(m, by) == [m EXCEPT !.waited = AtMost(@ + by, TakeoverWait)]

Tick ==
  \E by \in [Attachment -> Slow..Fast], lby \in Slow..Fast :
    /\ lease' = [a \in Attachment |->
         IF lease[a].held THEN Older(lease[a], by[a]) ELSE lease[a]]
    /\ row' = [a \in Attachment |-> [p \in Prefix |-> Older(row[a][p], by[a])]]
    /\ obs' = [r \in Route |-> IF obs[r] = Unseen THEN Unseen ELSE Longer(obs[r], lby)]
    /\ marks' = [r \in Route |-> IF marks[r] = NoMark THEN NoMark ELSE Longer(marks[r], lby)]
    /\ quiet' = IF quiet = NoMark THEN NoMark ELSE Longer(quiet, lby)
    /\ UNCHANGED <<pfx, rt, idx, pass, sweep>>

Init ==
  /\ pfx \in [Route -> Prefix]
  /\ rt = [r \in Route |-> NewRoute]
  /\ idx = NoIndex
  /\ lease = [a \in Attachment |-> NoLease]
  /\ row = [a \in Attachment |-> [p \in Prefix |-> NoRow]]
  /\ pass = NoPass
  /\ obs = [r \in Route |-> Unseen]
  /\ sweep = NoIndex
  /\ marks = [r \in Route |-> NoMark]
  /\ quiet = NoMark

Next ==
  \/ Tick
  \/ Commit \/ PassFails
  \/ SweepRead \/ SweepWrite \/ LeaderChange
  \/ \E r \in Route :
       \/ DeleteRoute(r) \/ Revoke(r) \/ CreateIndex(r)
       \/ Observe(r) \/ Accept(r) \/ Status(r)
  \/ \E a \in Attachment :
       \/ LeaseWrite(a) \/ LeaseEnd(a)
       \/ \E r \in Route :
            Claim(a, r) \/ Release(a, r) \/ GateRemove(a, r) \/ GateClose(a, r) \/ GateOpen(a, r)
       \/ \E p \in Prefix : SweepGates(a, p)

Spec == Init /\ [][Next]_vars

(* With an index that may be lost. *)
LossSpec == Init /\ [][Next \/ LoseIndex]_vars
-----------------------------------------------------------------------------
(* Properties. *)

(* What the objects, the index, the leases, the gates and the two          *)
(* reconcilers' memories can hold.                                         *)
TypeOK ==
  /\ pfx \in [Route -> Prefix]
  /\ rt \in [Route -> RouteObject]
  /\ idx \in Index /\ sweep \in Index
  /\ lease \in [Attachment -> LeaseRecord]
  /\ row \in [Attachment -> [Prefix -> Row]]
  /\ pass \in Pass
  /\ obs \in [Route -> Observation]
  /\ marks \in [Route -> Mark] /\ quiet \in Mark

(* No two attachments' gates are open at once on prefixes that overlap:    *)
(* what acceptance, the takeover wait, the fence, the index and its marks  *)
(* are there for, across nodes whose agents, providers and leader all work *)
(* from what they last read.                                               *)
ExclusiveGates ==
  \A a, b \in Attachment, p, q \in Prefix :
    Open(row[a][p]) /\ Open(row[b][q]) => a = b

(* Once the node recorded the accepted epoch in closedEpoch, its gate is   *)
(* closed and stays closed: "an epoch at or below closedEpoch is never     *)
(* opened again".  A takeover skips its wait on the strength of it.        *)
ClosedIsClosed ==
  \A r \in Route : LET o == rt[r] IN
    Live(r) /\ o.acc.epoch > 0 /\ o.closed >= o.acc.epoch => ~Open(row[o.acc.att][pfx[r]])

(* Of the routes that overlap, one at most is accepted, neither released   *)
(* nor recorded closed: the index keeps the acceptances apart although it  *)
(* is written before the status, and by two reconcilers.                   *)
MayForward(r) ==
  /\ Live(r) /\ rt[r].accepted
  /\ rt[r].closed < rt[r].acc.epoch
  /\ ~(rt[r].claim.epoch = rt[r].acc.epoch /\ rt[r].released)
AcceptedDisjoint == \A r, s \in Route : MayForward(r) /\ MayForward(s) => r = s

(* While the leader counts towards the removal of an entry, or towards a   *)
(* takeover, an open gate of the holder it waits for was opened from a     *)
(* renewal at least that old: "the gate closes within the lease duration   *)
(* of the mark", whatever the agent read and whenever it comes back.       *)
Counted(r) ==
  LET prev == Previous(rt[r], idx.entry[r]) IN
    IF MarkedFor(r) /\ r \in idx.removing /\ Removal(r) THEN marks[r].waited
    ELSE IF Live(r) /\ prev.epoch > 0 /\ Seen(r, prev) THEN obs[r].waited
    ELSE 0
HolderOf(r) == IF Live(r) THEN Previous(rt[r], idx.entry[r]).att ELSE idx.entry[r].att
WaitBoundsGate ==
  \A r \in Route : Counted(r) > 0 =>
    LET g == row[HolderOf(r)][pfx[r]] IN Open(g) => g.age * Fast >= Counted(r) * Slow
=============================================================================
