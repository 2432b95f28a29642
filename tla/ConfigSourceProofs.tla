------------------------- MODULE ConfigSourceProofs -------------------------
(***************************************************************************)
(* Of module ConfigSource, for any number of ConfigMaps, versions and      *)
(* texts: one writer at a time writes FRR and frr.conf, the one the        *)
(* journal names, and the first ConfigMap taken in after a handoff is not  *)
(* older than the one named, and is that one unless the agent restarted.   *)
(*                                                                         *)
(* The two agents read the gate and not the journal.  The invariant says   *)
(* that the gate agrees with the journal except between the journal's      *)
(* append and the gate's update, which the deployment agent makes under    *)
(* the writer lock, and that each agent is where it is with the lock held. *)
(***************************************************************************)
EXTENDS ConfigSource, TLAPS

Watching == watch \in {"converge", "reload", "promote"}
Syncing == sync \in {"settle", "append", "gate", "apply", "write"}

(* A ConfigMap that is there has a version. *)
Versioned(m) == m.live => m.ver > 0

LockInv ==
  /\ lock = "watch" <=> Watching
  /\ lock = "sync" <=> Syncing

GateInv ==
  /\ sync = "gate" => jnl.source = Target
  /\ sync # "gate" => gate.source = JournalSource /\ gate.handoff = jnl.handoff

StepInv ==
  /\ watch \in {"reload", "promote"} => gate.source # "CRD" /\ TextOf(view) # None
  /\ sync \in {"activate", "apply", "persist", "write"} => jnl.source = "CRD"

MapInv == Versioned(cm) /\ Versioned(store) /\ Versioned(view)

(* Handoffs name versions that were there, and the node leaves CRD only    *)
(* for one that names a ConfigMap.                                         *)
NamedInv ==
  /\ cm.uid > 0
  /\ dep.handoff.ver <= cm.ver
  /\ want.handoff.ver <= cm.ver
  /\ sync = "append" /\ jnl.source = "CRD" /\ Target # "CRD" => want.handoff.uid > 0

IInv == SourceTypeOK /\ LockInv /\ GateInv /\ StepInv /\ MapInv /\ NamedInv

(* While a handoff is due in the process that journaled it, the gate has   *)
(* moved or is about to; in a later process every copy of the ConfigMap    *)
(* was read after the handoff.                                             *)
Due ==
  /\ jnl.handoff = handed.map.uid
  /\ jnl.handoff > 0
  /\ moved \/ (sync = "gate" /\ gate.source = "CRD")

ReadSince ==
  /\ watch # "off" => store.ver >= handed.map.ver
  /\ watch \in {"lock", "converge"} => view.ver >= handed.map.ver

HandInv ==
  handed.map # NoMap =>
    /\ jnl.source # "CRD"
    /\ handed.map.ver <= cm.ver
    /\ handed.here => Due
    /\ ~handed.here => ReadSince
-----------------------------------------------------------------------------
(* Every step is one of these, which is what the cases below go by. *)
LEMMA Steps ==
  ASSUME [Next]_vars
  PROVE  \/ EditConfigMap \/ DeleteConfigMap \/ CreateConfigMap \/ RenewHandoff \/ Promote
         \/ (\E s \in Asked : ChangeSource(s))
         \/ Deliver \/ StartWatch \/ (\E signal \in wake : Wake(signal))
         \/ EnterConverge \/ Converge \/ Reload \/ PromoteCandidate \/ ConvergeFails
         \/ BeginSync \/ EnterSync \/ Settle \/ Append \/ SetGate \/ Apply \/ Persist
         \/ SyncFails
         \/ AgentCrash \/ FRRRestart \/ PodRestart \/ Boot
         \/ UNCHANGED vars
  BY Zenon DEF Next, ConfigMapAgent, DeploymentAgent, Operator, Restart, Failure

(* Who holds the lock is where the lock is held. *)
LEMMA LockStep ==
  ASSUME LockInv, [Next]_vars
  PROVE  LockInv'
<1>1. CASE UNCHANGED <<lock, watch, sync>>
  BY Zenon, <1>1 DEF LockInv, Watching, Syncing
<1>2. CASE AgentCrash \/ PodRestart
  BY <1>2 DEF AgentCrash, PodRestart, Restarted, Leave, LockInv, Watching, Syncing
<1>3. CASE EnterConverge \/ Converge \/ Reload \/ PromoteCandidate \/ ConvergeFails
  BY <1>3 DEF EnterConverge, Converge, Reload, PromoteCandidate, ConvergeFails, Resolved, Done,
     syncVars, LockInv, Watching, Syncing
<1>4. CASE StartWatch \/ BeginSync \/ \E signal \in wake : Wake(signal)
  BY <1>4 DEF StartWatch, BeginSync, Wake, watchVars, syncVars, LockInv, Watching, Syncing
<1>5. CASE EnterSync
  BY <1>5 DEF EnterSync, watchVars, LockInv, Watching, Syncing
<1>6. CASE Settle \/ Append \/ SetGate \/ Apply \/ Persist \/ SyncFails
  BY <1>6 DEF Settle, Append, SetGate, Apply, Persist, SyncFails, Leave, Settled, watchVars,
     LockInv, Watching, Syncing
<1> QED
  BY Zenon, <1>1, <1>2, <1>3, <1>4, <1>5, <1>6, Steps DEF EditConfigMap, DeleteConfigMap,
     CreateConfigMap, ChangeSource, RenewHandoff, Promote, Deliver, FRRRestart, Boot,
     watchVars, syncVars, vars

(* The gate follows the journal before the lock is given back. *)
LEMMA GateStep ==
  ASSUME SourceTypeOK, LockInv, GateInv, [Next]_vars
  PROVE  GateInv'
<1>1. jnl \in [source : Sources \cup {""}, handoff : 0..MaxUid, activated : BOOLEAN]
  BY Zenon DEF SourceTypeOK
<1>2. CASE UNCHANGED <<jnl, gate, sync, want, retired>>
  <2>1. Target' = Target /\ JournalSource' = JournalSource
    BY Zenon, <1>2 DEF Target, JournalSource
  <2> QED
    BY <1>2, <2>1 DEF GateInv
<1>3. CASE AgentCrash \/ PodRestart
  <2>1. gate' = [source |-> JournalSource, handoff |-> jnl.handoff] /\ jnl' = jnl /\ sync' = "idle"
    BY Zenon, <1>3 DEF AgentCrash, PodRestart, Restarted, Leave
  <2>2. gate'.source = JournalSource /\ gate'.handoff = jnl.handoff /\ JournalSource' = JournalSource
    BY Zenon, <2>1 DEF JournalSource
  <2> QED
    BY <2>1, <2>2 DEF GateInv
<1>4. CASE sync # "gate" /\ sync' # "gate" /\ UNCHANGED <<jnl, gate>>
  BY Zenon, <1>4 DEF GateInv, JournalSource
<1>5. CASE BeginSync \/ EnterSync \/ Settle \/ Persist
  <2>1. sync # "gate" /\ sync' # "gate" /\ UNCHANGED <<jnl, gate>>
    BY <1>5 DEF BeginSync, EnterSync, Settle, Persist, Leave, Settled
  <2> QED
    BY Zenon, <1>4, <2>1
<1>6. CASE Append
  <2>1. sync' = "gate" /\ jnl'.source = Target /\ UNCHANGED <<want, retired>>
    BY <1>1, <1>6 DEF Append
  <2> QED
    BY Zenon, <2>1 DEF GateInv, Target
<1>7. CASE SetGate
  <2>1. sync' # "gate" /\ jnl' = jnl /\ jnl.source = Target /\ Target # ""
    BY <1>7 DEF SetGate, Leave, Settled, GateInv, Target, SourceTypeOK, Sources
  <2>2. gate'.source = Target /\ gate'.handoff = jnl.handoff
    BY Zenon, <1>7 DEF SetGate
  <2> QED
    BY Zenon, <2>1, <2>2 DEF GateInv, JournalSource
<1>8. CASE Apply \/ SyncFails
  <2>1. sync # "gate" /\ sync' # "gate" /\ gate' = gate
    BY <1>8 DEF Apply, SyncFails, Leave, Settled
  <2>2. jnl'.source = jnl.source /\ jnl'.handoff = jnl.handoff
    BY Zenon, <1>1, <1>8 DEF Apply, SyncFails
  <2> QED
    BY Zenon, <2>1, <2>2 DEF GateInv, JournalSource
<1> QED
  BY Zenon, <1>2, <1>3, <1>5, <1>6, <1>7, <1>8, Steps DEF EditConfigMap, DeleteConfigMap,
     CreateConfigMap, ChangeSource, RenewHandoff, Promote, Deliver, StartWatch, Wake,
     EnterConverge, Converge, Reload, PromoteCandidate, ConvergeFails, FRRRestart, Boot,
     syncVars, vars

(* The ConfigMap agent reloads only under a gate that lets it, which does  *)
(* not move meanwhile; the deployment agent activates only on CRD.         *)
LEMMA StepStep ==
  ASSUME SourceTypeOK, LockInv, GateInv, StepInv, [Next]_vars
  PROVE  StepInv'
<1> DEFINE Reloads == watch' \in {"reload", "promote"} => gate'.source # "CRD" /\ TextOf(view)' # None
           Activates == sync' \in {"activate", "apply", "persist", "write"} => jnl'.source = "CRD"
<1>1. jnl \in [source : Sources \cup {""}, handoff : 0..MaxUid, activated : BOOLEAN]
  BY Zenon DEF SourceTypeOK
<1>2. ASSUME UNCHANGED <<watch, gate, view>> PROVE Reloads
  BY Zenon, <1>2 DEF StepInv, TextOf
<1>3. ASSUME UNCHANGED <<sync, jnl>> PROVE Activates
  BY Zenon, <1>3 DEF StepInv
<1>4. CASE AgentCrash \/ PodRestart
  BY <1>4 DEF AgentCrash, PodRestart, Restarted, Leave, StepInv
<1>5. Reloads
  <2>1. CASE Converge
    <3>1. CASE watch' = "reload"
      BY <2>1, <3>1 DEF Converge, Resolved, Done, TextOf
    <3> QED
      BY <2>1, <3>1 DEF Converge, Resolved, Done
  <2>2. CASE StartWatch \/ EnterConverge \/ PromoteCandidate \/ ConvergeFails
             \/ \E signal \in wake : Wake(signal)
    BY <2>2 DEF StartWatch, EnterConverge, PromoteCandidate, ConvergeFails, Wake, Done
  <2>3. CASE Reload
    BY Zenon, <2>3 DEF Reload, StepInv, TextOf
  <2>4. CASE SetGate
    BY <2>4 DEF SetGate, LockInv, Watching, Syncing
  <2> QED
    BY Zenon, <1>2, <1>4, <2>1, <2>2, <2>3, <2>4, Steps DEF EditConfigMap, DeleteConfigMap,
       CreateConfigMap, ChangeSource, RenewHandoff, Promote, Deliver, BeginSync, EnterSync,
       Settle, Append, Apply, Persist, SyncFails, FRRRestart, Boot, StepInv, watchVars, vars
<1>6. Activates
  <2>1. CASE BeginSync \/ EnterSync \/ Persist
    BY <2>1 DEF BeginSync, EnterSync, Persist, Leave, StepInv
  <2>2. CASE Settle
    BY <2>2 DEF Settle, Leave, Leaving, JournalSource
  <2>3. CASE Append
    BY <2>3 DEF Append
  <2>4. CASE SetGate
    BY <2>4 DEF SetGate, Leave, Settled, GateInv
  <2>5. CASE Apply
    BY <1>1, <2>5 DEF Apply, Leave, StepInv
  <2>6. CASE SyncFails
    BY <2>6 DEF SyncFails, Leave, Leaving, JournalSource
  <2> QED
    BY Zenon, <1>3, <1>4, <2>1, <2>2, <2>3, <2>4, <2>5, <2>6, Steps DEF EditConfigMap,
       DeleteConfigMap, CreateConfigMap, ChangeSource, RenewHandoff, Promote, Deliver,
       StartWatch, Wake, EnterConverge, Converge, Reload, PromoteCandidate, ConvergeFails,
       FRRRestart, Boot, StepInv, syncVars, vars
<1> QED
  BY Zenon, <1>5, <1>6 DEF StepInv

(* Copies of the ConfigMap are taken from the API or from another copy. *)
LEMMA Copies ==
  ASSUME [Next]_vars
  PROVE  /\ store' \in {store, cm, NoMap}
         /\ view' \in {view, store, cm, NoMap}
<1>1. store' \in {store, cm, NoMap}
  BY Zenon, Steps DEF EditConfigMap, DeleteConfigMap, CreateConfigMap, ChangeSource,
     RenewHandoff, Promote, Deliver, StartWatch, Wake, EnterConverge, Converge, Reload,
     PromoteCandidate, ConvergeFails, BeginSync, EnterSync, Settle, Append, SetGate, Apply,
     Persist, SyncFails, AgentCrash, FRRRestart, PodRestart, Restarted, Boot, watchVars, vars
<1>2. view' \in {view, store, cm, NoMap}
  BY Zenon, Steps DEF EditConfigMap, DeleteConfigMap, CreateConfigMap, ChangeSource,
     RenewHandoff, Promote, Deliver, StartWatch, Wake, EnterConverge, Converge, Resolved, Done,
     Reload, PromoteCandidate, ConvergeFails, BeginSync, EnterSync, Settle, Append, SetGate,
     Apply, Persist, SyncFails, AgentCrash, FRRRestart, PodRestart, Restarted, Boot, watchVars,
     vars
<1> QED
  BY Zenon, <1>1, <1>2

(* A ConfigMap that is there has a version, in every copy of it. *)
LEMMA MapStep ==
  ASSUME SourceTypeOK, MapInv, [Next]_vars
  PROVE  MapInv'
<1>1. cm \in Maps /\ store \in Maps /\ view \in Maps
  BY Zenon DEF SourceTypeOK
<1>2. cm.ver \in Nat /\ cm.ver + 1 > 0
  BY <1>1, SourceAssumption DEF Maps
<1>3. Versioned(NoMap)
  BY Zenon DEF Versioned, NoMap
<1>4. Versioned(cm')
  <2>1. CASE EditConfigMap
    <3>1. cm'.ver = cm.ver + 1
      BY Zenon, <1>1, <2>1 DEF EditConfigMap, Maps
    <3> QED
      BY Zenon, <1>2, <3>1 DEF Versioned
  <2>2. CASE DeleteConfigMap
    <3>1. cm'.live = FALSE
      BY Zenon, <1>1, <2>2 DEF DeleteConfigMap, Maps
    <3> QED
      BY Zenon, <3>1 DEF Versioned
  <2>3. CASE CreateConfigMap
    <3>1. cm'.ver = cm.ver + 1
      BY Zenon, <2>3 DEF CreateConfigMap
    <3> QED
      BY Zenon, <1>2, <3>1 DEF Versioned
  <2>4. CASE cm' = cm
    BY Zenon, <2>4 DEF MapInv
  <2> QED
    BY Zenon, <2>1, <2>2, <2>3, <2>4, Steps DEF ChangeSource, RenewHandoff, Promote, Deliver,
       StartWatch, Wake, EnterConverge, Converge, Reload, PromoteCandidate, ConvergeFails,
       BeginSync, EnterSync, Settle, Append, SetGate, Apply, Persist, SyncFails, AgentCrash,
       FRRRestart, PodRestart, Boot, apiVars, vars
<1> QED
  BY Zenon, <1>3, <1>4, Copies DEF MapInv

(* The ConfigMap stays within its bounds. *)
LEMMA MapsTyped ==
  ASSUME SourceTypeOK, [Next]_vars
  PROVE  cm' \in Maps
<1>1. cm \in Maps
  BY Zenon DEF SourceTypeOK
<1>2. CASE EditConfigMap \/ DeleteConfigMap \/ CreateConfigMap
  <2>1. cm.uid \in 0..MaxUid /\ cm.ver \in 0..MaxVer
    BY Zenon, <1>1 DEF Maps
  <2>2. /\ cm.ver < MaxVer => cm.ver + 1 \in 0..MaxVer
        /\ cm.uid < MaxUid => cm.uid + 1 \in 0..MaxUid
    BY <2>1, SourceAssumption
  <2>3. CASE EditConfigMap
    BY Zenon, <1>1, <2>2, <2>3 DEF EditConfigMap, Maps
  <2>4. CASE DeleteConfigMap
    BY Zenon, <1>1, <2>4 DEF DeleteConfigMap, Maps
  <2>5. CASE CreateConfigMap
    BY Zenon, <2>2, <2>5 DEF CreateConfigMap, Maps
  <2> QED
    BY Zenon, <1>2, <2>3, <2>4, <2>5
<1> QED
  BY Zenon, <1>1, <1>2, Steps DEF ChangeSource, RenewHandoff, Promote, Deliver, StartWatch,
     Wake, EnterConverge, Converge, Reload, PromoteCandidate, ConvergeFails, BeginSync,
     EnterSync, Settle, Append, SetGate, Apply, Persist, SyncFails, AgentCrash, FRRRestart,
     PodRestart, Boot, apiVars, vars

(* FRR and frr.conf hold a ConfigMap's text, a revision, or what a failed  *)
(* reload left; and something, once the pod is up.                         *)
LEMMA TextStep ==
  ASSUME SourceTypeOK, StepInv, MapInv, [Next]_vars
  PROVE  /\ {frr', conf', applied'} \subseteq Texts \cup {Crd, Mixed, None}
         /\ up' => None \notin {frr', conf'}
<1> DEFINE All == Texts \cup {Crd, Mixed, None}
<1>1. /\ cm \in Maps /\ view \in Maps
      /\ frr \in All /\ conf \in All /\ applied \in All
      /\ up => frr # None /\ conf # None
  BY Zenon DEF SourceTypeOK
<1>2. ASSUME NEW m \in Maps, Versioned(m) PROVE TextOf(m) \in All
  <2>1. m.live => m.ver \in 1..MaxVer
    BY <1>2, SourceAssumption DEF Maps, Versioned
  <2> QED
    BY Zenon, <2>1 DEF TextOf, Texts
<1>3. TextOf(cm) \in All /\ TextOf(view) \in All
  BY Zenon, <1>1, <1>2 DEF MapInv
<1>4. Crd # None /\ Mixed # None
  BY DEF Crd, Mixed, None
<1>5. applied' \in {applied, conf, None, TextOf(view)}
  BY Zenon, Steps DEF EditConfigMap, DeleteConfigMap, CreateConfigMap, ChangeSource,
     RenewHandoff, Promote, Deliver, StartWatch, Wake, EnterConverge, Converge, Resolved,
     Reload, PromoteCandidate, ConvergeFails, BeginSync, EnterSync, Settle, Append, SetGate,
     Apply, Persist, SyncFails, AgentCrash, FRRRestart, PodRestart, Restarted, Boot, watchVars,
     vars
<1>6. CASE UNCHANGED <<frr, conf, up>>
  BY Zenon, <1>1, <1>3, <1>5, <1>6
<1>7. CASE Reload \/ PromoteCandidate
  <2>1. TextOf(view) # None
    BY Zenon, <1>7 DEF StepInv, Reload, PromoteCandidate
  <2>2. frr' \in {frr, TextOf(view)} /\ conf' \in {conf, TextOf(view)} /\ up' = up
    BY Zenon, <1>7 DEF Reload, PromoteCandidate
  <2> QED
    BY Zenon, <1>1, <1>3, <1>5, <2>1, <2>2
<1>8. CASE ConvergeFails \/ Apply \/ Persist \/ SyncFails \/ FRRRestart
  <2>1. frr' \in {frr, conf, Crd, Mixed} /\ conf' \in {conf, Crd} /\ up' = up
    BY Zenon, <1>8 DEF ConvergeFails, Apply, Persist, SyncFails, FRRRestart, Torn
  <2> QED
    BY Zenon, <1>1, <1>3, <1>4, <1>5, <2>1
<1>9. CASE PodRestart
  BY Zenon, <1>1, <1>3, <1>5, <1>9 DEF PodRestart
<1>10. CASE Boot
  <2>1. frr' \in {Crd, TextOf(cm)} /\ conf' = frr' /\ frr' # None
    BY Zenon, <1>4, <1>10 DEF Boot, BootsConfigMap
  <2> QED
    BY Zenon, <1>1, <1>3, <1>5, <2>1
<1> QED
  BY Zenon, <1>6, <1>7, <1>8, <1>9, <1>10, Steps DEF EditConfigMap, DeleteConfigMap,
     CreateConfigMap, ChangeSource, RenewHandoff, Promote, Deliver, StartWatch, Wake,
     EnterConverge, Converge, BeginSync, EnterSync, Settle, Append, SetGate, AgentCrash,
     nodeVars, vars

(* A handoff is remembered when Append leaves CRD, until a ConfigMap is    *)
(* taken in or the node goes back to CRD, and over restarts.               *)
LEMMA HandedStep ==
  ASSUME SourceTypeOK, [Next]_vars
  PROVE  \/ handed' = NotHanded
         \/ /\ Append /\ jnl.source = "CRD" /\ jnl'.source # "CRD"
            /\ handed' = [map |-> want.handoff, here |-> TRUE]
         \/ /\ jnl.source # "CRD" => jnl'.source # "CRD"
            /\ \/ (AgentCrash \/ PodRestart) /\ handed' = [handed EXCEPT !.here = FALSE]
               \/ ~(AgentCrash \/ PodRestart) /\ handed' = handed
<1>1. jnl \in [source : Sources \cup {""}, handoff : 0..MaxUid, activated : BOOLEAN]
  BY Zenon DEF SourceTypeOK
<1>2. CASE AgentCrash \/ PodRestart
  BY Zenon, <1>2 DEF AgentCrash, PodRestart, Restarted
<1>3. CASE Append /\ ~(AgentCrash \/ PodRestart)
  <2>1. jnl'.source = Target
    BY <1>1, <1>3 DEF Append
  <2>2. handed' = HandedAfter
    BY Zenon, <1>3 DEF Append
  <2>3. CASE Target = "CRD"
    BY <2>2, <2>3 DEF HandedAfter
  <2>4. CASE Target # "CRD" /\ jnl.source = "CRD"
    <3>1. handed' = [map |-> want.handoff, here |-> TRUE]
      BY <2>2, <2>4 DEF HandedAfter
    <3> QED
      BY Zenon, <1>3, <2>1, <2>4, <3>1
  <2>5. CASE Target # "CRD" /\ jnl.source # "CRD"
    <3>1. handed' = handed
      BY <2>2, <2>5 DEF HandedAfter
    <3> QED
      BY Zenon, <1>3, <2>1, <2>5, <3>1
  <2> QED
    BY Zenon, <2>3, <2>4, <2>5
<1>4. CASE (Apply \/ SyncFails) /\ ~(AgentCrash \/ PodRestart)
  <2>1. jnl'.source = jnl.source /\ handed' = handed
    BY Zenon, <1>1, <1>4 DEF Apply, SyncFails
  <2> QED
    BY Zenon, <1>4, <2>1
<1>5. CASE Converge /\ ~(AgentCrash \/ PodRestart)
  BY Zenon, <1>5 DEF Converge, Resolved
<1>6. CASE jnl' = jnl /\ handed' = handed /\ ~(AgentCrash \/ PodRestart)
  BY Zenon, <1>6
<1> QED
  BY Zenon, <1>2, <1>3, <1>4, <1>5, <1>6, Steps DEF EditConfigMap, DeleteConfigMap,
     CreateConfigMap, ChangeSource, RenewHandoff, Promote, Deliver, StartWatch, Wake,
     EnterConverge, Reload, PromoteCandidate, ConvergeFails, BeginSync, EnterSync, Settle,
     SetGate, Persist, FRRRestart, Boot, vars

(* Every variable keeps its type. *)
LEMMA TypeStep ==
  ASSUME IInv, [Next]_vars
  PROVE  SourceTypeOK'
<1> DEFINE Deployment0 == [source : Sources, handoff : Maps, active : BOOLEAN]
           Journal == [source : Sources \cup {""}, handoff : 0..MaxUid, activated : BOOLEAN]
<1> USE DEF IInv
<1>1. /\ dep \in Deployment0 /\ want \in Deployment0
      /\ cm \in Maps /\ store \in Maps /\ view \in Maps
      /\ jnl \in Journal
      /\ gate \in [source : Sources, handoff : 0..MaxUid]
      /\ handed \in [map : Maps, here : BOOLEAN]
      /\ {moved, up, retired} \subseteq BOOLEAN
      /\ lock \in {"free", "watch", "sync"}
      /\ watch \in {"off", "idle", "lock", "converge", "reload", "promote"}
      /\ wake \subseteq {"trigger", "gate", "retry"}
      /\ sync \in {"idle", "lock", "settle", "append", "gate", "activate", "apply", "persist", "write"}
  BY Zenon DEF SourceTypeOK
<1>2. NoMap \in Maps
  BY SourceAssumption DEF NoMap, Maps
<1>3. dep' \in Deployment0
  <2>1. ASSUME NEW s \in Asked, ChangeSource(s) PROVE dep' \in Deployment0
    BY <1>1, <1>2, <2>1, SourceAssumption DEF ChangeSource, Sources
  <2>2. CASE RenewHandoff \/ Promote
    BY <1>1, <2>2 DEF RenewHandoff, Promote
  <2> QED
    BY Zenon, <1>1, <2>1, <2>2, Steps DEF EditConfigMap, DeleteConfigMap, CreateConfigMap,
       Deliver, StartWatch, Wake, EnterConverge, Converge, Reload, PromoteCandidate,
       ConvergeFails, BeginSync, EnterSync, Settle, Append, SetGate, Apply, Persist, SyncFails,
       AgentCrash, FRRRestart, PodRestart, Boot, apiVars, vars
<1>4. want' \in Deployment0
  <2>1. want' \in {want, dep, [source |-> "ConfigMap", handoff |-> NoMap, active |-> FALSE]}
    BY Zenon, Steps DEF EditConfigMap, DeleteConfigMap, CreateConfigMap, ChangeSource,
       RenewHandoff, Promote, Deliver, StartWatch, Wake, EnterConverge, Converge, Reload,
       PromoteCandidate, ConvergeFails, BeginSync, EnterSync, Settle, Append, SetGate, Apply,
       Persist, SyncFails, AgentCrash, FRRRestart, PodRestart, Restarted, Leave, Boot, syncVars,
       vars
  <2>2. [source |-> "ConfigMap", handoff |-> NoMap, active |-> FALSE] \in Deployment0
    BY Zenon, <1>2 DEF Sources
  <2> QED
    BY Zenon, <1>1, <2>1, <2>2
<1>5. cm' \in Maps
  BY Zenon, MapsTyped
<1>6. store' \in Maps /\ view' \in Maps
  BY Zenon, <1>1, <1>2, Copies
<1>7. /\ Target \in Sources /\ Pin \in 0..MaxUid /\ JournalSource \in Sources
      /\ jnl.handoff \in 0..MaxUid
  <2>1. /\ want.source \in Sources /\ want.handoff \in Maps
        /\ jnl.handoff \in 0..MaxUid /\ jnl.source \in Sources \cup {""}
    BY Zenon, <1>1
  <2>2. want.handoff.uid \in 0..MaxUid
    BY Zenon, <2>1 DEF Maps
  <2>3. 0 \in 0..MaxUid
    BY SourceAssumption
  <2> QED
    BY <2>1, <2>2, <2>3 DEF Target, Pin, JournalSource, Sources
<1>8. jnl' \in Journal
  <2>1. CASE Append
    BY <1>1, <1>7, <2>1 DEF Append
  <2>2. CASE Apply \/ SyncFails
    <3>1. jnl' \in {jnl, [jnl EXCEPT !.activated = TRUE]}
      BY Zenon, <2>2 DEF Apply, SyncFails
    <3> QED
      BY <1>1, <3>1
  <2> QED
    BY Zenon, <1>1, <2>1, <2>2, Steps DEF EditConfigMap, DeleteConfigMap, CreateConfigMap,
       ChangeSource, RenewHandoff, Promote, Deliver, StartWatch, Wake, EnterConverge, Converge,
       Reload, PromoteCandidate, ConvergeFails, BeginSync, EnterSync, Settle, SetGate, Persist,
       AgentCrash, FRRRestart, PodRestart, Boot, vars
<1>9. gate' \in [source : Sources, handoff : 0..MaxUid]
  <2>1. CASE SetGate
    BY Zenon, <1>1, <1>7, <2>1 DEF SetGate
  <2>2. CASE AgentCrash \/ PodRestart
    <3>1. gate' = [source |-> JournalSource, handoff |-> jnl.handoff]
      BY Zenon, <2>2 DEF AgentCrash, PodRestart, Restarted
    <3> QED
      BY Zenon, <1>7, <3>1
  <2> QED
    BY Zenon, <1>1, <2>1, <2>2, Steps DEF EditConfigMap, DeleteConfigMap, CreateConfigMap,
       ChangeSource, RenewHandoff, Promote, Deliver, StartWatch, Wake, EnterConverge, Converge,
       Reload, PromoteCandidate, ConvergeFails, BeginSync, EnterSync, Settle, Append, Apply,
       Persist, SyncFails, FRRRestart, Boot, vars
<1>10. moved' \in BOOLEAN /\ up' \in BOOLEAN /\ retired' \in BOOLEAN
  BY Zenon, <1>1, Steps, SourceAssumption DEF EditConfigMap, DeleteConfigMap, CreateConfigMap,
     ChangeSource, RenewHandoff, Promote, Deliver, StartWatch, Wake, EnterConverge, Converge,
     Reload, PromoteCandidate, ConvergeFails, BeginSync, EnterSync, Settle, Append, SetGate,
     Apply, Persist, SyncFails, AgentCrash, FRRRestart, PodRestart, Restarted, Boot, vars
<1>11. lock' \in {"free", "watch", "sync"}
  BY Zenon, <1>1, Steps DEF EditConfigMap, DeleteConfigMap, CreateConfigMap,
     ChangeSource, RenewHandoff, Promote, Deliver, StartWatch, Wake, EnterConverge, Converge,
     Resolved, Done, Reload, PromoteCandidate, ConvergeFails, BeginSync, EnterSync, Settle,
     Append, SetGate, Apply, Persist, SyncFails, AgentCrash, FRRRestart, PodRestart, Restarted,
     Leave, Boot, vars
<1>12. watch' \in {"off", "idle", "lock", "converge", "reload", "promote"}
  BY Zenon, <1>1, Steps DEF EditConfigMap, DeleteConfigMap, CreateConfigMap,
     ChangeSource, RenewHandoff, Promote, Deliver, StartWatch, Wake, EnterConverge, Converge,
     Resolved, Done, Reload, PromoteCandidate, ConvergeFails, BeginSync, EnterSync, Settle,
     Append, SetGate, Apply, Persist, SyncFails, AgentCrash, FRRRestart, PodRestart, Restarted,
     Boot, watchVars, vars
<1>13. wake' \subseteq {"trigger", "gate", "retry"}
  <2>1. wake' \subseteq wake \cup {"trigger", "gate", "retry"}
    BY Zenon, Steps DEF EditConfigMap, DeleteConfigMap, CreateConfigMap,
       ChangeSource, RenewHandoff, Promote, Deliver, StartWatch, Wake, EnterConverge, Converge,
       Resolved, Done, Reload, PromoteCandidate, ConvergeFails, BeginSync, EnterSync, Settle,
       Append, SetGate, Apply, Persist, SyncFails, AgentCrash, FRRRestart, PodRestart, Restarted,
       Boot, watchVars, vars
  <2> QED
    BY Zenon, <1>1, <2>1
<1>14. sync' \in {"idle", "lock", "settle", "append", "gate", "activate", "apply", "persist", "write"}
  <2>1. CASE EnterSync
    BY <2>1 DEF EnterSync
  <2> QED
    BY Zenon, <1>1, <2>1, Steps DEF EditConfigMap, DeleteConfigMap, CreateConfigMap,
       ChangeSource, RenewHandoff, Promote, Deliver, StartWatch, Wake, EnterConverge, Converge,
       Reload, PromoteCandidate, ConvergeFails, BeginSync, Settle, Append, SetGate, Settled,
       Apply, Persist, SyncFails, AgentCrash, FRRRestart, PodRestart, Restarted, Leave, Boot,
       syncVars, vars
<1>15. handed' \in [map : Maps, here : BOOLEAN]
  <2>1. NotHanded \in [map : Maps, here : BOOLEAN] /\ want.handoff \in Maps
    BY Zenon, <1>1, <1>2 DEF NotHanded
  <2>2. /\ [handed EXCEPT !.here = FALSE] \in [map : Maps, here : BOOLEAN]
        /\ [map |-> want.handoff, here |-> TRUE] \in [map : Maps, here : BOOLEAN]
    BY <1>1, <2>1
  <2> QED
    BY Zenon, <1>1, <2>1, <2>2, HandedStep
<1> QED
  BY Zenon, <1>3, <1>4, <1>5, <1>6, <1>8, <1>9, <1>10, <1>11, <1>12, <1>13, <1>14, <1>15, TextStep
     DEF SourceTypeOK

(* ConfigMaps and their versions are numbered upwards. *)
LEMMA MapsGrow ==
  ASSUME SourceTypeOK, [Next]_vars
  PROVE  cm'.uid >= cm.uid /\ cm'.ver >= cm.ver
<1>1. cm \in Maps
  BY Zenon DEF SourceTypeOK
<1>2. cm.uid \in Nat /\ cm.ver \in Nat
  BY <1>1, SourceAssumption DEF Maps
<1>3. CASE EditConfigMap \/ DeleteConfigMap \/ CreateConfigMap
  <2>1. CASE EditConfigMap \/ DeleteConfigMap
    BY <1>1, <1>2, <2>1 DEF EditConfigMap, DeleteConfigMap, Maps
  <2>2. CASE CreateConfigMap
    BY <1>2, <2>2 DEF CreateConfigMap
  <2> QED
    BY Zenon, <1>3, <2>1, <2>2
<1>4. CASE cm' = cm
  BY <1>2, <1>4
<1> QED
  BY Zenon, <1>3, <1>4, Steps DEF ChangeSource, RenewHandoff, Promote, Deliver, StartWatch,
     Wake, EnterConverge, Converge, Reload, PromoteCandidate, ConvergeFails, BeginSync,
     EnterSync, Settle, Append, SetGate, Apply, Persist, SyncFails, AgentCrash, FRRRestart,
     PodRestart, Boot, apiVars, vars

(* A handoff names the ConfigMap as it is, and Settle compares it again. *)
LEMMA NamedStep ==
  ASSUME SourceTypeOK, NamedInv, [Next]_vars
  PROVE  NamedInv'
<1>1. /\ cm \in Maps /\ dep.handoff \in Maps /\ want.handoff \in Maps
      /\ dep \in [source : Sources, handoff : Maps, active : BOOLEAN]
  BY Zenon DEF SourceTypeOK
<1>2. /\ cm.uid \in Nat /\ cm.ver \in Nat /\ dep.handoff.ver \in Nat /\ want.handoff.ver \in Nat
      /\ cm'.uid \in Nat /\ cm'.ver \in Nat
      /\ cm.uid > 0 /\ dep.handoff.ver <= cm.ver /\ want.handoff.ver <= cm.ver
  <2>1. ASSUME NEW m \in Maps PROVE m.uid \in Nat /\ m.ver \in Nat
    BY <2>1, SourceAssumption DEF Maps
  <2>2. cm' \in Maps
    BY MapsTyped
  <2> QED
    BY Zenon, <1>1, <2>1, <2>2 DEF NamedInv
<1>3. cm'.uid > 0
  BY <1>2, MapsGrow
<1>4. dep'.handoff.ver <= cm'.ver
  <2>1. dep'.handoff \in {dep.handoff, cm, NoMap}
    <3>1. ASSUME NEW s \in Asked, ChangeSource(s) PROVE dep'.handoff \in {cm, NoMap}
      BY <1>1, <3>1 DEF ChangeSource
    <3>2. CASE RenewHandoff \/ Promote
      BY <1>1, <3>2 DEF RenewHandoff, Promote
    <3> QED
      BY Zenon, <3>1, <3>2, Steps DEF EditConfigMap, DeleteConfigMap, CreateConfigMap,
         Deliver, StartWatch, Wake, EnterConverge, Converge, Reload, PromoteCandidate,
         ConvergeFails, BeginSync, EnterSync, Settle, Append, SetGate, Apply, Persist, SyncFails,
         AgentCrash, FRRRestart, PodRestart, Boot, apiVars, vars
  <2>2. NoMap.ver = 0
    BY Zenon DEF NoMap
  <2> QED
    BY <1>2, <2>1, <2>2, MapsGrow
<1>5. want'.handoff.ver <= cm'.ver
  <2>1. want' \in {want, dep, [source |-> "ConfigMap", handoff |-> NoMap, active |-> FALSE]}
    BY Zenon, Steps DEF EditConfigMap, DeleteConfigMap, CreateConfigMap, ChangeSource,
       RenewHandoff, Promote, Deliver, StartWatch, Wake, EnterConverge, Converge, Reload,
       PromoteCandidate, ConvergeFails, BeginSync, EnterSync, Settle, Append, SetGate, Apply,
       Persist, SyncFails, AgentCrash, FRRRestart, PodRestart, Restarted, Leave, Boot, syncVars,
       vars
  <2>2. want'.handoff.ver \in {want.handoff.ver, dep.handoff.ver, 0}
    BY <2>1 DEF NoMap
  <2> QED
    BY <1>2, <2>2, MapsGrow
<1>6. sync' = "append" /\ jnl'.source = "CRD" /\ Target' # "CRD" => want'.handoff.uid > 0
  <2>1. CASE UNCHANGED <<sync, jnl, want, retired>>
    BY Zenon, <2>1 DEF NamedInv, Target
  <2>2. CASE Settle
    <3>1. CASE sync' = "append" /\ jnl'.source = "CRD" /\ Target' # "CRD"
      <4>1. Leaving /\ UNCHANGED want
        BY <2>2, <3>1 DEF Settle, Leave, Settled, Leaving, Target, JournalSource
      <4>2. cm = want.handoff
        BY <2>2, <3>1, <4>1 DEF Settle, Leave, Settled, HandoffOK
      <4> QED
        BY Zenon, <1>2, <4>1, <4>2
    <3> QED
      BY Zenon, <3>1
  <2>3. CASE sync' # "append"
    BY Zenon, <2>3
  <2>4. CASE BeginSync \/ EnterSync \/ Append \/ SetGate \/ Apply \/ Persist \/ SyncFails
             \/ AgentCrash \/ PodRestart
    <3>1. sync' # "append"
      BY <2>4 DEF BeginSync, EnterSync, Append, SetGate, Apply, Persist, SyncFails, AgentCrash,
         PodRestart, Restarted, Leave, Settled
    <3> QED
      BY Zenon, <3>1
  <2> QED
    BY Zenon, <2>1, <2>2, <2>4, Steps DEF EditConfigMap, DeleteConfigMap, CreateConfigMap,
       ChangeSource, RenewHandoff, Promote, Deliver, StartWatch, Wake, EnterConverge, Converge,
       Reload, PromoteCandidate, ConvergeFails, FRRRestart, Boot, syncVars, vars
<1> QED
  BY Zenon, <1>3, <1>4, <1>5, <1>6 DEF NamedInv
-----------------------------------------------------------------------------
(* A node before its first start satisfies the invariant. *)
LEMMA InitKeeps == Init => IInv
<1> SUFFICES ASSUME Init PROVE IInv
  BY Zenon
<1>1. /\ 0 \in 0..MaxUid /\ 1 \in 0..MaxUid /\ 0 \in 0..MaxVer /\ 1 \in 0..MaxVer /\ 1 > 0
  BY SourceAssumption
<1>2. NoMap \in Maps /\ cm \in Maps /\ ~NoMap.live /\ cm.ver = 1
  BY Zenon, <1>1 DEF Init, NoMap, Maps
<1>3. jnl.source = "" /\ jnl.handoff = 0 /\ gate.source = "ConfigMap" /\ gate.handoff = 0
  BY Zenon DEF Init
<1>4. SourceTypeOK
  BY Zenon, <1>1, <1>2 DEF Init, SourceTypeOK, Sources, NotHanded
<1>5. LockInv
  BY DEF Init, LockInv, Watching, Syncing
<1>6. GateInv /\ StepInv
  BY <1>3 DEF Init, GateInv, StepInv, JournalSource
<1>7. MapInv
  BY Zenon, <1>1, <1>2 DEF Init, MapInv, Versioned
<1>8. cm.uid = 1 /\ dep.handoff.ver = 0 /\ want.handoff.ver = 0 /\ sync = "idle"
  BY Zenon DEF Init, NoMap
<1>9. NamedInv
  BY <1>2, <1>8 DEF NamedInv
<1> QED
  BY Zenon, <1>4, <1>5, <1>6, <1>7, <1>9 DEF IInv

(* Every step keeps it. *)
LEMMA StepKeeps == IInv /\ [Next]_vars => IInv'
  BY Zenon, TypeStep, LockStep, GateStep, StepStep, MapStep, NamedStep DEF IInv

(* The inductive invariant holds throughout. *)
THEOREM Invariance == Spec => []IInv
BY InitKeeps, StepKeeps, PTL DEF Spec

(* Both agents' state keeps its types, and FRR of a pod that is up runs    *)
(* from some configuration.                                                *)
THEOREM TypeCorrect == Spec => []SourceTypeOK
<1>1. IInv => SourceTypeOK
  BY Zenon DEF IInv
<1> QED
  BY <1>1, Invariance, PTL

(* Neither agent writes FRR or frr.conf unless the journal makes it the    *)
(* writer.                                                                 *)
THEOREM WritersExclude == Spec => OneWriter
<1>1. IInv /\ [Next]_vars =>
        [/\ Reload \/ PromoteCandidate => jnl.source # "CRD"
         /\ Apply \/ Persist => jnl.source = "CRD"]_vars
  <2> SUFFICES ASSUME IInv
               PROVE  /\ Reload \/ PromoteCandidate => jnl.source # "CRD"
                      /\ Apply \/ Persist => jnl.source = "CRD"
    BY Zenon
  <2>1. watch \in {"reload", "promote"} => jnl.source # "CRD"
    BY DEF IInv, LockInv, Watching, Syncing, GateInv, StepInv, JournalSource
  <2>2. sync \in {"apply", "write"} => jnl.source = "CRD"
    BY Zenon DEF IInv, StepInv
  <2> QED
    BY Zenon, <2>1, <2>2 DEF Reload, PromoteCandidate, Apply, Persist
<1> QED
  BY <1>1, Invariance, PTL DEF Spec, OneWriter

(* The pin stays while the journal is not on CRD, and the journal leaves   *)
(* CRD only in Append, which pins what the deployment named.               *)
LEMMA PinStep ==
  ASSUME SourceTypeOK, NamedInv, [Next]_vars, jnl'.source # "CRD"
  PROVE  /\ jnl.source # "CRD" => jnl'.handoff = jnl.handoff
         /\ jnl.source = "CRD" => /\ Append
                                 /\ jnl'.handoff = want.handoff.uid
                                 /\ jnl'.handoff > 0
<1>1. jnl \in [source : Sources \cup {""}, handoff : 0..MaxUid, activated : BOOLEAN]
  BY Zenon DEF SourceTypeOK
<1>2. CASE Append
  <2>1. jnl' = jnl \/ (jnl'.source = Target /\ jnl'.handoff = Pin)
    BY <1>1, <1>2 DEF Append
  <2>2. CASE jnl.source # "CRD"
    BY Zenon, <2>1, <2>2 DEF Pin
  <2>3. CASE jnl.source = "CRD"
    <3>1. Target # "CRD" /\ jnl'.handoff = Pin
      BY Zenon, <2>1, <2>3
    <3>2. Pin = want.handoff.uid
      BY <2>3, <3>1 DEF Pin
    <3>3. want.handoff.uid > 0
      BY Zenon, <1>2, <2>3, <3>1 DEF NamedInv, Append
    <3> QED
      BY Zenon, <1>2, <2>3, <3>1, <3>2, <3>3
  <2> QED
    BY Zenon, <2>2, <2>3
<1>3. CASE Apply \/ SyncFails
  <2>1. jnl'.source = jnl.source /\ jnl'.handoff = jnl.handoff
    BY Zenon, <1>1, <1>3 DEF Apply, SyncFails
  <2> QED
    BY Zenon, <2>1
<1>4. CASE jnl' = jnl
  BY Zenon, <1>4
<1> QED
  BY Zenon, <1>2, <1>3, <1>4, Steps DEF EditConfigMap, DeleteConfigMap, CreateConfigMap,
     ChangeSource, RenewHandoff, Promote, Deliver, StartWatch, Wake, EnterConverge, Converge,
     Reload, PromoteCandidate, ConvergeFails, BeginSync, EnterSync, Settle, SetGate, Persist,
     AgentCrash, FRRRestart, PodRestart, Boot, vars

(* A handoff that is due stays due until the agent takes a ConfigMap in or *)
(* restarts: the gate moves before the lock is given back.                 *)
LEMMA DueStep ==
  ASSUME IInv, [Next]_vars, Due, jnl.source # "CRD", jnl'.source # "CRD",
         handed' = handed, handed.map # NoMap, ~AgentCrash, ~PodRestart
  PROVE  Due'
<1>1. jnl'.handoff = jnl.handoff
  BY Zenon, PinStep DEF IInv
<1>2. moved' \/ (sync' = "gate" /\ gate'.source = "CRD")
  <2>1. CASE UNCHANGED <<moved, sync, gate>>
    BY Zenon, <2>1 DEF Due
  <2>2. CASE sync # "gate" /\ moved' = moved
    BY Zenon, <2>2 DEF Due
  <2>3. CASE SetGate
    <3>1. moved \/ gate.source # Target
      BY Zenon, <2>3 DEF IInv, GateInv, SetGate, Due
    <3> QED
      BY Zenon, <2>3, <3>1 DEF SetGate
  <2>4. CASE Converge
    <3>1. sync # "gate"
      BY <2>4 DEF IInv, LockInv, Watching, Syncing, Converge
    <3>2. moved
      BY Zenon, <3>1 DEF Due
    <3>3. gate.source # "CRD"
      BY Zenon, <3>1 DEF IInv, GateInv, JournalSource
    <3>4. handed' # NotHanded
      BY DEF NotHanded
    <3> QED
      BY Zenon, <2>4, <3>2, <3>3, <3>4 DEF Converge, Resolved
  <2>5. CASE BeginSync \/ EnterSync \/ Settle \/ Append \/ Apply \/ Persist \/ SyncFails
    <3>1. sync # "gate" /\ moved' = moved
      BY <2>5 DEF BeginSync, EnterSync, Settle, Append, Apply, Persist, SyncFails
    <3> QED
      BY Zenon, <2>2, <3>1
  <2> QED
    BY Zenon, <2>1, <2>3, <2>4, <2>5, Steps DEF EditConfigMap, DeleteConfigMap,
       CreateConfigMap, ChangeSource, RenewHandoff, Promote, Deliver, StartWatch, Wake,
       EnterConverge, Reload, PromoteCandidate, ConvergeFails, FRRRestart, Boot, syncVars, vars
<1> QED
  BY Zenon, <1>1, <1>2 DEF Due

(* Copies read after the handoff are replaced by later ones only. *)
LEMMA ReadStep ==
  ASSUME SourceTypeOK, [Next]_vars, ReadSince, handed.map.ver <= cm.ver, handed.map.ver \in Nat,
         handed'.map = handed.map
  PROVE  ReadSince'
<1>1. cm.ver >= handed.map.ver
  <2>1. cm \in Maps
    BY Zenon DEF SourceTypeOK
  <2>2. cm.ver \in Nat
    BY <2>1, SourceAssumption DEF Maps
  <2> QED
    BY <2>2
<1>2. CASE UNCHANGED <<watch, store, view>>
  BY Zenon, <1>2 DEF ReadSince
<1>3. CASE StartWatch \/ Deliver
  <2>1. store' = cm /\ view' = view
    BY Zenon, <1>3 DEF StartWatch, Deliver
  <2>2. watch' \in {"lock", "converge"} => watch = watch'
    BY <1>3 DEF StartWatch, Deliver
  <2> QED
    BY Zenon, <1>1, <2>1, <2>2 DEF ReadSince
<1>4. CASE \E signal \in wake : Wake(signal)
  <2>1. watch = "idle" /\ store' = store /\ view' = store
    BY Zenon, <1>4 DEF Wake
  <2>2. store.ver >= handed.map.ver
    BY <2>1 DEF ReadSince
  <2> QED
    BY Zenon, <2>1, <2>2 DEF ReadSince
<1>5. CASE EnterConverge
  <2>1. watch = "lock" /\ store' = store /\ view' = view
    BY Zenon, <1>5 DEF EnterConverge
  <2>2. store.ver >= handed.map.ver /\ view.ver >= handed.map.ver
    BY <2>1 DEF ReadSince
  <2> QED
    BY Zenon, <2>1, <2>2 DEF ReadSince
<1>6. CASE Converge \/ Reload \/ PromoteCandidate \/ ConvergeFails
  <2>1. watch # "off" /\ store' = store /\ watch' \notin {"lock", "converge"}
    BY <1>6 DEF Converge, Reload, PromoteCandidate, ConvergeFails, Resolved, Done
  <2> QED
    BY Zenon, <2>1 DEF ReadSince
<1>7. CASE AgentCrash \/ PodRestart
  <2>1. watch' = "off"
    BY Zenon, <1>7 DEF AgentCrash, PodRestart, Restarted
  <2> QED
    BY <2>1 DEF ReadSince
<1> QED
  BY Zenon, <1>2, <1>3, <1>4, <1>5, <1>6, <1>7, Steps DEF EditConfigMap, DeleteConfigMap,
     CreateConfigMap, ChangeSource, RenewHandoff, Promote, BeginSync, EnterSync, Settle,
     Append, SetGate, Apply, Persist, SyncFails, FRRRestart, Boot, watchVars, vars

(* What is known of the handoff is kept by every step. *)
LEMMA HandStep ==
  ASSUME IInv, HandInv, [Next]_vars
  PROVE  HandInv'
<1>1. /\ want.handoff \in Maps /\ cm \in Maps /\ cm' \in Maps
      /\ handed \in [map : Maps, here : BOOLEAN]
      /\ SourceTypeOK /\ NamedInv
  BY Zenon, MapsTyped DEF IInv, SourceTypeOK
<1>2. CASE handed' = NotHanded
  BY Zenon, <1>2 DEF HandInv, NotHanded
<1>3. CASE /\ Append /\ jnl.source = "CRD" /\ jnl'.source # "CRD"
           /\ handed' = [map |-> want.handoff, here |-> TRUE]
  <2>1. jnl'.handoff = want.handoff.uid /\ jnl'.handoff > 0
    BY Zenon, <1>1, <1>3, PinStep
  <2>2. sync' = "gate" /\ gate'.source = "CRD" /\ cm' = cm
    BY <1>3 DEF Append, apiVars, IInv, GateInv, JournalSource
  <2>3. Due'
    BY Zenon, <1>3, <2>1, <2>2 DEF Due
  <2>4. handed'.map.ver <= cm'.ver
    BY Zenon, <1>1, <1>3, <2>2 DEF NamedInv
  <2> QED
    BY Zenon, <1>3, <2>3, <2>4 DEF HandInv
<1>4. CASE /\ jnl.source # "CRD" => jnl'.source # "CRD"
           /\ \/ (AgentCrash \/ PodRestart) /\ handed' = [handed EXCEPT !.here = FALSE]
              \/ ~(AgentCrash \/ PodRestart) /\ handed' = handed
  <2>1. /\ handed'.map = handed.map
        /\ handed'.here => handed' = handed /\ ~AgentCrash /\ ~PodRestart
        /\ ~handed'.here => ~handed.here \/ AgentCrash \/ PodRestart
    BY Zenon, <1>1, <1>4
  <2> SUFFICES ASSUME handed.map # NoMap
               PROVE  /\ jnl'.source # "CRD"
                      /\ handed'.map.ver <= cm'.ver
                      /\ handed'.here => Due'
                      /\ ~handed'.here => ReadSince'
    BY Zenon, <2>1 DEF HandInv
  <2>2. jnl.source # "CRD" /\ jnl'.source # "CRD"
    BY Zenon, <1>4 DEF HandInv
  <2>3. handed.map.ver \in Nat /\ cm.ver \in Nat /\ cm'.ver \in Nat
    <3>1. handed.map \in Maps
      BY Zenon, <1>1
    <3> QED
      BY <1>1, <3>1, SourceAssumption DEF Maps
  <2>4. handed.map.ver <= cm.ver
    BY Zenon DEF HandInv
  <2>5. handed'.map.ver <= cm'.ver
    <3>1. cm'.ver >= cm.ver
      BY Zenon, <1>1, MapsGrow
    <3> QED
      BY <2>1, <2>3, <2>4, <3>1
  <2>6. ASSUME handed'.here PROVE Due'
    <3>1. Due
      BY Zenon, <2>1, <2>6 DEF HandInv
    <3> QED
      BY Zenon, <2>1, <2>2, <2>6, <3>1, DueStep
  <2>7. ASSUME ~handed'.here PROVE ReadSince'
    <3>1. CASE AgentCrash \/ PodRestart
      <4>1. watch' = "off"
        BY Zenon, <3>1 DEF AgentCrash, PodRestart, Restarted
      <4> QED
        BY <4>1 DEF ReadSince
    <3>2. CASE ~handed.here
      BY Zenon, <1>1, <2>1, <2>3, <2>4, <3>2, ReadStep DEF HandInv
    <3> QED
      BY Zenon, <2>1, <2>7, <3>1, <3>2
  <2> QED
    BY Zenon, <2>2, <2>5, <2>6, <2>7
<1> QED
  BY Zenon, <1>1, <1>2, <1>3, <1>4, HandedStep

(* What is taken in and applied first after a handoff is not older than    *)
(* the ConfigMap it named, and is that ConfigMap unless the agent          *)
(* restarted in between.                                                   *)
THEOREM HandoffIsKept == Spec => FirstApplyIsNamed
<1>1. Init => HandInv
  <2>1. NotHanded.map = NoMap
    BY DEF NotHanded
  <2> QED
    BY Zenon, <2>1 DEF Init, HandInv
<1>2. IInv /\ HandInv /\ [Next]_vars => HandInv'
  BY Zenon, HandStep
<1>3. IInv /\ HandInv /\ [Next]_vars =>
        [Converge /\ watch' = "reload" /\ handed.map # NoMap =>
           /\ view'.ver >= handed.map.ver
           /\ handed.here => view'.uid = handed.map.uid]_vars
  <2> SUFFICES ASSUME IInv, HandInv, Converge, watch' = "reload", handed.map # NoMap
               PROVE  /\ view'.ver >= handed.map.ver
                      /\ handed.here => view'.uid = handed.map.uid
    BY Zenon
  <2>1. watch = "converge" /\ sync # "gate"
    BY DEF IInv, LockInv, Watching, Syncing, Converge
  <2>2. /\ view' = cm \/ (view' = view /\ ~moved)
        /\ moved => Handed
    BY DEF Converge, Resolved, Done
  <2>3. /\ handed.here => moved
        /\ ~handed.here => view.ver >= handed.map.ver
    BY <2>1 DEF HandInv, Due, ReadSince
  <2>4. cm.ver >= handed.map.ver
    <3>1. cm \in Maps /\ handed.map \in Maps /\ handed.map.ver <= cm.ver
      BY Zenon DEF IInv, SourceTypeOK, HandInv
    <3>2. cm.ver \in Nat /\ handed.map.ver \in Nat
      BY <3>1, SourceAssumption DEF Maps
    <3> QED
      BY <3>1, <3>2
  <2>5. view'.ver >= handed.map.ver
    BY Zenon, <2>2, <2>3, <2>4
  <2>6. ASSUME handed.here PROVE view'.uid = handed.map.uid
    <3>1. gate.handoff = handed.map.uid /\ gate.handoff > 0
      BY Zenon, <2>1, <2>6 DEF IInv, GateInv, HandInv, Due
    <3>2. gate.handoff # 0
      BY <3>1
    <3> QED
      BY Zenon, <2>2, <2>3, <2>6, <3>1, <3>2 DEF Handed
  <2> QED
    BY Zenon, <2>5, <2>6
<1> QED
  BY <1>1, <1>2, <1>3, Invariance, PTL DEF Spec, FirstApplyIsNamed
=============================================================================
