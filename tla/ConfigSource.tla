---------------------------- MODULE ConfigSource ----------------------------
(***************************************************************************)
(* Who writes FRR's configuration on a node: the agent that watches the    *)
(* node's ConfigMap (internal/fabricconfig/agent.go) or the deployment     *)
(* agent that activates revisions (deployment.go).  Both run in one        *)
(* process and share the SourceGate and the node's writer lock; the        *)
(* journal keeps the source over restarts.                                 *)
(*                                                                         *)
(* Abstractions.  A revision's configuration is one value, Crd, and        *)
(* activating it is one reload under the lock (modules Activation and      *)
(* DeploymentSync have the rest).  The gate's version and the agent's      *)
(* gateVersion are kept as `moved': the gate changed since the agent last  *)
(* converged under it.  `handed' is read by no action and stands for no    *)
(* state of the code: it remembers a handoff over restarts, which start    *)
(* both versions at 0, for the properties to refer to.  There is no legacy *)
(* ConfigMap, daemons file or vtysh.conf.  Validating a text always gives  *)
(* the same verdict, so Agent.rejected, which saves validating it again,   *)
(* is left out.                                                            *)
(***************************************************************************)
EXTENDS Naturals

CONSTANTS
  MaxUid,         \* ConfigMaps created under the node's name
  MaxVer,         \* ConfigMap versions
  Text,           \* the frr.conf each version holds
  Invalid,        \* the texts that fail validation
  Asked,          \* the sources operators ask for
  MayCrash,       \* whether a container of the pod may restart on its own
  MayTear,        \* whether applying a configuration may fail once FRR has changed
  MayRetire       \* whether the ConfigMap path may be retired

ASSUME SourceAssumption ==
  /\ MaxUid \in Nat \ {0}
  /\ MaxVer \in Nat \ {0}
  /\ Asked \subseteq {"ConfigMap", "Shadow", "CRD"}
  /\ MayCrash \in BOOLEAN
  /\ MayTear \in BOOLEAN
  /\ MayRetire \in BOOLEAN

VARIABLES
  dep,      \* the deployment's source, handoff, and whether it has an active revision
  cm,       \* the node's ConfigMap in the API
  store,    \* the informer's copy of it
  frr,      \* what FRR runs
  conf,     \* frr.conf in ConfigDir
  jnl,      \* the journal's source and handoff, and whether anything was activated
  handed,   \* history: the ConfigMap a handoff named, until the agent takes one in,
            \* and whether the process that journaled it still runs
  gate,     \* SourceGate: source and handoff
  moved,    \* the gate changed since the ConfigMap agent took it into account
  lock,     \* who holds the writer lock
  up,       \* the pod's init container is done
  retired,  \* ConfigMapsRetired
  watch,    \* where the ConfigMap agent is
  wake,     \* the signals Watch waits for
  view,     \* the ConfigMap converge works with
  applied,  \* Agent.applied[frr.conf]
  sync,     \* where the deployment agent is
  want      \* the deployment Sync read

apiVars == <<dep, cm>>
watchVars == <<watch, wake, view, applied, store>>
syncVars == <<sync, want>>
nodeVars == <<frr, conf>>
vars == <<apiVars, watchVars, syncVars, nodeVars, jnl, handed, gate, moved, lock, up, retired>>

Sources == {"ConfigMap", "Shadow", "CRD"}
(* JournalSource: ConfigMap when the journal records none. *)
JournalSource == IF jnl.source = "" THEN "ConfigMap" ELSE jnl.source
Maps == [uid : 0..MaxUid, ver : 0..MaxVer, live : BOOLEAN]
NoMap == [uid |-> 0, ver |-> 0, live |-> FALSE]
NotHanded == [map |-> NoMap, here |-> FALSE]
Crd == "crd"
Mixed == "mixed"
None == "none"
Texts == {Text[v] : v \in 1..MaxVer}
(* What a reload that fails leaves. *)
Torn == IF MayTear THEN {frr, Mixed} ELSE {frr}
TextOf(m) == IF m.live THEN Text[m.ver] ELSE None
-----------------------------------------------------------------------------
(* The API: operators edit the ConfigMap and the deployment. *)

EditConfigMap ==
  /\ cm.live
  /\ cm.ver < MaxVer
  /\ cm' = [cm EXCEPT !.ver = @ + 1]
  /\ UNCHANGED <<dep, watchVars, syncVars, nodeVars, jnl, handed, gate, moved, lock, up, retired>>

DeleteConfigMap ==
  /\ cm.live
  /\ cm' = [cm EXCEPT !.live = FALSE]
  /\ UNCHANGED <<dep, watchVars, syncVars, nodeVars, jnl, handed, gate, moved, lock, up, retired>>

(* Created again under the same name. *)
CreateConfigMap ==
  /\ ~cm.live
  /\ cm.uid < MaxUid
  /\ cm.ver < MaxVer
  /\ cm' = [uid |-> cm.uid + 1, ver |-> cm.ver + 1, live |-> TRUE]
  /\ UNCHANGED <<dep, watchVars, syncVars, nodeVars, jnl, handed, gate, moved, lock, up, retired>>

(* A source change.  Leaving CRD is only for ConfigMap and names the       *)
(* ConfigMap as it is; nothing else carries a handoff.                     *)
ChangeSource(s) ==
  /\ s # dep.source
  /\ dep.source = "CRD" => s = "ConfigMap" /\ cm.live
  /\ dep' = [dep EXCEPT !.source = s,
                        !.handoff = IF dep.source = "CRD" THEN cm ELSE NoMap]
  /\ UNCHANGED <<cm, watchVars, syncVars, nodeVars, jnl, handed, gate, moved, lock, up, retired>>

(* The same again, when the status says the node is not handed back yet;   *)
(* the status may be old.                                                  *)
RenewHandoff ==
  /\ dep.source = "ConfigMap"
  /\ cm.live
  /\ dep.handoff # cm
  /\ dep' = [dep EXCEPT !.handoff = cm]
  /\ UNCHANGED <<cm, watchVars, syncVars, nodeVars, jnl, handed, gate, moved, lock, up, retired>>

Promote ==
  /\ ~dep.active
  /\ dep.source = "CRD"
  /\ dep' = [dep EXCEPT !.active = TRUE]
  /\ UNCHANGED <<cm, watchVars, syncVars, nodeVars, jnl, handed, gate, moved, lock, up, retired>>

(* The informer catches up. *)
Deliver ==
  /\ watch # "off"
  /\ store # cm
  /\ store' = cm
  /\ wake' = wake \cup {"trigger"}
  /\ UNCHANGED <<apiVars, watch, view, applied, syncVars, nodeVars, jnl, handed, gate,
                 moved, lock, up, retired>>
-----------------------------------------------------------------------------
(* The ConfigMap agent. *)

StartWatch ==
  /\ up
  /\ ~retired
  /\ watch = "off"
  /\ watch' = "idle"
  /\ applied' = conf
  /\ store' = cm
  /\ wake' = wake \cup {"trigger"}
  /\ UNCHANGED <<apiVars, view, syncVars, nodeVars, jnl, handed, gate, moved, lock, up, retired>>

(* Watch: the ConfigMap is taken from the store before the lock is waited for. *)
Wake(signal) ==
  /\ watch = "idle"
  /\ signal \in wake
  /\ wake' = wake \ {signal, "retry"}
  /\ view' = store
  /\ watch' = "lock"
  /\ UNCHANGED <<apiVars, applied, store, syncVars, nodeVars, jnl, handed, gate, moved,
                 lock, up, retired>>

EnterConverge ==
  /\ watch = "lock"
  /\ lock = "free"
  /\ lock' = "watch"
  /\ watch' = "converge"
  /\ UNCHANGED <<apiVars, wake, view, applied, store, syncVars, nodeVars, jnl, handed,
                 gate, moved, up, retired>>

(* converge returns; Watch retries later when it failed. *)
Done(ok) ==
  /\ lock' = "free"
  /\ watch' = "idle"
  /\ view' = NoMap
  /\ wake' = IF ok THEN wake ELSE wake \cup {"retry"}

(* converge takes m in: it is applied unless it is missing, applied        *)
(* already, or fails validation.                                           *)
Resolved(m, was) ==
  LET t == TextOf(m) IN
    /\ applied' = was
    /\ handed' = NotHanded
    /\ \/ t \in {None, was} \cup Invalid /\ Done(TRUE)
       \/ /\ t \notin {None, was} \cup Invalid
          /\ watch' = "reload"
          /\ view' = m
          /\ UNCHANGED <<lock, wake>>

(* Mutant: the gate's version is taken into account, not its source. *)
ConvergeUngated ==
  /\ watch = "converge"
  /\ Resolved(view, applied)
  /\ UNCHANGED <<apiVars, store, syncVars, nodeVars, jnl, gate, moved, up, retired>>

(* Mutant: what was applied before the gate moved still counts as applied. *)
ConvergeKeepsApplied ==
  /\ watch = "converge"
  /\ \/ /\ gate.source = "CRD"
        /\ Done(TRUE)
        /\ UNCHANGED <<applied, moved, handed>>
     \/ /\ gate.source # "CRD"
        /\ Resolved(IF moved THEN cm ELSE view, applied)
        /\ moved' = FALSE
  /\ UNCHANGED <<apiVars, store, syncVars, nodeVars, jnl, gate, up, retired>>

(* Mutant: after the gate moved, the ConfigMap read from the API may be any. *)
ConvergeUnpinned ==
  /\ watch = "converge"
  /\ \/ /\ gate.source = "CRD"
        /\ Done(TRUE)
        /\ UNCHANGED <<applied, moved, handed>>
     \/ /\ gate.source # "CRD"
        /\ IF moved THEN Resolved(cm, None) ELSE Resolved(view, applied)
        /\ moved' = FALSE
  /\ UNCHANGED <<apiVars, store, syncVars, nodeVars, jnl, gate, up, retired>>

(* The ConfigMap is the one the handoff named, if there was one. *)
Handed == gate.handoff = 0 \/ (cm.live /\ cm.uid = gate.handoff)

(* convergeLocked up to the reload.  After the gate moved, the ConfigMap   *)
(* is read from the API and must be the one the handoff named, and         *)
(* whatever was applied before is applied again.                           *)
Converge ==
  /\ watch = "converge"
  /\ \/ /\ gate.source = "CRD"
        /\ Done(TRUE)
        /\ UNCHANGED <<applied, moved, handed>>
     \/ /\ gate.source # "CRD"
        /\ moved
        /\ ~Handed
        /\ Done(FALSE)
        /\ UNCHANGED <<applied, moved, handed>>
     \/ /\ gate.source # "CRD"
        /\ moved
        /\ Handed
        /\ Resolved(cm, None)
        /\ moved' = FALSE
     \/ /\ gate.source # "CRD"
        /\ ~moved
        /\ Resolved(view, applied)
        /\ UNCHANGED moved
  /\ UNCHANGED <<apiVars, store, syncVars, nodeVars, jnl, gate, up, retired>>

Reload ==
  /\ watch = "reload"
  /\ frr' = TextOf(view)
  /\ watch' = "promote"
  /\ UNCHANGED <<apiVars, wake, view, applied, store, syncVars, conf, jnl, handed, gate, moved, lock,
                 up, retired>>

(* The candidate is renamed over frr.conf. *)
PromoteCandidate ==
  /\ watch = "promote"
  /\ conf' = TextOf(view)
  /\ applied' = TextOf(view)
  /\ Done(TRUE)
  /\ UNCHANGED <<apiVars, store, syncVars, frr, jnl, handed, gate, moved, up, retired>>

(* The API cannot be read, the reload fails, perhaps half way, or frr.conf *)
(* cannot be replaced.                                                     *)
ConvergeFails ==
  /\ \/ watch = "converge" /\ gate.source # "CRD" /\ moved /\ UNCHANGED frr
     \/ watch = "reload" /\ frr' \in Torn
     \/ watch = "promote" /\ MayTear /\ UNCHANGED frr
  /\ Done(FALSE)
  /\ UNCHANGED <<apiVars, applied, store, syncVars, conf, jnl, handed, gate, moved, up, retired>>
-----------------------------------------------------------------------------
(* The deployment agent. *)

BeginSync ==
  /\ up
  /\ sync = "idle"
  /\ sync' = "lock"
  /\ want' = dep
  /\ UNCHANGED <<apiVars, watchVars, nodeVars, jnl, handed, gate, moved, lock, up, retired>>

(* The next step of Sync takes the writer lock. *)
EnterSync ==
  LET next == [lock |-> "settle", activate |-> "apply", persist |-> "write"] IN
    /\ sync \in DOMAIN next
    /\ lock = "free"
    /\ lock' = "sync"
    /\ sync' = next[sync]
    /\ UNCHANGED <<apiVars, watchVars, want, nodeVars, jnl, handed, gate, moved, up, retired>>

(* It gives the lock back and goes on, or ends the Sync. *)
Leave(step) ==
  /\ lock' = "free"
  /\ sync' = step
  /\ IF step = "idle" THEN want' = [source |-> "ConfigMap", handoff |-> NoMap, active |-> FALSE]
                      ELSE UNCHANGED want

(* Mutant: a revision is activated only as the node moves to CRD. *)
SettledOnChange(source) ==
  IF source = "CRD" /\ want.active /\ gate.source # "CRD" THEN "activate" ELSE "idle"

(* What Sync does once the source is settled. *)
Settled(source) == IF source = "CRD" /\ want.active THEN "activate" ELSE "idle"

(* checkHandoff: the ConfigMap is the one named, at the version named. *)
HandoffOK(d) == d.handoff # NoMap /\ cm = d.handoff

Leaving == ~retired /\ JournalSource = "CRD" /\ want.source # "CRD"

(* settleSourceLocked up to the journal: leaving CRD needs the handoff. *)
Settle ==
  /\ sync = "settle"
  /\ \/ Leaving /\ ~HandoffOK(want) /\ Leave(Settled("CRD"))
     \/ (Leaving => HandoffOK(want)) /\ sync' = "append" /\ UNCHANGED <<lock, want>>
  /\ UNCHANGED <<apiVars, watchVars, nodeVars, jnl, handed, gate, moved, up, retired>>

Target == IF retired THEN "CRD" ELSE want.source

Pin ==
  CASE Target = "CRD" -> 0
    [] Target # "CRD" /\ jnl.source = "CRD" -> want.handoff.uid
    [] OTHER -> jnl.handoff

(* History: leaving CRD hands the node to a ConfigMap, going to CRD ends that. *)
HandedAfter ==
  CASE Target = "CRD" -> NotHanded
    [] Target # "CRD" /\ jnl.source = "CRD" -> [map |-> want.handoff, here |-> TRUE]
    [] OTHER -> handed

(* Mutant: nothing is written when the handoff stays. *)
AppendHandoffs ==
  /\ sync = "append"
  /\ jnl' = IF Pin = jnl.handoff THEN jnl
            ELSE [jnl EXCEPT !.source = Target, !.handoff = Pin]
  /\ handed' = HandedAfter
  /\ sync' = "gate"
  /\ UNCHANGED <<apiVars, watchVars, want, nodeVars, gate, moved, lock, up, retired>>

(* SetSourceHandoff: nothing is written when the source stays. *)
Append ==
  /\ sync = "append"
  /\ jnl' = IF Target = jnl.source THEN jnl
            ELSE [jnl EXCEPT !.source = Target, !.handoff = Pin]
  /\ handed' = HandedAfter
  /\ sync' = "gate"
  /\ UNCHANGED <<apiVars, watchVars, want, nodeVars, gate, moved, lock, up, retired>>

SetGate ==
  /\ sync = "gate"
  /\ gate' = [source |-> Target, handoff |-> jnl.handoff]
  /\ moved' = (moved \/ Target # gate.source)
  /\ wake' = IF Target # gate.source THEN wake \cup {"gate"} ELSE wake
  /\ Leave(Settled(Target))
  /\ UNCHANGED <<apiVars, watch, view, applied, store, nodeVars, jnl, handed, up, retired>>

(* activate or reassert: the activation is accepted and FRR reloads. *)
Apply ==
  /\ sync = "apply"
  /\ frr' = Crd
  /\ jnl' = [jnl EXCEPT !.activated = TRUE]
  /\ Leave("persist")
  /\ UNCHANGED <<apiVars, watchVars, conf, handed, gate, moved, up, retired>>

(* persist: frr.conf gets the checkpoint. *)
Persist ==
  /\ sync = "write"
  /\ conf' = Crd
  /\ Leave("idle")
  /\ UNCHANGED <<apiVars, watchVars, frr, jnl, handed, gate, moved, up, retired>>

(* The handoff's ConfigMap cannot be read, so the node stays on CRD; the   *)
(* source cannot be journaled; the activation is not accepted, or its      *)
(* reload fails half way; frr.conf cannot be written.                      *)
SyncFails ==
  /\ \/ sync = "settle" /\ Leaving /\ Leave(Settled("CRD")) /\ UNCHANGED <<frr, jnl>>
     \/ sync = "append" /\ Target # jnl.source /\ Leave("idle") /\ UNCHANGED <<frr, jnl>>
     \/ sync \in {"apply", "write"} /\ Leave("idle") /\ UNCHANGED <<frr, jnl>>
     \/ /\ sync = "apply"
        /\ jnl' = [jnl EXCEPT !.activated = TRUE]
        /\ frr' \in Torn
        /\ Leave("idle")
  /\ UNCHANGED <<apiVars, watchVars, conf, handed, gate, moved, up, retired>>
-----------------------------------------------------------------------------
(* Restarts. *)

(* What a new process starts from. *)
Restarted ==
  /\ gate' = [source |-> JournalSource, handoff |-> jnl.handoff]
  /\ moved' = FALSE
  /\ handed' = [handed EXCEPT !.here = FALSE]
  /\ watch' = "off"
  /\ wake' = {}
  /\ view' = NoMap
  /\ applied' = None
  /\ store' = NoMap
  /\ Leave("idle")

AgentCrash ==
  /\ MayCrash
  /\ up
  /\ Restarted
  /\ UNCHANGED <<apiVars, nodeVars, jnl, up, retired>>

(* FRR alone restarts, from frr.conf. *)
FRRRestart ==
  /\ MayCrash
  /\ up
  /\ frr # conf
  /\ frr' = conf
  /\ UNCHANGED <<apiVars, watchVars, syncVars, conf, jnl, handed, gate, moved, lock, up, retired>>

(* The pod restarts, perhaps with its ConfigMap path retired or back. *)
PodRestart ==
  /\ up' = FALSE
  /\ retired' \in {retired, MayRetire}
  /\ frr' = None
  /\ Restarted
  /\ UNCHANGED <<apiVars, conf, jnl>>

(* InitActivated and BootConfig.  A node on CRD starts from what was       *)
(* activated, and from its ConfigMap while nothing was; any other node from *)
(* its ConfigMap.  A retired node starts only if it is on CRD or records no *)
(* source, from what was activated or a first active revision.             *)
BootsCrd ==
  IF retired
  THEN /\ jnl.source \in {"", "CRD"}
       /\ jnl.activated \/ (dep.source = "CRD" /\ dep.active)
  ELSE jnl.source = "CRD" /\ jnl.activated

BootsConfigMap ==
  /\ ~retired
  /\ ~BootsCrd
  /\ TextOf(cm) \notin Invalid \cup {None}

Boot ==
  /\ ~up
  /\ BootsCrd \/ BootsConfigMap
  /\ up' = TRUE
  /\ frr' = IF BootsCrd THEN Crd ELSE TextOf(cm)
  /\ conf' = frr'
  /\ UNCHANGED <<apiVars, watchVars, syncVars, jnl, handed, gate, moved, lock, retired>>
-----------------------------------------------------------------------------
Init ==
  /\ dep = [source |-> "ConfigMap", handoff |-> NoMap, active |-> FALSE]
  /\ cm = [uid |-> 1, ver |-> 1, live |-> TRUE]
  /\ jnl = [source |-> "", handoff |-> 0, activated |-> FALSE]
  /\ gate = [source |-> "ConfigMap", handoff |-> 0]
  /\ handed = NotHanded
  /\ frr = None
  /\ conf = None
  /\ moved = FALSE
  /\ lock = "free"
  /\ up = FALSE
  /\ retired = FALSE
  /\ watch = "off"
  /\ wake = {}
  /\ view = NoMap
  /\ applied = None
  /\ store = NoMap
  /\ sync = "idle"
  /\ want = dep

ConfigMapAgent ==
  \/ StartWatch
  \/ \E signal \in wake : Wake(signal)
  \/ EnterConverge
  \/ Converge
  \/ Reload
  \/ PromoteCandidate

DeploymentAgent ==
  \/ BeginSync
  \/ EnterSync
  \/ Settle
  \/ Append
  \/ SetGate
  \/ Apply
  \/ Persist

Operator ==
  \/ EditConfigMap
  \/ DeleteConfigMap
  \/ CreateConfigMap
  \/ \E s \in Asked : ChangeSource(s)
  \/ RenewHandoff
  \/ Promote

Restart ==
  \/ AgentCrash
  \/ FRRRestart
  \/ PodRestart

Failure ==
  \/ ConvergeFails
  \/ SyncFails

Next ==
  \/ ConfigMapAgent
  \/ DeploymentAgent
  \/ Deliver
  \/ Operator
  \/ Failure
  \/ Restart
  \/ Boot

Spec == Init /\ [][Next]_vars

(* Both agents and the init container keep running and the informer        *)
(* catches up.  The lock is polled and held for one step of a Sync at a    *)
(* time, so whoever waits for it gets it.  At some point restarts cease    *)
(* and what is retried works.                                              *)
Fairness ==
  /\ WF_vars(ConfigMapAgent)
  /\ WF_vars(DeploymentAgent)
  /\ WF_vars(Deliver)
  /\ WF_vars(Boot)
  /\ SF_vars(EnterConverge)
  /\ SF_vars(EnterSync)
  /\ <>[][~Failure /\ ~Restart]_vars

FairSpec == Spec /\ Fairness
-----------------------------------------------------------------------------
(* Properties. *)

SourceTypeOK ==
  /\ dep \in [source : Sources, handoff : Maps, active : BOOLEAN]
  /\ cm \in Maps /\ store \in Maps /\ view \in Maps
  /\ {frr, conf, applied} \subseteq Texts \cup {Crd, Mixed, None}
  /\ jnl \in [source : Sources \cup {""}, handoff : 0..MaxUid, activated : BOOLEAN]
  /\ gate \in [source : Sources, handoff : 0..MaxUid]
  /\ handed \in [map : Maps, here : BOOLEAN]
  /\ up => None \notin {frr, conf}
  /\ {moved, up, retired} \subseteq BOOLEAN
  /\ lock \in {"free", "watch", "sync"}
  /\ watch \in {"off", "idle", "lock", "converge", "reload", "promote"}
  /\ wake \subseteq {"trigger", "gate", "retry"}
  /\ sync \in {"idle", "lock", "settle", "append", "gate", "activate", "apply", "persist", "write"}
  /\ want \in [source : Sources, handoff : Maps, active : BOOLEAN]

(* Only the writer the journal names changes FRR or frr.conf: the          *)
(* ConfigMap agent never while the node is on CRD, the deployment agent    *)
(* never while it is not, however their steps interleave                   *)
(* (convergeLocked, settleSourceLocked).                                   *)
OneWriter ==
  [][/\ Reload \/ PromoteCandidate => jnl.source # "CRD"
     /\ Apply \/ Persist => jnl.source = "CRD"]_vars

(* What the ConfigMap agent first takes in and applies after a node is     *)
(* handed back from CRD is never older than the version the handoff named, *)
(* and is the ConfigMap it named, even if that was replaced after the      *)
(* deployment agent checked it.  Only a restart of the agent in between    *)
(* lets another ConfigMap through, and no older one (settleSourceLocked,   *)
(* SourceGate.SetHandoff, convergeLocked).                                 *)
FirstApplyIsNamed ==
  [][Converge /\ watch' = "reload" /\ handed.map # NoMap =>
       /\ view'.ver >= handed.map.ver
       /\ handed.here => view'.uid = handed.map.uid]_vars

(* `The ConfigMap a handoff named stays pinned, across restarts'           *)
(* (settleSourceLocked).                                                   *)
PinnedAcrossRestarts ==
  [][Converge /\ watch' = "reload" /\ handed.map # NoMap =>
       view'.uid = handed.map.uid]_vars

(* `The ConfigMap agent applies only that ConfigMap after the handoff'     *)
(* (SetHandoff).                                                           *)
OnlyNamedIsApplied ==
  [][Reload /\ jnl.handoff > 0 => view.uid = jnl.handoff]_vars

(* `Watch keeps the running FRR configuration converged on the node's      *)
(* ConfigMap': a valid text that stays there is what FRR runs in the end.  *)
ConfigMapConverges ==
  \A t \in Texts \ Invalid :
    <>[](/\ up /\ ~retired /\ TextOf(cm) = t
         /\ JournalSource # "CRD" /\ jnl.handoff \in {0, cm.uid})
      => <>[](frr = t)

(* A node whose deployment stays on CRD with an active revision runs it in *)
(* the end, and restarts from it.                                          *)
CrdConverges ==
  <>[](up /\ dep.source = "CRD" /\ dep.active) => <>[](frr = Crd /\ conf = Crd)

(* A source that stays is settled in the end: leaving CRD once the handoff *)
(* names the ConfigMap as it is.                                           *)
SourceSettles ==
  \A s \in Sources :
    <>[](up /\ ~retired /\ dep.source = s /\ (JournalSource = "CRD" /\ s # "CRD" => HandoffOK(dep)))
      => <>[](JournalSource = s)
=============================================================================
