------------------------------- MODULE Upgrader -------------------------------
(***************************************************************************)
(* Worker upgrades (internal/executor/upgrade.go): the pass that rolls the *)
(* worker pools to the desired Kubernetes version, one pool at a time,     *)
(* against the machine-controller that replaces the machines and a control *)
(* plane that somebody else upgrades.                                      *)
(*                                                                         *)
(* A version is the number of its minor.  A pass reads the                 *)
(* MachineDeployments, then the machines, then the cached control-plane    *)
(* version, and takes the pools in name order, one API call per step.      *)
(***************************************************************************)
EXTENDS Integers, FiniteSets

CONSTANTS
  Pools,       \* worker pools; processed by name, so naturals
  Kind,        \* pool -> "worker", "controlplane", "autoscaled", "missing" (no such
               \* MachineDeployment), "unversioned" (it declares no kubelet version)
               \* or "malformed" (its name is no object's name)
  Replicas,    \* pool -> spec.replicas of its MachineDeployment
  Machines,    \* slots for machines that are not deleting
  PoolOf,      \* machine -> its pool
  Versions,    \* kubelet versions, naturals above 0
  Apiservers,  \* control-plane instances; discovery is answered by any of them
  Targets,     \* the values of kubernetesVersion the server may send
  PoolSets,    \* the pools a document may list
  MaxPools,    \* maxPoolsPerPass
  MaxRevision, \* bound of the model: desired-state writes
  MaxFaults,   \* bound of the model: calls that fail by themselves
  MaxLosses,   \* bound of the model: machines lost for another reason than a roll
  MaxRestarts  \* bound of the model: crashes of the agent

None == 0      \* no version declared, or none observed yet; no machine in a slot
Invalid == -1  \* a desired version that does not parse

ASSUME PoolsAssumption ==
  /\ Pools \subseteq Nat /\ IsFiniteSet(Pools)
  /\ Kind \in [Pools -> {"worker", "controlplane", "autoscaled", "missing", "unversioned",
                        "malformed"}]
  /\ Replicas \in [Pools -> Nat]
  /\ PoolOf \in [Machines -> Pools] /\ IsFiniteSet(Machines)
  /\ MaxPools \in Nat
ASSUME VersionsAssumption ==
  /\ Versions \subseteq Nat \ {0} /\ 1 \in Versions
  /\ Targets \subseteq Versions \cup {None, Invalid} /\ PoolSets \subseteq SUBSET Pools
  /\ Apiservers # {}
ASSUME BoundsAssumption == {MaxRevision, MaxFaults, MaxLosses, MaxRestarts} \subseteq Nat

VARIABLES
  doc,           \* the document the Poller holds: revision, target, pools
  due,           \* the Poller calls Reconcile at its next tick
  cp, observed,  \* version of each apiserver; the VersionCache of the refresh loop
  declared,      \* pool -> kubelet version its MachineDeployment declares
  machine, joined, \* slot -> version of its machine, or None; those with a joined node
  rollFrom,      \* DOMAIN of Executor.rollFrom
  report,        \* actions store: pool -> status of its upgrade action
  pc, pass,      \* where the running pass is, and its locals
  faults, losses, restarts, \* counters of the bounded events
  rolling        \* history: pool -> revision whose roll the agent started, until it is over (0)

cluster == <<declared, machine, joined>>
memory == <<rollFrom, report>>
bounds == <<faults, losses, restarts>>
vars == <<doc, due, cp, observed, cluster, memory, pc, pass, bounds, rolling>>

NoList == [p \in {} |-> 0]
NoPass == [mds |-> NoList, n |-> NoList, m |-> NoList, todo |-> {}, rollingExists |-> FALSE,
           halted |-> FALSE, retry |-> FALSE]

-----------------------------------------------------------------------------
(* Operators of upgrade.go.                                                *)

\* The pools a pass takes: the first of those with a name a pool can have.
InPass ==
  LET named == {p \in doc.pools : Kind[p] # "malformed"}
  IN  {p \in named : Cardinality({k \in named : k < p}) < MaxPools}

Declares(p) == Kind[p] \notin {"missing", "unversioned", "malformed"}
Eligible(p) == Kind[p] = "worker"
Workers == {p \in Pools : Eligible(p)}
Live(p) == {i \in Machines : PoolOf[i] = p /\ machine[i] # None}

\* rollProgress: the machines at the target with a joined node, and all of them,
\* floored at the declared replicas.
AtTargetJoined(p) == Cardinality({i \in Live(p) \cap joined : machine[i] = doc.target})
Total(p) == IF Cardinality(Live(p)) > Replicas[p] THEN Cardinality(Live(p)) ELSE Replicas[p]

\* poolStatus, from what the pass read.
AtTarget(p) == Declares(p) /\ pass.mds[p] = doc.target
Converged(p) == AtTarget(p) /\ pass.n[p] >= pass.m[p]
NeedsRoll == \E p \in InPass : Declares(p) /\ ~AtTarget(p)

\* The pools a pre-flight refusal is reported for.
Behind == {p \in InPass : Kind[p] # "missing" /\ ~AtTarget(p)}

ReportAll(ps, status) == report' = [p \in Pools |-> IF p \in ps THEN status ELSE report[p]]

\* A pool is rolled when all its machines are at what it declares, joined, and
\* as many as its replicas.
RolledTo(p, v) == /\ Cardinality(Live(p)) >= Replicas[p]
                  /\ \A i \in Live(p) : i \in joined /\ machine[i] = v
Rolled(p) == RolledTo(p, declared[p])
EndRolls == rolling' = [p \in Pools |-> IF Rolled(p)' THEN 0 ELSE rolling[p]]

-----------------------------------------------------------------------------
Init ==
  /\ doc = [revision |-> 0, target |-> None, pools |-> {}]
  /\ due = FALSE
  /\ cp = [a \in Apiservers |-> 1] /\ observed = None
  /\ declared = [p \in Pools |-> 1]
  /\ \E s \in SUBSET Machines :
       /\ \A p \in Pools : Cardinality({i \in s : PoolOf[i] = p}) = Replicas[p]
       /\ machine = [i \in Machines |-> IF i \in s THEN 1 ELSE None]
       /\ joined = s
  /\ rollFrom = {} /\ report = [p \in Pools |-> "none"]
  /\ pc = "idle" /\ pass = NoPass
  /\ faults = 0 /\ losses = 0 /\ restarts = 0
  /\ rolling = [p \in Pools |-> 0]

-----------------------------------------------------------------------------
(* The pass.                                                               *)

\* Reconcile enters upgradePools; without a version or a pool to take it returns at
\* once.
StartPass ==
  /\ pc = "idle" /\ due
  /\ IF doc.target = None \/ InPass = {}
     THEN due' = FALSE /\ UNCHANGED pc
     ELSE pc' = "mds" /\ UNCHANGED due
  /\ UNCHANGED <<doc, cp, observed, cluster, memory, pass, bounds, rolling>>

ListMachineDeployments ==
  /\ pc = "mds"
  /\ pc' = "machines"
  /\ pass' = [pass EXCEPT !.mds = declared]
  /\ UNCHANGED <<doc, due, cp, observed, cluster, memory, bounds, rolling>>

\* Phase 1 starts: progress of every pool is counted.
ListMachines ==
  /\ pc = "machines"
  /\ pc' = "preflight"
  /\ pass' = [pass EXCEPT !.n = [p \in Pools |-> AtTargetJoined(p)],
                          !.m = [p \in Pools |-> Total(p)]]
  /\ UNCHANGED <<doc, due, cp, observed, cluster, memory, bounds, rolling>>

\* One of the two lists fails: every pool fails, to be retried.
ListFails ==
  /\ pc \in {"mds", "machines"} /\ faults < MaxFaults
  /\ faults' = faults + 1
  /\ ReportAll(InPass, "failed")
  /\ pc' = "idle" /\ due' = TRUE
  /\ pass' = NoPass
  /\ UNCHANGED <<doc, cp, observed, cluster, rollFrom, losses, restarts, rolling>>

\* The observed version is unknown or its minor below the target's.
\* (Mutant first: an unknown version lets the roll through.)
BehindIfKnown == observed # None /\ observed < doc.target
ControlPlaneBehind == observed = None \/ observed < doc.target

\* A pre-flight refusal ends the pass, to be retried unless the version does
\* not parse.
Refuse ==
  /\ pc = "preflight" /\ NeedsRoll
  /\ doc.target = Invalid \/ ControlPlaneBehind
  /\ ReportAll(Behind, "failed")
  /\ pc' = "idle" /\ due' = (doc.target # Invalid)
  /\ pass' = NoPass
  /\ UNCHANGED <<doc, cp, observed, cluster, rollFrom, bounds, rolling>>

\* Phase 2 starts; a pool already mid-roll blocks the others.
\* (Mutant first: only the rolls this process knows of.)
MidRollRemembered ==
  \E p \in InPass \cap rollFrom : Eligible(p) /\ AtTarget(p) /\ ~Converged(p)
MidRoll == \E p \in InPass : Eligible(p) /\ AtTarget(p) /\ ~Converged(p)

Proceed ==
  /\ pc = "preflight"
  /\ NeedsRoll => doc.target # Invalid /\ ~ControlPlaneBehind
  /\ pc' = "act"
  /\ pass' = [pass EXCEPT !.todo = InPass, !.rollingExists = MidRoll]
  /\ UNCHANGED <<doc, due, cp, observed, cluster, memory, bounds, rolling>>

\* The pools are taken in name order.
Foremost(p) == p \in pass.todo /\ \A k \in pass.todo : p <= k
Turn(p) == pc = "act" /\ Foremost(p)

\* The cases that end p's turn without a write and without a re-run: refusals,
\* and pools at the target (done only if this process saw the roll).
Settle(p) ==
  /\ Turn(p) /\ ~pass.halted
  /\ \/ /\ Kind[p] \in {"missing", "unversioned"}
        /\ ReportAll({p}, "failed")
     \/ /\ Kind[p] \in {"controlplane", "autoscaled"}
        /\ ReportAll(IF AtTarget(p) THEN {} ELSE {p}, "failed")
     \/ /\ Eligible(p) /\ Converged(p)
        /\ ReportAll({p} \cap rollFrom, "done")
  /\ pass' = [pass EXCEPT !.todo = @ \ {p}]
  /\ UNCHANGED <<doc, due, cp, observed, cluster, rollFrom, pc, bounds, rolling>>

\* The cases that leave p for the next pass: behind a failure, mid-roll, or
\* behind another pool's roll.
Defer(p) ==
  /\ Turn(p)
  /\ \/ /\ pass.halted
        /\ ReportAll({p}, "pending") /\ UNCHANGED <<rollFrom>>
        /\ pass' = [pass EXCEPT !.todo = @ \ {p}]
     \/ /\ ~pass.halted /\ Eligible(p) /\ AtTarget(p) /\ ~Converged(p)
        /\ ReportAll({p}, "in-progress") /\ rollFrom' = rollFrom \cup {p}
        /\ pass' = [pass EXCEPT !.todo = @ \ {p}, !.retry = TRUE]
     \/ /\ ~pass.halted /\ Eligible(p) /\ ~AtTarget(p) /\ pass.rollingExists
        /\ ReportAll({p}, "pending") /\ UNCHANGED <<rollFrom>>
        /\ pass' = [pass EXCEPT !.todo = @ \ {p}, !.retry = TRUE]
  /\ UNCHANGED <<doc, due, cp, observed, cluster, pc, bounds, rolling>>

MayPatch(p) ==
  Foremost(p) /\ ~pass.halted /\ Eligible(p) /\ ~AtTarget(p) /\ ~pass.rollingExists

\* patchKubelet shows the roll before it asks for it: what a heartbeat shows
\* meanwhile is not remembered yet.
Announce(p) ==
  /\ pc = "act" /\ MayPatch(p)
  /\ ReportAll({p}, "in-progress")
  /\ pc' = "patch"
  /\ UNCHANGED <<doc, due, cp, observed, cluster, rollFrom, pass, bounds, rolling>>

\* The apiserver applies the patch: p's roll starts, unless nothing is to replace.
ApplyPatch(p) ==
  /\ declared' = [declared EXCEPT ![p] = doc.target]
  /\ rolling' = [rolling EXCEPT ![p] = IF RolledTo(p, doc.target) THEN 0 ELSE doc.revision]

\* (Mutant first: only a roll that is seen mid-way is remembered.)
PatchKubeletUnrecorded(p) ==
  /\ pc = "patch" /\ MayPatch(p) /\ ApplyPatch(p)
  /\ ReportAll({p}, "in-progress") /\ UNCHANGED rollFrom
  /\ pc' = "act"
  /\ pass' = [pass EXCEPT !.todo = @ \ {p}, !.retry = TRUE, !.rollingExists = TRUE]
  /\ UNCHANGED <<doc, due, cp, observed, machine, joined, bounds>>
PatchKubelet(p) ==
  /\ pc = "patch" /\ MayPatch(p) /\ ApplyPatch(p)
  /\ ReportAll({p}, "in-progress") /\ rollFrom' = rollFrom \cup {p}
  /\ pc' = "act"
  /\ pass' = [pass EXCEPT !.todo = @ \ {p}, !.retry = TRUE, !.rollingExists = TRUE]
  /\ UNCHANGED <<doc, due, cp, observed, machine, joined, bounds>>

\* A failed patch halts the pass; it was not applied, or only its reply is lost.
PatchFails(p) ==
  /\ pc = "patch" /\ MayPatch(p) /\ faults < MaxFaults
  /\ faults' = faults + 1
  /\ ApplyPatch(p) \/ UNCHANGED <<declared, rolling>>
  /\ ReportAll({p}, "failed")
  /\ pc' = "act"
  /\ pass' = [pass EXCEPT !.todo = @ \ {p}, !.retry = TRUE, !.halted = TRUE]
  /\ UNCHANGED <<doc, due, cp, observed, machine, joined, rollFrom, losses, restarts>>

\* Mutant of EndPass: a pass that started nothing does not ask for another one.
EndPassForgetful ==
  /\ pc = "act" /\ pass.todo = {}
  /\ pc' = "idle" /\ due' = (pass.retry /\ pass.halted)
  /\ pass' = NoPass
  /\ UNCHANGED <<doc, cp, observed, cluster, memory, bounds, rolling>>
EndPass ==
  /\ pc = "act" /\ pass.todo = {}
  /\ pc' = "idle" /\ due' = pass.retry
  /\ pass' = NoPass
  /\ UNCHANGED <<doc, cp, observed, cluster, memory, bounds, rolling>>

\* The agent dies; the Poller of the new one pulls the document anew.
Restart ==
  /\ restarts < MaxRestarts
  /\ restarts' = restarts + 1
  /\ due' = (doc.revision > 0)
  /\ observed' = None
  /\ rollFrom' = {} /\ report' = [p \in Pools |-> "none"]
  /\ pc' = "idle" /\ pass' = NoPass
  /\ UNCHANGED <<doc, cp, cluster, faults, losses, rolling>>

-----------------------------------------------------------------------------
(* The surroundings.                                                       *)

\* The Poller pulls a document of a new revision, between two passes: the
\* reports of the old revision are dropped before the pass starts.
NewDocument ==
  /\ pc = "idle" /\ doc.revision < MaxRevision
  /\ \E t \in Targets, ps \in PoolSets :
       doc' = [revision |-> doc.revision + 1, target |-> t, pools |-> ps]
  /\ due' = TRUE
  /\ report' = [p \in Pools |-> "none"]
  /\ UNCHANGED <<cp, observed, cluster, rollFrom, pc, pass, bounds, rolling>>

\* The control plane is upgraded, one apiserver after the other.
UpgradeControlPlane(a) ==
  /\ cp[a] + 1 \in Versions
  /\ cp' = [cp EXCEPT ![a] = @ + 1]
  /\ UNCHANGED <<doc, due, observed, cluster, memory, pc, pass, bounds, rolling>>

\* The refresh loop asks discovery, which any apiserver answers.
RefreshVersion ==
  /\ \E a \in Apiservers : observed # cp[a] /\ observed' = cp[a]
  /\ UNCHANGED <<doc, due, cp, cluster, memory, pc, pass, bounds, rolling>>

\* machine-controller: a slot of a pool that has too few machines at the
\* declared version is filled.
CreateMachine(i) ==
  /\ machine[i] = None
  /\ Cardinality({k \in Live(PoolOf[i]) : machine[k] = declared[PoolOf[i]]}) < Replicas[PoolOf[i]]
  /\ machine' = [machine EXCEPT ![i] = declared[PoolOf[i]]]
  /\ UNCHANGED <<doc, due, cp, observed, declared, joined, memory, pc, pass, bounds, rolling>>

Join(i) ==
  /\ machine[i] # None /\ i \notin joined
  /\ joined' = joined \cup {i}
  /\ UNCHANGED <<doc, due, cp, observed, declared, machine, memory, pc, pass, bounds>>
  /\ EndRolls

\* machine-controller deletes a machine of another version than the declared.
DeleteOld(i) ==
  /\ machine[i] \notin {None, declared[PoolOf[i]]}
  /\ machine' = [machine EXCEPT ![i] = None]
  /\ joined' = joined \ {i}
  /\ UNCHANGED <<doc, due, cp, observed, declared, memory, pc, pass, bounds>>
  /\ EndRolls

\* A machine goes for another reason: the healer, the user, the cloud.
LoseMachine(i) ==
  /\ machine[i] # None /\ losses < MaxLosses
  /\ losses' = losses + 1
  /\ machine' = [machine EXCEPT ![i] = None]
  /\ joined' = joined \ {i}
  /\ UNCHANGED <<doc, due, cp, observed, declared, memory, pc, pass, faults, restarts>>
  /\ EndRolls

-----------------------------------------------------------------------------
Pass ==
  \/ StartPass \/ ListMachineDeployments \/ ListMachines \/ ListFails
  \/ Refuse \/ Proceed \/ EndPass
  \/ \E p \in Pools : Settle(p) \/ Defer(p) \/ Announce(p) \/ PatchKubelet(p) \/ PatchFails(p)

Controller == \E i \in Machines : CreateMachine(i) \/ Join(i) \/ DeleteOld(i)

Surroundings ==
  \/ NewDocument \/ RefreshVersion \/ Controller
  \/ \E a \in Apiservers : UpgradeControlPlane(a)
  \/ \E i \in Machines : LoseMachine(i)

Next == Pass \/ Restart \/ Surroundings

\* The Poller's ticks come, the version is refreshed, and machine-controller
\* and the machines make progress.  Nothing is assumed of the control plane,
\* of new documents, faults, losses or restarts.
Fairness == WF_vars(Pass) /\ WF_vars(RefreshVersion) /\ WF_vars(Controller)

Spec == Init /\ [][Next]_vars /\ Fairness

-----------------------------------------------------------------------------
(* Properties.                                                             *)

\* ONE POOL ROLLS AT A TIME (upgrade.go:16), as the code has it: among the pools
\* of one document, through crashes, lost replies and lost machines.
OneRollPerDocument ==
  \A r \in 1..MaxRevision : Cardinality({p \in Pools : rolling[p] = r}) <= 1

\* Workers never outrun the control plane (upgrade.go:141): what the agent rolls
\* to, an apiserver runs, however stale the observed version is.
SomeApiserverAtTarget ==
  \A p \in Pools : declared[p] > 1 => \E a \in Apiservers : declared[p] <= cp[a]

\* No roll is abandoned: when no pass runs and none is due, every worker pool that
\* the document's passes take declares its version and its roll is over, whatever
\* failed, was lost or waited for the control plane before (upgrade.go:60).
NoneAbandoned ==
  pc = "idle" /\ ~due /\ doc.target \in Versions
    => \A p \in InPass \cap Workers : declared[p] = doc.target /\ rolling[p] = 0

\* Nor is its report: when no pass runs and none is due, no worker pool that the
\* passes take is shown in progress (upgrade.go:21).
NoneLeftInProgress ==
  pc = "idle" /\ ~due /\ doc.target \in Versions
    => \A p \in InPass \cap Workers : report[p] # "in-progress"

\* A roll that is shown in progress after its patch was answered is shown done in
\* the end, unless the process dies or the document changes.  (While patchKubelet
\* waits for the answer a roll is shown that may yet fail, upgrade.go:241, 266.)
RollsAreReported ==
  \A p \in Workers, r \in 1..MaxRevision :
    (doc.revision = r /\ report[p] = "in-progress" /\ pc # "patch")
      ~> (doc.revision # r \/ report[p] \in {"done", "none"})

\* A desired version that stays is rolled out to every worker pool that the passes
\* take, once the control plane is there: none is left queued, whatever failed on
\* the way.
EventuallyRolled ==
  \A p \in Workers, t \in Targets \cap Versions :
    (doc.target = t /\ p \in InPass /\ \A a \in Apiservers : cp[a] >= t)
      ~> ((declared[p] = t /\ Rolled(p)) \/ doc.target # t \/ p \notin InPass)

-----------------------------------------------------------------------------
(* What the documentation says and the code does not do (see README).      *)

\* ONE POOL ROLLS AT A TIME: a pool is patched only when no other pool is
\* mid-roll (upgrade.go:16).
OneRollAtATime == Cardinality({p \in Pools : rolling[p] # 0}) <= 1

-----------------------------------------------------------------------------
(* The inductive invariants of the two (UpgraderProofs).                   *)

Over(ps) == \A p \in ps \cap Workers : declared[p] = doc.target /\ rolling[p] = 0

\* Phase 2 of a pass is under way.
Acting == pc \in {"act", "patch"}

\* A pass knows what the pools it is still to take declare, takes none for converged
\* whose roll is open, and asks for a re-run unless those it is done with are over.
PassKnows ==
  /\ pc \in {"machines", "preflight"} => pass.mds = declared
  /\ pc = "preflight" => \A p \in Pools : Converged(p) => rolling[p] = 0
  /\ ~Acting => ~pass.halted
  /\ Acting =>
       /\ \A p \in pass.todo : /\ pass.mds[p] = declared[p]
                               /\ Converged(p) => rolling[p] = 0
       /\ pass.halted => pass.retry
       /\ ~pass.retry => Over(InPass \ pass.todo)
  /\ doc.revision = 0 => doc.pools = {}

\* The process remembers every roll it shows in progress but the one whose patch it
\* waits for, and a pass asks for a re-run unless the pools it is done with are shown
\* otherwise.
PassReports ==
  /\ \A p \in Pools : report[p] = "in-progress" => p \in rollFrom \/ (pc = "patch" /\ MayPatch(p))
  /\ Acting /\ ~pass.retry =>
       \A p \in (InPass \ pass.todo) \cap Workers : report[p] # "in-progress"
=============================================================================
