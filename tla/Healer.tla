------------------------------- MODULE Healer -------------------------------
(***************************************************************************)
(* The self-healer of the executor (internal/executor/heal.go) with its    *)
(* eviction unwedge (internal/executor/unwedge.go), against the cluster it *)
(* acts on: machines, their nodes and one evictable pod per node.          *)
(*                                                                         *)
(* A heal pass is one call of healPass.  It is not atomic: it reads its    *)
(* clock once, lists the machines, reads the nodes, and then works through *)
(* what it found with one API call per step, while the cluster, the user,  *)
(* the clock and a crash of the agent interleave with it.  What the pass   *)
(* read is kept in `pass' and may be as old as the pass when it is used:   *)
(* the clock runs on while calls are under way, by MaxPass at most.        *)
(*                                                                         *)
(* Time is an integer clock; one unit stands for the floor of the          *)
(* detection windows (minDetectionWindow, one minute).                     *)
(***************************************************************************)
EXTENDS Integers, FiniteSets

CONSTANTS
  Machines,          \* machine names; candidates are sorted by name, so naturals
  Initial,           \* the machines that exist, joined and Ready, at the start
  CPMachines,        \* machines whose Machine object carries a control-plane label
  CPNodes,           \* machines whose node, once it joined, carries one
  Pools,             \* MachineDeployments
  PoolOf,            \* what PoolResolver.PoolFor answers: a pool or Unowned
  Unowned,           \* no owning MachineDeployment could be resolved
  RefusedPools,      \* pools that look control-plane or carry autoscaler annotations
  Policies,          \* the values of healing.maxUnhealthy the server may send
  UnhealthyAfter,    \* healing.unhealthyAfterSeconds, as sent (floored below)
  StartupTimeout,    \* healing.nodeStartupTimeoutSeconds, as sent
  Cooldown,          \* healing.cooldownSeconds
  MaxPass,           \* the longest a pass takes: each of its calls ends after callTimeout
  EvictionTimeout,   \* KUBEHZ_HEAL_EVICTION_TIMEOUT_SECONDS
  MinDetectionWindow,\* minDetectionWindow
  HasPods,           \* whether a PodSource is wired (nil disables the unwedge)
  MaxClock,          \* bound of the model: the clock stops here
  MaxRestarts,       \* bound of the model: crashes of the agent
  MaxLostReplies     \* bound of the model: deletes applied whose reply is lost

ASSUME MachinesAssumption ==
  /\ Machines \subseteq Nat /\ IsFiniteSet(Machines)
  /\ Initial \subseteq Machines /\ CPMachines \subseteq Machines /\ CPNodes \subseteq Machines
ASSUME PoolsAssumption ==
  /\ Unowned \notin Pools
  /\ PoolOf \in [Machines -> Pools \cup {Unowned}]
  /\ RefusedPools \subseteq Pools
ASSUME PolicyAssumption ==
  /\ Policies \subseteq Nat
  /\ {UnhealthyAfter, StartupTimeout, Cooldown, MaxPass, EvictionTimeout} \subseteq Nat
  /\ MinDetectionWindow \in Nat \ {0}
ASSUME BoundsAssumption ==
  /\ {MaxClock, MaxRestarts, MaxLostReplies} \subseteq Nat
  /\ HasPods \in BOOLEAN

VARIABLES
  clock,       \* wall clock
  mach,        \* machine -> lifecycle of its Machine object
  ready,       \* machine -> Ready condition of its node ("none": no node object)
  since,       \* machine -> creationTimestamp until its node joins, then the time the
               \* node last turned not Ready (0 while nothing reads it)
  joined,      \* machines whose status.nodeRef is set
  pod,         \* machine -> the pod (by name) that ran on its node
  podView,     \* the pod informer's copy of pod, which may lag behind
  baseline,    \* Executor.baseline
  lastHeal,    \* Executor.lastHeal (0: no entry; Go's zero time)
  healDeleted, \* Executor.healDeleted, a map keyed by machine
  report,      \* actions store: machine -> status of its heal action
  pc,          \* where the running pass is
  pass,        \* the local variables of the running pass
  restarts, lostReplies,        \* counters of the bounded faults
  healedAt,    \* history: machine -> when the agent's delete was applied, or Never
  acked,       \* history: machines whose delete the agent saw succeed
  unwedged,    \* history: machine -> number of unwedge attempts
  killed       \* history: machines whose replacement pod a force-delete hit

cluster == <<mach, ready, since, joined>>
memory  == <<baseline, lastHeal, healDeleted, report>>
faults  == <<restarts, lostReplies>>
history == <<healedAt, acked, unwedged, killed>>
vars == <<clock, cluster, pod, podView, memory, pc, pass, faults, history>>

Never == -1
NoPass == [now |-> 0, max |-> 0, live |-> {}, deleting |-> {}, joined |-> {},
           sick |-> {}, cands |-> {}, todo |-> {}, wedged |-> {},
           budget |-> 0, halted |-> FALSE]

-----------------------------------------------------------------------------
(* Operators of heal.go and unwedge.go.                                    *)

\* flooredWindow: a guardrail may be clamped tighter, never looser.
FlooredWindow(w) == IF w < MinDetectionWindow THEN MinDetectionWindow ELSE w

\* Mutant of LastHealTime: the cooldown forgets that a restart renews it.
LastHealTimeNoBaseline(p) == lastHeal[p]

\* lastHealTime: never earlier than the executor's construction.
LastHealTime(p) == IF lastHeal[p] > baseline THEN lastHeal[p] ELSE baseline

CoolingDown(p) == pass.now - LastHealTime(p) < Cooldown

\* Mutant of Joinless: the control-plane label of a machine is not looked at.
JoinlessAny == {m \in Machines \ joined :
                  /\ mach[m] = "live"
                  /\ pass.now - since[m] >= FlooredWindow(StartupTimeout)}

\* Detection (a): machines whose node never joined within the startup timeout.
\* Only here is the label of the machine looked at.
Joinless == {m \in Machines \ (joined \cup CPMachines) :
               /\ mach[m] = "live"
               /\ pass.now - since[m] >= FlooredWindow(StartupTimeout)}

\* What is left of maxUnhealthy: every machine already deleting counts.
\* (Mutant first: a budget that ignores what earlier passes set in motion.)
BudgetOfThisPassOnly == pass.max
Budget == pass.max - Cardinality(pass.deleting)

\* The nodes that are not Ready and have not been for the unhealthy window.
LongNotReady == {m \in Machines : /\ ready[m] = "False"
                                  /\ pass.now - since[m] >= FlooredWindow(UnhealthyAfter)}

\* Detection (b): such nodes without the label, backed by a machine that is not
\* deleting.  The label of the machine is not looked at.
NotReady == LongNotReady \cap ((pass.live \cap pass.joined) \ CPNodes)

\* Pools no machine of which is ever deleted: refused at their turn.
Refused(m) == PoolOf[m] = Unowned \/ PoolOf[m] \in RefusedPools

\* The tracked deletions that a list of deleting machines still confirms.
StillDeleting == [m \in DOMAIN healDeleted \cap pass.deleting |-> healDeleted[m]]

\* Mutant of Wedged: an attempt is not remembered.
WedgedAgain == {m \in DOMAIN StillDeleting :
                  /\ healDeleted[m].node
                  /\ pass.now - healDeleted[m].deletedAt >= EvictionTimeout
                  /\ ready[m] = "False"}

\* The tracked deletions whose teardown looks stuck on an unreachable node.
Wedged == {m \in DOMAIN StillDeleting :
             /\ ~healDeleted[m].attempted
             /\ healDeleted[m].node
             /\ pass.now - healDeleted[m].deletedAt >= EvictionTimeout
             /\ ready[m] = "False"}

\* Store.Prune(heal, active): done reports stay, others only while active.
Pruned(r, active) ==
  [m \in Machines |-> IF m \in active \/ r[m] = "done" THEN r[m] ELSE "none"]

Report(m, status) == report' = [report EXCEPT ![m] = status]

-----------------------------------------------------------------------------
Init ==
  /\ clock = 0
  /\ mach = [m \in Machines |-> IF m \in Initial THEN "live" ELSE "future"]
  /\ ready = [m \in Machines |-> IF m \in Initial THEN "True" ELSE "none"]
  /\ since = [m \in Machines |-> 0]
  /\ joined = Initial
  /\ pod = [m \in Machines |-> "running"]
  /\ podView = pod
  /\ baseline = 0
  /\ lastHeal = [p \in Pools |-> 0]
  /\ healDeleted = [m \in {} |-> NoPass]
  /\ report = [m \in Machines |-> "none"]
  /\ pc = "idle"
  /\ pass = NoPass
  /\ restarts = 0 /\ lostReplies = 0
  /\ healedAt = [m \in Machines |-> Never]
  /\ acked = {}
  /\ unwedged = [m \in Machines |-> 0]
  /\ killed = {}

-----------------------------------------------------------------------------
(* The pass.                                                               *)

\* Reconcile enters healPass with a policy that says maxUnhealthy = max.  A
\* document of a new revision (fresh) drops the reports of the old one.
StartPass(max, fresh) ==
  /\ pc = "idle"
  /\ pc' = "list"
  /\ pass' = [NoPass EXCEPT !.now = clock, !.max = max]
  /\ report' = IF fresh THEN [m \in Machines |-> "none"] ELSE report
  /\ UNCHANGED <<clock, cluster, pod, podView, baseline, lastHeal, healDeleted,
                 faults, history>>

\* Reconcile with every execution flag off: reports are cleared, nothing else.
KillSwitch ==
  /\ pc = "idle"
  /\ report' = [m \in Machines |-> "none"]
  /\ UNCHANGED <<clock, cluster, pod, podView, baseline, lastHeal, healDeleted,
                 pc, pass, faults, history>>

\* One of the three reads fails: the pass returns before it touched anything.
ReadFails ==
  /\ pc \in {"list", "nodes"}
  /\ pc' = "idle"
  /\ pass' = NoPass
  /\ UNCHANGED <<clock, cluster, pod, podView, memory, faults, history>>

\* Detection (a) needs the machine list only, and is computed from it here.
ListMachines ==
  /\ pc = "list"
  /\ pc' = "nodes"
  /\ pass' = [pass EXCEPT !.live = {m \in Machines : mach[m] = "live"},
                          !.deleting = {m \in Machines : mach[m] = "deleting"},
                          !.joined = joined,
                          !.cands = Joinless]
  /\ UNCHANGED <<clock, cluster, pod, podView, memory, faults, history>>

\* Read the nodes; then everything the pass computes from what it read: the
\* pruned tracking, the wedged teardowns, the candidates and the budget.
ReadNodes ==
  /\ pc = "nodes"
  /\ pc' = "act"
  /\ healDeleted' = StillDeleting
  /\ LET cands == pass.cands \cup NotReady IN
     pass' = [NoPass EXCEPT
                !.now = pass.now, !.max = pass.max, !.joined = pass.joined,
                !.sick = pass.cands \cup (LongNotReady \cap (pass.live \cup pass.deleting)),
                !.wedged = Wedged,
                !.cands = cands, !.todo = cands,
                !.budget = Budget]
  /\ UNCHANGED <<clock, cluster, pod, podView, baseline, lastHeal, report,
                 faults, history>>

\* unwedgePass skips a machine: no pod source, a lister error, or no pod of its
\* node is Terminating.  The one attempt is not spent.
SkipUnwedge(m) ==
  /\ pc = "act" /\ m \in pass.wedged
  /\ pass' = [pass EXCEPT !.wedged = @ \ {m}]
  /\ UNCHANGED <<clock, cluster, pod, podView, memory, pc, faults, history>>

\* Mutant of PreconditionHolds: the force-delete names the pod and nothing else.
NoPrecondition(m) == TRUE

\* The apiserver force-deletes the pod only if the UID precondition holds: the
\* pod is still the Terminating one the lister showed, not its replacement.
PreconditionHolds(m) == pod[m] = "terminating"

\* unwedgeOne: one force-delete of the stuck pod.  A conflict or NotFound is
\* ignored; when the call fails (forbidden or any other error) nothing changes
\* in the cluster.  The attempt is spent and reported in every case.
Unwedge(m) ==
  /\ pc = "act" /\ m \in pass.wedged
  /\ HasPods /\ podView[m] = "terminating"
  /\ healDeleted' = [healDeleted EXCEPT ![m].attempted = TRUE]
  /\ pass' = [pass EXCEPT !.wedged = @ \ {m}]
  /\ unwedged' = [unwedged EXCEPT ![m] = @ + 1]
  /\ \/ /\ PreconditionHolds(m)
        /\ pod' = [pod EXCEPT ![m] = "replaced"]
        /\ killed' = IF pod[m] = "replaced" THEN killed \cup {m} ELSE killed
     \/ UNCHANGED <<pod, killed>>
  /\ Report(m, "done")
  /\ UNCHANGED <<clock, cluster, podView, baseline, lastHeal, pc, faults,
                 healedAt, acked>>

\* More candidates than maxUnhealthy: every one is refused and nothing deleted.
StormBrake ==
  /\ pc = "act" /\ pass.wedged = {}
  /\ Cardinality(pass.cands) > pass.max
  /\ report' = Pruned([m \in Machines |-> IF m \in pass.cands THEN "failed" ELSE report[m]],
                      pass.cands)
  /\ pc' = "idle"
  /\ pass' = NoPass
  /\ UNCHANGED <<clock, cluster, pod, podView, baseline, lastHeal, healDeleted,
                 faults, history>>

\* It is c's turn: the candidates are taken in name order.
Turn(c) ==
  /\ pc = "act" /\ pass.wedged = {}
  /\ Cardinality(pass.cands) <= pass.max
  /\ c \in pass.todo /\ \A k \in pass.todo : c <= k

\* The cases of the switch that end c's turn without a delete.
Wait(c) ==
  /\ Turn(c)
  /\ \/ /\ ~pass.halted /\ Refused(c)
        /\ Report(c, "failed")
     \/ /\ \/ pass.halted
           \/ ~Refused(c) /\ (pass.budget <= 0 \/ CoolingDown(PoolOf[c]))
        /\ Report(c, "pending")
  /\ pass' = [pass EXCEPT !.todo = @ \ {c}]
  /\ UNCHANGED <<clock, cluster, pod, podView, baseline, lastHeal, healDeleted,
                 pc, faults, history>>

\* The default case: remediate(c) is called.
MayDelete(c) ==
  /\ ~pass.halted
  /\ ~Refused(c)
  /\ pass.budget > 0
  /\ ~CoolingDown(PoolOf[c])

\* The apiserver applies the delete of c: a live machine starts deleting.
ApplyDelete(c) ==
  /\ mach[c] # "gone"
  /\ mach' = [mach EXCEPT ![c] = "deleting"]
  /\ healedAt' = [healedAt EXCEPT ![c] = IF @ = Never THEN clock ELSE @]

\* What a successful remediation records, whether the delete was accepted
\* (err = nil: our deletion is tracked) or found nothing (NotFound: it is not).
Track(c) == [m \in DOMAIN healDeleted \cup {c} |->
               IF m = c
               THEN [node |-> c \in pass.joined, deletedAt |-> pass.now, attempted |-> FALSE]
               ELSE healDeleted[m]]

Healed(c) ==
  /\ lastHeal' = [lastHeal EXCEPT ![PoolOf[c]] = pass.now]
  /\ Report(c, "done")
  /\ pass' = [pass EXCEPT !.todo = @ \ {c}, !.budget = @ - 1]

DeleteAccepted(c) ==
  /\ Turn(c) /\ MayDelete(c)
  /\ ApplyDelete(c)
  /\ healDeleted' = Track(c)
  /\ Healed(c)
  /\ acked' = acked \cup {c}
  /\ UNCHANGED <<clock, ready, since, joined, pod, podView, baseline, pc, faults,
                 unwedged, killed>>

DeleteNotFound(c) ==
  /\ Turn(c) /\ MayDelete(c)
  /\ mach[c] = "gone"
  /\ Healed(c)
  /\ UNCHANGED <<clock, cluster, pod, podView, baseline, healDeleted, pc, faults,
                 history>>

\* Any other error halts the pass.  Either the delete was not applied, or it
\* was and only its reply is lost (a timeout, a broken connection).
\* (Mutant first: the outcome of the call is not looked at.)
HaltAfterDone(c) ==
  /\ Report(c, "done")
  /\ pass' = [pass EXCEPT !.todo = @ \ {c}, !.halted = TRUE]

HaltAfter(c) ==
  /\ Report(c, "failed")
  /\ pass' = [pass EXCEPT !.todo = @ \ {c}, !.halted = TRUE]

DeleteFails(c) ==
  /\ Turn(c) /\ MayDelete(c)
  /\ HaltAfter(c)
  /\ UNCHANGED <<clock, cluster, pod, podView, baseline, lastHeal, healDeleted,
                 pc, faults, history>>

DeleteReplyLost(c) ==
  /\ Turn(c) /\ MayDelete(c)
  /\ lostReplies < MaxLostReplies
  /\ ApplyDelete(c)
  /\ HaltAfter(c)
  /\ lostReplies' = lostReplies + 1
  /\ UNCHANGED <<clock, ready, since, joined, pod, podView, baseline, lastHeal,
                 healDeleted, pc, restarts, acked, unwedged, killed>>

\* The deferred Prune: reports of machines that are no candidates any more go,
\* done reports stay.
EndPass ==
  /\ pc = "act" /\ pass.wedged = {} /\ pass.todo = {}
  /\ Cardinality(pass.cands) <= pass.max
  /\ report' = Pruned(report, pass.cands)
  /\ pc' = "idle"
  /\ pass' = NoPass
  /\ UNCHANGED <<clock, cluster, pod, podView, baseline, lastHeal, healDeleted,
                 faults, history>>

\* The agent process dies and New builds a fresh executor and store: all that
\* survives is the cluster.
Restart ==
  /\ restarts < MaxRestarts
  /\ restarts' = restarts + 1
  /\ baseline' = clock
  /\ lastHeal' = [p \in Pools |-> 0]
  /\ healDeleted' = [m \in {} |-> NoPass]
  /\ report' = [m \in Machines |-> "none"]
  /\ pc' = "idle"
  /\ pass' = NoPass
  /\ podView' = pod
  /\ UNCHANGED <<clock, cluster, pod, lostReplies, history>>

-----------------------------------------------------------------------------
(* The cluster: machine-controller, the kubelets, the user, the clock.     *)

\* The MachineSet creates a machine, to replace one or to scale up; a generated
\* name is never used again.
CreateMachine(m) ==
  /\ mach[m] = "future"
  /\ mach' = [mach EXCEPT ![m] = "live"]
  /\ since' = [since EXCEPT ![m] = clock]
  /\ UNCHANGED <<clock, ready, joined, pod, podView, memory, pc, pass, faults, history>>

\* A machine's node registers, Ready, and nodeRef is set.
Join(m) ==
  /\ mach[m] = "live" /\ m \notin joined
  /\ joined' = joined \cup {m}
  /\ ready' = [ready EXCEPT ![m] = "True"]
  /\ since' = [since EXCEPT ![m] = 0]
  /\ UNCHANGED <<clock, mach, pod, podView, memory, pc, pass, faults, history>>

\* The Ready condition of a node flips; lastTransitionTime is stamped.
Flip(m) ==
  /\ ready[m] # "none"
  /\ ready' = [ready EXCEPT ![m] = IF @ = "True" THEN "False" ELSE "True"]
  /\ since' = [since EXCEPT ![m] = IF ready[m] = "True" THEN clock ELSE 0]
  /\ UNCHANGED <<clock, mach, joined, pod, podView, memory, pc, pass, faults, history>>

\* Someone else deletes a machine: the user, a scale-down, a version roll.
DeleteByOther(m) ==
  /\ mach[m] = "live"
  /\ mach' = [mach EXCEPT ![m] = "deleting"]
  /\ UNCHANGED <<clock, ready, since, joined, pod, podView, memory, pc, pass,
                 faults, history>>

\* machine-controller drains a deleting machine: its pod is evicted.
Evict(m) ==
  /\ HasPods /\ mach[m] = "deleting" /\ m \in joined /\ pod[m] = "running"
  /\ pod' = [pod EXCEPT ![m] = "terminating"]
  /\ UNCHANGED <<clock, cluster, podView, memory, pc, pass, faults, history>>

\* A live kubelet confirms the eviction; the pod's controller starts a pod of
\* the same name elsewhere.
ConfirmEviction(m) ==
  /\ pod[m] = "terminating" /\ ready[m] = "True"
  /\ pod' = [pod EXCEPT ![m] = "replaced"]
  /\ UNCHANGED <<clock, cluster, podView, memory, pc, pass, faults, history>>

\* The pod informer catches up.
SyncPods ==
  /\ podView # pod
  /\ podView' = pod
  /\ UNCHANGED <<clock, cluster, pod, memory, pc, pass, faults, history>>

\* The drain is over: the server, the Machine and the Node are removed.
FinishDelete(m) ==
  /\ mach[m] = "deleting"
  /\ HasPods /\ m \in joined => pod[m] = "replaced"
  /\ mach' = [mach EXCEPT ![m] = "gone"]
  /\ ready' = [ready EXCEPT ![m] = "none"]
  /\ since' = [since EXCEPT ![m] = 0]
  /\ joined' = joined \ {m}
  /\ UNCHANGED <<clock, pod, podView, memory, pc, pass, faults, history>>

\* Time passes between and within the calls of a pass, which does not outlast
\* the timeouts of its calls.
Tick ==
  /\ clock < MaxClock
  /\ pc # "idle" => clock < pass.now + MaxPass
  /\ clock' = clock + 1
  /\ UNCHANGED <<cluster, pod, podView, memory, pc, pass, faults, history>>

-----------------------------------------------------------------------------
HealPass ==
  \/ \E max \in Policies, fresh \in BOOLEAN : StartPass(max, fresh)
  \/ KillSwitch
  \/ ReadFails \/ ListMachines \/ ReadNodes
  \/ StormBrake \/ EndPass
  \/ \E m \in Machines :
       \/ SkipUnwedge(m) \/ Unwedge(m)
       \/ Wait(m)
       \/ DeleteAccepted(m) \/ DeleteNotFound(m)
       \/ DeleteFails(m) \/ DeleteReplyLost(m)

Cluster ==
  \/ \E m \in Machines :
       \/ CreateMachine(m) \/ Join(m) \/ Flip(m) \/ DeleteByOther(m)
       \/ Evict(m) \/ ConfirmEviction(m) \/ FinishDelete(m)
  \/ SyncPods
  \/ Tick

Next == HealPass \/ Restart \/ Cluster

Spec == Init /\ [][Next]_vars

-----------------------------------------------------------------------------
(* Properties.                                                             *)

PassFields ==
  [now : Nat, max : Nat, live : SUBSET Machines, deleting : SUBSET Machines,
   joined : SUBSET Machines, sick : SUBSET Machines, cands : SUBSET Machines,
   todo : SUBSET Machines, wedged : SUBSET Machines, budget : Int, halted : BOOLEAN]

HealDeletion == [node : BOOLEAN, deletedAt : Nat, attempted : BOOLEAN]

ClusterOK ==
  /\ clock \in Nat
  /\ mach \in [Machines -> {"future", "live", "deleting", "gone"}]
  /\ ready \in [Machines -> {"none", "True", "False"}]
  /\ since \in [Machines -> Nat]
  /\ joined \subseteq Machines
  /\ pod \in [Machines -> {"running", "terminating", "replaced"}]
  /\ podView \in [Machines -> {"running", "terminating", "replaced"}]

MemoryOK ==
  /\ baseline \in Nat
  /\ lastHeal \in [Pools -> Nat]
  /\ DOMAIN healDeleted \subseteq Machines
  /\ \A m \in DOMAIN healDeleted : healDeleted[m] \in HealDeletion
  /\ report \in [Machines -> {"none", "pending", "failed", "done"}]

PassOK ==
  /\ pc \in {"idle", "list", "nodes", "act"}
  /\ pass \in PassFields
  /\ pass.todo \subseteq pass.cands
  /\ pass.wedged \subseteq DOMAIN healDeleted
  /\ pc # "act" => pass.todo = {} /\ pass.wedged = {}

HistoryOK ==
  /\ restarts \in Nat /\ lostReplies \in Nat
  /\ healedAt \in [Machines -> Nat \cup {Never}]
  /\ acked \subseteq Machines
  /\ unwedged \in [Machines -> Nat]
  /\ killed \subseteq Machines

\* Every variable has its type, and the pass works on what it found: what is
\* still to do is among the candidates and a wedged teardown is tracked.
TypeOK == ClusterOK /\ MemoryOK /\ PassOK /\ HistoryOK

\* The machines the agent deleted that are still being torn down.
InFlight == {m \in Machines : healedAt[m] # Never /\ mach[m] = "deleting"}

\* CONCURRENCY BUDGET (heal.go:20): whenever the agent's deletes add a machine
\* to those being torn down, at most maxUnhealthy of its own are in flight:
\* across pools, passes, crashes of the agent and deletes whose reply was lost.
HealBudget ==
  [][ ~(InFlight' \subseteq InFlight) => Cardinality(InFlight') <= pass.max ]_vars

\* PER-POOL COOLDOWN (heal.go:23): two deletes in one pool that the agent saw
\* succeed lie, by the wall clock, at least a cooldown less the length of a pass
\* apart, also when the agent crashed in between.  The pause is counted from the
\* start of the pass (heal.go:91, 278), so a slow first pass eats into it.
HealCooldown ==
  \A m, k \in acked :
    m # k /\ PoolOf[m] = PoolOf[k] =>
      \/ healedAt[m] - healedAt[k] >= Cooldown - MaxPass
      \/ healedAt[k] - healedAt[m] >= Cooldown - MaxPass

\* A heal report that says done is about a machine that is going or gone: no
\* lost reply, failed delete, prune or unwedge leaves a false success behind.
DoneReportsAreTrue ==
  \A m \in Machines : report[m] = "done" => mach[m] \in {"deleting", "gone"}

\* ONE unwedge attempt per machine, ever (unwedge.go:30): over all passes, and
\* over a restart, which forgets the tracking.
OneUnwedgePerMachine == \A m \in Machines : unwedged[m] <= 1

\* A force-delete never hits the pod that replaced the stuck one under the same
\* name (unwedge.go:27), however far the pod informer lags behind.
ReplacementPodSurvives == killed = {}

\* What the label checks of the running pass spare (heal.go:164, 184): a machine
\* with a node by the label of the node, one without by its own.
Spared == (pass.joined \cap CPNodes) \cup (CPMachines \ pass.joined)

\* A machine the agent deletes was, when this pass looked, one of a pool it may
\* act on whose node was not Ready for long and unlabelled, or that had never
\* joined and was unlabelled itself; a deletion somebody else had started by then
\* is never repeated.
OnlyUnhealthyWorkersHealed ==
  [][ \A m \in Machines : healedAt[m] # healedAt'[m] =>
        m \in pass.sick \ Spared /\ ~Refused(m) ]_vars

-----------------------------------------------------------------------------
(* The inductive invariants the theorems of HealerProofs rest on.          *)

\* A machine the agent deleted never becomes live again, and a pass only ever
\* has machines in hand that the agent has not deleted before.
DeletedOnce ==
  /\ \A m \in Machines : healedAt[m] # Never => mach[m] \in {"deleting", "gone"}
  /\ pc = "nodes" => /\ pass.cands \subseteq pass.live
                     /\ \A m \in pass.live : healedAt[m] = Never
  /\ pc = "act" => \A m \in pass.todo : healedAt[m] = Never

\* From the list on, a pass knows of every deletion of the agent in flight, and
\* until it halts its budget is what they leave of maxUnhealthy.
BudgetCoversInFlight ==
  /\ pc = "nodes" => InFlight \subseteq pass.deleting
  /\ pc = "act" /\ ~pass.halted => Cardinality(InFlight) + pass.budget <= pass.max

\* A delete the agent saw succeed is at most a pass's length later than what
\* lastHealTime says of its pool, whether lastHeal remembers it or a restart moved
\* the baseline.
CooldownRemembered ==
  /\ pass.now <= clock /\ baseline <= clock
  /\ pc # "idle" => clock <= pass.now + MaxPass
  /\ \A p \in Pools : lastHeal[p] <= clock
  /\ \A m \in Machines : healedAt[m] <= clock
  /\ \A m \in acked : /\ healedAt[m] # Never
                      /\ PoolOf[m] \in Pools
                      /\ healedAt[m] <= LastHealTime(PoolOf[m]) + MaxPass

\* An unwedge attempt on a machine is remembered while the machine is tracked,
\* and a machine that was deleted once is not tracked anew.
AttemptRemembered ==
  /\ \A m \in DOMAIN healDeleted : healedAt[m] # Never
  /\ \A m \in DOMAIN healDeleted : ~healDeleted[m].attempted => unwedged[m] = 0
  /\ \A m \in pass.wedged : ~healDeleted[m].attempted
  /\ \A m \in Machines : unwedged[m] # 0 => healedAt[m] # Never

\* The candidates of a pass are machines it saw not Ready, or never joined, and not
\* spared: what the list alone showed until the nodes are read, what is left to do
\* afterwards.
CandidatesAreSick ==
  /\ pc = "nodes" => pass.cands \cap (pass.joined \cup CPMachines) = {}
  /\ pc = "act" => pass.todo \subseteq pass.sick \ Spared

-----------------------------------------------------------------------------
(* What the documentation says and the code does not do (see README).      *)

\* The cooldown as the doc words it (heal.go:23), for every delete the apiserver
\* applied: the code starts it only when the reply arrives.
CooldownOfAppliedDeletes ==
  \A m, k \in Machines :
    m # k /\ PoolOf[m] = PoolOf[k] /\ healedAt[m] # Never /\ healedAt[k] # Never =>
      \/ healedAt[m] - healedAt[k] >= Cooldown
      \/ healedAt[k] - healedAt[m] >= Cooldown
=============================================================================
