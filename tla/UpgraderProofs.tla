--------------------------- MODULE UpgraderProofs ---------------------------
(***************************************************************************)
(* Theorems about Upgrader for every set of pools of every kind, every     *)
(* number of replicas, machines and apiservers, any versions, and any      *)
(* number of documents, failures, lost machines and restarts.              *)
(***************************************************************************)
EXTENDS Upgrader, FiniteSetTheorems, TLAPS

-----------------------------------------------------------------------------
(* Types.                                                                  *)

Docs == [revision : Nat, target : Int, pools : SUBSET Pools]
Lists == [Pools -> Int] \cup {NoList}
Passes == [mds : Lists, n : Lists, m : Lists, todo : SUBSET Pools, rollingExists : BOOLEAN,
           halted : BOOLEAN, retry : BOOLEAN]
Pcs == {"idle", "mds", "machines", "preflight", "act", "patch"}

AgentType == doc \in Docs /\ pc \in Pcs /\ pass \in Passes
PlaneType == cp \in [Apiservers -> Versions] /\ observed \in Versions \cup {None}
ClusterType ==
  /\ declared \in [Pools -> Int] /\ machine \in [Machines -> Int]
  /\ joined \subseteq {i \in Machines : machine[i] # None}
  /\ rolling \in [Pools -> Nat]

TypeOK == AgentType /\ PlaneType /\ ClusterType

LEMMA NoPassType == NoPass \in Passes
BY DEF NoPass, Passes, Lists

LEMMA VersionsAreInts == Versions \subseteq Int /\ Targets \subseteq Int /\ 1 \in Versions
BY VersionsAssumption DEF None, Invalid

\* The pools of a pass are pools of the document, and the same while it stays.
LEMMA InPassType ==
  ASSUME TypeOK
  PROVE  InPass \subseteq doc.pools /\ InPass \subseteq Pools
BY DEF InPass, TypeOK, AgentType, Docs

LEMMA InPassKept ==
  ASSUME doc' = doc
  PROVE  InPass' = InPass
BY DEF InPass

LEMMA LiveIsFinite ==
  ASSUME NEW p \in Pools
  PROVE  IsFiniteSet(Live(p)) /\ Cardinality(Live(p)) \in Nat
<1>1. Live(p) \subseteq Machines /\ IsFiniteSet(Machines)
  BY PoolsAssumption DEF Live
<1> QED
  BY <1>1, FS_Subset, FS_CardinalityType

LEMMA ProgressType ==
  ASSUME NEW p \in Pools
  PROVE  AtTargetJoined(p) \in Nat /\ Total(p) \in Nat /\ Cardinality(Live(p)) <= Total(p)
<1>1. IsFiniteSet(Live(p)) /\ Cardinality(Live(p)) \in Nat /\ Replicas[p] \in Nat
  BY LiveIsFinite, PoolsAssumption
<1>2. {i \in Live(p) \cap joined : machine[i] = doc.target} \subseteq Live(p)
  OBVIOUS
<1>3. AtTargetJoined(p) \in Nat
  BY <1>1, <1>2, FS_Subset, FS_CardinalityType DEF AtTargetJoined
<1> QED
  BY <1>1, <1>3 DEF Total

-----------------------------------------------------------------------------
(* The steps, grouped by what they change.                                 *)

Decides ==
  \/ StartPass \/ ListMachineDeployments \/ ListMachines \/ ListFails \/ Refuse \/ Proceed
  \/ EndPass \/ Restart \/ NewDocument \/ UNCHANGED vars
Plane == RefreshVersion \/ \E a \in Apiservers : UpgradeControlPlane(a)
Shared == Controller \/ \E i \in Machines : LoseMachine(i)

LEMMA StepCases ==
  ASSUME [Next]_vars
  PROVE  \/ Decides \/ Plane \/ Shared
         \/ \E p \in Pools : Settle(p) \/ Defer(p)
         \/ \E p \in Pools : Announce(p)
         \/ \E p \in Pools : PatchKubelet(p) \/ PatchFails(p)
BY Zenon DEF Next, Pass, Surroundings, Decides, Plane, Shared

\* Between the lists and the end of a pass nothing of the cluster is touched.
LEMMA DecidingStep ==
  ASSUME TypeOK, Decides
  PROVE  /\ UNCHANGED <<cp, declared, machine, joined, rolling>>
         /\ observed' \in {observed, None}
         /\ AgentType'
         /\ doc' = doc \/ (doc'.revision = doc.revision + 1 /\ pc' = "idle")
         /\ \/ pc' = "idle" \/ (pc' = pc /\ pass' = pass)
            \/ pc = "idle" /\ pc' = "mds"
            \/ ListMachineDeployments \/ ListMachines \/ Proceed
<1>1. CASE StartPass
  BY <1>1 DEF StartPass, cluster, TypeOK, AgentType, Pcs
<1>2. CASE ListMachineDeployments
  BY <1>2 DEF ListMachineDeployments, cluster, TypeOK, AgentType, ClusterType, Pcs, Passes, Lists
<1>3. CASE ListMachines
  <2>1. /\ [p \in Pools |-> AtTargetJoined(p)] \in Lists
        /\ [p \in Pools |-> Total(p)] \in Lists
    BY ProgressType DEF Lists
  <2>2. pass' \in Passes
    BY <1>3, <2>1 DEF ListMachines, TypeOK, AgentType, Passes
  <2> QED
    BY <1>3, <2>2 DEF ListMachines, cluster, TypeOK, AgentType, Pcs
<1>4. CASE ListFails \/ Refuse \/ EndPass
  BY <1>4, NoPassType DEF ListFails, Refuse, EndPass, cluster, TypeOK, AgentType, Pcs
<1>5. CASE Proceed
  <2>1. InPass \subseteq Pools /\ MidRoll \in BOOLEAN
    BY InPassType DEF MidRoll
  <2>2. pass' \in Passes
    BY <1>5, <2>1 DEF Proceed, TypeOK, AgentType, Passes
  <2> QED
    BY <1>5, <2>2 DEF Proceed, cluster, TypeOK, AgentType, Pcs
<1>6. CASE Restart
  BY <1>6, NoPassType DEF Restart, cluster, TypeOK, AgentType, Pcs
<1>7. CASE NewDocument
  <2>1. PICK t \in Targets, ps \in PoolSets :
          doc' = [revision |-> doc.revision + 1, target |-> t, pools |-> ps]
    BY <1>7 DEF NewDocument
  <2>2. doc' \in Docs
    BY <2>1, VersionsAreInts, VersionsAssumption DEF TypeOK, AgentType, Docs
  <2> QED
    BY <1>7, <2>1, <2>2 DEF NewDocument, cluster, TypeOK, AgentType
<1>8. CASE UNCHANGED vars
  BY <1>8 DEF vars, cluster, TypeOK, AgentType
<1> QED
  BY <1>1, <1>2, <1>3, <1>4, <1>5, <1>6, <1>7, <1>8 DEF Decides

LEMMA PlaneStep ==
  ASSUME TypeOK, Plane
  PROVE  /\ UNCHANGED <<doc, pc, pass, declared, machine, joined, rolling>>
         /\ PlaneType'
         /\ \A a \in Apiservers : cp[a] <= cp'[a]
         /\ observed' = observed \/ \E a \in Apiservers : observed' = cp[a]
<1>0. \A a \in Apiservers : cp[a] \in Int
  BY VersionsAreInts DEF TypeOK, PlaneType
<1>1. CASE RefreshVersion
  BY <1>0, <1>1 DEF RefreshVersion, cluster, TypeOK, PlaneType
<1>2. ASSUME NEW a \in Apiservers, UpgradeControlPlane(a)
      PROVE  /\ UNCHANGED <<doc, pc, pass, declared, machine, joined, rolling, observed>>
             /\ PlaneType' /\ \A b \in Apiservers : cp[b] <= cp'[b]
  BY <1>0, <1>2 DEF UpgradeControlPlane, cluster, TypeOK, PlaneType
<1> QED
  BY <1>1, <1>2 DEF Plane

\* A step that takes p off the list without a write.
LEMMA SettlingStep ==
  ASSUME TypeOK, NEW p \in Pools, Settle(p) \/ Defer(p)
  PROVE  /\ pc = "act" /\ UNCHANGED <<doc, pc, cp, observed, declared, machine, joined, rolling>>
         /\ pass' \in Passes /\ pass'.todo = pass.todo \ {p}
         /\ UNCHANGED <<pass.mds, pass.rollingExists, pass.halted>>
<1>1. CASE Settle(p)
  BY <1>1 DEF Settle, Turn, cluster, TypeOK, AgentType, Passes
<1>2. CASE Defer(p)
  BY <1>2 DEF Defer, Turn, cluster, TypeOK, AgentType, Passes
<1> QED
  BY <1>1, <1>2

\* A roll is shown before it is asked for.
LEMMA AnnouncingStep ==
  ASSUME TypeOK, NEW p \in Pools, Announce(p)
  PROVE  /\ pc = "act" /\ pc' = "patch" /\ MayPatch(p)
         /\ UNCHANGED <<doc, due, cp, observed, declared, machine, joined, rollFrom, pass, rolling>>
         /\ ReportAll({p}, "in-progress")
BY DEF Announce, cluster

\* A patch, applied or not: after it no other is tried in this pass.
LEMMA PatchingStep ==
  ASSUME TypeOK, NEW p \in Pools, PatchKubelet(p) \/ PatchFails(p)
  PROVE  /\ MayPatch(p) /\ UNCHANGED <<doc, cp, observed, machine, joined>>
         /\ pc = "patch" /\ pc' = "act"
         /\ pass' \in Passes /\ pass'.todo = pass.todo \ {p} /\ pass'.mds = pass.mds
         /\ pass'.rollingExists \/ pass'.halted
         /\ ApplyPatch(p) \/ UNCHANGED <<declared, rolling>>
<1>1. CASE PatchKubelet(p)
  BY <1>1 DEF PatchKubelet, MayPatch, TypeOK, AgentType, Passes
<1>2. CASE PatchFails(p)
  BY <1>2 DEF PatchFails, MayPatch, TypeOK, AgentType, Passes
<1> QED
  BY <1>1, <1>2

LEMMA ApplyingStep ==
  ASSUME TypeOK, NEW p \in Pools, ApplyPatch(p)
  PROVE  /\ declared' \in [Pools -> Int] /\ rolling' \in [Pools -> Nat]
         /\ declared'[p] = doc.target
         /\ rolling'[p] \in {0, doc.revision} /\ (RolledTo(p, doc.target) => rolling'[p] = 0)
         /\ \A q \in Pools \ {p} : declared'[q] = declared[q] /\ rolling'[q] = rolling[q]
<1>1. doc.target \in Int /\ doc.revision \in Nat
  BY DEF TypeOK, AgentType, Docs
<1> QED
  BY <1>1 DEF ApplyPatch, TypeOK, ClusterType

-----------------------------------------------------------------------------
(* The machines.                                                           *)

\* A roll that is under way is not over.
OpenRolls == \A p \in Pools : rolling[p] # 0 => ~Rolled(p)

LEMMA RollsEnd ==
  ASSUME TypeOK, EndRolls
  PROVE  /\ rolling' \in [Pools -> Nat] /\ OpenRolls'
         /\ \A p \in Pools : rolling'[p] \in {0, rolling[p]}
<1>1. \A p \in Pools : rolling'[p] = IF Rolled(p)' THEN 0 ELSE rolling[p]
  BY DEF EndRolls
<1>2. rolling' = [p \in Pools |-> IF Rolled(p)' THEN 0 ELSE rolling[p]]
  BY DEF EndRolls
<1>3. \A p \in Pools : rolling[p] \in Nat
  BY DEF TypeOK, ClusterType
<1> QED
  BY <1>1, <1>2, <1>3 DEF OpenRolls

\* A machine that is created has not joined: its pool is not rolled.
LEMMA CreatingStep ==
  ASSUME TypeOK, OpenRolls, NEW i \in Machines, CreateMachine(i)
  PROVE  ClusterType' /\ OpenRolls'
<1>1. /\ machine[i] = None /\ i \notin joined
      /\ machine' = [machine EXCEPT ![i] = declared[PoolOf[i]]]
      /\ UNCHANGED <<declared, joined, rolling>>
  BY DEF CreateMachine, TypeOK, ClusterType
<1>2. PoolOf[i] \in Pools /\ declared[PoolOf[i]] \in Int
  BY PoolsAssumption DEF TypeOK, ClusterType
<1>3. machine'[i] = declared[PoolOf[i]] /\ \A k \in Machines \ {i} : machine'[k] = machine[k]
  BY <1>1 DEF TypeOK, ClusterType
<1>4. machine' \in [Machines -> Int]
  BY <1>1, <1>2 DEF TypeOK, ClusterType
<1>5. ClusterType'
  BY <1>1, <1>3, <1>4 DEF TypeOK, ClusterType
<1>6. ASSUME NEW p \in Pools, rolling[p] # 0 PROVE ~Rolled(p)'
  <2>1. ~Rolled(p)
    BY <1>6 DEF OpenRolls
  <2>2. CASE p = PoolOf[i] /\ machine'[i] # None
    <3>1. i \in Live(p)' /\ i \notin joined'
      BY <1>1, <2>2 DEF Live
    <3> QED
      BY <3>1 DEF Rolled, RolledTo
  <2>3. CASE p # PoolOf[i] \/ machine'[i] = None
    <3>1. Live(p)' = Live(p) /\ i \notin Live(p)
      BY <1>1, <1>3, <2>3 DEF Live
    <3>2. \A k \in Live(p) : machine'[k] = machine[k]
      BY <1>3, <3>1 DEF Live
    <3> QED
      BY <1>1, <2>1, <3>1, <3>2 DEF Rolled, RolledTo
  <2> QED
    BY <2>2, <2>3
<1> QED
  BY <1>1, <1>5, <1>6 DEF OpenRolls

LEMMA SharedStep ==
  ASSUME TypeOK, OpenRolls, Shared
  PROVE  /\ UNCHANGED <<doc, pc, pass, cp, observed, declared>>
         /\ ClusterType' /\ OpenRolls'
         /\ \A p \in Pools : rolling'[p] \in {0, rolling[p]}
<1>1. ASSUME NEW i \in Machines, CreateMachine(i)
      PROVE  /\ UNCHANGED <<doc, pc, pass, cp, observed, declared, rolling>>
             /\ ClusterType' /\ OpenRolls'
  BY <1>1, CreatingStep DEF CreateMachine
<1>2. ASSUME NEW i \in Machines, Join(i)
      PROVE  /\ UNCHANGED <<doc, pc, pass, cp, observed, declared, machine>> /\ EndRolls
             /\ joined' \subseteq {k \in Machines : machine'[k] # None}
  BY <1>2 DEF Join, TypeOK, ClusterType
<1>3. ASSUME NEW i \in Machines, DeleteOld(i) \/ LoseMachine(i)
      PROVE  /\ UNCHANGED <<doc, pc, pass, cp, observed, declared>> /\ EndRolls
             /\ machine' \in [Machines -> Int]
             /\ joined' \subseteq {k \in Machines : machine'[k] # None}
  <2>1. machine' = [machine EXCEPT ![i] = None] /\ joined' = joined \ {i}
    BY <1>3 DEF DeleteOld, LoseMachine
  <2>2. None \in Int
    BY DEF None
  <2>3. UNCHANGED <<doc, pc, pass, cp, observed, declared>> /\ EndRolls
    BY <1>3 DEF DeleteOld, LoseMachine
  <2> QED
    BY <2>1, <2>2, <2>3 DEF TypeOK, ClusterType
<1>4. CASE \E i \in Machines : CreateMachine(i)
  BY <1>1, <1>4 DEF TypeOK, ClusterType
<1>5. CASE \E i \in Machines : Join(i)
  BY <1>2, <1>5, RollsEnd DEF TypeOK, ClusterType
<1>6. CASE \E i \in Machines : DeleteOld(i) \/ LoseMachine(i)
  BY <1>3, <1>6, RollsEnd DEF TypeOK, ClusterType
<1> QED
  BY <1>4, <1>5, <1>6 DEF Shared, Controller

\* The types, with the history that belongs to them.
LEMMA TypeStep ==
  ASSUME TypeOK, OpenRolls, [Next]_vars
  PROVE  TypeOK' /\ OpenRolls'
<1>1. CASE Decides
  <2>1. UNCHANGED <<cp, declared, machine, joined, rolling>> /\ observed' \in {observed, None}
        /\ AgentType'
    BY <1>1, DecidingStep
  <2> QED
    BY <2>1 DEF TypeOK, PlaneType, ClusterType, OpenRolls, Rolled, RolledTo, Live
<1>2. CASE Plane
  <2>1. UNCHANGED <<doc, pc, pass, declared, machine, joined, rolling>> /\ PlaneType'
    BY <1>2, PlaneStep
  <2> QED
    BY <2>1 DEF TypeOK, AgentType, ClusterType, OpenRolls, Rolled, RolledTo, Live
<1>3. CASE Shared
  BY <1>3, SharedStep DEF TypeOK, AgentType, PlaneType
<1>4. ASSUME NEW p \in Pools, Settle(p) \/ Defer(p) PROVE TypeOK' /\ OpenRolls'
  <2>1. UNCHANGED <<doc, pc, cp, observed, declared, machine, joined, rolling>>
        /\ pass' \in Passes
    BY <1>4, SettlingStep
  <2> QED
    BY <2>1 DEF TypeOK, AgentType, PlaneType, ClusterType, OpenRolls, Rolled, RolledTo, Live
<1>5. ASSUME NEW p \in Pools, PatchKubelet(p) \/ PatchFails(p) PROVE TypeOK' /\ OpenRolls'
  <2>1. UNCHANGED <<doc, cp, observed, machine, joined>> /\ pass' \in Passes /\ pc' \in Pcs
        /\ (ApplyPatch(p) \/ UNCHANGED <<declared, rolling>>)
    BY <1>5, PatchingStep DEF Pcs
  <2>2. \A q \in Pools : Live(q)' = Live(q)
    BY <2>1 DEF Live
  <2>3. CASE ApplyPatch(p)
    <3>1. TypeOK'
      BY <2>1, <2>3, ApplyingStep DEF TypeOK, AgentType, PlaneType, ClusterType
    <3>2. ASSUME NEW q \in Pools, rolling'[q] # 0 PROVE ~Rolled(q)'
      <4>1. CASE q = p
        BY <2>1, <2>2, <2>3, <3>2, <4>1, ApplyingStep DEF Rolled, RolledTo
      <4>2. CASE q # p
        BY <2>1, <2>2, <2>3, <3>2, <4>2, ApplyingStep DEF OpenRolls, Rolled, RolledTo
      <4> QED
        BY <4>1, <4>2
    <3> QED
      BY <3>1, <3>2 DEF OpenRolls
  <2>4. CASE UNCHANGED <<declared, rolling>>
    BY <2>1, <2>2, <2>4
       DEF TypeOK, AgentType, PlaneType, ClusterType, OpenRolls, Rolled, RolledTo
  <2> QED
    BY <2>1, <2>3, <2>4
<1>6. ASSUME NEW p \in Pools, Announce(p) PROVE TypeOK' /\ OpenRolls'
  <2>1. UNCHANGED <<doc, cp, observed, declared, machine, joined, pass, rolling>> /\ pc' \in Pcs
    BY <1>6, AnnouncingStep DEF Pcs
  <2> QED
    BY <2>1 DEF TypeOK, AgentType, PlaneType, ClusterType, OpenRolls, Rolled, RolledTo, Live
<1> QED
  BY <1>1, <1>2, <1>3, <1>4, <1>5, <1>6, StepCases

THEOREM TypeCorrect == Spec => [](TypeOK /\ OpenRolls)
<1>1. Init => TypeOK /\ OpenRolls
  <2>1. Init => AgentType
    BY NoPassType DEF Init, AgentType, Docs, Pcs, None
  <2>2. Init => PlaneType
    BY VersionsAreInts DEF Init, PlaneType
  <2>3. Init => ClusterType
    BY DEF Init, ClusterType, None
  <2>4. Init => OpenRolls
    BY DEF Init, OpenRolls
  <2> QED
    BY <2>1, <2>2, <2>3, <2>4 DEF TypeOK
<1> QED
  BY <1>1, TypeStep, PTL DEF Spec

-----------------------------------------------------------------------------
(* Workers never outrun the control plane.                                 *)

\* What was observed and what a pass went on with was some apiserver's version.
Reached(v) == \E a \in Apiservers : v <= cp[a]

PlaneInv ==
  /\ observed # None => Reached(observed)
  /\ Acting => pass.todo \subseteq InPass /\ (NeedsRoll => Reached(doc.target))
  /\ SomeApiserverAtTarget

LEMMA PlaneInvStep ==
  ASSUME TypeOK, PlaneInv, [Next]_vars
  PROVE  PlaneInv'
<1>t. /\ \A a \in Apiservers : cp[a] \in Int
      /\ observed \in Int /\ doc.target \in Int /\ \A p \in Pools : declared[p] \in Int
  <2>1. doc.target \in Int /\ \A p \in Pools : declared[p] \in Int
    <3>1. doc.target \in Int
      BY DEF TypeOK, AgentType, Docs
    <3>2. \A p \in Pools : declared[p] \in Int
      BY DEF TypeOK, ClusterType
    <3> QED
      BY <3>1, <3>2
  <2>2. (\A a \in Apiservers : cp[a] \in Int) /\ observed \in Int
    <3>1. \A a \in Apiservers : cp[a] \in Versions
      BY DEF TypeOK, PlaneType
    <3>2. observed \in Versions \/ observed = 0
      BY DEF TypeOK, PlaneType, None
    <3>3. \A v \in Versions : v \in Int
      BY VersionsAreInts
    <3>4. observed \in Int
      BY <3>2, <3>3
    <3> QED
      BY <3>1, <3>3, <3>4
  <2> QED
    BY <2>1, <2>2
<1>1. CASE Decides
  <2>1. UNCHANGED <<cp, declared>> /\ observed' \in {observed, None}
    BY <1>1, DecidingStep
  <2>2. SomeApiserverAtTarget' /\ (observed' # None => Reached(observed)')
    BY <2>1 DEF PlaneInv, SomeApiserverAtTarget, Reached
  <2>3. CASE Proceed
    <3>1. UNCHANGED doc /\ pass' = [pass EXCEPT !.todo = InPass, !.rollingExists = MidRoll]
      BY <2>3 DEF Proceed
    <3>2. pass'.todo = InPass' /\ pass'.mds = pass.mds /\ InPass' = InPass
      BY <3>1, InPassKept DEF TypeOK, AgentType, Passes
    <3>3. NeedsRoll' <=> NeedsRoll
      BY <3>1, <3>2 DEF NeedsRoll, AtTarget
    <3>4. NeedsRoll => observed # None /\ doc.target <= observed
      BY <1>t, <2>3 DEF Proceed, ControlPlaneBehind
    <3>5. NeedsRoll => Reached(doc.target)
      BY <1>t, <3>4 DEF PlaneInv, Reached
    <3> QED
      BY <2>1, <2>2, <3>1, <3>2, <3>3, <3>5 DEF PlaneInv, Reached
  <2>4. CASE Acting' /\ pc' = pc /\ pass' = pass
    <3>1. doc' = doc /\ InPass' = InPass
      BY <1>1, <2>4, DecidingStep, InPassKept DEF Acting
    <3> QED
      BY <2>1, <2>2, <2>4, <3>1 DEF PlaneInv, Acting, Reached, NeedsRoll, AtTarget
  <2>5. CASE ~Acting'
    BY <2>2, <2>5 DEF PlaneInv
  <2>6. ListMachineDeployments \/ ListMachines => ~Acting'
    BY DEF ListMachineDeployments, ListMachines, Acting
  <2>7. pc' \in {"idle", "mds"} => ~Acting'
    BY DEF Acting
  <2> QED
    BY <1>1, <2>3, <2>4, <2>5, <2>6, <2>7, DecidingStep
<1>2. CASE Plane
  <2>1. /\ UNCHANGED <<doc, pc, pass, declared>> /\ PlaneType'
        /\ \A a \in Apiservers : cp[a] <= cp'[a]
        /\ observed' = observed \/ \E a \in Apiservers : observed' = cp[a]
        /\ InPass' = InPass
    BY <1>2, PlaneStep, InPassKept
  <2>2. \A a \in Apiservers : cp'[a] \in Int
    BY <2>1, VersionsAreInts DEF PlaneType
  <2>3. \A v \in Int : Reached(v) => Reached(v)'
    BY <1>t, <2>1, <2>2 DEF Reached
  <2>4. observed' # None => Reached(observed)'
    BY <1>t, <2>1, <2>2, <2>3 DEF PlaneInv, Reached
  <2>5. NeedsRoll' <=> NeedsRoll
    BY <2>1 DEF NeedsRoll, AtTarget
  <2>6. Acting' => pass'.todo \subseteq InPass' /\ (NeedsRoll' => Reached(doc.target)')
    BY <1>t, <2>1, <2>3, <2>5 DEF PlaneInv, Acting
  <2>7. SomeApiserverAtTarget'
    <3> SUFFICES ASSUME NEW p \in Pools, declared[p] > 1
                 PROVE  \E a \in Apiservers : declared[p] <= cp'[a]
      BY <2>1 DEF SomeApiserverAtTarget
    <3>1. PICK a \in Apiservers : declared[p] <= cp[a]
      BY DEF PlaneInv, SomeApiserverAtTarget
    <3> QED
      BY <1>t, <2>1, <2>2, <3>1
  <2> QED
    BY <2>1, <2>4, <2>6, <2>7 DEF PlaneInv
<1>3. CASE Shared
  <2>1. UNCHANGED <<doc, pc, pass, cp, observed, declared>>
    BY <1>3 DEF Shared, Controller, CreateMachine, Join, DeleteOld, LoseMachine
  <2>2. InPass' = InPass
    BY <2>1, InPassKept
  <2> QED
    BY <2>1, <2>2 DEF PlaneInv, Acting, Reached, NeedsRoll, AtTarget, SomeApiserverAtTarget
<1>4. ASSUME NEW p \in Pools, Settle(p) \/ Defer(p) PROVE PlaneInv'
  <2>1. /\ UNCHANGED <<doc, pc, cp, observed, declared, pass.mds>>
        /\ pass'.todo = pass.todo \ {p} /\ InPass' = InPass
    BY <1>4, SettlingStep, InPassKept
  <2> QED
    BY <2>1 DEF PlaneInv, Acting, Reached, NeedsRoll, AtTarget, SomeApiserverAtTarget
<1>5. ASSUME NEW p \in Pools, PatchKubelet(p) \/ PatchFails(p) PROVE PlaneInv'
  <2>1. /\ UNCHANGED <<doc, cp, observed>> /\ pass'.mds = pass.mds
        /\ pass'.todo = pass.todo \ {p} /\ MayPatch(p) /\ Acting
        /\ ApplyPatch(p) \/ UNCHANGED <<declared, rolling>>
    BY <1>5, PatchingStep DEF Acting
  <2>2. p \in InPass /\ NeedsRoll
    BY <2>1 DEF MayPatch, Foremost, PlaneInv, NeedsRoll, Eligible, Declares
  <2>3. Reached(doc.target)
    BY <2>1, <2>2 DEF PlaneInv
  <2>4. SomeApiserverAtTarget'
    BY <2>1, <2>3, ApplyingStep DEF PlaneInv, SomeApiserverAtTarget, Reached
  <2>5. InPass' = InPass
    BY <2>1, InPassKept
  <2> QED
    BY <2>1, <2>4, <2>5 DEF PlaneInv, Reached, NeedsRoll, AtTarget
<1>6. ASSUME NEW p \in Pools, Announce(p) PROVE PlaneInv'
  <2>1. UNCHANGED <<doc, cp, observed, declared, pass>> /\ Acting
    BY <1>6, AnnouncingStep DEF Acting
  <2>2. InPass' = InPass
    BY <2>1, InPassKept
  <2> QED
    BY <2>1, <2>2 DEF PlaneInv, Reached, NeedsRoll, AtTarget, SomeApiserverAtTarget
<1> QED
  BY <1>1, <1>2, <1>3, <1>4, <1>5, <1>6, StepCases

\* No pool is rolled to a version that no apiserver has reached, however stale
\* the observed version is and whichever apiserver answered it.
THEOREM NeverAhead == Spec => []SomeApiserverAtTarget
<1>1. Init => PlaneInv
  BY DEF Init, PlaneInv, Acting, SomeApiserverAtTarget
<1>2. PlaneInv => SomeApiserverAtTarget
  BY DEF PlaneInv
<1> QED
  BY <1>1, <1>2, PlaneInvStep, TypeCorrect, PTL DEF Spec

-----------------------------------------------------------------------------
(* One pool rolls at a time.                                               *)

\* A roll of the present document: its pool has declared the target.
Current(p) == rolling[p] # 0 /\ rolling[p] = doc.revision

HistoryInv ==
  /\ \A p \in Pools : rolling[p] <= doc.revision
  /\ \A p \in Pools : Current(p) => p \in InPass /\ Eligible(p) /\ declared[p] = doc.target
  /\ \A p, q \in Pools : rolling[p] # 0 /\ rolling[p] = rolling[q] => p = q

\* What a pass knows of a roll under way: it read the pool at the target, then
\* not converged, and then nothing else is patched.
PassInv ==
  /\ \A p \in Pools : Current(p) =>
       /\ pc \in {"machines", "preflight"} => pass.mds[p] = doc.target
       /\ pc = "preflight" => ~Converged(p)
       /\ Acting => pass.rollingExists \/ pass.halted
  /\ Acting => pass.todo \subseteq InPass

OneInv == HistoryInv /\ PassInv

\* rollProgress: a pool that is not rolled lacks a joined machine at the target.
LEMMA ProgressOfOpen ==
  ASSUME TypeOK, NEW p \in Pools, ~Rolled(p), declared[p] = doc.target
  PROVE  AtTargetJoined(p) < Total(p)
<1> DEFINE S == {i \in Live(p) \cap joined : machine[i] = doc.target}
<1>1. /\ IsFiniteSet(Live(p)) /\ Cardinality(Live(p)) \in Nat /\ Replicas[p] \in Nat
      /\ Total(p) \in Nat /\ Cardinality(Live(p)) <= Total(p)
      /\ Cardinality(S) \in Nat /\ AtTargetJoined(p) = Cardinality(S)
  BY LiveIsFinite, ProgressType, PoolsAssumption DEF AtTargetJoined
<1>2. S \subseteq Live(p)
  OBVIOUS
<1>3. Cardinality(S) <= Cardinality(Live(p)) /\ (Cardinality(S) = Cardinality(Live(p)) => S = Live(p))
  BY <1>1, <1>2, FS_Subset
<1>4. CASE Cardinality(Live(p)) >= Replicas[p]
  <2>1. S # Live(p)
    BY <1>4 DEF Rolled, RolledTo
  <2> QED
    BY <1>1, <1>3, <2>1
<1>5. CASE Cardinality(Live(p)) < Replicas[p]
  <2>1. Total(p) = Replicas[p]
    BY <1>1, <1>5 DEF Total
  <2> QED
    BY <1>1, <1>3, <1>5, <2>1
<1> QED
  BY <1>1, <1>4, <1>5

LEMMA OneStep ==
  ASSUME TypeOK, OpenRolls, OneInv, [Next]_vars
  PROVE  OneInv'
<1>t. doc.revision \in Nat /\ \A p \in Pools : rolling[p] \in Nat
  BY DEF TypeOK, AgentType, ClusterType, Docs
<1>1. CASE Decides
  <2>1. UNCHANGED <<declared, rolling>>
    BY <1>1, DecidingStep
  <2>2. CASE doc' = doc
    <3>1. /\ HistoryInv' /\ (\A p \in Pools : Current(p)' <=> Current(p))
          /\ InPass' = InPass
      BY <2>1, <2>2, InPassKept DEF OneInv, HistoryInv, Current
    <3>2. CASE ListMachineDeployments
      <4>1. pc' = "machines" /\ pass'.mds = declared
        BY <3>2 DEF ListMachineDeployments, TypeOK, AgentType, Passes
      <4> QED
        BY <3>1, <4>1, <2>2 DEF OneInv, HistoryInv, PassInv, Acting
    <3>3. CASE ListMachines
      <4>1. /\ pc = "machines" /\ pc' = "preflight" /\ pass'.mds = pass.mds
            /\ pass'.n = [p \in Pools |-> AtTargetJoined(p)]
            /\ pass'.m = [p \in Pools |-> Total(p)]
        BY <3>3 DEF ListMachines, TypeOK, AgentType, Passes
      <4>2. ASSUME NEW p \in Pools, Current(p) PROVE ~Converged(p)'
        <5>1. ~Rolled(p) /\ declared[p] = doc.target
          BY <4>2 DEF Current, OpenRolls, OneInv, HistoryInv
        <5>2. AtTargetJoined(p) < Total(p) /\ AtTargetJoined(p) \in Nat /\ Total(p) \in Nat
          BY <5>1, ProgressOfOpen, ProgressType
        <5>3. pass'.n[p] = AtTargetJoined(p) /\ pass'.m[p] = Total(p)
          BY <4>1
        <5> QED
          BY <5>2, <5>3 DEF Converged
      <4> QED
        BY <2>2, <3>1, <4>1, <4>2 DEF OneInv, PassInv, Acting
    <3>4. CASE Proceed
      <4>1. pc = "preflight" /\ pc' = "act" /\ pass'.todo = InPass /\ pass'.rollingExists = MidRoll
        BY <3>4 DEF Proceed, TypeOK, AgentType, Passes
      <4>2. ASSUME NEW p \in Pools, Current(p) PROVE MidRoll
        <5>1. p \in InPass /\ Eligible(p) /\ pass.mds[p] = doc.target /\ ~Converged(p)
          BY <4>1, <4>2 DEF OneInv, HistoryInv, PassInv
        <5>2. AtTarget(p)
          BY <5>1 DEF AtTarget, Declares, Eligible
        <5> QED
          BY <5>1, <5>2 DEF MidRoll
      <4> QED
        BY <2>2, <3>1, <4>1, <4>2 DEF OneInv, PassInv, Acting
    <3>5. CASE pc' \in {"idle", "mds"}
      BY <3>1, <3>5 DEF OneInv, PassInv, Acting
    <3>6. CASE pc' = pc /\ pass' = pass
      BY <2>2, <3>1, <3>6 DEF OneInv, PassInv, Acting, Converged, AtTarget
    <3> QED
      BY <1>1, <3>2, <3>3, <3>4, <3>5, <3>6, DecidingStep
  <2>3. CASE doc'.revision = doc.revision + 1 /\ pc' = "idle"
    <3>1. \A p \in Pools : rolling[p] <= doc.revision
      BY DEF OneInv, HistoryInv
    <3>2. \A p \in Pools : ~Current(p)'
      BY <1>t, <2>1, <2>3, <3>1 DEF Current
    <3>3. \A p \in Pools : rolling'[p] <= doc'.revision
      BY <1>t, <2>1, <2>3, <3>1
    <3>4. HistoryInv'
      BY <2>1, <3>2, <3>3 DEF OneInv, HistoryInv
    <3> QED
      BY <2>3, <3>2, <3>4 DEF OneInv, PassInv, Acting
  <2> QED
    BY <1>1, <2>2, <2>3, DecidingStep
<1>2. CASE Plane
  <2>1. UNCHANGED <<doc, pc, pass, declared, rolling>>
    BY <1>2, PlaneStep
  <2>2. InPass' = InPass
    BY <2>1, InPassKept
  <2> QED
    BY <2>1, <2>2 DEF OneInv, HistoryInv, PassInv, Acting, Current, Converged, AtTarget
<1>3. CASE Shared
  <2>1. /\ UNCHANGED <<doc, pc, pass, declared>> /\ InPass' = InPass
        /\ \A p \in Pools : rolling'[p] \in {0, rolling[p]}
    BY <1>3, SharedStep, InPassKept
  <2>2. \A p \in Pools : Current(p)' => Current(p)
    BY <2>1 DEF Current
  <2>3. HistoryInv'
    BY <1>t, <2>1, <2>2 DEF OneInv, HistoryInv
  <2>4. PassInv'
    BY <2>1, <2>2 DEF OneInv, PassInv, Acting, Converged, AtTarget
  <2> QED
    BY <2>3, <2>4 DEF OneInv
<1>4. ASSUME NEW p \in Pools, Settle(p) \/ Defer(p) PROVE OneInv'
  <2>1. /\ pc = "act" /\ UNCHANGED <<doc, pc, declared, rolling>>
        /\ pass'.todo = pass.todo \ {p} /\ UNCHANGED <<pass.rollingExists, pass.halted>>
        /\ InPass' = InPass
    BY <1>4, SettlingStep, InPassKept
  <2> QED
    BY <2>1 DEF OneInv, HistoryInv, PassInv, Acting, Current
<1>5. ASSUME NEW p \in Pools, PatchKubelet(p) \/ PatchFails(p) PROVE OneInv'
  <2>1. /\ UNCHANGED doc /\ pc' = "act" /\ Acting /\ MayPatch(p) /\ pass'.todo = pass.todo \ {p}
        /\ pass'.rollingExists \/ pass'.halted
        /\ ApplyPatch(p) \/ UNCHANGED <<declared, rolling>>
        /\ InPass' = InPass
    BY <1>5, PatchingStep, InPassKept DEF Acting
  <2>2. p \in InPass /\ Eligible(p) /\ \A q \in Pools : ~Current(q)
    BY <2>1 DEF MayPatch, Foremost, OneInv, PassInv
  <2>3. PassInv'
    BY <2>1, <2>2 DEF OneInv, PassInv
  <2>4. CASE ApplyPatch(p)
    <3>1. /\ declared'[p] = doc.target /\ rolling'[p] \in {0, doc.revision}
          /\ \A q \in Pools \ {p} : declared'[q] = declared[q] /\ rolling'[q] = rolling[q]
      BY <2>4, ApplyingStep
    <3>2. \A q \in Pools \ {p} : ~Current(q)'
      BY <2>1, <2>2, <3>1 DEF Current
    <3>3. \A q \in Pools : rolling'[q] <= doc'.revision
      BY <1>t, <2>1, <3>1 DEF OneInv, HistoryInv
    <3>4. \A q \in Pools \ {p} : rolling'[q] # 0 => rolling'[q] # rolling'[p]
      BY <2>1, <3>1, <3>2 DEF Current
    <3>5. \A q, r \in Pools : rolling'[q] # 0 /\ rolling'[q] = rolling'[r] => q = r
      BY <3>1, <3>4 DEF OneInv, HistoryInv
    <3>6. \A q \in Pools : Current(q)' =>
             q \in InPass' /\ Eligible(q) /\ declared'[q] = doc'.target
      BY <2>1, <2>2, <3>1, <3>2
    <3> QED
      BY <2>3, <3>3, <3>5, <3>6 DEF OneInv, HistoryInv, Eligible
  <2>5. CASE UNCHANGED <<declared, rolling>>
    BY <2>1, <2>3, <2>5 DEF OneInv, HistoryInv, Current
  <2> QED
    BY <2>1, <2>4, <2>5
<1>6. ASSUME NEW p \in Pools, Announce(p) PROVE OneInv'
  <2>1. /\ UNCHANGED <<doc, pass, declared, rolling>> /\ Acting /\ pc' = "patch"
        /\ InPass' = InPass
    BY <1>6, AnnouncingStep, InPassKept DEF Acting
  <2> QED
    BY <2>1 DEF OneInv, HistoryInv, PassInv, Current
<1> QED
  BY <1>1, <1>2, <1>3, <1>4, <1>5, <1>6, StepCases

LEMMA AtMostOne ==
  ASSUME NEW S, IsFiniteSet(S), \A x, y \in S : x = y
  PROVE  Cardinality(S) <= 1
<1>1. CASE S = {}
  BY <1>1, FS_EmptySet
<1>2. ASSUME NEW x \in S PROVE Cardinality(S) <= 1
  <2>1. S = {x}
    BY <1>2
  <2> QED
    BY <2>1, FS_Singleton
<1> QED
  BY <1>1, <1>2

\* The pools of one document roll one after the other, through crashes of the
\* agent, lost replies, lost machines and failing lists: a roll under way is
\* recognised from what the cluster shows.
THEOREM OneAtATime == Spec => []OneRollPerDocument
<1>1. Init => OneInv
  <2>1. Init => /\ \A p \in Pools : rolling[p] = 0
                /\ doc.revision = 0 /\ pc = "idle"
    BY DEF Init
  <2> QED
    BY <2>1 DEF OneInv, HistoryInv, PassInv, Acting, Current
<1>2. OneInv => OneRollPerDocument
  <2> SUFFICES ASSUME OneInv, NEW r \in 1..MaxRevision
               PROVE  Cardinality({p \in Pools : rolling[p] = r}) <= 1
    BY DEF OneRollPerDocument
  <2> DEFINE S == {p \in Pools : rolling[p] = r}
  <2>1. r # 0
    BY BoundsAssumption
  <2>2. \A x, y \in S : x = y
    BY <2>1 DEF OneInv, HistoryInv
  <2>3. IsFiniteSet(S)
    <3>1. S \subseteq Pools /\ IsFiniteSet(Pools)
      BY PoolsAssumption
    <3> QED
      BY <3>1, FS_Subset
  <2> HIDE DEF S
  <2>4. Cardinality(S) <= 1
    BY <2>2, <2>3, AtMostOne
  <2> QED
    BY <2>4 DEF S
<1> QED
  BY <1>1, <1>2, OneStep, TypeCorrect, PTL DEF Spec
-----------------------------------------------------------------------------
(* No roll is abandoned.                                                   *)

KnowsInv == PassKnows /\ NoneAbandoned

\* rollProgress: a pool counted as converged is rolled, so its roll is over.
LEMMA ConvergedIsOver ==
  ASSUME TypeOK, OpenRolls, NEW p \in Pools, declared[p] = doc.target,
         AtTargetJoined(p) >= Total(p)
  PROVE  rolling[p] = 0
<1>1. AtTargetJoined(p) \in Nat /\ Total(p) \in Nat
  BY ProgressType
<1>2. Rolled(p)
  BY <1>1, ProgressOfOpen
<1> QED
  BY <1>2 DEF OpenRolls

\* What an eligible pool's turn shows when it is taken as done.
LEMMA SettledIsOver ==
  ASSUME KnowsInv, NEW p \in Pools, Settle(p), Eligible(p)
  PROVE  declared[p] = doc.target /\ rolling[p] = 0
<1>1. pc = "act" /\ p \in pass.todo /\ Converged(p)
  BY DEF Settle, Turn, Foremost, Eligible
<1> QED
  BY <1>1 DEF KnowsInv, PassKnows, Acting, Converged, AtTarget

LEMMA KnowsDeciding ==
  ASSUME TypeOK, OpenRolls, KnowsInv, Decides
  PROVE  KnowsInv'
<1> USE DEF Acting
<1>1. /\ UNCHANGED <<declared, machine, joined, rolling>>
      /\ InPass \subseteq Pools /\ InPass \subseteq doc.pools /\ doc.revision \in Nat
      /\ doc' = doc => InPass' = InPass
  BY DecidingStep, InPassType, InPassKept DEF TypeOK, AgentType, Docs
<1>2. CASE StartPass
  <2>1. /\ UNCHANGED <<doc, pass>> /\ pc = "idle" /\ pc' \in {"idle", "mds"}
        /\ pc' = "idle" /\ ~due' => doc.target = None \/ InPass = {}
    BY <1>2 DEF StartPass
  <2>2. None \notin Versions
    BY VersionsAssumption DEF None
  <2> QED
    BY <1>1, <2>1, <2>2 DEF KnowsInv, PassKnows, NoneAbandoned
<1>3. CASE ListMachineDeployments
  <2>1. /\ UNCHANGED doc /\ pc = "mds" /\ pc' = "machines" /\ pass'.mds = declared
        /\ pass'.halted = pass.halted
    BY <1>3 DEF ListMachineDeployments, TypeOK, AgentType, Passes
  <2> QED
    BY <1>1, <2>1 DEF KnowsInv, PassKnows, NoneAbandoned
<1>4. CASE ListMachines
  <2>1. /\ UNCHANGED doc /\ pc = "machines" /\ pc' = "preflight"
        /\ pass'.mds = pass.mds /\ pass'.halted = pass.halted
        /\ pass'.n = [p \in Pools |-> AtTargetJoined(p)]
        /\ pass'.m = [p \in Pools |-> Total(p)]
    BY <1>4 DEF ListMachines, TypeOK, AgentType, Passes
  <2>2. ASSUME NEW p \in Pools, Converged(p)' PROVE rolling'[p] = 0
    <3>1. declared[p] = doc.target /\ AtTargetJoined(p) >= Total(p)
      BY <2>1, <2>2 DEF KnowsInv, PassKnows, Converged, AtTarget
    <3> QED
      BY <1>1, <3>1, ConvergedIsOver
  <2> QED
    BY <1>1, <2>1, <2>2 DEF KnowsInv, PassKnows, NoneAbandoned
<1>5. CASE Proceed
  <2>1. /\ UNCHANGED doc /\ pc = "preflight" /\ pc' = "act" /\ pass'.todo = InPass
        /\ UNCHANGED <<pass.mds, pass.n, pass.m, pass.halted>>
    BY <1>5 DEF Proceed, TypeOK, AgentType, Passes
  <2>2. \A p \in Pools : Converged(p)' <=> Converged(p)
    BY <2>1 DEF Converged, AtTarget
  <2> QED
    BY <1>1, <2>1, <2>2 DEF KnowsInv, PassKnows, NoneAbandoned, Over
<1>6. CASE EndPass
  <2>1. UNCHANGED doc /\ pc = "act" /\ pass.todo = {} /\ pc' = "idle" /\ due' = pass.retry
    BY <1>6 DEF EndPass
  <2>2. ~pass'.halted
    BY <1>6 DEF EndPass, NoPass
  <2>3. ~due' => Over(InPass)
    BY <2>1 DEF KnowsInv, PassKnows
  <2> QED
    BY <1>1, <2>1, <2>2, <2>3 DEF KnowsInv, PassKnows, NoneAbandoned, Over
<1>7. CASE ListFails \/ Refuse
  <2>1. /\ UNCHANGED doc /\ pc' = "idle" /\ pass' = NoPass
        /\ due' \/ doc.target = Invalid
    BY <1>7 DEF ListFails, Refuse
  <2>2. Invalid \notin Versions /\ ~pass'.halted
    BY <2>1, VersionsAssumption DEF Invalid, NoPass
  <2> QED
    BY <1>1, <2>1, <2>2 DEF KnowsInv, PassKnows, NoneAbandoned
<1>8. CASE Restart
  <2>1. UNCHANGED doc /\ pc' = "idle" /\ due' = (doc.revision > 0) /\ ~pass'.halted
    BY <1>8 DEF Restart, NoPass
  <2>2. ~due' => ~(doc.revision > 0)
    BY <2>1, Zenon
  <2>3. ~due' => doc.revision = 0
    BY <1>1, <2>2
  <2>4. ~due' => doc.pools = {}
    BY <2>3 DEF KnowsInv, PassKnows
  <2> QED
    BY <1>1, <2>1, <2>4 DEF KnowsInv, PassKnows, NoneAbandoned
<1>9. CASE NewDocument
  <2>1. pc = "idle" /\ pc' = "idle" /\ due' /\ pass' = pass /\ doc'.revision = doc.revision + 1
    BY <1>9 DEF NewDocument
  <2> QED
    BY <1>1, <2>1 DEF KnowsInv, PassKnows, NoneAbandoned
<1>10. CASE UNCHANGED vars
  <2>1. UNCHANGED <<doc, pc, pass, due, declared, rolling>> /\ InPass' = InPass
    BY <1>1, <1>10 DEF vars, cluster
  <2>2. \A p \in Pools : Converged(p)' <=> Converged(p)
    BY <2>1 DEF Converged, AtTarget
  <2> QED
    BY <1>1, <2>1, <2>2 DEF KnowsInv, PassKnows, NoneAbandoned, Over, TypeOK, AgentType, Passes
<1> QED
  BY <1>2, <1>3, <1>4, <1>5, <1>6, <1>7, <1>8, <1>9, <1>10 DEF Decides

LEMMA KnowsTurn ==
  ASSUME TypeOK, KnowsInv, NEW p \in Pools, Settle(p) \/ Defer(p)
  PROVE  KnowsInv'
<1> USE DEF Acting
<1>1. /\ pc = "act" /\ UNCHANGED <<doc, pc, declared, rolling>>
      /\ pass'.todo = pass.todo \ {p} /\ pass' \in Passes
      /\ UNCHANGED <<pass.mds, pass.halted>>
      /\ InPass' = InPass
  BY SettlingStep, InPassKept
<1>2. UNCHANGED <<pass.n, pass.m>> /\ pass'.retry \in {pass.retry, TRUE}
  <2>1. CASE Settle(p)
    BY <2>1 DEF Settle, TypeOK, AgentType, Passes
  <2>2. CASE Defer(p)
    BY <2>2 DEF Defer, TypeOK, AgentType, Passes
  <2> QED
    BY <2>1, <2>2
<1>3. \A q \in Pools : Converged(q)' <=> Converged(q)
  BY <1>1, <1>2 DEF Converged, AtTarget
<1>4. pass.todo \subseteq Pools /\ pass.retry \in BOOLEAN /\ pass'.retry \in BOOLEAN
  BY <1>1 DEF TypeOK, AgentType, Passes
<1>5. ASSUME ~pass'.retry PROVE Over(InPass \ pass.todo) /\ Over({p})
  <2>1. ~pass.retry /\ ~pass.halted
    BY <1>1, <1>2, <1>4, <1>5 DEF KnowsInv, PassKnows
  <2>2. ~Defer(p)
    BY <1>5, <2>1 DEF Defer, TypeOK, AgentType, Passes
  <2>3. Settle(p)
    BY <2>2
  <2> QED
    BY <1>1, <2>1, <2>3, SettledIsOver DEF KnowsInv, PassKnows, Over, Workers
<1>6. ~pass'.retry => Over(InPass \ pass.todo)' /\ Over({p})'
  BY <1>1, <1>5 DEF Over
<1>7. ~pass'.retry => (\A q \in (InPass' \ pass'.todo) \cap Workers :
                          declared'[q] = doc'.target /\ rolling'[q] = 0)
  BY <1>1, <1>5 DEF Over
<1> QED
  BY <1>1, <1>2, <1>3, <1>4, <1>7 DEF KnowsInv, PassKnows, NoneAbandoned, Over

LEMMA KnowsPatch ==
  ASSUME TypeOK, KnowsInv, NEW p \in Pools, PatchKubelet(p) \/ PatchFails(p)
  PROVE  KnowsInv'
<1>1. /\ Acting /\ pc' = "act" /\ doc' = doc
      /\ pass'.todo = pass.todo \ {p} /\ pass'.mds = pass.mds
      /\ ApplyPatch(p) \/ UNCHANGED <<declared, rolling>>
  BY PatchingStep DEF Acting
<1>2. UNCHANGED <<pass.n, pass.m>> /\ pass'.retry = TRUE
  <2>1. CASE PatchKubelet(p)
    BY <2>1 DEF PatchKubelet, TypeOK, AgentType, Passes
  <2>2. CASE PatchFails(p)
    BY <2>2 DEF PatchFails, TypeOK, AgentType, Passes
  <2> QED
    BY <2>1, <2>2
<1>3. \A q \in Pools : Converged(q)' <=> Converged(q)
  BY <1>1, <1>2 DEF Converged, AtTarget
<1>4. \A q \in Pools \ {p} : declared'[q] = declared[q] /\ rolling'[q] = rolling[q]
  BY <1>1, ApplyingStep
<1>5. pass.todo \subseteq Pools
  BY DEF TypeOK, AgentType, Passes
<1>6. \A q \in pass.todo : pass.mds[q] = declared[q] /\ (Converged(q) => rolling[q] = 0)
  BY <1>1 DEF KnowsInv, PassKnows
<1>7. \A q \in pass'.todo : pass'.mds[q] = declared'[q] /\ (Converged(q)' => rolling'[q] = 0)
  <2> SUFFICES ASSUME NEW q \in pass'.todo
               PROVE  pass'.mds[q] = declared'[q] /\ (Converged(q)' => rolling'[q] = 0)
    OBVIOUS
  <2>1. q \in pass.todo /\ q \in Pools \ {p}
    BY <1>1, <1>5
  <2>2. Converged(q)' => Converged(q)
    BY <1>3, <2>1
  <2>3. pass'.mds[q] = declared'[q]
    BY <1>1, <1>4, <1>6, <2>1
  <2>4. Converged(q)' => rolling'[q] = 0
    BY <1>4, <1>6, <2>1, <2>2
  <2> QED
    BY <2>3, <2>4
<1> QED
  BY <1>1, <1>2, <1>7 DEF KnowsInv, PassKnows, Acting, NoneAbandoned

LEMMA KnowsAnnounce ==
  ASSUME TypeOK, KnowsInv, NEW p \in Pools, Announce(p)
  PROVE  KnowsInv'
<1>1. /\ UNCHANGED <<doc, declared, rolling, pass>> /\ Acting /\ pc' = "patch"
      /\ InPass' = InPass
  BY AnnouncingStep, InPassKept DEF Acting
<1>2. \A q \in Pools : Converged(q)' <=> Converged(q)
  BY <1>1 DEF Converged, AtTarget
<1>3. pass.todo \subseteq Pools
  BY DEF TypeOK, AgentType, Passes
<1> QED
  BY <1>1, <1>2, <1>3 DEF KnowsInv, PassKnows, Acting, NoneAbandoned, Over

LEMMA KnowsStep ==
  ASSUME TypeOK, OpenRolls, KnowsInv, [Next]_vars
  PROVE  KnowsInv'
<1> USE DEF Acting
<1>1. CASE Plane
  <2>1. UNCHANGED <<doc, pc, pass, declared, rolling>> /\ InPass' = InPass
    BY <1>1, PlaneStep, InPassKept
  <2>2. due' = due
    BY <1>1 DEF Plane, RefreshVersion, UpgradeControlPlane
  <2> QED
    BY <2>1, <2>2 DEF KnowsInv, PassKnows, NoneAbandoned, Over, Converged, AtTarget
<1>2. CASE Shared
  <2>1. /\ UNCHANGED <<doc, pc, pass, declared>> /\ InPass' = InPass
        /\ \A p \in Pools : rolling'[p] \in {0, rolling[p]}
    BY <1>2, SharedStep, InPassKept
  <2>2. due' = due
    BY <1>2 DEF Shared, Controller, CreateMachine, Join, DeleteOld, LoseMachine
  <2>3. \A p \in Pools : /\ Converged(p)' <=> Converged(p)
                         /\ rolling[p] = 0 => rolling'[p] = 0
    BY <2>1 DEF Converged, AtTarget
  <2>4. pass.todo \subseteq Pools /\ Workers \subseteq Pools
    BY DEF TypeOK, AgentType, Passes, Workers
  <2>5. \A p \in Pools : (Converged(p) => rolling[p] = 0) => (Converged(p)' => rolling'[p] = 0)
    BY <2>3
  <2>6. ~pass.retry /\ Over(InPass \ pass.todo) =>
          \A p \in (InPass' \ pass'.todo) \cap Workers :
             declared'[p] = doc'.target /\ rolling'[p] = 0
    BY <2>1, <2>3, <2>4 DEF Over
  <2>7. PassKnows'
    BY <2>1, <2>4, <2>5, <2>6 DEF KnowsInv, PassKnows, Over
  <2>8. NoneAbandoned'
    BY <2>1, <2>2, <2>3, <2>4 DEF KnowsInv, NoneAbandoned
  <2> QED
    BY <2>7, <2>8 DEF KnowsInv
<1> QED
  BY <1>1, <1>2, KnowsDeciding, KnowsTurn, KnowsAnnounce, KnowsPatch, StepCases

\* Whenever no pass runs and none is due, every worker pool that the document's
\* passes take (the first maxPoolsPerPass with a valid name) declares its version and
\* its roll is over: no failed list, lost reply, crash, refusal or other pool's roll
\* leaves a pool behind that no pass comes back to.
THEOREM NoRollAbandoned == Spec => []NoneAbandoned
<1>1. Init => KnowsInv
  <2>1. Init => /\ pc = "idle" /\ doc.pools = {} /\ ~pass.halted /\ InPass = {}
    BY DEF Init, NoPass, InPass
  <2> QED
    BY <2>1 DEF KnowsInv, PassKnows, Acting, NoneAbandoned
<1>2. KnowsInv => NoneAbandoned
  BY DEF KnowsInv
<1> QED
  BY <1>1, <1>2, KnowsStep, TypeCorrect, PTL DEF Spec

-----------------------------------------------------------------------------
(* No roll stays reported as in progress.                                  *)

ReportsInv == PassReports /\ NoneLeftInProgress

\* A step that reports one status for some pools, and remembers the rolls it shows.
LEMMA Reporting ==
  ASSUME NEW ps, NEW status, ReportAll(ps, status), rollFrom \subseteq rollFrom',
         status = "in-progress" => ps \subseteq rollFrom',
         \A q \in Pools : report[q] = "in-progress" => q \in rollFrom \cup ps
  PROVE  /\ \A q \in Pools : report'[q] = "in-progress" => q \in rollFrom'
         /\ \A q \in Pools : report'[q] = IF q \in ps THEN status ELSE report[q]
BY DEF ReportAll

\* Outside patchKubelet's wait every roll that is shown is remembered.
LEMMA ShownAreRemembered ==
  ASSUME ReportsInv, pc # "patch"
  PROVE  \A q \in Pools : report[q] = "in-progress" => q \in rollFrom
BY DEF ReportsInv, PassReports

LEMMA ReportsDeciding ==
  ASSUME TypeOK, ReportsInv, Decides
  PROVE  ReportsInv'
<1> USE DEF Acting
<1>0. /\ InPass \subseteq Pools
      /\ doc' = doc => InPass' = InPass
  BY InPassType, InPassKept
<1>1. CASE StartPass
  <2>1. /\ UNCHANGED <<doc, pass, rollFrom, report>> /\ pc = "idle" /\ pc' \in {"idle", "mds"}
        /\ pc' = "idle" /\ ~due' => doc.target = None \/ InPass = {}
    BY <1>1 DEF StartPass, memory
  <2>2. None \notin Versions
    BY VersionsAssumption DEF None
  <2> QED
    BY <1>0, <2>1, <2>2 DEF ReportsInv, PassReports, NoneLeftInProgress
<1>2. CASE ListMachineDeployments \/ ListMachines
  <2>1. UNCHANGED <<rollFrom, report>> /\ pc' \notin {"idle", "act", "patch"} /\ pc # "patch"
    BY <1>2 DEF ListMachineDeployments, ListMachines, memory
  <2> QED
    BY <2>1 DEF ReportsInv, PassReports, NoneLeftInProgress
<1>3. CASE Proceed
  <2>1. UNCHANGED <<doc, rollFrom, report>> /\ pc' = "act" /\ pc # "patch" /\ pass'.todo = InPass
    BY <1>3 DEF Proceed, memory, TypeOK, AgentType, Passes
  <2> QED
    BY <1>0, <2>1 DEF ReportsInv, PassReports, NoneLeftInProgress
<1>4. CASE EndPass
  <2>1. /\ UNCHANGED <<doc, rollFrom, report>> /\ pc = "act" /\ pass.todo = {}
        /\ pc' = "idle" /\ due' = pass.retry
    BY <1>4 DEF EndPass, memory
  <2>2. ~due' => \A p \in InPass \cap Workers : report[p] # "in-progress"
    BY <2>1 DEF ReportsInv, PassReports
  <2> QED
    BY <1>0, <2>1, <2>2 DEF ReportsInv, PassReports, NoneLeftInProgress
<1>5. CASE ListFails \/ Refuse
  <2>1. /\ UNCHANGED <<doc, rollFrom>> /\ pc' = "idle" /\ (due' \/ doc.target = Invalid)
        /\ ReportAll(InPass, "failed") \/ ReportAll(Behind, "failed")
        /\ pc # "patch"
    BY <1>5 DEF ListFails, Refuse
  <2>2. \A q \in Pools : report'[q] = "in-progress" => q \in rollFrom'
    BY <2>1, Reporting, ShownAreRemembered
  <2>3. Invalid \notin Versions
    BY VersionsAssumption DEF Invalid
  <2> QED
    BY <2>1, <2>2, <2>3 DEF ReportsInv, PassReports, NoneLeftInProgress
<1>6. CASE Restart \/ NewDocument
  <2>1. report' = [p \in Pools |-> "none"] /\ pc' = "idle"
    BY <1>6 DEF Restart, NewDocument
  <2>2. \A q \in Pools : report'[q] # "in-progress"
    BY <2>1
  <2>3. Workers \subseteq Pools
    BY DEF Workers
  <2> QED
    BY <2>1, <2>2, <2>3 DEF ReportsInv, PassReports, NoneLeftInProgress
<1>7. CASE UNCHANGED vars
  <2>1. UNCHANGED <<doc, due, pc, pass, rollFrom, report>>
    BY <1>7 DEF vars, memory
  <2> QED
    BY <1>0, <2>1 DEF ReportsInv, PassReports, MayPatch, Foremost, AtTarget, NoneLeftInProgress
<1> QED
  BY <1>1, <1>2, <1>3, <1>4, <1>5, <1>6, <1>7 DEF Decides

\* A worker pool that is taken as done is not shown in progress: the roll that was is
\* remembered, and reported done.
LEMMA ReportsTurn ==
  ASSUME TypeOK, KnowsInv, ReportsInv, NEW p \in Pools, Settle(p) \/ Defer(p)
  PROVE  ReportsInv'
<1> USE DEF Acting
<1>1. /\ pc = "act" /\ UNCHANGED <<doc, pc>> /\ InPass' = InPass
      /\ pass'.todo = pass.todo \ {p} /\ pass' \in Passes
  BY SettlingStep, InPassKept
<1>s. \A q \in Pools : report[q] = "in-progress" => q \in rollFrom
  BY <1>1, ShownAreRemembered
<1>2. Workers \subseteq Pools
  BY DEF Workers
<1>3. CASE Settle(p)
  <2>1. /\ rollFrom' = rollFrom /\ pass'.retry = pass.retry
        /\ \/ ~Eligible(p) /\ (ReportAll({p}, "failed") \/ ReportAll({}, "failed"))
           \/ ReportAll({p} \cap rollFrom, "done")
    BY <1>3 DEF Settle, Eligible, TypeOK, AgentType, Passes
  <2>2. \A q \in Pools : report'[q] = "in-progress" => q \in rollFrom' /\ report[q] = "in-progress"
    BY <1>s, <2>1, Reporting
  <2>3. Eligible(p) => report'[p] # "in-progress"
    <3>1. CASE p \in rollFrom
      BY <1>s, <2>1, <3>1, Reporting
    <3>2. CASE p \notin rollFrom
      BY <2>1, <2>2, <3>2
    <3> QED
      BY <3>1, <3>2
  <2>4. ~pass'.retry =>
           \A q \in (InPass \ pass'.todo) \cap Workers : report'[q] # "in-progress"
    BY <1>1, <1>2, <2>1, <2>2, <2>3 DEF ReportsInv, PassReports, Workers
  <2> QED
    BY <1>1, <2>2, <2>4 DEF ReportsInv, PassReports, NoneLeftInProgress
<1>4. CASE Defer(p)
  <2>1. pass'.retry
    <3>1. pass.halted => pass.retry
      BY <1>1 DEF KnowsInv, PassKnows
    <3> QED
      BY <1>4, <3>1 DEF Defer, TypeOK, AgentType, Passes
  <2>2. \/ ReportAll({p}, "pending") /\ rollFrom' = rollFrom
        \/ ReportAll({p}, "in-progress") /\ rollFrom' = rollFrom \cup {p}
    BY <1>4 DEF Defer
  <2>3. \A q \in Pools : report'[q] = "in-progress" => q \in rollFrom'
    BY <1>s, <2>2, Reporting
  <2> QED
    BY <1>1, <2>1, <2>3 DEF ReportsInv, PassReports, NoneLeftInProgress
<1> QED
  BY <1>3, <1>4

\* patchKubelet shows a roll, and while it waits that one only need not be remembered.
LEMMA ReportsAnnounce ==
  ASSUME TypeOK, ReportsInv, NEW p \in Pools, Announce(p)
  PROVE  ReportsInv'
<1>1. /\ pc = "act" /\ pc' = "patch" /\ MayPatch(p) /\ UNCHANGED <<doc, rollFrom, pass>>
      /\ ReportAll({p}, "in-progress") /\ InPass' = InPass /\ InPass \subseteq Pools
  BY AnnouncingStep, InPassKept, InPassType
<1>2. \A q \in Pools : report'[q] = IF q = p THEN "in-progress" ELSE report[q]
  BY <1>1 DEF ReportAll
<1>3. p \in pass.todo /\ MayPatch(p)'
  BY <1>1 DEF MayPatch, Foremost, AtTarget
<1>4. \A q \in Pools : report[q] = "in-progress" => q \in rollFrom
  BY <1>1, ShownAreRemembered
<1>5. \A q \in Pools : report'[q] = "in-progress" => q \in rollFrom' \/ MayPatch(q)'
  BY <1>1, <1>2, <1>3, <1>4
<1>6. ~pass'.retry =>
         \A q \in (InPass' \ pass'.todo) \cap Workers : report'[q] # "in-progress"
  BY <1>1, <1>2, <1>3 DEF ReportsInv, PassReports, Acting
<1> QED
  BY <1>1, <1>5, <1>6 DEF ReportsInv, PassReports, NoneLeftInProgress

\* The answer comes: the roll is remembered, or shown failed.
LEMMA ReportsPatch ==
  ASSUME TypeOK, ReportsInv, NEW p \in Pools, PatchKubelet(p) \/ PatchFails(p)
  PROVE  ReportsInv'
<1>1. pc = "patch" /\ pc' = "act" /\ MayPatch(p) /\ pass.todo \subseteq Pools
  BY PatchingStep DEF TypeOK, AgentType, Passes
<1>2. /\ pass'.retry = TRUE
      /\ \/ ReportAll({p}, "failed") /\ rollFrom' = rollFrom
         \/ ReportAll({p}, "in-progress") /\ rollFrom' = rollFrom \cup {p}
  <2>1. CASE PatchKubelet(p)
    BY <2>1 DEF PatchKubelet, TypeOK, AgentType, Passes
  <2>2. CASE PatchFails(p)
    BY <2>2 DEF PatchFails, TypeOK, AgentType, Passes
  <2> QED
    BY <2>1, <2>2
<1>3. \A q \in Pools : report[q] = "in-progress" => q \in rollFrom \cup {p}
  <2>1. ASSUME NEW q \in Pools, MayPatch(q) PROVE q = p
    <3>1. q <= p /\ p <= q /\ p \in Int /\ q \in Int
      BY <1>1, <2>1, PoolsAssumption DEF MayPatch, Foremost
    <3> QED
      BY <3>1
  <2> QED
    BY <1>1, <2>1 DEF ReportsInv, PassReports
<1>4. \A q \in Pools : report'[q] = "in-progress" => q \in rollFrom'
  BY <1>2, <1>3, Reporting
<1> QED
  BY <1>1, <1>2, <1>4 DEF ReportsInv, PassReports, NoneLeftInProgress

LEMMA ReportsStep ==
  ASSUME TypeOK, KnowsInv, ReportsInv, [Next]_vars
  PROVE  ReportsInv'
<1>1. ASSUME UNCHANGED <<doc, pc, pass, due, rollFrom, report>> PROVE ReportsInv'
  BY <1>1, InPassKept
     DEF ReportsInv, PassReports, Acting, MayPatch, Foremost, AtTarget, NoneLeftInProgress
<1>2. CASE Plane
  BY <1>1, <1>2 DEF Plane, RefreshVersion, UpgradeControlPlane, memory
<1>3. CASE Shared
  BY <1>1, <1>3 DEF Shared, Controller, CreateMachine, Join, DeleteOld, LoseMachine, memory
<1> QED
  BY <1>2, <1>3, ReportsDeciding, ReportsTurn, ReportsAnnounce, ReportsPatch, StepCases

\* Whenever no pass runs and none is due, no worker pool that the passes take is
\* shown in progress: a roll that was is reported done, or failed, before the loop
\* rests.
THEOREM NothingLeftInProgress == Spec => []NoneLeftInProgress
<1>1. Init => KnowsInv /\ ReportsInv
  <2>1. Init => /\ pc = "idle" /\ doc.pools = {} /\ ~pass.halted
                /\ InPass = {} /\ report = [p \in Pools |-> "none"]
    BY DEF Init, NoPass, InPass
  <2> QED
    BY <2>1 DEF KnowsInv, PassKnows, Acting, NoneAbandoned, ReportsInv, PassReports,
                NoneLeftInProgress
<1>2. ReportsInv => NoneLeftInProgress
  BY DEF ReportsInv
<1> QED
  BY <1>1, <1>2, KnowsStep, ReportsStep, TypeCorrect, PTL DEF Spec
=============================================================================
