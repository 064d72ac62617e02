---------------------------- MODULE HealerProofs ----------------------------
(* Theorems about the healer, for every set of machines, pools and policies, *)
(* every window and cooldown, and any number of crashes and lost replies.    *)
EXTENDS Healer, FiniteSetTheorems, TLAPS

LEMMA ClusterKept ==
  ASSUME ClusterOK, UNCHANGED <<clock, cluster, pod, podView>>
  PROVE  ClusterOK'
BY DEF ClusterOK, cluster

LEMMA MemoryKept ==
  ASSUME MemoryOK, UNCHANGED memory
  PROVE  MemoryOK'
BY DEF MemoryOK, memory

LEMMA PassKept ==
  ASSUME PassOK, UNCHANGED <<pc, pass>>, DOMAIN healDeleted \subseteq DOMAIN healDeleted'
  PROVE  PassOK'
BY DEF PassOK

LEMMA HistoryKept ==
  ASSUME HistoryOK, UNCHANGED <<faults, history>>
  PROVE  HistoryOK'
BY DEF HistoryOK, faults, history

\* A finished or aborted pass has no locals.
LEMMA NoPassOK == NoPass \in PassFields /\ NoPass.todo = {} /\ NoPass.cands = {} /\ NoPass.wedged = {}
BY DEF NoPass, PassFields

\* Type correctness: the state variables and the locals of the running pass keep
\* their types, what is left to do is among the candidates, and a teardown the
\* pass follows up is one it tracks.
THEOREM TypeCorrect == Spec => []TypeOK
<1>1. Init => TypeOK
  <2> SUFFICES ASSUME Init PROVE TypeOK
    OBVIOUS
  <2>1. ClusterOK
    BY MachinesAssumption DEF Init, ClusterOK
  <2>2. MemoryOK
    BY DEF Init, MemoryOK
  <2>3. PassOK
    BY NoPassOK DEF Init, PassOK
  <2>4. HistoryOK
    BY DEF Init, HistoryOK
  <2> QED
    BY <2>1, <2>2, <2>3, <2>4 DEF TypeOK
<1>2. TypeOK /\ [Next]_vars => TypeOK'
  <2> SUFFICES ASSUME TypeOK, [Next]_vars PROVE TypeOK'
    OBVIOUS
  <2> USE DEF TypeOK
  <2>1. ASSUME NEW max \in Policies, NEW fresh \in BOOLEAN, StartPass(max, fresh) PROVE TypeOK'
    <3>0. max \in Nat /\ clock \in Nat
      BY PolicyAssumption DEF ClusterOK
    <3>1. PassOK'
      <4>1. pass' = [NoPass EXCEPT !.now = clock, !.max = max] /\ pc' = "list"
        BY <2>1 DEF StartPass
      <4>2. pass' \in PassFields /\ pass'.todo = {} /\ pass'.wedged = {}
        BY <4>1, <3>0, NoPassOK DEF PassFields
      <4> QED
        BY <4>1, <4>2 DEF PassOK
    <3>2. MemoryOK'
      BY <2>1 DEF StartPass, MemoryOK
    <3> QED
      BY <2>1, <3>1, <3>2, ClusterKept, HistoryKept DEF StartPass
  <2>2. CASE KillSwitch
    <3>1. MemoryOK'
      BY <2>2 DEF KillSwitch, MemoryOK
    <3> QED
      BY <2>2, <3>1, ClusterKept, PassKept, HistoryKept DEF KillSwitch
  <2>3. CASE ReadFails
    <3>1. PassOK'
      BY <2>3, NoPassOK DEF ReadFails, PassOK
    <3> QED
      BY <2>3, <3>1, ClusterKept, MemoryKept, HistoryKept DEF ReadFails
  <2>4. CASE ListMachines
    <3>0. Joinless \subseteq Machines /\ joined \subseteq Machines
      BY DEF Joinless, ClusterOK
    <3>1. pass' \in PassFields
      BY <2>4, <3>0 DEF ListMachines, PassOK, PassFields
    <3>2. pass'.todo = {} /\ pass'.wedged = {}
      BY <2>4 DEF ListMachines, PassOK, PassFields
    <3>3. PassOK'
      BY <2>4, <3>1, <3>2 DEF ListMachines, PassOK
    <3> QED
      BY <2>4, <3>3, ClusterKept, MemoryKept, HistoryKept DEF ListMachines
  <2>5. CASE ReadNodes
    <3>1. MemoryOK'
      BY <2>5 DEF ReadNodes, MemoryOK, StillDeleting
    <3>2. Budget \in Int
      BY MachinesAssumption, FS_Subset, FS_CardinalityType DEF Budget, PassOK, PassFields
    <3>3. Wedged \subseteq DOMAIN StillDeleting /\ DOMAIN StillDeleting \subseteq Machines
      BY DEF Wedged, StillDeleting, MemoryOK
    <3>4. NotReady \subseteq Machines /\ LongNotReady \subseteq Machines
      BY DEF NotReady, LongNotReady
    <3>5. PassOK'
      BY <2>5, <3>2, <3>3, <3>4 DEF ReadNodes, PassOK, PassFields, NoPass
    <3> QED
      BY <2>5, <3>1, <3>5, ClusterKept, HistoryKept DEF ReadNodes
  <2>6. CASE StormBrake
    <3>1. MemoryOK'
      BY <2>6 DEF StormBrake, MemoryOK, Pruned
    <3>2. PassOK'
      BY <2>6, NoPassOK DEF StormBrake, PassOK
    <3> QED
      BY <2>6, <3>1, <3>2, ClusterKept, HistoryKept DEF StormBrake
  <2>7. CASE EndPass
    <3>1. MemoryOK'
      BY <2>7 DEF EndPass, MemoryOK, Pruned
    <3>2. PassOK'
      BY <2>7, NoPassOK DEF EndPass, PassOK
    <3> QED
      BY <2>7, <3>1, <3>2, ClusterKept, HistoryKept DEF EndPass
  <2>8. ASSUME NEW m \in Machines, SkipUnwedge(m) PROVE TypeOK'
    <3>1. PassOK'
      BY <2>8 DEF SkipUnwedge, PassOK, PassFields, memory
    <3> QED
      BY <2>8, <3>1, ClusterKept, MemoryKept, HistoryKept DEF SkipUnwedge
  <2>9. ASSUME NEW m \in Machines, Unwedge(m) PROVE TypeOK'
    <3>1. ClusterOK'
      BY <2>9 DEF Unwedge, ClusterOK, cluster
    <3>2. DOMAIN healDeleted' = DOMAIN healDeleted
      BY <2>9 DEF Unwedge
    <3>3. \A k \in DOMAIN healDeleted' : healDeleted'[k] \in HealDeletion
      BY <2>9 DEF Unwedge, MemoryOK, HealDeletion
    <3>4. MemoryOK'
      BY <2>9, <3>2, <3>3 DEF Unwedge, MemoryOK, Report
    <3>5. PassOK'
      BY <2>9, <3>2 DEF Unwedge, PassOK, PassFields
    <3>6. HistoryOK'
      BY <2>9 DEF Unwedge, HistoryOK, faults
    <3> QED
      BY <3>1, <3>4, <3>5, <3>6
  <2>10. ASSUME NEW m \in Machines, Wait(m) PROVE TypeOK'
    <3>1. MemoryOK'
      BY <2>10 DEF Wait, MemoryOK, Report
    <3>2. PassOK'
      BY <2>10 DEF Wait, PassOK, PassFields
    <3> QED
      BY <2>10, <3>1, <3>2, ClusterKept, HistoryKept DEF Wait
  <2>11. ASSUME NEW m \in Machines, DeleteAccepted(m) PROVE TypeOK'
    <3>1. ClusterOK'
      BY <2>11 DEF DeleteAccepted, ApplyDelete, ClusterOK
    <3>2. DOMAIN healDeleted' = DOMAIN healDeleted \cup {m}
      BY <2>11 DEF DeleteAccepted, Track
    <3>3. \A k \in DOMAIN healDeleted' : healDeleted'[k] \in HealDeletion
      BY <2>11 DEF DeleteAccepted, Track, MemoryOK, HealDeletion, PassOK, PassFields
    <3>4. lastHeal' \in [Pools -> Nat]
      BY <2>11 DEF DeleteAccepted, Healed, MemoryOK, PassOK, PassFields
    <3>5. MemoryOK'
      BY <2>11, <3>2, <3>3, <3>4 DEF DeleteAccepted, Healed, MemoryOK, Report
    <3>6. PassOK'
      <4>1. pass.budget - 1 \in Int
        BY DEF PassOK, PassFields
      <4>2. pass' = [pass EXCEPT !.todo = pass.todo \ {m}, !.budget = pass.budget - 1]
        BY <2>11 DEF DeleteAccepted, Healed
      <4>3. pass' \in PassFields /\ pass'.todo \subseteq pass'.cands /\ pass'.wedged = pass.wedged
        BY <4>1, <4>2 DEF PassOK, PassFields
      <4> QED
        BY <2>11, <3>2, <4>3 DEF DeleteAccepted, PassOK, Turn
    <3>7. HistoryOK'
      BY <2>11 DEF DeleteAccepted, ApplyDelete, HistoryOK, faults, ClusterOK
    <3> QED
      BY <3>1, <3>5, <3>6, <3>7
  <2>12. ASSUME NEW m \in Machines, DeleteNotFound(m) PROVE TypeOK'
    <3>1. lastHeal' \in [Pools -> Nat]
      BY <2>12 DEF DeleteNotFound, Healed, MemoryOK, PassOK, PassFields
    <3>2. MemoryOK'
      BY <2>12, <3>1 DEF DeleteNotFound, Healed, MemoryOK, Report
    <3>3. PassOK'
      <4>1. pass.budget - 1 \in Int
        BY DEF PassOK, PassFields
      <4>2. pass' = [pass EXCEPT !.todo = pass.todo \ {m}, !.budget = pass.budget - 1]
        BY <2>12 DEF DeleteNotFound, Healed
      <4>3. pass' \in PassFields /\ pass'.todo \subseteq pass'.cands /\ pass'.wedged = pass.wedged
        BY <4>1, <4>2 DEF PassOK, PassFields
      <4> QED
        BY <2>12, <4>3 DEF DeleteNotFound, PassOK, Turn
    <3> QED
      BY <2>12, <3>2, <3>3, ClusterKept, HistoryKept DEF DeleteNotFound
  <2>13. ASSUME NEW m \in Machines, DeleteFails(m) PROVE TypeOK'
    <3>1. MemoryOK'
      BY <2>13 DEF DeleteFails, HaltAfter, MemoryOK, Report
    <3>2. PassOK'
      BY <2>13 DEF DeleteFails, HaltAfter, PassOK, PassFields
    <3> QED
      BY <2>13, <3>1, <3>2, ClusterKept, HistoryKept DEF DeleteFails
  <2>14. ASSUME NEW m \in Machines, DeleteReplyLost(m) PROVE TypeOK'
    <3>1. ClusterOK'
      BY <2>14 DEF DeleteReplyLost, ApplyDelete, ClusterOK
    <3>2. MemoryOK'
      BY <2>14 DEF DeleteReplyLost, HaltAfter, MemoryOK, Report
    <3>3. PassOK'
      BY <2>14 DEF DeleteReplyLost, HaltAfter, PassOK, PassFields
    <3>4. HistoryOK'
      BY <2>14 DEF DeleteReplyLost, ApplyDelete, HistoryOK, ClusterOK
    <3> QED
      BY <3>1, <3>2, <3>3, <3>4
  <2>15. CASE Restart
    <3>1. ClusterOK'
      BY <2>15 DEF Restart, ClusterOK, cluster
    <3>2. MemoryOK'
      BY <2>15 DEF Restart, MemoryOK, ClusterOK
    <3>3. PassOK'
      BY <2>15, NoPassOK DEF Restart, PassOK
    <3>4. HistoryOK'
      BY <2>15 DEF Restart, HistoryOK, history
    <3> QED
      BY <3>1, <3>2, <3>3, <3>4
  <2>16. CASE Cluster
    <3>1. UNCHANGED <<memory, pc, pass, faults, history>>
      BY <2>16 DEF Cluster, CreateMachine, Join, Flip, DeleteByOther, Evict, ConfirmEviction,
                   FinishDelete, SyncPods, Tick
    <3>2. ASSUME NEW m \in Machines,
                 CreateMachine(m) \/ Join(m) \/ Flip(m) \/ DeleteByOther(m) \/ FinishDelete(m)
          PROVE  ClusterOK'
      BY <3>2 DEF ClusterOK, CreateMachine, Join, Flip, DeleteByOther, FinishDelete
    <3>3. ASSUME NEW m \in Machines, Evict(m) \/ ConfirmEviction(m) PROVE ClusterOK'
      BY <3>3 DEF ClusterOK, Evict, ConfirmEviction, cluster
    <3>4. ASSUME SyncPods PROVE ClusterOK'
      BY <3>4 DEF ClusterOK, SyncPods, cluster
    <3>5. ASSUME Tick PROVE ClusterOK'
      BY <3>5 DEF ClusterOK, Tick, cluster
    <3>6. ClusterOK'
      BY <2>16, <3>2, <3>3, <3>4, <3>5 DEF Cluster
    <3>7. UNCHANGED healDeleted
      BY <3>1 DEF memory
    <3> QED
      BY <3>1, <3>6, <3>7, MemoryKept, PassKept, HistoryKept
  <2>17. CASE UNCHANGED vars
    <3>1. UNCHANGED healDeleted
      BY <2>17 DEF vars, memory
    <3> QED
      BY <2>17, <3>1, ClusterKept, MemoryKept, PassKept, HistoryKept DEF vars
  <2>18. QED
    BY <2>1, <2>2, <2>3, <2>4, <2>5, <2>6, <2>7, <2>8, <2>9, <2>10, <2>11, <2>12, <2>13,
       <2>14, <2>15, <2>16, <2>17 DEF Next, HealPass
<1>3. QED
  BY <1>1, <1>2, PTL DEF Spec

-----------------------------------------------------------------------------
(* A step of the cluster, of the clock or of the reads of a pass.  What the  *)
(* invariants below say of the agent's own deletes it can only leave alone.  *)

\* A live, future or vanished machine that another actor moves: the agent's
\* deletions in flight can only shrink, and none of them comes back to life.
LEMMA ClusterStep ==
  ASSUME TypeOK, Cluster, DeletedOnce
  PROVE  /\ UNCHANGED <<memory, pc, pass, faults, history>>
         /\ InFlight' \subseteq InFlight
         /\ \A m \in Machines : healedAt[m] # Never => mach'[m] \in {"deleting", "gone"}
         /\ clock' \in Nat /\ clock <= clock'
         /\ pc # "idle" => clock' = clock \/ clock' <= pass.now + MaxPass
<1>1. UNCHANGED <<memory, pc, pass, faults, history>>
  BY DEF Cluster, CreateMachine, Join, Flip, DeleteByOther, Evict, ConfirmEviction,
         FinishDelete, SyncPods, Tick
<1>2. healedAt' = healedAt
  BY <1>1 DEF history
<1>3. /\ clock' \in Nat /\ clock <= clock'
      /\ pc # "idle" => clock' = clock \/ clock' <= pass.now + MaxPass
  <2>1. ASSUME Tick PROVE clock' \in Nat /\ clock <= clock' /\ (pc # "idle" => clock' <= pass.now + MaxPass)
    <3>1. clock \in Nat /\ pass.now \in Nat /\ MaxPass \in Nat
      BY PolicyAssumption DEF TypeOK, ClusterOK, PassOK, PassFields
    <3> QED
      BY <2>1, <3>1 DEF Tick
  <2>2. Cluster /\ ~Tick => clock' = clock
    BY DEF Cluster, CreateMachine, Join, Flip, DeleteByOther, Evict, ConfirmEviction,
           FinishDelete, SyncPods
  <2> QED
    BY <2>1, <2>2 DEF TypeOK, ClusterOK
<1>4. ASSUME NEW m \in Machines, healedAt[m] # Never
      PROVE  mach'[m] = mach[m] \/ mach'[m] = "gone"
  <2>1. mach[m] \in {"deleting", "gone"}
    BY <1>4 DEF DeletedOnce
  <2>2. ASSUME NEW k \in Machines,
               CreateMachine(k) \/ Join(k) \/ Flip(k) \/ DeleteByOther(k) \/ FinishDelete(k)
        PROVE  mach'[m] = mach[m] \/ mach'[m] = "gone"
    BY <2>1, <2>2 DEF TypeOK, ClusterOK, CreateMachine, Join, Flip, DeleteByOther, FinishDelete
  <2>3. ASSUME NEW k \in Machines, Evict(k) \/ ConfirmEviction(k) PROVE mach' = mach
    BY <2>3 DEF Evict, ConfirmEviction, cluster
  <2>4. SyncPods \/ Tick => mach' = mach
    BY DEF SyncPods, Tick, cluster
  <2> QED
    BY <2>2, <2>3, <2>4 DEF Cluster
<1> QED
  BY <1>1, <1>2, <1>3, <1>4 DEF InFlight, DeletedOnce

\* Steps that touch neither a machine's lifecycle nor the record of deletes.
LEMMA NoDelete ==
  ASSUME UNCHANGED <<mach, healedAt>>
  PROVE  InFlight' = InFlight
BY DEF InFlight

\* The agent's delete of a machine it had not deleted before is applied.
LEMMA Applied ==
  ASSUME TypeOK, NEW c \in Machines, ApplyDelete(c), healedAt[c] = Never
  PROVE  /\ healedAt' = [healedAt EXCEPT ![c] = clock]
         /\ clock \in Nat
         /\ mach'[c] = "deleting"
         /\ \A m \in Machines : m # c => mach'[m] = mach[m] /\ healedAt'[m] = healedAt[m]
         /\ InFlight' = InFlight \cup {c}
<1>1. clock \in Nat
  BY DEF TypeOK, ClusterOK
<1>2. healedAt' = [healedAt EXCEPT ![c] = clock]
  BY DEF ApplyDelete
<1>3. mach' = [mach EXCEPT ![c] = "deleting"]
  BY DEF ApplyDelete
<1>4. mach'[c] = "deleting" /\ healedAt'[c] = clock
  BY <1>2, <1>3 DEF TypeOK, ClusterOK, HistoryOK
<1>5. \A m \in Machines : m # c => mach'[m] = mach[m] /\ healedAt'[m] = healedAt[m]
  BY <1>2, <1>3 DEF TypeOK, ClusterOK, HistoryOK
<1>6. healedAt'[c] # Never
  BY <1>1, <1>4 DEF Never
<1> QED
  BY <1>1, <1>2, <1>4, <1>5, <1>6 DEF InFlight

LEMMA TurnFacts ==
  ASSUME TypeOK, NEW c, Turn(c)
  PROVE  c \in pass.todo /\ pc = "act" /\ c \in Machines /\ pass.todo \subseteq Machines
BY DEF Turn, TypeOK, PassOK, PassFields

\* The record of deletes only changes when the agent deletes a machine.
LEMMA OnlyDeletesAreRecorded ==
  ASSUME TypeOK, DeletedOnce, [Next]_vars, ~UNCHANGED <<mach, healedAt>>
  PROVE  Cluster \/ \E c \in Machines : DeleteAccepted(c) \/ DeleteReplyLost(c)
<1>1. ~UNCHANGED <<cluster, history>> /\ ~UNCHANGED vars
  BY DEF vars, cluster, history
<1>2. \A m \in Machines : ~Unwedge(m)
  BY DEF Unwedge, cluster
<1> QED
  BY <1>1, <1>2
     DEF Next, HealPass, StartPass, KillSwitch, ReadFails, ListMachines, ReadNodes, StormBrake,
         EndPass, SkipUnwedge, Wait, DeleteNotFound, DeleteFails, Restart

-----------------------------------------------------------------------------
\* DeletedOnce is inductive.
LEMMA DeletedOnceStep ==
  ASSUME TypeOK, DeletedOnce, [Next]_vars
  PROVE  DeletedOnce'
<1>1. ASSUME UNCHANGED <<mach, healedAt>>, pc' \in {"idle", "list"} PROVE DeletedOnce'
  BY <1>1 DEF DeletedOnce
<1>2. ASSUME UNCHANGED <<mach, healedAt, pc>>, pc = "act", pass'.todo \subseteq pass.todo
      PROVE  DeletedOnce'
  BY <1>2 DEF DeletedOnce
<1>3. CASE ListMachines
  <2>1. pc' = "nodes" /\ UNCHANGED <<mach, healedAt>>
    BY <1>3 DEF ListMachines, cluster, history
  <2>2. /\ pass'.live = {m \in Machines : mach[m] = "live"}
        /\ pass'.cands = Joinless
    BY <1>3 DEF ListMachines, TypeOK, PassOK, PassFields
  <2> QED
    BY <2>1, <2>2 DEF DeletedOnce, Joinless
<1>4. CASE ReadNodes
  <2>1. pc' = "act" /\ pc = "nodes" /\ UNCHANGED <<mach, healedAt>>
    BY <1>4 DEF ReadNodes, cluster, history
  <2>2. pass'.todo \subseteq pass.live
    BY <1>4 DEF ReadNodes, DeletedOnce, NotReady, NoPass
  <2>3. pass.live \subseteq Machines
    BY DEF TypeOK, PassOK, PassFields
  <2> QED
    BY <2>1, <2>2, <2>3 DEF DeletedOnce
<1>5. ASSUME NEW c \in Machines, Turn(c), ApplyDelete(c), pc' = pc,
             pass'.todo = pass.todo \ {c}
      PROVE  DeletedOnce'
  <2>1. pc = "act" /\ c \in pass.todo /\ pass.todo \subseteq Machines
    BY <1>5, TurnFacts
  <2>2. healedAt[c] = Never
    BY <2>1 DEF DeletedOnce
  <2> QED
    BY <1>5, <2>1, <2>2, Applied DEF DeletedOnce
<1>6. ASSUME NEW m \in Machines, SkipUnwedge(m) \/ Unwedge(m) PROVE DeletedOnce'
  <2>1. pass' = [pass EXCEPT !.wedged = pass.wedged \ {m}] /\ pc = "act" /\ pc' = pc
    BY <1>6 DEF SkipUnwedge, Unwedge
  <2>2. pass'.todo = pass.todo
    BY <2>1 DEF TypeOK, PassOK, PassFields
  <2>3. UNCHANGED <<mach, healedAt>>
    BY <1>6 DEF SkipUnwedge, Unwedge, cluster, history
  <2> QED
    BY <1>2, <2>1, <2>2, <2>3
<1>7. ASSUME NEW c \in Machines, Wait(c) \/ DeleteNotFound(c) \/ DeleteFails(c) PROVE DeletedOnce'
  BY <1>7, <1>2 DEF Wait, DeleteNotFound, DeleteFails, Turn, Healed, HaltAfter, cluster, history,
                    TypeOK, PassOK, PassFields
<1>8. ASSUME NEW c \in Machines, DeleteAccepted(c) \/ DeleteReplyLost(c) PROVE DeletedOnce'
  BY <1>8, <1>5 DEF DeleteAccepted, DeleteReplyLost, Healed, HaltAfter, TypeOK, PassOK, PassFields
<1>9. CASE KillSwitch \/ ReadFails \/ StormBrake \/ EndPass \/ Restart
  BY <1>9, <1>1 DEF KillSwitch, ReadFails, StormBrake, EndPass, Restart, cluster, history
<1>10. ASSUME NEW max \in Policies, NEW fresh \in BOOLEAN, StartPass(max, fresh)
       PROVE  DeletedOnce'
  BY <1>10, <1>1 DEF StartPass, cluster, history
<1>11. CASE Cluster
  <2>1. UNCHANGED <<pc, pass, healedAt>>
    BY <1>11, ClusterStep DEF history
  <2> QED
    BY <1>11, <2>1, ClusterStep DEF DeletedOnce
<1>12. CASE UNCHANGED vars
  BY <1>12 DEF DeletedOnce, vars, cluster, history
<1> QED
  BY <1>3, <1>4, <1>6, <1>7, <1>8, <1>9, <1>10, <1>11, <1>12 DEF Next, HealPass

THEOREM DeletedOnceAlways == Spec => []DeletedOnce
<1>1. Init => DeletedOnce
  BY DEF Init, DeletedOnce
<1>2. TypeOK /\ DeletedOnce /\ [Next]_vars => DeletedOnce'
  BY DeletedOnceStep
<1> QED
  BY <1>1, <1>2, TypeCorrect, PTL DEF Spec

-----------------------------------------------------------------------------
\* A pass's budget covers what is in flight when it starts to act.
LEMMA BudgetEnough ==
  ASSUME TypeOK, InFlight \subseteq pass.deleting
  PROVE  Cardinality(InFlight) + Budget <= pass.max /\ Budget \in Int
<1>1. IsFiniteSet(pass.deleting) /\ IsFiniteSet(InFlight)
  BY MachinesAssumption, FS_Subset DEF TypeOK, PassOK, PassFields, InFlight
<1>2. Cardinality(InFlight) <= Cardinality(pass.deleting)
  BY <1>1, FS_Subset
<1>3. Cardinality(InFlight) \in Nat /\ Cardinality(pass.deleting) \in Nat
  BY <1>1, FS_CardinalityType
<1>4. pass.max \in Nat
  BY DEF TypeOK, PassOK, PassFields
<1> QED
  BY <1>2, <1>3, <1>4 DEF Budget

\* Fewer deletions in flight have a smaller cardinality.
LEMMA InFlightShrinks ==
  ASSUME InFlight' \subseteq InFlight
  PROVE  /\ Cardinality(InFlight') <= Cardinality(InFlight)
         /\ Cardinality(InFlight') \in Nat /\ Cardinality(InFlight) \in Nat
<1>1. IsFiniteSet(InFlight)
  BY MachinesAssumption, FS_Subset DEF InFlight
<1> QED
  BY <1>1, FS_Subset, FS_CardinalityType

\* One more deletion in flight.
LEMMA InFlightGrows ==
  ASSUME NEW c, InFlight' = InFlight \cup {c}
  PROVE  /\ Cardinality(InFlight') <= Cardinality(InFlight) + 1
         /\ Cardinality(InFlight') \in Nat /\ Cardinality(InFlight) \in Nat
<1>1. IsFiniteSet(InFlight)
  BY MachinesAssumption, FS_Subset DEF InFlight
<1>2. /\ Cardinality(InFlight \cup {c}) = IF c \in InFlight THEN Cardinality(InFlight)
                                                        ELSE Cardinality(InFlight) + 1
      /\ IsFiniteSet(InFlight \cup {c})
  BY <1>1, FS_AddElement
<1>3. Cardinality(InFlight) \in Nat
  BY <1>1, FS_CardinalityType
<1> QED
  BY <1>2, <1>3

\* What the budget theorem needs of a delete, applied or merely counted.
LEMMA BudgetStep ==
  ASSUME TypeOK, DeletedOnce, BudgetCoversInFlight, [Next]_vars
  PROVE  BudgetCoversInFlight'
<1>1. ASSUME pc' \in {"idle", "list"} PROVE BudgetCoversInFlight'
  BY <1>1 DEF BudgetCoversInFlight
<1>2. ASSUME UNCHANGED <<pc, pass>>, InFlight' \subseteq InFlight PROVE BudgetCoversInFlight'
  <2>1. pass.max \in Nat /\ pass.budget \in Int
    BY DEF TypeOK, PassOK, PassFields
  <2> QED
    BY <1>2, <2>1, InFlightShrinks DEF BudgetCoversInFlight
<1>3. CASE ListMachines
  <2>1. pc' = "nodes" /\ InFlight' = InFlight
    BY <1>3, NoDelete DEF ListMachines, cluster, history
  <2>2. pass'.deleting = {m \in Machines : mach[m] = "deleting"}
    BY <1>3 DEF ListMachines, TypeOK, PassOK, PassFields
  <2> QED
    BY <2>1, <2>2 DEF BudgetCoversInFlight, InFlight
<1>4. CASE ReadNodes
  <2>1. pc = "nodes" /\ pc' = "act" /\ InFlight' = InFlight
    BY <1>4, NoDelete DEF ReadNodes, cluster, history
  <2>2. pass'.budget = Budget /\ pass'.max = pass.max
    BY <1>4 DEF ReadNodes, NoPass
  <2> QED
    BY <2>1, <2>2, BudgetEnough DEF BudgetCoversInFlight
<1>5. ASSUME NEW m \in Machines, SkipUnwedge(m) \/ Unwedge(m) PROVE BudgetCoversInFlight'
  <2>1. pass' = [pass EXCEPT !.wedged = pass.wedged \ {m}] /\ pc' = pc /\ pc = "act"
    BY <1>5 DEF SkipUnwedge, Unwedge
  <2>2. pass'.budget = pass.budget /\ pass'.max = pass.max /\ pass'.halted = pass.halted
    BY <2>1 DEF TypeOK, PassOK, PassFields
  <2>3. InFlight' = InFlight
    BY <1>5, NoDelete DEF SkipUnwedge, Unwedge, cluster, history
  <2> QED
    BY <2>1, <2>2, <2>3 DEF BudgetCoversInFlight
<1>6. ASSUME NEW c \in Machines, Wait(c) PROVE BudgetCoversInFlight'
  <2>1. pass' = [pass EXCEPT !.todo = pass.todo \ {c}] /\ pc' = pc /\ pc = "act"
    BY <1>6 DEF Wait, Turn
  <2>2. pass'.budget = pass.budget /\ pass'.max = pass.max /\ pass'.halted = pass.halted
    BY <2>1 DEF TypeOK, PassOK, PassFields
  <2>3. InFlight' = InFlight
    BY <1>6, NoDelete DEF Wait, cluster, history
  <2> QED
    BY <2>1, <2>2, <2>3 DEF BudgetCoversInFlight
<1>7. ASSUME NEW c \in Machines, DeleteAccepted(c) PROVE BudgetCoversInFlight'
  <2>1. pc = "act" /\ pc' = pc /\ ~pass.halted /\ healedAt[c] = Never
    BY <1>7, TurnFacts DEF DeleteAccepted, MayDelete, DeletedOnce
  <2>2. InFlight' = InFlight \cup {c}
    BY <1>7, <2>1, Applied DEF DeleteAccepted
  <2>3. pass.max \in Nat /\ pass.budget \in Int
    BY DEF TypeOK, PassOK, PassFields
  <2>4. pass'.budget = pass.budget - 1 /\ pass'.max = pass.max
    BY <1>7 DEF DeleteAccepted, Healed, TypeOK, PassOK, PassFields
  <2>5. Cardinality(InFlight') <= Cardinality(InFlight) + 1
        /\ Cardinality(InFlight') \in Nat /\ Cardinality(InFlight) \in Nat
    BY <2>2, InFlightGrows
  <2> QED
    BY <2>1, <2>3, <2>4, <2>5 DEF BudgetCoversInFlight
<1>8. ASSUME NEW c \in Machines, DeleteNotFound(c) PROVE BudgetCoversInFlight'
  <2>1. pc = "act" /\ pc' = pc /\ ~pass.halted
    BY <1>8, TurnFacts DEF DeleteNotFound, MayDelete
  <2>2. InFlight' = InFlight
    BY <1>8, NoDelete DEF DeleteNotFound, cluster, history
  <2>3. pass.max \in Nat /\ pass.budget \in Int /\ Cardinality(InFlight) \in Nat
    BY MachinesAssumption, FS_Subset, FS_CardinalityType DEF TypeOK, PassOK, PassFields, InFlight
  <2>4. pass'.budget = pass.budget - 1 /\ pass'.max = pass.max
    BY <1>8 DEF DeleteNotFound, Healed, TypeOK, PassOK, PassFields
  <2> QED
    BY <2>1, <2>2, <2>3, <2>4 DEF BudgetCoversInFlight
<1>9. ASSUME NEW c \in Machines, DeleteFails(c) \/ DeleteReplyLost(c) PROVE BudgetCoversInFlight'
  <2>1. pc' = "act"
    BY <1>9, TurnFacts DEF DeleteFails, DeleteReplyLost
  <2>2. pass'.halted = TRUE
    BY <1>9 DEF DeleteFails, DeleteReplyLost, HaltAfter, TypeOK, PassOK, PassFields
  <2> QED
    BY <2>1, <2>2 DEF BudgetCoversInFlight
<1>10. CASE KillSwitch
  BY <1>10, <1>1 DEF KillSwitch
<1>11. CASE ReadFails \/ StormBrake \/ EndPass \/ Restart
  BY <1>11, <1>1 DEF ReadFails, StormBrake, EndPass, Restart
<1>12. ASSUME NEW max \in Policies, NEW fresh \in BOOLEAN, StartPass(max, fresh)
       PROVE  BudgetCoversInFlight'
  BY <1>12, <1>1 DEF StartPass
<1>13. CASE Cluster
  BY <1>13, <1>2, ClusterStep
<1>14. CASE UNCHANGED vars
  BY <1>14, <1>2, NoDelete DEF vars, cluster, history
<1> QED
  BY <1>3, <1>4, <1>5, <1>6, <1>7, <1>8, <1>9, <1>10, <1>11, <1>12, <1>13, <1>14
     DEF Next, HealPass

\* The step itself: a delete is only sent while the budget has room for it.
LEMMA BudgetRespected ==
  ASSUME TypeOK, DeletedOnce, BudgetCoversInFlight, [Next]_vars,
         ~(InFlight' \subseteq InFlight)
  PROVE  Cardinality(InFlight') <= pass.max
<1>1. PICK c \in Machines : DeleteAccepted(c) \/ DeleteReplyLost(c)
  BY OnlyDeletesAreRecorded, ClusterStep, NoDelete
<1>2. pc = "act" /\ ~pass.halted /\ pass.budget > 0 /\ healedAt[c] = Never /\ ApplyDelete(c)
  BY <1>1, TurnFacts DEF DeleteAccepted, DeleteReplyLost, MayDelete, DeletedOnce
<1>3. InFlight' = InFlight \cup {c}
  BY <1>2, Applied
<1>4. pass.max \in Nat /\ pass.budget \in Int
  BY DEF TypeOK, PassOK, PassFields
<1>5. Cardinality(InFlight') <= Cardinality(InFlight) + 1
      /\ Cardinality(InFlight') \in Nat /\ Cardinality(InFlight) \in Nat
  BY <1>3, InFlightGrows
<1> QED
  BY <1>2, <1>4, <1>5 DEF BudgetCoversInFlight

\* CONCURRENCY BUDGET (heal.go:20): in every behaviour, whenever a delete of the
\* agent adds a machine to those of its own being torn down, at most maxUnhealthy
\* of them are in flight, over passes, crashes and lost replies.
THEOREM BudgetHolds == Spec => HealBudget
<1>1. Init => BudgetCoversInFlight
  BY DEF Init, BudgetCoversInFlight
<1>2. TypeOK /\ DeletedOnce /\ BudgetCoversInFlight /\ [Next]_vars => BudgetCoversInFlight'
  BY BudgetStep
<1>3. TypeOK /\ DeletedOnce /\ BudgetCoversInFlight /\ [Next]_vars
        => [~(InFlight' \subseteq InFlight) => Cardinality(InFlight') <= pass.max]_vars
  BY BudgetRespected
<1> QED
  BY <1>1, <1>2, <1>3, TypeCorrect, DeletedOnceAlways, PTL DEF Spec, HealBudget

-----------------------------------------------------------------------------
\* Steps that leave alone what the cooldown compares.
LEMMA CooldownKept ==
  ASSUME TypeOK, CooldownRemembered, HealCooldown,
         UNCHANGED <<baseline, lastHeal, acked, healedAt>>,
         clock' \in Nat, clock <= clock', pass'.now <= clock',
         pc' # "idle" => clock' <= pass'.now + MaxPass
  PROVE  CooldownRemembered' /\ HealCooldown'
<1>1. clock \in Nat /\ baseline \in Nat /\ lastHeal \in [Pools -> Nat]
      /\ healedAt \in [Machines -> Nat \cup {Never}]
  BY DEF TypeOK, ClusterOK, MemoryOK, HistoryOK
<1>2. \A p : LastHealTime(p)' = LastHealTime(p)
  BY DEF LastHealTime
<1>3. HealCooldown'
  BY DEF HealCooldown
<1>4. \A m \in Machines : healedAt[m] \in Int /\ healedAt[m] <= clock
  BY <1>1 DEF CooldownRemembered, Never
<1>5. baseline <= clock' /\ (\A p \in Pools : lastHeal[p] <= clock')
      /\ \A m \in Machines : healedAt[m] <= clock'
  BY <1>1, <1>4 DEF CooldownRemembered
<1> QED
  BY <1>2, <1>3, <1>5 DEF CooldownRemembered

\* A remediation is recorded: lastHeal moves to the pass's time, never back.
LEMMA LastHealMoves ==
  ASSUME TypeOK, CooldownRemembered, NEW c \in Machines, MayDelete(c),
         lastHeal' = [lastHeal EXCEPT ![PoolOf[c]] = pass.now], UNCHANGED baseline
  PROVE  /\ PoolOf[c] \in Pools
         /\ LastHealTime(PoolOf[c]) + Cooldown <= pass.now
         /\ LastHealTime(PoolOf[c])' = pass.now
         /\ \A p \in Pools : /\ LastHealTime(p) <= LastHealTime(p)'
                             /\ LastHealTime(p) \in Nat /\ LastHealTime(p)' \in Nat
         /\ \A p \in Pools : lastHeal'[p] <= clock
<1>1. PoolOf[c] \in Pools
  BY PoolsAssumption DEF MayDelete, Refused
<1>2. baseline \in Nat /\ lastHeal \in [Pools -> Nat] /\ pass.now \in Nat /\ clock \in Nat
  BY DEF TypeOK, ClusterOK, MemoryOK, PassOK, PassFields
<1>3. Cooldown \in Nat
  BY PolicyAssumption
<1>4. LastHealTime(PoolOf[c]) + Cooldown <= pass.now
  BY <1>1, <1>2, <1>3 DEF MayDelete, CoolingDown, LastHealTime
<1>5. baseline <= pass.now /\ lastHeal[PoolOf[c]] <= pass.now
  BY <1>1, <1>2, <1>3, <1>4 DEF LastHealTime
<1>6. lastHeal'[PoolOf[c]] = pass.now /\ \A p \in Pools \ {PoolOf[c]} : lastHeal'[p] = lastHeal[p]
  BY <1>1, <1>2
<1>7. LastHealTime(PoolOf[c])' = pass.now
  BY <1>2, <1>5, <1>6 DEF LastHealTime
<1>8. \A p \in Pools : LastHealTime(p) <= LastHealTime(p)' /\ LastHealTime(p) \in Nat
                       /\ LastHealTime(p)' \in Nat
  BY <1>1, <1>2, <1>5, <1>6 DEF LastHealTime
<1>9. \A p \in Pools : lastHeal'[p] <= clock
  BY <1>1, <1>2, <1>6 DEF CooldownRemembered
<1> QED
  BY <1>1, <1>4, <1>7, <1>8, <1>9

LEMMA CooldownStep ==
  ASSUME TypeOK, DeletedOnce, CooldownRemembered, HealCooldown, [Next]_vars
  PROVE  CooldownRemembered' /\ HealCooldown'
<1> DEFINE Goal == CooldownRemembered' /\ HealCooldown'
<1>0. /\ clock \in Nat /\ pass.now \in Nat /\ baseline \in Nat /\ lastHeal \in [Pools -> Nat]
      /\ healedAt \in [Machines -> Nat \cup {Never}] /\ acked \subseteq Machines
      /\ pass.now <= clock /\ NoPass.now = 0
      /\ pc # "idle" => clock <= pass.now + MaxPass
      /\ MaxPass \in Nat /\ Cooldown \in Nat
  BY PolicyAssumption DEF TypeOK, ClusterOK, MemoryOK, PassOK, PassFields, HistoryOK, CooldownRemembered, NoPass
<1>1. ASSUME NEW max \in Policies, NEW fresh \in BOOLEAN, StartPass(max, fresh) PROVE Goal
  <2>1. pass'.now = clock /\ clock <= clock + MaxPass
    BY <1>0, <1>1, PolicyAssumption DEF StartPass, NoPass
  <2> QED
    BY <1>0, <1>1, <2>1, CooldownKept DEF StartPass, history
<1>2. CASE KillSwitch
  BY <1>0, <1>2, CooldownKept DEF KillSwitch, history
<1>3. CASE ReadFails \/ StormBrake \/ EndPass
  BY <1>0, <1>3, CooldownKept DEF ReadFails, StormBrake, EndPass, memory, history
<1>4. CASE ListMachines
  <2>1. pass'.now = pass.now /\ pc # "idle"
    BY <1>4 DEF ListMachines, TypeOK, PassOK, PassFields
  <2> QED
    BY <1>0, <1>4, <2>1, CooldownKept DEF ListMachines, memory, history
<1>5. CASE ReadNodes
  <2>1. pass'.now = pass.now /\ pc # "idle"
    BY <1>5 DEF ReadNodes, NoPass
  <2> QED
    BY <1>0, <1>5, <2>1, CooldownKept DEF ReadNodes, history
<1>6. ASSUME NEW m \in Machines, SkipUnwedge(m) \/ Unwedge(m) PROVE Goal
  <2>1. pass'.now = pass.now
    BY <1>6 DEF SkipUnwedge, Unwedge, TypeOK, PassOK, PassFields
  <2>2. UNCHANGED <<clock, pc, baseline, lastHeal, acked, healedAt>>
    BY <1>6 DEF SkipUnwedge, Unwedge, memory, history
  <2> QED
    BY <1>0, <2>1, <2>2, CooldownKept
<1>7. ASSUME NEW c \in Machines, Wait(c) \/ DeleteFails(c) PROVE Goal
  <2>1. pass'.now = pass.now
    BY <1>7 DEF Wait, DeleteFails, HaltAfter, TypeOK, PassOK, PassFields
  <2>2. UNCHANGED <<clock, pc, baseline, lastHeal, acked, healedAt>>
    BY <1>7 DEF Wait, DeleteFails, history
  <2> QED
    BY <1>0, <2>1, <2>2, CooldownKept
<1>8. ASSUME NEW c \in Machines, DeleteReplyLost(c) PROVE Goal
  <2>1. pass'.now = pass.now /\ UNCHANGED <<clock, pc, baseline, lastHeal, acked>>
    BY <1>8 DEF DeleteReplyLost, HaltAfter, TypeOK, PassOK, PassFields
  <2>2. healedAt[c] = Never
    BY <1>8, TurnFacts DEF DeleteReplyLost, DeletedOnce
  <2>3. healedAt' = [healedAt EXCEPT ![c] = clock]
    BY <1>8, <2>2, Applied DEF DeleteReplyLost
  <2>4. c \notin acked
    BY <2>2 DEF CooldownRemembered
  <2>5. \A m \in acked : healedAt'[m] = healedAt[m]
    BY <1>0, <2>3, <2>4
  <2>6. \A m \in Machines : healedAt'[m] <= clock
    BY <1>0, <2>3 DEF CooldownRemembered
  <2>7. HealCooldown'
    BY <2>1, <2>5 DEF HealCooldown
  <2>8. CooldownRemembered'
    BY <1>0, <2>1, <2>5, <2>6 DEF CooldownRemembered, LastHealTime
  <2> QED
    BY <2>7, <2>8
<1>9. ASSUME NEW c \in Machines, DeleteNotFound(c) PROVE Goal
  <2>1. pass'.now = pass.now /\ UNCHANGED <<clock, pc, baseline, acked, healedAt>>
    BY <1>9 DEF DeleteNotFound, Healed, history, TypeOK, PassOK, PassFields
  <2>2. lastHeal' = [lastHeal EXCEPT ![PoolOf[c]] = pass.now]
    BY <1>9 DEF DeleteNotFound, Healed
  <2>3. /\ \A p \in Pools : LastHealTime(p) <= LastHealTime(p)'
        /\ \A p \in Pools : LastHealTime(p) \in Nat /\ LastHealTime(p)' \in Nat
        /\ \A p \in Pools : lastHeal'[p] <= clock
    BY <1>9, <2>1, <2>2, LastHealMoves DEF DeleteNotFound
  <2>4. HealCooldown'
    BY <2>1 DEF HealCooldown
  <2>5. \A m \in acked : healedAt[m] <= LastHealTime(PoolOf[m])' + MaxPass
    BY <1>0, <2>3 DEF CooldownRemembered, Never
  <2>6. CooldownRemembered'
    BY <1>0, <2>1, <2>3, <2>5 DEF CooldownRemembered
  <2> QED
    BY <2>4, <2>6
<1>10. ASSUME NEW c \in Machines, DeleteAccepted(c) PROVE Goal
  <2>1. /\ pass'.now = pass.now /\ UNCHANGED <<clock, pc, baseline>> /\ acked' = acked \cup {c}
        /\ pc = "act"
    BY <1>10 DEF DeleteAccepted, Turn, Healed, TypeOK, PassOK, PassFields
  <2>2. healedAt[c] = Never
    BY <1>10, TurnFacts DEF DeleteAccepted, DeletedOnce
  <2>3. healedAt' = [healedAt EXCEPT ![c] = clock]
    BY <1>10, <2>2, Applied DEF DeleteAccepted
  <2>4. lastHeal' = [lastHeal EXCEPT ![PoolOf[c]] = pass.now]
    BY <1>10 DEF DeleteAccepted, Healed
  <2>5. /\ PoolOf[c] \in Pools
        /\ LastHealTime(PoolOf[c]) + Cooldown <= pass.now
        /\ LastHealTime(PoolOf[c])' = pass.now
        /\ \A p \in Pools : LastHealTime(p) <= LastHealTime(p)'
        /\ \A p \in Pools : LastHealTime(p) \in Nat /\ LastHealTime(p)' \in Nat
        /\ \A p \in Pools : lastHeal'[p] <= clock
    BY <1>10, <2>1, <2>4, LastHealMoves DEF DeleteAccepted
  <2>6. c \notin acked /\ healedAt'[c] = clock /\ \A m \in acked : healedAt'[m] = healedAt[m]
    BY <1>0, <2>2, <2>3 DEF CooldownRemembered
  <2>7. \A m \in Machines : healedAt'[m] <= clock
    BY <1>0, <2>3 DEF CooldownRemembered
  <2>8. \A m \in acked : healedAt[m] \in Nat /\ PoolOf[m] \in Pools
    BY <1>0 DEF CooldownRemembered
  <2>9. \A m \in acked' : healedAt'[m] <= LastHealTime(PoolOf[m])' + MaxPass
    BY <1>0, <2>1, <2>5, <2>6, <2>8 DEF CooldownRemembered
  <2>10. \A m \in acked' : healedAt'[m] # Never /\ PoolOf[m] \in Pools
    BY <1>0, <2>1, <2>5, <2>6, <2>8 DEF Never
  <2>11. CooldownRemembered'
    BY <1>0, <2>1, <2>5, <2>7, <2>9, <2>10 DEF CooldownRemembered
  <2>12. ASSUME NEW k \in acked, PoolOf[k] = PoolOf[c] PROVE clock - healedAt[k] >= Cooldown - MaxPass
    <3>1. healedAt[k] <= LastHealTime(PoolOf[c]) + MaxPass /\ LastHealTime(PoolOf[c]) \in Nat
      BY <2>5, <2>12 DEF CooldownRemembered
    <3> QED
      BY <1>0, <2>5, <2>8, <3>1
  <2>13. HealCooldown'
    BY <2>1, <2>6, <2>12 DEF HealCooldown
  <2> QED
    BY <2>11, <2>13
<1>11. CASE Restart
  <2>1. /\ baseline' = clock /\ pass'.now = 0 /\ lastHeal' = [p \in Pools |-> 0] /\ pc' = "idle"
        /\ UNCHANGED <<clock, acked, healedAt>>
    BY <1>0, <1>11 DEF Restart, history
  <2>2. HealCooldown'
    BY <2>1 DEF HealCooldown
  <2>3. \A p \in Pools : LastHealTime(p)' = clock
    BY <1>0, <2>1 DEF LastHealTime
  <2> QED
    BY <1>0, <2>1, <2>2, <2>3 DEF CooldownRemembered
<1>12. CASE Cluster
  <2>1. /\ UNCHANGED <<pc, pass, baseline, lastHeal, acked, healedAt>>
        /\ clock' \in Nat /\ clock <= clock' /\ pass'.now <= clock'
        /\ pc' # "idle" => clock' <= pass'.now + MaxPass
    BY <1>0, <1>12, ClusterStep DEF memory, history
  <2> QED
    BY <2>1, CooldownKept
<1>13. CASE UNCHANGED vars
  BY <1>0, <1>13, CooldownKept DEF vars, memory, history
<1> QED
  BY <1>1, <1>2, <1>3, <1>4, <1>5, <1>6, <1>7, <1>8, <1>9, <1>10, <1>11, <1>12, <1>13
     DEF Next, HealPass

\* PER-POOL COOLDOWN (heal.go:23): in every behaviour, two deletes in one pool that
\* the agent saw succeed are by the wall clock a cooldown apart, less at most the
\* length of a pass, restarts included.
THEOREM CooldownHolds == Spec => []HealCooldown
<1>1. Init => CooldownRemembered /\ HealCooldown
  <2> SUFFICES ASSUME Init PROVE CooldownRemembered /\ HealCooldown
    OBVIOUS
  <2>1. acked = {} /\ clock = 0 /\ baseline = 0 /\ pass.now = 0 /\ pc = "idle"
    BY DEF Init, NoPass
  <2> QED
    BY <2>1 DEF Init, CooldownRemembered, HealCooldown, Never
<1>2. TypeOK /\ DeletedOnce /\ CooldownRemembered /\ HealCooldown /\ [Next]_vars
        => CooldownRemembered' /\ HealCooldown'
  BY CooldownStep
<1> QED
  BY <1>1, <1>2, TypeCorrect, DeletedOnceAlways, PTL DEF Spec

-----------------------------------------------------------------------------
LEMMA AttemptStep ==
  ASSUME TypeOK, DeletedOnce, AttemptRemembered, OneUnwedgePerMachine, [Next]_vars
  PROVE  AttemptRemembered' /\ OneUnwedgePerMachine'
<1> DEFINE Goal == AttemptRemembered' /\ OneUnwedgePerMachine'
<1>0. /\ healedAt \in [Machines -> Nat \cup {Never}] /\ unwedged \in [Machines -> Nat]
      /\ DOMAIN healDeleted \subseteq Machines /\ pass.wedged \subseteq DOMAIN healDeleted
      /\ \A m \in DOMAIN healDeleted : healDeleted[m] \in HealDeletion
  BY DEF TypeOK, PassOK, MemoryOK, HistoryOK
<1>1. ASSUME UNCHANGED <<healDeleted, healedAt, unwedged>>, pass'.wedged \subseteq pass.wedged
      PROVE  Goal
  BY <1>1 DEF AttemptRemembered, OneUnwedgePerMachine
<1>2. ASSUME NEW max \in Policies, NEW fresh \in BOOLEAN, StartPass(max, fresh) PROVE Goal
  <2>1. pass'.wedged = {}
    BY <1>2, NoPassOK DEF StartPass, PassFields
  <2> QED
    BY <1>1, <1>2, <2>1 DEF StartPass, history
<1>3. CASE KillSwitch
  BY <1>1, <1>3 DEF KillSwitch, history
<1>4. CASE ReadFails \/ StormBrake \/ EndPass
  BY <1>1, <1>4, NoPassOK DEF ReadFails, StormBrake, EndPass, memory, history
<1>5. CASE ListMachines
  <2>1. pass'.wedged = pass.wedged
    BY <1>5 DEF ListMachines, TypeOK, PassOK, PassFields
  <2> QED
    BY <1>1, <1>5, <2>1 DEF ListMachines, memory, history
<1>6. CASE ReadNodes
  <2>1. pass'.wedged = Wedged /\ healDeleted' = StillDeleting /\ UNCHANGED <<healedAt, unwedged>>
    BY <1>6 DEF ReadNodes, history, NoPass
  <2>2. /\ DOMAIN healDeleted' \subseteq DOMAIN healDeleted
        /\ \A m \in DOMAIN healDeleted' : healDeleted'[m] = healDeleted[m]
    BY <2>1 DEF StillDeleting
  <2>3. \A m \in Wedged : m \in DOMAIN healDeleted' /\ ~healDeleted[m].attempted
    BY <2>1 DEF Wedged
  <2> QED
    BY <2>1, <2>2, <2>3 DEF AttemptRemembered, OneUnwedgePerMachine
<1>7. ASSUME NEW m \in Machines, SkipUnwedge(m) PROVE Goal
  <2>1. pass'.wedged \subseteq pass.wedged
    BY <1>7 DEF SkipUnwedge, TypeOK, PassOK, PassFields
  <2> QED
    BY <1>1, <1>7, <2>1 DEF SkipUnwedge, memory, history
<1>8. ASSUME NEW m \in Machines, Unwedge(m) PROVE Goal
  <2>1. m \in DOMAIN healDeleted /\ ~healDeleted[m].attempted /\ unwedged[m] = 0 /\ healedAt[m] # Never
    BY <1>0, <1>8 DEF Unwedge, AttemptRemembered
  <2>2. /\ unwedged' = [unwedged EXCEPT ![m] = unwedged[m] + 1]
        /\ healedAt' = healedAt
    BY <1>8 DEF Unwedge
  <2>3. unwedged'[m] = 1 /\ \A k \in Machines \ {m} : unwedged'[k] = unwedged[k]
    BY <1>0, <2>1, <2>2
  <2>4. /\ DOMAIN healDeleted' = DOMAIN healDeleted
        /\ healDeleted'[m].attempted
        /\ \A k \in DOMAIN healDeleted \ {m} : healDeleted'[k] = healDeleted[k]
    BY <1>0, <1>8, <2>1 DEF Unwedge, HealDeletion
  <2>5. pass'.wedged = pass.wedged \ {m}
    BY <1>8 DEF Unwedge, TypeOK, PassOK, PassFields
  <2>6. AttemptRemembered'
    BY <1>0, <2>1, <2>2, <2>3, <2>4, <2>5 DEF AttemptRemembered
  <2>7. OneUnwedgePerMachine'
    BY <1>0, <2>3 DEF OneUnwedgePerMachine
  <2> QED
    BY <2>6, <2>7
<1>9. ASSUME NEW c \in Machines, Wait(c) \/ DeleteFails(c) \/ DeleteNotFound(c) PROVE Goal
  <2>1. pass'.wedged = pass.wedged
    BY <1>9 DEF Wait, DeleteFails, DeleteNotFound, HaltAfter, Healed, TypeOK, PassOK, PassFields
  <2>2. UNCHANGED <<healDeleted, healedAt, unwedged>>
    BY <1>9 DEF Wait, DeleteFails, DeleteNotFound, history
  <2> QED
    BY <1>1, <2>1, <2>2
<1>10. ASSUME NEW c \in Machines, DeleteReplyLost(c) PROVE Goal
  <2>1. pass'.wedged = pass.wedged /\ UNCHANGED <<healDeleted, unwedged>>
    BY <1>10 DEF DeleteReplyLost, HaltAfter, TypeOK, PassOK, PassFields
  <2>2. healedAt[c] = Never
    BY <1>10, TurnFacts DEF DeleteReplyLost, DeletedOnce
  <2>3. \A m \in Machines : m # c => healedAt'[m] = healedAt[m]
    BY <1>10, <2>2, Applied DEF DeleteReplyLost
  <2>4. \A m \in Machines : healedAt[m] # Never => healedAt'[m] # Never
    BY <2>2, <2>3
  <2> QED
    BY <1>0, <2>1, <2>4 DEF AttemptRemembered, OneUnwedgePerMachine
<1>11. ASSUME NEW c \in Machines, DeleteAccepted(c) PROVE Goal
  <2>1. pass'.wedged = pass.wedged /\ pass.wedged = {} /\ UNCHANGED unwedged
    BY <1>11 DEF DeleteAccepted, Healed, Turn, TypeOK, PassOK, PassFields
  <2>2. healedAt[c] = Never
    BY <1>11, TurnFacts DEF DeleteAccepted, DeletedOnce
  <2>3. /\ healedAt' = [healedAt EXCEPT ![c] = clock]
        /\ clock \in Nat
    BY <1>11, <2>2, Applied DEF DeleteAccepted
  <2>4. unwedged[c] = 0
    BY <2>2 DEF AttemptRemembered
  <2>5. \A m \in Machines : healedAt[m] # Never => healedAt'[m] # Never
    BY <1>0, <2>2, <2>3
  <2>6. healedAt'[c] # Never
    BY <1>0, <2>3 DEF Never
  <2>7. /\ DOMAIN healDeleted' = DOMAIN healDeleted \cup {c}
        /\ \A m \in DOMAIN healDeleted \ {c} : healDeleted'[m] = healDeleted[m]
    BY <1>11 DEF DeleteAccepted, Track
  <2> QED
    BY <1>0, <2>1, <2>4, <2>5, <2>6, <2>7 DEF AttemptRemembered, OneUnwedgePerMachine
<1>12. CASE Restart
  <2>1. DOMAIN healDeleted' = {} /\ pass'.wedged = {} /\ UNCHANGED <<healedAt, unwedged>>
    BY <1>12, NoPassOK DEF Restart, history
  <2> QED
    BY <2>1 DEF AttemptRemembered, OneUnwedgePerMachine
<1>13. CASE Cluster
  BY <1>1, <1>13, ClusterStep DEF memory, history
<1>14. CASE UNCHANGED vars
  BY <1>1, <1>14 DEF vars, memory, history
<1> QED
  BY <1>2, <1>3, <1>4, <1>5, <1>6, <1>7, <1>8, <1>9, <1>10, <1>11, <1>12, <1>13, <1>14
     DEF Next, HealPass

LEMMA AttemptsAlways == Spec => [](AttemptRemembered /\ OneUnwedgePerMachine)
<1>1. Init => AttemptRemembered /\ OneUnwedgePerMachine
  BY NoPassOK DEF Init, AttemptRemembered, OneUnwedgePerMachine
<1>2. TypeOK /\ DeletedOnce /\ AttemptRemembered /\ OneUnwedgePerMachine /\ [Next]_vars
        => AttemptRemembered' /\ OneUnwedgePerMachine'
  BY AttemptStep
<1> QED
  BY <1>1, <1>2, TypeCorrect, DeletedOnceAlways, PTL DEF Spec

\* ONE unwedge attempt per machine, ever (unwedge.go:30): in every behaviour, also
\* where restarts make the agent forget which machines it follows up.
THEOREM OneUnwedgeHolds == Spec => []OneUnwedgePerMachine
BY AttemptsAlways, PTL

-----------------------------------------------------------------------------
\* A machine that is going or gone stays so, whoever moves.
LEMMA NoReturn ==
  ASSUME TypeOK, [Next]_vars, NEW m \in Machines, mach[m] \in {"deleting", "gone"}
  PROVE  mach'[m] \in {"deleting", "gone"}
<1>1. ASSUME NEW k \in Machines,
             CreateMachine(k) \/ DeleteByOther(k) \/ FinishDelete(k) \/ ApplyDelete(k)
      PROVE  mach'[m] \in {"deleting", "gone"}
  BY <1>1 DEF TypeOK, ClusterOK, CreateMachine, DeleteByOther, FinishDelete, ApplyDelete
<1>2. ASSUME NEW k \in Machines,
             \/ SkipUnwedge(k) \/ Unwedge(k) \/ Wait(k) \/ DeleteNotFound(k) \/ DeleteFails(k)
             \/ Join(k) \/ Flip(k) \/ Evict(k) \/ ConfirmEviction(k)
      PROVE  mach' = mach
  BY <1>2 DEF SkipUnwedge, Unwedge, Wait, DeleteNotFound, DeleteFails, Join, Flip, Evict,
              ConfirmEviction, cluster
<1>3. ASSUME NEW max, NEW fresh, StartPass(max, fresh) PROVE mach' = mach
  BY <1>3 DEF StartPass, cluster
<1>4. \/ KillSwitch \/ ReadFails \/ ListMachines \/ ReadNodes \/ StormBrake \/ EndPass \/ Restart
      \/ SyncPods \/ Tick \/ UNCHANGED vars
      => mach' = mach
  BY DEF KillSwitch, ReadFails, ListMachines, ReadNodes, StormBrake, EndPass, Restart,
         SyncPods, Tick, vars, cluster
<1> QED
  BY <1>1, <1>2, <1>3, <1>4 DEF Next, HealPass, Cluster, DeleteAccepted, DeleteReplyLost

LEMMA DoneStep ==
  ASSUME TypeOK, DeletedOnce, AttemptRemembered, DoneReportsAreTrue, [Next]_vars
  PROVE  DoneReportsAreTrue'
<1>r. report \in [Machines -> {"none", "pending", "failed", "done"}]
  BY DEF TypeOK, MemoryOK
<1>1. ASSUME \A m \in Machines : report'[m] = "done" => report[m] = "done"
      PROVE  DoneReportsAreTrue'
  BY <1>1, NoReturn DEF DoneReportsAreTrue
<1>2. ASSUME NEW c \in Machines, NEW s, Report(c, s), s = "done" => mach'[c] \in {"deleting", "gone"}
      PROVE  DoneReportsAreTrue'
  <2>1. \A m \in Machines : m # c => report'[m] = report[m]
    BY <1>2, <1>r DEF Report
  <2>2. report'[c] = s
    BY <1>2, <1>r DEF Report
  <2> QED
    BY <1>2, <2>1, <2>2, NoReturn DEF DoneReportsAreTrue
<1>3. ASSUME NEW c \in Machines, Wait(c) \/ DeleteFails(c) \/ DeleteReplyLost(c)
      PROVE  DoneReportsAreTrue'
  BY <1>2, <1>3 DEF Wait, DeleteFails, DeleteReplyLost, HaltAfter
<1>4. ASSUME NEW c \in Machines, DeleteAccepted(c) PROVE DoneReportsAreTrue'
  <2>1. mach'[c] = "deleting"
    BY <1>4 DEF DeleteAccepted, ApplyDelete, TypeOK, ClusterOK
  <2> QED
    BY <1>2, <1>4, <2>1 DEF DeleteAccepted, Healed
<1>5. ASSUME NEW c \in Machines, DeleteNotFound(c) PROVE DoneReportsAreTrue'
  <2>1. mach'[c] = "gone"
    BY <1>5 DEF DeleteNotFound, cluster
  <2> QED
    BY <1>2, <1>5, <2>1 DEF DeleteNotFound, Healed
<1>6. ASSUME NEW m \in Machines, Unwedge(m) PROVE DoneReportsAreTrue'
  <2>1. m \in DOMAIN healDeleted
    BY <1>6 DEF Unwedge, TypeOK, PassOK
  <2>2. mach[m] \in {"deleting", "gone"} /\ mach' = mach
    BY <1>6, <2>1 DEF Unwedge, AttemptRemembered, DeletedOnce, cluster
  <2> QED
    BY <1>2, <1>6, <2>2 DEF Unwedge
<1>7. CASE KillSwitch \/ Restart
  BY <1>1, <1>7 DEF KillSwitch, Restart
<1>8. ASSUME NEW max, NEW fresh, StartPass(max, fresh) PROVE DoneReportsAreTrue'
  BY <1>1, <1>8 DEF StartPass
<1>9. CASE StormBrake \/ EndPass
  BY <1>1, <1>9 DEF StormBrake, EndPass, Pruned
<1>10. CASE \/ ReadFails \/ ListMachines \/ ReadNodes \/ UNCHANGED vars
            \/ \E m \in Machines : SkipUnwedge(m)
  BY <1>1, <1>10 DEF ReadFails, ListMachines, ReadNodes, SkipUnwedge, vars, memory
<1>11. CASE Cluster
  BY <1>1, <1>11, ClusterStep DEF memory
<1> QED
  BY <1>3, <1>4, <1>5, <1>6, <1>7, <1>8, <1>9, <1>10, <1>11 DEF Next, HealPass

\* A heal report that says done is about a machine that is going or gone: through
\* lost replies, deletes that found nothing, prunes and unwedge attempts.
THEOREM DoneReportsHold == Spec => []DoneReportsAreTrue
<1>1. Init => DoneReportsAreTrue
  BY DEF Init, DoneReportsAreTrue
<1> QED
  BY <1>1, DoneStep, AttemptsAlways, TypeCorrect, DeletedOnceAlways, PTL DEF Spec

-----------------------------------------------------------------------------
(* Whom the healer deletes.                                                 *)

LEMMA SickStep ==
  ASSUME TypeOK, CandidatesAreSick, [Next]_vars
  PROVE  CandidatesAreSick'
<1>p. pass \in PassFields
  BY DEF TypeOK, PassOK
<1>1. ASSUME pc' \in {"idle", "list"} PROVE CandidatesAreSick'
  BY <1>1 DEF CandidatesAreSick
<1>2. ASSUME pc = "act", pc' = pc, pass'.todo \subseteq pass.todo, pass'.sick = pass.sick,
             pass'.joined = pass.joined
      PROVE  CandidatesAreSick'
  BY <1>2 DEF CandidatesAreSick, Spared
<1>3. CASE ListMachines
  <2>1. pc' = "nodes" /\ pass'.cands = Joinless /\ pass'.joined = joined
    BY <1>3, <1>p DEF ListMachines, PassFields
  <2> QED
    BY <2>1 DEF CandidatesAreSick, Joinless
<1>4. CASE ReadNodes
  <2>1. /\ pc' = "act"
        /\ pass'.todo = pass.cands \cup NotReady
        /\ pass'.sick = pass.cands \cup (LongNotReady \cap (pass.live \cup pass.deleting))
        /\ pass'.joined = pass.joined
    BY <1>4 DEF ReadNodes, NoPass
  <2>2. pass.cands \cap (pass.joined \cup CPMachines) = {}
    BY <1>4 DEF ReadNodes, CandidatesAreSick
  <2> QED
    BY <2>1, <2>2 DEF CandidatesAreSick, NotReady, Spared
<1>5. ASSUME NEW m \in Machines, SkipUnwedge(m) \/ Unwedge(m) PROVE CandidatesAreSick'
  BY <1>5, <1>2, <1>p DEF SkipUnwedge, Unwedge, PassFields
<1>6. ASSUME NEW c \in Machines,
             \/ Wait(c) \/ DeleteAccepted(c) \/ DeleteNotFound(c) \/ DeleteFails(c)
             \/ DeleteReplyLost(c)
      PROVE  CandidatesAreSick'
  BY <1>6, <1>2, <1>p
     DEF Wait, DeleteAccepted, DeleteNotFound, DeleteFails, DeleteReplyLost, Turn, Healed,
         HaltAfter, PassFields
<1>7. CASE ReadFails \/ StormBrake \/ EndPass \/ Restart
  BY <1>7, <1>1 DEF ReadFails, StormBrake, EndPass, Restart
<1>8. ASSUME NEW max, NEW fresh, StartPass(max, fresh) PROVE CandidatesAreSick'
  BY <1>8, <1>1 DEF StartPass
<1>9. CASE KillSwitch \/ Cluster \/ UNCHANGED vars
  <2>1. UNCHANGED <<pc, pass>>
    BY <1>9 DEF KillSwitch, Cluster, CreateMachine, Join, Flip, DeleteByOther, Evict,
                ConfirmEviction, FinishDelete, SyncPods, Tick, vars
  <2> QED
    BY <2>1 DEF CandidatesAreSick, Spared
<1> QED
  BY <1>3, <1>4, <1>5, <1>6, <1>7, <1>8, <1>9 DEF Next, HealPass

\* A delete is of a candidate in its turn, which the policy does not refuse.
LEMMA SickRespected ==
  ASSUME TypeOK, DeletedOnce, CandidatesAreSick, [Next]_vars,
         NEW m \in Machines, healedAt[m] # healedAt'[m]
  PROVE  m \in pass.sick \ Spared /\ ~Refused(m)
<1>1. ~Cluster
  BY ClusterStep DEF history
<1>2. PICK c \in Machines : DeleteAccepted(c) \/ DeleteReplyLost(c)
  BY <1>1, OnlyDeletesAreRecorded
<1>3. ApplyDelete(c) /\ pc = "act" /\ c \in pass.todo /\ ~Refused(c)
  BY <1>2, TurnFacts DEF DeleteAccepted, DeleteReplyLost, MayDelete
<1>4. m = c
  BY <1>3, Applied DEF DeletedOnce
<1> QED
  BY <1>3, <1>4 DEF CandidatesAreSick

\* Whatever moves between its reads and its deletes, the healer only deletes a
\* machine of a pool it may act on that it saw this pass not Ready, its node without
\* a control-plane label, or never joined, without one of its own (heal.go:164, 184).
THEOREM OnlyTheSickAreHealed == Spec => OnlyUnhealthyWorkersHealed
<1>1. Init => CandidatesAreSick
  BY DEF Init, CandidatesAreSick
<1>2. TypeOK /\ CandidatesAreSick /\ [Next]_vars => CandidatesAreSick'
  BY SickStep
<1>3. TypeOK /\ DeletedOnce /\ CandidatesAreSick /\ [Next]_vars
        => [\A m \in Machines : healedAt[m] # healedAt'[m] =>
              m \in pass.sick \ Spared /\ ~Refused(m)]_vars
  BY SickRespected
<1> QED
  BY <1>1, <1>2, <1>3, TypeCorrect, DeletedOnceAlways, PTL
     DEF Spec, OnlyUnhealthyWorkersHealed

-----------------------------------------------------------------------------
\* The UID precondition: whatever the pod informer still shows, a force-delete that
\* goes through is of the pod that was terminating (unwedge.go:27).
THEOREM ReplacementsSurvive == Spec => []ReplacementPodSurvives
<1>1. Init => ReplacementPodSurvives
  BY DEF Init, ReplacementPodSurvives
<1>2. TypeOK /\ DeletedOnce /\ ReplacementPodSurvives /\ [Next]_vars => ReplacementPodSurvives'
  <2> SUFFICES ASSUME TypeOK, DeletedOnce, killed = {}, [Next]_vars PROVE killed' = {}
    BY DEF ReplacementPodSurvives
  <2>1. ASSUME NEW m \in Machines, Unwedge(m) PROVE killed' = killed
    BY <2>1 DEF Unwedge, PreconditionHolds
  <2>2. UNCHANGED history => killed' = killed
    BY DEF history
  <2>3. ASSUME NEW c \in Machines, DeleteAccepted(c) \/ DeleteReplyLost(c) PROVE killed' = killed
    BY <2>3 DEF DeleteAccepted, DeleteReplyLost
  <2>4. Cluster => killed' = killed
    BY ClusterStep, <2>2
  <2> QED
    BY <2>1, <2>2, <2>3, <2>4
       DEF Next, HealPass, StartPass, KillSwitch, ReadFails, ListMachines, ReadNodes, StormBrake,
           EndPass, SkipUnwedge, Wait, DeleteNotFound, DeleteFails, Restart, vars
<1> QED
  BY <1>1, <1>2, TypeCorrect, DeletedOnceAlways, PTL DEF Spec
=============================================================================
