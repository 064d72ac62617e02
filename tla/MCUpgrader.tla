----------------------------- MODULE MCUpgrader -----------------------------
(* Instances of Upgrader for TLC: two slots for each worker pool, so that a *)
(* replacement can exist beside the machine it replaces.                    *)
EXTENDS Upgrader

TwoSlots == [i \in Machines |-> (i + 1) \div 2]
OneReplica == [p \in Pools |-> 1]
AllWorkers == [p \in Pools |-> "worker"]
Both == {{1, 2}}

\* Pools of the refused kinds around the workers 1 and 2, a malformed name, and one
\* worker more than a pass takes.
Mixed == [p \in Pools |-> CASE p = 0 -> "autoscaled" [] p = 3 -> "unversioned"
                            [] p = 4 -> "missing" [] p = 5 -> "malformed"
                            [] OTHER -> "worker"]
MixedReplicas == [p \in Pools |-> IF p \in 1..2 THEN 1 ELSE 0]
MixedSets == {Pools}

AllTargets == Versions \cup {None, Invalid}
=============================================================================
