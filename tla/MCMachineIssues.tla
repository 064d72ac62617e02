-------------------------- MODULE MCMachineIssues --------------------------
(* Instances of MachineIssues for TLC.                                      *)
EXTENDS MachineIssues

OnePool == [m \in Machines |-> 1]
=============================================================================
