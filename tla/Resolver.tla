------------------------------ MODULE Resolver ------------------------------
(***************************************************************************)
(* Which MachineDeployment a Machine belongs to (PoolResolver,             *)
(* internal/machines/machines.go): the question every action of the agent  *)
(* on a machine depends on.  Pure operators.                               *)
(*                                                                         *)
(* A MachineDeployment is its name and the labels its selector requires; a *)
(* Machine is its labels and, for each MachineSet that owns it, the name   *)
(* that is left without the last segment.  Names are numbers, in the       *)
(* lexicographic order the resolver goes through them in.                  *)
(***************************************************************************)
EXTENDS Integers, Sequences

CONSTANT Unowned   \* the answer when no owner can be established

NamesOf(mds) == {d.name : d \in mds}

\* parseSelector: one that is missing, cannot be parsed or is empty claims nothing,
\* though an empty selector would match every machine.
Unreadable == {}
Claims(d, m) == d.selector # Unreadable /\ d.selector \subseteq m.labels
Claimants(mds, m) == {d.name : d \in {e \in mds : Claims(e, m)}}

First(S) == CHOOSE x \in S : \A y \in S : x <= y

\* The owner references whose name is that of a known MachineDeployment.
OwnedBy(mds, m) == {i \in DOMAIN m.owners : m.owners[i] \in NamesOf(mds)}

PoolFor(mds, m) ==
  IF Claimants(mds, m) # {} THEN First(Claimants(mds, m))
  ELSE IF OwnedBy(mds, m) # {} THEN m.owners[First(OwnedBy(mds, m))]
  ELSE Unowned
=============================================================================
