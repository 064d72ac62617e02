------------------------------ MODULE MCHealer ------------------------------
(* Instances of Healer for TLC: which machine belongs to which pool.       *)
EXTENDS Healer, Sequences

R == INSTANCE Resolver

\* Pool 1 claims its machines by a label.  Pool 2 has a selector nobody can read:
\* only owner references lead to it.
Deployments == {[name |-> 1, selector |-> {"pool-1"}],
                [name |-> 2, selector |-> R!Unreadable]}

Claimed == [labels |-> {"pool-1", "zone"}, owners |-> <<2, 1>>]
Owned == [labels |-> {"zone"}, owners |-> <<3, 2>>]
Stray == [labels |-> {"zone"}, owners |-> <<3>>]

\* Machine 2 is of a pool whose repair the policy refuses; machine 4 is nobody's.
Mixed == [m \in Machines |->
            R!PoolFor(Deployments, CASE m = 2 -> Owned [] m = 4 -> Stray [] OTHER -> Claimed)]

OnePool == [m \in Machines |-> R!PoolFor(Deployments, Claimed)]
=============================================================================
