------------------------------ MODULE MCBeats ------------------------------
EXTENDS Beats

MCNamespace == <<1, 1, 1, 2>>
MCTimes == <<{1}, {1, 2}>>
MCStored == "inventory" :> {2}
Condition(t, s) == [type |-> t, status |-> s]
MCNodeStates ==
  {[roles |-> {}, conditions |-> <<Condition("DiskPressure", "False"), Condition("Ready", "True")>>]}
=============================================================================
