----------------------------- MODULE Heartbeats -----------------------------
(***************************************************************************)
(* What the delivery of heartbeats promises, whatever carries it.  The     *)
(* agent produces full-state payloads, numbered in the order they were     *)
(* built; the server knows the last one it received.  A payload may be     *)
(* skipped for a newer one, a payload may be received more than once, but  *)
(* the server's knowledge never goes back, and as long as the agent runs   *)
(* it does not stay behind for ever.                                       *)
(***************************************************************************)
EXTENDS Naturals

VARIABLES
  newest,   \* number of the newest payload produced (0: none yet)
  seen,     \* number of the newest payload the server received
  stopped   \* the agent is shutting down

hbVars == <<newest, seen, stopped>>

Init == newest = 0 /\ seen = 0 /\ stopped = FALSE

Produce ==
  /\ newest' = newest + 1
  /\ UNCHANGED <<seen, stopped>>

Deliver ==
  /\ seen < newest
  /\ seen' \in (seen + 1)..newest
  /\ UNCHANGED <<newest, stopped>>

Shutdown ==
  /\ stopped' = TRUE
  /\ UNCHANGED <<newest, seen>>

Next == Produce \/ Deliver \/ Shutdown

SafeSpec == Init /\ [][Next]_hbVars

\* Delivery never falls behind for good, unless the agent stops.
Spec == SafeSpec /\ WF_hbVars(Deliver /\ ~stopped)
=============================================================================
