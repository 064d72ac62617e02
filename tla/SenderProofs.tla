---------------------------- MODULE SenderProofs ----------------------------
(***************************************************************************)
(* Theorems about Sender for every number of payloads, faults and          *)
(* re-enrolments: no wake-up and no payload is lost, nothing stale is      *)
(* delivered, a rejected token is paced, and the Sender is a safe          *)
(* implementation of Heartbeats.  And one about Inventory, whose           *)
(* HandleUpdates runs on the Sender's goroutine.                           *)
(***************************************************************************)
EXTENDS Sender, Inventory, TLAPS

-----------------------------------------------------------------------------
(* Type correctness.                                                       *)

\* Every variable keeps its type, and Publish never gets a nil payload.
THEOREM TypeCorrect == Spec => []TypeOK
<1>1. ASSUME Init PROVE TypeOK
  <2>1. wake \in BOOLEAN /\ enqueuing \in BOOLEAN /\ cancelled \in BOOLEAN
    BY <1>1, Zenon DEF Init
  <2> QED
    BY <1>1, <2>1 DEF Init, TypeOK, Nil
<1>2. ASSUME TypeOK, [Next]_vars PROVE TypeOK'
  <2>1. CASE EnqueueStore
    BY <1>2, <2>1 DEF TypeOK, EnqueueStore, history, tokens
  <2>2. CASE EnqueueWake
    BY <1>2, <2>2 DEF TypeOK, EnqueueWake, history, tokens
  <2>3. CASE Wake
    BY <1>2, <2>3 DEF TypeOK, Wake, history, tokens
  <2>4. CASE Take
    BY <1>2, <2>4 DEF TypeOK, Take, history, tokens, slot
  <2>5. CASE PublishOK
    BY <1>2, <2>5 DEF TypeOK, PublishOK, ClearedIfSame, tokens, Nil
  <2>6. CASE PublishFails
    BY <1>2, <2>6 DEF TypeOK, PublishFails, tokens, slot
  <2>7. CASE PublishRejected
    BY <1>2, <2>7 DEF TypeOK, PublishRejected, tokens, slot
  <2>8. CASE AuthWait \/ BackoffElapsed \/ Select
    BY <1>2, <2>8 DEF TypeOK, AuthWait, BackoffElapsed, Select, history, tokens, slot
  <2>9. CASE Return
    BY <1>2, <2>9 DEF TypeOK, Return, tokens, slot
  <2>10. CASE Rotate \/ SourceUpdate
    BY <1>2, <2>10 DEF TypeOK, Rotate, SourceUpdate, history, tokens, slot
  <2>11. CASE UNCHANGED vars
    BY <1>2, <2>11 DEF TypeOK, vars, history, tokens, slot
  <2>12. CASE BackoffPreempted
    BY <1>2, <2>12 DEF TypeOK, BackoffPreempted, history, tokens
  <2>13. CASE Cancel
    BY <1>2, <2>13 DEF TypeOK, Cancel, history, tokens, slot
  <2> QED
    BY <1>2, <2>1, <2>2, <2>3, <2>4, <2>5, <2>6, <2>7, <2>8, <2>9, <2>10, <2>11, <2>12, <2>13
       DEF Next, Run
<1> QED
  BY <1>1, <1>2, PTL DEF Spec

-----------------------------------------------------------------------------
(* The slot.                                                               *)

\* Each step of the Coalescer, the Sender and their surroundings keeps the
\* numbering of the slot.
LEMMA SlotStep ==
  ASSUME TypeOK, SlotInv, [Next]_vars
  PROVE  SlotInv'
<1>1. CASE EnqueueStore
  BY <1>1 DEF TypeOK, SlotInv, EnqueueStore, history, tokens, Nil
<1>2. CASE EnqueueWake \/ Wake \/ BackoffPreempted
  BY <1>2 DEF TypeOK, SlotInv, EnqueueWake, Wake, BackoffPreempted, history, tokens
<1>3. CASE Take
  BY <1>3 DEF TypeOK, SlotInv, Take, history, slot, Nil
<1>4. CASE PublishOK
  BY <1>4 DEF TypeOK, SlotInv, PublishOK, ClearedIfSame, Nil
<1>5. CASE PublishFails
  BY <1>5 DEF TypeOK, SlotInv, PublishFails, slot
<1>6. CASE PublishRejected
  BY <1>6 DEF TypeOK, SlotInv, PublishRejected, slot
<1>7. CASE AuthWait \/ BackoffElapsed \/ Select
  BY <1>7 DEF TypeOK, SlotInv, AuthWait, BackoffElapsed, Select, history, slot
<1>8. CASE Return
  BY <1>8 DEF TypeOK, SlotInv, Return, slot
<1>9. CASE Rotate \/ SourceUpdate \/ Cancel \/ UNCHANGED vars
  BY <1>9 DEF TypeOK, SlotInv, Rotate, SourceUpdate, Cancel, vars, history, slot
<1> QED
  BY <1>1, <1>2, <1>3, <1>4, <1>5, <1>6, <1>7, <1>8, <1>9 DEF Next, Run

\* The numbering of the slot is an invariant.
THEOREM SlotHolds == Spec => [](TypeOK /\ SlotInv)
<1>1. Init => SlotInv
  BY DEF Init, SlotInv, Nil
<1> QED
  BY <1>1, SlotStep, TypeCorrect, PTL DEF Spec

\* An empty slot means that the newest payload was acknowledged.
THEOREM EmptySlot == Spec => []EmptyMeansDelivered
<1>1. SlotInv => EmptyMeansDelivered
  BY DEF SlotInv, EmptyMeansDelivered
<1> QED
  BY <1>1, SlotHolds, PTL

\* What a step does to the server's knowledge: it stays, or becomes the payload
\* that Run holds.
LEMMA SeenStep ==
  ASSUME TypeOK, SlotInv, [Next]_vars
  PROVE  seen' = seen \/ (seen' = p /\ seen <= p /\ p <= enqueued /\ enqueued' = enqueued
                          /\ cancelled' = cancelled)
<1>1. CASE EnqueueStore \/ EnqueueWake \/ Wake \/ Take
  BY <1>1 DEF EnqueueStore, EnqueueWake, Wake, Take, history
<1>2. CASE PublishOK \/ PublishFails \/ PublishRejected \/ Return
  BY <1>2 DEF SlotInv, PublishOK, PublishFails, PublishRejected, Return, slot
<1>3. CASE AuthWait \/ BackoffElapsed \/ BackoffPreempted \/ Select
  BY <1>3 DEF AuthWait, BackoffElapsed, BackoffPreempted, Select, history
<1>4. CASE Rotate \/ SourceUpdate \/ Cancel \/ UNCHANGED vars
  BY <1>4 DEF Rotate, SourceUpdate, Cancel, vars, history
<1> QED
  BY <1>1, <1>2, <1>3, <1>4 DEF Next, Run

\* No payload reaches the server after a newer one.
THEOREM NothingStale == Spec => NothingStaleDelivered
<1>1. TypeOK /\ SlotInv /\ [Next]_vars => [seen' >= seen]_vars
  BY SeenStep DEF TypeOK
<1> QED
  BY <1>1, SlotHolds, PTL DEF Spec, NothingStaleDelivered

-----------------------------------------------------------------------------
(* Wake-ups and pacing.                                                    *)

\* No interleaving of Enqueue and Run loses the wake-up.
THEOREM WakeupKept == Spec => []NoLostWakeup
<1>1. Init => NoLostWakeup
  BY DEF Init, NoLostWakeup
<1>2. ASSUME NoLostWakeup, [Next]_vars PROVE NoLostWakeup'
  <2>1. CASE EnqueueStore \/ EnqueueWake
    BY <2>1 DEF NoLostWakeup, EnqueueStore, EnqueueWake
  <2>2. CASE Take \/ Select
    BY <1>2, <2>2 DEF NoLostWakeup, Take, Select, slot
  <2>3. CASE Wake \/ PublishOK \/ PublishFails \/ PublishRejected
    BY <2>3 DEF NoLostWakeup, Wake, PublishOK, PublishFails, PublishRejected
  <2>4. CASE AuthWait \/ BackoffElapsed \/ BackoffPreempted \/ Return
    BY <2>4 DEF NoLostWakeup, AuthWait, BackoffElapsed, BackoffPreempted, Return
  <2>5. CASE Rotate \/ SourceUpdate \/ Cancel \/ UNCHANGED vars
    BY <1>2, <2>5 DEF NoLostWakeup, Rotate, SourceUpdate, Cancel, vars, slot
  <2> QED
    BY <1>2, <2>1, <2>2, <2>3, <2>4, <2>5 DEF Next, Run
<1> QED
  BY <1>1, <1>2, PTL DEF Spec

\* A rejected token is not tried a second time before a full wait.
THEOREM TokenPaced == Spec => []RejectedTokenIsPaced
<1>1. Init => PacedInv
  BY DEF Init, PacedInv
<1>2. ASSUME PacedInv, [Next]_vars PROVE PacedInv'
  <2>1. CASE EnqueueStore \/ EnqueueWake \/ Wake \/ Take \/ Select
    BY <1>2, <2>1 DEF PacedInv, EnqueueStore, EnqueueWake, Wake, Take, Select, history
  <2>2. CASE PublishOK \/ PublishFails \/ PublishRejected
    BY <1>2, <2>2 DEF PacedInv, PublishOK, PublishFails, PublishRejected
  <2>3. CASE AuthWait \/ BackoffElapsed \/ BackoffPreempted \/ Return
    BY <1>2, <2>3 DEF PacedInv, AuthWait, BackoffElapsed, BackoffPreempted, Return, history
  <2>4. CASE Rotate \/ SourceUpdate \/ Cancel \/ UNCHANGED vars
    BY <1>2, <2>4 DEF PacedInv, Rotate, SourceUpdate, Cancel, vars, history
  <2> QED
    BY <1>2, <2>1, <2>2, <2>3, <2>4 DEF Next, Run
<1>3. PacedInv => RejectedTokenIsPaced
  BY DEF PacedInv, RejectedTokenIsPaced
<1> QED
  BY <1>1, <1>2, <1>3, PTL DEF Spec

-----------------------------------------------------------------------------
(* Refinement.                                                             *)

\* Each step of the Sender is a step of Heartbeats, or leaves its state alone.
LEMMA StepRefines ==
  ASSUME TypeOK, SlotInv, [Next]_vars
  PROVE  [HB!Next]_(HB!hbVars)
<1> USE DEF HB!Next, HB!Produce, HB!Deliver, HB!Shutdown, HB!hbVars
<1>1. CASE EnqueueStore
  BY <1>1 DEF EnqueueStore, history
<1>2. CASE EnqueueWake \/ Wake \/ Take \/ PublishOK \/ PublishFails \/ PublishRejected \/ Return
  <2>1. enqueued' = enqueued /\ cancelled' = cancelled
    BY <1>2 DEF EnqueueWake, Wake, Take, PublishOK, PublishFails, PublishRejected, Return, slot
  <2>2. seen' # seen => seen < enqueued /\ seen' \in (seen + 1)..enqueued
    BY SeenStep DEF TypeOK
  <2> QED
    BY <2>1, <2>2
<1>3. CASE AuthWait \/ BackoffElapsed \/ BackoffPreempted \/ Select
  BY <1>3 DEF AuthWait, BackoffElapsed, BackoffPreempted, Select, slot, history
<1>4. CASE Rotate \/ SourceUpdate \/ Cancel \/ UNCHANGED vars
  BY <1>4 DEF Rotate, SourceUpdate, Cancel, vars, slot, history
<1> QED
  BY <1>1, <1>2, <1>3, <1>4 DEF Next, Run

\* Every behaviour of the Sender is one that Heartbeats allows.
THEOREM SafelyDelivers == Spec => HB!SafeSpec
<1>1. Init => HB!Init
  BY DEF Init, HB!Init
<1> QED
  BY <1>1, StepRefines, SlotHolds, PTL DEF Spec, HB!SafeSpec

-----------------------------------------------------------------------------
(* The inventory manager, which the Sender calls with the verdicts of the   *)
(* replies, for all verdicts, deployments and deletions of the resource.    *)

\* setState owes a signal for what it changes.
LEMMA SetStateSignals ==
  ASSUME NEW g, NEW s, NEW u, NEW r, NEW q,
         InventoryIsSignalled, SetState(g, s, u, r, q), UNCHANGED <<signalled, beaten>>
  PROVE  InventoryIsSignalled'
<1>1. CASE s = inv
  BY <1>1 DEF SetState, InventoryIsSignalled
<1>2. CASE s # inv
  <2>1. g \in notifying'
    BY <1>2 DEF SetState
  <2> QED
    BY <2>1 DEF InventoryIsSignalled
<1> QED
  BY <1>1, <1>2

LEMMA InventoryStep ==
  ASSUME InventoryIsSignalled, [InventoryNext]_inventoryVars
  PROVE  InventoryIsSignalled'
<1> USE DEF resource, manager, payload, bounds
<1>1. CASE Store
  BY <1>1, SetStateSignals DEF Store, Gone
<1>2. CASE GetFails
  BY <1>2, SetStateSignals DEF GetFails, Gone
<1>3. CASE Finish
  <2>1. CASE reply = "notfound"
    BY <1>3, <2>1, SetStateSignals DEF Finish, Gone
  <2>2. CASE reply # "notfound"
    BY <1>3, <2>2 DEF Finish, Remember, InventoryIsSignalled
  <2> QED
    BY <2>1, <2>2
<1>4. CASE Beat \/ \E g : Notify(g)
  BY <1>4 DEF Beat, Notify, InventoryIsSignalled
<1>5. CASE UNCHANGED <<inv, payload>>
  BY <1>5 DEF InventoryIsSignalled
<1> QED
  BY <1>1, <1>2, <1>3, <1>4, <1>5
     DEF InventoryNext, inventoryVars, Manager, Handler, Get, Check, Patch, PatchFails, Deploy,
         Delete, ChangeVerdict

\* A deployment that the manager saw reaches a heartbeat without waiting for the
\* periodic one, whichever goroutine stored it (manager.go:257).
THEOREM InventorySignalled == InventorySpec => []InventoryIsSignalled
<1>1. InventoryInit => InventoryIsSignalled
  BY DEF InventoryInit, InventoryIsSignalled
<1> QED
  BY <1>1, InventoryStep, PTL DEF InventorySpec
=============================================================================
