------------------------------ MODULE Inventory ------------------------------
(***************************************************************************)
(* The inventory manager (internal/inventory/manager.go): it polls the     *)
(* ClusterInventory resource and writes the server's verdicts on available *)
(* updates, which come with the heartbeat replies, to the resource's       *)
(* status.  Two goroutines share its state: its own (fetchOnce) and the    *)
(* Sender's (HandleUpdates, called while a heartbeat is being delivered).  *)
(* Each of them holds the lock only around its accesses to that state,     *)
(* never across a call to the apiserver.  Names that Sender has too are    *)
(* qualified: SenderProofs extends both.                                   *)
(*                                                                         *)
(* A verdict is the empty list (Clear) or a value that stands for a list   *)
(* of updates.  An inventory is a value, one per deployment.               *)
(***************************************************************************)
EXTENDS Naturals

CONSTANTS
  Verdicts,     \* what the server may answer besides Clear
  Clear,        \* the verdict []: the index was consulted, nothing is newer
  MaxDeploys,   \* bound of the model: deployments that write the resource
  MaxDeletes,   \* bound of the model: deletions of the resource
  MaxVerdicts,  \* bound of the model: how often the server changes its verdict
  MaxApiFaults  \* bound of the model: calls that fail by themselves

NoSpec == 0                \* no resource, no inventory
Unrecorded == "unrecorded" \* status.availableUpdates is not there
None == "none"             \* no verdict, no reply yet
Poll == "poll"             \* the manager's goroutine
Send == "send"             \* the Sender's

ASSUME VerdictsAssumption ==
  /\ Clear \notin Verdicts /\ {None, Unrecorded} \cap (Verdicts \cup {Clear}) = {}
  /\ {MaxDeploys, MaxDeletes, MaxVerdicts, MaxApiFaults} \subseteq Nat

VARIABLES
  spec,      \* the resource's spec: NoSpec, or the number of the deployment
  status,    \* its status.availableUpdates
  verdict,   \* the server's present verdict, or None: the key is not sent
  inv, present, statusUpdates, statusRecorded, \* Manager's fields
  notifying, \* the goroutines between the unlock and the notify of setState
  signalled, \* notify was called since the payload was last built
  beaten,    \* inventory in the newest payload
  fetch,     \* fetchOnce: "idle" or what its GET returned
  handle,    \* HandleUpdates: "idle" or the verdict it is about to write
  reply,     \* what the patch answered: None, "ok", "notfound" or "error"
  deploys, deletes, verdicts, apiFaults \* counters of the bounded events

resource == <<spec, status>>
manager == <<inv, present, statusUpdates, statusRecorded>>
payload == <<notifying, signalled, beaten>>
bounds == <<deploys, deletes, verdicts, apiFaults>>
inventoryVars == <<resource, verdict, manager, payload, fetch, handle, reply, bounds>>

Idle == [got |-> FALSE, spec |-> NoSpec, status |-> Unrecorded]

-----------------------------------------------------------------------------
InventoryInit ==
  /\ spec = NoSpec /\ status = Unrecorded
  /\ verdict = None
  /\ inv = NoSpec /\ present = FALSE /\ statusUpdates = Clear /\ statusRecorded = FALSE
  /\ notifying = {} /\ signalled = FALSE /\ beaten = NoSpec
  /\ fetch = Idle /\ handle = None /\ reply = None
  /\ deploys = 0 /\ deletes = 0 /\ verdicts = 0 /\ apiFaults = 0

-----------------------------------------------------------------------------
(* The manager's goroutine.                                                *)

\* setState, called by goroutine g: it compares and stores under the lock, and
\* signals the coalescer afterwards when the spec changed.
\* (Mutant first: the comparison comes after the assignment.)
SetStateQuietly(g, s, u, r, p) ==
  /\ inv' = s /\ statusUpdates' = u /\ statusRecorded' = r /\ present' = p
  /\ UNCHANGED notifying
SetState(g, s, u, r, p) ==
  /\ inv' = s /\ statusUpdates' = u /\ statusRecorded' = r /\ present' = p
  /\ notifying' = IF s # inv THEN notifying \cup {g} ELSE notifying

Notify(g) ==
  /\ g \in notifying
  /\ notifying' = notifying \ {g}
  /\ signalled' = TRUE
  /\ UNCHANGED <<resource, verdict, manager, beaten, fetch, handle, reply, bounds>>

\* The resource is not there or cannot be read: no inventory is reported.
Gone(g) == SetState(g, NoSpec, Clear, FALSE, FALSE)

\* Mutant of UpdatesOf: a poll does not read the status.
UpdatesNotRead(u) == Clear

\* statusAvailableUpdates: a key that is not there is an empty, unrecorded list.
UpdatesOf(u) == IF u = Unrecorded THEN Clear ELSE u

Get ==
  /\ ~fetch.got /\ Poll \notin notifying
  /\ fetch' = [got |-> TRUE, spec |-> spec, status |-> status]
  /\ UNCHANGED <<resource, verdict, manager, payload, handle, reply, bounds>>

Store ==
  /\ fetch.got
  /\ IF fetch.spec = NoSpec
     THEN Gone(Poll)
     ELSE SetState(Poll, fetch.spec, UpdatesOf(fetch.status), fetch.status # Unrecorded, TRUE)
  /\ fetch' = Idle
  /\ UNCHANGED <<resource, verdict, signalled, beaten, handle, reply, bounds>>

\* The GET fails: no inventory is reported until one succeeds.
GetFails ==
  /\ ~fetch.got /\ Poll \notin notifying /\ apiFaults < MaxApiFaults
  /\ apiFaults' = apiFaults + 1
  /\ Gone(Poll)
  /\ UNCHANGED <<resource, verdict, signalled, beaten, fetch, handle, reply, deploys, deletes, verdicts>>

-----------------------------------------------------------------------------
(* The Sender's goroutine, in a heartbeat whose reply carries the verdict. *)

\* Mutant of Unchanged: a list that was never recorded counts as empty.
UnchangedOrClear(v) == statusUpdates = v
Unchanged(v) == statusRecorded /\ statusUpdates = v

\* Without a resource, or when it shows the verdict already, nothing is written.
Check ==
  /\ handle = None /\ verdict # None /\ Send \notin notifying
  /\ present /\ ~Unchanged(verdict)
  /\ handle' = verdict
  /\ UNCHANGED <<resource, verdict, manager, payload, fetch, reply, bounds>>

\* The merge patch of the status subresource arrives at the apiserver.
Patch ==
  /\ handle # None /\ reply = None
  /\ \/ spec # NoSpec /\ status' = handle /\ reply' = "ok"
     \/ spec = NoSpec /\ reply' = "notfound" /\ UNCHANGED status
  /\ UNCHANGED <<spec, verdict, manager, payload, fetch, handle, bounds>>

\* Forbidden or any other error: logged, to be tried again on a later beat.
PatchFails ==
  /\ handle # None /\ reply = None /\ apiFaults < MaxApiFaults
  /\ apiFaults' = apiFaults + 1
  /\ reply' = "error"
  /\ \/ spec # NoSpec /\ status' = handle
     \/ UNCHANGED status
  /\ UNCHANGED <<spec, verdict, manager, payload, fetch, handle, deploys, deletes, verdicts>>

Remember == statusUpdates' = handle /\ statusRecorded' = TRUE

Finish ==
  /\ reply # None
  /\ \/ reply = "ok" /\ Remember /\ UNCHANGED <<inv, present, notifying>>
     \/ reply = "notfound" /\ Gone(Send)
     \/ reply = "error" /\ UNCHANGED <<manager, notifying>>
  /\ handle' = None /\ reply' = None
  /\ UNCHANGED <<resource, verdict, signalled, beaten, fetch, bounds>>

-----------------------------------------------------------------------------
(* The surroundings.                                                       *)

\* The coalescer builds a payload: because it was signalled, or its period came.
Beat ==
  /\ signalled' = FALSE
  /\ beaten' = inv
  /\ UNCHANGED <<resource, verdict, manager, notifying, fetch, handle, reply, bounds>>

\* A deployment writes the spec, or the resource is deleted and with it its
\* status; the server comes to another verdict, or sends none.
Deploy ==
  /\ deploys < MaxDeploys
  /\ deploys' = deploys + 1
  /\ spec' = deploys + 1
  /\ UNCHANGED <<status, verdict, manager, payload, fetch, handle, reply, deletes, verdicts,
                 apiFaults>>

Delete ==
  /\ spec # NoSpec /\ deletes < MaxDeletes
  /\ deletes' = deletes + 1
  /\ spec' = NoSpec /\ status' = Unrecorded
  /\ UNCHANGED <<verdict, manager, payload, fetch, handle, reply, deploys, verdicts, apiFaults>>

ChangeVerdict ==
  /\ verdicts < MaxVerdicts
  /\ verdicts' = verdicts + 1
  /\ verdict' \in (Verdicts \cup {Clear, None}) \ {verdict}
  /\ UNCHANGED <<resource, manager, payload, fetch, handle, reply, deploys, deletes, apiFaults>>
-----------------------------------------------------------------------------
Manager == Get \/ Store \/ Notify(Poll)
Handler == Check \/ Patch \/ Finish \/ Notify(Send)

InventoryNext ==
  \/ Manager \/ GetFails \/ Handler \/ PatchFails
  \/ Beat \/ Deploy \/ Delete \/ ChangeVerdict

\* The manager polls, and the Sender goes on delivering heartbeats whose replies
\* carry the verdict.  Nothing is assumed of deployments, verdicts or faults.
InventorySpec ==
  /\ InventoryInit /\ [][InventoryNext]_inventoryVars
  /\ WF_inventoryVars(Manager) /\ WF_inventoryVars(Handler)

-----------------------------------------------------------------------------
(* Properties.                                                             *)

\* A deployment or a deletion the manager saw reaches the dashboard without
\* waiting for the periodic beat: what is not in the payload is signalled, or
\* about to be.
InventoryIsSignalled == beaten # inv => signalled \/ notifying # {}

\* A verdict that stays is written to the resource, the explicit [] to a fresh
\* one too (manager.go:163), through polls that race the write.
EventuallyMirrored ==
  \A v \in Verdicts \cup {Clear} :
    (spec # NoSpec /\ verdict = v) ~> (status = v \/ spec = NoSpec \/ verdict # v)

\* A server repeating itself stops costing writes: polls and writes do not keep
\* each other going.
EventuallyQuiet == <>[][ ~(reply = None /\ reply' # None) ]_inventoryVars
=============================================================================
