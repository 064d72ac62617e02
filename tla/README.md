# kubehz-agent: a verification project

TLA+ models of kubehz-agent (`src/`, Go), the TLC configurations that check them,
and proofs that TLAPS checks. Everything is translated from the code; where the
code and one of its comments disagree, the model follows the code and the
disagreement is stated below. Line numbers refer to the files under
`src/internal/` unless a path says otherwise.

## The system

kubehz-agent is one process in a user's cluster. It reports what it sees
(heartbeats) and, where the server allows it, acts (scaling, upgrades, healing).

```
 informers, stores ──change signal──> Coalescer ──Enqueue──> Sender ──POST──> kubehz-api
   ^      ^     ^                                              │ reply: availableUpdates
   │      │     ├── ControlPlane probe (readyz, static pods, CSRs)
   │      │     └── MachineIssues collector (lists, events)    v
   │      └──────── Inventory manager <────────────────── HandleUpdates ──> resource status
   └── actions store <── Executor.Reconcile <── Poller/Client <──GET── kubehz-api
                          │ scalePools, upgradePools, healPass
                          v
                        apiserver: MachineDeployments, Machines, Nodes, Pods
```

One goroutine each runs the Coalescer, the Sender, the Poller (and in it the three passes of
the Executor), the inventory manager, the issue collector, the control-plane probe and the
version refresh; informers call back from goroutines of client-go. They share the stores
(each under its own mutex), the change channel, and the VersionCache. All state is in
memory: a restart forgets it and nothing is persisted. The manifests under `src/deploy` run
one replica with strategy Recreate, so two agents never act at the same time.

### Components

| component | state | operations | what is hard | what makes it correct |
|---|---|---|---|---|
| healer (`executor/heal.go`) | `baseline`, `lastHeal` per pool, `healDeleted`, the locals of a pass | a pass: list, read nodes, candidates, storm brake, budget, cooldown, delete | reads are stale when used; a delete may be applied without a reply; crash loops | never more than maxUnhealthy in flight, cooldown per pool, only unhealthy workers, no false success |
| eviction unwedge (`executor/unwedge.go`) | `healDeleted[..].attempted`, the pod informer's view | force-delete the pod that blocks a drain | informer lag, names used again, repeated passes, restart | once per machine, only our deletions and after the timeout, never a replacement pod |
| executor gate and scaling (`executor/executor.go`) | the retry answer of the passes | `Reconcile`, `scalePools`, `scaleOne` | halts in the middle, flags that change without a revision | a queued pool is retried, reports are of one revision, desired replicas are put in place |
| actions store (`actions/store.go`) | revision, reports | Begin, Upsert, Prune, Clear | reports outlive what they say | see healer and scaling |
| desired-state client and poller (`desired/`) | ETag, token, cached document, pending retry | conditional GET, retry on 304, reload of the token, backoff | a 304 for another document than the one held, rotation, restart | no change is hidden; a revision that stays is applied |
| upgrader (`executor/upgrade.go`) | `rollFrom`, the locals of a pass | pre-flight, roll one pool, report | two lists that do not fit, lost replies, crash mid-roll, HA control plane | one pool of a document rolls at a time; workers follow an apiserver; every pool gets its turn |
| coalescer (`publisher/debounce.go`, `agent/agent.go`) | change channel, timer, dirtySince, lastPush, lastFull | decide, flush | changes during a flush, three periods at their boundaries, bursts | no change lost, gap kept, push in time |
| heartbeat sender (`publisher/sender.go`, `publisher.go`, `backoff.go`) | one-payload slot, wake channel, token | Enqueue, Run, token reload | store and wake are two steps, pushes fail after they arrived, rotation while a token is rejected, shutdown | latest wins, nothing stale, no lost wake-up, paced rejections, termination |
| inventory manager (`inventory/manager.go`) | inv, present, statusUpdates, statusRecorded | poll, HandleUpdates, Snapshot | two goroutines, calls without the lock, deletion in between | verdicts reach the resource, writes come to an end, changes are signalled |
| machine issues (`machineissues/`) | first-seen times, store | a pass of three reads; Set, Snapshot | reads that do not fit, failing lists, the cap | issues are reported, keep their place and `since`, are forgotten when gone |
| machine resolver (`machines/machines.go`) | none | `NewPoolResolver`, `PoolFor` | overlapping, empty and unreadable selectors, owner references to what is not a pool | the answer is a known MachineDeployment that claims or owns the machine, or nobody |
| control-plane probe (`controlplane/`) | the snapshot | refresh: readyz, version, static pods, CSR pages with a budget; Snapshot | failures and hangs between the calls of a refresh, lists longer than the budget, a snapshot that outlives its facts | an expiry is the earliest of all or is not reported, every verdict was true while the refresh ran, what stays is shown |
| payload collector, caps (`collector/`, `state/`) | none | `BuildPayload`, `ApplyCaps` | lists at their bounds, caches in any order, stores read one after the other | no heartbeat is rejected for its size, reports keep their place, the server comes to show the cluster as it is |
| configuration, kube client, wiring | read once at start | start-up | – | its values are the CONSTANTS; the flush, refresh loop and token reload are modelled where they are used |

`PROJECT.json` lists every component with its status, every definition with the
lines it stands for (`map`), and every hazard at its line with the properties that
would catch it going wrong.

## The modules

| module | models | proofs |
|---|---|---|
| `Healer` (`MCHealer`) | healPass, remediate, the unwedge, against machines, nodes, pods, clock, crashes | `HealerProofs` |
| `Heartbeats` | abstract: full-state payloads are delivered, never backwards, never behind for good | |
| `Sender` | Sender.Enqueue and Run, the outcomes of Publish, ReloadToken | `SenderProofs` |
| `Scaling` | abstract: only what is published and permitted is scaled, never an older revision after a newer one | |
| `DesiredLoop` | Poller, Client, the gate of Reconcile, scalePools, the actions store | `DesiredLoopProofs` |
| `Upgrader` (`MCUpgrader`) | upgradePools and patchKubelet against machine-controller and an HA control plane | `UpgraderProofs` |
| `Coalescer` | decide, Coalescer.Run, the change channel, the flush | `CoalescerProofs` |
| `Inventory` | fetchOnce, HandleUpdates, setState | `SenderProofs` |
| `MachineIssues` (`MCMachineIssues`) | Collector.Run, collectOnce, mapIssues, Store | `MachineIssuesProofs` |
| `ControlPlane` | Manager.Run and refresh, Collect with each of its calls, earliestCSRExpiry | `ControlPlaneProofs` |
| `Payload` | BuildPayload and its mappings, ApplyCaps, as pure operators | `BeatsProofs` |
| `Beats` (`MCBeats`) | the composition: caches and stores, notifications, the flush, the caps, the Sender's slot, the server | `BeatsProofs` |
| `Resolver` | NewPoolResolver and PoolFor, as pure operators | `MachineIssuesProofs` |

A definition whose comment calls it a mutant is a plausible wrong version of the
definition after it. It is used by no specification: put in the place of the right
one it makes the property it is listed with in `PROJECT.json` fail, which shows
that the property says something about the code.

How state and actions correspond to the code:

* **Healer.** `baseline`, `lastHeal`, `healDeleted` and `report` are the Executor's fields
  and its reports; `pass` holds the locals of one `healPass`. `pc` follows the pass:
  `StartPass`, `ListMachines`, `ReadNodes` (candidates and tracked deletions), then one API
  call per step: `Unwedge` or `SkipUnwedge`, and for each candidate in name order `Wait`, or
  one of `DeleteAccepted`, `DeleteNotFound`, `DeleteFails`, `DeleteReplyLost`; `EndPass`
  prunes. `StormBrake`, `ReadFails` and `KillSwitch` are the early returns. `Tick` runs
  within a pass too, for `MaxPass` at most: what the code compares with `pass.now` is older
  than the delete, and `healedAt` has the clock of the delete. Detection (a) looks at the
  label of the machine (`CPMachines`), detection (b) at that of the node (`CPNodes`).
  Machines join, turn not Ready, are deleted by somebody else and vanish between any two
  steps, pods are evicted and replaced while the informer lags, `Restart` loses the memory.
  `healedAt`, `acked`, `unwedged` and `killed` are history.
* **Sender.** Enqueue is two steps, as in the code: store, then send on the wake
  channel. Run takes, publishes, and waits; a publish is acknowledged, fails before
  or after the server received the payload, or is rejected. `token`, `source` and
  `accepted` are versions of the token; `seen`, `acked`, `unpaced` are history.
* **Heartbeats** has the newest payload, what the server knows, and whether the
  agent stops. `Sender` implements it under the mapping `newest <- enqueued,
  seen <- seen, stopped <- cancelled`.
* **DesiredLoop.** A poll is one of `FetchDoc`, `FetchNotModified`, `FetchFails`,
  `FetchRejected`; `Reconcile` is the gate (Clear, Begin); the scaling pass lists
  once and then takes the pools in name order (`Queue`, `Refuse`, `Confirm`, `Patch`,
  `PatchFails`); `Finish` combines the retry answers. The upgrade and the heal pass
  enter as the answer they may give. The server writes revisions and switches flags,
  somebody scales by hand, tokens rotate, the agent restarts.
* **Scaling** has the server's document, the one the agent holds, the replicas, what the
  agent saw of them and which revision it applied. `DesiredLoop` implements it under the
  mapping `held <- cached, replicas <- spec, looked <- pass.list, others <- manuals`; the last
  tells the agent's writes from everybody else's.
* **Upgrader.** `ListMachineDeployments`, `ListMachines`, `Proceed` (pre-flight with
  the version that `RefreshVersion` cached from any one apiserver), then per pool
  `Settle`, `Defer` or `Announce` (patchKubelet shows the roll before it asks for it) and
  then `PatchKubelet` or `PatchFails`; `EndPass` decides whether the Poller comes again.
  `InPass` are the pools a pass takes: those with a name a pool can have, up to
  `MaxPools`. machine-controller creates, joins and deletes machines; machines
  are lost, apiservers are upgraded one by one, documents change.
* **Coalescer.** `clock` is time; `TakeChange` and `TimerFires` are the two branches
  of the select; the flush reads store after store (`Snapshot`) while they change;
  changing a store (`Change`) and signalling (`Signal`) are two steps.
* **Inventory.** The poll is `Get` and `Store`, the reply of a heartbeat `Check`,
  `Patch`, `Finish`; each holds the lock in one step only. `Notify` follows the unlock.
* **MachineIssues.** `ListMachines`, `ListMachineDeployments`, `Map` (events are read,
  issues mapped, stamped, sorted, capped and set), `Notify`, `Wake`; `ListFails`.
* **ControlPlane.** A refresh is `Tick`, `Readyz`, `Version` when readyz says nothing,
  `Pods`, `Csrs` once per page, `Store` and `Notify`; `Timeout` is the deadline of its
  context when a call hangs, `Slow` the same when the calls are answered but take too long;
  after it every later call fails at once. `Beat` builds a payload. Between
  any two steps the apiserver goes down, hangs or comes back, checks fail, pods and
  signing requests come and go. `held` and `calm` are history: what was true of each
  component since the refresh began, and whether anything moved or was slow in it.
* **Payload** and **Beats.** `Observe` is a watch event; `Upsert`, `Clear` and `Prune` are
  the calls of the executor on the actions store, `SetBlock` stands for the owner of an
  optional block; a report is known by its type and its target (`Key`), so that the scale
  and the upgrade report of a pool stand side by side; each change is followed by its
  owner's `Notify`, after the unlock; only the executor, one goroutine, makes no other call
  before it. The flush is `ReadCaches` (BuildPayload), `ReadActions` and `Enqueue` (the
  other stores, then ApplyCaps); `Take`, `PublishOK` and `PublishFails` are the Sender's
  slot and the server, which persists a heartbeat that fits its schema. `Restart` forgets
  all but the cluster and what the server shows.
* **Resolver.** `MCHealer` computes the `PoolOf` of its instances with `PoolFor` from
  machines and MachineDeployments; elsewhere `PoolOf` is a constant.

## The runs

| run | shows | states |
|---|---|---|
| `healer_deletes` | the budget (HealBudget), whom the healer may delete (OnlyUnhealthyWorkersHealed) and that a done report is true (DoneReportsAreTrue) | 5.8 million |
| `healer_unwedge` | the cooldown by the clock of the deletes (HealCooldown), one unwedge per machine (OneUnwedgePerMachine), never on a replacement pod (ReplacementPodSurvives) | 5.6 million |
| `sender_delivery` | NoLostWakeup, RejectedTokenIsPaced, NothingStaleDelivered, StopsWhenCancelled, and the refinement DeliversHeartbeats, its liveness included | 62 thousand |
| `desired_loop` | a 304 hides no change (NoChangeMissed), the loop never rests on an unfinished document (UndoneIsRetried), ReportsOfOneRevision, EventuallyApplied through failures, a rejected token, switches and a crash, and the refinement ScalesAsPromised | 1.5 million |
| `upgrader_rolls` | OneRollPerDocument, SomeApiserverAtTarget, EventuallyRolled, RollsAreReported | 108 thousand |
| `coalescer_cadence` | NoChangeLost, MinGapKept, PushedOften, ChangesAreTimely | 1.7 million |
| `inventory_mirror` | InventoryIsSignalled, EventuallyMirrored, EventuallyQuiet | 70 thousand |
| `issues_reports` | SinceStable, NoFlapping, EventuallyReported, EventuallyForgotten | 189 thousand |
| `controlplane_probe` | ExpiryIsOfAll, OnlyWhatWasSeen, EventuallyShown, EventuallyQuiet | 1.4 million |
| `beats_shown` | NeverRejected, ReportsStay, RestIsPresent, EventuallyFaithful, EventuallyStill | 1.6 million |
| `healer_lost_reply` | violation: CooldownOfAppliedDeletes | |
| `upgrader_retarget` | violation: OneRollAtATime | |

### Bounds, and why they are enough

Every bound is a constant whose comment says so, and stands in a guard.

* Healer: in `healer_deletes` a budget of 1 against one machine that exists and two that
  may be created: 3, of the same pool, carries the control-plane label on its Machine but
  not on its node; 2, of a refused pool, on its node only. One crash and one lost reply at any
  moment. `MaxPass` spans the clock, so time may run between any two calls.
  In `healer_unwedge` the cooldown is two units and a pass takes up to one, so that the
  bound of HealCooldown is one unit and is reached; the clock allows delete, eviction
  timeout and two more passes. `HealerProofs` covers every size.
* Sender: four payloads let one be in the slot while one is in flight, one was lost
  and one is new; three faults allow a fault in each kind of wait.
* DesiredLoop: two pools, two revisions, two switches (off and on again), one manual
  change, one fault, one rotation and one restart: the shortest histories in which a stale
  tag, a stale report or a lost retry shows. A pool is refused for its out-of-range value;
  pools refused for their own state (`Refusing`) and a document with more pools than
  `MaxPoolsPerPass` are covered by `DesiredLoopProofs` only.
* Upgrader: two pools that can roll, with two machine slots each, so that a
  replacement exists next to the machine it replaces; an autoscaled, an unversioned and a
  missing pool (a control-plane pool is refused by the same disjunct as an autoscaled one);
  a malformed name, which does not count against the cap of five, and a worker past the cap.
  `upgrader_retarget` has two documents. One apiserver: with several, SomeApiserverAtTarget
  is covered by the theorem `NeverAhead` only. Rolling a pool without replicas is covered
  by `UpgraderProofs` only.
* Coalescer: 13 units of time hold two full periods, three changes a burst longer
  than the gap.
* ControlPlane: three signing requests on pages of one against a budget of two, so that a
  list fits, is cut, and changes between its pages; two changes let a failure come and go
  within one refresh; a refresh that is too slow counts as one of them. `ControlPlaneProofs`
  covers every size.
* Beats: every list has its cap at one entry (the warnings at two, the collector's limit at
  one) and one more to drop, except the nodes: two, which the caches list in either order,
  and room for both. Which of too many nodes is sent depends on the order of the cache
  (below). One pool has a scale and an upgrade report. Three changes, shared by changes of
  stores, lost pushes and restarts, are one change to be lost, one that overtakes it, and
  one fault.
* MachineIssues: one machine has up to two issues and there is room for one, which
  is all the cap and the order need; the clock leaves time for both to begin apart.

### Fairness, and why the code justifies it

* Sender: `EnqueueWake` (a non-blocking send follows the store in one function), `Run`
  (a goroutine in a loop whose waits are timers) and `SourceUpdate` (the kubelet
  refreshes a projected Secret). Faults are finite: the network works in the end.
* DesiredLoop: the Poller's goroutine (`Agent`) and `SourceUpdate`.
* Upgrader: the pass (the Poller comes at its next tick while a pass is due), the
  refresh loop, and `Controller`, machine-controller's progress.
* Inventory: the manager's goroutine and the handler, which runs with every reply.
* MachineIssues: time, the pass, and a beat while one is signalled.
* ControlPlane: the manager's goroutine with its ticker and its deadline (`Refresh`), and a
  payload while one is signalled; that the apiserver answers is not assumed, only that it is
  not too slow in every refresh (`MaxChanges`).
* Beats: every owner goes on from its change to its notification, a signal leads to a
  flush, the Sender runs. The periodic heartbeat is not assumed to come.
* Healer and Coalescer have no fairness: their properties are safety. The
  Coalescer's timeliness is stated with the clock (ChangesAreTimely, PushedOften):
  the clock does not pass a due timer or a pending signal, and a flush takes at most
  `MaxFlush`.

Nothing is assumed of faults, crashes, users, the server, or the control plane. Runs
of Sender, Upgrader, Coalescer, Inventory and MachineIssues allow deadlock, because
their systems stop at a cancelled context or at a bound.

## Proofs

The theorems hold for every value of the constants that satisfies the named assumptions of
the modules (`MachinesAssumption`, `PolicyAssumption`, `CadenceAssumption`,
`ProbeAssumption` and so on): any number of machines, pools, policies, documents,
payloads, stores, pages, crashes, lost replies, rotations. Each rests on the module's
`TypeCorrect` and on an invariant that is inductive:

* `HealerProofs!TypeCorrect`: `Spec => []TypeOK`. Every later proof uses it.
* `DeletedOnceAlways`: a machine the agent deleted is deleting or gone, and a pass has
  only machines in hand that the agent did not delete before (`DeletedOnce`). It holds
  because names are not used again and a pass lists before it acts.
* `BudgetHolds`: `HealBudget` rests on `BudgetCoversInFlight`: from the list on, the
  pass counts every deletion of the agent in flight, and until it halts the budget
  left plus those in flight is at most maxUnhealthy. The budget itself is not
  inductive: it needs that a halted pass (a lost reply) deletes no more, and
  that what was listed covers what a crashed pass left behind.
* `CooldownHolds`: `HealCooldown` rests on `CooldownRemembered`: a delete the agent
  saw succeed is at most `MaxPass` later than what `lastHealTime` says, which a restart
  replaces by the (later) baseline, and a pass does not outlast `MaxPass`.
* `OneUnwedgeHolds`: `OneUnwedgePerMachine` rests on `AttemptRemembered`: the attempt is
  remembered as long as the machine is tracked, and a machine is tracked at its
  deletion only, which happens once.
* `DoneReportsHold`: `DoneReportsAreTrue` needs that no machine the agent deleted returns
  (`DeletedOnce`) and that what is tracked was deleted (`AttemptRemembered`): the report of
  an unwedge is about a tracked machine.
* `OnlyTheSickAreHealed`: `OnlyUnhealthyWorkersHealed` rests on `CandidatesAreSick`: what is
  left of the candidates was long not Ready, or had never joined, when it was read, and is
  not `Spared` by the label check of its detection; a refused pool is spared at its turn.
  `ReplacementsSurvive`: `ReplacementPodSurvives` is inductive by itself: the precondition
  on the pod's identity decides, however old the informer's view.
* `SenderProofs!TypeCorrect`, `EmptySlot`, `NothingStale`, `WakeupKept`, `TokenPaced`,
  from `SlotInv` (the slot is empty or holds the newest payload; what Run holds is not
  older than what the server has) and `PacedInv`. `EmptyMeansDelivered` (an empty slot
  means the newest payload was acknowledged) is proved only; no run repeats it.
* `SafelyDelivers`: `Spec => HB!SafeSpec`, every step of Sender is a step of
  `Heartbeats` or a stutter.

* `DesiredLoopProofs!NothingHidden`: `NoChangeMissed` rests on `CacheInv`: the tag
  the agent holds is that of its cached document, and a cached document of the present
  revision wants what the present one wants. The tag alone does not say so: it is made of
  the revision and the flags.
* `OneRevision`: `ReportsOfOneRevision` rests on `PassRevision`: within a
  pass the store has the revision of the cached document, from Begin on.
* `UndoneComesBack`: `UndoneIsRetried` rests on `QueueInv` (within a pass, a queued pool
  is still to be settled or the retry answer is set, whatever the upgrade and the heal pass
  answer) and on `CompleteInv`: a pool the pass is done with was refused, or has what the
  held revision wants, unless the retry answer is set (`PassComplete`); and the same at rest,
  across a document that is fetched, switched or refused between two passes.
* `ScalesSafely`: `Spec => ScalesAsPromised`, every step of the loop is a step of `Scaling`
  or a stutter. It rests on `HeldIsNewest` (a pass that acts has listed the pools under a
  document that permits it; nothing newer than the held document was applied) and on
  `CacheInv`.
* `UpgraderProofs!TypeCorrect` includes `OpenRolls`: a roll that is recorded as under way
  is not over, so a replacement that completes it also ends it.
* `NeverAhead`: `SomeApiserverAtTarget` rests on `PlaneInv`: versions only grow, and an
  observed version was some apiserver's, however old the observation.
* `OneAtATime`: `OneRollPerDocument` rests on `OneInv`: an open roll of the
  present document has declared the target (`HistoryInv`), and a pass that began while it was
  open knows of it from its two lists, stale as they are: it read the pool at the target and
  not converged, so it patches nothing (`PassInv`).
* `NoRollAbandoned`: `NoneAbandoned` rests on `PassKnows`: what a pass read of the pools it
  is still to take is what they declare (nobody else rolls them), it takes none for converged
  whose roll is open (`OpenRolls` again: a pool counted as converged is rolled), and it asks
  for a re-run unless the pools it is done with are over. It speaks of the pools in
  `InPass`; one past the cap is left alone (below).
* `NothingLeftInProgress`: `NoneLeftInProgress` rests on `PassReports`: what is reported in
  progress is in `rollFrom`, or it is the roll that was announced and whose patch is under way:
  its answer puts the pool in `rollFrom` or reports it failed. So the turn that finds the pool
  converged reports it done, and every other turn asks for a re-run.
* `CoalescerProofs!NothingLost` (a change is signalled, dirty, or read by the flush under
  way: `DraftInv`), `GapKept` and `OftenPushed` (from `CadenceInv`: a flush was
  decided a gap after the last one, and while none runs the timer is set and the clock stops
  before the period is over), and
  `ChangesAreInTime` from `TimelyInv`, which ties each unread change to the signal, mark or flush
  that covers it and bounds the time since. Zero intervals, debounces and gaps are
  included.
* `ControlPlaneProofs!NothingInvented`: `OnlyWhatWasSeen` from `SeenInv`: what is found so far
  is among `held`. `NeverAPrefix`: `ExpiryIsOfAll` from `ExpiryInv`: the result so far is the
  earliest on the pages read, which after the last page are the whole list.
* `CalmRefreshIsFaithful`: `CalmFindsFacts` rests on `CalmInv`, which says of each step of a
  refresh in which nothing moved and no answer was slow what it has found so far: the
  verdicts that are there to find, and that the pages read so far fall short of the list.
  The two above say that a refresh invents nothing; this one, that it leaves nothing out.
* `SnapshotSignalled` (`SnapshotIsSignalled`), and `IssuesSignalled` of `MachineIssuesProofs`
  (`IssuesAreSignalled`): what differs from the last payload is signalled or its owner is about
  to. With `InventorySignalled` they prove of the owners what Beats takes for granted of a block.
* `MachineIssuesProofs!SinceHolds`: `SinceStable` rests on `SinceRemembered`: what is
  published of a key is what the memory says of it, and the memory keeps the first value that
  was published. `NoIssueFlaps`: `NoFlapping` rests on `AmongTheFirst` (a published issue has
  fewer than MaxIssues elders among the keys in memory) and `FromEarlierPasses` (what is
  in memory was first seen before the present pass, so a newcomer is nobody's elder).
  `NeverOverCap` is proved only: no cap of MaxIssues or more elements exists above the last
  one published, because time, machine and reason order the issues strictly. The machines and
  the reasons are assumed to be finite sets, as any list of the apiserver is.
* In the same module, `PoolForNeverGuesses`, `SelectorsDecide`, `UnreadableClaimsNothing`:
  statements about the `PoolFor` of `Resolver` for every set of MachineDeployments and every
  machine.
* `BeatsProofs!TypeCorrect` says too that no two reports of the store have one type and target:
  Upsert replaces the report with the key it is given, and Prune only drops.
* `HeartbeatsAreAccepted`: `NeverRejected` rests on `WithinBounds`: what is built
  or in the Sender's hand was capped, and `CappedIsAccepted` shows that a capped payload fits
  the schema, whatever the payload. `ReportsKeepTheirPlace`: `ReportsStay` rests on
  `StillFirst`: the reports of the last payload that the store still has are among the first
  it holds, because Upsert replaces in place or appends, and Prune keeps the order. The lemmas
  `RankFacts`, `FilteredFacts` and `TruncateFacts` say what a filtered and a cut list holds and
  in which order; `Filtered` of `Payload` is written with ranks because `SelectSeq` is recursive.
* `RestingServerIsPresent`: `RestIsPresent` rests on four facts, each about what may still be
  on its way: whatever differs between the cluster, the actions or a block and the payload
  that was built last is owed by its owner, signalled, or yet to be read by the flush under way
  (`FactsDue`, `ActionsDue`, `BlocksDue`), and that payload is with the server unless the slot
  holds it or it is still being built (`Delivered`).
* `SenderProofs!InventorySignalled`: `InventoryIsSignalled` of `Inventory`, which this
  module extends too because HandleUpdates runs on the Sender's goroutine. It is inductive:
  every store of an inventory that differs notifies, and a notification is pending until it
  signals.

Checked by TLC only: liveness (StopsWhenCancelled, the liveness half of DeliversHeartbeats,
EventuallyApplied, EventuallyRolled, RollsAreReported, EventuallyMirrored,
EventuallyReported, EventuallyForgotten, EventuallyShown, EventuallyFaithful,
EventuallyStill, and EventuallyQuiet of Inventory and of ControlPlane), which TLAPS does not
reason about under fairness. Of most of them the safety half is proved: that the system
never comes to rest short of the aim. UndoneIsRetried is that half of EventuallyApplied,
NoneAbandoned of EventuallyRolled, NoneLeftInProgress of RollsAreReported, CalmFindsFacts
with SnapshotIsSignalled of EventuallyShown, IssuesAreSignalled of EventuallyReported and
RestIsPresent of EventuallyFaithful; what TLC adds is that rest is reached. NoneAbandoned,
NoneLeftInProgress, CalmFindsFacts, SnapshotIsSignalled and IssuesAreSignalled are theorems
only; they hold in the instances of the runs too. What the collector makes of the caches
(`SortSeq`, `SelectSeq`: recursive definitions) is checked with it, in EventuallyFaithful.
The proofs speak of each module alone; what holds between components is stated in Beats.

## Where the code and its comments differ

With a run (`findings` in `PROJECT.json`):

1. *A delete whose reply is lost starts no cooldown* (`executor/heal.go:278`,
   `healer_lost_reply`). heal.go:23 promises a cooldown "between remediations in the
   same pool"; with maxUnhealthy 2 the next pass deletes a second machine at once.
   The budget still holds.
2. *A new target while a pool is mid-roll starts a second roll* (`executor/upgrade.go:128`,
   `upgrader_retarget`). upgrade.go:16 says that one pool rolls at a time.

Seen while modelling, without a run of their own; the models follow the code:

* heal.go:23 promises `cooldownSeconds` between two remediations of a pool. `lastHeal` is the
  time the pass *began* (heal.go:91, 278) while the delete may come much later in it (earlier
  unwedges and deletes, each with its timeout), so the next delete of the pool may follow after the
  cooldown less the length of the pass (HealCooldown is what holds).
* heal.go:11 says "CP-labeled machines are skipped", `src/README.md:320` "never control-plane
  (node role labels, machine labels, ...)". The label of the machine is looked at only
  when no node has joined (heal.go:164); a labelled Machine whose node is not Ready and
  carries no label is a candidate (heal.go:184) and, unless its MachineDeployment looks
  control-plane, is deleted (OnlyUnhealthyWorkersHealed, with `Spared`, is what holds).
* a document may list more than 100 pools; upgrade.go:81 takes the first 100 by name, and the
  pools behind them get neither a roll nor a report nor a retry from this pass. upgrade.go:60
  ("a re-run ... is needed") holds for the pools it takes (NoneAbandoned).
* poller.go:105 says that a 304 re-runs acting only after a transient failure and does not
  fight manual operations; with healing on, every poll is a full pass (executor.go:255), so
  a manual scale is undone at the next poll.
* actions/store.go:10 says every beat carries the store verbatim; done reports stay for the revision
  (ReportsStay), so a revision under which more machines than the cap are healed leaves later
  reports out of every heartbeat.
* more than 500 nodes are cut unsorted, in the order the cache lists them (payload.go,
  `Nodes`): such a cluster shows another subset with every heartbeat. With 500 or fewer, and
  at least two, nodes it is still their order that may change with every heartbeat: the
  collector takes them as the cache lists them (collector.go:55-63), and EventuallyStill is
  stated up to it. Events are sorted by time and name without the namespace: two of one name
  and time are in no fixed order.
* after a restart the first heartbeat carries no actions, issues or inventory, and the server,
  for which a missing block is cleared, forgets them until they are reported again
  (EventuallyFaithful is what holds).
* heal.go:15 says the storm brake looks at "the total unhealthy worker count"; the code
  counts candidates (heal.go:206), and a worker that is already deleting is none.
* unwedge.go:70 calls `deletedAt` the time "when OUR delete was accepted"; it is the time
  the pass began (heal.go:275).
* sender.go:136 says of a wake in the backoff "A newer payload arrived"; it may be the
  wake of the very payload being retried, whose store was taken before its wake.
* `src/README.md:305` says the agent clears its reports on any 4xx; after a 401 or another
  4xx the Poller does not call the executor and the reports stay.
* executor.go:299 reports "queued ... retrying next poll"; if scaling is switched off while
  upgrades stay on, no retry comes, and the reports stay.
* upgrade.go:11 says workers-first is impossible; the pre-flight asks one apiserver, and
  with several in mid-upgrade workers may be ahead of another (SomeApiserverAtTarget is
  what holds).
* store.go:44 of `actions` says that a retry pass upserts over the reports of its revision; a
  worker pool that is at the target without a roll of this process reports nothing
  (upgrade.go:203), so what an earlier pass reported of it (the lists failed, its patch was
  applied but the reply lost and the rest done before the retry, or it queued behind another
  pool's failure) stays for the rest of the revision, with nothing left to do. An "in-progress"
  never stays (NoneLeftInProgress). But a roll is shown in progress before its patch is sent
  (upgrade.go:241): when the patch fails, or is applied and its reply lost, "failed" follows,
  and if the roll is over before the next pass, that is the last word on it. "Done" is promised only of
  a roll shown in progress after the answer (RollsAreReported).
* manager.go:167 says a repeated verdict costs zero writes; a poll that overlaps a write
  puts the old baseline back, and one more write follows (EventuallyQuiet is what holds).
* collector.go:71 says `since` is stable across passes; when the MachineDeployments cannot be
  listed, the pool of every key becomes `unknown`, the keys are new and so is `since`
  (SinceStable is stated per key). collector.go:156 says that pool names then "degrade to
  ownerRef/unknown"; the resolver accepts an owner reference only for a MachineDeployment it
  listed, so they all become `unknown`.
* machineissues/store.go:31 says a steady-state pass causes no beat churn; the message of a
  join timeout contains the machine's age in minutes, so it changes with the passes.

## Abstractions

* Healer: a node is read as it is at that moment (no lag of the node informer); the three
  reads of a pass fail as one; names of machines are never used again (they carry a random
  suffix); the in-progress report that precedes a delete (heal.go:256) is left out, the
  outcome of the call replaces it; no call of a pass outlasts `MaxPass`; a node has one pod
  that can block its drain; a delete that fails was not applied or was applied before the
  call returned; one time unit is minDetectionWindow. The MachineDeployment list only
  resolves pools (`PoolOf`).
* Sender: a failed push arrived before Publish returned or never (one that the server
  handles after the agent gave up on it is outside the model); how long a wait is
  makes no difference, only whether it is preempted.
* DesiredLoop: the server answers with the document of one moment; why a pool is refused
  does not change; an invalid document is a failing fetch; a cancelled context is a
  crash; of the document the healing policy is left out (the heal pass is its retry answer).
* Upgrader: a version is a minor; the autoscaler annotation of a pool does not change;
  slots hold machines that are not deleting (rollProgress skips the others); the text of
  a roll's from-version is left out.
* Coalescer: a store's content is a version number.
* Inventory: capping and parsing of lists are left out; an inventory and a verdict are values.
* MachineIssues: a message is the machine's age or 0; names are numbers in their order. The error path of
  the event read (collector.go:161-164) is left out: it reads the lister of an informer's cache,
  which does not fail.
* ControlPlane: a certificate is its expiry, parsing is left out; the log-once flag of the
  budget is left out; the process restarting is the initial state. How long a
  call takes is abstracted: the deadline passes (`Timeout`, `Slow`) or it does not.
* Beats: the caches are read as one step and so are the stores after the actions; a node is
  its roles and conditions, capacity, versions and texts are left out; the clamps of
  string lengths are left out, and so is the drop of an issue without a pool or a reason
  (payload.go:400-410), which the collector never reports; a block is the number of its entries.
* Resolver: a selector is the set of labels it requires (matchExpressions are left out).
* External code is modelled as far as the agent depends on it: machine-controller, kubelet,
  informers, the apiserver, kubehz-api (marked external in `map`).

## Not modelled, and why

Start-up, construction, flags and environment (`config`, `kube`, `cmd`): no behaviour after
start; their values are the CONSTANTS. Parsing of certificates, of the reply of a heartbeat
and of the inventory resource, and the clamps of its lists: pure data that no property here
tells apart. The manifests: not a program.

## Plan

Done: every component that keeps state has its module; every invariant and every safety
action property that a run checks is a theorem; the way of a change from a store to the
server as one composition.

1. Compose the three passes: one Reconcile with scaling, upgrade and heal pass over one
   cluster (do a roll and a remediation together respect their limits?).
2. Healer liveness: an unhealthy worker is remediated in the end, under the policy.
3. Liveness for `Scaling` (desired state applied in the end), and Beats as an implementation
   of `Heartbeats`.
4. Proofs: the safety part of items 1 and 3, once they are stated; that `ControlPlane`,
   `MachineIssues` and `Inventory` implement what Beats takes a block's owner for, as one
   composed module instead of three invariants.
