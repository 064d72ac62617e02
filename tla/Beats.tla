------------------------------- MODULE Beats -------------------------------
(***************************************************************************)
(* The whole way of a heartbeat: the stores, whose owners change them and  *)
(* then notify; the flush (internal/agent/agent.go), which reads the       *)
(* caches and one store after the other; ApplyCaps; the Sender's slot; and *)
(* the server, which takes or rejects a heartbeat as a whole and persists  *)
(* the latest, so that a missing block is cleared.                         *)
(*                                                                         *)
(* The actions store is modelled call by call (internal/actions/store.go). *)
(* A block stands for a store whose owner has a module of its own: machine *)
(* issues, control plane, inventory.                                       *)
(***************************************************************************)
EXTENDS Payload

CONSTANTS
  Nodes, NodeStates,   \* nodes; what a cached node may look like
  Pods, PodPhases, Events,
  Namespace,   \* pod or event -> its namespace
  Times,       \* event -> times it may bear
  Scaled, Healed, \* targets of scale and upgrade reports, and of heal reports
  Revisions,   \* of desired-state documents
  Blocks,      \* optional blocks of the payload
  Stored,      \* block -> numbers of entries its owner may store
  MaxChanges   \* bound of the model: changes of stores, lost pushes and restarts

ASSUME BeatAssumption ==
  /\ Times \in [Events -> SUBSET (Nat \ {0})] /\ Revisions \subseteq Nat
  /\ Stored \in [Blocks -> SUBSET Nat]
  /\ MaxChanges \in Nat

Owners == {"informers", "executor"} \cup Blocks

VARIABLES
  nodes, pods, events, \* the informers' caches: existing object -> what is cached
  store,     \* actions.Store: its items, in the order they came
  blocks,    \* block -> entries in its store, or Absent
  owed,      \* owners that changed their store and did not notify yet
  signalled, \* the change channel
  pc,        \* what the flush reads next, or "idle"
  payload,   \* the payload being built
  built,     \* the newest payload
  slot,      \* it waits in the Sender's slot
  hand,      \* the payload being pushed, if any
  same,      \* that one is still the newest
  shown,     \* what the server persists
  removed,   \* history: keys removed from the store since the flush read it
  changes    \* counter of the bounded events

caches == <<nodes, pods, events>>
stores == <<store, blocks>>
flush == <<pc, payload>>
sender == <<built, slot, hand, same, shown>>
vars == <<caches, stores, owed, signalled, flush, sender, removed, changes>>

NoBlocks == [b \in Blocks |-> Absent]
NoPayload == [nodes |-> <<>>, pods |-> SummarizePods({}), events |-> <<>>,
              actions |-> <<>>, blocks |-> NoBlocks]

\* A report is known by its type and its target: scaling and upgrading report about
\* the same pools.
Key(a) == <<a.type, a.target>>
KeysIn(list) == {Key(list[i]) : i \in DOMAIN list}
-----------------------------------------------------------------------------
\* The caches are synced before the first heartbeat, which no change has to wait for.
Init ==
  /\ nodes = <<>> /\ pods = <<>> /\ events = <<>>
  /\ store = <<>> /\ blocks = NoBlocks /\ owed = {} /\ signalled = TRUE
  /\ pc = "idle" /\ payload = NoPayload
  /\ built = NoPayload /\ slot = FALSE /\ hand = {} /\ same = FALSE
  /\ shown = NoPayload /\ removed = {}
  /\ changes = 0

-----------------------------------------------------------------------------
(* The stores.                                                             *)

\* An owner changes its store, and notifies after it released the lock; another
\* goroutine of it, or the watch, may change the store again before that.
Changed(owner, visible) ==
  /\ changes < MaxChanges
  /\ changes' = changes + 1
  /\ owed' = IF visible THEN owed \cup {owner} ELSE owed
  /\ UNCHANGED <<signalled, flush, sender>>

\* Notifications coalesce in the channel.
Notify(owner) ==
  /\ owner \in owed
  /\ owed' = owed \ {owner}
  /\ signalled' = TRUE
  /\ UNCHANGED <<caches, stores, flush, sender, removed, changes>>

Cached(cache, o, v) == [x \in DOMAIN cache \cup {o} |-> IF x = o THEN v ELSE cache[x]]
Dropped(cache, o) == [x \in DOMAIN cache \ {o} |-> cache[x]]

\* A watch event updates a cache; the handler signals whatever it changed.
Observe ==
  /\ \/ /\ \E n \in Nodes, v \in NodeStates : nodes' = Cached(nodes, n, v)
        /\ UNCHANGED <<pods, events>>
     \/ /\ \E p \in Pods, f \in PodPhases : pods' = Cached(pods, p, f)
        /\ UNCHANGED <<nodes, events>>
     \/ /\ \E e \in Events : \E t \in Times[e] : events' = Cached(events, e, t)
        /\ UNCHANGED <<nodes, pods>>
     \/ /\ \E o \in DOMAIN nodes : nodes' = Dropped(nodes, o)
        /\ UNCHANGED <<pods, events>>
     \/ /\ \E o \in DOMAIN pods : pods' = Dropped(pods, o)
        /\ UNCHANGED <<nodes, events>>
     \/ /\ \E o \in DOMAIN events : events' = Dropped(events, o)
        /\ UNCHANGED <<nodes, pods>>
  /\ Changed("informers", TRUE)
  /\ UNCHANGED <<stores, removed>>

\* Upsert: a report replaces the one with its key in place, or comes last.
\* (Mutant first: it is taken out and comes last.)
WithReportLast(items, a) == Append(SelectSeq(items, LAMBDA b : Key(b) # Key(a)), a)
WithReport(items, a) ==
  IF \E i \in DOMAIN items : Key(items[i]) = Key(a)
  THEN [i \in DOMAIN items |-> IF Key(items[i]) = Key(a) THEN a ELSE items[i]]
  ELSE Append(items, a)

\* Mutant of Visible: only a new entry is a visible change.
VisibleIfNew(items) == Len(items) # Len(store)
Visible(items) == items # store

\* Every call of the executor, which is one goroutine, replaces the list and
\* notifies if it changed before it makes the next.
Call(items) ==
  /\ "executor" \notin owed
  /\ store' = items
  /\ removed' = removed \cup (KeysIn(store) \ KeysIn(items))
  /\ Changed("executor", Visible(items))
  /\ UNCHANGED <<caches, blocks>>

\* report, reportUpgrade and reportHeal: each pass reports under its own type.
Reports == [type : {"scale", "upgrade"}, target : Scaled, status : {"pending", "done"},
            revision : Revisions]
           \cup [type : {"heal"}, target : Healed, status : {"pending", "done"},
                 revision : Revisions]

Upsert ==
  \E a \in Reports :
    /\ \A i \in DOMAIN store : store[i].revision = a.revision
    /\ Call(WithReport(store, a))

\* Begin with a new revision, and Clear.
Clear == store # <<>> /\ Call(<<>>)

\* Done reports stay for the revision.
Prune ==
  \E keep \in SUBSET Healed :
    Call(Filtered(store, {i \in DOMAIN store : \/ store[i].type # "heal"
                                               \/ store[i].status = "done"
                                               \/ store[i].target \in keep}))

\* The owner of a block stores the present facts, or that there are none.
SetBlock ==
  \E b \in Blocks :
    /\ \E n \in {Absent} \cup Stored[b] :
         blocks[b] # n /\ blocks' = [blocks EXCEPT ![b] = n]
    /\ Changed(b, TRUE)
    /\ UNCHANGED <<caches, store, removed>>

-----------------------------------------------------------------------------
(* The flush.                                                              *)

Lists(S) == {l \in [1..Cardinality(S) -> S] : \A i, j \in DOMAIN l : l[i] = l[j] => i = j}

CachedNodes == {[name |-> n, roles |-> nodes[n].roles, conditions |-> nodes[n].conditions]
                  : n \in DOMAIN nodes}
CachedPods == {[name |-> p, namespace |-> Namespace[p], phase |-> pods[p]]
                 : p \in DOMAIN pods}
CachedEvents == {[name |-> e, about |-> e, at |-> events[e], namespace |-> Namespace[e]]
                   : e \in DOMAIN events}

\* BuildPayload, from the caches in whatever order they list.
BuildPayload(ns, es) ==
  [NoPayload EXCEPT !.nodes = [i \in DOMAIN ns |-> NodeStateFromNode(ns[i])],
                    !.pods = SummarizePods(CachedPods),
                    !.events = SummarizeWarningEvents(es)]

\* The signal is taken, or the periodic heartbeat is due; the caches are read.
ReadCaches ==
  /\ pc = "idle"
  /\ signalled' = FALSE
  /\ \E ns \in Lists(CachedNodes), es \in Lists(CachedEvents) :
       payload' = BuildPayload(ns, es)
  /\ pc' = "actions"
  /\ UNCHANGED <<caches, stores, owed, sender, removed, changes>>

ReadActions ==
  /\ pc = "actions"
  /\ payload' = [payload EXCEPT !.actions = store]
  /\ removed' = {}
  /\ pc' = "blocks"
  /\ UNCHANGED <<caches, stores, owed, signalled, sender, changes>>

\* The remaining stores are read, the caps applied, and the payload handed over.
\* (Mutant first: a signal that came during the flush goes with it.)
EnqueueDrains ==
  /\ pc = "blocks"
  /\ built' = ApplyCaps([payload EXCEPT !.blocks = blocks])
  /\ slot' = TRUE /\ same' = FALSE
  /\ pc' = "idle" /\ payload' = NoPayload
  /\ signalled' = FALSE
  /\ UNCHANGED <<caches, stores, owed, hand, shown, removed, changes>>
Enqueue ==
  /\ pc = "blocks"
  /\ built' = ApplyCaps([payload EXCEPT !.blocks = blocks])
  /\ slot' = TRUE /\ same' = FALSE
  /\ pc' = "idle" /\ payload' = NoPayload
  /\ UNCHANGED <<caches, stores, owed, signalled, hand, shown, removed, changes>>

-----------------------------------------------------------------------------
(* The Sender and the server.                                              *)

Take ==
  /\ slot /\ hand = {}
  /\ hand' = {built} /\ same' = TRUE
  /\ UNCHANGED <<caches, stores, owed, signalled, flush, built, slot, shown, removed, changes>>

\* The server persists what it accepts; the slot is cleared if nothing newer came.
PublishOK ==
  /\ \E p \in hand : HeartbeatSchema(p) /\ shown' = p
  /\ hand' = {} /\ same' = FALSE
  /\ slot' = (slot /\ ~same)
  /\ UNCHANGED <<caches, stores, owed, signalled, flush, built, removed, changes>>

\* The push or its reply is lost, or it is out of bounds and a 400 each time; it is
\* tried again, or what is newer is.
PublishFails ==
  /\ \E p \in hand : shown' \in {shown} \cup {q \in {p} : HeartbeatSchema(q)}
  /\ changes < MaxChanges /\ changes' = changes + 1
  /\ hand' = {} /\ same' = FALSE
  /\ UNCHANGED <<caches, stores, owed, signalled, flush, built, slot, removed>>

\* The process dies: all but the cluster and the server is forgotten.
Restart ==
  /\ changes < MaxChanges /\ changes' = changes + 1
  /\ store' = <<>> /\ blocks' = NoBlocks /\ owed' = {} /\ signalled' = TRUE
  /\ pc' = "idle" /\ payload' = NoPayload
  /\ built' = NoPayload /\ slot' = FALSE /\ hand' = {} /\ same' = FALSE
  /\ removed' = {}
  /\ UNCHANGED <<caches, shown>>

Flush == (ReadCaches /\ signalled) \/ ReadActions \/ Enqueue
Push == Take \/ PublishOK

Next ==
  \/ Observe \/ Upsert \/ Clear \/ Prune \/ SetBlock
  \/ \E o \in Owners : Notify(o)
  \/ ReadCaches \/ ReadActions \/ Enqueue
  \/ Take \/ PublishOK \/ PublishFails
  \/ Restart

\* Every owner goes on to notify, a signal leads to a heartbeat, the Sender runs.
\* The periodic heartbeat may come, and is never needed.
Spec ==
  /\ Init /\ [][Next]_vars
  /\ WF_vars(\E o \in Owners : Notify(o)) /\ WF_vars(Flush) /\ WF_vars(Push)

-----------------------------------------------------------------------------
(* Properties.                                                             *)

\* No heartbeat is ever rejected for what it carries, however long the lists the
\* stores hold (payload.go:329): one entry too many would be retried for ever.
NeverRejected == \A p \in hand : HeartbeatSchema(p)

\* A report that was in a heartbeat and is still in the store is in the next one:
\* newcomers never push a report out of the capped list (store.go:7).
ReportsStay ==
  [][pc = "actions" /\ pc' = "blocks"
       => KeysIn(built.actions) \ removed
            \subseteq KeysIn(ApplyCaps(payload').actions)]_vars

NodeFacts == {NodeStateFromNode(n) : n \in CachedNodes}

\* The persisted heartbeat says what the caches and stores hold: every node, every
\* phase, the newest warnings, the oldest reports, and no block that is gone.
Faithful ==
  /\ {shown.nodes[i] : i \in DOMAIN shown.nodes} \subseteq NodeFacts
  /\ Len(shown.nodes) = IF Cardinality(NodeFacts) < MaxNodes THEN Cardinality(NodeFacts) ELSE MaxNodes
  /\ \A f \in Phases : shown.pods.phases[f] = Cardinality({p \in CachedPods : PhaseOf(p) = f})
  /\ \A e \in CachedEvents :
       \/ \E i \in DOMAIN shown.events : shown.events[i].about = e.about /\ shown.events[i].at = e.at
       \/ /\ Len(shown.events) = (IF EventLimit < MaxEvents THEN EventLimit ELSE MaxEvents)
          /\ \A i \in DOMAIN shown.events : shown.events[i].at >= e.at
  /\ KeysIn(shown.actions) = {Key(store[i]) : i \in {j \in DOMAIN store : j <= MaxActions}}
  /\ \A i \in DOMAIN shown.actions : shown.actions[i].status = store[i].status
  /\ \A b \in Blocks : (shown.blocks[b] = Absent) = (blocks[b] = Absent)

SameFacts(p, q) == p.nodes = q.nodes /\ p.pods = q.pods /\ p.events = q.events

\* p is what a flush makes of the caches and stores as they are now, in one of the
\* orders the caches may list in.
PresentPayload(p) ==
  /\ \E ns \in Lists(CachedNodes), es \in Lists(CachedEvents) :
       SameFacts(p, ApplyCaps(BuildPayload(ns, es)))
  /\ p.actions = CapActions(store)
  /\ \A b \in Blocks : p.blocks[b] = CapEntries(blocks[b])

\* When everybody rests the server is right: with no notification owed or signalled,
\* no flush under way and nothing in the slot, it persists the payload of the present
\* cluster, although a flush reads one store after the other while their owners change
\* them, pushes are lost or overtaken, and the agent restarts (agent.go:260).
RestIsPresent ==
  owed = {} /\ ~signalled /\ pc = "idle" /\ ~slot => PresentPayload(shown)

\* What stays is shown in the end, without waiting for the periodic heartbeat, and
\* what is gone is cleared (agent.go:260, payload.go:113).
EventuallyFaithful == <>[]Faithful

\* p and q say the same, the nodes in whatever order.
SamePicture(p, q) ==
  /\ {p.nodes[i] : i \in DOMAIN p.nodes} = {q.nodes[i] : i \in DOMAIN q.nodes}
  /\ [p EXCEPT !.nodes = <<>>] = [q EXCEPT !.nodes = <<>>]

\* A cluster that stays is shown as one picture: with no more nodes than a heartbeat
\* holds, heartbeats agree on everything but the order of the nodes, whatever the
\* order the caches list in (payload.go:449).
EventuallyStill == <>[][SamePicture(shown, shown')]_shown

-----------------------------------------------------------------------------
(* The inductive invariants the theorems of BeatsProofs rest on.           *)

Facts == {NodeStateFromNode([name |-> n, roles |-> v.roles, conditions |-> v.conditions])
            : n \in Nodes, v \in NodeStates}
Sizes == {Absent} \cup Nat

\* Every variable the capped payload is computed from has its type, and no two reports
\* of the store have one type and one target.
TypeOK ==
  /\ IsFiniteSet(DOMAIN nodes) /\ DOMAIN nodes \subseteq Nodes
  /\ \A n \in DOMAIN nodes : nodes[n] \in NodeStates
  /\ store \in Seq(Reports)
  /\ \A i, j \in DOMAIN store : Key(store[i]) = Key(store[j]) => i = j
  /\ blocks \in [Blocks -> Sizes]
  /\ pc \in {"idle", "actions", "blocks"}
  /\ DOMAIN payload = {"nodes", "pods", "events", "actions", "blocks"}
  /\ payload.nodes \in Seq(Facts) /\ payload.actions \in Seq(Reports)

\* What is pushed was built, and what was built is within every bound.
WithinBounds == \A p \in {built} \cup hand : HeartbeatSchema(p)

\* Reports of the last payload are among the first that the store holds.
StillFirst ==
  LET last == IF pc = "blocks" THEN CapActions(payload.actions) ELSE built.actions
  IN  KeysIn(last) \ removed \subseteq KeysIn(CapActions(store))

\* What is not in the newest payload will be noticed: the owner has yet to notify, the
\* channel holds the signal, or the flush under way has yet to read that store.
FactsDue ==
  \/ signalled \/ "informers" \in owed
  \/ \E ns \in Lists(CachedNodes), es \in Lists(CachedEvents) :
       IF pc = "idle" THEN SameFacts(built, ApplyCaps(BuildPayload(ns, es)))
       ELSE SameFacts(payload, BuildPayload(ns, es))
ActionsDue ==
  \/ signalled \/ "executor" \in owed \/ pc = "actions"
  \/ pc = "blocks" /\ payload.actions = store
  \/ pc = "idle" /\ built.actions = CapActions(store)
BlocksDue ==
  \A b \in Blocks :
    signalled \/ b \in owed \/ pc # "idle" \/ built.blocks[b] = CapEntries(blocks[b])

\* The newest payload is with the server unless the slot holds it or a flush is due,
\* and the slot is not cleared for an older one.
Delivered ==
  /\ slot \/ signalled \/ pc # "idle" \/ shown = built
  /\ hand # {} => slot
  /\ same => hand = {built}
=============================================================================
