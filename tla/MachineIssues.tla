--------------------------- MODULE MachineIssues ---------------------------
(***************************************************************************)
(* The machine issue collector (internal/machineissues): in every pass it  *)
(* lists the Machines and the MachineDeployments, reads the Warning events *)
(* and publishes what keeps machines from becoming nodes to a store that   *)
(* every heartbeat is built from.  Machines fail, join and are deleted     *)
(* between the reads, lists fail, and the agent restarts.                  *)
(*                                                                         *)
(* Pools, machines and reasons are numbers: only the order of their names  *)
(* matters.  A message is the age of the machine for the join timeout, the *)
(* one message that changes by itself, and 0 for the others.               *)
(***************************************************************************)
EXTENDS Integers, FiniteSets

CONSTANTS
  Machines,     \* names of Machines, never used twice
  PoolOf,       \* machine -> the MachineDeployment the resolver finds, or Unknown
  Reasons,      \* reasons of terminal errors and of Warning events
  JoinTimeout,  \* nodeJoinTimeout
  Interval,     \* the pause between two passes
  MaxIssues,    \* maxIssues, the server's cap
  MaxClock,     \* bound of the model: the clock stops here
  MaxFaults     \* bound of the model: failing lists, and restarts

Unknown == 0    \* unknownPool
NotJoined == 0  \* the reason NodeJoinTimeout
None == -1      \* no errorReason

ASSUME IssuesAssumption ==
  /\ Machines \subseteq Nat /\ Reasons \subseteq Nat \ {NotJoined}
  /\ IsFiniteSet(Machines) /\ IsFiniteSet(Reasons)
  /\ PoolOf \in [Machines -> Nat]
  /\ {JoinTimeout, MaxClock, MaxFaults} \subseteq Nat
  /\ Interval \in Nat \ {0} /\ MaxIssues \in Nat \ {0}

VARIABLES
  clock,
  mach,      \* the Machines: phase, creation time, node reference, errorReason
  warned,    \* machine -> reasons of the Warning events about it
  pc,        \* "wait", "list", "mds", "map" or "notify"
  wake,      \* when the pause ends
  listed,    \* what this pass listed: mach at that moment
  resolved,  \* whether this pass could list the MachineDeployments
  firstSeen, \* issue key -> first observed
  items,     \* the store
  signalled, \* the change channel was signalled since the newest payload
  beaten,    \* the issues in the newest payload
  shown,     \* history: issue key -> its published since, as long as it is found
  faults     \* number of faults so far

cluster == <<mach, warned>>
pass == <<pc, wake, listed, resolved>>
vars == <<clock, cluster, pass, firstSeen, items, signalled, beaten, shown, faults>>

NoMachine == [phase |-> "absent", born |-> 0, joined |-> FALSE, error |-> None]
Nothing == [m \in Machines |-> NoMachine]
NoKeys == [k \in {} |-> 0]

Init ==
  /\ clock = 0
  /\ mach = Nothing /\ warned = [m \in Machines |-> {}]
  /\ pc = "list" /\ wake = 0 /\ listed = Nothing /\ resolved = FALSE
  /\ firstSeen = NoKeys /\ items = {}
  /\ signalled = FALSE /\ beaten = {} /\ shown = NoKeys
  /\ faults = 0

-----------------------------------------------------------------------------
(* The cluster: machine-controller and whoever scales and repairs.         *)

Tick ==
  /\ clock < MaxClock
  /\ clock' = clock + 1
  /\ UNCHANGED <<cluster, pass, firstSeen, items, signalled, beaten, shown, faults>>

Cluster(m, machine, events) ==
  /\ mach' = [mach EXCEPT ![m] = machine]
  /\ warned' = [warned EXCEPT ![m] = events]
  /\ UNCHANGED <<clock, pass, firstSeen, items, signalled, beaten, shown, faults>>

Create(m) ==
  /\ mach[m].phase = "absent"
  /\ Cluster(m, [NoMachine EXCEPT !.phase = "live", !.born = clock], {})

Join(m) ==
  /\ mach[m].phase = "live" /\ ~mach[m].joined
  /\ Cluster(m, [mach[m] EXCEPT !.joined = TRUE], warned[m])

\* A terminal error is recorded in the status, or repaired by hand.
Fail(m, e) ==
  /\ mach[m].phase = "live" /\ mach[m].error # e
  /\ Cluster(m, [mach[m] EXCEPT !.error = e], warned[m])

Warn(m, r) ==
  /\ mach[m].phase = "live" /\ r \notin warned[m]
  /\ Cluster(m, mach[m], warned[m] \cup {r})

Expire(m, r) ==
  /\ r \in warned[m]
  /\ Cluster(m, mach[m], warned[m] \ {r})

Delete(m) ==
  /\ mach[m].phase = "live"
  /\ Cluster(m, [mach[m] EXCEPT !.phase = "deleting"], warned[m])

\* The events of a machine that is gone stay until they expire.
Vanish(m) ==
  /\ mach[m].phase = "deleting"
  /\ Cluster(m, [NoMachine EXCEPT !.phase = "gone"], warned[m])

-----------------------------------------------------------------------------
(* What a pass maps.                                                       *)

Live(m) == listed[m].phase = "live"

PoolFor(m) == IF resolved THEN PoolOf[m] ELSE Unknown

\* Mutant of StatusReasons: a machine that has a node has no problem.
StatusReasonsUntilJoined(m) == {e \in {listed[m].error} \ {None} : ~listed[m].joined}
StatusReasons(m) == {listed[m].error} \ {None}

JoinReasons(m) ==
  IF ~listed[m].joined /\ clock - listed[m].born >= JoinTimeout THEN {NotJoined} ELSE {}

KeysOf(m) ==
  {<<PoolFor(m), m, r>> : r \in StatusReasons(m) \cup JoinReasons(m) \cup warned[m]}

\* The keys of mapIssues: one per machine and reason, however often it is found.
Found == UNION {KeysOf(m) : m \in {n \in Machines : Live(n)}}

\* Mutant of FirstSeen: a key is never pruned.
FirstSeenForever ==
  [k \in Found \cup DOMAIN firstSeen |->
     IF k \in DOMAIN firstSeen THEN firstSeen[k] ELSE clock]
FirstSeen == [k \in Found |-> IF k \in DOMAIN firstSeen THEN firstSeen[k] ELSE clock]

Message(k) == IF k[3] = NotJoined THEN clock - listed[k[2]].born ELSE 0

Key(i) == <<i.pool, i.machine, i.reason>>

KeyBefore(a, b) ==
  \/ a[1] < b[1]
  \/ a[1] = b[1] /\ a[2] < b[2]
  \/ a[1] = b[1] /\ a[2] = b[2] /\ a[3] < b[3]

\* Mutant of Before: issues are sorted by their names.
BeforeByName(i, j) == KeyBefore(Key(i), Key(j))
Before(i, j) == i.since < j.since \/ (i.since = j.since /\ KeyBefore(Key(i), Key(j)))

\* Sorted, and cut off at the cap.
Oldest(issues) == {i \in issues : Cardinality({j \in issues : Before(j, i)}) < MaxIssues}

Issues ==
  Oldest({[pool |-> k[1], machine |-> k[2], reason |-> k[3],
           since |-> FirstSeen[k], message |-> Message(k)] : k \in Found})

-----------------------------------------------------------------------------
(* The collector.                                                          *)

ListMachines ==
  /\ pc = "list"
  /\ pc' = "mds"
  /\ listed' = mach
  /\ UNCHANGED <<clock, cluster, wake, resolved, firstSeen, items, signalled, beaten,
                 shown, faults>>

\* The end of a pass: Set compares, replaces and unlocks; it notifies afterwards.
\* What the pass read is out of scope, and the pause begins.
Set(issues) ==
  /\ items' = issues
  /\ pc' = IF issues # items THEN "notify" ELSE "wait"
  /\ wake' = clock + Interval /\ listed' = Nothing /\ resolved' = FALSE

\* Mutant of ListFails: the pass forgets what was first seen when.
ListFailsForgetful ==
  /\ pc = "list" /\ faults < MaxFaults
  /\ faults' = faults + 1
  /\ firstSeen' = NoKeys
  /\ Set({})
  /\ UNCHANGED <<clock, cluster, signalled, beaten, shown>>

\* No Machines API: nothing is published, firstSeen is kept.
ListFails ==
  /\ pc = "list" /\ faults < MaxFaults
  /\ faults' = faults + 1
  /\ Set({})
  /\ UNCHANGED <<clock, cluster, firstSeen, signalled, beaten, shown>>

\* Without the MachineDeployments every machine is of the unknown pool.
ListMachineDeployments(ok) ==
  /\ pc = "mds"
  /\ ok \/ faults < MaxFaults
  /\ faults' = IF ok THEN faults ELSE faults + 1
  /\ resolved' = ok
  /\ pc' = "map"
  /\ UNCHANGED <<clock, cluster, wake, listed, firstSeen, items, signalled, beaten, shown>>

\* The events are read, the issues mapped and published.
Map ==
  /\ pc = "map"
  /\ firstSeen' = FirstSeen
  /\ Set(Issues)
  /\ shown' = [k \in Found \cap (DOMAIN shown \cup {Key(i) : i \in Issues}) |->
                 IF k \in DOMAIN shown THEN shown[k] ELSE FirstSeen[k]]
  /\ UNCHANGED <<clock, cluster, signalled, beaten, faults>>

Notify ==
  /\ pc = "notify"
  /\ pc' = "wait"
  /\ signalled' = TRUE
  /\ UNCHANGED <<clock, cluster, wake, listed, resolved, firstSeen, items, beaten, shown,
                 faults>>

\* The pause is over (at the clock's bound no time is left to wait for).
Wake ==
  /\ pc = "wait" /\ (clock >= wake \/ clock = MaxClock)
  /\ pc' = "list" /\ wake' = 0
  /\ UNCHANGED <<clock, cluster, listed, resolved, firstSeen, items, signalled, beaten,
                 shown, faults>>

\* A payload is built: at a signal, and periodically.
Beat ==
  /\ signalled' = FALSE
  /\ beaten' = items
  /\ UNCHANGED <<clock, cluster, pass, firstSeen, items, shown, faults>>

\* Everything the collector knows is in memory; the first heartbeat of an agent
\* is sent without a signal.
Restart ==
  /\ faults < MaxFaults
  /\ faults' = faults + 1
  /\ pc' = "list" /\ wake' = 0 /\ listed' = Nothing /\ resolved' = FALSE
  /\ firstSeen' = NoKeys /\ items' = {} /\ signalled' = TRUE /\ shown' = NoKeys
  /\ UNCHANGED <<clock, cluster, beaten>>

Pass == ListMachines \/ ListMachineDeployments(TRUE) \/ Map \/ Notify \/ Wake

Next ==
  \/ Tick
  \/ \E m \in Machines :
       \/ Create(m) \/ Join(m) \/ Delete(m) \/ Vanish(m)
       \/ \E e \in Reasons \cup {None} : Fail(m, e)
       \/ \E r \in Reasons : Warn(m, r) \/ Expire(m, r)
  \/ Pass \/ ListMachineDeployments(FALSE) \/ ListFails
  \/ Beat \/ Restart

\* Time passes, the collector's loop and the Coalescer run; nothing is assumed of
\* the cluster.
Spec == Init /\ [][Next]_vars /\ WF_vars(Tick) /\ WF_vars(Pass) /\ WF_vars(signalled /\ Beat)

-----------------------------------------------------------------------------
(* Properties.                                                             *)

AllReasons == Reasons \cup {NotJoined}
Machine == [phase : {"absent", "live", "deleting", "gone"}, born : Nat, joined : BOOLEAN,
            error : Reasons \cup {None}]
Keys == Nat \X Machines \X AllReasons
IssueType ==
  [pool : Nat, machine : Machines, reason : AllReasons, since : Nat, message : Int]

\* Every variable has its type.
TypeOK ==
  /\ clock \in 0..MaxClock /\ faults \in Nat
  /\ mach \in [Machines -> Machine] /\ listed \in [Machines -> Machine]
  /\ warned \in [Machines -> SUBSET Reasons]
  /\ pc \in {"wait", "list", "mds", "map", "notify"} /\ wake \in Nat
  /\ {resolved, signalled} \subseteq BOOLEAN
  /\ DOMAIN firstSeen \subseteq Keys /\ \A k \in DOMAIN firstSeen : firstSeen[k] \in Nat
  /\ items \subseteq IssueType /\ beaten \subseteq IssueType

\* since is stable across passes: an issue keeps the one it was first published
\* with for as long as every pass that could list the machines finds it, also
\* through passes that could not.
SinceStable == \A i \in items : Key(i) \in DOMAIN shown => i.since = shown[Key(i)]

\* An over-cap incident keeps a stable view: a reported issue that a pass still
\* finds stays reported, whatever else fails.  (At the clock's bound two passes
\* read the same time, which the pause between them rules out otherwise.)
NoFlapping ==
  [][(pc = "map" /\ pc' # "map" /\ faults' = faults) =>
       \A i \in items : (Key(i) \in DOMAIN firstSeen' /\ i.since < MaxClock)
                          => \E j \in items' : Key(j) = Key(i)]_vars

Sources == {"status", "events", "node"}

Problem(source, m, r) ==
  /\ mach[m].phase = "live"
  /\ \/ source = "status" /\ mach[m].error = r
     \/ source = "events" /\ r \in warned[m]
     \/ /\ source = "node" /\ r = NotJoined
        /\ ~mach[m].joined /\ clock - mach[m].born >= JoinTimeout

\* A failure that lasts reaches a heartbeat, from each of the three sources,
\* whichever pool the machine is of, unless the heartbeat is full.
EventuallyReported ==
  \A source \in Sources, m \in Machines, r \in Reasons \cup {NotJoined} :
    Problem(source, m, r) ~> \/ \E i \in beaten : i.machine = m /\ i.reason = r
                             \/ ~Problem(source, m, r)
                             \/ Cardinality(beaten) = MaxIssues

\* Nothing of a machine that is gone stays: neither in the heartbeats, though
\* its events linger, nor in the collector's memory.
EventuallyForgotten ==
  \A m \in Machines :
    (mach[m].phase = "gone") ~> /\ \A i \in beaten : i.machine # m
                                /\ \A k \in DOMAIN firstSeen : k[2] # m

\* Changed issues reach a heartbeat without waiting for the periodic one: what is not
\* in the payload is signalled, or about to be (store.go:20).
IssuesAreSignalled == beaten # items => signalled \/ pc = "notify"

\* The store never holds more than the server takes (collector.go:60).
CapKept == IsFiniteSet(items) /\ Cardinality(items) <= MaxIssues

-----------------------------------------------------------------------------
(* The inductive invariants the theorems of MachineIssuesProofs rest on.   *)

\* What is published of a key is what the memory says of it, and the memory keeps
\* the first value that was published.
SinceRemembered ==
  /\ \A i \in items : Key(i) \in DOMAIN firstSeen /\ i.since = firstSeen[Key(i)]
  /\ \A k \in DOMAIN shown : k \in DOMAIN firstSeen /\ shown[k] = firstSeen[k]

SeenBefore(k, l) ==
  \/ firstSeen[k] < firstSeen[l]
  \/ firstSeen[k] = firstSeen[l] /\ KeyBefore(k, l)
Elder(l) == {k \in DOMAIN firstSeen : SeenBefore(k, l)}

\* A published issue is among the first of all that the memory holds.
AmongTheFirst ==
  /\ IsFiniteSet(DOMAIN firstSeen)
  /\ \A i \in items : Cardinality(Elder(Key(i))) < MaxIssues

\* The pause keeps two passes apart: what a pass remembers is from before it.
FromEarlierPasses ==
  \A k \in DOMAIN firstSeen :
    /\ firstSeen[k] <= clock
    /\ IF pc \in {"wait", "notify"} THEN firstSeen[k] < wake
       ELSE firstSeen[k] < clock \/ clock = MaxClock
=============================================================================
