------------------------------ MODULE Payload ------------------------------
(***************************************************************************)
(* How a heartbeat is computed: the collector, which maps cached objects   *)
(* to facts (internal/collector), and ApplyCaps, which fits the payload to *)
(* the server's schema (internal/state/payload.go).  Pure operators.       *)
(*                                                                         *)
(* The cache hands out objects in any order: lists of objects are          *)
(* sequences.  Strings and the clamps of their lengths are left out; names *)
(* and times are numbers, in the order the code compares them in.          *)
(***************************************************************************)
EXTENDS Integers, Sequences, FiniteSets, TLC

CONSTANTS
  MaxNodes, MaxEvents, MaxNamespaces, MaxActions, MaxRevision,
  EventLimit,        \* what the collector reports of the warnings
  EntryCap,          \* other lists: MaxMachineIssues, MaxComponents, MaxAddons
  ReportNamespaces   \* the privacy gate

ASSUME CapAssumption ==
  /\ {MaxNodes, MaxEvents, MaxNamespaces, MaxActions, MaxRevision, EventLimit, EntryCap}
       \subseteq Nat \ {0}
  /\ ReportNamespaces \in BOOLEAN

Absent == -1   \* an optional block that the payload does not carry
Hidden == 0    \* what the privacy gate holds back

Truncate(list, n) == SubSeq(list, 1, IF Len(list) < n THEN Len(list) ELSE n)

\* A list without the entries at other positions: SelectSeq, without its recursion.
Rank(kept, i) == Cardinality({j \in kept : j <= i})
Filtered(list, kept) ==
  [n \in 1..Cardinality(kept) |-> list[CHOOSE i \in kept : Rank(kept, i) = n]]

-----------------------------------------------------------------------------
(* The collector.                                                          *)

\* The keys of node-role labels and the legacy label's value, or "worker".
RolesFromLabels(roles) == IF roles = {} THEN {"worker"} ELSE roles

\* The first Ready condition decides.
NodeReadyStatus(conditions) ==
  LET ready == SelectSeq(conditions, LAMBDA c : c.type = "Ready")
  IN  IF ready = <<>> THEN "Unknown"
      ELSE CASE Head(ready).status = "True" -> "Ready"
             [] Head(ready).status = "False" -> "NotReady"
             [] OTHER -> "Unknown"

NodeStateFromNode(n) ==
  [name |-> n.name, roles |-> RolesFromLabels(n.roles),
   status |-> NodeReadyStatus(n.conditions),
   ready |-> NodeReadyStatus(n.conditions) = "Ready"]

Phases == {"Running", "Pending", "Failed", "Succeeded", "Unknown"}
PhaseOf(p) == IF p.phase \in Phases THEN p.phase ELSE "Unknown"

\* Counts, and per namespace only when the deployer agreed to it.
SummarizePods(pods) ==
  [total |-> Cardinality(pods),
   phases |-> [f \in Phases |-> Cardinality({p \in pods : PhaseOf(p) = f})],
   byNamespace |->
     [ns \in (IF ReportNamespaces THEN {p.namespace : p \in pods} ELSE {}) |->
        Cardinality({p \in pods : p.namespace = ns})]]

\* Newest first, ties by name.  (Mutant first: by time alone.)
BeforeByTime(e, f) == e.at > f.at
Before(e, f) == e.at > f.at \/ (e.at = f.at /\ e.name > f.name)

SummarizeWarningEvents(events) ==
  LET newest == Truncate(SortSeq(events, Before), EventLimit)
  IN  [i \in DOMAIN newest |->
         [about |-> newest[i].about, at |-> newest[i].at,
          namespace |-> IF ReportNamespaces THEN newest[i].namespace ELSE Hidden]]

-----------------------------------------------------------------------------
(* ApplyCaps.                                                              *)

\* The first namespaces in lexicographic order survive.
FirstNamespaces(counts) ==
  {ns \in DOMAIN counts :
     Cardinality({o \in DOMAIN counts : o < ns}) < MaxNamespaces}
CapNamespaces(counts) == [ns \in FirstNamespaces(counts) |-> counts[ns]]

\* Empty targets are dropped before the list is cut; revisions are clamped.
CapRevision(r) == IF r < 0 THEN 0 ELSE IF r > MaxRevision THEN MaxRevision ELSE r
CapActionsInFull(actions) == actions   \* mutant of CapActions: no cap
Named(actions) == {i \in DOMAIN actions : actions[i].target # ""}
CapActions(actions) ==
  LET kept == Truncate(Filtered(actions, Named(actions)), MaxActions)
  IN  [i \in DOMAIN kept |-> [kept[i] EXCEPT !.revision = CapRevision(@)]]

\* A block is the number of its entries.
CapEntries(n) == IF n > EntryCap THEN EntryCap ELSE n

ApplyCaps(p) ==
  [p EXCEPT !.nodes = Truncate(@, MaxNodes),
            !.pods.byNamespace = CapNamespaces(@),
            !.events = Truncate(@, MaxEvents),
            !.actions = CapActions(@),
            !.blocks = [b \in DOMAIN @ |-> CapEntries(@[b])]]

-----------------------------------------------------------------------------
\* kubehz-api's HeartbeatSchema: one entry out of bounds and the whole
\* heartbeat is a 400.
HeartbeatSchema(p) ==
  /\ Len(p.nodes) <= MaxNodes
  /\ Len(p.actions) <= MaxActions
  /\ \A i \in DOMAIN p.actions :
       p.actions[i].target # "" /\ p.actions[i].revision \in 0..MaxRevision
  /\ \A b \in DOMAIN p.blocks : p.blocks[b] <= EntryCap
=============================================================================
