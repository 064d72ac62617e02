------------------------------- MODULE Scaling -------------------------------
(***************************************************************************)
(* What acting on the desired state promises, whoever fetches and acts:    *)
(* only what the server published is put in place, while it permits to     *)
(* scale, within the limits, on pools that are the agent's to scale, and   *)
(* never an older revision after a newer one, whatever crashes, fails or   *)
(* is scaled by others in between.  What was in place is not written.      *)
(***************************************************************************)
EXTENDS Integers

CONSTANTS
  Pools,
  Refusing,    \* pools that are not the agent's to scale
  MaxReplicas,
  NoDoc        \* no document is held

VARIABLES
  doc,         \* the server's document
  held,        \* the document the agent acts on
  replicas,    \* pool -> replicas in the cluster
  looked,      \* pool -> replicas when the agent last looked, or Unread
  applied,     \* pool -> revision last put in place, or found in place
  others       \* how often somebody else changed the replicas of a pool

scalingVars == <<doc, held, replicas, looked, applied, others>>

Unread == [p \in {} |-> 0]

Init == held = NoDoc /\ looked = Unread /\ applied = [p \in Pools |-> 0] /\ others = 0

\* The server changes its mind: what is wanted changes with the revision only.
Publish ==
  /\ doc'.revision >= doc.revision
  /\ doc'.revision = doc.revision => doc'.want = doc.want
  /\ UNCHANGED <<held, replicas, looked, applied, others>>

Fetch ==
  /\ held' = doc /\ looked' \in {looked, Unread}
  /\ UNCHANGED <<doc, replicas, applied, others>>

Look ==
  /\ looked' \in {replicas, Unread}
  /\ UNCHANGED <<doc, held, replicas, applied, others>>

Crash ==
  /\ held' = NoDoc /\ looked' = Unread
  /\ UNCHANGED <<doc, replicas, applied, others>>

Permits(p) ==
  /\ "scaling" \in held.execution /\ p \notin Refusing /\ held.want[p] \in 0..MaxReplicas
  /\ applied[p] <= held.revision
  /\ p \in DOMAIN looked

\* Replicas are put in place, which the agent notices or not.
Apply(p) ==
  /\ Permits(p) /\ looked[p] # held.want[p]
  /\ replicas' = [replicas EXCEPT ![p] = held.want[p]]
  /\ applied' \in {applied, [applied EXCEPT ![p] = held.revision]}
  /\ UNCHANGED <<doc, held, looked, others>>

\* They were in place when the agent looked.
Confirm(p) ==
  /\ Permits(p) /\ looked[p] = held.want[p]
  /\ applied' = [applied EXCEPT ![p] = held.revision]
  /\ UNCHANGED <<doc, held, replicas, looked, others>>

Interfere ==
  /\ others' = others + 1
  /\ \E p \in Pools : \A k \in Pools \ {p} : replicas'[k] = replicas[k]
  /\ UNCHANGED <<doc, held, looked, applied>>

Next ==
  \/ Publish \/ Fetch \/ Look \/ Crash \/ Interfere
  \/ \E p \in Pools : Apply(p) \/ Confirm(p)

Spec == Init /\ [][Next]_scalingVars
=============================================================================
