---------------------------- MODULE ControlPlane ----------------------------
(***************************************************************************)
(* The control-plane probe (internal/controlplane/controlplane.go): every  *)
(* refresh asks the apiserver for its readiness, reads the static pods     *)
(* from the informer cache and pages through the certificate signing       *)
(* requests for the earliest expiry.  The calls follow one another while   *)
(* the control plane fails, recovers and hangs.  The snapshot replaces the *)
(* one before, and a change of it is signalled to the Coalescer.           *)
(*                                                                         *)
(* A signing request is its place in the order of the list and the         *)
(* earliest expiry among its certificates.  Several pods of one component  *)
(* count by the set of their Ready conditions.                             *)
(***************************************************************************)
EXTENDS Integers, FiniteSets

CONSTANTS
  Static,      \* components that run as static pods
  Requests,    \* certificate signing requests, in the order they are listed
  Expiries,    \* when a certificate may expire
  PageSize,    \* csrPageSize
  PageBudget,  \* csrPageBudget
  MaxChanges   \* bound of the model: changes of the control plane, and slow refreshes

ASSUME ProbeAssumption ==
  /\ Requests \subseteq Nat /\ IsFiniteSet(Requests) /\ Expiries \subseteq Nat \ {0}
  /\ PageSize \in Nat \ {0} /\ PageBudget \in Nat /\ MaxChanges \in Nat
  /\ {"apiserver", "etcd"} \cap Static = {}

Components == {"apiserver", "etcd"} \cup Static
Healthy == "Healthy"
Unhealthy == "Unhealthy"
Unknown == "unknown"  \* the entry is omitted

Absent == -1   \* no such signing request
None == 0      \* pending or denied: no certificate; also: no expiry is reported

Paths == {"readyz", "csrs"}

VARIABLES
  allowed,   \* what the cluster's RBAC lets the agent read
  reach,     \* the apiserver answers ("up"), refuses or resets ("down"), or hangs
  failing,   \* the checks of /readyz that fail
  pods,      \* static component -> Ready conditions of its pods in the cache
  csr,       \* signing request -> Absent, None or its expiry
  pc,        \* where refresh is
  expired,   \* its context's deadline has passed
  found,     \* component -> what Collect found so far
  page, listing, earliest, \* earliestCSRExpiry: page, list it is of, result so far
  snap,      \* Manager.snap
  signalled, \* notify was called since the payload was last built
  beaten,    \* the snapshot in the newest payload
  held,      \* history: component -> verdicts that were true during this refresh
  calm,      \* history: since this refresh began the cluster did not change and was
             \* not slow
  changes    \* counter of the bounded changes

cluster == <<allowed, reach, failing, pods, csr>>
csrs == <<page, listing, earliest>>
collect == <<expired, found, csrs>>
history == <<held, calm>>
vars == <<cluster, pc, collect, snap, signalled, beaten, history, changes>>

Nothing == [c \in Components |-> Unknown]
NoList == [r \in Requests |-> Absent]
Empty == [components |-> Nothing, certificates |-> None]

\* ComponentsFromPods: one ready pod is enough; no pod at all is no verdict.
OfPods(ready) ==
  IF TRUE \in ready THEN Healthy ELSE IF ready = {} THEN Unknown ELSE Unhealthy

\* What is true of a component now.  An apiserver that answers is alive, whether
\* or not its checks pass: the fallback to /version says no more.
Verdicts(c) ==
  CASE c = "apiserver" -> (IF reach = "up" THEN {Healthy} ELSE {})
                            \cup (IF failing # {} THEN {Unhealthy} ELSE {})
    [] c = "etcd"      -> {IF "etcd" \in failing THEN Unhealthy ELSE Healthy}
    [] OTHER           -> IF TRUE \in pods[c] THEN {Healthy}
                          ELSE IF FALSE \in pods[c] THEN {Unhealthy} ELSE {}
-----------------------------------------------------------------------------
Init ==
  /\ allowed \in SUBSET Paths
  /\ reach = "up" /\ failing = {}
  /\ pods = [c \in Static |-> {TRUE}]
  /\ csr \in [Requests -> Expiries \cup {Absent}]
  /\ pc = "readyz" /\ expired = FALSE /\ found = Nothing
  /\ page = 0 /\ listing = NoList /\ earliest = None
  /\ snap = Empty /\ signalled = FALSE /\ beaten = Empty
  /\ held = [c \in Components |-> Verdicts(c)] /\ calm = TRUE
  /\ changes = 0

-----------------------------------------------------------------------------
(* /readyz and /version.                                                   *)

\* The body of /readyz?verbose: its [-] lines, and whether it has "[+]etcd ok".
Reply(ok, minus, plus) == [ok |-> ok, minus |-> minus, plus |-> plus]

\* A reset connection may leave the lines before the first failed check.
Replies ==
  IF reach = "down" \/ expired
  THEN {Reply(FALSE, {}, plus) : plus \in {FALSE, "etcd" \notin failing}}
  ELSE IF "readyz" \notin allowed THEN {Reply(FALSE, {}, FALSE)}
  ELSE {Reply(failing = {}, failing, "etcd" \notin failing)}

\* ParseReadyz: a failure counts when its body has a failed check; the lines
\* count only when the verdict does.
\* (Mutant first: a call that fails is a failure of the apiserver.)
ApiserverOfError(r) == IF r.ok THEN Healthy ELSE Unhealthy
Apiserver(r) == IF r.ok THEN Healthy ELSE IF r.minus # {} THEN Unhealthy ELSE Unknown
Etcd(r) ==
  IF Apiserver(r) = Unknown THEN Unknown
  ELSE IF "etcd" \in r.minus THEN Unhealthy ELSE IF r.plus THEN Healthy ELSE Unknown

\* A call is answered unless the apiserver hangs; after the deadline it fails.
Answered == reach # "hung" \/ expired
Fails(path) == expired \/ reach = "down" \/ path \notin allowed

Readyz ==
  /\ pc = "readyz" /\ Answered
  /\ \E r \in Replies :
       /\ found' = [found EXCEPT !["apiserver"] = Apiserver(r), !["etcd"] = Etcd(r)]
       /\ pc' = IF Apiserver(r) = Unknown THEN "version" ELSE "pods"
  /\ UNCHANGED <<cluster, expired, csrs, snap, signalled, beaten, history, changes>>

\* /version is readable by everybody.
Version ==
  /\ pc = "version" /\ Answered
  /\ found' = [found EXCEPT !["apiserver"] =
                 IF expired \/ reach = "down" THEN Unknown ELSE Healthy]
  /\ pc' = "pods"
  /\ UNCHANGED <<cluster, expired, csrs, snap, signalled, beaten, history, changes>>

\* The informer's cache answers whatever the apiserver does.
Pods ==
  /\ pc = "pods"
  /\ found' = [c \in Components |-> IF c \in Static THEN OfPods(pods[c]) ELSE found[c]]
  /\ pc' = "csrs"
  /\ UNCHANGED <<cluster, expired, csrs, snap, signalled, beaten, history, changes>>

-----------------------------------------------------------------------------
(* The signing requests.                                                   *)

Sooner(e, f) == IF f # None /\ (e = None \/ f < e) THEN f ELSE e

\* EarliestCertExpiry: None when no request in rs has a certificate.
EarliestOf(list, rs) ==
  LET es == {list[r] : r \in rs} \ {Absent, None}
  IN  IF es = {} THEN None ELSE CHOOSE e \in es : \A f \in es : e <= f

Listed(list) == {r \in Requests : list[r] # Absent}
Rank(list, r) == Cardinality({q \in Listed(list) : q < r})
OnPage(list, n) ==
  {r \in Listed(list) : n * PageSize <= Rank(list, r) /\ Rank(list, r) < (n + 1) * PageSize}
IsLast(list, n) == Cardinality(Listed(list)) <= (n + 1) * PageSize

\* All pages are of the list as it was for the first one (the continue token).
List == IF page = 0 THEN csr ELSE listing

Exhausted == page = PageBudget

\* Mutant of OverBudget: what the pages read so far say is reported.
OverBudgetPrefix == Exhausted /\ earliest' = earliest
OverBudget == Exhausted /\ earliest' = None

\* The last page, one of many, the budget, or a list that fails.
Csrs ==
  /\ pc = "csrs" /\ (Answered \/ Exhausted)
  /\ \/ /\ OverBudget
        /\ pc' = "store" /\ UNCHANGED <<page, listing>>
     \/ /\ ~Exhausted /\ Fails("csrs")
        /\ earliest' = None
        /\ pc' = "store" /\ UNCHANGED <<page, listing>>
     \/ /\ ~Exhausted /\ ~Fails("csrs")
        /\ listing' = List
        /\ earliest' = Sooner(earliest, EarliestOf(List, OnPage(List, page)))
        /\ page' = page + 1
        /\ pc' = IF IsLast(List, page) THEN "store" ELSE "csrs"
  /\ UNCHANGED <<cluster, expired, found, snap, signalled, beaten, history, changes>>

-----------------------------------------------------------------------------
(* Manager.refresh and what follows it.                                    *)

\* Mutant of Timeout: the calls of a refresh have no deadline.
TimeoutNever == FALSE /\ UNCHANGED vars

\* probeTimeout passes while a call hangs; every later call fails at once.
Timeout ==
  /\ pc \in {"readyz", "version", "csrs"} /\ reach = "hung" /\ ~expired
  /\ expired' = TRUE
  /\ UNCHANGED <<cluster, pc, found, csrs, snap, signalled, beaten, history, changes>>

\* It also passes when the apiserver answers every call, but slowly.
Slow ==
  /\ pc \in {"readyz", "version", "csrs"} /\ reach # "hung" /\ ~expired
  /\ changes < MaxChanges /\ changes' = changes + 1
  /\ expired' = TRUE /\ calm' = FALSE
  /\ UNCHANGED <<cluster, pc, found, csrs, snap, signalled, beaten, held>>

Collected == [components |-> found, certificates |-> earliest]

\* equal, negated.  (Mutant first: certificates are compared by their address.)
DiffersByPointer(a, b) == a # b \/ b.certificates # None
Differs(a, b) == a # b

\* The snapshot is compared and replaced under the lock.
Store ==
  /\ pc = "store"
  /\ snap' = Collected
  /\ pc' = IF Differs(snap, Collected) THEN "notify" ELSE "wait"
  /\ UNCHANGED <<cluster, collect, signalled, beaten, history, changes>>

Notify ==
  /\ pc = "notify"
  /\ signalled' = TRUE
  /\ pc' = "wait"
  /\ UNCHANGED <<cluster, collect, snap, beaten, history, changes>>

\* The ticker fires, and Collect begins with nothing.
Tick ==
  /\ pc = "wait"
  /\ pc' = "readyz" /\ expired' = FALSE /\ found' = Nothing
  /\ page' = 0 /\ listing' = NoList /\ earliest' = None
  /\ held' = [c \in Components |-> Verdicts(c)] /\ calm' = TRUE
  /\ UNCHANGED <<cluster, snap, signalled, beaten, changes>>

\* A payload is built: at a signal, and periodically.
Beat ==
  /\ signalled' = FALSE
  /\ beaten' = snap
  /\ UNCHANGED <<cluster, pc, collect, snap, history, changes>>

-----------------------------------------------------------------------------
(* The control plane.                                                      *)

\* One thing changes; what is true of a component now was true in this refresh.
Changes ==
  /\ changes < MaxChanges
  /\ changes' = changes + 1
  /\ held' = [c \in Components |-> held[c] \cup Verdicts(c)'] /\ calm' = FALSE
  /\ UNCHANGED <<allowed, pc, collect, snap, signalled, beaten>>

Connection(r) ==
  /\ reach # r
  /\ reach' = r
  /\ UNCHANGED <<failing, pods, csr>>

Check(f) ==
  /\ failing # f
  /\ failing' = f
  /\ UNCHANGED <<reach, pods, csr>>

\* A pod of a static component starts, gets ready, fails or goes.
Kubelet(c, ready) ==
  /\ pods[c] # ready
  /\ pods' = [pods EXCEPT ![c] = ready]
  /\ UNCHANGED <<reach, failing, csr>>

\* A request is made, its certificate issued, or it is garbage-collected.
Sign(r, e) ==
  /\ csr[r] # e
  /\ csr[r] = Absent \/ e = Absent \/ csr[r] = None
  /\ csr' = [csr EXCEPT ![r] = e]
  /\ UNCHANGED <<reach, failing, pods>>

Change ==
  /\ \/ \E r \in {"up", "down", "hung"} : Connection(r)
     \/ \E f \in SUBSET {"etcd", "other"} : Check(f)
     \/ \E c \in Static, ready \in SUBSET BOOLEAN : Kubelet(c, ready)
     \/ \E r \in Requests, e \in Expiries \cup {None, Absent} : Sign(r, e)
  /\ Changes

Refresh == Readyz \/ Version \/ Pods \/ Csrs \/ Timeout \/ Store \/ Notify \/ Tick

Next == Refresh \/ Slow \/ Beat \/ Change

\* The manager's goroutine runs, its ticker fires, deadlines pass, and a signal
\* leads to a payload.  Nothing is assumed of the control plane, but that it is not slow
\* in every refresh.
Spec == Init /\ [][Next]_vars /\ WF_vars(Refresh) /\ WF_vars(signalled /\ Beat)

-----------------------------------------------------------------------------
(* Properties.                                                             *)

Snapshots == [components : [Components -> {Healthy, Unhealthy, Unknown}],
              certificates : Nat]
Lists == [Requests -> Expiries \cup {Absent, None}]

\* Every variable has its type, and no more pages are read than budgeted.
TypeOK ==
  /\ allowed \subseteq Paths /\ reach \in {"up", "down", "hung"}
  /\ failing \subseteq {"etcd", "other"}
  /\ pods \in [Static -> SUBSET BOOLEAN]
  /\ csr \in Lists /\ listing \in Lists
  /\ pc \in {"wait", "readyz", "version", "pods", "csrs", "store", "notify"}
  /\ expired \in BOOLEAN /\ signalled \in BOOLEAN
  /\ found \in [Components -> {Healthy, Unhealthy, Unknown}]
  /\ page \in 0..PageBudget /\ earliest \in Expiries \cup {None}
  /\ {snap, beaten} \subseteq Snapshots
  /\ held \in [Components -> SUBSET {Healthy, Unhealthy, Unknown}] /\ calm \in BOOLEAN
  /\ changes \in Nat

Storing == pc = "store" /\ pc' # "store"

\* The expiry that is reported is the earliest of ALL requests as they were at
\* one moment of the refresh, never of a part of them (controlplane.go:77):
\* not past the budget, not when a later page fails or the deadline passes.
ExpiryIsOfAll ==
  [][Storing => snap'.certificates \in {None, EarliestOf(listing, Requests)}]_vars

\* A missing component is never reported as Unhealthy (controlplane.go:24), and no
\* verdict outlives its probe: whatever a refresh reports was true during it.
OnlyWhatWasSeen ==
  [][Storing => \A c \in Components : snap'.components[c] \in held[c] \cup {Unknown}]_vars

\* A changed snapshot reaches a heartbeat without waiting for the periodic one: what is
\* not in the payload is signalled, or about to be (controlplane.go:270).
SnapshotIsSignalled == beaten # snap => signalled \/ pc = "notify"

\* What Collect finds when nothing moves.
Facts ==
  [components |->
     [c \in Components |->
        CASE c \in Static -> OfPods(pods[c])
          [] c = "apiserver" /\ reach = "up" ->
               IF "readyz" \in allowed /\ failing # {} THEN Unhealthy ELSE Healthy
          [] c = "etcd" /\ reach = "up" /\ "readyz" \in allowed ->
               IF "etcd" \in failing THEN Unhealthy ELSE Healthy
          [] OTHER -> Unknown],
   certificates |->
     IF reach = "up" /\ "csrs" \in allowed
        /\ Cardinality(Listed(csr)) <= PageSize * PageBudget
     THEN EarliestOf(csr, Requests) ELSE None]

\* A refresh in which nothing moves and no answer is slow finds all there is to find
\* and nothing else: an expiry is left out only when the list is longer than the
\* budget, cannot be read or names none, and a fallback never hides a check that fails
\* (controlplane.go:75).
CalmFindsFacts == [][Storing /\ calm => snap' = Facts]_vars

\* A control plane that stays as it is, is what the heartbeats show, without
\* waiting for the periodic one: a hung apiserver never parks the manager on a
\* stale snapshot (controlplane.go:333).
EventuallyShown == <>[](beaten = Facts)

\* A steady cluster costs no heartbeats: refreshes that find the same do not signal.
EventuallyQuiet == <>[]~signalled
=============================================================================
