------------------------- MODULE ControlPlaneProofs -------------------------
(* Theorems about the control-plane probe, for any components, any number of *)
(* signing requests, every page size and budget, and a control plane that    *)
(* fails, recovers and hangs at any time.                                    *)
EXTENDS ControlPlane, FiniteSetTheorems, WellFoundedInduction, TLAPS

-----------------------------------------------------------------------------
(* The earliest expiry of a set of requests.                               *)

\* A set of numbers has a least one, for the intervals up to its members are
\* ordered well by inclusion.
LEMMA LeastExists ==
  ASSUME NEW S \in SUBSET Nat, S # {}
  PROVE  \E x \in S : \A y \in S : x <= y
<1> DEFINE F == {0..n : n \in S}
           R == StrictSubsetOrdering(Nat)
<1>1. F \subseteq FiniteSubsetsOf(Nat)
  <2>1. ASSUME NEW n \in S PROVE 0..n \in FiniteSubsetsOf(Nat)
    <3>1. n \in Int /\ 0 \in Int /\ 0..n \in SUBSET Nat
      OBVIOUS
    <3>2. IsFiniteSet(0..n)
      BY <3>1, FS_Interval
    <3> QED
      BY <3>1, <3>2 DEF FiniteSubsetsOf
  <2> QED
    BY <2>1
<1>2. F # {}
  OBVIOUS
<1>3. PICK X \in F : \A Y \in F : ~(<<Y, X>> \in R)
  <2> HIDE DEF F, R
  <2>1. IsWellFoundedOn(R, FiniteSubsetsOf(Nat))
    BY FS_StrictSubsetOrderingWellFounded DEF R
  <2> QED
    BY <1>1, <1>2, <2>1, WFMin
<1>4. PICK x \in S : X = 0..x
  OBVIOUS
<1>5. ASSUME NEW y \in S, y < x PROVE FALSE
  <2>1. 0..y \in F /\ 0..y \subseteq X /\ x \in X /\ x \notin 0..y
    BY <1>4, <1>5
  <2>2. 0..y \in SUBSET Nat /\ X \in SUBSET Nat
    BY <1>4
  <2>3. <<0..y, X>> \in R
    BY <2>1, <2>2 DEF StrictSubsetOrdering
  <2> QED
    BY <1>3, <2>1, <2>3
<1> QED
  BY <1>5

Issued(list, rs) == {list[r] : r \in rs} \ {Absent, None}

LEMMA IssuedType ==
  ASSUME NEW list \in Lists, NEW rs \in SUBSET Requests
  PROVE  Issued(list, rs) \subseteq Expiries /\ Issued(list, rs) \subseteq Nat \ {0}
BY ProbeAssumption DEF Issued, Lists

\* EarliestOf is None exactly when there is nothing to choose from.
LEMMA EarliestIsLeast ==
  ASSUME NEW list \in Lists, NEW rs \in SUBSET Requests
  PROVE  /\ Issued(list, rs) = {} => EarliestOf(list, rs) = None
         /\ Issued(list, rs) # {} =>
              /\ EarliestOf(list, rs) \in Issued(list, rs)
              /\ \A f \in Issued(list, rs) : EarliestOf(list, rs) <= f
<1> DEFINE E == Issued(list, rs)
           Least == CHOOSE e \in E : \A f \in E : e <= f
<1>1. EarliestOf(list, rs) = IF E = {} THEN None ELSE Least
  BY Zenon DEF EarliestOf, Issued
<1>2. E # {} => \E e \in E : \A f \in E : e <= f
  BY IssuedType, LeastExists
<1>3. E # {} => Least \in E /\ \A f \in E : Least <= f
  <2> HIDE DEF E
  <2> QED
    BY <1>2
<1> HIDE DEF Least
<1> QED
  BY <1>1, <1>3

LEMMA EarliestType ==
  ASSUME NEW list \in Lists, NEW rs \in SUBSET Requests
  PROVE  EarliestOf(list, rs) \in Expiries \cup {None}
BY EarliestIsLeast, IssuedType

\* Two sets of requests in which the same was issued have the same earliest.
LEMMA EarliestOfSame ==
  ASSUME NEW list \in Lists, NEW qs \in SUBSET Requests, NEW rs \in SUBSET Requests,
         Issued(list, qs) = Issued(list, rs)
  PROVE  EarliestOf(list, qs) = EarliestOf(list, rs)
<1> DEFINE Least(E) == IF E = {} THEN None ELSE CHOOSE e \in E : \A f \in E : e <= f
<1>1. EarliestOf(list, qs) = Least(Issued(list, qs))
  BY Zenon DEF EarliestOf, Issued
<1>2. EarliestOf(list, rs) = Least(Issued(list, rs))
  BY Zenon DEF EarliestOf, Issued
<1> HIDE DEF Least
<1> QED
  BY <1>1, <1>2

\* Page by page, the sooner of the results is the earliest of what was read.
LEMMA SoonerOfUnion ==
  ASSUME NEW list \in Lists, NEW qs \in SUBSET Requests, NEW rs \in SUBSET Requests
  PROVE  Sooner(EarliestOf(list, qs), EarliestOf(list, rs)) = EarliestOf(list, qs \cup rs)
<1> DEFINE e == EarliestOf(list, qs)
           f == EarliestOf(list, rs)
           g == EarliestOf(list, qs \cup rs)
           E == Issued(list, qs)
           F == Issued(list, rs)
           G == Issued(list, qs \cup rs)
<1> SUFFICES Sooner(e, f) = g
  OBVIOUS
<1>1. G = E \cup F
  BY DEF Issued
<1>2. E \subseteq Nat \ {0} /\ F \subseteq Nat \ {0}
  BY IssuedType
<1>3. /\ E = {} => e = None
      /\ E # {} => e \in E /\ \A x \in E : e <= x
  BY EarliestIsLeast
<1>4. /\ F = {} => f = None
      /\ F # {} => f \in F /\ \A x \in F : f <= x
  BY EarliestIsLeast
<1>5. /\ G = {} => g = None
      /\ G # {} => g \in G /\ \A x \in G : g <= x
  <2>1. qs \cup rs \in SUBSET Requests
    OBVIOUS
  <2> QED
    BY <2>1, EarliestIsLeast
<1> HIDE DEF e, f, g, E, F, G
<1>6. CASE F = {} /\ E = {}
  BY <1>1, <1>3, <1>4, <1>5, <1>6 DEF Sooner
<1>7. CASE F = {} /\ E # {}
  <2>1. g \in E /\ e \in G
    BY <1>1, <1>3, <1>5, <1>7
  <2>2. g <= e /\ e <= g /\ e \in Nat /\ g \in Nat
    BY <1>2, <1>3, <1>5, <1>7, <2>1
  <2>3. f = None
    BY <1>4, <1>7
  <2> QED
    BY <2>2, <2>3 DEF Sooner
<1>8. CASE F # {} /\ E = {}
  <2>1. g \in F /\ f \in G
    BY <1>1, <1>4, <1>5, <1>8
  <2>2. g <= f /\ f <= g /\ f \in Nat \ {0} /\ g \in Nat
    BY <1>2, <1>4, <1>5, <1>8, <2>1
  <2>3. e = None
    BY <1>3, <1>8
  <2> QED
    BY <2>2, <2>3 DEF Sooner, None
<1>9. CASE F # {} /\ E # {}
  <2>1. g \in E \cup F /\ e \in G /\ f \in G /\ e \in E /\ f \in F
    BY <1>1, <1>3, <1>4, <1>5, <1>9
  <2>2. e \in Nat \ {0} /\ f \in Nat \ {0} /\ g \in Nat \ {0}
    BY <1>2, <2>1
  <2>3. g <= e /\ g <= f
    BY <1>5, <2>1
  <2>4. e <= g \/ f <= g
    BY <1>3, <1>4, <1>9, <2>1
  <2> QED
    BY <2>2, <2>3, <2>4 DEF Sooner, None
<1> QED
  BY <1>6, <1>7, <1>8, <1>9

-----------------------------------------------------------------------------
(* Type correctness.                                                       *)

LEMMA SoonerType ==
  ASSUME NEW e \in Expiries \cup {None}, NEW f \in Expiries \cup {None}
  PROVE  Sooner(e, f) \in Expiries \cup {None}
BY DEF Sooner

LEMMA VerdictsType ==
  ASSUME TypeOK, NEW c \in Components
  PROVE  Verdicts(c) \subseteq {Healthy, Unhealthy, Unknown}
BY DEF Verdicts

\* Whatever the apiserver replies, its readiness is read as a verdict.
LEMMA RepliesType ==
  ASSUME NEW r \in Replies
  PROVE  Apiserver(r) \in {Healthy, Unhealthy, Unknown} /\ Etcd(r) \in {Healthy, Unhealthy, Unknown}
BY DEF Apiserver, Etcd

\* The list that a page is of.
LEMMA ListType == TypeOK => List \in Lists
BY DEF TypeOK, List

LEMMA OnPageType ==
  ASSUME NEW list, NEW n
  PROVE  OnPage(list, n) \in SUBSET Requests
BY DEF OnPage, Listed

\* The result of a page and of those before it has its type.
LEMMA CsrsType ==
  ASSUME TypeOK, Csrs
  PROVE  /\ earliest' \in Expiries \cup {None} /\ listing' \in Lists
         /\ page' \in 0..PageBudget /\ pc' \in {"csrs", "store"}
<1>1. CASE OverBudget
  BY <1>1 DEF TypeOK, Csrs, OverBudget
<1>2. CASE ~Exhausted /\ Fails("csrs")
  BY <1>2 DEF TypeOK, Csrs, OverBudget
<1>3. CASE ~Exhausted /\ ~Fails("csrs")
  <2>1. EarliestOf(List, OnPage(List, page)) \in Expiries \cup {None}
    BY ListType, OnPageType, EarliestType
  <2>2. Sooner(earliest, EarliestOf(List, OnPage(List, page))) \in Expiries \cup {None}
    BY <2>1, SoonerType DEF TypeOK
  <2>3. page + 1 \in 0..PageBudget
    BY <1>3, ProbeAssumption DEF TypeOK, Exhausted
  <2> QED
    BY <1>3, <2>2, <2>3, ListType DEF Csrs, OverBudget
<1> QED
  BY <1>1, <1>2, <1>3 DEF Csrs, OverBudget

\* Every variable keeps its type, and no page past the budget is read.
THEOREM TypeCorrect == Spec => []TypeOK
<1>1. Init => TypeOK
  <2> SUFFICES ASSUME Init PROVE TypeOK
    OBVIOUS
  <2>1. csr \in Lists /\ listing \in Lists
    BY DEF Init, Lists, NoList
  <2>2. /\ pods \in [Static -> SUBSET BOOLEAN]
        /\ found \in [Components -> {Healthy, Unhealthy, Unknown}]
        /\ {snap, beaten} \subseteq Snapshots
    BY DEF Init, Nothing, Empty, Snapshots, None
  <2>3. held \in [Components -> SUBSET {Healthy, Unhealthy, Unknown}]
    BY DEF Init, Verdicts
  <2>4. page \in 0..PageBudget /\ earliest \in Expiries \cup {None}
    BY ProbeAssumption DEF Init
  <2>5. expired \in BOOLEAN /\ signalled \in BOOLEAN /\ calm \in BOOLEAN
    BY Zenon DEF Init
  <2> QED
    BY <2>1, <2>2, <2>3, <2>4, <2>5 DEF Init, TypeOK
<1>2. ASSUME TypeOK, [Next]_vars PROVE TypeOK'
  <2>1. CASE Readyz
    BY <1>2, <2>1, RepliesType DEF TypeOK, Readyz, cluster, csrs, history
  <2>2. CASE Version
    BY <1>2, <2>2 DEF TypeOK, Version, cluster, csrs, history
  <2>3. CASE Pods
    BY <1>2, <2>3 DEF TypeOK, Pods, OfPods, cluster, csrs, Components, history
  <2>4. CASE Csrs
    BY <1>2, <2>4, CsrsType DEF TypeOK, Csrs, cluster, history
  <2>5. CASE Timeout \/ Slow
    <3>1. CASE Timeout
      BY <1>2, <3>1 DEF TypeOK, Timeout, cluster, csrs, history
    <3>2. CASE Slow
      <4>1. calm' = FALSE /\ expired' = TRUE /\ changes' \in Nat
        BY <1>2, <3>2 DEF TypeOK, Slow
      <4> QED
        BY <1>2, <3>2, <4>1 DEF TypeOK, Slow, cluster, csrs
    <3> QED
      BY <2>5, <3>1, <3>2
  <2>6. CASE Store
    <3>1. Collected \in Snapshots
      <4>1. found \in [Components -> {Healthy, Unhealthy, Unknown}] /\ earliest \in Nat
        BY <1>2, ProbeAssumption DEF TypeOK, None
      <4> QED
        BY <4>1 DEF Collected, Snapshots
    <3>2. {snap', beaten'} \subseteq Snapshots /\ pc' \in {"notify", "wait"}
      BY <1>2, <2>6, <3>1 DEF TypeOK, Store
    <3> QED
      BY <1>2, <2>6, <3>2 DEF TypeOK, Store, cluster, collect, csrs, history
  <2>7. CASE Notify
    BY <1>2, <2>7 DEF TypeOK, Notify, cluster, collect, csrs, history
  <2>8. CASE Tick
    <3>1. held' \in [Components -> SUBSET {Healthy, Unhealthy, Unknown}]
      BY <1>2, <2>8, VerdictsType DEF Tick
    <3>2. listing' \in Lists /\ found' \in [Components -> {Healthy, Unhealthy, Unknown}]
      BY <2>8 DEF Tick, Lists, NoList, Nothing
    <3>3. page' \in 0..PageBudget /\ earliest' \in Expiries \cup {None}
      BY <2>8, ProbeAssumption DEF Tick
    <3> QED
      BY <1>2, <2>8, <3>1, <3>2, <3>3 DEF TypeOK, Tick, cluster
  <2>9. CASE Beat
    BY <1>2, <2>9 DEF TypeOK, Beat, cluster, collect, csrs, history
  <2>10. CASE Change
    <3>1. /\ reach' \in {"up", "down", "hung"} /\ failing' \subseteq {"etcd", "other"}
          /\ pods' \in [Static -> SUBSET BOOLEAN] /\ csr' \in Lists
      <4>1. CASE \E r \in {"up", "down", "hung"} : Connection(r)
        BY <1>2, <4>1 DEF TypeOK, Connection
      <4>2. CASE \E f \in SUBSET {"etcd", "other"} : Check(f)
        BY <1>2, <4>2 DEF TypeOK, Check
      <4>3. CASE \E c \in Static, ready \in SUBSET BOOLEAN : Kubelet(c, ready)
        BY <1>2, <4>3 DEF TypeOK, Kubelet
      <4>4. CASE \E r \in Requests, e \in Expiries \cup {None, Absent} : Sign(r, e)
        BY <1>2, <4>4 DEF TypeOK, Sign, Lists
      <4> QED
        BY <2>10, <4>1, <4>2, <4>3, <4>4 DEF Change
    <3>2. ASSUME NEW c \in Components
          PROVE  Verdicts(c)' \subseteq {Healthy, Unhealthy, Unknown}
      <4>1. CASE c = "apiserver"
        BY <4>1 DEF Verdicts
      <4>2. CASE c = "etcd"
        BY <4>2 DEF Verdicts
      <4>3. CASE c \notin {"apiserver", "etcd"}
        BY <4>3 DEF Verdicts
      <4> QED
        BY <4>1, <4>2, <4>3
    <3>3. held' \in [Components -> SUBSET {Healthy, Unhealthy, Unknown}]
      BY <1>2, <2>10, <3>2 DEF Change, Changes, TypeOK
    <3>4. calm' \in BOOLEAN
      BY <2>10 DEF Change, Changes
    <3> QED
      BY <1>2, <2>10, <3>1, <3>3, <3>4 DEF TypeOK, Change, Changes, collect, csrs
  <2>11. CASE UNCHANGED vars
    BY <1>2, <2>11 DEF TypeOK, vars, cluster, collect, csrs, history
  <2> QED
    BY <1>2, <2>1, <2>2, <2>3, <2>4, <2>5, <2>6, <2>7, <2>8, <2>9, <2>10, <2>11
       DEF Next, Refresh
<1> QED
  BY <1>1, <1>2, PTL DEF Spec

-----------------------------------------------------------------------------
(* Verdicts: only what was seen.                                           *)

\* What is true now was true during this refresh, and so was all that it found.
SeenInv ==
  \A c \in Components : Verdicts(c) \subseteq held[c] /\ found[c] \in held[c] \cup {Unknown}

\* A reply is read as what is true, or as nothing.
LEMMA ReadyzIsTrue ==
  ASSUME TypeOK, Answered, NEW r \in Replies
  PROVE  /\ Apiserver(r) \in Verdicts("apiserver") \cup {Unknown}
         /\ Etcd(r) \in Verdicts("etcd") \cup {Unknown}
<1>1. CASE reach = "down" \/ expired \/ "readyz" \notin allowed
  <2>1. r.ok = FALSE /\ r.minus = {}
    BY <1>1 DEF Replies, Reply
  <2> QED
    BY <2>1 DEF Apiserver, Etcd
<1>2. CASE ~(reach = "down" \/ expired \/ "readyz" \notin allowed)
  <2>1. reach = "up"
    BY <1>2 DEF TypeOK, Answered
  <2>2. r = Reply(failing = {}, failing, "etcd" \notin failing)
    BY <1>2 DEF Replies
  <2>3. /\ r.ok <=> failing = {}
        /\ r.minus = failing
        /\ r.plus <=> "etcd" \notin failing
    BY <2>2 DEF Reply
  <2>4. Apiserver(r) \in Verdicts("apiserver")
    BY <2>1, <2>3 DEF Apiserver, Verdicts
  <2>5. Etcd(r) \in Verdicts("etcd") \cup {Unknown}
    BY <2>3 DEF Etcd, Verdicts
  <2> QED
    BY <2>4, <2>5
<1> QED
  BY <1>1, <1>2

LEMMA SeenStep ==
  ASSUME TypeOK, SeenInv, [Next]_vars
  PROVE  SeenInv'
<1>1. CASE Readyz
  <2>1. PICK r \in Replies :
          found' = [found EXCEPT !["apiserver"] = Apiserver(r), !["etcd"] = Etcd(r)]
    BY <1>1 DEF Readyz
  <2>2. \A c \in Components : Verdicts(c)' = Verdicts(c) /\ held'[c] = held[c]
    BY <1>1 DEF Readyz, cluster, history, Verdicts
  <2>3. \A c \in Components : found'[c] \in held[c] \cup {Unknown}
    BY <1>1, <2>1, ReadyzIsTrue DEF Readyz, SeenInv, TypeOK, Components
  <2> QED
    BY <2>2, <2>3 DEF SeenInv
<1>2. CASE Version
  <2>1. \A c \in Components : Verdicts(c)' = Verdicts(c) /\ held'[c] = held[c]
    BY <1>2 DEF Version, cluster, history, Verdicts
  <2>2. found'["apiserver"] \in Verdicts("apiserver") \cup {Unknown}
    BY <1>2 DEF Version, Answered, TypeOK, Verdicts, Components
  <2>3. \A c \in Components : found'[c] \in held[c] \cup {Unknown}
    BY <1>2, <2>2 DEF Version, SeenInv, TypeOK, Components
  <2> QED
    BY <2>1, <2>3 DEF SeenInv
<1>3. CASE Pods
  <2>1. \A c \in Components : Verdicts(c)' = Verdicts(c) /\ held'[c] = held[c]
    BY <1>3 DEF Pods, cluster, history, Verdicts
  <2>2. ASSUME NEW c \in Static PROVE OfPods(pods[c]) \in Verdicts(c) \cup {Unknown}
    <3>1. c # "apiserver" /\ c # "etcd"
      BY ProbeAssumption
    <3>2. pods[c] \subseteq BOOLEAN
      BY DEF TypeOK
    <3>3. pods[c] = {} \/ TRUE \in pods[c] \/ FALSE \in pods[c]
      BY <3>2
    <3> QED
      BY <3>1, <3>3 DEF OfPods, Verdicts
  <2>3. \A c \in Components : found'[c] \in held[c] \cup {Unknown}
    BY <1>3, <2>2 DEF Pods, SeenInv, Components
  <2> QED
    BY <2>1, <2>3 DEF SeenInv
<1>4. CASE Tick
  <2>1. \A c \in Components : Verdicts(c)' = Verdicts(c)
    BY <1>4 DEF Tick, cluster, Verdicts
  <2> QED
    BY <1>4, <2>1 DEF Tick, SeenInv, Nothing
<1>5. CASE Change
  <2>1. \A c \in Components : held'[c] = held[c] \cup Verdicts(c)' /\ found'[c] = found[c]
    BY <1>5 DEF Change, Changes, collect
  <2> QED
    BY <2>1 DEF SeenInv
<1>6. CASE Csrs \/ Timeout \/ Slow \/ Store \/ Notify \/ Beat \/ UNCHANGED vars
  <2>1. UNCHANGED <<cluster, found, held>>
    BY <1>6 DEF Csrs, Timeout, Slow, Store, Notify, Beat, vars, collect, history
  <2>2. \A c \in Components : Verdicts(c)' = Verdicts(c)
    BY <2>1 DEF cluster, Verdicts
  <2> QED
    BY <2>1, <2>2 DEF SeenInv
<1> QED
  BY <1>1, <1>2, <1>3, <1>4, <1>5, <1>6 DEF Next, Refresh

\* Whatever fails, hangs or recovers between the calls of a refresh, each verdict
\* it reports was true while it ran; in particular a component that could not be
\* asked is never reported as Unhealthy.
THEOREM NothingInvented == Spec => OnlyWhatWasSeen
<1>1. Init => SeenInv
  BY DEF Init, SeenInv, Nothing
<1>2. SeenInv /\ [Next]_vars =>
        [Storing => \A c \in Components : snap'.components[c] \in held[c] \cup {Unknown}]_vars
  <2> SUFFICES ASSUME SeenInv, Next, Storing
               PROVE  \A c \in Components : snap'.components[c] \in held[c] \cup {Unknown}
    OBVIOUS
  <2>1. Store
    BY DEF Next, Refresh, Storing, Readyz, Version, Pods, Csrs, Timeout, Slow, Notify, Tick,
           Beat, Change, Changes
  <2> QED
    BY <2>1 DEF Store, Collected, SeenInv
<1> QED
  BY <1>1, <1>2, SeenStep, TypeCorrect, PTL DEF Spec, OnlyWhatWasSeen

-----------------------------------------------------------------------------
(* Certificates: the earliest of all.                                      *)

\* The requests on the first n pages.
PagesBefore(list, n) == {r \in Listed(list) : Rank(list, r) < n * PageSize}

\* Until the list is read nothing is found; while it is read, the earliest of the
\* pages so far; then that of the whole list, or nothing.
ExpiryInv ==
  /\ pc \in {"readyz", "version", "pods"} => page = 0 /\ earliest = None
  /\ pc = "csrs" => earliest = IF page = 0 THEN None
                               ELSE EarliestOf(listing, PagesBefore(listing, page))
  /\ pc = "store" => earliest \in {None, EarliestOf(listing, Requests)}

\* A request's rank is below the number of the requests.
LEMMA RankType ==
  ASSUME NEW list, NEW r \in Listed(list)
  PROVE  /\ Cardinality(Listed(list)) \in Nat /\ Rank(list, r) \in Nat
         /\ Rank(list, r) < Cardinality(Listed(list))
<1> DEFINE L == Listed(list)
           Q == {q \in L : q < r}
<1>1. L \subseteq Requests /\ r \in L /\ r \in Nat
  BY ProbeAssumption DEF Listed
<1>2. r \notin Q /\ Q \in SUBSET L
  BY <1>1
<1>3. Rank(list, r) = Cardinality(Q)
  BY DEF Rank
<1> HIDE DEF L, Q
<1>4. IsFiniteSet(L) /\ Cardinality(L) \in Nat
  <2>1. L \in SUBSET Requests /\ IsFiniteSet(Requests)
    BY <1>1, ProbeAssumption
  <2>2. IsFiniteSet(L)
    BY <2>1, FS_Subset
  <2> QED
    BY <2>2, FS_CardinalityType
<1>5. IsFiniteSet(Q) /\ Cardinality(Q) <= Cardinality(L) /\ (Cardinality(L) = Cardinality(Q) => L = Q)
  BY <1>2, <1>4, FS_Subset
<1>6. Cardinality(Q) \in Nat
  BY <1>5, FS_CardinalityType
<1>7. L # Q
  BY <1>1, <1>2
<1> QED
  BY <1>3, <1>4, <1>5, <1>6, <1>7 DEF L

\* Pages are laid next to each other.
LEMMA NextPage ==
  ASSUME NEW list, NEW n \in Nat
  PROVE  PagesBefore(list, n) \cup OnPage(list, n) = PagesBefore(list, n + 1)
<1>1. n * PageSize \in Nat /\ (n + 1) * PageSize = n * PageSize + PageSize
  BY ProbeAssumption
<1>2. n * PageSize <= (n + 1) * PageSize /\ (n + 1) * PageSize \in Nat
  BY <1>1, ProbeAssumption
<1>3. ASSUME NEW r \in Listed(list)
      PROVE  Rank(list, r) < (n + 1) * PageSize
               <=> \/ Rank(list, r) < n * PageSize
                   \/ n * PageSize <= Rank(list, r) /\ Rank(list, r) < (n + 1) * PageSize
  <2>1. Rank(list, r) \in Nat
    BY RankType
  <2> QED
    BY <1>1, <1>2, <2>1
<1> QED
  BY <1>3 DEF PagesBefore, OnPage

\* No request is on a page before the first.
LEMMA NoPages ==
  ASSUME NEW list \in Lists
  PROVE  PagesBefore(list, 0) = {} /\ EarliestOf(list, PagesBefore(list, 0)) = None
<1>1. 0 * PageSize = 0
  BY ProbeAssumption
<1>2. PagesBefore(list, 0) = {}
  <2>1. ASSUME NEW r \in Listed(list) PROVE ~(Rank(list, r) < 0)
    BY RankType
  <2> QED
    BY <1>1, <2>1 DEF PagesBefore
<1>3. Issued(list, {}) = {}
  BY DEF Issued
<1> QED
  BY <1>2, <1>3, EarliestIsLeast

\* With the last page all requests were read.
LEMMA LastPage ==
  ASSUME NEW list \in Lists, NEW n \in Nat, IsLast(list, n)
  PROVE  EarliestOf(list, PagesBefore(list, n + 1)) = EarliestOf(list, Requests)
<1>1. (n + 1) * PageSize \in Nat
  BY ProbeAssumption
<1>2. PagesBefore(list, n + 1) = Listed(list)
  <2>1. ASSUME NEW r \in Listed(list) PROVE Rank(list, r) < (n + 1) * PageSize
    <3>1. Cardinality(Listed(list)) <= (n + 1) * PageSize
      BY DEF IsLast
    <3> QED
      BY <1>1, <3>1, RankType
  <2> QED
    BY <2>1 DEF PagesBefore
<1>3. Issued(list, Listed(list)) = Issued(list, Requests)
  BY DEF Issued, Listed
<1>4. Listed(list) \in SUBSET Requests
  BY DEF Listed
<1> QED
  BY <1>2, <1>3, <1>4, EarliestOfSame

\* One page more.
LEMMA PageRead ==
  ASSUME TypeOK, ExpiryInv, pc = "csrs"
  PROVE  Sooner(earliest, EarliestOf(List, OnPage(List, page)))
           = EarliestOf(List, PagesBefore(List, page + 1))
<1>1. List \in Lists /\ page \in Nat
  BY ListType, ProbeAssumption DEF TypeOK
<1>2. earliest = EarliestOf(List, PagesBefore(List, page))
  BY <1>1, NoPages DEF ExpiryInv, List
<1>3. PagesBefore(List, page) \in SUBSET Requests
  BY DEF PagesBefore, Listed
<1>4. PagesBefore(List, page) \cup OnPage(List, page) = PagesBefore(List, page + 1)
  BY <1>1, NextPage
<1> QED
  BY <1>1, <1>2, <1>3, <1>4, OnPageType, SoonerOfUnion

LEMMA ExpiryStep ==
  ASSUME TypeOK, ExpiryInv, [Next]_vars
  PROVE  ExpiryInv'
<1>1. CASE Csrs
  <2>1. CASE OverBudget \/ (~Exhausted /\ Fails("csrs"))
    <3>1. earliest' = None /\ pc' = "store"
      BY <1>1, <2>1 DEF Csrs, OverBudget
    <3> QED
      BY <3>1 DEF ExpiryInv
  <2>2. CASE ~Exhausted /\ ~Fails("csrs")
    <3>1. /\ listing' = List /\ page' = page + 1
          /\ earliest' = Sooner(earliest, EarliestOf(List, OnPage(List, page)))
          /\ pc' = IF IsLast(List, page) THEN "store" ELSE "csrs"
      BY <1>1, <2>2 DEF Csrs, OverBudget
    <3>2. earliest' = EarliestOf(List, PagesBefore(List, page + 1))
      BY <1>1, <3>1, PageRead DEF Csrs
    <3>3. List \in Lists /\ page \in Nat /\ page + 1 # 0
      BY ListType, ProbeAssumption DEF TypeOK
    <3>4. CASE IsLast(List, page)
      <4>1. earliest' = EarliestOf(List, Requests)
        BY <3>2, <3>3, <3>4, LastPage
      <4>2. EarliestOf(listing, Requests)' = EarliestOf(List, Requests)
        BY <3>1 DEF EarliestOf
      <4>3. pc' = "store"
        BY <3>1, <3>4
      <4> QED
        BY <4>1, <4>2, <4>3 DEF ExpiryInv
    <3>5. CASE ~IsLast(List, page)
      <4>1. pc' = "csrs" /\ page' # 0
        BY <3>1, <3>3, <3>5
      <4>2. PagesBefore(listing, page)' = PagesBefore(List, page + 1)
        BY <3>1 DEF PagesBefore, Listed, Rank
      <4>3. EarliestOf(listing, PagesBefore(listing, page))' =
              EarliestOf(List, PagesBefore(List, page + 1))
        BY <3>1, <4>2 DEF EarliestOf
      <4> QED
        BY <3>2, <4>1, <4>3 DEF ExpiryInv
    <3> QED
      BY <3>4, <3>5
  <2> QED
    BY <1>1, <2>1, <2>2 DEF Csrs
<1>2. CASE Readyz \/ Version \/ Pods
  <2>1. page' = page /\ earliest' = earliest /\ page = 0 /\ earliest = None
    BY <1>2 DEF Readyz, Version, Pods, csrs, ExpiryInv
  <2>2. pc' \in {"version", "pods", "csrs"}
    BY <1>2 DEF Readyz, Version, Pods
  <2> QED
    BY <2>1, <2>2 DEF ExpiryInv
<1>3. CASE Tick
  BY <1>3 DEF Tick, ExpiryInv
<1>4. CASE Store \/ Notify
  <2>1. pc' \in {"notify", "wait"}
    BY <1>4 DEF Store, Notify
  <2> QED
    BY <2>1 DEF ExpiryInv
<1>5. CASE Timeout \/ Slow \/ Beat \/ Change \/ UNCHANGED vars
  <2>1. UNCHANGED <<pc, csrs>>
    BY <1>5 DEF Timeout, Slow, Beat, Change, Changes, collect, vars
  <2>2. PagesBefore(listing, page)' = PagesBefore(listing, page)
    BY <2>1 DEF csrs, PagesBefore, Listed, Rank
  <2>3. /\ EarliestOf(listing, PagesBefore(listing, page))'
             = EarliestOf(listing, PagesBefore(listing, page))
        /\ EarliestOf(listing, Requests)' = EarliestOf(listing, Requests)
    BY <2>1, <2>2 DEF csrs, EarliestOf
  <2> QED
    BY <2>1, <2>3 DEF csrs, ExpiryInv
<1> QED
  BY <1>1, <1>2, <1>3, <1>4, <1>5 DEF Next, Refresh

\* However many requests there are, and wherever the budget, a failure or the
\* deadline stops the listing: an expiry is that of all, or none is reported.
THEOREM NeverAPrefix == Spec => ExpiryIsOfAll
<1>1. Init => ExpiryInv
  BY DEF Init, ExpiryInv
<1>2. ExpiryInv /\ [Next]_vars =>
        [Storing => snap'.certificates \in {None, EarliestOf(listing, Requests)}]_vars
  <2> SUFFICES ASSUME ExpiryInv, Next, Storing
               PROVE  snap'.certificates \in {None, EarliestOf(listing, Requests)}
    OBVIOUS
  <2>1. Store
    BY DEF Next, Refresh, Storing, Readyz, Version, Pods, Csrs, Timeout, Slow, Notify, Tick,
           Beat, Change, Changes
  <2> QED
    BY <2>1 DEF Store, Collected, ExpiryInv
<1> QED
  BY <1>1, <1>2, ExpiryStep, TypeCorrect, PTL DEF Spec, ExpiryIsOfAll

-----------------------------------------------------------------------------
(* A refresh in which nothing moves.                                       *)

\* /readyz says something: the apiserver answers and lets the agent read it.
Legible == reach = "up" /\ "readyz" \in allowed

FactOfServer ==
  IF reach = "up" THEN IF "readyz" \in allowed /\ failing # {} THEN Unhealthy ELSE Healthy
  ELSE Unknown
FactOfEtcd ==
  IF Legible THEN IF "etcd" \in failing THEN Unhealthy ELSE Healthy ELSE Unknown
FactOfExpiry ==
  IF reach = "up" /\ "csrs" \in allowed /\ Cardinality(Listed(csr)) <= PageSize * PageBudget
  THEN EarliestOf(csr, Requests) ELSE None

\* What the calls so far found is as the cluster is; a page follows only when the
\* list is longer than the pages before it.
CalmInv ==
  calm =>
    /\ expired => reach = "hung"
    /\ pc = "version" => ~Legible /\ found["etcd"] = Unknown
    /\ pc \in {"pods", "csrs", "store"} =>
         found["apiserver"] = FactOfServer /\ found["etcd"] = FactOfEtcd
    /\ pc \in {"csrs", "store"} => \A c \in Static : found[c] = OfPods(pods[c])
    /\ pc = "csrs" /\ page # 0 =>
         listing = csr /\ ~(Cardinality(Listed(csr)) <= page * PageSize)
    /\ pc = "store" => earliest = FactOfExpiry

LEMMA FactsByComponent ==
  /\ Facts.components["apiserver"] = FactOfServer /\ Facts.components["etcd"] = FactOfEtcd
  /\ \A c \in Static : Facts.components[c] = OfPods(pods[c])
  /\ Facts.certificates = FactOfExpiry
<1>1. Static \cap {"apiserver", "etcd"} = {} /\ {"apiserver", "etcd"} \cup Static = Components
  BY ProbeAssumption DEF Components
<1>2. Facts.components["apiserver"] = FactOfServer
  BY <1>1 DEF Facts, FactOfServer
<1>3. Facts.components["etcd"] = FactOfEtcd
  BY <1>1 DEF Facts, FactOfEtcd, Legible
<1>4. \A c \in Static : Facts.components[c] = OfPods(pods[c])
  BY <1>1 DEF Facts
<1>5. Facts.certificates = FactOfExpiry
  BY DEF Facts, FactOfExpiry
<1> QED
  BY <1>2, <1>3, <1>4, <1>5

\* In a calm refresh the deadline passes only while the apiserver hangs.
LEMMA CalmReadyz ==
  ASSUME TypeOK, Answered, expired => reach = "hung", NEW r \in Replies
  PROVE  /\ Apiserver(r) = Unknown => ~Legible /\ Etcd(r) = Unknown
         /\ Apiserver(r) # Unknown => Apiserver(r) = FactOfServer /\ Etcd(r) = FactOfEtcd
<1>1. CASE ~Legible
  <2>1. r.ok = FALSE /\ r.minus = {}
    BY <1>1 DEF Replies, Reply, Legible, Answered, TypeOK
  <2> QED
    BY <1>1, <2>1 DEF Apiserver, Etcd
<1>2. CASE Legible
  <2>1. ~expired /\ reach = "up" /\ "readyz" \in allowed
    BY <1>2 DEF Legible
  <2>2. r = Reply(failing = {}, failing, "etcd" \notin failing)
    BY <2>1 DEF Replies
  <2>3. /\ r.ok <=> failing = {}
        /\ r.minus = failing
        /\ r.plus <=> "etcd" \notin failing
    BY <2>2 DEF Reply
  <2>4. Apiserver(r) = FactOfServer /\ Apiserver(r) # Unknown
    BY <2>1, <2>3 DEF Apiserver, FactOfServer, Healthy, Unhealthy, Unknown
  <2>5. Etcd(r) = FactOfEtcd
    BY <1>2, <2>3, <2>4 DEF Etcd, FactOfEtcd
  <2> QED
    BY <2>4, <2>5
<1> QED
  BY <1>1, <1>2

LEMMA ListedType ==
  ASSUME NEW list
  PROVE  Cardinality(Listed(list)) \in Nat
<1>1. Listed(list) \in SUBSET Requests /\ IsFiniteSet(Requests)
  BY ProbeAssumption DEF Listed
<1> QED
  BY <1>1, FS_Subset, FS_CardinalityType

LEMMA NoneListed ==
  ASSUME NEW list \in Lists, Cardinality(Listed(list)) <= 0
  PROVE  EarliestOf(list, Requests) = None
<1>1. Listed(list) = {}
  <2>1. \A r \in Listed(list) : FALSE
    BY RankType
  <2> QED
    BY <2>1
<1>2. Issued(list, Requests) = {}
  BY <1>1 DEF Issued, Listed
<1> QED
  BY <1>2, EarliestIsLeast

\* The last page, the budget, or the reason why there is none.
LEMMA CalmCsrs ==
  ASSUME TypeOK, ExpiryInv, CalmInv, calm, Csrs
  PROVE  /\ pc' = "store" => earliest' = FactOfExpiry
         /\ pc' = "csrs" => /\ page' # 0 /\ listing' = csr
                            /\ ~(Cardinality(Listed(csr)) <= page' * PageSize)
<1>t. /\ page \in 0..PageBudget /\ page \in Nat /\ PageBudget \in Nat /\ PageSize \in Nat \ {0}
      /\ csr \in Lists /\ pc = "csrs" /\ List = csr
  BY ProbeAssumption DEF TypeOK, Csrs, CalmInv, List
<1>1. CASE OverBudget
  <2>1. earliest' = None /\ pc' = "store" /\ page = PageBudget
    BY <1>1 DEF Csrs, OverBudget, Exhausted
  <2>2. CASE page = 0
    <3>1. PageSize * PageBudget = 0
      BY <1>t, <2>1, <2>2
    <3>2. Cardinality(Listed(csr)) <= 0 => EarliestOf(csr, Requests) = None
      BY <1>t, NoneListed
    <3> QED
      BY <2>1, <3>1, <3>2 DEF FactOfExpiry
  <2>3. CASE page # 0
    <3>1. PageSize * PageBudget = page * PageSize
      BY <1>t, <2>1
    <3>2. FactOfExpiry = None
      BY <1>t, <2>3, <3>1 DEF CalmInv, FactOfExpiry
    <3> QED
      BY <2>1, <3>2
  <2> QED
    BY <2>2, <2>3
<1>2. CASE ~Exhausted /\ Fails("csrs")
  <2>1. earliest' = None /\ pc' = "store"
    BY <1>2 DEF Csrs, OverBudget
  <2>2. FactOfExpiry = None
    BY <1>2 DEF Fails, FactOfExpiry, CalmInv
  <2> QED
    BY <2>1, <2>2
<1>3. CASE ~Exhausted /\ ~Fails("csrs")
  <2>1. /\ listing' = csr /\ page' = page + 1
        /\ earliest' = Sooner(earliest, EarliestOf(List, OnPage(List, page)))
        /\ pc' = IF IsLast(csr, page) THEN "store" ELSE "csrs"
    BY <1>3, <1>t DEF Csrs, OverBudget
  <2>2. earliest' = EarliestOf(csr, PagesBefore(csr, page + 1))
    BY <1>t, <2>1, PageRead
  <2>3. CASE IsLast(csr, page)
    <3>1. earliest' = EarliestOf(csr, Requests)
      BY <1>t, <2>2, <2>3, LastPage
    <3>2. Cardinality(Listed(csr)) <= (page + 1) * PageSize
      BY <2>3 DEF IsLast
    <3>3. (page + 1) * PageSize <= PageSize * PageBudget
      <4>1. page + 1 <= PageBudget
        BY <1>3, <1>t DEF Exhausted
      <4> QED
        BY <1>t, <4>1
    <3>4. reach = "up" /\ "csrs" \in allowed
      BY <1>3 DEF Csrs, Answered, Fails, TypeOK
    <3>5. FactOfExpiry = EarliestOf(csr, Requests)
      BY <1>t, <3>2, <3>3, <3>4, ListedType DEF FactOfExpiry
    <3> QED
      BY <2>1, <2>3, <3>1, <3>5
  <2>4. CASE ~IsLast(csr, page)
    BY <1>t, <2>1, <2>4 DEF IsLast
  <2> QED
    BY <2>3, <2>4
<1> QED
  BY <1>1, <1>2, <1>3 DEF Csrs, OverBudget

\* A step of the cluster ends the calm; every other leaves the facts alone.
LEMMA CalmStep ==
  ASSUME TypeOK, ExpiryInv, CalmInv, [Next]_vars
  PROVE  CalmInv'
<1>0. ASSUME UNCHANGED cluster
      PROVE  /\ FactOfServer' = FactOfServer /\ FactOfEtcd' = FactOfEtcd
             /\ FactOfExpiry' = FactOfExpiry /\ (Legible' <=> Legible)
             /\ Listed(csr)' = Listed(csr) /\ UNCHANGED <<reach, pods, csr>>
  BY <1>0 DEF cluster, FactOfServer, FactOfEtcd, FactOfExpiry, Legible, Listed, EarliestOf
<1>1. CASE Change
  BY <1>1 DEF Change, Changes, CalmInv
<1>2. CASE Tick
  BY <1>2 DEF Tick, CalmInv
<1>3. CASE Readyz
  <2> SUFFICES ASSUME calm' PROVE CalmInv'
    BY DEF CalmInv
  <2>1. calm /\ (expired => reach = "hung") /\ UNCHANGED <<cluster, expired>>
    BY <1>3 DEF Readyz, history, CalmInv
  <2>2. PICK r \in Replies :
          /\ found' = [found EXCEPT !["apiserver"] = Apiserver(r), !["etcd"] = Etcd(r)]
          /\ pc' = IF Apiserver(r) = Unknown THEN "version" ELSE "pods"
    BY <1>3 DEF Readyz
  <2>3. found'["apiserver"] = Apiserver(r) /\ found'["etcd"] = Etcd(r)
    BY <2>2 DEF TypeOK, Components
  <2>4. Answered
    BY <1>3 DEF Readyz
  <2>5. CASE Apiserver(r) = Unknown
    <3>1. pc' = "version" /\ ~Legible' /\ found'["etcd"] = Unknown
      BY <1>0, <2>1, <2>2, <2>3, <2>4, <2>5, CalmReadyz
    <3> QED
      BY <1>0, <2>1, <3>1 DEF CalmInv
  <2>6. CASE Apiserver(r) # Unknown
    <3>1. pc' = "pods" /\ found'["apiserver"] = FactOfServer' /\ found'["etcd"] = FactOfEtcd'
      BY <1>0, <2>1, <2>2, <2>3, <2>4, <2>6, CalmReadyz
    <3> QED
      BY <1>0, <2>1, <3>1 DEF CalmInv
  <2> QED
    BY <2>5, <2>6
<1>4. CASE Version
  <2> SUFFICES ASSUME calm' PROVE CalmInv'
    BY DEF CalmInv
  <2>1. /\ calm /\ (expired => reach = "hung") /\ UNCHANGED <<cluster, expired>>
        /\ pc = "version" /\ pc' = "pods" /\ Answered /\ ~Legible /\ found["etcd"] = Unknown
    BY <1>4 DEF Version, history, CalmInv
  <2>2. /\ found'["apiserver"] = IF expired \/ reach = "down" THEN Unknown ELSE Healthy
        /\ found'["etcd"] = Unknown
    BY <1>4, <2>1 DEF Version, TypeOK, Components
  <2>3. found'["apiserver"] = FactOfServer
    BY <2>1, <2>2 DEF Answered, Legible, FactOfServer, TypeOK
  <2>4. found'["etcd"] = FactOfEtcd
    BY <2>1, <2>2 DEF FactOfEtcd
  <2> QED
    BY <1>0, <2>1, <2>3, <2>4 DEF CalmInv
<1>5. CASE Pods
  <2> SUFFICES ASSUME calm' PROVE CalmInv'
    BY DEF CalmInv
  <2>1. /\ calm /\ (expired => reach = "hung") /\ UNCHANGED <<cluster, expired, csrs>>
        /\ pc = "pods" /\ pc' = "csrs" /\ page = 0
        /\ found' = [c \in Components |-> IF c \in Static THEN OfPods(pods[c]) ELSE found[c]]
    BY <1>5 DEF Pods, history, CalmInv, ExpiryInv
  <2>2. found["apiserver"] = FactOfServer /\ found["etcd"] = FactOfEtcd
    BY <2>1 DEF CalmInv
  <2>3. {"apiserver", "etcd"} \cap Static = {} /\ Components = {"apiserver", "etcd"} \cup Static
    BY ProbeAssumption DEF Components
  <2>4. /\ found'["apiserver"] = found["apiserver"] /\ found'["etcd"] = found["etcd"]
        /\ \A c \in Static : found'[c] = OfPods(pods[c])
    BY <2>1, <2>3
  <2>5. page' = 0
    BY <2>1 DEF csrs
  <2> QED
    BY <1>0, <2>1, <2>2, <2>4, <2>5 DEF CalmInv
<1>6. CASE Csrs
  <2> SUFFICES ASSUME calm' PROVE CalmInv'
    BY DEF CalmInv
  <2>1. /\ calm /\ UNCHANGED <<cluster, expired, found>> /\ pc = "csrs" /\ pc' \in {"csrs", "store"}
    BY <1>6, CsrsType DEF Csrs, history
  <2>2. /\ pc' = "store" => earliest' = FactOfExpiry
        /\ pc' = "csrs" => listing' = csr /\ ~(Cardinality(Listed(csr)) <= page' * PageSize)
    BY <1>6, <2>1, CalmCsrs
  <2> QED
    BY <1>0, <2>1, <2>2 DEF CalmInv
<1>7. CASE Timeout
  <2> SUFFICES ASSUME calm' PROVE CalmInv'
    BY DEF CalmInv
  <2>1. calm /\ UNCHANGED <<cluster, pc, found, csrs>> /\ reach = "hung"
    BY <1>7 DEF Timeout, history
  <2> QED
    BY <1>0, <2>1 DEF CalmInv, csrs
<1>8. CASE Store \/ Notify \/ Slow
  <2> SUFFICES ASSUME calm' PROVE CalmInv'
    BY DEF CalmInv
  <2>1. calm /\ UNCHANGED <<cluster, expired>> /\ pc' \in {"wait", "notify"}
    BY <1>8 DEF Store, Notify, Slow, history, collect
  <2> QED
    BY <1>0, <2>1 DEF CalmInv
<1>9. CASE Beat \/ UNCHANGED vars
  <2> SUFFICES ASSUME calm' PROVE CalmInv'
    BY DEF CalmInv
  <2>1. calm /\ UNCHANGED <<cluster, pc, expired, found, csrs>>
    BY <1>9 DEF Beat, vars, collect, history
  <2> QED
    BY <1>0, <2>1 DEF CalmInv, csrs
<1> QED
  BY <1>1, <1>2, <1>3, <1>4, <1>5, <1>6, <1>7, <1>8, <1>9 DEF Next, Refresh

\* A refresh during which the control plane stays as it is reports exactly what is
\* there, for every page size and budget: nothing is left out for another reason than
\* the agent's rights, an apiserver that does not answer, or the budget.
THEOREM CalmRefreshIsFaithful == Spec => CalmFindsFacts
<1>1. Init => ExpiryInv
  BY DEF Init, ExpiryInv
<1>2. Init => CalmInv
  BY DEF Init, CalmInv
<1>3. CalmInv /\ TypeOK /\ [Next]_vars => [Storing /\ calm => snap' = Facts]_vars
  <2> SUFFICES ASSUME CalmInv, TypeOK, Next, Storing, calm PROVE snap' = Facts
    OBVIOUS
  <2>1. Store
    BY DEF Next, Refresh, Storing, Readyz, Version, Pods, Csrs, Timeout, Slow, Notify, Tick,
           Beat, Change, Changes
  <2>2. snap' = [components |-> found, certificates |-> earliest] /\ pc = "store"
    BY <2>1 DEF Store, Collected
  <2>3. \A c \in Components : found[c] = Facts.components[c]
    BY <2>2, FactsByComponent DEF CalmInv, Components
  <2>4. /\ Facts.components = [c \in Components |-> Facts.components[c]]
        /\ Facts = [components |-> Facts.components, certificates |-> Facts.certificates]
    BY DEF Facts
  <2>5. found = Facts.components
    <3>1. found = [c \in Components |-> found[c]]
      BY DEF TypeOK
    <3> QED
      BY <2>3, <2>4, <3>1
  <2>6. earliest = Facts.certificates
    BY <2>2, FactsByComponent DEF CalmInv
  <2> QED
    BY <2>2, <2>4, <2>5, <2>6
<1> QED
  BY <1>1, <1>2, <1>3, CalmStep, ExpiryStep, TypeCorrect, PTL DEF Spec, CalmFindsFacts

-----------------------------------------------------------------------------
(* Signals.                                                                *)

LEMMA SignalStep ==
  ASSUME SnapshotIsSignalled, [Next]_vars
  PROVE  SnapshotIsSignalled'
<1>1. CASE Store
  BY <1>1 DEF Store, Differs, SnapshotIsSignalled
<1>2. CASE Notify \/ Beat
  BY <1>2 DEF Notify, Beat, SnapshotIsSignalled
<1>3. CASE Readyz \/ Version \/ Pods \/ Csrs \/ Timeout \/ Slow \/ Tick
  <2>1. UNCHANGED <<snap, signalled, beaten>> /\ pc # "notify"
    BY <1>3 DEF Readyz, Version, Pods, Csrs, Timeout, Slow, Tick
  <2> QED
    BY <2>1 DEF SnapshotIsSignalled
<1>4. CASE Change \/ UNCHANGED vars
  BY <1>4 DEF Change, Changes, vars, SnapshotIsSignalled
<1> QED
  BY <1>1, <1>2, <1>3, <1>4 DEF Next, Refresh

\* A verdict or an expiry that changed is in a heartbeat before the periodic one,
\* whatever fails or hangs meanwhile: a payload that shows another snapshot than the
\* present one has a signal waiting or a manager about to give it.
THEOREM SnapshotSignalled == Spec => []SnapshotIsSignalled
<1>1. Init => SnapshotIsSignalled
  BY DEF Init, SnapshotIsSignalled
<1> QED
  BY <1>1, SignalStep, PTL DEF Spec
=============================================================================
