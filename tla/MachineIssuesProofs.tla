------------------------- MODULE MachineIssuesProofs -------------------------
(* Theorems about the machine issue collector, for every set of machines and *)
(* reasons, every cap, timeout and pause, and any number of failing lists;   *)
(* and about the resolver that says which pool a machine belongs to.         *)
EXTENDS MachineIssues, Sequences, FiniteSetTheorems, WellFoundedInduction, TLAPS

-----------------------------------------------------------------------------
(* Keys and their order.                                                    *)

LEMMA KeyShape ==
  ASSUME NEW k \in Keys
  PROVE  /\ k = <<k[1], k[2], k[3]>>
         /\ k[1] \in Nat /\ k[2] \in Machines /\ k[3] \in AllReasons
         /\ k[2] \in Nat /\ k[3] \in Nat
<1>1. PICK p \in Nat, m \in Machines, r \in AllReasons : k = <<p, m, r>>
  BY DEF Keys
<1>2. k[1] = p /\ k[2] = m /\ k[3] = r
  BY <1>1
<1>3. m \in Nat /\ r \in Nat
  BY IssuesAssumption DEF AllReasons, NotJoined
<1> QED
  BY <1>1, <1>2, <1>3

LEMMA KeyOfIssue ==
  ASSUME NEW i \in IssueType
  PROVE  Key(i) \in Keys /\ i.since \in Nat
BY DEF Key, Keys, IssueType

\* Names are compared lexicographically: a strict total order.
LEMMA KeyOrder ==
  ASSUME NEW a \in Keys, NEW b \in Keys
  PROVE  /\ ~KeyBefore(a, a)
         /\ a = b \/ KeyBefore(a, b) \/ KeyBefore(b, a)
         /\ \A c \in Keys : KeyBefore(a, b) /\ KeyBefore(b, c) => KeyBefore(a, c)
<1>1. ~KeyBefore(a, a)
  BY KeyShape DEF KeyBefore
<1>2. a = b \/ KeyBefore(a, b) \/ KeyBefore(b, a)
  <2>1. a[1] = b[1] /\ a[2] = b[2] /\ a[3] = b[3] => a = b
    BY KeyShape
  <2>2. /\ a[1] \in Int /\ a[2] \in Int /\ a[3] \in Int
        /\ b[1] \in Int /\ b[2] \in Int /\ b[3] \in Int
    BY KeyShape
  <2> QED
    BY <2>1, <2>2 DEF KeyBefore
<1>3. ASSUME NEW c \in Keys, KeyBefore(a, b), KeyBefore(b, c) PROVE KeyBefore(a, c)
  <2>1. /\ a[1] \in Int /\ a[2] \in Int /\ a[3] \in Int
        /\ b[1] \in Int /\ b[2] \in Int /\ b[3] \in Int
        /\ c[1] \in Int /\ c[2] \in Int /\ c[3] \in Int
    BY KeyShape
  <2> QED
    BY <1>3, <2>1 DEF KeyBefore
<1> QED
  BY <1>1, <1>2, <1>3

-----------------------------------------------------------------------------
(* What a pass finds.                                                       *)

LEMMA FoundType ==
  ASSUME TypeOK
  PROVE  Found \in SUBSET Keys /\ IsFiniteSet(Found)
<1> DEFINE D == Machines \X AllReasons
           f == [x \in D |-> <<PoolFor(x[1]), x[1], x[2]>>]
           R == {f[x] : x \in D}
<1>1. \A m \in Machines : PoolFor(m) \in Nat
  BY IssuesAssumption DEF PoolFor, Unknown
<1>2. ASSUME NEW m \in Machines
      PROVE  \A r \in StatusReasons(m) \cup JoinReasons(m) \cup warned[m] : r \in AllReasons
  BY DEF StatusReasons, JoinReasons, TypeOK, Machine, AllReasons
<1>3. ASSUME NEW k \in Found PROVE k \in R
  <2>1. PICK m \in Machines : k \in KeysOf(m)
    BY <1>3 DEF Found
  <2>2. PICK r \in AllReasons : k = <<PoolFor(m), m, r>>
    BY <1>2, <2>1 DEF KeysOf
  <2>3. <<m, r>> \in D /\ f[<<m, r>>] = k
    BY <2>2
  <2> QED
    BY <2>3
<1>4. R \subseteq Keys
  BY <1>1 DEF Keys
<1>5. IsFiniteSet(AllReasons)
  BY IssuesAssumption, FS_AddElement DEF AllReasons
<1>6. IsFiniteSet(D)
  BY <1>5, IssuesAssumption, FS_Product
<1>7. IsFiniteSet(R)
  <2>1. f \in Surjection(D, R)
    BY DEF Surjection
  <2> HIDE DEF D, f, R
  <2> QED
    BY <1>6, <2>1, FS_Surjection
<1>8. Found \in SUBSET R
  BY <1>3
<1> QED
  BY <1>4, <1>7, <1>8, FS_Subset

LEMMA FirstSeenType ==
  ASSUME TypeOK
  PROVE  DOMAIN FirstSeen = Found /\ \A k \in Found : FirstSeen[k] \in Nat
BY DEF FirstSeen, TypeOK

\* What is mapped before the sort: one issue per key.
Mapped == {[pool |-> k[1], machine |-> k[2], reason |-> k[3],
            since |-> FirstSeen[k], message |-> Message(k)] : k \in Found}

LEMMA MappedFacts ==
  ASSUME TypeOK
  PROVE  /\ Mapped \subseteq IssueType
         /\ \A i \in Mapped : Key(i) \in Found /\ i.since = FirstSeen[Key(i)]
         /\ \A k \in Found : \E i \in Mapped : Key(i) = k
         /\ \A i, j \in Mapped : Key(i) = Key(j) => i = j
<1>1. ASSUME NEW k \in Found
      PROVE  LET i == [pool |-> k[1], machine |-> k[2], reason |-> k[3],
                       since |-> FirstSeen[k], message |-> Message(k)]
             IN  i \in IssueType /\ Key(i) = k
  <2>1. k \in Keys
    BY FoundType
  <2>2. FirstSeen[k] \in Nat
    BY FirstSeenType
  <2>3. Message(k) \in Int
    <3>1. listed[k[2]].born \in Int
      BY <2>1, KeyShape DEF TypeOK, Machine
    <3> QED
      BY <3>1 DEF Message, TypeOK
  <2> QED
    BY <2>1, <2>2, <2>3, KeyShape DEF IssueType, Key
<1>2. Mapped \subseteq IssueType
  BY <1>1 DEF Mapped
<1>3. ASSUME NEW i \in Mapped
      PROVE  /\ Key(i) \in Found
             /\ i = [pool |-> Key(i)[1], machine |-> Key(i)[2], reason |-> Key(i)[3],
                     since |-> FirstSeen[Key(i)], message |-> Message(Key(i))]
  BY <1>1 DEF Mapped
<1>4. ASSUME NEW k \in Found PROVE \E i \in Mapped : Key(i) = k
  <2> DEFINE i == [pool |-> k[1], machine |-> k[2], reason |-> k[3],
                   since |-> FirstSeen[k], message |-> Message(k)]
  <2>1. i \in Mapped
    BY DEF Mapped
  <2>2. Key(i) = k
    BY <1>1
  <2> QED
    BY <2>1, <2>2
<1>5. \A i \in Mapped : Key(i) \in Found /\ i.since = FirstSeen[Key(i)]
  BY <1>3
<1>6. ASSUME NEW i \in Mapped, NEW j \in Mapped, Key(i) = Key(j) PROVE i = j
  BY <1>3, <1>6
<1> QED
  BY <1>2, <1>4, <1>5, <1>6

\* What a pass publishes: the oldest of what it maps.
LEMMA IssuesAreMapped ==
  ASSUME TypeOK
  PROVE  /\ Issues = Oldest(Mapped)
         /\ Issues \subseteq Mapped
BY DEF Issues, Mapped, Oldest

-----------------------------------------------------------------------------
(* Types.                                                                   *)

LEMMA ClusterType ==
  ASSUME TypeOK, NEW m \in Machines, NEW machine \in Machine,
         NEW events \in SUBSET Reasons, Cluster(m, machine, events)
  PROVE  TypeOK'
BY DEF TypeOK, Cluster, pass

LEMMA NothingType ==
  /\ Nothing \in [Machines -> Machine]
  /\ NoKeys = [k \in {} |-> 0] /\ DOMAIN NoKeys = {}
BY DEF Nothing, NoMachine, Machine, NoKeys

LEMMA SetType ==
  ASSUME TypeOK, NEW issues \in SUBSET IssueType, Set(issues)
  PROVE  /\ items' \subseteq IssueType
         /\ pc' \in {"wait", "notify"}
         /\ wake' = clock + Interval /\ wake' \in Nat
         /\ listed' \in [Machines -> Machine] /\ resolved' \in BOOLEAN
<1>1. clock + Interval \in Nat
  BY IssuesAssumption DEF TypeOK
<1> QED
  BY <1>1, NothingType DEF TypeOK, Set

\* Only four actions touch the store and the memory of what was first seen.
LEMMA WhoRemembers ==
  ASSUME [Next]_vars
  PROVE  Map \/ ListFails \/ Restart \/ UNCHANGED <<firstSeen, items, shown>>
BY DEF Next, vars, cluster, pass, Tick, Create, Join, Delete, Vanish, Fail, Warn, Expire,
       Cluster, Pass, ListMachines, ListMachineDeployments, Notify, Wake, Beat

\* Every variable keeps its type.
THEOREM TypeCorrect == Spec => []TypeOK
<1>1. Init => TypeOK
  <2>1. Init => resolved \in BOOLEAN /\ signalled \in BOOLEAN
    BY Zenon DEF Init
  <2>2. 0 \in 0..MaxClock
    BY IssuesAssumption
  <2>3. Init => warned \in [Machines -> SUBSET Reasons]
    BY DEF Init
  <2> QED
    BY <2>1, <2>2, <2>3, NothingType DEF Init, TypeOK
<1>2. ASSUME TypeOK, [Next]_vars PROVE TypeOK'
  <2>1. CASE Tick
    <3>1. clock' \in 0..MaxClock
      BY <1>2, <2>1, IssuesAssumption DEF TypeOK, Tick
    <3> QED
      BY <1>2, <2>1, <3>1 DEF TypeOK, Tick, cluster, pass
  <2>2. ASSUME NEW m \in Machines, Create(m) \/ Join(m) \/ Delete(m) \/ Vanish(m)
        PROVE  TypeOK'
    <3>1. /\ [NoMachine EXCEPT !.phase = "live", !.born = clock] \in Machine
          /\ [mach[m] EXCEPT !.joined = TRUE] \in Machine
          /\ [mach[m] EXCEPT !.phase = "deleting"] \in Machine
          /\ [NoMachine EXCEPT !.phase = "gone"] \in Machine
      <4>1. mach[m] \in Machine /\ NoMachine \in Machine /\ clock \in Nat
        BY <1>2, IssuesAssumption DEF TypeOK, NoMachine, Machine
      <4> QED
        BY <4>1 DEF Machine
    <3>2. warned[m] \in SUBSET Reasons /\ {} \in SUBSET Reasons
      BY <1>2 DEF TypeOK
    <3> QED
      BY <1>2, <2>2, <3>1, <3>2, ClusterType DEF Create, Join, Delete, Vanish
  <2>3. ASSUME NEW m \in Machines, NEW e \in Reasons \cup {None}, Fail(m, e) PROVE TypeOK'
    <3>1. [mach[m] EXCEPT !.error = e] \in Machine /\ warned[m] \in SUBSET Reasons
      BY <1>2 DEF TypeOK, Machine
    <3> QED
      BY <1>2, <2>3, <3>1, ClusterType DEF Fail
  <2>4. ASSUME NEW m \in Machines, NEW r \in Reasons, Warn(m, r) \/ Expire(m, r)
        PROVE  TypeOK'
    <3>1. /\ mach[m] \in Machine
          /\ warned[m] \cup {r} \in SUBSET Reasons /\ warned[m] \ {r} \in SUBSET Reasons
      BY <1>2 DEF TypeOK
    <3> QED
      BY <1>2, <2>4, <3>1, ClusterType DEF Warn, Expire
  <2>5. CASE ListMachines
    BY <1>2, <2>5 DEF TypeOK, ListMachines, cluster
  <2>6. ASSUME NEW ok \in BOOLEAN, ListMachineDeployments(ok) PROVE TypeOK'
    BY <1>2, <2>6 DEF TypeOK, ListMachineDeployments, cluster
  <2>7. CASE Map
    <3>1. Issues \in SUBSET IssueType
      BY <1>2, IssuesAreMapped, MappedFacts
    <3>2. Set(Issues) /\ firstSeen' = FirstSeen
          /\ UNCHANGED <<clock, mach, warned, signalled, beaten, faults>>
      BY <2>7 DEF Map, cluster
    <3>3. DOMAIN firstSeen' \subseteq Keys /\ \A k \in DOMAIN firstSeen' : firstSeen'[k] \in Nat
      BY <1>2, <3>2, FoundType, FirstSeenType
    <3> QED
      BY <1>2, <3>1, <3>2, <3>3, SetType DEF TypeOK
  <2>8. CASE ListFails
    <3>1. {} \in SUBSET IssueType
      OBVIOUS
    <3>2. Set({}) /\ faults' = faults + 1
          /\ UNCHANGED <<clock, mach, warned, firstSeen, signalled, beaten>>
      BY <2>8 DEF ListFails, cluster
    <3> QED
      BY <1>2, <3>1, <3>2, SetType DEF TypeOK
  <2>9. CASE Notify
    BY <1>2, <2>9 DEF TypeOK, Notify, cluster
  <2>10. CASE Wake
    BY <1>2, <2>10 DEF TypeOK, Wake, cluster
  <2>11. CASE Beat
    BY <1>2, <2>11 DEF TypeOK, Beat, cluster, pass
  <2>12. CASE Restart
    <3>1. resolved' \in BOOLEAN /\ signalled' \in BOOLEAN
      BY <2>12, Zenon DEF Restart
    <3>2. DOMAIN firstSeen' = {} /\ faults' \in Nat
      BY <1>2, <2>12, NothingType DEF Restart, TypeOK
    <3> QED
      BY <1>2, <2>12, <3>1, <3>2, NothingType DEF TypeOK, Restart, cluster
  <2>13. CASE UNCHANGED vars
    BY <1>2, <2>13 DEF TypeOK, vars, cluster, pass
  <2> QED
    BY <1>2, <2>1, <2>2, <2>3, <2>4, <2>5, <2>6, <2>7, <2>8, <2>9, <2>10, <2>11, <2>12, <2>13
       DEF Next, Pass
<1> QED
  BY <1>1, <1>2, PTL DEF Spec

-----------------------------------------------------------------------------
(* An issue keeps its since.                                                *)

LEMMA SinceInductive ==
  ASSUME TypeOK, TypeOK', SinceRemembered, [Next]_vars
  PROVE  SinceRemembered'
<1>1. CASE Map
  <2>1. items' = Issues /\ firstSeen' = FirstSeen
    BY <1>1 DEF Map, Set
  <2>2. \A i \in items' : Key(i) \in DOMAIN firstSeen' /\ i.since = firstSeen'[Key(i)]
    BY <2>1, IssuesAreMapped, MappedFacts, FirstSeenType
  <2>3. ASSUME NEW k \in DOMAIN shown'
        PROVE  k \in DOMAIN firstSeen' /\ shown'[k] = firstSeen'[k]
    <3>1. k \in Found /\ shown'[k] = IF k \in DOMAIN shown THEN shown[k] ELSE FirstSeen[k]
      BY <1>1 DEF Map
    <3>2. k \in DOMAIN shown => FirstSeen[k] = shown[k]
      BY <3>1 DEF SinceRemembered, FirstSeen
    <3> QED
      BY <2>1, <3>1, <3>2, FirstSeenType
  <2> QED
    BY <2>2, <2>3 DEF SinceRemembered, Key
<1>2. CASE ListFails
  <2>1. items' = {} /\ firstSeen' = firstSeen /\ shown' = shown
    BY <1>2 DEF ListFails, Set
  <2> QED
    BY <2>1 DEF SinceRemembered
<1>3. CASE Restart
  <2>1. items' = {} /\ DOMAIN shown' = {}
    BY <1>3, NothingType DEF Restart
  <2> QED
    BY <2>1 DEF SinceRemembered
<1>4. CASE UNCHANGED <<firstSeen, items, shown>>
  BY <1>4 DEF SinceRemembered, Key
<1> QED
  BY <1>1, <1>2, <1>3, <1>4, WhoRemembers

LEMMA SinceIsRemembered == Spec => []SinceRemembered
<1>1. Init => SinceRemembered
  BY NothingType DEF Init, SinceRemembered
<1>2. TypeOK /\ TypeOK' /\ SinceRemembered /\ [Next]_vars => SinceRemembered'
  BY SinceInductive
<1> QED
  BY <1>1, <1>2, TypeCorrect, PTL DEF Spec

\* The since a problem is reported with never changes while the passes that can
\* list the machines find it (collector.go:258).
THEOREM SinceHolds == Spec => []SinceStable
<1>1. SinceRemembered => SinceStable
  BY DEF SinceRemembered, SinceStable
<1> QED
  BY <1>1, SinceIsRemembered, PTL

-----------------------------------------------------------------------------
(* The cap.                                                                 *)

\* What is mapped is sorted by a strict total order.
LEMMA BeforeOrder ==
  ASSUME TypeOK
  PROVE  /\ \A i \in Mapped : ~Before(i, i)
         /\ \A i, j \in Mapped : i = j \/ Before(i, j) \/ Before(j, i)
         /\ \A i, j, l \in Mapped : Before(i, j) /\ Before(j, l) => Before(i, l)
<1>1. \A i \in Mapped : Key(i) \in Keys /\ i.since \in Int
  BY MappedFacts, KeyOfIssue
<1>2. ASSUME NEW i \in Mapped PROVE ~Before(i, i)
  BY <1>1, KeyOrder DEF Before
<1>3. ASSUME NEW i \in Mapped, NEW j \in Mapped PROVE i = j \/ Before(i, j) \/ Before(j, i)
  <2>1. Key(i) = Key(j) \/ KeyBefore(Key(i), Key(j)) \/ KeyBefore(Key(j), Key(i))
    BY <1>1, KeyOrder
  <2>2. Key(i) = Key(j) => i = j
    BY MappedFacts
  <2>3. i.since < j.since \/ j.since < i.since \/ i.since = j.since
    BY <1>1
  <2> QED
    BY <2>1, <2>2, <2>3 DEF Before
<1>4. ASSUME NEW i \in Mapped, NEW j \in Mapped, NEW l \in Mapped, Before(i, j), Before(j, l)
      PROVE  Before(i, l)
  <2>1. KeyBefore(Key(i), Key(j)) /\ KeyBefore(Key(j), Key(l)) => KeyBefore(Key(i), Key(l))
    BY <1>1, KeyOrder
  <2>2. i.since \in Int /\ j.since \in Int /\ l.since \in Int
    BY <1>1
  <2> QED
    BY <1>4, <2>1, <2>2 DEF Before
<1> QED
  BY <1>2, <1>3, <1>4

LEMMA MappedFinite == TypeOK => IsFiniteSet(Mapped)
<1> SUFFICES ASSUME TypeOK PROVE IsFiniteSet(Mapped)
  OBVIOUS
<1> DEFINE f == [i \in Mapped |-> Key(i)]
<1>1. f \in Injection(Mapped, Found)
  <2>1. f \in [Mapped -> Found]
    BY MappedFacts
  <2>2. \A i, j \in Mapped : f[i] = f[j] => i = j
    BY MappedFacts
  <2> HIDE DEF f
  <2> QED
    BY <2>1, <2>2 DEF Injection, IsInjective
<1> QED
  BY <1>1, FoundType, FS_Injection

\* Issues that are all ordered have a last one, unless there are none.
LEMMA LastExists ==
  ASSUME TypeOK, NEW S \in SUBSET Mapped, S # {}
  PROVE  \E z \in S : \A i \in S : i = z \/ Before(i, z)
<1> DEFINE After(i) == {j \in S : Before(i, j)}
           F == {After(i) : i \in S}
           R == StrictSubsetOrdering(S)
<1>1. F \subseteq FiniteSubsetsOf(S) /\ F # {}
  <2>1. IsFiniteSet(S)
    BY MappedFinite, FS_Subset
  <2>2. \A i \in S : After(i) \in SUBSET S /\ IsFiniteSet(After(i))
    BY <2>1, FS_Subset
  <2> QED
    BY <2>2 DEF FiniteSubsetsOf
<1>2. PICK X \in F : \A Y \in F : ~(<<Y, X>> \in R)
  <2> HIDE DEF F, R
  <2>1. IsWellFoundedOn(R, FiniteSubsetsOf(S))
    BY FS_StrictSubsetOrderingWellFounded DEF R
  <2> QED
    BY <1>1, <2>1, WFMin
<1>3. PICK z \in S : X = After(z)
  OBVIOUS
<1>4. ASSUME NEW i \in S, i # z, ~Before(i, z) PROVE FALSE
  <2>1. Before(z, i)
    BY <1>4, BeforeOrder
  <2>2. i \in X /\ i \notin After(i)
    BY <1>3, <2>1, BeforeOrder
  <2>3. After(i) \subseteq X
    BY <1>3, <2>1, BeforeOrder
  <2>4. <<After(i), X>> \in R
    <3>1. After(i) \in SUBSET S /\ X \in SUBSET S /\ After(i) # X
      BY <1>3, <2>2
    <3> QED
      BY <2>3, <3>1 DEF StrictSubsetOrdering
  <2> QED
    BY <1>2, <2>4
<1> QED
  BY <1>4

LEMMA IssuesCapped ==
  ASSUME TypeOK
  PROVE  IsFiniteSet(Issues) /\ Cardinality(Issues) <= MaxIssues
<1>1. IsFiniteSet(Mapped) /\ IsFiniteSet(Issues)
  BY MappedFinite, IssuesAreMapped, FS_Subset
<1>2. CASE Issues = {}
  BY <1>1, <1>2, FS_EmptySet, IssuesAssumption
<1>3. CASE Issues # {}
  <2>1. PICK z \in Issues : \A i \in Issues : i = z \/ Before(i, z)
    BY <1>3, IssuesAreMapped, LastExists
  <2> DEFINE B == {i \in Mapped : Before(i, z)}
  <2>2. Cardinality(B) < MaxIssues
    BY IssuesAreMapped DEF Oldest
  <2>3. IsFiniteSet(B)
    BY <1>1, FS_Subset
  <2>4. Issues \ {z} \subseteq B
    BY <2>1, IssuesAreMapped
  <2>5. Cardinality(Issues \ {z}) <= Cardinality(B)
    BY <2>3, <2>4, FS_Subset
  <2>6. Cardinality(Issues \ {z}) = Cardinality(Issues) - 1
    BY <1>1, FS_RemoveElement
  <2>7. Cardinality(Issues) \in Int /\ Cardinality(B) \in Int /\ MaxIssues \in Int
    BY <1>1, <2>3, FS_CardinalityType, IssuesAssumption
  <2> HIDE DEF B
  <2> QED
    BY <1>1, <2>2, <2>5, <2>6, <2>7
<1> QED
  BY <1>2, <1>3

\* However many machines fail for however many reasons, a heartbeat carries no more
\* issues than the server takes (collector.go:60).
THEOREM NeverOverCap == Spec => []CapKept
<1>1. Init => CapKept
  BY FS_EmptySet, IssuesAssumption DEF Init, CapKept
<1>2. TypeOK /\ CapKept /\ [Next]_vars => CapKept'
  <2> SUFFICES ASSUME TypeOK, CapKept, [Next]_vars PROVE CapKept'
    OBVIOUS
  <2>1. CASE Map
    <3>1. items' = Issues
      BY <2>1 DEF Map, Set
    <3> QED
      BY <3>1, IssuesCapped DEF CapKept
  <2>2. CASE ListFails \/ Restart
    <3>1. items' = {}
      BY <2>2 DEF ListFails, Restart, Set
    <3> QED
      BY <3>1, FS_EmptySet, IssuesAssumption DEF CapKept
  <2>3. CASE UNCHANGED <<firstSeen, items, shown>>
    BY <2>3 DEF CapKept
  <2> QED
    BY <2>1, <2>2, <2>3, WhoRemembers
<1> QED
  BY <1>1, <1>2, TypeCorrect, PTL DEF Spec

-----------------------------------------------------------------------------
(* Over the cap, the view is stable.                                        *)

LEMMA EarlierInductive ==
  ASSUME TypeOK, TypeOK', FromEarlierPasses, [Next]_vars
  PROVE  FromEarlierPasses'
<1> USE IssuesAssumption
<1>1. CASE Tick
  BY <1>1 DEF Tick, FromEarlierPasses, TypeOK, pass
<1>2. CASE Map
  <2>1. /\ firstSeen' = FirstSeen /\ pc' \in {"wait", "notify"}
        /\ wake' = clock + Interval /\ clock' = clock
    BY <1>2 DEF Map, Set
  <2>2. \A k \in Found : FirstSeen[k] <= clock
    BY DEF FirstSeen, FromEarlierPasses, TypeOK
  <2> QED
    BY <2>1, <2>2, FirstSeenType DEF FromEarlierPasses, TypeOK
<1>3. CASE ListFails
  <2>1. /\ firstSeen' = firstSeen /\ pc' \in {"wait", "notify"}
        /\ wake' = clock + Interval /\ clock' = clock
    BY <1>3 DEF ListFails, Set
  <2> QED
    BY <2>1 DEF FromEarlierPasses, TypeOK
<1>4. CASE Restart
  BY <1>4, NothingType DEF Restart, FromEarlierPasses
<1>5. CASE Wake
  BY <1>5 DEF Wake, FromEarlierPasses, TypeOK
<1>6. CASE Notify
  BY <1>6 DEF Notify, FromEarlierPasses
<1>7. CASE ListMachines \/ \E ok \in BOOLEAN : ListMachineDeployments(ok)
  BY <1>7 DEF ListMachines, ListMachineDeployments, FromEarlierPasses
<1>8. CASE UNCHANGED <<clock, pc, wake, firstSeen>>
  BY <1>8 DEF FromEarlierPasses
<1> QED
  BY <1>1, <1>2, <1>3, <1>4, <1>5, <1>6, <1>7, <1>8
     DEF Next, vars, pass, Pass, Create, Join, Delete, Vanish, Fail, Warn, Expire, Cluster, Beat

LEMMA FromEarlier == Spec => []FromEarlierPasses
<1>1. Init => FromEarlierPasses
  BY NothingType DEF Init, FromEarlierPasses
<1>2. TypeOK /\ TypeOK' /\ FromEarlierPasses /\ [Next]_vars => FromEarlierPasses'
  BY EarlierInductive
<1> QED
  BY <1>1, <1>2, TypeCorrect, PTL DEF Spec

\* The keys a pass finds that come before one of them, and the issues it maps that
\* come before the one of that key, are equally many.
Precede(l) ==
  {k \in Found : \/ FirstSeen[k] < FirstSeen[l]
                 \/ FirstSeen[k] = FirstSeen[l] /\ KeyBefore(k, l)}

LEMMA AsManyPrecede ==
  ASSUME TypeOK, NEW i \in Mapped
  PROVE  /\ IsFiniteSet(Precede(Key(i)))
         /\ Cardinality(Precede(Key(i))) = Cardinality({j \in Mapped : Before(j, i)})
<1> DEFINE B == {j \in Mapped : Before(j, i)}
           E == Precede(Key(i))
           f == [j \in B |-> Key(j)]
<1>1. IsFiniteSet(B)
  BY MappedFinite, FS_Subset
<1>2. f \in [B -> E]
  BY MappedFacts DEF Before, Precede
<1>3. \A j, l \in B : f[j] = f[l] => j = l
  BY MappedFacts
<1>4. ASSUME NEW k \in E PROVE \E j \in B : f[j] = k
  <2>1. PICK j \in Mapped : Key(j) = k
    BY MappedFacts DEF Precede
  <2>2. Before(j, i)
    BY <2>1, MappedFacts DEF Before, Precede
  <2> QED
    BY <2>1, <2>2
<1>5. ExistsBijection(B, E)
  <2> HIDE DEF B, E, f
  <2> QED
    BY <1>2, <1>3, <1>4
       DEF ExistsBijection, Bijection, Injection, Surjection, IsInjective
<1> HIDE DEF B, E, f
<1>6. IsFiniteSet(E) /\ Cardinality(E) = Cardinality(B)
  BY <1>1, <1>5, FS_Bijection
<1> QED
  BY <1>6 DEF B, E

LEMMA FirstInductive ==
  ASSUME TypeOK, AmongTheFirst, [Next]_vars
  PROVE  AmongTheFirst'
<1>1. CASE Map
  <2>1. items' = Issues /\ firstSeen' = FirstSeen
    BY <1>1 DEF Map, Set
  <2>2. IsFiniteSet(DOMAIN firstSeen')
    BY <2>1, FoundType, FirstSeenType
  <2>3. ASSUME NEW i \in Issues PROVE Cardinality(Elder(Key(i))') < MaxIssues
    <3>1. Elder(Key(i))' = Precede(Key(i))
      BY <2>1, FirstSeenType DEF Elder, SeenBefore, Precede
    <3>2. i \in Mapped /\ Cardinality({j \in Mapped : Before(j, i)}) < MaxIssues
      BY IssuesAreMapped DEF Oldest
    <3> QED
      BY <3>1, <3>2, AsManyPrecede
  <2> QED
    BY <2>1, <2>2, <2>3 DEF AmongTheFirst, Elder, SeenBefore, Key
<1>2. CASE ListFails
  <2>1. items' = {} /\ firstSeen' = firstSeen
    BY <1>2 DEF ListFails, Set
  <2> QED
    BY <2>1 DEF AmongTheFirst
<1>3. CASE Restart
  BY <1>3, NothingType, FS_EmptySet DEF Restart, AmongTheFirst
<1>4. CASE UNCHANGED <<firstSeen, items, shown>>
  BY <1>4 DEF AmongTheFirst, Elder, SeenBefore, Key
<1> QED
  BY <1>1, <1>2, <1>3, <1>4, WhoRemembers

LEMMA AreAmongTheFirst == Spec => []AmongTheFirst
<1>1. Init => AmongTheFirst
  BY NothingType, FS_EmptySet DEF Init, AmongTheFirst
<1>2. TypeOK /\ AmongTheFirst /\ [Next]_vars => AmongTheFirst'
  BY FirstInductive
<1> QED
  BY <1>1, <1>2, TypeCorrect, PTL DEF Spec

\* What is found again was older than anything found for the first time.
LEMMA StaysMapped ==
  ASSUME TypeOK, SinceRemembered, AmongTheFirst, FromEarlierPasses, pc = "map",
         NEW i \in items, Key(i) \in Found, i.since < MaxClock
  PROVE  \E j \in Issues : Key(j) = Key(i)
<1> DEFINE l == Key(i)
<1>1. l \in DOMAIN firstSeen /\ i.since = firstSeen[l] /\ FirstSeen[l] = firstSeen[l]
  BY DEF SinceRemembered, FirstSeen
<1>2. firstSeen[l] < clock
  BY <1>1 DEF FromEarlierPasses
<1>3. ASSUME NEW k \in Precede(l) PROVE k \in Elder(l)
  <2>1. k \in Found /\ FirstSeen[k] <= FirstSeen[l]
    BY <1>1, FirstSeenType DEF Precede
  <2>2. k \in DOMAIN firstSeen
    BY <1>1, <1>2, <2>1 DEF FirstSeen, TypeOK
  <2> QED
    BY <1>1, <2>1, <2>2 DEF FirstSeen, Precede, Elder, SeenBefore
<1>4. IsFiniteSet(Elder(l)) /\ Cardinality(Elder(l)) < MaxIssues
  BY FS_Subset DEF AmongTheFirst, Elder
<1>5. Cardinality(Precede(l)) <= Cardinality(Elder(l)) /\ IsFiniteSet(Precede(l))
  BY <1>3, <1>4, FS_Subset
<1>6. PICK j \in Mapped : Key(j) = l
  BY MappedFacts
<1>7. Cardinality({h \in Mapped : Before(h, j)}) = Cardinality(Precede(l))
  BY <1>6, AsManyPrecede
<1>8. Cardinality({h \in Mapped : Before(h, j)}) < MaxIssues
  BY <1>4, <1>5, <1>7, FS_CardinalityType, IssuesAssumption
<1> QED
  BY <1>6, <1>8, IssuesAreMapped DEF Oldest

\* An incident over the cap keeps a stable view: newcomers never push an issue that
\* a pass finds again out of the heartbeat, also after passes that failed
\* (collector.go:283).
THEOREM NoIssueFlaps == Spec => NoFlapping
<1> DEFINE Stay == (pc = "map" /\ pc' # "map" /\ faults' = faults) =>
                     \A i \in items : (Key(i) \in DOMAIN firstSeen' /\ i.since < MaxClock)
                                        => \E j \in items' : Key(j) = Key(i)
<1>1. ASSUME TypeOK, SinceRemembered, AmongTheFirst, FromEarlierPasses, [Next]_vars
      PROVE  [Stay]_vars
  <2> SUFFICES ASSUME pc = "map", pc' # "map", faults' = faults PROVE Stay
    OBVIOUS
  <2>1. Map
    BY <1>1 DEF Next, vars, pass, Tick, Create, Join, Delete, Vanish, Fail, Warn, Expire, Cluster,
                Pass, ListMachines, ListMachineDeployments, Notify, Wake, Beat, ListFails,
                Restart, TypeOK
  <2>2. items' = Issues /\ DOMAIN firstSeen' = Found
    BY <1>1, <2>1, FirstSeenType DEF Map, Set
  <2> QED
    BY <1>1, <2>2, StaysMapped
<1> QED
  BY <1>1, TypeCorrect, SinceIsRemembered, AreAmongTheFirst, FromEarlier, PTL DEF Spec, NoFlapping

-----------------------------------------------------------------------------
(* Signals.                                                                 *)

LEMMA SignalStep ==
  ASSUME IssuesAreSignalled, [Next]_vars
  PROVE  IssuesAreSignalled'
<1>1. CASE ListFails \/ Map
  <2>1. PICK issues : Set(issues) /\ UNCHANGED <<signalled, beaten>> /\ pc # "notify"
    BY <1>1 DEF ListFails, Map
  <2> QED
    BY <2>1 DEF Set, IssuesAreSignalled
<1>2. CASE Notify \/ Beat \/ Restart
  BY <1>2 DEF Notify, Beat, Restart, pass, IssuesAreSignalled
<1>3. CASE \/ ListMachines \/ Wake
           \/ \E ok \in BOOLEAN : ListMachineDeployments(ok)
  <2>1. UNCHANGED <<items, signalled, beaten>> /\ pc # "notify"
    BY <1>3 DEF ListMachines, Wake, ListMachineDeployments
  <2> QED
    BY <2>1 DEF IssuesAreSignalled
<1>4. CASE UNCHANGED <<pc, items, signalled, beaten>>
  BY <1>4 DEF IssuesAreSignalled
<1>5. ASSUME \/ Tick \/ UNCHANGED vars
             \/ \E m \in Machines :
                  \/ Create(m) \/ Join(m) \/ Delete(m) \/ Vanish(m)
                  \/ \E e \in Reasons \cup {None} : Fail(m, e)
                  \/ \E r \in Reasons : Warn(m, r) \/ Expire(m, r)
      PROVE  UNCHANGED <<pc, items, signalled, beaten>>
  BY <1>5 DEF Tick, vars, pass, Create, Join, Delete, Vanish, Fail, Warn, Expire, Cluster
<1> QED
  BY <1>1, <1>2, <1>3, <1>4, <1>5 DEF Next, Pass

\* A new issue, or one that is gone, is in a heartbeat before the periodic one: a
\* payload that shows other issues than the store has a signal waiting or a
\* collector about to give it (store.go:20).
THEOREM IssuesSignalled == Spec => []IssuesAreSignalled
<1>1. Init => IssuesAreSignalled
  BY DEF Init, IssuesAreSignalled
<1> QED
  BY <1>1, SignalStep, PTL DEF Spec

-----------------------------------------------------------------------------
(* PoolResolver, for all MachineDeployments and machines.                   *)

CONSTANT Unowned   \* its answer when no owner can be established
R == INSTANCE Resolver

\* A set of numbers has a least one, for the intervals up to its members are
\* ordered well by inclusion.
LEMMA LeastExists ==
  ASSUME NEW S \in SUBSET Nat, S # {}
  PROVE  \E x \in S : \A y \in S : x <= y
<1> DEFINE F == {0..n : n \in S}
           Smaller == StrictSubsetOrdering(Nat)
<1>1. F \subseteq FiniteSubsetsOf(Nat)
  <2>1. ASSUME NEW n \in S PROVE 0..n \in FiniteSubsetsOf(Nat)
    <3>1. n \in Int /\ 0 \in Int /\ 0..n \in SUBSET Nat
      OBVIOUS
    <3>2. IsFiniteSet(0..n)
      BY <3>1, FS_Interval
    <3> QED
      BY <3>1, <3>2 DEF FiniteSubsetsOf
  <2> QED
    BY <2>1
<1>2. F # {}
  OBVIOUS
<1>3. PICK X \in F : \A Y \in F : ~(<<Y, X>> \in Smaller)
  <2> HIDE DEF F, Smaller
  <2>1. IsWellFoundedOn(Smaller, FiniteSubsetsOf(Nat))
    BY FS_StrictSubsetOrderingWellFounded DEF Smaller
  <2> QED
    BY <1>1, <1>2, <2>1, WFMin
<1>4. PICK x \in S : X = 0..x
  OBVIOUS
<1>5. ASSUME NEW y \in S, y < x PROVE FALSE
  <2>1. 0..y \in F /\ 0..y \subseteq X /\ x \in X /\ x \notin 0..y
    BY <1>4, <1>5
  <2>2. 0..y \in SUBSET Nat /\ X \in SUBSET Nat
    BY <1>4
  <2>3. <<0..y, X>> \in Smaller
    BY <2>1, <2>2 DEF StrictSubsetOrdering
  <2> QED
    BY <1>3, <2>1, <2>3
<1> QED
  BY <1>5

LEMMA FirstIsLeast ==
  ASSUME NEW S \in SUBSET Nat, S # {}
  PROVE  R!First(S) \in S /\ \A y \in S : R!First(S) <= y
BY LeastExists DEF R!First

\* What PoolFor may be asked: names are those of objects, an owner reference leads
\* to one.
Asked(mds, m) == R!NamesOf(mds) \subseteq Nat /\ m.owners \in Seq(Nat)

\* PoolFor never guesses (machines.go:132, 171): it answers with a known
\* MachineDeployment that claims the machine by its selector or is named by one of
\* its owner references, or that nobody owns the machine.
THEOREM PoolForNeverGuesses ==
  ASSUME NEW mds, NEW m, Asked(mds, m)
  PROVE  LET p == R!PoolFor(mds, m)
         IN  \/ p = Unowned
             \/ \E d \in mds : p = d.name /\ R!Claims(d, m)
             \/ /\ p \in R!NamesOf(mds)
                /\ \E i \in DOMAIN m.owners : p = m.owners[i]
<1>1. R!Claimants(mds, m) \subseteq Nat
  BY DEF Asked, R!NamesOf, R!Claimants
<1>2. CASE R!Claimants(mds, m) # {}
  <2>1. R!PoolFor(mds, m) \in R!Claimants(mds, m)
    BY <1>1, <1>2, FirstIsLeast DEF R!PoolFor
  <2> QED
    BY <2>1 DEF R!Claimants
<1>3. CASE R!Claimants(mds, m) = {} /\ R!OwnedBy(mds, m) # {}
  <2>1. R!OwnedBy(mds, m) \in SUBSET Nat
    BY DEF R!OwnedBy, Asked
  <2>2. R!First(R!OwnedBy(mds, m)) \in R!OwnedBy(mds, m)
    BY <1>3, <2>1, FirstIsLeast
  <2>3. R!PoolFor(mds, m) = m.owners[R!First(R!OwnedBy(mds, m))]
    BY <1>3 DEF R!PoolFor
  <2> QED
    BY <2>2, <2>3 DEF R!OwnedBy
<1>4. CASE R!Claimants(mds, m) = {} /\ R!OwnedBy(mds, m) = {}
  BY <1>4 DEF R!PoolFor
<1> QED
  BY <1>2, <1>3, <1>4

\* The selector is authoritative (machines.go:126): a machine that a
\* MachineDeployment claims is never resolved by the shape of a name, and among
\* overlapping selectors the lexicographically first one wins (machines.go:140).
THEOREM SelectorsDecide ==
  ASSUME NEW mds, NEW m, Asked(mds, m), NEW d \in mds, R!Claims(d, m)
  PROVE  /\ R!PoolFor(mds, m) \in R!Claimants(mds, m)
         /\ R!PoolFor(mds, m) <= d.name
<1>1. R!Claimants(mds, m) \subseteq Nat
  BY DEF Asked, R!NamesOf, R!Claimants
<1>2. d.name \in R!Claimants(mds, m)
  BY DEF R!Claimants
<1> QED
  BY <1>1, <1>2, FirstIsLeast DEF R!PoolFor

\* A MachineDeployment without a readable selector, an empty one included, owns no
\* machine that another one claims (machines.go:136): its presence changes nothing.
THEOREM UnreadableClaimsNothing ==
  ASSUME NEW mds, NEW m, NEW e, e.selector = R!Unreadable,
         R!Claimants(mds, m) # {}
  PROVE  R!PoolFor(mds \cup {e}, m) = R!PoolFor(mds, m)
<1>1. R!Claimants(mds \cup {e}, m) = R!Claimants(mds, m)
  BY DEF R!Claimants, R!Claims
<1> QED
  BY <1>1 DEF R!PoolFor
=============================================================================
