----------------------------- MODULE BeatsProofs -----------------------------
(* Theorems about heartbeats for all caps, lists, stores and their contents,  *)
(* however payloads are lost, repeated and overtaken.                         *)
EXTENDS Beats, FiniteSetTheorems, SequenceTheorems, TLAPS

-----------------------------------------------------------------------------
(* Filtered lists.                                                            *)

\* Positions are ranked without gaps, and not after where they were.
LEMMA RankFacts ==
  ASSUME NEW N \in Nat, NEW K \in SUBSET (1..N)
  PROVE  /\ IsFiniteSet(K) /\ Cardinality(K) \in Nat
         /\ \A i \in K : Rank(K, i) \in 1..Cardinality(K) /\ Rank(K, i) <= i
         /\ \A i, j \in K : i < j => Rank(K, i) < Rank(K, j)
         /\ \A n \in 1..Cardinality(K) : \E i \in K : Rank(K, i) = n
<1> DEFINE Upto(i) == {j \in K : j <= i}
<1>0. \A i \in K : i \in Int /\ 1 <= i
  OBVIOUS
<1>1. IsFiniteSet(K) /\ Cardinality(K) \in Nat
  <2>1. 1 \in Int /\ N \in Int
    OBVIOUS
  <2>2. IsFiniteSet(1..N)
    BY <2>1, FS_Interval
  <2>3. IsFiniteSet(K)
    BY <2>2, FS_Subset
  <2> QED
    BY <2>3, FS_CardinalityType
<1>2. ASSUME NEW i \in K
      PROVE  /\ IsFiniteSet(Upto(i)) /\ Cardinality(Upto(i)) \in 1..Cardinality(K)
             /\ Cardinality(Upto(i)) <= i
  <2>1. IsFiniteSet(Upto(i)) /\ Cardinality(Upto(i)) <= Cardinality(K)
    BY <1>1, FS_Subset
  <2>2. Cardinality(Upto(i)) # 0 /\ Cardinality(Upto(i)) \in Nat
    BY <2>1, FS_EmptySet, FS_CardinalityType
  <2>3. i \in Int /\ 1 \in Int /\ ~(1 > i)
    BY <1>0
  <2>4. Upto(i) \in SUBSET (1..i)
    <3>1. ASSUME NEW j \in K, j <= i PROVE j \in 1..i
      BY <1>0, <3>1
    <3> QED
      BY <3>1
  <2>5. IsFiniteSet(1..i) /\ Cardinality(1..i) = i
    BY <2>3, FS_Interval
  <2>6. Cardinality(Upto(i)) <= i
    BY <2>4, <2>5, FS_Subset
  <2> QED
    BY <1>1, <2>1, <2>2, <2>6
<1>3. ASSUME NEW i \in K, NEW j \in K, i < j PROVE Cardinality(Upto(i)) < Cardinality(Upto(j))
  <2>1. Upto(i) \in SUBSET Upto(j)
    <3>1. ASSUME NEW l \in K, l <= i PROVE l <= j
      BY <1>0, <1>3, <3>1
    <3> QED
      BY <3>1
  <2>2. j \in Upto(j) /\ j \notin Upto(i)
    BY <1>0, <1>3
  <2>3. /\ Cardinality(Upto(i)) <= Cardinality(Upto(j))
        /\ Cardinality(Upto(i)) # Cardinality(Upto(j))
    BY <1>2, <2>1, <2>2, FS_Subset
  <2> QED
    BY <1>2, <2>3
<1>4. ASSUME NEW n \in 1..Cardinality(K) PROVE \E i \in K : Cardinality(Upto(i)) = n
  <2> DEFINE r == [i \in K |-> Cardinality(Upto(i))]
  <2>1. r \in [K -> 1..Cardinality(K)]
    BY <1>2
  <2>2. \A i, j \in K : r[i] = r[j] => i = j
    <3>1. \A i, j \in K : i # j => i < j \/ j < i
      OBVIOUS
    <3> QED
      BY <1>2, <1>3, <3>1
  <2>3. r \in Injection(K, 1..Cardinality(K))
    <3> HIDE DEF r
    <3> QED
      BY <2>1, <2>2 DEF Injection, IsInjective
  <2>4. IsFiniteSet(1..Cardinality(K)) /\ Cardinality(1..Cardinality(K)) = Cardinality(K)
    BY <1>1, FS_Interval
  <2>5. r \in Surjection(K, 1..Cardinality(K))
    <3> HIDE DEF r
    <3> QED
      BY <2>3, <2>4, FS_Injection
  <2> QED
    BY <2>5 DEF Surjection
<1> HIDE DEF Upto
<1> QED
  BY <1>1, <1>2, <1>3, <1>4 DEF Rank, Upto

\* A filtered list holds the entries at the kept positions, each at its rank.
LEMMA FilteredFacts ==
  ASSUME NEW S, NEW list \in Seq(S), NEW K \in SUBSET DOMAIN list
  PROVE  /\ Filtered(list, K) \in Seq(S) /\ Len(Filtered(list, K)) = Cardinality(K)
         /\ \A n \in DOMAIN Filtered(list, K) :
              \E i \in K : Rank(K, i) = n /\ Filtered(list, K)[n] = list[i]
         /\ \A i \in K : /\ Rank(K, i) \in DOMAIN Filtered(list, K)
                         /\ Filtered(list, K)[Rank(K, i)] = list[i]
<1> DEFINE At(n) == CHOOSE i \in K : Rank(K, i) = n
           F == Filtered(list, K)
<1>1. DOMAIN list = 1..Len(list) /\ Len(list) \in Nat
  OBVIOUS
<1>2. Cardinality(K) \in Nat
  BY <1>1, RankFacts
<1>3. \A n \in 1..Cardinality(K) : At(n) \in K /\ Rank(K, At(n)) = n
  BY <1>1, RankFacts
<1>4. ASSUME NEW i \in K
      PROVE  Rank(K, i) \in 1..Cardinality(K) /\ At(Rank(K, i)) = i
  <2>1. Rank(K, i) \in 1..Cardinality(K)
    BY <1>1, RankFacts
  <2>2. At(Rank(K, i)) \in K /\ Rank(K, At(Rank(K, i))) = Rank(K, i)
    BY <1>3, <2>1
  <2>3. \A j \in K : j # i => Rank(K, j) # Rank(K, i)
    <3>1. \A j \in K : j # i => j < i \/ i < j
      BY <1>1
    <3>2. \A j \in K : Rank(K, j) \in Int
      <4>1. \A j \in K : Rank(K, j) \in 1..Cardinality(K)
        BY <1>1, RankFacts
      <4> QED
        BY <1>2, <4>1
    <3>3. \A j, l \in K : j < l => Rank(K, j) < Rank(K, l)
      BY <1>1, RankFacts
    <3> QED
      BY <3>1, <3>2, <3>3
  <2> HIDE DEF At
  <2> QED
    BY <2>1, <2>2, <2>3
<1>5. F = [n \in 1..Cardinality(K) |-> list[At(n)]]
  BY DEF Filtered
<1> HIDE DEF At, F
<1>6. DOMAIN F = 1..Cardinality(K) /\ \A n \in 1..Cardinality(K) : F[n] = list[At(n)]
  BY <1>5
<1>7. F \in Seq(S) /\ Len(F) = Cardinality(K)
  <2>1. \A n \in 1..Cardinality(K) : list[At(n)] \in S
    BY <1>1, <1>3
  <2> QED
    BY <1>2, <1>5, <2>1
<1>8. \A n \in DOMAIN F : \E i \in K : Rank(K, i) = n /\ F[n] = list[i]
  BY <1>3, <1>6
<1>9. \A i \in K : Rank(K, i) \in DOMAIN F /\ F[Rank(K, i)] = list[i]
  BY <1>4, <1>6
<1> QED
  BY <1>7, <1>8, <1>9 DEF F

LEMMA TruncateFacts ==
  ASSUME NEW S, NEW list \in Seq(S), NEW n \in Nat
  PROVE  /\ Truncate(list, n) \in Seq(S)
         /\ Len(Truncate(list, n)) = IF Len(list) < n THEN Len(list) ELSE n
         /\ \A i \in DOMAIN Truncate(list, n) : i \in DOMAIN list /\ Truncate(list, n)[i] = list[i]
<1> DEFINE m == IF Len(list) < n THEN Len(list) ELSE n
<1>1. 1 \in Int /\ m \in Int /\ 0 <= m /\ m <= Len(list) /\ \A i \in 1..m : list[i] \in S
  OBVIOUS
<1> HIDE DEF m
<1>2. /\ SubSeq(list, 1, m) \in Seq(S)
      /\ Len(SubSeq(list, 1, m)) = IF 1 <= m THEN m - 1 + 1 ELSE 0
      /\ \A i \in 1..m - 1 + 1 : SubSeq(list, 1, m)[i] = list[1 + i - 1]
  BY <1>1, SubSeqProperties
<1>3. Truncate(list, n) = SubSeq(list, 1, m)
  BY DEF Truncate, m
<1>4. Len(SubSeq(list, 1, m)) = m
  BY <1>1, <1>2
<1>5. \A i \in 1..m : i \in DOMAIN list /\ SubSeq(list, 1, m)[i] = list[i]
  BY <1>1, <1>2
<1> QED
  BY <1>1, <1>2, <1>3, <1>4, <1>5 DEF m

-----------------------------------------------------------------------------
(* ApplyCaps.                                                                 *)

\* What is left of a list of reports: the first with a target, no more than the
\* server takes, with revisions it takes.
LEMMA CapFacts ==
  ASSUME NEW list \in Seq(Reports)
  PROVE  LET cut == CapActions(list)
         IN  /\ Len(cut) \in Nat /\ DOMAIN cut = 1..Len(cut) /\ Len(cut) <= MaxActions
             /\ \A n \in DOMAIN cut : cut[n].target # "" /\ cut[n].revision \in 0..MaxRevision
             /\ KeysIn(cut) =
                  {Key(list[i]) : i \in {j \in Named(list) : Rank(Named(list), j) <= MaxActions}}
<1> DEFINE K == Named(list)
           F == Filtered(list, K)
           kept == Truncate(F, MaxActions)
           cut == [i \in DOMAIN kept |->
                     [kept[i] EXCEPT !.revision = CapRevision(@)]]
<1>1. MaxActions \in Nat \ {0} /\ MaxRevision \in Nat /\ Revisions \subseteq Nat
  BY CapAssumption, BeatAssumption
<1>2. K \in SUBSET DOMAIN list
  BY DEF Named
<1>3. /\ F \in Seq(Reports) /\ Len(F) = Cardinality(K)
      /\ \A n \in DOMAIN F : \E i \in K : Rank(K, i) = n /\ F[n] = list[i]
      /\ \A i \in K : Rank(K, i) \in DOMAIN F /\ F[Rank(K, i)] = list[i]
  BY <1>2, FilteredFacts
<1>4. /\ kept \in Seq(Reports)
      /\ Len(kept) = IF Len(F) < MaxActions THEN Len(F) ELSE MaxActions
      /\ \A i \in DOMAIN kept : i \in DOMAIN F /\ kept[i] = F[i]
  <2> HIDE DEF F
  <2> QED
    BY <1>1, <1>3, TruncateFacts
<1> HIDE DEF F, kept
<1>5. DOMAIN kept = 1..Len(kept) /\ DOMAIN F = 1..Len(F) /\ Len(kept) \in Nat /\ Len(F) \in Nat
  BY <1>3, <1>4
<1>6. ASSUME NEW n \in DOMAIN kept
      PROVE  /\ Key(cut[n]) = Key(F[n]) /\ cut[n].target # ""
             /\ cut[n].revision \in 0..MaxRevision
  <2>1. kept[n] \in Reports /\ kept[n] = F[n]
    BY <1>4
  <2>2. F[n].target # ""
    BY <1>3, <1>4 DEF Named
  <2>3. /\ cut[n].target = kept[n].target /\ cut[n].type = kept[n].type
        /\ cut[n].revision = CapRevision(kept[n].revision)
    BY <2>1 DEF Reports
  <2>4. kept[n].revision \in Nat
    BY <1>1, <2>1 DEF Reports
  <2> HIDE DEF cut
  <2>5. cut[n].revision \in 0..MaxRevision
    BY <1>1, <2>3, <2>4 DEF CapRevision
  <2> QED
    BY <2>1, <2>2, <2>3, <2>5 DEF Key
<1>7. cut \in Seq({cut[i] : i \in DOMAIN kept}) /\ Len(cut) = Len(kept) /\ DOMAIN cut = DOMAIN kept
  BY <1>5
<1> HIDE DEF cut
<1>8. KeysIn(cut) = {Key(list[i]) : i \in {j \in K : Rank(K, j) <= MaxActions}}
  <2>1. ASSUME NEW n \in DOMAIN cut
        PROVE  \E i \in K : Rank(K, i) <= MaxActions /\ Key(cut[n]) = Key(list[i])
    <3>1. n \in DOMAIN kept /\ Key(cut[n]) = Key(F[n])
      BY <1>6, <1>7
    <3>2. n \in DOMAIN F /\ n <= MaxActions
      BY <1>1, <1>4, <1>5, <3>1
    <3>3. PICK i \in K : Rank(K, i) = n /\ F[n] = list[i]
      BY <1>3, <3>2
    <3>4. Key(cut[n]) = Key(list[i]) /\ Rank(K, i) <= MaxActions
      BY <3>1, <3>2, <3>3
    <3> HIDE DEF K
    <3> QED
      BY <3>4
  <2>2. ASSUME NEW i \in K, Rank(K, i) <= MaxActions
        PROVE  \E n \in DOMAIN cut : Key(cut[n]) = Key(list[i])
    <3>1. Rank(K, i) \in DOMAIN F /\ F[Rank(K, i)] = list[i]
      BY <1>3
    <3>2. Rank(K, i) \in DOMAIN cut
      BY <1>1, <1>4, <1>5, <1>7, <2>2, <3>1
    <3> QED
      BY <1>6, <1>7, <3>1, <3>2
  <2> QED
    BY <2>1, <2>2 DEF KeysIn
<1>9. CapActions(list) = cut
  BY DEF CapActions, cut, kept, F
<1>10. Len(cut) <= MaxActions
  BY <1>1, <1>4, <1>5, <1>7
<1> QED
  BY <1>5, <1>6, <1>7, <1>8, <1>9, <1>10

\* Whatever the stores hold, a capped payload is within the server's bounds.
LEMMA CappedIsAccepted ==
  ASSUME NEW p, DOMAIN p = {"nodes", "pods", "events", "actions", "blocks"},
         p.nodes \in Seq(Facts), p.actions \in Seq(Reports), p.blocks \in [Blocks -> Sizes]
  PROVE  /\ ApplyCaps(p).actions = CapActions(p.actions)
         /\ HeartbeatSchema(ApplyCaps(p))
<1>1. /\ ApplyCaps(p).nodes = Truncate(p.nodes, MaxNodes)
      /\ ApplyCaps(p).actions = CapActions(p.actions)
      /\ ApplyCaps(p).blocks = [b \in DOMAIN p.blocks |-> CapEntries(p.blocks[b])]
  BY DEF ApplyCaps
<1>2. MaxNodes \in Nat /\ EntryCap \in Nat
  BY CapAssumption
<1>3. Len(ApplyCaps(p).nodes) <= MaxNodes
  <2>1. Len(Truncate(p.nodes, MaxNodes)) = IF Len(p.nodes) < MaxNodes THEN Len(p.nodes) ELSE MaxNodes
    BY <1>2, TruncateFacts
  <2> QED
    BY <1>1, <1>2, <2>1
<1>4. \A b \in DOMAIN ApplyCaps(p).blocks : ApplyCaps(p).blocks[b] <= EntryCap
  BY <1>1, <1>2 DEF CapEntries, Sizes, Absent
<1> QED
  BY <1>1, <1>3, <1>4, CapFacts DEF HeartbeatSchema

-----------------------------------------------------------------------------
(* The calls of the actions store.                                            *)

Distinct(list) == \A i, j \in DOMAIN list : Key(list[i]) = Key(list[j]) => i = j

\* The keys that are left after the cap.
Shipped(list) == {Key(list[i]) : i \in {j \in Named(list) : Rank(Named(list), j) <= MaxActions}}

\* A call keeps the list well formed, and whoever stays in it keeps its place.
Follows(items, list) ==
  /\ items \in Seq(Reports) /\ Distinct(items)
  /\ Shipped(list) \cap KeysIn(items) \subseteq Shipped(items)

LEMMA ClearFollows ==
  ASSUME NEW list
  PROVE  Follows(<<>>, list)
BY DEF Follows, Distinct, KeysIn

LEMMA UpsertFollows ==
  ASSUME NEW list \in Seq(Reports), Distinct(list), NEW a \in Reports
  PROVE  Follows(WithReport(list, a), list)
<1> DEFINE items == WithReport(list, a)
<1>1. CASE \E i \in DOMAIN list : Key(list[i]) = Key(a)
  <2>1. items = [i \in DOMAIN list |-> IF Key(list[i]) = Key(a) THEN a ELSE list[i]]
    BY <1>1 DEF WithReport
  <2> HIDE DEF items
  <2>2. items \in Seq(Reports) /\ DOMAIN items = DOMAIN list
    BY <2>1
  <2>3. \A i \in DOMAIN list : Key(items[i]) = Key(list[i]) /\ items[i].target = list[i].target
    BY <2>1 DEF Key
  <2>4. Named(items) = Named(list)
    BY <2>2, <2>3 DEF Named
  <2>5. Distinct(items)
    BY <2>2, <2>3 DEF Distinct
  <2>6. Shipped(items) = Shipped(list)
    BY <2>3, <2>4 DEF Shipped, Named
  <2> QED
    BY <2>2, <2>5, <2>6 DEF Follows, items
<1>2. CASE ~\E i \in DOMAIN list : Key(list[i]) = Key(a)
  <2>1. items = Append(list, a)
    BY <1>2 DEF WithReport
  <2> HIDE DEF items
  <2>2. /\ items \in Seq(Reports) /\ Len(items) = Len(list) + 1 /\ Len(list) \in Nat
        /\ DOMAIN items = 1..Len(items) /\ DOMAIN list = 1..Len(list)
        /\ items[Len(items)] = a /\ \A i \in DOMAIN list : items[i] = list[i]
    BY <2>1
  <2>3. \A i \in DOMAIN list : Key(list[i]) # Key(a)
    BY <1>2
  <2>4. Distinct(items)
    <3>1. \A i \in DOMAIN items : i \in DOMAIN list \/ i = Len(items)
      BY <2>2
    <3> QED
      BY <2>2, <2>3, <3>1 DEF Distinct
  <2>5. ASSUME NEW i \in Named(list)
        PROVE  /\ i \in Named(items) /\ items[i] = list[i]
               /\ Rank(Named(items), i) = Rank(Named(list), i)
    <3>1. i \in DOMAIN list /\ DOMAIN list \subseteq DOMAIN items
      <4>1. i \in DOMAIN list
        BY DEF Named
      <4>2. 1..Len(list) \subseteq 1..Len(items)
        BY <2>2
      <4> QED
        BY <2>2, <4>1, <4>2
    <3>2. \A j \in DOMAIN items : j <= i => j \in DOMAIN list
      BY <2>2, <3>1
    <3>3. \A j : (j \in Named(items) /\ j <= i) <=> (j \in Named(list) /\ j <= i)
      BY <2>2, <3>1, <3>2 DEF Named
    <3>4. {j \in Named(items) : j <= i} = {j \in Named(list) : j <= i}
      BY <3>3
    <3> QED
      BY <2>2, <3>1, <3>4 DEF Named, Rank
  <2>6. Shipped(list) \subseteq Shipped(items)
    BY <2>5 DEF Shipped
  <2> QED
    BY <2>2, <2>4, <2>6 DEF Follows, items
<1> QED
  BY <1>1, <1>2

LEMMA PruneFollows ==
  ASSUME NEW list \in Seq(Reports), Distinct(list), NEW K \in SUBSET DOMAIN list
  PROVE  Follows(Filtered(list, K), list)
<1> DEFINE items == Filtered(list, K)
<1>1. /\ items \in Seq(Reports) /\ Len(items) = Cardinality(K)
      /\ \A n \in DOMAIN items : \E i \in K : Rank(K, i) = n /\ items[n] = list[i]
      /\ \A i \in K : Rank(K, i) \in DOMAIN items /\ items[Rank(K, i)] = list[i]
  BY FilteredFacts
<1>2. DOMAIN list = 1..Len(list) /\ Len(list) \in Nat
  OBVIOUS
<1>3. /\ \A i \in K : Rank(K, i) \in 1..Cardinality(K)
      /\ \A i, j \in K : i < j => Rank(K, i) < Rank(K, j)
      /\ Cardinality(K) \in Nat
  BY <1>2, RankFacts
<1> HIDE DEF items
<1>4. Distinct(items)
  BY <1>1 DEF Distinct
<1>5. ASSUME NEW i \in Named(list), Rank(Named(list), i) <= MaxActions,
             Key(list[i]) \in KeysIn(items)
      PROVE  Key(list[i]) \in Shipped(items)
  <2>1. PICK n \in DOMAIN items : Key(items[n]) = Key(list[i])
    BY <1>5 DEF KeysIn
  <2>2. i \in K /\ Rank(K, i) = n
    BY <1>1, <2>1 DEF Distinct, Named
  <2>3. n \in Named(items)
    BY <2>1 DEF Named, Key
  <2> DEFINE I == {j \in Named(list) : j <= i}
             J == {j \in K \cap Named(list) : j <= i}
             M == {m \in Named(items) : m <= n}
             r == [j \in J |-> Rank(K, j)]
  <2>4. IsFiniteSet(I) /\ IsFiniteSet(J) /\ Cardinality(J) <= Cardinality(I)
    <3>1. IsFiniteSet(1..Len(list))
      BY <1>2, FS_Interval
    <3>2. I \in SUBSET (1..Len(list)) /\ J \in SUBSET I
      BY <1>2 DEF Named
    <3> HIDE DEF I, J
    <3> QED
      BY <3>1, <3>2, FS_Subset
  <2>5. \A j \in K : j <= i <=> Rank(K, j) <= n
    <3>1. \A j \in K : j = i \/ j < i \/ i < j
      <4>1. i \in Int /\ \A j \in K : j \in Int
        BY <1>2, <2>2
      <4> QED
        BY <4>1
    <3>2. \A j \in K : Rank(K, j) \in Int
      BY <1>3
    <3>3. n \in Int /\ \A j \in K : j \in Int
      BY <1>2, <2>2, <3>2
    <3> QED
      BY <1>3, <2>2, <3>1, <3>2, <3>3
  <2>6. \A j \in J : Rank(K, j) \in M
    BY <1>1, <2>5 DEF Named
  <2>7. ASSUME NEW m \in M PROVE \E j \in J : Rank(K, j) = m
    BY <1>1, <2>5 DEF Named
  <2>8. r \in Surjection(J, M)
    <3>1. r \in [J -> M] /\ \A m \in M : \E j \in J : r[j] = m
      BY <2>6, <2>7
    <3> HIDE DEF r, J, M
    <3> QED
      BY <3>1 DEF Surjection
  <2>9. IsFiniteSet(M) /\ Cardinality(M) <= Cardinality(J)
    <3> HIDE DEF r, J, M
    <3> QED
      BY <2>4, <2>8, FS_Surjection
  <2>10. Rank(Named(items), n) = Cardinality(M) /\ Rank(Named(list), i) = Cardinality(I)
    BY DEF Rank
  <2>11. Rank(Named(items), n) <= MaxActions
    <3>1. MaxActions \in Nat
      BY CapAssumption
    <3> HIDE DEF I, J, M
    <3>2. Cardinality(I) \in Nat /\ Cardinality(J) \in Nat /\ Cardinality(M) \in Nat
      BY <2>4, <2>9, FS_CardinalityType
    <3> QED
      BY <1>5, <2>4, <2>9, <2>10, <3>1, <3>2
  <2> QED
    BY <2>1, <2>3, <2>11 DEF Shipped
<1>6. Shipped(list) \cap KeysIn(items) \subseteq Shipped(items)
  BY <1>5 DEF Shipped
<1> QED
  BY <1>1, <1>4, <1>6 DEF Follows, items

-----------------------------------------------------------------------------
(* Types.                                                                     *)

LEMMA CallFollows ==
  ASSUME TypeOK, Upsert \/ Clear \/ Prune
  PROVE  /\ Follows(store', store)
         /\ removed' = removed \cup (KeysIn(store) \ KeysIn(store'))
         /\ UNCHANGED <<nodes, blocks, pc, payload, built, hand>>
<1>1. store \in Seq(Reports) /\ Distinct(store)
  BY DEF TypeOK, Distinct
<1>2. CASE Upsert
  <2>1. PICK a \in Reports : Call(WithReport(store, a))
    BY <1>2 DEF Upsert
  <2> QED
    BY <1>1, <2>1, UpsertFollows DEF Call, Changed, caches, flush, sender
<1>3. CASE Clear
  BY <1>3, ClearFollows DEF Clear, Call, Changed, caches, flush, sender
<1>4. CASE Prune
  <2>1. PICK K \in SUBSET DOMAIN store : Call(Filtered(store, K))
    BY <1>4 DEF Prune
  <2> QED
    BY <1>1, <2>1, PruneFollows DEF Call, Changed, caches, flush, sender
<1> QED
  BY <1>2, <1>3, <1>4

LEMMA BuiltType ==
  ASSUME TypeOK, NEW ns \in Lists(CachedNodes), NEW es
  PROVE  /\ DOMAIN BuildPayload(ns, es) = {"nodes", "pods", "events", "actions", "blocks"}
         /\ BuildPayload(ns, es).nodes \in Seq(Facts)
         /\ BuildPayload(ns, es).actions = <<>>
<1> DEFINE f == [n \in DOMAIN nodes |->
                   [name |-> n, roles |-> nodes[n].roles, conditions |-> nodes[n].conditions]]
<1>1. f \in Surjection(DOMAIN nodes, CachedNodes)
  <2>1. CachedNodes = {f[n] : n \in DOMAIN nodes}
    BY DEF CachedNodes
  <2>2. f \in [DOMAIN nodes -> CachedNodes]
    BY <2>1
  <2> HIDE DEF f
  <2> QED
    BY <2>1, <2>2 DEF Surjection
<1>2. Cardinality(CachedNodes) \in Nat
  BY <1>1, FS_Surjection, FS_CardinalityType DEF TypeOK
<1>3. ns \in [1..Cardinality(CachedNodes) -> CachedNodes]
  BY DEF Lists
<1>4. \A n \in CachedNodes : NodeStateFromNode(n) \in Facts
  BY DEF CachedNodes, Facts, TypeOK
<1>5. [i \in DOMAIN ns |-> NodeStateFromNode(ns[i])] \in Seq(Facts)
  BY <1>2, <1>3, <1>4
<1> QED
  BY <1>5 DEF BuildPayload, NoPayload

LEMMA NoPayloadType ==
  /\ DOMAIN NoPayload = {"nodes", "pods", "events", "actions", "blocks"}
  /\ NoPayload.nodes = <<>> /\ NoPayload.actions = <<>> /\ NoPayload.blocks = NoBlocks
  /\ NoPayload.nodes \in Seq(Facts) /\ NoPayload.actions \in Seq(Reports)
  /\ NoBlocks \in [Blocks -> Sizes]
BY DEF NoPayload, NoBlocks, Sizes

\* What is cached, stored and read for a payload keeps its type, and no pass
\* has two reports about one target.
THEOREM TypeCorrect == Spec => []TypeOK
<1>1. Init => TypeOK
  <2>1. IsFiniteSet(DOMAIN <<>>) /\ DOMAIN <<>> = {} /\ <<>> \in Seq(Reports)
    BY FS_EmptySet
  <2> QED
    BY <2>1, NoPayloadType, Zenon DEF Init, TypeOK
<1>2. ASSUME TypeOK, [Next]_vars PROVE TypeOK'
  <2>1. CASE Observe
    <3>1. UNCHANGED <<store, blocks, pc, payload>>
      BY <2>1 DEF Observe, Changed, stores, flush
    <3>2. /\ IsFiniteSet(DOMAIN nodes') /\ DOMAIN nodes' \subseteq Nodes
          /\ \A n \in DOMAIN nodes' : nodes'[n] \in NodeStates
      <4>1. CASE UNCHANGED nodes
        BY <1>2, <4>1 DEF TypeOK
      <4>2. ASSUME NEW n \in Nodes, NEW v \in NodeStates, nodes' = Cached(nodes, n, v)
            PROVE  /\ IsFiniteSet(DOMAIN nodes') /\ DOMAIN nodes' \subseteq Nodes
                   /\ \A x \in DOMAIN nodes' : nodes'[x] \in NodeStates
        <5>1. /\ DOMAIN nodes' = DOMAIN nodes \cup {n}
              /\ \A x \in DOMAIN nodes' : nodes'[x] = IF x = n THEN v ELSE nodes[x]
          BY <4>2 DEF Cached
        <5>2. IsFiniteSet(DOMAIN nodes \cup {n})
          BY <1>2, FS_AddElement DEF TypeOK
        <5> QED
          BY <1>2, <5>1, <5>2 DEF TypeOK
      <4>3. ASSUME NEW n \in DOMAIN nodes, nodes' = Dropped(nodes, n)
            PROVE  /\ IsFiniteSet(DOMAIN nodes') /\ DOMAIN nodes' \subseteq Nodes
                   /\ \A x \in DOMAIN nodes' : nodes'[x] \in NodeStates
        <5>1. /\ DOMAIN nodes' = DOMAIN nodes \ {n}
              /\ \A x \in DOMAIN nodes' : nodes'[x] = nodes[x]
          BY <4>3 DEF Dropped
        <5>2. IsFiniteSet(DOMAIN nodes \ {n})
          BY <1>2, FS_RemoveElement DEF TypeOK
        <5> QED
          BY <1>2, <5>1, <5>2 DEF TypeOK
      <4> QED
        BY <2>1, <4>1, <4>2, <4>3 DEF Observe
    <3> QED
      BY <1>2, <3>1, <3>2 DEF TypeOK
  <2>2. CASE Upsert \/ Clear \/ Prune
    <3>1. store' \in Seq(Reports) /\ Distinct(store')
      BY <1>2, <2>2, CallFollows DEF Follows
    <3> QED
      BY <1>2, <2>2, <3>1, CallFollows DEF TypeOK, Distinct
  <2>3. CASE SetBlock
    <3>1. blocks' \in [Blocks -> Sizes]
      BY <1>2, <2>3, BeatAssumption DEF SetBlock, TypeOK, Sizes
    <3> QED
      BY <1>2, <2>3, <3>1 DEF TypeOK, SetBlock, Changed, caches, flush
  <2>4. CASE ReadCaches
    <3>1. PICK ns \in Lists(CachedNodes), es \in Lists(CachedEvents) :
            payload' = BuildPayload(ns, es)
      BY <2>4 DEF ReadCaches
    <3>2. <<>> \in Seq(Reports)
      OBVIOUS
    <3> QED
      BY <1>2, <2>4, <3>1, <3>2, BuiltType DEF TypeOK, ReadCaches, caches, stores
  <2>5. CASE ReadActions
    <3>1. /\ DOMAIN payload' = DOMAIN payload /\ payload'.nodes = payload.nodes
          /\ payload'.actions = store
      BY <1>2, <2>5 DEF TypeOK, ReadActions
    <3> QED
      BY <1>2, <2>5, <3>1 DEF TypeOK, ReadActions, caches, stores
  <2>6. CASE Enqueue
    BY <1>2, <2>6, NoPayloadType DEF TypeOK, Enqueue, caches, stores
  <2>7. CASE Restart
    <3>1. <<>> \in Seq(Reports) /\ DOMAIN <<>> = {}
      OBVIOUS
    <3> QED
      BY <1>2, <2>7, <3>1, NoPayloadType DEF TypeOK, Restart, caches
  <2>8. CASE (\E o \in Owners : Notify(o)) \/ Take \/ PublishOK \/ PublishFails \/ UNCHANGED vars
    BY <1>2, <2>8 DEF TypeOK, Notify, Take, PublishOK, PublishFails, vars, caches, stores, flush
  <2> QED
    BY <1>2, <2>1, <2>2, <2>3, <2>4, <2>5, <2>6, <2>7, <2>8 DEF Next
<1> QED
  BY <1>1, <1>2, PTL DEF Spec

-----------------------------------------------------------------------------
(* No heartbeat is rejected.                                                  *)

LEMMA NoPayloadAccepted == HeartbeatSchema(NoPayload)
<1>1. Len(<<>>) = 0 /\ DOMAIN <<>> = {}
  OBVIOUS
<1> QED
  BY <1>1, CapAssumption, NoPayloadType DEF HeartbeatSchema, NoBlocks, Absent

LEMMA BoundsInductive ==
  ASSUME TypeOK, WithinBounds, [Next]_vars
  PROVE  WithinBounds'
<1>1. CASE Enqueue
  <2> DEFINE p == [payload EXCEPT !.blocks = blocks]
  <2>1. /\ DOMAIN p = {"nodes", "pods", "events", "actions", "blocks"}
        /\ p.nodes = payload.nodes /\ p.actions = payload.actions /\ p.blocks = blocks
    BY DEF TypeOK
  <2>2. built' = ApplyCaps(p) /\ hand' = hand
    BY <1>1 DEF Enqueue
  <2> HIDE DEF p
  <2>3. HeartbeatSchema(ApplyCaps(p))
    BY <2>1, CappedIsAccepted DEF TypeOK
  <2> QED
    BY <2>2, <2>3 DEF WithinBounds
<1>2. CASE Take
  BY <1>2 DEF Take, WithinBounds
<1>3. CASE PublishOK \/ PublishFails
  <2>1. built' = built /\ hand' = {}
    BY <1>3 DEF PublishOK, PublishFails
  <2> QED
    BY <2>1 DEF WithinBounds
<1>4. CASE Restart
  BY <1>4, NoPayloadAccepted DEF Restart, WithinBounds
<1>5. CASE UNCHANGED <<built, hand>>
  BY <1>5 DEF WithinBounds
<1> QED
  BY <1>1, <1>2, <1>3, <1>4, <1>5
     DEF Next, vars, sender, Observe, Changed, Upsert, Clear, Prune, Call, SetBlock, Notify,
         ReadCaches, ReadActions

\* No heartbeat is ever rejected for what it carries, however long the lists in the
\* stores, however large the revisions, and whatever targets are reported
\* (payload.go:329).
THEOREM HeartbeatsAreAccepted == Spec => []NeverRejected
<1>1. Init => WithinBounds
  BY NoPayloadAccepted DEF Init, WithinBounds
<1>2. TypeOK /\ WithinBounds /\ [Next]_vars => WithinBounds'
  BY BoundsInductive
<1>3. WithinBounds => NeverRejected
  BY DEF WithinBounds, NeverRejected
<1> QED
  BY <1>1, <1>2, <1>3, TypeCorrect, PTL DEF Spec

-----------------------------------------------------------------------------
(* Reports stay.                                                              *)

LEMMA ShippedIsCapped ==
  ASSUME NEW list \in Seq(Reports)
  PROVE  KeysIn(CapActions(list)) = Shipped(list)
BY CapFacts DEF Shipped

LEMMA FirstInductive ==
  ASSUME TypeOK, StillFirst, [Next]_vars
  PROVE  StillFirst'
<1> DEFINE Last == IF pc = "blocks" THEN CapActions(payload.actions) ELSE built.actions
<1>1. KeysIn(Last) \ removed \subseteq Shipped(store)
  BY ShippedIsCapped DEF StillFirst, TypeOK
<1>2. CASE Upsert \/ Clear \/ Prune
  <2>1. /\ Follows(store', store) /\ Last' = Last
        /\ removed' = removed \cup (KeysIn(store) \ KeysIn(store'))
    BY <1>2, CallFollows
  <2>2. Shipped(store) \subseteq KeysIn(store)
    BY DEF Shipped, Named, KeysIn
  <2>3. KeysIn(Last') \ removed' \subseteq Shipped(store')
    BY <1>1, <2>1, <2>2 DEF Follows
  <2>4. KeysIn(CapActions(store')) = Shipped(store')
    BY <2>1, ShippedIsCapped DEF Follows
  <2> QED
    BY <2>3, <2>4 DEF StillFirst, KeysIn
<1>3. CASE ReadActions
  <2>1. pc' = "blocks" /\ payload'.actions = store /\ store' = store
    BY <1>3 DEF ReadActions, stores, TypeOK
  <2> QED
    BY <2>1 DEF StillFirst, KeysIn
<1>4. CASE Enqueue
  <2> DEFINE p == [payload EXCEPT !.blocks = blocks]
  <2>1. /\ DOMAIN p = {"nodes", "pods", "events", "actions", "blocks"}
        /\ p.nodes = payload.nodes /\ p.actions = payload.actions /\ p.blocks = blocks
    BY DEF TypeOK
  <2>2. /\ pc = "blocks" /\ pc' = "idle" /\ built' = ApplyCaps(p)
        /\ UNCHANGED <<store, removed>>
    BY <1>4 DEF Enqueue, stores
  <2> HIDE DEF p
  <2>3. built'.actions = CapActions(payload.actions)
    BY <2>1, <2>2, CappedIsAccepted DEF TypeOK
  <2> QED
    BY <2>2, <2>3 DEF StillFirst, KeysIn
<1>5. CASE Restart
  <2>1. pc' = "idle" /\ built'.actions = <<>>
    BY <1>5, NoPayloadType DEF Restart
  <2>2. KeysIn(<<>>) = {}
    BY DEF KeysIn
  <2> QED
    BY <2>1, <2>2 DEF StillFirst, KeysIn
<1>6. CASE ReadCaches
  <2>1. pc = "idle" /\ pc' = "actions" /\ UNCHANGED <<built, store, removed>>
    BY <1>6 DEF ReadCaches, stores, sender
  <2> QED
    BY <2>1 DEF StillFirst, KeysIn
<1>7. CASE UNCHANGED <<pc, payload, built, store, removed>>
  BY <1>7 DEF StillFirst, KeysIn
<1> QED
  BY <1>2, <1>3, <1>4, <1>5, <1>6, <1>7
     DEF Next, vars, stores, flush, sender, Observe, Changed, SetBlock, Notify, Take,
         PublishOK, PublishFails

\* A report that was in a heartbeat and is still in the store is in the next one,
\* whatever is reported in between and whatever is pruned (store.go:7).
THEOREM ReportsKeepTheirPlace == Spec => ReportsStay
<1> DEFINE Stay == pc = "actions" /\ pc' = "blocks"
                     => KeysIn(built.actions) \ removed
                          \subseteq KeysIn(ApplyCaps(payload').actions)
<1>1. Init => StillFirst
  <2>1. KeysIn(<<>>) = {}
    BY DEF KeysIn
  <2> QED
    BY <2>1, NoPayloadType DEF Init, StillFirst
<1>2. TypeOK /\ StillFirst /\ [Next]_vars => StillFirst'
  BY FirstInductive
<1>3. ASSUME TypeOK, StillFirst, [Next]_vars PROVE [Stay]_vars
  <2> SUFFICES ASSUME pc = "actions", pc' = "blocks" PROVE Stay
    OBVIOUS
  <2>1. ReadActions
    BY <1>3 DEF Next, vars, flush, Observe, Changed, Upsert, Clear, Prune, Call, SetBlock, Notify,
                ReadCaches, Enqueue, Take, PublishOK, PublishFails, Restart
  <2>2. payload' = [payload EXCEPT !.actions = store]
    BY <2>1 DEF ReadActions
  <2>3. payload'.actions = store /\ DOMAIN payload' = DOMAIN payload
    BY <1>3, <2>2 DEF TypeOK
  <2>4. ApplyCaps(payload').actions = CapActions(store)
    BY <1>3, <2>3 DEF ApplyCaps, TypeOK
  <2>5. KeysIn(built.actions) \ removed \subseteq KeysIn(CapActions(store))
    BY <1>3 DEF StillFirst
  <2> QED
    BY <2>4, <2>5
<1> QED
  BY <1>1, <1>2, <1>3, TypeCorrect, PTL DEF Spec, ReportsStay

-----------------------------------------------------------------------------
(* When everybody rests the server holds the present payload.                 *)

Fields == {"nodes", "pods", "events", "actions", "blocks"}

\* What the owners' steps leave alone, and whom they owe a notification.
LEMMA OwnerStep ==
  ASSUME Observe \/ Upsert \/ Clear \/ Prune \/ SetBlock
  PROVE  /\ UNCHANGED <<signalled, pc, payload, built, slot, hand, same, shown>>
         /\ owed \subseteq owed'
         /\ "informers" \in owed' \/ UNCHANGED caches
         /\ "executor" \in owed' \/ UNCHANGED store
         /\ \A b \in Blocks : b \in owed' \/ blocks'[b] = blocks[b]
<1>1. CASE Observe
  BY <1>1 DEF Observe, Changed, stores, flush, sender
<1>2. CASE Upsert \/ Clear \/ Prune
  <2>1. PICK items : Call(items)
    BY <1>2 DEF Upsert, Clear, Prune
  <2>2. /\ store' = items /\ owed' = IF items # store THEN owed \cup {"executor"} ELSE owed
        /\ UNCHANGED <<caches, blocks, signalled, flush, sender>>
    BY <2>1 DEF Call, Changed, Visible
  <2> QED
    BY <2>2 DEF flush, sender
<1>3. CASE SetBlock
  <2>1. PICK b \in Blocks : /\ \E n : blocks' = [blocks EXCEPT ![b] = n]
                            /\ Changed(b, TRUE) /\ UNCHANGED <<caches, store>>
    BY <1>3 DEF SetBlock
  <2>2. \A k \in Blocks : k = b \/ blocks'[k] = blocks[k]
    BY <2>1
  <2> QED
    BY <2>1, <2>2 DEF Changed, flush, sender
<1> QED
  BY <1>1, <1>2, <1>3

\* The other steps, but those of the flush and of a restart.
LEMMA OtherStep ==
  ASSUME [Next]_vars
  PROVE  \/ Observe \/ Upsert \/ Clear \/ Prune \/ SetBlock
         \/ ReadCaches \/ ReadActions \/ Enqueue \/ Restart
         \/ signalled' = TRUE /\ UNCHANGED <<caches, stores, flush, sender>>
         \/ /\ Take \/ PublishOK \/ PublishFails \/ UNCHANGED sender
            /\ UNCHANGED <<caches, stores, owed, signalled, flush, built>>
<1>1. ASSUME NEW o \in Owners, Notify(o)
      PROVE  signalled' = TRUE /\ UNCHANGED <<caches, stores, flush, sender>>
  BY <1>1 DEF Notify
<1>2. CASE Take \/ PublishOK \/ PublishFails
  BY <1>2 DEF Take, PublishOK, PublishFails
<1>3. CASE UNCHANGED vars
  BY <1>3 DEF vars, sender
<1> QED
  BY <1>1, <1>2, <1>3 DEF Next

\* The caps only look at the facts of a payload to make its facts.
LEMMA FactsCapped ==
  ASSUME NEW p, NEW q, DOMAIN p = Fields, DOMAIN q = Fields, SameFacts(p, q)
  PROVE  SameFacts(ApplyCaps(p), ApplyCaps(q))
BY DEF ApplyCaps, SameFacts, Fields

\* What a flush would make of caches that stay does not change.
LEMMA CachesKept ==
  ASSUME UNCHANGED caches
  PROVE  /\ CachedNodes' = CachedNodes /\ CachedEvents' = CachedEvents
         /\ \A ns, es : BuildPayload(ns, es)' = BuildPayload(ns, es)
BY DEF caches, CachedNodes, CachedEvents, CachedPods, BuildPayload

LEMMA FactsInductive ==
  ASSUME TypeOK, FactsDue, [Next]_vars
  PROVE  FactsDue'
<1> SUFFICES ASSUME ~signalled', "informers" \notin owed'
             PROVE  \E ns \in Lists(CachedNodes'), es \in Lists(CachedEvents') :
                      IF pc' = "idle" THEN SameFacts(built', ApplyCaps(BuildPayload(ns, es)'))
                      ELSE SameFacts(payload', BuildPayload(ns, es)')
  BY DEF FactsDue, SameFacts
<1>1. ASSUME UNCHANGED <<caches, signalled, pc, payload, built>>, owed \subseteq owed'
      PROVE  \E ns \in Lists(CachedNodes'), es \in Lists(CachedEvents') :
               IF pc' = "idle" THEN SameFacts(built', ApplyCaps(BuildPayload(ns, es)'))
               ELSE SameFacts(payload', BuildPayload(ns, es)')
  <2>1. PICK ns \in Lists(CachedNodes), es \in Lists(CachedEvents) :
          IF pc = "idle" THEN SameFacts(built, ApplyCaps(BuildPayload(ns, es)))
          ELSE SameFacts(payload, BuildPayload(ns, es))
    BY <1>1 DEF FactsDue
  <2>2. /\ CachedNodes' = CachedNodes /\ CachedEvents' = CachedEvents
        /\ BuildPayload(ns, es)' = BuildPayload(ns, es)
    BY <1>1, CachesKept
  <2> QED
    BY <1>1, <2>1, <2>2
<1>2. CASE Observe \/ Upsert \/ Clear \/ Prune \/ SetBlock
  BY <1>1, <1>2, OwnerStep
<1>3. CASE UNCHANGED <<caches, stores, owed, signalled, flush, built>>
  BY <1>1, <1>3 DEF flush
<1>4. CASE ReadCaches
  <2>1. PICK ns \in Lists(CachedNodes), es \in Lists(CachedEvents) :
          payload' = BuildPayload(ns, es)
    BY <1>4 DEF ReadCaches
  <2>2. pc' = "actions" /\ UNCHANGED caches
    BY <1>4 DEF ReadCaches
  <2>3. /\ CachedNodes' = CachedNodes /\ CachedEvents' = CachedEvents
        /\ BuildPayload(ns, es)' = BuildPayload(ns, es)
    BY <2>2, CachesKept
  <2>4. SameFacts(payload', BuildPayload(ns, es)')
    BY <2>1, <2>3 DEF SameFacts
  <2> QED
    BY <2>2, <2>3, <2>4
<1>5. CASE ReadActions
  <2>1. /\ pc = "actions" /\ pc' = "blocks" /\ UNCHANGED <<caches, signalled, owed>>
        /\ payload' = [payload EXCEPT !.actions = store]
    BY <1>5 DEF ReadActions
  <2>2. PICK ns \in Lists(CachedNodes), es \in Lists(CachedEvents) :
          SameFacts(payload, BuildPayload(ns, es))
    BY <2>1 DEF FactsDue
  <2>3. /\ CachedNodes' = CachedNodes /\ CachedEvents' = CachedEvents
        /\ BuildPayload(ns, es)' = BuildPayload(ns, es)
    BY <2>1, CachesKept
  <2>4. SameFacts(payload', BuildPayload(ns, es)')
    BY <2>1, <2>2, <2>3 DEF SameFacts, TypeOK
  <2> QED
    BY <2>1, <2>3, <2>4
<1>6. CASE Enqueue
  <2> DEFINE p == [payload EXCEPT !.blocks = blocks]
  <2>1. pc = "blocks" /\ pc' = "idle" /\ built' = ApplyCaps(p) /\ UNCHANGED <<caches, signalled, owed>>
    BY <1>6 DEF Enqueue
  <2>2. PICK ns \in Lists(CachedNodes), es \in Lists(CachedEvents) :
          SameFacts(payload, BuildPayload(ns, es))
    BY <2>1 DEF FactsDue
  <2>3. DOMAIN p = Fields /\ SameFacts(p, BuildPayload(ns, es))
    BY <2>2 DEF SameFacts, TypeOK, Fields
  <2>4. DOMAIN BuildPayload(ns, es) = Fields
    BY BuiltType DEF Fields
  <2>5. /\ CachedNodes' = CachedNodes /\ CachedEvents' = CachedEvents
        /\ BuildPayload(ns, es)' = BuildPayload(ns, es)
    BY <2>1, CachesKept
  <2> HIDE DEF p
  <2>6. SameFacts(built', ApplyCaps(BuildPayload(ns, es)'))
    <3>1. SameFacts(ApplyCaps(p), ApplyCaps(BuildPayload(ns, es)))
      BY <2>3, <2>4, FactsCapped
    <3> QED
      BY <2>1, <2>5, <3>1 DEF SameFacts
  <2> QED
    BY <2>1, <2>5, <2>6
<1>7. CASE Restart \/ signalled' = TRUE
  BY <1>7 DEF Restart
<1> QED
  BY <1>2, <1>3, <1>4, <1>5, <1>6, <1>7, OtherStep

LEMMA StoresInductive ==
  ASSUME TypeOK, ActionsDue, BlocksDue, [Next]_vars
  PROVE  ActionsDue' /\ BlocksDue'
<1>1. CASE Observe \/ Upsert \/ Clear \/ Prune \/ SetBlock
  BY <1>1, OwnerStep DEF ActionsDue, BlocksDue
<1>2. CASE UNCHANGED <<caches, stores, owed, signalled, flush, built>>
  BY <1>2 DEF ActionsDue, BlocksDue, stores, flush
<1>3. CASE ReadCaches
  BY <1>3 DEF ReadCaches, ActionsDue, BlocksDue
<1>4. CASE ReadActions
  BY <1>4 DEF ReadActions, stores, ActionsDue, BlocksDue, TypeOK
<1>5. CASE Enqueue
  <2> DEFINE p == [payload EXCEPT !.blocks = blocks]
  <2>1. /\ DOMAIN p = Fields /\ p.actions = payload.actions /\ p.blocks = blocks
    BY DEF TypeOK, Fields
  <2>2. /\ pc = "blocks" /\ pc' = "idle" /\ built' = ApplyCaps(p)
        /\ UNCHANGED <<store, blocks, signalled, owed>>
    BY <1>5 DEF Enqueue, stores
  <2> HIDE DEF p
  <2>3. /\ built'.actions = CapActions(payload.actions)
        /\ built'.blocks = [b \in DOMAIN blocks |-> CapEntries(blocks[b])]
    BY <2>1, <2>2 DEF ApplyCaps, Fields
  <2>4. ActionsDue'
    BY <2>2, <2>3 DEF ActionsDue
  <2>5. BlocksDue'
    BY <2>2, <2>3 DEF BlocksDue, TypeOK
  <2> QED
    BY <2>4, <2>5
<1>6. CASE Restart \/ signalled' = TRUE
  BY <1>6 DEF Restart, ActionsDue, BlocksDue
<1> QED
  BY <1>1, <1>2, <1>3, <1>4, <1>5, <1>6, OtherStep

LEMMA DeliveredInductive ==
  ASSUME TypeOK, Delivered, [Next]_vars
  PROVE  Delivered'
<1>1. CASE Observe \/ Upsert \/ Clear \/ Prune \/ SetBlock
  BY <1>1, OwnerStep DEF Delivered
<1>2. CASE ReadCaches \/ ReadActions \/ Enqueue
  BY <1>2 DEF ReadCaches, ReadActions, Enqueue, sender, Delivered
<1>3. CASE Restart
  BY <1>3 DEF Restart, Delivered
<1>4. CASE signalled' = TRUE /\ UNCHANGED sender
  BY <1>4 DEF sender, Delivered
<1>5. CASE Take
  BY <1>5 DEF Take, flush, Delivered
<1>6. CASE PublishOK
  <2>1. PICK p \in hand : shown' = p
    BY <1>6 DEF PublishOK
  <2>2. /\ hand' = {} /\ same' = FALSE /\ slot' = (slot /\ ~same)
        /\ UNCHANGED <<signalled, pc, built>>
    BY <1>6 DEF PublishOK, flush
  <2>3. same => shown' = built
    BY <2>1 DEF Delivered
  <2>4. slot
    BY <2>1 DEF Delivered
  <2> QED
    BY <2>2, <2>3, <2>4 DEF Delivered
<1>7. CASE PublishFails
  <2>1. hand # {} /\ hand' = {} /\ same' = FALSE /\ UNCHANGED slot
    BY <1>7 DEF PublishFails
  <2> QED
    BY <2>1 DEF Delivered
<1>8. CASE UNCHANGED <<signalled, pc, built>> /\ UNCHANGED sender
  BY <1>8 DEF sender, Delivered
<1> QED
  BY <1>1, <1>2, <1>3, <1>4, <1>5, <1>6, <1>7, <1>8, OtherStep DEF flush

\* When everybody rests, the server persists what a flush makes of the present caches
\* and stores: nothing that changed while a flush read them one after the other is
\* missed, and no lost, repeated or overtaken push and no restart leaves the server
\* with an older picture.
THEOREM RestingServerIsPresent == Spec => []RestIsPresent
<1>1. Init => FactsDue /\ ActionsDue /\ BlocksDue /\ Delivered
  BY DEF Init, FactsDue, ActionsDue, BlocksDue, Delivered
<1>2. FactsDue /\ ActionsDue /\ BlocksDue /\ Delivered => RestIsPresent
  <2> SUFFICES ASSUME FactsDue, ActionsDue, BlocksDue, Delivered,
                      owed = {}, ~signalled, pc = "idle", ~slot
               PROVE  PresentPayload(shown)
    BY DEF RestIsPresent
  <2>1. shown = built
    BY DEF Delivered
  <2>2. \E ns \in Lists(CachedNodes), es \in Lists(CachedEvents) :
          SameFacts(shown, ApplyCaps(BuildPayload(ns, es)))
    BY <2>1 DEF FactsDue
  <2>3. shown.actions = CapActions(store)
    BY <2>1 DEF ActionsDue
  <2>4. \A b \in Blocks : shown.blocks[b] = CapEntries(blocks[b])
    BY <2>1 DEF BlocksDue
  <2> QED
    BY <2>2, <2>3, <2>4 DEF PresentPayload
<1>3. TypeOK /\ FactsDue /\ ActionsDue /\ BlocksDue /\ Delivered /\ [Next]_vars
        => FactsDue' /\ ActionsDue' /\ BlocksDue' /\ Delivered'
  BY FactsInductive, StoresInductive, DeliveredInductive
<1> QED
  BY <1>1, <1>2, <1>3, TypeCorrect, PTL DEF Spec
=============================================================================
