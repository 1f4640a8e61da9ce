-------------------------- MODULE FastScheduler_proofs --------------------------
(***************************************************************************)
(* Theorems about the fast scheduler: its buckets, positions and proven     *)
(* prefixes describe each other, a scan hands out the best account, and     *)
(* what it does is what SchedulerIndex promises to the account pool.  They  *)
(* rest on what sorting returns, on what every operation on the filing      *)
(* keeps, and on the round-robin visiting every entry of its range.         *)
(***************************************************************************)
EXTENDS FastScheduler, SequenceTheorems, FiniteSetTheorems, NaturalsInduction, TLAPS

-----------------------------------------------------------------------------
(* Sorting.  A sequence of entries of different accounts has exactly one    *)
(* order: an entry's place is given by how many others go before it.        *)

EntryRec == [id : Ids, score : Int, proven : BOOLEAN]

OneEach(s) == \A i, j \in DOMAIN s : s[i].id = s[j].id => i = j

InOrder(s) == \A i, j \in DOMAIN s : i < j => Before(s[i], s[j])

SameEntries(s, t) == /\ \A i \in DOMAIN t : \E j \in DOMAIN s : t[i] = s[j]
                     /\ \A j \in DOMAIN s : \E i \in DOMAIN t : t[i] = s[j]

\* Before is a strict order, and total on the entries of different accounts.
LEMMA BeforeOrder ==
    /\ \A e \in EntryRec : ~Before(e, e)
    /\ \A e, f \in EntryRec : e.id # f.id => Before(e, f) \/ Before(f, e)
    /\ \A e, f \in EntryRec : ~(Before(e, f) /\ Before(f, e))
    /\ \A e, f, g \in EntryRec : Before(e, f) /\ Before(f, g) => Before(e, g)
  <1>1. \A e \in EntryRec : e.id \in Int /\ e.score \in Int /\ e.proven \in BOOLEAN
    <2> TAKE e \in EntryRec
    <2>1. e.id \in Ids /\ e.score \in Int /\ e.proven \in BOOLEAN
      BY DEF EntryRec
    <2>2. \A a \in Ids : a \in Int
      BY IdsAssumption
    <2> QED  BY <2>1, <2>2, Zenon
  <1> QED  BY <1>1, SMT DEF Before

\* The number of entries before one gives each a place of its own, and every place is taken.
LEMMA SortedSorts ==
    ASSUME NEW s \in Seq(EntryRec), OneEach(s)
    PROVE  /\ Sorted(s) \in Seq(EntryRec) /\ Len(Sorted(s)) = Len(s)
           /\ InOrder(Sorted(s)) /\ OneEach(Sorted(s)) /\ SameEntries(s, Sorted(s))
  <1> DEFINE D == DOMAIN s
             ahead(i) == {j \in D : \/ Before(s[j], s[i])
                                    \/ ~Before(s[i], s[j]) /\ j < i}
             rank == [i \in D |-> Cardinality(ahead(i)) + 1]
             Places(t) == \A i \in D : t[Cardinality(ahead(i)) + 1] = s[i]
  <1>1. D = 1..Len(s) /\ Len(s) \in Nat /\ \A i \in D : s[i] \in EntryRec
    OBVIOUS
  <1>2. IsFiniteSet(D) /\ Cardinality(D) = Len(s)
    BY <1>1, FS_Interval
  <1>3. \A i \in D : ahead(i) = {j \in D : Before(s[j], s[i])}
    <2> TAKE i \in D
    <2> SUFFICES ASSUME NEW j \in D
                 PROVE  ~Before(s[i], s[j]) /\ j < i => Before(s[j], s[i])
      OBVIOUS
    <2>1. j < i => s[i].id # s[j].id
      BY <1>1 DEF OneEach
    <2> QED  BY <2>1, <1>1, BeforeOrder
  <1> HIDE DEF ahead
  <1>4. \A i \in D : /\ IsFiniteSet(ahead(i)) /\ Cardinality(ahead(i)) \in Nat
                     /\ Cardinality(ahead(i)) < Len(s)
    <2> TAKE i \in D
    <2>1. ahead(i) \in SUBSET D /\ i \notin ahead(i)
      BY <1>1, <1>3, BeforeOrder
    <2>2. IsFiniteSet(ahead(i)) /\ Cardinality(ahead(i)) <= Len(s) /\ Cardinality(ahead(i)) # Len(s)
      BY ONLY <2>1, <1>2, FS_Subset
    <2>3. Cardinality(ahead(i)) \in Nat
      BY <2>2, FS_CardinalityType
    <2> QED  BY <2>2, <2>3, <1>1
  <1>5. rank \in [D -> D]
    <2>1. \A i \in D : Cardinality(ahead(i)) + 1 \in D
      BY <1>1, <1>4
    <2> QED  BY <2>1
  <1>6. \A i, j \in D : Before(s[i], s[j]) => rank[i] < rank[j]
    <2> SUFFICES ASSUME NEW i \in D, NEW j \in D, Before(s[i], s[j]) PROVE rank[i] < rank[j]
      OBVIOUS
    <2>1. ahead(i) \in SUBSET ahead(j)
      BY <1>1, <1>3, BeforeOrder
    <2>2. i \in ahead(j) /\ i \notin ahead(i)
      BY <1>1, <1>3, BeforeOrder
    <2>3. Cardinality(ahead(i)) <= Cardinality(ahead(j)) /\ Cardinality(ahead(i)) # Cardinality(ahead(j))
      BY ONLY <2>1, <2>2, <1>4, FS_Subset
    <2>4. rank[i] = Cardinality(ahead(i)) + 1 /\ rank[j] = Cardinality(ahead(j)) + 1
      OBVIOUS
    <2> QED  BY <2>3, <2>4, <1>4
  <1>7. \A i \in D : rank[i] = Cardinality(ahead(i)) + 1
    OBVIOUS
  <1> HIDE DEF rank
  <1>8. \A i, j \in D : rank[i] < rank[j] => i # j /\ Before(s[i], s[j])
    <2> SUFFICES ASSUME NEW i \in D, NEW j \in D, rank[i] < rank[j]
                 PROVE  i # j /\ Before(s[i], s[j])
      OBVIOUS
    <2>1. rank[i] \in Int /\ rank[j] \in Int
      BY <1>1, <1>5
    <2>2. i # j /\ ~Before(s[j], s[i])
      BY <2>1, <1>6
    <2>3. s[i].id # s[j].id
      BY <2>2 DEF OneEach
    <2> QED  BY <2>2, <2>3, <1>1, BeforeOrder
  <1>9. \A i, j \in D : rank[i] = rank[j] => i = j
    <2> SUFFICES ASSUME NEW i \in D, NEW j \in D, i # j PROVE rank[i] # rank[j]
      OBVIOUS
    <2>1. s[i].id # s[j].id
      BY DEF OneEach
    <2>2. Before(s[i], s[j]) \/ Before(s[j], s[i])
      BY <2>1, <1>1, BeforeOrder
    <2>3. rank[i] \in Int /\ rank[j] \in Int
      BY <1>5, <1>1
    <2> QED  BY <2>2, <2>3, <1>6
  <1>10. \A k \in D : \E i \in D : rank[i] = k
    <2>1. rank \in Injection(D, D)
      BY <1>5, <1>9 DEF Injection, IsInjective
    <2>2. rank \in Surjection(D, D)
      BY ONLY <2>1, <1>2, FS_Injection
    <2> QED  BY <2>2 DEF Surjection
  <1> DEFINE back == [k \in D |-> CHOOSE i \in D : rank[i] = k]
  <1>11. back \in [D -> D] /\ \A k \in D : rank[back[k]] = k
    BY <1>10
  <1> HIDE DEF back
  <1>12. \E t \in [D -> Range(s)] : Places(t)
    <2>1. [k \in D |-> s[back[k]]] \in [D -> Range(s)]
      BY <1>11 DEF Range
    <2>2. \A i \in D : back[rank[i]] = i /\ rank[i] \in D
      BY <1>5, <1>9, <1>11
    <2>3. Places([k \in D |-> s[back[k]]])
      BY <2>2, <1>7
    <2> QED  BY <2>1, <2>3
  <1>13. Sorted(s) \in [D -> Range(s)] /\ Places(Sorted(s))
    <2>1. Sorted(s) = CHOOSE t \in [D -> Range(s)] : Places(t)
      BY DEF Sorted, ahead
    <2> QED  BY <2>1, <1>12
  <1>14. \A i \in D : Sorted(s)[rank[i]] = s[i]
    BY <1>7, <1>13
  <1>15. \A k \in D : back[k] \in D /\ rank[back[k]] = k /\ Sorted(s)[k] = s[back[k]]
    BY <1>11, <1>14
  <1>16. Sorted(s) \in Seq(EntryRec) /\ Len(Sorted(s)) = Len(s) /\ DOMAIN Sorted(s) = D
    <2>1. Sorted(s) \in [1..Len(s) -> EntryRec]
      BY <1>1, <1>13 DEF Range
    <2> QED  BY <2>1, <1>1
  <1>17. SameEntries(s, Sorted(s))
    BY <1>5, <1>14, <1>15, <1>16 DEF SameEntries
  <1>18. InOrder(Sorted(s))
    <2> SUFFICES ASSUME NEW i \in D, NEW j \in D, i < j PROVE Before(Sorted(s)[i], Sorted(s)[j])
      BY <1>16 DEF InOrder
    <2>1. rank[back[i]] < rank[back[j]] /\ back[i] \in D /\ back[j] \in D
      BY <1>15
    <2> QED  BY <2>1, <1>8, <1>15
  <1>19. OneEach(Sorted(s))
    <2> SUFFICES ASSUME NEW i \in D, NEW j \in D, Sorted(s)[i].id = Sorted(s)[j].id PROVE i = j
      BY <1>16 DEF OneEach
    <2>1. back[i] = back[j]
      BY <1>15 DEF OneEach
    <2> QED  BY <2>1, <1>15
  <1> QED  BY <1>16, <1>17, <1>18, <1>19

-----------------------------------------------------------------------------
(* Filing.  What the operators on a scheduler's record keep. *)

PlaceRec == {NoPosition} \cup [tier : BucketTiers, index : Nat \ {0}]

FilingRec == [buckets : [BucketTiers -> Seq(EntryRec)], positions : [Ids -> PlaceRec],
              bounds : [BucketTiers -> Nat]]

\* A bucket is in order, its bound is that of its proven entries, and its entries know their place.
TierFiled(s, t) ==
    /\ InOrder(s.buckets[t])
    /\ \A i \in DOMAIN s.buckets[t] : s.buckets[t][i].proven <=> i <= s.bounds[t]
    /\ s.bounds[t] <= Len(s.buckets[t])
    /\ \A i \in DOMAIN s.buckets[t] :
          s.positions[s.buckets[t][i].id] = [tier |-> t, index |-> i]

\* A place is that of an entry of the account.
PlaceHeld(s, a) ==
    s.positions[a] # NoPosition =>
        /\ s.positions[a].index \in DOMAIN s.buckets[s.positions[a].tier]
        /\ s.buckets[s.positions[a].tier][s.positions[a].index].id = a

\* An entry of the account is among them.
Names(es, a) == \E i \in DOMAIN es : es[i].id = a

FiledWell(s) ==
    /\ s \in FilingRec
    /\ \A t \in BucketTiers : TierFiled(s, t)
    /\ \A a \in Ids : PlaceHeld(s, a)

\* A set of naturals that is not empty has a least element.
LEMMA LeastExists ==
    ASSUME NEW S \in SUBSET Nat, S # {}
    PROVE  \E n \in S : \A m \in S : n <= m
  <1> DEFINE below == {p \in Nat \X Nat : p[1] < p[2]}
  <1>1. IsWellFoundedOn(below, Nat)
    BY NatLessThanWellFounded, Zenon DEF OpToRel
  <1>2. PICK x \in S : \A y \in S : <<y, x>> \notin below
    BY ONLY <1>1, S \in SUBSET Nat, S # {}, WFMin
  <1>3. \A y \in S : x <= y
    <2> TAKE y \in S
    <2>1. x \in Nat /\ y \in Nat /\ ~(y < x)
      BY <1>2
    <2> QED  BY <2>1
  <1> QED  BY <1>3

\* In a bucket that is in order the proven entries are the first ones, as many as are counted.
LEMMA CountedFirst ==
    ASSUME NEW es \in Seq(EntryRec), InOrder(es)
    PROVE  /\ countProvenEntries(es) \in 0..Len(es)
           /\ \A i \in DOMAIN es : es[i].proven <=> i <= countProvenEntries(es)
  <1> DEFINE unproven == {i \in DOMAIN es : ~es[i].proven}
  <1>1. DOMAIN es = 1..Len(es) /\ Len(es) \in Nat /\ \A i \in DOMAIN es : es[i] \in EntryRec
    OBVIOUS
  <1>2. \A i \in DOMAIN es : es[i].proven \in BOOLEAN
    BY <1>1 DEF EntryRec
  <1>3. CASE unproven = {}
    <2>1. countProvenEntries(es) = Len(es)
      BY <1>3 DEF countProvenEntries
    <2> QED  BY <1>1, <1>2, <1>3, <2>1
  <1>4. CASE unproven # {}
    <2>1. unproven \in SUBSET Nat
      BY <1>1
    <2>2. \E i \in unproven : \A j \in unproven : i <= j
      BY <2>1, <1>4, LeastExists
    <2> DEFINE first == CHOOSE i \in unproven : \A j \in unproven : i <= j
    <2>3. first \in unproven /\ \A j \in unproven : first <= j
      BY <2>2
    <2>4. countProvenEntries(es) = first - 1
      BY <1>4 DEF countProvenEntries
    <2> HIDE DEF first
    <2>5. \A j \in DOMAIN es : first < j => ~es[j].proven
      BY <2>3 DEF InOrder, Before
    <2>6. \A j \in DOMAIN es : j < first => es[j].proven
      BY <2>3, <1>1, <1>2
    <2>7. first \in 1..Len(es) /\ ~es[first].proven
      BY <2>3, <1>1
    <2>8. first - 1 \in 0..Len(es)
      BY <2>7, <1>1
    <2>9. \A i \in DOMAIN es : es[i].proven <=> i <= first - 1
      <3> TAKE i \in DOMAIN es
      <3>1. i \in Int /\ first \in Int
        BY <1>1, <2>7
      <3>2. CASE i < first
        BY <3>1, <3>2, <2>6
      <3>3. CASE i = first
        BY <3>1, <3>3, <2>7
      <3>4. CASE first < i
        BY <3>1, <3>4, <2>5
      <3> QED  BY <3>1, <3>2, <3>3, <3>4
    <2> QED  BY <2>4, <2>8, <2>9
  <1> QED  BY <1>3, <1>4

\* Replacing one bucket by sorted entries of accounts that are filed nowhere else.
LEMMA BucketReplaced ==
    ASSUME NEW s \in FilingRec, NEW t0 \in BucketTiers, NEW es \in Seq(EntryRec),
           OneEach(es), InOrder(es),
           \A t \in BucketTiers : t # t0 => TierFiled(s, t),
           \A i \in DOMAIN es : s.positions[es[i].id].tier \in {"none", t0},
           \A a \in Ids : s.positions[a].tier # t0 => PlaceHeld(s, a),
           \A a \in Ids : s.positions[a].tier = t0 => Names(es, a)
    PROVE  /\ FiledWell(withBucket(s, t0, es))
           /\ withBucket(s, t0, es).buckets = [s.buckets EXCEPT ![t0] = es]
           /\ \A a \in Ids : withBucket(s, t0, es).positions[a].tier =
                 IF Names(es, a) THEN t0 ELSE s.positions[a].tier
  <1> DEFINE r == withBucket(s, t0, es)
             at(a) == CHOOSE i \in DOMAIN es : es[i].id = a
  <1>1. DOMAIN es = 1..Len(es) /\ Len(es) \in Nat /\ \A i \in DOMAIN es : es[i] \in EntryRec
    OBVIOUS
  <1>2. \A i \in DOMAIN es : es[i].id \in Ids
    BY <1>1 DEF EntryRec
  <1>3. s.buckets \in [BucketTiers -> Seq(EntryRec)] /\ s.positions \in [Ids -> PlaceRec]
        /\ s.bounds \in [BucketTiers -> Nat]
    BY DEF FilingRec
  <1>4. /\ r.buckets = [s.buckets EXCEPT ![t0] = es]
        /\ r.positions = [a \in Ids |-> IF Names(es, a) THEN [tier |-> t0, index |-> at(a)] ELSE s.positions[a]]
        /\ r.bounds = [s.bounds EXCEPT ![t0] = countProvenEntries(es)]
    BY DEF withBucket, Names
  <1>5. \A a \in Ids : Names(es, a) => at(a) \in DOMAIN es /\ es[at(a)].id = a
    BY DEF Names
  <1>6. \A i \in DOMAIN es : at(es[i].id) = i
    BY <1>2, <1>5 DEF OneEach
  <1> HIDE DEF at
  <1>7. \A a \in Ids : Names(es, a) => [tier |-> t0, index |-> at(a)] \in PlaceRec
    <2> SUFFICES ASSUME NEW a \in Ids, Names(es, a) PROVE [tier |-> t0, index |-> at(a)] \in PlaceRec
      OBVIOUS
    <2>1. at(a) \in Nat \ {0}
      BY <1>1, <1>5
    <2> QED  BY <2>1 DEF PlaceRec
  <1>8. r \in FilingRec
    <2>1. r.buckets \in [BucketTiers -> Seq(EntryRec)]
      BY <1>3, <1>4
    <2>2. r.positions \in [Ids -> PlaceRec]
      BY <1>3, <1>4, <1>7
    <2>3. countProvenEntries(es) \in Nat
      BY CountedFirst
    <2>4. r.bounds \in [BucketTiers -> Nat]
      BY <1>3, <1>4, <2>3
    <2>5. r = [buckets |-> r.buckets, positions |-> r.positions, bounds |-> r.bounds]
      BY DEF withBucket
    <2> HIDE DEF r
    <2> QED  BY <2>1, <2>2, <2>4, <2>5 DEF FilingRec
  <1> HIDE DEF r
  <1>9. TierFiled(r, t0)
    <2>1. r.buckets[t0] = es /\ r.bounds[t0] = countProvenEntries(es)
      BY <1>3, <1>4
    <2>2. \A i \in DOMAIN es : r.positions[es[i].id] = [tier |-> t0, index |-> i]
      BY <1>2, <1>4, <1>6 DEF Names
    <2> QED  BY <2>1, <2>2, <1>1, CountedFirst DEF TierFiled
  <1>10. \A t \in BucketTiers : t # t0 => TierFiled(r, t)
    <2> SUFFICES ASSUME NEW t \in BucketTiers, t # t0 PROVE TierFiled(r, t)
      OBVIOUS
    <2>1. r.buckets[t] = s.buckets[t] /\ r.bounds[t] = s.bounds[t] /\ TierFiled(s, t)
      BY <1>3, <1>4
    <2>2. ASSUME NEW i \in DOMAIN s.buckets[t]
          PROVE  r.positions[s.buckets[t][i].id] = [tier |-> t, index |-> i]
      <3>1. s.positions[s.buckets[t][i].id] = [tier |-> t, index |-> i]
        BY <2>1, <2>2 DEF TierFiled
      <3>2. s.buckets[t] \in Seq(EntryRec)
        BY <1>3
      <3>3. s.buckets[t][i].id \in Ids
        <4>1. s.buckets[t][i] \in EntryRec
          BY <2>2, <3>2
        <4> QED  BY <4>1 DEF EntryRec
      <3>4. s.positions[s.buckets[t][i].id].tier \notin {"none", t0}
        BY <3>1 DEF BucketTiers
      <3>5. ~Names(es, s.buckets[t][i].id)
        BY <3>4 DEF Names
      <3> QED  BY <3>1, <3>3, <3>5, <1>4
    <2> QED  BY <2>1, <2>2 DEF TierFiled
  <1>11. \A a \in Ids : PlaceHeld(r, a)
    <2> SUFFICES ASSUME NEW a \in Ids PROVE PlaceHeld(r, a)
      OBVIOUS
    <2>1. CASE Names(es, a)
      <3>1. r.positions[a] = [tier |-> t0, index |-> at(a)] /\ r.buckets[t0] = es
        BY <2>1, <1>3, <1>4
      <3> QED  BY <3>1, <2>1, <1>5 DEF PlaceHeld
    <2>2. CASE ~Names(es, a)
      <3>1. r.positions[a] = s.positions[a] /\ s.positions[a].tier # t0 /\ PlaceHeld(s, a)
        BY <2>2, <1>4
      <3>2. s.positions[a] # NoPosition => s.positions[a].tier \in BucketTiers
        BY <1>3 DEF PlaceRec
      <3>3. s.positions[a] # NoPosition => r.buckets[s.positions[a].tier] = s.buckets[s.positions[a].tier]
        BY <3>1, <3>2, <1>3, <1>4
      <3> QED  BY <3>1, <3>3 DEF PlaceHeld
    <2> QED  BY <2>1, <2>2
  <1>12. \A a \in Ids : r.positions[a].tier = IF Names(es, a) THEN t0 ELSE s.positions[a].tier
    BY <1>4
  <1> QED  BY <1>4, <1>8, <1>9, <1>10, <1>11, <1>12 DEF FiledWell, r

\* The entries but one, in the order they had.
LEMMA WithoutEntry ==
    ASSUME NEW es \in Seq(EntryRec), NEW i \in DOMAIN es
    PROVE  /\ without(es, i) \in Seq(EntryRec)
           /\ Len(without(es, i)) = Len(es) - 1
           /\ \A k \in 1..Len(es) - 1 : without(es, i)[k] = IF k < i THEN es[k] ELSE es[k + 1]
  <1>1. Len(es) \in Nat /\ i \in 1..Len(es) /\ \A k \in 1..Len(es) : es[k] \in EntryRec
    OBVIOUS
  <1> DEFINE front == SubSeq(es, 1, i - 1)
             rest == SubSeq(es, i + 1, Len(es))
  <1>2. /\ front \in Seq(EntryRec) /\ Len(front) = i - 1
        /\ \A k \in 1..i - 1 : front[k] = es[k]
    <2>1. \A k \in 1..i - 1 : es[k] \in EntryRec
      BY <1>1
    <2>2. /\ front \in Seq(EntryRec)
          /\ Len(front) = IF 1 <= i - 1 THEN i - 1 - 1 + 1 ELSE 0
          /\ \A k \in 1..i - 1 - 1 + 1 : front[k] = es[1 + k - 1]
      BY <1>1, <2>1, SubSeqProperties
    <2> HIDE DEF front
    <2> QED  BY <1>1, <2>2
  <1>3. /\ rest \in Seq(EntryRec) /\ Len(rest) = Len(es) - i
        /\ \A k \in 1..Len(es) - i : rest[k] = es[i + k]
    <2>1. \A k \in i + 1..Len(es) : es[k] \in EntryRec
      BY <1>1
    <2>2. /\ rest \in Seq(EntryRec)
          /\ Len(rest) = IF i + 1 <= Len(es) THEN Len(es) - (i + 1) + 1 ELSE 0
          /\ \A k \in 1..Len(es) - (i + 1) + 1 : rest[k] = es[i + 1 + k - 1]
      BY <1>1, <2>1, SubSeqProperties
    <2> HIDE DEF rest
    <2> QED  BY <1>1, <2>2
  <1> HIDE DEF front, rest
  <1>4. /\ front \o rest \in Seq(EntryRec)
        /\ Len(front \o rest) = Len(front) + Len(rest)
        /\ \A k \in 1..Len(front) + Len(rest) :
              (front \o rest)[k] = IF k <= Len(front) THEN front[k] ELSE rest[k - Len(front)]
    BY <1>2, <1>3, ConcatProperties
  <1>5. without(es, i) = front \o rest
    BY DEF without, front, rest
  <1>6. \A k \in 1..Len(es) - 1 : (front \o rest)[k] = IF k < i THEN es[k] ELSE es[k + 1]
    <2> SUFFICES ASSUME NEW k \in 1..Len(es) - 1
                 PROVE  (front \o rest)[k] = IF k < i THEN es[k] ELSE es[k + 1]
      OBVIOUS
    <2>1. (front \o rest)[k] = IF k <= i - 1 THEN front[k] ELSE rest[k - (i - 1)]
      <3>1. Len(front) = i - 1 /\ k \in 1..Len(front) + Len(rest)
        BY <1>1, <1>2, <1>3
      <3>2. (front \o rest)[k] = IF k <= Len(front) THEN front[k] ELSE rest[k - Len(front)]
        BY <3>1, <1>4
      <3> QED  BY <3>1, <3>2
    <2>2. CASE k < i
      BY <2>1, <2>2, <1>1, <1>2
    <2>3. CASE ~(k < i)
      <3>1. k - (i - 1) \in 1..Len(es) - i
        BY <2>3, <1>1
      <3>2. rest[k - (i - 1)] = es[i + (k - (i - 1))]
        BY <3>1, <1>3
      <3>3. i + (k - (i - 1)) = k + 1
        BY <1>1
      <3> QED  BY <2>1, <2>3, <3>2, <3>3, <1>1
    <2> QED  BY <2>2, <2>3
  <1> HIDE DEF without
  <1>7. Len(front \o rest) = Len(es) - 1
    BY <1>1, <1>2, <1>3, <1>4
  <1> QED  BY <1>4, <1>5, <1>6, <1>7

\* A bucket filed well names an account once.
LEMMA FiledOnce ==
    ASSUME NEW s \in FilingRec, NEW t \in BucketTiers, TierFiled(s, t)
    PROVE  OneEach(s.buckets[t])
  <1> SUFFICES ASSUME NEW i \in DOMAIN s.buckets[t], NEW j \in DOMAIN s.buckets[t],
                      s.buckets[t][i].id = s.buckets[t][j].id
               PROVE  i = j
    BY DEF OneEach
  <1>1. s.positions[s.buckets[t][i].id] = [tier |-> t, index |-> i]
    BY DEF TierFiled
  <1>2. s.positions[s.buckets[t][j].id] = [tier |-> t, index |-> j]
    BY DEF TierFiled
  <1>3. [tier |-> t, index |-> i].index = [tier |-> t, index |-> j].index
    BY <1>1, <1>2
  <1> QED  BY <1>3

\* Of an account that is taken out nothing is left, and the others keep their tier.
LEMMA RemoveFiles ==
    ASSUME NEW s, FiledWell(s), NEW a \in Ids
    PROVE  /\ FiledWell(removeLocked(s, a))
           /\ removeLocked(s, a).positions[a] = NoPosition
           /\ \A b \in Ids : b # a => removeLocked(s, a).positions[b].tier = s.positions[b].tier
  <1>1. s \in FilingRec
    BY DEF FiledWell
  <1>2. s.buckets \in [BucketTiers -> Seq(EntryRec)] /\ s.positions \in [Ids -> PlaceRec]
        /\ s.bounds \in [BucketTiers -> Nat]
    BY <1>1 DEF FilingRec
  <1>3. CASE s.positions[a] = NoPosition
    <2>1. removeLocked(s, a) = s
      BY <1>3 DEF removeLocked
    <2> QED  BY <2>1, <1>3
  <1>4. CASE s.positions[a] # NoPosition
    <2> DEFINE t0 == s.positions[a].tier
               n == s.positions[a].index
               es == s.buckets[t0]
               u == [buckets |-> s.buckets, positions |-> [s.positions EXCEPT ![a] = NoPosition],
                     bounds |-> s.bounds]
               rs == without(es, n)
    <2>1. t0 \in BucketTiers /\ n \in Nat
      BY <1>2, <1>4 DEF PlaceRec
    <2>2. n \in DOMAIN es /\ es[n].id = a
      BY <1>4 DEF FiledWell, PlaceHeld
    <2>3. TierFiled(s, t0) /\ OneEach(es) /\ InOrder(es) /\ es \in Seq(EntryRec)
      <3>1. TierFiled(s, t0)
        BY <2>1 DEF FiledWell
      <3>2. OneEach(es)
        BY <3>1, <2>1, <1>1, FiledOnce
      <3> QED  BY <3>1, <3>2, <2>1, <1>2 DEF TierFiled
    <2>4. [s EXCEPT !.positions[a] = NoPosition] = u
      <3>1. s = [buckets |-> s.buckets, positions |-> s.positions, bounds |-> s.bounds]
        BY <1>1 DEF FilingRec
      <3> QED  BY <3>1
    <2>5. removeLocked(s, a) = withBucket(u, t0, rs)
      BY <1>4, <2>2, <2>4 DEF removeLocked
    <2> HIDE DEF t0, n
    <2>6. /\ rs \in Seq(EntryRec) /\ Len(rs) = Len(es) - 1
          /\ \A k \in 1..Len(es) - 1 : rs[k] = IF k < n THEN es[k] ELSE es[k + 1]
      BY <2>2, <2>3, WithoutEntry
    <2>7. Len(es) \in Nat /\ DOMAIN es = 1..Len(es) /\ DOMAIN rs = 1..Len(es) - 1 /\ n \in 1..Len(es)
      <3>1. Len(es) \in Nat /\ DOMAIN es = 1..Len(es)
        BY <2>3
      <3>2. DOMAIN rs = 1..Len(rs)
        BY <2>6
      <3> QED  BY <3>1, <3>2, <2>2, <2>6
    <2> HIDE DEF rs
    <2> DEFINE old(k) == IF k < n THEN k ELSE k + 1
    <2>8. \A k \in DOMAIN rs : rs[k] = es[old(k)] /\ old(k) \in DOMAIN es /\ old(k) # n
      <3> TAKE k \in DOMAIN rs
      <3>1. CASE k < n
        BY <3>1, <2>6, <2>7
      <3>2. CASE ~(k < n)
        BY <3>2, <2>6, <2>7
      <3> QED  BY <3>1, <3>2
    <2>9. \A k, l \in DOMAIN rs : k < l => old(k) < old(l)
      BY <2>7
    <2>10. \A k, l \in DOMAIN rs : old(k) = old(l) => k = l
      BY <2>7
    <2>11. \A m \in DOMAIN es : m # n => \E k \in DOMAIN rs : old(k) = m
      <3> SUFFICES ASSUME NEW m \in DOMAIN es, m # n PROVE \E k \in DOMAIN rs : old(k) = m
        OBVIOUS
      <3>1. CASE m < n
        <4>1. m \in DOMAIN rs /\ old(m) = m
          BY <3>1, <2>7
        <4> QED  BY <4>1
      <3>2. CASE ~(m < n)
        <4>1. m - 1 \in DOMAIN rs /\ old(m - 1) = m
          BY <3>2, <2>7
        <4> QED  BY <4>1
      <3> QED  BY <3>1, <3>2
    <2> HIDE DEF old
    <2>12. InOrder(rs) /\ OneEach(rs)
      <3>1. InOrder(rs)
        BY <2>3, <2>8, <2>9 DEF InOrder
      <3>2. OneEach(rs)
        BY <2>3, <2>8, <2>10 DEF OneEach
      <3> QED  BY <3>1, <3>2
    <2>13. u \in FilingRec
      <3>1. [s.positions EXCEPT ![a] = NoPosition] \in [Ids -> PlaceRec]
        BY <1>2 DEF PlaceRec
      <3> QED  BY <3>1, <1>2 DEF FilingRec
    <2>14. /\ u.buckets = s.buckets /\ u.bounds = s.bounds
           /\ u.positions = [s.positions EXCEPT ![a] = NoPosition]
      OBVIOUS
    <2> HIDE DEF u
    <2>15. \A t \in BucketTiers : t # t0 => TierFiled(u, t)
      <3> SUFFICES ASSUME NEW t \in BucketTiers, t # t0 PROVE TierFiled(u, t)
        OBVIOUS
      <3>1. TierFiled(s, t) /\ s.buckets[t] \in Seq(EntryRec)
        BY <1>2 DEF FiledWell
      <3>2. ASSUME NEW i \in DOMAIN s.buckets[t]
            PROVE  u.positions[s.buckets[t][i].id] = [tier |-> t, index |-> i]
        <4>1. s.positions[s.buckets[t][i].id] = [tier |-> t, index |-> i]
          BY <3>1, <3>2 DEF TierFiled
        <4>2. s.buckets[t][i].id # a
          BY <4>1 DEF t0
        <4>3. s.buckets[t][i] \in EntryRec
          BY <3>1, <3>2
        <4>4. s.buckets[t][i].id \in Ids
          BY <4>3 DEF EntryRec
        <4> QED  BY <4>1, <4>2, <4>4, <2>14, <1>2
      <3> QED  BY <3>1, <3>2, <2>14 DEF TierFiled
    <2>16. \A i \in DOMAIN rs : u.positions[rs[i].id].tier \in {"none", t0}
      <3> SUFFICES ASSUME NEW i \in DOMAIN rs PROVE u.positions[rs[i].id].tier \in {"none", t0}
        OBVIOUS
      <3>1. rs[i] = es[old(i)] /\ old(i) \in DOMAIN es /\ old(i) # n
        BY <2>8
      <3>2. s.positions[es[old(i)].id] = [tier |-> t0, index |-> old(i)]
        BY <3>1, <2>3 DEF TierFiled
      <3>3. es[old(i)] \in EntryRec
        BY <3>1, <2>3
      <3>4. es[old(i)].id \in Ids
        BY <3>3 DEF EntryRec
      <3>5. es[old(i)].id # a
        BY <3>1, <2>2, <2>3 DEF OneEach
      <3>6. u.positions[es[old(i)].id] = s.positions[es[old(i)].id]
        BY <3>4, <3>5, <2>14, <1>2
      <3>7. s.positions[es[old(i)].id].tier = t0
        BY <3>2
      <3> QED  BY <3>1, <3>6, <3>7
    <2>17. \A b \in Ids : u.positions[b] = IF b = a THEN NoPosition ELSE s.positions[b]
      BY <2>14, <1>2
    <2>18. \A b \in Ids : PlaceHeld(u, b)
      BY <2>14, <2>17 DEF PlaceHeld, FiledWell
    <2>19. \A b \in Ids : u.positions[b].tier = t0 <=> Names(rs, b)
      <3> TAKE b \in Ids
      <3>1. ASSUME u.positions[b].tier = t0 PROVE Names(rs, b)
        <4>1. b # a /\ s.positions[b].tier = t0 /\ s.positions[b] # NoPosition
          BY <3>1, <2>1, <2>17 DEF NoPosition, BucketTiers
        <4>2. s.positions[b].index \in DOMAIN es /\ es[s.positions[b].index].id = b
          BY <4>1 DEF FiledWell, PlaceHeld
        <4>3. s.positions[b].index # n
          BY <4>1, <4>2, <2>2
        <4>4. PICK k \in DOMAIN rs : old(k) = s.positions[b].index
          BY <4>2, <4>3, <2>11
        <4> QED  BY <4>2, <4>4, <2>8 DEF Names
      <3>2. ASSUME Names(rs, b) PROVE u.positions[b].tier = t0
        <4> PICK i \in DOMAIN rs : rs[i].id = b
          BY <3>2 DEF Names
        <4>1. rs[i] = es[old(i)] /\ old(i) \in DOMAIN es /\ old(i) # n
          BY <2>8
        <4>2. s.positions[b] = [tier |-> t0, index |-> old(i)]
          BY <3>2, <4>1, <2>3 DEF TierFiled
        <4>3. b # a
          BY <3>2, <4>1, <2>2, <2>3 DEF OneEach
        <4>4. u.positions[b] = [tier |-> t0, index |-> old(i)]
          BY <4>2, <4>3, <2>17
        <4> QED  BY <4>4
      <3> QED  BY <3>1, <3>2
    <2> DEFINE r == withBucket(u, t0, rs)
    <2>20. /\ FiledWell(r)
           /\ \A b \in Ids : r.positions[b].tier =
                 IF Names(rs, b) THEN t0 ELSE u.positions[b].tier
      <3>1. \A b \in Ids : u.positions[b].tier # t0 => PlaceHeld(u, b)
        BY <2>18
      <3>2. \A b \in Ids : u.positions[b].tier = t0 => Names(rs, b)
        BY <2>19
      <3>3. rs \in Seq(EntryRec) /\ OneEach(rs) /\ InOrder(rs)
        BY <2>6, <2>12
      <3> QED  BY ONLY <2>1, <2>13, <2>15, <2>16, <3>1, <3>2, <3>3, BucketReplaced
    <2> HIDE DEF r
    <2>21. \A b \in Ids : r.positions[b].tier = u.positions[b].tier
      BY <2>19, <2>20
    <2>22. r.positions[a].tier = "none" /\ r.positions[a] \in PlaceRec
      <3>1. u.positions[a].tier = "none"
        BY <2>17 DEF NoPosition
      <3>2. r.positions \in [Ids -> PlaceRec]
        BY <2>20 DEF FiledWell, FilingRec
      <3> QED  BY <3>1, <3>2, <2>21
    <2>23. r.positions[a] = NoPosition
      BY <2>22 DEF PlaceRec, BucketTiers
    <2>24. \A b \in Ids : b # a => r.positions[b].tier = s.positions[b].tier
      BY <2>17, <2>21
    <2> QED  BY <2>5, <2>20, <2>23, <2>24 DEF r
  <1> QED  BY <1>3, <1>4

\* An entry is what the account is now.
LEMMA EntryTyped ==
    ASSUME view \in [Ids -> Views], NEW a \in Ids
    PROVE  Entry(a) \in EntryRec /\ Entry(a).id = a
  <1>1. view[a] \in Views
    OBVIOUS
  <1>2. view[a].score \in Int /\ view[a].proven \in BOOLEAN
    BY <1>1, ViewsAssumption
  <1> QED  BY <1>2 DEF Entry, EntryRec

\* An account that was nowhere is filed under its tier, and the others keep theirs.
LEMMA InsertFiles ==
    ASSUME view \in [Ids -> Views], NEW s, FiledWell(s), NEW a \in Ids, s.positions[a] = NoPosition
    PROVE  /\ FiledWell(insertLocked(s, a))
           /\ insertLocked(s, a).positions[a].tier = IF fileable(a) THEN view[a].tier ELSE "none"
           /\ \A b \in Ids : b # a => insertLocked(s, a).positions[b].tier = s.positions[b].tier
  <1>1. s \in FilingRec
    BY DEF FiledWell
  <1>2. s.buckets \in [BucketTiers -> Seq(EntryRec)] /\ s.positions \in [Ids -> PlaceRec]
    BY <1>1 DEF FilingRec
  <1>3. CASE ~fileable(a)
    <2>1. insertLocked(s, a) = s
      BY <1>3 DEF insertLocked
    <2>2. s.positions[a].tier = "none"
      BY DEF NoPosition
    <2> QED  BY <1>3, <2>1, <2>2
  <1>4. CASE fileable(a)
    <2> DEFINE t0 == view[a].tier
               old == s.buckets[t0]
               es == Append(old, Entry(a))
               rs == Sorted(es)
    <2>1. t0 \in BucketTiers
      BY <1>4 DEF fileable
    <2>2. insertLocked(s, a) = withBucket(s, t0, rs)
      BY <1>4 DEF insertLocked
    <2>3. old \in Seq(EntryRec) /\ TierFiled(s, t0)
      BY <2>1, <1>2 DEF FiledWell
    <2>4. Entry(a) \in EntryRec /\ Entry(a).id = a
      BY EntryTyped
    <2> HIDE DEF t0
    <2>5. /\ es \in Seq(EntryRec) /\ Len(es) = Len(old) + 1
          /\ \A i \in 1..Len(old) : es[i] = old[i]
          /\ es[Len(old) + 1] = Entry(a)
      BY <2>3, <2>4, AppendProperties
    <2>6. Len(old) \in Nat /\ DOMAIN old = 1..Len(old) /\ DOMAIN es = 1..Len(old) + 1
      <3>1. Len(old) \in Nat /\ DOMAIN old = 1..Len(old)
        BY <2>3
      <3>2. DOMAIN es = 1..Len(es)
        BY <2>5
      <3> QED  BY <3>1, <3>2, <2>5
    <2> HIDE DEF es
    <2>7. \A i \in DOMAIN old : old[i].id # a /\ s.positions[old[i].id].tier = t0 /\ old[i].id \in Ids
      <3> TAKE i \in DOMAIN old
      <3>1. s.positions[old[i].id] = [tier |-> t0, index |-> i]
        BY <2>3 DEF TierFiled
      <3>2. s.positions[old[i].id].tier = t0
        BY <3>1
      <3>3. old[i] \in EntryRec
        BY <2>3
      <3>4. old[i].id # a
        BY <3>2, <2>1 DEF NoPosition, BucketTiers
      <3> QED  BY <3>2, <3>3, <3>4 DEF EntryRec
    <2>8. OneEach(es)
      <3> SUFFICES ASSUME NEW i \in DOMAIN es, NEW j \in DOMAIN es, es[i].id = es[j].id PROVE i = j
        BY DEF OneEach
      <3>1. OneEach(old)
        BY <2>1, <2>3, <1>1, FiledOnce
      <3>2. CASE i \in DOMAIN old /\ j \in DOMAIN old
        BY <3>1, <3>2, <2>5, <2>6 DEF OneEach
      <3>3. CASE i = Len(old) + 1 /\ j \in DOMAIN old
        BY <3>3, <2>4, <2>5, <2>6, <2>7
      <3>4. CASE i \in DOMAIN old /\ j = Len(old) + 1
        BY <3>4, <2>4, <2>5, <2>6, <2>7
      <3>5. CASE i = Len(old) + 1 /\ j = Len(old) + 1
        BY <3>5
      <3> QED  BY <3>2, <3>3, <3>4, <3>5, <2>6
    <2>9. /\ rs \in Seq(EntryRec) /\ OneEach(rs) /\ InOrder(rs) /\ SameEntries(es, rs)
      BY <2>5, <2>8, SortedSorts
    <2> HIDE DEF rs
    <2>10. \A b \in Ids : Names(es, b) <=> b = a \/ s.positions[b].tier = t0
      <3> TAKE b \in Ids
      <3>1. Names(es, a)
        BY <2>4, <2>5, <2>6 DEF Names
      <3>2. ASSUME s.positions[b].tier = t0 PROVE Names(es, b)
        <4>1. s.positions[b] # NoPosition
          BY <3>2, <2>1 DEF NoPosition, BucketTiers
        <4>2. s.positions[b].index \in DOMAIN old /\ old[s.positions[b].index].id = b
          BY <3>2, <4>1 DEF FiledWell, PlaceHeld
        <4> QED  BY <4>2, <2>5, <2>6 DEF Names
      <3>3. ASSUME Names(es, b), b # a PROVE s.positions[b].tier = t0
        <4> PICK i \in DOMAIN es : es[i].id = b
          BY <3>3 DEF Names
        <4>1. i # Len(old) + 1
          BY <3>3, <2>4, <2>5
        <4>2. i \in DOMAIN old /\ es[i] = old[i]
          BY <4>1, <2>5, <2>6
        <4> QED  BY <4>2, <2>7
      <3> QED  BY <3>1, <3>2, <3>3
    <2>11. \A b \in Ids : Names(rs, b) <=> Names(es, b)
      BY <2>9 DEF SameEntries, Names
    <2>12. \A i \in DOMAIN rs : s.positions[rs[i].id].tier \in {"none", t0}
      <3> TAKE i \in DOMAIN rs
      <3>1. rs[i] \in EntryRec
        BY <2>9
      <3>2. rs[i].id \in Ids /\ Names(rs, rs[i].id)
        BY <3>1 DEF EntryRec, Names
      <3>3. rs[i].id = a \/ s.positions[rs[i].id].tier = t0
        BY <3>2, <2>10, <2>11
      <3> QED  BY <3>3 DEF NoPosition
    <2> DEFINE r == withBucket(s, t0, rs)
    <2>13. FiledWell(r) /\ \A b \in Ids : r.positions[b].tier =
                 IF Names(rs, b) THEN t0 ELSE s.positions[b].tier
      <3>1. \A t \in BucketTiers : t # t0 => TierFiled(s, t)
        BY DEF FiledWell
      <3>2. \A b \in Ids : s.positions[b].tier # t0 => PlaceHeld(s, b)
        BY DEF FiledWell
      <3>3. \A b \in Ids : s.positions[b].tier = t0 => Names(rs, b)
        BY <2>10, <2>11
      <3>4. rs \in Seq(EntryRec) /\ OneEach(rs) /\ InOrder(rs)
        BY <2>9
      <3> QED  BY ONLY <1>1, <2>1, <2>12, <3>1, <3>2, <3>3, <3>4, BucketReplaced
    <2> HIDE DEF r
    <2>14. r.positions[a].tier = t0
      BY <2>10, <2>11, <2>13
    <2>15. \A b \in Ids : b # a => r.positions[b].tier = s.positions[b].tier
      BY <2>10, <2>11, <2>13
    <2> QED  BY <1>4, <2>2, <2>13, <2>14, <2>15 DEF r, t0
  <1> QED  BY <1>3, <1>4

-----------------------------------------------------------------------------
(* Rebuilding. *)

Members(pool, t) == {Entry(a) : a \in {b \in pool : fileable(b) /\ view[b].tier = t}}
Listed(S) == CHOOSE s \in [1..Cardinality(S) -> S] : Range(s) = S

\* Listing a finite set of entries of different accounts gives each of them once.
LEMMA ListedOnce ==
    ASSUME view \in [Ids -> Views], NEW pool \in SUBSET Ids, NEW t
    PROVE  /\ Listed(Members(pool, t)) \in Seq(EntryRec)
           /\ OneEach(Listed(Members(pool, t)))
           /\ \A a \in Ids : Names(Listed(Members(pool, t)), a) <=>
                                a \in pool /\ fileable(a) /\ view[a].tier = t
  <1> DEFINE S == Members(pool, t)
             l == Listed(S)
             P == {b \in pool : fileable(b) /\ view[b].tier = t}
  <1>1. S \in SUBSET EntryRec /\ \A e \in S : e.id \in P /\ e = Entry(e.id)
    BY EntryTyped DEF Members
  <1>2. IsFiniteSet(S)
    <2>1. IsFiniteSet(P)
      <3>1. P \in SUBSET Ids
        OBVIOUS
      <3> QED  BY ONLY <3>1, IdsAssumption, FS_Subset
    <2> DEFINE g == [a \in P |-> Entry(a)]
    <2>2. g \in Surjection(P, S)
      <3>1. g \in [P -> S]
        BY DEF Members
      <3>2. \A e \in S : \E a \in P : g[a] = e
        BY DEF Members
      <3> QED  BY <3>1, <3>2 DEF Surjection
    <2> QED  BY ONLY <2>1, <2>2, FS_Surjection
  <1> DEFINE n == Cardinality(S)
  <1>3. n \in Nat /\ ExistsBijection(1..n, S)
    BY <1>2, FS_CardinalityType
  <1>4. \E f \in [1..n -> S] : Range(f) = S
    <2>1. PICK f \in [1..n -> S] : \A e \in S : \E i \in 1..n : f[i] = e
      BY <1>3 DEF ExistsBijection, Bijection, Surjection
    <2>2. Range(f) = S
      BY <2>1 DEF Range
    <2> QED  BY <2>1, <2>2
  <1>5. l \in [1..n -> S] /\ Range(l) = S
    BY <1>4 DEF Listed
  <1> HIDE DEF l, S
  <1>6. \A e \in S : \E i \in 1..n : l[i] = e
    BY <1>5 DEF Range
  <1>7. l \in Injection(1..n, S)
    <2>1. l \in Surjection(1..n, S)
      BY <1>5, <1>6 DEF Surjection
    <2>2. IsFiniteSet(1..n) /\ Cardinality(1..n) = n
      <3>1. 1 \in Int /\ n \in Int /\ n >= 0
        BY <1>3
      <3>2. IsFiniteSet(1..n) /\ Cardinality(1..n) = IF 1 > n THEN 0 ELSE n - 1 + 1
        BY ONLY <3>1, FS_Interval
      <3> QED  BY <3>1, <3>2
    <2> QED  BY ONLY <2>1, <2>2, FS_SurjSameCardinalityImpliesInj
  <1>8. DOMAIN l = 1..n /\ \A i, j \in 1..n : l[i] = l[j] => i = j
    BY <1>5, <1>7 DEF Injection, IsInjective
  <1>9. l \in Seq(EntryRec)
    <2>1. l \in [1..n -> EntryRec]
      BY <1>1, <1>5
    <2> QED  BY <2>1, <1>3
  <1>10. OneEach(l)
    <2> SUFFICES ASSUME NEW i \in 1..n, NEW j \in 1..n, l[i].id = l[j].id PROVE i = j
      BY <1>8 DEF OneEach
    <2>1. l[i] \in S /\ l[j] \in S
      BY <1>5
    <2>2. l[i] = l[j]
      BY <2>1, <1>1
    <2> QED  BY <2>2, <1>8
  <1>11. \A a \in Ids : Names(l, a) <=> a \in P
    <2> TAKE a \in Ids
    <2>1. ASSUME Names(l, a) PROVE a \in P
      <3> PICK i \in 1..n : l[i].id = a
        BY <2>1, <1>8 DEF Names
      <3>1. l[i] \in S
        BY <1>5
      <3> QED  BY <3>1, <1>1
    <2>2. ASSUME a \in P PROVE Names(l, a)
      <3>1. Entry(a) \in S /\ Entry(a).id = a
        BY <2>2, EntryTyped DEF S, Members
      <3>2. PICK i \in 1..n : l[i] = Entry(a)
        BY <3>1, <1>6
      <3> QED  BY <3>1, <3>2, <1>8 DEF Names
    <2> QED  BY <2>1, <2>2
  <1> QED  BY <1>9, <1>10, <1>11 DEF l, S

\* One bucket of a rebuilt scheduler.
LEMMA TierRebuilt ==
    ASSUME view \in [Ids -> Views], NEW pool \in SUBSET Ids, NEW t0 \in BucketTiers,
           NEW s, FiledWell(s), \A a \in Ids : s.positions[a].tier # t0,
           \A a \in Ids : a \in pool /\ fileable(a) /\ view[a].tier = t0 => s.positions[a].tier = "none"
    PROVE  /\ FiledWell(withBucket(s, t0, Sorted(Listed(Members(pool, t0)))))
           /\ \A a \in Ids :
                 withBucket(s, t0, Sorted(Listed(Members(pool, t0)))).positions[a].tier =
                    IF a \in pool /\ fileable(a) /\ view[a].tier = t0 THEN t0 ELSE s.positions[a].tier
  <1> DEFINE l == Listed(Members(pool, t0))
             rs == Sorted(l)
             In(a) == a \in pool /\ fileable(a) /\ view[a].tier = t0
  <1>1. l \in Seq(EntryRec) /\ OneEach(l) /\ \A a \in Ids : Names(l, a) <=> In(a)
    BY ListedOnce
  <1> HIDE DEF l
  <1>2. rs \in Seq(EntryRec) /\ OneEach(rs) /\ InOrder(rs) /\ SameEntries(l, rs)
    BY <1>1, SortedSorts
  <1> HIDE DEF rs
  <1>3. \A a \in Ids : Names(rs, a) <=> In(a)
    <2>1. \A a \in Ids : Names(rs, a) <=> Names(l, a)
      BY <1>2 DEF SameEntries, Names
    <2> QED  BY <1>1, <2>1
  <1> HIDE DEF In
  <1>4. \A i \in DOMAIN rs : s.positions[rs[i].id].tier \in {"none", t0}
    <2> TAKE i \in DOMAIN rs
    <2>1. rs[i] \in EntryRec
      BY <1>2
    <2>2. rs[i].id \in Ids /\ Names(rs, rs[i].id)
      BY <2>1 DEF EntryRec, Names
    <2> QED  BY <2>2, <1>3 DEF In
  <1>5. /\ FiledWell(withBucket(s, t0, rs))
        /\ \A a \in Ids : withBucket(s, t0, rs).positions[a].tier =
                             IF Names(rs, a) THEN t0 ELSE s.positions[a].tier
    <2>1. s \in FilingRec /\ \A t \in BucketTiers : t # t0 => TierFiled(s, t)
      BY DEF FiledWell
    <2>2. \A a \in Ids : s.positions[a].tier # t0 => PlaceHeld(s, a)
      BY DEF FiledWell
    <2>3. \A a \in Ids : s.positions[a].tier = t0 => Names(rs, a)
      OBVIOUS
    <2>4. rs \in Seq(EntryRec) /\ OneEach(rs) /\ InOrder(rs)
      BY <1>2
    <2> QED  BY ONLY t0 \in BucketTiers, <2>1, <1>4, <2>2, <2>3, <2>4, BucketReplaced
  <1>6. \A a \in Ids : withBucket(s, t0, rs).positions[a].tier =
                          IF In(a) THEN t0 ELSE s.positions[a].tier
    BY <1>3, <1>5
  <1> QED  BY <1>5, <1>6 DEF rs, l, In

\* A scheduler that holds nobody.
LEMMA EmptyFiled ==
    FiledWell(Empty) /\ \A a \in Ids : Empty.positions[a] = NoPosition
  <1>1. /\ Empty.buckets = [t \in BucketTiers |-> <<>>]
        /\ Empty.positions = [a \in Ids |-> NoPosition]
        /\ Empty.bounds = [t \in BucketTiers |-> 0]
    BY DEF Empty
  <1>2. <<>> \in Seq(EntryRec) /\ DOMAIN <<>> = {} /\ Len(<<>>) = 0
    OBVIOUS
  <1>3. Empty \in FilingRec
    <2>1. Empty.buckets \in [BucketTiers -> Seq(EntryRec)]
      BY <1>1, <1>2
    <2>2. Empty.positions \in [Ids -> PlaceRec]
      BY <1>1 DEF PlaceRec
    <2> QED  BY <1>1, <2>1, <2>2 DEF FilingRec, Empty
  <1>4. \A t \in BucketTiers : TierFiled(Empty, t)
    BY <1>1, <1>2 DEF TierFiled, InOrder
  <1>5. \A a \in Ids : Empty.positions[a] = NoPosition
    BY <1>1
  <1> QED  BY <1>3, <1>4, <1>5 DEF FiledWell, PlaceHeld

\* A rebuilt scheduler files the accounts of the pool that may be filed, and nobody else.
LEMMA RebuiltFiles ==
    ASSUME view \in [Ids -> Views], NEW pool \in SUBSET Ids
    PROVE  /\ FiledWell(rebuilt(pool))
           /\ \A a \in Ids : rebuilt(pool).positions[a].tier =
                 IF a \in pool /\ fileable(a) THEN view[a].tier ELSE "none"
  <1> DEFINE first == withBucket(Empty, "healthy", Sorted(Listed(Members(pool, "healthy"))))
             second == withBucket(first, "warm", Sorted(Listed(Members(pool, "warm"))))
             third == withBucket(second, "risky", Sorted(Listed(Members(pool, "risky"))))
             In(a, t) == a \in pool /\ fileable(a) /\ view[a].tier = t
  <1>1. rebuilt(pool) = third
    BY DEF rebuilt, Listed, Members
  <1>2. "healthy" \in BucketTiers /\ "warm" \in BucketTiers /\ "risky" \in BucketTiers
    BY DEF BucketTiers
  <1>3. FiledWell(first) /\ \A a \in Ids : first.positions[a].tier =
                                 IF In(a, "healthy") THEN "healthy" ELSE "none"
    <2>1. \A a \in Ids : Empty.positions[a].tier = "none"
      BY EmptyFiled DEF NoPosition
    <2>2. FiledWell(first) /\ \A a \in Ids : first.positions[a].tier =
                                 IF In(a, "healthy") THEN "healthy" ELSE Empty.positions[a].tier
      BY <1>2, <2>1, EmptyFiled, TierRebuilt
    <2> HIDE DEF first
    <2> QED  BY <2>1, <2>2
  <1> HIDE DEF first
  <1>4. FiledWell(second) /\ \A a \in Ids : second.positions[a].tier =
                                 IF In(a, "warm") THEN "warm" ELSE first.positions[a].tier
    <2>1. \A a \in Ids : first.positions[a].tier # "warm"
      BY <1>3
    <2>2. \A a \in Ids : a \in pool /\ fileable(a) /\ view[a].tier = "warm" =>
             first.positions[a].tier = "none"
      BY <1>3
    <2>3. FiledWell(first) /\ "warm" \in BucketTiers
      BY <1>2, <1>3
    <2> QED  BY <2>1, <2>2, <2>3, TierRebuilt
  <1> HIDE DEF second
  <1>5. FiledWell(third) /\ \A a \in Ids : third.positions[a].tier =
                                 IF In(a, "risky") THEN "risky" ELSE second.positions[a].tier
    <2>1. \A a \in Ids : second.positions[a].tier # "risky"
      BY <1>3, <1>4
    <2>2. \A a \in Ids : a \in pool /\ fileable(a) /\ view[a].tier = "risky" =>
             second.positions[a].tier = "none"
      BY <1>3, <1>4
    <2>3. FiledWell(second) /\ "risky" \in BucketTiers
      BY <1>2, <1>4
    <2> QED  BY <2>1, <2>2, <2>3, TierRebuilt
  <1> HIDE DEF third
  <1>6. \A a \in Ids : third.positions[a].tier = IF a \in pool /\ fileable(a) THEN view[a].tier ELSE "none"
    <2> TAKE a \in Ids
    <2>1. fileable(a) => view[a].tier \in {"healthy", "warm", "risky"}
      BY DEF fileable, BucketTiers
    <2> QED  BY <2>1, <1>3, <1>4, <1>5
  <1> QED  BY <1>1, <1>5, <1>6

-----------------------------------------------------------------------------
(* The round-robin of a scan. *)

Place(start, k, len) == ((start + k) % len) + 1

\* From any start the offsets below the length visit every entry of the range, and no other.
LEMMA RoundTrip ==
    ASSUME NEW len \in Nat \ {0}, NEW start \in 0..len - 1
    PROVE  /\ \A k \in 0..len - 1 : Place(start, k, len) \in 1..len
           /\ \A i \in 1..len : \E k \in 0..len - 1 : Place(start, k, len) = i
  <1>1. \A k \in 0..len - 1 : (start + k) % len = IF start + k < len THEN start + k ELSE start + k - len
    <2> SUFFICES ASSUME NEW k \in 0..len - 1
                 PROVE  (start + k) % len = IF start + k < len THEN start + k ELSE start + k - len
      OBVIOUS
    <2>1. \A x \in 0..len - 1 : x % len = x /\ (x + len) % len = x
      OBVIOUS
    <2>2. CASE start + k < len
      BY <2>1, <2>2
    <2>3. CASE ~(start + k < len)
      <3>1. start + k - len \in 0..len - 1 /\ start + k - len + len = start + k
        BY <2>3
      <3>2. (start + k - len + len) % len = start + k - len
        BY <3>1, <2>1
      <3> QED  BY <2>3, <3>1, <3>2
    <2> QED  BY <2>2, <2>3
  <1>2. \A k \in 0..len - 1 : Place(start, k, len) = IF start + k < len THEN start + k + 1 ELSE start + k - len + 1
    BY <1>1 DEF Place
  <1>3. \A k \in 0..len - 1 : Place(start, k, len) \in 1..len
    BY <1>2
  <1>4. ASSUME NEW i \in 1..len PROVE \E k \in 0..len - 1 : Place(start, k, len) = i
    <2>1. CASE i > start
      <3>1. i - 1 - start \in 0..len - 1 /\ Place(start, i - 1 - start, len) = i
        BY <1>2, <2>1
      <3> QED  BY <3>1
    <2>2. CASE ~(i > start)
      <3>1. i - 1 - start + len \in 0..len - 1 /\ Place(start, i - 1 - start + len, len) = i
        BY <1>2, <2>2
      <3> QED  BY <3>1
    <2> QED  BY <2>1, <2>2
  <1> QED  BY <1>3, <1>4

-----------------------------------------------------------------------------
(* The inductive invariant. *)

ScanRec == [pc : {"off", "tier", "range"}, exclude : SUBSET Ids, n : 1..4,
            phase : {"proven", "all"}, start : Nat, offset : Nat, len : Nat]

RestTyped ==
    /\ cursors \in [BucketTiers -> 0..CursorMod - 1]
    /\ provenCurs \in [BucketTiers -> 0..CursorMod - 1]
    /\ refused \in SUBSET Ids
    /\ view \in [Ids -> Views]
    /\ fsActive \in [Ids -> Nat]
    /\ scan \in ScanRec

\* The range of a scan is the proven prefix or the whole of a bucket, and not empty.
RangeKnown ==
    scan.pc = "range" =>
        /\ scan.n \in 1..3
        /\ scan.len = IF scan.phase = "proven" THEN provenBounds[Tier(scan.n)]
                      ELSE Len(buckets[Tier(scan.n)])
        /\ scan.len > 0 /\ scan.start < scan.len /\ scan.offset <= scan.len

\* What a scan has passed it refused: the tiers above, the entries visited, and before
\* the whole bucket its proven prefix.
PassedRefused ==
    /\ scan.pc # "off" => \A m \in 1..scan.n - 1 : \A i \in DOMAIN buckets[Tier(m)] :
                             buckets[Tier(m)][i].id \in refused
    /\ scan.pc = "range" => \A k \in 0..scan.offset - 1 :
                               buckets[Tier(scan.n)][Place(scan.start, k, scan.len)].id \in refused
    /\ scan.pc = "range" /\ scan.phase = "all" =>
           \A i \in 1..provenBounds[Tier(scan.n)] : buckets[Tier(scan.n)][i].id \in refused

FsInv == FiledWell(Current) /\ RestTyped /\ RangeKnown /\ PassedRefused

\* The filing, as variables.
LEMMA FilingTyped ==
    ASSUME FiledWell(Current)
    PROVE  /\ buckets \in [BucketTiers -> Seq(EntryRec)]
           /\ positions \in [Ids -> PlaceRec]
           /\ provenBounds \in [BucketTiers -> Nat]
           /\ \A t \in BucketTiers :
                 /\ InOrder(buckets[t]) /\ provenBounds[t] <= Len(buckets[t])
                 /\ \A i \in DOMAIN buckets[t] : /\ buckets[t][i].proven <=> i <= provenBounds[t]
                                                 /\ buckets[t][i] \in EntryRec
                                                 /\ buckets[t][i].id \in Ids
                                                 /\ positions[buckets[t][i].id] = [tier |-> t, index |-> i]
           /\ \A a \in Ids : positions[a] # NoPosition =>
                 /\ positions[a].index \in DOMAIN buckets[positions[a].tier]
                 /\ buckets[positions[a].tier][positions[a].index].id = a
  <1>1. Current.buckets = buckets /\ Current.positions = positions /\ Current.bounds = provenBounds
    BY DEF Current
  <1>2. Current \in FilingRec
    BY DEF FiledWell
  <1>3. /\ buckets \in [BucketTiers -> Seq(EntryRec)] /\ positions \in [Ids -> PlaceRec]
        /\ provenBounds \in [BucketTiers -> Nat]
    BY <1>1, <1>2 DEF FilingRec
  <1>4. \A t \in BucketTiers : \A i \in DOMAIN buckets[t] : buckets[t][i] \in EntryRec
    BY <1>3
  <1>5. \A t \in BucketTiers : \A i \in DOMAIN buckets[t] : buckets[t][i].id \in Ids
    BY <1>4 DEF EntryRec
  <1>6. \A t \in BucketTiers : TierFiled(Current, t)
    BY DEF FiledWell
  <1>7. \A a \in Ids : PlaceHeld(Current, a)
    BY DEF FiledWell
  <1> QED  BY <1>1, <1>3, <1>4, <1>5, <1>6, <1>7 DEF TierFiled, PlaceHeld

\* A step that leaves the filing alone.
LEMMA FilingKept ==
    ASSUME FiledWell(Current), UNCHANGED filing
    PROVE  FiledWell(Current)'
  <1>1. Current' = Current
    BY DEF Current, filing
  <1> QED  BY <1>1 DEF FiledWell, TierFiled, PlaceHeld, InOrder, Before

\* A step that files anew while no call scans, or starts its pass over.
LEMMA FilingSet ==
    ASSUME NEW s, FiledWell(s), SetFiling(s)
    PROVE  FiledWell(Current)' /\ positions' = s.positions
  <1>1. s \in FilingRec
    BY DEF FiledWell
  <1>2. s = [buckets |-> s.buckets, positions |-> s.positions, bounds |-> s.bounds]
    BY <1>1 DEF FilingRec
  <1>3. buckets' = s.buckets /\ positions' = s.positions /\ provenBounds' = s.bounds
    BY DEF SetFiling
  <1>4. Current' = s
    BY <1>2, <1>3 DEF Current
  <1> QED  BY <1>3, <1>4 DEF FiledWell, TierFiled, PlaceHeld, InOrder, Before

\* The invariant holds at the start.
LEMMA FsInvInitially == FsInit => FsInv
  <1> SUFFICES ASSUME FsInit PROVE FsInv
    OBVIOUS
  <1> USE DEF FsInit
  <1>1. Current = Empty
    BY DEF Current, Empty
  <1>2. FiledWell(Current)
    BY <1>1, EmptyFiled
  <1>3. 0 \in 0..CursorMod - 1
    BY BoundsAssumption
  <1>4. scan \in ScanRec /\ scan.pc = "off"
    BY DEF NoScan, ScanRec
  <1>5. RestTyped
    BY <1>3, <1>4 DEF RestTyped
  <1> QED  BY <1>2, <1>4, <1>5 DEF FsInv, RangeKnown, PassedRefused

\* A step between calls leaves nothing of a scan to keep.
LEMMA NoScanKept ==
    ASSUME FsInv, FiledWell(Current)', RestTyped', scan'.pc = "off"
    PROVE  FsInv'
  BY DEF FsInv, RangeKnown, PassedRefused

\* A scan that starts over has passed nothing yet.
LEMMA FreshPass ==
    ASSUME FiledWell(Current)', RestTyped', scan'.pc = "tier", scan'.n = 1
    PROVE  FsInv'
  <1>1. \A m \in 1..scan'.n - 1 : FALSE
    OBVIOUS
  <1> QED  BY <1>1 DEF FsInv, RangeKnown, PassedRefused

\* Update removes the account and files it anew.
LEMMA UpdateKeeps == ASSUME FsInv, NEW a \in Ids, Update(a) PROVE FsInv'
  <1> DEFINE s == removeLocked(Current, a)
             r == insertLocked(s, a)
  <1>1. scan.pc = "off" /\ SetFiling(r) /\ UNCHANGED <<rotation, scan, refused, view, fsActive, changes>>
    BY DEF Update
  <1>2. view \in [Ids -> Views]
    BY DEF FsInv, RestTyped
  <1>3. FiledWell(s) /\ s.positions[a] = NoPosition
    BY RemoveFiles DEF FsInv
  <1>4. FiledWell(r)
    BY <1>2, <1>3, InsertFiles
  <1> HIDE DEF r, s
  <1>5. FiledWell(Current)'
    BY <1>1, <1>4, FilingSet
  <1>6. RestTyped'
    BY <1>1 DEF FsInv, RestTyped, rotation
  <1> QED  BY <1>1, <1>5, <1>6, NoScanKept

\* Remove takes the account out.
LEMMA RemoveIDKeeps == ASSUME FsInv, NEW a \in Ids, RemoveID(a) PROVE FsInv'
  <1> DEFINE s == removeLocked(Current, a)
  <1>1. scan.pc = "off" /\ SetFiling(s) /\ UNCHANGED <<rotation, scan, refused, view, fsActive, changes>>
    BY DEF RemoveID
  <1>2. FiledWell(s)
    BY RemoveFiles DEF FsInv
  <1> HIDE DEF s
  <1>3. FiledWell(Current)'
    BY <1>1, <1>2, FilingSet
  <1>4. RestTyped'
    BY <1>1 DEF FsInv, RestTyped, rotation
  <1> QED  BY <1>1, <1>3, <1>4, NoScanKept

\* A rebuilt scheduler is filed well, and no call scans it.
LEMMA FsRebuildKeeps == ASSUME FsInv, NEW pool \in SUBSET Ids, FsRebuild(pool) PROVE FsInv'
  <1> DEFINE s == rebuilt(pool)
  <1>1. /\ scan.pc = "off" /\ SetFiling(s)
        /\ cursors' = [t \in BucketTiers |-> 0] /\ provenCurs' = [t \in BucketTiers |-> 0]
        /\ UNCHANGED <<scan, refused, view, fsActive, changes>>
    BY DEF FsRebuild
  <1>2. FiledWell(s)
    BY RebuiltFiles DEF FsInv, RestTyped
  <1> HIDE DEF s
  <1>3. FiledWell(Current)'
    BY <1>1, <1>2, FilingSet
  <1>4. 0 \in 0..CursorMod - 1
    BY BoundsAssumption
  <1>5. RestTyped'
    BY <1>1, <1>4 DEF FsInv, RestTyped
  <1> QED  BY <1>1, <1>3, <1>5, NoScanKept

\* A call begins a pass that has passed nothing.
LEMMA AcquireBeginKeeps == ASSUME FsInv, NEW exclude \in Excludes, AcquireBegin(exclude) PROVE FsInv'
  <1> USE DEF AcquireBegin
  <1>1. FiledWell(Current)'
    BY FilingKept DEF FsInv
  <1>2. scan' = [pc |-> "tier", exclude |-> exclude, n |-> 1, phase |-> "proven",
                 start |-> 0, offset |-> 0, len |-> 0]
    BY DEF NoScan
  <1>3. exclude \in SUBSET Ids
    BY BoundsAssumption
  <1>4. scan' \in ScanRec
    BY <1>2, <1>3 DEF ScanRec
  <1>5. RestTyped'
    BY <1>4 DEF FsInv, RestTyped, rotation
  <1>6. scan'.pc = "tier" /\ scan'.n = 1
    BY ONLY <1>2
  <1> QED  BY <1>1, <1>5, <1>6, FreshPass

\* The number of a tier is that of a bucket.
LEMMA TierNumbered ==
    /\ \A n \in 1..3 : Tier(n) \in BucketTiers
    /\ \A t \in BucketTiers : \E n \in 1..3 : Tier(n) = t
  <1>1. Tier(1) = "healthy" /\ Tier(2) = "warm" /\ Tier(3) = "risky"
    BY DEF Tier, fastSchedulerTierOrder
  <1> QED  BY <1>1 DEF BucketTiers

\* A range is entered at a cursor, which lies in it.
LEMMA ScanProvenStarts ==
    ASSUME FsInv, scan.n \in 1..3, scanProven(scan.n), provenBounds[Tier(scan.n)] > 0,
           UNCHANGED <<filing, refused, view, fsActive, changes>>,
           scan.pc # "off"
    PROVE  FsInv'
  <1> DEFINE t == Tier(scan.n)
             b == provenBounds[t]
             c == provenCurs[t]
  <1>1. t \in BucketTiers
    BY TierNumbered
  <1>2. b \in Nat /\ b > 0 /\ c \in 0..CursorMod - 1 /\ CursorMod \in Nat \ {0}
    BY <1>1, FilingTyped, BoundsAssumption DEF FsInv, RestTyped
  <1>3. c % b \in 0..b - 1 /\ (c + 1) % CursorMod \in 0..CursorMod - 1
    BY <1>2
  <1>4. /\ scan' = [scan EXCEPT !.pc = "range", !.n = scan.n, !.phase = "proven",
                        !.start = c % b, !.offset = 0, !.len = b]
        /\ provenCurs' = [provenCurs EXCEPT ![t] = (c + 1) % CursorMod]
        /\ UNCHANGED cursors
    BY DEF scanProven
  <1>5. scan \in ScanRec
    BY DEF FsInv, RestTyped
  <1> HIDE DEF t, b, c
  <1>6. scan' = [pc |-> "range", exclude |-> scan.exclude, n |-> scan.n, phase |-> "proven",
                 start |-> c % b, offset |-> 0, len |-> b]
    BY <1>4, <1>5 DEF ScanRec
  <1>7. scan' \in ScanRec
    <2>1. scan.exclude \in SUBSET Ids /\ scan.n \in 1..4 /\ c % b \in Nat /\ b \in Nat
      BY <1>2, <1>3, <1>5 DEF ScanRec
    <2> QED  BY <1>6, <2>1 DEF ScanRec
  <1>8. provenCurs' \in [BucketTiers -> 0..CursorMod - 1]
    BY <1>3, <1>4 DEF FsInv, RestTyped
  <1>9. RestTyped'
    BY <1>4, <1>7, <1>8 DEF FsInv, RestTyped
  <1>10. FiledWell(Current)'
    BY FilingKept DEF FsInv
  <1>11. buckets' = buckets /\ provenBounds' = provenBounds /\ refused' = refused
    BY DEF filing
  <1>12. /\ scan'.pc = "range" /\ scan'.n = scan.n /\ scan'.phase = "proven" /\ scan'.len = b
         /\ scan'.start = c % b /\ scan'.offset = 0
    BY <1>6
  <1>13. RangeKnown'
    BY <1>2, <1>3, <1>11, <1>12 DEF RangeKnown, b, t
  <1>14. PassedRefused'
    <2>1. \A k \in 0..scan'.offset - 1 : FALSE
      BY <1>12
    <2> QED  BY <1>11, <1>12, <2>1 DEF FsInv, PassedRefused
  <1> QED  BY <1>9, <1>10, <1>13, <1>14 DEF FsInv

\* The whole bucket is entered when its proven prefix is refused, or empty.
LEMMA ScanAllStarts ==
    ASSUME FsInv, scan.n \in 1..3, scanAll(scan.n), buckets[Tier(scan.n)] # <<>>,
           \A i \in 1..provenBounds[Tier(scan.n)] : buckets[Tier(scan.n)][i].id \in refused,
           UNCHANGED <<filing, refused, view, fsActive, changes>>,
           scan.pc # "off"
    PROVE  FsInv'
  <1> DEFINE t == Tier(scan.n)
             b == Len(buckets[t])
             c == cursors[t]
  <1>1. t \in BucketTiers
    BY TierNumbered
  <1>2. b \in Nat /\ b > 0 /\ c \in 0..CursorMod - 1 /\ CursorMod \in Nat \ {0}
    <2>1. buckets[t] \in Seq(EntryRec) /\ buckets[t] # <<>>
      BY <1>1, FilingTyped DEF FsInv
    <2>2. b \in Nat /\ b > 0
      BY <2>1
    <2> QED  BY <1>1, <2>2, BoundsAssumption DEF FsInv, RestTyped
  <1>3. c % b \in 0..b - 1 /\ (c + 1) % CursorMod \in 0..CursorMod - 1
    BY <1>2
  <1>4. /\ scan' = [scan EXCEPT !.pc = "range", !.n = scan.n, !.phase = "all",
                        !.start = c % b, !.offset = 0, !.len = b]
        /\ cursors' = [cursors EXCEPT ![t] = (c + 1) % CursorMod]
        /\ UNCHANGED provenCurs
    BY DEF scanAll
  <1>5. scan \in ScanRec
    BY DEF FsInv, RestTyped
  <1> HIDE DEF t, b, c
  <1>6. scan' = [pc |-> "range", exclude |-> scan.exclude, n |-> scan.n, phase |-> "all",
                 start |-> c % b, offset |-> 0, len |-> b]
    BY <1>4, <1>5 DEF ScanRec
  <1>7. scan' \in ScanRec
    <2>1. scan.exclude \in SUBSET Ids /\ scan.n \in 1..4 /\ c % b \in Nat /\ b \in Nat
      BY <1>2, <1>3, <1>5 DEF ScanRec
    <2> QED  BY <1>6, <2>1 DEF ScanRec
  <1>8. cursors' \in [BucketTiers -> 0..CursorMod - 1]
    BY <1>3, <1>4 DEF FsInv, RestTyped
  <1>9. RestTyped'
    BY <1>4, <1>7, <1>8 DEF FsInv, RestTyped
  <1>10. FiledWell(Current)'
    BY FilingKept DEF FsInv
  <1>11. buckets' = buckets /\ provenBounds' = provenBounds /\ refused' = refused
    BY DEF filing
  <1>12. /\ scan'.pc = "range" /\ scan'.n = scan.n /\ scan'.phase = "all" /\ scan'.len = b
         /\ scan'.start = c % b /\ scan'.offset = 0
    BY <1>6
  <1>13. RangeKnown'
    <2>1. scan'.len > 0 /\ scan'.start < scan'.len /\ scan'.offset <= scan'.len
      BY <1>2, <1>3, <1>12
    <2>2. scan'.len = Len(buckets'[Tier(scan'.n)])
      BY <1>11, <1>12 DEF b, t
    <2> QED  BY <1>12, <2>1, <2>2 DEF RangeKnown
  <1>14. PassedRefused'
    <2>1. \A k \in 0..scan'.offset - 1 : FALSE
      BY <1>12
    <2> QED  BY <1>11, <1>12, <2>1 DEF FsInv, PassedRefused
  <1> QED  BY <1>9, <1>10, <1>13, <1>14 DEF FsInv

\* The next tier is taken when every entry of this one is refused.
LEMMA NextTierTaken ==
    ASSUME FsInv, scan.n \in 1..3, scan.pc # "off",
           \A i \in DOMAIN buckets[Tier(scan.n)] : buckets[Tier(scan.n)][i].id \in refused,
           scan'.pc = "tier", scan'.n = scan.n + 1, scan' \in ScanRec,
           UNCHANGED <<filing, rotation, refused, view, fsActive, changes>>
    PROVE  FsInv'
  <1>1. FiledWell(Current)'
    BY FilingKept DEF FsInv
  <1>2. RestTyped'
    BY DEF FsInv, RestTyped, rotation
  <1>3. \A m \in 1..scan'.n - 1 : \A i \in DOMAIN buckets[Tier(m)] : buckets[Tier(m)][i].id \in refused
    <2>1. \A m \in 1..scan'.n - 1 : m \in 1..scan.n - 1 \/ m = scan.n
      OBVIOUS
    <2> QED  BY <2>1 DEF FsInv, PassedRefused
  <1>4. buckets' = buckets /\ refused' = refused
    BY DEF filing
  <1>5. PassedRefused'
    BY <1>3, <1>4 DEF PassedRefused
  <1> QED  BY <1>1, <1>2, <1>5 DEF FsInv, RangeKnown

\* Entering a tier starts its first range, or passes an empty bucket.
LEMMA EnterTierKeeps == ASSUME FsInv, EnterTier PROVE FsInv'
  <1>1. scan.n \in 1..3 /\ scan.pc = "tier" /\ scan \in ScanRec
    BY DEF EnterTier, FsInv, RestTyped, ScanRec
  <1>2. Tier(scan.n) \in BucketTiers
    BY <1>1, TierNumbered
  <1>3. CASE buckets[Tier(scan.n)] = <<>>
    <2>1. scan' = [scan EXCEPT !.n = scan.n + 1] /\ UNCHANGED <<filing, rotation, refused, view, fsActive, changes>>
      BY <1>3 DEF EnterTier
    <2>2. scan' = [pc |-> scan.pc, exclude |-> scan.exclude, n |-> scan.n + 1, phase |-> scan.phase,
                   start |-> scan.start, offset |-> scan.offset, len |-> scan.len]
      BY <1>1, <2>1 DEF ScanRec
    <2>3. scan.n + 1 \in 1..4
      BY <1>1
    <2>4. scan' \in ScanRec /\ scan'.n = scan.n + 1 /\ scan'.pc = "tier"
      BY <1>1, <2>2, <2>3 DEF ScanRec
    <2>5. \A i \in DOMAIN buckets[Tier(scan.n)] : buckets[Tier(scan.n)][i].id \in refused
      BY <1>3
    <2> QED  BY <1>1, <2>1, <2>4, <2>5, NextTierTaken
  <1>4. CASE buckets[Tier(scan.n)] # <<>> /\ provenBounds[Tier(scan.n)] > 0
    <2>1. scanProven(scan.n) /\ UNCHANGED <<filing, refused, view, fsActive, changes>>
      BY <1>4 DEF EnterTier
    <2> QED  BY <1>1, <1>4, <2>1, ScanProvenStarts
  <1>5. CASE buckets[Tier(scan.n)] # <<>> /\ ~(provenBounds[Tier(scan.n)] > 0)
    <2>1. scanAll(scan.n) /\ UNCHANGED <<filing, refused, view, fsActive, changes>>
      BY <1>5 DEF EnterTier
    <2>2. provenBounds[Tier(scan.n)] \in Nat
      BY <1>2, FilingTyped DEF FsInv
    <2>3. \A i \in 1..provenBounds[Tier(scan.n)] : FALSE
      BY <2>2, <1>5
    <2> QED  BY <1>1, <1>5, <2>1, <2>3, ScanAllStarts
  <1> QED  BY <1>3, <1>4, <1>5

\* A call that found nobody leaves the filing alone.
LEMMA AcquireNilKeeps == ASSUME FsInv, AcquireNil PROVE FsInv'
  <1> USE DEF AcquireNil
  <1>1. FiledWell(Current)'
    BY FilingKept DEF FsInv
  <1>2. scan' \in ScanRec /\ scan'.pc = "off"
    BY DEF NoScan, ScanRec
  <1>3. RestTyped'
    BY <1>2 DEF FsInv, RestTyped, rotation
  <1> QED  BY <1>1, <1>2, <1>3, NoScanKept

\* The entry a scan visits is one of the bucket, in the proven prefix while that is scanned.
LEMMA VisitedFiled ==
    ASSUME FsInv, Visiting
    PROVE  LET t == Tier(scan.n)
               i == Place(scan.start, scan.offset, scan.len)
           IN  /\ scan.n \in 1..3 /\ t \in BucketTiers /\ scan \in ScanRec
               /\ Visited = buckets[t][i] /\ i \in DOMAIN buckets[t] /\ i <= scan.len
               /\ Visited \in EntryRec /\ Visited.id \in Ids
               /\ positions[Visited.id] = [tier |-> t, index |-> i]
               /\ Visited.proven <=> i <= provenBounds[t]
  <1> DEFINE t == Tier(scan.n)
             i == Place(scan.start, scan.offset, scan.len)
  <1>1. scan \in ScanRec /\ scan.pc = "range" /\ scan.offset < scan.len
    BY DEF Visiting, FsInv, RestTyped
  <1>2. scan.n \in 1..3 /\ scan.len > 0 /\ scan.start < scan.len
    BY <1>1 DEF FsInv, RangeKnown
  <1>3. t \in BucketTiers
    BY <1>2, TierNumbered
  <1>4. scan.len \in Nat \ {0} /\ scan.start \in 0..scan.len - 1 /\ scan.offset \in 0..scan.len - 1
    BY <1>1, <1>2 DEF ScanRec
  <1>5. i \in 1..scan.len
    BY <1>4, RoundTrip
  <1>6. buckets[t] \in Seq(EntryRec) /\ provenBounds[t] \in Nat /\ provenBounds[t] <= Len(buckets[t])
    BY <1>3, FilingTyped DEF FsInv
  <1>7. scan.len <= Len(buckets[t])
    BY <1>1, <1>6 DEF FsInv, RangeKnown
  <1>8. i \in DOMAIN buckets[t]
    BY <1>4, <1>5, <1>6, <1>7
  <1>9. Visited = buckets[t][i]
    BY DEF Visited, Place
  <1>10. /\ buckets[t][i] \in EntryRec /\ buckets[t][i].id \in Ids
         /\ positions[buckets[t][i].id] = [tier |-> t, index |-> i]
         /\ buckets[t][i].proven <=> i <= provenBounds[t]
    BY <1>3, <1>8, FilingTyped DEF FsInv
  <1>11. i <= scan.len
    BY <1>4, <1>5
  <1> HIDE DEF t, i, Visited
  <1>12. /\ scan.n \in 1..3 /\ t \in BucketTiers /\ scan \in ScanRec
         /\ Visited = buckets[t][i] /\ i \in DOMAIN buckets[t] /\ i <= scan.len
         /\ Visited \in EntryRec /\ Visited.id \in Ids
         /\ positions[Visited.id] = [tier |-> t, index |-> i]
         /\ Visited.proven <=> i <= provenBounds[t]
    BY <1>1, <1>2, <1>3, <1>8, <1>9, <1>10, <1>11
  <1> QED  BY <1>12 DEF t, i

\* The entry a scan skips is refused, and is the only one it passes.
LEMMA SkipEntryKeeps == ASSUME FsInv, SkipEntry PROVE FsInv'
  <1>1. Visiting /\ UNCHANGED <<filing, rotation, view, fsActive, changes>>
        /\ scan' = [scan EXCEPT !.offset = scan.offset + 1] /\ refused' = refused \cup {Visited.id}
    BY DEF SkipEntry
  <1>2. /\ scan.n \in 1..3 /\ scan \in ScanRec /\ Visited.id \in Ids
        /\ Visited = buckets[Tier(scan.n)][Place(scan.start, scan.offset, scan.len)]
    BY <1>1, VisitedFiled
  <1>3. scan' = [pc |-> scan.pc, exclude |-> scan.exclude, n |-> scan.n, phase |-> scan.phase,
                 start |-> scan.start, offset |-> scan.offset + 1, len |-> scan.len]
    BY <1>1, <1>2 DEF ScanRec
  <1>4. scan.offset \in Nat /\ scan.len \in Nat /\ scan.offset < scan.len /\ scan.pc = "range"
    BY <1>1, <1>2 DEF ScanRec, Visiting
  <1>5. /\ scan' \in ScanRec /\ scan'.pc = scan.pc /\ scan'.n = scan.n /\ scan'.phase = scan.phase
        /\ scan'.start = scan.start /\ scan'.offset = scan.offset + 1 /\ scan'.len = scan.len
    <2>1. scan.offset + 1 \in Nat
      BY <1>4
    <2>2. scan' \in ScanRec
      BY <1>2, <1>3, <2>1 DEF ScanRec
    <2> QED  BY <1>3, <2>2
  <1>6. FiledWell(Current)'
    BY <1>1, FilingKept DEF FsInv
  <1>7. RestTyped'
    BY <1>1, <1>2, <1>5 DEF FsInv, RestTyped, rotation
  <1>8. buckets' = buckets /\ provenBounds' = provenBounds
    BY <1>1 DEF filing
  <1>9. RangeKnown'
    BY <1>4, <1>5, <1>8 DEF FsInv, RangeKnown
  <1>10. \A k \in 0..scan'.offset - 1 :
            buckets[Tier(scan.n)][Place(scan.start, k, scan.len)].id \in refused'
    <2>1. \A k \in 0..scan'.offset - 1 : k \in 0..scan.offset - 1 \/ k = scan.offset
      BY <1>4, <1>5
    <2> QED  BY <1>1, <1>2, <1>4, <2>1 DEF FsInv, PassedRefused
  <1>11. PassedRefused'
    <2>1. refused \subseteq refused'
      BY <1>1
    <2> QED  BY <1>4, <1>5, <1>8, <1>10, <2>1 DEF FsInv, PassedRefused
  <1> QED  BY <1>6, <1>7, <1>9, <1>11 DEF FsInv

\* A stale entry is filed by what its account is now, and the pass starts over.
LEMMA RefileEntryKeeps == ASSUME FsInv, RefileEntry PROVE FsInv'
  <1> DEFINE a == Visited.id
             s == removeLocked(Current, a)
             r == IF view[a].available /\ view[a].limit > 0 THEN insertLocked(s, a) ELSE s
  <1>1. /\ Visiting /\ SetFiling(r) /\ UNCHANGED <<rotation, view, fsActive, changes>>
        /\ scan' = [NoScan EXCEPT !.pc = "tier", !.exclude = scan.exclude] /\ refused' = {}
    BY DEF RefileEntry
  <1>2. a \in Ids /\ scan \in ScanRec
    BY <1>1, VisitedFiled
  <1> HIDE DEF a
  <1>3. FiledWell(s) /\ s.positions[a] = NoPosition
    BY <1>2, RemoveFiles DEF FsInv
  <1> HIDE DEF s
  <1>4. FiledWell(r)
    BY <1>2, <1>3, InsertFiles DEF FsInv, RestTyped
  <1> HIDE DEF r
  <1>5. FiledWell(Current)'
    BY <1>1, <1>4, FilingSet
  <1>6. scan' = [pc |-> "tier", exclude |-> scan.exclude, n |-> 1, phase |-> "proven",
                 start |-> 0, offset |-> 0, len |-> 0]
    BY <1>1 DEF NoScan
  <1>7. scan' \in ScanRec
    <2>1. scan.exclude \in SUBSET Ids
      BY <1>2 DEF ScanRec
    <2> QED  BY <1>6, <2>1 DEF ScanRec
  <1>8. RestTyped'
    BY <1>1, <1>7 DEF FsInv, RestTyped, rotation
  <1>9. scan'.pc = "tier" /\ scan'.n = 1
    BY <1>6
  <1> QED  BY <1>5, <1>8, <1>9, FreshPass

\* Handing out takes a slot and ends the call.
LEMMA HandOutKeeps == ASSUME FsInv, HandOut PROVE FsInv'
  <1>1. /\ Visiting /\ UNCHANGED <<filing, rotation, view, changes>> /\ scan' = NoScan /\ refused' = {}
        /\ fsActive' = [fsActive EXCEPT ![Visited.id] = @ + 1]
    BY DEF HandOut
  <1>2. FiledWell(Current)'
    BY <1>1, FilingKept DEF FsInv
  <1>3. fsActive' \in [Ids -> Nat]
    <2>1. Visited.id \in Ids
      BY <1>1, VisitedFiled
    <2>2. fsActive \in [Ids -> Nat]
      BY DEF FsInv, RestTyped
    <2> HIDE DEF Visited
    <2> QED  BY <1>1, <2>1, <2>2
  <1>4. scan' \in ScanRec /\ scan'.pc = "off"
    BY <1>1 DEF NoScan, ScanRec
  <1>5. RestTyped'
    BY <1>1, <1>3, <1>4 DEF FsInv, RestTyped, rotation
  <1> QED  BY <1>2, <1>4, <1>5, NoScanKept

\* At the end of a range every entry of it is refused, wherever it started.
LEMMA EndRangeKeeps == ASSUME FsInv, EndRange PROVE FsInv'
  <1> DEFINE t == Tier(scan.n)
  <1>1. /\ scan.pc = "range" /\ scan.offset = scan.len /\ scan \in ScanRec
        /\ UNCHANGED <<filing, refused, view, fsActive, changes>>
    BY DEF EndRange, FsInv, RestTyped
  <1>2. /\ scan.n \in 1..3 /\ scan.len > 0 /\ scan.start < scan.len
        /\ scan.len = IF scan.phase = "proven" THEN provenBounds[t] ELSE Len(buckets[t])
    BY <1>1 DEF FsInv, RangeKnown
  <1>3. t \in BucketTiers
    BY <1>2, TierNumbered
  <1>4. buckets[t] \in Seq(EntryRec) /\ provenBounds[t] \in Nat /\ provenBounds[t] <= Len(buckets[t])
    BY <1>3, FilingTyped DEF FsInv
  <1>5. scan.len \in Nat \ {0} /\ scan.start \in 0..scan.len - 1
    BY <1>1, <1>2 DEF ScanRec
  <1>6. \A k \in 0..scan.len - 1 : buckets[t][Place(scan.start, k, scan.len)].id \in refused
    BY <1>1 DEF FsInv, PassedRefused
  <1>7. \A i \in 1..scan.len : buckets[t][i].id \in refused
    <2> TAKE i \in 1..scan.len
    <2>1. PICK k \in 0..scan.len - 1 : Place(scan.start, k, scan.len) = i
      BY <1>5, RoundTrip
    <2> QED  BY <2>1, <1>6
  <1>8. CASE scan.phase = "proven"
    <2>1. scanAll(scan.n)
      BY <1>8 DEF EndRange
    <2>2. \A i \in 1..provenBounds[t] : buckets[t][i].id \in refused
      BY <1>2, <1>7, <1>8
    <2>3. buckets[t] # <<>>
      BY <1>2, <1>4, <1>8
    <2> QED  BY <1>1, <1>2, <2>1, <2>2, <2>3, ScanAllStarts
  <1>9. CASE scan.phase # "proven"
    <2>1. scan' = [scan EXCEPT !.pc = "tier", !.n = scan.n + 1] /\ UNCHANGED rotation
      BY <1>9 DEF EndRange
    <2>2. \A i \in DOMAIN buckets[t] : buckets[t][i].id \in refused
      BY <1>2, <1>4, <1>7, <1>9
    <2>3. scan' = [pc |-> "tier", exclude |-> scan.exclude, n |-> scan.n + 1, phase |-> scan.phase,
                   start |-> scan.start, offset |-> scan.offset, len |-> scan.len]
      BY <1>1, <2>1 DEF ScanRec
    <2>4. scan.n + 1 \in 1..4
      BY <1>2
    <2>5. scan' \in ScanRec /\ scan'.pc = "tier" /\ scan'.n = scan.n + 1
      BY <1>1, <2>3, <2>4 DEF ScanRec
    <2> QED  BY <1>1, <1>2, <2>1, <2>2, <2>5, NextTierTaken
  <1> QED  BY <1>8, <1>9

\* The accounts themselves: the filing is not touched.
LEMMA FsReleaseKeeps == ASSUME FsInv, NEW a \in Ids, FsRelease(a) PROVE FsInv'
  <1>1. /\ UNCHANGED <<filing, rotation, scan, refused, view, changes>> /\ fsActive[a] > 0
        /\ fsActive' = [fsActive EXCEPT ![a] = @ - 1]
    BY DEF FsRelease
  <1>2. FiledWell(Current)'
    BY <1>1, FilingKept DEF FsInv
  <1>3. fsActive' \in [Ids -> Nat]
    BY <1>1 DEF FsInv, RestTyped
  <1>4. RestTyped'
    BY <1>1, <1>3 DEF FsInv, RestTyped, rotation
  <1>5. buckets' = buckets /\ provenBounds' = provenBounds /\ scan' = scan /\ refused' = refused
    BY <1>1 DEF filing
  <1> QED  BY <1>2, <1>4, <1>5 DEF FsInv, RangeKnown, PassedRefused

\* An account that changes leaves its entry as it was filed.
LEMMA ChangeKeeps == ASSUME FsInv, NEW a \in Ids, Change(a) PROVE FsInv'
  <1>1. /\ UNCHANGED <<filing, rotation, scan, refused, fsActive>>
        /\ \E v \in Views : view' = [view EXCEPT ![a] = v]
    BY DEF Change
  <1>2. FiledWell(Current)'
    BY <1>1, FilingKept DEF FsInv
  <1>3. view' \in [Ids -> Views]
    BY <1>1 DEF FsInv, RestTyped
  <1>4. RestTyped'
    BY <1>1, <1>3 DEF FsInv, RestTyped, rotation
  <1>5. buckets' = buckets /\ provenBounds' = provenBounds /\ scan' = scan /\ refused' = refused
    BY <1>1 DEF filing
  <1> QED  BY <1>2, <1>4, <1>5 DEF FsInv, RangeKnown, PassedRefused

\* Every step keeps the invariant.
LEMMA FsInvKept == FsInv /\ [FsNext]_fsVars => FsInv'
  <1> SUFFICES ASSUME FsInv, [FsNext]_fsVars PROVE FsInv'
    OBVIOUS
  <1>1. CASE \E a \in Ids : Update(a) \/ RemoveID(a) \/ FsRelease(a) \/ Change(a)
    BY <1>1, UpdateKeeps, RemoveIDKeeps, FsReleaseKeeps, ChangeKeeps
  <1>2. CASE \E pool \in SUBSET Ids : FsRebuild(pool)
    BY <1>2, FsRebuildKeeps
  <1>3. CASE \E exclude \in Excludes : AcquireBegin(exclude)
    BY <1>3, AcquireBeginKeeps
  <1>4. CASE ScanStep
    BY <1>4, EnterTierKeeps, AcquireNilKeeps, SkipEntryKeeps, RefileEntryKeeps, HandOutKeeps,
       EndRangeKeeps DEF ScanStep
  <1>5. CASE UNCHANGED fsVars
    <2>1. FiledWell(Current)'
      BY <1>5, FilingKept DEF FsInv, fsVars, filing
    <2> QED  BY <1>5, <2>1 DEF FsInv, fsVars, RestTyped, RangeKnown, PassedRefused
  <1> QED  BY <1>1, <1>2, <1>3, <1>4, <1>5 DEF FsNext

\* The invariant of the scheduler.
LEMMA FsInvariant == FsSpec => []FsInv
  <1> QED  BY FsInvInitially, FsInvKept, PTL DEF FsSpec

-----------------------------------------------------------------------------
(* The theorems. *)

\* Whatever is filed, removed, rebuilt or found stale by a scan, the buckets, the positions
\* and the proven prefixes describe each other (insertLocked, removeLocked, rebuildPositionsLocked).
THEOREM BucketsSoundHolds == FsSpec => []BucketsSound
  <1>1. FsInv => BucketsSound
    <2> SUFFICES ASSUME FsInv PROVE BucketsSound
      OBVIOUS
    <2>1. FiledWell(Current)
      BY DEF FsInv
    <2>2. FsTypeOK
      <3>1. positions \in [Ids -> {NoPosition} \cup [tier : BucketTiers, index : Nat \ {0}]]
        BY <2>1, FilingTyped DEF PlaceRec
      <3>2. \A t \in BucketTiers : \A e \in Range(buckets[t]) : e.id \in Ids
        BY <2>1, FilingTyped DEF Range
      <3> QED  BY <2>1, <3>1, <3>2, FilingTyped DEF FsTypeOK, FsInv, RestTyped
    <2>3. PositionsAgree
      BY <2>1, FilingTyped DEF PositionsAgree
    <2>4. ProvenFirst
      BY <2>1, FilingTyped DEF ProvenFirst, InOrder
    <2> QED  BY <2>2, <2>3, <2>4 DEF BucketsSound
  <1> QED  BY <1>1, FsInvariant, PTL

\* The accounts of the tiers a scan has left behind are refused.
LEMMA AboveRefused ==
    ASSUME FsInv, scan.pc # "off"
    PROVE  Above(scan.n) \subseteq refused
  BY DEF Above, Range, FsInv, PassedRefused

\* An account is handed out after every better one was refused in the same pass, and none is
\* only when all were: no value of the cursors lets scanRangeLocked step over an entry.
THEOREM BestFirstHolds == FsSpec => BestFirst
  <1> DEFINE Best == /\ HandOut =>
                          /\ Above(scan.n) \subseteq refused
                          /\ \/ Visited.proven
                             \/ \A e \in Range(buckets[Tier(scan.n)]) : e.proven => e.id \in refused
                     /\ AcquireNil => Above(4) \subseteq refused
  <1>1. FsInv /\ [FsNext]_fsVars => [Best]_fsVars
    <2> SUFFICES ASSUME FsInv PROVE Best
      OBVIOUS
    <2>1. ASSUME HandOut PROVE Above(scan.n) \subseteq refused
      BY <2>1, AboveRefused DEF HandOut, Visiting
    <2>2. ASSUME HandOut, ~Visited.proven
          PROVE  \A e \in Range(buckets[Tier(scan.n)]) : e.proven => e.id \in refused
      <3> DEFINE t == Tier(scan.n)
      <3>1. Visiting
        BY <2>2 DEF HandOut
      <3>2. /\ scan \in ScanRec /\ t \in BucketTiers
            /\ Place(scan.start, scan.offset, scan.len) \in DOMAIN buckets[t]
            /\ Place(scan.start, scan.offset, scan.len) <= scan.len
            /\ ~(Place(scan.start, scan.offset, scan.len) <= provenBounds[t])
        BY <2>2, <3>1, VisitedFiled
      <3>3. scan.phase = "all"
        <4>1. scan.phase # "proven"
          BY <3>1, <3>2 DEF FsInv, RangeKnown, Visiting
        <4> QED  BY <3>2, <4>1 DEF ScanRec
      <3>4. \A i \in 1..provenBounds[t] : buckets[t][i].id \in refused
        BY <3>1, <3>3 DEF FsInv, PassedRefused, Visiting
      <3>5. ASSUME NEW e \in Range(buckets[t]), e.proven PROVE e.id \in refused
        <4>1. PICK i \in DOMAIN buckets[t] : e = buckets[t][i]
          BY DEF Range
        <4>2. i <= provenBounds[t]
          BY <3>2, <3>5, <4>1, FilingTyped DEF FsInv
        <4>3. provenBounds[t] \in Nat /\ buckets[t] \in Seq(EntryRec)
          BY <3>2, FilingTyped DEF FsInv
        <4>4. i \in 1..provenBounds[t]
          BY <4>2, <4>3
        <4> QED  BY <3>4, <4>1, <4>4
      <3> QED  BY <3>5
    <2>3. ASSUME AcquireNil PROVE Above(4) \subseteq refused
      <3>1. scan.n = 4 /\ scan.pc # "off"
        BY <2>3 DEF AcquireNil, FsInv, RestTyped, ScanRec
      <3> QED  BY <3>1, AboveRefused
    <2> QED  BY <2>1, <2>2, <2>3
  <1> QED  BY <1>1, FsInvariant, PTL DEF FsSpec, BestFirst

-----------------------------------------------------------------------------
(* The refinement. *)

Index == [a \in Ids |-> positions[a].tier]

\* The tier an account is filed under is the one the promise names.
LEMMA FiledUnder ==
    ASSUME view \in [Ids -> Views], NEW a \in Ids
    PROVE  Abstract!filedUnder(view[a]) = IF fileable(a) THEN view[a].tier ELSE "none"
  <1>1. view[a] \in Views
    OBVIOUS
  <1>2. view[a].tier \in {"healthy", "warm", "risky", "banned"}
    BY <1>1, ViewsAssumption
  <1>3. view[a].tier = "banned" => ~view[a].available
    BY <1>1, ViewsAssumption
  <1> QED  BY <1>2, <1>3 DEF Abstract!filedUnder, Abstract!NoEntry, fileable, BucketTiers

\* Removing and inserting an account files it by what it is now.
LEMMA Refiled ==
    ASSUME FsInv, NEW a \in Ids
    PROVE  LET s == removeLocked(Current, a)
               r == insertLocked(s, a)
           IN  /\ FiledWell(s) /\ FiledWell(r) /\ s.positions[a] = NoPosition
               /\ \A b \in Ids : r.positions[b].tier =
                     IF b = a THEN Abstract!filedUnder(view[a]) ELSE positions[b].tier
  <1> DEFINE s == removeLocked(Current, a)
             r == insertLocked(s, a)
  <1>1. view \in [Ids -> Views] /\ FiledWell(Current)
    BY DEF FsInv, RestTyped
  <1>2. /\ FiledWell(s) /\ s.positions[a] = NoPosition
        /\ \A b \in Ids : b # a => s.positions[b].tier = Current.positions[b].tier
    BY <1>1, RemoveFiles
  <1> HIDE DEF s
  <1>3. /\ FiledWell(r) /\ r.positions[a].tier = IF fileable(a) THEN view[a].tier ELSE "none"
        /\ \A b \in Ids : b # a => r.positions[b].tier = s.positions[b].tier
    BY <1>1, <1>2, InsertFiles
  <1>4. Abstract!filedUnder(view[a]) = IF fileable(a) THEN view[a].tier ELSE "none"
    BY <1>1, FiledUnder
  <1>5. Current.positions = positions
    BY DEF Current
  <1> HIDE DEF r
  <1>6. \A b \in Ids : r.positions[b].tier =
                     IF b = a THEN Abstract!filedUnder(view[a]) ELSE positions[b].tier
    BY <1>2, <1>3, <1>4, <1>5
  <1> QED  BY <1>2, <1>3, <1>6 DEF r, s

\* Filing an account by what it is now is the abstract step.
LEMMA FilesAbstractly ==
    ASSUME FsInv, NEW a \in Ids, NEW r, SetFiling(r), UNCHANGED <<view, fsActive>>,
           FiledWell(r),
           \A b \in Ids : r.positions[b].tier =
                     IF b = a THEN Abstract!filedUnder(view[a]) ELSE positions[b].tier
    PROVE  Abstract!File(a)
  <1>1. positions' = r.positions
    BY FilingSet
  <1>2. Index' = [Index EXCEPT ![a] = Abstract!filedUnder(view[a])]
    BY <1>1 DEF Index
  <1> QED  BY <1>2 DEF Abstract!File, Index

\* Every step of the scheduler is one of the index, or changes nothing of it.
LEMMA StepImplements ==
    ASSUME FsInv, [FsNext]_fsVars
    PROVE  [Abstract!Next]_(Abstract!ivars)
  <1>0. view \in [Ids -> Views] /\ positions \in [Ids -> PlaceRec] /\ fsActive \in [Ids -> Nat]
    BY FilingTyped DEF FsInv, RestTyped
  <1>1. ASSUME NEW a \in Ids, Update(a) PROVE Abstract!File(a)
    <2> DEFINE r == insertLocked(removeLocked(Current, a), a)
    <2>1. SetFiling(r) /\ UNCHANGED <<view, fsActive>>
      BY <1>1 DEF Update
    <2>2. FiledWell(r) /\ \A b \in Ids : r.positions[b].tier =
                     IF b = a THEN Abstract!filedUnder(view[a]) ELSE positions[b].tier
      BY Refiled
    <2> HIDE DEF r
    <2> QED  BY <2>1, <2>2, FilesAbstractly
  <1>2. ASSUME NEW a \in Ids, RemoveID(a) PROVE Abstract!Drop(a)
    <2> DEFINE s == removeLocked(Current, a)
    <2>1. SetFiling(s) /\ UNCHANGED <<view, fsActive>>
      BY <1>2 DEF RemoveID
    <2>2. /\ FiledWell(s) /\ s.positions[a] = NoPosition
          /\ \A b \in Ids : b # a => s.positions[b].tier = Current.positions[b].tier
      BY RemoveFiles DEF FsInv
    <2> HIDE DEF s
    <2>3. positions' = s.positions /\ Current.positions = positions
      BY <2>1, <2>2, FilingSet DEF Current
    <2>4. Index' = [Index EXCEPT ![a] = "none"]
      <3>1. s.positions[a].tier = "none"
        BY <2>2 DEF NoPosition
      <3>2. \A b \in Ids : positions'[b].tier = IF b = a THEN "none" ELSE positions[b].tier
        BY <2>2, <2>3, <3>1
      <3> QED  BY <3>2 DEF Index
    <2> QED  BY <2>1, <2>4 DEF Abstract!Drop, Abstract!NoEntry, Index
  <1>3. ASSUME NEW pool \in SUBSET Ids, FsRebuild(pool) PROVE Abstract!Install(pool)
    <2> DEFINE s == rebuilt(pool)
    <2>1. SetFiling(s) /\ UNCHANGED <<view, fsActive>>
      BY <1>3 DEF FsRebuild
    <2>2. FiledWell(s) /\ \A a \in Ids : s.positions[a].tier =
                             IF a \in pool /\ fileable(a) THEN view[a].tier ELSE "none"
      BY <1>0, RebuiltFiles
    <2> HIDE DEF s
    <2>3. positions' = s.positions
      BY <2>1, <2>2, FilingSet
    <2>4. \A a \in Ids : Abstract!filedUnder(view[a]) = IF fileable(a) THEN view[a].tier ELSE "none"
      BY <1>0, FiledUnder
    <2>5. \A a \in Ids : s.positions[a].tier = IF a \in pool THEN Abstract!filedUnder(view[a]) ELSE "none"
      BY <2>2, <2>4
    <2>6. Index' = [a \in Ids |-> IF a \in pool THEN Abstract!filedUnder(view[a]) ELSE "none"]
      BY <2>3, <2>5 DEF Index
    <2> QED  BY <2>1, <2>6 DEF Abstract!Install, Abstract!NoEntry, Index
  <1>4. ASSUME RefileEntry PROVE \E a \in Ids : Abstract!File(a)
    <2>1. PICK a \in Ids : a = Visited.id
      BY <1>4, VisitedFiled DEF RefileEntry
    <2> DEFINE s == removeLocked(Current, a)
               r == insertLocked(s, a)
    <2>2. /\ SetFiling(IF view[a].available /\ view[a].limit > 0 THEN r ELSE s)
          /\ UNCHANGED <<view, fsActive>>
      BY <1>4, <2>1 DEF RefileEntry
    <2>3. ~(view[a].available /\ view[a].limit > 0) => r = s
      BY DEF insertLocked, fileable
    <2>4. FiledWell(r) /\ \A b \in Ids : r.positions[b].tier =
                     IF b = a THEN Abstract!filedUnder(view[a]) ELSE positions[b].tier
      BY Refiled
    <2> HIDE DEF r, s
    <2>5. SetFiling(r)
      BY <2>2, <2>3
    <2> QED  BY <2>2, <2>4, <2>5, FilesAbstractly
  <1>5. ASSUME HandOut PROVE \E a \in Ids : Abstract!HandOut(a)
    <2> DEFINE a == Visited.id
    <2>1. /\ Visiting /\ UNCHANGED <<filing, view>> /\ ~Stale(Visited) /\ acquirable(a)
          /\ fsActive' = [fsActive EXCEPT ![a] = @ + 1]
      BY <1>5 DEF HandOut
    <2>2. /\ a \in Ids /\ Tier(scan.n) \in BucketTiers
          /\ positions[a] = [tier |-> Tier(scan.n), index |-> Place(scan.start, scan.offset, scan.len)]
      BY <2>1, VisitedFiled
    <2>3. view[a].tier = Tier(scan.n)
      BY <2>1 DEF Stale
    <2> HIDE DEF a
    <2>4. Index[a] = view[a].tier /\ Index[a] # "none" /\ Index' = Index
      <3>1. positions[a].tier = Tier(scan.n)
        BY <2>2
      <3> QED  BY <2>1, <2>2, <2>3, <3>1 DEF Index, BucketTiers, filing
    <2>5. Abstract!HandOut(a)
      BY <2>1, <2>4 DEF Abstract!HandOut, Abstract!NoEntry, acquirable, Index
    <2> QED  BY <2>2, <2>5
  <1>6. ASSUME NEW a \in Ids, FsRelease(a) PROVE Abstract!Release(a)
    BY <1>6 DEF FsRelease, filing, Abstract!Release
  <1>7. ASSUME NEW a \in Ids, Change(a) PROVE Abstract!Change(a)
    BY <1>7 DEF Change, filing, Abstract!Change
  <1>8. ASSUME UNCHANGED <<filing, view, fsActive>> PROVE UNCHANGED Abstract!ivars
    BY <1>8 DEF filing, Abstract!ivars
  <1>9. CASE \E a \in Ids : Update(a) \/ RemoveID(a) \/ FsRelease(a) \/ Change(a)
    BY <1>9, <1>1, <1>2, <1>6, <1>7 DEF Abstract!Next
  <1>10. CASE \E pool \in SUBSET Ids : FsRebuild(pool)
    BY <1>10, <1>3 DEF Abstract!Next
  <1>11. CASE \E exclude \in Excludes : AcquireBegin(exclude)
    BY <1>11, <1>8 DEF AcquireBegin
  <1>12. CASE ScanStep
    <2>1. CASE EnterTier
      BY <2>1, <1>8 DEF EnterTier
    <2>2. CASE AcquireNil
      BY <2>2, <1>8 DEF AcquireNil
    <2>3. CASE SkipEntry
      BY <2>3, <1>8 DEF SkipEntry
    <2>4. CASE RefileEntry
      BY <2>4, <1>4 DEF Abstract!Next
    <2>5. CASE HandOut
      BY <2>5, <1>5 DEF Abstract!Next
    <2>6. CASE EndRange
      BY <2>6, <1>8 DEF EndRange
    <2> QED  BY <1>12, <2>1, <2>2, <2>3, <2>4, <2>5, <2>6 DEF ScanStep
  <1>13. CASE UNCHANGED fsVars
    BY <1>13, <1>8 DEF fsVars, filing
  <1> QED  BY <1>9, <1>10, <1>11, <1>12, <1>13 DEF FsNext

\* The scheduler with its buckets, positions and cursors keeps the promise the account pool
\* relies on: an account is handed out only while it is available, filed under its current
\* tier, and has a free slot.
THEOREM ImplementsIndexHolds == FsSpec => ImplementsIndex
  <1>1. FsInit => Abstract!Init
    BY DEF FsInit, Abstract!Init, Abstract!NoEntry, Empty, NoPosition
  <1>2. FsInv /\ [FsNext]_fsVars => [Abstract!Next]_(Abstract!ivars)
    BY StepImplements
  <1> QED  BY <1>1, <1>2, FsInvariant, PTL DEF FsSpec, ImplementsIndex, Abstract!Spec

=============================================================================
