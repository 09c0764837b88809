----------------------------- MODULE BodiesProofs -----------------------------
(***************************************************************************)
(* Bodies, for any logs, filters, windows, hours and bounds: a body reads  *)
(* back as it was written, a search finds the newest rows with its text,   *)
(* and Aggregate counts every row once.                                    *)
(*                                                                         *)
(* A row is Sound when it gives the body it was written with, from the     *)
(* templates there are, and its template is in memory or will be loaded:   *)
(* it stays Sound because templates are only ever added (SoundKept).  Inv  *)
(* is what every step keeps: the memtable holds the last rows written      *)
(* (MemInv), every segment is the columns of some sound rows, each row of  *)
(* one segment only (SegInv, with Holds), the rollups count the rows       *)
(* flushed (RollupInv), and a search holds sound rows and templates enough *)
(* for them (ReaderInv).                                                   *)
(*                                                                         *)
(* The lemmas on the way: sorting a finite set by a key loses nothing,     *)
(* deltas, dictionary references and columns of variables read back as     *)
(* what was encoded (ColumnsIs), and a cut that is taken of parts of a     *)
(* set that keep its newest rows is the cut of the whole (CutIs).          *)
(***************************************************************************)
EXTENDS Bodies, FiniteSetTheorems, SequenceTheorems, WellFoundedInduction, TLAPS

-----------------------------------------------------------------------------
(* Numbers *)

\* A set of numbers that is not empty has a least one.
LEMMA LeastNumber ==
  ASSUME NEW S \in SUBSET Nat, S # {} PROVE \E x \in S : \A y \in S : x <= y
  <1>1. PICK x \in S : \A y \in S : ~(<<y, x>> \in OpToRel(<, Nat))
    BY NatLessThanWellFounded, WFMin
  <1>2. ASSUME NEW y \in S PROVE x <= y
    <2>1. ~(y < x) BY <1>1 DEF OpToRel
    <2>2. QED BY <2>1
  <1>3. QED BY <1>2

\* The sizes of a set and of its parts.
LEMMA PartSize ==
  ASSUME NEW S, IsFiniteSet(S), NEW T \in SUBSET S
  PROVE  /\ IsFiniteSet(T) /\ Cardinality(T) \in Nat /\ Cardinality(S) \in Nat
         /\ Cardinality(T) <= Cardinality(S)
         /\ T # S => Cardinality(T) < Cardinality(S)
  <1>1. IsFiniteSet(T) /\ Cardinality(T) <= Cardinality(S)
        /\ (Cardinality(S) = Cardinality(T) => S = T)
    BY FS_Subset
  <1>2. Cardinality(T) \in Nat /\ Cardinality(S) \in Nat BY <1>1, FS_CardinalityType
  <1>3. QED BY <1>1, <1>2

\* The numbers up to n, and so the places of a sequence.
LEMMA UpTo ==
  ASSUME NEW n \in Nat PROVE IsFiniteSet(1..n) /\ Cardinality(1..n) = n
  <1>1. IsFiniteSet(1..n) /\ Cardinality(1..n) = IF 1 > n THEN 0 ELSE n - 1 + 1
    BY FS_Interval
  <1>2. QED BY <1>1

-----------------------------------------------------------------------------
(* Putting a finite set in order *)

\* Each member has a key of its own, a pair of numbers.
Keyed(S, key) ==
  /\ key \in [S -> Int \X Int]
  /\ \A x, y \in S : key[x] = key[y] => x = y

Below(S, key, x) == {y \in S : Before(key[y], key[x])}

\* Of two keys that differ one comes before the other, and what is before it
\* is before that too.
LEMMA KeysOrdered ==
  ASSUME NEW S, NEW key, Keyed(S, key), NEW x \in S, NEW y \in S
  PROVE  /\ ~Before(key[x], key[x])
         /\ x # y => Before(key[x], key[y]) \/ Before(key[y], key[x])
         /\ Before(key[x], key[y]) => Below(S, key, x) \subseteq Below(S, key, y) /\ x # y
  <1> DEFINE K == Int \X Int
  <1>1. \A z \in S : key[z] \in K /\ key[z] = <<key[z][1], key[z][2]>> /\ key[z][1] \in Int /\ key[z][2] \in Int
    BY DEF Keyed
  <1>2. ~Before(key[x], key[x]) BY <1>1 DEF Before
  <1>3. ASSUME x # y PROVE Before(key[x], key[y]) \/ Before(key[y], key[x])
    <2>1. key[x] # key[y] BY <1>3 DEF Keyed
    <2>2. key[x][1] # key[y][1] \/ key[x][2] # key[y][2] BY <2>1, <1>1
    <2>3. QED BY <2>2, <1>1 DEF Before
  <1>4. ASSUME Before(key[x], key[y]), NEW z \in S, Before(key[z], key[x]) PROVE Before(key[z], key[y])
    BY <1>1, <1>4 DEF Before
  <1>5. QED BY <1>2, <1>3, <1>4 DEF Below

\* A member's rank, from 1, is one of its own and in the order of the keys.
Rank(S, key, x) == Cardinality(Below(S, key, x)) + 1

\* Ranks go up with the keys.
LEMMA RankIs ==
  ASSUME NEW S, IsFiniteSet(S), NEW key, Keyed(S, key), NEW x \in S
  PROVE  /\ Cardinality(S) \in Nat /\ Rank(S, key, x) \in 1..Cardinality(S)
         /\ Cardinality(Below(S, key, x)) \in Nat
         /\ \A y \in S : Before(key[x], key[y]) => Rank(S, key, x) < Rank(S, key, y)
         /\ \A y \in S : Rank(S, key, x) = Rank(S, key, y) => x = y
         /\ \A y \in S : Rank(S, key, x) < Rank(S, key, y) => Before(key[x], key[y])
  <1>1. ASSUME NEW y \in S
        PROVE  /\ IsFiniteSet(Below(S, key, y)) /\ Cardinality(S) \in Nat
               /\ Cardinality(Below(S, key, y)) \in Nat
               /\ Cardinality(Below(S, key, y)) < Cardinality(S)
    <2>1. Below(S, key, y) \in SUBSET S /\ y \notin Below(S, key, y) BY KeysOrdered DEF Below
    <2>2. QED BY <2>1, PartSize
  <1>2. ASSUME NEW y \in S, NEW z \in S, Before(key[y], key[z]) PROVE Rank(S, key, y) < Rank(S, key, z)
    <2>1. Below(S, key, y) \subseteq Below(S, key, z) BY <1>2, KeysOrdered
    <2>2. y \in Below(S, key, z) /\ y \notin Below(S, key, y) BY <1>2, KeysOrdered DEF Below
    <2>3. Below(S, key, y) \in SUBSET Below(S, key, z) /\ Below(S, key, y) # Below(S, key, z) BY <2>1, <2>2
    <2>4. Cardinality(Below(S, key, y)) < Cardinality(Below(S, key, z)) BY <1>1, <2>3, PartSize
    <2>5. QED BY <1>1, <2>4 DEF Rank
  <1>3. \A y \in S : Rank(S, key, y) \in Nat BY <1>1 DEF Rank
  <1>4. ASSUME NEW y \in S, Rank(S, key, x) = Rank(S, key, y) PROVE x = y
    <2>1. ~Before(key[x], key[y]) /\ ~Before(key[y], key[x]) BY <1>2, <1>3, <1>4
    <2>2. QED BY <2>1, KeysOrdered
  <1>5. ASSUME NEW y \in S, Rank(S, key, x) < Rank(S, key, y) PROVE Before(key[x], key[y])
    <2>1. x # y /\ ~Before(key[y], key[x]) BY <1>2, <1>3, <1>5
    <2>2. QED BY <2>1, KeysOrdered
  <1>6. Rank(S, key, x) \in 1..Cardinality(S) BY <1>1 DEF Rank
  <1>7. QED BY <1>1, <1>2, <1>4, <1>5, <1>6

\* Sorted has each member at its rank.
LEMMA SortedIs ==
  ASSUME NEW S, IsFiniteSet(S), NEW key, Keyed(S, key)
  PROVE  /\ Cardinality(S) \in Nat /\ DOMAIN Sorted(S, key) = 1..Cardinality(S)
         /\ Len(Sorted(S, key)) = Cardinality(S) /\ Sorted(S, key) \in Seq(S)
         /\ \A k \in 1..Cardinality(S) : Sorted(S, key)[k] \in S /\ Rank(S, key, Sorted(S, key)[k]) = k
         /\ \A x \in S : Sorted(S, key)[Rank(S, key, x)] = x
         /\ \A k, l \in 1..Cardinality(S) :
              k < l => Before(key[Sorted(S, key)[k]], key[Sorted(S, key)[l]])
         /\ \A k, l \in 1..Cardinality(S) : Sorted(S, key)[k] = Sorted(S, key)[l] => k = l
  <1> DEFINE n == Cardinality(S)
             rank == [x \in S |-> Rank(S, key, x)]
             o == Sorted(S, key)
  <1>1. n \in Nat BY FS_CardinalityType
  <1>2. \A x, y \in S : rank[x] \in 1..n /\ (rank[x] = rank[y] => x = y) BY RankIs
  <1>3. rank \in Injection(S, 1..n) BY <1>2 DEF Injection, IsInjective
  <1>4. IsFiniteSet(1..n) /\ Cardinality(1..n) = n BY <1>1, UpTo
  <1>5. ASSUME NEW k \in 1..n PROVE \E x \in S : rank[x] = k
    <2> HIDE DEF rank, n
    <2>1. rank \in Surjection(S, 1..n) BY <1>3, <1>4, FS_Injection DEF n
    <2>2. QED BY <2>1 DEF Surjection
  <1>6. ASSUME NEW k \in 1..n PROVE o[k] \in S /\ rank[o[k]] = k
    <2>1. o[k] = CHOOSE x \in S : Cardinality(Below(S, key, x)) = k - 1 BY DEF Sorted, Below
    <2>2. PICK x \in S : rank[x] = k BY <1>5
    <2>3. Cardinality(Below(S, key, x)) \in Nat /\ Cardinality(Below(S, key, x)) + 1 = k
      BY <2>2, RankIs DEF Rank
    <2>4. Cardinality(Below(S, key, x)) = k - 1 BY <2>3
    <2>5. o[k] \in S /\ Cardinality(Below(S, key, o[k])) = k - 1
      <3> HIDE DEF o
      <3>1. QED BY <2>1, <2>4
    <2>6. QED BY <2>5 DEF Rank
  <1>7. ASSUME NEW x \in S PROVE o[rank[x]] = x
    BY <1>2, <1>6
  <1>8. ASSUME NEW k \in 1..n, NEW l \in 1..n, k < l PROVE Before(key[o[k]], key[o[l]])
    <2>1. o[k] \in S /\ o[l] \in S /\ rank[o[k]] = k /\ rank[o[l]] = l BY <1>6
    <2>2. Rank(S, key, o[k]) < Rank(S, key, o[l]) BY <2>1, <1>8
    <2>3. QED BY <2>1, <2>2, RankIs
  <1>9. ASSUME NEW k \in 1..n, NEW l \in 1..n, o[k] = o[l] PROVE k = l BY <1>6, <1>9
  <1>10. DOMAIN o = 1..n /\ Len(o) = n /\ o \in Seq(S)
    <2>1. o = [k \in 1..n |-> o[k]] BY DEF Sorted
    <2>2. o \in [1..n -> S] BY <2>1, <1>6
    <2>3. QED BY <1>1, <2>2
  <1>11. QED BY <1>1, <1>6, <1>7, <1>8, <1>9, <1>10

\* Ascending has each member of S after those that are less.
LEMMA AscendingIs ==
  ASSUME NEW S, IsFiniteSet(S), S \subseteq Int
  PROVE  /\ Cardinality(S) \in Nat /\ DOMAIN Ascending(S) = 1..Cardinality(S)
         /\ \A k \in 1..Cardinality(S) : Ascending(S)[k] \in S
         /\ \A x \in S : LET r == Cardinality({y \in S : y < x}) + 1
                         IN  r \in 1..Cardinality(S) /\ Ascending(S)[r] = x
         /\ \A k, l \in 1..Cardinality(S) : Ascending(S)[k] = Ascending(S)[l] => k = l
  <1> DEFINE key == [i \in S |-> <<i, 0>>]
  <1>1. Keyed(S, key) BY DEF Keyed
  <1>2. Ascending(S) = Sorted(S, key) BY DEF Ascending
  <1>3. ASSUME NEW x \in S PROVE Rank(S, key, x) = Cardinality({y \in S : y < x}) + 1
    <2>1. \A y \in S : Before(key[y], key[x]) <=> y < x BY DEF Before
    <2>2. Below(S, key, x) = {y \in S : y < x} BY <2>1 DEF Below
    <2>3. QED BY <2>2 DEF Rank
  <1> HIDE DEF key
  <1>4. QED BY <1>1, <1>2, <1>3, SortedIs, RankIs

-----------------------------------------------------------------------------
(* Templates *)

Templates == Seq(Words \cup {Wild})
Generalizes(t, words) ==
  /\ t \in Templates /\ words \in Seq(Words) /\ Len(t) = Len(words)
  /\ \A i \in DOMAIN words : t[i] = Wild \/ t[i] = words[i]

\* The places of the wildcards are a finite set.
LEMMA WildsFinite ==
  ASSUME NEW t \in Templates
  PROVE  IsFiniteSet(Wilds(t)) /\ Wilds(t) \subseteq 1..Len(t) /\ Len(t) \in Nat /\ DOMAIN t = 1..Len(t)
  <1>1. DOMAIN t = 1..Len(t) /\ Len(t) \in Nat BY DEF Templates
  <1>2. Wilds(t) \in SUBSET (1..Len(t)) BY <1>1 DEF Wilds
  <1>3. IsFiniteSet(Wilds(t)) BY <1>1, <1>2, UpTo, PartSize
  <1>4. QED BY <1>1, <1>2, <1>3

\* varsFor and substitute: a template with the variables of a body it
\* generalizes gives that body again.
LEMMA Filled ==
  ASSUME NEW t, NEW words, Generalizes(t, words)
  PROVE  /\ VarsFor(t, words) \in Seq(Words) /\ Fills(t, VarsFor(t, words))
         /\ Substitute(t, VarsFor(t, words)) = words
  <1> DEFINE W == Wilds(t)
             at == Ascending(W)
             v == VarsFor(t, words)
             r(i) == Cardinality({k \in W : k < i}) + 1
  <1>1. t \in Templates /\ words \in Seq(Words) /\ Len(t) = Len(words) BY DEF Generalizes
  <1>2. /\ IsFiniteSet(W) /\ W \subseteq 1..Len(t) /\ DOMAIN t = 1..Len(t)
        /\ Len(words) \in Nat /\ DOMAIN words = DOMAIN t
    BY <1>1, WildsFinite
  <1>3. W \subseteq Int BY <1>2
  <1>4. /\ Cardinality(W) \in Nat /\ DOMAIN at = 1..Cardinality(W)
        /\ \A k \in 1..Cardinality(W) : at[k] \in W
        /\ \A i \in W : r(i) \in 1..Cardinality(W) /\ at[r(i)] = i
    BY <1>2, <1>3, AscendingIs
  <1>5. v = [k \in 1..Cardinality(W) |-> words[at[k]]] BY <1>4 DEF VarsFor
  <1>6. \A k \in 1..Cardinality(W) : words[at[k]] \in Words BY <1>1, <1>2, <1>4
  <1>7. v \in Seq(Words) /\ Len(v) = Cardinality(W)
    <2> HIDE DEF W, at, v
    <2>1. v \in [1..Cardinality(W) -> Words] BY <1>5, <1>6
    <2>2. QED BY <1>4, <2>1
  <1>8. ASSUME NEW i \in DOMAIN t PROVE Substitute(t, v)[i] = words[i]
    <2>1. CASE t[i] = Wild
      <3>1. i \in W BY <2>1 DEF Wilds
      <3>2. Substitute(t, v)[i] = v[r(i)] BY <2>1 DEF Substitute
      <3>3. v[r(i)] = words[at[r(i)]] BY <1>4, <1>5, <3>1
      <3>4. QED BY <1>4, <3>1, <3>2, <3>3
    <2>2. CASE t[i] # Wild
      <3>1. Substitute(t, v)[i] = t[i] BY <2>2 DEF Substitute
      <3>2. QED BY <1>2, <2>2, <3>1 DEF Generalizes
    <2>3. QED BY <2>1, <2>2
  <1>9. Substitute(t, v) = words
    <2>1. Substitute(t, v) = [i \in DOMAIN t |-> Substitute(t, v)[i]] BY DEF Substitute
    <2>2. words = [i \in DOMAIN t |-> words[i]] BY <1>1, <1>2
    <2> HIDE DEF v
    <2>3. QED BY <1>8, <2>1, <2>2
  <1>10. QED BY <1>7, <1>9 DEF Fills

-----------------------------------------------------------------------------
(* Columns *)

\* Sums of deltas are the numbers again.
LEMMA UndeltaIs ==
  ASSUME NEW v \in Seq(Int) PROVE Undelta(Deltas(v)) = v /\ Len(Deltas(v)) = Len(v) /\ DOMAIN Deltas(v) = DOMAIN v
  <1> DEFINE d == Deltas(v)
             n == Len(v)
             F(g) == g = [i \in 0..n |-> IF i = 0 THEN 0 ELSE g[i - 1] + d[i]]
             g0 == [i \in 0..n |-> IF i = 0 THEN 0 ELSE v[i]]
             sum == CHOOSE g : F(g)
  <1>1. n \in Nat /\ DOMAIN v = 1..n /\ v = [i \in 1..n |-> v[i]] /\ \A i \in 1..n : v[i] \in Int OBVIOUS
  <1>2. d = [i \in 1..n |-> v[i] - (IF i = 1 THEN 0 ELSE v[i - 1])] BY <1>1 DEF Deltas
  <1>3. DOMAIN d = 1..n /\ Len(d) = n BY <1>1, <1>2
  <1>4. \A i \in 1..n : d[i] = v[i] - (IF i = 1 THEN 0 ELSE v[i - 1]) BY <1>2
  <1> HIDE DEF d, n
  <1>5. F(g0)
    <2>1. ASSUME NEW i \in 0..n, i # 0 PROVE g0[i - 1] + d[i] = v[i]
      <3>1. i \in 1..n /\ i - 1 \in 0..n BY <1>1, <2>1
      <3>2. g0[i - 1] = IF i = 1 THEN 0 ELSE v[i - 1] BY <1>1, <3>1
      <3>3. i # 1 => i - 1 \in 1..n BY <1>1, <3>1
      <3>4. (IF i = 1 THEN 0 ELSE v[i - 1]) \in Int /\ v[i] \in Int BY <1>1, <3>1, <3>3
      <3>5. d[i] = v[i] - (IF i = 1 THEN 0 ELSE v[i - 1]) BY <1>4, <3>1
      <3> HIDE DEF g0
      <3>6. QED BY <3>2, <3>4, <3>5
    <2> DEFINE g1 == [i \in 0..n |-> IF i = 0 THEN 0 ELSE g0[i - 1] + d[i]]
    <2>2. \A i \in 0..n : g1[i] = g0[i] BY <2>1
    <2>3. g0 = g1 BY <2>2
    <2>4. QED BY <2>3
  <1>6. F(sum) BY <1>5
  <1>7. \A i \in 0..n : sum[i] = IF i = 0 THEN 0 ELSE sum[i - 1] + d[i]
    <2> HIDE DEF sum
    <2>1. QED BY <1>6
  <1>8. ASSUME NEW i \in 0..n PROVE sum[i] = g0[i]
    <2> DEFINE Bad == {k \in 0..n : sum[k] # g0[k]}
    <2> HIDE DEF sum
    <2>1. SUFFICES ASSUME Bad # {} PROVE FALSE OBVIOUS
    <2>2. Bad \in SUBSET Nat BY <1>1
    <2>3. PICK k \in Bad : \A y \in Bad : k <= y BY <2>1, <2>2, LeastNumber
    <2>4. k \in 0..n /\ sum[k] # g0[k] OBVIOUS
    <2>5. k # 0 BY <1>7, <2>4
    <2>6. k - 1 \in 0..n /\ ~(k <= k - 1) BY <1>1, <2>4, <2>5
    <2>7. sum[k - 1] = g0[k - 1] BY <2>3, <2>6
    <2>8. g0[k] = g0[k - 1] + d[k] BY <1>5, <2>4, <2>5
    <2>9. QED BY <1>7, <2>4, <2>5, <2>7, <2>8
  <1>9. Undelta(d) = [i \in DOMAIN d |-> sum[i]] BY <1>3 DEF Undelta
  <1>10. \A i \in 1..n : sum[i] = v[i]
    <2> HIDE DEF sum
    <2>1. \A i \in 1..n : i \in 0..n /\ i # 0 BY <1>1
    <2>2. QED BY <1>8, <2>1
  <1>11. Undelta(d) = v
    <2> HIDE DEF sum
    <2>1. QED BY <1>1, <1>3, <1>9, <1>10
  <1>12. QED BY <1>1, <1>3, <1>11 DEF d, n

\* A dictionary's value at the reference of a place is the place's value.
LEMMA BuildDictIs ==
  ASSUME NEW T, NEW v \in Seq(T)
  PROVE  LET b == BuildDict(v) IN
         /\ DOMAIN b.refs = DOMAIN v
         /\ \A i \in DOMAIN v : b.dict[b.refs[i]] = v[i] /\ b.refs[i] = CHOOSE k \in DOMAIN b.dict : b.dict[k] = v[i]
         /\ \A i \in DOMAIN v : b.refs[i] \in DOMAIN b.dict
         /\ ToSet(b.dict) = ToSet(v)
  <1> DEFINE S == {i \in DOMAIN v : \A k \in 1..(i - 1) : v[k] # v[i]}
             first == Ascending(S)
             dict == [k \in DOMAIN first |-> v[first[k]]]
             refs == [i \in DOMAIN v |-> CHOOSE k \in DOMAIN dict : dict[k] = v[i]]
  <1>1. Len(v) \in Nat /\ DOMAIN v = 1..Len(v) OBVIOUS
  <1>2. S \in SUBSET (1..Len(v)) /\ S \subseteq Int BY <1>1
  <1>3. IsFiniteSet(S) BY <1>1, <1>2, UpTo, PartSize
  <1>4. ASSUME NEW i \in DOMAIN v PROVE \E k \in S : v[k] = v[i]
    <2> DEFINE E == {k \in DOMAIN v : v[k] = v[i]}
    <2>1. E \in SUBSET Nat /\ E # {} BY <1>1
    <2>2. PICK k \in E : \A y \in E : k <= y BY <2>1, LeastNumber
    <2>3. k \in DOMAIN v /\ v[k] = v[i] OBVIOUS
    <2>4. ASSUME NEW j \in 1..(k - 1) PROVE v[j] # v[k]
      <3>1. j \in DOMAIN v /\ ~(k <= j) BY <1>1, <2>3
      <3>2. QED BY <2>2, <2>3, <3>1
    <2>5. QED BY <2>3, <2>4
  <1>5. /\ Cardinality(S) \in Nat /\ DOMAIN first = 1..Cardinality(S)
        /\ \A k \in 1..Cardinality(S) : first[k] \in S
        /\ \A i \in S : \E k \in 1..Cardinality(S) : first[k] = i
    <2> DEFINE r(i) == Cardinality({y \in S : y < i}) + 1
    <2>1. /\ Cardinality(S) \in Nat /\ DOMAIN first = 1..Cardinality(S)
          /\ \A k \in 1..Cardinality(S) : first[k] \in S
          /\ \A i \in S : r(i) \in 1..Cardinality(S) /\ first[r(i)] = i
      <3> HIDE DEF S
      <3>1. QED BY <1>2, <1>3, AscendingIs
    <2> HIDE DEF S, first, r
    <2>2. QED BY <2>1
  <1>6. ASSUME NEW i \in DOMAIN v PROVE \E k \in DOMAIN dict : dict[k] = v[i]
    <2>1. PICK j \in S : v[j] = v[i] BY <1>4
    <2>2. PICK k \in 1..Cardinality(S) : first[k] = j BY <1>5
    <2> HIDE DEF S, first
    <2>3. QED BY <1>5, <2>1, <2>2
  <1>7. ASSUME NEW i \in DOMAIN v PROVE refs[i] \in DOMAIN dict /\ dict[refs[i]] = v[i]
    <2> HIDE DEF dict
    <2>1. QED BY <1>6
  <1>8. ASSUME NEW k \in DOMAIN dict PROVE \E i \in DOMAIN v : dict[k] = v[i]
    <2>1. first[k] \in S BY <1>5
    <2>2. first[k] \in DOMAIN v BY <2>1
    <2>3. QED BY <2>2
  <1>9. ToSet(dict) = ToSet(v)
    <2>1. \A i \in DOMAIN v : \E k \in DOMAIN dict : dict[k] = v[i] BY <1>6
    <2>2. \A k \in DOMAIN dict : \E i \in DOMAIN v : dict[k] = v[i] BY <1>8
    <2> HIDE DEF dict
    <2>3. QED BY <2>1, <2>2 DEF ToSet
  <1>10. BuildDict(v) = [dict |-> dict, refs |-> refs] BY DEF BuildDict
  <1>11. BuildDict(v).dict = dict /\ BuildDict(v).refs = refs BY <1>10
  <1>12. \A i \in DOMAIN v : refs[i] = CHOOSE k \in DOMAIN dict : dict[k] = v[i] OBVIOUS
  <1> HIDE DEF dict, refs
  <1>13. QED BY <1>7, <1>9, <1>11, <1>12 DEF refs

-----------------------------------------------------------------------------
(* Lists of variables in one column *)

\* The keys of places are the places.
PlaceKey(n) == [p \in Places(n) |-> p]

\* The places are finitely many, and those before the j-th of list i are
\* those of the lists before i and j - 1 more.
LEMMA PlacesIs ==
  ASSUME NEW n \in Seq(Nat)
  PROVE  /\ IsFiniteSet(Places(n)) /\ Keyed(Places(n), PlaceKey(n))
         /\ \A p : p \in Places(n) <=> \E i \in DOMAIN n : \E j \in 1..n[i] : p = <<i, j>>
         /\ \A i \in DOMAIN n : Cardinality({p \in Places(n) : p[1] < i}) \in Nat
         /\ \A i \in DOMAIN n : \A j \in 1..n[i] :
              Rank(Places(n), PlaceKey(n), <<i, j>>) = Cardinality({p \in Places(n) : p[1] < i}) + j
  <1> DEFINE P == Places(n)
             N == 1..Len(n)
             parts == {{i} \X (1..n[i]) : i \in N}
  <1>1. Len(n) \in Nat /\ DOMAIN n = N /\ \A i \in N : n[i] \in Nat /\ i \in Nat OBVIOUS
  <1>2. P = UNION parts BY <1>1 DEF Places
  <1>3. \A p : p \in P <=> \E i \in N : \E j \in 1..n[i] : p = <<i, j>> BY <1>2
  <1>4. IsFiniteSet(P)
    <2> DEFINE g == [i \in N |-> {i} \X (1..n[i])]
    <2>1. g \in Surjection(N, parts) BY DEF Surjection
    <2>2. IsFiniteSet(N) BY <1>1, UpTo
    <2>3. ASSUME NEW T \in parts PROVE IsFiniteSet(T)
      <3>1. PICK i \in N : T = {i} \X (1..n[i]) OBVIOUS
      <3>2. IsFiniteSet({i}) BY FS_Singleton
      <3>3. IsFiniteSet(1..n[i]) BY <1>1, UpTo
      <3>4. QED BY <3>1, <3>2, <3>3, FS_Product
    <2> HIDE DEF g, parts, N
    <2>4. IsFiniteSet(parts) BY <2>1, <2>2, FS_Surjection
    <2>5. IsFiniteSet(UNION parts) BY <2>3, <2>4, FS_UNION
    <2>6. QED BY <1>2, <2>5
  <1> HIDE DEF P, parts
  <1>5. \A p \in P : p \in Int \X Int
    <2>1. \A i \in N : \A j \in 1..n[i] : i \in Int /\ j \in Int BY <1>1
    <2>2. QED BY <1>3, <2>1
  <1>6. Keyed(P, PlaceKey(n))
    <2>1. PlaceKey(n) = [p \in P |-> p] BY DEF PlaceKey, P
    <2>2. QED BY <1>5, <2>1 DEF Keyed
  <1>7. ASSUME NEW i \in N
        PROVE  /\ IsFiniteSet({p \in P : p[1] < i}) /\ Cardinality({p \in P : p[1] < i}) \in Nat
    <2>1. {p \in P : p[1] < i} \in SUBSET P OBVIOUS
    <2>2. QED BY <1>4, <2>1, PartSize
  <1>8. ASSUME NEW i \in N, NEW j \in 1..n[i]
        PROVE  Rank(P, PlaceKey(n), <<i, j>>) = Cardinality({p \in P : p[1] < i}) + j
    <2> DEFINE B == Below(P, PlaceKey(n), <<i, j>>)
               E == {p \in P : p[1] < i}
               F == {i} \X (1..(j - 1))
    <2>1. <<i, j>> \in P BY <1>3
    <2>2. B = {p \in P : Before(p, <<i, j>>)} BY <2>1 DEF Below, PlaceKey, P
    <2>3. j - 1 \in Nat /\ 1..(j - 1) \subseteq 1..n[i] BY <1>1
    <2>4. ASSUME NEW p \in F PROVE p \in P /\ Before(p, <<i, j>>) /\ ~(p[1] < i)
      <3>1. PICK k \in 1..(j - 1) : p = <<i, k>> OBVIOUS
      <3>2. k \in 1..n[i] /\ k < j BY <2>3
      <3>3. p[1] = i /\ p[2] = k BY <3>1
      <3>4. p \in P BY <1>3, <3>1, <3>2
      <3>5. QED BY <1>1, <3>2, <3>3, <3>4 DEF Before
    <2>5. ASSUME NEW p \in P, Before(p, <<i, j>>), ~(p[1] < i) PROVE p \in F
      <3>1. PICK h \in N, k \in Nat : p = <<h, k>> /\ k \in 1..n[h] BY <1>1, <1>3
      <3>2. h = i /\ k < j BY <1>1, <2>5, <3>1 DEF Before
      <3>3. QED BY <3>1, <3>2
    <2>6. ASSUME NEW p \in P, p[1] < i PROVE Before(p, <<i, j>>) BY <2>6 DEF Before
    <2>7. B = E \cup F /\ E \cap F = {}
      <3> HIDE DEF F
      <3>1. QED BY <2>2, <2>4, <2>5, <2>6
    <2>8. IsFiniteSet(F) /\ Cardinality(F) = j - 1
      <3>1. IsFiniteSet({i}) /\ Cardinality({i}) = 1 BY FS_Singleton
      <3>2. IsFiniteSet(1..(j - 1)) /\ Cardinality(1..(j - 1)) = j - 1 BY <2>3, UpTo
      <3>3. IsFiniteSet(F) /\ Cardinality(F) = Cardinality({i}) * Cardinality(1..(j - 1))
        BY <3>1, <3>2, FS_Product
      <3>4. 1 * (j - 1) = j - 1 BY <2>3
      <3>5. QED BY <3>1, <3>2, <3>3, <3>4
    <2>9. IsFiniteSet(E) /\ Cardinality(E) \in Nat BY <1>7
    <2> HIDE DEF B, E, F
    <2>10. Cardinality(B) = Cardinality(E) + Cardinality(F) - Cardinality(E \cap F)
      BY <2>7, <2>8, <2>9, FS_Union
    <2>11. Cardinality(E \cap F) = 0 BY <2>7, FS_EmptySet
    <2>12. Cardinality(B) + 1 = Cardinality(E) + j BY <2>3, <2>8, <2>9, <2>10, <2>11
    <2>13. QED BY <2>12 DEF Rank, B, E
  <1>9. QED BY <1>1, <1>3, <1>4, <1>6, <1>7, <1>8 DEF P

-----------------------------------------------------------------------------
(* A row is read back from the columns *)

Services == {l.svc : l \in Inputs}
Rows ==
  {r \in [id : Nat, ts : Nat, svc : Services, tmpl : Nat, vars : Seq(Words), raw : Seq(Words)] :
     r.tmpl # 0 => r.raw = <<>>}

\* What was encoded at place i is read there.
LEMMA ColumnsIs ==
  ASSUME NEW rows \in Seq(Rows), NEW i \in DOMAIN rows
  PROVE  RowAt(Columns(rows), i) = rows[i]
  <1> DEFINE s == Columns(rows)
             D == DOMAIN rows
             nv == [k \in D |-> Len(rows[k].vars)]
             at == Sorted(Places(nv), PlaceKey(nv))
             R == {k \in D : rows[k].tmpl = 0}
             raws == Ascending(R)
             svc == BuildDict([k \in D |-> rows[k].svc])
             r == rows[i]
  <1>1. Len(rows) \in Nat /\ D = 1..Len(rows) /\ \A k \in D : rows[k] \in Rows OBVIOUS
  <1>2. \A k \in D : /\ rows[k].id \in Int /\ rows[k].ts \in Int /\ rows[k].svc \in Services
                     /\ rows[k].vars \in Seq(Words) /\ Len(rows[k].vars) \in Nat /\ rows[k].raw \in Seq(Words)
                     /\ (rows[k].tmpl # 0 => rows[k].raw = <<>>)
    <2>1. \A x \in Rows : /\ x.id \in Int /\ x.ts \in Int /\ x.svc \in Services /\ x.vars \in Seq(Words)
                          /\ x.raw \in Seq(Words) /\ (x.tmpl # 0 => x.raw = <<>>)
      BY DEF Rows
    <2>2. \A x \in Seq(Words) : Len(x) \in Nat OBVIOUS
    <2> HIDE DEF D
    <2>3. QED BY <1>1, <2>1, <2>2
  <1> HIDE DEF D
  <1>3. /\ s.ids = Deltas([k \in D |-> rows[k].id]) /\ s.ts = Deltas([k \in D |-> rows[k].ts])
        /\ s.svcDict = svc.dict /\ s.svcRefs = svc.refs /\ s.tmpl = [k \in D |-> rows[k].tmpl]
        /\ s.nvars = nv /\ s.vars = [k \in DOMAIN at |-> rows[at[k][1]].vars[at[k][2]]]
        /\ s.raw = [k \in DOMAIN raws |-> rows[raws[k]].raw]
    BY DEF Columns, PlaceKey, D
  <1>4. Undelta(s.ids)[i] = r.id
    <2> DEFINE v == [k \in D |-> rows[k].id]
    <2>1. v \in Seq(Int) BY <1>1, <1>2
    <2>2. v[i] = r.id BY DEF D
    <2> HIDE DEF v
    <2>3. Undelta(Deltas(v)) = v BY <2>1, UndeltaIs
    <2>4. s.ids = Deltas(v) BY <1>3 DEF v
    <2> HIDE DEF s
    <2>5. QED BY <2>2, <2>3, <2>4
  <1>5. Undelta(s.ts)[i] = r.ts
    <2> DEFINE v == [k \in D |-> rows[k].ts]
    <2>1. v \in Seq(Int) BY <1>1, <1>2
    <2>2. v[i] = r.ts BY DEF D
    <2> HIDE DEF v
    <2>3. Undelta(Deltas(v)) = v BY <2>1, UndeltaIs
    <2>4. s.ts = Deltas(v) BY <1>3 DEF v
    <2> HIDE DEF s
    <2>5. QED BY <2>2, <2>3, <2>4
  <1>6. s.svcDict[s.svcRefs[i]] = r.svc
    <2> DEFINE v == [k \in D |-> rows[k].svc]
    <2>1. v \in Seq(Services) /\ DOMAIN v = D BY <1>1, <1>2
    <2>2. v[i] = r.svc BY DEF D
    <2> HIDE DEF v
    <2>3. i \in DOMAIN v BY <2>1 DEF D
    <2>4. BuildDict(v).dict[BuildDict(v).refs[i]] = v[i] BY <2>1, <2>3, BuildDictIs
    <2>5. s.svcDict = BuildDict(v).dict /\ s.svcRefs = BuildDict(v).refs BY <1>3 DEF v
    <2> HIDE DEF s
    <2>6. QED BY <2>2, <2>4, <2>5
  <1>7. s.tmpl[i] = r.tmpl
    <2> HIDE DEF s
    <2>1. QED BY <1>3 DEF D
  <1>8. nv \in Seq(Nat) /\ DOMAIN nv = D /\ nv[i] = Len(r.vars) /\ nv[i] \in Nat BY <1>1, <1>2 DEF D
  <1>9. Vars(s, i) = r.vars
    <2> DEFINE st == VarStart(s, i)
    <2>1. /\ IsFiniteSet(Places(nv)) /\ Keyed(Places(nv), PlaceKey(nv))
          /\ \A p : p \in Places(nv) <=> \E k \in D : \E j \in 1..nv[k] : p = <<k, j>>
          /\ \A k \in D : Cardinality({p \in Places(nv) : p[1] < k}) \in Nat
          /\ \A k \in D : \A j \in 1..nv[k] :
               Rank(Places(nv), PlaceKey(nv), <<k, j>>) = Cardinality({p \in Places(nv) : p[1] < k}) + j
      <3> HIDE DEF nv
      <3>1. QED BY <1>8, PlacesIs
    <2>2. st = Cardinality({p \in Places(nv) : p[1] < i})
      <3> HIDE DEF s, nv
      <3>1. QED BY <1>3 DEF VarStart
    <2>3. i \in D BY DEF D
    <2>4. st \in Nat /\ \A j \in 1..nv[i] : <<i, j>> \in Places(nv) /\ Rank(Places(nv), PlaceKey(nv), <<i, j>>) = st + j
      <3> HIDE DEF st, nv
      <3>1. QED BY <2>1, <2>2, <2>3
    <2>5. /\ Cardinality(Places(nv)) \in Nat /\ DOMAIN at = 1..Cardinality(Places(nv))
          /\ \A j \in 1..nv[i] : st + j \in DOMAIN at /\ at[st + j] = <<i, j>>
      <3> HIDE DEF st, nv
      <3>1. Cardinality(Places(nv)) \in Nat /\ DOMAIN at = 1..Cardinality(Places(nv)) BY <2>1, SortedIs
      <3>2. \A x \in Places(nv) : at[Rank(Places(nv), PlaceKey(nv), x)] = x BY <2>1, SortedIs
      <3>3. \A x \in Places(nv) : Rank(Places(nv), PlaceKey(nv), x) \in 1..Cardinality(Places(nv)) BY <2>1, RankIs
      <3>4. QED BY <2>4, <3>1, <3>2, <3>3
    <2>6. \A j \in 1..nv[i] : s.vars[st + j] = r.vars[j]
      <3> DEFINE col == [k \in DOMAIN at |-> rows[at[k][1]].vars[at[k][2]]]
      <3> HIDE DEF s, at, st, nv
      <3>1. ASSUME NEW j \in 1..nv[i] PROVE col[st + j] = r.vars[j]
        <4>1. st + j \in DOMAIN at /\ at[st + j] = <<i, j>> BY <2>5
        <4>2. at[st + j][1] = i /\ at[st + j][2] = j BY <4>1
        <4>3. QED BY <4>1, <4>2
      <3>2. s.vars = col BY <1>3
      <3>3. QED BY <3>1, <3>2
    <2>7. Vars(s, i) = SubSeq(s.vars, st + 1, st + nv[i])
      <3> HIDE DEF s, nv
      <3>1. QED BY <1>3 DEF Vars
    <2> HIDE DEF s, st, nv
    <2>8. /\ r.vars \in Seq(Words) /\ DOMAIN r.vars = 1..nv[i]
          /\ \A j \in 1..nv[i] : r.vars[j] \in Words
      <3>1. \A x \in Seq(Words) : DOMAIN x = 1..Len(x) /\ \A j \in 1..Len(x) : x[j] \in Words OBVIOUS
      <3>2. r.vars \in Seq(Words) BY <1>2, <2>3
      <3> HIDE DEF r
      <3>3. QED BY <1>8, <3>1, <3>2
    <2>9. \A k \in (st + 1)..(st + nv[i]) : s.vars[k] \in Words
      <3>1. ASSUME NEW k \in (st + 1)..(st + nv[i]) PROVE s.vars[k] \in Words
        <4>1. k - st \in 1..nv[i] /\ st + (k - st) = k BY <1>8, <2>4
        <4>2. s.vars[k] = r.vars[k - st] BY <2>6, <4>1
        <4>3. QED BY <2>8, <4>1, <4>2
      <3>2. QED BY <3>1
    <2> DEFINE sub == SubSeq(s.vars, st + 1, st + nv[i])
    <2>10. /\ sub \in Seq(Words) /\ Len(sub) = (IF st + 1 <= st + nv[i] THEN (st + nv[i]) - (st + 1) + 1 ELSE 0)
           /\ \A j \in 1..((st + nv[i]) - (st + 1) + 1) : sub[j] = s.vars[(st + 1) + j - 1]
      <3>1. st + 1 \in Int /\ st + nv[i] \in Int BY <1>8, <2>4
      <3>2. QED BY <2>9, <3>1, SubSeqProperties
    <2> HIDE DEF sub
    <2>11. Len(sub) = nv[i] /\ \A j \in 1..nv[i] : sub[j] = s.vars[st + j]
      <3>1. (st + nv[i]) - (st + 1) + 1 = nv[i] BY <1>8, <2>4
      <3>2. \A j \in 1..nv[i] : (st + 1) + j - 1 = st + j BY <1>8, <2>4
      <3>3. Len(sub) = nv[i] BY <1>8, <2>4, <2>10, <3>1
      <3>4. QED BY <2>10, <3>1, <3>2, <3>3
    <2>12. sub = r.vars
      <3>1. \A j \in 1..nv[i] : sub[j] = r.vars[j] BY <2>6, <2>11
      <3>2. DOMAIN sub = 1..nv[i] BY <2>10, <2>11
      <3>3. \A x \in Seq(Words) : x = [j \in DOMAIN x |-> x[j]] OBVIOUS
      <3>4. sub = [j \in 1..nv[i] |-> sub[j]] /\ r.vars = [j \in 1..nv[i] |-> r.vars[j]]
        BY <2>8, <2>10, <3>2, <3>3
      <3> HIDE DEF r
      <3>5. QED BY <3>1, <3>4
    <2>13. QED BY <2>7, <2>12 DEF sub
  <1>10. RawBytes(s, i) = r.raw
    <2>1. CASE r.tmpl # 0
      <3> HIDE DEF s
      <3>1. QED BY <1>2, <1>7, <2>1 DEF RawBytes, D
    <2>2. CASE r.tmpl = 0
      <3> DEFINE x == Cardinality({k \in R : k < i}) + 1
      <3>1. R \in SUBSET (1..Len(rows)) /\ R \subseteq Int BY <1>1
      <3>2. IsFiniteSet(R) BY <1>1, <3>1, UpTo, PartSize
      <3>3. i \in R BY <2>2 DEF D
      <3>4. x \in DOMAIN raws /\ raws[x] = i
        <4> DEFINE y(k) == Cardinality({j \in R : j < k}) + 1
        <4>1. DOMAIN raws = 1..Cardinality(R) /\ \A k \in R : y(k) \in 1..Cardinality(R) /\ raws[y(k)] = k
          <5> HIDE DEF R
          <5>1. QED BY <3>1, <3>2, AscendingIs
        <4>2. x = y(i) OBVIOUS
        <4> HIDE DEF R, x, y, raws
        <4>3. QED BY <3>3, <4>1, <4>2
      <3>5. {k \in DOMAIN s.tmpl : s.tmpl[k] = 0 /\ k < i} = {k \in R : k < i}
        <4> HIDE DEF s
        <4>1. QED BY <1>3
      <3> HIDE DEF s, R, raws
      <3>6. RawBytes(s, i) = s.raw[x] BY <1>7, <2>2, <3>5 DEF RawBytes
      <3>7. s.raw[x] = rows[raws[x]].raw BY <1>3, <3>4
      <3>8. QED BY <3>4, <3>6, <3>7
    <2>3. QED BY <2>1, <2>2
  <1> HIDE DEF s
  <1>11. RowAt(s, i) = [id |-> r.id, ts |-> r.ts, svc |-> r.svc, tmpl |-> r.tmpl, vars |-> r.vars, raw |-> r.raw]
    BY <1>4, <1>5, <1>6, <1>7, <1>9, <1>10 DEF RowAt
  <1>12. r = [id |-> r.id, ts |-> r.ts, svc |-> r.svc, tmpl |-> r.tmpl, vars |-> r.vars, raw |-> r.raw]
    BY <1>1 DEF D, Rows
  <1>13. QED BY <1>11, <1>12 DEF s

-----------------------------------------------------------------------------
(* A segment holds rows *)

\* s has the columns of rows that differ in their ids and go up in time.
Holds(s, rows) ==
  /\ rows \in Seq(Rows) /\ rows # <<>>
  /\ \A i, k \in DOMAIN rows : rows[i].id = rows[k].id => i = k
  /\ \A i, k \in DOMAIN rows : i <= k => rows[i].ts <= rows[k].ts
  /\ s = [Columns(rows) EXCEPT !.damaged = s.damaged]

\* What the parts of a reader get from such a segment.
LEMMA HoldsIs ==
  ASSUME NEW s, NEW rows, Holds(s, rows)
  PROVE  /\ DOMAIN s.ids = DOMAIN rows /\ Len(s.ts) = Len(rows) /\ RowsOf(s) = ToSet(rows)
         /\ Len(rows) \in Nat /\ DOMAIN rows = 1..Len(rows) /\ Len(rows) \in DOMAIN rows
         /\ \A i \in DOMAIN rows :
              /\ rows[i] \in Rows /\ RowAt(s, i) = rows[i]
              /\ Undelta(s.ts)[i] = rows[i].ts /\ s.tmpl[i] = rows[i].tmpl
              /\ Vars(s, i) = rows[i].vars /\ RawBytes(s, i) = rows[i].raw
              /\ s.svcRefs[i] \in DOMAIN s.svcDict /\ s.svcDict[s.svcRefs[i]] = rows[i].svc
              /\ s.svcRefs[i] = CHOOSE k \in DOMAIN s.svcDict : s.svcDict[k] = rows[i].svc
         /\ \A x : x \in ToSet(s.svcDict) <=> \E i \in DOMAIN rows : x = rows[i].svc
  <1> DEFINE c == Columns(rows)
             D == DOMAIN rows
             svcs == [i \in D |-> rows[i].svc]
             ids == [i \in D |-> rows[i].id]
             times == [i \in D |-> rows[i].ts]
  <1>1. /\ rows \in Seq(Rows) /\ Len(rows) \in Nat /\ D = 1..Len(rows) /\ Len(rows) \in D
        /\ \A i \in D : rows[i] \in Rows
    <2>1. rows \in Seq(Rows) /\ rows # <<>> BY DEF Holds
    <2>2. QED BY <2>1
  <1>2. /\ s.ids = c.ids /\ s.ts = c.ts /\ s.svcDict = c.svcDict /\ s.svcRefs = c.svcRefs /\ s.tmpl = c.tmpl
        /\ s.nvars = c.nvars /\ s.vars = c.vars /\ s.raw = c.raw
    <2>1. c = [ids |-> c.ids, ts |-> c.ts, svcDict |-> c.svcDict, svcRefs |-> c.svcRefs, tmpl |-> c.tmpl,
               nvars |-> c.nvars, vars |-> c.vars, raw |-> c.raw, damaged |-> c.damaged]
      BY DEF Columns
    <2>2. s = [c EXCEPT !.damaged = s.damaged] BY DEF Holds
    <2> HIDE DEF c
    <2> DEFINE e == [c EXCEPT !.damaged = s.damaged]
    <2>3. /\ e.ids = c.ids /\ e.ts = c.ts /\ e.svcDict = c.svcDict /\ e.svcRefs = c.svcRefs /\ e.tmpl = c.tmpl
          /\ e.nvars = c.nvars /\ e.vars = c.vars /\ e.raw = c.raw
      BY <2>1
    <2> HIDE DEF e
    <2>4. s = e BY <2>2 DEF e
    <2>5. QED BY <2>3, <2>4
  <1>3. c.ids = Deltas(ids) /\ c.ts = Deltas(times)
        /\ c.svcDict = BuildDict(svcs).dict /\ c.svcRefs = BuildDict(svcs).refs
    BY DEF Columns
  <1>4. ids \in Seq(Int) /\ times \in Seq(Int) /\ svcs \in Seq(Services)
        /\ DOMAIN ids = D /\ DOMAIN times = D /\ DOMAIN svcs = D /\ Len(times) = Len(rows)
    <2>1. \A x \in Rows : x.id \in Int /\ x.ts \in Int /\ x.svc \in Services BY DEF Rows
    <2> HIDE DEF D
    <2>2. \A i \in D : rows[i].id \in Int /\ rows[i].ts \in Int /\ rows[i].svc \in Services BY <1>1, <2>1
    <2>3. QED BY <1>1, <2>2
  <1> HIDE DEF c
  <1>5. DOMAIN s.ids = D /\ Len(s.ts) = Len(rows)
    <2> HIDE DEF ids, times, D
    <2>1. QED BY <1>2, <1>3, <1>4, UndeltaIs
  <1>6. ASSUME NEW i \in D PROVE RowAt(s, i) = rows[i]
    <2>1. VarStart(s, i) = VarStart(c, i) BY <1>2 DEF VarStart
    <2>2. Vars(s, i) = Vars(c, i) BY <1>2, <2>1 DEF Vars
    <2>3. RawBytes(s, i) = RawBytes(c, i) BY <1>2 DEF RawBytes
    <2>4. RowAt(s, i) = RowAt(c, i) BY <1>2, <2>2, <2>3 DEF RowAt
    <2>5. RowAt(c, i) = rows[i] BY <1>1, ColumnsIs DEF c
    <2>6. QED BY <2>4, <2>5
  <1>7. ASSUME NEW i \in D
        PROVE  /\ Undelta(s.ts)[i] = rows[i].ts /\ s.tmpl[i] = rows[i].tmpl
               /\ Vars(s, i) = rows[i].vars /\ RawBytes(s, i) = rows[i].raw
    <2> DEFINE r == RowAt(s, i)
    <2>1. r.ts = Undelta(s.ts)[i] /\ r.tmpl = s.tmpl[i] /\ r.vars = Vars(s, i) /\ r.raw = RawBytes(s, i)
      BY DEF RowAt
    <2> HIDE DEF r
    <2>2. r = rows[i] BY <1>6 DEF r
    <2>3. QED BY <2>1, <2>2
  <1>8. /\ \A i \in D : /\ s.svcRefs[i] \in DOMAIN s.svcDict /\ s.svcDict[s.svcRefs[i]] = svcs[i]
                        /\ s.svcRefs[i] = CHOOSE k \in DOMAIN s.svcDict : s.svcDict[k] = svcs[i]
        /\ ToSet(s.svcDict) = ToSet(svcs)
    <2> DEFINE b == BuildDict(svcs)
    <2>1. s.svcDict = b.dict /\ s.svcRefs = b.refs BY <1>2, <1>3
    <2>2. /\ \A i \in D : b.dict[b.refs[i]] = svcs[i] /\ b.refs[i] = CHOOSE k \in DOMAIN b.dict : b.dict[k] = svcs[i]
          /\ \A i \in D : b.refs[i] \in DOMAIN b.dict
          /\ ToSet(b.dict) = ToSet(svcs)
      <3>1. svcs \in Seq(Services) /\ DOMAIN svcs = D BY <1>4
      <3> HIDE DEF svcs, D
      <3>2. /\ \A i \in DOMAIN svcs : b.dict[b.refs[i]] = svcs[i] /\ b.refs[i] = CHOOSE k \in DOMAIN b.dict : b.dict[k] = svcs[i]
            /\ \A i \in DOMAIN svcs : b.refs[i] \in DOMAIN b.dict
            /\ ToSet(b.dict) = ToSet(svcs)
        BY <3>1, BuildDictIs
      <3> HIDE DEF b
      <3>3. QED BY <3>1, <3>2
    <2> HIDE DEF b, svcs, D
    <2>3. QED BY <2>1, <2>2
  <1>9. \A i \in D : svcs[i] = rows[i].svc OBVIOUS
  <1>10. \A x : x \in ToSet(svcs) <=> \E i \in D : x = rows[i].svc BY DEF ToSet
  <1>11. RowsOf(s) = ToSet(rows)
    <2>1. RowsOf(s) = {RowAt(s, i) : i \in D} BY <1>5 DEF RowsOf
    <2>2. QED BY <1>6, <2>1 DEF ToSet
  <1> HIDE DEF svcs
  <1>12. QED BY <1>1, <1>5, <1>6, <1>7, <1>8, <1>9, <1>10, <1>11

\* A damaged segment still holds its rows.
LEMMA HoldsDamaged ==
  ASSUME NEW s, NEW rows, Holds(s, rows), NEW x PROVE Holds([s EXCEPT !.damaged = x], rows)
  <1> DEFINE c == Columns(rows)
             d == [s EXCEPT !.damaged = x]
  <1>1. c = [ids |-> c.ids, ts |-> c.ts, svcDict |-> c.svcDict, svcRefs |-> c.svcRefs, tmpl |-> c.tmpl,
             nvars |-> c.nvars, vars |-> c.vars, raw |-> c.raw, damaged |-> c.damaged]
    BY DEF Columns
  <1>2. s = [c EXCEPT !.damaged = s.damaged] BY DEF Holds
  <1> HIDE DEF c
  <1>3. d = [c EXCEPT !.damaged = x]
    <2> DEFINE y == s.damaged
    <2>1. s = [c EXCEPT !.damaged = y] BY <1>2
    <2> HIDE DEF y
    <2>2. QED BY <1>1, <2>1
  <1>4. d.damaged = x BY <1>1, <1>3
  <1> HIDE DEF d
  <1>5. d = [c EXCEPT !.damaged = d.damaged] BY <1>3, <1>4
  <1>6. QED BY <1>5 DEF Holds, c, d

\* encodeRowsToColumns and Write: the segment made of rows that differ in
\* their ids holds them.
LEMMA EncodeIs ==
  ASSUME NEW rows \in Seq(Rows), rows # <<>>,
         \A i, k \in DOMAIN rows : rows[i].id = rows[k].id => i = k
  PROVE  \E rs : Holds(Encode(rows), rs) /\ ToSet(rs) = ToSet(rows)
  <1> DEFINE D == DOMAIN rows
             key == [i \in D |-> <<rows[i].ts, i>>]
             order == Sorted(D, key)
             n == Cardinality(D)
             rs == [k \in DOMAIN order |-> rows[order[k]]]
  <1>1. D = 1..Len(rows) /\ Len(rows) \in Nat /\ Len(rows) # 0 /\ \A i \in D : rows[i] \in Rows OBVIOUS
  <1>2. IsFiniteSet(D) /\ n = Len(rows) BY <1>1, UpTo
  <1>3. \A i \in D : rows[i].ts \in Int
    <2>1. \A x \in Rows : x.ts \in Int BY DEF Rows
    <2> HIDE DEF D
    <2>2. QED BY <1>1, <2>1
  <1>4. Keyed(D, key) /\ \A i \in D : key[i][1] = rows[i].ts
    <2>1. \A i \in D : i \in Int BY <1>1
    <2> HIDE DEF D
    <2>2. QED BY <1>3, <2>1 DEF Keyed
  <1> HIDE DEF key
  <1>5. /\ DOMAIN order = 1..n /\ n \in Nat
        /\ \A k \in 1..n : order[k] \in D
        /\ \A k, l \in 1..n : k < l => Before(key[order[k]], key[order[l]])
        /\ \A k, l \in 1..n : order[k] = order[l] => k = l
    BY <1>2, <1>4, SortedIs
  <1>6. \A x \in D : \E k \in 1..n : order[k] = x
    <2>1. ASSUME NEW x \in D PROVE \E k \in 1..n : order[k] = x
      <3>1. order[Rank(D, key, x)] = x BY <1>2, <1>4, SortedIs
      <3>2. Rank(D, key, x) \in 1..n BY <1>2, <1>4, RankIs
      <3>3. QED BY <3>1, <3>2
    <2>2. QED BY <2>1
  <1> HIDE DEF order, n
  <1>7. rs \in Seq(Rows) /\ rs # <<>> /\ DOMAIN rs = 1..n
    <2>1. \A k \in 1..n : rows[order[k]] \in Rows
      <3> HIDE DEF D
      <3>1. QED BY <1>1, <1>5
    <2>2. rs \in Seq(Rows) /\ Len(rs) = n BY <1>5, <2>1
    <2>3. QED BY <1>1, <1>2, <1>5, <2>2
  <1>8. \A i, k \in DOMAIN rs : rs[i].id = rs[k].id => i = k BY <1>5, <1>7
  <1>9. ASSUME NEW i \in DOMAIN rs, NEW k \in DOMAIN rs, i <= k PROVE rs[i].ts <= rs[k].ts
    <2>1. order[i] \in D /\ order[k] \in D BY <1>5, <1>7
    <2>2. rs[i].ts = key[order[i]][1] /\ rs[k].ts = key[order[k]][1] BY <1>4, <2>1
    <2>3. rs[i].ts \in Int /\ rs[k].ts \in Int BY <1>3, <2>1
    <2>4. i = k \/ i < k BY <1>5, <1>7, <1>9
    <2>5. i < k => Before(key[order[i]], key[order[k]]) BY <1>5, <1>7
    <2> HIDE DEF rs
    <2>6. QED BY <2>2, <2>3, <2>4, <2>5 DEF Before
  <1>10. Encode(rows) = Columns(rs) BY DEF Encode, order, key
  <1>11. Columns(rs) = [Columns(rs) EXCEPT !.damaged = Columns(rs).damaged]
    <2> DEFINE c == Columns(rs)
    <2>1. c = [ids |-> c.ids, ts |-> c.ts, svcDict |-> c.svcDict, svcRefs |-> c.svcRefs, tmpl |-> c.tmpl,
               nvars |-> c.nvars, vars |-> c.vars, raw |-> c.raw, damaged |-> c.damaged]
      <3> HIDE DEF rs
      <3>1. QED BY DEF Columns
    <2> HIDE DEF c
    <2>2. c = [c EXCEPT !.damaged = c.damaged] BY <2>1
    <2>3. QED BY <2>2 DEF c
  <1>12. ToSet(rs) = ToSet(rows)
    <2>1. \A k \in 1..n : \E i \in D : rs[k] = rows[i] BY <1>5
    <2>2. \A i \in D : \E k \in 1..n : rs[k] = rows[i] BY <1>5, <1>6
    <2>3. DOMAIN rs = 1..n BY <1>7
    <2>4. ToSet(rs) = {rs[k] : k \in 1..n}
      <3> HIDE DEF rs
      <3>1. QED BY <2>3 DEF ToSet
    <2>5. ToSet(rows) = {rows[i] : i \in D} BY DEF ToSet
    <2> HIDE DEF rs, D
    <2>6. QED BY <2>1, <2>2, <2>4, <2>5
  <1>13. Holds(Encode(rows), rs)
    <2> HIDE DEF rs
    <2>1. QED BY <1>7, <1>8, <1>9, <1>10, <1>11 DEF Holds
  <1> HIDE DEF rs
  <1>14. QED BY <1>12, <1>13

\* The rows of a merge, in the order of time and id.
LEMMA MergedIs ==
  ASSUME NEW S \in SUBSET Rows, IsFiniteSet(S), S # {},
         \A a, b \in S : a.id = b.id => a = b
  PROVE  LET o == Sorted(S, [r \in S |-> <<r.ts, r.id>>]) IN
         /\ o \in Seq(Rows) /\ o # <<>> /\ ToSet(o) = S
         /\ \A i, k \in DOMAIN o : o[i].id = o[k].id => i = k
  <1> DEFINE key == [r \in S |-> <<r.ts, r.id>>]
             n == Cardinality(S)
             o == Sorted(S, key)
  <1>1. \A r \in S : r.ts \in Int /\ r.id \in Int BY DEF Rows
  <1>2. Keyed(S, key) BY <1>1 DEF Keyed
  <1>3. n \in Nat /\ n # 0
    <2>1. n \in Nat BY FS_CardinalityType
    <2>2. QED BY <2>1, FS_EmptySet
  <1> HIDE DEF key
  <1>4. /\ DOMAIN o = 1..n /\ o \in Seq(S) /\ Len(o) = n
        /\ \A k \in 1..n : o[k] \in S
        /\ \A k, l \in 1..n : o[k] = o[l] => k = l
    BY <1>2, SortedIs
  <1>5. \A x \in S : \E k \in 1..n : o[k] = x
    <2>1. ASSUME NEW x \in S PROVE \E k \in 1..n : o[k] = x
      <3>1. o[Rank(S, key, x)] = x BY <1>2, SortedIs
      <3>2. Rank(S, key, x) \in 1..n BY <1>2, RankIs
      <3>3. QED BY <3>1, <3>2
    <2>2. QED BY <2>1
  <1> HIDE DEF o, n
  <1>6. ToSet(o) = S BY <1>4, <1>5 DEF ToSet
  <1>7. o \in Seq(Rows) /\ o # <<>> BY <1>3, <1>4
  <1>8. \A i, k \in DOMAIN o : o[i].id = o[k].id => i = k BY <1>4
  <1>9. QED BY <1>6, <1>7, <1>8 DEF o, key

-----------------------------------------------------------------------------
(* The inductive invariant *)

\* r gives the log it was written with, from these templates, of which these
\* are loaded.
SoundIn(r, tmpls, loaded, log) ==
  /\ r \in Rows /\ r.id \in DOMAIN log
  /\ r.ts = log[r.id].ts /\ r.svc = log[r.id].svc
  /\ IF r.tmpl = 0 THEN r.raw = log[r.id].body
     ELSE /\ r.tmpl \in DOMAIN tmpls /\ r.tmpl \in loaded
          /\ Fills(tmpls[r.tmpl], r.vars) /\ Substitute(tmpls[r.tmpl], r.vars) = log[r.id].body
Sound(r) == SoundIn(r, templates, Loaded, written)

Flushed == Len(written) - Len(mem)
SegRows(segs) == UNION {RowsOf(s) : s \in segs}
Whole(segs) == \A s \in segs : \E rows : Holds(s, rows)
ByIds(rows) == \A a, b \in rows : a.id = b.id => a = b

TypeInv ==
  /\ templates \in Seq(Templates) /\ (known # None => known \subseteq DOMAIN templates)
  /\ written \in Seq(Inputs) /\ mem \in Seq(Rows) /\ rollups \in [Counted -> Nat]

\* The memtable holds the last rows that were written.
MemInv ==
  /\ Len(mem) <= Len(written)
  /\ \A i \in DOMAIN mem : Sound(mem[i]) /\ mem[i].id = Flushed + i

\* The segments hold rows that were flushed, each once.
SegInv ==
  /\ Whole(segments) /\ ByIds(SegRows(segments))
  /\ \A r \in SegRows(segments) : Sound(r) /\ r.id <= Flushed

RollupInv ==
  \A k \in Counted : rollups[k] = Cardinality({id \in 1..Flushed : RollupKey(written[id]) = k})

\* A search has rows as they were, and then their templates.
Seen == SegRows(reader.segments) \cup ToSet(reader.mem)
ReaderInv ==
  reader # None =>
    /\ reader.f \in Filters /\ Whole(reader.segments) /\ reader.mem \in Seq(Rows)
    /\ ByIds(Seen) /\ \A r \in Seen : Sound(r)
    /\ reader.pc = "scan" =>
         reader.tmpls \subseteq DOMAIN templates /\ \A r \in Seen : r.tmpl # 0 => r.tmpl \in reader.tmpls

Inv == TypeInv /\ MemInv /\ SegInv /\ RollupInv /\ ReaderInv

\* t goes on from s.
Extends(s, t) == DOMAIN s \subseteq DOMAIN t /\ \A i \in DOMAIN s : t[i] = s[i]
Grows == Extends(templates, templates') /\ Extends(written, written') /\ Loaded \subseteq Loaded'

\* Append goes on from what it appends to.
LEMMA AppendExtends ==
  ASSUME NEW S, NEW s \in Seq(S), NEW x \in S
  PROVE  /\ Append(s, x) \in Seq(S) /\ Extends(s, Append(s, x)) /\ Append(s, x)[Len(s) + 1] = x
         /\ Len(s) \in Nat /\ DOMAIN s = 1..Len(s)
         /\ DOMAIN Append(s, x) = 1..(Len(s) + 1) /\ Len(Append(s, x)) = Len(s) + 1
  BY DEF Extends

\* "any previously returned (id, vars) pair reconstructs forever": templates
\* are added and never changed.
LEMMA SoundKept ==
  ASSUME NEW t, NEW t1, NEW l, NEW l1, NEW w, NEW w1, NEW r, SoundIn(r, t, l, w),
         Extends(t, t1), l \subseteq l1, Extends(w, w1)
  PROVE  SoundIn(r, t1, l1, w1)
  BY DEF SoundIn, Extends

\* The ids in memory are of templates there are.
LEMMA LoadedThere == ASSUME TypeInv PROVE Loaded \subseteq DOMAIN templates
  BY DEF TypeInv, Loaded

\* A body is one of a template's.
LEMMA InputsAre ==
  ASSUME NEW l \in Inputs
  PROVE  l.body \in Seq(Words) /\ l.body # <<>> /\ l.ts \in Nat /\ l.svc \in Services
  BY BodiesAssumption DEF Services

\* resolve: the template found or to be minted generalizes the body; one
\* found is in memory.
LEMMA ResolveIs ==
  ASSUME TypeInv, NEW ids \in SUBSET DOMAIN templates, NEW words \in Seq(Words)
  PROVE  LET r == Resolve(ids, words) IN
         Generalizes(r.words, words) /\ (r.id # None => r.id \in ids /\ r.words = templates[r.id])
  <1> DEFINE best == {id \in Best(ids, words) : 2 * Similarity(templates[id], words) >= Len(words)}
             id == CHOOSE b \in best : TRUE
             t == templates[id]
             merged == [i \in DOMAIN words |-> IF i \in Same(t, words) THEN t[i] ELSE Wild]
             res == Resolve(ids, words)
  <1>1. words \in Seq(Words \cup {Wild}) /\ DOMAIN words = 1..Len(words) /\ Len(words) \in Nat OBVIOUS
  <1>2. CASE best = {}
    <2>1. res = [id |-> None, words |-> words] BY <1>2 DEF Resolve
    <2>2. Generalizes(words, words) BY <1>1 DEF Generalizes, Templates
    <2>3. QED BY <2>1, <2>2
  <1>3. CASE best # {}
    <2>1. id \in best BY <1>3
    <2>2. id \in Best(ids, words) BY <2>1
    <2>3. id \in ids /\ GroupKey(t) = GroupKey(words) BY <2>2 DEF Best
    <2>4. Len(t) = Len(words) BY <2>3 DEF GroupKey
    <2>5. t \in Templates
      <3>1. templates \in Seq(Templates) BY DEF TypeInv
      <3>2. id \in DOMAIN templates BY <2>3
      <3> HIDE DEF id
      <3>3. QED BY <3>1, <3>2
    <2>6. res = IF Covers(t, words) THEN [id |-> id, words |-> t] ELSE [id |-> None, words |-> merged]
      BY <1>3 DEF Resolve
    <2> HIDE DEF t, id, res
    <2>7. DOMAIN t = DOMAIN words BY <1>1, <2>4, <2>5 DEF Templates
    <2>8. CASE Covers(t, words)
      <3>1. \A i \in DOMAIN words : t[i] = Wild \/ t[i] = words[i] BY <2>8 DEF Covers, Same
      <3>2. Generalizes(t, words) BY <2>4, <2>5, <3>1 DEF Generalizes
      <3>3. QED BY <2>3, <2>6, <2>8, <3>2 DEF t, res
    <2>9. CASE ~Covers(t, words)
      <3>1. \A i \in DOMAIN words : merged[i] = Wild \/ merged[i] = words[i] BY DEF Same
      <3>2. \A i \in DOMAIN words : merged[i] \in Words \cup {Wild} BY <1>1, <3>1
      <3>3. merged \in Seq(Words \cup {Wild}) /\ Len(merged) = Len(words) BY <1>1, <3>2
      <3> HIDE DEF merged
      <3>4. Generalizes(merged, words) BY <3>1, <3>3 DEF Generalizes, Templates
      <3>5. QED BY <2>6, <2>9, <3>4 DEF res
    <2>10. QED BY <2>8, <2>9
  <1>4. QED BY <1>2, <1>3

-----------------------------------------------------------------------------
(* The steps of the writer *)

\* How many rows were flushed is a number up to those written.
LEMMA FlushedIs ==
  ASSUME TypeInv, MemInv
  PROVE  /\ Flushed \in Nat /\ Flushed <= Len(written) /\ Len(written) = Flushed + Len(mem)
         /\ Len(mem) \in Nat /\ Len(written) \in Nat
         /\ DOMAIN mem = 1..Len(mem) /\ DOMAIN written = 1..Len(written) /\ 1..Flushed \subseteq DOMAIN written
  BY DEF TypeInv, MemInv, Flushed

\* Keep: the new row is sound and the last of the memtable.
LEMMA KeepIs ==
  ASSUME TypeInv, MemInv, NEW l \in Inputs, NEW id \in Nat, NEW v \in Seq(Words), Keep(l, id, v),
         Extends(templates, templates'), Loaded \subseteq Loaded',
         id # 0 => /\ id \in DOMAIN templates' /\ id \in Loaded'
                   /\ Fills(templates'[id], v) /\ Substitute(templates'[id], v) = l.body
  PROVE  MemInv' /\ Grows /\ written' \in Seq(Inputs) /\ mem' \in Seq(Rows) /\ Flushed' = Flushed
  <1> DEFINE r == Row(l, id, v)
             n == Len(written)
             m == Len(mem)
  <1>1. l.body \in Seq(Words) /\ l.ts \in Nat /\ l.svc \in Services BY InputsAre
  <1>2. written \in Seq(Inputs) /\ mem \in Seq(Rows) /\ m <= n /\ m \in Nat /\ n \in Nat BY DEF TypeInv, MemInv
  <1>3. /\ r.id = n + 1 /\ r.ts = l.ts /\ r.svc = l.svc /\ r.tmpl = id /\ r.vars = v
        /\ r.raw = IF id = 0 THEN l.body ELSE <<>>
    BY DEF Row
  <1>4. r \in Rows
    <2>1. r.raw \in Seq(Words) BY <1>1, <1>3
    <2>2. r = [id |-> n + 1, ts |-> l.ts, svc |-> l.svc, tmpl |-> id, vars |-> v, raw |-> r.raw] BY <1>3 DEF Row
    <2> DEFINE raw == r.raw
    <2>3. raw \in Seq(Words) BY <2>1
    <2> HIDE DEF raw, n
    <2>4. [id |-> n + 1, ts |-> l.ts, svc |-> l.svc, tmpl |-> id, vars |-> v, raw |-> raw]
            \in [id : Nat, ts : Nat, svc : Services, tmpl : Nat, vars : Seq(Words), raw : Seq(Words)]
      BY <1>1, <1>2, <2>3
    <2>5. r.tmpl # 0 => r.raw = <<>> BY <1>3
    <2> HIDE DEF r
    <2>6. QED BY <2>2, <2>4, <2>5 DEF Rows, raw
  <1>5. mem' = Append(mem, r) /\ written' = Append(written, l) BY DEF Keep
  <1> HIDE DEF r
  <1>6. /\ written' \in Seq(Inputs) /\ Extends(written, written') /\ written'[n + 1] = l
        /\ DOMAIN written' = 1..(n + 1) /\ Len(written') = n + 1 /\ DOMAIN written = 1..n
    BY <1>2, <1>5, AppendExtends
  <1>7. /\ mem' \in Seq(Rows) /\ Extends(mem, mem') /\ mem'[m + 1] = r
        /\ DOMAIN mem' = 1..(m + 1) /\ Len(mem') = m + 1 /\ DOMAIN mem = 1..m
    BY <1>2, <1>4, <1>5, AppendExtends
  <1>8. Flushed' = Flushed BY <1>2, <1>6, <1>7 DEF Flushed
  <1>9. SoundIn(r, templates', Loaded', written') BY <1>2, <1>3, <1>4, <1>6 DEF SoundIn
  <1>10. ASSUME NEW i \in DOMAIN mem'
         PROVE  SoundIn(mem'[i], templates', Loaded', written') /\ mem'[i].id = Flushed + i
    <2>1. CASE i = m + 1
      <3>1. n + 1 = Flushed + i BY <1>2, <2>1 DEF Flushed
      <3>2. QED BY <1>3, <1>7, <1>9, <2>1, <3>1
    <2>2. CASE i # m + 1
      <3>1. i \in DOMAIN mem BY <1>2, <1>7, <2>2
      <3>2. mem'[i] = mem[i] BY <1>7, <3>1 DEF Extends
      <3>3. SoundIn(mem[i], templates, Loaded, written) /\ mem[i].id = Flushed + i BY <3>1 DEF MemInv, Sound
      <3>4. SoundIn(mem[i], templates', Loaded', written') BY <1>6, <3>3, SoundKept
      <3>5. QED BY <3>2, <3>3, <3>4
    <2>3. QED BY <2>1, <2>2
  <1>11. MemInv'
    <2>1. Len(mem') <= Len(written') BY <1>2, <1>6, <1>7
    <2>2. QED BY <1>8, <1>10, <2>1 DEF MemInv, Sound
  <1>12. QED BY <1>6, <1>7, <1>8, <1>11 DEF Grows

\* Extract and toRow: a log is kept raw, under a template it has, or under
\* one minted for it.
LEMMA WriteStep ==
  ASSUME TypeInv, MemInv, NEW l \in Inputs, WriteRaw(l) \/ WriteMatched(l) \/ WriteMints(l)
  PROVE  TypeInv' /\ MemInv' /\ Grows /\ Flushed' = Flushed
  <1> DEFINE r == Resolve(Loaded, l.body)
  <1>1. l.body \in Seq(Words) BY InputsAre
  <1>2. Loaded \subseteq DOMAIN templates BY LoadedThere
  <1>3. Generalizes(r.words, l.body) /\ (r.id # None => r.id \in Loaded /\ r.words = templates[r.id])
    BY <1>1, <1>2, ResolveIs
  <1> HIDE DEF r
  <1>4. /\ VarsFor(r.words, l.body) \in Seq(Words) /\ Fills(r.words, VarsFor(r.words, l.body))
        /\ Substitute(r.words, VarsFor(r.words, l.body)) = l.body
    BY <1>3, Filled
  <1>5. templates \in Seq(Templates) /\ rollups \in [Counted -> Nat] /\ DOMAIN templates \subseteq Nat \ {0}
    <2>1. templates \in Seq(Templates) /\ rollups \in [Counted -> Nat] BY DEF TypeInv
    <2>2. QED BY <2>1
  <1>6. CASE WriteRaw(l)
    <2>1. templates' = templates /\ rollups' = rollups /\ (known' = known \/ known' = Loaded) /\ Keep(l, 0, <<>>)
      BY <1>6 DEF WriteRaw
    <2>2. Loaded \subseteq Loaded' /\ (known' # None => known' \subseteq DOMAIN templates')
      BY <1>2, <2>1 DEF Loaded, TypeInv
    <2>3. Extends(templates, templates') BY <2>1 DEF Extends
    <2>4. <<>> \in Seq(Words) /\ 0 \in Nat OBVIOUS
    <2>5. MemInv' /\ Grows /\ written' \in Seq(Inputs) /\ mem' \in Seq(Rows) /\ Flushed' = Flushed
      BY <2>1, <2>2, <2>3, <2>4, KeepIs
    <2>6. QED BY <1>5, <2>1, <2>2, <2>5 DEF TypeInv
  <1>7. CASE WriteMatched(l)
    <2>1. /\ templates' = templates /\ rollups' = rollups /\ known' = Loaded /\ r.id # None
          /\ Keep(l, r.id, VarsFor(r.words, l.body))
      BY <1>7 DEF WriteMatched, r
    <2>2. Loaded \subseteq Loaded' /\ (known' # None => known' \subseteq DOMAIN templates')
      BY <1>2, <2>1 DEF Loaded
    <2>3. Extends(templates, templates') BY <2>1 DEF Extends
    <2>4. r.id \in Nat /\ r.id \in DOMAIN templates' /\ r.id \in Loaded' /\ templates'[r.id] = r.words
      BY <1>2, <1>3, <1>5, <2>1, <2>2
    <2>5. MemInv' /\ Grows /\ written' \in Seq(Inputs) /\ mem' \in Seq(Rows) /\ Flushed' = Flushed
      BY <1>4, <2>1, <2>2, <2>3, <2>4, KeepIs
    <2>6. QED BY <1>5, <2>1, <2>2, <2>5 DEF TypeInv
  <1>8. CASE WriteMints(l)
    <2> DEFINE id == Len(templates) + 1
    <2>1. /\ templates' = Append(templates, r.words) /\ rollups' = rollups /\ known' = Loaded \cup {id}
          /\ Keep(l, id, VarsFor(r.words, l.body))
      BY <1>8 DEF WriteMints, r
    <2>2. r.words \in Templates BY <1>3 DEF Generalizes
    <2>3. /\ templates' \in Seq(Templates) /\ Extends(templates, templates') /\ templates'[id] = r.words
          /\ DOMAIN templates' = 1..id /\ id \in Nat /\ id \in DOMAIN templates' /\ DOMAIN templates \subseteq DOMAIN templates'
      <3>1. /\ templates' \in Seq(Templates) /\ Extends(templates, templates') /\ templates'[id] = r.words
            /\ DOMAIN templates' = 1..id /\ Len(templates) \in Nat /\ DOMAIN templates = 1..Len(templates)
        BY <1>5, <2>1, <2>2, AppendExtends
      <3>2. QED BY <3>1
    <2> HIDE DEF id
    <2>4. Loaded \subseteq Loaded' /\ id \in Loaded' /\ (known' # None => known' \subseteq DOMAIN templates')
      BY <1>2, <2>1, <2>3 DEF Loaded
    <2>5. MemInv' /\ Grows /\ written' \in Seq(Inputs) /\ mem' \in Seq(Rows) /\ Flushed' = Flushed
      BY <1>4, <2>1, <2>3, <2>4, KeepIs
    <2>6. QED BY <1>5, <2>1, <2>3, <2>4, <2>5 DEF TypeInv
  <1>9. QED BY <1>6, <1>7, <1>8

\* What else is kept when templates and logs are added and the rest stays.
LEMMA RestKept ==
  ASSUME Inv, TypeInv', MemInv', Grows, Flushed' = Flushed, segments' = segments, rollups' = rollups
  PROVE  SegInv' /\ RollupInv' /\ ((reader' = reader \/ reader' = None) => ReaderInv')
  <1>0. TypeInv /\ MemInv /\ SegInv /\ RollupInv /\ ReaderInv BY DEF Inv
  <1>1. ASSUME NEW r, Sound(r) PROVE SoundIn(r, templates', Loaded', written')
    BY <1>1, SoundKept DEF Sound, Grows
  <1>2. SegInv' BY <1>0, <1>1 DEF SegInv, Sound
  <1>3. RollupInv'
    <2>1. 1..Flushed \subseteq DOMAIN written BY <1>0, FlushedIs
    <2>2. \A id \in 1..Flushed : written'[id] = written[id] BY <2>1 DEF Grows, Extends
    <2>3. \A k : {id \in 1..Flushed' : RollupKey(written'[id]) = k} = {id \in 1..Flushed : RollupKey(written[id]) = k}
      BY <2>2
    <2>4. \A k \in Counted : rollups'[k] = Cardinality({id \in 1..Flushed' : RollupKey(written'[id]) = k})
      BY <1>0, <2>3 DEF RollupInv
    <2>5. QED BY <2>4 DEF RollupInv
  <1>4. ASSUME reader' = reader PROVE ReaderInv'
    <2>1. Seen' = Seen BY <1>4 DEF Seen
    <2>2. DOMAIN templates \subseteq DOMAIN templates' BY DEF Grows, Extends
    <2>3. QED BY <1>0, <1>1, <1>4, <2>1, <2>2 DEF ReaderInv, Sound
  <1>5. ASSUME reader' = None PROVE ReaderInv' BY <1>5 DEF ReaderInv
  <1>6. QED BY <1>2, <1>3, <1>4, <1>5

\* The memtable stays sound while it stays as it is.
LEMMA MemKept ==
  ASSUME TypeInv, MemInv, Extends(templates, templates'), Loaded \subseteq Loaded', UNCHANGED <<mem, written>>
  PROVE  MemInv' /\ Grows /\ Flushed' = Flushed
  <1>1. Extends(written, written') BY DEF Extends
  <1>2. Flushed' = Flushed BY DEF Flushed
  <1>3. ASSUME NEW r, Sound(r) PROVE SoundIn(r, templates', Loaded', written')
    BY <1>1, <1>3, SoundKept DEF Sound
  <1>4. MemInv' BY <1>2, <1>3 DEF MemInv, Sound
  <1>5. QED BY <1>1, <1>2, <1>4 DEF Grows

-----------------------------------------------------------------------------
(* Flushes, merges and damage *)

\* Numbers counted on from n.
After(n, C) == {n + i : i \in C}

\* The rows a memtable has after those flushed, counted with them.
LEMMA Shifted ==
  ASSUME NEW n \in Nat, NEW A, IsFiniteSet(A), NEW C, IsFiniteSet(C),
         \A x \in A : x \in Int /\ x <= n, \A i \in C : i \in Int /\ i > 0
  PROVE  /\ Cardinality(A \cup After(n, C)) = Cardinality(A) + Cardinality(C)
         /\ Cardinality(A) \in Nat /\ Cardinality(C) \in Nat
  <1> DEFINE B == {n + i : i \in C}
             f == [i \in C |-> n + i]
  <1>1. Cardinality(A) \in Nat /\ Cardinality(C) \in Nat BY FS_CardinalityType
  <1>2. f \in Surjection(C, B) BY DEF Surjection
  <1>3. f \in Injection(C, B)
    <2>1. \A i, k \in C : n + i = n + k => i = k OBVIOUS
    <2>2. QED BY <2>1 DEF Injection, IsInjective
  <1> HIDE DEF f
  <1>4. IsFiniteSet(B) /\ Cardinality(B) = Cardinality(C) BY <1>1, <1>2, <1>3, FS_Surjection
  <1>5. A \cap B = {}
    <2>1. \A i \in C : n + i \notin A OBVIOUS
    <2>2. QED BY <2>1
  <1>6. Cardinality(A \cup B) = Cardinality(A) + Cardinality(B) - Cardinality(A \cap B) BY <1>1, <1>4, FS_Union
  <1>7. Cardinality(A \cap B) = 0 BY <1>5, FS_EmptySet
  <1>8. Cardinality(A \cup B) = Cardinality(A) + Cardinality(C) BY <1>1, <1>4, <1>6, <1>7
  <1> HIDE DEF B
  <1>9. Cardinality(A \cup After(n, C)) = Cardinality(A) + Cardinality(C) BY <1>8 DEF After, B
  <1>10. QED BY <1>1, <1>9

\* What was written is what was flushed and what the memtable holds.
LEMMA MemIs ==
  ASSUME TypeInv, MemInv, NEW i \in DOMAIN mem
  PROVE  /\ mem[i] \in Rows /\ mem[i].id = Flushed + i /\ Flushed + i \in DOMAIN written /\ i \in Nat \ {0}
         /\ RollupKey(mem[i]) = RollupKey(written[Flushed + i]) /\ mem[i].ts = written[Flushed + i].ts
  <1>1. SoundIn(mem[i], templates, Loaded, written) /\ mem[i].id = Flushed + i BY DEF MemInv, Sound
  <1>2. i \in Nat \ {0} BY FlushedIs
  <1>3. QED BY <1>1, <1>2 DEF SoundIn, RollupKey

\* A flush moves the rows of the memtable to a segment, and counts them.
LEMMA FlushStep ==
  ASSUME Inv, Flush PROVE Inv'
  <1> DEFINE m == Len(mem)
  <1>0. TypeInv /\ MemInv /\ SegInv /\ RollupInv /\ ReaderInv BY DEF Inv
  <1>1. /\ mem # <<>> /\ segments' = segments \cup {Encode(mem)} /\ mem' = <<>>
        /\ rollups' = [k \in Counted |-> rollups[k] + Cardinality({i \in DOMAIN mem : RollupKey(mem[i]) = k})]
        /\ UNCHANGED <<templates, known, reader, written>>
    BY DEF Flush
  <1>2. /\ Flushed \in Nat /\ Len(written) = Flushed + m /\ m \in Nat /\ Len(written) \in Nat
        /\ DOMAIN mem = 1..m /\ DOMAIN written = 1..Len(written)
    BY <1>0, FlushedIs
  <1>3. Flushed' = Len(written) /\ Len(mem') = 0 /\ mem' \in Seq(Rows) /\ DOMAIN mem' = {} BY <1>1, <1>2 DEF Flushed
  <1>4. Loaded' = Loaded BY <1>1 DEF Loaded
  <1>5. \A i \in DOMAIN mem : mem[i].id = Flushed + i /\ Sound(mem[i]) BY <1>0 DEF MemInv
  <1>6. PICK rs : Holds(Encode(mem), rs) /\ ToSet(rs) = ToSet(mem)
    <2>1. mem \in Seq(Rows) BY <1>0 DEF TypeInv
    <2>2. \A i, k \in DOMAIN mem : mem[i].id = mem[k].id => i = k BY <1>2, <1>5
    <2>3. QED BY <1>1, <2>1, <2>2, EncodeIs
  <1>7. RowsOf(Encode(mem)) = ToSet(mem) BY <1>6, HoldsIs
  <1>8. SegRows(segments') = SegRows(segments) \cup ToSet(mem) BY <1>1, <1>7 DEF SegRows
  <1>9. \A r \in ToSet(mem) : \E i \in DOMAIN mem : r = mem[i] BY DEF ToSet
  <1>10. \A r \in ToSet(mem) : Sound(r) /\ r.id > Flushed /\ r.id <= Len(written) /\ r.id \in Nat
    BY <1>2, <1>5, <1>9
  <1>11. \A r \in SegRows(segments) : Sound(r) /\ r.id <= Flushed /\ r.id \in Nat
    <2>1. \A r : Sound(r) => r.id \in Nat BY DEF Sound, SoundIn, Rows
    <2>2. QED BY <1>0, <2>1 DEF SegInv
  <1>12. ByIds(SegRows(segments'))
    <2>1. ByIds(SegRows(segments)) BY <1>0 DEF SegInv
    <2>2. ASSUME NEW a \in ToSet(mem), NEW b \in ToSet(mem), a.id = b.id PROVE a = b
      <3>1. PICK i \in DOMAIN mem : a = mem[i] BY <1>9
      <3>2. PICK k \in DOMAIN mem : b = mem[k] BY <1>9
      <3>3. i = k BY <1>2, <1>5, <2>2, <3>1, <3>2
      <3>4. QED BY <3>1, <3>2, <3>3
    <2>3. \A a \in SegRows(segments), b \in ToSet(mem) : a.id # b.id BY <1>2, <1>10, <1>11
    <2>4. QED BY <1>8, <2>1, <2>2, <2>3 DEF ByIds
  <1>13. Whole(segments') BY <1>0, <1>1, <1>6 DEF Whole, SegInv
  <1>14. \A r : Sound(r) => SoundIn(r, templates', Loaded', written') BY <1>1, <1>4 DEF Sound
  <1>15. SegInv'
    <2>1. ASSUME NEW r \in SegRows(segments') PROVE SoundIn(r, templates', Loaded', written') /\ r.id <= Flushed'
      <3>1. r \in SegRows(segments) \/ r \in ToSet(mem) BY <1>8
      <3>2. Sound(r) /\ r.id <= Len(written) BY <1>2, <1>10, <1>11, <3>1
      <3>3. QED BY <1>3, <1>14, <3>2
    <2>2. QED BY <1>12, <1>13, <2>1 DEF SegInv, Sound
  <1>16. MemInv' BY <1>1, <1>2, <1>3 DEF MemInv
  <1>17. ASSUME NEW k \in Counted
         PROVE  /\ rollups'[k] = Cardinality({id \in 1..Flushed' : RollupKey(written'[id]) = k})
                /\ rollups'[k] \in Nat
    <2> DEFINE A == {id \in 1..Flushed : RollupKey(written[id]) = k}
               C == {i \in 1..m : RollupKey(mem[i]) = k}
               B == {Flushed + i : i \in C}
    <2>1. A \in SUBSET (1..Flushed) /\ C \in SUBSET (1..m) OBVIOUS
    <2>2. /\ Cardinality(A \cup B) = Cardinality(A) + Cardinality(C)
          /\ Cardinality(A) \in Nat /\ Cardinality(C) \in Nat
      <3>1. B = After(Flushed, C) BY DEF After
      <3>2. /\ \A x \in A : x \in Int /\ x <= Flushed
            /\ \A i \in C : i \in Int /\ i > 0
        BY <1>2
      <3> HIDE DEF A, B, C
      <3>3. IsFiniteSet(A) /\ IsFiniteSet(C) BY <1>2, <2>1, UpTo, PartSize
      <3>4. QED BY <1>2, <3>1, <3>2, <3>3, Shifted
    <2>3. \A i \in 1..m : RollupKey(mem[i]) = RollupKey(written[Flushed + i]) BY <1>0, <1>2, MemIs
    <2>4. \A id : id \in 1..Len(written) <=> id \in 1..Flushed \/ (id - Flushed \in 1..m /\ id \in Int) BY <1>2
    <2>5. {id \in 1..Len(written) : RollupKey(written[id]) = k} = A \cup B
      <3>1. ASSUME NEW id \in 1..Len(written), RollupKey(written[id]) = k, id \notin 1..Flushed PROVE id \in B
        <4>1. id - Flushed \in 1..m /\ id = Flushed + (id - Flushed) BY <1>2, <3>1
        <4>2. id - Flushed \in C BY <2>3, <3>1, <4>1
        <4>3. QED BY <4>1, <4>2
      <3>2. ASSUME NEW id \in B PROVE id \in 1..Len(written) /\ RollupKey(written[id]) = k
        <4>1. PICK i \in C : id = Flushed + i OBVIOUS
        <4>2. QED BY <1>2, <2>3, <4>1
      <3>3. 1..Flushed \subseteq 1..Len(written) BY <1>2
      <3> HIDE DEF B
      <3>4. QED BY <3>1, <3>2, <3>3
    <2>6. rollups[k] = Cardinality(A) BY <1>0 DEF RollupInv
    <2>7. rollups'[k] = rollups[k] + Cardinality(C) BY <1>1, <1>2
    <2>8. {id \in 1..Flushed' : RollupKey(written'[id]) = k} = A \cup B BY <1>1, <1>3, <2>5
    <2> HIDE DEF A, B, C
    <2>9. rollups'[k] = Cardinality(A \cup B) /\ rollups'[k] \in Nat BY <2>2, <2>6, <2>7
    <2>10. QED BY <2>8, <2>9
  <1>18. RollupInv' BY <1>17 DEF RollupInv
  <1>19. TypeInv'
    <2>1. rollups' \in [Counted -> Nat]
      <3>1. \A k \in Counted : rollups'[k] \in Nat BY <1>17
      <3>2. rollups' = [k \in Counted |-> rollups'[k]] BY <1>1
      <3>3. QED BY <3>1, <3>2
    <2>2. QED BY <1>0, <1>1, <1>3, <2>1 DEF TypeInv
  <1>20. ReaderInv'
    <2>1. Seen' = Seen BY <1>1 DEF Seen
    <2>2. QED BY <1>0, <1>1, <1>14, <2>1 DEF ReaderInv, Sound
  <1>21. QED BY <1>15, <1>16, <1>18, <1>19, <1>20 DEF Inv

\* What else is kept when the segments change and hold the same rows.
LEMMA SegsKept ==
  ASSUME Inv, UNCHANGED <<templates, known, mem, rollups, reader, written>>,
         Whole(segments'), SegRows(segments') = SegRows(segments)
  PROVE  Inv'
  <1>0. TypeInv /\ MemInv /\ SegInv /\ RollupInv /\ ReaderInv BY DEF Inv
  <1>1. Flushed' = Flushed /\ Loaded' = Loaded BY DEF Flushed, Loaded
  <1>2. \A r : Sound(r) => SoundIn(r, templates', Loaded', written') BY <1>1 DEF Sound
  <1>3. TypeInv' BY <1>0 DEF TypeInv
  <1>4. MemInv' BY <1>0, <1>1, <1>2 DEF MemInv, Sound
  <1>5. SegInv' BY <1>0, <1>1, <1>2 DEF SegInv, Sound
  <1>6. RollupInv' BY <1>0, <1>1 DEF RollupInv
  <1>7. ReaderInv'
    <2>1. Seen' = Seen BY DEF Seen
    <2>2. QED BY <1>0, <1>2, <2>1 DEF ReaderInv, Sound
  <1>8. QED BY <1>3, <1>4, <1>5, <1>6, <1>7 DEF Inv

\* Rows of different ids, all of logs written, are finitely many.
LEMMA RowsFinite ==
  ASSUME TypeInv, NEW S, ByIds(S), \A r \in S : Sound(r) PROVE IsFiniteSet(S)
  <1> DEFINE f == [r \in S |-> r.id]
  <1>1. \A r \in S : r.id \in DOMAIN written BY DEF Sound, SoundIn
  <1>2. f \in Injection(S, DOMAIN written) BY <1>1 DEF Injection, IsInjective, ByIds
  <1>3. written \in Seq(Inputs) BY DEF TypeInv
  <1>4. DOMAIN written = 1..Len(written) /\ Len(written) \in Nat BY <1>3
  <1>5. IsFiniteSet(DOMAIN written) BY <1>4, UpTo
  <1> HIDE DEF f
  <1>6. QED BY <1>2, <1>5, FS_Injection

\* A merge has the rows of its members.
LEMMA CompactStep ==
  ASSUME Inv, Compact PROVE Inv'
  <1> DEFINE S == SegRows(segments)
             o == Sorted(S, [r \in S |-> <<r.ts, r.id>>])
  <1>0. TypeInv /\ SegInv BY DEF Inv
  <1>1. /\ Cardinality(segments) > 1 /\ segments' = {Encode(o)}
        /\ UNCHANGED <<templates, known, mem, rollups, reader, written>>
    BY DEF Compact, SegRows
  <1>2. S \in SUBSET Rows /\ ByIds(S) /\ \A r \in S : Sound(r) BY <1>0 DEF SegInv, Sound, SoundIn
  <1>3. IsFiniteSet(S) BY <1>0, <1>2, RowsFinite
  <1>4. S # {}
    <2>1. segments # {} BY <1>1, FS_EmptySet
    <2>2. PICK s \in segments : \E rows : Holds(s, rows) BY <1>0, <2>1 DEF SegInv, Whole
    <2>3. PICK rows : Holds(s, rows) BY <2>2
    <2>4. RowsOf(s) = ToSet(rows) /\ Len(rows) \in DOMAIN rows BY <2>3, HoldsIs
    <2>5. rows[Len(rows)] \in RowsOf(s) BY <2>4 DEF ToSet
    <2>6. QED BY <2>5 DEF SegRows
  <1>5. /\ o \in Seq(Rows) /\ o # <<>> /\ ToSet(o) = S
        /\ \A i, k \in DOMAIN o : o[i].id = o[k].id => i = k
    <2>1. \A a, b \in S : a.id = b.id => a = b BY <1>2 DEF ByIds
    <2> HIDE DEF S
    <2>2. QED BY <1>2, <1>3, <1>4, <2>1, MergedIs
  <1> HIDE DEF o, S
  <1>6. PICK rs : Holds(Encode(o), rs) /\ ToSet(rs) = ToSet(o) BY <1>5, EncodeIs
  <1>7. RowsOf(Encode(o)) = S BY <1>5, <1>6, HoldsIs
  <1>8. SegRows(segments') = S BY <1>1, <1>7 DEF SegRows
  <1>9. Whole(segments') BY <1>1, <1>6 DEF Whole
  <1>10. QED BY <1>1, <1>8, <1>9, SegsKept DEF S

\* A damaged segment has its rows.
LEMMA DamageStep ==
  ASSUME Inv, Damage PROVE Inv'
  <1>0. SegInv BY DEF Inv
  <1>1. PICK s \in Intact, block \in {"index", "body"} :
          segments' = (segments \ {s}) \cup {[s EXCEPT !.damaged = block]}
    BY DEF Damage
  <1> DEFINE d == [s EXCEPT !.damaged = block]
  <1>2. s \in segments BY DEF Intact
  <1>3. PICK rows : Holds(s, rows) BY <1>0, <1>2 DEF SegInv, Whole
  <1>4. Holds(d, rows) BY <1>3, HoldsDamaged
  <1> HIDE DEF d
  <1>5. RowsOf(d) = RowsOf(s) BY <1>3, <1>4, HoldsIs
  <1>6. segments' = (segments \ {s}) \cup {d} BY <1>1 DEF d
  <1>7. SegRows(segments') = SegRows(segments) BY <1>2, <1>5, <1>6 DEF SegRows
  <1>8. Whole(segments') BY <1>0, <1>4, <1>6 DEF Whole, SegInv
  <1>9. UNCHANGED <<templates, known, mem, rollups, reader, written>> BY DEF Damage
  <1>10. QED BY <1>7, <1>8, <1>9, SegsKept

-----------------------------------------------------------------------------
(* Every step, and what is read back *)

\* Init has nothing.
LEMMA InitInv == Init => Inv
  <1> SUFFICES ASSUME Init PROVE Inv OBVIOUS
  <1>1. /\ rollups = [k \in Counted |-> 0] /\ templates = <<>> /\ known = None /\ mem = <<>>
        /\ segments = {} /\ reader = None /\ written = <<>>
    BY DEF Init
  <1>2. TypeInv BY <1>1 DEF TypeInv
  <1>3. Flushed = 0 /\ DOMAIN mem = {} /\ Len(mem) = 0 /\ Len(written) = 0 BY <1>1 DEF Flushed
  <1>4. MemInv BY <1>3 DEF MemInv
  <1>5. SegInv BY <1>1 DEF SegInv, Whole, ByIds, SegRows
  <1>6. RollupInv
    <2>1. \A k : {id \in 1..Flushed : RollupKey(written[id]) = k} = {} BY <1>3
    <2>2. Cardinality({}) = 0 BY FS_EmptySet
    <2>3. QED BY <1>1, <2>1, <2>2 DEF RollupInv
  <1>7. ReaderInv BY <1>1 DEF ReaderInv
  <1>8. QED BY <1>2, <1>4, <1>5, <1>6, <1>7 DEF Inv

\* A batch that fails may leave a template, which is not in memory then.
LEMMA FailStep ==
  ASSUME Inv, NEW l \in Inputs, WriteFails(l) PROVE Inv'
  <1> DEFINE w == Resolve(Loaded, l.body).words
  <1>0. TypeInv /\ MemInv BY DEF Inv
  <1>1. /\ UNCHANGED <<mem, segments, rollups, reader, written>>
        /\ \/ templates' = templates /\ known' = known
           \/ (templates' = templates \/ templates' = Append(templates, w)) /\ known' = Loaded
    BY DEF WriteFails
  <1>2. Loaded \subseteq DOMAIN templates BY <1>0, LoadedThere
  <1>3. w \in Templates
    <2>1. l.body \in Seq(Words) BY InputsAre
    <2>2. Generalizes(w, l.body) BY <1>0, <1>2, <2>1, ResolveIs
    <2>3. QED BY <2>2 DEF Generalizes
  <1> HIDE DEF w
  <1>4. templates \in Seq(Templates) BY <1>0 DEF TypeInv
  <1>5. templates' \in Seq(Templates) /\ Extends(templates, templates')
    <2>1. CASE templates' = templates BY <1>4, <2>1 DEF Extends
    <2>2. CASE templates' = Append(templates, w) BY <1>3, <1>4, <2>2, AppendExtends
    <2>3. QED BY <1>1, <2>1, <2>2
  <1>6. DOMAIN templates \subseteq DOMAIN templates' BY <1>5 DEF Extends
  <1>7. Loaded \subseteq Loaded' /\ (known' # None => known' \subseteq DOMAIN templates')
    BY <1>0, <1>1, <1>2, <1>6 DEF Loaded, TypeInv
  <1>8. TypeInv' BY <1>0, <1>1, <1>5, <1>7 DEF TypeInv
  <1>9. MemInv' /\ Grows /\ Flushed' = Flushed BY <1>0, <1>1, <1>5, <1>7, MemKept
  <1>10. QED BY <1>1, <1>8, <1>9, RestKept DEF Inv

\* A restart, a load or nothing leaves templates, rows and logs as they were.
LEMMA QuietStep ==
  ASSUME Inv, UNCHANGED <<templates, mem, segments, rollups, written>>,
         known' = known \/ known' = None \/ known' = Loaded
  PROVE  /\ TypeInv' /\ MemInv' /\ SegInv' /\ RollupInv' /\ Grows
         /\ (reader' = reader \/ reader' = None) => ReaderInv'
  <1>0. TypeInv /\ MemInv BY DEF Inv
  <1>1. Loaded \subseteq DOMAIN templates BY <1>0, LoadedThere
  <1>2. Loaded \subseteq Loaded' /\ (known' # None => known' \subseteq DOMAIN templates')
    BY <1>0, <1>1 DEF Loaded, TypeInv
  <1>3. TypeInv' BY <1>0, <1>2 DEF TypeInv
  <1>4. Extends(templates, templates') BY DEF Extends
  <1>5. MemInv' /\ Grows /\ Flushed' = Flushed BY <1>0, <1>2, <1>4, MemKept
  <1>6. QED BY <1>3, <1>5, RestKept

\* A search takes the rows, whose ids differ.
LEMMA SnapshotStep ==
  ASSUME Inv, SearchSnapshots PROVE Inv'
  <1>0. TypeInv /\ MemInv /\ SegInv BY DEF Inv
  <1>1. PICK f \in Filters : reader' = [pc |-> "templates", f |-> f, segments |-> segments, mem |-> mem]
    BY DEF SearchSnapshots
  <1>2. UNCHANGED <<templates, known, mem, segments, rollups, written>> BY DEF SearchSnapshots
  <1>3. TypeInv' /\ MemInv' /\ SegInv' /\ RollupInv' /\ Grows BY <1>2, QuietStep
  <1>4. reader'.f = f /\ reader'.segments = segments /\ reader'.mem = mem /\ reader'.pc = "templates" BY <1>1
  <1>5. Seen' = SegRows(segments) \cup ToSet(mem) BY <1>4 DEF Seen
  <1>6. \A r \in ToSet(mem) : \E i \in DOMAIN mem : r = mem[i] BY DEF ToSet
  <1>7. \A r \in SegRows(segments) \cup ToSet(mem) : Sound(r) BY <1>0, <1>6 DEF SegInv, MemInv
  <1>8. ByIds(SegRows(segments) \cup ToSet(mem))
    <2>1. ByIds(SegRows(segments)) BY <1>0 DEF SegInv
    <2>2. \A i \in DOMAIN mem : mem[i].id = Flushed + i /\ i \in Nat \ {0} BY <1>0, MemIs
    <2>3. Flushed \in Nat BY <1>0, FlushedIs
    <2>4. ASSUME NEW a \in ToSet(mem), NEW b \in ToSet(mem), a.id = b.id PROVE a = b
      <3>1. PICK i \in DOMAIN mem : a = mem[i] BY <1>6
      <3>2. PICK k \in DOMAIN mem : b = mem[k] BY <1>6
      <3>3. i = k BY <2>2, <2>3, <2>4, <3>1, <3>2
      <3>4. QED BY <3>1, <3>2, <3>3
    <2>5. ASSUME NEW a \in SegRows(segments), NEW b \in ToSet(mem) PROVE a.id # b.id
      <3>1. PICK i \in DOMAIN mem : b = mem[i] BY <1>6
      <3>2. Sound(a) /\ a.id <= Flushed BY <1>0 DEF SegInv
      <3>3. a.id \in Nat BY <3>2 DEF Sound, SoundIn, Rows
      <3>4. QED BY <2>2, <2>3, <3>1, <3>2, <3>3
    <2>6. QED BY <2>1, <2>4, <2>5 DEF ByIds
  <1>9. Loaded' = Loaded BY <1>2 DEF Loaded
  <1>10. \A r \in Seen' : SoundIn(r, templates', Loaded', written') BY <1>2, <1>5, <1>7, <1>9 DEF Sound
  <1>11. mem \in Seq(Rows) /\ Whole(segments) BY <1>0 DEF TypeInv, SegInv
  <1>12. ReaderInv' BY <1>4, <1>5, <1>8, <1>10, <1>11 DEF ReaderInv, Sound
  <1>13. QED BY <1>3, <1>12 DEF Inv

\* The templates loaded after the rows were taken have the rows' own.
LEMMA LoadStep ==
  ASSUME Inv, SearchLoadsTemplates PROVE Inv'
  <1>0. TypeInv /\ ReaderInv /\ reader # None BY DEF Inv, SearchLoadsTemplates
  <1>1. /\ reader' = [pc |-> "scan", f |-> reader.f, segments |-> reader.segments, mem |-> reader.mem,
                      tmpls |-> Loaded]
        /\ known' = Loaded /\ UNCHANGED <<templates, mem, segments, rollups, written>>
    BY DEF SearchLoadsTemplates
  <1>2. TypeInv' /\ MemInv' /\ SegInv' /\ RollupInv' /\ Grows BY <1>1, QuietStep
  <1>3. /\ reader'.f = reader.f /\ reader'.segments = reader.segments /\ reader'.mem = reader.mem
        /\ reader'.tmpls = Loaded
    BY <1>1
  <1>4. Seen' = Seen BY <1>3 DEF Seen
  <1>5. \A r \in Seen : SoundIn(r, templates, Loaded, written) BY <1>0 DEF ReaderInv, Sound
  <1>6. \A r \in Seen : SoundIn(r, templates', Loaded', written') BY <1>2, <1>5, SoundKept DEF Grows
  <1>7. \A r \in Seen : r.tmpl # 0 => r.tmpl \in Loaded BY <1>5 DEF SoundIn
  <1>8. Loaded \subseteq DOMAIN templates' BY <1>0, <1>1, LoadedThere
  <1>9. ReaderInv' BY <1>0, <1>3, <1>4, <1>6, <1>7, <1>8 DEF ReaderInv, Sound
  <1>10. QED BY <1>2, <1>9 DEF Inv

\* Inv is inductive.
LEMMA StepKeepsInv == Inv /\ [Next]_vars => Inv'
  <1> SUFFICES ASSUME Inv, [Next]_vars PROVE Inv' OBVIOUS
  <1>0. TypeInv /\ MemInv BY DEF Inv
  <1>1. ASSUME NEW l \in Inputs, WriteRaw(l) \/ WriteMatched(l) \/ WriteMints(l) PROVE Inv'
    <2>1. TypeInv' /\ MemInv' /\ Grows /\ Flushed' = Flushed BY <1>0, <1>1, WriteStep
    <2>2. UNCHANGED <<segments, rollups, reader>> BY <1>1 DEF WriteRaw, WriteMatched, WriteMints
    <2>3. QED BY <2>1, <2>2, RestKept DEF Inv
  <1>2. CASE Writes BY <1>1, <1>2, FailStep DEF Writes
  <1>3. CASE Flush BY <1>3, FlushStep
  <1>4. CASE Compact BY <1>4, CompactStep
  <1>5. CASE Damage BY <1>5, DamageStep
  <1>6. CASE Restart BY <1>6, QuietStep DEF Restart, Inv
  <1>7. CASE SearchSnapshots BY <1>7, SnapshotStep
  <1>8. CASE SearchLoadsTemplates BY <1>8, LoadStep
  <1>9. CASE SearchScans BY <1>9, QuietStep DEF SearchScans, Inv
  <1>10. CASE UNCHANGED vars BY <1>10, QuietStep DEF vars, Inv
  <1>11. QED BY <1>2, <1>3, <1>4, <1>5, <1>6, <1>7, <1>8, <1>9, <1>10 DEF Next

\* Every row that is kept gives the log it was written with, a flush moves
\* every row of the memtable and counts it, and a search has the templates of
\* the rows it took.
THEOREM BodiesInvariant == Spec => []Inv
  BY InitInv, StepKeepsInv, PTL DEF Spec

\* "any previously returned (id, vars) pair reconstructs forever": a row of the
\* memtable or of a segment that is whole reads back as the body that was
\* written, whatever templates came later.
THEOREM BodiesReadBack == Spec => []BodiesExact
  <1>1. ASSUME Inv PROVE BodiesExact
    <2>1. MemInv /\ SegInv BY <1>1 DEF Inv
    <2>2. ASSUME NEW r \in ToSet(mem) \cup UNION {RowsOf(s) : s \in Intact} PROVE Sound(r)
      <3>1. CASE r \in ToSet(mem) BY <2>1, <3>1 DEF MemInv, ToSet
      <3>2. CASE r \in UNION {RowsOf(s) : s \in Intact}
        <4>1. r \in SegRows(segments) BY <3>2 DEF SegRows, Intact
        <4>2. QED BY <2>1, <4>1 DEF SegInv
      <3>3. QED BY <3>1, <3>2
    <2>3. \A r : Sound(r) => Readable(r) /\ RowToLog(r) = written[r.id].body
      BY DEF Sound, SoundIn, Readable, RowToLog
    <2>4. QED BY <2>2, <2>3 DEF BodiesExact
  <1>2. QED BY <1>1, BodiesInvariant, PTL

-----------------------------------------------------------------------------
(* Aggregate *)

\* A time is in the hour of a quotient.
LEMMA InHour ==
  ASSUME NEW t \in Nat
  PROVE  /\ Hour(t) \in Nat /\ HourLen \in Nat \ {0}
         /\ Hour(t) * HourLen <= t /\ t < (Hour(t) + 1) * HourLen
  <1>1. HourLen \in Nat \ {0} BY BodiesAssumption
  <1> DEFINE q == t \div HourLen
             r == t % HourLen
  <1>2. t = HourLen * q + r /\ r \in Nat /\ r < HourLen /\ q \in Nat BY <1>1
  <1> HIDE DEF q, r
  <1>3. HourLen * q = q * HourLen /\ (q + 1) * HourLen = q * HourLen + HourLen BY <1>1, <1>2
  <1>4. q * HourLen \in Nat BY <1>1, <1>2
  <1>5. q * HourLen <= t /\ t < (q + 1) * HourLen BY <1>1, <1>2, <1>3, <1>4
  <1>6. Hour(t) = q BY DEF Hour, q
  <1>7. QED BY <1>1, <1>2, <1>5, <1>6

\* Multiples keep their order.
LEMMA Multiples ==
  ASSUME NEW a \in Nat, NEW b \in Nat, NEW n \in Nat, a <= b
  PROVE  a * n \in Nat /\ b * n \in Nat /\ a * n <= b * n
  <1>1. b = a + (b - a) /\ b - a \in Nat OBVIOUS
  <1>2. a * n \in Nat /\ (b - a) * n \in Nat BY <1>1
  <1>3. b * n = a * n + (b - a) * n BY <1>1
  <1>4. QED BY <1>2, <1>3

\* aggregateBoundsMicros: a row is within the widened window exactly when its
\* hour is within that of the rollups.
LEMMA BoundsAreHours ==
  ASSUME NEW w \in Windows, NEW t \in Nat PROVE InBounds(w, t) <=> InHours(w, Hour(t))
  <1>1. w.since \in Nat \cup {None} /\ w.until \in Nat \cup {None} BY BodiesAssumption
  <1>2. Hour(t) \in Nat /\ Hour(t) * HourLen <= t /\ t < (Hour(t) + 1) * HourLen /\ HourLen \in Nat \ {0}
    BY InHour
  <1> DEFINE h == Hour(t)
  <1> HIDE DEF h
  <1>3. ASSUME NEW a \in Nat PROVE Hour(a) * HourLen <= t <=> Hour(a) <= h
    <2>1. Hour(a) \in Nat BY InHour
    <2> DEFINE x == Hour(a)
    <2> HIDE DEF x
    <2>2. x \in Nat /\ h \in Nat /\ h * HourLen <= t /\ t < (h + 1) * HourLen BY <1>2, <2>1 DEF x, h
    <2>3. ASSUME x <= h PROVE x * HourLen <= t
      <3>1. x * HourLen \in Nat /\ h * HourLen \in Nat /\ x * HourLen <= h * HourLen
        BY <1>2, <2>2, <2>3, Multiples
      <3>2. QED BY <2>2, <3>1
    <2>4. ASSUME h < x PROVE ~(x * HourLen <= t)
      <3>1. h + 1 \in Nat /\ h + 1 <= x BY <2>2, <2>4
      <3>2. (h + 1) * HourLen \in Nat /\ x * HourLen \in Nat /\ (h + 1) * HourLen <= x * HourLen
        BY <1>2, <2>2, <3>1, Multiples
      <3>3. QED BY <2>2, <3>2
    <2>5. x <= h \/ h < x BY <2>2
    <2>6. QED BY <2>2, <2>3, <2>4, <2>5 DEF x
  <1>4. ASSUME NEW a \in Nat PROVE t <= (Hour(a) + 1) * HourLen - 1 <=> h <= Hour(a)
    <2>1. Hour(a) \in Nat BY InHour
    <2> DEFINE x == Hour(a)
    <2> HIDE DEF x
    <2>2. x \in Nat /\ h \in Nat /\ h * HourLen <= t /\ t < (h + 1) * HourLen BY <1>2, <2>1 DEF x, h
    <2>3. ASSUME h <= x PROVE t <= (x + 1) * HourLen - 1
      <3>1. h + 1 \in Nat /\ x + 1 \in Nat /\ h + 1 <= x + 1 BY <2>2, <2>3
      <3>2. (h + 1) * HourLen \in Nat /\ (x + 1) * HourLen \in Nat /\ (h + 1) * HourLen <= (x + 1) * HourLen
        BY <1>2, <3>1, Multiples
      <3>3. QED BY <2>2, <3>2
    <2>4. ASSUME x < h PROVE ~(t <= (x + 1) * HourLen - 1)
      <3>1. x + 1 \in Nat /\ x + 1 <= h BY <2>2, <2>4
      <3>2. (x + 1) * HourLen \in Nat /\ h * HourLen \in Nat /\ (x + 1) * HourLen <= h * HourLen
        BY <1>2, <2>2, <3>1, Multiples
      <3>3. QED BY <2>2, <3>2
    <2>5. h <= x \/ x < h BY <2>2
    <2>6. QED BY <2>2, <2>3, <2>4, <2>5 DEF x
  <1>5. w.since # None => (Hour(w.since) * HourLen <= t <=> Hour(w.since) <= h) BY <1>1, <1>3
  <1>6. w.until # None => (t <= (Hour(w.until) + 1) * HourLen - 1 <=> h <= Hour(w.until)) BY <1>1, <1>4
  <1>7. QED BY <1>5, <1>6 DEF InBounds, InHours, h

\* RollupAggregate: the sum over some keys counts the rows flushed under them.
LEMMA RollupSum ==
  ASSUME Inv, NEW K \in SUBSET Counted
  PROVE  Cardinality(UNION {{k} \X (1..rollups[k]) : k \in K})
           = Cardinality({id \in 1..Flushed : RollupKey(written[id]) \in K})
  <1> DEFINE U == UNION {{k} \X (1..rollups[k]) : k \in K}
             A == {id \in 1..Flushed : RollupKey(written[id]) \in K}
             ids(k) == {id \in 1..Flushed : RollupKey(written[id]) = k}
             g == [p \in U |-> Ascending(ids(p[1]))[p[2]]]
  <1>0. TypeInv /\ MemInv /\ RollupInv BY DEF Inv
  <1>1. Flushed \in Nat BY <1>0, FlushedIs
  <1>2. ASSUME NEW k \in K
        PROVE  /\ \A j \in 1..rollups[k] : Ascending(ids(k))[j] \in ids(k)
               /\ \A id \in ids(k) : \E j \in 1..rollups[k] : Ascending(ids(k))[j] = id
               /\ \A j, l \in 1..rollups[k] : Ascending(ids(k))[j] = Ascending(ids(k))[l] => j = l
    <2> DEFINE S == ids(k)
               r(x) == Cardinality({y \in S : y < x}) + 1
    <2>1. S \in SUBSET (1..Flushed) OBVIOUS
    <2>2. IsFiniteSet(S) /\ S \subseteq Int BY <1>1, <2>1, UpTo, PartSize
    <2>3. rollups[k] = Cardinality(S) BY <1>0 DEF RollupInv
    <2>4. /\ \A j \in 1..Cardinality(S) : Ascending(S)[j] \in S
          /\ \A x \in S : r(x) \in 1..Cardinality(S) /\ Ascending(S)[r(x)] = x
          /\ \A j, l \in 1..Cardinality(S) : Ascending(S)[j] = Ascending(S)[l] => j = l
      <3> HIDE DEF S
      <3>1. QED BY <2>2, AscendingIs
    <2> HIDE DEF S, r
    <2>5. /\ \A j \in 1..rollups[k] : Ascending(S)[j] \in S
          /\ \A id \in S : \E j \in 1..rollups[k] : Ascending(S)[j] = id
          /\ \A j, l \in 1..rollups[k] : Ascending(S)[j] = Ascending(S)[l] => j = l
      BY <2>3, <2>4
    <2>6. QED BY <2>5 DEF S
  <1>3. \A p : p \in U <=> \E k \in K : \E j \in 1..rollups[k] : p = <<k, j>> OBVIOUS
  <1>4. \A k \in K : \A id \in ids(k) : id \in A /\ RollupKey(written[id]) = k OBVIOUS
  <1>5. \A id \in A : RollupKey(written[id]) \in K /\ id \in ids(RollupKey(written[id])) OBVIOUS
  <1>6. IsFiniteSet(A)
    <2>1. A \in SUBSET (1..Flushed) OBVIOUS
    <2>2. QED BY <1>1, <2>1, UpTo, PartSize
  <1> HIDE DEF U, A, ids
  <1>7. \A k \in K : \A j \in 1..rollups[k] : <<k, j>> \in U /\ g[<<k, j>>] = Ascending(ids(k))[j] BY <1>3
  <1> HIDE DEF g
  <1>8. ASSUME NEW p \in U PROVE g[p] \in A
    <2>1. PICK k \in K : \E j \in 1..rollups[k] : p = <<k, j>> BY <1>3
    <2>2. PICK j \in 1..rollups[k] : p = <<k, j>> BY <2>1
    <2>3. QED BY <1>2, <1>4, <1>7, <2>2
  <1>9. ASSUME NEW p \in U, NEW q \in U, g[p] = g[q] PROVE p = q
    <2>1. PICK k \in K : \E j \in 1..rollups[k] : p = <<k, j>> BY <1>3
    <2>2. PICK j \in 1..rollups[k] : p = <<k, j>> BY <2>1
    <2>3. PICK i \in K : \E l \in 1..rollups[i] : q = <<i, l>> BY <1>3
    <2>4. PICK l \in 1..rollups[i] : q = <<i, l>> BY <2>3
    <2>5. g[p] \in ids(k) /\ g[q] \in ids(i) BY <1>2, <1>7, <2>2, <2>4
    <2>6. k = i BY <1>4, <1>9, <2>5
    <2>7. Ascending(ids(k))[j] = Ascending(ids(k))[l] BY <1>7, <1>9, <2>2, <2>4, <2>6
    <2>8. j = l BY <1>2, <2>4, <2>6, <2>7
    <2>9. QED BY <2>2, <2>4, <2>6, <2>8
  <1>10. ASSUME NEW id \in A PROVE \E p \in U : g[p] = id
    <2> DEFINE k == RollupKey(written[id])
    <2>1. k \in K /\ id \in ids(k) BY <1>5
    <2> HIDE DEF k
    <2>2. PICK j \in 1..rollups[k] : Ascending(ids(k))[j] = id BY <1>2, <2>1
    <2>3. QED BY <1>7, <2>1, <2>2
  <1>11. g \in [U -> A]
    <2>1. g = [p \in U |-> g[p]] BY DEF g
    <2>2. QED BY <1>8, <2>1
  <1>12. g \in Injection(U, A) BY <1>9, <1>11 DEF Injection, IsInjective
  <1>13. g \in Surjection(U, A) BY <1>10, <1>11 DEF Surjection
  <1>14. Cardinality(U) = Cardinality(A) BY <1>6, <1>12, <1>13, FS_Injection
  <1>15. QED BY <1>14 DEF U, A

\* "making Aggregate's result depend on whether that row had been flushed yet":
\* Aggregate counts each row written into the hours of the window once,
\* wherever it is.
THEOREM AggregateCountsOnce == Spec => []AggregateExact
  <1>1. ASSUME Inv, NEW w \in Windows, NEW by \in {"svc", "hour"}, NEW key
        PROVE  Aggregate(w, by, key)
                 = Cardinality({id \in DOMAIN written : RollupKey(written[id])[by] = key
                                                          /\ InHours(w, Hour(written[id].ts))})
    <2> DEFINE m == Len(mem)
               K == {c \in Counted : c[by] = key /\ InHours(w, c.hour)}
               A == {id \in 1..Flushed : RollupKey(written[id]) \in K}
               C == {i \in 1..m : InBounds(w, mem[i].ts) /\ RollupKey(mem[i])[by] = key}
               B == {Flushed + i : i \in C}
               All == {id \in DOMAIN written : RollupKey(written[id])[by] = key
                                                  /\ InHours(w, Hour(written[id].ts))}
    <2>0. TypeInv /\ MemInv BY <1>1 DEF Inv
    <2>1. /\ Flushed \in Nat /\ Len(written) = Flushed + m /\ m \in Nat
          /\ DOMAIN mem = 1..m /\ DOMAIN written = 1..Len(written)
      BY <2>0, FlushedIs
    <2>2. ASSUME NEW id \in DOMAIN written
          PROVE  /\ written[id].ts \in Nat /\ RollupKey(written[id]) \in Counted
                 /\ RollupKey(written[id]).hour = Hour(written[id].ts)
      <3>1. written \in Seq(Inputs) BY <2>0 DEF TypeInv
      <3>2. written[id] \in Inputs BY <3>1
      <3>3. QED BY <3>2, InputsAre DEF RollupKey, Counted
    <2>3. Aggregate(w, by, key) = Cardinality(A) + Cardinality(C)
      <3>1. RollupCount(w, by, key) = Cardinality(A)
        <4>1. K \in SUBSET Counted OBVIOUS
        <4>2. RollupCount(w, by, key) = Cardinality(UNION {{k} \X (1..rollups[k]) : k \in K}) BY DEF RollupCount
        <4> HIDE DEF K
        <4>3. QED BY <1>1, <4>1, <4>2, RollupSum
      <3>2. QED BY <2>1, <3>1 DEF Aggregate
    <2>4. ASSUME NEW i \in 1..m
          PROVE  /\ Flushed + i \in DOMAIN written
                 /\ (i \in C <=> Flushed + i \in All)
      <3>1. /\ Flushed + i \in DOMAIN written /\ RollupKey(mem[i]) = RollupKey(written[Flushed + i])
            /\ mem[i].ts = written[Flushed + i].ts
        BY <2>0, <2>1, MemIs
      <3>2. InBounds(w, mem[i].ts) <=> InHours(w, Hour(written[Flushed + i].ts))
        BY <2>2, <3>1, BoundsAreHours
      <3>3. QED BY <3>1, <3>2
    <2>5. ASSUME NEW id \in 1..Flushed PROVE id \in DOMAIN written /\ (id \in A <=> id \in All)
      <3>1. id \in DOMAIN written BY <2>1
      <3>2. QED BY <2>2, <3>1
    <2>6. All = A \cup B
      <3>1. ASSUME NEW id \in All, id \notin A PROVE id \in B
        <4>1. id \in DOMAIN written /\ id \notin 1..Flushed BY <2>5, <3>1
        <4>2. id - Flushed \in 1..m /\ id = Flushed + (id - Flushed) BY <2>1, <4>1
        <4>3. id - Flushed \in C BY <2>4, <3>1, <4>2
        <4> HIDE DEF C
        <4>4. QED BY <4>2, <4>3
      <3>2. \A i \in C : i \in 1..m OBVIOUS
      <3>3. \A id \in A : id \in 1..Flushed OBVIOUS
      <3> HIDE DEF All, A, C
      <3>4. \A id \in B : id \in All BY <2>4, <3>2
      <3>5. \A id \in A : id \in All BY <2>5, <3>3
      <3> HIDE DEF B
      <3>6. QED BY <3>1, <3>4, <3>5
    <2>7. A \in SUBSET (1..Flushed) /\ C \in SUBSET (1..m) OBVIOUS
    <2>8. Cardinality(A \cup B) = Cardinality(A) + Cardinality(C)
      <3>1. Flushed \in Nat /\ m \in Nat BY <2>1
      <3>2. B = After(Flushed, C) BY DEF After
      <3>3. /\ \A x \in A : x \in Int /\ x <= Flushed
            /\ \A i \in C : i \in Int /\ i > 0
        BY <3>1
      <3> HIDE DEF A, B, C, m
      <3>4. IsFiniteSet(A) /\ IsFiniteSet(C) BY <2>7, <3>1, UpTo, PartSize
      <3>5. QED BY <3>1, <3>2, <3>3, <3>4, Shifted
    <2> HIDE DEF A, B, C
    <2>9. QED BY <2>3, <2>6, <2>8
  <1>2. Inv => AggregateExact BY <1>1 DEF AggregateExact
  <1>3. QED BY <1>2, BodiesInvariant, PTL

-----------------------------------------------------------------------------
(* The newest rows *)

Newer(S, r) == {o \in S : Before(<<r.ts, r.id>>, <<o.ts, o.id>>)}

\* The sort and cut of SearchLogs: of all that is asked for, any part with the
\* newest of them has the same newest.
LEMMA CutIs ==
  ASSUME NEW Y \in SUBSET Rows, IsFiniteSet(Y), ByIds(Y), NEW X \in SUBSET Y, Cut(Y) \subseteq X
  PROVE  Cut(X) = Cut(Y)
  <1> DEFINE key == [r \in Y |-> <<0 - r.ts, 0 - r.id>>]
             o == Sorted(Y, key)
  <1>1. \A r \in Y : r.ts \in Int /\ r.id \in Int BY DEF Rows
  <1>2. Limit \in Nat \ {0} BY BodiesAssumption
  <1>3. \A S : \A r : r \in Cut(S) <=> r \in S /\ Cardinality(Newer(S, r)) < Limit BY DEF Cut, Newer
  <1>4. Keyed(Y, key)
    <2>1. \A r \in Y : 0 - r.ts \in Int /\ 0 - r.id \in Int BY <1>1
    <2>2. \A a, b \in Y : key[a] = key[b] => a = b
      <3>1. ASSUME NEW a \in Y, NEW b \in Y, key[a] = key[b] PROVE a = b
        <4>1. 0 - a.id = 0 - b.id BY <3>1
        <4>2. a.id = b.id BY <1>1, <4>1
        <4>3. QED BY <4>2 DEF ByIds
      <3>2. QED BY <3>1
    <2>3. QED BY <2>1, <2>2 DEF Keyed
  <1>5. ASSUME NEW r \in Y PROVE Newer(Y, r) = Below(Y, key, r)
    <2>1. \A p \in Y : Before(<<r.ts, r.id>>, <<p.ts, p.id>>) <=> Before(key[p], key[r])
      BY <1>1 DEF Before
    <2>2. QED BY <2>1 DEF Newer, Below
  <1> HIDE DEF key
  <1>6. ASSUME NEW S \in SUBSET Y, NEW r \in Y
        PROVE  /\ IsFiniteSet(Newer(S, r)) /\ Cardinality(Newer(S, r)) \in Nat
               /\ Cardinality(Newer(Y, r)) \in Nat /\ Cardinality(Newer(S, r)) <= Cardinality(Newer(Y, r))
    <2>1. Newer(Y, r) \in SUBSET Y /\ Newer(S, r) \in SUBSET Newer(Y, r) BY DEF Newer
    <2>2. IsFiniteSet(Newer(Y, r)) BY <2>1, PartSize
    <2>3. QED BY <2>1, <2>2, PartSize
  <1>7. ASSUME NEW r \in Cut(Y) PROVE r \in Cut(X)
    <2>1. r \in X /\ r \in Y /\ Cardinality(Newer(Y, r)) < Limit BY <1>3
    <2>2. Cardinality(Newer(X, r)) < Limit BY <1>2, <1>6, <2>1
    <2>3. QED BY <1>3, <2>1, <2>2
  <1>8. ASSUME NEW r \in Cut(X) PROVE r \in Cut(Y)
    <2> DEFINE N == Newer(X, r)
               f == [k \in 1..Limit |-> o[k]]
    <2>1. r \in X /\ r \in Y /\ Cardinality(N) < Limit BY <1>3
    <2>2. SUFFICES ASSUME r \notin Cut(Y) PROVE FALSE OBVIOUS
    <2>3. ~(Cardinality(Newer(Y, r)) < Limit) BY <1>3, <2>1, <2>2
    <2>4. Rank(Y, key, r) > Limit BY <1>2, <1>5, <1>6, <2>1, <2>3 DEF Rank
    <2>5. Rank(Y, key, r) \in 1..Cardinality(Y) /\ Cardinality(Y) \in Nat BY <1>4, <2>1, RankIs
    <2>6. /\ \A k \in 1..Cardinality(Y) : o[k] \in Y /\ Rank(Y, key, o[k]) = k
          /\ \A k, l \in 1..Cardinality(Y) : o[k] = o[l] => k = l
      BY <1>4, SortedIs
    <2> HIDE DEF o, N
    <2>7. \A k \in 1..Limit : k \in 1..Cardinality(Y) /\ k < Rank(Y, key, r) BY <1>2, <2>4, <2>5
    <2>8. ASSUME NEW k \in 1..Limit PROVE o[k] \in N
      <3>1. o[k] \in Y /\ Rank(Y, key, o[k]) = k BY <2>6, <2>7
      <3>2. Cardinality(Newer(Y, o[k])) \in Nat /\ Cardinality(Newer(Y, o[k])) + 1 = k BY <1>5, <1>6, <3>1 DEF Rank
      <3>3. o[k] \in Cut(Y) BY <1>2, <1>3, <3>1, <3>2
      <3>4. Rank(Y, key, o[k]) < Rank(Y, key, r) BY <2>7, <3>1
      <3>5. Before(key[o[k]], key[r]) BY <1>4, <2>1, <3>1, <3>4, RankIs
      <3>6. o[k] \in Newer(Y, r) BY <1>5, <2>1, <3>1, <3>5 DEF Below
      <3>7. QED BY <3>3, <3>6 DEF Newer, N
    <2>9. f \in Injection(1..Limit, N)
      <3>1. \A k, l \in 1..Limit : f[k] = f[l] => k = l BY <2>6, <2>7
      <3>2. QED BY <2>8, <3>1 DEF Injection, IsInjective
    <2>10. IsFiniteSet(N) /\ Cardinality(N) \in Nat BY <1>6, <2>1 DEF N
    <2> HIDE DEF f
    <2>11. Cardinality(1..Limit) <= Cardinality(N) BY <2>9, <2>10, FS_Injection
    <2>12. Cardinality(1..Limit) = Limit BY <1>2, UpTo
    <2>13. QED BY <1>2, <2>1, <2>10, <2>11, <2>12
  <1>9. QED BY <1>7, <1>8

-----------------------------------------------------------------------------
(* What a scan finds *)

\* Fixed text of a template is in every body it gives.
LEMMA AlwaysText ==
  ASSUME NEW t \in Templates, t # <<>>, NEW v, NEW q, q \in Seq(ToSet(q)), Wild \notin ToSet(q), HasText(Text(t), q)
  PROVE  HasText(Text(Substitute(t, v)), q)
  <1> DEFINE u == Substitute(t, v)
             n == Len(t)
             a == Text(t)
             b == Text(u)
             m == Len(q)
  <1>1. n \in Nat \ {0} /\ DOMAIN t = 1..n
    <2>1. t \in Seq(Words \cup {Wild}) BY DEF Templates
    <2>2. QED BY <2>1
  <1>2. m \in Nat /\ DOMAIN q = 1..m /\ q = [j \in 1..m |-> q[j]] /\ \A j \in 1..m : q[j] \in ToSet(q)
    BY DEF ToSet
  <1>3. u = [i \in 1..n |-> u[i]] /\ \A i \in 1..n : t[i] # Wild => u[i] = t[i] BY <1>1 DEF Substitute
  <1> HIDE DEF u
  <1>4. Len(u) = n BY <1>1, <1>3
  <1> DEFINE l == 2 * n - 1
  <1>5. l \in Nat BY <1>1
  <1>6. /\ a = [i \in 1..l |-> IF i % 2 = 1 THEN t[(i + 1) \div 2] ELSE SP]
        /\ b = [i \in 1..l |-> IF i % 2 = 1 THEN u[(i + 1) \div 2] ELSE SP]
    BY <1>4 DEF Text
  <1>7. Len(a) = l /\ Len(b) = l
    <2> HIDE DEF l
    <2>1. Len([i \in 1..l |-> IF i % 2 = 1 THEN t[(i + 1) \div 2] ELSE SP]) = l
          /\ Len([i \in 1..l |-> IF i % 2 = 1 THEN u[(i + 1) \div 2] ELSE SP]) = l
      BY <1>5
    <2> HIDE DEF a, b
    <2>2. QED BY <1>6, <2>1
  <1>8. ASSUME NEW i \in 1..l, a[i] # Wild PROVE b[i] = a[i]
    <2>1. CASE i % 2 = 1
      <3>1. (i + 1) \div 2 \in 1..n BY <1>1
      <3> DEFINE k == (i + 1) \div 2
      <3>2. a[i] = t[k] /\ b[i] = u[k]
        <4> HIDE DEF a, b, l
        <4>1. QED BY <1>6, <2>1
      <3> HIDE DEF k, a, b
      <3>3. QED BY <1>3, <1>8, <3>1, <3>2 DEF k
    <2>2. CASE i % 2 # 1
      <3> HIDE DEF a, b, l
      <3>1. QED BY <1>6, <2>2
    <2>3. QED BY <2>1, <2>2
  <1> HIDE DEF a, b, l
  <1>9. PICK i \in 0..(l - m) : SubSeq(a, i + 1, i + m) = q BY <1>7 DEF HasText, a
  <1>10. i \in Nat /\ i + m <= l /\ i + 1 \in Int /\ i + m \in Int BY <1>2, <1>5
  <1>11. \A k \in (i + 1)..(i + m) : k \in 1..l /\ k - i \in 1..m BY <1>2, <1>5, <1>10
  <1>12. \A k \in (i + 1)..(i + m) : a[k] = q[k - i]
    <2> DEFINE S == {a[k] : k \in (i + 1)..(i + m)}
               sub == SubSeq(a, i + 1, i + m)
    <2>1. \A k \in (i + 1)..(i + m) : a[k] \in S OBVIOUS
    <2>2. \A j \in 1..((i + m) - (i + 1) + 1) : sub[j] = a[(i + 1) + j - 1]
      <3> HIDE DEF S
      <3>1. QED BY <1>10, <2>1, SubSeqProperties
    <2> HIDE DEF sub
    <2>3. sub = q BY <1>9 DEF sub
    <2>4. ASSUME NEW k \in (i + 1)..(i + m) PROVE a[k] = q[k - i]
      <3>1. k - i \in 1..m BY <1>11
      <3>2. k - i \in 1..((i + m) - (i + 1) + 1) /\ (i + 1) + (k - i) - 1 = k BY <1>2, <1>10, <3>1
      <3>3. QED BY <2>2, <2>3, <3>2
    <2>5. QED BY <2>4
  <1>13. \A k \in (i + 1)..(i + m) : b[k] = q[k - i]
    <2>1. ASSUME NEW k \in (i + 1)..(i + m) PROVE b[k] = q[k - i]
      <3>1. k \in 1..l /\ k - i \in 1..m BY <1>11
      <3>2. q[k - i] # Wild BY <1>2, <3>1
      <3>3. QED BY <1>8, <1>12, <3>1, <3>2
    <2>2. QED BY <2>1
  <1>14. SubSeq(b, i + 1, i + m) = q
    <2> DEFINE sub == SubSeq(b, i + 1, i + m)
               S == ToSet(q)
    <2>1. \A k \in (i + 1)..(i + m) : b[k] \in S BY <1>2, <1>11, <1>13
    <2>2. /\ sub \in Seq(S) /\ Len(sub) = (IF i + 1 <= i + m THEN (i + m) - (i + 1) + 1 ELSE 0)
          /\ \A j \in 1..((i + m) - (i + 1) + 1) : sub[j] = b[(i + 1) + j - 1]
      <3> HIDE DEF S
      <3>1. QED BY <1>10, <2>1, SubSeqProperties
    <2> HIDE DEF sub, S
    <2>3. Len(sub) = m /\ (i + m) - (i + 1) + 1 = m BY <1>2, <1>10, <2>2
    <2>4. ASSUME NEW j \in 1..m PROVE sub[j] = q[j]
      <3>0. i \in Int /\ m \in Int /\ j \in Int /\ 1 <= j /\ j <= m BY <1>2, <1>10
      <3>1. j \in 1..((i + m) - (i + 1) + 1) /\ (i + 1) + j - 1 = i + j BY <3>0
      <3>2. i + j \in (i + 1)..(i + m) /\ (i + j) - i = j BY <1>2, <1>10
      <3>3. QED BY <1>13, <2>2, <3>1, <3>2
    <2>5. DOMAIN sub = 1..m /\ sub = [j \in 1..m |-> sub[j]] BY <2>2, <2>3
    <2>6. sub = q BY <1>2, <2>4, <2>5
    <2>7. QED BY <2>6 DEF sub
  <1>15. i \in 0..(Len(b) - m) BY <1>7
  <1>16. QED BY <1>14, <1>15 DEF HasText, b, u

\* The body a row was written with.
BodyOf(r) == written[r.id].body
HasQuery(f, r) == f.q = <<>> \/ HasText(Text(BodyOf(r)), f.q)

\* What a search has been shown to have when it scans.
Ready(f, tmpls, rows) ==
  /\ f \in Filters /\ tmpls \subseteq DOMAIN templates /\ templates \in Seq(Templates)
  /\ written \in Seq(Inputs)
  /\ \A r \in rows : Sound(r) /\ (r.tmpl # 0 => r.tmpl \in tmpls)

\* computeMatch: of a segment that the manifest does not rule out, exactly the
\* rows of the filter's service and time match; of another none do.
LEMMA MatchIs ==
  ASSUME NEW s, NEW rows, Holds(s, rows), NEW f \in Filters
  PROVE  /\ Candidate(s, f) => Match(s, f) = {i \in DOMAIN rows : Admits(f, rows[i].ts, rows[i].svc)}
         /\ ~Candidate(s, f) => \A i \in DOMAIN rows : ~Admits(f, rows[i].ts, rows[i].svc)
  <1> DEFINE D == DOMAIN rows
             ref == CHOOSE k \in DOMAIN s.svcDict : s.svcDict[k] = f.svc
             last == Len(rows)
  <1>1. /\ DOMAIN s.ids = D /\ Len(s.ts) = last /\ last \in D /\ D = 1..last /\ last \in Nat
        /\ \A i \in D : /\ rows[i] \in Rows /\ Undelta(s.ts)[i] = rows[i].ts
                        /\ s.svcRefs[i] \in DOMAIN s.svcDict /\ s.svcDict[s.svcRefs[i]] = rows[i].svc
                        /\ s.svcRefs[i] = CHOOSE k \in DOMAIN s.svcDict : s.svcDict[k] = rows[i].svc
        /\ \A x : x \in ToSet(s.svcDict) <=> \E i \in D : x = rows[i].svc
    <2>1. DOMAIN s.ids = D /\ Len(s.ts) = last /\ last \in D /\ D = 1..last /\ last \in Nat BY HoldsIs
    <2>2. \A i \in D : /\ rows[i] \in Rows /\ Undelta(s.ts)[i] = rows[i].ts
                       /\ s.svcRefs[i] \in DOMAIN s.svcDict /\ s.svcDict[s.svcRefs[i]] = rows[i].svc
      BY HoldsIs
    <2>3. \A i \in D : s.svcRefs[i] = CHOOSE k \in DOMAIN s.svcDict : s.svcDict[k] = rows[i].svc BY HoldsIs
    <2>4. \A x : x \in ToSet(s.svcDict) <=> \E i \in D : x = rows[i].svc BY HoldsIs
    <2> HIDE DEF D, last
    <2>5. QED BY <2>1, <2>2, <2>3, <2>4
  <1>2. \A i \in D : rows[i].ts \in Nat /\ rows[i].ts <= rows[last].ts
    <2>1. \A x \in Rows : x.ts \in Nat BY DEF Rows
    <2>2. \A i, k \in D : i <= k => rows[i].ts <= rows[k].ts BY DEF Holds
    <2> HIDE DEF D, last
    <2>3. \A i \in D : i <= last BY <1>1
    <2>4. QED BY <1>1, <2>1, <2>2, <2>3
  <1>3. f.since \in Nat BY BodiesAssumption
  <1>4. ASSUME Candidate(s, f) PROVE Match(s, f) = {i \in D : Admits(f, rows[i].ts, rows[i].svc)}
    <2>1. ASSUME f.svc # None, NEW i \in D PROVE s.svcRefs[i] = ref <=> rows[i].svc = f.svc
      <3>1. f.svc \in ToSet(s.svcDict) BY <1>4, <2>1 DEF Candidate
      <3>2. \E k \in DOMAIN s.svcDict : s.svcDict[k] = f.svc BY <3>1 DEF ToSet
      <3>3. s.svcDict[ref] = f.svc BY <3>2
      <3>4. s.svcDict[s.svcRefs[i]] = rows[i].svc
            /\ s.svcRefs[i] = CHOOSE k \in DOMAIN s.svcDict : s.svcDict[k] = rows[i].svc
        BY <1>1
      <3>5. rows[i].svc = f.svc => s.svcRefs[i] = ref BY <3>4
      <3> HIDE DEF ref
      <3>6. QED BY <3>3, <3>4, <3>5
    <2>2. Match(s, f) = {i \in D : f.since <= Undelta(s.ts)[i] /\ (f.svc = None \/ s.svcRefs[i] = ref)}
      BY <1>1 DEF Match
    <2> HIDE DEF ref, D
    <2>3. \A i \in D : f.since <= Undelta(s.ts)[i] /\ (f.svc = None \/ s.svcRefs[i] = ref)
                         <=> Admits(f, rows[i].ts, rows[i].svc)
      BY <1>1, <2>1 DEF Admits
    <2>4. QED BY <2>2, <2>3
  <1>5. ASSUME ~Candidate(s, f), NEW i \in D PROVE ~Admits(f, rows[i].ts, rows[i].svc)
    <2>1. CASE ~(f.since <= Undelta(s.ts)[Len(s.ts)])
      <3>1. ~(f.since <= rows[last].ts) BY <1>1, <2>1
      <3>2. rows[i].ts \in Nat /\ rows[last].ts \in Nat /\ rows[i].ts <= rows[last].ts BY <1>1, <1>2
      <3>3. ~(f.since <= rows[i].ts) BY <1>3, <3>1, <3>2
      <3>4. QED BY <3>3 DEF Admits
    <2>2. CASE f.svc # None /\ f.svc \notin ToSet(s.svcDict)
      <3>1. rows[i].svc \in ToSet(s.svcDict) BY <1>1
      <3>2. QED BY <2>2, <3>1 DEF Admits
    <2>3. QED BY <1>5, <2>1, <2>2 DEF Candidate
  <1>6. QED BY <1>4, <1>5

\* rowMatches: matched by its columns and the snapshot's templates, a row has
\* the text exactly when its body does, and its template is never missing.
LEMMA RowMatchesIs ==
  ASSUME NEW s, NEW rows, Holds(s, rows), NEW f, NEW tmpls, Ready(f, tmpls, ToSet(rows)), NEW i \in DOMAIN rows
  PROVE  (RowMatches(s, i, f, tmpls) <=> HasQuery(f, rows[i])) /\ ~Unknown(s, i, f, tmpls)
  <1> DEFINE r == rows[i]
  <1>1. s.tmpl[i] = r.tmpl /\ Vars(s, i) = r.vars /\ RawBytes(s, i) = r.raw BY HoldsIs
  <1>2. r \in ToSet(rows) BY DEF ToSet
  <1> HIDE DEF r
  <1>3. /\ Sound(r) /\ (r.tmpl # 0 => r.tmpl \in tmpls) /\ f \in Filters
        /\ tmpls \subseteq DOMAIN templates /\ templates \in Seq(Templates) /\ written \in Seq(Inputs)
    BY <1>2 DEF Ready
  <1>4. 0 \notin tmpls
    <2>1. 0 \notin DOMAIN templates BY <1>3
    <2>2. QED BY <1>3, <2>1
  <1>5. f.q \in Seq(ToSet(f.q)) BY <1>3, BodiesAssumption
  <1>6. CASE r.tmpl = 0
    <2>1. r.raw = BodyOf(r) BY <1>3, <1>6 DEF Sound, SoundIn, BodyOf
    <2>2. s.tmpl[i] \notin AlwaysContaining(tmpls, f.q) BY <1>1, <1>4, <1>6 DEF AlwaysContaining
    <2>3. QED BY <1>1, <1>4, <1>6, <2>1, <2>2 DEF RowMatches, Unknown, HasQuery, r
  <1>7. CASE r.tmpl # 0
    <2> DEFINE t == templates[r.tmpl]
    <2>1. r.tmpl \in tmpls /\ r.tmpl \in DOMAIN templates /\ Fills(t, r.vars) /\ Substitute(t, r.vars) = BodyOf(r)
      BY <1>3, <1>7 DEF Sound, SoundIn, BodyOf
    <2>2. t \in Templates BY <1>3, <2>1
    <2> HIDE DEF t
    <2>3. t # <<>>
      <3>1. r.id \in DOMAIN written BY <1>3 DEF Sound, SoundIn
      <3>2. written[r.id] \in Inputs BY <1>3, <3>1
      <3>3. BodyOf(r) \in Seq(Words) /\ BodyOf(r) # <<>> BY <3>2, InputsAre DEF BodyOf
      <3>4. DOMAIN BodyOf(r) # {} BY <3>3
      <3>5. DOMAIN t = DOMAIN BodyOf(r) BY <2>1 DEF Substitute
      <3>6. QED BY <3>4, <3>5
    <2>4. ASSUME s.tmpl[i] \in AlwaysContaining(tmpls, f.q) PROVE HasText(Text(BodyOf(r)), f.q)
      <3>1. Wild \notin ToSet(f.q) /\ HasText(Text(t), f.q) BY <1>1, <2>4 DEF AlwaysContaining, t
      <3>2. HasText(Text(Substitute(t, r.vars)), f.q) BY <1>5, <2>2, <2>3, <3>1, AlwaysText
      <3>3. QED BY <2>1, <3>2
    <2>5. ~Unknown(s, i, f, tmpls) BY <1>1, <2>1 DEF Unknown, t
    <2>6. RowMatches(s, i, f, tmpls) <=> HasQuery(f, r)
      <3>1. Substitute(templates[s.tmpl[i]], Vars(s, i)) = BodyOf(r) BY <1>1, <2>1 DEF t
      <3>2. QED BY <1>1, <1>7, <2>1, <2>4, <3>1 DEF RowMatches, HasQuery
    <2>7. QED BY <2>5, <2>6 DEF r
  <1>8. QED BY <1>6, <1>7

\* searchScanChunked: a scan finds rows that have the text, and among them each
\* that fewer than Limit of those asked for, B, are newer than.
LEMMA ScanIs ==
  ASSUME NEW s, NEW rows, Holds(s, rows), NEW f, NEW tmpls, Ready(f, tmpls, ToSet(rows)), Candidate(s, f),
         NEW B, IsFiniteSet(B),
         \A i \in DOMAIN rows : Admits(f, rows[i].ts, rows[i].svc) /\ HasQuery(f, rows[i]) => rows[i] \in B
  PROVE  /\ \A i \in Scan(s, f, tmpls) :
              i \in DOMAIN rows /\ Admits(f, rows[i].ts, rows[i].svc) /\ HasQuery(f, rows[i])
         /\ \A i \in DOMAIN rows :
              /\ Admits(f, rows[i].ts, rows[i].svc) /\ HasQuery(f, rows[i])
              /\ Cardinality({o \in B : o.ts > rows[i].ts}) < Limit
              => i \in Scan(s, f, tmpls)
  <1> DEFINE D == DOMAIN rows
             H == Match(s, f)
             M == {i \in H : RowMatches(s, i, f, tmpls)}
             ts(i) == Undelta(s.ts)[i]
             Up(R, i) == {k \in R : ts(k) > ts(i)}
             Of(c) == {i \in c : RowMatches(s, i, f, tmpls)}
             U == UNION {Newest(s, Of(c)) : c \in Chunks(H)}
  <1>1. /\ D = 1..Len(rows) /\ Len(rows) \in Nat
        /\ \A i \in D : ts(i) = rows[i].ts /\ rows[i] \in Rows
    BY HoldsIs
  <1>2. f \in Filters BY DEF Ready
  <1>3. H = {i \in D : Admits(f, rows[i].ts, rows[i].svc)} BY <1>2, MatchIs
  <1>4. \A i \in D : RowMatches(s, i, f, tmpls) <=> HasQuery(f, rows[i]) BY RowMatchesIs
  <1>5. IsFiniteSet(D) BY <1>1, UpTo
  <1>6. Limit \in Nat /\ ChunkRows \in Nat \ {0} BY BodiesAssumption
  <1>7. Scan(s, f, tmpls) = Newest(s, U) BY DEF Scan
  <1> HIDE DEF H
  <1>8. \A i : i \in M <=> i \in D /\ Admits(f, rows[i].ts, rows[i].svc) /\ HasQuery(f, rows[i])
    BY <1>3, <1>4
  <1>9. \A R : \A i : i \in Newest(s, R) <=> i \in R /\ Cardinality(Up(R, i)) < Limit BY DEF Newest
  <1>10. \A c \in Chunks(H) : c \subseteq H BY DEF Chunks
  <1> HIDE DEF ts, D
  <1>11. U \subseteq M
    <2>1. ASSUME NEW c \in Chunks(H), NEW i \in Newest(s, Of(c)) PROVE i \in M
      <3>1. i \in Of(c) BY <1>9
      <3>2. QED BY <1>10, <3>1
    <2>2. QED BY <2>1
  <1>12. ASSUME NEW i \in H PROVE \E c \in Chunks(H) : i \in c
    <2> DEFINE lower(k) == Cardinality({j \in H : j < k})
               n == lower(i) \div ChunkRows
    <2>1. H \in SUBSET D BY <1>3
    <2>2. IsFiniteSet(H) BY <1>5, <2>1, PartSize
    <2>3. {j \in H : j < i} \in SUBSET H OBVIOUS
    <2>4. lower(i) \in Nat /\ Cardinality(H) \in Nat /\ lower(i) <= Cardinality(H) BY <2>2, <2>3, PartSize
    <2> HIDE DEF lower
    <2>5. n \in 0..Cardinality(H)
      <3> DEFINE a == lower(i)
      <3> HIDE DEF a
      <3>1. a \in Nat /\ a <= Cardinality(H) BY <2>4 DEF a
      <3>2. a \div ChunkRows \in Nat /\ a \div ChunkRows <= a BY <1>6, <3>1
      <3>3. QED BY <2>4, <3>1, <3>2 DEF a
    <2> DEFINE c == {k \in H : lower(k) \div ChunkRows = n}
    <2>6. c \in Chunks(H) BY <2>5 DEF Chunks, lower
    <2>7. i \in c OBVIOUS
    <2>8. QED BY <2>6, <2>7
  <1>13. ASSUME NEW i \in M, Cardinality({o \in B : o.ts > rows[i].ts}) < Limit, NEW R \in SUBSET M
         PROVE  Cardinality(Up(R, i)) < Limit
    <2> DEFINE N == {o \in B : o.ts > rows[i].ts}
               g == [k \in Up(R, i) |-> rows[k]]
    <2>1. IsFiniteSet(N) /\ Cardinality(N) \in Nat
      <3>1. N \in SUBSET B OBVIOUS
      <3>2. QED BY <3>1, PartSize
    <2>2. i \in D BY <1>8
    <2> HIDE DEF M
    <2>3. ASSUME NEW k \in Up(R, i) PROVE k \in D /\ rows[k] \in N
      <3>1. k \in M /\ ts(k) > ts(i) OBVIOUS
      <3>2. k \in D /\ rows[k] \in B BY <1>8, <3>1 DEF D
      <3>3. ts(k) = rows[k].ts /\ ts(i) = rows[i].ts BY <1>1, <2>2, <3>2
      <3>4. QED BY <3>1, <3>2, <3>3
    <2>4. ASSUME NEW k \in Up(R, i), NEW l \in Up(R, i), rows[k] = rows[l] PROVE k = l
      <3>1. k \in D /\ l \in D BY <2>3
      <3>2. QED BY <2>4, <3>1 DEF Holds, D
    <2> HIDE DEF N, Up
    <2>5. g \in Injection(Up(R, i), N) BY <2>3, <2>4 DEF Injection, IsInjective
    <2> HIDE DEF g
    <2>6. IsFiniteSet(Up(R, i)) /\ Cardinality(Up(R, i)) <= Cardinality(N) BY <2>1, <2>5, FS_Injection
    <2>7. Cardinality(Up(R, i)) \in Nat BY <2>6, FS_CardinalityType
    <2>8. Cardinality(N) < Limit BY <1>13 DEF N
    <2>9. QED BY <1>6, <2>1, <2>6, <2>7, <2>8
  <1>14. ASSUME NEW i \in Scan(s, f, tmpls) PROVE i \in M
    <2> HIDE DEF U, M
    <2>1. i \in Newest(s, U) BY <1>7
    <2>2. i \in U BY <1>9, <2>1
    <2>3. QED BY <1>11, <2>2
  <1>15. ASSUME NEW i \in M, Cardinality({o \in B : o.ts > rows[i].ts}) < Limit PROVE i \in Scan(s, f, tmpls)
    <2>1. i \in H /\ RowMatches(s, i, f, tmpls) OBVIOUS
    <2>2. PICK c \in Chunks(H) : i \in c BY <1>12, <2>1
    <2>3. i \in Of(c) /\ Of(c) \in SUBSET M BY <1>10, <2>1, <2>2
    <2>4. i \in Newest(s, Of(c)) BY <1>9, <1>13, <1>15, <2>3
    <2>5. i \in U /\ U \in SUBSET M BY <1>11, <2>2, <2>4
    <2> HIDE DEF U, M, Of
    <2>6. i \in Newest(s, U) BY <1>9, <1>13, <1>15, <2>5
    <2>7. QED BY <1>7, <2>6
  <1> HIDE DEF M
  <1>16. QED BY <1>8, <1>14, <1>15 DEF D

-----------------------------------------------------------------------------
(* The answer of a search *)

\* What a search is to find, of the rows it took.
Asked == {r \in Seen : Admits(reader.f, r.ts, r.svc) /\ HasQuery(reader.f, r)}

\* The rows that the scans and the memtable give it.
Hits ==
  (UNION {{RowAt(s, i) : i \in Scan(s, reader.f, reader.tmpls)} : s \in Candidates})
    \cup MemMatches(reader.mem, reader.f)

\* A hit is a row some scan gave, or one of the memtable.
LEMMA HitIs ==
  ASSUME NEW r
  PROVE  r \in Hits <=> \/ \E s \in Candidates : \E i \in Scan(s, reader.f, reader.tmpls) : r = RowAt(s, i)
                        \/ r \in MemMatches(reader.mem, reader.f)
  BY DEF Hits

\* A row is wanted of those asked for.
LEMMA WantedIs == Wanted(reader.f, reader.segments, reader.mem) = Cut(Asked)
  <1> DEFINE All == (UNION {RowsOf(s) : s \in reader.segments}) \cup ToSet(reader.mem)
             Y == {r \in All : Admits(reader.f, r.ts, r.svc)
                                 /\ (reader.f.q = <<>> \/ HasText(Text(written[r.id].body), reader.f.q))}
  <1>1. Wanted(reader.f, reader.segments, reader.mem) = Cut(Y) BY DEF Wanted
  <1>2. All = Seen BY DEF Seen, SegRows
  <1> HIDE DEF All
  <1>3. \A r : r \in Y <=> r \in Asked BY <1>2 DEF Asked, HasQuery, BodyOf
  <1> HIDE DEF Y
  <1>4. Y = Asked BY <1>3
  <1>5. QED BY <1>1, <1>4

\* SearchLogs: "AlwaysContaining ... sound but deliberately not complete": it
\* answers with exactly the newest Limit rows of its snapshot that have the
\* text, and fails only over a damaged segment.
THEOREM SearchFindsNewest == Spec => []SearchExact
  <1>1. ASSUME Inv, reader # None, reader.pc = "scan"
        PROVE  IF SearchFails THEN \E s \in reader.segments : s.damaged # None
               ELSE Answer = {<<r.id, written[r.id].body>> : r \in Wanted(reader.f, reader.segments, reader.mem)}
    <2> DEFINE f == reader.f
               tmpls == reader.tmpls
    <2>1. /\ TypeInv /\ f \in Filters /\ Whole(reader.segments) /\ reader.mem \in Seq(Rows)
          /\ ByIds(Seen) /\ \A r \in Seen : Sound(r) /\ (r.tmpl # 0 => r.tmpl \in tmpls)
          /\ tmpls \subseteq DOMAIN templates
      BY <1>1 DEF Inv, ReaderInv
    <2>2. IsFiniteSet(Seen) BY <2>1, RowsFinite
    <2>3. Asked \in SUBSET Seen BY DEF Asked
    <2>4. IsFiniteSet(Asked) /\ ByIds(Asked) /\ Asked \in SUBSET Rows
      <3>1. IsFiniteSet(Asked) BY <2>2, <2>3, PartSize
      <3>2. \A r \in Seen : r \in Rows BY <2>1 DEF Sound, SoundIn
      <3>3. QED BY <2>1, <2>3, <3>1, <3>2 DEF ByIds
    <2>5. Limit \in Nat \ {0} BY BodiesAssumption
    <2>6. \A r \in Seen : Readable(r) /\ RowToLog(r) = BodyOf(r)
      <3>1. \A r : Sound(r) => Readable(r) /\ RowToLog(r) = BodyOf(r)
        BY DEF Sound, SoundIn, Readable, RowToLog, BodyOf
      <3>2. QED BY <2>1, <3>1
    <2>7. ASSUME NEW s \in reader.segments, NEW rows, Holds(s, rows)
          PROVE  /\ ToSet(rows) \subseteq Seen /\ Ready(f, tmpls, ToSet(rows))
                 /\ \A i \in DOMAIN rows : rows[i] \in Seen /\ RowAt(s, i) = rows[i]
      <3>1. RowsOf(s) = ToSet(rows) /\ \A i \in DOMAIN rows : RowAt(s, i) = rows[i] BY <2>7, HoldsIs
      <3>2. ToSet(rows) \subseteq Seen BY <3>1 DEF Seen, SegRows
      <3>3. \A i \in DOMAIN rows : rows[i] \in ToSet(rows) BY DEF ToSet
      <3>4. Ready(f, tmpls, ToSet(rows))
        <4> HIDE DEF f, tmpls
        <4>1. QED BY <2>1, <3>2 DEF Ready, TypeInv
      <3>5. QED BY <3>1, <3>2, <3>3, <3>4
    <2>8. MemMatches(reader.mem, f) = {r \in ToSet(reader.mem) : Admits(f, r.ts, r.svc) /\ HasQuery(f, r)}
      <3>1. \A r \in ToSet(reader.mem) : RowToLog(r) = BodyOf(r) BY <2>6 DEF Seen
      <3>2. QED BY <3>1 DEF MemMatches, HasQuery
    <2>9. ASSUME NEW r \in Hits PROVE r \in Asked
      <3>1. CASE r \in MemMatches(reader.mem, f) BY <2>8, <3>1 DEF Asked, Seen
      <3>2. CASE r \notin MemMatches(reader.mem, f)
        <4>1. \E s \in Candidates : \E i \in Scan(s, f, tmpls) : r = RowAt(s, i) BY <3>2, HitIs
        <4>2. PICK s \in Candidates : \E i \in Scan(s, f, tmpls) : r = RowAt(s, i) BY <4>1
        <4>10. PICK i \in Scan(s, f, tmpls) : r = RowAt(s, i) BY <4>2
        <4>3. s \in reader.segments /\ Candidate(s, f) BY DEF Candidates
        <4>4. PICK rows : Holds(s, rows) BY <2>1, <4>3 DEF Whole
        <4>5. /\ Ready(f, tmpls, ToSet(rows))
              /\ \A k \in DOMAIN rows : rows[k] \in Seen /\ RowAt(s, k) = rows[k]
          BY <2>7, <4>3, <4>4
        <4>6. \A k \in DOMAIN rows : Admits(f, rows[k].ts, rows[k].svc) /\ HasQuery(f, rows[k]) => rows[k] \in Asked
          BY <4>5 DEF Asked
        <4> HIDE DEF f, tmpls
        <4>7. i \in DOMAIN rows /\ Admits(f, rows[i].ts, rows[i].svc) /\ HasQuery(f, rows[i])
          BY <2>4, <4>3, <4>4, <4>5, <4>6, ScanIs
        <4>8. QED BY <4>5, <4>6, <4>7, <4>10
      <3>3. QED BY <3>1, <3>2
    <2>10. ASSUME NEW r \in Cut(Asked) PROVE r \in Hits
      <3>1. r \in Asked /\ Cardinality(Newer(Asked, r)) < Limit BY DEF Cut, Newer
      <3>2. r \in Seen /\ Admits(f, r.ts, r.svc) /\ HasQuery(f, r) BY <3>1 DEF Asked
      <3>3. CASE r \in ToSet(reader.mem) BY <2>8, <3>2, <3>3, HitIs
      <3>4. CASE r \notin ToSet(reader.mem)
        <4>1. r \in SegRows(reader.segments) BY <3>2, <3>4 DEF Seen
        <4>2. PICK s \in reader.segments : r \in RowsOf(s) BY <4>1 DEF SegRows
        <4>3. PICK rows : Holds(s, rows) BY <2>1 DEF Whole
        <4>4. /\ Ready(f, tmpls, ToSet(rows))
              /\ \A k \in DOMAIN rows : rows[k] \in Seen /\ RowAt(s, k) = rows[k]
          BY <2>7, <4>3
        <4>5. PICK i \in DOMAIN rows : r = rows[i] BY <4>2, <4>3, HoldsIs DEF ToSet
        <4>6. \A k \in DOMAIN rows : Admits(f, rows[k].ts, rows[k].svc) /\ HasQuery(f, rows[k]) => rows[k] \in Asked
          BY <4>4 DEF Asked
        <4>7. Cardinality({o \in Asked : o.ts > rows[i].ts}) < Limit
          <5> DEFINE N == {o \in Asked : o.ts > rows[i].ts}
          <5>1. \A x \in Rows : x.ts \in Nat BY DEF Rows
          <5>2. r.ts \in Nat /\ \A o \in Asked : o.ts \in Nat BY <2>4, <3>1, <5>1
          <5>3. N \in SUBSET Newer(Asked, r) BY <4>5, <5>2 DEF Newer, Before
          <5>4. Newer(Asked, r) \in SUBSET Asked BY DEF Newer
          <5>5. IsFiniteSet(Newer(Asked, r)) /\ Cardinality(Newer(Asked, r)) \in Nat BY <2>4, <5>4, PartSize
          <5> HIDE DEF N
          <5>6. Cardinality(N) \in Nat /\ Cardinality(N) <= Cardinality(Newer(Asked, r)) BY <5>3, <5>5, PartSize
          <5>7. Cardinality(N) < Limit BY <2>5, <3>1, <5>5, <5>6
          <5>8. QED BY <5>7 DEF N
        <4>8. Candidate(s, f) BY <2>1, <3>2, <4>3, <4>5, MatchIs
        <4> HIDE DEF f, tmpls
        <4>9. i \in Scan(s, f, tmpls) BY <2>4, <3>2, <4>3, <4>4, <4>5, <4>6, <4>7, <4>8, ScanIs
        <4>10. r = RowAt(s, i) BY <4>4, <4>5
        <4>11. s \in Candidates BY <4>8 DEF Candidates, f
        <4>12. QED BY <4>9, <4>10, <4>11, HitIs DEF f, tmpls
      <3>5. QED BY <3>3, <3>4
    <2>11. Found = Cut(Hits) BY DEF Found, Hits
    <2>12. Cut(Hits) = Cut(Asked)
      <3>1. Hits \in SUBSET Asked BY <2>9
      <3>2. Cut(Asked) \subseteq Hits BY <2>10
      <3>3. QED BY <2>4, <3>1, <3>2, CutIs
    <2>13. Wanted(f, reader.segments, reader.mem) = Cut(Asked) BY WantedIs
    <2>14. \A r \in Cut(Asked) : r \in Seen BY <2>3 DEF Cut
    <2>15. Answer = {<<r.id, written[r.id].body>> : r \in Wanted(f, reader.segments, reader.mem)}
      <3>1. Answer = {<<r.id, RowToLog(r)>> : r \in Cut(Asked)} BY <2>11, <2>12 DEF Answer
      <3>2. \A r \in Cut(Asked) : RowToLog(r) = written[r.id].body BY <2>6, <2>14 DEF BodyOf
      <3>3. QED BY <2>13, <3>1, <3>2
    <2>16. ASSUME SearchFails PROVE \E s \in reader.segments : s.damaged # None
      <3>1. \A r \in Found : Readable(r) BY <2>6, <2>11, <2>12, <2>14
      <3>2. \A r \in ToSet(reader.mem) : Readable(r) BY <2>6 DEF Seen
      <3>3. PICK s \in Candidates : ScanFails(s, f, tmpls) BY <2>16, <3>1, <3>2 DEF SearchFails
      <3>4. s \in reader.segments /\ Candidate(s, f) BY DEF Candidates
      <3>5. PICK rows : Holds(s, rows) BY <2>1, <3>4 DEF Whole
      <3>6. Ready(f, tmpls, ToSet(rows)) BY <2>7, <3>4, <3>5
      <3>7. Match(s, f) \subseteq DOMAIN rows BY <2>1, <3>4, <3>5, MatchIs
      <3> HIDE DEF f, tmpls
      <3>8. \A i \in Match(s, f) : ~Unknown(s, i, f, tmpls) BY <3>5, <3>6, <3>7, RowMatchesIs
      <3>9. s.damaged = "index" \/ s.damaged = "body" BY <3>3, <3>8 DEF ScanFails
      <3>10. QED BY <3>4, <3>9, BodiesAssumption
    <2>17. QED BY <2>15, <2>16
  <1>2. Inv => SearchExact BY <1>1 DEF SearchExact
  <1>3. QED BY <1>2, BodiesInvariant, PTL

=============================================================================
