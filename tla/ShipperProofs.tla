--------------------------- MODULE ShipperProofs ----------------------------
(***************************************************************************)
(* The shipper's spool and sender: nothing written is lost, what the cap   *)
(* took is counted, and the server sees the records in order, for any      *)
(* sizes, caps, batches and body limits, and any number of kills, power    *)
(* cuts, failed rolls and short writes.                                    *)
(*                                                                         *)
(* None of it is inductive.  DiskInv says what the files may hold and      *)
(* where the checkpoint may point; UpInv where the ack position may, and   *)
(* how far the size the spool believes may lag behind a segment; SenderInv *)
(* what a batch in hand has to do with the files while appends and         *)
(* evictions change them; LossInv and OrderInv what lies ahead of the      *)
(* position that reading would go on from after a crash.                   *)
(***************************************************************************)
EXTENDS Shipper, TLAPS, FiniteSetTheorems, WellFoundedInduction

USE DEF spoolMem, spoolHist, spoolVars, senderVars, shipperVars

-----------------------------------------------------------------------------
(* Least and greatest *)

\* A set of numbers has a least one.
LEMMA MinOfNats ==
  ASSUME NEW S \in SUBSET Nat, S # {} PROVE Min(S) \in S /\ \A y \in S : Min(S) <= y
  <1>1. PICK x \in S : \A y \in S : ~(<<y, x>> \in OpToRel(<, Nat))
    BY NatLessThanWellFounded, WFMin
  <1>2. ASSUME NEW y \in S PROVE x <= y
    <2>1. ~(y < x) BY <1>1 DEF OpToRel
    <2>2. QED BY <2>1
  <1>3. QED BY <1>2 DEF Min

\* And where none passes n, a greatest.
LEMMA MaxOfNats ==
  ASSUME NEW S \in SUBSET Nat, S # {}, NEW n \in Nat, \A x \in S : x <= n
  PROVE  Max(S) \in S /\ \A y \in S : y <= Max(S)
  <1> DEFINE T == {n - x : x \in S}
  <1>0. \A x \in S : n - x \in Nat OBVIOUS
  <1>1. T \in SUBSET Nat /\ T # {} BY <1>0
  <1>2. Min(T) \in T /\ \A y \in T : Min(T) <= y BY <1>1, MinOfNats
  <1>3. PICK x \in S : Min(T) = n - x BY <1>2
  <1>4. ASSUME NEW y \in S PROVE x >= y
    <2>1. n - y \in T OBVIOUS
    <2>2. n - x <= n - y BY <2>1, <1>2, <1>3
    <2>3. QED BY <2>2
  <1>5. /\ Max(S) \in S /\ \A y \in S : Max(S) >= y BY <1>4 DEF Max
  <1>6. QED BY <1>5

\* The segments are numbered without gaps.
Interval(S) == \E lo, hi \in Nat \ {0} : lo <= hi /\ S = lo..hi

\* Of such a set the least and the greatest are in it, and what is between them.
LEMMA IntervalEnds ==
  ASSUME NEW S, Interval(S)
  PROVE  /\ Min(S) \in S /\ Max(S) \in S /\ S \subseteq Nat \ {0}
         /\ \A x \in S : Min(S) <= x /\ x <= Max(S)
         /\ \A x \in Nat : Min(S) <= x /\ x <= Max(S) => x \in S
  <1>1. PICK lo, hi \in Nat \ {0} : lo <= hi /\ S = lo..hi BY DEF Interval
  <1>2. S \in SUBSET Nat /\ S # {} /\ \A x \in S : x <= hi BY <1>1
  <1>3. Min(S) \in S /\ \A y \in S : Min(S) <= y BY <1>2, MinOfNats
  <1>4. Max(S) \in S /\ \A y \in S : y <= Max(S) BY <1>1, <1>2, MaxOfNats
  <1>5. QED BY <1>1, <1>3, <1>4

\* The ends of lo..hi are lo and hi.
LEMMA EndsOfInterval ==
  ASSUME NEW lo \in Nat \ {0}, NEW hi \in Nat \ {0}, lo <= hi
  PROVE  Interval(lo..hi) /\ Min(lo..hi) = lo /\ Max(lo..hi) = hi
  <1>1. Interval(lo..hi) BY DEF Interval
  <1>2. Min(lo..hi) \in lo..hi /\ Max(lo..hi) \in lo..hi
        /\ \A x \in lo..hi : Min(lo..hi) <= x /\ x <= Max(lo..hi)
    BY <1>1, IntervalEnds
  <1>3. lo \in lo..hi /\ hi \in lo..hi OBVIOUS
  <1>4. QED BY <1>1, <1>2, <1>3

-----------------------------------------------------------------------------
(* Putting a finite set in order *)

\* below says of each member of S which of the others come before it.
Ranks(S, below) ==
  /\ \A e \in S : below[e] \subseteq S /\ e \notin below[e]
  /\ \A d, e \in S : d = e \/ d \in below[e] \/ e \in below[d]
  /\ \A d, e \in S : d \in below[e] => below[d] \subseteq below[e]

\* Who comes before another has fewer before it.
LEMMA FewerBelow ==
  ASSUME NEW S, IsFiniteSet(S), NEW below, Ranks(S, below),
         NEW d \in S, NEW e \in S, d \in below[e]
  PROVE  /\ Cardinality(below[d]) \in Nat /\ Cardinality(below[e]) \in Nat
         /\ Cardinality(below[d]) < Cardinality(below[e])
  <1>1. below[e] \in SUBSET S BY DEF Ranks
  <1>2. below[d] \in SUBSET below[e] /\ below[d] # below[e] BY DEF Ranks
  <1>3. IsFiniteSet(below[e]) BY <1>1, FS_Subset
  <1>4. IsFiniteSet(below[d]) /\ Cardinality(below[d]) <= Cardinality(below[e])
        /\ Cardinality(below[d]) # Cardinality(below[e])
    BY <1>2, <1>3, FS_Subset
  <1>5. Cardinality(below[e]) \in Nat /\ Cardinality(below[d]) \in Nat
    BY <1>3, <1>4, FS_CardinalityType
  <1>6. QED BY <1>4, <1>5

\* Ordered has each member of S once, each after those below it.
LEMMA OrderedIs ==
  ASSUME NEW S, IsFiniteSet(S), NEW below, Ranks(S, below)
  PROVE  LET o == Ordered(S, below) IN
         /\ Cardinality(S) \in Nat /\ Len(o) = Cardinality(S) /\ o \in Seq(S)
         /\ DOMAIN o = 1..Cardinality(S)
         /\ \A k \in 1..Cardinality(S) : o[k] \in S
         /\ \A e \in S : \E k \in 1..Cardinality(S) : o[k] = e
         /\ \A k, l \in 1..Cardinality(S) : k < l => o[k] \in below[o[l]]
  <1> DEFINE n == Cardinality(S)
             rank == [e \in S |-> Cardinality(below[e])]
             T == 0..n - 1
             o == Ordered(S, below)
  <1>1. n \in Nat BY FS_CardinalityType
  <1>2. ASSUME NEW e \in S PROVE rank[e] \in T
    <2>1. below[e] \in SUBSET S /\ below[e] # S BY DEF Ranks
    <2>2. IsFiniteSet(below[e]) /\ Cardinality(below[e]) <= n /\ Cardinality(below[e]) # n
      BY <2>1, FS_Subset
    <2>3. Cardinality(below[e]) \in Nat BY <2>2, FS_CardinalityType
    <2>4. QED BY <1>1, <2>2, <2>3
  <1>3. ASSUME NEW d \in S, NEW e \in S, d # e PROVE rank[d] # rank[e]
    <2>1. d \in below[e] \/ e \in below[d] BY <1>3 DEF Ranks
    <2>2. QED BY <2>1, FewerBelow
  <1>4. rank \in Injection(S, T) BY <1>2, <1>3 DEF Injection, IsInjective
  <1>5. IsFiniteSet(T) /\ Cardinality(T) = n
    <2>1. 0 \in Int /\ n - 1 \in Int BY <1>1
    <2>2. IsFiniteSet(T) /\ Cardinality(T) = IF 0 > n - 1 THEN 0 ELSE n - 1 - 0 + 1
      BY <2>1, FS_Interval
    <2> HIDE DEF T
    <2>3. QED BY <1>1, <2>2
  <1>6. ASSUME NEW k \in 1..n PROVE o[k] \in S /\ rank[o[k]] = k - 1
    <2>1. k - 1 \in T BY <1>1
    <2>2. \E e \in S : rank[e] = k - 1
      <3> HIDE DEF T, rank, n
      <3>1. rank \in Surjection(S, T) BY <1>4, <1>5, FS_Injection DEF n
      <3>2. QED BY <2>1, <3>1 DEF Surjection
    <2>3. o[k] = CHOOSE e \in S : Cardinality(below[e]) = k - 1 BY DEF Ordered
    <2>4. QED BY <2>2, <2>3
  <1>7. ASSUME NEW e \in S PROVE \E k \in 1..n : o[k] = e
    <2>1. rank[e] + 1 \in 1..n BY <1>1, <1>2
    <2>2. o[rank[e] + 1] \in S /\ rank[o[rank[e] + 1]] = rank[e] BY <2>1, <1>2, <1>6
    <2>3. QED BY <2>1, <2>2, <1>3
  <1>8. ASSUME NEW k \in 1..n, NEW l \in 1..n, k < l PROVE o[k] \in below[o[l]]
    <2>1. o[k] \in S /\ o[l] \in S /\ rank[o[k]] = k - 1 /\ rank[o[l]] = l - 1 BY <1>6
    <2>2. o[k] # o[l] BY <1>1, <1>8, <2>1
    <2>3. ~(o[l] \in below[o[k]])
      <3>1. ASSUME o[l] \in below[o[k]] PROVE FALSE
        <4>1. rank[o[l]] < rank[o[k]] BY <2>1, <3>1, FewerBelow
        <4>2. QED BY <1>1, <1>8, <2>1, <4>1
      <3>2. QED BY <3>1
    <2>4. QED BY <2>1, <2>2, <2>3 DEF Ranks
  <1>9. Len(o) = n /\ o \in Seq(S) /\ DOMAIN o = 1..n
    <2>1. o \in [1..n -> S] BY <1>6 DEF Ordered
    <2>2. QED BY <1>1, <2>1
  <1>10. QED BY <1>1, <1>6, <1>7, <1>8, <1>9

-----------------------------------------------------------------------------
(* What the files hold *)

Contents == Seq(Nat \cup {NL})
Disk(fs) == Interval(DOMAIN fs) /\ fs \in [DOMAIN fs -> Contents]

\* b records were offered: they lie in the order of their numbers, and a
\* newline follows a record.
Written(fs, b) ==
  /\ \A s \in DOMAIN fs : \A i \in 1..Len(fs[s]) :
       IF fs[s][i] = NL THEN i > 1 /\ fs[s][i - 1] # NL ELSE fs[s][i] \in 1..b
  /\ \A s, t \in DOMAIN fs : \A i \in 1..Len(fs[s]), j \in 1..Len(fs[t]) :
       s < t \/ (s = t /\ i < j) => fs[s][i] = NL \/ fs[t][j] = NL \/ fs[s][i] < fs[t][j]

\* Unit i is a record, and its newline follows.
HasLine(f, i) == i \in 1..Len(f) - 1 /\ f[i] # NL /\ f[i + 1] = NL

\* gs is fs with record b + 1 or half of it at the end, a new segment, or old
\* segments gone.
Extends(fs, gs, b) ==
  \A s \in DOMAIN gs :
    IF s \in DOMAIN fs
    THEN gs[s] = fs[s] \/ (s = Max(DOMAIN fs) /\ gs[s] \in {fs[s] \o <<b + 1>>, fs[s] \o <<b + 1, NL>>})
    ELSE gs[s] = <<>> /\ s > Max(DOMAIN fs)

\* gs is fs with tails gone.
Shortens(fs, gs) ==
  /\ DOMAIN gs = DOMAIN fs
  /\ \A s \in DOMAIN fs : \E n \in 0..Len(fs[s]) : gs[s] = SubSeq(fs[s], 1, n)

\* A newline is not a record.
LEMMA NLIsNone == NL \notin Nat /\ Garbage \notin Nat
  BY SpoolAssumption

\* A record is written once.
LEMMA WrittenOnce ==
  ASSUME NEW fs, NEW b \in Nat, Disk(fs), Written(fs, b),
         NEW s \in DOMAIN fs, NEW t \in DOMAIN fs, NEW i \in 1..Len(fs[s]), NEW j \in 1..Len(fs[t]),
         fs[s][i] = fs[t][j], fs[s][i] # NL
  PROVE  s = t /\ i = j
  <1>1. s \in Nat /\ t \in Nat BY IntervalEnds DEF Disk
  <1>2. fs[s][i] \in Nat BY DEF Written
  <1>3. ~(s < t \/ (s = t /\ i < j)) BY <1>2 DEF Written
  <1>4. ~(t < s \/ (t = s /\ j < i)) BY <1>2 DEF Written
  <1>5. QED BY <1>1, <1>3, <1>4

\* What two sequences make.
LEMMA Joined ==
  ASSUME NEW f \in Contents, NEW g \in Contents
  PROVE  /\ f \o g \in Contents /\ Len(f) \in Nat /\ Len(g) \in Nat /\ Len(f \o g) = Len(f) + Len(g)
         /\ \A i \in 1..Len(f) : (f \o g)[i] = f[i]
         /\ \A i \in Len(f) + 1..Len(f) + Len(g) : (f \o g)[i] = g[i - Len(f)]
  BY DEF Contents

\* A line behind a file, and half of one.
LEMMA LineAdded ==
  ASSUME NEW f \in Contents, NEW b \in Nat
  PROVE  LET g == f \o <<b + 1, NL>> IN
         /\ g \in Contents /\ Len(f) \in Nat /\ Len(g) = Len(f) + 2
         /\ \A i \in 1..Len(f) : g[i] = f[i]
         /\ g[Len(f) + 1] = b + 1 /\ g[Len(f) + 2] = NL
  <1> DEFINE line == <<b + 1, NL>>
             g == f \o <<b + 1, NL>>
  <1>1. line \in Contents /\ Len(line) = 2 /\ line[1] = b + 1 /\ line[2] = NL BY DEF Contents
  <1>2. g = f \o line OBVIOUS
  <1> HIDE DEF line, g
  <1>3. /\ f \o line \in Contents /\ Len(f) \in Nat /\ Len(f \o line) = Len(f) + Len(line)
        /\ \A i \in 1..Len(f) : (f \o line)[i] = f[i]
        /\ \A i \in Len(f) + 1..Len(f) + Len(line) : (f \o line)[i] = line[i - Len(f)]
    BY <1>1, Joined
  <1>4. g \in Contents /\ Len(g) = Len(f) + 2 /\ \A i \in 1..Len(f) : g[i] = f[i]
    BY <1>1, <1>2, <1>3
  <1>5. \A i \in Len(f) + 1..Len(f) + 2 : g[i] = line[i - Len(f)] BY <1>1, <1>2, <1>3
  <1>6. Len(f) + 1 - Len(f) = 1 /\ Len(f) + 2 - Len(f) = 2 BY <1>3
  <1>7. g[Len(f) + 1] = line[1] /\ g[Len(f) + 2] = line[2] BY <1>3, <1>5, <1>6
  <1>8. QED BY <1>1, <1>3, <1>4, <1>7 DEF g

\* A record without its newline added to a file.
LEMMA HalfAdded ==
  ASSUME NEW f \in Contents, NEW b \in Nat
  PROVE  LET g == f \o <<b + 1>> IN
         /\ g \in Contents /\ Len(f) \in Nat /\ Len(g) = Len(f) + 1
         /\ \A i \in 1..Len(f) : g[i] = f[i]
         /\ g[Len(f) + 1] = b + 1
  BY DEF Contents

\* What an extended file holds: what it held, then record b + 1, then a newline.
LEMMA ExtendedUnits ==
  ASSUME NEW fs, NEW gs, NEW b \in Nat, Disk(fs), Extends(fs, gs, b), NEW s \in DOMAIN gs
  PROVE  /\ gs[s] \in Contents
         /\ s \in DOMAIN fs => /\ Len(fs[s]) <= Len(gs[s])
                               /\ s = Max(DOMAIN fs) \/ Len(gs[s]) = Len(fs[s])
                               /\ \A i \in 1..Len(fs[s]) : gs[s][i] = fs[s][i]
         /\ s \notin DOMAIN fs => gs[s] = <<>> /\ s > Max(DOMAIN fs)
         /\ \A i \in 1..Len(gs[s]) :
              /\ s \in DOMAIN fs
              /\ \/ i \in 1..Len(fs[s])
                 \/ s = Max(DOMAIN fs) /\ i = Len(fs[s]) + 1 /\ gs[s][i] = b + 1
                 \/ s = Max(DOMAIN fs) /\ i = Len(fs[s]) + 2 /\ gs[s][i] = NL /\ gs[s][i - 1] = b + 1
  <1>1. CASE s \notin DOMAIN fs
    <2>1. gs[s] = <<>> /\ s > Max(DOMAIN fs) BY <1>1 DEF Extends
    <2>2. QED BY <1>1, <2>1 DEF Contents
  <1>2. CASE s \in DOMAIN fs
    <2>1. fs[s] \in Contents BY <1>2 DEF Disk
    <2>2. CASE gs[s] = fs[s] BY <1>2, <2>1, <2>2
    <2>3. CASE s = Max(DOMAIN fs) /\ gs[s] = fs[s] \o <<b + 1>>
      BY <1>2, <2>1, <2>3 DEF Contents
    <2>4. CASE s = Max(DOMAIN fs) /\ gs[s] = fs[s] \o <<b + 1, NL>>
      <3> DEFINE n == Len(fs[s])
      <3>1. /\ gs[s] \in Contents /\ Len(gs[s]) = n + 2 /\ n \in Nat
            /\ \A i \in 1..n : gs[s][i] = fs[s][i]
            /\ gs[s][n + 1] = b + 1 /\ gs[s][n + 2] = NL
        BY <2>1, <2>4, LineAdded
      <3>2. ASSUME NEW i \in 1..Len(gs[s]), i \notin 1..n
            PROVE  \/ i = n + 1 /\ gs[s][i] = b + 1
                   \/ i = n + 2 /\ gs[s][i] = NL /\ gs[s][i - 1] = b + 1
        <4>1. i = n + 1 \/ i = n + 2 BY <3>1, <3>2
        <4>2. n + 2 - 1 = n + 1 BY <3>1
        <4>3. QED BY <3>1, <4>1, <4>2
      <3>3. n <= Len(gs[s]) BY <3>1
      <3>4. QED BY <1>2, <2>4, <3>1, <3>2, <3>3
    <2>5. QED BY <1>2, <2>2, <2>3, <2>4 DEF Extends
  <1>3. QED BY <1>1, <1>2

\* The files still hold the records in order, the new one last.
LEMMA ExtendedWritten ==
  ASSUME NEW fs, NEW gs, NEW b \in Nat, Disk(fs), Written(fs, b), Extends(fs, gs, b)
  PROVE  Written(gs, b + 1)
  <1>0. NL \notin Nat BY NLIsNone
  <1>1. ASSUME NEW s \in DOMAIN gs, NEW i \in 1..Len(gs[s])
        PROVE  IF gs[s][i] = NL THEN i > 1 /\ gs[s][i - 1] # NL ELSE gs[s][i] \in 1..b + 1
    <2>1. gs[s] \in Contents /\ s \in DOMAIN fs BY ExtendedUnits
    <2>2. CASE i \in 1..Len(fs[s])
      <3>1. gs[s][i] = fs[s][i] BY <2>1, <2>2, ExtendedUnits
      <3>2. i > 1 => gs[s][i - 1] = fs[s][i - 1]
        <4>1. i > 1 => i - 1 \in 1..Len(fs[s]) BY <2>2
        <4>2. QED BY <2>1, <4>1, ExtendedUnits
      <3>3. IF fs[s][i] = NL THEN i > 1 /\ fs[s][i - 1] # NL ELSE fs[s][i] \in 1..b
        BY <2>1, <2>2 DEF Written
      <3>4. QED BY <3>1, <3>2, <3>3
    <2>3. CASE i \notin 1..Len(fs[s])
      <3>1. fs[s] \in Contents BY <2>1 DEF Disk
      <3>2. Len(fs[s]) \in Nat BY <3>1 DEF Contents
      <3>3. \/ i = Len(fs[s]) + 1 /\ gs[s][i] = b + 1
            \/ i = Len(fs[s]) + 2 /\ gs[s][i] = NL /\ gs[s][i - 1] = b + 1
        BY <2>3, ExtendedUnits
      <3>4. QED BY <1>0, <3>2, <3>3
    <2>4. QED BY <2>2, <2>3
  <1>2. ASSUME NEW s \in DOMAIN gs, NEW t \in DOMAIN gs,
               NEW i \in 1..Len(gs[s]), NEW j \in 1..Len(gs[t]), s < t \/ (s = t /\ i < j)
        PROVE  gs[s][i] = NL \/ gs[t][j] = NL \/ gs[s][i] < gs[t][j]
    <2>1. s \in DOMAIN fs /\ t \in DOMAIN fs BY ExtendedUnits
    <2>2. s \in Nat /\ t \in Nat /\ s <= Max(DOMAIN fs) /\ t <= Max(DOMAIN fs)
      BY <2>1, IntervalEnds DEF Disk
    <2>3. Len(fs[s]) \in Nat /\ Len(fs[t]) \in Nat BY <2>1 DEF Disk, Contents
    <2>4. CASE j \in 1..Len(fs[t])
      <3>1. i \in 1..Len(fs[s])
        <4>1. CASE s = t BY <1>2, <2>2, <2>3, <2>4, <4>1
        <4>2. CASE s < t
          <5>1. s # Max(DOMAIN fs) BY <2>2, <4>2
          <5>2. QED BY <2>1, <2>3, <5>1, ExtendedUnits
        <4>3. QED BY <1>2, <2>2, <4>1, <4>2
      <3>2. gs[s][i] = fs[s][i] /\ gs[t][j] = fs[t][j] BY <2>1, <2>4, <3>1, ExtendedUnits
      <3>3. QED BY <1>2, <2>1, <2>4, <3>1, <3>2 DEF Written
    <2>5. CASE j \notin 1..Len(fs[t])
      <3>1. CASE gs[t][j] = NL BY <3>1
      <3>2. CASE gs[t][j] # NL
        <4>1. t = Max(DOMAIN fs) /\ j = Len(fs[t]) + 1 /\ gs[t][j] = b + 1
          BY <2>5, <3>2, ExtendedUnits
        <4>2. i \in 1..Len(fs[s])
          <5>1. CASE s = t BY <1>2, <2>2, <2>3, <4>1, <5>1
          <5>2. CASE s < t
            <6>1. s # Max(DOMAIN fs) BY <2>2, <5>2
            <6>2. QED BY <2>1, <2>3, <6>1, ExtendedUnits
          <5>3. QED BY <1>2, <2>2, <5>1, <5>2
        <4>3. gs[s][i] = fs[s][i] BY <2>1, <4>2, ExtendedUnits
        <4>4. fs[s][i] = NL \/ fs[s][i] \in 1..b BY <2>1, <4>2 DEF Written
        <4>5. QED BY <4>1, <4>3, <4>4
      <3>3. QED BY <3>1, <3>2
    <2>6. QED BY <2>4, <2>5
  <1>3. QED BY <1>1, <1>2 DEF Written

\* A line of an extended file was there, or is that of record b + 1.
LEMMA ExtendedLines ==
  ASSUME NEW fs, NEW gs, NEW b \in Nat, Disk(fs), Extends(fs, gs, b), NEW s \in DOMAIN gs
  PROVE  /\ \A i \in 1..Len(gs[s]) : HasLine(gs[s], i) =>
              /\ s \in DOMAIN fs
              /\ \/ i \in 1..Len(fs[s]) /\ HasLine(fs[s], i) /\ gs[s][i] = fs[s][i]
                 \/ i > Len(fs[s]) /\ gs[s][i] = b + 1
         /\ s \in DOMAIN fs => \A i \in 1..Len(fs[s]) : HasLine(fs[s], i) => HasLine(gs[s], i)
  <1>0. NL \notin Nat BY NLIsNone
  <1>1. ASSUME NEW i \in 1..Len(gs[s]), HasLine(gs[s], i)
        PROVE  /\ s \in DOMAIN fs
               /\ \/ i \in 1..Len(fs[s]) /\ HasLine(fs[s], i) /\ gs[s][i] = fs[s][i]
                  \/ i > Len(fs[s]) /\ gs[s][i] = b + 1
    <2>1. s \in DOMAIN fs BY ExtendedUnits
    <2>2. Len(fs[s]) \in Nat /\ Len(gs[s]) \in Nat
      <3>1. gs[s] \in Contents BY ExtendedUnits
      <3>2. QED BY <2>1, <3>1 DEF Disk, Contents
    <2>3. i + 1 \in 1..Len(gs[s]) /\ gs[s][i + 1] = NL /\ gs[s][i] # NL
      BY <1>1, <2>2 DEF HasLine
    <2>4. CASE i \in 1..Len(fs[s])
      <3>1. gs[s][i] = fs[s][i] BY <2>1, <2>4, ExtendedUnits
      <3>2. i + 1 \in 1..Len(fs[s])
        <4>1. ASSUME i = Len(fs[s]) PROVE FALSE
          <5>1. gs[s][i + 1] = b + 1 BY <2>2, <2>3, <4>1, ExtendedUnits
          <5>2. QED BY <1>0, <2>3, <5>1
        <4>2. QED BY <2>2, <2>4, <4>1
      <3>3. gs[s][i + 1] = fs[s][i + 1] BY <2>1, <3>2, ExtendedUnits
      <3>4. QED BY <2>1, <2>2, <2>3, <2>4, <3>1, <3>2, <3>3 DEF HasLine
    <2>5. CASE i \notin 1..Len(fs[s])
      <3>1. gs[s][i] = b + 1 BY <2>3, <2>5, ExtendedUnits
      <3>2. QED BY <2>1, <2>2, <2>5, <3>1
    <2>6. QED BY <2>4, <2>5
  <1>2. ASSUME s \in DOMAIN fs, NEW i \in 1..Len(fs[s]), HasLine(fs[s], i) PROVE HasLine(gs[s], i)
    <2>1. Len(fs[s]) \in Nat BY <1>2 DEF Disk, Contents
    <2>2. i \in 1..Len(fs[s]) /\ i + 1 \in 1..Len(fs[s]) BY <1>2, <2>1 DEF HasLine
    <2>3. gs[s][i] = fs[s][i] /\ gs[s][i + 1] = fs[s][i + 1] /\ Len(fs[s]) <= Len(gs[s])
          /\ gs[s] \in Contents
      BY <1>2, <2>2, ExtendedUnits
    <2>4. QED BY <1>2, <2>1, <2>2, <2>3 DEF HasLine, Contents
  <1>3. QED BY <1>1, <1>2

\* What a shortened file holds.
LEMMA ShortenedUnits ==
  ASSUME NEW fs, NEW gs, Disk(fs), Shortens(fs, gs), NEW s \in DOMAIN fs
  PROVE  /\ s \in DOMAIN gs /\ gs[s] \in Contents /\ Len(gs[s]) \in 0..Len(fs[s])
         /\ \A i \in 1..Len(gs[s]) : i \in 1..Len(fs[s]) /\ gs[s][i] = fs[s][i]
  <1>1. PICK n \in 0..Len(fs[s]) : gs[s] = SubSeq(fs[s], 1, n) BY DEF Shortens
  <1>2. fs[s] \in Contents BY DEF Disk
  <1>3. QED BY <1>1, <1>2 DEF Contents, Shortens

\* What is left still lies in order.
LEMMA ShortenedWritten ==
  ASSUME NEW fs, NEW gs, NEW b \in Nat, Disk(fs), Written(fs, b), Shortens(fs, gs),
         gs = [s \in DOMAIN gs |-> gs[s]]
  PROVE  Disk(gs) /\ Written(gs, b)
  <1>1. DOMAIN gs = DOMAIN fs BY DEF Shortens
  <1>2. Disk(gs) BY <1>1, ShortenedUnits DEF Disk
  <1>3. ASSUME NEW s \in DOMAIN gs, NEW i \in 1..Len(gs[s])
        PROVE  IF gs[s][i] = NL THEN i > 1 /\ gs[s][i - 1] # NL ELSE gs[s][i] \in 1..b
    <2>1. i \in 1..Len(fs[s]) /\ gs[s][i] = fs[s][i] BY <1>1, ShortenedUnits
    <2>2. i > 1 => gs[s][i - 1] = fs[s][i - 1]
      <3>1. i > 1 => i - 1 \in 1..Len(gs[s]) OBVIOUS
      <3>2. QED BY <1>1, <3>1, ShortenedUnits
    <2>3. IF fs[s][i] = NL THEN i > 1 /\ fs[s][i - 1] # NL ELSE fs[s][i] \in 1..b
      BY <1>1, <2>1 DEF Written
    <2>4. QED BY <2>1, <2>2, <2>3
  <1>4. ASSUME NEW s \in DOMAIN gs, NEW t \in DOMAIN gs,
               NEW i \in 1..Len(gs[s]), NEW j \in 1..Len(gs[t]), s < t \/ (s = t /\ i < j)
        PROVE  gs[s][i] = NL \/ gs[t][j] = NL \/ gs[s][i] < gs[t][j]
    <2>1. /\ i \in 1..Len(fs[s]) /\ gs[s][i] = fs[s][i]
          /\ j \in 1..Len(fs[t]) /\ gs[t][j] = fs[t][j]
      BY <1>1, ShortenedUnits
    <2>2. QED BY <1>1, <1>4, <2>1 DEF Written
  <1>5. QED BY <1>2, <1>3, <1>4 DEF Written

\* A line of a shortened file was there.
LEMMA ShortenedLines ==
  ASSUME NEW fs, NEW gs, Disk(fs), Shortens(fs, gs), NEW s \in DOMAIN fs
  PROVE  /\ \A i \in 1..Len(gs[s]) :
              HasLine(gs[s], i) => i \in 1..Len(fs[s]) /\ HasLine(fs[s], i) /\ gs[s][i] = fs[s][i]
         /\ \A i \in 1..Len(fs[s]) :
              HasLine(fs[s], i) /\ i + 1 <= Len(gs[s]) => HasLine(gs[s], i) /\ gs[s][i] = fs[s][i]
  <1>1. /\ gs[s] \in Contents /\ fs[s] \in Contents /\ Len(gs[s]) \in 0..Len(fs[s])
        /\ \A i \in 1..Len(gs[s]) : i \in 1..Len(fs[s]) /\ gs[s][i] = fs[s][i]
    BY ShortenedUnits DEF Disk
  <1>2. Len(gs[s]) \in Nat /\ Len(fs[s]) \in Nat BY <1>1 DEF Contents
  <1>3. ASSUME NEW i \in 1..Len(gs[s]), HasLine(gs[s], i)
        PROVE  i \in 1..Len(fs[s]) /\ HasLine(fs[s], i) /\ gs[s][i] = fs[s][i]
    <2>1. i + 1 \in 1..Len(gs[s]) BY <1>2, <1>3 DEF HasLine
    <2>2. QED BY <1>1, <1>2, <1>3, <2>1 DEF HasLine
  <1>4. ASSUME NEW i \in 1..Len(fs[s]), HasLine(fs[s], i), i + 1 <= Len(gs[s])
        PROVE  HasLine(gs[s], i) /\ gs[s][i] = fs[s][i]
    <2>1. i \in 1..Len(gs[s]) /\ i + 1 \in 1..Len(gs[s]) BY <1>2, <1>4
    <2>2. QED BY <1>1, <1>2, <1>4, <2>1 DEF HasLine
  <1>5. QED BY <1>3, <1>4

-----------------------------------------------------------------------------
(* Positions, lines and sizes *)

\* Unit i of segment s lies past pos.
Past(s, i, pos) == s > pos.seq \/ (s = pos.seq /\ i > pos.off)

AtMost(a, b) == a.seq < b.seq \/ (a.seq = b.seq /\ a.off <= b.off)

\* From x to k there are only lines that read as a record.
Clean(f, x, k) ==
  /\ x <= k /\ k <= Len(f) /\ (k = x \/ f[k] = NL)
  /\ \A i \in LineEnds(f, x) : i <= k => LineAt(f, x, i) # Garbage

\* A size may lag behind the file by half lines only: who has read none but
\* whole lines is not past it, nor at it while a line is ahead.
SizeOK(f, x, size) ==
  \A k \in Nat : Clean(f, x, k) =>
    k <= size /\ \A i \in k + 1 .. Len(f) : f[i] = NL => k < size

\* Between a position and itself there is nothing.
LEMMA CleanSelf ==
  ASSUME NEW f \in Contents, NEW x \in 0..Len(f) PROVE Clean(f, x, x)
  <1>1. Len(f) \in Nat BY DEF Contents
  <1>2. QED BY <1>1 DEF Clean, LineEnds

\* What a line reads as is settled by what is before its end.
LEMMA LineOfPrefix ==
  ASSUME NEW f \in Contents, NEW g \in Contents, Len(f) <= Len(g),
         \A i \in 1..Len(f) : g[i] = f[i], NEW x \in Nat, NEW i \in x + 1..Len(f)
  PROVE  LineAt(g, x, i) = LineAt(f, x, i) /\ (i \in LineEnds(g, x) <=> i \in LineEnds(f, x))
  <1>1. Len(f) \in Nat /\ Len(g) \in Nat BY DEF Contents
  <1>2. \A j \in x + 1..Len(f) : j \in LineEnds(g, x) <=> j \in LineEnds(f, x)
    BY <1>1 DEF LineEnds
  <1>3. i - 2 \in LineEnds(g, x) \cup {x} <=> i - 2 \in LineEnds(f, x) \cup {x}
    BY <1>1 DEF LineEnds
  <1>4. CASE i - 2 \in LineEnds(f, x) \cup {x}
    <2>1. i - 1 \in 1..Len(f) BY <1>1, <1>4 DEF LineEnds
    <2>2. g[i - 1] = f[i - 1] BY <2>1
    <2>3. QED BY <1>2, <1>3, <1>4, <2>2 DEF LineAt
  <1>5. CASE ~(i - 2 \in LineEnds(f, x) \cup {x})
    BY <1>2, <1>3, <1>5 DEF LineAt
  <1>6. QED BY <1>4, <1>5

\* What lies between two positions is settled by the file up to the second.
LEMMA CleanPrefix ==
  ASSUME NEW f \in Contents, NEW g \in Contents, Len(f) <= Len(g),
         \A i \in 1..Len(f) : g[i] = f[i], NEW x \in Nat, NEW k \in Nat, k <= Len(f)
  PROVE  Clean(g, x, k) <=> Clean(f, x, k)
  <1>1. Len(f) \in Nat /\ Len(g) \in Nat BY DEF Contents
  <1>2. \A i \in x + 1..Len(f) :
          LineAt(g, x, i) = LineAt(f, x, i) /\ (i \in LineEnds(g, x) <=> i \in LineEnds(f, x))
    BY LineOfPrefix
  <1>3. (\A i \in LineEnds(g, x) : i <= k => LineAt(g, x, i) # Garbage)
        <=> (\A i \in LineEnds(f, x) : i <= k => LineAt(f, x, i) # Garbage)
    <2>1. \A i \in LineEnds(g, x) \cup LineEnds(f, x) : i \in Nat /\ i >= x + 1
      BY <1>1 DEF LineEnds
    <2>2. \A i \in LineEnds(g, x) \cup LineEnds(f, x) : i <= k => i \in x + 1..Len(f)
      BY <1>1, <2>1
    <2>3. QED BY <1>2, <2>2
  <1>4. x <= k => (k = x \/ (f[k] = NL <=> g[k] = NL))
    <2>1. x <= k /\ k # x => k \in 1..Len(f) BY <1>1
    <2>2. QED BY <2>1
  <1>5. QED BY <1>1, <1>3, <1>4 DEF Clean

\* Clean to c and from c on is clean throughout.
LEMMA CleanThrough ==
  ASSUME NEW f \in Contents, NEW x \in Nat, NEW c \in Nat, NEW k \in Nat,
         Clean(f, x, c), Clean(f, c, k)
  PROVE  Clean(f, x, k)
  <1>1. Len(f) \in Nat BY DEF Contents
  <1>2. x <= c /\ c <= k /\ k <= Len(f) /\ (c = x \/ f[c] = NL) /\ (k = c \/ f[k] = NL)
    BY DEF Clean
  <1>3. ASSUME NEW i \in LineEnds(f, x), i <= k PROVE LineAt(f, x, i) # Garbage
    <2>1. i \in Nat /\ i >= x + 1 /\ i <= Len(f) /\ f[i] = NL BY <1>1 DEF LineEnds
    <2>2. CASE i <= c BY <2>2 DEF Clean
    <2>3. CASE i > c
      <3>1. i \in LineEnds(f, c) BY <1>1, <2>1, <2>3 DEF LineEnds
      <3>2. LineAt(f, c, i) # Garbage BY <1>3, <3>1 DEF Clean
      <3>3. i - 2 \in LineEnds(f, c) \cup {c} /\ f[i - 1] # NL BY <3>2 DEF LineAt
      <3>4. i - 2 \in LineEnds(f, x) \cup {x}
        <4>1. CASE i - 2 = c
          <5>1. c # x => c \in LineEnds(f, x) BY <1>1, <1>2 DEF LineEnds
          <5>2. QED BY <4>1, <5>1
        <4>2. CASE i - 2 \in LineEnds(f, c) BY <1>1, <1>2, <4>2 DEF LineEnds
        <4>3. QED BY <3>3, <4>1, <4>2
      <3>5. i - 1 \in 1..Len(f)
        <4>1. i - 2 >= 0 BY <1>1, <1>2, <3>4 DEF LineEnds
        <4>2. QED BY <1>1, <2>1, <4>1
      <3>6. f[i - 1] \in Nat BY <3>3, <3>5 DEF Contents
      <3>7. LineAt(f, x, i) = f[i - 1] BY <3>3, <3>4 DEF LineAt
      <3>8. QED BY <3>6, <3>7, NLIsNone
    <2>4. QED BY <1>2, <2>1, <2>2, <2>3
  <1>4. x <= k /\ (k = x \/ f[k] = NL) BY <1>2
  <1>5. QED BY <1>2, <1>3, <1>4 DEF Clean

\* A size that is ahead of its lines stays so when a line is written,
LEMMA SizeLine ==
  ASSUME NEW f \in Contents, NEW g \in Contents, Len(g) = Len(f) + 2,
         \A i \in 1..Len(f) : g[i] = f[i], g[Len(f) + 1] # NL,
         NEW x \in 0..Len(f), NEW size \in Nat, SizeOK(f, x, size)
  PROVE  SizeOK(g, x, size + 2)
  <1>1. Len(f) \in Nat /\ Len(g) \in Nat /\ x \in Nat BY DEF Contents
  <1>2. SUFFICES ASSUME NEW k \in Nat, Clean(g, x, k)
                 PROVE  k <= size + 2 /\ \A i \in k + 1 .. Len(g) : g[i] = NL => k < size + 2
    BY DEF SizeOK
  <1>3. x <= k /\ k <= Len(g) /\ (k = x \/ g[k] = NL) BY <1>2 DEF Clean
  <1>4. CASE k <= Len(f)
    <2>1. Clean(f, x, k) BY <1>1, <1>2, <1>4, CleanPrefix
    <2>2. k <= size BY <2>1 DEF SizeOK
    <2>3. QED BY <2>2
  <1>5. CASE k = Len(f) + 1 BY <1>1, <1>3, <1>5
  <1>6. CASE k = Len(f) + 2
    <2>1. k \in LineEnds(g, x) BY <1>1, <1>3, <1>6 DEF LineEnds
    <2>2. LineAt(g, x, k) # Garbage BY <1>2, <2>1 DEF Clean
    <2>3. k - 2 \in LineEnds(g, x) \cup {x} BY <2>2 DEF LineAt
    <2>4. k - 2 = Len(f) BY <1>1, <1>6
    <2>5. Clean(g, x, Len(f))
      <3>1. x <= Len(f) /\ Len(f) <= Len(g) BY <1>1
      <3>2. Len(f) = x \/ g[Len(f)] = NL BY <2>3, <2>4 DEF LineEnds
      <3>3. \A i \in LineEnds(g, x) : i <= Len(f) => i <= k BY <1>1, <1>6 DEF LineEnds
      <3>4. QED BY <1>2, <3>1, <3>2, <3>3 DEF Clean
    <2>6. Clean(f, x, Len(f)) BY <1>1, <2>5, CleanPrefix
    <2>7. Len(f) <= size BY <1>1, <2>6 DEF SizeOK
    <2>8. \A i \in k + 1 .. Len(g) : FALSE BY <1>1, <1>6
    <2>9. QED BY <1>1, <1>6, <2>7, <2>8
  <1>7. QED BY <1>1, <1>3, <1>4, <1>5, <1>6

\* and when half of one is, and it is not counted.
LEMMA SizeHalf ==
  ASSUME NEW f \in Contents, NEW g \in Contents, Len(g) = Len(f) + 1,
         \A i \in 1..Len(f) : g[i] = f[i], g[Len(f) + 1] # NL,
         NEW x \in 0..Len(f), NEW size \in Nat, SizeOK(f, x, size)
  PROVE  SizeOK(g, x, size)
  <1>1. Len(f) \in Nat /\ Len(g) \in Nat /\ x \in Nat BY DEF Contents
  <1>2. SUFFICES ASSUME NEW k \in Nat, Clean(g, x, k)
                 PROVE  k <= size /\ \A i \in k + 1 .. Len(g) : g[i] = NL => k < size
    BY DEF SizeOK
  <1>3. x <= k /\ k <= Len(g) /\ (k = x \/ g[k] = NL) BY <1>2 DEF Clean
  <1>4. k <= Len(f) BY <1>1, <1>3
  <1>5. Clean(f, x, k) BY <1>1, <1>2, <1>4, CleanPrefix
  <1>6. k <= size /\ \A i \in k + 1 .. Len(f) : f[i] = NL => k < size BY <1>5 DEF SizeOK
  <1>7. ASSUME NEW i \in k + 1 .. Len(g), g[i] = NL PROVE k < size
    <2>1. i \in k + 1 .. Len(f) /\ i \in 1..Len(f) BY <1>1, <1>7
    <2>2. QED BY <1>6, <1>7, <2>1
  <1>8. QED BY <1>6, <1>7

\* Of a file just measured it is right.
LEMMA SizeMeasured == ASSUME NEW f \in Contents, NEW x PROVE SizeOK(f, x, Len(f))
  <1>1. Len(f) \in Nat BY DEF Contents
  <1>2. QED BY <1>1 DEF SizeOK, Clean

\* Who is further on, over whole lines, sees it right too.
LEMMA SizeFurther ==
  ASSUME NEW f \in Contents, NEW x \in Nat, NEW c \in Nat, NEW size,
         Clean(f, x, c), SizeOK(f, x, size)
  PROVE  SizeOK(f, c, size)
  BY CleanThrough DEF SizeOK

\* The end of the last complete line.
LEMMA GoodEndIs ==
  ASSUME NEW f \in Contents, NEW x \in Nat, x <= Len(f)
  PROVE  /\ GoodEnd(f, x) \in LineEnds(f, x) \cup {x} /\ GoodEnd(f, x) \in x..Len(f)
         /\ \A i \in LineEnds(f, x) : i <= GoodEnd(f, x)
  <1> DEFINE S == LineEnds(f, x) \cup {x}
  <1>1. Len(f) \in Nat BY DEF Contents
  <1>2. S \in SUBSET Nat /\ S # {} /\ \A i \in S : x <= i /\ i <= Len(f) BY <1>1 DEF LineEnds
  <1>3. Max(S) \in S /\ \A y \in S : y <= Max(S)
    <2> HIDE DEF S
    <2>1. QED BY <1>1, <1>2, MaxOfNats
  <1>4. GoodEnd(f, x) = Max(S) BY DEF GoodEnd
  <1>5. GoodEnd(f, x) \in S /\ \A y \in S : y <= GoodEnd(f, x)
    <2> HIDE DEF S
    <2>1. QED BY <1>3, <1>4
  <1>6. GoodEnd(f, x) \in Nat /\ x <= GoodEnd(f, x) /\ GoodEnd(f, x) <= Len(f)
    <2> HIDE DEF S
    <2>1. QED BY <1>2, <1>5
  <1>7. GoodEnd(f, x) \in x..Len(f) BY <1>1, <1>6
  <1>8. QED BY <1>5, <1>7

\* No newline follows pos at once.
Starts(fs, pos) ==
  pos.seq \in DOMAIN fs /\ pos.off + 1 <= Len(fs[pos.seq]) => fs[pos.seq][pos.off + 1] # NL

\* Normalizing moves on over no line.
LEMMA NormalizeIs ==
  ASSUME NEW fs, NEW ss, Disk(fs), ss \in [DOMAIN fs -> Nat], NEW pos \in Cursor,
         pos.seq \in DOMAIN fs,
         \/ pos.off <= Len(fs[pos.seq])
         \/ pos.seq < Max(DOMAIN fs) /\ ss[pos.seq] <= Len(fs[pos.seq]),
         \A s \in DOMAIN fs : s >= pos.seq => SizeOK(fs[s], From(s, pos), ss[s])
  PROVE  LET p == Normalize(ss, pos) IN
         /\ p \in Cursor /\ p.seq \in DOMAIN fs /\ p.off <= Len(fs[p.seq])
         /\ p = pos \/ (p.seq > pos.seq /\ p.off = 0)
         /\ \A s \in DOMAIN fs : \A i \in 1..Len(fs[s]) :
              fs[s][i] = NL /\ Past(s, i, pos) => Past(s, i, p)
  <1> DEFINE live == DOMAIN fs
             ahead == {j \in live : j > pos.seq /\ (ss[j] > 0 \/ j = Max(live))}
             p == Normalize(ss, pos)
  <1>1. /\ live \subseteq Nat /\ Max(live) \in live /\ DOMAIN ss = live
        /\ \A x \in live : x <= Max(live)
    BY IntervalEnds DEF Disk
  <1>2. pos.seq \in Nat /\ pos.off \in Nat BY DEF Cursor
  <1>3. \A s \in live : fs[s] \in Contents /\ Len(fs[s]) \in Nat BY DEF Disk, Contents
  <1>4. p = IF ahead = {} \/ pos.off < ss[pos.seq] THEN pos ELSE [seq |-> Min(ahead), off |-> 0]
    BY <1>1 DEF Normalize
  <1>5. CASE ahead = {} \/ pos.off < ss[pos.seq]
    <2>1. p = pos BY <1>4, <1>5
    <2>2. pos.off <= Len(fs[pos.seq])
      <3>1. ASSUME pos.seq < Max(live) PROVE Max(live) \in ahead BY <1>1, <3>1
      <3>2. ss[pos.seq] \in Nat OBVIOUS
      <3>3. CASE pos.seq < Max(live) /\ ss[pos.seq] <= Len(fs[pos.seq])
        BY <1>2, <1>3, <1>5, <3>1, <3>2, <3>3
      <3>4. QED BY <3>3
    <2>3. QED BY <2>1, <2>2
  <1>6. CASE ~(ahead = {} \/ pos.off < ss[pos.seq])
    <2>1. p = [seq |-> Min(ahead), off |-> 0] BY <1>4, <1>6
    <2>2. ahead \in SUBSET Nat /\ ahead # {} BY <1>1, <1>6
    <2>3. Min(ahead) \in ahead /\ \A y \in ahead : Min(ahead) <= y
      <3> HIDE DEF ahead
      <3>1. QED BY <2>2, MinOfNats
    <2>4. p \in Cursor /\ p.seq \in live /\ p.seq > pos.seq /\ p.off = 0 /\ p.seq = Min(ahead)
      BY <1>1, <2>1, <2>3 DEF Cursor
    <2>5. p.off <= Len(fs[p.seq]) BY <1>3, <2>4
    <2>6. ASSUME NEW s \in live, NEW i \in 1..Len(fs[s]), fs[s][i] = NL, Past(s, i, pos), ~Past(s, i, p)
          PROVE  FALSE
      <3>1. s \in Nat /\ i \in Nat /\ i >= 1 BY <1>1, <1>3
      <3>2. s >= pos.seq /\ s < p.seq /\ (s = pos.seq => i > pos.off)
        BY <1>1, <1>2, <2>4, <2>6, <3>1 DEF Past
      <3>3. SizeOK(fs[s], From(s, pos), ss[s]) BY <3>2
      <3>4. From(s, pos) \in Nat /\ From(s, pos) < i BY <1>2, <2>6, <3>1, <3>2 DEF From
      <3>5. From(s, pos) \in 0..Len(fs[s]) BY <1>3, <3>1, <3>4
      <3>6. Clean(fs[s], From(s, pos), From(s, pos)) BY <1>3, <3>5, CleanSelf
      <3>7. i \in From(s, pos) + 1 .. Len(fs[s]) BY <1>3, <3>1, <3>4
      <3>8. From(s, pos) < ss[s] BY <2>6, <3>3, <3>4, <3>6, <3>7 DEF SizeOK
      <3>9. ss[s] \in Nat OBVIOUS
      <3>10. CASE s = pos.seq BY <1>2, <1>6, <3>8, <3>9, <3>10 DEF From
      <3>11. CASE s # pos.seq
        <4>1. s \in ahead BY <1>2, <3>1, <3>2, <3>4, <3>8, <3>9, <3>11
        <4>2. Min(ahead) <= s
          <5> HIDE DEF ahead
          <5>1. QED BY <2>3, <4>1
        <4>3. p.seq <= s BY <2>4, <4>2
        <4>4. p.seq \in Nat BY <1>1, <2>4
        <4>5. QED BY <3>1, <3>2, <4>3, <4>4
      <3>12. QED BY <3>10, <3>11
    <2>7. QED BY <2>4, <2>5, <2>6
  <1>7. QED BY <1>5, <1>6

-----------------------------------------------------------------------------
(* Reading *)

\* The ends of the lines from pos on.
LEMMA EndsAre ==
  ASSUME NEW pos \in Cursor, Disk(files), Seqs = DOMAIN files
  PROVE  /\ \A e \in Ends(pos) :
              /\ e \in Cursor /\ e.seq \in DOMAIN files /\ e.seq >= pos.seq
              /\ e.off \in LineEnds(files[e.seq], From(e.seq, pos))
              /\ e = [seq |-> e.seq, off |-> e.off]
         /\ \A s \in DOMAIN files : s >= pos.seq => \A i \in LineEnds(files[s], From(s, pos)) :
              [seq |-> s, off |-> i] \in Ends(pos)
  <1>1. DOMAIN files \subseteq Nat BY IntervalEnds DEF Disk
  <1>2. \A s \in DOMAIN files : LineEnds(files[s], From(s, pos)) \subseteq Nat
    <2>1. \A s \in DOMAIN files : From(s, pos) \in Nat BY DEF From, Cursor
    <2>2. \A s \in DOMAIN files : Len(files[s]) \in Nat BY DEF Disk, Contents
    <2>3. QED BY <2>1, <2>2 DEF LineEnds
  <1>3. ASSUME NEW e \in Ends(pos)
        PROVE  /\ e \in Cursor /\ e.seq \in DOMAIN files /\ e.seq >= pos.seq
               /\ e.off \in LineEnds(files[e.seq], From(e.seq, pos))
               /\ e = [seq |-> e.seq, off |-> e.off]
    <2>1. PICK s \in {t \in Seqs : t >= pos.seq} :
            e \in {[seq |-> s, off |-> i] : i \in LineEnds(files[s], From(s, pos))}
      BY DEF Ends
    <2>2. PICK i \in LineEnds(files[s], From(s, pos)) : e = [seq |-> s, off |-> i] BY <2>1
    <2>3. s \in DOMAIN files /\ s >= pos.seq BY <2>1
    <2>4. s \in Nat /\ i \in Nat BY <1>1, <1>2, <2>3
    <2>5. e.seq = s /\ e.off = i BY <2>2
    <2>6. e \in Cursor BY <2>2, <2>4 DEF Cursor
    <2>7. QED BY <2>2, <2>3, <2>5, <2>6
  <1>4. ASSUME NEW s \in DOMAIN files, s >= pos.seq, NEW i \in LineEnds(files[s], From(s, pos))
        PROVE  [seq |-> s, off |-> i] \in Ends(pos)
    <2>1. s \in {t \in Seqs : t >= pos.seq} BY <1>4
    <2>2. [seq |-> s, off |-> i] \in {[seq |-> s, off |-> j] : j \in LineEnds(files[s], From(s, pos))}
      OBVIOUS
    <2>3. QED BY <2>1, <2>2 DEF Ends
  <1>5. QED BY <1>3, <1>4

\* A line ends behind a record, and each line behind another.
LEMMA EndsFinite ==
  ASSUME NEW pos \in Cursor, Disk(files), Seqs = DOMAIN files, born \in Nat, Written(files, born)
  PROVE  IsFiniteSet(Ends(pos))
  <1> DEFINE E == Ends(pos)
             rec == [e \in E |-> files[e.seq][e.off - 1]]
  <1>1. ASSUME NEW e \in E
        PROVE  /\ e \in Cursor /\ e.seq \in DOMAIN files /\ e = [seq |-> e.seq, off |-> e.off]
               /\ e.off - 1 \in 1..Len(files[e.seq])
               /\ rec[e] \in 1..born /\ rec[e] # NL
    <2>1. /\ e \in Cursor /\ e.seq \in DOMAIN files /\ e = [seq |-> e.seq, off |-> e.off]
          /\ e.off \in LineEnds(files[e.seq], From(e.seq, pos))
      BY EndsAre
    <2>2. Len(files[e.seq]) \in Nat BY <2>1 DEF Disk, Contents
    <2>3. From(e.seq, pos) \in Nat BY DEF From, Cursor
    <2>4. e.off \in 1..Len(files[e.seq]) /\ files[e.seq][e.off] = NL
      BY <2>1, <2>2, <2>3 DEF LineEnds
    <2>5. e.off > 1 /\ files[e.seq][e.off - 1] # NL BY <2>1, <2>4 DEF Written
    <2>6. e.off - 1 \in 1..Len(files[e.seq]) BY <2>2, <2>4, <2>5
    <2>7. files[e.seq][e.off - 1] \in 1..born BY <2>1, <2>5, <2>6 DEF Written
    <2>8. QED BY <2>1, <2>5, <2>6, <2>7
  <1>2. ASSUME NEW d \in E, NEW e \in E, rec[d] = rec[e] PROVE d = e
    <2>1. d.seq = e.seq /\ d.off - 1 = e.off - 1 BY <1>1, <1>2, WrittenOnce
    <2>2. d.off \in Nat /\ e.off \in Nat BY <1>1 DEF Cursor
    <2>3. d.off = e.off BY <2>1, <2>2
    <2>4. QED BY <1>1, <2>1, <2>3
  <1>3. rec \in Injection(E, 1..born) BY <1>1, <1>2 DEF Injection, IsInjective
  <1>4. IsFiniteSet(1..born)
    <2>1. 1 \in Int /\ born \in Int OBVIOUS
    <2>2. QED BY <2>1, FS_Interval
  <1> HIDE DEF rec, E
  <1>5. IsFiniteSet(E) BY <1>3, <1>4, FS_Injection
  <1>6. QED BY <1>5 DEF E

\* They are read segment by segment, from the front.
LEMMA UnreadIs ==
  ASSUME NEW pos \in Cursor, Disk(files), Seqs = DOMAIN files, born \in Nat, Written(files, born)
  PROVE  LET N == Cardinality(Ends(pos)) IN
         /\ N \in Nat /\ Len(Unread(pos)) = N
         /\ \A k \in 1..N : Unread(pos)[k] \in Ends(pos)
         /\ \A e \in Ends(pos) : \E k \in 1..N : Unread(pos)[k] = e
         /\ \A k, l \in 1..N : k < l => Before(Unread(pos)[k], Unread(pos)[l])
  <1> DEFINE E == Ends(pos)
             below == [e \in E |-> {d \in E : Before(d, e)}]
  <1>1. IsFiniteSet(E) BY EndsFinite
  <1>2. \A e \in E : e.seq \in Nat /\ e.off \in Nat /\ e = [seq |-> e.seq, off |-> e.off]
    BY EndsAre DEF Cursor
  <1>3. Ranks(E, below)
    <2>1. ASSUME NEW e \in E PROVE below[e] \subseteq E /\ e \notin below[e]
      BY <1>2 DEF Before
    <2>2. ASSUME NEW d \in E, NEW e \in E PROVE d = e \/ d \in below[e] \/ e \in below[d]
      <3>1. Before(d, e) \/ Before(e, d) \/ (d.seq = e.seq /\ d.off = e.off) BY <1>2 DEF Before
      <3>2. d.seq = e.seq /\ d.off = e.off => d = e BY <1>2
      <3>3. QED BY <3>1, <3>2
    <2>3. ASSUME NEW d \in E, NEW e \in E, d \in below[e] PROVE below[d] \subseteq below[e]
      <3>1. Before(d, e) BY <2>3
      <3>2. ASSUME NEW c \in E, Before(c, d) PROVE Before(c, e) BY <1>2, <3>1, <3>2 DEF Before
      <3>3. QED BY <3>2
    <2> HIDE DEF E, below
    <2>4. QED BY <2>1, <2>2, <2>3 DEF Ranks
  <1>4. Unread(pos) = Ordered(E, below) BY DEF Unread
  <1>5. \A d, e \in E : d \in below[e] => Before(d, e) OBVIOUS
  <1> HIDE DEF E, below
  <1>6. /\ Cardinality(E) \in Nat /\ Len(Unread(pos)) = Cardinality(E)
        /\ \A k \in 1..Cardinality(E) : Unread(pos)[k] \in E
        /\ \A e \in E : \E k \in 1..Cardinality(E) : Unread(pos)[k] = e
        /\ \A k, l \in 1..Cardinality(E) : k < l => Unread(pos)[k] \in below[Unread(pos)[l]]
    BY <1>1, <1>3, <1>4, OrderedIs
  <1>7. QED BY <1>5, <1>6 DEF E

\* What one read from pos hands out: the batch b, and the position c past it.
\* It holds each line between pos and c, in order, or garbage.
BatchRead(fs, pos, top, b, c) ==
  /\ b \in Seq(1..top \cup {Garbage})
  /\ c \in Cursor /\ c.seq \in DOMAIN fs /\ c.off <= Len(fs[c.seq])
  /\ AtMost(pos, c) /\ Starts(fs, c)
  /\ \A s \in DOMAIN fs : \A i \in 1..Len(fs[s]) :
       HasLine(fs[s], i) /\ Past(s, i, pos) /\ ~Past(s, i, c) =>
         fs[s][i] \in ToSet(b) \/ Garbage \in ToSet(b)
  /\ Garbage \notin ToSet(b) => Clean(fs[c.seq], From(c.seq, pos), c.off)
  /\ \A r \in ToSet(b) : r = Garbage \/
       \E s \in DOMAIN fs : \E i \in 1..Len(fs[s]) :
         HasLine(fs[s], i) /\ Past(s, i, pos) /\ ~Past(s, i, c) /\ fs[s][i] = r
  /\ \A k, l \in 1..Len(b) : k < l => b[k] = Garbage \/ b[l] = Garbage \/ b[k] < b[l]

\* What Next reads: the lines up to the cursor, or some of them garbage, in order.
LEMMA ReadIs ==
  ASSUME NEW pos \in Cursor, Disk(files), Seqs = DOMAIN files, born \in Nat, Written(files, born),
         pos.seq \in DOMAIN files, pos.off <= Len(files[pos.seq]), Starts(files, pos),
         NEW n \in Nat \ {0}, NEW b, NEW c,
         b = [k \in 1..(IF Len(Unread(pos)) < n THEN Len(Unread(pos)) ELSE n) |->
                LineAt(files[Unread(pos)[k].seq], From(Unread(pos)[k].seq, pos), Unread(pos)[k].off)],
         c = IF Len(Unread(pos)) >= n THEN Unread(pos)[n]
             ELSE [seq |-> LastSeq, off |-> GoodEnd(files[LastSeq], From(LastSeq, pos))]
  PROVE  BatchRead(files, pos, born, b, c)
  <1> DEFINE E == Ends(pos)
             o == Unread(pos)
             N == Cardinality(E)
             m == IF N < n THEN N ELSE n
             line(e) == LineAt(files[e.seq], From(e.seq, pos), e.off)
  <1>1. /\ N \in Nat /\ Len(o) = N
        /\ \A k \in 1..N : o[k] \in E
        /\ \A e \in E : \E k \in 1..N : o[k] = e
        /\ \A k, l \in 1..N : k < l => Before(o[k], o[l])
    BY UnreadIs
  <1>2. m \in Nat /\ m <= N /\ b = [k \in 1..m |-> line(o[k])] BY <1>1
  <1>3. /\ DOMAIN files \subseteq Nat /\ LastSeq \in DOMAIN files
        /\ \A s \in DOMAIN files : s <= LastSeq
    BY IntervalEnds DEF Disk, LastSeq
  <1>4. \A s \in DOMAIN files : /\ files[s] \in Contents /\ Len(files[s]) \in Nat
                                /\ From(s, pos) \in 0..Len(files[s])
    BY DEF Disk, Contents, From, Cursor
  <1>5. pos.seq \in Nat /\ pos.off \in Nat BY DEF Cursor
  <1>6. \A e \in E : /\ e.seq \in DOMAIN files /\ e.seq >= pos.seq /\ e.seq \in Nat /\ e.off \in Nat
                     /\ e.off \in LineEnds(files[e.seq], From(e.seq, pos))
    BY EndsAre DEF Cursor
  <1>7. ASSUME NEW e \in E
        PROVE  /\ e.off - 1 \in 1..Len(files[e.seq]) /\ HasLine(files[e.seq], e.off - 1)
               /\ files[e.seq][e.off - 1] \in 1..born
               /\ line(e) = Garbage \/ (line(e) = files[e.seq][e.off - 1] /\ Past(e.seq, e.off - 1, pos))
    <2>1. /\ e.off \in 1..Len(files[e.seq]) /\ files[e.seq][e.off] = NL /\ e.off > From(e.seq, pos)
          /\ e.seq \in DOMAIN files /\ e.seq >= pos.seq
      BY <1>4, <1>6 DEF LineEnds
    <2>2. e.off > 1 /\ files[e.seq][e.off - 1] # NL BY <2>1 DEF Written
    <2>3. e.off - 1 \in 1..Len(files[e.seq]) /\ e.off - 1 \in 1..Len(files[e.seq]) - 1
          /\ e.off - 1 + 1 = e.off
      BY <1>4, <2>1, <2>2
    <2>4. HasLine(files[e.seq], e.off - 1) BY <2>1, <2>2, <2>3 DEF HasLine
    <2>5. files[e.seq][e.off - 1] \in 1..born BY <2>1, <2>2, <2>3 DEF Written
    <2>6. ASSUME line(e) # Garbage
          PROVE  line(e) = files[e.seq][e.off - 1] /\ Past(e.seq, e.off - 1, pos)
      <3>1. e.off - 2 \in LineEnds(files[e.seq], From(e.seq, pos)) \cup {From(e.seq, pos)}
            /\ line(e) = files[e.seq][e.off - 1]
        BY <2>6 DEF LineAt
      <3>2. e.off - 2 >= From(e.seq, pos) BY <1>4, <2>1, <3>1 DEF LineEnds
      <3>3. e.off - 1 > From(e.seq, pos) BY <1>4, <1>6, <2>1, <3>2
      <3>4. Past(e.seq, e.off - 1, pos) BY <1>5, <1>6, <2>1, <3>3 DEF Past, From
      <3>5. QED BY <3>1, <3>4
    <2>7. QED BY <2>3, <2>4, <2>5, <2>6
  <1>8. /\ c \in Cursor /\ c.seq \in DOMAIN files /\ c.seq >= pos.seq
        /\ c.off \in LineEnds(files[c.seq], From(c.seq, pos)) \cup {From(c.seq, pos)}
        /\ \A k \in 1..m : AtMost(o[k], c)
        /\ \A e \in E : AtMost(e, c) => \E k \in 1..m : o[k] = e
    <2>1. CASE N >= n
      <3>1. m = n /\ n \in 1..N /\ c = o[n] BY <1>1, <2>1
      <3>2. c \in E BY <1>1, <3>1
      <3>3. ASSUME NEW k \in 1..m PROVE AtMost(o[k], c)
        <4>1. k \in 1..N
          <5> HIDE DEF m, N
          <5>1. QED BY <1>1, <1>2
        <4>2. CASE k = n BY <1>6, <3>1, <3>2, <4>2 DEF AtMost
        <4>3. CASE k < n
          <5>1. Before(o[k], c) BY <1>1, <3>1, <4>1, <4>3
          <5>2. o[k] \in E BY <1>1, <4>1
          <5>3. QED BY <1>6, <3>2, <5>1, <5>2 DEF Before, AtMost
        <4>4. QED BY <3>1, <4>2, <4>3
      <3>4. ASSUME NEW e \in E, AtMost(e, c) PROVE \E k \in 1..m : o[k] = e
        <4>1. PICK k \in 1..N : o[k] = e BY <1>1
        <4>2. CASE k > n
          <5>1. Before(c, e) BY <1>1, <3>1, <4>1, <4>2
          <5>2. FALSE BY <1>6, <3>2, <3>4, <5>1 DEF Before, AtMost
          <5>3. QED BY <5>2
        <4>3. k <= n => k \in 1..m BY <3>1
        <4>4. QED BY <4>1, <4>2, <4>3
      <3>5. c \in Cursor BY <3>2, EndsAre
      <3>6. QED BY <1>6, <3>2, <3>3, <3>4, <3>5
    <2>2. CASE N < n
      <3>1. m = N /\ c = [seq |-> LastSeq, off |-> GoodEnd(files[LastSeq], From(LastSeq, pos))]
        BY <1>1, <2>2
      <3>2. /\ c.off \in LineEnds(files[LastSeq], From(LastSeq, pos)) \cup {From(LastSeq, pos)}
            /\ c.off \in Nat /\ c.seq = LastSeq
            /\ \A i \in LineEnds(files[LastSeq], From(LastSeq, pos)) : i <= c.off
        <4>1. From(LastSeq, pos) \in Nat /\ From(LastSeq, pos) <= Len(files[LastSeq])
              /\ files[LastSeq] \in Contents
          BY <1>3, <1>4
        <4>2. QED BY <3>1, <4>1, GoodEndIs
      <3>3. c \in Cursor BY <1>3, <3>1, <3>2 DEF Cursor
      <3>4. \A e \in E : AtMost(e, c)
        <4>1. \A e \in E : e.seq <= LastSeq BY <1>3, <1>6
        <4>2. LastSeq \in Nat BY <1>3
        <4>3. \A e \in E : e.seq = LastSeq => e.off <= c.off BY <1>6, <3>2
        <4>4. QED BY <1>6, <3>2, <4>1, <4>2, <4>3 DEF AtMost
      <3>5. c.seq >= pos.seq BY <1>3, <3>2
      <3>6. QED BY <1>1, <1>3, <3>1, <3>2, <3>3, <3>4, <3>5
    <2>3. QED BY <1>1, <2>1, <2>2
  <1>9. c.seq \in Nat /\ c.off \in Nat BY <1>8 DEF Cursor
  <1>10. c.off \in 0..Len(files[c.seq]) /\ c.off >= From(c.seq, pos) BY <1>4, <1>8, <1>9 DEF LineEnds
  <1>11. AtMost(pos, c) BY <1>5, <1>8, <1>9, <1>10 DEF AtMost, From
  <1>12. Starts(files, c)
    <2>1. ASSUME c.off + 1 <= Len(files[c.seq]), files[c.seq][c.off + 1] = NL PROVE FALSE
      <3>1. c.off + 1 \in 1..Len(files[c.seq]) /\ c.off + 1 - 1 = c.off BY <1>4, <1>8, <1>9, <2>1
      <3>2. c.off + 1 > 1 /\ files[c.seq][c.off] # NL
        <4>1. \A i \in 1..Len(files[c.seq]) :
                files[c.seq][i] = NL => i > 1 /\ files[c.seq][i - 1] # NL
          BY <1>8 DEF Written
        <4>2. ASSUME NEW i \in 1..Len(files[c.seq]), i = c.off + 1
              PROVE  i > 1 /\ files[c.seq][c.off] # NL
          <5>1. i - 1 = c.off BY <1>9, <4>2
          <5>2. files[c.seq][i] = NL BY <2>1, <4>2
          <5>3. i > 1 /\ files[c.seq][i - 1] # NL BY <4>1, <5>2
          <5>4. QED BY <5>1, <5>3
        <4>3. \E i \in 1..Len(files[c.seq]) : i = c.off + 1 BY <3>1
        <4>4. PICK i \in 1..Len(files[c.seq]) : i = c.off + 1 BY <4>3
        <4>5. i > 1 /\ files[c.seq][c.off] # NL BY <4>2, <4>4
        <4>6. QED BY <4>4, <4>5
      <3>3. c.off = From(c.seq, pos) BY <1>8, <3>2 DEF LineEnds
      <3>4. c.seq = pos.seq /\ c.off = pos.off BY <1>9, <3>2, <3>3 DEF From
      <3>5. QED BY <2>1, <3>4 DEF Starts
    <2>2. QED BY <2>1 DEF Starts
  <1>13. ToSet(b) = {line(o[k]) : k \in 1..m} BY <1>2 DEF ToSet
  <1>14. b \in Seq(1..born \cup {Garbage})
    <2>1. \A k \in 1..m : line(o[k]) \in 1..born \cup {Garbage}
      <3>1. ASSUME NEW k \in 1..m PROVE line(o[k]) \in 1..born \cup {Garbage}
        <4>1. o[k] \in E BY <1>1, <1>2
        <4>2. QED BY <1>7, <4>1
      <3>2. QED BY <3>1
    <2> HIDE DEF line, o, m
    <2>2. QED BY <1>2, <2>1
  <1>15. ASSUME NEW s \in DOMAIN files, NEW i \in 1..Len(files[s]),
                HasLine(files[s], i), Past(s, i, pos), ~Past(s, i, c)
         PROVE  files[s][i] \in ToSet(b) \/ Garbage \in ToSet(b)
    <2>1. s \in Nat /\ i \in Nat /\ Len(files[s]) \in Nat /\ i >= 1 BY <1>3, <1>4
    <2>2. i + 1 \in 1..Len(files[s]) /\ files[s][i + 1] = NL /\ files[s][i] # NL
      BY <1>15, <2>1 DEF HasLine
    <2>3. s >= pos.seq /\ i > From(s, pos) BY <1>5, <1>15, <2>1 DEF Past, From
    <2>4. i + 1 \in LineEnds(files[s], From(s, pos)) BY <1>4, <2>1, <2>2, <2>3 DEF LineEnds
    <2> DEFINE e == [seq |-> s, off |-> i + 1]
    <2>5. e \in E /\ e.seq = s /\ e.off = i + 1 BY <2>3, <2>4, EndsAre
    <2>6. s <= c.seq /\ (s = c.seq => i <= c.off) BY <1>9, <1>15, <2>1 DEF Past
    <2>7. s = c.seq => i # c.off
      <3>1. ASSUME s = c.seq, i = c.off PROVE FALSE
        <4>1. i \notin LineEnds(files[s], From(s, pos)) BY <2>2 DEF LineEnds
        <4>2. i = From(s, pos) BY <1>8, <3>1, <4>1
        <4>3. QED BY <1>4, <2>1, <2>3, <4>2
      <3>2. QED BY <3>1
    <2>8. AtMost(e, c) BY <1>9, <2>1, <2>5, <2>6, <2>7 DEF AtMost
    <2> HIDE DEF e
    <2>9. PICK k \in 1..m : o[k] = e BY <1>8, <2>5, <2>8
    <2>10. line(e) \in ToSet(b) BY <1>13, <2>9
    <2>11. line(e) = Garbage \/ line(e) = files[s][i + 1 - 1] BY <1>7, <2>5
    <2>12. i + 1 - 1 = i BY <2>1
    <2>13. QED BY <2>10, <2>11, <2>12
  <1>16. ASSUME Garbage \notin ToSet(b) PROVE Clean(files[c.seq], From(c.seq, pos), c.off)
    <2>1. ASSUME NEW i \in LineEnds(files[c.seq], From(c.seq, pos)), i <= c.off
          PROVE  LineAt(files[c.seq], From(c.seq, pos), i) # Garbage
      <3> DEFINE e == [seq |-> c.seq, off |-> i]
      <3>1. e \in E /\ e.seq = c.seq /\ e.off = i BY <1>8, EndsAre
      <3>2. AtMost(e, c) BY <1>9, <2>1, <3>1 DEF AtMost
      <3> HIDE DEF e
      <3>3. PICK k \in 1..m : o[k] = e BY <1>8, <3>1, <3>2
      <3>4. line(e) \in ToSet(b) BY <1>13, <3>3
      <3>5. QED BY <1>16, <3>1, <3>4
    <2>2. c.off = From(c.seq, pos) \/ files[c.seq][c.off] = NL BY <1>8 DEF LineEnds
    <2>3. QED BY <1>10, <2>1, <2>2 DEF Clean
  <1>17. ASSUME NEW k \in 1..m, line(o[k]) # Garbage
         PROVE  LET s == o[k].seq
                    i == o[k].off - 1
                IN /\ s \in DOMAIN files /\ i \in 1..Len(files[s]) /\ HasLine(files[s], i)
                   /\ Past(s, i, pos) /\ ~Past(s, i, c) /\ files[s][i] = line(o[k])
                   /\ files[s][i] \in 1..born
    <2>1. o[k] \in E BY <1>1, <1>2
    <2>2. o[k].seq \in DOMAIN files /\ o[k].off \in Nat /\ o[k].seq \in Nat BY <1>6, <2>1
    <2>3. /\ o[k].off - 1 \in 1..Len(files[o[k].seq]) /\ HasLine(files[o[k].seq], o[k].off - 1)
          /\ files[o[k].seq][o[k].off - 1] \in 1..born
          /\ line(o[k]) = files[o[k].seq][o[k].off - 1] /\ Past(o[k].seq, o[k].off - 1, pos)
      BY <1>7, <1>17, <2>1
    <2>4. AtMost(o[k], c) BY <1>8
    <2>5. ~Past(o[k].seq, o[k].off - 1, c) BY <1>9, <2>2, <2>4 DEF AtMost, Past
    <2>6. QED BY <2>2, <2>3, <2>5
  <1>18. ASSUME NEW r \in ToSet(b), r # Garbage
         PROVE  \E s \in DOMAIN files : \E i \in 1..Len(files[s]) :
                  HasLine(files[s], i) /\ Past(s, i, pos) /\ ~Past(s, i, c) /\ files[s][i] = r
    <2>1. PICK k \in 1..m : r = line(o[k]) BY <1>13
    <2>2. QED BY <1>17, <1>18, <2>1
  <1>19. Len(b) = m
    <2> HIDE DEF m, line, o
    <2>1. QED BY <1>2, <1>14
  <1>20. ASSUME NEW k \in 1..Len(b), NEW l \in 1..Len(b), k < l
         PROVE  b[k] = Garbage \/ b[l] = Garbage \/ b[k] < b[l]
    <2>1. k \in 1..m /\ l \in 1..m /\ b[k] = line(o[k]) /\ b[l] = line(o[l])
      BY <1>2, <1>19
    <2>2. CASE line(o[k]) # Garbage /\ line(o[l]) # Garbage
      <3>1. k \in 1..N /\ l \in 1..N
        <4> HIDE DEF m, N, line, o
        <4>1. QED BY <1>1, <1>2, <2>1
      <3>2. Before(o[k], o[l]) /\ o[k] \in E /\ o[l] \in E BY <1>1, <1>20, <3>1
      <3>3. /\ o[k].seq \in DOMAIN files /\ o[k].off - 1 \in 1..Len(files[o[k].seq])
            /\ files[o[k].seq][o[k].off - 1] = line(o[k]) /\ line(o[k]) \in 1..born
        BY <1>17, <2>1, <2>2
      <3>4. /\ o[l].seq \in DOMAIN files /\ o[l].off - 1 \in 1..Len(files[o[l].seq])
            /\ files[o[l].seq][o[l].off - 1] = line(o[l]) /\ line(o[l]) \in 1..born
        BY <1>17, <2>1, <2>2
      <3>5. o[k].seq < o[l].seq \/ (o[k].seq = o[l].seq /\ o[k].off - 1 < o[l].off - 1)
        BY <1>6, <3>2 DEF Before
      <3>6. line(o[k]) # NL /\ line(o[l]) # NL BY <3>3, <3>4, NLIsNone
      <3>7. line(o[k]) < line(o[l])
        <4> DEFINE s == o[k].seq
                   t == o[l].seq
                   i == o[k].off - 1
                   j == o[l].off - 1
        <4>1. s \in DOMAIN files /\ t \in DOMAIN files /\ i \in 1..Len(files[s])
              /\ j \in 1..Len(files[t]) /\ (s < t \/ (s = t /\ i < j))
              /\ files[s][i] = line(o[k]) /\ files[t][j] = line(o[l])
          BY <3>3, <3>4, <3>5
        <4> HIDE DEF s, t, i, j, line, o
        <4>2. QED BY <3>6, <4>1 DEF Written
      <3>8. QED BY <2>1, <3>7
    <2>3. QED BY <2>1, <2>2
  <1>21. c.off <= Len(files[c.seq]) BY <1>10
  <1> HIDE DEF E, o, N, m, line
  <1>22. QED
    BY <1>8, <1>11, <1>12, <1>14, <1>15, <1>16, <1>18, <1>20, <1>21 DEF BatchRead

-----------------------------------------------------------------------------
(* A batch in hand, while the files change *)

\* Batch b was read up to c; a is the ack position now.  What is between them is
\* in the batch; what is behind c is younger than all of it.
Hand(fs, a, c, b, top) ==
  /\ b \in Seq(1..top \cup {Garbage})
  /\ c \in Cursor /\ c.seq <= Max(DOMAIN fs) /\ Starts(fs, c)
  /\ c.seq \in DOMAIN fs => c.off <= Len(fs[c.seq])
  /\ \A s \in DOMAIN fs : \A i \in 1..Len(fs[s]) :
       HasLine(fs[s], i) /\ Past(s, i, a) /\ ~Past(s, i, c) =>
         fs[s][i] \in ToSet(b) \/ Garbage \in ToSet(b)
  /\ Garbage \notin ToSet(b) /\ AtMost(a, c) => Clean(fs[c.seq], From(c.seq, a), c.off)
  /\ \A s \in DOMAIN fs : \A i \in 1..Len(fs[s]) :
       fs[s][i] # NL /\ Past(s, i, c) => \A r \in ToSet(b) : r = Garbage \/ r < fs[s][i]
  /\ \A k, l \in 1..Len(b) : k < l => b[k] = Garbage \/ b[l] = Garbage \/ b[k] < b[l]

\* A batch just read is in hand.
LEMMA ReadHand ==
  ASSUME NEW fs, NEW top \in Nat, Disk(fs), Written(fs, top), NEW pos \in Cursor, NEW b, NEW c,
         BatchRead(fs, pos, top, b, c)
  PROVE  Hand(fs, pos, c, b, top)
  <1>1. c \in Cursor /\ c.seq \in DOMAIN fs BY DEF BatchRead
  <1>2. c.seq <= Max(DOMAIN fs) /\ DOMAIN fs \subseteq Nat BY <1>1, IntervalEnds DEF Disk
  <1>3. ASSUME NEW s \in DOMAIN fs, NEW i \in 1..Len(fs[s]), fs[s][i] # NL, Past(s, i, c),
               NEW r \in ToSet(b), r # Garbage
        PROVE  r < fs[s][i]
    <2>1. PICK t \in DOMAIN fs : \E j \in 1..Len(fs[t]) :
            HasLine(fs[t], j) /\ Past(t, j, pos) /\ ~Past(t, j, c) /\ fs[t][j] = r
      BY <1>3 DEF BatchRead
    <2>2. PICK j \in 1..Len(fs[t]) :
            HasLine(fs[t], j) /\ Past(t, j, pos) /\ ~Past(t, j, c) /\ fs[t][j] = r
      BY <2>1
    <2>3. s \in Nat /\ t \in Nat /\ c.seq \in Nat /\ c.off \in Nat BY <1>1, <1>2 DEF Cursor
    <2>4. Len(fs[s]) \in Nat /\ Len(fs[t]) \in Nat BY DEF Disk, Contents
    <2>5. t < s \/ (t = s /\ j < i) BY <1>3, <2>2, <2>3, <2>4 DEF Past
    <2>6. fs[t][j] # NL BY <2>2 DEF HasLine
    <2>7. QED BY <1>3, <2>2, <2>5, <2>6 DEF Written
  <1>4. QED BY <1>1, <1>2, <1>3 DEF BatchRead, Hand

\* No newline comes to lie at a position.
LEMMA StartsExtended ==
  ASSUME NEW fs, NEW gs, NEW b \in Nat, Disk(fs), Extends(fs, gs, b), NEW pos, pos.off \in Nat,
         Starts(fs, pos), pos.seq <= Max(DOMAIN fs),
         pos.seq = Max(DOMAIN fs) => pos.off <= Len(fs[pos.seq])
  PROVE  Starts(gs, pos)
  <1>1. SUFFICES ASSUME pos.seq \in DOMAIN gs, pos.off + 1 <= Len(gs[pos.seq]),
                        gs[pos.seq][pos.off + 1] = NL
                 PROVE  FALSE
    BY DEF Starts
  <1> DEFINE s == pos.seq
             i == pos.off + 1
  <1>2. gs[s] \in Contents BY <1>1, ExtendedUnits
  <1>3. Len(gs[s]) \in Nat BY <1>2 DEF Contents
  <1>4. i \in 1..Len(gs[s]) BY <1>1, <1>3
  <1>5. s \in DOMAIN fs BY <1>1, <1>4, ExtendedUnits
  <1>6. Len(fs[s]) \in Nat BY <1>5 DEF Disk, Contents
  <1>7. CASE i \in 1..Len(fs[s])
    <2>1. gs[s][i] = fs[s][i] BY <1>1, <1>5, <1>7, ExtendedUnits
    <2>2. QED BY <1>1, <1>5, <1>6, <1>7, <2>1 DEF Starts
  <1>8. CASE i \notin 1..Len(fs[s])
    <2>1. \/ s = Max(DOMAIN fs) /\ i = Len(fs[s]) + 1 /\ gs[s][i] = b + 1
          \/ s = Max(DOMAIN fs) /\ i = Len(fs[s]) + 2
      BY <1>1, <1>4, <1>8, ExtendedUnits
    <2>2. i = Len(fs[s]) + 1 /\ gs[s][i] = b + 1 BY <1>6, <2>1
    <2>3. QED BY <1>1, <2>2, NLIsNone
  <1>9. QED BY <1>7, <1>8

\* The ack position moves on, and segments before it may go.
Moves(a, a2) == a2 = a \/ (a2.seq > a.seq /\ a2.off = 0)

\* A batch in hand stays one while records are appended, old segments evicted and
\* the ack position moved on.
LEMMA HandExtended ==
  ASSUME NEW fs, NEW gs, NEW top \in Nat, Disk(fs), Extends(fs, gs, top), Disk(gs),
         Max(DOMAIN fs) <= Max(DOMAIN gs),
         NEW a \in Cursor, NEW a2 \in Cursor, Moves(a, a2), a.seq \in DOMAIN fs,
         \A s \in DOMAIN fs : s >= a2.seq => s \in DOMAIN gs,
         NEW b, NEW c, Hand(fs, a, c, b, top)
  PROVE  Hand(gs, a2, c, b, top)
  <1>1. c \in Cursor /\ c.seq <= Max(DOMAIN fs) /\ Starts(fs, c) BY DEF Hand
  <1>2. /\ c.seq \in Nat /\ c.off \in Nat /\ a.seq \in Nat /\ a.off \in Nat
        /\ a2.seq \in Nat /\ a2.off \in Nat
    BY <1>1 DEF Cursor
  <1>3. /\ DOMAIN fs \subseteq Nat /\ DOMAIN gs \subseteq Nat /\ Max(DOMAIN fs) \in DOMAIN fs
        /\ \A s \in DOMAIN fs : s <= Max(DOMAIN fs)
        /\ \A s \in Nat : Min(DOMAIN fs) <= s /\ s <= Max(DOMAIN fs) => s \in DOMAIN fs
        /\ Min(DOMAIN fs) \in DOMAIN fs /\ \A s \in DOMAIN fs : Min(DOMAIN fs) <= s
        /\ Max(DOMAIN gs) \in DOMAIN gs
    BY IntervalEnds DEF Disk
  <1>4. c.seq \in DOMAIN gs => c.seq \in DOMAIN fs
    <2>1. ASSUME c.seq \in DOMAIN gs, c.seq \notin DOMAIN fs PROVE FALSE
      <3>1. c.seq > Max(DOMAIN fs) BY <2>1, ExtendedUnits
      <3>2. QED BY <1>1, <1>2, <1>3, <3>1
    <2>2. QED BY <2>1
  <1>5. \A s \in DOMAIN fs : Len(fs[s]) \in Nat /\ fs[s] \in Contents BY DEF Disk, Contents
  <1>6. c.seq \in DOMAIN gs => c.off <= Len(gs[c.seq])
    <2>1. ASSUME c.seq \in DOMAIN gs PROVE c.off <= Len(gs[c.seq])
      <3>1. Len(fs[c.seq]) <= Len(gs[c.seq]) /\ c.off <= Len(fs[c.seq]) /\ Len(fs[c.seq]) \in Nat
        BY <1>4, <1>5, <2>1, ExtendedUnits DEF Hand
      <3>2. gs[c.seq] \in Contents BY <2>1, ExtendedUnits
      <3>3. QED BY <1>2, <3>1, <3>2 DEF Contents
    <2>2. QED BY <2>1
  <1>7. Starts(gs, c)
    <2>1. c.seq = Max(DOMAIN fs) => c.off <= Len(fs[c.seq]) BY <1>3 DEF Hand
    <2>2. QED BY <1>1, <1>2, <2>1, StartsExtended
  <1>8. ASSUME NEW s \in DOMAIN gs, NEW i \in 1..Len(gs[s]),
               HasLine(gs[s], i), Past(s, i, a2), ~Past(s, i, c)
        PROVE  gs[s][i] \in ToSet(b) \/ Garbage \in ToSet(b)
    <2>1. s \in DOMAIN fs /\ (\/ i \in 1..Len(fs[s]) /\ HasLine(fs[s], i) /\ gs[s][i] = fs[s][i]
                              \/ i > Len(fs[s]))
      BY <1>8, ExtendedLines
    <2>2. s \in Nat BY <1>3
    <2>3. i \in 1..Len(fs[s]) /\ HasLine(fs[s], i) /\ gs[s][i] = fs[s][i]
      <3>1. ASSUME i > Len(fs[s]) PROVE FALSE
        <4>1. s = Max(DOMAIN fs)
          <5>1. i \notin 1..Len(fs[s]) BY <1>5, <2>1, <3>1
          <5>2. QED BY <5>1, ExtendedUnits
        <4>2. s < c.seq \/ (s = c.seq /\ i <= c.off) BY <1>2, <1>8, <2>2 DEF Past
        <4>3. c.seq = s /\ i <= c.off BY <1>1, <1>2, <2>2, <4>1, <4>2
        <4>4. c.off <= Len(fs[s]) BY <2>1, <4>3 DEF Hand
        <4>5. QED BY <1>2, <1>5, <2>1, <3>1, <4>3, <4>4
      <3>2. QED BY <2>1, <3>1
    <2>4. Past(s, i, a)
      <3>1. i > 0 OBVIOUS
      <3>2. QED BY <1>2, <1>8, <2>2, <3>1 DEF Past, Moves
    <2>5. QED BY <1>8, <2>1, <2>3, <2>4 DEF Hand
  <1>9. ASSUME Garbage \notin ToSet(b), AtMost(a2, c) PROVE Clean(gs[c.seq], From(c.seq, a2), c.off)
    <2>1. AtMost(a, c) BY <1>2, <1>9 DEF AtMost, Moves
    <2>2. Clean(fs[c.seq], From(c.seq, a), c.off) BY <1>9, <2>1 DEF Hand
    <2>3. c.seq >= a2.seq /\ c.seq >= a.seq BY <1>2, <1>9, <2>1 DEF AtMost
    <2>4. c.seq \in DOMAIN fs BY <1>1, <1>2, <1>3, <2>3
    <2>5. c.seq \in DOMAIN gs BY <2>3, <2>4
    <2>6. From(c.seq, a2) = From(c.seq, a) /\ From(c.seq, a) \in Nat
      BY <1>2, <2>3 DEF From, Moves
    <2>7. c.off <= Len(fs[c.seq]) BY <2>4 DEF Hand
    <2>8. gs[c.seq] \in Contents /\ Len(fs[c.seq]) <= Len(gs[c.seq])
          /\ \A i \in 1..Len(fs[c.seq]) : gs[c.seq][i] = fs[c.seq][i]
      BY <2>4, <2>5, ExtendedUnits
    <2>9. Clean(gs[c.seq], From(c.seq, a), c.off)
      BY <1>2, <1>5, <2>2, <2>4, <2>6, <2>7, <2>8, CleanPrefix
    <2>10. QED BY <2>6, <2>9
  <1>10. ASSUME NEW s \in DOMAIN gs, NEW i \in 1..Len(gs[s]), gs[s][i] # NL, Past(s, i, c),
                NEW r \in ToSet(b), r # Garbage
         PROVE  r < gs[s][i]
    <2>1. r \in 1..top
      <3>1. b \in Seq(1..top \cup {Garbage}) BY DEF Hand
      <3>2. QED BY <1>10, <3>1 DEF ToSet
    <2>2. s \in DOMAIN fs /\ (i \in 1..Len(fs[s]) \/ gs[s][i] = top + 1) BY <1>10, ExtendedUnits
    <2>3. CASE i \in 1..Len(fs[s])
      <3>1. gs[s][i] = fs[s][i] BY <2>2, <2>3, ExtendedUnits
      <3>2. QED BY <1>10, <2>2, <2>3, <3>1 DEF Hand
    <2>4. CASE gs[s][i] = top + 1 BY <2>1, <2>4
    <2>5. QED BY <2>2, <2>3, <2>4
  <1>11. c.seq <= Max(DOMAIN gs) BY <1>1, <1>2, <1>3
  <1>12. QED BY <1>1, <1>6, <1>7, <1>8, <1>9, <1>10, <1>11 DEF Hand

-----------------------------------------------------------------------------
(* What the invariant says of the records *)

\* Each unit that is one of the records K has its newline.
Complete(fs, K) ==
  \A s \in DOMAIN fs : \A i \in 1..Len(fs[s]) : fs[s][i] \in K => HasLine(fs[s], i)

\* None of the records K is in the files.
Absent(fs, K) == \A s \in DOMAIN fs : \A i \in 1..Len(fs[s]) : fs[s][i] \notin K

\* Record r lies past pos.
Lies(fs, r, pos) == \E s \in DOMAIN fs : \E i \in 1..Len(fs[s]) : Past(s, i, pos) /\ fs[s][i] = r

\* Of the lines past pos, those with a record older than one of the seen are seen
\* themselves, or too large for any batch to be taken with them.
SeenPast(fs, pos, seen) ==
  \A s \in DOMAIN fs : \A i \in 1..Len(fs[s]) :
    HasLine(fs[s], i) /\ Past(s, i, pos) =>
      \A d \in seen : fs[s][i] < d => fs[s][i] \in seen \cup Big

\* The lines between two positions are seen, or too large.
SeenBetween(fs, p, q, seen) ==
  \A s \in DOMAIN fs : \A i \in 1..Len(fs[s]) :
    HasLine(fs[s], i) /\ Past(s, i, p) /\ ~Past(s, i, q) => fs[s][i] \in seen \cup Big

\* What was written whole stays whole.
LEMMA CompleteExtended ==
  ASSUME NEW fs, NEW gs, NEW b \in Nat, Disk(fs), Extends(fs, gs, b),
         NEW K \in SUBSET (1..b), Complete(fs, K)
  PROVE  Complete(gs, K)
  <1>1. SUFFICES ASSUME NEW s \in DOMAIN gs, NEW i \in 1..Len(gs[s]), gs[s][i] \in K
                 PROVE  HasLine(gs[s], i)
    BY DEF Complete
  <1>2. s \in DOMAIN fs /\ i \in 1..Len(fs[s])
    <2>1. gs[s][i] # b + 1 /\ gs[s][i] # NL
      <3>1. gs[s][i] \in 1..b BY <1>1
      <3>2. \A x \in 1..b : x \in Nat /\ x # b + 1 OBVIOUS
      <3>3. QED BY <3>1, <3>2, NLIsNone
    <2>2. QED BY <2>1, ExtendedUnits
  <1>3. gs[s][i] = fs[s][i] BY <1>2, ExtendedUnits
  <1>4. HasLine(fs[s], i) BY <1>1, <1>2, <1>3 DEF Complete
  <1>5. QED BY <1>2, <1>4, ExtendedLines

\* What is gone does not come back.
LEMMA AbsentExtended ==
  ASSUME NEW fs, NEW gs, NEW b \in Nat, Disk(fs), Extends(fs, gs, b),
         NEW K \in SUBSET (1..b), Absent(fs, K)
  PROVE  Absent(gs, K)
  <1>1. SUFFICES ASSUME NEW s \in DOMAIN gs, NEW i \in 1..Len(gs[s]), gs[s][i] \in K
                 PROVE  FALSE
    BY DEF Absent
  <1>2. s \in DOMAIN fs /\ i \in 1..Len(fs[s])
    <2>1. gs[s][i] # b + 1 /\ gs[s][i] # NL
      <3>1. gs[s][i] \in 1..b BY <1>1
      <3>2. \A x \in 1..b : x \in Nat /\ x # b + 1 OBVIOUS
      <3>3. QED BY <3>1, <3>2, NLIsNone
    <2>2. QED BY <2>1, ExtendedUnits
  <1>3. gs[s][i] = fs[s][i] BY <1>2, ExtendedUnits
  <1>4. QED BY <1>1, <1>2, <1>3 DEF Absent

\* A record written now is younger than all the server has seen.
LEMMA SeenExtended ==
  ASSUME NEW fs, NEW gs, NEW b \in Nat, Disk(fs), Extends(fs, gs, b),
         NEW pos, NEW pos2, NEW seen \in SUBSET (1..b), SeenPast(fs, pos, seen),
         \A s \in Nat : \A i \in Nat \ {0} : Past(s, i, pos2) => Past(s, i, pos)
  PROVE  SeenPast(gs, pos2, seen)
  <1>1. SUFFICES ASSUME NEW s \in DOMAIN gs, NEW i \in 1..Len(gs[s]),
                        HasLine(gs[s], i), Past(s, i, pos2), NEW d \in seen, gs[s][i] < d
                 PROVE  gs[s][i] \in seen \cup Big
    BY DEF SeenPast
  <1>2. s \in DOMAIN fs /\ (\/ i \in 1..Len(fs[s]) /\ HasLine(fs[s], i) /\ gs[s][i] = fs[s][i]
                            \/ gs[s][i] = b + 1)
    BY <1>1, ExtendedLines
  <1>3. s \in Nat /\ i \in Nat \ {0} BY <1>2, IntervalEnds DEF Disk
  <1>4. CASE i \in 1..Len(fs[s]) /\ HasLine(fs[s], i) /\ gs[s][i] = fs[s][i]
    BY <1>1, <1>2, <1>3, <1>4 DEF SeenPast
  <1>5. CASE gs[s][i] = b + 1
    <2>1. d \in 1..b OBVIOUS
    <2>2. QED BY <1>1, <1>5, <2>1
  <1>6. QED BY <1>2, <1>4, <1>5

\* q is in the old files, so nothing written now lies before it.
LEMMA BetweenExtended ==
  ASSUME NEW fs, NEW gs, NEW b \in Nat, Disk(fs), Extends(fs, gs, b),
         NEW p, NEW q \in Cursor, q.seq \in DOMAIN fs, q.off <= Len(fs[q.seq]),
         NEW seen, SeenBetween(fs, p, q, seen)
  PROVE  SeenBetween(gs, p, q, seen)
  <1>1. SUFFICES ASSUME NEW s \in DOMAIN gs, NEW i \in 1..Len(gs[s]),
                        HasLine(gs[s], i), Past(s, i, p), ~Past(s, i, q)
                 PROVE  gs[s][i] \in seen \cup Big
    BY DEF SeenBetween
  <1>2. s \in DOMAIN fs /\ (\/ i \in 1..Len(fs[s]) /\ HasLine(fs[s], i) /\ gs[s][i] = fs[s][i]
                            \/ i > Len(fs[s]))
    BY <1>1, ExtendedLines
  <1>3. /\ s \in Nat /\ q.seq \in Nat /\ q.off \in Nat /\ Len(fs[s]) \in Nat
        /\ q.seq <= Max(DOMAIN fs) /\ Max(DOMAIN fs) \in Nat
    BY <1>2, IntervalEnds DEF Disk, Cursor, Contents
  <1>4. ASSUME i > Len(fs[s]) PROVE FALSE
    <2>1. i \notin 1..Len(fs[s]) BY <1>3, <1>4
    <2>2. s = Max(DOMAIN fs) BY <2>1, ExtendedUnits
    <2>3. s = q.seq /\ i <= q.off BY <1>1, <1>3, <2>2 DEF Past
    <2>4. QED BY <1>3, <1>4, <2>3
  <1>5. QED BY <1>1, <1>2, <1>4 DEF SeenBetween

\* What is not gone and lay past a position still does.
LEMMA LiesExtended ==
  ASSUME NEW fs, NEW gs, NEW b \in Nat, Disk(fs), Extends(fs, gs, b), DOMAIN fs \subseteq DOMAIN gs,
         NEW r, NEW pos, Lies(fs, r, pos)
  PROVE  Lies(gs, r, pos)
  <1>1. PICK s \in DOMAIN fs : \E i \in 1..Len(fs[s]) : Past(s, i, pos) /\ fs[s][i] = r BY DEF Lies
  <1>2. PICK i \in 1..Len(fs[s]) : Past(s, i, pos) /\ fs[s][i] = r BY <1>1
  <1>3. s \in DOMAIN gs /\ gs[s][i] = fs[s][i] /\ Len(fs[s]) <= Len(gs[s]) /\ gs[s] \in Contents
    BY ExtendedUnits
  <1>4. Len(gs[s]) \in Nat /\ Len(fs[s]) \in Nat BY <1>3 DEF Disk, Contents
  <1>5. i \in 1..Len(gs[s]) BY <1>3, <1>4
  <1>6. QED BY <1>2, <1>3, <1>5 DEF Lies

\* A file that is as it was or empty holds no more than it did.
LEMMA SameWritten ==
  ASSUME NEW fs, NEW gs, NEW b, Written(fs, b),
         \A s \in DOMAIN gs : IF s \in DOMAIN fs THEN gs[s] = fs[s] ELSE gs[s] = <<>>
  PROVE  Written(gs, b)
  <1>1. ASSUME NEW s \in DOMAIN gs, NEW i \in 1..Len(gs[s]) PROVE s \in DOMAIN fs /\ gs[s] = fs[s]
    OBVIOUS
  <1>2. QED BY <1>1 DEF Written

-----------------------------------------------------------------------------
(* The invariant *)

TypeInv ==
  /\ born \in Nat /\ kept \subseteq 1..born /\ evicted \subseteq 1..born /\ cut \subseteq 1..born
  /\ cp \in [seq : Nat, off : Nat, dropped : Nat] /\ acked \in Cursor /\ dropped \in Nat
  /\ up \in BOOLEAN /\ Disk(files)
  /\ delivered \in Seq(1..born) /\ stack \in Seq(Nat \ {0})

\* Records lie in the files in order, those written whole, the evicted not; no
\* newline follows the checkpoint.
DiskInv ==
  /\ Written(files, born) /\ Complete(files, kept \ cut) /\ Absent(files, evicted)
  /\ cp.seq <= Max(DOMAIN files) /\ Starts(files, cp)

\* What the process knows of the files.
UpInv == up =>
  /\ segs \in [DOMAIN files -> Nat]
  /\ acked.seq \in DOMAIN files /\ acked.off <= Len(files[acked.seq])
  /\ Starts(files, acked) /\ AtMost(cp, acked)
  /\ \A s \in DOMAIN files : s >= acked.seq => SizeOK(files[s], From(s, acked), segs[s])
  /\ hold = "evict" => Min(DOMAIN files) < Max(DOMAIN files)

CountInv == ~forgot => Cardinality(evicted) = IF up THEN dropped ELSE cp.dropped

\* Where reading would go on from: after a crash, from the checkpoint.
Place == IF up THEN acked ELSE cp

LossInv == \A r \in kept : r \in Done \cup evicted \cup cut \/ Lies(files, r, Place)

OrderInv ==
  /\ ArrivesInOrder
  /\ SeenPast(files, Place, ToSet(delivered))
  /\ up => SeenBetween(files, cp, acked, ToSet(delivered))

SenderInv ==
  /\ pc # "idle" => up /\ stack # <<>>
  /\ pc \in {"post", "answer"} => batch # <<>> /\ Hand(files, acked, cursor, batch, born)
  /\ pc = "post" => \A r \in ToSet(batch) : \A d \in ToSet(delivered) :
       r # Garbage /\ r < d => r \in ToSet(delivered) \cup Big
  /\ pc = "answer" /\ reply = "ok" => Garbage \notin ToSet(batch) /\ ToSet(batch) \subseteq ToSet(delivered)
  /\ pc = "answer" /\ reply = "large" => TooLarge

Inv == TypeInv /\ DiskInv /\ UpInv /\ CountInv /\ LossInv /\ OrderInv /\ SenderInv

\* The segments from lo on are an interval too.
LEMMA IntervalTail ==
  ASSUME NEW S, Interval(S), NEW lo \in S, NEW T, T = {s \in S : s >= lo}
  PROVE  Interval(T) /\ Min(T) = lo /\ Max(T) = Max(S)
  <1>1. PICK a, hi \in Nat \ {0} : a <= hi /\ S = a..hi BY DEF Interval
  <1>2. Max(S) = hi BY <1>1, EndsOfInterval
  <1>3. lo \in Nat \ {0} /\ lo <= hi BY <1>1
  <1>4. T = lo..hi BY <1>1
  <1>5. QED BY <1>2, <1>3, <1>4, EndsOfInterval

\* And one with the segment after the last.
LEMMA IntervalNext ==
  ASSUME NEW S, Interval(S), NEW T, T = S \cup {Max(S) + 1}
  PROVE  Interval(T) /\ Min(T) = Min(S) /\ Max(T) = Max(S) + 1
  <1>1. PICK lo, hi \in Nat \ {0} : lo <= hi /\ S = lo..hi BY DEF Interval
  <1>2. Max(S) = hi /\ Min(S) = lo BY <1>1, EndsOfInterval
  <1>3. hi + 1 \in Nat \ {0} /\ lo <= hi + 1 BY <1>1
  <1>4. T = lo..hi + 1 BY <1>1, <1>2
  <1>5. Interval(lo..hi + 1) /\ Min(lo..hi + 1) = lo /\ Max(lo..hi + 1) = hi + 1
    BY <1>1, <1>3, EndsOfInterval
  <1>6. QED BY <1>2, <1>4, <1>5

-----------------------------------------------------------------------------
(* Appending *)

\* More records offered do not touch a batch in hand.
LEMMA HandOlder ==
  ASSUME NEW fs, NEW a, NEW c, NEW b, NEW top \in Nat, NEW top2 \in Nat, top <= top2,
         Hand(fs, a, c, b, top)
  PROVE  Hand(fs, a, c, b, top2)
  <1>1. b \in Seq(1..top \cup {Garbage}) BY DEF Hand
  <1>2. 1..top \cup {Garbage} \subseteq 1..top2 \cup {Garbage} OBVIOUS
  <1>3. b \in Seq(1..top2 \cup {Garbage}) BY <1>1, <1>2
  <1>4. QED BY <1>3 DEF Hand

\* What is in a sequence over S is in S.
LEMMA SeenIsSeq == ASSUME NEW S, NEW q \in Seq(S) PROVE ToSet(q) \in SUBSET S
  <1>1. \A i \in DOMAIN q : q[i] \in S OBVIOUS
  <1>2. QED BY <1>1 DEF ToSet

\* The facts about positions and files that every step needs.
LEMMA UpFacts ==
  ASSUME Inv, up
  PROVE  /\ Disk(files) /\ Written(files, born) /\ born \in Nat
         /\ acked \in Cursor /\ acked.seq \in Nat /\ acked.off \in Nat
         /\ acked.seq \in DOMAIN files /\ acked.off <= Len(files[acked.seq])
         /\ cp.seq \in Nat /\ cp.off \in Nat /\ cp.seq <= acked.seq
         /\ cp.seq = acked.seq => cp.off <= acked.off
         /\ DOMAIN segs = DOMAIN files /\ Seqs = DOMAIN files /\ LastSeq = Max(DOMAIN files)
         /\ segs \in [DOMAIN files -> Nat]
         /\ LastSeq \in DOMAIN files /\ DOMAIN files \subseteq Nat \ {0}
         /\ \A s \in DOMAIN files : Min(DOMAIN files) <= s /\ s <= LastSeq
         /\ \A s \in DOMAIN files : files[s] \in Contents /\ Len(files[s]) \in Nat
  <1>1. TypeInv /\ DiskInv /\ UpInv BY DEF Inv
  <1>2. /\ Disk(files) /\ Written(files, born) /\ born \in Nat
        /\ acked \in Cursor /\ acked.seq \in Nat /\ acked.off \in Nat
        /\ cp.seq \in Nat /\ cp.off \in Nat
    BY <1>1 DEF TypeInv, DiskInv, Cursor
  <1>3. /\ acked.seq \in DOMAIN files /\ acked.off <= Len(files[acked.seq])
        /\ AtMost(cp, acked) /\ segs \in [DOMAIN files -> Nat]
    BY <1>1 DEF UpInv
  <1>4. DOMAIN segs = DOMAIN files BY <1>3
  <1>5. Seqs = DOMAIN files /\ LastSeq = Max(DOMAIN files) BY <1>4 DEF Seqs, LastSeq
  <1>6. /\ LastSeq \in DOMAIN files /\ DOMAIN files \subseteq Nat \ {0}
        /\ \A s \in DOMAIN files : Min(DOMAIN files) <= s /\ s <= LastSeq
    BY <1>2, <1>5, IntervalEnds DEF Disk
  <1>7. \A s \in DOMAIN files : files[s] \in Contents /\ Len(files[s]) \in Nat
    BY <1>2 DEF Disk, Contents
  <1>8. cp.seq <= acked.seq /\ (cp.seq = acked.seq => cp.off <= acked.off)
    BY <1>2, <1>3 DEF AtMost
  <1>9. QED BY <1>2, <1>3, <1>4, <1>5, <1>6, <1>7, <1>8

\* Records and segments are added, and nothing else happens.
LEMMA GrowKeeps ==
  ASSUME Inv, up, up', Extends(files, files', born), Disk(files'),
         DOMAIN files \subseteq DOMAIN files', born' \in {born, born + 1},
         acked' = acked, cp' = cp, evicted' = evicted, cut' = cut,
         \A r \in kept' : r \in kept \/ Lies(files', r, acked),
         UNCHANGED <<senderVars, delivered, oversized>>
  PROVE  /\ LossInv' /\ OrderInv' /\ SenderInv' /\ Absent(files', evicted)
         /\ cp.seq <= Max(DOMAIN files') /\ Starts(files', cp) /\ Starts(files', acked)
         /\ acked.seq \in DOMAIN files' /\ acked.off <= Len(files'[acked.seq])
  <1>0. /\ TypeInv /\ DiskInv /\ UpInv /\ LossInv /\ OrderInv /\ SenderInv BY DEF Inv
  <1>1. /\ Disk(files) /\ Written(files, born) /\ born \in Nat /\ acked \in Cursor
        /\ acked.seq \in DOMAIN files /\ acked.off <= Len(files[acked.seq])
        /\ acked.seq \in Nat /\ acked.off \in Nat /\ cp.seq \in Nat /\ cp.off \in Nat
        /\ cp.seq <= acked.seq /\ (cp.seq = acked.seq => cp.off <= acked.off)
    BY UpFacts
  <1>2. /\ Max(DOMAIN files) \in DOMAIN files /\ Max(DOMAIN files') \in Nat
        /\ \A s \in DOMAIN files : s <= Max(DOMAIN files)
        /\ \A s \in DOMAIN files' : s <= Max(DOMAIN files')
        /\ DOMAIN files \subseteq Nat
    BY <1>1, IntervalEnds DEF Disk
  <1>3. Max(DOMAIN files) <= Max(DOMAIN files') BY <1>2
  <1>4. ToSet(delivered) \in SUBSET (1..born)
    <2>1. delivered \in Seq(1..born) BY <1>0 DEF TypeInv
    <2>2. QED BY <2>1, SeenIsSeq
  <1>5. LossInv'
    <2>1. ASSUME NEW r \in kept'
          PROVE  r \in Done \cup evicted \cup cut \/ Lies(files', r, acked)
      <3>1. CASE r \in kept
        <4>1. r \in Done \cup evicted \cup cut \/ Lies(files, r, acked)
          BY <1>0, <3>1 DEF LossInv, Place
        <4>2. QED BY <1>1, <4>1, LiesExtended
      <3>2. QED BY <3>1
    <2>2. Done' = Done BY DEF Done
    <2>3. QED BY <2>1, <2>2 DEF LossInv, Place
  <1>6. OrderInv'
    <2>1. SeenPast(files', acked, ToSet(delivered))
      <3>1. SeenPast(files, acked, ToSet(delivered)) BY <1>0 DEF OrderInv, Place
      <3>2. QED BY <1>1, <1>4, <3>1, SeenExtended
    <2>2. SeenBetween(files', cp, acked, ToSet(delivered))
      <3>1. SeenBetween(files, cp, acked, ToSet(delivered)) BY <1>0 DEF OrderInv
      <3>2. QED BY <1>1, <3>1, BetweenExtended
    <2>3. ArrivesInOrder' BY <1>0 DEF OrderInv, ArrivesInOrder
    <2>4. QED BY <2>1, <2>2, <2>3 DEF OrderInv, Place
  <1>7. SenderInv'
    <2>1. ASSUME pc \in {"post", "answer"} PROVE Hand(files', acked, cursor, batch, born')
      <3>1. Hand(files, acked, cursor, batch, born) BY <1>0, <2>1 DEF SenderInv
      <3>2. Moves(acked, acked) BY DEF Moves
      <3>3. Hand(files', acked, cursor, batch, born)
        BY <1>1, <1>3, <3>1, <3>2, HandExtended
      <3>4. born' \in Nat /\ born <= born' BY <1>1
      <3>5. QED BY <1>1, <3>3, <3>4, HandOlder
    <2>2. TooLarge' = TooLarge BY DEF TooLarge
    <2>3. QED BY <1>0, <2>1, <2>2 DEF SenderInv
  <1>8. Absent(files', evicted)
    <2>1. evicted \in SUBSET (1..born) /\ Absent(files, evicted) BY <1>0 DEF TypeInv, DiskInv
    <2>2. QED BY <1>1, <2>1, AbsentExtended
  <1>9. Starts(files', acked)
    <2>1. acked.seq <= Max(DOMAIN files) /\ Starts(files, acked) BY <1>0, <1>1, <1>2 DEF UpInv
    <2>2. QED BY <1>1, <2>1, StartsExtended
  <1>10. Starts(files', cp) /\ cp.seq <= Max(DOMAIN files')
    <2>1. cp.seq <= Max(DOMAIN files) /\ Starts(files, cp) BY <1>0 DEF DiskInv
    <2>2. ASSUME cp.seq = Max(DOMAIN files) PROVE cp.off <= Len(files[cp.seq])
      <3>1. acked.seq = cp.seq BY <1>1, <1>2, <2>2
      <3>2. Len(files[acked.seq]) \in Nat BY <1>1 DEF Disk, Contents
      <3>3. QED BY <1>1, <3>1, <3>2
    <2>3. Starts(files', cp) BY <1>1, <2>1, <2>2, StartsExtended
    <2>4. QED BY <1>1, <1>2, <1>3, <2>1, <2>3
  <1>11. acked.seq \in DOMAIN files' /\ acked.off <= Len(files'[acked.seq])
    <2>1. acked.seq \in DOMAIN files' BY <1>1
    <2>2. Len(files[acked.seq]) <= Len(files'[acked.seq]) /\ files'[acked.seq] \in Contents
      BY <1>1, <2>1, ExtendedUnits
    <2>3. Len(files[acked.seq]) \in Nat /\ Len(files'[acked.seq]) \in Nat
      BY <1>1, <2>2 DEF Disk, Contents
    <2>4. QED BY <1>1, <2>1, <2>2, <2>3
  <1>12. QED BY <1>5, <1>6, <1>7, <1>8, <1>9, <1>10, <1>11

\* More than one segment: the oldest is not the newest.
LEMMA OverCapTwo ==
  ASSUME NEW ss, Interval(DOMAIN ss), OverCap(ss) PROVE Min(DOMAIN ss) < Max(DOMAIN ss)
  <1> DEFINE S == DOMAIN ss
  <1>1. /\ Min(S) \in S /\ Max(S) \in S /\ S \subseteq Nat \ {0}
        /\ \A x \in S : Min(S) <= x /\ x <= Max(S)
    BY IntervalEnds
  <1>2. ASSUME Min(S) = Max(S) PROVE FALSE
    <2>1. S = {Min(S)} BY <1>1, <1>2
    <2>2. Cardinality({Min(S)}) = 1 BY FS_Singleton
    <2>3. Cardinality(S) > 1 BY DEF OverCap
    <2> HIDE DEF S
    <2>4. QED BY <2>1, <2>2, <2>3
  <1>3. QED BY <1>1, <1>2

\* Append opens the next segment.
LEMMA RollInv ==
  ASSUME Inv, AppendRolls, UNCHANGED <<senderVars, delivered, oversized>> PROVE Inv'
  <1>0. /\ TypeInv /\ DiskInv /\ UpInv /\ CountInv BY DEF Inv
  <1>1. /\ up /\ up' = up /\ cp' = cp /\ acked' = acked /\ dropped' = dropped /\ hold' = "append"
        /\ born' = born /\ kept' = kept /\ evicted' = evicted /\ cut' = cut /\ forgot' = forgot
        /\ segs' = [s \in Seqs \cup {LastSeq + 1} |-> IF s = LastSeq + 1 THEN 0 ELSE segs[s]]
        /\ files' = [s \in DOMAIN files \cup {LastSeq + 1} |->
                       IF s = LastSeq + 1 THEN <<>> ELSE files[s]]
    BY DEF AppendRolls
  <1>2. /\ Disk(files) /\ Written(files, born) /\ born \in Nat
        /\ Seqs = DOMAIN files /\ LastSeq = Max(DOMAIN files) /\ DOMAIN files \subseteq Nat \ {0}
        /\ \A s \in DOMAIN files : s <= LastSeq
        /\ \A s \in DOMAIN files : files[s] \in Contents
        /\ LastSeq \in DOMAIN files /\ segs \in [DOMAIN files -> Nat]
        /\ acked.seq \in DOMAIN files
    BY <1>1, UpFacts
  <1>3. LastSeq + 1 \notin DOMAIN files BY <1>2
  <1>4. DOMAIN files' = DOMAIN files \cup {Max(DOMAIN files) + 1} BY <1>1, <1>2
  <1>5. Interval(DOMAIN files') BY <1>2, <1>4, IntervalNext DEF Disk
  <1>6. \A s \in DOMAIN files' : IF s \in DOMAIN files THEN files'[s] = files[s]
                                 ELSE files'[s] = <<>> /\ s = LastSeq + 1
    BY <1>1, <1>2, <1>3, <1>4
  <1>7. Disk(files')
    <2>0. <<>> \in Contents BY DEF Contents
    <2>1. \A s \in DOMAIN files' : files'[s] \in Contents BY <1>2, <1>6, <2>0
    <2>2. files' = [s \in DOMAIN files' |-> files'[s]] BY <1>1
    <2>3. QED BY <1>5, <2>1, <2>2 DEF Disk
  <1>8. Extends(files, files', born) BY <1>2, <1>6 DEF Extends
  <1>9. Written(files', born) BY <1>2, <1>6, SameWritten
  <1>10. /\ LossInv' /\ OrderInv' /\ SenderInv' /\ Absent(files', evicted)
         /\ cp.seq <= Max(DOMAIN files') /\ Starts(files', cp) /\ Starts(files', acked)
         /\ acked.seq \in DOMAIN files' /\ acked.off <= Len(files'[acked.seq])
    BY <1>1, <1>4, <1>7, <1>8, GrowKeeps
  <1>11. Complete(files', kept \ cut)
    <2>1. kept \ cut \in SUBSET (1..born) /\ Complete(files, kept \ cut)
      BY <1>0 DEF TypeInv, DiskInv
    <2>2. QED BY <1>2, <1>8, <2>1, CompleteExtended
  <1>12. DiskInv' BY <1>1, <1>9, <1>10, <1>11 DEF DiskInv
  <1>13. TypeInv' BY <1>0, <1>1, <1>7 DEF TypeInv, senderVars
  <1>14. UpInv'
    <2>1. segs' \in [DOMAIN files' -> Nat] BY <1>1, <1>2
    <2>2. ASSUME NEW s \in DOMAIN files', s >= acked.seq
          PROVE  SizeOK(files'[s], From(s, acked), segs'[s])
      <3>1. CASE s \in DOMAIN files
        <4>1. files'[s] = files[s] /\ segs'[s] = segs[s] BY <1>1, <1>2, <1>3, <1>6, <3>1
        <4>2. SizeOK(files[s], From(s, acked), segs[s]) BY <1>0, <1>1, <2>2, <3>1 DEF UpInv
        <4>3. QED BY <4>1, <4>2
      <3>2. CASE s \notin DOMAIN files
        <4>1. files'[s] = <<>> /\ segs'[s] = 0 BY <1>1, <1>2, <1>6, <3>2
        <4>2. <<>> \in Contents /\ Len(<<>>) = 0 BY DEF Contents
        <4>3. SizeOK(<<>>, From(s, acked), 0) BY <4>2, SizeMeasured
        <4>4. QED BY <4>1, <4>3
      <3>3. QED BY <3>1, <3>2
    <2>3. AtMost(cp, acked) BY <1>0, <1>1 DEF UpInv
    <2>4. QED BY <1>1, <1>10, <2>1, <2>2, <2>3 DEF UpInv
  <1>15. CountInv' BY <1>0, <1>1 DEF CountInv
  <1>16. QED BY <1>10, <1>12, <1>13, <1>14, <1>15 DEF Inv

\* Append writes a line.
LEMMA WriteInv ==
  ASSUME Inv, AppendWrites, UNCHANGED <<senderVars, delivered, oversized>> PROVE Inv'
  <1>0. /\ TypeInv /\ DiskInv /\ UpInv /\ CountInv BY DEF Inv
  <1>1. /\ up /\ up' = up /\ cp' = cp /\ acked' = acked /\ dropped' = dropped
        /\ hold' = IF OverCap(segs') THEN "evict" ELSE "none"
        /\ born' = born + 1 /\ kept' = kept \cup {born + 1}
        /\ evicted' = evicted /\ cut' = cut /\ forgot' = forgot
        /\ segs' = [segs EXCEPT ![LastSeq] = @ + 2]
        /\ files' = [files EXCEPT ![LastSeq] = @ \o <<born + 1, NL>>]
    BY DEF AppendWrites
  <1>2. /\ Disk(files) /\ Written(files, born) /\ born \in Nat
        /\ Seqs = DOMAIN files /\ LastSeq = Max(DOMAIN files) /\ DOMAIN files \subseteq Nat \ {0}
        /\ \A s \in DOMAIN files : s <= LastSeq
        /\ \A s \in DOMAIN files : files[s] \in Contents /\ Len(files[s]) \in Nat
        /\ LastSeq \in DOMAIN files /\ segs \in [DOMAIN files -> Nat]
        /\ acked.seq \in DOMAIN files /\ acked.off <= Len(files[acked.seq])
        /\ acked.seq \in Nat /\ acked.off \in Nat
    BY <1>1, UpFacts
  <1> DEFINE f == files[LastSeq]
             g == files'[LastSeq]
             n == Len(files[LastSeq])
  <1>3. DOMAIN files' = DOMAIN files /\ \A s \in DOMAIN files : s # LastSeq => files'[s] = files[s]
    BY <1>1
  <1>4. g = f \o <<born + 1, NL>> BY <1>1, <1>2 DEF Disk
  <1>5. /\ g \in Contents /\ n \in Nat /\ Len(g) = n + 2 /\ f \in Contents
        /\ \A i \in 1..n : g[i] = f[i]
        /\ g[n + 1] = born + 1 /\ g[n + 2] = NL
    BY <1>2, <1>4, LineAdded
  <1>6. Disk(files')
    <2>1. \A s \in DOMAIN files' : files'[s] \in Contents BY <1>2, <1>3, <1>5
    <2>2. files' = [s \in DOMAIN files' |-> files'[s]] BY <1>1, <1>2 DEF Disk
    <2>3. QED BY <1>2, <1>3, <2>1, <2>2 DEF Disk
  <1>7. Extends(files, files', born) BY <1>2, <1>3, <1>4 DEF Extends
  <1>8. Written(files', born') BY <1>1, <1>2, <1>7, ExtendedWritten
  <1>9. HasLine(g, n + 1) /\ n + 1 \in 1..Len(g) /\ Past(LastSeq, n + 1, acked)
    <2>1. n + 1 \in 1..Len(g) - 1 /\ n + 1 \in 1..Len(g) /\ n + 1 + 1 = n + 2 BY <1>5
    <2>2. HasLine(g, n + 1) BY <1>2, <1>5, <2>1, NLIsNone DEF HasLine
    <2>3. Past(LastSeq, n + 1, acked) BY <1>2, <1>5 DEF Past
    <2>4. QED BY <2>1, <2>2, <2>3
  <1>10. Lies(files', born + 1, acked) BY <1>2, <1>3, <1>5, <1>9 DEF Lies
  <1>11. /\ LossInv' /\ OrderInv' /\ SenderInv' /\ Absent(files', evicted)
         /\ cp.seq <= Max(DOMAIN files') /\ Starts(files', cp) /\ Starts(files', acked)
         /\ acked.seq \in DOMAIN files' /\ acked.off <= Len(files'[acked.seq])
    <2>1. \A r \in kept' : r \in kept \/ Lies(files', r, acked) BY <1>1, <1>10
    <2> HIDE DEF f, g, n
    <2>2. QED BY <1>1, <1>3, <1>6, <1>7, <2>1, GrowKeeps
  <1>12. Complete(files', kept' \ cut)
    <2>1. kept \ cut \in SUBSET (1..born) /\ Complete(files, kept \ cut)
      BY <1>0 DEF TypeInv, DiskInv
    <2>2. Complete(files', kept \ cut) BY <1>2, <1>7, <2>1, CompleteExtended
    <2>3. ASSUME NEW s \in DOMAIN files', NEW i \in 1..Len(files'[s]), files'[s][i] = born + 1
          PROVE  HasLine(files'[s], i)
      <3>1. \/ s \in DOMAIN files /\ i \in 1..Len(files[s])
            \/ s = LastSeq /\ i = n + 1
            \/ files'[s][i] = NL
        BY <1>2, <1>7, ExtendedUnits
      <3>2. ~(s \in DOMAIN files /\ i \in 1..Len(files[s]))
        <4>1. ASSUME s \in DOMAIN files, i \in 1..Len(files[s]) PROVE FALSE
          <5>1. files'[s][i] = files[s][i] BY <1>2, <1>7, <4>1, ExtendedUnits
          <5>2. files[s][i] = NL \/ files[s][i] \in 1..born BY <1>2, <4>1 DEF Written
          <5>3. QED BY <1>2, <2>3, <5>1, <5>2, NLIsNone
        <4>2. QED BY <4>1
      <3>3. s = LastSeq /\ i = n + 1 BY <1>2, <2>3, <3>1, <3>2, NLIsNone
      <3>4. QED BY <1>9, <3>3
    <2>4. QED BY <1>1, <2>2, <2>3 DEF Complete
  <1>13. DiskInv' BY <1>1, <1>8, <1>11, <1>12 DEF DiskInv
  <1>14. TypeInv'
    <2>1. 1..born \subseteq 1..born' /\ born + 1 \in 1..born' /\ born' \in Nat BY <1>1, <1>2
    <2>2. delivered \in Seq(1..born') BY <1>0, <2>1 DEF TypeInv
    <2>3. QED BY <1>0, <1>1, <1>6, <2>1, <2>2 DEF TypeInv, senderVars
  <1>15. UpInv'
    <2>1. segs' \in [DOMAIN files' -> Nat] /\ DOMAIN segs' = DOMAIN files BY <1>1, <1>2, <1>3
    <2>2. ASSUME NEW s \in DOMAIN files', s >= acked.seq
          PROVE  SizeOK(files'[s], From(s, acked), segs'[s])
      <3>1. SizeOK(files[s], From(s, acked), segs[s]) BY <1>0, <1>1, <1>3, <2>2 DEF UpInv
      <3>2. CASE s # LastSeq
        <4>1. files'[s] = files[s] /\ segs'[s] = segs[s] BY <1>1, <1>2, <1>3, <3>2
        <4>2. QED BY <3>1, <4>1
      <3>3. CASE s = LastSeq
        <4>1. segs'[s] = segs[s] + 2 /\ segs[s] \in Nat BY <1>1, <1>2, <3>3
        <4>2. From(s, acked) \in 0..n BY <1>2, <1>5, <3>3 DEF From
        <4>3. g[n + 1] # NL BY <1>2, <1>5, NLIsNone
        <4>4. SizeOK(g, From(s, acked), segs[s] + 2)
          BY <1>5, <3>1, <3>3, <4>1, <4>2, <4>3, SizeLine
        <4>5. QED BY <3>3, <4>1, <4>4
      <3>4. QED BY <3>2, <3>3
    <2>3. AtMost(cp, acked) BY <1>0, <1>1 DEF UpInv
    <2>4. hold' = "evict" => Min(DOMAIN files') < Max(DOMAIN files')
      <3>1. Interval(DOMAIN segs') /\ DOMAIN segs' = DOMAIN files' BY <1>2, <1>3, <2>1 DEF Disk
      <3>2. ASSUME hold' = "evict" PROVE OverCap(segs') BY <1>1, <3>2
      <3>3. QED BY <3>1, <3>2, OverCapTwo
    <2>5. QED BY <1>1, <1>11, <2>1, <2>2, <2>3, <2>4 DEF UpInv
  <1>16. CountInv' BY <1>0, <1>1 DEF CountInv
  <1>17. QED BY <1>11, <1>13, <1>14, <1>15, <1>16 DEF Inv

\* A record is offered and not written: half of it may be in the newest file.
LEMMA RefusedInv ==
  ASSUME Inv, up, up', Extends(files, files', born), Disk(files'), DOMAIN files' = DOMAIN files,
         born' = born + 1, acked' = acked, cp' = cp, evicted' = evicted, cut' = cut, kept' = kept,
         segs' = segs, dropped' = dropped, forgot' = forgot, hold' \in {hold, "none"},
         UNCHANGED <<senderVars, delivered, oversized>>,
         \A s \in DOMAIN files : files'[s] = files[s] \/ files'[s] = files[s] \o <<born + 1>>
  PROVE  Inv'
  <1>0. /\ TypeInv /\ DiskInv /\ UpInv /\ CountInv BY DEF Inv
  <1>2. /\ Disk(files) /\ Written(files, born) /\ born \in Nat
        /\ \A s \in DOMAIN files : files[s] \in Contents /\ Len(files[s]) \in Nat
        /\ segs \in [DOMAIN files -> Nat]
        /\ acked.seq \in DOMAIN files /\ acked.off <= Len(files[acked.seq])
        /\ acked.seq \in Nat /\ acked.off \in Nat
    BY UpFacts
  <1>3. /\ LossInv' /\ OrderInv' /\ SenderInv' /\ Absent(files', evicted)
        /\ cp.seq <= Max(DOMAIN files') /\ Starts(files', cp) /\ Starts(files', acked)
        /\ acked.seq \in DOMAIN files' /\ acked.off <= Len(files'[acked.seq])
    BY GrowKeeps
  <1>4. Written(files', born') BY <1>2, ExtendedWritten
  <1>5. Complete(files', kept \ cut)
    <2>1. kept \ cut \in SUBSET (1..born) /\ Complete(files, kept \ cut)
      BY <1>0 DEF TypeInv, DiskInv
    <2>2. QED BY <1>2, <2>1, CompleteExtended
  <1>6. DiskInv' BY <1>3, <1>4, <1>5 DEF DiskInv
  <1>7. TypeInv'
    <2>1. 1..born \subseteq 1..born' /\ born' \in Nat BY <1>2
    <2>2. delivered \in Seq(1..born') BY <1>0, <2>1 DEF TypeInv
    <2>3. QED BY <1>0, <2>1, <2>2 DEF TypeInv, senderVars
  <1>8. UpInv'
    <2>1. ASSUME NEW s \in DOMAIN files, s >= acked.seq
          PROVE  SizeOK(files'[s], From(s, acked), segs[s])
      <3>1. SizeOK(files[s], From(s, acked), segs[s]) BY <1>0, <2>1 DEF UpInv
      <3>2. CASE files'[s] = files[s] BY <3>1, <3>2
      <3>3. CASE files'[s] = files[s] \o <<born + 1>>
        <4>1. /\ files'[s] \in Contents /\ Len(files'[s]) = Len(files[s]) + 1
              /\ \A i \in 1..Len(files[s]) : files'[s][i] = files[s][i]
              /\ files'[s][Len(files[s]) + 1] = born + 1
          BY <1>2, <3>3, HalfAdded
        <4>2. From(s, acked) \in 0..Len(files[s]) BY <1>2 DEF From
        <4>3. files'[s][Len(files[s]) + 1] # NL BY <1>2, <4>1, NLIsNone
        <4>4. files[s] \in Contents /\ segs[s] \in Nat BY <1>2
        <4>5. QED BY <3>1, <4>1, <4>2, <4>3, <4>4, SizeHalf
      <3>4. QED BY <3>2, <3>3
    <2>2. AtMost(cp, acked) /\ (hold = "evict" => Min(DOMAIN files) < Max(DOMAIN files))
      BY <1>0 DEF UpInv
    <2>3. QED BY <1>2, <1>3, <2>1, <2>2 DEF UpInv
  <1>9. CountInv' BY <1>0 DEF CountInv
  <1>10. QED BY <1>3, <1>6, <1>7, <1>8, <1>9 DEF Inv

\* Append writes half a line or none, and fails.
LEMMA ShortInv ==
  ASSUME Inv, AppendShort, UNCHANGED <<senderVars, delivered, oversized>> PROVE Inv'
  <1>1. /\ up /\ up' = up /\ cp' = cp /\ acked' = acked /\ dropped' = dropped /\ segs' = segs
        /\ born' = born + 1 /\ kept' = kept /\ evicted' = evicted /\ cut' = cut /\ forgot' = forgot
        /\ hold' = "none"
    BY DEF AppendShort, Refuse
  <1>2. PICK part \in {<<>>, <<born + 1>>} : files' = [files EXCEPT ![LastSeq] = @ \o part]
    BY DEF AppendShort
  <1>3. /\ Disk(files) /\ LastSeq = Max(DOMAIN files) /\ LastSeq \in DOMAIN files /\ born \in Nat
        /\ \A s \in DOMAIN files : files[s] \in Contents
    BY <1>1, UpFacts
  <1>4. DOMAIN files' = DOMAIN files /\ \A s \in DOMAIN files :
          files'[s] = IF s = LastSeq THEN files[s] \o part ELSE files[s]
    BY <1>2
  <1>5. ASSUME NEW s \in DOMAIN files
        PROVE  /\ files'[s] \in Contents
               /\ files'[s] = files[s] \/ (s = LastSeq /\ files'[s] = files[s] \o <<born + 1>>)
    <2>1. CASE s # LastSeq BY <1>3, <1>4, <2>1
    <2>2. CASE s = LastSeq /\ part = <<>>
      <3>1. files[s] \o <<>> = files[s] BY <1>3 DEF Contents
      <3>2. QED BY <1>3, <1>4, <2>2, <3>1
    <2>3. CASE s = LastSeq /\ part = <<born + 1>> BY <1>3, <1>4, <2>3, HalfAdded
    <2>4. QED BY <1>2, <2>1, <2>2, <2>3
  <1>6. Disk(files')
    <2>1. files' = [s \in DOMAIN files' |-> files'[s]] BY <1>2, <1>3 DEF Disk
    <2>2. QED BY <1>3, <1>4, <1>5, <2>1 DEF Disk
  <1>7. Extends(files, files', born) BY <1>3, <1>4, <1>5 DEF Extends
  <1>8. QED BY <1>1, <1>4, <1>5, <1>6, <1>7, RefusedInv

\* Append fails and writes nothing, for want of a file.
LEMMA ClosedInv ==
  ASSUME Inv, AppendClosed \/ RollFails, UNCHANGED <<senderVars, delivered, oversized>> PROVE Inv'
  <1>1. /\ up /\ up' = up /\ cp' = cp /\ acked' = acked /\ dropped' = dropped /\ segs' = segs
        /\ born' = born + 1 /\ kept' = kept /\ evicted' = evicted /\ cut' = cut /\ forgot' = forgot
        /\ hold' = hold /\ files' = files
    BY DEF AppendClosed, RollFails, Refuse
  <1>2. Disk(files) BY <1>1, UpFacts
  <1>3. Extends(files, files', born) BY <1>1 DEF Extends
  <1>4. Disk(files') BY <1>1, <1>2
  <1>5. \A s \in DOMAIN files : files'[s] = files[s] BY <1>1
  <1>6. DOMAIN files' = DOMAIN files BY <1>1
  <1>7. QED BY <1>1, <1>3, <1>4, <1>5, <1>6, RefusedInv

-----------------------------------------------------------------------------
(* The checkpoint *)

\* The checkpoint is written: after a crash reading goes on from here.
LEMMA PersistInv ==
  ASSUME Inv, Persist \/ PersistSince, UNCHANGED <<senderVars, delivered, oversized>> PROVE Inv'
  <1>0. /\ TypeInv /\ DiskInv /\ UpInv /\ CountInv /\ LossInv /\ OrderInv /\ SenderInv BY DEF Inv
  <1>1. /\ up /\ up' = up /\ cp' = Checkpoint /\ acked' = acked /\ dropped' = dropped /\ segs' = segs
        /\ born' = born /\ kept' = kept /\ evicted' = evicted /\ cut' = cut /\ forgot' = forgot
        /\ hold' \in {hold, "none"} /\ files' = files
    BY DEF Persist, PersistSince
  <1>2. /\ Disk(files) /\ acked.seq \in Nat /\ acked.off \in Nat /\ acked.seq \in DOMAIN files
        /\ LastSeq = Max(DOMAIN files) /\ \A s \in DOMAIN files : s <= LastSeq
    BY <1>1, UpFacts
  <1>3. cp'.seq = acked.seq /\ cp'.off = acked.off /\ cp'.dropped = dropped
    BY <1>1 DEF Checkpoint
  <1>4. TypeInv'
    <2>1. cp' \in [seq : Nat, off : Nat, dropped : Nat]
      BY <1>0, <1>1, <1>2 DEF Checkpoint, TypeInv
    <2>2. QED BY <1>0, <1>1, <2>1 DEF TypeInv, senderVars
  <1>5. DiskInv'
    <2>1. Starts(files, acked) BY <1>0, <1>1 DEF UpInv
    <2>2. Starts(files, cp') BY <1>3, <2>1 DEF Starts
    <2>3. QED BY <1>0, <1>1, <1>2, <1>3, <2>2 DEF DiskInv
  <1>6. UpInv'
    <2>1. AtMost(cp', acked) BY <1>2, <1>3 DEF AtMost
    <2>2. QED BY <1>0, <1>1, <2>1 DEF UpInv
  <1>7. CountInv' BY <1>0, <1>1 DEF CountInv
  <1>8. LossInv' BY <1>0, <1>1 DEF LossInv, Place, Done
  <1>9. OrderInv'
    <2>1. SeenBetween(files, cp', acked, ToSet(delivered)) BY <1>3 DEF SeenBetween, Past
    <2>2. ArrivesInOrder' BY <1>0 DEF OrderInv, ArrivesInOrder
    <2>3. QED BY <1>0, <1>1, <2>1, <2>2 DEF OrderInv, Place
  <1>10. SenderInv'
    <2>1. TooLarge' = TooLarge BY DEF TooLarge
    <2>2. QED BY <1>0, <1>1, <2>1 DEF SenderInv
  <1>11. QED BY <1>4, <1>5, <1>6, <1>7, <1>8, <1>9, <1>10 DEF Inv

-----------------------------------------------------------------------------
(* Evicting and acking *)

\* The segments before lo are gone.
LEMMA Trimmed ==
  ASSUME NEW fs, NEW b \in Nat, Disk(fs), Written(fs, b), NEW lo \in DOMAIN fs
  PROVE  LET gs == [s \in {t \in DOMAIN fs : t >= lo} |-> fs[s]] IN
         /\ Disk(gs) /\ Written(gs, b) /\ Extends(fs, gs, b)
         /\ DOMAIN gs = {t \in DOMAIN fs : t >= lo} /\ \A s \in DOMAIN gs : gs[s] = fs[s]
         /\ Min(DOMAIN gs) = lo /\ Max(DOMAIN gs) = Max(DOMAIN fs)
  <1> DEFINE gs == [s \in {t \in DOMAIN fs : t >= lo} |-> fs[s]]
  <1>1. DOMAIN gs = {t \in DOMAIN fs : t >= lo} /\ \A s \in DOMAIN gs : gs[s] = fs[s] OBVIOUS
  <1>2. Interval(DOMAIN gs) /\ Min(DOMAIN gs) = lo /\ Max(DOMAIN gs) = Max(DOMAIN fs)
    BY <1>1, IntervalTail DEF Disk
  <1>3. gs \in [DOMAIN gs -> Contents]
    <2>1. \A s \in DOMAIN gs : gs[s] \in Contents BY <1>1 DEF Disk
    <2>2. gs = [s \in DOMAIN gs |-> gs[s]] OBVIOUS
    <2>3. QED BY <2>1, <2>2
  <1> HIDE DEF gs
  <1>4. Disk(gs) BY <1>2, <1>3 DEF Disk
  <1>5. Extends(fs, gs, b) BY <1>1 DEF Extends
  <1>6. Written(gs, b) BY <1>1, SameWritten
  <1>7. QED BY <1>1, <1>2, <1>4, <1>5, <1>6 DEF gs

\* There are as many records evicted as lines counted.
LEMMA EvictedCounted ==
  ASSUME NEW f \in Contents, NEW x \in 0..Len(f), x + 1 <= Len(f) => f[x + 1] # NL,
         \A j, k \in 2..Len(f) : f[j] = NL /\ f[k] = NL /\ f[j - 1] = f[k - 1] => j = k
  PROVE  LET gone == {f[k - 1] : k \in {j \in x + 2..Len(f) : f[j] = NL}} IN
         IsFiniteSet(gone) /\ Cardinality(gone) = CountFrom(f, x) /\ CountFrom(f, x) \in Nat
  <1> DEFINE K == LineEnds(f, x)
             gone == {f[k - 1] : k \in {j \in x + 2..Len(f) : f[j] = NL}}
             rec == [k \in K |-> f[k - 1]]
  <1>1. Len(f) \in Nat /\ x \in Nat BY DEF Contents
  <1>2. K = {j \in x + 2..Len(f) : f[j] = NL} BY <1>1 DEF LineEnds
  <1>3. gone = {f[k - 1] : k \in K} BY <1>2
  <1>4. IsFiniteSet(K) /\ Cardinality(K) \in Nat
    <2>1. x + 1 \in Int /\ Len(f) \in Int BY <1>1
    <2>2. IsFiniteSet(x + 1..Len(f)) BY <2>1, FS_Interval
    <2>3. K \in SUBSET (x + 1..Len(f)) BY DEF LineEnds
    <2> HIDE DEF K
    <2>4. IsFiniteSet(K) BY <2>2, <2>3, FS_Subset
    <2>5. QED BY <2>4, FS_CardinalityType
  <1>5. \A k \in K : k \in 2..Len(f) /\ f[k] = NL BY <1>1, <1>2
  <1> HIDE DEF K, gone
  <1>6. rec \in Surjection(K, gone) BY <1>3 DEF Surjection
  <1>7. rec \in Injection(K, gone) BY <1>3, <1>5 DEF Injection, IsInjective
  <1> HIDE DEF rec
  <1>8. IsFiniteSet(gone) /\ Cardinality(gone) = Cardinality(K) BY <1>4, <1>6, <1>7, FS_Surjection
  <1>9. CountFrom(f, x) = Cardinality(K) BY DEF CountFrom, K
  <1>10. IsFiniteSet(gone) /\ Cardinality(gone) = CountFrom(f, x) /\ CountFrom(f, x) \in Nat
    BY <1>4, <1>8, <1>9
  <1>11. QED BY <1>10 DEF gone

\* The cap takes the oldest segment.
LEMMA EvictInv ==
  ASSUME Inv, Evict, UNCHANGED <<senderVars, delivered, oversized>> PROVE Inv'
  <1> DEFINE victim == Min(DOMAIN files)
             f == files[victim]
             from == From(victim, acked)
             gone == {f[k - 1] : k \in {j \in from + 2..Len(f) : f[j] = NL}}
             lo == victim + 1
             lost == victim >= acked.seq
  <1>0. /\ TypeInv /\ DiskInv /\ UpInv /\ CountInv /\ LossInv /\ OrderInv /\ SenderInv BY DEF Inv
  <1>1. /\ up /\ up' = up /\ cp' = cp /\ hold = "evict"
        /\ born' = born /\ kept' = kept /\ cut' = cut /\ forgot' = forgot
    BY DEF Evict
  <1>2. /\ Disk(files) /\ Written(files, born) /\ born \in Nat
        /\ acked \in Cursor /\ acked.seq \in Nat /\ acked.off \in Nat
        /\ acked.seq \in DOMAIN files /\ acked.off <= Len(files[acked.seq])
        /\ cp.seq \in Nat /\ cp.off \in Nat /\ cp.seq <= acked.seq
        /\ cp.seq = acked.seq => cp.off <= acked.off
        /\ Seqs = DOMAIN files /\ LastSeq = Max(DOMAIN files)
        /\ segs \in [DOMAIN files -> Nat]
        /\ LastSeq \in DOMAIN files /\ DOMAIN files \subseteq Nat \ {0}
        /\ \A s \in DOMAIN files : Min(DOMAIN files) <= s /\ s <= LastSeq
        /\ \A s \in DOMAIN files : files[s] \in Contents /\ Len(files[s]) \in Nat
    BY <1>1, UpFacts
  <1>3. /\ victim \in DOMAIN files /\ victim \in Nat /\ lo \in DOMAIN files
        /\ \A s \in DOMAIN files : victim <= s
        /\ lost <=> victim = acked.seq
    <2>1. victim \in DOMAIN files /\ \A x \in Nat : victim <= x /\ x <= LastSeq => x \in DOMAIN files
      BY <1>2, IntervalEnds DEF Disk
    <2>2. victim < LastSeq BY <1>0, <1>1, <1>2 DEF UpInv
    <2>3. victim \in Nat /\ \A s \in DOMAIN files : victim <= s /\ s \in Nat BY <1>2, <2>1
    <2> HIDE DEF victim
    <2>4. lo \in Nat /\ victim <= lo /\ lo <= LastSeq BY <1>2, <2>2, <2>3
    <2>5. lost <=> victim = acked.seq BY <1>2, <2>3
    <2>6. QED BY <2>1, <2>3, <2>4, <2>5
  <1>4. /\ dropped' = IF lost THEN dropped + CountFrom(f, from) ELSE dropped
        /\ evicted' = IF lost THEN evicted \cup gone ELSE evicted
    <2>1. Min(Seqs) = Min(DOMAIN files) BY <1>2
    <2>2. QED BY <2>1 DEF Evict
  <1>5. /\ files' = [s \in {t \in DOMAIN files : t >= lo} |-> files[s]]
        /\ segs' = [s \in {t \in DOMAIN files : t >= lo} |-> segs[s]]
    <2>1. DOMAIN files \ {victim} = {t \in DOMAIN files : t >= lo}
      <3>1. ASSUME NEW t \in DOMAIN files PROVE t # victim <=> t >= lo
        <4>1. t \in Nat /\ victim <= t /\ victim \in Nat BY <1>2, <1>3
        <4> HIDE DEF victim
        <4>2. QED BY <4>1
      <3>2. QED BY <3>1
    <2>2. files' = Restrict(files, DOMAIN files \ {victim})
          /\ segs' = Restrict(segs, DOMAIN files \ {victim})
      <3>1. Min(Seqs) = Min(DOMAIN files) BY <1>2
      <3>2. QED BY <1>2, <3>1 DEF Evict
    <2>3. QED BY <2>1, <2>2 DEF Restrict
  <1>6. /\ Disk(files') /\ Written(files', born) /\ Extends(files, files', born)
        /\ DOMAIN files' = {t \in DOMAIN files : t >= lo}
        /\ \A s \in DOMAIN files' : files'[s] = files[s]
        /\ Min(DOMAIN files') = lo /\ Max(DOMAIN files') = Max(DOMAIN files)
    <2> DEFINE rest == [s \in {t \in DOMAIN files : t >= lo} |-> files[s]]
    <2> HIDE DEF lo
    <2>1. /\ Disk(rest) /\ Written(rest, born) /\ Extends(files, rest, born)
          /\ DOMAIN rest = {t \in DOMAIN files : t >= lo}
          /\ \A s \in DOMAIN rest : rest[s] = files[s]
          /\ Min(DOMAIN rest) = lo /\ Max(DOMAIN rest) = Max(DOMAIN files)
      BY <1>2, <1>3, Trimmed
    <2>2. files' = rest BY <1>5
    <2> HIDE DEF rest
    <2>3. QED BY <2>1, <2>2
  <1>7. DOMAIN segs' = DOMAIN files' BY <1>5, <1>6
  <1>8. /\ acked' = IF acked.seq <= victim THEN [seq |-> lo, off |-> 0] ELSE acked
        /\ hold' = IF OverCap(segs') THEN "evict" ELSE "persist"
    <2>1. acked' = Snap(victim, segs', acked) /\ hold' = IF OverCap(segs') THEN "evict" ELSE "persist"
      <3>1. Min(Seqs) = Min(DOMAIN files) BY <1>2
      <3>2. QED BY <3>1 DEF Evict
    <2>2. Min(DOMAIN segs') = lo BY <1>6, <1>7
    <2>3. QED BY <2>1, <2>2 DEF Snap
  <1>9. /\ lost => acked'.seq = lo /\ acked'.off = 0 /\ acked' \in Cursor
        /\ ~lost => acked' = acked /\ acked.seq >= lo
    <2>1. lost <=> acked.seq <= victim BY <1>2, <1>3
    <2>2. lo \in Nat BY <1>3
    <2>3. CASE lost BY <1>8, <2>1, <2>2, <2>3 DEF Cursor
    <2>4. CASE ~lost BY <1>2, <1>3, <1>8, <2>1, <2>4
    <2>5. QED BY <2>3, <2>4
  <1> HIDE DEF lost, victim
  <1>10. /\ acked' \in Cursor /\ acked'.seq \in Nat /\ acked'.off \in Nat
         /\ acked'.seq \in DOMAIN files' /\ acked'.off <= Len(files'[acked'.seq])
         /\ Moves(acked, acked') /\ acked'.seq >= acked.seq /\ acked'.seq >= lo
    <2>1. CASE lost
      <3>1. acked'.seq = lo /\ acked'.off = 0 /\ acked' \in Cursor BY <1>9, <2>1
      <3>2. lo \in DOMAIN files' /\ lo > acked.seq /\ lo \in Nat BY <1>2, <1>3, <1>6, <2>1
      <3>3. Len(files'[lo]) \in Nat BY <1>2, <1>6, <3>2
      <3>4. QED BY <1>2, <3>1, <3>2, <3>3 DEF Moves
    <2>2. CASE ~lost
      <3>1. acked' = acked /\ acked.seq >= lo BY <1>9, <2>2
      <3>2. acked.seq \in DOMAIN files' BY <1>2, <1>6, <3>1
      <3>3. QED BY <1>2, <1>6, <3>1, <3>2 DEF Moves
    <2>3. QED BY <2>1, <2>2
  <1>11. \A s \in Nat : \A i \in Nat \ {0} : Past(s, i, acked') => Past(s, i, acked)
    <2>1. CASE lost BY <1>2, <1>3, <1>9, <2>1 DEF Past
    <2>2. CASE ~lost BY <1>9, <2>2
    <2>3. QED BY <2>1, <2>2
  <1>12. ASSUME NEW s \in DOMAIN files', NEW i \in 1..Len(files'[s]), Past(s, i, acked)
         PROVE  Past(s, i, acked')
    <2>1. CASE lost
      <3>1. s \in Nat /\ s >= lo /\ i >= 1 /\ i \in Nat BY <1>2, <1>6
      <3>2. QED BY <1>3, <1>9, <2>1, <3>1 DEF Past
    <2>2. CASE ~lost BY <1>9, <1>12, <2>2
    <2>3. QED BY <2>1, <2>2
  <1>13. ASSUME lost
         PROVE  /\ IsFiniteSet(gone) /\ Cardinality(gone) = CountFrom(f, from)
                /\ CountFrom(f, from) \in Nat /\ gone \subseteq 1..born
                /\ Absent(files', gone) /\ gone \cap evicted = {}
    <2>0. ASSUME NEW s \in DOMAIN files, NEW t \in DOMAIN files,
                 NEW i \in 1..Len(files[s]), NEW j \in 1..Len(files[t]),
                 files[s][i] = files[t][j], files[s][i] # NL
          PROVE  s = t /\ i = j
      <3>1. Disk(files) /\ Written(files, born) /\ born \in Nat BY <1>2
      <3>2. QED BY <2>0, <3>1, WrittenOnce
    <2>1. from = acked.off /\ f \in Contents /\ Len(f) \in Nat /\ from \in 0..Len(f)
      BY <1>2, <1>3, <1>13 DEF From
    <2>2. from + 1 <= Len(f) => f[from + 1] # NL
      <3>1. Starts(files, acked) BY <1>0, <1>1 DEF UpInv
      <3>2. QED BY <1>3, <1>13, <2>1, <3>1 DEF Starts
    <2>3. \A k \in 2..Len(f) : f[k] = NL => k - 1 \in 1..Len(f) /\ f[k - 1] # NL /\ f[k - 1] \in 1..born
      <3>1. ASSUME NEW k \in 2..Len(f), f[k] = NL
            PROVE  k - 1 \in 1..Len(f) /\ f[k - 1] # NL /\ f[k - 1] \in 1..born
        <4>1. k \in 1..Len(f) /\ k - 1 \in 1..Len(f) BY <2>1
        <4>2. f[k - 1] # NL BY <1>2, <1>3, <3>1, <4>1 DEF Written
        <4>3. f[k - 1] \in 1..born BY <1>2, <1>3, <4>1, <4>2 DEF Written
        <4>4. QED BY <4>1, <4>2, <4>3
      <3>2. QED BY <3>1
    <2>4. ASSUME NEW j \in 2..Len(f), NEW k \in 2..Len(f), f[j] = NL, f[k] = NL, f[j - 1] = f[k - 1]
          PROVE  j = k
      <3>1. j - 1 \in 1..Len(f) /\ k - 1 \in 1..Len(f) /\ f[j - 1] # NL BY <2>3, <2>4
      <3>2. j - 1 = k - 1 BY <1>3, <2>0, <2>4, <3>1
      <3>3. QED BY <3>2
    <2>5. /\ IsFiniteSet(gone) /\ Cardinality(gone) = CountFrom(f, from)
          /\ CountFrom(f, from) \in Nat
      <3> HIDE DEF f, from
      <3>1. QED BY <2>1, <2>2, <2>4, EvictedCounted
    <2>6. ASSUME NEW r \in gone PROVE \E k \in 1..Len(f) : f[k] = r /\ r # NL /\ r \in 1..born
      <3>1. PICK k \in {j \in from + 2..Len(f) : f[j] = NL} : r = f[k - 1] OBVIOUS
      <3>2. k \in 2..Len(f) /\ f[k] = NL BY <2>1, <3>1
      <3>3. QED BY <2>3, <3>1, <3>2
    <2>7. Absent(files', gone)
      <3>1. SUFFICES ASSUME NEW s \in DOMAIN files', NEW i \in 1..Len(files'[s]), files'[s][i] \in gone
                     PROVE  FALSE
        BY DEF Absent
      <3>2. PICK k \in 1..Len(f) : f[k] = files'[s][i] /\ files'[s][i] # NL BY <2>6, <3>1
      <3>3. s \in DOMAIN files /\ files'[s] = files[s] /\ s # victim BY <1>2, <1>3, <1>6
      <3>4. QED BY <1>3, <2>0, <3>2, <3>3
    <2>8. gone \cap evicted = {}
      <3>1. Absent(files, evicted) BY <1>0 DEF DiskInv
      <3>2. \A r \in gone : r \notin evicted BY <1>3, <2>6, <3>1 DEF Absent
      <3>3. QED BY <3>2
    <2>9. gone \subseteq 1..born BY <2>6
    <2>10. QED BY <2>5, <2>7, <2>8, <2>9
  <1>14. evicted' \subseteq 1..born /\ evicted \subseteq evicted' /\ dropped' \in Nat
    <2>1. evicted \subseteq 1..born /\ dropped \in Nat BY <1>0 DEF TypeInv
    <2> HIDE DEF gone, f, from
    <2>2. CASE lost
      <3>1. evicted' = evicted \cup gone /\ dropped' = dropped + CountFrom(f, from) BY <1>4, <2>2
      <3>2. gone \subseteq 1..born /\ CountFrom(f, from) \in Nat BY <1>13, <2>2
      <3>3. QED BY <2>1, <3>1, <3>2
    <2>3. CASE ~lost BY <1>4, <2>1, <2>3
    <2>4. QED BY <2>2, <2>3
  <1>15. TypeInv'
    BY <1>0, <1>1, <1>6, <1>10, <1>14 DEF TypeInv, senderVars
  <1>16. DiskInv'
    <2>1. Complete(files', kept \ cut)
      <3>1. kept \ cut \in SUBSET (1..born) /\ Complete(files, kept \ cut)
        BY <1>0 DEF TypeInv, DiskInv
      <3>2. QED BY <1>2, <1>6, <3>1, CompleteExtended
    <2>2. Absent(files', evicted')
      <3>1. Absent(files', evicted)
        <4>1. evicted \in SUBSET (1..born) /\ Absent(files, evicted) BY <1>0 DEF TypeInv, DiskInv
        <4>2. QED BY <1>2, <1>6, <4>1, AbsentExtended
      <3> HIDE DEF gone, f, from
      <3>2. CASE lost BY <1>4, <1>13, <3>1, <3>2 DEF Absent
      <3>3. CASE ~lost BY <1>4, <3>1, <3>3
      <3>4. QED BY <3>2, <3>3
    <2>3. Starts(files', cp) BY <1>0, <1>6 DEF DiskInv, Starts
    <2>4. cp.seq <= Max(DOMAIN files') BY <1>0, <1>6 DEF DiskInv
    <2>5. QED BY <1>1, <1>6, <2>1, <2>2, <2>3, <2>4 DEF DiskInv
  <1>17. UpInv'
    <2>1. segs' \in [DOMAIN files' -> Nat] BY <1>2, <1>5, <1>6
    <2>2. Starts(files', acked')
      <3>1. CASE lost
        <4>1. acked'.off = 0 BY <1>9, <3>1
        <4>2. \A s \in DOMAIN files' : 1 <= Len(files'[s]) => files'[s][1] # NL
          <5>1. ASSUME NEW s \in DOMAIN files', 1 <= Len(files'[s]), files'[s][1] = NL PROVE FALSE
            <6>1. 1 \in 1..Len(files'[s]) BY <1>2, <1>6, <5>1
            <6>2. QED BY <1>6, <5>1, <6>1 DEF Written
          <5>2. QED BY <5>1
        <4>3. QED BY <4>1, <4>2 DEF Starts
      <3>2. CASE ~lost
        <4>1. Starts(files, acked) BY <1>0, <1>1 DEF UpInv
        <4>2. QED BY <1>6, <1>9, <3>2, <4>1 DEF Starts
      <3>3. QED BY <3>1, <3>2
    <2>3. AtMost(cp, acked')
      <3>1. CASE lost BY <1>2, <1>3, <1>9, <3>1 DEF AtMost, lost
      <3>2. CASE ~lost BY <1>0, <1>1, <1>9, <3>2 DEF UpInv
      <3>3. QED BY <3>1, <3>2
    <2>4. ASSUME NEW s \in DOMAIN files', s >= acked'.seq
          PROVE  SizeOK(files'[s], From(s, acked'), segs'[s])
      <3>1. s \in DOMAIN files /\ files'[s] = files[s] /\ segs'[s] = segs[s] /\ s \in Nat
        BY <1>2, <1>5, <1>6
      <3>2. s >= acked.seq BY <1>2, <1>10, <2>4, <3>1
      <3>3. SizeOK(files[s], From(s, acked), segs[s]) BY <1>0, <1>1, <3>1, <3>2 DEF UpInv
      <3>4. From(s, acked') = From(s, acked)
        <4>1. CASE lost
          <5>1. acked'.off = 0 /\ s # acked.seq BY <1>2, <1>3, <1>9, <2>4, <3>1, <4>1
          <5>2. QED BY <5>1 DEF From
        <4>2. CASE ~lost BY <1>9, <4>2
        <4>3. QED BY <4>1, <4>2
      <3>5. QED BY <3>1, <3>3, <3>4
    <2>5. hold' = "evict" => Min(DOMAIN files') < Max(DOMAIN files')
      <3>1. Interval(DOMAIN segs') BY <1>6, <1>7 DEF Disk
      <3>2. ASSUME hold' = "evict" PROVE OverCap(segs') BY <1>8, <3>2
      <3>3. QED BY <1>7, <3>1, <3>2, OverCapTwo
    <2>6. QED BY <1>1, <1>10, <2>1, <2>2, <2>3, <2>4, <2>5 DEF UpInv
  <1>18. CountInv'
    <2>1. ASSUME ~forgot PROVE Cardinality(evicted') = dropped'
      <3>1. Cardinality(evicted) = dropped BY <1>0, <1>1, <2>1 DEF CountInv
      <3>2. IsFiniteSet(evicted) /\ dropped \in Nat
        <4>1. evicted \in SUBSET (1..born) /\ dropped \in Nat BY <1>0 DEF TypeInv
        <4>2. 1 \in Int /\ born \in Int BY <1>2
        <4>3. IsFiniteSet(1..born) BY <4>2, FS_Interval
        <4>4. QED BY <4>1, <4>3, FS_Subset
      <3> HIDE DEF gone, f, from
      <3>3. CASE lost
        <4>1. evicted' = evicted \cup gone /\ dropped' = dropped + CountFrom(f, from)
          BY <1>4, <3>3
        <4>2. /\ IsFiniteSet(gone) /\ Cardinality(gone) = CountFrom(f, from)
              /\ CountFrom(f, from) \in Nat /\ evicted \cap gone = {}
          BY <1>13, <3>3
        <4>3. Cardinality(evicted \cup gone) = Cardinality(evicted) + Cardinality(gone)
                                               - Cardinality(evicted \cap gone)
          BY <3>2, <4>2, FS_Union
        <4>4. Cardinality(evicted \cap gone) = 0 BY <4>2, FS_EmptySet
        <4>5. QED BY <3>1, <3>2, <4>1, <4>2, <4>3, <4>4
      <3>4. CASE ~lost BY <1>4, <3>1, <3>4
      <3>5. QED BY <3>3, <3>4
    <2>2. QED BY <1>1, <2>1 DEF CountInv
  <1>19. LossInv'
    <2>1. ASSUME NEW r \in kept
          PROVE  r \in Done \cup evicted' \cup cut \/ Lies(files', r, acked')
      <3>1. r \in Done \cup evicted \cup cut \/ Lies(files, r, acked)
        BY <1>0, <1>1 DEF LossInv, Place
      <3>2. CASE r \in Done \cup evicted \cup cut BY <1>14, <3>2
      <3>3. CASE Lies(files, r, acked) /\ r \notin cut
        <4>1. PICK s \in DOMAIN files : \E i \in 1..Len(files[s]) : Past(s, i, acked) /\ files[s][i] = r
          BY <3>3 DEF Lies
        <4>2. PICK i \in 1..Len(files[s]) : Past(s, i, acked) /\ files[s][i] = r BY <4>1
        <4>3. CASE s \in DOMAIN files'
          <5>1. files'[s] = files[s] /\ i \in 1..Len(files'[s]) BY <1>6, <4>3
          <5>2. Past(s, i, acked') BY <1>12, <4>2, <4>3, <5>1
          <5>3. QED BY <4>2, <4>3, <5>1, <5>2 DEF Lies
        <4>4. CASE s \notin DOMAIN files'
          <5>1. s = victim /\ s \in Nat
            <6>1. s \in Nat /\ ~(s >= lo) /\ victim <= s BY <1>2, <1>3, <1>6, <4>4
            <6>2. QED BY <1>3, <6>1
          <5>2. lost /\ i > from /\ from \in Nat
            <6>1. s >= acked.seq BY <1>2, <4>2, <5>1 DEF Past
            <6>2. lost BY <5>1, <6>1 DEF lost
            <6>3. s = acked.seq BY <1>3, <5>1, <6>2 DEF lost
            <6>4. from = acked.off BY <5>1, <6>3 DEF From
            <6>5. i > acked.off BY <1>2, <4>2, <6>3 DEF Past
            <6>6. QED BY <1>2, <6>2, <6>4, <6>5
          <5>3. HasLine(files[s], i)
            <6>1. r \in kept \ cut BY <2>1, <3>3
            <6>2. Complete(files, kept \ cut) BY <1>0 DEF DiskInv
            <6>3. QED BY <4>2, <6>1, <6>2 DEF Complete
          <5>4. i + 1 \in from + 2..Len(f) /\ f[i + 1] = NL /\ f[i + 1 - 1] = r
            <6>1. i \in 1..Len(f) - 1 /\ f[i + 1] = NL /\ Len(f) \in Nat
              BY <1>2, <5>1, <5>3 DEF HasLine
            <6>2. i + 1 - 1 = i OBVIOUS
            <6>3. QED BY <4>2, <5>1, <5>2, <6>1, <6>2
          <5>5. r \in gone BY <5>4
          <5>6. evicted' = evicted \cup gone BY <1>4, <5>2
          <5>7. QED BY <5>5, <5>6
        <4>5. QED BY <4>3, <4>4
      <3>4. QED BY <3>1, <3>2, <3>3
    <2>2. Done' = Done BY DEF Done
    <2>3. QED BY <1>1, <2>1, <2>2 DEF LossInv, Place
  <1>20. OrderInv'
    <2>1. SeenPast(files', acked', ToSet(delivered))
      <3>1. SeenPast(files, acked, ToSet(delivered)) BY <1>0, <1>1 DEF OrderInv, Place
      <3>2. ToSet(delivered) \in SUBSET (1..born)
        <4>1. delivered \in Seq(1..born) BY <1>0 DEF TypeInv
        <4>2. QED BY <4>1, SeenIsSeq
      <3>3. QED BY <1>2, <1>6, <1>11, <3>1, <3>2, SeenExtended
    <2>2. SeenBetween(files', cp, acked', ToSet(delivered))
      <3>1. SUFFICES ASSUME NEW s \in DOMAIN files', NEW i \in 1..Len(files'[s]),
                            HasLine(files'[s], i), Past(s, i, cp), ~Past(s, i, acked')
                     PROVE  files'[s][i] \in ToSet(delivered) \cup Big
        BY DEF SeenBetween
      <3>2. ~Past(s, i, acked) BY <1>12, <3>1
      <3>3. SeenBetween(files, cp, acked, ToSet(delivered)) BY <1>0, <1>1 DEF OrderInv
      <3>4. s \in DOMAIN files /\ files'[s] = files[s] BY <1>6
      <3>5. QED BY <3>1, <3>2, <3>3, <3>4 DEF SeenBetween
    <2>3. ArrivesInOrder' BY <1>0 DEF OrderInv, ArrivesInOrder
    <2>4. QED BY <1>1, <2>1, <2>2, <2>3 DEF OrderInv, Place
  <1>21. SenderInv'
    <2>1. ASSUME pc \in {"post", "answer"} PROVE Hand(files', acked', cursor, batch, born)
      <3>1. Hand(files, acked, cursor, batch, born) BY <1>0, <2>1 DEF SenderInv
      <3>2. \A s \in DOMAIN files : s >= acked'.seq => s \in DOMAIN files'
        <4>1. ASSUME NEW s \in DOMAIN files, s >= acked'.seq PROVE s \in DOMAIN files'
          <5>1. s \in Nat /\ lo \in Nat /\ lo <= acked'.seq /\ acked'.seq \in Nat
            BY <1>2, <1>3, <1>10
          <5>2. s >= lo BY <4>1, <5>1
          <5>3. QED BY <1>6, <5>2
        <4>2. QED BY <4>1
      <3>3. Max(DOMAIN files) <= Max(DOMAIN files') BY <1>2, <1>6
      <3>4. QED BY <1>2, <1>6, <1>10, <3>1, <3>2, <3>3, HandExtended
    <2>2. TooLarge' = TooLarge BY DEF TooLarge
    <2>3. QED BY <1>0, <1>1, <2>1, <2>2 DEF SenderInv
  <1>22. QED BY <1>15, <1>16, <1>17, <1>18, <1>19, <1>20, <1>21 DEF Inv

\* The server's answer settles the batch: it was taken, or is one record too large.
LEMMA Settles ==
  ASSUME Inv, pc = "answer", reply = "ok" \/ (reply = "large" /\ Len(batch) = 1)
  PROVE  /\ Garbage \notin ToSet(batch) /\ ToSet(batch) \subseteq ToSet(delivered) \cup Big
         /\ reply = "ok" => ToSet(batch) \subseteq ToSet(delivered)
  <1>1. SenderInv BY DEF Inv
  <1>2. CASE reply = "ok" BY <1>1, <1>2 DEF SenderInv
  <1>3. CASE reply = "large" /\ Len(batch) = 1
    <2>1. TooLarge /\ Hand(files, acked, cursor, batch, born) BY <1>1, <1>3 DEF SenderInv
    <2>2. ServerMax \in Nat \ {0} /\ Big \subseteq Nat BY ShipperAssumption
    <2>3. \E r \in ToSet(batch) : r \in Big BY <1>3, <2>1, <2>2 DEF TooLarge
    <2>4. ToSet(batch) = {batch[1]}
      <3>1. batch \in Seq(1..born \cup {Garbage}) BY <2>1 DEF Hand
      <3>2. DOMAIN batch = {1} BY <1>3, <3>1
      <3>3. QED BY <3>2 DEF ToSet
    <2>5. batch[1] \in Big BY <2>3, <2>4
    <2>6. QED BY <1>3, <2>2, <2>4, <2>5, NLIsNone
  <1>4. QED BY <1>2, <1>3

\* The batch is acked: the ack position moves behind it, unless it is there already.
LEMMA AckInv ==
  ASSUME Inv, SenderAcks \/ SenderDropsOversized PROVE Inv'
  <1> DEFINE f == files[cursor.seq]
  <1>0. /\ TypeInv /\ DiskInv /\ UpInv /\ CountInv /\ LossInv /\ OrderInv /\ SenderInv BY DEF Inv
  <1>1. /\ pc = "answer" /\ Ack(cursor) /\ delivered' = delivered
        /\ stack' = Tail(stack) /\ pc' = IF Tail(stack) = <<>> THEN "idle" ELSE "read"
        /\ \/ reply = "ok" /\ oversized' = oversized
           \/ reply = "large" /\ Len(batch) = 1 /\ oversized' = oversized \cup ToSet(batch)
    BY DEF SenderAcks, SenderDropsOversized, Returned
  <1>2. /\ up /\ up' = up /\ cp' = cp /\ dropped' = dropped
        /\ born' = born /\ kept' = kept /\ evicted' = evicted /\ cut' = cut /\ forgot' = forgot
    BY <1>1 DEF Ack
  <1>3. /\ Disk(files) /\ Written(files, born) /\ born \in Nat
        /\ acked \in Cursor /\ acked.seq \in Nat /\ acked.off \in Nat
        /\ acked.seq \in DOMAIN files /\ acked.off <= Len(files[acked.seq])
        /\ cp.seq \in Nat /\ cp.off \in Nat /\ cp.seq <= acked.seq
        /\ cp.seq = acked.seq => cp.off <= acked.off
        /\ Seqs = DOMAIN files /\ LastSeq = Max(DOMAIN files)
        /\ segs \in [DOMAIN files -> Nat]
        /\ LastSeq \in DOMAIN files /\ DOMAIN files \subseteq Nat \ {0}
        /\ \A s \in DOMAIN files : Min(DOMAIN files) <= s /\ s <= LastSeq
        /\ \A s \in DOMAIN files : files[s] \in Contents /\ Len(files[s]) \in Nat
    BY <1>2, UpFacts
  <1>4. stack # <<>> /\ Hand(files, acked, cursor, batch, born) BY <1>0, <1>1 DEF SenderInv
  <1>5. /\ Garbage \notin ToSet(batch) /\ ToSet(batch) \subseteq ToSet(delivered) \cup Big
        /\ ToSet(batch) \subseteq Done' /\ Done \subseteq Done'
    <2>1. /\ Garbage \notin ToSet(batch) /\ ToSet(batch) \subseteq ToSet(delivered) \cup Big
          /\ reply = "ok" => ToSet(batch) \subseteq ToSet(delivered)
      BY <1>1, Settles
    <2>2. Done' = ToSet(delivered) \cup oversized' BY <1>1 DEF Done
    <2>3. QED BY <1>1, <2>1, <2>2 DEF Done
  <1>6. SenderInv'
    <2>1. pc' \in {"idle", "read"} /\ (pc' # "idle" => stack' # <<>>) BY <1>1
    <2>2. QED BY <1>2, <2>1 DEF SenderInv
  <1>7. stack' \in Seq(Nat \ {0})
    <2>1. stack \in Seq(Nat \ {0}) BY <1>0 DEF TypeInv
    <2>2. QED BY <1>1, <1>4, <2>1
  <1>8. CountInv' BY <1>0, <1>2 DEF CountInv
  <1>9. ArrivesInOrder' BY <1>0, <1>1 DEF OrderInv, ArrivesInOrder
  <1>10. CASE Stale(cursor)
    <2>1. files' = files /\ segs' = segs /\ acked' = acked /\ hold' = hold BY <1>1, <1>10 DEF Ack
    <2>2. TypeInv' BY <1>0, <1>1, <1>2, <1>7, <2>1 DEF TypeInv
    <2>3. DiskInv' BY <1>0, <1>2, <2>1 DEF DiskInv
    <2>4. UpInv' BY <1>0, <1>2, <2>1 DEF UpInv
    <2>5. LossInv' BY <1>0, <1>2, <1>5, <2>1 DEF LossInv, Place
    <2>6. OrderInv' BY <1>0, <1>1, <1>2, <1>9, <2>1 DEF OrderInv, Place
    <2>7. QED BY <1>6, <1>8, <2>2, <2>3, <2>4, <2>5, <2>6 DEF Inv
  <1>11. CASE ~Stale(cursor)
    <2>1. /\ acked' = cursor /\ hold' = "persist" /\ segs' = Restrict(segs, {s \in Seqs : s >= cursor.seq})
          /\ files' = Restrict(files, {s \in DOMAIN files : s \notin Seqs \/ s >= cursor.seq})
      BY <1>1, <1>11 DEF Ack
    <2>2. /\ cursor \in Cursor /\ cursor.seq \in Nat /\ cursor.off \in Nat
          /\ cursor.seq >= acked.seq /\ (cursor.seq = acked.seq => cursor.off >= acked.off)
          /\ AtMost(acked, cursor)
      <3>1. cursor \in Cursor /\ cursor.seq \in Nat /\ cursor.off \in Nat BY <1>4 DEF Hand, Cursor
      <3>2. QED BY <1>3, <1>11, <3>1 DEF Stale, AtMost
    <2>3. /\ cursor.seq \in DOMAIN files /\ cursor.off <= Len(f) /\ Starts(files, cursor)
          /\ Clean(f, From(cursor.seq, acked), cursor.off)
      <3>1. /\ cursor.seq <= LastSeq /\ Starts(files, cursor)
            /\ cursor.seq \in DOMAIN files => cursor.off <= Len(f)
        BY <1>3, <1>4 DEF Hand
      <3>2. \A x \in Nat : Min(DOMAIN files) <= x /\ x <= LastSeq => x \in DOMAIN files
        BY <1>3, IntervalEnds DEF Disk
      <3>3. Min(DOMAIN files) <= acked.seq /\ Min(DOMAIN files) \in Nat
        BY <1>3, IntervalEnds DEF Disk
      <3>4. Min(DOMAIN files) <= cursor.seq BY <1>3, <2>2, <3>3
      <3>5. cursor.seq \in DOMAIN files BY <2>2, <3>1, <3>2, <3>4
      <3>6. Clean(f, From(cursor.seq, acked), cursor.off) BY <1>4, <1>5, <2>2 DEF Hand
      <3>7. QED BY <3>1, <3>5, <3>6
    <2>4. /\ files' = [s \in {t \in DOMAIN files : t >= cursor.seq} |-> files[s]]
          /\ segs' = [s \in {t \in DOMAIN files : t >= cursor.seq} |-> segs[s]]
      <3>1. {s \in DOMAIN files : s \notin Seqs \/ s >= cursor.seq} = {t \in DOMAIN files : t >= cursor.seq}
        BY <1>3
      <3>2. {s \in Seqs : s >= cursor.seq} = {t \in DOMAIN files : t >= cursor.seq} BY <1>3
      <3>3. QED BY <2>1, <3>1, <3>2 DEF Restrict
    <2>5. /\ Disk(files') /\ Written(files', born) /\ Extends(files, files', born)
          /\ DOMAIN files' = {t \in DOMAIN files : t >= cursor.seq}
          /\ \A s \in DOMAIN files' : files'[s] = files[s]
          /\ Max(DOMAIN files') = Max(DOMAIN files)
      <3> DEFINE rest == [s \in {t \in DOMAIN files : t >= cursor.seq} |-> files[s]]
      <3>1. /\ Disk(rest) /\ Written(rest, born) /\ Extends(files, rest, born)
            /\ DOMAIN rest = {t \in DOMAIN files : t >= cursor.seq}
            /\ \A s \in DOMAIN rest : rest[s] = files[s]
            /\ Max(DOMAIN rest) = Max(DOMAIN files)
        BY <1>3, <2>3, Trimmed
      <3>2. files' = rest BY <2>4
      <3> HIDE DEF rest
      <3>3. QED BY <3>1, <3>2
    <2>6. \A s \in Nat : \A i \in Nat : Past(s, i, cursor) => Past(s, i, acked)
      BY <1>3, <2>2 DEF Past
    <2>7. TypeInv' BY <1>0, <1>1, <1>2, <1>7, <2>1, <2>2, <2>5 DEF TypeInv
    <2>8. DiskInv'
      <3>1. Complete(files', kept \ cut)
        <4>1. kept \ cut \in SUBSET (1..born) /\ Complete(files, kept \ cut)
          BY <1>0 DEF TypeInv, DiskInv
        <4>2. QED BY <1>3, <2>5, <4>1, CompleteExtended
      <3>2. Absent(files', evicted)
        <4>1. evicted \in SUBSET (1..born) /\ Absent(files, evicted) BY <1>0 DEF TypeInv, DiskInv
        <4>2. QED BY <1>3, <2>5, <4>1, AbsentExtended
      <3>3. Starts(files', cp) BY <1>0, <2>5 DEF DiskInv, Starts
      <3>4. cp.seq <= Max(DOMAIN files') BY <1>0, <2>5 DEF DiskInv
      <3>5. QED BY <1>2, <2>5, <3>1, <3>2, <3>3, <3>4 DEF DiskInv
    <2>9. UpInv'
      <3>1. segs' \in [DOMAIN files' -> Nat] BY <1>3, <2>4, <2>5
      <3>2. cursor.seq \in DOMAIN files' /\ cursor.off <= Len(files'[cursor.seq]) BY <2>2, <2>3, <2>5
      <3>3. Starts(files', cursor) BY <2>3, <2>5 DEF Starts
      <3>4. AtMost(cp, cursor) BY <1>3, <2>2 DEF AtMost
      <3>5. ASSUME NEW s \in DOMAIN files', s >= cursor.seq
            PROVE  SizeOK(files'[s], From(s, cursor), segs'[s])
        <4>1. s \in DOMAIN files /\ s \in Nat /\ files'[s] = files[s] /\ segs'[s] = segs[s]
              /\ files[s] \in Contents
          BY <1>3, <2>4, <2>5
        <4>2. SizeOK(files[s], From(s, acked), segs[s])
          <5>1. s >= acked.seq BY <1>3, <2>2, <3>5, <4>1
          <5>2. QED BY <1>0, <1>2, <4>1, <5>1 DEF UpInv
        <4>3. CASE s = cursor.seq
          <5>1. From(s, acked) \in Nat BY <1>3 DEF From
          <5>2. SizeOK(files[s], cursor.off, segs[s])
            BY <2>2, <2>3, <4>1, <4>2, <4>3, <5>1, SizeFurther
          <5>3. From(s, cursor) = cursor.off BY <4>3 DEF From
          <5>4. QED BY <4>1, <5>2, <5>3
        <4>4. CASE s # cursor.seq
          <5>1. s # acked.seq BY <1>3, <2>2, <3>5, <4>1, <4>4
          <5>2. From(s, cursor) = From(s, acked) BY <4>4, <5>1 DEF From
          <5>3. QED BY <4>1, <4>2, <5>2
        <4>5. QED BY <4>3, <4>4
      <3>6. QED BY <1>2, <2>1, <3>1, <3>2, <3>3, <3>4, <3>5 DEF UpInv
    <2>10. LossInv'
      <3>1. ASSUME NEW r \in kept
            PROVE  r \in Done' \cup evicted \cup cut \/ Lies(files', r, cursor)
        <4>1. r \in Done \cup evicted \cup cut \/ Lies(files, r, acked)
          BY <1>0, <1>2 DEF LossInv, Place
        <4>2. CASE r \in Done \cup evicted \cup cut BY <1>5, <4>2
        <4>3. CASE Lies(files, r, acked) /\ r \notin cut
          <5>1. PICK s \in DOMAIN files : \E i \in 1..Len(files[s]) : Past(s, i, acked) /\ files[s][i] = r
            BY <4>3 DEF Lies
          <5>2. PICK i \in 1..Len(files[s]) : Past(s, i, acked) /\ files[s][i] = r BY <5>1
          <5>3. CASE Past(s, i, cursor)
            <6>1. s >= cursor.seq BY <1>3, <2>2, <5>3 DEF Past
            <6>2. s \in DOMAIN files' /\ files'[s] = files[s] BY <2>5, <6>1
            <6>3. QED BY <5>2, <5>3, <6>2 DEF Lies
          <5>4. CASE ~Past(s, i, cursor)
            <6>1. HasLine(files[s], i)
              <7>1. r \in kept \ cut BY <3>1, <4>3
              <7>2. Complete(files, kept \ cut) BY <1>0 DEF DiskInv
              <7>3. QED BY <5>2, <7>1, <7>2 DEF Complete
            <6>2. r \in ToSet(batch) BY <1>4, <1>5, <5>2, <5>4, <6>1 DEF Hand
            <6>3. QED BY <1>5, <6>2
          <5>5. QED BY <5>3, <5>4
        <4>4. QED BY <4>1, <4>2, <4>3
      <3>2. QED BY <1>2, <2>1, <3>1 DEF LossInv, Place
    <2>11. OrderInv'
      <3>1. SeenPast(files', cursor, ToSet(delivered))
        <4>1. SeenPast(files, acked, ToSet(delivered)) BY <1>0, <1>2 DEF OrderInv, Place
        <4>2. ToSet(delivered) \in SUBSET (1..born)
          <5>1. delivered \in Seq(1..born) BY <1>0 DEF TypeInv
          <5>2. QED BY <5>1, SeenIsSeq
        <4>3. QED BY <1>3, <2>5, <2>6, <4>1, <4>2, SeenExtended
      <3>2. SeenBetween(files', cp, cursor, ToSet(delivered))
        <4>1. SUFFICES ASSUME NEW s \in DOMAIN files', NEW i \in 1..Len(files'[s]),
                              HasLine(files'[s], i), Past(s, i, cp), ~Past(s, i, cursor)
                       PROVE  files'[s][i] \in ToSet(delivered) \cup Big
          BY DEF SeenBetween
        <4>2. s \in DOMAIN files /\ files'[s] = files[s] BY <2>5
        <4>3. CASE Past(s, i, acked)
          <5>1. files[s][i] \in ToSet(batch) BY <1>4, <1>5, <4>1, <4>2, <4>3 DEF Hand
          <5>2. QED BY <1>5, <4>2, <5>1
        <4>4. CASE ~Past(s, i, acked)
          <5>1. SeenBetween(files, cp, acked, ToSet(delivered)) BY <1>0, <1>2 DEF OrderInv
          <5>2. QED BY <4>1, <4>2, <4>4, <5>1 DEF SeenBetween
        <4>5. QED BY <4>3, <4>4
      <3>3. QED BY <1>1, <1>2, <1>9, <2>1, <3>1, <3>2 DEF OrderInv, Place
    <2>12. QED BY <1>6, <1>8, <2>7, <2>8, <2>9, <2>10, <2>11 DEF Inv
  <1>12. QED BY <1>10, <1>11

-----------------------------------------------------------------------------
(* Reading and sending *)

\* The ack position moves on over no line: what was true of it is true of the new one.
LEMMA NormalizeKeeps ==
  ASSUME Inv, up, acked' = Normalize(segs, acked),
         UNCHANGED <<up, files, cp, segs, dropped, hold, spoolHist, delivered, oversized>>
  PROVE  /\ DiskInv' /\ UpInv' /\ CountInv' /\ LossInv' /\ OrderInv' /\ acked' \in Cursor
         /\ SeenPast(files, acked', ToSet(delivered))
  <1>0. /\ TypeInv /\ DiskInv /\ UpInv /\ CountInv /\ LossInv /\ OrderInv BY DEF Inv
  <1>1. /\ Disk(files) /\ Written(files, born) /\ born \in Nat
        /\ acked \in Cursor /\ acked.seq \in Nat /\ acked.off \in Nat
        /\ acked.seq \in DOMAIN files /\ acked.off <= Len(files[acked.seq])
        /\ cp.seq \in Nat /\ cp.off \in Nat /\ cp.seq <= acked.seq
        /\ cp.seq = acked.seq => cp.off <= acked.off
        /\ segs \in [DOMAIN files -> Nat] /\ DOMAIN files \subseteq Nat \ {0}
        /\ \A s \in DOMAIN files : files[s] \in Contents /\ Len(files[s]) \in Nat
    BY UpFacts
  <1> DEFINE p == Normalize(segs, acked)
  <1>2. /\ p \in Cursor /\ p.seq \in DOMAIN files /\ p.off <= Len(files[p.seq])
        /\ p = acked \/ (p.seq > acked.seq /\ p.off = 0)
        /\ \A s \in DOMAIN files : \A i \in 1..Len(files[s]) :
             files[s][i] = NL /\ Past(s, i, acked) => Past(s, i, p)
    <2>1. \A s \in DOMAIN files : s >= acked.seq => SizeOK(files[s], From(s, acked), segs[s])
      BY <1>0 DEF UpInv
    <2>2. QED BY <1>1, <2>1, NormalizeIs
  <1>3. p.seq \in Nat /\ p.off \in Nat /\ acked' = p BY <1>2 DEF Cursor
  <1> HIDE DEF p
  <1>4. ASSUME NEW s \in DOMAIN files, NEW i \in 1..Len(files[s]), HasLine(files[s], i),
               Past(s, i, acked)
        PROVE  Past(s, i, p)
    <2>1. /\ s \in Nat /\ i \in Nat /\ i + 1 \in 1..Len(files[s]) /\ files[s][i + 1] = NL
      BY <1>1, <1>4 DEF HasLine
    <2>2. Past(s, i + 1, acked) BY <1>1, <1>4, <2>1 DEF Past
    <2>3. Past(s, i + 1, p) BY <1>2, <2>1, <2>2
    <2>4. CASE p = acked BY <1>4, <2>4
    <2>5. CASE p.off = 0 BY <1>3, <2>1, <2>3, <2>5 DEF Past
    <2>6. QED BY <1>2, <2>4, <2>5
  <1>5. \A s \in Nat : \A i \in Nat : Past(s, i, p) => Past(s, i, acked)
    BY <1>1, <1>2, <1>3 DEF Past
  <1>6. DiskInv' BY <1>0 DEF DiskInv
  <1>7. CountInv' BY <1>0 DEF CountInv
  <1>8. UpInv'
    <2>1. Starts(files, p)
      <3>1. CASE p = acked BY <1>0, <3>1 DEF UpInv
      <3>2. CASE p.off = 0
        <4>1. ASSUME 1 <= Len(files[p.seq]), files[p.seq][1] = NL PROVE FALSE
          <5>1. 1 \in 1..Len(files[p.seq]) BY <1>1, <1>2, <4>1
          <5>2. QED BY <1>1, <1>2, <4>1, <5>1 DEF Written
        <4>2. QED BY <3>2, <4>1 DEF Starts
      <3>3. QED BY <1>2, <3>1, <3>2
    <2>2. AtMost(cp, p) BY <1>1, <1>2, <1>3 DEF AtMost
    <2>3. ASSUME NEW s \in DOMAIN files, s >= p.seq PROVE SizeOK(files[s], From(s, p), segs[s])
      <3>1. s \in Nat /\ s >= acked.seq BY <1>1, <1>2, <1>3, <2>3
      <3>2. SizeOK(files[s], From(s, acked), segs[s]) BY <1>0, <3>1 DEF UpInv
      <3>3. From(s, p) = From(s, acked)
        <4>1. CASE p = acked BY <4>1
        <4>2. CASE p.seq > acked.seq /\ p.off = 0 BY <1>1, <1>3, <2>3, <3>1, <4>2 DEF From
        <4>3. QED BY <1>2, <4>1, <4>2
      <3>4. QED BY <3>2, <3>3
    <2>4. hold = "evict" => Min(DOMAIN files) < Max(DOMAIN files) BY <1>0 DEF UpInv
    <2>5. QED BY <1>1, <1>2, <1>3, <2>1, <2>2, <2>3, <2>4 DEF UpInv
  <1>9. LossInv'
    <2>1. ASSUME NEW r \in kept PROVE r \in Done \cup evicted \cup cut \/ Lies(files, r, p)
      <3>1. r \in Done \cup evicted \cup cut \/ Lies(files, r, acked) BY <1>0 DEF LossInv, Place
      <3>2. CASE Lies(files, r, acked) /\ r \notin cut
        <4>1. PICK s \in DOMAIN files : \E i \in 1..Len(files[s]) : Past(s, i, acked) /\ files[s][i] = r
          BY <3>2 DEF Lies
        <4>2. PICK i \in 1..Len(files[s]) : Past(s, i, acked) /\ files[s][i] = r BY <4>1
        <4>3. r \in kept \ cut /\ Complete(files, kept \ cut) BY <1>0, <2>1, <3>2 DEF DiskInv
        <4>4. HasLine(files[s], i) BY <4>2, <4>3 DEF Complete
        <4>5. Past(s, i, p) BY <1>4, <4>2, <4>4
        <4>6. QED BY <4>2, <4>5 DEF Lies
      <3>3. QED BY <3>1, <3>2
    <2>2. QED BY <1>3, <2>1 DEF LossInv, Place, Done
  <1>10. SeenPast(files, p, ToSet(delivered))
    <2>1. SeenPast(files, acked, ToSet(delivered)) BY <1>0 DEF OrderInv, Place
    <2>2. \A s \in DOMAIN files : \A i \in 1..Len(files[s]) : Past(s, i, p) => Past(s, i, acked)
      BY <1>1, <1>5
    <2>3. QED BY <2>1, <2>2 DEF SeenPast
  <1>11. OrderInv'
    <2>1. SeenBetween(files, cp, p, ToSet(delivered))
      <3>1. SUFFICES ASSUME NEW s \in DOMAIN files, NEW i \in 1..Len(files[s]),
                            HasLine(files[s], i), Past(s, i, cp), ~Past(s, i, p)
                     PROVE  files[s][i] \in ToSet(delivered) \cup Big
        BY DEF SeenBetween
      <3>2. ~Past(s, i, acked) BY <1>4, <3>1
      <3>3. SeenBetween(files, cp, acked, ToSet(delivered)) BY <1>0 DEF OrderInv
      <3>4. QED BY <3>1, <3>2, <3>3 DEF SeenBetween
    <2>2. ArrivesInOrder' BY <1>0 DEF OrderInv, ArrivesInOrder
    <2>3. QED BY <1>3, <1>10, <2>1, <2>2 DEF OrderInv, Place
  <1>12. QED BY <1>2, <1>3, <1>6, <1>7, <1>8, <1>9, <1>10, <1>11

\* The sender wakes up: there are lines ahead.
LEMMA PeeksInv ==
  ASSUME Inv, SenderPeeks PROVE Inv'
  <1> DEFINE p == Normalize(segs, acked)
             all == Cardinality(Ends(p))
             n == IF all < MaxBatchRecords THEN all ELSE MaxBatchRecords
  <1>0. TypeInv BY DEF Inv
  <1>1. /\ up /\ acked' = Normalize(segs, acked) /\ pc' = "read" /\ all > 0 /\ stack' = <<n>>
        /\ UNCHANGED <<up, files, cp, segs, dropped, curOpen, hold, spoolHist, batch, cursor, reply,
                       delivered, oversized>>
    BY DEF SenderPeeks
  <1>2. /\ DiskInv' /\ UpInv' /\ CountInv' /\ LossInv' /\ OrderInv' /\ acked' \in Cursor
    BY <1>1, NormalizeKeeps
  <1>3. n \in Nat \ {0}
    <2>1. /\ Disk(files) /\ Seqs = DOMAIN files /\ born \in Nat /\ Written(files, born)
      BY <1>1, UpFacts
    <2>2. IsFiniteSet(Ends(p)) BY <1>1, <1>2, <2>1, EndsFinite
    <2>3. all \in Nat BY <2>2, FS_CardinalityType
    <2>4. MaxBatchRecords \in Nat \ {0} BY ShipperAssumption
    <2> HIDE DEF all
    <2>5. QED BY <1>1, <2>3, <2>4
  <1> HIDE DEF n
  <1>4. stack' \in Seq(Nat \ {0}) /\ stack' # <<>> BY <1>1, <1>3
  <1>5. TypeInv' BY <1>0, <1>1, <1>2, <1>4 DEF TypeInv
  <1>6. SenderInv' BY <1>1, <1>4 DEF SenderInv
  <1>7. QED BY <1>2, <1>5, <1>6 DEF Inv

\* The sender reads a batch.
LEMMA ReadsInv ==
  ASSUME Inv, SenderReads PROVE Inv'
  <1> DEFINE p == Normalize(segs, acked)
             n == Head(stack)
  <1>0. TypeInv /\ SenderInv /\ UpInv BY DEF Inv
  <1>1. /\ up /\ acked' = p /\ pc = "read"
        /\ UNCHANGED <<up, files, cp, segs, dropped, hold, spoolHist, reply, delivered, oversized>>
        /\ batch' = [k \in 1..(IF Len(Unread(p)) < n THEN Len(Unread(p)) ELSE n) |->
             LineAt(files[Unread(p)[k].seq], From(Unread(p)[k].seq, p), Unread(p)[k].off)]
        /\ cursor' = IF Len(Unread(p)) >= n THEN Unread(p)[n]
                     ELSE [seq |-> LastSeq, off |-> GoodEnd(files[LastSeq], From(LastSeq, p))]
    BY DEF SenderReads, Next
  <1>2. /\ DiskInv' /\ UpInv' /\ CountInv' /\ LossInv' /\ OrderInv' /\ acked' \in Cursor
        /\ SeenPast(files, acked', ToSet(delivered))
    BY <1>1, NormalizeKeeps
  <1>3. stack \in Seq(Nat \ {0}) /\ stack # <<>> BY <1>0, <1>1 DEF TypeInv, SenderInv
  <1>4. n \in Nat \ {0} /\ Tail(stack) \in Seq(Nat \ {0}) BY <1>3
  <1>5. BatchRead(files, p, born, batch', cursor')
    <2>1. /\ Disk(files) /\ Seqs = DOMAIN files /\ born \in Nat /\ Written(files, born)
      BY <1>1, UpFacts
    <2>2. p \in Cursor /\ p.seq \in DOMAIN files /\ p.off <= Len(files[p.seq]) /\ Starts(files, p)
      BY <1>1, <1>2 DEF UpInv
    <2> HIDE DEF p, n
    <2>3. QED BY <1>1, <1>4, <2>1, <2>2, ReadIs
  <1>6. Hand(files, p, cursor', batch', born)
    <2>1. Disk(files) /\ born \in Nat /\ Written(files, born) BY <1>1, UpFacts
    <2> HIDE DEF p
    <2>2. QED BY <1>1, <1>2, <1>5, <2>1, ReadHand
  <1>7. \A r \in ToSet(batch') : \A d \in ToSet(delivered) :
          r # Garbage /\ r < d => r \in ToSet(delivered) \cup Big
    <2>1. ASSUME NEW r \in ToSet(batch'), NEW d \in ToSet(delivered), r # Garbage, r < d
          PROVE  r \in ToSet(delivered) \cup Big
      <3>1. PICK s \in DOMAIN files : \E i \in 1..Len(files[s]) :
              HasLine(files[s], i) /\ Past(s, i, p) /\ ~Past(s, i, cursor') /\ files[s][i] = r
        BY <1>5, <2>1 DEF BatchRead
      <3>2. PICK i \in 1..Len(files[s]) :
              HasLine(files[s], i) /\ Past(s, i, p) /\ ~Past(s, i, cursor') /\ files[s][i] = r
        BY <3>1
      <3>3. QED BY <1>1, <1>2, <2>1, <3>2 DEF SeenPast
    <2>2. QED BY <2>1
  <1>8. \/ stack' = Tail(stack) /\ pc' = (IF Tail(stack) = <<>> THEN "idle" ELSE "read")
        \/ stack' = stack /\ pc' = "post" /\ batch' # <<>>
    BY DEF SenderReads, Returned
  <1>9. stack' \in Seq(Nat \ {0}) BY <1>3, <1>4, <1>8
  <1>10. TypeInv' BY <1>0, <1>1, <1>2, <1>9 DEF TypeInv
  <1>11. SenderInv'
    <2>1. Hand(files', acked', cursor', batch', born') BY <1>1, <1>6
    <2>2. \A r \in ToSet(batch') : \A d \in ToSet(delivered') :
            r # Garbage /\ r < d => r \in ToSet(delivered') \cup Big
      BY <1>1, <1>7
    <2>3. up' BY <1>1
    <2> HIDE DEF p, n
    <2>4. CASE stack' = Tail(stack) /\ pc' = (IF Tail(stack) = <<>> THEN "idle" ELSE "read")
      BY <2>3, <2>4 DEF SenderInv
    <2>5. CASE stack' = stack /\ pc' = "post" /\ batch' # <<>>
      BY <1>3, <2>1, <2>2, <2>3, <2>5 DEF SenderInv
    <2>6. QED BY <1>8, <2>4, <2>5
  <1>12. QED BY <1>2, <1>10, <1>11 DEF Inv

\* Two sequences over T make another.
LEMMA SeqsJoined ==
  ASSUME NEW T, NEW a \in Seq(T), NEW b \in Seq(T)
  PROVE  /\ a \o b \in Seq(T) /\ Len(a) \in Nat /\ Len(b) \in Nat /\ Len(a \o b) = Len(a) + Len(b)
         /\ \A i \in 1..Len(a) : (a \o b)[i] = a[i]
         /\ \A i \in Len(a) + 1..Len(a) + Len(b) : (a \o b)[i] = b[i - Len(a)]
  OBVIOUS

\* Nothing but the sender and what the server has changes.
LEMMA QuietSpool ==
  ASSUME Inv, UNCHANGED <<spoolVars, delivered, oversized>>, stack' \in Seq(Nat \ {0})
  PROVE  TypeInv' /\ DiskInv' /\ UpInv' /\ CountInv' /\ LossInv' /\ OrderInv'
  <1>0. /\ TypeInv /\ DiskInv /\ UpInv /\ CountInv /\ LossInv /\ OrderInv BY DEF Inv
  <1>1. TypeInv' BY <1>0 DEF TypeInv
  <1>2. DiskInv' BY <1>0 DEF DiskInv
  <1>3. UpInv' BY <1>0 DEF UpInv
  <1>4. CountInv' BY <1>0 DEF CountInv
  <1>5. LossInv' BY <1>0 DEF LossInv, Place, Done
  <1>6. OrderInv' BY <1>0 DEF OrderInv, Place, ArrivesInOrder
  <1>7. QED BY <1>1, <1>2, <1>3, <1>4, <1>5, <1>6

\* A batch too large is split, one refused is read again.
LEMMA SplitsInv ==
  ASSUME Inv, SenderSplits \/ SenderRetries PROVE Inv'
  <1>0. TypeInv /\ SenderInv BY DEF Inv
  <1>1. /\ pc = "answer" /\ pc' = "read"
        /\ UNCHANGED <<spoolVars, batch, cursor, reply, delivered, oversized>>
    BY DEF SenderSplits, SenderRetries
  <1>2. up /\ stack # <<>> /\ stack \in Seq(Nat \ {0}) /\ Hand(files, acked, cursor, batch, born)
    BY <1>0, <1>1 DEF TypeInv, SenderInv
  <1>3. stack' \in Seq(Nat \ {0}) /\ stack' # <<>>
    <2>1. CASE SenderSplits
      <3> DEFINE half == Len(batch) \div 2
      <3>1. Len(batch) > 1 /\ stack' = <<half, Len(batch) - half>> \o Tail(stack)
        BY <2>1 DEF SenderSplits
      <3>2. batch \in Seq(1..born \cup {Garbage}) BY <1>2 DEF Hand
      <3>3. Len(batch) \in Nat BY <3>2
      <3>4. half \in Nat \ {0} /\ Len(batch) - half \in Nat \ {0} BY <3>1, <3>3
      <3>5. Tail(stack) \in Seq(Nat \ {0}) BY <1>2
      <3> HIDE DEF half
      <3> DEFINE halves == <<half, Len(batch) - half>>
                 rest == Tail(stack)
      <3>6. halves \in Seq(Nat \ {0}) /\ Len(halves) = 2 BY <3>4
      <3>7. stack' = halves \o rest /\ rest \in Seq(Nat \ {0}) BY <3>1, <3>5
      <3> HIDE DEF halves, rest
      <3> DEFINE T == Nat \ {0}
      <3>8. halves \in Seq(T) /\ rest \in Seq(T) BY <3>6, <3>7
      <3> HIDE DEF T
      <3>9. halves \o rest \in Seq(T) /\ Len(halves \o rest) = Len(halves) + Len(rest) /\ Len(rest) \in Nat
        BY <3>8, SeqsJoined
      <3>10. Len(stack') # 0 BY <3>6, <3>7, <3>9
      <3>11. stack' \in Seq(T) BY <3>7, <3>9
      <3>12. QED BY <3>10, <3>11 DEF T
    <2>2. CASE SenderRetries BY <1>2, <2>2 DEF SenderRetries
    <2>3. QED BY <2>1, <2>2
  <1>4. TypeInv' /\ DiskInv' /\ UpInv' /\ CountInv' /\ LossInv' /\ OrderInv'
    BY <1>1, <1>3, QuietSpool
  <1>5. SenderInv' BY <1>1, <1>2, <1>3 DEF SenderInv
  <1>6. QED BY <1>4, <1>5 DEF Inv

\* The server refuses the batch, or no answer comes.
LEMMA RefusesInv ==
  ASSUME Inv, ServerTooLarge \/ ServerRefuses \/ PostFails PROVE Inv'
  <1>0. TypeInv /\ SenderInv BY DEF Inv
  <1>1. /\ pc = "post" /\ pc' = "answer"
        /\ UNCHANGED <<spoolVars, stack, batch, cursor, delivered, oversized>>
        /\ reply' = "retry" \/ (reply' = "large" /\ TooLarge)
    BY DEF ServerTooLarge, ServerRefuses, PostFails
  <1>2. /\ up /\ stack # <<>> /\ stack \in Seq(Nat \ {0})
        /\ batch # <<>> /\ Hand(files, acked, cursor, batch, born)
    BY <1>0, <1>1 DEF TypeInv, SenderInv
  <1>3. TypeInv' /\ DiskInv' /\ UpInv' /\ CountInv' /\ LossInv' /\ OrderInv'
    BY <1>1, <1>2, QuietSpool
  <1>4. TooLarge' = TooLarge BY <1>1 DEF TooLarge
  <1>5. SenderInv' BY <1>1, <1>2, <1>4 DEF SenderInv
  <1>6. QED BY <1>3, <1>5 DEF Inv

\* What the server takes: the records of the batch it has not seen, in the batch's order.
LEMMA TakenIs ==
  ASSUME NEW T, batch \in Seq(T), delivered \in Seq(T)
  PROVE  LET fresh == [k \in 1..Len(Unseen) |-> batch[Unseen[k]]] IN
         /\ fresh \in Seq(T) /\ Len(fresh) = Len(Unseen) /\ Len(Unseen) \in Nat
         /\ \A k \in 1..Len(fresh) : fresh[k] \in ToSet(batch) /\ fresh[k] \notin ToSet(delivered)
         /\ \A r \in ToSet(batch) : r \in ToSet(delivered) \/ \E k \in 1..Len(fresh) : fresh[k] = r
         /\ \A k, l \in 1..Len(fresh) : k < l =>
              \E i, j \in 1..Len(batch) : i < j /\ fresh[k] = batch[i] /\ fresh[l] = batch[j]
  <1> DEFINE S == {i \in 1..Len(batch) : batch[i] \notin ToSet(delivered)}
             below == [i \in S |-> {j \in S : j < i}]
             n == Cardinality(S)
             fresh == [k \in 1..Len(Unseen) |-> batch[Unseen[k]]]
  <1>1. Len(batch) \in Nat /\ DOMAIN batch = 1..Len(batch) /\ \A i \in 1..Len(batch) : batch[i] \in T
    OBVIOUS
  <1>2. IsFiniteSet(S)
    <2>1. 1 \in Int /\ Len(batch) \in Int BY <1>1
    <2>2. IsFiniteSet(1..Len(batch)) BY <2>1, FS_Interval
    <2>3. S \in SUBSET (1..Len(batch)) OBVIOUS
    <2> HIDE DEF S
    <2>4. QED BY <2>2, <2>3, FS_Subset
  <1>3. Ranks(S, below)
    <2>1. \A i \in S : i \in Nat BY <1>1
    <2>2. \A i \in S : \A j \in S : j \in below[i] <=> j < i OBVIOUS
    <2>3. \A i \in S : below[i] \subseteq S OBVIOUS
    <2> HIDE DEF S, below
    <2>4. \A i \in S : below[i] \subseteq S /\ i \notin below[i] BY <2>1, <2>2, <2>3
    <2>5. \A d, e \in S : d = e \/ d \in below[e] \/ e \in below[d] BY <2>1, <2>2
    <2>6. \A d, e \in S : d \in below[e] => below[d] \subseteq below[e] BY <2>1, <2>2, <2>3
    <2>7. QED BY <2>4, <2>5, <2>6 DEF Ranks
  <1>4. Unseen = Ordered(S, below) BY DEF Unseen
  <1>5. \A i \in S : i \in 1..Len(batch) /\ batch[i] \notin ToSet(delivered) OBVIOUS
  <1>6. \A i \in 1..Len(batch) : batch[i] \in ToSet(delivered) \/ i \in S OBVIOUS
  <1>7. \A j, i \in S : j \in below[i] => j < i OBVIOUS
  <1> HIDE DEF S, below
  <1>8. /\ n \in Nat /\ Len(Unseen) = n
        /\ \A k \in 1..n : Unseen[k] \in S
        /\ \A e \in S : \E k \in 1..n : Unseen[k] = e
        /\ \A k, l \in 1..n : k < l => Unseen[k] \in below[Unseen[l]]
    BY <1>2, <1>3, <1>4, OrderedIs
  <1> HIDE DEF n
  <1>9. \A k \in 1..n : /\ Unseen[k] \in 1..Len(batch) /\ fresh[k] = batch[Unseen[k]]
                        /\ fresh[k] \in T
    BY <1>1, <1>5, <1>8
  <1>10. fresh \in Seq(T) /\ Len(fresh) = n
    <2>1. fresh \in [1..n -> T] BY <1>8, <1>9
    <2> HIDE DEF fresh
    <2>2. QED BY <1>8, <2>1
  <1> HIDE DEF fresh
  <1>11. \A k \in 1..n : fresh[k] \in ToSet(batch) /\ fresh[k] \notin ToSet(delivered)
    <2>1. \A i \in 1..Len(batch) : batch[i] \in ToSet(batch) BY <1>1 DEF ToSet
    <2>2. QED BY <1>5, <1>8, <1>9, <2>1
  <1>12. ASSUME NEW r \in ToSet(batch) PROVE r \in ToSet(delivered) \/ \E k \in 1..n : fresh[k] = r
    <2>1. PICK i \in 1..Len(batch) : r = batch[i] BY <1>1 DEF ToSet
    <2>2. QED BY <1>6, <1>8, <1>9, <2>1
  <1>13. ASSUME NEW k \in 1..n, NEW l \in 1..n, k < l
         PROVE  \E i, j \in 1..Len(batch) : i < j /\ fresh[k] = batch[i] /\ fresh[l] = batch[j]
    <2>1. Unseen[k] < Unseen[l] BY <1>7, <1>8, <1>13
    <2>2. QED BY <1>9, <2>1
  <1>14. /\ fresh \in Seq(T) /\ Len(fresh) = Len(Unseen) /\ Len(Unseen) \in Nat
         /\ \A k \in 1..Len(fresh) : fresh[k] \in ToSet(batch) /\ fresh[k] \notin ToSet(delivered)
         /\ \A r \in ToSet(batch) : r \in ToSet(delivered) \/ \E k \in 1..Len(fresh) : fresh[k] = r
    BY <1>8, <1>10, <1>11, <1>12
  <1>15. \A k, l \in 1..Len(fresh) : k < l =>
           \E i, j \in 1..Len(batch) : i < j /\ fresh[k] = batch[i] /\ fresh[l] = batch[j]
    BY <1>10, <1>13
  <1>16. QED BY <1>14, <1>15 DEF fresh

\* The server takes the batch: what it sees first there is younger than all it has seen.
LEMMA TakesInv ==
  ASSUME Inv, ServerTakes PROVE Inv'
  <1> DEFINE fresh == [k \in 1..Len(Unseen) |-> batch[Unseen[k]]]
             n == Len(delivered)
  <1>0. /\ TypeInv /\ DiskInv /\ UpInv /\ CountInv /\ LossInv /\ OrderInv /\ SenderInv BY DEF Inv
  <1>1. /\ pc = "post" /\ ~TooLarge /\ Garbage \notin ToSet(batch)
        /\ delivered' = delivered \o fresh /\ pc' = "answer" /\ reply' \in {"ok", "retry"}
        /\ UNCHANGED <<spoolVars, stack, batch, cursor, oversized>>
    BY DEF ServerTakes
  <1>2. /\ up /\ stack # <<>> /\ batch # <<>> /\ Hand(files, acked, cursor, batch, born)
        /\ \A r \in ToSet(batch) : \A d \in ToSet(delivered) :
             r # Garbage /\ r < d => r \in ToSet(delivered) \cup Big
        /\ born \in Nat /\ delivered \in Seq(1..born)
    BY <1>0, <1>1 DEF SenderInv, TypeInv
  <1>3. batch \in Seq(1..born)
    <2>1. batch \in Seq(1..born \cup {Garbage}) BY <1>2 DEF Hand
    <2>2. \A k \in 1..Len(batch) : batch[k] \in 1..born
      <3>1. ASSUME NEW k \in 1..Len(batch) PROVE batch[k] \in 1..born
        <4>1. batch[k] \in 1..born \cup {Garbage} BY <2>1
        <4>2. batch[k] \in ToSet(batch) BY <2>1 DEF ToSet
        <4>3. QED BY <1>1, <4>1, <4>2
      <3>2. QED BY <3>1
    <2>3. Len(batch) \in Nat /\ batch = [k \in 1..Len(batch) |-> batch[k]] BY <2>1
    <2> DEFINE T == 1..born
               m == Len(batch)
    <2>4. \A k \in 1..m : batch[k] \in T BY <2>2
    <2>5. m \in Nat /\ batch = [k \in 1..m |-> batch[k]] BY <2>3
    <2> HIDE DEF T, m
    <2>6. batch \in [1..m -> T] BY <2>4, <2>5
    <2>7. batch \in Seq(T) BY <2>5, <2>6
    <2>8. QED BY <2>7 DEF T
  <1>4. /\ fresh \in Seq(1..born) /\ Len(fresh) \in Nat
        /\ \A k \in 1..Len(fresh) : fresh[k] \in ToSet(batch) /\ fresh[k] \notin ToSet(delivered)
        /\ \A r \in ToSet(batch) : r \in ToSet(delivered) \/ \E k \in 1..Len(fresh) : fresh[k] = r
        /\ \A k, l \in 1..Len(fresh) : k < l =>
             \E i, j \in 1..Len(batch) : i < j /\ fresh[k] = batch[i] /\ fresh[l] = batch[j]
    <2> DEFINE T == 1..born
    <2>1. batch \in Seq(T) /\ delivered \in Seq(T) BY <1>2, <1>3
    <2> HIDE DEF T
    <2>2. /\ fresh \in Seq(T) /\ Len(fresh) = Len(Unseen) /\ Len(Unseen) \in Nat
          /\ \A k \in 1..Len(fresh) : fresh[k] \in ToSet(batch) /\ fresh[k] \notin ToSet(delivered)
          /\ \A r \in ToSet(batch) : r \in ToSet(delivered) \/ \E k \in 1..Len(fresh) : fresh[k] = r
          /\ \A k, l \in 1..Len(fresh) : k < l =>
               \E i, j \in 1..Len(batch) : i < j /\ fresh[k] = batch[i] /\ fresh[l] = batch[j]
      BY <2>1, TakenIs
    <2> HIDE DEF fresh
    <2>3. QED BY <2>2 DEF T
  <1> HIDE DEF fresh
  <1>5. /\ delivered' \in Seq(1..born) /\ n \in Nat /\ Len(delivered') = n + Len(fresh)
        /\ \A i \in 1..n : delivered'[i] = delivered[i]
        /\ \A i \in n + 1..n + Len(fresh) : delivered'[i] = fresh[i - n]
    <2> DEFINE T == 1..born
    <2>1. fresh \in Seq(T) /\ delivered \in Seq(T) BY <1>2, <1>4
    <2> HIDE DEF T
    <2>2. /\ delivered \o fresh \in Seq(T) /\ Len(delivered) \in Nat /\ Len(fresh) \in Nat
          /\ Len(delivered \o fresh) = Len(delivered) + Len(fresh)
          /\ \A i \in 1..Len(delivered) : (delivered \o fresh)[i] = delivered[i]
          /\ \A i \in Len(delivered) + 1..Len(delivered) + Len(fresh) :
               (delivered \o fresh)[i] = fresh[i - Len(delivered)]
      BY <2>1, SeqsJoined
    <2>3. QED BY <1>1, <2>2 DEF T
  <1>6. /\ DOMAIN delivered = 1..n /\ DOMAIN batch = 1..Len(batch) /\ Len(batch) \in Nat
        /\ DOMAIN delivered' = 1..n + Len(fresh)
    BY <1>2, <1>3, <1>5
  <1>7. \A i \in 1..n : delivered[i] \in ToSet(delivered) /\ delivered[i] \in 1..born
    BY <1>2, <1>6 DEF ToSet
  <1> HIDE DEF n
  <1>8. \A i \in 1..Len(delivered') : i \in 1..n \/ (i \in n + 1..n + Len(fresh) /\ i - n \in 1..Len(fresh))
    BY <1>4, <1>5
  <1>9. ToSet(delivered) \subseteq ToSet(delivered')
    <2>1. \A i \in 1..n : i \in DOMAIN delivered' BY <1>4, <1>5, <1>6
    <2>2. QED BY <1>5, <1>6, <2>1 DEF ToSet
  <1>10. ToSet(batch) \subseteq ToSet(delivered')
    <2>1. ASSUME NEW r \in ToSet(batch), r \notin ToSet(delivered) PROVE r \in ToSet(delivered')
      <3>1. PICK k \in 1..Len(fresh) : fresh[k] = r BY <1>4, <2>1
      <3>2. n + k \in n + 1..n + Len(fresh) /\ n + k \in DOMAIN delivered' /\ n + k - n = k
        BY <1>4, <1>5, <1>6
      <3>3. delivered'[n + k] = r BY <1>5, <3>1, <3>2
      <3>4. QED BY <3>2, <3>3 DEF ToSet
    <2>2. QED BY <1>9, <2>1
  <1>11. ToSet(delivered') \subseteq ToSet(delivered) \cup ToSet(batch)
    <2>1. ASSUME NEW d \in ToSet(delivered') PROVE d \in ToSet(delivered) \cup ToSet(batch)
      <3>1. PICK i \in 1..Len(delivered') : d = delivered'[i] BY <1>5, <1>6, <2>1 DEF ToSet
      <3>2. QED BY <1>4, <1>5, <1>7, <1>8, <3>1
    <2>2. QED BY <2>1
  <1>12. ToSet(batch) \cap Big = {} BY <1>1 DEF TooLarge
  <1>13. \A r \in ToSet(batch) : r \in 1..born 
    <2> DEFINE T == 1..born
    <2>1. batch \in Seq(T) BY <1>3
    <2> HIDE DEF T
    <2>2. ToSet(batch) \in SUBSET T BY <2>1, SeenIsSeq
    <2>3. QED BY <2>2 DEF T
  <1>14. ArrivesInOrder'
    <2>1. SUFFICES ASSUME NEW i \in 1..Len(delivered'), NEW j \in 1..Len(delivered'), i < j
                   PROVE  delivered'[i] < delivered'[j]
      BY DEF ArrivesInOrder
    <2>2. CASE i \in 1..n /\ j \in 1..n
      <3>1. delivered[i] < delivered[j] BY <1>0, <2>1, <2>2 DEF OrderInv, ArrivesInOrder, n
      <3>2. QED BY <1>5, <2>2, <3>1
    <2>3. CASE i \in 1..n /\ j \in n + 1..n + Len(fresh) /\ j - n \in 1..Len(fresh)
      <3> DEFINE d == delivered[i]
                 r == fresh[j - n]
      <3>1. d \in ToSet(delivered) /\ d \in 1..born BY <1>7, <2>3
      <3>2. r \in ToSet(batch) /\ r \notin ToSet(delivered) /\ r \in 1..born BY <1>4, <1>13, <2>3
      <3>3. ~(r < d)
        <4>1. r \notin Big /\ r # Garbage BY <1>1, <1>12, <3>2
        <4>2. QED BY <1>2, <3>1, <3>2, <4>1
      <3>4. r # d BY <3>1, <3>2
      <3>5. delivered'[i] = d /\ delivered'[j] = r BY <1>5, <2>3
      <3> HIDE DEF d, r
      <3>6. QED BY <3>1, <3>2, <3>3, <3>4, <3>5
    <2>4. CASE /\ i \in n + 1..n + Len(fresh) /\ i - n \in 1..Len(fresh)
               /\ j \in n + 1..n + Len(fresh) /\ j - n \in 1..Len(fresh)
      <3>1. i - n < j - n BY <1>5, <2>1, <2>4
      <3>2. PICK k, l \in 1..Len(batch) : k < l /\ fresh[i - n] = batch[k] /\ fresh[j - n] = batch[l]
        BY <1>4, <2>4, <3>1
      <3>3. batch[k] # Garbage /\ batch[l] # Garbage BY <1>1, <1>6 DEF ToSet
      <3>4. batch[k] < batch[l] BY <1>2, <3>2, <3>3 DEF Hand
      <3>5. QED BY <1>5, <2>4, <3>2, <3>4
    <2>5. CASE i \in n + 1..n + Len(fresh) /\ j \in 1..n BY <1>5, <2>1, <2>5
    <2>6. QED BY <1>8, <2>2, <2>3, <2>4, <2>5
  <1>15. SeenPast(files, acked, ToSet(delivered'))
    <2>1. SUFFICES ASSUME NEW s \in DOMAIN files, NEW i \in 1..Len(files[s]),
                          HasLine(files[s], i), Past(s, i, acked),
                          NEW d \in ToSet(delivered'), files[s][i] < d
                   PROVE  files[s][i] \in ToSet(delivered') \cup Big
      BY DEF SeenPast
    <2>2. CASE d \in ToSet(delivered)
      <3>1. SeenPast(files, acked, ToSet(delivered)) BY <1>0, <1>2 DEF OrderInv, Place
      <3>2. files[s][i] \in ToSet(delivered) \cup Big BY <2>1, <2>2, <3>1 DEF SeenPast
      <3>3. QED BY <1>9, <3>2
    <2>3. CASE d \in ToSet(batch)
      <3>1. CASE Past(s, i, cursor)
        <4>1. files[s][i] # NL BY <2>1 DEF HasLine
        <4>2. d = Garbage \/ d < files[s][i] BY <1>2, <2>3, <3>1, <4>1 DEF Hand
        <4>3. d < files[s][i] /\ d \in Nat BY <1>1, <1>13, <2>3, <4>2
        <4>4. files[s][i] \in Nat
          <5>1. files[s] \in Contents BY <1>0 DEF TypeInv, Disk
          <5>2. files[s][i] \in Nat \cup {NL} BY <5>1 DEF Contents
          <5>3. QED BY <4>1, <5>2
        <4>5. QED BY <2>1, <4>3, <4>4
      <3>2. CASE ~Past(s, i, cursor)
        <4>1. files[s][i] \in ToSet(batch) BY <1>1, <1>2, <2>1, <3>2 DEF Hand
        <4>2. QED BY <1>10, <4>1
      <3>3. QED BY <3>1, <3>2
    <2>4. QED BY <1>11, <2>2, <2>3
  <1>16. OrderInv'
    <2>1. SeenBetween(files, cp, acked, ToSet(delivered'))
      <3>1. SeenBetween(files, cp, acked, ToSet(delivered)) BY <1>0, <1>2 DEF OrderInv
      <3>2. QED BY <1>9, <3>1 DEF SeenBetween
    <2>2. QED BY <1>1, <1>2, <1>14, <1>15, <2>1 DEF OrderInv, Place
  <1>17. LossInv'
    <2>1. Done \subseteq Done' BY <1>1, <1>9 DEF Done
    <2>2. QED BY <1>0, <1>1, <2>1 DEF LossInv, Place
  <1>18. TypeInv' BY <1>0, <1>1, <1>5 DEF TypeInv
  <1>19. DiskInv' /\ UpInv' /\ CountInv' BY <1>0, <1>1 DEF DiskInv, UpInv, CountInv
  <1>20. SenderInv' BY <1>1, <1>2, <1>10 DEF SenderInv
  <1>21. QED BY <1>16, <1>17, <1>18, <1>19, <1>20 DEF Inv

-----------------------------------------------------------------------------
(* Crashes and restarts *)

\* The records whose line is complete.
LEMMA WholeIs ==
  ASSUME NEW fs, NEW b \in Nat, Disk(fs), Written(fs, b), NEW r
  PROVE  r \in Whole(fs) <=>
           \E s \in DOMAIN fs : \E i \in 1..Len(fs[s]) : HasLine(fs[s], i) /\ fs[s][i] = r
  <1>1. \A s \in DOMAIN fs : Len(fs[s]) \in Nat BY DEF Disk, Contents
  <1>2. ASSUME r \in Whole(fs)
        PROVE  \E s \in DOMAIN fs : \E i \in 1..Len(fs[s]) : HasLine(fs[s], i) /\ fs[s][i] = r
    <2>1. PICK s \in DOMAIN fs : r \in {fs[s][k - 1] : k \in {j \in 2..Len(fs[s]) : fs[s][j] = NL}}
      BY <1>2 DEF Whole
    <2>2. PICK k \in 2..Len(fs[s]) : fs[s][k] = NL /\ r = fs[s][k - 1] BY <2>1
    <2>3. k \in 1..Len(fs[s]) /\ k - 1 \in 1..Len(fs[s]) - 1 /\ k - 1 \in 1..Len(fs[s]) /\ k - 1 + 1 = k
      BY <1>1, <2>2
    <2>4. fs[s][k - 1] # NL BY <2>2, <2>3 DEF Written
    <2>5. HasLine(fs[s], k - 1) BY <2>2, <2>3, <2>4 DEF HasLine
    <2>6. QED BY <2>2, <2>3, <2>5
  <1>3. ASSUME NEW s \in DOMAIN fs, NEW i \in 1..Len(fs[s]), HasLine(fs[s], i), fs[s][i] = r
        PROVE  r \in Whole(fs)
    <2>1. i + 1 \in 2..Len(fs[s]) /\ fs[s][i + 1] = NL /\ i + 1 - 1 = i BY <1>1, <1>3 DEF HasLine
    <2>2. r \in {fs[s][k - 1] : k \in {j \in 2..Len(fs[s]) : fs[s][j] = NL}} BY <1>3, <2>1
    <2>3. QED BY <2>2 DEF Whole
  <1>4. QED BY <1>2, <1>3

\* What a crash leaves of the files.
LEMMA DiesTo ==
  ASSUME Inv, Kill \/ PowerCut
  PROVE  /\ Shortens(files, files') /\ files' = [s \in DOMAIN files' |-> files'[s]]
         /\ cut \subseteq cut' /\ cut' \subseteq cut \cup Whole(files)
         /\ \A r \in Whole(files) : r \in Whole(files') \/ r \in cut'
  <1>1. Disk(files) BY DEF Inv, TypeInv
  <1>2. CASE Kill
    <2>1. files' = files /\ cut' = cut BY <1>2 DEF Kill
    <2>2. ASSUME NEW s \in DOMAIN files PROVE \E n \in 0..Len(files[s]) : files[s] = SubSeq(files[s], 1, n)
      <3>1. files[s] \in Contents BY <1>1 DEF Disk
      <3>2. Len(files[s]) \in 0..Len(files[s]) /\ files[s] = SubSeq(files[s], 1, Len(files[s]))
        BY <3>1 DEF Contents
      <3>3. QED BY <3>2
    <2>3. Shortens(files, files') BY <2>1, <2>2 DEF Shortens
    <2>4. files' = [s \in DOMAIN files' |-> files'[s]] BY <1>1, <2>1 DEF Disk
    <2>5. QED BY <2>1, <2>3, <2>4
  <1>3. CASE PowerCut
    <2>1. PICK len \in [DOMAIN files -> 0..(2 * MaxRecs)] :
            /\ \A s \in DOMAIN files : len[s] <= Len(files[s])
            /\ files' = [s \in DOMAIN files |-> SubSeq(files[s], 1, len[s])]
      BY <1>3 DEF PowerCut
    <2>2. cut' = cut \cup (Whole(files) \ Whole(files')) BY <1>3 DEF PowerCut
    <2>3. DOMAIN files' = DOMAIN files BY <2>1
    <2>4. ASSUME NEW s \in DOMAIN files
          PROVE  \E n \in 0..Len(files[s]) : files'[s] = SubSeq(files[s], 1, n)
      <3>1. len[s] \in 0..(2 * MaxRecs) /\ len[s] <= Len(files[s]) BY <2>1
      <3>2. Len(files[s]) \in Nat BY <1>1 DEF Disk, Contents
      <3>3. MaxRecs \in Nat BY SpoolAssumption
      <3>4. len[s] \in 0..Len(files[s]) BY <3>1, <3>2, <3>3
      <3>5. files'[s] = SubSeq(files[s], 1, len[s]) BY <2>1
      <3>6. QED BY <3>4, <3>5
    <2>5. Shortens(files, files') BY <2>3, <2>4 DEF Shortens
    <2>6. files' = [s \in DOMAIN files' |-> files'[s]] BY <2>1
    <2>7. QED BY <2>2, <2>5, <2>6
  <1>4. QED BY <1>2, <1>3

\* A crash, at any point; with the power, tails go.
LEMMA DiesInv ==
  ASSUME Inv, ShipperDies PROVE Inv'
  <1>0. /\ TypeInv /\ DiskInv /\ UpInv /\ CountInv /\ LossInv /\ OrderInv /\ SenderInv BY DEF Inv
  <1>1. /\ up /\ up' = FALSE /\ acked' = [seq |-> 0, off |-> 0] /\ dropped' = 0
        /\ forgot' = (forgot \/ cp.dropped # dropped)
        /\ cp' = cp /\ born' = born /\ kept' = kept /\ evicted' = evicted
        /\ pc' = "idle" /\ stack' = <<>> /\ delivered' = delivered /\ oversized' = oversized
        /\ Kill \/ PowerCut
    BY DEF ShipperDies, Kill, PowerCut, Dies
  <1>2. /\ Shortens(files, files') /\ files' = [s \in DOMAIN files' |-> files'[s]]
        /\ cut \subseteq cut' /\ cut' \subseteq cut \cup Whole(files)
        /\ \A r \in Whole(files) : r \in Whole(files') \/ r \in cut'
    BY <1>1, DiesTo
  <1>3. /\ Disk(files) /\ Written(files, born) /\ born \in Nat
        /\ acked.seq \in Nat /\ acked.off \in Nat
        /\ cp.seq \in Nat /\ cp.off \in Nat /\ cp.seq <= acked.seq
        /\ cp.seq = acked.seq => cp.off <= acked.off
        /\ DOMAIN files \subseteq Nat \ {0}
        /\ \A s \in DOMAIN files : files[s] \in Contents /\ Len(files[s]) \in Nat
    BY <1>1, UpFacts
  <1>4. DOMAIN files' = DOMAIN files BY <1>2 DEF Shortens
  <1>5. Disk(files') /\ Written(files', born) BY <1>2, <1>3, ShortenedWritten
  <1>6. \A s \in DOMAIN files :
          /\ files'[s] \in Contents /\ Len(files'[s]) \in 0..Len(files[s])
          /\ \A i \in 1..Len(files'[s]) : i \in 1..Len(files[s]) /\ files'[s][i] = files[s][i]
    BY <1>2, <1>3, ShortenedUnits
  \* A record with its line, unless the power took it, is where it was.
  <1>7. ASSUME NEW s \in DOMAIN files, NEW i \in 1..Len(files[s]), HasLine(files[s], i),
               files[s][i] \notin cut'
        PROVE  i \in 1..Len(files'[s]) /\ HasLine(files'[s], i) /\ files'[s][i] = files[s][i]
    <2>1. files[s][i] \in Whole(files) BY <1>3, <1>7, WholeIs
    <2>2. files[s][i] \in Whole(files') BY <1>2, <1>7, <2>1
    <2>3. PICK t \in DOMAIN files' : \E j \in 1..Len(files'[t]) :
            HasLine(files'[t], j) /\ files'[t][j] = files[s][i]
      BY <1>3, <1>5, <2>2, WholeIs
    <2>4. PICK j \in 1..Len(files'[t]) : HasLine(files'[t], j) /\ files'[t][j] = files[s][i]
      BY <2>3
    <2>5. t \in DOMAIN files /\ j \in 1..Len(files[t]) /\ files[t][j] = files[s][i] BY <1>4, <1>6, <2>4
    <2>6. files[s][i] # NL BY <1>7 DEF HasLine
    <2>7. Disk(files) /\ Written(files, born) /\ born \in Nat BY <1>3
    <2>8. s = t /\ i = j BY <2>5, <2>6, <2>7, WrittenOnce
    <2>9. QED BY <2>4, <2>8
  <1>8. TypeInv'
    <2>1. Whole(files) \subseteq 1..born
      <3>1. ASSUME NEW r \in Whole(files) PROVE r \in 1..born
        <4>1. PICK s \in DOMAIN files : \E i \in 1..Len(files[s]) : HasLine(files[s], i) /\ files[s][i] = r
          BY <1>3, WholeIs
        <4>2. PICK i \in 1..Len(files[s]) : HasLine(files[s], i) /\ files[s][i] = r BY <4>1
        <4>3. QED BY <1>3, <4>2 DEF Written, HasLine
      <3>2. QED BY <3>1
    <2>2. cut' \subseteq 1..born BY <1>0, <1>2, <2>1 DEF TypeInv
    <2>3. acked' \in Cursor /\ dropped' \in Nat BY <1>1 DEF Cursor
    <2>4. stack' \in Seq(Nat \ {0})
      <3>1. <<>> \in Seq(Nat \ {0}) OBVIOUS
      <3>2. QED BY <1>1, <3>1
    <2>5. up' \in BOOLEAN BY <1>1
    <2>6. QED BY <1>0, <1>1, <1>5, <2>2, <2>3, <2>4, <2>5 DEF TypeInv
  <1>9. DiskInv'
    <2>1. Complete(files', kept \ cut')
      <3>1. SUFFICES ASSUME NEW s \in DOMAIN files', NEW i \in 1..Len(files'[s]),
                            files'[s][i] \in kept \ cut'
                     PROVE  HasLine(files'[s], i)
        BY DEF Complete
      <3>2. s \in DOMAIN files /\ i \in 1..Len(files[s]) /\ files'[s][i] = files[s][i] BY <1>4, <1>6
      <3>3. HasLine(files[s], i)
        <4>1. files[s][i] \in kept \ cut BY <1>2, <3>1, <3>2
        <4>2. Complete(files, kept \ cut) BY <1>0 DEF DiskInv
        <4>3. QED BY <3>2, <4>1, <4>2 DEF Complete
      <3>4. QED BY <1>7, <3>1, <3>2, <3>3
    <2>2. Absent(files', evicted)
      <3>1. Absent(files, evicted) BY <1>0 DEF DiskInv
      <3>2. QED BY <1>4, <1>6, <3>1 DEF Absent
    <2>3. cp.seq <= Max(DOMAIN files') BY <1>0, <1>4 DEF DiskInv
    <2>4. Starts(files', cp)
      <3>1. ASSUME cp.seq \in DOMAIN files', cp.off + 1 <= Len(files'[cp.seq])
            PROVE  files'[cp.seq][cp.off + 1] # NL
        <4>1. cp.off + 1 \in 1..Len(files'[cp.seq]) /\ cp.off + 1 <= Len(files[cp.seq])
          BY <1>3, <1>4, <1>6, <3>1
        <4>2. files'[cp.seq][cp.off + 1] = files[cp.seq][cp.off + 1] BY <1>4, <1>6, <3>1, <4>1
        <4>3. Starts(files, cp) BY <1>0 DEF DiskInv
        <4>4. QED BY <1>4, <3>1, <4>1, <4>2, <4>3 DEF Starts
      <3>2. QED BY <3>1 DEF Starts
    <2>5. QED BY <1>1, <1>5, <2>1, <2>2, <2>3, <2>4 DEF DiskInv
  <1>10. UpInv' BY <1>1 DEF UpInv
  <1>11. CountInv' BY <1>0, <1>1 DEF CountInv
  <1>12. LossInv'
    <2>1. ASSUME NEW r \in kept
          PROVE  r \in Done \cup evicted \cup cut' \/ Lies(files', r, cp)
      <3>1. r \in Done \cup evicted \cup cut \/ Lies(files, r, acked)
        BY <1>0, <1>1 DEF LossInv, Place
      <3>2. CASE Lies(files, r, acked) /\ r \notin cut'
        <4>1. PICK s \in DOMAIN files : \E i \in 1..Len(files[s]) : Past(s, i, acked) /\ files[s][i] = r
          BY <3>2 DEF Lies
        <4>2. PICK i \in 1..Len(files[s]) : Past(s, i, acked) /\ files[s][i] = r BY <4>1
        <4>3. r \in kept \ cut /\ Complete(files, kept \ cut) BY <1>0, <1>2, <2>1, <3>2 DEF DiskInv
        <4>4. HasLine(files[s], i) BY <4>2, <4>3 DEF Complete
        <4>5. i \in 1..Len(files'[s]) /\ files'[s][i] = r BY <1>7, <3>2, <4>2, <4>4
        <4>6. Past(s, i, cp) BY <1>3, <4>2 DEF Past
        <4>7. QED BY <1>4, <4>5, <4>6 DEF Lies
      <3>3. QED BY <1>2, <3>1, <3>2
    <2>2. QED BY <1>1, <2>1 DEF LossInv, Place, Done
  <1>13. OrderInv'
    <2>1. SeenPast(files', cp, ToSet(delivered))
      <3>1. SUFFICES ASSUME NEW s \in DOMAIN files', NEW i \in 1..Len(files'[s]),
                            HasLine(files'[s], i), Past(s, i, cp),
                            NEW d \in ToSet(delivered), files'[s][i] < d
                     PROVE  files'[s][i] \in ToSet(delivered) \cup Big
        BY DEF SeenPast
      <3>2. s \in DOMAIN files /\ i \in 1..Len(files[s]) /\ HasLine(files[s], i)
            /\ files'[s][i] = files[s][i]
        BY <1>2, <1>3, <1>4, <3>1, ShortenedLines
      <3>3. CASE Past(s, i, acked)
        <4>1. SeenPast(files, acked, ToSet(delivered)) BY <1>0, <1>1 DEF OrderInv, Place
        <4>2. QED BY <3>1, <3>2, <3>3, <4>1 DEF SeenPast
      <3>4. CASE ~Past(s, i, acked)
        <4>1. SeenBetween(files, cp, acked, ToSet(delivered)) BY <1>0, <1>1 DEF OrderInv
        <4>2. QED BY <3>1, <3>2, <3>4, <4>1 DEF SeenBetween
      <3>5. QED BY <3>3, <3>4
    <2>2. ArrivesInOrder' BY <1>0, <1>1 DEF OrderInv, ArrivesInOrder
    <2>3. QED BY <1>1, <2>1, <2>2 DEF OrderInv, Place
  <1>14. SenderInv' BY <1>1 DEF SenderInv
  <1>15. QED BY <1>8, <1>9, <1>10, <1>11, <1>12, <1>13, <1>14 DEF Inv

\* Open: the torn tail of the newest segment goes, and no line with it.
LEMMA RepairIs ==
  ASSUME NEW f \in Contents, NEW from \in 0..Len(f)
  PROVE  LET g == WithoutTail(f, from) IN
         /\ \E n \in 0..Len(f) : g = SubSeq(f, 1, n)
         /\ g \in Contents /\ Len(g) \in from..Len(f)
         /\ \A i \in 1..Len(f) : HasLine(f, i) => i + 1 <= Len(g)
  <1> DEFINE n == IF Len(f) > from /\ f[Len(f)] # NL THEN GoodEnd(f, from) ELSE Len(f)
             g == WithoutTail(f, from)
  <1>1. Len(f) \in Nat /\ from \in Nat /\ from <= Len(f) BY DEF Contents
  <1>2. /\ GoodEnd(f, from) \in from..Len(f)
        /\ \A i \in LineEnds(f, from) : i <= GoodEnd(f, from)
    BY <1>1, GoodEndIs
  <1>3. n \in from..Len(f) BY <1>1, <1>2
  <1>4. g = SubSeq(f, 1, n)
    <2>1. f = SubSeq(f, 1, Len(f)) BY DEF Contents
    <2>2. QED BY <2>1 DEF WithoutTail
  <1>5. ASSUME NEW i \in 1..Len(f), HasLine(f, i) PROVE i + 1 <= n
    <2>1. i + 1 \in 1..Len(f) /\ f[i + 1] = NL BY <1>1, <1>5 DEF HasLine
    <2>2. CASE i + 1 > from
      <3>1. i + 1 \in LineEnds(f, from) BY <1>1, <2>1, <2>2 DEF LineEnds
      <3>2. i + 1 <= GoodEnd(f, from) BY <1>2, <3>1
      <3>3. QED BY <1>1, <2>1, <3>2
    <2>3. CASE ~(i + 1 > from) BY <1>1, <1>3, <2>1, <2>3
    <2>4. QED BY <2>2, <2>3
  <1> HIDE DEF n, g
  <1>6. n \in 0..Len(f) /\ n \in Nat BY <1>1, <1>3
  <1>7. g \in Contents /\ Len(g) = n BY <1>1, <1>4, <1>6 DEF Contents
  <1>8. /\ \E m \in 0..Len(f) : g = SubSeq(f, 1, m)
        /\ g \in Contents /\ Len(g) \in from..Len(f)
        /\ \A i \in 1..Len(f) : HasLine(f, i) => i + 1 <= Len(g)
    BY <1>3, <1>4, <1>5, <1>6, <1>7
  <1>9. QED BY <1>8 DEF g

\* The restart: reading goes on from the checkpoint.
LEMMA OpenInv ==
  ASSUME Inv, Open, UNCHANGED <<senderVars, delivered, oversized>> PROVE Inv'
  <1> DEFINE D == DOMAIN files
             last == Max(DOMAIN files)
             f == files[last]
             off == IF cp.seq = last THEN Clamp(cp.off, Len(f)) ELSE cp.off
             from == IF cp.seq = last THEN off ELSE 0
             fixed == [files EXCEPT ![last] = WithoutTail(@, from)]
             found == [s \in DOMAIN files |-> Len(fixed[s])]
             start == IF cp.seq = 0 THEN [seq |-> Min(DOMAIN files), off |-> 0]
                      ELSE [seq |-> cp.seq, off |-> off]
             p == Normalize(found, start)
  <1>0. /\ TypeInv /\ DiskInv /\ UpInv /\ CountInv /\ LossInv /\ OrderInv /\ SenderInv BY DEF Inv
  <1>1. /\ ~up /\ up' /\ dropped' = cp.dropped /\ hold' = "none"
        /\ born' = born /\ kept' = kept /\ evicted' = evicted /\ cut' = cut /\ forgot' = forgot
    BY DEF Open
  <1>2. /\ Disk(files) /\ Written(files, born) /\ born \in Nat
        /\ cp \in [seq : Nat, off : Nat, dropped : Nat]
        /\ cp.seq \in Nat /\ cp.off \in Nat /\ cp.dropped \in Nat
        /\ Complete(files, kept \ cut) /\ Absent(files, evicted) /\ cp.seq <= last /\ Starts(files, cp)
    BY <1>0 DEF TypeInv, DiskInv
  <1>3. /\ last \in D /\ Min(D) \in D /\ D \subseteq Nat \ {0}
        /\ \A s \in D : Min(D) <= s /\ s <= last
        /\ \A x \in Nat : Min(D) <= x /\ x <= last => x \in D
    BY <1>2, IntervalEnds DEF Disk
  <1>4. \A s \in D : files[s] \in Contents /\ Len(files[s]) \in Nat BY <1>2 DEF Disk, Contents
  <1>5. /\ files' = fixed /\ segs' = found /\ acked' = p
        /\ cp' = IF off # cp.off THEN [seq |-> p.seq, off |-> p.off, dropped |-> cp.dropped] ELSE cp
    <2>1. D # {} BY <1>3
    <2>2. Reopen(files, last) BY <2>1 DEF Open
    <2>3. acked' = p BY <2>2 DEF Reopen
    <2>4. cp' = IF off # cp.off
                THEN [seq |-> acked'.seq, off |-> acked'.off, dropped |-> cp.dropped] ELSE cp
      BY <2>2 DEF Reopen
    <2>5. files' = fixed /\ segs' = found BY <2>2 DEF Reopen
    <2> HIDE DEF p, off, fixed, found
    <2>6. QED BY <2>3, <2>4, <2>5
  <1>6. /\ off \in Nat /\ from \in 0..Len(f) /\ f \in Contents
        /\ off <= cp.off
        /\ cp.seq = last => off <= Len(f)
        /\ off # cp.off => cp.seq = last /\ off = Len(f)
        /\ cp.seq = last => from = off
    BY <1>2, <1>3, <1>4 DEF Clamp
  <1>7. /\ DOMAIN fixed = D /\ fixed = [s \in D |-> fixed[s]] /\ fixed[last] = WithoutTail(f, from)
        /\ \A s \in D : s # last => fixed[s] = files[s]
    <2>1. files = [s \in D |-> files[s]] BY <1>2 DEF Disk
    <2>2. QED BY <1>3, <2>1
  <1>8. DOMAIN found = D /\ \A s \in D : found[s] = Len(fixed[s]) OBVIOUS
  <1>9. /\ start.seq \in Nat /\ start.off \in Nat /\ start \in Cursor
        /\ cp.seq = 0 => start.seq = Min(D) /\ start.off = 0
        /\ cp.seq # 0 => start.seq = cp.seq /\ start.off = off
    <2>1. Min(D) \in Nat BY <1>3
    <2> HIDE DEF off, D
    <2>2. CASE cp.seq = 0 BY <2>1, <2>2 DEF Cursor, D
    <2>3. CASE cp.seq # 0 BY <1>2, <1>6, <2>3 DEF Cursor
    <2>4. QED BY <2>2, <2>3
  <1> HIDE DEF D, last, f, off, from, fixed, found, start, p
  <1>10. /\ \E n \in 0..Len(f) : fixed[last] = SubSeq(f, 1, n)
         /\ fixed[last] \in Contents /\ Len(fixed[last]) \in from..Len(f)
         /\ \A i \in 1..Len(f) : HasLine(f, i) => i + 1 <= Len(fixed[last])
    <2>1. f \in Contents /\ from \in 0..Len(f) BY <1>6
    <2>2. /\ \E n \in 0..Len(f) : WithoutTail(f, from) = SubSeq(f, 1, n)
          /\ WithoutTail(f, from) \in Contents /\ Len(WithoutTail(f, from)) \in from..Len(f)
          /\ \A i \in 1..Len(f) : HasLine(f, i) => i + 1 <= Len(WithoutTail(f, from))
      BY <2>1, RepairIs
    <2>3. fixed[last] = WithoutTail(f, from) BY <1>7
    <2>4. QED BY <2>2, <2>3
  <1>11. Shortens(files, fixed)
    <2>1. ASSUME NEW s \in D PROVE \E n \in 0..Len(files[s]) : fixed[s] = SubSeq(files[s], 1, n)
      <3>1. CASE s = last BY <1>10, <3>1 DEF f
      <3>2. CASE s # last
        <4>1. Len(files[s]) \in 0..Len(files[s]) /\ files[s] = SubSeq(files[s], 1, Len(files[s]))
          BY <1>4 DEF Contents
        <4>2. fixed[s] = files[s] BY <1>7, <3>2
        <4>3. QED BY <4>1, <4>2
      <3>3. QED BY <3>1, <3>2
    <2>2. QED BY <1>7, <2>1 DEF Shortens, D
  <1>12. Disk(fixed) /\ Written(fixed, born)
    <2>1. fixed = [s \in DOMAIN fixed |-> fixed[s]] BY <1>7
    <2>2. QED BY <1>2, <1>11, <2>1, ShortenedWritten
  <1>13. \A s \in D :
           /\ fixed[s] \in Contents /\ Len(fixed[s]) \in 0..Len(files[s]) /\ Len(fixed[s]) \in Nat
           /\ \A i \in 1..Len(fixed[s]) : i \in 1..Len(files[s]) /\ fixed[s][i] = files[s][i]
    <2>1. \A s \in D : /\ fixed[s] \in Contents /\ Len(fixed[s]) \in 0..Len(files[s])
                       /\ \A i \in 1..Len(fixed[s]) : i \in 1..Len(files[s]) /\ fixed[s][i] = files[s][i]
      BY <1>2, <1>11, ShortenedUnits DEF D
    <2>2. QED BY <2>1 DEF Contents
  \* Every line is still there.
  <1>14. ASSUME NEW s \in D, NEW i \in 1..Len(files[s]), HasLine(files[s], i)
         PROVE  i \in 1..Len(fixed[s]) /\ HasLine(fixed[s], i) /\ fixed[s][i] = files[s][i]
    <2>1. i + 1 <= Len(fixed[s])
      <3>1. CASE s = last BY <1>10, <1>14, <3>1 DEF f
      <3>2. CASE s # last
        <4>1. fixed[s] = files[s] BY <1>7, <3>2
        <4>2. QED BY <1>4, <1>14, <4>1 DEF HasLine
      <3>3. QED BY <3>1, <3>2
    <2>2. HasLine(fixed[s], i) /\ fixed[s][i] = files[s][i]
      BY <1>2, <1>11, <1>14, <2>1, ShortenedLines DEF D
    <2>3. QED BY <1>4, <1>13, <2>1, <2>2
  <1>15. ASSUME NEW s \in D, NEW i \in 1..Len(fixed[s]), HasLine(fixed[s], i)
         PROVE  i \in 1..Len(files[s]) /\ HasLine(files[s], i) /\ files[s][i] = fixed[s][i]
    BY <1>2, <1>11, <1>15, ShortenedLines DEF D
  \* Where reading goes on: no line is passed over.
  <1>16. /\ p \in Cursor /\ p.seq \in D /\ p.off <= Len(fixed[p.seq])
         /\ p = start \/ (p.seq > start.seq /\ p.off = 0)
         /\ \A s \in D : \A i \in 1..Len(fixed[s]) :
              fixed[s][i] = NL /\ Past(s, i, start) => Past(s, i, p)
    <2>1. CASE start.seq \notin D
      <3>1. p.seq = Min(D) /\ p.off = 0 /\ p \in Cursor
        <4>1. p = [seq |-> Min(D), off |-> 0] BY <1>8, <2>1 DEF Normalize, p
        <4>2. QED BY <1>3, <4>1 DEF Cursor
      <3>2. start.seq < p.seq
        <4>1. cp.seq # 0 /\ start.seq = cp.seq BY <1>3, <1>9, <2>1
        <4>2. ASSUME Min(D) <= cp.seq PROVE FALSE
          <5>1. cp.seq \in Nat /\ cp.seq <= last BY <1>2
          <5>2. cp.seq \in D BY <1>3, <4>2, <5>1
          <5>3. QED BY <2>1, <4>1, <5>2
        <4>3. cp.seq \in Nat /\ Min(D) \in Nat BY <1>2, <1>3
        <4>4. QED BY <3>1, <4>1, <4>2, <4>3
      <3>3. \A s \in D : \A i \in 1..Len(fixed[s]) : Past(s, i, p)
        <4>1. ASSUME NEW s \in D, NEW i \in 1..Len(fixed[s]) PROVE Past(s, i, p)
          <5>1. s \in Nat /\ Min(D) \in Nat /\ Min(D) <= s BY <1>3
          <5>2. i \in Nat /\ i > 0 BY <1>13
          <5>3. QED BY <3>1, <5>1, <5>2 DEF Past
        <4>2. QED BY <4>1
      <3>4. p.off <= Len(fixed[p.seq]) BY <1>3, <1>13, <3>1
      <3>5. QED BY <1>3, <3>1, <3>2, <3>3, <3>4
    <2>2. CASE start.seq \in D
      <3>1. found \in [DOMAIN fixed -> Nat] BY <1>7, <1>13 DEF found, D
      <3>2. start.seq \in DOMAIN fixed /\ Max(DOMAIN fixed) = last BY <1>7, <2>2 DEF last, D
      <3>3. \/ start.off <= Len(fixed[start.seq])
            \/ start.seq < Max(DOMAIN fixed) /\ found[start.seq] <= Len(fixed[start.seq])
        <4>1. Len(fixed[start.seq]) \in Nat /\ found[start.seq] = Len(fixed[start.seq])
          BY <1>8, <1>13, <2>2
        <4>2. CASE cp.seq = 0 BY <1>9, <4>1, <4>2
        <4>3. CASE cp.seq # 0 /\ cp.seq = last
          <5>1. start.seq = last /\ start.off = from BY <1>6, <1>9, <4>3
          <5>2. from <= Len(fixed[last]) BY <1>6, <1>10
          <5>3. QED BY <5>1, <5>2
        <4>4. CASE cp.seq # 0 /\ cp.seq # last
          <5>1. start.seq < last BY <1>2, <1>3, <1>9, <4>4
          <5>2. QED BY <3>2, <4>1, <5>1
        <4>5. QED BY <4>2, <4>3, <4>4
      <3>4. \A s \in DOMAIN fixed : s >= start.seq => SizeOK(fixed[s], From(s, start), found[s])
        <4>1. ASSUME NEW s \in D PROVE SizeOK(fixed[s], From(s, start), found[s])
          <5>1. found[s] = Len(fixed[s]) /\ fixed[s] \in Contents BY <1>8, <1>13
          <5>2. SizeOK(fixed[s], From(s, start), Len(fixed[s])) BY <5>1, SizeMeasured
          <5>3. QED BY <5>1, <5>2
        <4>2. QED BY <1>7, <4>1
      <3>5. /\ p \in Cursor /\ p.seq \in DOMAIN fixed /\ p.off <= Len(fixed[p.seq])
            /\ p = start \/ (p.seq > start.seq /\ p.off = 0)
            /\ \A s \in DOMAIN fixed : \A i \in 1..Len(fixed[s]) :
                 fixed[s][i] = NL /\ Past(s, i, start) => Past(s, i, p)
        <4>1. Disk(fixed) /\ start \in Cursor BY <1>9, <1>12
        <4>2. QED BY <3>1, <3>2, <3>3, <3>4, <4>1, NormalizeIs DEF p
      <3>6. QED BY <1>7, <3>5
    <2>3. QED BY <2>1, <2>2
  <1>17. p.seq \in Nat /\ p.off \in Nat BY <1>16 DEF Cursor
  <1>18. ASSUME NEW s \in D, NEW i \in 1..Len(fixed[s]), HasLine(fixed[s], i), Past(s, i, cp)
         PROVE  Past(s, i, p)
    <2>1. /\ s \in Nat /\ i \in Nat /\ i > 0 /\ Min(D) <= s /\ Min(D) \in Nat
          /\ i + 1 \in 1..Len(fixed[s]) /\ fixed[s][i + 1] = NL
      <3>1. Len(fixed[s]) \in Nat BY <1>13
      <3>2. i \in 1..Len(fixed[s]) - 1 /\ fixed[s][i + 1] = NL BY <1>18 DEF HasLine
      <3>3. s \in Nat /\ Min(D) <= s /\ Min(D) \in Nat BY <1>3
      <3>4. QED BY <3>1, <3>2, <3>3
    <2>2. Past(s, i, start)
      <3>1. CASE cp.seq = 0
        <4>1. start.seq = Min(D) /\ start.off = 0 BY <1>9, <3>1
        <4>2. QED BY <2>1, <4>1 DEF Past
      <3>2. CASE cp.seq # 0
        <4>1. start.seq = cp.seq /\ start.off = off BY <1>9, <3>2
        <4>2. off \in Nat /\ cp.off \in Nat /\ off <= cp.off BY <1>2, <1>6
        <4>3. QED BY <1>18, <2>1, <4>1, <4>2 DEF Past
      <3>3. QED BY <3>1, <3>2
    <2>3. Past(s, i + 1, start) BY <1>9, <2>1, <2>2 DEF Past
    <2>4. Past(s, i + 1, p) BY <1>16, <2>1, <2>3
    <2>5. CASE p = start BY <2>2, <2>5
    <2>6. CASE p.off = 0 BY <1>17, <2>1, <2>4, <2>6 DEF Past
    <2>7. QED BY <1>16, <2>5, <2>6
  <1>19. ASSUME NEW s \in D, NEW i \in 1..Len(fixed[s]), Past(s, i, p)
         PROVE  Past(s, i, cp)
    <2>1. s \in Nat /\ s > 0 /\ i \in Nat /\ i <= Len(fixed[s]) BY <1>3, <1>13
    <2>2. Past(s, i, start) BY <1>9, <1>16, <1>17, <1>19, <2>1 DEF Past
    <2>3. CASE cp.seq = 0 BY <2>1, <2>3 DEF Past
    <2>4. CASE cp.seq # 0 /\ off = cp.off BY <1>9, <2>2, <2>4 DEF Past
    <2>5. CASE cp.seq # 0 /\ off # cp.off
      <3>1. cp.seq = last /\ start.seq = last /\ start.off = Len(f) /\ Len(f) \in Nat
        BY <1>4, <1>3, <1>6, <1>9, <2>5 DEF f
      <3>2. s <= last /\ last \in Nat BY <1>3
      <3>3. ASSUME s = last PROVE FALSE
        <4>1. i > Len(f) BY <2>1, <2>2, <3>1, <3>3 DEF Past
        <4>2. Len(fixed[last]) \in from..Len(f) /\ from \in Nat BY <1>6, <1>10
        <4>3. QED BY <2>1, <3>1, <3>3, <4>1, <4>2
      <3>4. QED BY <2>1, <2>2, <3>1, <3>2, <3>3 DEF Past
    <2>6. QED BY <2>3, <2>4, <2>5
  <1>20. Starts(fixed, cp)
    <2>1. SUFFICES ASSUME cp.seq \in D, cp.off + 1 <= Len(fixed[cp.seq])
                   PROVE  fixed[cp.seq][cp.off + 1] # NL
      BY <1>7 DEF Starts
    <2>2. cp.off + 1 \in 1..Len(fixed[cp.seq]) BY <1>2, <1>13, <2>1
    <2>3. cp.off + 1 \in 1..Len(files[cp.seq]) /\ fixed[cp.seq][cp.off + 1] = files[cp.seq][cp.off + 1]
      BY <1>13, <2>1, <2>2
    <2>4. cp.off + 1 <= Len(files[cp.seq]) BY <2>3
    <2>5. QED BY <1>2, <2>1, <2>3, <2>4 DEF Starts, D
  <1>21. Starts(fixed, p)
    <2>1. SUFFICES ASSUME p.off + 1 <= Len(fixed[p.seq]), fixed[p.seq][p.off + 1] = NL PROVE FALSE
      BY DEF Starts
    <2>2. Len(fixed[p.seq]) \in Nat BY <1>13, <1>16
    <2>3. CASE p.off = 0
      <3>1. 1 \in 1..Len(fixed[p.seq]) /\ fixed[p.seq][1] = NL BY <2>1, <2>2, <2>3
      <3>2. p.seq \in DOMAIN fixed BY <1>7, <1>16
      <3>3. 1 > 1 BY <1>12, <3>1, <3>2 DEF Written
      <3>4. QED BY <3>3
    <2>4. CASE p.off # 0
      <3>1. p = start /\ cp.seq # 0 /\ p.seq = cp.seq /\ p.off = off BY <1>9, <1>16, <2>4
      <3>2. CASE off = cp.off BY <1>7, <1>16, <1>20, <2>1, <3>1, <3>2 DEF Starts
      <3>3. CASE off # cp.off
        <4>1. p.seq = last /\ p.off = Len(f) BY <1>6, <3>1, <3>3
        <4>2. Len(fixed[last]) \in from..Len(f) /\ Len(f) \in Nat /\ from \in Nat
          BY <1>3, <1>4, <1>6, <1>10 DEF f
        <4>3. QED BY <2>1, <4>1, <4>2
      <3>4. QED BY <3>2, <3>3
    <2>5. QED BY <2>3, <2>4
  <1>22. TypeInv'
    <2>1. cp' \in [seq : Nat, off : Nat, dropped : Nat] BY <1>2, <1>5, <1>17
    <2>2. acked' \in Cursor /\ dropped' \in Nat /\ up' \in BOOLEAN BY <1>1, <1>2, <1>5, <1>16
    <2>3. Disk(files') BY <1>5, <1>12
    <2>4. delivered' = delivered /\ stack' = stack OBVIOUS
    <2>5. QED BY <1>0, <1>1, <2>1, <2>2, <2>3, <2>4 DEF TypeInv
  <1>23. /\ Starts(fixed, cp') /\ cp'.seq <= last /\ AtMost(cp', p) /\ cp'.dropped = cp.dropped
         /\ cp' = cp \/ (cp'.seq = p.seq /\ cp'.off = p.off)
    <2>1. CASE off # cp.off
      <3>1. cp'.seq = p.seq /\ cp'.off = p.off /\ cp'.dropped = cp.dropped BY <1>5, <2>1
      <3>2. p.seq <= last BY <1>3, <1>16
      <3>3. QED BY <1>17, <1>21, <3>1, <3>2 DEF Starts, AtMost
    <2>2. CASE off = cp.off
      <3>1. cp' = cp BY <1>5, <2>2
      <3>2. AtMost(cp, p)
        <4>1. CASE cp.seq = 0
          <5>1. start.seq > 0 BY <1>3, <1>9, <4>1
          <5>2. p.seq > 0 BY <1>9, <1>16, <1>17, <5>1
          <5>3. QED BY <4>1, <5>2 DEF AtMost
        <4>2. CASE cp.seq # 0
          <5>1. start.seq = cp.seq /\ start.off = cp.off BY <1>9, <2>2, <4>2
          <5>2. QED BY <1>2, <1>16, <1>17, <5>1 DEF AtMost
        <4>3. QED BY <4>1, <4>2
      <3>3. QED BY <1>2, <1>20, <3>1, <3>2
    <2>3. QED BY <2>1, <2>2
  <1>24. DiskInv'
    <2>1. Complete(fixed, kept \ cut)
      <3>1. SUFFICES ASSUME NEW s \in D, NEW i \in 1..Len(fixed[s]), fixed[s][i] \in kept \ cut
                     PROVE  HasLine(fixed[s], i)
        BY <1>7 DEF Complete
      <3>2. i \in 1..Len(files[s]) /\ fixed[s][i] = files[s][i] BY <1>13
      <3>3. HasLine(files[s], i) BY <1>2, <3>1, <3>2 DEF Complete, D
      <3>4. QED BY <1>14, <3>2, <3>3
    <2>2. Absent(fixed, evicted)
      <3>1. ASSUME NEW s \in D, NEW i \in 1..Len(fixed[s]) PROVE fixed[s][i] \notin evicted
        <4>1. i \in 1..Len(files[s]) /\ fixed[s][i] = files[s][i] BY <1>13
        <4>2. QED BY <1>2, <4>1 DEF Absent, D
      <3>2. QED BY <1>7, <3>1 DEF Absent
    <2>3. cp'.seq <= Max(DOMAIN fixed) BY <1>7, <1>23 DEF last, D
    <2>4. QED BY <1>1, <1>5, <1>12, <1>23, <2>1, <2>2, <2>3 DEF DiskInv
  <1>25. UpInv'
    <2>1. found \in [DOMAIN fixed -> Nat] BY <1>7, <1>13 DEF found, D
    <2>2. \A s \in DOMAIN fixed : SizeOK(fixed[s], From(s, p), found[s])
      <3>1. ASSUME NEW s \in D PROVE SizeOK(fixed[s], From(s, p), found[s])
        <4>1. found[s] = Len(fixed[s]) /\ fixed[s] \in Contents BY <1>8, <1>13
        <4>2. SizeOK(fixed[s], From(s, p), Len(fixed[s])) BY <4>1, SizeMeasured
        <4>3. QED BY <4>1, <4>2
      <3>2. QED BY <1>7, <3>1
    <2>3. p.seq \in DOMAIN fixed /\ p.off <= Len(fixed[p.seq]) BY <1>7, <1>16
    <2>4. hold' # "evict" BY <1>1
    <2>5. QED BY <1>5, <1>21, <1>23, <2>1, <2>2, <2>3, <2>4 DEF UpInv
  <1>26. CountInv' BY <1>0, <1>1, <1>23 DEF CountInv
  <1>27. LossInv'
    <2>1. ASSUME NEW r \in kept PROVE r \in Done \cup evicted \cup cut \/ Lies(fixed, r, p)
      <3>1. r \in Done \cup evicted \cup cut \/ Lies(files, r, cp)
        BY <1>0, <1>1 DEF LossInv, Place
      <3>2. CASE Lies(files, r, cp) /\ r \notin cut
        <4>1. PICK s \in D : \E i \in 1..Len(files[s]) : Past(s, i, cp) /\ files[s][i] = r
          BY <3>2 DEF Lies, D
        <4>2. PICK i \in 1..Len(files[s]) : Past(s, i, cp) /\ files[s][i] = r BY <4>1
        <4>3. HasLine(files[s], i) BY <1>2, <2>1, <3>2, <4>2 DEF Complete, D
        <4>4. i \in 1..Len(fixed[s]) /\ HasLine(fixed[s], i) /\ fixed[s][i] = r BY <1>14, <4>2, <4>3
        <4>5. Past(s, i, p) BY <1>18, <4>2, <4>4
        <4>6. QED BY <1>7, <4>4, <4>5 DEF Lies
      <3>3. QED BY <3>1, <3>2
    <2>2. Done' = Done BY DEF Done
    <2>3. QED BY <1>1, <1>5, <2>1, <2>2 DEF LossInv, Place
  <1>28. OrderInv'
    <2>1. SeenPast(fixed, p, ToSet(delivered))
      <3>1. SUFFICES ASSUME NEW s \in D, NEW i \in 1..Len(fixed[s]),
                            HasLine(fixed[s], i), Past(s, i, p),
                            NEW d \in ToSet(delivered), fixed[s][i] < d
                     PROVE  fixed[s][i] \in ToSet(delivered) \cup Big
        BY <1>7 DEF SeenPast
      <3>2. i \in 1..Len(files[s]) /\ HasLine(files[s], i) /\ files[s][i] = fixed[s][i] BY <1>15, <3>1
      <3>3. Past(s, i, cp) BY <1>19, <3>1
      <3>4. SeenPast(files, cp, ToSet(delivered)) BY <1>0, <1>1 DEF OrderInv, Place
      <3>5. QED BY <3>1, <3>2, <3>3, <3>4 DEF SeenPast, D
    <2>2. SeenBetween(fixed, cp', p, ToSet(delivered))
      <3>1. SUFFICES ASSUME NEW s \in D, NEW i \in 1..Len(fixed[s]),
                            HasLine(fixed[s], i), Past(s, i, cp'), ~Past(s, i, p)
                     PROVE  FALSE
        BY <1>7 DEF SeenBetween
      <3>2. CASE cp' = cp BY <1>18, <3>1, <3>2
      <3>3. CASE cp'.seq = p.seq /\ cp'.off = p.off BY <3>1, <3>3 DEF Past
      <3>4. QED BY <1>23, <3>2, <3>3
    <2>3. ArrivesInOrder' BY <1>0 DEF OrderInv, ArrivesInOrder
    <2>4. QED BY <1>1, <1>5, <2>1, <2>2, <2>3 DEF OrderInv, Place
  <1>29. SenderInv'
    <2>1. pc = "idle" BY <1>0, <1>1 DEF SenderInv
    <2>2. QED BY <2>1 DEF SenderInv
  <1>30. QED BY <1>22, <1>24, <1>25, <1>26, <1>27, <1>28, <1>29 DEF Inv

-----------------------------------------------------------------------------
(* The theorems *)

\* At the start there is one empty segment.
LEMMA InitInv ==
  ASSUME ShipperInit PROVE Inv
  <1>1. /\ up = TRUE /\ files = [s \in {1} |-> <<>>] /\ segs = [s \in {1} |-> 0]
        /\ cp = [seq |-> 0, off |-> 0, dropped |-> 0] /\ acked = [seq |-> 1, off |-> 0]
        /\ dropped = 0 /\ hold = "none"
        /\ born = 0 /\ kept = {} /\ evicted = {} /\ cut = {} /\ forgot = FALSE
        /\ pc = "idle" /\ stack = <<>> /\ delivered = <<>>
    BY DEF ShipperInit, SpoolInit
  <1>2. DOMAIN files = {1} /\ files[1] = <<>> /\ Len(files[1]) = 0 BY <1>1
  <1>3. Interval({1}) /\ Min({1}) = 1 /\ Max({1}) = 1
    <2>1. 1..1 = {1} /\ 1 \in Nat \ {0} /\ 1 <= 1 OBVIOUS
    <2>2. Interval(1..1) /\ Min(1..1) = 1 /\ Max(1..1) = 1 BY <2>1, EndsOfInterval
    <2>3. QED BY <2>1, <2>2
  <1>4. files[1] \in Contents BY <1>2 DEF Contents
  <1>5. Disk(files)
    <2>1. files \in [{1} -> Contents] BY <1>1, <1>2, <1>4
    <2>2. QED BY <1>2, <1>3, <2>1 DEF Disk
  <1>6. \A s \in DOMAIN files : ~ \E i \in 1..Len(files[s]) : TRUE BY <1>2
  <1>7. TypeInv
    <2>1. acked \in Cursor /\ cp \in [seq : Nat, off : Nat, dropped : Nat] BY <1>1 DEF Cursor
    <2>2. <<>> \in Seq(1..born) /\ <<>> \in Seq(Nat \ {0}) OBVIOUS
    <2>3. QED BY <1>1, <1>5, <2>1, <2>2 DEF TypeInv
  <1>8. DiskInv
    <2>1. Written(files, born) BY <1>6 DEF Written
    <2>2. Complete(files, kept \ cut) /\ Absent(files, evicted) BY <1>1 DEF Complete, Absent
    <2>3. cp.seq = 0 /\ cp.seq <= Max(DOMAIN files) BY <1>1, <1>2, <1>3
    <2>4. Starts(files, cp) BY <1>2, <2>3 DEF Starts
    <2>5. QED BY <2>1, <2>2, <2>3, <2>4 DEF DiskInv
  <1>9. UpInv
    <2>1. segs \in [DOMAIN files -> Nat] BY <1>1, <1>2
    <2>2. acked.seq = 1 /\ acked.off = 0 /\ cp.seq = 0 BY <1>1
    <2>3. Starts(files, acked) BY <1>2, <2>2 DEF Starts
    <2>4. AtMost(cp, acked) BY <2>2 DEF AtMost
    <2>5. SizeOK(files[1], From(1, acked), segs[1])
      <3>1. segs[1] = Len(files[1]) BY <1>1, <1>2
      <3>2. SizeOK(files[1], From(1, acked), Len(files[1])) BY <1>4, SizeMeasured
      <3>3. QED BY <3>1, <3>2
    <2>6. \A s \in DOMAIN files : SizeOK(files[s], From(s, acked), segs[s]) BY <1>2, <2>5
    <2>7. hold # "evict" BY <1>1
    <2>8. QED BY <1>2, <2>1, <2>2, <2>3, <2>4, <2>6, <2>7 DEF UpInv
  <1>10. CountInv BY <1>1, FS_EmptySet DEF CountInv
  <1>11. LossInv BY <1>1 DEF LossInv
  <1>12. OrderInv
    <2>1. ArrivesInOrder BY <1>1 DEF ArrivesInOrder
    <2>2. SeenPast(files, Place, ToSet(delivered)) BY <1>6 DEF SeenPast
    <2>3. SeenBetween(files, cp, acked, ToSet(delivered)) BY <1>6 DEF SeenBetween
    <2>4. QED BY <2>1, <2>2, <2>3 DEF OrderInv
  <1>13. SenderInv BY <1>1 DEF SenderInv
  <1>14. QED BY <1>7, <1>8, <1>9, <1>10, <1>11, <1>12, <1>13 DEF Inv

\* Nothing happens.
LEMMA StutterInv ==
  ASSUME Inv, UNCHANGED shipperVars PROVE Inv'
  BY DEF Inv, TypeInv, DiskInv, UpInv, CountInv, LossInv, OrderInv, SenderInv, Place, Done,
         ArrivesInOrder, TooLarge

\* Every step keeps the invariant.
LEMMA NextInv ==
  ASSUME Inv, ShipperNext PROVE Inv'
  <1>1. CASE SpoolWorks
    <2>1. UNCHANGED <<senderVars, delivered, oversized>> BY <1>1 DEF SpoolWorks
    <2>2. CASE AppendRolls BY <2>1, <2>2, RollInv
    <2>3. CASE AppendWrites BY <2>1, <2>3, WriteInv
    <2>4. CASE AppendShort BY <2>1, <2>4, ShortInv
    <2>5. CASE AppendClosed \/ RollFails BY <2>1, <2>5, ClosedInv
    <2>6. CASE PersistSince BY <2>1, <2>6, PersistInv
    <2>7. QED BY <1>1, <2>2, <2>3, <2>4, <2>5, <2>6 DEF SpoolWorks
  <1>2. CASE SpoolGoesOn
    <2>1. UNCHANGED <<senderVars, delivered, oversized>> BY <1>2 DEF SpoolGoesOn
    <2>2. CASE AppendWrites BY <2>1, <2>2, WriteInv
    <2>3. CASE Evict BY <2>1, <2>3, EvictInv
    <2>4. CASE Persist BY <2>1, <2>4, PersistInv
    <2>5. CASE Open BY <2>1, <2>5, OpenInv
    <2>6. QED BY <1>2, <2>2, <2>3, <2>4, <2>5 DEF SpoolGoesOn
  <1>3. CASE Sender
    <2>1. CASE SenderPeeks BY <2>1, PeeksInv
    <2>2. CASE SenderReads BY <2>2, ReadsInv
    <2>3. CASE SenderAcks \/ SenderDropsOversized BY <2>3, AckInv
    <2>4. CASE SenderSplits \/ SenderRetries BY <2>4, SplitsInv
    <2>5. QED BY <1>3, <2>1, <2>2, <2>3, <2>4 DEF Sender
  <1>4. CASE Server
    <2>1. CASE ServerTakes BY <2>1, TakesInv
    <2>2. CASE ServerTooLarge \/ ServerRefuses \/ PostFails BY <2>2, RefusesInv
    <2>3. QED BY <1>4, <2>1, <2>2 DEF Server
  <1>5. CASE ShipperDies BY <1>5, DiesInv
  <1>6. QED BY <1>1, <1>2, <1>3, <1>4, <1>5 DEF ShipperNext

\* The invariant, always.
THEOREM ShipperInvariant == ShipperSpec => []Inv
  <1>1. ASSUME Inv, [ShipperNext]_shipperVars PROVE Inv'
    <2>1. CASE ShipperNext BY <1>1, <2>1, NextInv
    <2>2. CASE UNCHANGED shipperVars BY <1>1, <2>2, StutterInv
    <2>3. QED BY <1>1, <2>1, <2>2
  <1>2. QED BY <1>1, InitInv, PTL DEF ShipperSpec

\* NothingLost: whatever is evicted, split, retried, cut off or restarted, a
\* record Append wrote is at the server, counted as oversized or evicted, taken
\* by a power loss, or still ahead of the ack position.
THEOREM ShipperLosesNothing == ShipperSpec => []NothingLost
  <1>1. ASSUME Inv PROVE NothingLost
    <2>1. SUFFICES ASSUME up, NEW r \in kept
                   PROVE  r \in Done \cup evicted \cup cut \cup Ahead(acked)
      BY DEF NothingLost
    <2>2. /\ DOMAIN files \subseteq Nat \ {0} /\ acked.seq \in Nat /\ acked.off \in Nat
          /\ \A s \in DOMAIN files : Len(files[s]) \in Nat
      BY <1>1, <2>1, UpFacts
    <2>3. r \in Done \cup evicted \cup cut \/ Lies(files, r, acked)
      BY <1>1, <2>1 DEF Inv, LossInv, Place
    <2>4. CASE Lies(files, r, acked)
      <3>1. PICK s \in DOMAIN files : \E i \in 1..Len(files[s]) : Past(s, i, acked) /\ files[s][i] = r
        BY <2>4 DEF Lies
      <3>2. PICK i \in 1..Len(files[s]) : Past(s, i, acked) /\ files[s][i] = r BY <3>1
      <3>3. s \in {t \in DOMAIN files : t >= acked.seq} BY <2>2, <3>2 DEF Past
      <3>4. i \in {k \in 1..Len(files[s]) : s > acked.seq \/ k > acked.off} BY <3>2 DEF Past
      <3>5. r \in {files[s][k] : k \in {j \in 1..Len(files[s]) : s > acked.seq \/ j > acked.off}}
        BY <3>2, <3>4
      <3>6. QED BY <3>3, <3>5 DEF Ahead
    <2>5. QED BY <2>3, <2>4
  <1>2. QED BY <1>1, ShipperInvariant, PTL

\* DroppedExact: the count of dropped records is exact, across restarts too,
\* unless the process died between an eviction and its checkpoint.
THEOREM ShipperCountsDropped == ShipperSpec => []DroppedExact
  <1>1. ASSUME Inv PROVE DroppedExact BY <1>1 DEF Inv, CountInv, DroppedExact
  <1>2. QED BY <1>1, ShipperInvariant, PTL

\* ArrivesInOrder: the server first sees the records in the order they were
\* appended.
THEOREM ShipperKeepsOrder == ShipperSpec => []ArrivesInOrder
  <1>1. ASSUME Inv PROVE ArrivesInOrder BY <1>1 DEF Inv, OrderInv
  <1>2. QED BY <1>1, ShipperInvariant, PTL

=============================================================================
