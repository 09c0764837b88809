----------------------------- MODULE ReadProofs -----------------------------
(***************************************************************************)
(* Queries beside the writers: what a search, a lookup or a context        *)
(* answers, for any projects, limits and restarts.                         *)
(***************************************************************************)
EXTENDS LogReads, StoreProofs

USE DEF walVars, segVars, metaVars, lockVars, idVars, history, ghosts

-----------------------------------------------------------------------------
(* The n first of a finite set, in a strict total order *)

\* R orders S strictly and totally.
Orders(R, S) ==
  /\ \A a \in S : <<a, a>> \notin R
  /\ \A a, b \in S : a = b \/ <<a, b>> \in R \/ <<b, a>> \in R
  /\ \A a, b, c \in S : <<a, b>> \in R /\ <<b, c>> \in R => <<a, c>> \in R

\* Those that come after a, and the n last.
After(R, S, a) == {x \in S : <<a, x>> \in R}
LastOf(R, S, n) == {a \in S : Cardinality(After(R, S, a)) < n}

\* What is after has fewer after it.
LEMMA AfterShrinks ==
  ASSUME NEW S, IsFiniteSet(S), NEW R, Orders(R, S), NEW a \in S, NEW b \in S, <<a, b>> \in R
  PROVE  /\ Cardinality(After(R, S, a)) \in Nat /\ Cardinality(After(R, S, b)) \in Nat
         /\ Cardinality(After(R, S, b)) < Cardinality(After(R, S, a))
  <1>1. After(R, S, a) \in SUBSET S BY DEF After
  <1>2. After(R, S, b) \in SUBSET After(R, S, a) BY DEF After, Orders
  <1>3. IsFiniteSet(After(R, S, a)) BY <1>1, FS_Subset
  <1>4. IsFiniteSet(After(R, S, b)) BY <1>2, <1>3, FS_Subset
  <1>5. Cardinality(After(R, S, a)) \in Nat /\ Cardinality(After(R, S, b)) \in Nat
    BY <1>3, <1>4, FS_CardinalityType
  <1>6. Cardinality(After(R, S, b)) <= Cardinality(After(R, S, a)) BY <1>2, <1>3, FS_Subset
  <1>7. Cardinality(After(R, S, b)) # Cardinality(After(R, S, a))
    <2>1. b \in After(R, S, a) /\ b \notin After(R, S, b) BY DEF After, Orders
    <2>2. QED BY <1>2, <1>3, <2>1, FS_Subset
  <1>8. QED BY <1>5, <1>6, <1>7

\* So each of 0..Cardinality(S)-1 is the number of those after some member of S.
LEMMA AfterCounts ==
  ASSUME NEW S, IsFiniteSet(S), NEW R, Orders(R, S), NEW k \in Nat, k < Cardinality(S)
  PROVE  \E a \in S : Cardinality(After(R, S, a)) = k
  <1> DEFINE rank == [a \in S |-> Cardinality(After(R, S, a))]
             below == 0..Cardinality(S) - 1
  <1>1. Cardinality(S) \in Nat BY FS_CardinalityType
  <1>2. ASSUME NEW a \in S PROVE rank[a] \in below
    <2>1. After(R, S, a) \in SUBSET S BY DEF After
    <2>2. IsFiniteSet(After(R, S, a)) /\ Cardinality(After(R, S, a)) <= Cardinality(S)
          /\ (Cardinality(S) = Cardinality(After(R, S, a)) => S = After(R, S, a))
      BY <2>1, FS_Subset
    <2>3. Cardinality(After(R, S, a)) \in Nat BY <2>2, FS_CardinalityType
    <2>4. S # After(R, S, a) BY DEF After, Orders
    <2>5. QED BY <1>1, <2>2, <2>3, <2>4
  <1>3. ASSUME NEW a \in S, NEW b \in S, a # b PROVE rank[a] # rank[b]
    <2>1. <<a, b>> \in R \/ <<b, a>> \in R BY <1>3 DEF Orders
    <2>2. QED BY <2>1, AfterShrinks
  <1>4. rank \in Injection(S, below) BY <1>2, <1>3 DEF Injection, IsInjective
  <1>5. IsFiniteSet(below) /\ Cardinality(below) = Cardinality(S)
    <2>1. 0 \in Int /\ Cardinality(S) - 1 \in Int BY <1>1
    <2>2. /\ IsFiniteSet(below)
          /\ Cardinality(below) = IF 0 > Cardinality(S) - 1 THEN 0 ELSE Cardinality(S) - 1 - 0 + 1
      BY <2>1, FS_Interval
    <2> HIDE DEF below
    <2>3. QED BY <1>1, <2>2
  <1> HIDE DEF below
  <1>6. rank \in Surjection(S, below) BY <1>4, <1>5, FS_Injection
  <1>7. k \in below BY <1>1 DEF below
  <1>8. \E a \in S : rank[a] = k BY <1>6, <1>7 DEF Surjection
  <1>9. QED BY <1>8

\* Where n members come after r, the n last are n, and after r; r need not be
\* a member.
LEMMA LastAreLater ==
  ASSUME NEW S, IsFiniteSet(S), NEW R, NEW r, Orders(R, S \cup {r}), NEW n \in Nat,
         n <= Cardinality(After(R, S, r))
  PROVE  /\ Cardinality(LastOf(R, S, n)) = n /\ IsFiniteSet(LastOf(R, S, n))
         /\ \A q \in LastOf(R, S, n) : <<r, q>> \in R
  <1> DEFINE T == LastOf(R, S, n)
             rank == [a \in T |-> Cardinality(After(R, S, a))]
             below == 0..n - 1
  <1>0. Orders(R, S) BY DEF Orders
  <1>1. /\ After(R, S, r) \in SUBSET S /\ T \in SUBSET S BY DEF After, LastOf
  <1>2. IsFiniteSet(T) BY <1>1, FS_Subset
  <1>3. n <= Cardinality(S) /\ Cardinality(S) \in Nat /\ Cardinality(After(R, S, r)) \in Nat
    <2>1. IsFiniteSet(After(R, S, r)) /\ Cardinality(After(R, S, r)) <= Cardinality(S)
      BY <1>1, FS_Subset
    <2>2. QED BY <2>1, FS_CardinalityType
  <1>4. ASSUME NEW a \in T PROVE rank[a] \in below
    <2>1. After(R, S, a) \in SUBSET S BY DEF After
    <2>2. IsFiniteSet(After(R, S, a)) BY <2>1, FS_Subset
    <2>3. Cardinality(After(R, S, a)) \in Nat BY <2>2, FS_CardinalityType
    <2>4. QED BY <2>3 DEF LastOf
  <1>5. ASSUME NEW a \in T, NEW b \in T, a # b PROVE rank[a] # rank[b]
    <2>1. <<a, b>> \in R \/ <<b, a>> \in R BY <1>0, <1>1, <1>5 DEF Orders
    <2>2. QED BY <1>0, <1>1, <2>1, AfterShrinks
  <1>6. ASSUME NEW k \in below PROVE \E a \in T : rank[a] = k
    <2>1. k \in Nat /\ k < Cardinality(S) /\ k < n BY <1>3
    <2>2. PICK a \in S : Cardinality(After(R, S, a)) = k BY <1>0, <2>1, AfterCounts
    <2>3. QED BY <2>1, <2>2 DEF LastOf
  <1>7. IsFiniteSet(below) /\ Cardinality(below) = n BY FS_Interval
  <1>8. rank \in Injection(T, below) BY <1>4, <1>5 DEF Injection, IsInjective
  <1>9. rank \in Surjection(T, below) BY <1>4, <1>6 DEF Surjection
  <1>10. Cardinality(T) = n
    <2> HIDE DEF T, rank, below
    <2>1. QED BY <1>7, <1>8, <1>9, FS_Injection
  <1>11. ASSUME NEW q \in T PROVE <<r, q>> \in R
    <2>1. Cardinality(After(R, S, q)) < n BY DEF LastOf
    <2>2. q \in S /\ Cardinality(After(R, S, q)) \in Nat BY <1>1, <1>4
    <2>3. ~(After(R, S, r) \in SUBSET After(R, S, q))
      <3>1. IsFiniteSet(After(R, S, q))
        <4>1. After(R, S, q) \in SUBSET S BY DEF After
        <4>2. QED BY <4>1, FS_Subset
      <3>2. ASSUME After(R, S, r) \in SUBSET After(R, S, q) PROVE FALSE
        <4>1. Cardinality(After(R, S, r)) <= Cardinality(After(R, S, q)) BY <3>1, <3>2, FS_Subset
        <4>2. QED BY <1>3, <2>1, <2>2, <4>1
      <3>3. QED BY <3>2
    <2>4. q # r BY <2>3
    <2>5. <<q, r>> \notin R BY <2>2, <2>3 DEF After, Orders
    <2>6. QED BY <2>2, <2>4, <2>5 DEF Orders
  <1>12. QED BY <1>2, <1>10, <1>11

-----------------------------------------------------------------------------
(* An entry that a query holds.  It may have left the manifest, but no name *)
(* and no manifest id of it is given again: its file is the one it was      *)
(* listed with, or gone.                                                    *)
HeldOK(p, e) ==
  /\ e \in Entry /\ NameOK(p, e)
  /\ \A x \in InUse(p) : Apart(e, x)
  /\ \A x \in manifest[p] : Later(x, e)
  /\ \A f \in files[p] : f.path = e.path => f.rows = e.rows

\* A listed entry is one that may be held.
LEMMA ListedHeld ==
  ASSUME Inv, SegInv, NEW p \in Projects, NEW e \in manifest[p] PROVE HeldOK(p, e)
  <1>1. e \in InUse(p) /\ e \in Entry BY InUseType
  <1>2. QED BY <1>1 DEF HeldOK, SegInv, Names, FilesOK

\* The numbers that names are drawn from grow while the process is up.
NumbersGrow(p) ==
  /\ nextMid <= nextMid' /\ Flushes(p) <= Flushes(p)' /\ nextLogID <= nextLogID'
  /\ \A r \in mem'[p] \cup writer'.batch[p] : r \in mem[p] \cup writer.batch[p] \/ nextLogID < r.id

\* A segment that comes, and a file that is written, are not of the entry e.
ApartFrom(p, e) ==
  /\ \A x \in InUse(p)' : x \in InUse(p) \/ (x.mid \in Nat /\ nextMid < x.mid /\ x.path # e.path)
  /\ \A x \in manifest'[p] :
       x \in manifest[p] \/ (Base(x.path) = Base(e.path) => e.path.pruned < x.path.pruned)
  /\ \A f \in files'[p] : f \in files[p] \/ f.path # e.path

\* Then it is held on.
LEMMA HeldStep ==
  ASSUME Inv, Inv', NEW p \in Projects, NEW e, HeldOK(p, e), phase = "up", NumbersGrow(p), ApartFrom(p, e)
  PROVE  HeldOK(p, e)'
  <1>1. /\ nextMid \in Nat /\ nextMid' \in Nat /\ nextLogID \in Nat /\ nextLogID' \in Nat
        /\ Flushes(p) \in Int /\ Flushes(p)' \in Int
    BY DEF Flushes, Inv, TypeOK, SegTypes, ProcessTypes
  <1>2. e \in Entry /\ e.mid \in Nat /\ e.path \in Path /\ e.path.num \in Nat /\ e.path.first \in Nat
    BY DEF HeldOK, Entry, Path
  <1>3. NameOK(p, e)'
    <2>1. NameOK(p, e) BY DEF HeldOK
    <2>2. e.mid <= nextMid' /\ (e.path.kind = "merged" => e.path.num <= nextMid')
      BY <1>1, <1>2, <2>1 DEF NameOK, NumbersGrow
    <2>3. ASSUME e.path.kind = "flush" PROVE e.path.num <= Flushes(p)' \/ Above(p, e.path.first)'
      <3>1. CASE e.path.num <= Flushes(p) BY <1>1, <1>2, <3>1 DEF NumbersGrow
      <3>2. CASE Above(p, e.path.first)
        <4>1. \A r \in mem'[p] \cup writer'.batch[p] : r.id \in Nat
          BY DEF Inv, TypeOK, WalTypes, WriterTypes, Row
        <4>2. QED BY <1>1, <1>2, <3>2, <4>1 DEF NumbersGrow, Above
      <3>3. QED BY <2>1, <2>3, <3>1, <3>2 DEF NameOK
    <2>4. QED BY <2>1, <2>2, <2>3 DEF NameOK
  <1>4. ASSUME NEW x \in InUse(p)' PROVE Apart(e, x)
    <2>1. CASE x \in InUse(p) BY <2>1 DEF HeldOK
    <2>2. CASE x.mid \in Nat /\ nextMid < x.mid /\ x.path # e.path
      <3>1. e.mid <= nextMid /\ (e.path.kind = "merged" => e.path.num <= nextMid) BY DEF HeldOK, NameOK
      <3>2. e.mid # x.mid /\ (e.path.kind = "merged" => e.path.num # x.mid)
        BY <1>1, <1>2, <2>2, <3>1
      <3>3. QED BY <2>2, <3>2 DEF Apart
    <2>3. QED BY <2>1, <2>2 DEF ApartFrom
  <1>5. \A x \in manifest'[p] : Later(x, e) BY DEF HeldOK, Later, ApartFrom
  <1>6. \A f \in files'[p] : f.path = e.path => f.rows = e.rows BY DEF HeldOK, ApartFrom
  <1>7. QED BY <1>2, <1>3, <1>4, <1>5, <1>6 DEF HeldOK
\* A listed segment's rewrite is not an entry that is held.
LEMMA HeldRewrite ==
  ASSUME Inv, SegInv, NEW p \in Projects, NEW c \in manifest[p], NEW e, HeldOK(p, e)
  PROVE  /\ PrunedPath(c.path) # e.path
         /\ Base(PrunedPath(c.path)) = Base(e.path) => e.path.pruned < PrunedPath(c.path).pruned
  <1>1. c.path \in Path /\ e.path \in Path
    BY InUseType DEF HeldOK, Entry
  <1>2. /\ PrunedPath(c.path).pruned = c.path.pruned + 1
        /\ Base(PrunedPath(c.path)) = Base(c.path) /\ c.path.pruned \in Nat /\ e.path.pruned \in Nat
    BY <1>1, RewrittenName DEF Path
  <1>3. Base(c.path) = Base(e.path) => c = e \/ e.path.pruned < c.path.pruned
    BY DEF HeldOK, Later
  <1>4. QED BY <1>2, <1>3

\* Nor is a flush's file.
LEMMA HeldFlush ==
  ASSUME Inv, phase = "up", NEW p \in Projects, NEW r \in mem[p], NEW e, HeldOK(p, e),
         NEW n \in Nat, Flushes(p) < n
  PROVE  e.path # FlushPath(n, r.id) /\ Base(e.path) # Base(FlushPath(n, r.id))
  <1>1. Flushes(p) \in Int /\ r.id \in Nat /\ e.path \in Path /\ e.path.num \in Nat
    BY DEF HeldOK, Flushes, Inv, TypeOK, ProcessTypes, WalTypes, Row, Entry, Path
  <1>2. ~(e.path.kind = "flush" /\ e.path.first = r.id /\ e.path.num = n)
    <2>1. ASSUME e.path.kind = "flush" PROVE e.path.num <= Flushes(p) \/ Above(p, e.path.first)
      BY <2>1 DEF HeldOK, NameOK
    <2>2. ~Above(p, r.id) BY <1>1 DEF Above
    <2>3. QED BY <1>1, <2>1, <2>2
  <1>3. FlushPath(n, r.id) \in Path BY <1>1, FlushPathType
  <1>4. QED BY <1>1, <1>2, <1>3 DEF Base, Path, FlushPath

\* Nor is a merge's, while its members are in use.
LEMMA HeldMerge ==
  ASSUME NEW p \in Projects, NEW m \in InUse(p), NEW e, HeldOK(p, e), NEW path \in Path,
         path.kind = "merged", path.num = m.mid
  PROVE  e.path # path /\ Base(e.path) # Base(path)
  <1>1. e.path \in Path BY DEF HeldOK, Entry
  <1>2. e.path.kind = "merged" => e.path.num # m.mid BY DEF HeldOK, Apart
  <1>3. QED BY <1>1, <1>2 DEF Base, Path
\* A step that adds no segment and writes no file keeps out of e's way.
LEMMA ApartQuiet ==
  ASSUME NEW p \in Projects, NEW e, InUse(p)' \subseteq InUse(p), manifest'[p] \subseteq manifest[p],
         files'[p] \subseteq files[p]
  PROVE  ApartFrom(p, e)
  BY DEF ApartFrom

\* So does the first step of a flush.
LEMMA ApartWrite ==
  ASSUME Inv, SegInv, NEW o \in Projects, NEW who, WriteSegment(o, who),
         UNCHANGED <<manifest, compact>>,
         prune' = prune \/ (prune.stage = "idle" /\ prune'.stage = "flush"),
         NEW p \in Projects, NEW e, HeldOK(p, e)
  PROVE  ApartFrom(p, e)
  <1>1. PICK r \in mem[o] :
          files' = [files EXCEPT ![o] = Put(@, FlushPath(seq[o] + 1, r.id), mem[o])]
    BY DEF WriteSegment
  <1>2. phase = "up" /\ stage[o] = "none" /\ seq[o] \in Nat
    BY DEF WriteSegment, Inv, TypeOK, ProcessTypes, LockHeld, HolderAtWork
  <1>3. InUse(p)' \subseteq InUse(p) BY DEF InUse, Planned, Waiting, InPrune
  <1>4. \A f \in files'[p] : f \in files[p] \/ f.path # e.path
    <2>1. CASE p # o BY <1>1, <2>1
    <2>2. CASE p = o
      <3>1. Flushes(p) < seq[p] + 1 /\ seq[p] + 1 \in Nat BY <1>2, <2>2 DEF Flushes
      <3>2. e.path # FlushPath(seq[p] + 1, r.id) BY <1>2, <2>2, <3>1, HeldFlush
      <3>3. files'[p] = {f \in files[p] : f.path # FlushPath(seq[p] + 1, r.id)}
                          \cup {[path |-> FlushPath(seq[p] + 1, r.id), rows |-> mem[p]]}
        BY <1>1, <2>2 DEF Put, Inv, TypeOK, SegTypes
      <3>4. QED BY <3>2, <3>3
    <2>3. QED BY <2>1, <2>2
  <1>5. QED BY <1>3, <1>4 DEF ApartFrom

\* InsertSegment's entry is a new one.
LEMMA ApartInsert ==
  ASSUME Inv, SegInv, NEW o \in Projects, InsertSegment(o), NEW p \in Projects, NEW e, HeldOK(p, e)
  PROVE  ApartFrom(p, e)
  <1>1. stage[o] = "written" /\ phase = "up" BY FlushAlone DEF InsertSegment
  <1>2. PICK r \in mem[o] :
          manifest' = [manifest EXCEPT ![o] = @ \cup
               {[mid |-> nextMid + 1, path |-> FlushPath(seq[o], r.id), rows |-> mem[o]]}]
    BY DEF InsertSegment
  <1> DEFINE new == [mid |-> nextMid + 1, path |-> FlushPath(seq[o], r.id), rows |-> mem[o]]
  <1>3. UNCHANGED <<files, compact, prune>> /\ nextMid \in Nat
    BY DEF InsertSegment, Inv, TypeOK, SegTypes
  <1>4. CASE p # o
    <2>1. InUse(p)' = InUse(p) /\ manifest'[p] = manifest[p] /\ files'[p] = files[p]
      BY <1>2, <1>3, <1>4 DEF InUse, Planned, Waiting, InPrune
    <2>2. QED BY <2>1, ApartQuiet
  <1>5. CASE p = o
    <2>1. Flushes(p) < seq[p] /\ seq[p] \in Nat
      BY <1>1, <1>5 DEF Flushes, Inv, TypeOK, ProcessTypes
    <2>2. e.path # new.path /\ Base(e.path) # Base(new.path) BY <1>1, <1>5, <2>1, HeldFlush
    <2>3. manifest'[p] = manifest[p] \cup {new} BY <1>2, <1>5 DEF Inv, TypeOK, SegTypes
    <2>4. InUse(p)' = InUse(p) \cup {new} BY <1>3, <2>3 DEF InUse, Planned, Waiting, InPrune
    <2>5. new.mid \in Nat /\ nextMid < new.mid BY <1>3
    <2> HIDE DEF new
    <2>6. QED BY <1>3, <2>2, <2>3, <2>4, <2>5 DEF ApartFrom
  <1>6. QED BY <1>4, <1>5

\* What a prune writes and lists is a rewrite of a listed segment.
LEMMA ApartRewrite ==
  ASSUME Inv, SegInv, NEW o \in Projects, PruneSwap(o) \/ \E c \in prune.todo : PruneRewrite(o, c),
         NEW p \in Projects, NEW e, HeldOK(p, e)
  PROVE  ApartFrom(p, e)
  <1>1. prune.todo \subseteq manifest[o] /\ prune.proj = o /\ nextMid \in Nat
    BY DEF PruneSwap, PruneRewrite, SegInv, PruneOK, Inv, TypeOK, SegTypes
  <1>2. ASSUME NEW c \in prune.todo, PruneRewrite(o, c) PROVE ApartFrom(p, e)
    <2>1. PICK rows :
            files' = [files EXCEPT ![o] = Put(@, PrunedPath(c.path), rows)]
      BY <1>2 DEF PruneRewrite
    <2>2. UNCHANGED <<manifest, compact>> /\ prune' = [prune EXCEPT !.stage = "swap", !.cur = c]
      BY <1>2 DEF PruneRewrite
    <2>3. prune'.cur = c /\ prune'.proj = o BY <1>1, <2>2 DEF Inv, TypeOK, PruneTypes
    <2>4. InUse(p)' \subseteq InUse(p)
      BY <1>1, <2>2, <2>3 DEF InUse, Planned, Waiting, InPrune
    <2>5. \A f \in files'[p] : f \in files[p] \/ f.path # e.path
      <3>1. CASE p # o BY <2>1, <3>1
      <3>2. CASE p = o
        <4>1. e.path # PrunedPath(c.path) BY <1>1, <3>2, HeldRewrite
        <4>2. files'[p] = Put(files[p], PrunedPath(c.path), rows)
          BY <2>1, <3>2 DEF Inv, TypeOK, SegTypes
        <4>3. QED BY <4>1, <4>2 DEF Put
      <3>3. QED BY <3>1, <3>2
    <2>6. QED BY <2>2, <2>4, <2>5 DEF ApartFrom
  <1>3. ASSUME PruneSwap(o) PROVE ApartFrom(p, e)
    <2> DEFINE c == prune.cur
               new == [mid |-> nextMid + 1, path |-> PrunedPath(c.path),
                       rows |-> c.rows \ Older(c.rows, prune.cutoff)]
    <2>1. /\ manifest' = [manifest EXCEPT ![o] = (@ \ {c}) \cup {new}]
          /\ prune' = [prune EXCEPT !.stage = "remove", !.todo = @ \ {c}]
          /\ UNCHANGED <<files, compact>> /\ c \in prune.todo
      BY <1>3 DEF PruneSwap, SegInv, PruneOK
    <2>2. prune'.cur = c /\ prune'.proj = o BY <1>1, <2>1 DEF Inv, TypeOK, PruneTypes
    <2>3. CASE p # o
      <3>1. manifest'[p] = manifest[p] BY <2>1, <2>3
      <3>2. InUse(p)' \subseteq InUse(p)
        BY <1>1, <2>1, <2>2, <2>3, <3>1 DEF InUse, Planned, Waiting, InPrune
      <3>3. QED BY <2>1, <3>1, <3>2, ApartQuiet
    <2>4. CASE p = o
      <3>1. manifest'[p] = (manifest[p] \ {c}) \cup {new}
        BY <2>1, <2>4 DEF Inv, TypeOK, SegTypes
      <3>2. e.path # new.path /\ (Base(e.path) = Base(new.path) => e.path.pruned < new.path.pruned)
        BY <1>1, <2>1, <2>4, HeldRewrite
      <3>3. InUse(p)' \subseteq InUse(p) \cup {new}
        <4>1. c \in InUse(p) BY <1>1, <2>1, <2>4 DEF InUse
        <4>2. InPrune(p)' \subseteq {c} BY <2>2 DEF InPrune
        <4>3. Planned(p)' = Planned(p) BY <2>1 DEF Planned, Waiting
        <4>4. QED BY <3>1, <4>1, <4>2, <4>3 DEF InUse
      <3>4. new.mid \in Nat /\ nextMid < new.mid BY <1>1
      <3> HIDE DEF new, c
      <3>5. QED BY <2>1, <3>1, <3>2, <3>3, <3>4 DEF ApartFrom
    <2>5. QED BY <2>3, <2>4
  <1>4. QED BY <1>2, <1>3

\* What a merge writes and lists is named after a member in use.
LEMMA ApartMerge ==
  ASSUME Inv, SegInv,
         NEW b \in compact.plan, CompactBuild(b) \/ CompactBuildFails(b) \/ CompactSwap(b),
         NEW p \in Projects, NEW e, HeldOK(p, e)
  PROVE  ApartFrom(p, e)
  <1>1. b.proj \in Projects /\ b \in Bucket BY DEF Inv, TypeOK, CompactTypes, Bucket
  <1>2. ASSUME NEW new, NamedAfter(new, b.members), compact.stage # "remove", NEW f \in new,
               f \in File, p = b.proj
        PROVE  e.path # f.path /\ Base(e.path) # Base(f.path)
    <2>1. PICK m \in b.members : \A g \in new : g.path.kind = "merged" /\ g.path.num = m.mid
      BY <1>2 DEF NamedAfter
    <2>2. m \in InUse(p) BY <1>2 DEF InUse, Planned, Waiting
    <2>3. f.path \in Path BY <1>2 DEF File
    <2>4. QED BY <2>1, <2>2, <2>3, <1>2, HeldMerge
  <1>3. ASSUME compact.stage = "plan", Complete(b), NEW new \in Merged(b), NEW written \in SUBSET new,
               \A f \in files'[b.proj] : f \in files[b.proj] \/ f \in written,
               \A q \in Projects \ {b.proj} : files'[q] = files[q]
        PROVE  \A f \in files'[p] : f \in files[p] \/ f.path # e.path
    <2>1. NamedAfter(new, b.members) BY <1>3, MergeShares
    <2>2. new \subseteq File BY <1>1, <1>3, MergedType
    <2>3. QED BY <1>2, <1>3, <2>1, <2>2
  <1>4. ASSUME CompactBuild(b) PROVE ApartFrom(p, e)
    <2>1. PICK new \in Merged(b) :
            /\ files' = [files EXCEPT ![b.proj] = Without(@, SegmentPaths(new)) \cup new]
            /\ compact' = [compact EXCEPT !.stage = "built", !.cur = b, !.new = new]
      BY <1>4 DEF CompactBuild
    <2>2. /\ files'[b.proj] = Without(files[b.proj], SegmentPaths(new)) \cup new
          /\ \A q \in Projects \ {b.proj} : files'[q] = files[q]
          /\ compact'.plan = compact.plan /\ compact'.stage = "built"
      BY <1>1, <2>1 DEF Inv, TypeOK, SegTypes, CompactTypes
    <2>3. compact.stage = "plan" /\ Complete(b) /\ UNCHANGED <<manifest, prune>> BY <1>4 DEF CompactBuild
    <2>4. InUse(p)' \subseteq InUse(p) BY <2>2, <2>3 DEF InUse, Planned, Waiting, InPrune
    <2>5. \A f \in files'[b.proj] : f \in files[b.proj] \/ f \in new BY <2>2 DEF Without
    <2>6. \A f \in files'[p] : f \in files[p] \/ f.path # e.path BY <1>3, <2>2, <2>3, <2>5
    <2>7. QED BY <2>3, <2>4, <2>6 DEF ApartFrom
  <1>5. ASSUME CompactBuildFails(b) PROVE ApartFrom(p, e)
    <2>1. compact.stage = "plan" /\ BucketDone(b) /\ UNCHANGED <<manifest, prune>>
      BY <1>5 DEF CompactBuildFails
    <2>2. compact'.plan \subseteq compact.plan /\ compact'.stage # "remove"
      BY <2>1, BucketDoneNext
    <2>3. InUse(p)' \subseteq InUse(p) BY <2>1, <2>2 DEF InUse, Planned, Waiting, InPrune
    <2>4. CASE files' = files BY <2>1, <2>3, <2>4 DEF ApartFrom
    <2>5. ASSUME Complete(b), NEW new \in Merged(b), NEW f \in new,
                 files' = [files EXCEPT ![b.proj] = Put(@, f.path, f.rows)]
          PROVE  ApartFrom(p, e)
      <3>1. f = [path |-> f.path, rows |-> f.rows]
        <4>1. f \in File BY <1>1, <2>5, MergedType
        <4>2. QED BY <4>1 DEF File
      <3>2. /\ files'[b.proj] = {g \in files[b.proj] : g.path # f.path} \cup {f}
            /\ \A q \in Projects \ {b.proj} : files'[q] = files[q]
        BY <1>1, <2>5, <3>1 DEF Put, Inv, TypeOK, SegTypes
      <3> DEFINE written == {f}
      <3>3. written \in SUBSET new /\ \A g \in files'[b.proj] : g \in files[b.proj] \/ g \in written
        BY <2>5, <3>2
      <3> HIDE DEF written
      <3>4. \A g \in files'[p] : g \in files[p] \/ g.path # e.path BY <1>3, <2>1, <2>5, <3>2, <3>3
      <3>5. QED BY <2>1, <2>3, <3>4 DEF ApartFrom
    <2>6. QED BY <1>5, <2>4, <2>5 DEF CompactBuildFails
  <1>6. ASSUME CompactSwap(b) PROVE ApartFrom(p, e)
    <2>1. /\ compact.stage = "built" /\ b = compact.cur /\ UNCHANGED <<files, prune>>
          /\ manifest'[b.proj] = (manifest[b.proj] \ b.members) \cup {AsListed(f) : f \in compact.new}
          /\ \A q \in Projects \ {b.proj} : manifest'[q] = manifest[q]
          /\ compact'.stage = "remove" /\ compact'.plan = compact.plan /\ compact'.cur = b
      BY <1>6, SwapFacts
    <2>2. Planned(p)' \subseteq Planned(p) /\ InPrune(p)' = InPrune(p)
      BY <2>1 DEF Planned, Waiting, InPrune
    <2>3. CASE p # b.proj BY <2>1, <2>2, <2>3, ApartQuiet DEF InUse
    <2>4. CASE p = b.proj
      <3>1. NamedAfter(compact.new, b.members) BY <2>1 DEF SegInv, MergeOK
      <3>2. compact.new \subseteq File BY DEF Inv, TypeOK, CompactTypes
      <3>3. ASSUME NEW f \in compact.new
            PROVE  /\ e.path # AsListed(f).path /\ Base(e.path) # Base(AsListed(f).path)
                   /\ AsListed(f).mid \in Nat /\ nextMid < AsListed(f).mid
        <4>1. e.path # f.path /\ Base(e.path) # Base(f.path) BY <1>2, <2>1, <2>4, <3>1, <3>2
        <4>2. IssuedMid(f) \in Nat /\ nextMid < IssuedMid(f)
          <5>1. IsFiniteSet(compact.new) BY <2>1 DEF Inv, FiniteRows, FiniteFiles
          <5>2. {g \in compact.new : g.path.shard < f.path.shard} \in SUBSET compact.new OBVIOUS
          <5>3. IsFiniteSet({g \in compact.new : g.path.shard < f.path.shard}) BY <5>1, <5>2, FS_Subset
          <5>4. Cardinality({g \in compact.new : g.path.shard < f.path.shard}) \in Nat
            BY <5>3, FS_CardinalityType
          <5>5. nextMid \in Nat BY DEF Inv, TypeOK, SegTypes
          <5>6. QED BY <5>4, <5>5 DEF IssuedMid
        <4>3. QED BY <4>1, <4>2 DEF AsListed
      <3>4. \A x \in manifest'[p] : x \in manifest[p] \/ x \in {AsListed(f) : f \in compact.new}
        BY <2>1, <2>4
      <3>5. \A x \in {AsListed(f) : f \in compact.new} :
              /\ e.path # x.path /\ Base(e.path) # Base(x.path) /\ x.mid \in Nat /\ nextMid < x.mid
        BY <3>3
      <3>6. \A x \in InUse(p)' : x \in InUse(p) \/ x \in {AsListed(f) : f \in compact.new}
        BY <2>2, <3>4 DEF InUse
      <3>7. QED BY <2>1, <3>4, <3>5, <3>6 DEF ApartFrom
    <2>5. QED BY <2>3, <2>4
  <1>7. QED BY <1>4, <1>5, <1>6
-----------------------------------------------------------------------------
(* Every step of a running process leaves a held entry held *)

\* The manifest's ids and the flushes are counted upwards.
LEMMA CountersGrow ==
  ASSUME Inv, Inv', SegInv, [Next]_vars, phase = "up", phase' = "up"
  PROVE  nextMid <= nextMid' /\ \A p \in Projects : Flushes(p) <= Flushes(p)'
  <1> DEFINE Goal == nextMid <= nextMid' /\ \A p \in Projects : Flushes(p) <= Flushes(p)'
  <1>0. nextMid \in Nat /\ nextMid' \in Nat /\ \A p \in Projects : seq[p] \in Nat /\ seq'[p] \in Nat
    BY DEF Inv, TypeOK, SegTypes, ProcessTypes
  <1>1. ASSUME UNCHANGED <<nextMid, seq, stage>> PROVE Goal BY <1>0, <1>1 DEF Flushes
  <1>2. ASSUME NEW o \in Projects, NEW who, WriteSegment(o, who), nextMid' = nextMid PROVE Goal
    <2>1. /\ stage[o] = "none" /\ stage'[o] = "written" /\ seq'[o] = seq[o] + 1
          /\ \A p \in Projects \ {o} : seq'[p] = seq[p] /\ stage'[p] = stage[p]
      BY <1>2 DEF WriteSegment, Inv, TypeOK, ProcessTypes, LockHeld, HolderAtWork
    <2>2. QED BY <1>0, <1>2, <2>1 DEF Flushes
  <1>3. ASSUME NEW o \in Projects,
               \/ InsertSegment(o) \/ SegmentFails(o) \/ AddRollups(o)
               \/ ResetWAL(o) \/ ResetWALFails(o)
        PROVE  Goal
    <2>1. /\ stage'[o] # "written" /\ seq' = seq /\ nextMid <= nextMid'
          /\ \A p \in Projects \ {o} : stage'[p] = stage[p]
      BY <1>0, <1>3 DEF InsertSegment, SegmentFails, AddRollups, ResetWAL, ResetWALFails, EndFlush,
                        Inv, TypeOK, ProcessTypes
    <2>2. QED BY <1>0, <2>1 DEF Flushes
  <1>4. ASSUME NEW o \in Projects, PruneSwap(o) PROVE Goal
    <2>1. nextMid' = nextMid + 1 /\ UNCHANGED <<seq, stage>> BY <1>4 DEF PruneSwap
    <2>2. QED BY <1>0, <2>1 DEF Flushes
  <1>5. ASSUME NEW b \in compact.plan, CompactSwap(b) PROVE Goal
    <2>1. nextMid' = nextMid + Cardinality(compact.new) /\ UNCHANGED <<seq, stage>>
      BY <1>5 DEF CompactSwap
    <2>2. Cardinality(compact.new) \in Nat BY FS_CardinalityType DEF Inv, FiniteRows
    <2>3. QED BY <1>0, <2>1, <2>2 DEF Flushes
  <1>a. SUFFICES Goal OBVIOUS
  <1> HIDE DEF Goal
  <1>6. CASE WriterNext
    <2>1. ASSUME NEW o \in Projects, ThresholdFlush(o) PROVE Goal
      BY <1>1, <1>2, <2>1 DEF ThresholdFlush
    <2>2. QED
      BY <1>1, <1>6, <2>1 DEF WriterNext, WriteBatch, ExtractFails, WalAppend, WalAppendFails, WalSync,
                              WalSyncFails, WalWriteFails, UpsertIssues, UpsertIssuesFails, BatchReturns
  <1>7. CASE FlushNext
    <2>1. ASSUME NEW o \in Projects, TickerFlush(o) PROVE Goal BY <1>2, <2>1 DEF TickerFlush
    <2>2. QED BY <1>3, <1>7, <2>1 DEF FlushNext
  <1>8. CASE PruneNext
    <2>1. ASSUME NEW o \in Projects, NEW c \in Cutoffs, PruneStart(o, c) PROVE Goal
      BY <1>1, <1>2, <2>1 DEF PruneStart
    <2>2. QED
      BY <1>1, <1>4, <1>8, <2>1 DEF PruneNext, PruneLock, PruneDrop, PruneRewrite, PruneFails, PruneRemove,
                                    PruneUnlock, PruneEvents
  <1>9. CASE CompactNext
    BY <1>1, <1>5, <1>9 DEF CompactNext, CompactPlan, CompactBuild, CompactBuildFails, CompactAborts,
                            CompactRemove
  <1>10. CASE Crash \/ Close \/ Open BY <1>10 DEF Crash, Close, Volatile, Open
  <1>11. CASE UNCHANGED vars BY <1>1, <1>11 DEF vars
  <1>12. QED BY <1>6, <1>7, <1>8, <1>9, <1>10, <1>11 DEF Next

\* So are the rows' ids.
LEMMA AllNumbersGrow ==
  ASSUME Inv, Inv', SegInv, [Next]_vars, phase = "up", phase' = "up", NEW p \in Projects
  PROVE  NumbersGrow(p)
  <1> USE DEF Else
  <1>0. nextLogID \in Nat /\ nextLogID' \in Nat BY DEF Inv, TypeOK, ProcessTypes
  <1> DEFINE Goal == /\ nextLogID <= nextLogID'
                     /\ \A r \in mem'[p] \cup writer'.batch[p] :
                          r \in mem[p] \cup writer.batch[p] \/ nextLogID < r.id
  <1>1. SUFFICES Goal BY CountersGrow DEF NumbersGrow
  <1>2. CASE Quiet BY <1>0, <1>2 DEF Quiet
  <1>3. ASSUME NEW entries \in Submissions, WriteBatch(entries) PROVE Goal
    BY <1>0, <1>3, BatchFacts
  <1>4. ASSUME NEW k \in 1..BatchMax, ExtractFails(k) PROVE Goal
    BY <1>0, <1>4, ConstantsAssumption DEF ExtractFails
  <1>5. ASSUME nextLogID' = nextLogID, mem'[p] \subseteq mem[p] \cup writer.batch[p],
               writer'.batch[p] \subseteq writer.batch[p]
        PROVE  Goal
    BY <1>0, <1>5
  <1> HIDE DEF Goal
  <1>6. ASSUME NEW o \in Projects,
               \/ WalAppend(o) \/ WalSync(o) \/ WalWriteFails(o) \/ InsertSegment(o) \/ AddRollups(o)
               \/ PruneSwap(o) \/ \E e \in prune.todo : PruneDrop(o, e)
        PROVE  Goal
    <2>1. CASE WalAppend(o) BY <1>5, <2>1, AppendFacts
    <2>2. CASE WalSync(o) BY <1>5, <2>2, SyncFacts
    <2>3. CASE WalWriteFails(o) BY <1>5, <2>3, WriteFailFacts DEF IdleWriter, NoRows
    <2>4. CASE InsertSegment(o) BY <1>5, <2>4, InsertFacts
    <2>5. CASE AddRollups(o) BY <1>5, <2>5, RollupFacts
    <2>6. CASE PruneSwap(o) \/ \E e \in prune.todo : PruneDrop(o, e) BY <1>5, <2>6, RetireFacts
    <2>7. QED BY <1>6, <2>1, <2>2, <2>3, <2>4, <2>5, <2>6
  <1>7. ASSUME NEW o \in Projects, ResetWAL(o) \/ ResetWALFails(o) PROVE Goal
    <2>1. mem'[p] \subseteq mem[p] /\ nextLogID' = nextLogID /\ writer' = writer
      BY <1>7, ResetFacts
    <2>2. QED BY <1>5, <2>1
  <1>8. CASE Crash \/ Close \/ Open BY <1>8 DEF Crash, Close, Volatile, Open
  <1>9. QED BY <1>2, <1>3, <1>4, <1>6, <1>7, <1>8, QuietOrLoud DEF Loud
\* The steps that bring no segment and write no file.
LEMMA ApartPrune ==
  ASSUME Inv, SegInv, NEW o \in Projects,
         \/ PruneLock(o) \/ PruneFails(o) \/ PruneRemove(o) \/ PruneUnlock(o) \/ PruneEvents(o)
         \/ \E c \in prune.todo : PruneDrop(o, c),
         NEW p \in Projects, NEW e
  PROVE  ApartFrom(p, e)
  <1>0. prune' = IdlePrune => prune'.stage = "idle" BY DEF IdlePrune
  <1>1. UNCHANGED compact
    BY DEF PruneLock, PruneFails, PruneRemove, PruneUnlock, PruneEvents, PruneDrop
  <1>2. ASSUME NEW c \in prune.todo, PruneDrop(o, c) PROVE ApartFrom(p, e)
    <2>1. /\ manifest' = [manifest EXCEPT ![o] = @ \ {c}] /\ UNCHANGED files
          /\ prune' = [prune EXCEPT !.stage = "remove", !.todo = @ \ {c}, !.cur = c]
          /\ prune.proj = o /\ c \in manifest[o]
      BY <1>2 DEF PruneDrop, SegInv, PruneOK
    <2>2. prune'.cur = c /\ prune'.proj = o BY <2>1 DEF Inv, TypeOK, PruneTypes
    <2>3. manifest'[p] \subseteq manifest[p] BY <2>1 DEF Inv, TypeOK, SegTypes
    <2>4. InPrune(p)' \subseteq manifest[p] BY <2>1, <2>2 DEF InPrune
    <2>5. Planned(p)' = Planned(p) BY <1>1 DEF Planned, Waiting
    <2>6. QED BY <2>1, <2>3, <2>4, <2>5, ApartQuiet DEF InUse
  <1>3. ASSUME UNCHANGED manifest, files'[p] \subseteq files[p], prune'.stage \notin {"swap", "remove"}
        PROVE  ApartFrom(p, e)
    <2>1. InPrune(p)' = {} BY <1>3 DEF InPrune
    <2>2. Planned(p)' = Planned(p) BY <1>1 DEF Planned, Waiting
    <2>3. QED BY <1>3, <2>1, <2>2, ApartQuiet DEF InUse
  <1>4. CASE PruneLock(o) \/ PruneUnlock(o)
    <2>1. prune'.stage \in {"scan", "events"} BY <1>4 DEF PruneLock, PruneUnlock, Inv, TypeOK, PruneTypes
    <2>2. UNCHANGED <<manifest, files>> BY <1>4 DEF PruneLock, PruneUnlock
    <2>3. QED BY <1>3, <2>1, <2>2
  <1>5. CASE PruneFails(o)
    <2>1. files'[p] \subseteq files[p] BY <1>5 DEF PruneFails, Without, Inv, TypeOK, SegTypes
    <2>2. UNCHANGED manifest /\ prune' = IdlePrune BY <1>5 DEF PruneFails
    <2>3. QED BY <1>0, <1>3, <2>1, <2>2
  <1>6. CASE PruneRemove(o)
    <2>1. files'[p] \subseteq files[p] BY <1>6 DEF PruneRemove, Without, Inv, TypeOK, SegTypes
    <2>2. UNCHANGED manifest BY <1>6 DEF PruneRemove
    <2>3. prune'.stage \in {"scan", "idle"} BY <1>0, <1>6 DEF PruneRemove, Inv, TypeOK, PruneTypes
    <2>4. QED BY <1>3, <2>1, <2>2, <2>3
  <1>7. CASE PruneEvents(o) BY <1>0, <1>3, <1>7 DEF PruneEvents
  <1>8. QED BY <1>2, <1>4, <1>5, <1>6, <1>7

\* Nor do these of a flush and of a merge.
LEMMA ApartOthers ==
  ASSUME Inv, SegInv,
         \/ \E o \in Projects : \/ SegmentFails(o) \/ AddRollups(o) \/ ResetWAL(o) \/ ResetWALFails(o)
         \/ \E now \in Clocks : CompactPlan(now)
         \/ \E b \in compact.plan : CompactAborts(b) \/ CompactRemove(b),
         NEW p \in Projects, NEW e
  PROVE  ApartFrom(p, e)
  <1>0. prune' = IdlePrune => prune'.stage = "idle" BY DEF IdlePrune
  <1>1. ASSUME NEW o \in Projects,
               SegmentFails(o) \/ AddRollups(o) \/ ResetWAL(o) \/ ResetWALFails(o)
        PROVE  ApartFrom(p, e)
    <2>1. UNCHANGED <<manifest, compact>> /\ files'[p] \subseteq files[p]
      BY <1>1 DEF SegmentFails, AddRollups, ResetWAL, ResetWALFails, Without, Inv, TypeOK, SegTypes
    <2>2. prune' = prune \/ prune'.stage \in {"idle", "lock"}
      BY <1>0, <1>1 DEF SegmentFails, AddRollups, ResetWAL, ResetWALFails, EndFlush, Inv, TypeOK, PruneTypes
    <2>3. InUse(p)' \subseteq InUse(p) BY <2>1, <2>2 DEF InUse, Planned, Waiting, InPrune
    <2>4. QED BY <2>1, <2>3, ApartQuiet
  <1>2. ASSUME NEW now \in Clocks, CompactPlan(now) PROVE ApartFrom(p, e)
    <2>1. UNCHANGED <<manifest, files, prune>> BY <1>2 DEF CompactPlan
    <2>2. compact' = [stage |-> "plan", plan |-> UNION {BucketsOf(q, now) : q \in Projects},
                      cur |-> None, new |-> {}]
      BY <1>2 DEF CompactPlan
    <2>3. Waiting' = UNION {BucketsOf(q, now) : q \in Projects} BY <2>2 DEF Waiting
    <2>4. \A q \in Projects : \A b \in BucketsOf(q, now) : b.proj = q /\ b.members \subseteq manifest[q]
      BY DEF BucketsOf
    <2>5. Planned(p)' \subseteq manifest[p] BY <2>3, <2>4 DEF Planned
    <2>6. InPrune(p)' = InPrune(p) BY <2>1 DEF InPrune
    <2>7. QED BY <2>1, <2>5, <2>6, ApartQuiet DEF InUse
  <1>3. ASSUME NEW b \in compact.plan, CompactAborts(b) \/ CompactRemove(b) PROVE ApartFrom(p, e)
    <2>1. UNCHANGED <<manifest, prune>> /\ files'[p] \subseteq files[p]
      BY <1>3 DEF CompactAborts, CompactRemove, Without, Inv, TypeOK, SegTypes
    <2>2. compact'.plan \subseteq compact.plan \ {b} /\ compact'.stage # "remove" /\ b = compact.cur
      BY <1>3, BucketDoneNext DEF CompactAborts, CompactRemove
    <2>3. Planned(p)' \subseteq Planned(p) BY <2>2 DEF Planned, Waiting
    <2>4. InPrune(p)' = InPrune(p) BY <2>1 DEF InPrune
    <2>5. QED BY <2>1, <2>3, <2>4, ApartQuiet DEF InUse
  <1>4. QED BY <1>1, <1>2, <1>3

\* A held entry is held on, whatever the store does next, and not listed again.
LEMMA HeldGoesOn ==
  ASSUME Inv, Inv', SegInv, [Next]_vars, phase = "up", phase' = "up",
         NEW p \in Projects, NEW e, HeldOK(p, e)
  PROVE  HeldOK(p, e)' /\ (e \in manifest'[p] => e \in manifest[p])
  <1>1. SUFFICES ApartFrom(p, e)
    <2>1. e.path.pruned \in Nat BY DEF HeldOK, Entry, Path
    <2>2. QED BY <2>1, AllNumbersGrow, HeldStep DEF ApartFrom
  <1>2. ASSUME UNCHANGED <<manifest, files, prune, compact>> PROVE ApartFrom(p, e)
    BY <1>2, ApartQuiet DEF InUse, Planned, Waiting, InPrune
  <1>3. CASE WriterNext
    <2>1. ASSUME NEW o \in Projects, ThresholdFlush(o) PROVE ApartFrom(p, e)
      BY <1>2, <2>1, ApartWrite DEF ThresholdFlush
    <2>2. QED
      BY <1>2, <1>3, <2>1 DEF WriterNext, WriteBatch, ExtractFails, WalAppend, WalAppendFails, WalSync,
                              WalSyncFails, WalWriteFails, UpsertIssues, UpsertIssuesFails, BatchReturns
  <1>4. CASE FlushNext
    <2>1. ASSUME NEW o \in Projects, TickerFlush(o) PROVE ApartFrom(p, e)
      BY <2>1, ApartWrite DEF TickerFlush
    <2>2. QED BY <1>4, <2>1, ApartInsert, ApartOthers DEF FlushNext
  <1>5. CASE PruneNext
    <2>1. ASSUME NEW o \in Projects, NEW c \in Cutoffs, PruneStart(o, c) PROVE ApartFrom(p, e)
      <3>1. UNCHANGED <<manifest, compact>> /\ prune.stage = "idle" BY <2>1 DEF PruneStart
      <3>2. CASE WriteSegment(o, "pruner") /\ PruneBegins(o, c, "flush")
        BY <3>1, <3>2, ApartWrite DEF PruneBegins
      <3>3. CASE PruneBegins(o, c, "lock") /\ UNCHANGED files
        <4>1. InUse(p)' \subseteq InUse(p)
          BY <3>1, <3>3 DEF PruneBegins, InUse, Planned, Waiting, InPrune
        <4>2. QED BY <3>1, <3>3, <4>1, ApartQuiet
      <3>4. QED BY <2>1, <3>2, <3>3 DEF PruneStart
    <2>2. QED BY <1>5, <2>1, ApartPrune, ApartRewrite DEF PruneNext
  <1>6. CASE CompactNext BY <1>6, ApartMerge, ApartOthers DEF CompactNext
  <1>7. CASE Crash \/ Close \/ Open BY <1>7 DEF Crash, Close, Volatile, Open
  <1>8. CASE UNCHANGED vars BY <1>2, <1>8 DEF vars
  <1>9. QED BY <1>3, <1>4, <1>5, <1>6, <1>7, <1>8 DEF Next
-----------------------------------------------------------------------------
(* No step of a running process takes a live row away, but a prune. *)
LEMMA LiveStays ==
  ASSUME Inv, Inv', SegInv, DupInv, [Next]_vars, phase = "up", phase' = "up", NEW p \in Projects
  PROVE  Live(p) \subseteq Live(p)' \cup retired'[p] /\ retired[p] \subseteq retired'[p]
  <1> USE DEF Else
  <1> DEFINE Goal == Live(p) \subseteq Live(p)' \cup retired'[p] /\ retired[p] \subseteq retired'[p]
  <1>1. ASSUME mem[p] \subseteq mem'[p], ManifestRows(p) \subseteq ManifestRows(p)', retired' = retired
        PROVE  Goal
    BY <1>1 DEF Live
  <1>a. SUFFICES Goal OBVIOUS
  <1> HIDE DEF Goal
  <1>2. CASE Quiet BY <1>1, <1>2 DEF Quiet
  <1>3. ASSUME NEW entries \in Submissions, WriteBatch(entries) PROVE Goal BY <1>1, <1>3, BatchFacts
  <1>4. ASSUME NEW k \in 1..BatchMax, ExtractFails(k) PROVE Goal
    <2>1. UNCHANGED <<mem, manifest, retired>> BY <1>4 DEF ExtractFails
    <2>2. QED BY <1>1, <2>1, SameRows
  <1>5. ASSUME NEW o \in Projects,
               WalAppend(o) \/ WalSync(o) \/ WalWriteFails(o) \/ InsertSegment(o) \/ AddRollups(o)
        PROVE  Goal
    <2>1. CASE WalAppend(o) BY <1>1, <2>1, AppendFacts
    <2>2. CASE WalSync(o) BY <1>1, <2>2, SyncFacts
    <2>3. CASE WalWriteFails(o) BY <1>1, <2>3, WriteFailFacts
    <2>4. CASE InsertSegment(o) BY <1>1, <2>4, InsertFacts
    <2>5. CASE AddRollups(o) BY <1>1, <2>5, RollupFacts
    <2>6. QED BY <1>5, <2>1, <2>2, <2>3, <2>4, <2>5
  <1>6. ASSUME NEW o \in Projects, PruneSwap(o) \/ \E e \in prune.todo : PruneDrop(o, e) PROVE Goal
    <2>1. \E e, old : Retires(o, e, old) BY <1>6, RetireFacts
    <2>2. PICK e : \E old : Retires(o, e, old) BY <2>1
    <2>3. PICK old : Retires(o, e, old) BY <2>2
    <2>4. mem' = mem BY <1>6, RetireFacts
    <2>5. /\ ManifestRows(p) \subseteq ManifestRows(p)' \cup retired'[p] /\ retired[p] \subseteq retired'[p]
      BY <2>3, RetiredRows
    <2>6. QED BY <2>4, <2>5 DEF Live, Goal
  <1>7. ASSUME NEW o \in Projects, ResetWAL(o) \/ ResetWALFails(o) PROVE Goal
    <2>1. /\ stage[o] = "rolled" /\ retired' = retired /\ ManifestRows(p)' = ManifestRows(p)
          /\ mem'[p] = mem[p] \/ p = o
      BY <1>7, ResetFacts
    <2>2. mem[o] \subseteq ManifestRows(o) BY <2>1 DEF DupInv, Busy
    <2>3. Live(p) \subseteq Live(p)' BY <2>1, <2>2 DEF Live
    <2>4. QED BY <2>1, <2>3 DEF Goal
  <1>8. CASE Crash \/ Close \/ Open BY <1>8 DEF Crash, Close, Volatile, Open
  <1>9. QED BY <1>2, <1>3, <1>4, <1>5, <1>6, <1>7, <1>8, QuietOrLoud DEF Loud

-----------------------------------------------------------------------------
(* The query's invariant *)

Queries == Searches \cup Lookups \cup Contexts
ReadTyped ==
  read \in [pc : {"idle", "snapshot", "open", "fresh", "done", "failed"}, op : Queries \cup {None},
            attempt : Nat, segs : SUBSET Entry, todo : SUBSET Entry, cur : Entry \cup {None},
            hits : SUBSET Hit, target : Row \cup {None}, owed : SUBSET Row, gone : SUBSET Row]

(* The rows found, those found or still in a segment to open, and those the *)
(* query owes its caller.                                                  *)
HitRows == {h.row : h \in read.hits}
Sight == HitRows \cup UNION {e.rows : e \in read.todo}
Due(p) == read.owed \ retired[p]
\* Limit newer rows are found already.
Beaten(r) == Limit <= Cardinality({q \in HitRows : RowLess(r, q)})

(* What a query is owed is live, as long as no prune removed it. *)
QueryOK(op) ==
  /\ op \in Queries /\ phase = "up"
  /\ Due(op.proj) \subseteq Live(op.proj) /\ read.gone \subseteq retired[op.proj]

(* After the snapshot: the segments to open are held, an id in sight is one *)
(* row's, and every matching row owed is in sight or beaten.  A vanished    *)
(* segment is never one the manifest lists.                                *)
SightOK(op) ==
  /\ \A e \in read.todo : HeldOK(op.proj, e)
  /\ IsFiniteSet(Sight)
  /\ \A a, b \in Sight \cup Due(op.proj) : a.id = b.id => a = b
  /\ \A r \in Due(op.proj) : Wanted(op, r) => r \in Sight \/ (op.kind = "search" /\ Beaten(r))
  /\ LooksUp(op) => \A h \in read.hits : h.row.id = op.id
  /\ read.pc = "done" => read.todo = {} \/ (LooksUp(op) /\ read.hits # {})
  /\ read.pc = "fresh" => read.cur \in read.todo /\ read.cur \notin manifest[op.proj]
Looking == read.pc \in {"open", "fresh", "done"}
ReadInv == ReadTyped /\ (read.pc # "idle" => QueryOK(read.op)) /\ (Looking => SightOK(read.op))

(* Where every WAL is written and reset, no row is in sight twice, and none *)
(* that was pruned before the query began.                                 *)
OnceOK ==
  /\ Sight \cap read.gone = {}
  /\ \A h, g \in read.hits : h.row = g.row => h = g
  /\ \A h \in read.hits, e \in read.todo : h.row \notin e.rows
  /\ \A d, e \in read.todo : d = e \/ d.rows \cap e.rows = {}
OnceInv == CleanLog /\ Looking => OnceOK

-----------------------------------------------------------------------------
(* The store's steps under the query *)

\* What a query may be.
LEMMA QueryType ==
  ASSUME NEW op \in Queries
  PROVE  /\ op.proj \in Projects
         /\ op.kind \in {"search", "id", "context"}
         /\ op.kind = "context" => op.n \in Nat
  BY ReadAssumption DEF Queries, Searches, Lookups, Contexts

\* The store does not stop by its own operations, and nothing is read while it is down.
LEMMA StaysUp == ASSUME StoreNext, phase = "up" PROVE phase' = "up"
  <1>1. CASE WriterNext
    <2>1. ASSUME NEW o \in Projects, ThresholdFlush(o) PROVE phase' = phase BY <2>1 DEF ThresholdFlush
    <2>2. QED
      BY <1>1, <2>1 DEF WriterNext, WriteBatch, ExtractFails, WalAppend, WalAppendFails, WalSync,
                        WalSyncFails, WalWriteFails, UpsertIssues, UpsertIssuesFails, BatchReturns
  <1>2. CASE FlushNext
    BY <1>2 DEF FlushNext, TickerFlush, InsertSegment, SegmentFails, AddRollups, ResetWAL, ResetWALFails
  <1>3. CASE PruneNext
    BY <1>3 DEF PruneNext, PruneStart, PruneLock, PruneDrop, PruneRewrite, PruneSwap, PruneFails,
                PruneRemove, PruneUnlock, PruneEvents
  <1>4. CASE CompactNext
    BY <1>4 DEF CompactNext, CompactPlan, CompactBuild, CompactBuildFails, CompactSwap, CompactAborts,
                CompactRemove
  <1>5. QED BY <1>1, <1>2, <1>3, <1>4 DEF StoreNext, Open

\* While the store goes on, a query's rows stay in sight.
LEMMA StoreSight ==
  ASSUME Inv, Inv', SegInv, DupInv, [Next]_vars, phase = "up", phase' = "up", UNCHANGED read,
         NEW op, QueryOK(op)
  PROVE  QueryOK(op)' /\ (Looking /\ SightOK(op) => SightOK(op)')
  <1>1. op.proj \in Projects BY QueryType DEF QueryOK
  <1>2. /\ Live(op.proj) \subseteq Live(op.proj)' \cup retired'[op.proj]
        /\ retired[op.proj] \subseteq retired'[op.proj]
    BY <1>1, LiveStays
  <1>3. Due(op.proj)' \subseteq Due(op.proj) BY <1>2 DEF Due
  <1>4. Due(op.proj)' \subseteq Live(op.proj)'
    <2>1. Due(op.proj)' \cap retired'[op.proj] = {} BY DEF Due
    <2>2. QED BY <1>2, <1>3, <2>1 DEF QueryOK
  <1>5. QueryOK(op)' BY <1>2, <1>4 DEF QueryOK
  <1>6. ASSUME Looking, SightOK(op) PROVE SightOK(op)'
    <2>1. HitRows' = HitRows /\ Sight' = Sight BY DEF HitRows, Sight
    <2>2. \A e \in read.todo : HeldOK(op.proj, e)' /\ (e \in manifest'[op.proj] => e \in manifest[op.proj])
      BY <1>1, <1>6, HeldGoesOn DEF SightOK
    <2>3. (\A e \in read.todo : HeldOK(op.proj, e))' BY <2>2
    <2>4. \A r : (Wanted(op, r)' <=> Wanted(op, r)) /\ (Beaten(r)' <=> Beaten(r))
      BY <2>1 DEF Wanted, LooksUp, Beaten
    <2>5. LooksUp(op)' <=> LooksUp(op) BY DEF LooksUp
    <2>6. read.pc = "fresh" => read.cur \in read.todo /\ read.cur \notin manifest'[op.proj]
      BY <1>6, <2>2 DEF SightOK
    <2>7. (\A a, b \in Sight \cup Due(op.proj) : a.id = b.id => a = b)'
      BY <1>3, <1>6, <2>1 DEF SightOK
    <2>8. (\A r \in Due(op.proj) : Wanted(op, r) => r \in Sight \/ (op.kind = "search" /\ Beaten(r)))'
      BY <1>3, <1>6, <2>1, <2>4 DEF SightOK
    <2>9. QED BY <1>6, <2>1, <2>3, <2>5, <2>6, <2>7, <2>8 DEF SightOK
  <1>7. QED BY <1>5, <1>6

\* So the store's steps keep the query's invariants.
LEMMA StoreRead ==
  ASSUME Inv, Inv', SegInv, DupInv, ReadInv, OnceInv, [Next]_vars, phase = "up" => phase' = "up",
         UNCHANGED read
  PROVE  ReadInv' /\ OnceInv'
  <1>1. ReadTyped' BY DEF ReadInv, ReadTyped
  <1>2. ASSUME read.pc # "idle"
        PROVE  QueryOK(read.op)' /\ (Looking => SightOK(read.op)')
    <2>1. PICK op : op = read.op OBVIOUS
    <2>2. QueryOK(op) /\ phase = "up" BY <1>2, <2>1 DEF ReadInv, QueryOK
    <2>3. QueryOK(op)' /\ (Looking /\ SightOK(op) => SightOK(op)') BY <2>2, StoreSight
    <2>4. read'.op = op BY <2>1
    <2>5. Looking => SightOK(op) BY <2>1 DEF ReadInv
    <2>6. QueryOK(read.op)' <=> QueryOK(op)' BY <2>4 DEF QueryOK
    <2>7. SightOK(read.op)' <=> SightOK(op)' BY <2>4 DEF SightOK, Wanted, LooksUp
    <2>8. QED BY <2>3, <2>5, <2>6, <2>7
  <1>3. OnceInv' BY DEF OnceInv, OnceOK, Looking, Sight, HitRows, CleanLog
  <1>4. QED BY <1>1, <1>2, <1>3 DEF ReadInv, Looking

-----------------------------------------------------------------------------
(* The newest of some rows *)

\* No two of the rows have one id.
OneId(rows) == \A a, b \in rows : a.id = b.id => a = b

\* The order of rowLess, and its reverse.
ByTime == {x \in Row \X Row : RowLess(x[1], x[2])}
BackByTime == {x \in Row \X Row : RowLess(x[2], x[1])}

\* rowLess orders rows of different ids, forwards and backwards.
LEMMA RowOrder ==
  ASSUME NEW rows \in SUBSET Row, OneId(rows)
  PROVE  Orders(ByTime, rows) /\ Orders(BackByTime, rows)
  <1>1. \A r \in rows : r.ts \in Nat /\ r.id \in Nat BY ConstantsAssumption DEF Row
  <1>2. \A a, b \in rows : (<<a, b>> \in ByTime <=> RowLess(a, b)) /\ (<<a, b>> \in BackByTime <=> RowLess(b, a))
    BY DEF ByTime, BackByTime
  <1>3. \A a \in rows : ~RowLess(a, a) BY <1>1 DEF RowLess
  <1>4. \A a, b \in rows : a = b \/ RowLess(a, b) \/ RowLess(b, a) BY <1>1 DEF RowLess, OneId
  <1>5. \A a, b, c \in rows : RowLess(a, b) /\ RowLess(b, c) => RowLess(a, c) BY <1>1 DEF RowLess
  <1>6. QED BY <1>2, <1>3, <1>4, <1>5 DEF Orders

\* Where n rows are newer than r, the n newest are, and are n.
LEMMA NewestAreNewer ==
  ASSUME NEW rows \in SUBSET Row, IsFiniteSet(rows), NEW r \in Row, OneId(rows \cup {r}), NEW n \in Nat,
         n <= Cardinality({q \in rows : RowLess(r, q)})
  PROVE  LET newest == {a \in rows : Cardinality({q \in rows : RowLess(a, q)}) < n}
         IN Cardinality(newest) = n /\ IsFiniteSet(newest) /\ \A q \in newest : RowLess(r, q)
  <1>1. Orders(ByTime, rows \cup {r}) BY RowOrder
  <1>2. \A a \in rows \cup {r} : After(ByTime, rows, a) = {q \in rows : RowLess(a, q)}
    BY DEF After, ByTime
  <1>3. LastOf(ByTime, rows, n) = {a \in rows : Cardinality({q \in rows : RowLess(a, q)}) < n}
    BY <1>2 DEF LastOf
  <1>4. n <= Cardinality(After(ByTime, rows, r)) BY <1>2
  <1>5. /\ Cardinality(LastOf(ByTime, rows, n)) = n /\ IsFiniteSet(LastOf(ByTime, rows, n))
        /\ \A q \in LastOf(ByTime, rows, n) : <<r, q>> \in ByTime
    BY <1>1, <1>4, LastAreLater
  <1>6. QED BY <1>3, <1>5 DEF ByTime

\* Where n rows are older than r, the n oldest are, and are n.
LEMMA OldestAreOlder ==
  ASSUME NEW rows \in SUBSET Row, IsFiniteSet(rows), NEW r \in Row, OneId(rows \cup {r}), NEW n \in Nat,
         n <= Cardinality({q \in rows : RowLess(q, r)})
  PROVE  LET oldest == {a \in rows : Cardinality({q \in rows : RowLess(q, a)}) < n}
         IN Cardinality(oldest) = n /\ IsFiniteSet(oldest) /\ \A q \in oldest : RowLess(q, r)
  <1>1. Orders(BackByTime, rows \cup {r}) BY RowOrder
  <1>2. \A a \in rows \cup {r} : After(BackByTime, rows, a) = {q \in rows : RowLess(q, a)}
    BY DEF After, BackByTime
  <1>3. LastOf(BackByTime, rows, n) = {a \in rows : Cardinality({q \in rows : RowLess(q, a)}) < n}
    BY <1>2 DEF LastOf
  <1>4. n <= Cardinality(After(BackByTime, rows, r)) BY <1>2
  <1>5. /\ Cardinality(LastOf(BackByTime, rows, n)) = n /\ IsFiniteSet(LastOf(BackByTime, rows, n))
        /\ \A q \in LastOf(BackByTime, rows, n) : <<r, q>> \in BackByTime
    BY <1>1, <1>4, LastAreLater
  <1>6. QED BY <1>3, <1>5 DEF BackByTime

-----------------------------------------------------------------------------
(* The query's own steps *)

\* What Proceed does.
LEMMA ProceedFacts ==
  ASSUME ReadTyped, NEW op \in Queries, read.op = op, NEW hits \in SUBSET Hit, NEW todo \in SUBSET Entry,
         Proceed(op, hits, todo)
  PROVE  /\ ReadTyped' /\ read'.hits = hits /\ read'.todo = todo
         /\ read'.pc \in {"done", "open"}
         /\ read'.pc = "done" => todo = {} \/ (LooksUp(op) /\ hits # {})
         /\ read'.op = op /\ read'.owed = read.owed /\ read'.gone = read.gone
         /\ LooksUp(op)' <=> LooksUp(op)
         /\ \A r : Wanted(op, r)' <=> Wanted(op, r)
  <1>1. /\ read'.hits = hits /\ read'.todo = todo /\ read'.op = op /\ read'.owed = read.owed
        /\ read'.gone = read.gone /\ read'.target = read.target
        /\ read'.pc = IF todo = {} \/ (LooksUp(op) /\ hits # {}) THEN "done" ELSE "open"
    BY DEF Proceed, ReadTyped
  <1>2. ReadTyped' BY DEF Proceed, ReadTyped
  <1>3. LooksUp(op)' <=> LooksUp(op) BY <1>1 DEF LooksUp
  <1>4. \A r : Wanted(op, r)' <=> Wanted(op, r) BY <1>3 DEF Wanted
  <1>5. QED BY <1>1, <1>2, <1>3, <1>4

\* A query begins.
LEMMA BeginRead ==
  ASSUME Inv, NEW op \in Queries, ReadBegin(op) PROVE ReadInv' /\ OnceInv'
  <1>1. op.proj \in Projects BY QueryType
  <1>2. Live(op.proj) \subseteq Row /\ retired[op.proj] \subseteq Row
    BY <1>1, RowTypes DEF Live, Inv, TypeOK, WalTypes, HistoryTypes
  <1>3. /\ read' = [pc |-> "snapshot", op |-> op, attempt |-> 1, segs |-> {}, todo |-> {}, cur |-> None,
                    hits |-> {}, target |-> None, owed |-> Live(op.proj), gone |-> retired[op.proj]]
        /\ phase = "up" /\ UNCHANGED vars
    BY DEF ReadBegin, NoRead
  <1>4. ReadTyped' BY <1>2, <1>3 DEF ReadTyped
  <1>5. Live(op.proj)' = Live(op.proj) /\ retired'[op.proj] = retired[op.proj] /\ phase' = "up"
    BY <1>3 DEF vars, Live, ManifestRows
  <1>6. QueryOK(op)' BY <1>3, <1>5 DEF QueryOK, Due
  <1>7. read'.op = op /\ ~Looking' BY <1>3 DEF Looking
  <1>8. QueryOK(read.op)' BY <1>6, <1>7 DEF QueryOK
  <1>9. QED BY <1>4, <1>7, <1>8 DEF ReadInv, OnceInv

\* The live rows are finitely many.
LEMMA LiveFinite ==
  ASSUME Inv, SegInv, NEW p \in Projects
  PROVE  IsFiniteSet(Live(p)) /\ Live(p) \subseteq Row /\ Live(p) \subseteq Rows(p)
  <1>1. IsFiniteSet(RowsOf(manifest[p])) BY FiniteRowsOf DEF SegInv, ListOK
  <1>2. RowsOf(manifest[p]) = ManifestRows(p) BY DEF RowsOf, ManifestRows
  <1>3. IsFiniteSet(mem[p]) BY DEF Inv, FiniteRows
  <1>4. IsFiniteSet(mem[p] \cup ManifestRows(p)) BY <1>1, <1>2, <1>3, FS_Union
  <1>5. QED BY <1>4, RowTypes DEF Live, Rows

\* A query's variables change, the store's do not.
LEMMA StoreStill ==
  ASSUME UNCHANGED vars
  PROVE  /\ \A p \in Projects : Live(p)' = Live(p) /\ retired'[p] = retired[p] /\ manifest'[p] = manifest[p]
         /\ \A p, e : HeldOK(p, e)' <=> HeldOK(p, e)
         /\ phase' = phase
  BY DEF vars, Live, ManifestRows, HeldOK, NameOK, Flushes, Above, InUse, Planned, Waiting, InPrune

\* The snapshot has every live row in sight.
LEMMA SnapshotRead ==
  ASSUME Inv, SegInv, RefInv, DupInv, LogInv, ReadInv, NEW op \in Queries, ReadSnapshot(op)
  PROVE  ReadInv' /\ OnceInv'
  <1> DEFINE p == op.proj
             found == {q \in mem[p] : Wanted(op, q)}
             hits == {[mid |-> 0, row |-> r] : r \in found}
             todo == {e \in manifest[p] : Candidate(op, e)}
  <1>1. /\ p \in Projects /\ read.pc = "snapshot" /\ read.op = op /\ mu[p] = "free" /\ UNCHANGED vars
        /\ QueryOK(op) /\ ReadTyped /\ Proceed(op, hits, todo)
    BY QueryType DEF ReadSnapshot, ReadInv
  <1>2. found \subseteq mem[p] /\ todo \subseteq manifest[p] OBVIOUS
  <1>3. mem[p] \subseteq Row /\ manifest[p] \subseteq Entry
    BY <1>1 DEF Inv, TypeOK, WalTypes, SegTypes
  <1>4. hits \in SUBSET Hit /\ todo \in SUBSET Entry BY <1>2, <1>3 DEF Hit
  <1>5. \A h \in hits : h.mid = 0 /\ h.row \in found /\ h = [mid |-> 0, row |-> h.row] OBVIOUS
  <1>6. ASSUME NEW r \in found PROVE \E h \in hits : h.row = r
    <2>1. [mid |-> 0, row |-> r] \in hits /\ [mid |-> 0, row |-> r].row = r OBVIOUS
    <2> HIDE DEF hits
    <2>2. QED BY <2>1
  <1>7. \A r \in found : Wanted(op, r) OBVIOUS
  <1>8. ASSUME NEW r \in Live(p), Wanted(op, r) PROVE r \in found \/ \E e \in todo : r \in e.rows
    <2>1. CASE r \in mem[p] BY <1>8, <2>1
    <2>2. ASSUME NEW e \in manifest[p], r \in e.rows PROVE e \in todo
      <3>1. r.id \in Nat /\ r.ts \in Nat
        BY <1>3, <2>2, ConstantsAssumption DEF Entry, Row
      <3>2. LooksUp(op) => r.id = op.id BY <1>8 DEF Wanted
      <3>3. op.kind = "search" => r.ts >= op.since BY <1>8 DEF Wanted
      <3>4. LooksUp(op) => (\E x \in e.rows : x.id <= op.id) /\ (\E x \in e.rows : x.id >= op.id)
        BY <2>2, <3>1, <3>2
      <3>5. Candidate(op, e) BY <2>2, <3>3, <3>4 DEF Candidate
      <3>6. QED BY <3>5
    <2>3. QED BY <1>8, <2>1, <2>2 DEF Live, ManifestRows
  <1> HIDE DEF found, hits, todo
  <1>9. /\ ReadTyped' /\ read'.hits = hits /\ read'.todo = todo
        /\ read'.pc \in {"done", "open"}
        /\ read'.pc = "done" => todo = {} \/ (LooksUp(op) /\ hits # {})
        /\ read'.op = op /\ read'.owed = read.owed /\ read'.gone = read.gone
        /\ LooksUp(op)' <=> LooksUp(op)
        /\ \A r : Wanted(op, r)' <=> Wanted(op, r)
    BY <1>1, <1>4, ProceedFacts
  <1>10. /\ Live(p)' = Live(p) /\ retired'[p] = retired[p] /\ phase' = phase /\ manifest'[p] = manifest[p]
         /\ \A e : HeldOK(p, e)' <=> HeldOK(p, e)
    BY <1>1, StoreStill
  <1>11. Due(p)' = Due(p) /\ QueryOK(op)' BY <1>1, <1>9, <1>10 DEF Due, QueryOK
  <1>12. HitRows' = found
    <2>1. HitRows' = {h.row : h \in hits} BY <1>9 DEF HitRows
    <2>2. QED BY <1>5, <1>6, <2>1
  <1>13. Sight' = found \cup UNION {e.rows : e \in todo} BY <1>9, <1>12 DEF Sight
  <1>14. Sight' \subseteq Live(p) BY <1>2, <1>13 DEF Live, ManifestRows
  <1>15. SightOK(op)'
    <2>1. (\A e \in read.todo : HeldOK(op.proj, e))'
      BY <1>1, <1>2, <1>9, <1>10, ListedHeld
    <2>2. IsFiniteSet(Sight)' BY <1>1, <1>14, LiveFinite, FS_Subset
    <2>3. (\A a, b \in Sight \cup Due(op.proj) : a.id = b.id => a = b)'
      <3>1. Sight' \cup Due(p)' \subseteq Rows(p) BY <1>1, <1>11, <1>14, LiveFinite DEF QueryOK
      <3>2. QED BY <1>1, <3>1 DEF RefInv
    <2>4. (\A r \in Due(op.proj) : Wanted(op, r) => r \in Sight \/ (op.kind = "search" /\ Beaten(r)))'
      BY <1>1, <1>8, <1>9, <1>11, <1>13 DEF QueryOK
    <2>5. (LooksUp(op) => \A h \in read.hits : h.row.id = op.id)' BY <1>5, <1>7, <1>9 DEF Wanted
    <2>6. QED BY <1>9, <2>1, <2>2, <2>3, <2>4, <2>5 DEF SightOK
  <1>16. OnceInv'
    <2>1. ASSUME CleanLog PROVE OnceOK'
      <3>1. LogOK(p) /\ DuplicateFree(p) BY <1>1, <2>1 DEF LogInv, LogOK, DupInv
      <3>2. stage[p] = "none" BY <1>1 DEF Inv, LockHeld, HolderAtWork
      <3>3. mem[p] \cap ManifestRows(p) = {} BY <3>1, <3>2 DEF DuplicateFree
      <3>4. Sight' \cap read'.gone = {}
        <4>1. Live(p) \cap retired[p] = {} BY <3>1 DEF LogOK, Live
        <4>2. read.gone \subseteq retired[p] BY <1>1 DEF QueryOK
        <4>3. QED BY <1>9, <1>14, <4>1, <4>2
      <3>5. \A h, g \in hits : h.row = g.row => h = g BY <1>5
      <3>6. \A h \in hits, e \in todo : h.row \notin e.rows
        BY <1>2, <1>5, <3>3 DEF ManifestRows
      <3>7. \A d, e \in todo : d = e \/ d.rows \cap e.rows = {} BY <1>2, <3>1 DEF DuplicateFree
      <3>8. QED BY <1>9, <3>4, <3>5, <3>6, <3>7 DEF OnceOK
    <2>2. QED BY <2>1 DEF OnceInv, CleanLog
  <1>17. QueryOK(read.op)' /\ SightOK(read.op)'
    BY <1>9, <1>11, <1>15 DEF QueryOK, SightOK, Wanted, LooksUp
  <1>18. QED BY <1>9, <1>16, <1>17 DEF ReadInv

\* What a segment's scan finds of the rows that match: all, or the Limit
\* newest of them.
LEMMA ScanFinds ==
  ASSUME NEW op \in Queries, NEW rows \in SUBSET Row, IsFiniteSet(rows),
         NEW r \in rows, Wanted(op, r), OneId(rows)
  PROVE  /\ SegmentMatches(op, rows) \subseteq {q \in rows : Wanted(op, q)}
         /\ \/ r \in SegmentMatches(op, rows)
            \/ /\ op.kind = "search"
               /\ Limit <= Cardinality({q \in SegmentMatches(op, rows) : RowLess(r, q)})
  <1> DEFINE found == {q \in rows : Wanted(op, q)}
  <1>0. found \in SUBSET rows OBVIOUS
  <1>1. r \in found /\ found \in SUBSET Row /\ IsFiniteSet(found)
    <2>1. IsFiniteSet(found) BY <1>0, FS_Subset
    <2>2. QED BY <2>1
  <1>2. SegmentMatches(op, rows) = IF op.kind = "search" THEN WithTies(found) ELSE found
    BY DEF SegmentMatches
  <1> HIDE DEF found
  <1>3. WithTies(found) \subseteq found /\ Best(found) \subseteq WithTies(found)
    BY DEF WithTies, Best
  <1>4. ASSUME op.kind = "search", r \notin Best(found)
        PROVE  Limit <= Cardinality({q \in WithTies(found) : RowLess(r, q)})
    <2>1. IsFiniteSet({q \in found : RowLess(r, q)})
      <3>1. {q \in found : RowLess(r, q)} \in SUBSET found OBVIOUS
      <3>2. QED BY <1>1, <3>1, FS_Subset
    <2>2. Cardinality({q \in found : RowLess(r, q)}) \in Nat BY <2>1, FS_CardinalityType
    <2>3. Limit \in Nat /\ Limit <= Cardinality({q \in found : RowLess(r, q)})
      BY <1>1, <1>4, <2>2, ReadAssumption DEF Best
    <2>4. OneId(found \cup {r}) BY <1>0, <1>1 DEF OneId
    <2>5. r \in Row OBVIOUS
    <2>6. Cardinality(Best(found)) = Limit /\ IsFiniteSet(Best(found)) /\ \A q \in Best(found) : RowLess(r, q)
      BY <1>1, <2>3, <2>4, <2>5, NewestAreNewer DEF Best
    <2>7. Best(found) \in SUBSET {q \in WithTies(found) : RowLess(r, q)} BY <1>3, <2>6
    <2>8. IsFiniteSet({q \in WithTies(found) : RowLess(r, q)})
      <3>1. {q \in WithTies(found) : RowLess(r, q)} \in SUBSET found BY <1>3
      <3>2. QED BY <1>1, <3>1, FS_Subset
    <2>9. Cardinality(Best(found)) <= Cardinality({q \in WithTies(found) : RowLess(r, q)})
      BY <2>7, <2>8, FS_Subset
    <2>10. QED BY <2>6, <2>9
  <1>5. SegmentMatches(op, rows) \subseteq found BY <1>2, <1>3
  <1>6. CASE op.kind # "search" BY <1>1, <1>2, <1>5, <1>6 DEF found
  <1>7. CASE op.kind = "search" BY <1>2, <1>3, <1>4, <1>5, <1>7 DEF found
  <1>8. QED BY <1>6, <1>7

\* A segment's matches replace its rows in sight.
LEMMA SegmentRead ==
  ASSUME Inv, SegInv, ReadInv, OnceInv, NEW e \in read.todo, ReadSegment(e)
  PROVE  ReadInv' /\ OnceInv'
  <1>1. PICK op : op = read.op OBVIOUS
  <1> DEFINE p == op.proj
             matches == SegmentMatches(op, e.rows)
             hits == read.hits \cup Hits(op, e.mid, e.rows)
             todo == read.todo \ {e}
  <1>2. /\ read.pc = "open" /\ UNCHANGED vars /\ ReadTyped /\ QueryOK(op) /\ SightOK(op)
        /\ op \in Queries /\ p \in Projects
    BY <1>1, QueryType DEF ReadSegment, ReadInv, ReadTyped, Looking, QueryOK
  <1>3. Proceed(op, hits, todo)
    <2>1. PICK f \in files[p] : f.path = e.path
                 /\ Proceed(op, read.hits \cup Hits(op, e.mid, f.rows), read.todo \ {e})
      BY <1>1 DEF ReadSegment
    <2>2. f.rows = e.rows BY <1>2, <2>1 DEF SightOK, HeldOK
    <2>3. QED BY <2>1, <2>2
  <1>4. e \in Entry /\ e.mid \in Nat /\ e.rows \subseteq Row /\ e.rows \subseteq Sight
    BY <1>2 DEF ReadTyped, Entry, Sight
  <1>5. IsFiniteSet(e.rows) /\ OneId(e.rows) /\ OneId(Sight)
    BY <1>2, <1>4, FS_Subset DEF SightOK, OneId
  <1>6. matches \subseteq {q \in e.rows : Wanted(op, q)} BY DEF SegmentMatches, WithTies, Best
  <1> HIDE DEF matches
  <1>7. /\ \A h \in Hits(op, e.mid, e.rows) : h.mid = e.mid /\ h.row \in matches
                                                /\ h = [mid |-> e.mid, row |-> h.row]
        /\ \A r \in matches : [mid |-> e.mid, row |-> r] \in Hits(op, e.mid, e.rows)
    BY DEF Hits, matches
  <1>8. hits \in SUBSET Hit /\ todo \in SUBSET Entry
    <2>1. Hits(op, e.mid, e.rows) \subseteq Hit BY <1>4, <1>6 DEF Hits, Hit, matches
    <2>2. QED BY <1>2, <2>1 DEF ReadTyped
  <1>9. /\ ReadTyped' /\ read'.hits = hits /\ read'.todo = todo
        /\ read'.pc \in {"done", "open"}
        /\ read'.pc = "done" => todo = {} \/ (LooksUp(op) /\ hits # {})
        /\ read'.op = op /\ read'.owed = read.owed /\ read'.gone = read.gone
        /\ LooksUp(op)' <=> LooksUp(op)
        /\ \A r : Wanted(op, r)' <=> Wanted(op, r)
    <2> HIDE DEF hits, todo
    <2>1. QED BY <1>1, <1>2, <1>3, <1>8, ProceedFacts
  <1>10. /\ Live(p)' = Live(p) /\ retired'[p] = retired[p] /\ phase' = phase /\ manifest'[p] = manifest[p]
         /\ \A x : HeldOK(p, x)' <=> HeldOK(p, x)
    BY <1>2, StoreStill
  <1>11. Due(p)' = Due(p) /\ QueryOK(op)' BY <1>2, <1>9, <1>10 DEF Due, QueryOK
  <1>12. HitRows' = HitRows \cup matches
    <2>1. HitRows' = {h.row : h \in hits} BY <1>9 DEF HitRows
    <2>2. ASSUME NEW r \in matches PROVE r \in HitRows'
      <3>1. [mid |-> e.mid, row |-> r] \in hits BY <1>7
      <3>2. [mid |-> e.mid, row |-> r].row = r OBVIOUS
      <3> HIDE DEF hits
      <3>3. QED BY <2>1, <3>1, <3>2
    <2>3. \A h \in hits : h.row \in HitRows \cup matches BY <1>7 DEF HitRows
    <2>4. HitRows \subseteq HitRows' BY <2>1 DEF HitRows
    <2> HIDE DEF hits
    <2>5. QED BY <2>1, <2>2, <2>3, <2>4
  <1>13. Sight' = HitRows' \cup UNION {x.rows : x \in todo} BY <1>9 DEF Sight
  <1>14. Sight' \subseteq Sight BY <1>4, <1>6, <1>12, <1>13 DEF Sight
  <1>15. IsFiniteSet(Sight)' /\ IsFiniteSet(HitRows')
    <2>1. HitRows' \in SUBSET Sight BY <1>13, <1>14
    <2>2. QED BY <1>2, <1>14, <2>1, FS_Subset DEF SightOK
  <1>16. ASSUME NEW r, NEW rows \in SUBSET HitRows', Limit <= Cardinality({q \in rows : RowLess(r, q)})
         PROVE  Beaten(r)'
    <2>1. IsFiniteSet({q \in HitRows' : RowLess(r, q)})
      <3>1. {q \in HitRows' : RowLess(r, q)} \in SUBSET HitRows' OBVIOUS
      <3>2. QED BY <1>15, <3>1, FS_Subset
    <2>2. {q \in rows : RowLess(r, q)} \in SUBSET {q \in HitRows' : RowLess(r, q)} BY <1>16
    <2>3. Cardinality({q \in rows : RowLess(r, q)}) <= Cardinality({q \in HitRows' : RowLess(r, q)})
      BY <2>1, <2>2, FS_Subset
    <2>4. IsFiniteSet({q \in rows : RowLess(r, q)}) BY <2>1, <2>2, FS_Subset
    <2>5. /\ Limit \in Nat /\ Cardinality({q \in rows : RowLess(r, q)}) \in Nat
          /\ Cardinality({q \in HitRows' : RowLess(r, q)}) \in Nat
      BY <2>1, <2>4, FS_CardinalityType, ReadAssumption
    <2>6. Limit <= Cardinality({q \in HitRows' : RowLess(r, q)}) BY <1>16, <2>3, <2>5
    <2>7. QED BY <2>6 DEF Beaten
  <1>17. ASSUME NEW r \in Due(p), Wanted(op, r)
         PROVE  r \in Sight' \/ (op.kind = "search" /\ Beaten(r)')
    <2>1. CASE r \in HitRows BY <1>12, <1>13, <2>1
    <2>2. ASSUME NEW x \in read.todo, x # e, r \in x.rows PROVE r \in Sight' BY <1>13, <2>2
    <2>3. CASE r \in e.rows
      <3>1. \/ r \in matches
            \/ op.kind = "search" /\ Limit <= Cardinality({q \in matches : RowLess(r, q)})
        BY <1>2, <1>4, <1>5, <1>17, <2>3, ScanFinds DEF matches
      <3>2. matches \in SUBSET HitRows' BY <1>12
      <3>3. QED BY <1>12, <1>13, <1>16, <3>1, <3>2
    <2>4. CASE op.kind = "search" /\ Beaten(r)
      <3>1. HitRows \in SUBSET HitRows' BY <1>12
      <3>2. QED BY <1>16, <2>4, <3>1 DEF Beaten
    <2>5. r \in Sight \/ (op.kind = "search" /\ Beaten(r)) BY <1>2, <1>17 DEF SightOK
    <2>6. QED BY <2>1, <2>2, <2>3, <2>4, <2>5 DEF Sight
  <1>18. SightOK(op)'
    <2>1. (\A x \in read.todo : HeldOK(op.proj, x))' BY <1>2, <1>9, <1>10 DEF SightOK
    <2>2. (\A a, b \in Sight \cup Due(op.proj) : a.id = b.id => a = b)'
      BY <1>2, <1>11, <1>14 DEF SightOK
    <2>3. (\A r \in Due(op.proj) : Wanted(op, r) => r \in Sight \/ (op.kind = "search" /\ Beaten(r)))'
      BY <1>9, <1>11, <1>17
    <2>4. (LooksUp(op) => \A h \in read.hits : h.row.id = op.id)'
      <3>1. \A r \in matches : LooksUp(op) => r.id = op.id BY <1>6 DEF Wanted
      <3>2. LooksUp(op) => \A h \in read.hits : h.row.id = op.id BY <1>2 DEF SightOK
      <3>3. QED BY <1>7, <1>9, <3>1, <3>2
    <2>5. QED BY <1>9, <1>15, <2>1, <2>2, <2>3, <2>4 DEF SightOK
  <1>19. OnceInv'
    <2>1. ASSUME CleanLog PROVE OnceOK'
      <3>1. OnceOK BY <1>2, <2>1 DEF OnceInv, Looking
      <3>2. Sight' \cap read'.gone = {} BY <1>9, <1>14, <3>1 DEF OnceOK
      <3>3. \A h \in Hits(op, e.mid, e.rows) : h.row \in e.rows BY <1>6, <1>7
      <3>4. \A h, g \in Hits(op, e.mid, e.rows) : h.row = g.row => h = g BY <1>7
      <3>5. \A h, g \in hits : h.row = g.row => h = g BY <3>1, <3>3, <3>4 DEF OnceOK
      <3>6. \A h \in hits, x \in todo : h.row \notin x.rows BY <3>1, <3>3 DEF OnceOK
      <3>7. \A d, x \in todo : d = x \/ d.rows \cap x.rows = {} BY <3>1 DEF OnceOK
      <3>8. QED BY <1>9, <3>2, <3>5, <3>6, <3>7 DEF OnceOK
    <2>2. QED BY <2>1 DEF OnceInv, CleanLog
  <1>20. QueryOK(read.op)' /\ SightOK(read.op)'
    BY <1>9, <1>11, <1>18 DEF QueryOK, SightOK, Wanted, LooksUp
  <1>21. QED BY <1>9, <1>19, <1>20 DEF ReadInv

\* Only a segment the manifest does not list vanishes.
LEMMA VanishedRead ==
  ASSUME Inv, SegInv, ReadInv, OnceInv, NEW e \in read.todo, ReadVanished(e)
  PROVE  ReadInv' /\ OnceInv'
  <1>1. PICK op : op = read.op OBVIOUS
  <1>2. /\ read.pc = "open" /\ UNCHANGED vars /\ ReadTyped /\ QueryOK(op) /\ SightOK(op)
        /\ op \in Queries /\ op.proj \in Projects
    BY <1>1, QueryType DEF ReadVanished, ReadInv, ReadTyped, Looking, QueryOK
  <1>3. e \notin manifest[op.proj]
    <2>1. e.path \notin SegmentPaths(files[op.proj]) BY <1>1 DEF ReadVanished
    <2>2. ASSUME e \in manifest[op.proj] PROVE FALSE
      <3>1. [path |-> e.path, rows |-> e.rows] \in files[op.proj] BY <1>2, <2>2 DEF SegInv, FilesOK
      <3>2. [path |-> e.path, rows |-> e.rows].path = e.path OBVIOUS
      <3>3. QED BY <2>1, <3>1, <3>2 DEF SegmentPaths
    <2>3. QED BY <2>2
  <1>4. /\ read'.pc = "fresh" /\ read'.cur = e /\ ReadTyped'
        /\ read'.op = op /\ read'.owed = read.owed /\ read'.gone = read.gone /\ read'.hits = read.hits
        /\ read'.todo = read.todo /\ read'.target = read.target
    BY <1>1, <1>2 DEF ReadVanished, ReadTyped
  <1>5. /\ Live(op.proj)' = Live(op.proj) /\ retired'[op.proj] = retired[op.proj] /\ phase' = phase
        /\ manifest'[op.proj] = manifest[op.proj]
        /\ \A x : HeldOK(op.proj, x)' <=> HeldOK(op.proj, x)
    BY <1>2, StoreStill
  <1>6. Due(op.proj)' = Due(op.proj) /\ HitRows' = HitRows /\ Sight' = Sight
    BY <1>4, <1>5 DEF Due, Sight, HitRows
  <1>7. QueryOK(op)' BY <1>2, <1>4, <1>5, <1>6 DEF QueryOK
  <1>8. /\ LooksUp(op)' <=> LooksUp(op)
        /\ \A r : (Wanted(op, r)' <=> Wanted(op, r)) /\ (Beaten(r)' <=> Beaten(r))
    BY <1>4, <1>6 DEF LooksUp, Wanted, Beaten
  <1>9. SightOK(op)' BY <1>2, <1>3, <1>4, <1>5, <1>6, <1>8 DEF SightOK
  <1>10. OnceInv'
    <2>1. ASSUME CleanLog PROVE OnceOK'
      <3>1. OnceOK BY <1>2, <2>1 DEF OnceInv, Looking
      <3>2. QED BY <1>4, <1>6, <3>1 DEF OnceOK
    <2>2. QED BY <2>1 DEF OnceInv, CleanLog
  <1>11. QueryOK(read.op)' /\ SightOK(read.op)'
    BY <1>4, <1>7, <1>9 DEF QueryOK, SightOK, Wanted, LooksUp
  <1>12. QED BY <1>4, <1>10, <1>11 DEF ReadInv

\* So the query never finds it listed after all: it starts over, or gives up.
LEMMA RecheckRead ==
  ASSUME Inv, SegInv, ReadInv, NEW p \in Projects, ReadRecheck(p)
  PROVE  ReadInv' /\ OnceInv'
  <1>1. PICK op : op = read.op OBVIOUS
  <1>2. /\ read.pc = "fresh" /\ UNCHANGED vars /\ ReadTyped /\ QueryOK(op) /\ SightOK(op) /\ op.proj = p
    BY <1>1 DEF ReadRecheck, ReadInv, Looking
  <1>3. ~Listed(p, read.cur)
    <2>1. HeldOK(p, read.cur) /\ read.cur \notin manifest[p] BY <1>2 DEF SightOK
    <2>2. ASSUME NEW x \in manifest[p], x.mid = read.cur.mid PROVE FALSE
      <3>1. Apart(read.cur, x) BY <2>1, InUseType DEF HeldOK
      <3>2. QED BY <2>1, <2>2, <3>1 DEF Apart
    <2>3. QED BY <2>2 DEF Listed
  <1>4. /\ read'.pc \in {"failed", "snapshot"} /\ ReadTyped'
        /\ read'.op = op /\ read'.owed = read.owed /\ read'.gone = read.gone
    <2>1. \/ read' = [read EXCEPT !.pc = "failed"]
          \/ read' = [read EXCEPT !.pc = "snapshot", !.attempt = @ + 1, !.hits = {}, !.todo = {},
                                  !.segs = {}, !.cur = None]
      BY <1>2, <1>3 DEF ReadRecheck
    <2>2. ReadTyped BY <1>2
    <2>3. CASE read' = [read EXCEPT !.pc = "failed"] BY <1>1, <2>2, <2>3 DEF ReadTyped
    <2>4. CASE read' = [read EXCEPT !.pc = "snapshot", !.attempt = @ + 1, !.hits = {}, !.todo = {},
                                    !.segs = {}, !.cur = None]
      <3>1. read.attempt + 1 \in Nat BY <2>2 DEF ReadTyped
      <3>2. QED BY <1>1, <2>2, <2>4, <3>1 DEF ReadTyped
    <2>5. QED BY <2>1, <2>3, <2>4
  <1>5. Live(p)' = Live(p) /\ retired'[p] = retired[p] /\ phase' = phase BY <1>2, StoreStill
  <1>6. QueryOK(op)' BY <1>2, <1>4, <1>5 DEF QueryOK, Due
  <1>7. QueryOK(read.op)' BY <1>4, <1>6 DEF QueryOK
  <1>8. QED BY <1>4, <1>7 DEF ReadInv, OnceInv, Looking

\* LogContext starts over with its log in hand.
LEMMA CollectsRead ==
  ASSUME Inv, ReadInv, ContextCollects
  PROVE  ReadInv' /\ OnceInv'
  <1>1. PICK op : op = read.op OBVIOUS
  <1>2. /\ UNCHANGED vars /\ ReadTyped /\ QueryOK(op) /\ op.proj \in Projects
    BY <1>1, QueryType DEF ContextCollects, ReadInv, QueryOK
  <1>3. (CHOOSE h \in read.hits : TRUE) \in read.hits BY DEF ContextCollects
  <1>4. (CHOOSE h \in read.hits : TRUE).row \in Row BY <1>2, <1>3 DEF ReadTyped, Hit
  <1>5. /\ read'.pc = "snapshot" /\ ReadTyped'
        /\ read'.op = op /\ read'.owed = read.owed /\ read'.gone = read.gone
    BY <1>1, <1>2, <1>4 DEF ContextCollects, ReadTyped
  <1>6. Live(op.proj)' = Live(op.proj) /\ retired'[op.proj] = retired[op.proj] /\ phase' = phase
    BY <1>2, StoreStill
  <1>7. QueryOK(op)' BY <1>2, <1>5, <1>6 DEF QueryOK, Due
  <1>8. QueryOK(read.op)' BY <1>5, <1>7 DEF QueryOK
  <1>9. QED BY <1>5, <1>8 DEF ReadInv, OnceInv, Looking

\* No query is in progress.
LEMMA IdleRead == ASSUME read = NoRead PROVE ReadInv /\ OnceInv
  <1>1. ReadTyped /\ read.pc = "idle" BY DEF NoRead, ReadTyped
  <1>2. QED BY <1>1 DEF ReadInv, OnceInv, Looking

\* Or none any more.
LEMMA EndsRead == ASSUME read' = NoRead PROVE ReadInv' /\ OnceInv'
  <1>1. ReadTyped' /\ read'.pc = "idle" BY DEF NoRead, ReadTyped
  <1>2. QED BY <1>1 DEF ReadInv, OnceInv, Looking

-----------------------------------------------------------------------------
(* Together *)

\* A step beside a query is one of the store's, or leaves it alone.
LEMMA ReadIsBeside == ASSUME [NextRead]_readVars PROVE [Next]_vars
  <1>1. CASE ReadNext
    BY <1>1 DEF ReadNext, ReadBegin, ReadSnapshot, ReadSegment, ReadVanished, ReadRecheck, ContextCollects,
                ReadReturn
  <1>2. CASE StoreNext BY <1>2 DEF StoreNext, Next
  <1>3. CASE ReadDies BY <1>3 DEF ReadDies, Next
  <1>4. CASE UNCHANGED readVars BY <1>4 DEF readVars
  <1>5. QED BY <1>1, <1>2, <1>3, <1>4 DEF NextRead

\* Every step keeps the query's invariants.
LEMMA NextReadInv ==
  ASSUME Inv, Inv', SegInv, RefInv, DupInv, LogInv, ReadInv, OnceInv, [NextRead]_readVars
  PROVE  ReadInv' /\ OnceInv'
  <1>1. [Next]_vars BY ReadIsBeside
  <1>2. CASE ReadNext
    <2>1. ASSUME NEW op \in Searches \cup Lookups \cup Contexts, ReadBegin(op) \/ ReadSnapshot(op)
          PROVE  ReadInv' /\ OnceInv'
      BY <2>1, BeginRead, SnapshotRead DEF Queries
    <2>2. ReadReturn => read' = NoRead BY DEF ReadReturn
    <2>3. QED BY <1>2, <2>1, <2>2, SegmentRead, VanishedRead, RecheckRead, CollectsRead, EndsRead DEF ReadNext
  <1>3. CASE StoreNext /\ UNCHANGED read BY <1>1, <1>3, StaysUp, StoreRead
  <1>4. CASE ReadDies BY <1>4, EndsRead DEF ReadDies
  <1>5. CASE UNCHANGED readVars
    <2>1. UNCHANGED read /\ phase' = phase BY <1>5 DEF readVars, vars
    <2>2. QED BY <1>1, <2>1, StoreRead
  <1>6. QED BY <1>2, <1>3, <1>4, <1>5 DEF NextRead

-----------------------------------------------------------------------------
(* What the queries answer *)

AllInv == Inv /\ SegInv /\ RefInv /\ BatchInv /\ DupInv /\ LogInv /\ ReadInv /\ OnceInv

\* The invariant holds all along.
LEMMA ReadInvariance == SpecRead => []AllInv
  <1>1. InitRead => AllInv
    BY InitInv, InitSegInv, InitRef, InitBatch, InitDup, InitLog, IdleRead DEF InitRead, AllInv
  <1>2. AllInv /\ [NextRead]_readVars => AllInv'
    BY ReadIsBeside, NextInv, NextSegInv, NextRef, NextBatch, NextDup, NextLog, NextReadInv DEF AllInv
  <1>3. QED BY <1>1, <1>2, PTL DEF SpecRead

(* No query takes a segment that a compaction or a prune removed for a      *)
(* corrupt one (NoFalseCorruption): what vanished under openScanWithRestart *)
(* is never a segment the manifest lists.                                   *)
THEOREM NeverFalselyCorrupt == SpecRead => []NoFalseCorruption
  <1>1. AllInv => NoFalseCorruption BY DEF AllInv, ReadInv, ReadTyped, NoFalseCorruption
  <1>2. QED BY <1>1, ReadInvariance, PTL

\* What is in sight of an answered query.
LEMMA AnswerFacts ==
  ASSUME AllInv, NEW op, op = read.op, read.pc = "done"
  PROVE  /\ op \in Queries /\ SightOK(op) /\ ReadTyped /\ Stable = {r \in Due(op.proj) : Wanted(op, r)}
         /\ ~LooksUp(op) => Sight = HitRows
         /\ HitRows \in SUBSET Sight /\ HitRows \in SUBSET Row /\ IsFiniteSet(HitRows)
         /\ Due(op.proj) \subseteq Row
         /\ \A r \in Due(op.proj) : OneId(HitRows \cup {r})
  <1>1. op \in Queries /\ SightOK(op) /\ ReadTyped BY DEF AllInv, ReadInv, QueryOK, Looking
  <1>2. Stable = {r \in Due(op.proj) : Wanted(op, r)} BY DEF Stable, Due
  <1>3. ~LooksUp(op) => Sight = HitRows BY <1>1 DEF SightOK, Sight
  <1>4. HitRows \in SUBSET Sight BY DEF Sight
  <1>5. HitRows \in SUBSET Row BY <1>1 DEF ReadTyped, HitRows, Hit
  <1>6. IsFiniteSet(HitRows) BY <1>1, <1>4, FS_Subset DEF SightOK
  <1>7. Due(op.proj) \subseteq Row BY <1>1 DEF ReadTyped, Due
  <1>8. \A r \in Due(op.proj) : OneId(HitRows \cup {r}) BY <1>1, <1>4 DEF SightOK, OneId
  <1>9. QED BY <1>1, <1>2, <1>3, <1>4, <1>5, <1>6, <1>7, <1>8

(* A lookup that answers "not found" looked for a log that was not there    *)
(* all the while, and one that finds a log finds that one (LookupFinds),    *)
(* however many segments vanish under it.                                   *)
THEOREM LookupsFind == SpecRead => []LookupFinds
  <1>1. ASSUME AllInv, Answered("id") \/ Answered("context"), read.target = None, NEW r \in Stable
        PROVE  {h.row : h \in read.hits} = {r}
    <2>1. PICK op : op = read.op OBVIOUS
    <2>2. read.pc = "done" /\ op.kind \in {"id", "context"} BY <1>1, <2>1 DEF Answered
    <2>3. LooksUp(op) BY <1>1, <2>2 DEF LooksUp
    <2>4. SightOK(op) /\ r \in Due(op.proj) /\ Wanted(op, r) BY <1>1, <2>1, <2>2, AnswerFacts
    <2>5. r \in Sight /\ r.id = op.id BY <2>2, <2>3, <2>4 DEF SightOK, Wanted
    <2>6. \A h \in read.hits : h.row \in Sight /\ h.row.id = op.id
      BY <2>3, <2>4 DEF SightOK, Sight, HitRows
    <2>7. \A h \in read.hits : h.row = r BY <2>4, <2>5, <2>6 DEF SightOK
    <2>8. read.hits # {}
      <3>1. read.todo = {} \/ read.hits # {} BY <2>2, <2>4 DEF SightOK
      <3>2. read.todo = {} => r \in HitRows BY <2>5 DEF Sight
      <3>3. QED BY <3>1, <3>2 DEF HitRows
    <2>9. QED BY <2>7, <2>8
  <1>2. AllInv => LookupFinds BY <1>1 DEF LookupFinds
  <1>3. QED BY <1>2, ReadInvariance, PTL

(* A search leaves out a matching row that was there all the while only for *)
(* Limit newer ones (SearchNewest), wherever the per-segment cut falls.     *)
THEOREM SearchesAreNewest == SpecRead => []SearchNewest
  <1>1. ASSUME AllInv, Answered("search"), NEW r \in Stable, r \notin Result(read.op, read.hits)
        PROVE  /\ Cardinality(Result(read.op, read.hits)) = Limit
               /\ \A q \in Result(read.op, read.hits) : RowLess(r, q)
    <2>1. PICK op : op = read.op OBVIOUS
    <2>2. read.pc = "done" /\ op.kind = "search" BY <1>1, <2>1 DEF Answered
    <2>3. ~LooksUp(op) BY <2>2 DEF LooksUp
    <2>4. /\ SightOK(op) /\ r \in Due(op.proj) /\ Wanted(op, r) /\ Sight = HitRows /\ r \in Row
          /\ HitRows \in SUBSET Row /\ IsFiniteSet(HitRows) /\ OneId(HitRows \cup {r})
      BY <1>1, <2>1, <2>2, <2>3, AnswerFacts
    <2>5. Result(read.op, read.hits) = Best(HitRows) BY <2>1, <2>2 DEF Result, HitRows
    <2>6. IsFiniteSet({q \in HitRows : RowLess(r, q)})
      <3>1. {q \in HitRows : RowLess(r, q)} \in SUBSET HitRows OBVIOUS
      <3>2. QED BY <2>4, <3>1, FS_Subset
    <2>7. Cardinality({q \in HitRows : RowLess(r, q)}) \in Nat BY <2>6, FS_CardinalityType
    <2>8. Limit <= Cardinality({q \in HitRows : RowLess(r, q)})
      <3>1. CASE Beaten(r) BY <3>1 DEF Beaten
      <3>2. CASE r \in HitRows BY <1>1, <2>5, <2>7, <3>2, ReadAssumption DEF Best
      <3>3. QED BY <2>4, <3>1, <3>2 DEF SightOK
    <2>9. Limit \in Nat BY ReadAssumption
    <2>10. QED BY <2>4, <2>5, <2>8, <2>9, NewestAreNewer DEF Best
  <1>2. AllInv => SearchNewest BY <1>1 DEF SearchNewest
  <1>3. QED BY <1>2, ReadInvariance, PTL

\* A row not among the nearest to t has n nearer ones on its side.
LEMMA NearestAreNearer ==
  ASSUME NEW rows \in SUBSET Row, IsFiniteSet(rows), OneId(rows), NEW t \in Row, NEW n \in Nat,
         NEW r \in rows, r \notin Nearest(rows, t, n)
  PROVE  LET answer == Nearest(rows, t, n)
         IN /\ r # t
            /\ RowLess(t, r) => Cardinality({q \in answer : RowLess(t, q) /\ RowLess(q, r)}) >= n
            /\ ~RowLess(t, r) => Cardinality({q \in answer : RowLess(r, q) /\ ~RowLess(t, q)}) > n
  <1> DEFINE before == {q \in rows : ~RowLess(t, q)}
             after == rows \ before
             newest == {a \in before : Cardinality({q \in before : RowLess(a, q)}) < n + 1}
             oldest == {a \in after : Cardinality({q \in after : RowLess(q, a)}) < n}
             answer == Nearest(rows, t, n)
  <1>1. answer = {q \in before : Cardinality({x \in before : RowLess(q, x)}) <= n} \cup oldest
    BY DEF Nearest
  <1>2. \A q \in before : q \in rows /\ ~RowLess(t, q) OBVIOUS
  <1>3. \A q \in after : q \in rows /\ RowLess(t, q) OBVIOUS
  <1>4. r \in IF RowLess(t, r) THEN after ELSE before OBVIOUS
  <1> HIDE DEF before, after
  <1>5. before \in SUBSET rows /\ after \in SUBSET rows BY <1>2, <1>3
  <1>6. IsFiniteSet(before) /\ IsFiniteSet(after) BY <1>5, FS_Subset
  <1>7. ASSUME NEW a \in before PROVE Cardinality({q \in before : RowLess(a, q)}) \in Nat
    <2>1. {q \in before : RowLess(a, q)} \in SUBSET before OBVIOUS
    <2>2. IsFiniteSet({q \in before : RowLess(a, q)}) BY <1>6, <2>1, FS_Subset
    <2>3. QED BY <2>2, FS_CardinalityType
  <1>8. ASSUME NEW a \in after PROVE Cardinality({q \in after : RowLess(q, a)}) \in Nat
    <2>1. {q \in after : RowLess(q, a)} \in SUBSET after OBVIOUS
    <2>2. IsFiniteSet({q \in after : RowLess(q, a)}) BY <1>6, <2>1, FS_Subset
    <2>3. QED BY <2>2, FS_CardinalityType
  <1>9. answer = newest \cup oldest BY <1>1, <1>7
  <1>10. newest \subseteq before /\ oldest \subseteq after OBVIOUS
  <1>11. IsFiniteSet(answer)
    <2>1. answer \in SUBSET rows BY <1>5, <1>9, <1>10
    <2>2. QED BY <2>1, FS_Subset
  <1>12. r # t
    <2>1. t.ts \in Nat /\ t.id \in Nat BY ConstantsAssumption DEF Row
    <2>2. ~RowLess(t, t) BY <2>1 DEF RowLess
    <2>3. ASSUME r = t PROVE FALSE
      <3>1. t \in before BY <1>4, <2>2, <2>3
      <3>2. {q \in before : RowLess(t, q)} = {} BY <1>2
      <3>3. Cardinality({q \in before : RowLess(t, q)}) = 0 BY <3>2, FS_EmptySet
      <3>4. t \in newest BY <3>1, <3>3
      <3> HIDE DEF newest, oldest, answer
      <3>5. QED BY <1>9, <2>3, <3>4 DEF answer
    <2>4. QED BY <2>3
  <1>13. ASSUME RowLess(t, r) PROVE Cardinality({q \in answer : RowLess(t, q) /\ RowLess(q, r)}) >= n
    <2>1. r \in after BY <1>4, <1>13
    <2>2. r \notin oldest BY <1>9 DEF answer
    <2>3. n <= Cardinality({q \in after : RowLess(q, r)}) BY <1>8, <2>1, <2>2
    <2>4. OneId(after \cup {r}) /\ after \in SUBSET Row BY <1>5, <2>1 DEF OneId
    <2>5. r \in Row OBVIOUS
    <2>6. Cardinality(oldest) = n /\ \A q \in oldest : RowLess(q, r)
      BY <1>6, <2>3, <2>4, <2>5, OldestAreOlder
    <2> HIDE DEF newest, oldest, answer
    <2>7. oldest \in SUBSET {q \in answer : RowLess(t, q) /\ RowLess(q, r)}
      BY <1>3, <1>9, <1>10, <2>6
    <2>8. IsFiniteSet({q \in answer : RowLess(t, q) /\ RowLess(q, r)})
      <3>1. {q \in answer : RowLess(t, q) /\ RowLess(q, r)} \in SUBSET answer OBVIOUS
      <3>2. QED BY <1>11, <3>1, FS_Subset
    <2>9. /\ Cardinality(oldest) <= Cardinality({q \in answer : RowLess(t, q) /\ RowLess(q, r)})
          /\ Cardinality({q \in answer : RowLess(t, q) /\ RowLess(q, r)}) \in Nat
      BY <2>7, <2>8, FS_Subset, FS_CardinalityType
    <2>10. QED BY <2>6, <2>9
  <1>14. ASSUME ~RowLess(t, r)
         PROVE  Cardinality({q \in answer : RowLess(r, q) /\ ~RowLess(t, q)}) > n
    <2>1. r \in before BY <1>4, <1>14
    <2>2. r \notin newest BY <1>9 DEF answer
    <2>3. n + 1 <= Cardinality({q \in before : RowLess(r, q)}) BY <1>7, <2>1, <2>2
    <2>4. OneId(before \cup {r}) /\ before \in SUBSET Row BY <1>5, <2>1 DEF OneId
    <2>5. r \in Row /\ n + 1 \in Nat OBVIOUS
    <2>6. Cardinality(newest) = n + 1 /\ \A q \in newest : RowLess(r, q)
      BY <1>6, <2>3, <2>4, <2>5, NewestAreNewer
    <2> HIDE DEF newest, oldest, answer
    <2>7. newest \in SUBSET {q \in answer : RowLess(r, q) /\ ~RowLess(t, q)}
      BY <1>2, <1>9, <1>10, <2>6
    <2>8. IsFiniteSet({q \in answer : RowLess(r, q) /\ ~RowLess(t, q)})
      <3>1. {q \in answer : RowLess(r, q) /\ ~RowLess(t, q)} \in SUBSET answer OBVIOUS
      <3>2. QED BY <1>11, <3>1, FS_Subset
    <2>9. /\ Cardinality(newest) <= Cardinality({q \in answer : RowLess(r, q) /\ ~RowLess(t, q)})
          /\ Cardinality({q \in answer : RowLess(r, q) /\ ~RowLess(t, q)}) \in Nat
      BY <2>7, <2>8, FS_Subset, FS_CardinalityType
    <2>10. QED BY <2>6, <2>9
  <1>15. QED BY <1>12, <1>13, <1>14

(* Where every WAL is written and reset, LogContext answers with the rows   *)
(* next to its log, none twice and none pruned before it began (ReadExact). *)
(* A reset that fails leaves the flushed rows in the memtable as well, and  *)
(* a context shows them twice; a WAL that outlives its flush brings pruned  *)
(* rows back.                                                               *)
THEOREM ContextsAreExact == ASSUME CleanLog PROVE SpecRead => []ReadExact
  <1>1. ASSUME AllInv, Answered("context"), read.target # None
        PROVE  ReadExact
    <2>1. PICK op : op = read.op OBVIOUS
    <2>2. PICK t : t = read.target OBVIOUS
    <2>3. read.pc = "done" /\ op.kind = "context" BY <1>1, <2>1 DEF Answered
    <2>4. ~LooksUp(op) BY <1>1, <2>3 DEF LooksUp
    <2>5. /\ op \in Queries /\ SightOK(op) /\ ReadTyped /\ Sight = HitRows
          /\ HitRows \in SUBSET Row /\ IsFiniteSet(HitRows)
          /\ Stable = {r \in Due(op.proj) : Wanted(op, r)}
      BY <1>1, <2>1, <2>3, <2>4, AnswerFacts
    <2>6. t \in Row /\ op.n \in Nat BY <1>1, <2>2, <2>3, <2>5, QueryType DEF ReadTyped
    <2>7. Result(read.op, read.hits) = Nearest(HitRows, t, op.n)
      BY <2>1, <2>2, <2>3 DEF Result, HitRows
    <2>8. OnceOK BY <1>1, <2>3 DEF AllInv, OnceInv, Looking
    <2>9. Nearest(HitRows, t, op.n) \subseteq HitRows BY DEF Nearest
    <2>10. Nearest(HitRows, t, op.n) \cap read.gone = {} BY <2>5, <2>8, <2>9 DEF OnceOK
    <2>11. \A h1, h2 \in read.hits : h1.row = h2.row => h1 = h2 BY <2>8 DEF OnceOK
    <2>12. OneId(HitRows) BY <2>5 DEF SightOK, OneId
    <2>13. ASSUME NEW r \in Stable, r \notin Nearest(HitRows, t, op.n)
           PROVE  /\ r # t
                  /\ RowLess(t, r) => Cardinality({q \in Nearest(HitRows, t, op.n) :
                                                     RowLess(t, q) /\ RowLess(q, r)}) >= op.n
                  /\ ~RowLess(t, r) => Cardinality({q \in Nearest(HitRows, t, op.n) :
                                                      RowLess(r, q) /\ ~RowLess(t, q)}) > op.n
      <3>1. r \in HitRows BY <2>3, <2>5 DEF SightOK
      <3>2. PICK n \in Nat : n = op.n BY <2>6
      <3>3. r \notin Nearest(HitRows, t, n) BY <2>13, <3>2
      <3>4. QED BY <2>5, <2>6, <2>12, <3>1, <3>2, <3>3, NearestAreNearer
    <2>14. QED BY <2>1, <2>2, <2>7, <2>10, <2>11, <2>13 DEF ReadExact
  <1>2. AllInv => ReadExact BY <1>1 DEF ReadExact
  <1>3. QED BY <1>2, ReadInvariance, PTL
=============================================================================
