------------------------- MODULE LSMEngineCompaction ------------------------
(***************************************************************************)
(* Lemmas about the answers, the compaction and the loading of an          *)
(* LSMEngine: the types of what they compute, and the order of the ids.    *)
(***************************************************************************)
EXTENDS LSMEngineLemmas

-----------------------------------------------------------------------------
(* The largest element of a finite set of naturals.                        *)
LEMMA MaxOf ==
  ASSUME NEW S \in SUBSET Nat, IsFiniteSet(S), S # {}
  PROVE  Max(S) \in S /\ \A y \in S : y <= Max(S)
<1>1. \E x \in S : \A y \in S : x >= y
  BY GreatestNatural
<1>2. Max(S) \in S /\ \A y \in S : Max(S) >= y
  BY <1>1, ZenonT(60) DEF Max
<1> QED
  BY <1>2

(* Among finitely many versions of a key one has the greatest id, and that *)
(* is the one a read takes.                                                *)
LEMMA NewestIn ==
  ASSUME NEW V \in Tables, IsFiniteSet(V), V # {}
  PROVE  Newest(V) \in V
<1> DEFINE ids == {e.tid : e \in V}
           f   == [e \in V |-> e.tid]
<1>1. IsFiniteSet(ids)
  <2>1. f \in Surjection(V, ids)
    BY DEF Surjection
  <2> HIDE DEF f, ids
  <2> QED
    BY <2>1, FS_Surjection
<1>2. ids \in SUBSET Nat /\ ids # {}
  BY EngineAssumption DEF Tables, Entry
<1>3. PICK x \in ids : \A y \in ids : y <= x
  <2> HIDE DEF ids
  <2> QED
    BY <1>1, <1>2, GreatestNatural
<1>4. \E e \in V : \A g \in V : g.tid <= e.tid
  BY <1>3
<1> QED
  BY <1>4 DEF Newest

(* The versions a read may see are finitely many.                          *)
LEMMA VisibleFinite ==
  ASSUME NEW T \in Tables, IsFiniteSet(T), NEW k, NEW q
  PROVE  /\ Visible(T, k, q) \in Tables
         /\ IsFiniteSet(Visible(T, k, q))
         /\ Visible(T, k, q) \subseteq T
<1>1. Visible(T, k, q) \in SUBSET T
  BY DEF Visible
<1> QED
  BY <1>1, FS_Subset DEF Tables

(* Every answer of a stack of finite tables is a value or Tombstone.       *)
LEMMA ReadingType ==
  ASSUME NEW s \in Seq(Tables), \A i \in DOMAIN s : IsFiniteSet(s[i])
  PROVE  Reading(s) \in [Keys \X Queries -> 0 .. MaxWrites]
<1> SUFFICES ASSUME NEW k, NEW q
             PROVE  Lookup(s, k, q, Tombstone) \in 0 .. MaxWrites
  BY DEF Reading
<1> DEFINE H == Hits(s, k, q)
<1>1. CASE H = {}
  BY <1>1, EngineAssumption DEF Lookup, Tombstone
<1>2. CASE H # {}
  <2> DEFINE i == First(H)
             V == Visible(s[i], k, q)
  <2>1. H \in SUBSET Nat
    BY DEF Hits
  <2>2. i \in H
    <3> HIDE DEF H
    <3> QED
      BY <1>2, <2>1, FirstIsLeast
  <2>3. i \in DOMAIN s /\ V # {}
    BY <2>2, ZenonT(60) DEF Hits
  <2> HIDE DEF i
  <2>4. s[i] \in Tables /\ IsFiniteSet(s[i])
    BY <2>3
  <2>5. V \in Tables /\ IsFiniteSet(V)
    BY <2>4, VisibleFinite
  <2>6. Newest(V) \in V
    <3> HIDE DEF V
    <3> QED
      BY <2>3, <2>5, NewestIn
  <2>7. Newest(V) \in Entry
    BY <2>5, <2>6 DEF Tables
  <2>8. Lookup(s, k, q, Tombstone) = Newest(V).val
    BY <1>2 DEF Lookup, i
  <2> HIDE DEF V
  <2> QED
    BY <2>7, <2>8 DEF Entry
<1> QED
  BY <1>1, <1>2

-----------------------------------------------------------------------------
(* What a compaction reads.                                                *)

FilesOK(z) == ZeroType(z) /\ \A i \in DOMAIN z : IsFiniteSet(z[i].ents)

AllEntries(z) == UNION {z[i].ents : i \in DOMAIN z}

(* Each file of a well-formed list is a finite table.                      *)
LEMMA FileAt ==
  ASSUME NEW z, FilesOK(z), NEW i \in DOMAIN z
  PROVE  /\ z[i] \in [id : Nat, ents : Tables] /\ z[i].ents \in Tables
         /\ IsFiniteSet(z[i].ents)
<1>1. z[i] \in [id : Nat, ents : Tables]
  <2>1. z \in Seq([id : Nat, ents : Tables])
    BY DEF FilesOK, ZeroType
  <2>2. i \in 1 .. Len(z)
    BY <2>1
  <2> QED
    BY <2>1, <2>2, ElementOfSeq, ZenonT(60)
<1>2. z[i].ents \in Tables
  BY <1>1
<1>3. IsFiniteSet(z[i].ents)
  BY DEF FilesOK
<1> QED
  BY <1>1, <1>2, <1>3, SMTT(60)

(* The entries of a list of files are finitely many.                       *)
LEMMA AllEntriesFinite ==
  ASSUME NEW z, FilesOK(z)
  PROVE  AllEntries(z) \in Tables /\ IsFiniteSet(AllEntries(z))
<1> DEFINE P == {z[i].ents : i \in DOMAIN z}
           f == [i \in DOMAIN z |-> z[i].ents]
<1>1. IsFiniteSet(DOMAIN z)
  <2>1. Len(z) \in Nat /\ DOMAIN z = 1 .. Len(z)
    BY DEF FilesOK, ZeroType
  <2> QED
    BY <2>1, FS_Interval
<1>2. IsFiniteSet(P)
  <2>1. f \in Surjection(DOMAIN z, P)
    BY DEF Surjection
  <2> HIDE DEF f, P
  <2> QED
    BY <1>1, <2>1, FS_Surjection
<1>3. \A T \in P : IsFiniteSet(T) /\ T \in Tables
  BY FileAt
<1>4. UNION P \in Tables
  BY <1>3, SMTT(60) DEF Tables
<1>5. IsFiniteSet(UNION P)
  <2> HIDE DEF P
  <2> QED
    BY <1>2, <1>3, FS_UNION, SMTT(60)
<1> QED
  BY <1>4, <1>5 DEF AllEntries

(* The merged level 0 is made of entries of its files.                     *)
LEMMA MergedL0Finite ==
  ASSUME FilesOK(l0)
  PROVE  MergedL0 \in Tables /\ IsFiniteSet(MergedL0)
<1> DEFINE c == Contents(l0)
<1>1. DOMAIN c = DOMAIN l0 /\ (\A i \in DOMAIN l0 : c[i] = l0[i].ents) /\ DOMAIN l0 \subseteq Nat
  BY DEF Contents, FilesOK, ZeroType
<1> HIDE DEF c
<1>2. ASSUME NEW k, Hits(c, k, 0) # {} PROVE NewestL0(k) \in AllEntries(l0)
  <2> DEFINE H == Hits(c, k, 0)
             i == First(H)
             V == Visible(c[i], k, 0)
  <2>1. H \in SUBSET Nat
    BY <1>1 DEF Hits
  <2>2. i \in H
    <3> HIDE DEF H
    <3> QED
      BY <1>2, <2>1, FirstIsLeast, SMTT(60) DEF H
  <2>3. i \in DOMAIN l0 /\ V # {}
    BY <1>1, <2>2, SMTT(60) DEF Hits
  <2>4. NewestL0(k) = Newest(V)
    BY DEF NewestL0, c
  <2> HIDE DEF i
  <2>5. c[i] = l0[i].ents /\ c[i] \in Tables /\ IsFiniteSet(c[i])
    BY <1>1, <2>3, FileAt
  <2>6. V \in Tables /\ IsFiniteSet(V) /\ V \subseteq c[i]
    BY <2>5, VisibleFinite, SMTT(60)
  <2>7. Newest(V) \in V
    <3> HIDE DEF V
    <3> QED
      BY <2>3, <2>6, NewestIn, SMTT(60)
  <2> QED
    BY <2>3, <2>4, <2>5, <2>6, <2>7, SMTT(60) DEF AllEntries
<1>3. MergedL0 \in SUBSET AllEntries(l0)
  BY <1>2 DEF MergedL0, c
<1> QED
  BY <1>3, AllEntriesFinite, FS_Subset, SMTT(60) DEF Tables

(* So is a sorted level as ConcactIterator lists it.                       *)
LEMMA ConcatenatedFinite ==
  ASSUME NEW z, FilesOK(z)
  PROVE  Concatenated(z) \in Tables /\ IsFiniteSet(Concatenated(z))
<1>1. ASSUME NEW i \in DOMAIN z, NEW e \in z[i].ents
      PROVE  Newest(Visible(z[i].ents, e.key, 0)) \in z[i].ents
  <2> DEFINE V == Visible(z[i].ents, e.key, 0)
  <2>1. z[i].ents \in Tables /\ IsFiniteSet(z[i].ents)
    BY FileAt
  <2>2. V \in Tables /\ IsFiniteSet(V) /\ V \subseteq z[i].ents
    BY <2>1, VisibleFinite
  <2>3. e \in V
    BY DEF Visible
  <2> HIDE DEF V
  <2>4. Newest(V) \in V
    BY <2>2, <2>3, NewestIn, SMTT(60)
  <2> QED
    BY <2>2, <2>4 DEF V
<1>2. Concatenated(z) \in SUBSET AllEntries(z)
  BY <1>1 DEF Concatenated, AllEntries
<1> QED
  BY <1>2, AllEntriesFinite, FS_Subset, SMTT(60) DEF Tables

(* Merging two finite tables, with every id set to 0, gives a finite one.  *)
LEMMA TwoMergeFinite ==
  ASSUME NEW a \in Tables, IsFiniteSet(a), NEW b \in Tables, IsFiniteSet(b)
  PROVE  TwoMerge(a, b) \in Tables /\ IsFiniteSet(TwoMerge(a, b))
<1> DEFINE c == a \cup {f \in b : f.key \notin {e.key : e \in a}}
           g == [e \in c |-> [e EXCEPT !.tid = 0]]
           R == {[e EXCEPT !.tid = 0] : e \in c}
<1>1. c \in Tables /\ IsFiniteSet(c)
  <2>1. {f \in b : f.key \notin {e.key : e \in a}} \in SUBSET b
    OBVIOUS
  <2> QED
    BY <2>1, FS_Subset, FS_Union, ZenonT(60) DEF Tables
<1>2. TwoMerge(a, b) = R
  BY DEF TwoMerge
<1> HIDE DEF c
<1>3. IsFiniteSet(R)
  <2>1. g \in Surjection(c, R)
    BY DEF Surjection
  <2> HIDE DEF g, R
  <2> QED
    BY <1>1, <2>1, FS_Surjection, SMTT(60)
<1>4. \A e \in c : [e EXCEPT !.tid = 0] \in Entry
  BY <1>1 DEF Tables, Entry
<1>5. R \in Tables
  BY <1>4 DEF Tables
<1> QED
  BY <1>2, <1>3, <1>5, SMTT(60)

-----------------------------------------------------------------------------
(* What a compaction writes.                                               *)

(* The capacity of a table, and the number of tables cut from n entries,   *)
(* are natural numbers.                                                    *)
LEMMA NumTablesType ==
  ASSUME NEW level \in Levels, NEW n \in Nat
  PROVE  TableCap(level) \in Nat \ {0} /\ NumTables(n, level) \in Nat
<1> DEFINE x == Ratio ^ level
           y == TargetSize(level)
           c == TableCap(level)
<1>1. x \in Nat /\ PerLimit \in Nat /\ BlockCap \in Nat \ {0}
  BY EngineAssumption, MemAssumption DEF Levels
<1>2. y = PerLimit * x
  BY DEF TargetSize
<1> HIDE DEF x
<1>3. y \in Nat
  BY <1>1, <1>2
<1>4. c = ((y + BlockCap - 1) \div BlockCap) * BlockCap + 1
  BY DEF TableCap
<1> HIDE DEF y
<1> DEFINE d == (y + BlockCap - 1) \div BlockCap
<1>5. d \in Nat
  BY <1>1, <1>3
<1> HIDE DEF d
<1>6. c \in Nat \ {0}
  <2>1. c = d * BlockCap + 1
    BY <1>4 DEF d
  <2>2. d * BlockCap \in Nat
    BY <1>1, <1>5
  <2> QED
    BY <2>1, <2>2
<1>7. NumTables(n, level) = n \div c + (IF n % c > BlockCap THEN 1 ELSE 0)
  BY DEF NumTables
<1> HIDE DEF c
<1>8. n \div c \in Nat
  BY <1>6
<1> QED
  BY <1>6, <1>7, <1>8 DEF c

(* Cutting finitely many entries gives a sequence of finite tables.        *)
LEMMA CutType ==
  ASSUME NEW ents \in Tables, IsFiniteSet(ents), NEW level \in Levels
  PROVE  /\ Cut(ents, level).made \in Seq(Tables)
         /\ \A i \in DOMAIN Cut(ents, level).made : IsFiniteSet(Cut(ents, level).made[i])
<1> DEFINE n == NumTables(Cardinality(ents), level)
           part(i) == {e \in ents : TableOf(e, ents, level) = i}
           made == Cut(ents, level).made
<1>1. n \in Nat
  BY FS_CardinalityType, NumTablesType
<1>2. made = [i \in 1 .. n |-> part(i)]
  BY DEF Cut
<1>3. \A i \in 1 .. n : part(i) \in Tables /\ IsFiniteSet(part(i))
  BY FS_Subset DEF Tables
<1> HIDE DEF made, part, n
<1>4. made \in Seq(Tables) /\ DOMAIN made = 1 .. n
  BY <1>1, <1>2, <1>3, SMTT(60)
<1>5. \A i \in DOMAIN made : IsFiniteSet(made[i])
  BY <1>2, <1>3, <1>4
<1> QED
  BY <1>4, <1>5 DEF made

(* The number of files written is a natural number.                        *)
LEMMA NumMadeType ==
  ASSUME NEW cuts, NEW ls, IsFiniteSet(ls), \A l \in ls : cuts[l].made \in Seq(Tables)
  PROVE  NumMade(cuts, ls) \in Nat
<1> DEFINE P == {{l} \X DOMAIN cuts[l].made : l \in ls}
           f == [l \in ls |-> {l} \X DOMAIN cuts[l].made]
<1>1. IsFiniteSet(P)
  <2>1. f \in Surjection(ls, P)
    BY ZenonT(60) DEF Surjection
  <2> HIDE DEF f, P
  <2> QED
    BY <2>1, FS_Surjection
<1>2. ASSUME NEW l \in ls PROVE IsFiniteSet({l} \X DOMAIN cuts[l].made)
  <2>1. Len(cuts[l].made) \in Nat /\ DOMAIN cuts[l].made = 1 .. Len(cuts[l].made)
    OBVIOUS
  <2>2. IsFiniteSet(DOMAIN cuts[l].made)
    BY <2>1, FS_Interval, SMTT(60)
  <2> QED
    BY <2>2, FS_Singleton, FS_Product, ZenonT(60)
<1>3. \A T \in P : IsFiniteSet(T)
  BY <1>2, SMTT(60)
<1>4. IsFiniteSet(UNION P)
  <2> HIDE DEF P
  <2> QED
    BY <1>1, <1>3, FS_UNION, SMTT(60)
<1> QED
  BY <1>4, FS_CardinalityType DEF NumMade

(* Every cut of the cascade is a sequence of finite tables.                *)
LEMMA CutsType ==
  ASSUME FilesOK(l0), \A l \in Levels : FilesOK(levels[l]),
         NEW d \in Nat, d < MaxLevel, NEW l \in 0 .. d
  PROVE  /\ Cuts(d)[l].made \in Seq(Tables)
         /\ \A i \in DOMAIN Cuts(d)[l].made : IsFiniteSet(Cuts(d)[l].made[i])
<1> DEFINE a == IF l = 0 THEN MergedL0 ELSE Concatenated(levels[l])
           b == IF l = d THEN Concatenated(levels[l + 1]) ELSE {}
           e == MergedInto(l, d)
<1>1. l + 1 \in Levels /\ (l # 0 => l \in Levels)
  BY EngineAssumption, SMTT(60) DEF Levels
<1>2. a \in Tables /\ IsFiniteSet(a)
  BY <1>1, MergedL0Finite, ConcatenatedFinite, SMTT(60)
<1>3. b \in Tables /\ IsFiniteSet(b)
  BY <1>1, ConcatenatedFinite, FS_EmptySet, SMTT(60) DEF Tables
<1>4. e = TwoMerge(a, b)
  BY DEF MergedInto
<1> HIDE DEF a, b, e
<1>5. e \in Tables /\ IsFiniteSet(e)
  BY <1>2, <1>3, <1>4, TwoMergeFinite, SMTT(60)
<1>6. Cuts(d)[l] = Cut(e, l + 1)
  BY DEF Cuts, e
<1> QED
  BY <1>1, <1>5, <1>6, CutType, SMTT(60)

(* The files a compaction writes to a level are well formed, and their ids *)
(* ascend.                                                                 *)
LEMMA MadeTablesType ==
  ASSUME FilesOK(l0), \A l \in Levels : FilesOK(levels[l]), next_sst_id \in Nat,
         NEW d \in Nat, d < MaxLevel, NEW l \in 0 .. d
  PROVE  FilesOK(MadeTables(Cuts(d), l, d)) /\ Ascends(MadeTables(Cuts(d), l, d))
<1> DEFINE cuts == Cuts(d)
           made == cuts[l].made
           base == next_sst_id + NumMade(cuts, l + 1 .. d)
           M    == MadeTables(cuts, l, d)
<1>1. made \in Seq(Tables) /\ \A i \in DOMAIN made : IsFiniteSet(made[i])
  BY CutsType
<1>2. NumMade(cuts, l + 1 .. d) \in Nat
  <2>1. \A k \in l + 1 .. d : cuts[k].made \in Seq(Tables)
    BY CutsType
  <2>2. IsFiniteSet(l + 1 .. d)
    BY FS_Interval, SMTT(60)
  <2> HIDE DEF cuts
  <2> QED
    BY <2>1, <2>2, NumMadeType
<1>3. M = [i \in DOMAIN made |-> [id |-> base + i - 1, ents |-> made[i]]]
  BY DEF MadeTables
<1>4. base \in Nat
  BY <1>2
<1> HIDE DEF cuts, made, base, M
<1>5. Len(made) \in Nat /\ DOMAIN made = 1 .. Len(made)
  BY <1>1
<1>6. \A i \in 1 .. Len(made) : [id |-> base + i - 1, ents |-> made[i]] \in [id : Nat, ents : Tables]
  <2> TAKE i \in 1 .. Len(made)
  <2>1. made[i] \in Tables
    BY <1>1, ElementOfSeq
  <2>2. base + i - 1 \in Nat
    BY <1>4, SMTT(60)
  <2> QED
    BY <2>1, <2>2
<1>7. M \in Seq([id : Nat, ents : Tables]) /\ DOMAIN M = 1 .. Len(made)
  BY <1>3, <1>5, <1>6, SMTT(60)
<1>8. \A i \in DOMAIN M : M[i].id = base + i - 1 /\ M[i].ents = made[i]
  BY <1>3, <1>5, <1>7, SMTT(60)
<1>9. FilesOK(M)
  BY <1>1, <1>5, <1>7, <1>8, SMTT(60) DEF FilesOK, ZeroType
<1>10. Ascends(M)
  BY <1>4, <1>7, <1>8, SMTT(60) DEF Ascends
<1> QED
  BY <1>9, <1>10, SMTT(60) DEF M, cuts

(* The levels after a compaction.                                          *)
LEMMA CompactedLevelsType ==
  ASSUME FilesOK(l0), levels \in [Levels -> Seq(Sst)],
         \A l \in Levels : FilesOK(levels[l]) /\ Ascends(levels[l]), next_sst_id \in Nat,
         NEW d \in Nat, d < MaxLevel
  PROVE  LET after == CompactedLevels(Cuts(d), d)
         IN  /\ after \in [Levels -> Seq(Sst)]
             /\ \A l \in Levels : FilesOK(after[l]) /\ Ascends(after[l])
             /\ NumMade(Cuts(d), 0 .. d) \in Nat
<1> DEFINE after == CompactedLevels(Cuts(d), d)
<1>1. ASSUME NEW l \in Levels
      PROVE  after[l] \in Seq(Sst) /\ FilesOK(after[l]) /\ Ascends(after[l])
  <2>1. CASE l <= d + 1
    <3>1. after[l] = MadeTables(Cuts(d), l - 1, d)
      BY <2>1 DEF CompactedLevels
    <3>2. l - 1 \in 0 .. d
      BY <2>1 DEF Levels
    <3>3. FilesOK(after[l]) /\ Ascends(after[l])
      BY <3>1, <3>2, MadeTablesType, SMTT(60)
    <3> QED
      BY <3>3 DEF FilesOK, ZeroType, Sst, Tables
  <2>2. CASE ~(l <= d + 1)
    BY <2>2 DEF CompactedLevels
  <2> QED
    BY <2>1, <2>2, SMTT(60)
<1>2. after = [l \in Levels |-> after[l]]
  BY DEF CompactedLevels
<1>3. after \in [Levels -> Seq(Sst)]
  <2> HIDE DEF after
  <2> QED
    BY <1>1, <1>2
<1>4. NumMade(Cuts(d), 0 .. d) \in Nat
  <2> DEFINE cuts == Cuts(d)
  <2>1. \A k \in 0 .. d : cuts[k].made \in Seq(Tables)
    BY CutsType
  <2>2. IsFiniteSet(0 .. d)
    BY FS_Interval
  <2> HIDE DEF cuts
  <2>3. NumMade(cuts, 0 .. d) \in Nat
    BY <2>1, <2>2, NumMadeType
  <2> QED
    BY <2>3 DEF cuts
<1> QED
  BY <1>1, <1>3, <1>4, SMTT(60)

(* The depth of the cascade is a level or 0.                               *)
LEMMA DeepestType == Deepest \in 0 .. MaxLevel
<1> DEFINE S == {0} \cup {d \in Levels : \A l \in 1 .. d : Len(levels[l]) >= Ratio}
<1>1. S \in SUBSET (0 .. MaxLevel) /\ S # {}
  BY EngineAssumption DEF Levels
<1>2. IsFiniteSet(S)
  <2>1. IsFiniteSet(0 .. MaxLevel)
    BY EngineAssumption, FS_Interval
  <2> HIDE DEF S
  <2> QED
    BY <1>1, <2>1, FS_Subset, ZenonT(60)
<1>3. Deepest = Max(S)
  BY DEF Deepest
<1> HIDE DEF S
<1>4. S \in SUBSET Nat
  BY <1>1
<1> QED
  BY <1>1, <1>2, <1>3, <1>4, MaxOf, ZenonT(60)

-----------------------------------------------------------------------------
(* Loading a data directory.                                               *)

(* A list of files with distinct ids has as many files as positions.       *)
LEMMA RangeCard ==
  ASSUME NEW z, FilesOK(z), \A i, j \in DOMAIN z : z[i].id = z[j].id => i = j
  PROVE  /\ IsFiniteSet(Range(z)) /\ Cardinality(Range(z)) = Len(z)
         /\ z \in [1 .. Cardinality(Range(z)) -> Range(z)]
<1>1. Len(z) \in Nat /\ DOMAIN z = 1 .. Len(z)
  BY DEF FilesOK, ZeroType
<1>2. z \in Bijection(1 .. Len(z), Range(z))
  <2>1. z \in [1 .. Len(z) -> Range(z)]
    BY <1>1 DEF FilesOK, ZeroType, Range
  <2> QED
    BY <1>1, <2>1, ZenonT(60) DEF Bijection, Injection, Surjection, IsInjective, Range
<1>3. ExistsBijection(1 .. Len(z), Range(z))
  BY <1>2 DEF ExistsBijection
<1>4. IsFiniteSet(1 .. Len(z)) /\ Cardinality(1 .. Len(z)) = Len(z)
  BY <1>1, FS_Interval, SMTT(60)
<1>5. IsFiniteSet(Range(z)) /\ Cardinality(Range(z)) = Len(z)
  BY <1>3, <1>4, FS_Bijection, SMTT(60)
<1>6. z \in [1 .. Len(z) -> Range(z)]
  BY <1>1 DEF FilesOK, ZeroType, Range
<1> QED
  BY <1>5, <1>6

(* The positions and the ids of a list of files are numbers.               *)
LEMMA FileNumbers ==
  ASSUME NEW z, FilesOK(z)
  PROVE  Len(z) \in Nat /\ DOMAIN z = 1 .. Len(z) /\ \A i \in DOMAIN z : z[i].id \in Nat
<1>1. Len(z) \in Nat /\ DOMAIN z = 1 .. Len(z)
  BY DEF FilesOK, ZeroType
<1>2. ASSUME NEW i \in DOMAIN z PROVE z[i].id \in Nat
  <2>1. z[i] \in [id : Nat, ents : Tables]
    BY FileAt
  <2> QED
    BY <2>1, SMTT(60)
<1> QED
  BY <1>1, <1>2

(* A list whose positions are filled with files of z is well formed.       *)
LEMMA RelistOK ==
  ASSUME NEW z, FilesOK(z), NEW n \in Nat, NEW q \in [1 .. n -> Range(z)]
  PROVE  FilesOK(q) /\ q \in Seq(Sst) /\ Range(q) \subseteq Range(z)
<1>1. \A s \in Range(z) : s \in [id : Nat, ents : Tables] /\ IsFiniteSet(s.ents)
  BY FileAt DEF Range
<1>2. q \in Seq([id : Nat, ents : Tables]) /\ DOMAIN q = 1 .. n
  <2> DEFINE F == [id : Nat, ents : Tables]
  <2>1. Range(z) \subseteq F
    BY <1>1
  <2>2. q \in [1 .. n -> F]
    <3> HIDE DEF F
    <3> QED
      BY <2>1
  <2> HIDE DEF F
  <2>3. q \in Seq(F)
    BY <2>2, SeqDef
  <2> QED
    BY <2>3 DEF F
<1>3. \A i \in DOMAIN q : IsFiniteSet(q[i].ents)
  BY <1>1, <1>2, SMTT(60)
<1>4. Range(q) \subseteq Range(z)
  BY <1>2 DEF Range
<1>5. q \in Seq(Sst)
  BY <1>2 DEF Sst, Tables
<1> QED
  BY <1>2, <1>3, <1>4, <1>5, SMTT(60) DEF FilesOK, ZeroType

(* The constructor sorts the files of a level by id: a well-formed list    *)
(* again, in the order that get relies on.                                 *)
LEMMA LoadDescending ==
  ASSUME NEW z, FilesOK(z), Descends(z)
  PROVE  LET q == Descending(Range(z))
         IN  FilesOK(q) /\ q \in Seq(Sst) /\ Descends(q) /\ Range(q) \subseteq Range(z)
<1> DEFINE n == Cardinality(Range(z))
           q == Descending(Range(z))
<1>1. Len(z) \in Nat /\ DOMAIN z = 1 .. Len(z) /\ \A i \in DOMAIN z : z[i].id \in Nat
  BY FileNumbers
<1>2. \A i, j \in DOMAIN z : z[i].id = z[j].id => i = j
  BY <1>1 DEF Descends
<1>3. n \in Nat /\ z \in [1 .. n -> Range(z)]
  BY <1>1, <1>2, RangeCard
<1>4. q \in [1 .. n -> Range(z)] /\ Descends(q)
  BY <1>3, SMTT(60) DEF Descending
<1> HIDE DEF n, q
<1> QED
  BY <1>3, <1>4, RelistOK DEF q

(* The constructor finds the files of a sorted level and lists them by     *)
(* rising id again.                                                        *)
LEMMA LoadAscending ==
  ASSUME NEW z, FilesOK(z), Ascends(z)
  PROVE  LET q == Ascending(Range(z))
         IN  FilesOK(q) /\ q \in Seq(Sst) /\ Ascends(q) /\ Range(q) \subseteq Range(z)
<1> DEFINE n == Cardinality(Range(z))
           q == Ascending(Range(z))
<1>1. Len(z) \in Nat /\ DOMAIN z = 1 .. Len(z) /\ \A i \in DOMAIN z : z[i].id \in Nat
  BY FileNumbers
<1>2. \A i, j \in DOMAIN z : z[i].id = z[j].id => i = j
  BY <1>1, SMTT(60) DEF Ascends
<1>3. n \in Nat /\ z \in [1 .. n -> Range(z)]
  BY <1>1, <1>2, RangeCard
<1>4. q \in [1 .. n -> Range(z)] /\ Ascends(q)
  BY <1>3 DEF Ascending
<1> HIDE DEF n, q
<1> QED
  BY <1>3, <1>4, RelistOK DEF q
=============================================================================
