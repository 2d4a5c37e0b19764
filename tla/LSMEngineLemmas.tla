--------------------------- MODULE LSMEngineLemmas --------------------------
(***************************************************************************)
(* Lemmas about the operators of MemTable and LSMEngine: what a stack of   *)
(* tables answers, and what writing, freezing and flushing do to it.       *)
(***************************************************************************)
EXTENDS LSMEngine, FiniteSetTheorems, SequenceTheorems, WellFoundedInduction,
        TLAPS

-----------------------------------------------------------------------------
(* Facts about sets of numbers and about CHOOSE.                           *)

(* A finite set of naturals that is not empty has a greatest element.      *)
LEMMA GreatestNatural ==
  ASSUME NEW S \in SUBSET Nat, IsFiniteSet(S), S # {}
  PROVE  \E x \in S : \A y \in S : y <= x
<1> DEFINE Bad == {T \in SUBSET S : T # {} /\ ~ \E x \in T : \A y \in T : y <= x}
<1>1. SUFFICES ASSUME Bad # {} PROVE FALSE
  OBVIOUS
<1>2. PICK T \in Bad : \A U \in Bad : ~ (<<U, T>> \in StrictSubsetOrdering(S))
  <2>1. IsWellFoundedOn(StrictSubsetOrdering(S), FiniteSubsetsOf(S))
    BY FS_StrictSubsetOrderingWellFounded
  <2>2. Bad \subseteq FiniteSubsetsOf(S)
    BY FS_Subset DEF FiniteSubsetsOf
  <2> HIDE DEF Bad
  <2> QED
    BY <1>1, <2>1, <2>2, WFMin
<1>3. PICK x \in T : TRUE
  BY ZenonT(60)
<1>4. T \ {x} \notin Bad
  BY <1>2, <1>3, ZenonT(60) DEF StrictSubsetOrdering
<1>5. CASE T \ {x} = {}
  <2>1. \A y \in T : y <= x
    BY <1>3, <1>5
  <2> QED
    BY <2>1, <1>3
<1>6. CASE T \ {x} # {}
  <2>1. PICK m \in T \ {x} : \A y \in T \ {x} : y <= m
    BY <1>4, <1>6
  <2>2. (\A y \in T : y <= m) \/ (\A y \in T : y <= x)
    BY <1>3, <2>1
  <2> QED
    BY <2>2, <1>3
<1> QED
  BY <1>5, <1>6

(* A set of naturals that is not empty has a least element, the position   *)
(* at which a search over a sequence of tables stops.                      *)
LEMMA LeastNatural ==
  ASSUME NEW S \in SUBSET Nat, S # {}
  PROVE  \E x \in S : \A y \in S : x <= y
<1>1. PICK b \in S : TRUE
  BY ZenonT(60)
<1> DEFINE D == {d \in 0 .. b : b - d \in S}
<1>2. D \in SUBSET Nat /\ IsFiniteSet(D) /\ 0 \in D
  <2>1. IsFiniteSet(0 .. b)
    BY FS_Interval
  <2>2. D \in SUBSET (0 .. b)
    OBVIOUS
  <2>3. IsFiniteSet(D)
    BY <2>1, <2>2, FS_Subset
  <2> QED
    BY <1>1, <2>3
<1>3. PICK d \in D : \A e \in D : e <= d
  <2> HIDE DEF D
  <2> QED
    BY <1>2, GreatestNatural
<1>4. \A y \in S : b - d <= y
  <2> TAKE y \in S
  <2>1. CASE y <= b
    <3>1. b - y \in D
      BY <2>1
    <3> QED
      BY <1>3, <3>1
  <2>2. CASE y > b
    BY <2>2
  <2> QED
    BY <2>1, <2>2
<1> QED
  BY <1>4

-----------------------------------------------------------------------------
(* What a stack of tables answers.                                         *)

(* First picks the least of a set of positions: get stops at the first     *)
(* table that holds a visible version.                                     *)
LEMMA FirstIsLeast ==
  ASSUME NEW H \in SUBSET Nat, H # {}
  PROVE  First(H) \in H /\ \A j \in H : First(H) <= j
BY LeastNatural, ZenonT(60) DEF First

(* An empty table in front of a sequence of tables changes no answer:      *)
(* freezing the active table leaves an empty one in its place.             *)
LEMMA ReadingPrepend ==
  ASSUME NEW X, {} \in X, NEW s \in Seq(X)
  PROVE  Reading(<<{}>> \o s) = Reading(s)
<1> DEFINE t == <<{}>> \o s
<1>1. /\ t \in Seq(X)
      /\ Len(t) = Len(s) + 1
      /\ t[1] = {}
      /\ \A i \in DOMAIN s : t[i + 1] = s[i]
  OBVIOUS
<1>2. DOMAIN s = 1 .. Len(s) /\ DOMAIN t = 1 .. Len(s) + 1 /\ Len(s) \in Nat
  BY <1>1
<1> HIDE DEF t
<1>3. SUFFICES ASSUME NEW k, NEW q PROVE Lookup(t, k, q, Tombstone) = Lookup(s, k, q, Tombstone)
  <2>1. \A x \in Keys \X Queries : Lookup(t, x[1], x[2], Tombstone) = Lookup(s, x[1], x[2], Tombstone)
    BY <1>3
  <2> QED
    BY <2>1 DEF Reading, t
<1>4. \A i \in DOMAIN t : i \in Hits(t, k, q) <=> i > 1 /\ i - 1 \in Hits(s, k, q)
  <2> TAKE i \in DOMAIN t
  <2>1. CASE i = 1
    <3>1. Visible(t[i], k, q) = {}
      BY <1>1, <2>1 DEF Visible
    <3> QED
      BY <2>1, <3>1 DEF Hits
  <2>2. CASE i # 1
    <3>1. i - 1 \in DOMAIN s /\ t[i] = s[i - 1] /\ i > 1
      BY <1>1, <1>2, <2>2
    <3> QED
      BY <3>1 DEF Hits
  <2> QED
    BY <2>1, <2>2
<1>5. Hits(t, k, q) \subseteq DOMAIN t /\ Hits(s, k, q) \subseteq DOMAIN s
  BY DEF Hits
<1>6. CASE Hits(s, k, q) = {}
  <2>1. Hits(t, k, q) = {}
    BY <1>4, <1>5, <1>6
  <2> QED
    BY <1>6, <2>1 DEF Lookup
<1>7. CASE Hits(s, k, q) # {}
  <2> DEFINE a == First(Hits(s, k, q))
             b == First(Hits(t, k, q))
  <2>1. a \in Hits(s, k, q) /\ \A j \in Hits(s, k, q) : a <= j
    <3>1. Hits(s, k, q) \in SUBSET Nat
      BY <1>2, <1>5
    <3> QED
      BY <1>7, <3>1, FirstIsLeast, SMTT(60)
  <2>2. a + 1 \in Hits(t, k, q)
    BY <1>2, <1>4, <1>5, <2>1
  <2>3. b \in Hits(t, k, q) /\ \A j \in Hits(t, k, q) : b <= j
    <3>1. Hits(t, k, q) \in SUBSET Nat
      BY <1>2, <1>5
    <3> QED
      BY <2>2, <3>1, FirstIsLeast
  <2> HIDE DEF a, b
  <2>4. a \in 1 .. Len(s) /\ b \in 1 .. Len(s) + 1
    BY <1>2, <1>5, <2>1, <2>3, SMTT(60)
  <2>5. b = a + 1
    <3>1. b <= a + 1
      BY <2>2, <2>3
    <3>2. b - 1 \in Hits(s, k, q)
      BY <1>2, <1>4, <2>3, <2>4
    <3>3. a <= b - 1
      BY <2>1, <3>2
    <3> QED
      BY <2>4, <3>1, <3>3
  <2>6. t[b] = s[a]
    BY <1>1, <1>2, <2>4, <2>5, SMTT(60)
  <2>7. Lookup(t, k, q, Tombstone) = Newest(Visible(t[b], k, q)).val
    BY <2>2 DEF Lookup, b
  <2>8. Lookup(s, k, q, Tombstone) = Newest(Visible(s[a], k, q)).val
    BY <1>7 DEF Lookup, a
  <2> QED
    BY <2>6, <2>7, <2>8, SMTT(60)
<1> QED
  BY <1>6, <1>7

-----------------------------------------------------------------------------
(* The memtable.                                                           *)

Tables == SUBSET Entry

MemType(m) == m \in [current : Tables, frozen : Seq(Tables), frozen_bytes : Int]

MemInv(m) ==
  /\ MemType(m)
  /\ IsFiniteSet(m.current)
  /\ \A i \in DOMAIN m.frozen : IsFiniteSet(m.frozen[i]) /\ m.frozen[i] # {}

(* Freezing the active table, if it is not empty, keeps a memtable well    *)
(* formed (frozen_cur_table_).                                             *)
LEMMA FreezeInv ==
  ASSUME NEW m, MemInv(m), m.current # {}
  PROVE  MemInv(FrozenCurTable(m))
<1> DEFINE f == FrozenCurTable(m)
<1>1. Cardinality(m.current) \in Nat
  BY FS_CardinalityType DEF MemInv
<1>2. MemType(f)
  BY <1>1 DEF MemInv, MemType, FrozenCurTable, Tables
<1>3. IsFiniteSet(f.current)
  BY FS_EmptySet DEF FrozenCurTable
<1>4. ASSUME NEW i \in DOMAIN f.frozen PROVE IsFiniteSet(f.frozen[i]) /\ f.frozen[i] # {}
  <2>1. /\ Len(m.frozen) \in Nat /\ DOMAIN m.frozen = 1 .. Len(m.frozen)
        /\ DOMAIN f.frozen = 1 .. Len(m.frozen) + 1
        /\ f.frozen[1] = m.current
        /\ \A j \in 1 .. Len(m.frozen) : f.frozen[j + 1] = m.frozen[j]
    BY DEF MemInv, MemType, FrozenCurTable
  <2>2. i = 1 \/ (i - 1 \in DOMAIN m.frozen /\ f.frozen[i] = m.frozen[i - 1])
    BY <2>1, SMTT(60)
  <2> QED
    BY <2>1, <2>2, SMTT(60) DEF MemInv
<1> QED
  BY <1>2, <1>3, <1>4 DEF MemInv

(* Writing a batch keeps the active table a finite set of entries.         *)
LEMMA PutAllFinite ==
  ASSUME NEW T \in Tables, IsFiniteSet(T),
         NEW ks \in SUBSET Keys, IsFiniteSet(ks),
         NEW t \in Tids, NEW v \in 0 .. MaxWrites
  PROVE  PutAll(T, ks, t, v) \in Tables /\ IsFiniteSet(PutAll(T, ks, t, v))
<1> DEFINE old == {e \in T : ~(e.key \in ks /\ e.tid = t)}
           new == {[key |-> k, tid |-> t, val |-> v] : k \in ks}
           f   == [k \in ks |-> [key |-> k, tid |-> t, val |-> v]]
<1>1. IsFiniteSet(old)
  BY FS_Subset
<1>2. IsFiniteSet(new)
  <2>1. f \in Surjection(ks, new)
    BY DEF Surjection
  <2> HIDE DEF f, new
  <2> QED
    BY <2>1, FS_Surjection
<1>3. old \cup new \in Tables
  BY DEF Tables, Entry
<1>4. PutAll(T, ks, t, v) = old \cup new
  BY DEF PutAll
<1> HIDE DEF old, new
<1> QED
  BY <1>1, <1>2, <1>3, <1>4, FS_Union, ZenonT(60)

(* A write keeps the memtable well formed, and freezes only a table that   *)
(* has entries.                                                            *)
LEMMA MemWriteInv ==
  ASSUME NEW m, MemInv(m),
         NEW ks \in SUBSET Keys, IsFiniteSet(ks),
         NEW t \in Tids, NEW v \in 0 .. MaxWrites
  PROVE  MemInv(MemWrite(m, ks, t, v))
<1> DEFINE c == PutAll(m.current, ks, t, v)
           w == [m EXCEPT !.current = c]
<1>1. c \in Tables /\ IsFiniteSet(c)
  BY PutAllFinite DEF MemInv, MemType
<1>2. MemInv(w) /\ w.current = c
  <2> HIDE DEF c
  <2> QED
    BY <1>1 DEF MemInv, MemType
<1>3. MemWrite(m, ks, t, v) = IF Cardinality(c) > PerLimit THEN FrozenCurTable(w) ELSE w
  BY <1>2 DEF MemWrite
<1>4. CASE Cardinality(c) > PerLimit
  <2>1. c # {}
    BY <1>4, FS_EmptySet, MemAssumption
  <2> HIDE DEF c, w
  <2> QED
    BY <1>2, <1>3, <1>4, <2>1, FreezeInv
<1>5. CASE ~(Cardinality(c) > PerLimit)
  BY <1>2, <1>3, <1>5
<1> QED
  BY <1>4, <1>5

(* Taking the oldest table out of a memtable that has one (flush_last):    *)
(* the table has entries, and what stays is well formed.                   *)
LEMMA FlushLastInv ==
  ASSUME NEW m, MemInv(m), HasTable(m)
  PROVE  /\ MemInv(FlushLast(m))
         /\ Flushed(m) \in Tables /\ IsFiniteSet(Flushed(m)) /\ Flushed(m) # {}
<1> DEFINE s == Sealed(m)
           n == Len(s.frozen)
<1>1. MemInv(s) /\ s.frozen # <<>>
  <2>1. CASE m.frozen = <<>>
    <3>1. m.current # {}
      BY <2>1 DEF HasTable
    <3>2. FrozenCurTable(m).frozen # <<>>
      BY <2>1 DEF FrozenCurTable
    <3> QED
      BY <2>1, <3>1, <3>2, FreezeInv DEF Sealed
  <2>2. CASE m.frozen # <<>>
    BY <2>2 DEF Sealed
  <2> QED
    BY <2>1, <2>2
<1> HIDE DEF s
<1>2. s.frozen \in Seq(Tables) /\ n \in Nat \ {0} /\ DOMAIN s.frozen = 1 .. n
  BY <1>1 DEF MemInv, MemType
<1>3. Flushed(m) = s.frozen[n]
  BY DEF Flushed, s
<1>4. Flushed(m) \in Tables /\ IsFiniteSet(Flushed(m)) /\ Flushed(m) # {}
  BY <1>1, <1>2, <1>3 DEF MemInv
<1>5. Cardinality(Flushed(m)) \in Nat
  BY <1>4, FS_CardinalityType
<1>6. FlushLast(m) = [s EXCEPT !.frozen = SubSeq(s.frozen, 1, n - 1),
                               !.frozen_bytes = s.frozen_bytes - Cardinality(Flushed(m))]
  BY DEF FlushLast, s
<1> HIDE DEF n
<1>7. /\ SubSeq(s.frozen, 1, n - 1) \in Seq(Tables)
      /\ DOMAIN SubSeq(s.frozen, 1, n - 1) = 1 .. n - 1
      /\ \A i \in 1 .. n - 1 : SubSeq(s.frozen, 1, n - 1)[i] = s.frozen[i]
  BY <1>2 DEF n
<1>8. MemInv(FlushLast(m))
  <2> DEFINE g == SubSeq(s.frozen, 1, n - 1)
             b == s.frozen_bytes - Cardinality(Flushed(m))
             r == FlushLast(m)
  <2>1. g \in Seq(Tables) /\ b \in Int
    BY <1>1, <1>5, <1>7, SMTT(60) DEF MemInv, MemType
  <2> HIDE DEF g, b
  <2>2. s \in [current : Tables, frozen : Seq(Tables), frozen_bytes : Int]
    BY <1>1 DEF MemInv, MemType
  <2>3. r = [s EXCEPT !.frozen = g, !.frozen_bytes = b]
    BY <1>6 DEF g, b
  <2>4. MemType(r) /\ r.current = s.current /\ r.frozen = g
    BY <2>1, <2>2, <2>3, ZenonT(60) DEF MemType
  <2>5. \A i \in DOMAIN g : i \in DOMAIN s.frozen /\ g[i] = s.frozen[i]
    BY <1>2, <1>7 DEF g
  <2> HIDE DEF r
  <2> QED
    BY <1>1, <2>4, <2>5 DEF MemInv, r
<1> QED
  BY <1>4, <1>8

-----------------------------------------------------------------------------
(* The stack of tables in memory and on level 0, and its suffixes.         *)

ZeroType(z) == z \in Seq([id : Nat, ents : Tables])

Drop(s, i) == [n \in 1 .. Len(s) - i |-> s[n + i]]

(* Every suffix of the stack that still holds all of level 0 answers as    *)
(* the store did at some remembered moment.                                *)
SuffixesIn(m, zero, moments) ==
  \A i \in 0 .. Len(m.frozen) + 1 : Reading(Drop(Stack(m, zero), i)) \in moments

(* The stack, position by position: the active table, the frozen tables,   *)
(* the files of level 0.                                                   *)
LEMMA StackShape ==
  ASSUME NEW m, MemType(m), NEW zero, ZeroType(zero)
  PROVE  /\ Len(m.frozen) \in Nat /\ Len(zero) \in Nat
         /\ Stack(m, zero) \in Seq(Tables)
         /\ Len(Stack(m, zero)) = 1 + Len(m.frozen) + Len(zero)
         /\ Stack(m, zero)[1] = m.current
         /\ \A i \in 1 .. Len(m.frozen) : Stack(m, zero)[1 + i] = m.frozen[i]
         /\ \A i \in 1 .. Len(zero) : Stack(m, zero)[1 + Len(m.frozen) + i] = zero[i].ents
<1> DEFINE a == <<m.current>> \o m.frozen
           c == Contents(zero)
<1>1. /\ m.frozen \in Seq(Tables) /\ m.current \in Tables /\ Len(m.frozen) \in Nat
      /\ zero \in Seq([id : Nat, ents : Tables]) /\ Len(zero) \in Nat
      /\ DOMAIN zero = 1 .. Len(zero)
  BY DEF MemType, ZeroType
<1>2. /\ a \in Seq(Tables) /\ Len(a) = 1 + Len(m.frozen) /\ a[1] = m.current
      /\ \A i \in 1 .. Len(m.frozen) : a[1 + i] = m.frozen[i]
  <2> DEFINE one == <<m.current>>
  <2>1. one \in Seq(Tables) /\ Len(one) = 1 /\ one[1] = m.current
    BY <1>1
  <2> HIDE DEF one
  <2>2. /\ one \o m.frozen \in Seq(Tables) /\ Len(one \o m.frozen) = Len(one) + Len(m.frozen)
        /\ \A i \in 1 .. Len(one) + Len(m.frozen) :
             (one \o m.frozen)[i] = IF i <= Len(one) THEN one[i] ELSE m.frozen[i - Len(one)]
    BY <1>1, <2>1, ConcatProperties, ZenonT(60)
  <2>3. /\ one \o m.frozen \in Seq(Tables) /\ Len(one \o m.frozen) = 1 + Len(m.frozen)
        /\ (one \o m.frozen)[1] = m.current
        /\ \A i \in 1 .. Len(m.frozen) : (one \o m.frozen)[1 + i] = m.frozen[i]
    BY <1>1, <2>1, <2>2, SMTT(60)
  <2> QED
    BY <2>3 DEF one
<1>3. /\ c \in Seq(Tables) /\ Len(c) = Len(zero)
      /\ \A i \in 1 .. Len(zero) : c[i] = zero[i].ents
  <2>1. c = [i \in 1 .. Len(zero) |-> zero[i].ents]
    BY <1>1 DEF Contents
  <2>2. ASSUME NEW i \in 1 .. Len(zero) PROVE zero[i].ents \in Tables
    <3>1. zero[i] \in [id : Nat, ents : Tables]
      BY <1>1, ElementOfSeq, ZenonT(60)
    <3> QED
      BY <3>1
  <2> HIDE DEF c
  <2>3. c \in Seq(Tables) /\ Len(c) = Len(zero)
    BY <1>1, <2>1, <2>2
  <2> QED
    BY <2>1, <2>3
<1>4. Stack(m, zero) = a \o c
  BY DEF Stack, MemTables
<1> HIDE DEF a, c
<1>5. /\ a \o c \in Seq(Tables) /\ Len(a \o c) = Len(a) + Len(c)
      /\ \A i \in 1 .. Len(a) : (a \o c)[i] = a[i]
      /\ \A i \in 1 .. Len(c) : (a \o c)[Len(a) + i] = c[i]
  <2>1. /\ a \o c \in Seq(Tables) /\ Len(a \o c) = Len(a) + Len(c)
        /\ \A i \in 1 .. Len(a) + Len(c) :
             (a \o c)[i] = IF i <= Len(a) THEN a[i] ELSE c[i - Len(a)]
    <3>1. a \in Seq(Tables) /\ c \in Seq(Tables)
      BY <1>2, <1>3
    <3> QED
      BY <3>1, ConcatProperties, ZenonT(60)
  <2>2. Len(a) \in Nat /\ Len(c) \in Nat
    BY <1>2, <1>3
  <2> QED
    BY <2>1, <2>2
<1>6. \A i \in 1 .. Len(m.frozen) : 1 + i \in 1 .. Len(a)
  BY <1>1, <1>2
<1>7. ASSUME NEW i \in 1 .. Len(m.frozen) PROVE (a \o c)[1 + i] = m.frozen[i]
  <2>1. (a \o c)[1 + i] = a[1 + i]
    BY <1>5, <1>6
  <2> QED
    BY <1>2, <2>1
<1>8. 1 \in 1 .. Len(a)
  BY <1>1, <1>2
<1> QED
  BY <1>1, <1>2, <1>3, <1>4, <1>5, <1>7, <1>8, ZenonT(60)

(* Dropping a prefix, position by position.                                *)
LEMMA DropShape ==
  ASSUME NEW X, NEW s \in Seq(X), NEW i \in 0 .. Len(s)
  PROVE  /\ Drop(s, i) \in Seq(X)
         /\ Len(Drop(s, i)) = Len(s) - i
         /\ \A n \in 1 .. Len(s) - i : Drop(s, i)[n] = s[n + i]
         /\ i = 0 => Drop(s, i) = s
<1>1. Len(s) \in Nat /\ Len(s) - i \in Nat
  OBVIOUS
<1>2. \A n \in 1 .. Len(s) - i : s[n + i] \in X
  BY <1>1
<1>3. Drop(s, i) \in Seq(X) /\ Len(Drop(s, i)) = Len(s) - i
  BY <1>1, <1>2 DEF Drop
<1>4. \A n \in 1 .. Len(s) - i : Drop(s, i)[n] = s[n + i]
  BY DEF Drop
<1>5. i = 0 => Drop(s, i) = s
  BY <1>1, <1>3, <1>4, SeqEqual, SMTT(60)
<1> QED
  BY <1>3, <1>4, <1>5

(* Freezing puts an empty table on top of the stack.                       *)
LEMMA FreezeStack ==
  ASSUME NEW m, MemType(m), MemType(FrozenCurTable(m)), NEW zero, ZeroType(zero)
  PROVE  /\ Stack(FrozenCurTable(m), zero) = <<{}>> \o Stack(m, zero)
         /\ Drop(Stack(FrozenCurTable(m), zero), 1) = Stack(m, zero)
         /\ Reading(Stack(FrozenCurTable(m), zero)) = Reading(Stack(m, zero))
<1> DEFINE f == FrozenCurTable(m)
           s == Stack(m, zero)
           u == Stack(f, zero)
           v == <<{}>> \o s
<1>1. /\ f.current = {} /\ Len(f.frozen) = Len(m.frozen) + 1
      /\ f.frozen[1] = m.current
      /\ \A i \in 2 .. Len(m.frozen) + 1 : f.frozen[i] = m.frozen[i - 1]
  BY DEF FrozenCurTable, MemType
<1>2. /\ Len(m.frozen) \in Nat /\ Len(zero) \in Nat /\ s \in Seq(Tables)
      /\ Len(s) = 1 + Len(m.frozen) + Len(zero) /\ s[1] = m.current
      /\ \A i \in 1 .. Len(m.frozen) : s[1 + i] = m.frozen[i]
      /\ \A i \in 1 .. Len(zero) : s[1 + Len(m.frozen) + i] = zero[i].ents
  BY StackShape
<1>3. /\ u \in Seq(Tables) /\ Len(u) = 1 + Len(f.frozen) + Len(zero) /\ u[1] = f.current
      /\ \A i \in 1 .. Len(f.frozen) : u[1 + i] = f.frozen[i]
      /\ \A i \in 1 .. Len(zero) : u[1 + Len(f.frozen) + i] = zero[i].ents
  <2> HIDE DEF f
  <2> QED
    BY StackShape DEF f
<1> HIDE DEF f, s, u
<1>4. /\ v \in Seq(Tables) /\ Len(v) = Len(s) + 1 /\ v[1] = {}
      /\ \A i \in 1 .. Len(s) : v[i + 1] = s[i]
  BY <1>2 DEF Tables
<1> HIDE DEF v
<1>5. ASSUME NEW i \in 1 .. Len(s) PROVE u[i + 1] = s[i]
  <2>1. CASE i = 1
    BY <1>1, <1>2, <1>3, <2>1, SMTT(60)
  <2>2. CASE i \in 2 .. 1 + Len(m.frozen)
    <3>1. i - 1 \in 1 .. Len(m.frozen) /\ i \in 1 .. Len(f.frozen)
      BY <1>1, <1>2, <2>2, SMTT(60)
    <3>2. s[1 + (i - 1)] = m.frozen[i - 1] /\ u[1 + i] = f.frozen[i]
      BY <1>2, <1>3, <3>1, ZenonT(60)
    <3>3. f.frozen[i] = m.frozen[i - 1]
      BY <1>1, <1>2, <2>2
    <3> QED
      BY <1>2, <2>2, <3>2, <3>3, SMTT(60)
  <2>3. CASE i > 1 + Len(m.frozen)
    <3> DEFINE j == i - 1 - Len(m.frozen)
    <3>1. j \in 1 .. Len(zero) /\ i = 1 + Len(m.frozen) + j /\ i + 1 = 1 + Len(f.frozen) + j
      <4> DEFINE a == Len(m.frozen)
                 b == Len(zero)
                 c == Len(f.frozen)
      <4>1. a \in Nat /\ b \in Nat /\ c = a + 1
        BY <1>1, <1>2
      <4>2. i \in 1 .. 1 + a + b /\ i > 1 + a
        BY <1>2, <2>3
      <4> HIDE DEF a, b, c
      <4>3. i - 1 - a \in 1 .. b /\ i = 1 + a + (i - 1 - a) /\ i + 1 = 1 + c + (i - 1 - a)
        BY <4>1, <4>2
      <4> QED
        BY <4>3, ZenonT(60) DEF a, b, c
    <3> HIDE DEF j
    <3> QED
      BY <1>2, <1>3, <3>1, SMTT(60)
  <2> QED
    BY <1>2, <2>1, <2>2, <2>3, SMTT(60)
<1>6. Len(u) = Len(v)
  BY <1>1, <1>2, <1>3, <1>4
<1>7. ASSUME NEW i \in 1 .. Len(u) PROVE u[i] = v[i]
  <2>1. CASE i = 1
    BY <1>1, <1>3, <1>4, <2>1, ZenonT(60)
  <2>2. CASE i # 1
    <3>1. i - 1 \in 1 .. Len(s) /\ i = (i - 1) + 1
      BY <1>2, <1>4, <1>6, <2>2
    <3> QED
      BY <1>4, <1>5, <3>1, ZenonT(60)
  <2> QED
    BY <2>1, <2>2
<1>8. u = v
  BY <1>3, <1>4, <1>6, <1>7, SeqEqual, SMTT(60)
<1>9. Drop(u, 1) = s
  <2>1. 1 \in 0 .. Len(u) /\ Len(u) - 1 = Len(s)
    BY <1>2, <1>4, <1>6
  <2>2. /\ Drop(u, 1) \in Seq(Tables) /\ Len(Drop(u, 1)) = Len(s)
        /\ \A n \in 1 .. Len(s) : Drop(u, 1)[n] = u[n + 1]
    <3>1. u \in Seq(Tables)
      BY <1>3
    <3>2. /\ Drop(u, 1) \in Seq(Tables) /\ Len(Drop(u, 1)) = Len(u) - 1
          /\ \A n \in 1 .. Len(u) - 1 : Drop(u, 1)[n] = u[n + 1]
      BY <2>1, <3>1, DropShape, ZenonT(60)
    <3> QED
      BY <2>1, <3>2, SMTT(60)
  <2>3. \A n \in 1 .. Len(Drop(u, 1)) : Drop(u, 1)[n] = s[n]
    BY <1>5, <2>2
  <2> QED
    BY <1>2, <2>2, <2>3, SeqEqual, SMTT(60)
<1>10. Reading(v) = Reading(s)
  BY <1>2, ReadingPrepend, SMTT(60) DEF Tables, v
<1> QED
  BY <1>8, <1>9, <1>10, SMTT(60) DEF u, v, s, f

(* Moving the oldest frozen table to the front of level 0 leaves the stack *)
(* as it is (flush_last, then push_front in flush).                        *)
LEMMA PopStack ==
  ASSUME NEW m, MemInv(m), HasTable(m), NEW zero, ZeroType(zero), NEW id \in Nat
  PROVE  LET z == <<[id |-> id, ents |-> Flushed(m)]>> \o zero
         IN  /\ ZeroType(z)
             /\ Len(FlushLast(m).frozen) + 1 = Len(Sealed(m).frozen)
             /\ Stack(FlushLast(m), z) = Stack(Sealed(m), zero)
<1> DEFINE z == <<[id |-> id, ents |-> Flushed(m)]>> \o zero
           r == FlushLast(m)
           s == Sealed(m)
           n == Len(s.frozen)
<1>1. MemInv(r) /\ Flushed(m) \in Tables
  BY FlushLastInv
<1>2. MemInv(s) /\ s.frozen # <<>>
  BY FreezeInv DEF Sealed, HasTable, FrozenCurTable
<1>3. n \in Nat \ {0} /\ s.frozen \in Seq(Tables)
  BY <1>2 DEF MemInv, MemType
<1>4. /\ r.current = s.current
      /\ r.frozen = SubSeq(s.frozen, 1, n - 1)
  BY <1>2 DEF FlushLast, MemInv, MemType
<1>5. Len(r.frozen) = n - 1 /\ \A i \in 1 .. n - 1 : r.frozen[i] = s.frozen[i]
  <2>1. r.frozen = SubSeq(s.frozen, 1, n - 1)
    BY <1>4
  <2> HIDE DEF r, s
  <2> QED
    BY <1>3, <2>1
<1>6. Flushed(m) = s.frozen[n]
  BY DEF Flushed
<1>7. /\ ZeroType(z) /\ Len(z) = Len(zero) + 1 /\ Len(zero) \in Nat
      /\ z[1].ents = Flushed(m)
      /\ \A i \in 2 .. Len(zero) + 1 : z[i] = zero[i - 1]
  BY <1>1, SMTT(60) DEF ZeroType
<1>8. /\ Stack(s, zero) \in Seq(Tables)
      /\ Len(Stack(s, zero)) = 1 + n + Len(zero)
      /\ Stack(s, zero)[1] = s.current
      /\ \A i \in 1 .. n : Stack(s, zero)[1 + i] = s.frozen[i]
      /\ \A i \in 1 .. Len(zero) : Stack(s, zero)[1 + n + i] = zero[i].ents
  <2> HIDE DEF s
  <2> QED
    BY <1>2, StackShape, SMTT(60) DEF MemInv
<1>9. /\ Stack(r, z) \in Seq(Tables)
      /\ Len(Stack(r, z)) = 1 + (n - 1) + (Len(zero) + 1)
      /\ Stack(r, z)[1] = r.current
      /\ \A i \in 1 .. n - 1 : Stack(r, z)[1 + i] = r.frozen[i]
      /\ \A i \in 1 .. Len(zero) + 1 : Stack(r, z)[1 + (n - 1) + i] = z[i].ents
  <2>1. MemType(r) /\ ZeroType(z)
    BY <1>1, <1>7, SMTT(60) DEF MemInv
  <2> HIDE DEF r, z, n
  <2>2. /\ Stack(r, z) \in Seq(Tables)
        /\ Len(Stack(r, z)) = 1 + Len(r.frozen) + Len(z)
        /\ Stack(r, z)[1] = r.current
        /\ \A i \in 1 .. Len(r.frozen) : Stack(r, z)[1 + i] = r.frozen[i]
        /\ \A i \in 1 .. Len(z) : Stack(r, z)[1 + Len(r.frozen) + i] = z[i].ents
    BY <2>1, StackShape, SMTT(60)
  <2>3. Len(r.frozen) = n - 1 /\ Len(z) = Len(zero) + 1
    BY <1>5, <1>7
  <2> QED
    BY <2>2, <2>3, SMTT(60)
<1> DEFINE a == Stack(s, zero)
           b == Stack(r, z)
           k == Len(zero)
<1>10. k \in Nat
  BY <1>7
<1> HIDE DEF z, r, s, n, a, b, k
<1>11. Len(a) = Len(b)
  BY <1>3, <1>8, <1>9, <1>10, SMTT(60) DEF a, b, k
<1>12. ASSUME NEW i \in 1 .. Len(a) PROVE a[i] = b[i]
  <2>0. i \in 1 .. 1 + n + k
    BY <1>8 DEF a, k
  <2>1. CASE i = 1
    BY <1>4, <1>8, <1>9, <2>1, SMTT(60) DEF a, b
  <2>2. CASE i \in 2 .. n
    <3>1. i - 1 \in 1 .. n /\ i - 1 \in 1 .. n - 1 /\ i = 1 + (i - 1)
      BY <1>3, <2>2
    <3>2. a[1 + (i - 1)] = s.frozen[i - 1]
      BY <1>8, <3>1, SMTT(60) DEF a
    <3>3. b[1 + (i - 1)] = r.frozen[i - 1]
      BY <1>9, <3>1 DEF b
    <3> QED
      BY <1>5, <3>1, <3>2, <3>3, SMTT(60)
  <2>3. CASE i = n + 1
    <3>1. n \in 1 .. n /\ i = 1 + n /\ 1 \in 1 .. k + 1 /\ i = 1 + (n - 1) + 1
      BY <1>3, <1>10, <2>3, SMTT(60)
    <3>2. a[1 + n] = s.frozen[n]
      BY <1>8, <3>1 DEF a
    <3>3. b[1 + (n - 1) + 1] = z[1].ents
      BY <1>9, <3>1 DEF b, k
    <3> QED
      BY <1>6, <1>7, <3>1, <3>2, <3>3, SMTT(60)
  <2>4. CASE i > n + 1
    <3> DEFINE j == i - 1 - n
    <3>1. /\ j \in 1 .. k /\ i = 1 + n + j
          /\ j + 1 \in 1 .. k + 1 /\ i = 1 + (n - 1) + (j + 1)
          /\ j + 1 \in 2 .. k + 1 /\ (j + 1) - 1 = j
      BY <1>3, <1>10, <2>0, <2>4, SMTT(60)
    <3> HIDE DEF j
    <3>2. a[1 + n + j] = zero[j].ents
      BY <1>8, <3>1, SMTT(60) DEF a, k
    <3>3. b[1 + (n - 1) + (j + 1)] = z[j + 1].ents
      BY <1>9, <3>1 DEF b, k
    <3>4. z[j + 1] = zero[j]
      BY <1>7, <3>1 DEF k
    <3> QED
      BY <3>1, <3>2, <3>3, <3>4, SMTT(60)
  <2> QED
    BY <1>3, <1>10, <2>0, <2>1, <2>2, <2>3, <2>4, SMTT(60)
<1>13. a = b
  <2>1. a \in Seq(Tables) /\ b \in Seq(Tables)
    BY <1>8, <1>9, SMTT(60) DEF a, b
  <2> QED
    BY <1>11, <1>12, <2>1, SeqEqual, SMTT(60)
<1>14. Len(r.frozen) + 1 = n
  BY <1>3, <1>5
<1> QED
  BY <1>7, <1>13, <1>14, SMTT(60) DEF a, b, z, r, s, n
=============================================================================
