-------------------------- MODULE LSMEngineSuffixes -------------------------
(***************************************************************************)
(* Lemmas about the suffixes of the stack of tables of an LSMEngine, one   *)
(* per operation on the memtable and level 0.                              *)
(***************************************************************************)
EXTENDS LSMEngineLemmas

(* A change of the active table alone: the moment after it is remembered,  *)
(* every shorter suffix is what it was.                                    *)
LEMMA SuffixTop ==
  ASSUME NEW m, MemType(m), NEW w, MemType(w),
         NEW zero, ZeroType(zero), NEW p, SuffixesIn(m, zero, p)
  PROVE  w.frozen = m.frozen => SuffixesIn(w, zero, p \cup {Reading(Stack(w, zero))})
<1> DEFINE a == Stack(m, zero)
           b == Stack(w, zero)
           n == Len(m.frozen)
           k == Len(zero)
           f == w.frozen
<1>1. /\ n \in Nat /\ k \in Nat /\ a \in Seq(Tables) /\ Len(a) = 1 + n + k
      /\ \A i \in 1 .. n : a[1 + i] = m.frozen[i]
      /\ \A i \in 1 .. k : a[1 + n + i] = zero[i].ents
  BY StackShape
<1>0. /\ b \in Seq(Tables) /\ Len(b) = 1 + Len(f) + k
      /\ \A i \in 1 .. Len(f) : b[1 + i] = f[i]
      /\ \A i \in 1 .. k : b[1 + Len(f) + i] = zero[i].ents
  BY StackShape
<1> SUFFICES ASSUME f = m.frozen
             PROVE  SuffixesIn(w, zero, p \cup {Reading(b)})
  OBVIOUS
<1>2. /\ b \in Seq(Tables) /\ Len(b) = 1 + n + k
      /\ \A i \in 1 .. n : b[1 + i] = m.frozen[i]
      /\ \A i \in 1 .. k : b[1 + n + i] = zero[i].ents
  <2> HIDE DEF b, k, f
  <2> QED
    BY <1>0
<1> HIDE DEF a, b, n, k
<1>3. ASSUME NEW i \in 2 .. 1 + n + k PROVE a[i] = b[i]
  <2>1. CASE i <= 1 + n
    <3>1. i - 1 \in 1 .. n /\ 1 + (i - 1) = i
      BY <1>1, <2>1
    <3> QED
      BY <1>1, <1>2, <3>1, ZenonT(60)
  <2>2. CASE i > 1 + n
    <3>1. i - 1 - n \in 1 .. k /\ 1 + n + (i - 1 - n) = i
      BY <1>1, <2>2
    <3> QED
      BY <1>1, <1>2, <3>1, ZenonT(60)
  <2> QED
    BY <1>1, <2>1, <2>2
<1>4. ASSUME NEW i \in 0 .. n + 1
      PROVE  Reading(Drop(b, i)) \in p \cup {Reading(b)}
  <2>1. i \in 0 .. Len(a) /\ i \in 0 .. Len(b)
    BY <1>1, <1>2
  <2>2. CASE i = 0
    BY <1>2, <2>1, <2>2, DropShape, SMTT(60)
  <2>3. CASE i # 0
    <3>1. Drop(a, i) = Drop(b, i)
      <4>1. \A x \in 1 .. 1 + n + k - i : a[x + i] = b[x + i]
        BY <1>1, <1>3, <2>3
      <4>2. Len(a) - i = 1 + n + k - i /\ Len(b) - i = 1 + n + k - i
        BY <1>1, <1>2
      <4> QED
        BY <4>1, <4>2 DEF Drop
    <3>2. Reading(Drop(a, i)) \in p
      BY DEF SuffixesIn, a, n
    <3> QED
      BY <3>1, <3>2
  <2> QED
    BY <2>2, <2>3
<1> QED
  BY <1>4 DEF SuffixesIn, b, n, f

(* Freezing adds one suffix, whose answers are those of the whole stack.   *)
LEMMA SuffixFreeze ==
  ASSUME NEW m, MemType(m), MemType(FrozenCurTable(m)),
         NEW zero, ZeroType(zero), NEW p, SuffixesIn(m, zero, p)
  PROVE  SuffixesIn(FrozenCurTable(m), zero, p)
<1> DEFINE f == FrozenCurTable(m)
           a == Stack(m, zero)
           u == Stack(f, zero)
           n == Len(m.frozen)
<1>1. n \in Nat /\ a \in Seq(Tables) /\ Len(a) \in Nat /\ n + 1 <= Len(a)
  BY StackShape
<1>2. u = <<{}>> \o a /\ Reading(u) = Reading(a)
  BY FreezeStack
<1>3. Len(f.frozen) = n + 1
  BY DEF FrozenCurTable, MemType
<1> HIDE DEF f, a, u, n
<1>4. /\ u \in Seq(Tables) /\ Len(u) = Len(a) + 1
      /\ \A i \in 2 .. Len(a) + 1 : u[i] = a[i - 1]
  BY <1>1, <1>2 DEF Tables
<1>5. ASSUME NEW i \in 0 .. n + 2 PROVE Reading(Drop(u, i)) \in p
  <2>1. CASE i = 0
    <3>1. Drop(u, 0) = u /\ Drop(a, 0) = a
      BY <1>1, <1>4, DropShape
    <3>2. Reading(Drop(a, 0)) \in p
      BY <1>1 DEF SuffixesIn, a, n
    <3> QED
      BY <1>2, <2>1, <3>1, <3>2, ZenonT(60)
  <2>2. CASE i # 0
    <3>1. i - 1 \in 0 .. n + 1 /\ Len(u) - i = Len(a) - (i - 1)
      BY <1>1, <1>4, <2>2
    <3>2. \A x \in 1 .. Len(a) - (i - 1) : u[x + i] = a[x + (i - 1)]
      BY <1>1, <1>4, <2>2, SMTT(60)
    <3>3. Drop(u, i) = Drop(a, i - 1)
      BY <3>1, <3>2, ZenonT(60) DEF Drop
    <3>4. Reading(Drop(a, i - 1)) \in p
      BY <3>1 DEF SuffixesIn, a, n
    <3> QED
      BY <3>3, <3>4
  <2> QED
    BY <2>1, <2>2
<1> QED
  BY <1>1, <1>3, <1>5 DEF SuffixesIn, u, f

(* More remembered moments never hurt.                                     *)
LEMMA SuffixMonotone ==
  ASSUME NEW m, NEW zero, NEW p, NEW r, p \subseteq r, SuffixesIn(m, zero, p)
  PROVE  SuffixesIn(m, zero, r)
BY DEF SuffixesIn

(* A write adds one moment, that after it, and the suffixes follow.        *)
LEMMA SuffixWrite ==
  ASSUME NEW m, MemInv(m), NEW zero, ZeroType(zero), NEW p, SuffixesIn(m, zero, p),
         NEW ks \in SUBSET Keys, IsFiniteSet(ks), NEW t \in Tids, NEW v \in 0 .. MaxWrites
  PROVE  LET w == MemWrite(m, ks, t, v)
         IN  SuffixesIn(w, zero, p \cup {Reading(Stack(w, zero))})
<1> DEFINE c == PutAll(m.current, ks, t, v)
           x == [m EXCEPT !.current = c]
           w == MemWrite(m, ks, t, v)
           r == p \cup {Reading(Stack(x, zero))}
<1>1. MemInv(w)
  BY MemWriteInv
<1>2. c \in Tables /\ IsFiniteSet(c)
  BY PutAllFinite DEF MemInv, MemType
<1>3. w = IF Cardinality(c) > PerLimit THEN FrozenCurTable(x) ELSE x
  BY DEF MemWrite, MemInv, MemType
<1> HIDE DEF c, w
<1>4. MemType(m) /\ MemType(x) /\ x.frozen = m.frozen
  BY <1>2 DEF MemInv, MemType
<1> HIDE DEF x
<1>5. SuffixesIn(x, zero, r)
  BY <1>4, SuffixTop
<1> HIDE DEF r
<1>6. CASE Cardinality(c) > PerLimit
  <2>1. w = FrozenCurTable(x) /\ MemType(FrozenCurTable(x))
    BY <1>1, <1>3, <1>6 DEF MemInv
  <2>2. SuffixesIn(w, zero, r)
    BY <1>4, <1>5, <2>1, SuffixFreeze, SMTT(60)
  <2>3. Reading(Stack(w, zero)) = Reading(Stack(x, zero))
    BY <1>4, <2>1, FreezeStack
  <2> QED
    BY <2>2, <2>3, SMTT(60) DEF r, w
<1>7. CASE ~(Cardinality(c) > PerLimit)
  <2>1. w = x
    BY <1>3, <1>7
  <2> QED
    BY <1>5, <2>1 DEF r, w
<1> QED
  BY <1>6, <1>7

(* Flushing changes neither the answers of the stack nor the moments its   *)
(* suffixes answer for.                                                    *)
LEMMA SuffixFlush ==
  ASSUME NEW m, MemInv(m), HasTable(m), NEW zero, ZeroType(zero), NEW id \in Nat
  PROVE  LET z == <<[id |-> id, ents |-> Flushed(m)]>> \o zero
         IN  /\ ZeroType(z)
             /\ Reading(Stack(FlushLast(m), z)) = Reading(Stack(m, zero))
             /\ \A p : SuffixesIn(m, zero, p) => SuffixesIn(FlushLast(m), z, p)
<1> DEFINE z == <<[id |-> id, ents |-> Flushed(m)]>> \o zero
           s == Sealed(m)
           r == FlushLast(m)
<1>1. /\ ZeroType(z)
      /\ Len(r.frozen) + 1 = Len(s.frozen)
      /\ Stack(r, z) = Stack(s, zero)
  BY PopStack
<1>2. MemInv(r)
  BY FlushLastInv
<1> HIDE DEF z, r
<1>3. MemType(m) /\ (m.frozen = <<>> => m.current # {})
  BY DEF MemInv, HasTable
<1>4. s = m \/ (s = FrozenCurTable(m) /\ MemType(FrozenCurTable(m)))
  <2>1. CASE m.frozen = <<>>
    BY <1>3, <2>1, FreezeInv DEF Sealed, MemInv
  <2>2. CASE m.frozen # <<>>
    BY <2>2 DEF Sealed
  <2> QED
    BY <2>1, <2>2, SMTT(60)
<1> HIDE DEF s
<1>5. Reading(Stack(s, zero)) = Reading(Stack(m, zero))
  BY <1>3, <1>4, FreezeStack
<1>6. ASSUME NEW p, SuffixesIn(m, zero, p) PROVE SuffixesIn(r, z, p)
  <2>1. SuffixesIn(s, zero, p)
    BY <1>3, <1>4, <1>6, SuffixFreeze, SMTT(60)
  <2>2. Len(r.frozen) \in Nat
    BY <1>2 DEF MemInv, MemType
  <2>3. \A i \in 0 .. Len(r.frozen) + 1 : i \in 0 .. Len(s.frozen) + 1
    BY <1>1, <2>2
  <2> QED
    BY <1>1, <2>1, <2>3, SMTT(60) DEF SuffixesIn
<1> QED
  BY <1>1, <1>5, <1>6 DEF z, r

(* With nothing in memory, the answers are those of level 0.               *)
LEMMA SuffixEmpty ==
  ASSUME NEW m, m.current = {}, m.frozen = <<>>, NEW zero, ZeroType(zero)
  PROVE  /\ Reading(Stack(m, zero)) = Reading(Contents(zero))
         /\ SuffixesIn(m, zero, {Reading(Stack(m, zero))})
<1> DEFINE c == Contents(zero)
           u == <<{}>> \o c
<1>1. c \in Seq(Tables) /\ Len(c) \in Nat
  <2>1. zero \in Seq([id : Nat, ents : Tables]) /\ Len(zero) \in Nat /\ DOMAIN zero = 1 .. Len(zero)
    BY DEF ZeroType
  <2>2. ASSUME NEW i \in 1 .. Len(zero) PROVE zero[i].ents \in Tables
    <3>1. zero[i] \in [id : Nat, ents : Tables]
      BY <2>1, ElementOfSeq, ZenonT(60)
    <3> QED
      BY <3>1
  <2>3. c = [i \in 1 .. Len(zero) |-> zero[i].ents]
    BY <2>1 DEF Contents
  <2> HIDE DEF c
  <2> QED
    BY <2>1, <2>2, <2>3
<1>2. Stack(m, zero) = u
  <2>1. Stack(m, zero) = (<<{}>> \o <<>>) \o c
    BY DEF Stack, MemTables
  <2> QED
    BY <2>1
<1> HIDE DEF c
<1>3. Reading(u) = Reading(c)
  BY <1>1, ReadingPrepend DEF Tables
<1>4. /\ u \in Seq(Tables) /\ Len(u) = Len(c) + 1
      /\ \A i \in 1 .. Len(c) : u[i + 1] = c[i]
  BY <1>1 DEF Tables
<1> HIDE DEF u
<1>5. Drop(u, 0) = u
  BY <1>1, <1>4, DropShape
<1>6. Drop(u, 1) = c
  <2>1. Len(u) - 1 = Len(c) /\ 1 \in 0 .. Len(u)
    BY <1>1, <1>4
  <2>2. /\ Drop(u, 1) \in Seq(Tables) /\ Len(Drop(u, 1)) = Len(u) - 1
        /\ \A n \in 1 .. Len(u) - 1 : Drop(u, 1)[n] = u[n + 1]
    <3>1. u \in Seq(Tables) /\ 1 \in 0 .. Len(u)
      BY <1>4, <2>1
    <3> QED
      BY <3>1, DropShape
  <2>3. Len(Drop(u, 1)) = Len(c) /\ \A n \in 1 .. Len(Drop(u, 1)) : Drop(u, 1)[n] = c[n]
    BY <1>4, <2>1, <2>2
  <2> QED
    BY <1>1, <2>2, <2>3, SeqEqual
<1>7. Len(m.frozen) = 0
  OBVIOUS
<1>8. \A i \in 0 .. 1 : Reading(Drop(u, i)) = Reading(u)
  BY <1>3, <1>5, <1>6
<1> QED
  BY <1>2, <1>3, <1>7, <1>8 DEF SuffixesIn, c
=============================================================================
