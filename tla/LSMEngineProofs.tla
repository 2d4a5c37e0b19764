--------------------------- MODULE LSMEngineProofs --------------------------
(***************************************************************************)
(* Theorems about LSMEngine, for every value of its constants.             *)
(*                                                                         *)
(* EngineInv is inductive.  DurablePrefix alone is not: it speaks of the   *)
(* files of level 0, and the next flush adds to them a table about whose   *)
(* moment it says nothing.  So EngineInv says of every suffix of the stack *)
(* (active table, frozen tables, level 0) that holds all of level 0 that   *)
(* it answers as the store once did.  That needs well-formed tables, which *)
(* are finite, so that a newest version exists.                            *)
(***************************************************************************)
EXTENDS LSMEngineSuffixes, LSMEngineCompaction

EngineInv ==
  /\ TypeOK
  /\ MemInv(memtable)
  /\ FilesOK(l0)
  /\ \A i \in DOMAIN l0 : l0[i].ents # {}
  /\ \A l \in Levels : FilesOK(levels[l]) /\ Ascends(levels[l])
  /\ Level0Newest
  /\ cur_max_level = 0 => SuffixesIn(memtable, l0, past)

-----------------------------------------------------------------------------
(* Every answer of the tables in memory and on level 0 is a value.         *)
LEMMA StackReading ==
  ASSUME NEW m, MemInv(m), NEW zero, FilesOK(zero)
  PROVE  Reading(Stack(m, zero)) \in [Keys \X Queries -> 0 .. MaxWrites]
<1> DEFINE s == Stack(m, zero)
           n == Len(m.frozen)
           k == Len(zero)
<1>1. /\ n \in Nat /\ k \in Nat /\ s \in Seq(Tables) /\ Len(s) = 1 + n + k
      /\ s[1] = m.current
      /\ \A i \in 1 .. n : s[1 + i] = m.frozen[i]
      /\ \A i \in 1 .. k : s[1 + n + i] = zero[i].ents
  <2>1. MemType(m) /\ ZeroType(zero)
    BY DEF MemInv, FilesOK
  <2> QED
    BY <2>1, StackShape
<1>2. DOMAIN m.frozen = 1 .. n /\ DOMAIN zero = 1 .. k
  BY DEF MemInv, MemType, FilesOK, ZeroType
<1> HIDE DEF s, n, k
<1>3. DOMAIN s = 1 .. 1 + n + k
  BY <1>1
<1>4. ASSUME NEW i \in DOMAIN s PROVE IsFiniteSet(s[i])
  <2>1. CASE i = 1
    BY <1>1, <2>1 DEF MemInv
  <2>2. CASE i \in 2 .. 1 + n
    <3>1. i - 1 \in 1 .. n /\ 1 + (i - 1) = i
      BY <1>1, <2>2
    <3>2. s[i] = m.frozen[i - 1]
      BY <1>1, <3>1
    <3> QED
      BY <1>2, <3>1, <3>2 DEF MemInv
  <2>3. CASE i > 1 + n
    <3>1. i - 1 - n \in 1 .. k /\ 1 + n + (i - 1 - n) = i
      BY <1>1, <1>3, <2>3
    <3>2. s[i] = zero[i - 1 - n].ents
      BY <1>1, <3>1, SMTT(60)
    <3> QED
      BY <1>2, <3>1, <3>2 DEF FilesOK
  <2> QED
    BY <1>1, <1>3, <2>1, <2>2, <2>3, SMTT(60)
<1> QED
  BY <1>1, <1>4, ReadingType, ZenonT(60) DEF s

(* The initial state: an empty store.                                      *)
LEMMA InitInv == Init => EngineInv
<1> SUFFICES ASSUME Init PROVE EngineInv
  OBVIOUS
<1> USE DEF Init
<1>1. MemInv(memtable)
  BY FS_EmptySet DEF MemInv, MemType, EmptyMem, Tables
<1>2. FilesOK(l0) /\ l0 \in Seq(Sst) /\ Level0Newest /\ \A i \in DOMAIN l0 : l0[i].ents # {}
  BY DEF FilesOK, ZeroType, Level0Newest, Descends
<1>3. levels \in [Levels -> Seq(Sst)] /\ \A l \in Levels : FilesOK(levels[l]) /\ Ascends(levels[l])
  BY DEF FilesOK, ZeroType, Ascends
<1>4. /\ past = {Reading(Stack(memtable, l0))}
      /\ SuffixesIn(memtable, l0, past)
  <2>1. Contents(l0) = <<>>
    BY DEF Contents
  <2>2. memtable.current = {} /\ memtable.frozen = <<>>
    BY DEF EmptyMem
  <2>3. ZeroType(l0)
    BY <1>2 DEF FilesOK
  <2>4. /\ Reading(Stack(memtable, l0)) = Reading(Contents(l0))
        /\ SuffixesIn(memtable, l0, {Reading(Stack(memtable, l0))})
    <3> HIDE DEF Init
    <3> QED
      BY <2>2, <2>3, SuffixEmpty
  <2>5. past = {Reading(Stack(memtable, l0))}
    BY <2>1, <2>4
  <2> QED
    BY <2>4, <2>5, ZenonT(60)
<1>5. TypeOK
  <2>1. past \subseteq [Keys \X Queries -> 0 .. MaxWrites]
    <3>1. Reading(Stack(memtable, l0)) \in [Keys \X Queries -> 0 .. MaxWrites]
      <4> HIDE DEF Init
      <4> QED
        BY <1>1, <1>2, StackReading, ZenonT(60)
    <3> HIDE DEF Init
    <3> QED
      BY <1>4, <3>1
  <2> QED
    BY <1>1, <1>2, <1>3, <2>1, EngineAssumption, SMTT(60) DEF TypeOK, MemInv, MemType, Tables
<1> QED
  BY <1>1, <1>2, <1>3, <1>4, <1>5, SMTT(60) DEF EngineInv

-----------------------------------------------------------------------------
(* A new file in front of level 0 whose id is above all others keeps level *)
(* 0 well formed and newest first (flush: emplace_front).                  *)
LEMMA PrependFile ==
  ASSUME NEW z, FilesOK(z), Descends(z), \A i \in DOMAIN z : z[i].ents # {},
         NEW id \in Nat, \A i \in DOMAIN z : z[i].id < id,
         NEW T \in Tables, IsFiniteSet(T), T # {}
  PROVE  LET y == <<[id |-> id, ents |-> T]>> \o z
         IN  /\ FilesOK(y) /\ y \in Seq(Sst) /\ Descends(y)
             /\ \A i \in DOMAIN y : y[i].ents # {} /\ y[i].id <= id
<1> DEFINE F == [id : Nat, ents : Tables]
           h == [id |-> id, ents |-> T]
           y == <<h>> \o z
           n == Len(z)
<1>1. h \in F /\ h.id = id /\ h.ents = T /\ z \in Seq(F) /\ <<h>> \in Seq(F)
  BY DEF FilesOK, ZeroType
<1>2. n \in Nat /\ DOMAIN z = 1 .. n /\ \A i \in DOMAIN z : z[i].id \in Nat
  BY FileNumbers
<1>3. /\ y \in Seq(F) /\ DOMAIN y = 1 .. n + 1 /\ y[1] = h
      /\ \A i \in 2 .. n + 1 : y[i] = z[i - 1]
  BY <1>1, <1>2
<1> HIDE DEF h, y, n
<1>4. ASSUME NEW i \in DOMAIN y
      PROVE  /\ IsFiniteSet(y[i].ents) /\ y[i].ents # {}
             /\ y[i].id \in Nat /\ y[i].id <= id /\ (i # 1 => y[i].id < id)
  <2>1. CASE i = 1
    BY <1>1, <1>3, <2>1, SMTT(60)
  <2>2. CASE i # 1
    <3>1. i \in 2 .. n + 1 /\ i - 1 \in DOMAIN z
      BY <1>2, <1>3, <2>2, SMTT(60)
    <3>2. y[i] = z[i - 1]
      BY <1>3, <3>1
    <3>3. IsFiniteSet(z[i - 1].ents) /\ z[i - 1].ents # {}
      BY <3>1, FileAt, SMTT(60)
    <3>4. z[i - 1].id \in Nat /\ z[i - 1].id < id
      BY <1>2, <3>1
    <3> QED
      BY <3>2, <3>3, <3>4, SMTT(60)
  <2> QED
    BY <2>1, <2>2, SMTT(60)
<1>5. Descends(y)
  <2> SUFFICES ASSUME NEW i \in DOMAIN y, NEW j \in DOMAIN y, i < j
               PROVE  y[i].id > y[j].id
    BY DEF Descends
  <2>1. j \in 2 .. n + 1 /\ j # 1 /\ y[j] = z[j - 1] /\ j - 1 \in DOMAIN z
    BY <1>2, <1>3, SMTT(60)
  <2>2. CASE i = 1
    BY <1>1, <1>3, <1>4, <2>1, <2>2, SMTT(60)
  <2>3. CASE i # 1
    <3>0. i \in 1 .. n + 1 /\ n \in Nat /\ DOMAIN z = 1 .. n
      BY <1>2, <1>3, SMTT(60)
    <3>1. i \in 2 .. n + 1 /\ i - 1 \in DOMAIN z
      BY <2>3, <3>0
    <3>2. y[i] = z[i - 1] /\ i - 1 < j - 1
      BY <1>2, <1>3, <2>1, <3>1, SMTT(60)
    <3> QED
      BY <2>1, <3>1, <3>2, SMTT(60) DEF Descends
  <2> QED
    BY <2>2, <2>3, SMTT(60)
<1>6. FilesOK(y)
  BY <1>3, <1>4 DEF FilesOK, ZeroType
<1>7. y \in Seq(Sst)
  BY <1>3 DEF Sst, Tables
<1>8. FilesOK(y) /\ y \in Seq(Sst) /\ Descends(y)
      /\ \A i \in DOMAIN y : y[i].ents # {} /\ y[i].id <= id
  BY <1>4, <1>5, <1>6, <1>7, SMTT(60)
<1> QED
  BY <1>8 DEF y, h

(* What flush leaves of level 0 before it adds its table, and the rest of  *)
(* the engine: both after a compaction and without one.                    *)
LEMMA CompactInv ==
  ASSUME EngineInv, IF Compacts THEN FullCompact(Deepest) ELSE NoCompact
  PROVE  LET rest == IF Compacts THEN <<>> ELSE l0
         IN  /\ FilesOK(rest) /\ rest \in Seq(Sst) /\ Descends(rest)
             /\ \A i \in DOMAIN rest : rest[i].ents # {} /\ rest[i].id < next_sst_id
             /\ next_sst_id \in Nat /\ next_sst_id' \in Nat /\ next_sst_id' > next_sst_id
             /\ levels' \in [Levels -> Seq(Sst)]
             /\ \A l \in Levels : FilesOK(levels'[l]) /\ Ascends(levels'[l])
             /\ cur_max_level' \in 0 .. MaxLevel
             /\ cur_max_level' = 0 => rest = l0 /\ cur_max_level = 0
<1>1. /\ FilesOK(l0) /\ \A i \in DOMAIN l0 : l0[i].ents # {}
      /\ l0 \in Seq(Sst) /\ Descends(l0) /\ \A i \in DOMAIN l0 : l0[i].id < next_sst_id
      /\ levels \in [Levels -> Seq(Sst)] /\ next_sst_id \in Nat
      /\ \A l \in Levels : FilesOK(levels[l]) /\ Ascends(levels[l])
      /\ cur_max_level \in 0 .. MaxLevel
  BY DEF EngineInv, TypeOK, Level0Newest
<1>2. CASE ~Compacts
  BY <1>1, <1>2, SMTT(60) DEF NoCompact
<1>3. CASE Compacts
  <2> DEFINE d == Deepest
             made == NumMade(Cuts(d), 0 .. d)
             after == CompactedLevels(Cuts(d), d)
             S == {cur_max_level, d + 1}
  <2>1. /\ d < MaxLevel /\ levels' = after
        /\ cur_max_level' = Max(S) /\ next_sst_id' = next_sst_id + made + 1
    BY <1>3 DEF FullCompact
  <2>2. d \in Nat /\ d \in 0 .. MaxLevel
    BY DeepestType, EngineAssumption, SMTT(60)
  <2> HIDE DEF d
  <2>3. /\ after \in [Levels -> Seq(Sst)]
        /\ \A l \in Levels : FilesOK(after[l]) /\ Ascends(after[l])
        /\ made \in Nat
    BY <1>1, <2>1, <2>2, CompactedLevelsType, SMTT(60)
  <2>4. Max(S) \in S /\ \A y \in S : y <= Max(S)
    <3>1. S \in SUBSET Nat /\ S # {}
      BY <1>1, <2>2, EngineAssumption, SMTT(60)
    <3>2. IsFiniteSet({cur_max_level}) /\ IsFiniteSet({d + 1})
      BY FS_Singleton, ZenonT(60)
    <3>3. S = {cur_max_level} \cup {d + 1}
      OBVIOUS
    <3>4. IsFiniteSet(S)
      <4>1. IsFiniteSet({cur_max_level} \cup {d + 1})
        BY <3>2, FS_Union, ZenonT(60)
      <4> QED
        BY <3>3, <4>1
    <3> HIDE DEF S
    <3> QED
      BY <3>1, <3>4, MaxOf, SMTT(60)
  <2> HIDE DEF after, made
  <2>5. cur_max_level' \in 0 .. MaxLevel /\ cur_max_level' # 0
    <3> DEFINE x == Max(S)
    <3>1. x \in S /\ d + 1 <= x
      BY <2>4
    <3> HIDE DEF x
    <3>2. x \in 0 .. MaxLevel /\ x # 0
      BY <1>1, <2>1, <2>2, <3>1, EngineAssumption, SMTT(60)
    <3> QED
      BY <2>1, <3>2, SMTT(60) DEF x
  <2>6. FilesOK(<<>>) /\ <<>> \in Seq(Sst) /\ Descends(<<>>) /\ DOMAIN <<>> = {}
    BY DEF FilesOK, ZeroType, Descends
  <2>7. next_sst_id' \in Nat /\ next_sst_id' > next_sst_id
    BY <1>1, <2>1, <2>3
  <2> QED
    BY <1>1, <1>3, <2>1, <2>3, <2>5, <2>6, <2>7, SMTT(60)
<1> QED
  BY <1>2, <1>3, SMTT(60)

(* The id a flush uses is the last one taken.                              *)
LEMMA LastTaken ==
  ASSUME NEW a \in Nat, NEW b \in Nat, b > a
  PROVE  b - 1 \in Nat /\ b - 1 >= a /\ b - 1 < b
BY SMTT(60)

(* flush of a well-formed memtable m, whose suffixes answer as the store   *)
(* once did or does with m, keeps the invariant.                           *)
LEMMA FlushInv ==
  ASSUME EngineInv, NEW m, MemInv(m), FlushOf(m), Remember, writes' \in 0 .. MaxWrites,
         cur_max_level = 0 => SuffixesIn(m, l0, past \cup {Reading(Stack(m, l0))})
  PROVE  EngineInv'
<1> DEFINE rest == IF Compacts THEN <<>> ELSE l0
           fresh == next_sst_id' - 1
           moments == past \cup {Reading(Stack(m, l0))}
<1>1. /\ FilesOK(rest) /\ rest \in Seq(Sst) /\ Descends(rest)
      /\ \A i \in DOMAIN rest : rest[i].ents # {} /\ rest[i].id < next_sst_id
      /\ next_sst_id \in Nat /\ next_sst_id' \in Nat /\ next_sst_id' > next_sst_id
      /\ levels' \in [Levels -> Seq(Sst)]
      /\ \A l \in Levels : FilesOK(levels'[l]) /\ Ascends(levels'[l])
      /\ cur_max_level' \in 0 .. MaxLevel
      /\ cur_max_level' = 0 => rest = l0 /\ cur_max_level = 0
  BY CompactInv, ZenonT(60) DEF FlushOf
<1>2. /\ HasTable(m) => /\ l0' = <<[id |-> fresh, ents |-> Flushed(m)]>> \o rest
                        /\ memtable' = FlushLast(m) /\ phase' = phase
      /\ ~HasTable(m) => l0' = rest /\ memtable' = EmptyMem /\ phase' = "dead"
  BY DEF FlushOf
<1>3. past' = IF cur_max_level' = 0 THEN past \cup {Reading(Stack(memtable', l0'))} ELSE {}
  BY DEF Remember
<1>4. phase' \in {"open", "closing", "dead"} /\ past \subseteq [Keys \X Queries -> 0 .. MaxWrites]
  BY <1>2, ZenonT(60) DEF EngineInv, TypeOK
<1> HIDE DEF rest
<1>5. /\ MemInv(memtable') /\ FilesOK(l0') /\ l0' \in Seq(Sst) /\ Descends(l0')
      /\ \A i \in DOMAIN l0' : l0'[i].ents # {} /\ l0'[i].id < next_sst_id'
      /\ cur_max_level' = 0 => SuffixesIn(memtable', l0', past')
  <2>1. CASE HasTable(m)
    <3> DEFINE z == <<[id |-> fresh, ents |-> Flushed(m)]>> \o rest
    <3>1. /\ MemInv(FlushLast(m))
          /\ Flushed(m) \in Tables /\ IsFiniteSet(Flushed(m)) /\ Flushed(m) # {}
      BY <2>1, FlushLastInv
    <3>2. fresh \in Nat /\ fresh >= next_sst_id /\ fresh < next_sst_id'
      <4>1. next_sst_id \in Nat /\ next_sst_id' \in Nat /\ next_sst_id' > next_sst_id
        BY <1>1, SMTT(60)
      <4> QED
        BY <4>1, LastTaken, ZenonT(60)
    <3> HIDE DEF fresh
    <3>3. ASSUME NEW i \in DOMAIN rest PROVE rest[i].id < fresh
      <4>1. rest[i].id \in Nat /\ rest[i].id < next_sst_id
        BY <1>1, FileNumbers, SMTT(60)
      <4> QED
        BY <1>1, <3>2, <4>1, SMTT(60)
    <3>4. /\ FilesOK(z) /\ z \in Seq(Sst) /\ Descends(z)
          /\ \A i \in DOMAIN z : z[i].ents # {} /\ z[i].id <= fresh
      BY <1>1, <3>1, <3>2, <3>3, PrependFile, ZenonT(60)
    <3>5. ASSUME cur_max_level' = 0 PROVE SuffixesIn(memtable', l0', past')
      <4>1. rest = l0 /\ SuffixesIn(m, l0, moments)
        BY <1>1, <3>5, SMTT(60)
      <4>2. ZeroType(l0)
        BY DEF EngineInv, FilesOK
      <4>3. /\ Reading(Stack(FlushLast(m), <<[id |-> fresh, ents |-> Flushed(m)]>> \o l0)) = Reading(Stack(m, l0))
            /\ SuffixesIn(FlushLast(m), <<[id |-> fresh, ents |-> Flushed(m)]>> \o l0, moments)
        <5> HIDE DEF moments
        <5> QED
          BY <2>1, <3>2, <4>1, <4>2, SuffixFlush, SMTT(60)
      <4>4. memtable' = FlushLast(m) /\ l0' = <<[id |-> fresh, ents |-> Flushed(m)]>> \o l0
        BY <1>2, <2>1, <4>1, SMTT(60)
      <4>5. past' = moments
        BY <1>3, <3>5, <4>3, <4>4, SMTT(60)
      <4> QED
        BY <4>3, <4>4, <4>5, SMTT(60)
    <3>6. memtable' = FlushLast(m) /\ l0' = z
      BY <1>2, <2>1, SMTT(60)
    <3>7. ASSUME NEW i \in DOMAIN z PROVE z[i].id < next_sst_id'
      <4>1. z[i].id \in Nat /\ z[i].id <= fresh
        BY <3>4, FileNumbers, ZenonT(60)
      <4> QED
        BY <1>1, <3>2, <4>1, SMTT(60)
    <3> HIDE DEF z
    <3> QED
      BY <3>1, <3>4, <3>5, <3>6, <3>7, SMTT(60)
  <2>2. CASE ~HasTable(m)
    <3>1. l0' = rest /\ memtable' = EmptyMem
      BY <1>2, <2>2, SMTT(60)
    <3>2. MemInv(EmptyMem)
      BY FS_EmptySet, SMTT(60) DEF MemInv, MemType, EmptyMem, Tables
    <3>3. ASSUME NEW i \in DOMAIN rest PROVE rest[i].id < next_sst_id'
      <4>1. rest[i].id \in Nat /\ rest[i].id < next_sst_id
        BY <1>1, FileNumbers
      <4> QED
        BY <1>1, <4>1, SMTT(60)
    <3>4. ASSUME cur_max_level' = 0 PROVE SuffixesIn(memtable', l0', past')
      <4>1. EmptyMem.current = {} /\ EmptyMem.frozen = <<>> /\ ZeroType(rest)
        BY <1>1, SMTT(60) DEF EmptyMem, FilesOK
      <4>2. SuffixesIn(EmptyMem, rest, {Reading(Stack(EmptyMem, rest))})
        BY <4>1, SuffixEmpty, SMTT(60)
      <4>3. {Reading(Stack(EmptyMem, rest))} \subseteq past'
        BY <1>3, <3>1, <3>4, SMTT(60)
      <4> QED
        BY <3>1, <4>2, <4>3, SuffixMonotone, SMTT(60)
    <3> QED
      BY <1>1, <3>1, <3>2, <3>3, <3>4, SMTT(60)
  <2> QED
    BY <2>1, <2>2, SMTT(60)
<1>6. past' \subseteq [Keys \X Queries -> 0 .. MaxWrites]
  <2>1. Reading(Stack(memtable', l0')) \in [Keys \X Queries -> 0 .. MaxWrites]
    BY <1>5, StackReading, ZenonT(60)
  <2> QED
    BY <1>3, <1>4, <2>1, ZenonT(60)
<1>7. TypeOK'
  BY <1>1, <1>4, <1>5, <1>6, ZenonT(60) DEF TypeOK, MemInv, MemType, Tables
<1>8. Level0Newest'
  BY <1>5 DEF Level0Newest, Descends
<1> QED
  BY <1>1, <1>5, <1>7, <1>8, SMTT(60) DEF EngineInv

(* A write: put, put_batch, remove or remove_batch.                        *)
LEMMA WriteInv ==
  ASSUME EngineInv, NEW ks \in SUBSET Keys, IsFiniteSet(ks), NEW t \in Tids,
         NEW v \in 0 .. MaxWrites, Write(ks, t, v)
  PROVE  EngineInv'
<1> DEFINE m == MemWrite(memtable, ks, t, v)
<1>1. MemInv(memtable) /\ FilesOK(l0) /\ ZeroType(l0)
  BY DEF EngineInv, FilesOK
<1>2. MemInv(m)
  BY <1>1, MemWriteInv, SMTT(60)
<1>3. cur_max_level = 0 => SuffixesIn(m, l0, past \cup {Reading(Stack(m, l0))})
  <2>1. cur_max_level = 0 => SuffixesIn(memtable, l0, past)
    BY DEF EngineInv
  <2> QED
    BY <1>1, <2>1, SuffixWrite, SMTT(60)
<1>4. Remember /\ writes' \in 0 .. MaxWrites
  <2>1. writes \in 0 .. MaxWrites
    BY DEF EngineInv, TypeOK
  <2> QED
    BY <2>1, EngineAssumption, SMTT(60) DEF Write
<1>5. CASE TotalSize(m) >= TolLimit
  <2>1. FlushOf(m)
    BY <1>5, SMTT(60) DEF Write
  <2> HIDE DEF m
  <2> QED
    BY <1>2, <1>3, <1>4, <2>1, FlushInv, SMTT(60)
<1>6. CASE ~(TotalSize(m) >= TolLimit)
  <2>1. /\ memtable' = m /\ l0' = l0 /\ levels' = levels /\ next_sst_id' = next_sst_id
        /\ cur_max_level' = cur_max_level /\ phase' = phase
    BY <1>6, SMTT(60) DEF Write
  <2> HIDE DEF m
  <2>2. past' = IF cur_max_level = 0 THEN past \cup {Reading(Stack(m, l0))} ELSE {}
    BY <1>4, <2>1, SMTT(60) DEF Remember
  <2>3. past' \subseteq [Keys \X Queries -> 0 .. MaxWrites]
    <3>1. Reading(Stack(m, l0)) \in [Keys \X Queries -> 0 .. MaxWrites]
      BY <1>1, <1>2, StackReading, SMTT(60)
    <3>2. past \subseteq [Keys \X Queries -> 0 .. MaxWrites]
      BY ZenonT(60) DEF EngineInv, TypeOK
    <3> QED
      BY <2>2, <3>1, <3>2, SMTT(60)
  <2>4. TypeOK'
    BY <1>2, <1>4, <2>1, <2>3, ZenonT(60) DEF EngineInv, TypeOK, MemInv, MemType, Tables
  <2>5. cur_max_level' = 0 => SuffixesIn(memtable', l0', past')
    BY <1>3, <2>1, <2>2, SMTT(60)
  <2>6. Level0Newest'
    BY <2>1, SMTT(60) DEF EngineInv, Level0Newest
  <2>7. /\ MemInv(memtable') /\ FilesOK(l0') /\ \A i \in DOMAIN l0' : l0'[i].ents # {}
        /\ \A l \in Levels : FilesOK(levels'[l]) /\ Ascends(levels'[l])
    BY <1>2, <2>1, SMTT(60) DEF EngineInv
  <2> QED
    BY <2>4, <2>5, <2>6, <2>7, SMTT(60) DEF EngineInv
<1> QED
  BY <1>5, <1>6, SMTT(60)

(* An engine with nothing in memory, whose only remembered moment is what  *)
(* it can read now, satisfies the last part of the invariant.              *)
LEMMA FreshMoment ==
  ASSUME NEW m, MemType(m), m.current = {}, m.frozen = <<>>, NEW zero, FilesOK(zero)
  PROVE  /\ MemInv(m)
         /\ Reading(Stack(m, zero)) = Reading(Contents(zero))
         /\ {Reading(Stack(m, zero))} \subseteq [Keys \X Queries -> 0 .. MaxWrites]
         /\ SuffixesIn(m, zero, {Reading(Stack(m, zero))})
<1>1. MemInv(m)
  BY FS_EmptySet DEF MemInv
<1>2. ZeroType(zero)
  BY DEF FilesOK
<1>3. Reading(Stack(m, zero)) \in [Keys \X Queries -> 0 .. MaxWrites]
  BY <1>1, StackReading, ZenonT(60)
<1>4. /\ Reading(Stack(m, zero)) = Reading(Contents(zero))
      /\ SuffixesIn(m, zero, {Reading(Stack(m, zero))})
  BY <1>2, SuffixEmpty, SMTT(60)
<1> QED
  BY <1>1, <1>3, <1>4, SMTT(60)

(* clear.                                                                  *)
LEMMA ClearInv == EngineInv /\ Clear => EngineInv'
<1> SUFFICES ASSUME EngineInv, Clear PROVE EngineInv'
  OBVIOUS
<1> DEFINE m == MemClear(memtable)
<1>1. /\ memtable' = m /\ l0' = <<>> /\ levels' = [l \in Levels |-> <<>>]
      /\ past' = {Reading(<<>>)} /\ next_sst_id' = next_sst_id
      /\ cur_max_level' = cur_max_level /\ phase' = phase /\ writes' = writes
  BY DEF Clear
<1>2. MemType(m) /\ m.current = {} /\ m.frozen = <<>>
  <2>1. memtable \in [current : Tables, frozen : Seq(Tables), frozen_bytes : Int]
    BY DEF EngineInv, MemInv, MemType
  <2>2. /\ m = [memtable EXCEPT !.current = {}, !.frozen = <<>>]
        /\ {} \in Tables /\ <<>> \in Seq(Tables)
    BY DEF MemClear, Tables
  <2> HIDE DEF m
  <2> QED
    BY <2>1, <2>2, ZenonT(60) DEF MemType
<1>3. FilesOK(<<>>) /\ <<>> \in Seq(Sst) /\ Contents(<<>>) = <<>> /\ DOMAIN <<>> = {}
  BY DEF FilesOK, ZeroType, Contents
<1> HIDE DEF m
<1>4. /\ MemInv(m) /\ Reading(Stack(m, <<>>)) = Reading(Contents(<<>>))
      /\ {Reading(Stack(m, <<>>))} \subseteq [Keys \X Queries -> 0 .. MaxWrites]
      /\ SuffixesIn(m, <<>>, {Reading(Stack(m, <<>>))})
  BY <1>2, <1>3, FreshMoment, ZenonT(60)
<1>5. /\ past' \subseteq [Keys \X Queries -> 0 .. MaxWrites]
      /\ SuffixesIn(memtable', l0', past')
  BY <1>1, <1>3, <1>4, ZenonT(60)
<1>6. /\ levels' \in [Levels -> Seq(Sst)]
      /\ \A l \in Levels : FilesOK(levels'[l]) /\ Ascends(levels'[l])
  BY <1>1, <1>3, SMTT(60) DEF Ascends
<1>7. TypeOK'
  BY <1>1, <1>2, <1>3, <1>5, <1>6, SMTT(60) DEF EngineInv, TypeOK, MemType, Tables
<1>8. Level0Newest' /\ FilesOK(l0') /\ MemInv(memtable') /\ \A i \in DOMAIN l0' : l0'[i].ents # {}
  BY <1>1, <1>3, <1>4, SMTT(60) DEF Level0Newest, Descends
<1> QED
  BY <1>5, <1>6, <1>7, <1>8, SMTT(60) DEF EngineInv

(* There are finitely many files, so the constructor finds a greatest id.  *)
LEMMA DiskIds ==
  ASSUME EngineInv
  PROVE  LET ids == {s.id : s \in UNION {OnDisk[l] : l \in {0} \cup Levels}}
         IN  IsFiniteSet(ids) /\ ids \in SUBSET Nat
<1> DEFINE L == {0} \cup Levels
           D == {OnDisk[l] : l \in L}
           U == UNION D
           ids == {s.id : s \in U}
<1>1. ASSUME NEW z, FilesOK(z), Ascends(z) \/ Descends(z)
      PROVE  IsFiniteSet(Range(z)) /\ \A s \in Range(z) : s.id \in Nat
  <2>1. Len(z) \in Nat /\ DOMAIN z = 1 .. Len(z) /\ \A i \in DOMAIN z : z[i].id \in Nat
    BY <1>1, FileNumbers, SMTT(60)
  <2>2. ASSUME NEW i \in DOMAIN z, NEW j \in DOMAIN z, z[i].id = z[j].id PROVE i = j
    <3>1. i \in Nat /\ j \in Nat /\ z[i].id \in Nat /\ z[j].id \in Nat
      BY <2>1, SMTT(60)
    <3>2. ~(i < j) /\ ~(j < i)
      BY <1>1, <2>2, <3>1, SMTT(60) DEF Ascends, Descends
    <3> QED
      BY <3>1, <3>2, SMTT(60)
  <2>3. IsFiniteSet(Range(z))
    BY <1>1, <2>2, RangeCard, SMTT(60)
  <2> QED
    BY <2>1, <2>3, SMTT(60) DEF Range
<1>2. ASSUME NEW l \in L PROVE IsFiniteSet(OnDisk[l]) /\ \A s \in OnDisk[l] : s.id \in Nat
  <2>1. OnDisk[l] = Range(IF l = 0 THEN l0 ELSE levels[l])
    BY DEF OnDisk
  <2>2. CASE l = 0
    <3>1. FilesOK(l0) /\ Descends(l0)
      BY DEF EngineInv, Level0Newest
    <3> QED
      BY <1>1, <2>1, <2>2, <3>1, SMTT(60)
  <2>3. CASE l # 0
    <3>1. FilesOK(levels[l]) /\ Ascends(levels[l])
      BY <2>3 DEF EngineInv
    <3> QED
      BY <1>1, <2>1, <2>3, <3>1, SMTT(60)
  <2> QED
    BY <2>2, <2>3, SMTT(60)
<1>3. IsFiniteSet(L)
  <2>1. IsFiniteSet(Levels) /\ IsFiniteSet({0})
    BY EngineAssumption, FS_Interval, FS_Singleton, SMTT(60) DEF Levels
  <2> QED
    BY <2>1, FS_Union, ZenonT(60)
<1> HIDE DEF L
<1>4. IsFiniteSet(D)
  <2> DEFINE f == [l \in L |-> OnDisk[l]]
  <2>1. f \in Surjection(L, D)
    BY DEF Surjection
  <2> HIDE DEF f, D
  <2> QED
    BY <1>3, <2>1, FS_Surjection, SMTT(60)
<1>5. IsFiniteSet(U)
  <2>1. \A x \in D : IsFiniteSet(x)
    BY <1>2
  <2> HIDE DEF D
  <2> QED
    BY <1>4, <2>1, FS_UNION, SMTT(60)
<1>6. \A s \in U : s.id \in Nat
  BY <1>2
<1> HIDE DEF U
<1>7. IsFiniteSet(ids)
  <2> DEFINE f == [s \in U |-> s.id]
  <2>1. f \in Surjection(U, ids)
    BY DEF Surjection
  <2> HIDE DEF f, ids
  <2> QED
    BY <1>5, <2>1, FS_Surjection, SMTT(60)
<1>8. IsFiniteSet(ids) /\ ids \in SUBSET Nat
  BY <1>6, <1>7, SMTT(60)
<1> QED
  BY <1>8 DEF U, L

(* The constructor, on the files that are on disk.                         *)
LEMMA LoadInv == EngineInv /\ Load(OnDisk) => EngineInv'
<1> SUFFICES ASSUME EngineInv, Load(OnDisk) PROVE EngineInv'
  BY SMTT(60)
<1> DEFINE ids == {s.id : s \in UNION {OnDisk[l] : l \in {0} \cup Levels}}
           used == {l \in Levels : OnDisk[l] # {}}
           q == Descending(Range(l0))
<1>1. /\ memtable' = EmptyMem /\ l0' = Descending(OnDisk[0])
      /\ levels' = [l \in Levels |-> Ascending(OnDisk[l])]
      /\ next_sst_id' = Max({0} \cup ids) + 1 /\ cur_max_level' = Max({0} \cup used)
      /\ phase' = "open" /\ past' = {Reading(Stack(memtable', l0'))} /\ writes' = writes
  BY DEF Load
<1>2. OnDisk[0] = Range(l0) /\ \A l \in Levels : OnDisk[l] = Range(levels[l])
  BY EngineAssumption, SMTT(60) DEF OnDisk, Levels
<1>3. FilesOK(q) /\ q \in Seq(Sst) /\ Descends(q) /\ Range(q) \subseteq Range(l0)
  BY LoadDescending, SMTT(60) DEF EngineInv, Level0Newest
<1>4. l0' = q
  BY <1>1, <1>2, SMTT(60)
<1> HIDE DEF q
<1>5. /\ levels' \in [Levels -> Seq(Sst)]
      /\ \A l \in Levels : FilesOK(levels'[l]) /\ Ascends(levels'[l])
  <2>1. ASSUME NEW l \in Levels
        PROVE  /\ Ascending(OnDisk[l]) \in Seq(Sst)
               /\ FilesOK(Ascending(OnDisk[l])) /\ Ascends(Ascending(OnDisk[l]))
    <3>1. FilesOK(levels[l]) /\ Ascends(levels[l])
      BY DEF EngineInv
    <3> QED
      BY <1>2, <3>1, LoadAscending, SMTT(60)
  <2> QED
    BY <1>1, <2>1, SMTT(60)
<1>6. IsFiniteSet(ids) /\ ids \in SUBSET Nat
  BY DiskIds, SMTT(60)
<1>7. \A i \in DOMAIN q : q[i].ents # {} /\ q[i].id \in ids /\ q[i].id \in Nat
  <2> SUFFICES ASSUME NEW i \in DOMAIN q
               PROVE  q[i].ents # {} /\ q[i].id \in ids /\ q[i].id \in Nat
    BY SMTT(60)
  <2>1. q[i] \in Range(l0)
    BY <1>3, ZenonT(60) DEF Range
  <2>2. q[i].ents # {}
    BY <2>1, SMTT(60) DEF EngineInv, Range
  <2>3. q[i].id \in ids
    BY <1>2, <2>1, SMTT(60)
  <2> QED
    BY <1>6, <2>2, <2>3, SMTT(60)
<1> HIDE DEF ids
<1>8. next_sst_id' \in Nat /\ \A i \in DOMAIN q : q[i].id < next_sst_id'
  <2> DEFINE S == {0} \cup ids
             x == Max(S)
  <2>1. IsFiniteSet(S) /\ S \in SUBSET Nat /\ S # {}
    <3>1. IsFiniteSet({0})
      BY FS_Singleton, ZenonT(60)
    <3>2. IsFiniteSet({0} \cup ids)
      BY <1>6, <3>1, FS_Union, ZenonT(60)
    <3> QED
      BY <1>6, <3>2, SMTT(60)
  <2> HIDE DEF S
  <2>2. x \in S /\ \A y \in S : y <= x
    BY <2>1, MaxOf, SMTT(60)
  <2> HIDE DEF x
  <2>3. x \in Nat /\ next_sst_id' = x + 1
    BY <1>1, <2>1, <2>2, SMTT(60) DEF x, S
  <2>4. \A i \in DOMAIN q : q[i].id \in Nat /\ q[i].id <= x
    BY <1>7, <2>2, SMTT(60) DEF S
  <2> QED
    BY <2>3, <2>4, SMTT(60)
<1>9. cur_max_level' \in 0 .. MaxLevel
  <2> DEFINE S == {0} \cup used
  <2>1. IsFiniteSet(S) /\ S \in SUBSET Nat /\ S # {} /\ S \subseteq 0 .. MaxLevel
    <3>1. S \subseteq 0 .. MaxLevel
      BY EngineAssumption DEF Levels
    <3>2. IsFiniteSet(0 .. MaxLevel) /\ 0 .. MaxLevel \subseteq Nat
      BY EngineAssumption, FS_Interval, SMTT(60)
    <3> QED
      BY <3>1, <3>2, FS_Subset, ZenonT(60)
  <2> HIDE DEF S
  <2>2. Max(S) \in S
    BY <2>1, MaxOf, SMTT(60)
  <2> QED
    BY <1>1, <2>1, <2>2, SMTT(60) DEF S
<1>10. /\ MemInv(memtable')
       /\ past' \subseteq [Keys \X Queries -> 0 .. MaxWrites]
       /\ SuffixesIn(memtable', l0', past')
  <2>1. MemType(EmptyMem) /\ EmptyMem.current = {} /\ EmptyMem.frozen = <<>>
    BY SMTT(60) DEF MemType, EmptyMem, Tables
  <2>2. /\ MemInv(EmptyMem)
        /\ {Reading(Stack(EmptyMem, q))} \subseteq [Keys \X Queries -> 0 .. MaxWrites]
        /\ SuffixesIn(EmptyMem, q, {Reading(Stack(EmptyMem, q))})
    BY <1>3, <2>1, FreshMoment, ZenonT(60)
  <2> QED
    BY <1>1, <1>4, <2>2, SMTT(60)
<1>11. TypeOK'
  BY <1>1, <1>3, <1>4, <1>5, <1>8, <1>9, <1>10, ZenonT(60) DEF EngineInv, TypeOK, MemInv, MemType, Tables
<1>12. Level0Newest'
  BY <1>3, <1>4, <1>8, SMTT(60) DEF Level0Newest
<1> QED
  BY <1>3, <1>4, <1>5, <1>7, <1>10, <1>11, <1>12, SMTT(60) DEF EngineInv

-----------------------------------------------------------------------------
(* Every step of the engine keeps the invariant.                           *)
LEMMA NextInv == EngineInv /\ [Next]_vars => EngineInv'
<1> SUFFICES ASSUME EngineInv, [Next]_vars PROVE EngineInv'
  OBVIOUS
<1>1. ASSUME NEW k \in Singles
      PROVE  {k} \in SUBSET Keys /\ IsFiniteSet({k})
  BY EngineAssumption, FS_Singleton, ZenonT(60)
<1>2. ASSUME NEW ks \in Batches PROVE ks \in SUBSET Keys /\ IsFiniteSet(ks)
  BY EngineAssumption
<1>3. Tombstone \in 0 .. MaxWrites
  BY EngineAssumption DEF Tombstone
<1>4. writes \in Nat /\ (writes < MaxWrites => writes + 1 \in 0 .. MaxWrites)
  <2>1. writes \in 0 .. MaxWrites
    BY DEF EngineInv, TypeOK
  <2> QED
    BY <2>1, EngineAssumption, SMTT(60)
<1>5. ASSUME NEW k \in Singles, NEW t \in Tids, Put(k, t) PROVE EngineInv'
  BY <1>1, <1>4, <1>5, WriteInv, SMTT(60) DEF Put, Write
<1>6. ASSUME NEW k \in Singles, NEW t \in Tids, Remove(k, t) PROVE EngineInv'
  BY <1>1, <1>3, <1>6, WriteInv, SMTT(60) DEF Remove
<1>7. ASSUME NEW ks \in Batches, NEW t \in Tids, PutBatch(ks, t) PROVE EngineInv'
  BY <1>2, <1>4, <1>7, WriteInv, SMTT(60) DEF PutBatch, Write
<1>8. ASSUME NEW ks \in Batches, NEW t \in Tids, RemoveBatch(ks, t) PROVE EngineInv'
  BY <1>2, <1>3, <1>8, WriteInv, SMTT(60) DEF RemoveBatch
<1>9. ASSUME FlushStep PROVE EngineInv'
  <2>1. FlushOf(memtable) /\ Remember /\ writes' \in 0 .. MaxWrites /\ MemInv(memtable)
    BY <1>9, SMTT(60) DEF FlushStep, EngineInv, TypeOK
  <2>2. cur_max_level = 0
          => SuffixesIn(memtable, l0, past \cup {Reading(Stack(memtable, l0))})
    BY SuffixMonotone DEF EngineInv
  <2> QED
    BY <2>1, <2>2, FlushInv, SMTT(60)
<1>10. CASE Clear
  BY <1>10, ClearInv
<1>11. ASSUME Load(OnDisk) PROVE EngineInv'
  BY <1>11, LoadInv, SMTT(60)
<1>12. CASE Close
  BY <1>12, ZenonT(60) DEF Close, EngineInv, TypeOK, Level0Newest
<1>13. CASE UNCHANGED vars
  BY <1>13, ZenonT(60) DEF vars, EngineInv, TypeOK, Level0Newest
<1> QED
  BY <1>5, <1>6, <1>7, <1>8, <1>9, <1>10, <1>11, <1>12, <1>13, SMTT(60)
  DEF Next, Flush, FlushAll, Restart, Reopen

(* The invariant holds in every reachable state of the engine.             *)
THEOREM EngineInvariant == Spec => []EngineInv
BY InitInv, NextInv, PTL DEF Spec

(* The types of the engine's state are kept by every operation, whatever   *)
(* the keys, the ids, the limits and the depth of the levels.              *)
THEOREM EngineTypes == Spec => []TypeOK
<1>1. EngineInv => TypeOK
  BY SMTT(60) DEF EngineInv
<1> QED
  BY <1>1, EngineInvariant, PTL

(* flush never hands SSTBuilder::build an empty table.                     *)
THEOREM NeverEmptyTable == Spec => []NoEmptyTable
<1>1. EngineInv => NoEmptyTable
  BY SMTT(60) DEF EngineInv, MemInv, NoEmptyTable
<1> QED
  BY <1>1, EngineInvariant, PTL

(* Level 0 is always listed newest first, under ids that the next one is   *)
(* above: after every flush, compaction, clear and restart.                *)
THEOREM Level0AlwaysNewest == Spec => []Level0Newest
<1>1. EngineInv => Level0Newest
  BY SMTT(60) DEF EngineInv
<1> QED
  BY <1>1, EngineInvariant, PTL

(* Until the first compaction, the files of level 0 hold exactly what      *)
(* clients could read at one earlier moment, so a restart loses a suffix   *)
(* of the writes: for any number of keys and writes, any limits, and ids   *)
(* in any order.                                                           *)
THEOREM DiskIsAPrefix == Spec => []DurablePrefix
<1>1. ASSUME EngineInv, cur_max_level = 0 PROVE Reading(Contents(l0)) \in past
  <2> DEFINE s == Stack(memtable, l0)
             n == Len(memtable.frozen)
             k == Len(l0)
             c == Contents(l0)
             d == Drop(s, n + 1)
  <2>0. SuffixesIn(memtable, l0, past)
    BY <1>1, SMTT(60) DEF EngineInv
  <2>1. MemType(memtable) /\ ZeroType(l0)
    BY <1>1, SMTT(60) DEF EngineInv, MemInv, FilesOK
  <2>2. /\ n \in Nat /\ k \in Nat /\ s \in Seq(Tables) /\ Len(s) = 1 + n + k
        /\ \A i \in 1 .. k : s[1 + n + i] = l0[i].ents
    BY <2>1, StackShape, SMTT(60)
  <2>3. DOMAIN l0 = 1 .. k
    BY <2>1 DEF ZeroType
  <2>4. c = [i \in 1 .. k |-> l0[i].ents]
    BY <2>3, SMTT(60) DEF Contents
  <2>5. Reading(d) \in past
    BY <2>0, <2>2, SMTT(60) DEF SuffixesIn
  <2>6. d = [i \in 1 .. Len(s) - (n + 1) |-> s[i + (n + 1)]]
    BY DEF Drop
  <2> HIDE DEF s, n, k, c, d
  <2>7. Len(s) - (n + 1) = k /\ \A i \in 1 .. k : i + (n + 1) = 1 + n + i
    BY <2>2
  <2>8. d = c
    BY <2>2, <2>4, <2>6, <2>7, SMTT(60)
  <2> QED
    BY <2>5, <2>8, SMTT(60) DEF c
<1>2. EngineInv => DurablePrefix
  BY <1>1 DEF DurablePrefix
<1> QED
  BY <1>2, EngineInvariant, PTL
=============================================================================
