------------------------------ MODULE LSMEngine -----------------------------
(***************************************************************************)
(* Class LSMEngine (src/src/lsm/engine.cpp): one memtable, the tables of   *)
(* level 0 (newest first, overlapping), the sorted tables of the levels    *)
(* below, flushing, full compaction, and the loading of a data directory.  *)
(*                                                                         *)
(* The caller chooses the transaction id of every operation.  Ids reach    *)
(* the engine in any order (two LSM::put calls draw their ids before they  *)
(* take the memtable's lock; a transaction writes at commit under the id   *)
(* it drew at its start) and may repeat, so no order is assumed here.      *)
(* The n-th write writes the value n, so a value identifies its write.     *)
(*                                                                         *)
(* Each operation is one step.  Entries have one size, of which a block    *)
(* holds BlockCap; all limits count entries.                               *)
(***************************************************************************)
EXTENDS MemTable, FiniteSetsExt

CONSTANTS
  Singles,     \* the keys that put and remove are called with
  Batches,     \* the key sets that put_batch and remove_batch are called with
  Tids,        \* the transaction ids of writes
  MaxWrites,   \* bound: number of writes in a behaviour
  TolLimit,    \* LSM_TOL_MEM_SIZE_LIMIT: a write flushes from this size on
  Ratio,       \* LSM_SST_LEVEL_RATIO: tables of a level before it compacts
  BlockCap,    \* LSM_BLOCK_SIZE, in entries
  MaxLevel     \* bound: deepest level a compaction may fill

ASSUME EngineAssumption ==
  /\ Singles \subseteq Keys
  /\ \A b \in Batches : b \subseteq Keys /\ b # {} /\ IsFiniteSet(b)
  /\ Tids \subseteq Nat
  /\ MaxWrites \in Nat
  /\ Ratio \in Nat \ {0}
  /\ BlockCap \in Nat \ {0}
  /\ MaxLevel \in Nat \ {0}
  /\ \A l \in 1 .. MaxLevel : Ratio ^ l \in Nat \ {0}

VARIABLES
  memtable,       \* the MemTable record
  l0,             \* level_sst_ids[0] with the tables it names, newest first
  levels,         \* level_sst_ids[1], [2], ... with their tables
  next_sst_id,
  cur_max_level,
  phase,          \* "open", "closing" (~LSM runs flush_all), or "dead"
  writes,         \* number of writes made; also the last value written
  past            \* history: what clients could read since the last reload

vars == <<memtable, l0, levels, next_sst_id, cur_max_level, phase, writes, past>>

Entry == [key : Keys, tid : Tids \cup {0}, val : 0 .. MaxWrites]

Sst == [id : Nat, ents : SUBSET Entry]
Levels == 1 .. MaxLevel

-----------------------------------------------------------------------------
(* Reading.                                                                *)

FirstKey(s) == Min({e.key : e \in s.ents})
LastKey(s) == Max({e.key : e \in s.ents})

(* get on a sorted level: a binary search for a table whose key range      *)
(* holds k.  The search ends at the first such table, whether or not it    *)
(* holds a version of k.  The result is a position, or 0.                  *)
Search(tables, k) ==
  LET Between[lo \in 1 .. Len(tables) + 1, hi \in 1 .. Len(tables) + 1] ==
        IF lo >= hi
        THEN 0
        ELSE LET mid == lo + (hi - lo) \div 2
             IN  IF FirstKey(tables[mid]) <= k /\ k <= LastKey(tables[mid])
                 THEN mid
                 ELSE IF LastKey(tables[mid]) < k
                      THEN Between[mid + 1, hi]
                      ELSE Between[lo, mid]
  IN  Between[1, Len(tables) + 1]

LevelVersions(tables, k, q) ==
  LET i == Search(tables, k)
  IN  IF i = 0 THEN {} ELSE Visible(tables[i].ents, k, q)

(* get below level 0: the first level with a visible version answers.      *)
LookupLevels(lv, max, k, q) ==
  LET hit == {l \in 1 .. max : LevelVersions(lv[l], k, q) # {}}
  IN  IF hit = {} THEN Tombstone ELSE Newest(LevelVersions(lv[Min(hit)], k, q)).val

(* The first table of a sequence with a visible version answers; where     *)
(* there is none, the answer is that of the levels below.                  *)
Lookup(tables, k, q, below) ==
  IF Hits(tables, k, q) = {}
  THEN below
  ELSE Newest(Visible(tables[First(Hits(tables, k, q))], k, q)).val

Contents(ssts) == [i \in DOMAIN ssts |-> ssts[i].ents]

(* What a sequence of tables answers to every query.                       *)
Queries == {0} \cup Tids
Reading(tables) == [x \in Keys \X Queries |-> Lookup(tables, x[1], x[2], Tombstone)]

(* Everything in memory and on level 0, in the order in which get probes   *)
(* it.                                                                     *)
Stack(m, zero) == MemTables(m) \o Contents(zero)

(* get, for every query, of an engine with memtable m, level 0 zero and    *)
(* the levels lv down to max.  A deleted key and one that was never        *)
(* written are the same answer.                                            *)
Get(m, zero, lv, max) ==
  LET tables == Stack(m, zero)
  IN  [x \in Keys \X Queries |->
         Lookup(tables, x[1], x[2], LookupLevels(lv, max, x[1], x[2]))]

Answers == Get(memtable, l0, levels, cur_max_level)
AnswersNext == Get(memtable', l0', levels', cur_max_level')

-----------------------------------------------------------------------------
(* Compaction.                                                             *)

(* gen_sst_from_iter closes a table when its finished blocks reach the     *)
(* target get_sst_size(level); the add that finishes a block opens the     *)
(* next one, so a closed table holds one entry more than its full blocks.  *)
TargetSize(level) == PerLimit * Ratio ^ level
TableCap(level) == ((TargetSize(level) + BlockCap - 1) \div BlockCap) * BlockCap + 1

(* After the last entry a table is built only if a block was finished:     *)
(* what is left in a single unfinished block is dropped.                   *)
NumTables(n, level) ==
  n \div TableCap(level) + (IF n % TableCap(level) > BlockCap THEN 1 ELSE 0)

Rank(e, ents) == Cardinality({f \in ents : f.key <= e.key})

TableOf(e, ents, level) == (Rank(e, ents) - 1) \div TableCap(level) + 1

(* merge_sst_iterator: per key the newest version of the newest table.     *)
(* HeapIterator skips deleted keys whenever it advances, but nothing has   *)
(* advanced it to its first key, which is emitted even if deleted.         *)
NewestL0(k) == Newest(Visible(Contents(l0)[First(Hits(Contents(l0), k, 0))], k, 0))

MergedL0 ==
  LET ks  == {k \in Keys : Hits(Contents(l0), k, 0) # {}}
      top == {NewestL0(k) : k \in ks}
  IN  {e \in top : e.val # Tombstone \/ e.key = Min(ks)}

(* ConcactIterator: the newest version of each key of a sorted level.      *)
Concatenated(tables) == UNION {{Newest(Visible(tables[i].ents, e.key, 0)) : e \in tables[i].ents}
                                 : i \in DOMAIN tables}

(* Mutant: where the inputs share a key the second wins.                   *)
TwoMergeOlder(a, b) ==
  LET kb == {e.key : e \in b}
  IN  {[e EXCEPT !.tid = 0] : e \in b \cup {f \in a : f.key \notin kb}}

(* TwoMergeIterator: both inputs, the first winning where they share a     *)
(* key; gen_sst_from_iter writes every entry under transaction id 0.       *)
TwoMerge(a, b) ==
  LET ka == {e.key : e \in a}
  IN  {[e EXCEPT !.tid = 0] : e \in a \cup {f \in b : f.key \notin ka}}

(* full_compact(0) first compacts level 1 if that is full, which first     *)
(* compacts level 2 if that is full, ...: levels 0 .. Deepest are moved    *)
(* one level down, the deepest first.                                      *)
Deepest ==
  Max({0} \cup {d \in Levels : \A l \in 1 .. d : Len(levels[l]) >= Ratio})

Compacts == Len(l0) >= Ratio

(* What full_compact(l) writes to level l + 1, when the levels down to     *)
(* deepest are compacted.  A level that has been compacted is empty, so    *)
(* only the deepest source meets old tables.                               *)
MergedInto(l, deepest) ==
  TwoMerge(IF l = 0 THEN MergedL0 ELSE Concatenated(levels[l]),
           IF l = deepest THEN Concatenated(levels[l + 1]) ELSE {})

(* The entries that become the files of a level, and those of the tail.    *)
Cut(ents, level) ==
  LET n == NumTables(Cardinality(ents), level)
  IN  [made |-> [i \in 1 .. n |-> {e \in ents : TableOf(e, ents, level) = i}],
       tail |-> {e \in ents : TableOf(e, ents, level) > n}]

(* The whole cascade: the cut of level l is written to level l + 1.        *)
Cuts(deepest) == [l \in 0 .. deepest |-> Cut(MergedInto(l, deepest), l + 1)]

NumMade(cuts, ls) == Cardinality(UNION {{l} \X DOMAIN cuts[l].made : l \in ls})

(* Mutant: each compaction of a cascade numbers its files from the start.  *)
MadeFromStart(cuts, l, deepest) ==
  [i \in DOMAIN cuts[l].made |-> [id |-> next_sst_id + i - 1, ents |-> cuts[l].made[i]]]

(* Ids are handed out in the order of writing: all of those of a deeper    *)
(* compaction first.                                                       *)
MadeTables(cuts, l, deepest) ==
  LET base == next_sst_id + NumMade(cuts, l + 1 .. deepest)
  IN  [i \in DOMAIN cuts[l].made |-> [id |-> base + i - 1, ents |-> cuts[l].made[i]]]

CompactedLevels(cuts, deepest) ==
  [l \in Levels |-> IF l <= deepest + 1 THEN MadeTables(cuts, l - 1, deepest) ELSE levels[l]]

-----------------------------------------------------------------------------
(* The operations.                                                         *)

Remember ==
  past' = IF cur_max_level' = 0 THEN past \cup {Reading(Stack(memtable', l0'))} ELSE {}

(* full_compact(0), and the id that flush then takes for its own table.    *)
FullCompact(deepest) ==
  LET cuts == Cuts(deepest)
      made == NumMade(cuts, 0 .. deepest)
  IN  /\ deepest < MaxLevel
      /\ levels' = CompactedLevels(cuts, deepest)
      /\ cur_max_level' = Max({cur_max_level, deepest + 1})
      /\ next_sst_id' = next_sst_id + made + 1

(* Mutant: flush does not advance the id.                                  *)
NoCompactSameId == UNCHANGED <<next_sst_id, levels, cur_max_level>>

NoCompact ==
  /\ next_sst_id' = next_sst_id + 1
  /\ UNCHANGED <<levels, cur_max_level>>

(* flush, for a memtable m that is not of size 0: compact if level 0 is    *)
(* full, then write the oldest table of m to level 0.  If the size is not  *)
(* 0 but there is no table, flush dereferences a null pointer: the process *)
(* ends.                                                                   *)
FlushOf(m) ==
  LET rest == IF Compacts THEN <<>> ELSE l0
  IN  /\ IF Compacts THEN FullCompact(Deepest) ELSE NoCompact
      /\ IF HasTable(m)
         THEN /\ l0' = <<[id |-> next_sst_id' - 1, ents |-> Flushed(m)]>> \o rest
              /\ memtable' = FlushLast(m)
              /\ UNCHANGED phase
         ELSE /\ l0' = rest
              /\ memtable' = EmptyMem
              /\ phase' = "dead"

(* put, put_batch, remove, remove_batch: write to the memtable, then flush *)
(* if it is too large.                                                     *)
Write(ks, t, v) ==
  LET m == MemWrite(memtable, ks, t, v)
  IN  /\ phase = "open"
      /\ writes < MaxWrites
      /\ writes' = writes + 1
      /\ IF TotalSize(m) >= TolLimit
         THEN FlushOf(m)
         ELSE /\ memtable' = m
              /\ UNCHANGED <<l0, levels, next_sst_id, cur_max_level, phase>>
      /\ Remember

Put(k, t) == Write({k}, t, writes + 1)
PutBatch(ks, t) == Write(ks, t, writes + 1)
Remove(k, t) == Write({k}, t, Tombstone)
RemoveBatch(ks, t) == Write(ks, t, Tombstone)

FlushStep ==
  /\ TotalSize(memtable) # 0
  /\ FlushOf(memtable)
  /\ Remember
  /\ UNCHANGED writes

Flush == phase = "open" /\ FlushStep

(* clear: every table in memory and every file goes; the next id, the      *)
(* deepest level and the counter of frozen bytes stay.                     *)
Clear ==
  /\ phase = "open"
  /\ memtable' = MemClear(memtable)
  /\ l0' = <<>>
  /\ levels' = [l \in Levels |-> <<>>]
  /\ past' = {Reading(<<>>)}
  /\ UNCHANGED <<next_sst_id, cur_max_level, phase, writes>>

(* The constructor on a data directory whose files are disk[level]: the    *)
(* ids of a level are sorted, those of level 0 then reversed.              *)
Ascends(ssts) == \A i, j \in DOMAIN ssts : i < j => ssts[i].id < ssts[j].id
Descends(ssts) == \A i, j \in DOMAIN ssts : i < j => ssts[i].id > ssts[j].id

(* Mutants: the ids of every level are reversed, and those of none.        *)
AscendingReversed(ssts) == CHOOSE q \in [1 .. Cardinality(ssts) -> ssts] : Descends(q)
DescendingUnreversed(ssts) == CHOOSE q \in [1 .. Cardinality(ssts) -> ssts] : Ascends(q)

Ascending(ssts) == CHOOSE q \in [1 .. Cardinality(ssts) -> ssts] : Ascends(q)
Descending(ssts) == CHOOSE q \in [1 .. Cardinality(ssts) -> ssts] : Descends(q)

Load(disk) ==
  LET ids == {s.id : s \in UNION {disk[l] : l \in {0} \cup Levels}}
  IN  /\ memtable' = EmptyMem
      /\ l0' = Descending(disk[0])
      /\ levels' = [l \in Levels |-> Ascending(disk[l])]
      /\ next_sst_id' = Max({0} \cup ids) + 1
      /\ cur_max_level' = Max({0} \cup {l \in Levels : disk[l] # {}})
      /\ phase' = "open"
      /\ past' = {Reading(Stack(memtable', l0'))}
      /\ UNCHANGED writes

OnDisk == [l \in {0} \cup Levels |-> Range(IF l = 0 THEN l0 ELSE levels[l])]

(* The process stops between two operations, or has died, and is started   *)
(* again: what is in memory is lost.                                       *)
Restart == Load(OnDisk)

(* ~LSM: flush_all flushes as long as the size is not 0; then the program  *)
(* is started again.                                                       *)
Close == phase = "open" /\ phase' = "closing"
         /\ UNCHANGED <<memtable, l0, levels, next_sst_id, cur_max_level, writes, past>>

FlushAll == phase = "closing" /\ FlushStep

Reopen == phase = "closing" /\ TotalSize(memtable) = 0 /\ Load(OnDisk)

Init ==
  /\ memtable = EmptyMem
  /\ l0 = <<>>
  /\ levels = [l \in Levels |-> <<>>]
  /\ next_sst_id = 0
  /\ cur_max_level = 0
  /\ phase = "open"
  /\ writes = 0
  /\ past = {Reading(<<>>)}

Next ==
  \/ \E k \in Singles, t \in Tids : Put(k, t)
  \/ \E k \in Singles, t \in Tids : Remove(k, t)
  \/ \E ks \in Batches, t \in Tids : PutBatch(ks, t)
  \/ \E ks \in Batches, t \in Tids : RemoveBatch(ks, t)
  \/ Flush
  \/ Clear
  \/ Restart
  \/ Close
  \/ FlushAll
  \/ Reopen

Spec == Init /\ [][Next]_vars

(* ~LSM runs its flush loop to the end: nothing else runs in a process     *)
(* that is closing the store.                                              *)
FairSpec == Spec /\ WF_vars(FlushAll) /\ WF_vars(Reopen)

-----------------------------------------------------------------------------
(* A crash inside a compaction.  full_compact(l), after every deeper one   *)
(* is complete, writes its new files in the order of their ids, then       *)
(* deletes the old ones of level l and those of level l + 1, each in the   *)
(* order of the list.  The process stops after c files are written and d   *)
(* are deleted.                                                            *)
Rest(tables, d) == {tables[i] : i \in {j \in DOMAIN tables : j > d}}

CrashInCompaction(l, c, d) ==
  LET source == IF l = 0 THEN l0 ELSE levels[l]
      target == IF l = Deepest THEN levels[l + 1] ELSE <<>>
      cuts   == Cuts(Deepest)
      made   == MadeTables(cuts, l, Deepest)
  IN  /\ phase = "open" /\ TotalSize(memtable) # 0 /\ HasTable(memtable)
      /\ Compacts /\ Deepest < MaxLevel /\ l <= Deepest
      /\ c <= Len(made) /\ d <= Len(source) + Len(target)
      /\ d > 0 => c = Len(made)
      /\ Load([m \in {0} \cup Levels |->
                 IF m > l + 1 THEN Range(CompactedLevels(cuts, Deepest)[m])
                 ELSE IF m = l + 1
                 THEN Rest(target, d - Len(source)) \cup {made[i] : i \in 1 .. c}
                 ELSE IF m = l THEN Rest(source, d)
                 ELSE OnDisk[m]])

NextWithCrash ==
  \/ Next
  \/ \E l \in 0 .. MaxLevel - 1, c \in 0 .. Cardinality(Keys), d \in 0 .. 2 * Cardinality(Keys) :
       CrashInCompaction(l, c, d)

SpecWithCrash == Init /\ [][NextWithCrash]_vars

-----------------------------------------------------------------------------
(* Properties.                                                             *)

(* The types of the variables.                                             *)
TypeOK ==
  /\ memtable \in [current : SUBSET Entry, frozen : Seq(SUBSET Entry), frozen_bytes : Int]
  /\ l0 \in Seq(Sst)
  /\ levels \in [Levels -> Seq(Sst)]
  /\ next_sst_id \in Nat
  /\ cur_max_level \in 0 .. MaxLevel
  /\ phase \in {"open", "closing", "dead"}
  /\ writes \in 0 .. MaxWrites
  /\ past \subseteq [Keys \X Queries -> 0 .. MaxWrites]

(* No frozen table and no file of level 0 is empty: SSTBuilder::build      *)
(* throws on an empty table, after flush_last has removed it from memory.  *)
NoEmptyTable ==
  /\ \A i \in DOMAIN memtable.frozen : memtable.frozen[i] # {}
  /\ \A i \in DOMAIN l0 : l0[i].ents # {}

(* What a restart would find on disk is, for every key and every query id, *)
(* exactly what clients could read at one earlier moment: tables leave     *)
(* memory oldest first, so a crash (with no WAL to replay) loses a suffix  *)
(* of the writes and never a write from the middle (flush, flush_last).    *)
(* Until the first compaction.                                             *)
DurablePrefix == cur_max_level = 0 => Reading(Contents(l0)) \in past

(* Freezing and flushing move tables and never change an answer; a write   *)
(* under id t changes the answer only for its own keys and only for        *)
(* queries that may see t, however ids are ordered (put, put_batch,        *)
(* remove, remove_batch, flush).  Until the first compaction.              *)
ReadsChangeOnlyByWrites ==
  [][cur_max_level' = 0 =>
       LET old == Answers
           new == AnswersNext
           changed == {x \in Keys \X Queries : new[x] # old[x]}
       IN  \/ changed = {}
           \/ \E t \in Tids, ks \in Batches \cup {{k} : k \in Singles} :
                /\ \A x \in changed : x[1] \in ks /\ (x[2] = 0 \/ t <= x[2])
                /\ Write(ks, t, writes + 1) \/ Write(ks, t, Tombstone)
           \/ Clear \/ Restart]_vars

(* On every level but level 0 no two key ranges overlap, and a smaller id  *)
(* means smaller keys, as the constructor's comment says: the binary       *)
(* search of get, get_batch and sst_get_ rests on it.                      *)
LevelsSorted ==
  \A l \in Levels :
    /\ Ascends(levels[l])
    /\ \A i, j \in DOMAIN levels[l] :
         i < j => LastKey(levels[l][i]) < FirstKey(levels[l][j])

(* Level 0 is listed newest file first, which is what get relies on and    *)
(* what the constructor rebuilds from the ids alone, and the next id is    *)
(* above every id in use there.                                            *)
Level0Newest ==
  /\ Descends(l0)
  /\ \A i \in DOMAIN l0 : l0[i].id < next_sst_id

(* No id names two files, and none is handed out again while it is in use: *)
(* ids name files and the blocks in the cache.                             *)
IdsUnique ==
  \A l, m \in {0} \cup Levels : \A a \in OnDisk[l], b \in OnDisk[m] :
    /\ a.id < next_sst_id
    /\ a.id = b.id => l = m /\ a = b

(* A full compaction (full_compact, down to any depth, inside a flush or a *)
(* write that flushes: Ratio files are on level 0 and an id is taken)      *)
(* leaves below level 0 the value of every key that had one on disk,       *)
(* except those of a tail that fills no block, which gen_sst_from_iter     *)
(* does not write.                                                         *)
CompactionKeepsLiveKeys ==
  [][(Compacts /\ next_sst_id' > next_sst_id) =>
       LET dropped == UNION {Cuts(Deepest)[l].tail : l \in 0 .. Deepest}
       IN  \A k \in Keys :
             LET old == Lookup(Contents(l0), k, 0, LookupLevels(levels, cur_max_level, k, 0))
             IN  \/ old = Tombstone
                 \/ LookupLevels(levels', cur_max_level', k, 0) = old
                 \/ \E e \in dropped : e.key = k]_vars

(* A flush moves the oldest table to disk, compacting if need be, and no   *)
(* answer changes: what was put is found, what was deleted is not          *)
(* (test_compact.cpp, Persistence).                                        *)
FlushKeepsAnswers ==
  [][(Flush \/ FlushAll) => \A k \in Keys : AnswersNext[k, 0] = Answers[k, 0]]_vars

(* Closing and opening again changes no answer: the flush loop of ~LSM     *)
(* stops only when nothing is left in memory, and the constructor puts the *)
(* files back in the order in which they were listed.                      *)
ReopenKeepsReads ==
  [][Reopen => AnswersNext = Answers]_vars

(* The number of entries that are in frozen tables.                        *)
FrozenSize == MapThenSumSet(LAMBDA i : Cardinality(memtable.frozen[i]), DOMAIN memtable.frozen)

(* The flush loop of ~LSM ends, if the counter of frozen bytes was right   *)
(* when it began: every pass writes a table and takes its size off.        *)
CloseCompletes ==
  (phase = "closing" /\ memtable.frozen_bytes = FrozenSize) ~> (phase = "open")
=============================================================================
