# A TLA+ verification of the toni_lsm storage engine

This directory specifies the storage core of mini_redis (the library
`toni_lsm`): the memtable, the LSM engine with flushing and compaction, the block
cache, transactions with their write-ahead log and recovery, and the redis wrapper
on top. The specifications are checked with TLC on small instances, and the
main safety invariants are proved with TLAPS for all instances.

Line numbers refer to the sources under `src/`; `PROJECT.json` maps every
definition to the lines it models.

## 1. The system

| Part | Source | What it does | Here |
|---|---|---|---|
| skip list, memtable | `skiplist/`, `memtable/` | versions of keys, newest id first; one active table and a list of frozen ones; byte counters; `flush_last` | `MemTable` |
| engine | `lsm/engine.cpp` (LSMEngine) | reads through memory, level 0, sorted levels; writes; flush; full compaction; loading a directory | `LSMEngine` |
| SST, blocks | `sst/`, `block/` | a file is a sequence of sorted blocks with first and last keys | sets of entries in `LSMEngine`; encodings not modelled |
| iterators | `iterator/`, `sst/*iterator*`, `lsm/two_merge_iterator.cpp` | heap, concatenation and two-way merge | as compaction uses them, in `LSMEngine` |
| block cache | `block/block_cache.cpp` | LRU-K cache used by `SST::read_block` | `BlockCache` |
| facade | `lsm/engine.cpp` (LSM) | draws transaction ids, replays the WAL, `flush_all`, destructor | `Transactions`; its flush loops also in `LSMEngine` |
| transactions | `lsm/transation.cpp` | four isolation levels, conflict check, id file | `Transactions` |
| WAL | `wal/` | log, rotation, cleaner thread, recovery | `WAL` |
| range scans | `lsm/level_iterator.cpp`, predicate functions | iteration and monotone predicates | planned |
| redis wrapper | `redis_wrapper/` | redis types over key-value pairs, expiry | `Redis` |
| bloom filter, files, config, logger | `utils/`, `config/`, `logger/` | hashing, system calls, limits, log lines | not modelled |
| server, Python binding, example | `server/`, `sdk/`, `example/` | one event loop calling the wrapper; forwarding | not modelled |

A client calls the facade (or the redis wrapper over it). The facade draws an id
and calls the engine. The engine writes to the memtable and flushes when memory
is too large; the flush may first compact level 0 into level 1 and, in a cascade,
level 1 into level 2 and so on. Reads use files through the block cache.

## 2. The modules

`MemTable` has no variables: it defines the memtable record (`current`, `frozen`
newest first, `frozen_bytes`) and its operations as operators, which `LSMEngine`
extends. An entry is `[key, tid, val]`; the empty string, which is how a removal
is stored, is `Tombstone`. Every entry has size one.

`LSMEngine` has one variable per member of the class (`level_sst_ids` and `ssts`
are joined: `l0` and `levels[l]` are lists of files with their contents), plus
`phase`, the counter `writes`, and the history variable `past`.

| Action | Code |
|---|---|
| `Put`, `PutBatch`, `Remove`, `RemoveBatch` | the four write operations, each with the flush it may trigger |
| `Flush`, `FlushAll` | `LSM::flush`; one pass of `LSM::flush_all` from `~LSM` |
| `Clear` | `LSMEngine::clear` |
| `Close`, `Reopen` | `~LSM` starts its flush loop; the loop is done and the directory is opened again |
| `Restart` | the process stops between two operations and the constructor loads what is on disk |
| `CrashInCompaction` | the same, inside `full_compact`, after `c` files written and `d` deleted |

Flushing is one step that contains the cascade of compactions. `Deepest` is the
level the recursion of `full_compact` reaches; `MergedInto` is what each merge
emits and `Cut` how `gen_sst_from_iter` cuts it into files. Three details of the
code are kept because reads depend on them: a compaction writes all entries under
id 0; the heap iterator drops deleted keys except its very first one; entries
left in one unfinished block at the end are not written. `get` is the operator
`Get`, for all keys and query ids at once, with the binary search as in the code.

Where `flush` finds a size above 0 and no table (possible after `clear`, which
keeps `frozen_bytes`) the code dereferences a null pointer; the model goes to
phase `dead`, from which only `Restart` leads.

Transaction ids are inputs. The facade draws them before the memtable is locked
and transactions write under an id drawn long before, so the engine sees ids in
any order, and that is what the model assumes.

`BlockCache` models `BlockCache::get` and `put` under the mutex as one step each,
called by reader threads that run `SST::read_block`, which holds no lock between
the two. `recency` is a history variable: the cached blocks by last use.

`WAL` and `Transactions` model the facade `LSM`. `WAL` defines the log as the
sequence of its files and what `log`, `recover` and `cleanWALFile` do with it;
`Transactions` has the variables and composes it with `MemTable` and the files of
level 0.

| Action | Code |
|---|---|
| `Get`, `Write`, `FlushOne`, `FlushAllPass`, `Clear` | `LSM::get` (draws an id), the four writes, `flush`, one pass of `flush_all`, `clear` |
| `Begin`, `TranWrite`, `TranGet`, `Commit`, `CommitFails`, `Abort`, `Rollback`, `AbortEnds` | `begin_tran` and `TranContext`; the abort of READ_UNCOMMITTED writes key by key |
| `Clean` | one round of the WAL's cleaner thread |
| `Close`, `Closed` | `~LSM`: the flush loop, then the ids are saved |
| `Crash`, `CrashInCommit` | the process stops; inside a commit, after some records reached the log |
| `Start`, `Replay`, `RemoveOldLog`, `InitNewWal` | the constructor of `LSM`: read the ids, replay record by record, delete the old log, start a new one |

Details kept because answers depend on them: a version found in a file is reported
with the id of the query; replay goes by transaction id and asks for no COMMIT
record; only `flush_all` remembers the largest flushed id; the cleaner's scan does
not advance, so a closed log file is either kept or scanned for ever, and never
deleted; after `clear` the log goes on into files that are no longer linked, and the
cleaner, which then finds none, runs past the end of its list (modelled as death of
the process). The destructor of the WAL does nothing that matters here: commits force the
log out. REPEATABLE_READ and SERIALIZABLE are the same code. Operations are atomic,
clients do not use a transaction after it has ended, and `MaxFiles` keeps level 0
below compaction, which `LSMEngine` covers.

`Redis` models `RedisWrapper` on one name, of a type chosen at the start. `kv` holds
the pairs the name consists of: the name itself, one pair per field, member or
element, one per score, and the expiry time. A command that takes the exclusive lock
at once (`Set`, `Count` for incr and decr, `Expire`, `Del`) is one step. The others look
for the expiry under the shared lock (`Read`, `Check`), release it, and then clean up
(`Clean`, `CleanOrphan`) or write (`Hset`, `Hdel`, `Push`, `Pop`, `Sadd`, `Srem`, `Zadd`,
`Zrem`, `Zincrby`), each under the exclusive lock. `clear` takes no lock. It is `Clear` when it
comes between the locked sections and `ClearInCount` or `ClearInWrite` when it comes in the
middle of one: the command then goes on with what it has read, and what it still puts is
put into an empty store (the operators ending in `Cut`; a command that only removes needs
none). Answers are operators (`Hkeys`, `Scard`, `Lrange`, ...).
The store below is a plain map: its reads and prefix scans are assumed right, its
puts and removals are applied in order.

Operators whose comment starts with "Mutant" are deliberate errors. Nothing uses
them; each can replace the definition that follows, and then the property named in
`PROJECT.json` fails. They show that the properties can fail.

## 3. What TLC checks

| Run | Property | Meaning |
|---|---|---|
| engine | `TypeOK` | types |
| | `NoEmptyTable` | no frozen table or level-0 file is empty (an empty build throws) |
| | `DurablePrefix` | until the first compaction, disk alone reads as the whole store did at one earlier moment |
| | `ReadsChangeOnlyByWrites` | until the first compaction, freezing and flushing change no read; a write changes only its keys, only for queries that may see its id |
| | `CloseCompletes` | the destructor's flush loop ends if the byte counter was right (after `clear` it may be wrong) |
| | `ReopenKeepsReads` | closing and opening again, with tables in memory that the loop has to flush, changes no read |
| compaction | `LevelsSorted` | sorted levels: disjoint ranges, in id order |
| | `Level0Newest` | level 0 newest first, ids below the next |
| | `IdsUnique` | no id names two files or is handed out while in use |
| | `CompactionKeepsLiveKeys` | a compaction loses no live key but those of the unwritten tail |
| | `ReopenKeepsReads` | the same, with files on several levels |
| cache | `TypeOK`, `IndexMatchesLists`, `WithinCapacity` | map, lists, counts and capacity agree |
| | `VictimIsColdest` | the victim is the LRU-K one |
| transactions | `TypeOK` | types |
| | `UncommittedInvisible` | nothing in memory or files was written by a transaction above READ_UNCOMMITTED that has not committed, also after crash and replay |
| | `CommittedLogged` | the records of a committed transaction are together, complete and in order in one log file, across rotation and cleaning (not that replay redoes them: `recover` skips ids up to `max_flushed_tranc_id`) |
| | `IdsFresh` | without crash or clear no id is used again, so `LSM::get` sees every version |
| | `CleanerFree` | without crash or clear the cleaner never scans for ever |
| | `RepeatableReads` | a repeatable transaction keeps its answers, whatever others commit, flush or write under smaller ids |
| | `LaterWriteConflictsInMemory` | with one table only, commit finds every later version |
| redis | `TypeOK` | types; no empty list is stored |
| | `LrangeReturnsPart` | the index arithmetic of `lrange` against its definition; a stop before the first element stands for the last one |
| | `FieldsLostOnlyByClearWithin` | `hkeys` lists, once each, the fields `hget` finds, under every interleaving with a stale clean-up; only a `clear` in the middle of `hset` or `hdel` changes that |
| | `DriftOnlyByDelOrRepeat` | `scard` moves away from the number of members only by `del`, by a `sadd` or `srem` that names a member twice, or by a `clear` in the middle of one |
| | `PairsLostOnlyByMoveOrTie` | scores and elements match until a `zadd` puts an element under another score or under two, an element gets the score of another, or a `clear` comes in the middle |

Seven runs are expected to fail. Each shows that a statement in the repository
does not hold of the code:

* **persistence**: `FlushKeepsAnswers`. `test_compact.cpp` (lines 67 and 73)
  expects live keys found and deleted keys not found after flushes with
  compaction. A tombstone skipped in the merge of level 0 lets an older value of
  level 1 reappear, and a tail that fills no block is dropped.
* **compaction_crash**: `LevelsSorted` with crashes inside a compaction. The
  constructor's comment (`engine.cpp` 94-95) says the files of a sorted level never
  overlap; new and not yet deleted old files do.
* **conflict**: `LaterWriteConflicts`. `test_lsm.cpp` (296-299) expects a commit to fail
  after a later write of its key. Once that write is in a file it is not found:
  `max_flushed_tranc_id_` is not updated by `LSM::flush` or by the flush inside a write,
  and a version from a file is reported with the query's id.
* **torn_log**: `UncommittedInvisible` with crashes inside a commit. The records before
  the crash are replayed although there is no COMMIT record; `test_lsm.cpp` (280-281)
  says uncommitted data must not be found.
* **reopen**: `ReopenKeepsAnswers`. Without any crash, replay writes a transaction that
  is already in a file into memory, in front of a later removal in a newer file
  (`test_lsm.cpp`, Persistence).
* **crash_start**: `StoreReopens`. The id file is created empty; after a crash before it
  is first written the constructor throws (`test_lsm.cpp`, Recover, opens the store
  after a simulated crash).
* **zcard**: `ZcardCountsElements`. `redis_zadd` collects old scores in one list and
  removes another, empty one; `redis_zcard` (comment at 1052) relies on scores and
  elements being pairs.

Further facts the redis run makes visible, without a statement in the repository to
hold against them. A clean-up does not ask again whether the name is expired, so it
may remove what another client wrote between the two locks. `del` of a set leaves
its members. `SADD s a a` counts the new member twice, `SREM s a a` likewise, so `scard`
is wrong from then on. A `lrange` whose stop lies before the first element returns the
list to its end. A `clear` in the middle of `hset` leaves a hash that lists fields which
`hget` does not find.

`DurablePrefix` and `ReadsChangeOnlyByWrites` stop at the first compaction because
of the persistence finding: beyond it they are false.

### Bounds

* engine: two keys (single writes of one, batches of both), two ids, three writes, and
  tables frozen at two entries. This is enough for two frozen tables, ids out of order,
  repeated ids, a flush with older tables waiting, and a close with tables in memory;
  `clear` is included, which makes the byte counter wrong.
* compaction: five keys and seven writes with `Ratio` 2 and `BlockCap` 1, a flush at
  every write (so memory is empty between operations), and files of three entries on
  level 1. Compactions make several files
  per level and cascade to level 3. `MaxLevel` bounds the depth; a deeper
  compaction is not taken.
* cache: four blocks, three places, K = 3 and two readers. Eleven requests reach
  each branch of `update_access_count` and evictions from both lists. Blocks and
  readers are symmetric.

* transactions: one key, two ids, so two transactions or one and a direct write, one
  operation each, one restart, log files closed after two records, tables frozen at
  two entries. Transactions put and direct writes remove, so the two can be told apart.
  Two files are enough for a version in memory over one in a file. All findings about
  transactions appear within these bounds. No property but the types and
  `UncommittedInvisible` speaks of what an aborted READ_UNCOMMITTED transaction leaves.
* redis: two clients, two items, three scores, lists of three, three values and a
  clock of three ticks: enough for one client to be between its two locks while the
  other runs any commands. Clients are symmetric. The argument lists include a member
  named twice, a field set twice, an element under two scores and a score for two
  elements. `MaxSize`, 4, bounds the size that a set stores, which repeated arguments can
  raise and lower without limit; a command that would go further is not taken.

`MaxWrites` and `MaxRequests` only cut behaviours short. Deadlock checking is off
where it would report a bound: requests to the cache, ids and starts of transactions,
and a push, sadd, srem or zincrby at the bound of lists, sizes and scores.

### Fairness

`FairSpec` assumes weak fairness of `FlushAll` and `Reopen` only: `~LSM` is a plain
loop in one thread, so each pass happens. No fairness is assumed of client calls.

## 4. What is proved

| Module | Content |
|---|---|
| `LSMEngineLemmas` | facts about tables, reads of stacks of tables, sizes, and the memtable operators |
| `LSMEngineSuffixes` | writing, freezing and flushing keep "every suffix reads as an earlier moment" |
| `LSMEngineCompaction` | ids and types of the files a compaction or a reload makes |
| `LSMEngineProofs` | the inductive invariant and the theorems about the engine |
| `BlockCacheProofs` | lists as sequences, the cache's invariant and theorems |

**Engine.** `EngineInvariant` proves `EngineInv` inductive, from which follow
`EngineTypes` (`[]TypeOK`), `NeverEmptyTable`, `Level0AlwaysNewest` and
`DiskIsAPrefix` (`[]DurablePrefix`). `DurablePrefix` is not inductive: the next
flush moves one more table to disk, so one must know that disk *plus that table*
also reads as an earlier moment. The strengthening says this of every suffix of
the probe order (active table, frozen tables from new to old, level 0). A write
changes only the first table of the stack, so it changes only the longest suffix,
which is the present moment and enters `past`; freezing and flushing shift the
boundary between memory and disk along the same stack.

**Cache.** `CacheInvariant` proves `CacheInv`: types, `IndexMatchesLists`, finiteness
of the cached set, and `WithinCapacity`. From it follow `CacheIndexAgrees` and
`CacheBounded`. The agreement of count and list is what makes the unlinking in
`update_access_count` act on the list the node is in, and what makes the victim a
cached block, so that eviction really makes room.

Assumptions are those named in the modules: keys are numbers, limits are positive,
batches are finite and not empty, powers of `Ratio` are positive numbers, the cache
has room for one block, and K is at least 2 (with K = 1 the code splices between
lists, which is undefined behaviour).

**Only model-checked:** everything about transactions, the log and redis; `ReadsChangeOnlyByWrites`, `LevelsSorted`, `IdsUnique`,
`CompactionKeepsLiveKeys`, `ReopenKeepsReads`, `VictimIsColdest`, and the liveness
property `CloseCompletes` (liveness under fairness is out of the prover's reach).

## 5. What is not modelled, and the plan

Inside the modelled parts: operations of the engine are atomic (the locks are
not modelled), `get_batch` and the scans are absent, entries have one size, a crash
tears the log only between records, ids stay below 2^16 (a block returns 16 bits of
an id), and no system call fails.

The next modules, in order, are:

1. **Proofs about transactions**: `IdsFresh` and `CleanerFree` (all ids in the store and
   the log below the next one), `UncommittedInvisible`, `CommittedLogged`; and for the
   engine `IdsUnique` and `LevelsSorted`, for the cache `VictimIsColdest`.
2. **Refinement**: an abstract key-value store whose committed writes survive a close,
   with `Transactions` shown to implement it where the findings allow.
3. **Locking**: `get`, `put`, `flush`, `commit` and `get_total_size` as lock-by-lock
   steps; deadlock freedom and reads across a freeze.
4. **Algorithms**: block and record encodings with 16-bit fields, predicate scans and
   `get_batch` against reference definitions.

`PROJECT.json` lists the hazards these modules are to cover, at their lines.
