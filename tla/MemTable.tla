------------------------------ MODULE MemTable ------------------------------
(***************************************************************************)
(* The in-memory half of the store: class MemTable (src/src/memtable) over *)
(* class SkipList (src/src/skiplist).                                      *)
(*                                                                         *)
(* A table is the set of the entries a skip list holds.  An entry is a     *)
(* key, the transaction id that wrote it and a value; the empty value, to  *)
(* which every removal is converted, is Tombstone.  Keys are numbers, in   *)
(* the byte order of the strings they stand for.  Every entry counts one   *)
(* unit of size_bytes, so the size of a table is its cardinality.          *)
(***************************************************************************)
EXTENDS Integers, Sequences, FiniteSets

CONSTANTS
  Keys,       \* the keys clients use, numbers in the order of the strings
  PerLimit    \* LSM_PER_MEM_SIZE_LIMIT: a larger current table is frozen

ASSUME MemAssumption == Keys \subseteq Nat /\ PerLimit \in Nat \ {0}

Tombstone == 0

(* SkipList::get.  The versions of a key are kept newest id first; query   *)
(* id 0 reads the newest one, query id q the newest one written by an id   *)
(* that is not above q.                                                    *)
Visible(table, k, q) == {e \in table : e.key = k /\ (q = 0 \/ e.tid <= q)}

Newest(versions) == CHOOSE e \in versions : \A f \in versions : f.tid <= e.tid

(* Mutant: a put replaces every version of its key.                        *)
PutOver(table, ks, t, v) ==
  {e \in table : e.key \notin ks} \cup {[key |-> k, tid |-> t, val |-> v] : k \in ks}

(* SkipList::put for every key of a batch: a new (key, id) is inserted, an *)
(* existing one has its value replaced in place.                           *)
PutAll(table, ks, t, v) ==
  {e \in table : ~(e.key \in ks /\ e.tid = t)}
     \cup {[key |-> k, tid |-> t, val |-> v] : k \in ks}

(* The memtable: the active table, the frozen ones (newest first) and the  *)
(* counter of the bytes that are frozen.  Frozen tables and files of level *)
(* 0 are not empty.                                                        *)
TablesOver(E) == (SUBSET E) \ {{}}
MemsOver(E) == [current : SUBSET E, frozen : Seq(TablesOver(E)), frozen_bytes : Int]

EmptyMem == [current |-> {}, frozen |-> <<>>, frozen_bytes |-> 0]

(* Mutant: the table is put behind the older ones (emplace_back).          *)
FreezeAtBack(m) ==
  [current      |-> {},
   frozen       |-> m.frozen \o <<m.current>>,
   frozen_bytes |-> m.frozen_bytes + Cardinality(m.current)]

(* frozen_cur_table_                                                       *)
FrozenCurTable(m) ==
  [current      |-> {},
   frozen       |-> <<m.current>> \o m.frozen,
   frozen_bytes |-> m.frozen_bytes + Cardinality(m.current)]

(* put, put_batch, remove and remove_batch: write, then freeze the active  *)
(* table if it has outgrown its limit.                                     *)
MemWrite(m, ks, t, v) ==
  LET w == [m EXCEPT !.current = PutAll(m.current, ks, t, v)]
  IN  IF Cardinality(w.current) > PerLimit THEN FrozenCurTable(w) ELSE w

(* Mutant: get_total_size leaves the active table out.                     *)
SizeOfFrozen(m) == m.frozen_bytes

(* get_total_size                                                          *)
TotalSize(m) == m.frozen_bytes + Cardinality(m.current)

(* clear drops every table.  It leaves the counter of frozen bytes alone.  *)
MemClear(m) == [m EXCEPT !.current = {}, !.frozen = <<>>]

(* Mutant: flush_last does not ask whether the active table is empty.      *)
AlwaysTable(m) == TRUE

(* flush_last has something to write unless both halves are empty, when it *)
(* returns a null pointer.                                                 *)
HasTable(m) == m.frozen # <<>> \/ m.current # {}

(* flush_last removes the oldest frozen table, freezing the active one     *)
(* first if none is frozen, and returns it: Flushed(m) is the table,       *)
(* FlushLast(m) what stays in memory.                                      *)
Sealed(m) == IF m.frozen = <<>> THEN FrozenCurTable(m) ELSE m

Flushed(m) == LET s == Sealed(m) IN s.frozen[Len(s.frozen)]

(* Mutant: flush_last leaves the counter of frozen bytes alone.            *)
FlushUncounted(m) ==
  LET s == Sealed(m)
  IN  [s EXCEPT !.frozen = SubSeq(s.frozen, 1, Len(s.frozen) - 1)]

FlushLast(m) ==
  LET s == Sealed(m)
  IN  [s EXCEPT !.frozen       = SubSeq(s.frozen, 1, Len(s.frozen) - 1),
                !.frozen_bytes = s.frozen_bytes - Cardinality(Flushed(m))]

(* The tables of the memtable in the order in which get probes them.       *)
MemTables(m) == <<m.current>> \o m.frozen

(* The tables of a sequence that have a visible version of k, and the      *)
(* first of them, which answers.                                           *)
Hits(tables, k, q) == {i \in DOMAIN tables : Visible(tables[i], k, q) # {}}

First(hits) == CHOOSE i \in hits : \A j \in hits : i <= j
=============================================================================
