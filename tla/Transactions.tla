---------------------------- MODULE Transactions ----------------------------
(***************************************************************************)
(* The facade LSM (src/src/lsm/engine.cpp) with TranManager and            *)
(* TranContext (src/src/lsm/transation.cpp): transaction ids and the file  *)
(* tranc_id, transactions at the isolation levels, the log of their        *)
(* commits, and start, recovery, close and crash of the process.           *)
(*                                                                         *)
(* The engine below is the memtable and the files of level 0 (newest       *)
(* first); MaxFiles keeps level 0 below the size at which it is compacted, *)
(* which is the business of LSMEngine.  A crash stops the process; files   *)
(* keep what was written.  Clients do not use a transaction after its      *)
(* commit or abort.                                                        *)
(***************************************************************************)
EXTENDS MemTable, WAL, FiniteSetsExt

CONSTANTS
  TranVals,    \* the values transactions write; Tombstone: they remove
  DirectVals,  \* the values clients write without a transaction
  Batches,     \* the key sets that put, remove and the batches are called with
  TranLevels,  \* the isolation levels clients use
  TolLimit,    \* LSM_TOL_MEM_SIZE_LIMIT: a write flushes from this size on
  MaxFiles,    \* bound: files of level 0
  MaxId,       \* bound: transaction ids drawn
  MaxOps,      \* bound: operations of one transaction
  MaxStarts    \* bound: how often the process is started again

ASSUME TransactionsAssumption ==
  /\ IsFiniteSet(Keys)
  /\ TranVals \subseteq Nat /\ IsFiniteSet(TranVals)
  /\ DirectVals \subseteq Nat /\ IsFiniteSet(DirectVals)
  /\ \A b \in Batches : b \subseteq Keys /\ b # {}
  /\ TranLevels \subseteq {"READ_UNCOMMITTED", "READ_COMMITTED", "REPEATABLE_READ", "SERIALIZABLE"}
  /\ MaxId \in Nat
  /\ MaxOps \in Nat
  /\ MaxStarts \in Nat

VARIABLES
  db,       \* LSMEngine: memtable, level 0, and whether the process is alive
  ids,      \* TranManager: nextTransactionId_, max_flushed_, max_finished_
  idfile,   \* the file tranc_id: whether it is in the directory, its content
  log,      \* the files of the WAL
  log_max,  \* max_finished_tranc_id_ of the WAL, set when it is constructed
  cleaner,  \* the cleaner thread: "idle", or "hangs" in a scan
  trans,    \* activeTrans_: the TranContext of each id
  todo,     \* records that the constructor has still to replay
  phase,    \* "open", "closing" (~LSM), "down", "replay" (LSM()), "failed"
  made,     \* history: entries written directly or by a transaction that
            \* committed or is READ_UNCOMMITTED
  intact,   \* history: no crash and no clear since the data directory was new
  starts,   \* how often the process was started again
  before    \* history: what LSM::get answered when the store was closed

vars == <<db, ids, idfile, log, log_max, cleaner, trans, todo, phase, made, intact, starts, before>>

Ids == 1 .. MaxId
Unset == -1
Missing == [val |-> Tombstone, tid |-> 0]
NotInMap == [val |-> Unset, tid |-> 0]

-----------------------------------------------------------------------------
(* The engine.                                                             *)

Tables(d) == MemTables(d.mem) \o d.files

(* get: the first table with a visible version answers; an empty value is  *)
(* no value.  A version found in a file is reported with the id of the     *)
(* query (SstIterator::get_tranc_id).                                      *)
EngineGet(d, k, q) ==
  LET hits == Hits(Tables(d), k, q)
      e    == Newest(Visible(Tables(d)[First(hits)], k, q))
  IN  IF hits = {} \/ e.val = Tombstone
      THEN Missing
      ELSE [val |-> e.val, tid |-> IF First(hits) <= Len(MemTables(d.mem)) THEN e.tid ELSE q]

(* sst_get_: the same without the memtable.                                *)
SstGet(d, k, q) == EngineGet([d EXCEPT !.mem = EmptyMem], k, q)

(* flush, for a memtable that is not of size 0: the oldest table becomes   *)
(* the first file of level 0.  Without a table the process dies.           *)
Flush(d) ==
  IF HasTable(d.mem)
  THEN [d EXCEPT !.mem = FlushLast(d.mem), !.files = <<Flushed(d.mem)>> \o d.files]
  ELSE [d EXCEPT !.alive = FALSE]

(* put, put_batch, remove, remove_batch.                                   *)
EngineWrite(d, ks, t, v) ==
  LET w == [d EXCEPT !.mem = MemWrite(d.mem, ks, t, v)]
  IN  IF TotalSize(w.mem) >= TolLimit THEN Flush(w) ELSE w

Entries(ks, t, v) == {[key |-> k, tid |-> t, val |-> v] : k \in ks}

(* An engine write in this state, and the note of what it wrote.           *)
Apply(ks, t, v) ==
  /\ db' = EngineWrite(db, ks, t, v)
  /\ Len(db'.files) <= MaxFiles
  /\ made' = made \cup Entries(ks, t, v)

Stored(d) == UNION {Tables(d)[i] : i \in DOMAIN Tables(d)}

Running == phase = "open" /\ db.alive

-----------------------------------------------------------------------------
(* The facade.                                                             *)

(* getNextTransactionId                                                    *)
DrawId == ids.next <= MaxId /\ ids' = [ids EXCEPT !.next = @ + 1]

(* LSM::get and get_batch draw an id too.                                  *)
Get ==
  /\ Running
  /\ DrawId
  /\ UNCHANGED <<db, idfile, log, log_max, cleaner, trans, todo, phase, made, intact, starts, before>>

(* LSM::put, put_batch (a value), remove, remove_batch (Tombstone): not    *)
(* logged.                                                                 *)
Write(ks, v) ==
  /\ Running
  /\ DrawId
  /\ Apply(ks, ids.next, v)
  /\ UNCHANGED <<idfile, log, log_max, cleaner, trans, todo, phase, intact, starts, before>>

(* LSM::flush ignores the id that engine->flush returns.                   *)
FlushOne ==
  /\ Running
  /\ TotalSize(db.mem) # 0
  /\ db' = Flush(db)
  /\ Len(db'.files) <= MaxFiles
  /\ UNCHANGED <<ids, idfile, log, log_max, cleaner, trans, todo, phase, made, intact, starts, before>>

(* write_tranc_id_file: into the open file, be it linked or not.           *)
Saved(i) == [idfile EXCEPT !.ids = i]

(* update_max_flushed_tranc_id, update_max_finished_tranc_id               *)
WithFlushed(t) == [ids EXCEPT !.flushed = Max({@, t})]
WithFinished(t) == [ids EXCEPT !.finished = Max({@, t})]

(* One pass of flush_all: flush, then remember the largest id in the file  *)
(* and save the ids.                                                       *)
FlushAllPass ==
  /\ phase \in {"open", "closing"} /\ db.alive
  /\ TotalSize(db.mem) # 0
  /\ db' = Flush(db)
  /\ Len(db'.files) <= MaxFiles
  /\ IF db'.alive
     THEN /\ ids' = WithFlushed(Max({e.tid : e \in Flushed(db.mem)}))
          /\ idfile' = Saved(ids')
     ELSE UNCHANGED <<ids, idfile>>
  /\ UNCHANGED <<log, log_max, cleaner, trans, todo, phase, made, intact, starts, before>>

(* LSM::clear removes every file of the directory, the log and tranc_id    *)
(* among them; those stay open.                                            *)
Clear ==
  /\ Running
  /\ db' = [db EXCEPT !.mem = MemClear(db.mem), !.files = <<>>]
  /\ idfile' = [idfile EXCEPT !.linked = FALSE]
  /\ log' = [i \in DOMAIN log |-> [log[i] EXCEPT !.linked = FALSE]]
  /\ intact' = FALSE
  /\ UNCHANGED <<ids, log_max, cleaner, trans, todo, phase, made, starts, before>>

(* The cleaner thread wakes up.  Without a linked file its loop runs past  *)
(* the end of the list of files: undefined.                                *)
Clean ==
  /\ Running
  /\ cleaner = "idle"
  /\ \/ /\ CleanerHangs(log, log_max)
        /\ cleaner' = "hangs"
        /\ UNCHANGED db
     \/ /\ OnlyLinked(log) = <<>>
        /\ db' = [db EXCEPT !.alive = FALSE]
        /\ UNCHANGED cleaner
  /\ UNCHANGED <<ids, idfile, log, log_max, trans, todo, phase, made, intact, starts, before>>

-----------------------------------------------------------------------------
(* Transactions.                                                           *)

NoTran ==
  [level |-> "none", status |-> "none", ops |-> <<>>,
   temp |-> [k \in Keys |-> Unset], read |-> [k \in Keys |-> NotInMap],
   rollback |-> [k \in Keys |-> NotInMap]]

(* begin_tran, new_tranc                                                   *)
Begin(level) ==
  /\ Running
  /\ DrawId
  /\ trans' = [trans EXCEPT ![ids.next] =
                 [NoTran EXCEPT !.level = level, !.status = "active",
                                !.ops = <<CreateRecord(ids.next)>>]]
  /\ UNCHANGED <<db, idfile, log, log_max, cleaner, todo, phase, made, intact, starts, before>>

(* A context whose transaction has ended: only its operations matter.      *)
Ended(t, s, ops) == [NoTran EXCEPT !.level = trans[t].level, !.status = s, !.ops = ops]

Active(t) == Running /\ trans[t].status = "active"

Uncommitted(t) == trans[t].level = "READ_UNCOMMITTED"

WriteRecord(t, k, v) == IF v = Tombstone THEN DeleteRecord(t, k) ELSE PutRecord(t, k, v)

(* Mutant: every level writes through.                                     *)
TranWriteThrough(t, k, v) ==
  /\ Active(t)
  /\ Len(trans[t].ops) <= MaxOps
  /\ trans' = [trans EXCEPT ![t].ops = Append(@, WriteRecord(t, k, v))]
  /\ db' = EngineWrite(db, {k}, t, v)
  /\ Len(db'.files) <= MaxFiles
  /\ UNCHANGED <<made, ids, idfile, log, log_max, cleaner, todo, phase, intact, starts, before>>

(* TranContext::put and remove: READ_UNCOMMITTED remembers what it reads   *)
(* and writes through; the other levels write to the temp_map_.            *)
TranWrite(t, k, v) ==
  /\ Active(t)
  /\ Len(trans[t].ops) <= MaxOps
  /\ IF Uncommitted(t)
     THEN /\ trans' = [trans EXCEPT ![t].ops = Append(@, WriteRecord(t, k, v)),
                                    ![t].rollback[k] = EngineGet(db, k, 0)]
          /\ Apply({k}, t, v)
     ELSE /\ trans' = [trans EXCEPT ![t].ops = Append(@, WriteRecord(t, k, v)), ![t].temp[k] = v]
          /\ UNCHANGED <<db, made>>
  /\ UNCHANGED <<ids, idfile, log, log_max, cleaner, todo, phase, intact, starts, before>>

(* The levels that remember what they read and check for conflicts.        *)
Repeatable(t) == trans[t].level \in {"REPEATABLE_READ", "SERIALIZABLE"}

(* Mutant: every read goes to the engine.                                  *)
TranReadFresh(t, k) == EngineGet(db, k, IF Uncommitted(t) THEN 0 ELSE t)

(* The engine's part of TranContext::get.                                  *)
TranRead(t, k) ==
  IF Repeatable(t) /\ trans[t].read[k] # NotInMap
  THEN trans[t].read[k]
  ELSE EngineGet(db, k, IF Uncommitted(t) THEN 0 ELSE t)

(* What TranContext::get returns: a key in the temp_map_ comes from there. *)
TranAnswer(t, k) == IF trans[t].temp[k] # Unset THEN trans[t].temp[k] ELSE TranRead(t, k).val

(* TranContext::get changes the state only where it remembers the answer.  *)
TranGet(t, k) ==
  /\ Active(t)
  /\ Repeatable(t)
  /\ trans[t].temp[k] = Unset
  /\ trans' = [trans EXCEPT ![t].read[k] = TranRead(t, k)]
  /\ UNCHANGED <<db, ids, idfile, log, log_max, cleaner, todo, phase, made, intact, starts, before>>

TempKeys(t) == {k \in Keys : trans[t].temp[k] # Unset}

(* Mutant: the check asks for an equal id.                                 *)
ConflictSame(t, k) ==
  LET hits == Hits(MemTables(db.mem), k, 0)
  IN  hits # {} /\ Newest(Visible(MemTables(db.mem)[First(hits)], k, 0)).tid = t

(* The check of commit on a key of the temp_map_: the version memory       *)
(* answers with, or else (if max_flushed_tranc_id_ is above the own id)    *)
(* the one the files answer with, has a later id.                          *)
Conflict(t, k) ==
  LET hits == Hits(MemTables(db.mem), k, 0)
  IN  \/ hits # {} /\ Newest(Visible(MemTables(db.mem)[First(hits)], k, 0)).tid > t
      \/ ids.flushed > t /\ SstGet(db, k, 0).tid > t

Conflicts(t) == Repeatable(t) /\ \E k \in TempKeys(t) : Conflict(t, k)

(* memtable.put_ for every entry of the temp_map_, which freezes nothing.  *)
TempEntries(t) == {[key |-> k, tid |-> t, val |-> trans[t].temp[k]] : k \in TempKeys(t)}

Applied(t) ==
  [db EXCEPT !.mem.current =
     {e \in @ : ~(e.tid = t /\ e.key \in TempKeys(t))} \cup TempEntries(t)]

(* Every write of the transaction, as an entry.                            *)
OpEntries(t) ==
  {[key |-> r.key, tid |-> t, val |-> r.val] : r \in {trans[t].ops[n] : n \in
     {m \in DOMAIN trans[t].ops : IsWrite(trans[t].ops[m])}}}

CommitOps(t) == Append(trans[t].ops, CommitRecord(t))

(* TranContext::commit that succeeds: log, then apply.  The temp_map_ of a *)
(* READ_UNCOMMITTED transaction is empty.                                  *)
Commit(t) ==
  /\ Active(t)
  /\ ~Conflicts(t)
  /\ trans' = [trans EXCEPT ![t] = Ended(t, "committed", CommitOps(t))]
  /\ log' = Log(log, CommitOps(t))
  /\ db' = Applied(t)
  /\ made' = made \cup OpEntries(t)
  /\ ids' = WithFinished(t)
  /\ UNCHANGED <<idfile, log_max, cleaner, todo, phase, intact, starts, before>>

SetContext(t, c) ==
  /\ trans' = [trans EXCEPT ![t] = c]
  /\ UNCHANGED <<db, ids, idfile, log, log_max, cleaner, todo, phase, made, intact, starts, before>>

(* commit that finds a conflict, and abort where nothing was written.      *)
CommitFails(t) == Active(t) /\ Conflicts(t) /\ SetContext(t, Ended(t, "aborted", <<>>))

Abort(t) ==
  /\ Active(t)
  /\ SetContext(t, IF Uncommitted(t) THEN [trans[t] EXCEPT !.status = "aborting"]
                   ELSE Ended(t, "aborted", <<>>))

(* Mutant: abort does not ask which keys are in the rollback_map_.         *)
RollbackAllKeys(t) == Keys

RollbackKeys(t) == {k \in Keys : trans[t].rollback[k] # NotInMap}

(* abort of READ_UNCOMMITTED puts back, key by key in any order, what the  *)
(* rollback_map_ holds: a value under its old id, or else a removal under  *)
(* the id of the transaction.                                              *)
Rollback(t, k) ==
  LET old == trans[t].rollback[k]
  IN  /\ Running
      /\ trans[t].status = "aborting"
      /\ k \in RollbackKeys(t)
      /\ trans' = [trans EXCEPT ![t].rollback[k] = NotInMap]
      /\ Apply({k}, IF old = Missing THEN t ELSE old.tid, old.val)
      /\ UNCHANGED <<ids, idfile, log, log_max, cleaner, todo, phase, intact, starts, before>>

AbortEnds(t) ==
  /\ Running
  /\ trans[t].status = "aborting"
  /\ RollbackKeys(t) = {}
  /\ SetContext(t, Ended(t, "aborted", <<>>))

-----------------------------------------------------------------------------
(* Process life.                                                           *)

NoIds == [next |-> 0, flushed |-> 0, finished |-> 0]
FirstIds == [next |-> 1, flushed |-> 0, finished |-> 0]

(* What is left when the process ends, with file as tranc_id and files of  *)
(* log lg: an unlinked file is gone.                                       *)
GoDown(file, lg) ==
  /\ phase' = "down"
  /\ db' = [mem |-> EmptyMem, files |-> db.files, alive |-> TRUE]
  /\ ids' = NoIds
  /\ idfile' = IF file.linked THEN file ELSE [linked |-> FALSE, ids |-> NoIds]
  /\ log' = OnlyLinked(lg)
  /\ log_max' = 0
  /\ cleaner' = "idle"
  /\ trans' = [t \in Ids |-> NoTran]
  /\ todo' = {}

(* The process is killed, or has died.                                     *)
Crash ==
  /\ phase \in {"open", "closing", "replay"}
  /\ GoDown(idfile, log)
  /\ before' = [k \in Keys |-> Unset]
  /\ intact' = FALSE
  /\ UNCHANGED <<made, starts>>

(* What LSM::get answers.                                                  *)
Answer(k) == EngineGet(db, k, ids.next).val

(* ~LSM: flush_all until memory is empty, then save the ids.               *)
Close ==
  /\ Running
  /\ phase' = "closing"
  /\ UNCHANGED <<db, ids, idfile, log, log_max, cleaner, trans, todo, made, intact, starts, before>>

(* Mutant: the ids are not saved.                                          *)
ClosedUnsaved ==
  /\ phase = "closing" /\ db.alive /\ TotalSize(db.mem) = 0
  /\ GoDown(idfile, log)
  /\ before' = [k \in Keys |-> Answer(k)]
  /\ UNCHANGED <<made, intact, starts>>

Closed ==
  /\ phase = "closing" /\ db.alive /\ TotalSize(db.mem) = 0
  /\ GoDown(Saved(ids), log)
  /\ before' = [k \in Keys |-> Answer(k)]
  /\ UNCHANGED <<made, intact, starts>>

(* LSM(): TranManager() creates the file tranc_id or reads it; an empty    *)
(* one cannot be read, and the constructor throws.  Then the records to    *)
(* replay are collected.                                                   *)
Start ==
  /\ phase = "down"
  /\ starts < MaxStarts
  /\ starts' = starts + 1
  /\ IF idfile.linked /\ idfile.ids = NoIds
     THEN /\ phase' = "failed"
          /\ UNCHANGED <<ids, idfile, todo>>
     ELSE /\ phase' = "replay"
          /\ ids' = IF idfile.linked THEN idfile.ids ELSE FirstIds
          /\ idfile' = [idfile EXCEPT !.linked = TRUE]
          /\ todo' = Recover(log, ids'.flushed)
  /\ UNCHANGED <<db, log, log_max, cleaner, trans, made, intact, before>>

(* The next record of the replay, at place p.  Whether the transaction has *)
(* a COMMIT record is not asked.                                           *)
Replay(p) ==
  LET r == RecordAt(log, p)
  IN  /\ phase = "replay"
      /\ \A q \in todo : ReplayedBefore(log, p, q)
      /\ todo' = todo \ {p}
      /\ ids' = WithFinished(r.tid)
      /\ IF IsWrite(r)
         THEN db' = EngineWrite(db, {r.key}, r.tid, r.val) /\ Len(db'.files) <= MaxFiles
         ELSE UNCHANGED db
      /\ UNCHANGED <<made, idfile, log, log_max, cleaner, trans, phase, intact, starts, before>>

(* init_new_wal removes the old files one by one, then starts a new log.   *)
RemoveOldLog(i) ==
  /\ phase = "replay" /\ todo = {}
  /\ i \in DOMAIN log
  /\ log' = SubSeq(log, 1, i - 1) \o SubSeq(log, i + 1, Len(log))
  /\ UNCHANGED <<db, ids, idfile, log_max, cleaner, trans, todo, phase, made, intact, starts, before>>

(* Mutant: the log is given the next id.                                   *)
InitNewWalNextId ==
  /\ phase = "replay" /\ todo = {} /\ log = <<>>
  /\ log' = NewLog
  /\ log_max' = ids.next
  /\ phase' = "open"
  /\ before' = [k \in Keys |-> Unset]
  /\ UNCHANGED <<db, ids, idfile, cleaner, trans, todo, made, intact, starts>>

InitNewWal ==
  /\ phase = "replay" /\ todo = {} /\ log = <<>>
  /\ log' = NewLog
  /\ log_max' = ids.finished
  /\ phase' = "open"
  /\ before' = [k \in Keys |-> Unset]
  /\ UNCHANGED <<db, ids, idfile, cleaner, trans, todo, made, intact, starts>>

(* A program starts on an empty directory.                                 *)
Init ==
  /\ db = [mem |-> EmptyMem, files |-> <<>>, alive |-> TRUE]
  /\ ids = FirstIds
  /\ idfile = [linked |-> TRUE, ids |-> NoIds]
  /\ log = NewLog
  /\ log_max = 0
  /\ cleaner = "idle"
  /\ trans = [t \in Ids |-> NoTran]
  /\ todo = {}
  /\ phase = "open"
  /\ made = {}
  /\ intact = TRUE
  /\ starts = 0
  /\ before = [k \in Keys |-> Unset]

TranStep(t) ==
  \/ \E k \in Keys, v \in TranVals : TranWrite(t, k, v)
  \/ \E k \in Keys : TranGet(t, k)
  \/ Commit(t)
  \/ CommitFails(t)
  \/ Abort(t)
  \/ \E k \in Keys : Rollback(t, k)
  \/ AbortEnds(t)

Next ==
  \/ Get
  \/ \E ks \in Batches, v \in DirectVals : Write(ks, v)
  \/ FlushOne
  \/ FlushAllPass
  \/ Clear
  \/ Clean
  \/ \E level \in TranLevels : Begin(level)
  \/ \E t \in Ids : TranStep(t)
  \/ Crash
  \/ Close
  \/ Closed
  \/ Start
  \/ \E p \in todo : Replay(p)
  \/ \E i \in DOMAIN log : RemoveOldLog(i)
  \/ InitNewWal

Spec == Init /\ [][Next]_vars

-----------------------------------------------------------------------------
(* A crash inside WAL::log, after the first n records of a commit and      *)
(* before its last one.                                                    *)
CrashInCommit(t, n) ==
  /\ Active(t)
  /\ ~Conflicts(t)
  /\ n < Len(CommitOps(t))
  /\ GoDown(idfile, Appended(log, SubSeq(CommitOps(t), 1, n)))
  /\ before' = [k \in Keys |-> Unset]
  /\ intact' = FALSE
  /\ UNCHANGED <<made, starts>>

NextWithTornLog == Next \/ \E t \in Ids, n \in 1 .. MaxOps + 1 : CrashInCommit(t, n)

SpecWithTornLog == Init /\ [][NextWithTornLog]_vars

-----------------------------------------------------------------------------
(* Properties.                                                             *)

Vals == TranVals \cup DirectVals

Entry == [key : Keys, tid : 0 .. MaxId, val : Vals \cup {Tombstone}]
Result == [val : Vals \cup {Tombstone}, tid : 0 .. MaxId] \cup {NotInMap}
Record == [op : {"CREATE", "COMMIT", "PUT", "DELETE"}, tid : Ids, key : Keys \cup {0},
           val : Vals \cup {Tombstone}]
Tran == [level : TranLevels \cup {"none"},
         status : {"none", "active", "committed", "aborting", "aborted"},
         ops : Seq(Record), temp : [Keys -> Vals \cup {Tombstone, Unset}],
         read : [Keys -> Result], rollback : [Keys -> Result]]
IdRecord == [next : 0 .. MaxId + 1, flushed : 0 .. MaxId, finished : 0 .. MaxId]

(* The types of the variables.                                             *)
TypeOK ==
  /\ db \in [mem : MemsOver(Entry), files : Seq(TablesOver(Entry)), alive : BOOLEAN]
  /\ ids \in IdRecord
  /\ idfile \in [linked : BOOLEAN, ids : IdRecord]
  /\ log \in Seq([linked : BOOLEAN, recs : Seq(Record)])
  /\ log_max \in 0 .. MaxId
  /\ cleaner \in {"idle", "hangs"}
  /\ trans \in [Ids -> Tran]
  /\ todo \subseteq Nat \X Nat
  /\ phase \in {"open", "closing", "down", "replay", "failed"}
  /\ made \subseteq Entry
  /\ intact \in BOOLEAN
  /\ starts \in 0 .. MaxStarts
  /\ before \in [Keys -> Vals \cup {Tombstone, Unset}]

(* Nothing a transaction above READ_UNCOMMITTED wrote is in the memtable   *)
(* or in a file before it has committed, nor after it was aborted; not     *)
(* after a crash and the replay of the log either (test_lsm.cpp,           *)
(* TranContextTest).                                                       *)
UncommittedInvisible == Stored(db) \subseteq made

(* Unless clear has removed the files of the log, every transaction that   *)
(* this process has committed has its records, from CREATE to COMMIT and   *)
(* in order, in one file of the log, and no other record of the log has    *)
(* its id: neither rotation nor the cleaner tears or loses it (commit,     *)
(* WAL::log, cleanWALFile).  That replay redoes it is not said: recover    *)
(* skips the ids up to max_flushed_tranc_id.                               *)
LoggedAt(t, i, o) ==
  /\ o + Len(trans[t].ops) <= Len(log[i].recs)
  /\ \A n \in DOMAIN trans[t].ops : log[i].recs[o + n] = trans[t].ops[n]
  /\ \A j \in DOMAIN log : \A m \in DOMAIN log[j].recs :
       log[j].recs[m].tid = t => j = i /\ m \in o + 1 .. o + Len(trans[t].ops)

CommittedLogged ==
  (\A i \in DOMAIN log : log[i].linked) =>
    \A t \in Ids : trans[t].status = "committed" =>
      \E i \in DOMAIN log : \E o \in 0 .. Len(log[i].recs) : LoggedAt(t, i, o)

(* Without crash or clear an id is never used again, also after the store  *)
(* was closed and opened: every id in the store and in the log is below    *)
(* the next one.  So LSM::get, which reads at the next id, sees every      *)
(* version.                                                                *)
IdsFresh ==
  (intact /\ phase \in {"open", "closing", "replay"}) =>
    /\ \A e \in Stored(db) : e.tid < ids.next
    /\ \A j \in DOMAIN log : \A m \in DOMAIN log[j].recs : log[j].recs[m].tid < ids.next
    /\ ids.flushed < ids.next

(* Without crash or clear the cleaner thread never comes to hang: ids in a *)
(* closed log file are above max_finished_tranc_id_ of the log.            *)
CleanerFree == intact => cleaner = "idle"

(* A repeatable transaction that has read a key and not written it gets    *)
(* the same answer for as long as it is active, whatever others commit,    *)
(* also under a smaller id, and whatever is flushed (TranContext::get).    *)
RepeatableReads ==
  [][\A t \in Ids : \A k \in Keys :
       (Active(t) /\ Active(t)' /\ Repeatable(t) /\ trans[t].read[k] # NotInMap
          /\ trans'[t].temp[k] = Unset)
       => TranAnswer(t, k)' = TranAnswer(t, k)]_vars

(* A repeatable transaction does not commit a key for which the store has  *)
(* a version with a later id, as the test TranContextTest expects.         *)
LaterVersion(t) == \E e \in Stored(db) : e.tid > t /\ e.key \in TempKeys(t)

LaterWriteConflicts ==
  [][\A t \in Ids : (Commit(t) /\ Repeatable(t)) => ~LaterVersion(t)]_vars

(* The same while nothing has been frozen or flushed: then the one table   *)
(* that commit looks at has the latest version of every key.               *)
LaterWriteConflictsInMemory ==
  [][\A t \in Ids :
       (Commit(t) /\ Repeatable(t) /\ db.mem.frozen = <<>> /\ db.files = <<>>)
         => ~LaterVersion(t)]_vars

(* Without crash or clear, LSM::get returns after the store was closed and *)
(* opened again what it returned before (test_lsm.cpp, Persistence).       *)
ReopenKeepsAnswers ==
  [][(InitNewWal /\ intact) => \A k \in Keys : Answer(k) = before[k]]_vars

(* A store that was open can be opened again.                              *)
StoreReopens == phase # "failed"
=============================================================================
