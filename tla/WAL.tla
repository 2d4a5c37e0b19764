-------------------------------- MODULE WAL ---------------------------------
(***************************************************************************)
(* The write-ahead log: class WAL over class Record (src/src/wal).         *)
(*                                                                         *)
(* A log is the sequence of its files wal.0, wal.1, ..., the last one      *)
(* open for writing.  A file that was removed from the directory while it  *)
(* is open is still written to, but is not linked any more.  A record is   *)
(* its operation, transaction id, key and value; size counts records.      *)
(* Transactions always log with force_flush, so log_buffer_ is empty       *)
(* between two calls.                                                      *)
(***************************************************************************)
EXTENDS Integers, Sequences

CONSTANT WalLimit    \* file_size_limit_: a longer file is closed

ASSUME WalAssumption == WalLimit \in Nat \ {0}

(* Record::createRecord, commitRecord, putRecord and deleteRecord; a       *)
(* deletion carries the empty value.                                       *)
CreateRecord(t) == [op |-> "CREATE", tid |-> t, key |-> 0, val |-> 0]
CommitRecord(t) == [op |-> "COMMIT", tid |-> t, key |-> 0, val |-> 0]
PutRecord(t, k, v) == [op |-> "PUT", tid |-> t, key |-> k, val |-> v]
DeleteRecord(t, k) == [op |-> "DELETE", tid |-> t, key |-> k, val |-> 0]

IsWrite(r) == r.op \in {"PUT", "DELETE"}

(* The constructor: one empty file.                                        *)
NewLog == <<[linked |-> TRUE, recs |-> <<>>]>>

Appended(log, rs) == [log EXCEPT ![Len(log)].recs = @ \o rs]

(* Mutant: a file that has grown too long is replaced by the next one.     *)
LogOverwrites(log, rs) ==
  LET w == Appended(log, rs)
  IN  IF Len(w[Len(w)].recs) > WalLimit THEN SubSeq(w, 1, Len(w) - 1) \o NewLog ELSE w

(* log with force_flush: append all records to the open file, then, if it  *)
(* has grown too long, go on with a new one (reset_file).                  *)
Log(log, rs) ==
  LET w == Appended(log, rs)
  IN  IF Len(w[Len(w)].recs) > WalLimit THEN w \o NewLog ELSE w

(* The files a directory listing finds.                                    *)
IsLinked(f) == f.linked
OnlyLinked(log) == SelectSeq(log, IsLinked)

(* recover: the places of the records to replay.                           *)
Recover(log, flushed) ==
  {p \in UNION {{i} \X DOMAIN log[i].recs : i \in DOMAIN log} :
     log[p[1]].recs[p[2]].tid > flushed}

RecordAt(log, p) == log[p[1]].recs[p[2]]

(* The replay goes by transaction id, within one transaction in log order. *)
ReplayedBefore(log, p, q) ==
  LET a == RecordAt(log, p).tid
      b == RecordAt(log, q).tid
  IN  \/ a < b
      \/ a = b /\ p[1] < q[1]
      \/ a = b /\ p[1] = q[1] /\ p[2] <= q[2]

(* cleanWALFile looks at all linked files but the last.  It reads the id   *)
(* of the first record of a file; if that is above max_finished the file   *)
(* is kept, and if not it reads the same record again, for ever, because   *)
(* the offset is not advanced.  A file that holds a record is never        *)
(* deleted.                                                                *)
CleanerHangs(log, finished) ==
  LET found == OnlyLinked(log)
  IN  \E i \in 1 .. Len(found) - 1 :
        found[i].recs # <<>> /\ found[i].recs[1].tid <= finished
=============================================================================
