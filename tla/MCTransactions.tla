--------------------------- MODULE MCTransactions ---------------------------
(* Instances of Transactions for TLC.                                      *)
EXTENDS Transactions

OneKey == {1}
Puts == {1}
Removes == {0}
OneBatch == {{1}}
AllLevels == {"READ_UNCOMMITTED", "READ_COMMITTED", "REPEATABLE_READ"}
Serial == {"SERIALIZABLE"}
=============================================================================
