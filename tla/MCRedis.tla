------------------------------ MODULE MCRedis -------------------------------
(***************************************************************************)
(* The instance of Redis that TLC checks.                                  *)
(***************************************************************************)
EXTENDS Redis, TLC

CONSTANTS a, b, c1, c2

TwoClients == {c1, c2}
ClientSymmetry == Permutations(TwoClients)

TwoItems == {a, b}

AllTypes == {"string", "hash", "list", "set", "zset"}
SortedSet == {"zset"}

SmallNumbers == -1..1

(* One argument, two, and one named twice.                                 *)
Members == {<<a>>, <<b>>, <<a, b>>, <<a, a>>}

(* hset with one field, with two, and with a field named twice.            *)
FieldsAndValues == {<<<<a, 1>>>>, <<<<b, 0>>>>, <<<<a, 0>>, <<b, 1>>>>, <<<<a, 0>>, <<a, 1>>>>}

(* zadd of one element, of another score of it, of a tie, of two elements, *)
(* of one under two scores, and of two under one.                          *)
ScoresAndElements ==
  {<<<<1, a>>>>, <<<<2, a>>>>, <<<<1, b>>>>, <<<<1, a>>, <<2, b>>>>, <<<<1, a>>, <<2, a>>>>, <<<<1, a>>, <<1, b>>>>}

(* zadd of one element under one score or another.                         *)
OneElement == {<<<<1, a>>>>, <<<<2, a>>>>}
=============================================================================
