------------------------------- MODULE Redis --------------------------------
(***************************************************************************)
(* The redis wrapper (src/src/redis_wrapper/redis_wrapper.cpp): commands   *)
(* on one name, of one of the five types, by concurrent clients.           *)
(*                                                                         *)
(* A name is stored as several pairs of the key-value store below: the     *)
(* name itself, one pair per hash field, set member or sorted-set element, *)
(* one per score of a sorted set, and the expiry time.  Prefixes keep the  *)
(* pairs of different names apart, clients use a name for one type only,   *)
(* and values are not empty (the store takes an empty value for a          *)
(* removal), so the pairs of one name are the whole state.                 *)
(*                                                                         *)
(* A command that only takes redis_mtx exclusively is one step.  The       *)
(* others first look for the expiry under the shared lock, then release    *)
(* it and take the exclusive lock to clean up or to write: one step for    *)
(* each time a lock is held.  clear takes no lock, so it may come in the   *)
(* middle of such a step.                                                  *)
(***************************************************************************)
EXTENDS Integers, Sequences, FiniteSets, SequencesExt

CONSTANTS
  Clients,   \* threads that call the wrapper
  Types,     \* the types the name may have
  Items,     \* hash fields, list elements, set members, sorted-set elements
  Numbers,   \* the values of strings and hash fields; a bound for counters
  Scores,    \* the scores of sorted sets, as numbers; a bound for zincrby
  ItemArgs,  \* argument lists of sadd, srem and zrem
  FieldArgs, \* argument lists of hset: field and value
  ScoreArgs, \* argument lists of zadd: score and element
  Steps,     \* increments of zincrby
  Seconds,   \* arguments of expire
  MaxLen,    \* bound: length of a list
  MaxSize,   \* bound: the size that a set stores, above and below 0
  MaxTime    \* bound: the clock

VARIABLES
  type,  \* the type of the name
  kv,    \* the pairs of the name
  now,   \* the clock, in seconds
  pc     \* for each client, its command and where it stands

vars == <<type, kv, now, pc>>

Absent == -1

(* main: the pair of the name itself, <<>> or <<value>>.  sub: the pairs   *)
(* of the items.  score: the pairs of the scores.  exp: the expiry time.   *)
Empty == [main |-> <<>>, sub |-> [i \in Items |-> Absent],
          score |-> [s \in Scores |-> Absent], exp |-> Absent]

Idle == [at |-> "idle", op |-> "none", args |-> <<>>]

-----------------------------------------------------------------------------
(* Expiry.                                                                 *)

(* is_expired                                                              *)
Expired == kv.exp # Absent /\ kv.exp < now

(* The list of fields that the pair of a hash holds.                       *)
Fields == IF kv.main = <<>> THEN <<>> ELSE kv.main[1]

(* Mutant: the fields of an expired hash stay.                             *)
CleanedMainOnly ==
  IF type \in {"set", "zset"} THEN Empty ELSE [kv EXCEPT !.main = <<>>, !.exp = Absent]

(* expire_hash_clean, expire_list_clean, expire_set_clean and              *)
(* expire_zset_clean, once the lock is held; redis_get does the same for a *)
(* string.  Whether the name is still expired is not asked again.          *)
Cleaned ==
  CASE type \in {"string", "list"} -> [kv EXCEPT !.main = <<>>, !.exp = Absent]
    [] type = "hash" -> [kv EXCEPT !.main = <<>>, !.exp = Absent,
                           !.sub = [i \in Items |-> IF Contains(Fields, i) THEN Absent ELSE @[i]]]
    [] type \in {"set", "zset"} -> Empty

(* The commands that write under the exclusive lock after the look for the *)
(* expiry, with their arguments.                                           *)
WriteCommands ==
  CASE type = "string" -> {}
    [] type = "hash" -> ({"hset"} \X FieldArgs) \cup ({"hdel"} \X {<<i>> : i \in Items})
    [] type = "list" -> ({"lpush", "rpush"} \X {<<i>> : i \in Items}) \cup {<<"lpop", <<>>>>, <<"rpop", <<>>>>}
    [] type = "set"  -> {"sadd", "srem"} \X ItemArgs
    [] type = "zset" -> ({"zadd"} \X ScoreArgs) \cup ({"zrem"} \X ItemArgs) \cup ({"zincrby"} \X (Items \X Steps))

(* The writes that go on after they have cleaned up; the others return.    *)
GoesOn(op) == op \in {"hset", "lpush", "rpush", "sadd", "zadd", "zincrby"}

Goto(c, at, op, args) == pc' = [pc EXCEPT ![c] = [at |-> at, op |-> op, args |-> args]]

(* A command that reads, under the shared lock: get, hget, hkeys, llen,    *)
(* lrange, zrange, zcard, zscore, zrank, sismember, scard or smembers.  It *)
(* answers, unless the name is expired; get asks only of a name it found.  *)
Read(c) ==
  /\ pc[c].at = "idle"
  /\ Expired
  /\ type = "string" => kv.main # <<>>
  /\ Goto(c, "clean", "read", <<>>)
  /\ UNCHANGED <<type, kv, now>>

(* redis_get of a name that is not there, but has an expiry time.          *)
ReadOrphan(c) ==
  /\ type = "string"
  /\ pc[c].at = "idle"
  /\ kv.main = <<>> /\ kv.exp # Absent
  /\ Goto(c, "orphan", "read", <<>>)
  /\ UNCHANGED <<type, kv, now>>

(* A write under the shared lock.                                          *)
Check(c, op, args) ==
  /\ pc[c].at = "idle"
  /\ Goto(c, IF Expired THEN "clean" ELSE "write", op, args)
  /\ UNCHANGED <<type, kv, now>>

(* The exclusive lock, to clean up.                                        *)
Clean(c) ==
  /\ pc[c].at = "clean"
  /\ kv' = Cleaned
  /\ IF GoesOn(pc[c].op) THEN Goto(c, "write", pc[c].op, pc[c].args)
     ELSE pc' = [pc EXCEPT ![c] = Idle]
  /\ UNCHANGED <<type, now>>

CleanOrphan(c) ==
  /\ pc[c].at = "orphan"
  /\ kv' = [kv EXCEPT !.exp = Absent]
  /\ pc' = [pc EXCEPT ![c] = Idle]
  /\ UNCHANGED <<type, now>>

-----------------------------------------------------------------------------
(* Commands that take the exclusive lock at once.                          *)

Idling(c) == pc[c].at = "idle" /\ UNCHANGED <<type, now, pc>>

(* redis_set                                                               *)
Set(c, v) ==
  /\ type = "string"
  /\ kv' = [kv EXCEPT !.main = <<v>>, !.exp = Absent]
  /\ Idling(c)

(* redis_incr, redis_decr: the expiry time is neither asked nor changed.   *)
(* The number is put over the pairs that are there by then.                *)
CountOn(d, pairs) == [pairs EXCEPT !.main = <<(IF kv.main = <<>> THEN 0 ELSE kv.main[1]) + d>>]

Count(c, d) ==
  /\ type = "string"
  /\ kv' = CountOn(d, kv) /\ kv'.main[1] \in Numbers
  /\ Idling(c)

(* redis_expire, whether the name is there or not.                         *)
Expire(c, n) ==
  /\ kv' = [kv EXCEPT !.exp = now + n]
  /\ Idling(c)

(* redis_del: the fields of a hash go with it, members and elements stay.  *)
Del(c) ==
  /\ kv' = [kv EXCEPT !.main = <<>>, !.exp = Absent,
              !.sub = IF type = "hash"
                      THEN [i \in Items |-> IF Contains(Fields, i) THEN Absent ELSE @[i]]
                      ELSE @]
  /\ Idling(c)

(* clear, when no command holds the exclusive lock.                        *)
Clear(c) == kv' = Empty /\ Idling(c)

-----------------------------------------------------------------------------
(* Commands that come to write after the look for the expiry.              *)

Writing(c, op) ==
  /\ pc[c].at = "write" /\ pc[c].op = op
  /\ pc' = [pc EXCEPT ![c] = Idle]
  /\ UNCHANGED <<type, now>>

Arg(c, i) == pc[c].args[i]

(* Mutant: the last hdel or pop leaves an empty list behind.               *)
EmptyListPair(s) == <<s>>

(* The pair that holds these fields or elements: removed with the last one.*)
ListPair(s) == IF s = <<>> THEN <<>> ELSE <<s>>

(* Each command is an operator that gives the pairs after it, from the     *)
(* pairs that its puts are applied to.  These are kv, unless clear comes   *)
(* in the middle of the command: then they are Empty, and the command goes *)
(* on with what it has read before.  XCut is the set of outcomes that are  *)
(* not those of a clear before or after the command.                       *)

(* redis_hset_batch: the puts after the first n.                           *)
AddField(fields, pair) == IF Contains(fields, pair[1]) THEN fields ELSE Append(fields, pair[1])
PutField(sub, pair) == [sub EXCEPT ![pair[1]] = pair[2]]

HsetOn(c, n, pairs) ==
  [pairs EXCEPT !.sub  = FoldLeft(PutField, @, SubSeq(pc[c].args, n + 1, Len(pc[c].args))),
                !.main = <<FoldLeft(AddField, Fields, pc[c].args)>>]

Hset(c) == Writing(c, "hset") /\ kv' = HsetOn(c, 0, kv)
HsetCut(c) == {HsetOn(c, n, Empty) : n \in 0 .. Len(pc[c].args)}

(* redis_hdel                                                              *)
HdelOn(c, pairs) ==
  [pairs EXCEPT !.sub  = [@ EXCEPT ![Arg(c, 1)] = Absent],
                !.main = ListPair(RemoveFirst(Fields, Arg(c, 1)))]

Hdel(c) == Writing(c, "hdel") /\ kv' = HdelOn(c, kv)
HdelCut(c) == IF Contains(Fields, Arg(c, 1)) THEN {HdelOn(c, Empty)} ELSE {}

(* The elements of a list (split).                                         *)
Elements == IF kv.main = <<>> THEN <<>> ELSE kv.main[1]

(* redis_lpush, redis_rpush                                                *)
PushOn(c, pairs) ==
  [pairs EXCEPT !.main = ListPair(IF pc[c].op = "lpush" THEN <<Arg(c, 1)>> \o Elements
                                  ELSE Append(Elements, Arg(c, 1)))]

Push(c) ==
  /\ Writing(c, "lpush") \/ Writing(c, "rpush")
  /\ kv' = PushOn(c, kv) /\ Len(kv'.main[1]) <= MaxLen
PushCut(c) == {PushOn(c, Empty)}

(* redis_lpop, redis_rpop of a list that is there                          *)
PopOn(c, pairs) ==
  [pairs EXCEPT !.main = ListPair(IF pc[c].op = "lpop" THEN Tail(Elements) ELSE Front(Elements))]

Pop(c) ==
  /\ Writing(c, "lpop") \/ Writing(c, "rpop")
  /\ kv' = IF kv.main = <<>> THEN kv ELSE PopOn(c, kv)
PopCut(c) == IF kv.main = <<>> THEN {} ELSE {PopOn(c, Empty)}

(* The size that the pair of a set holds.                                  *)
Size == IF kv.main = <<>> THEN 0 ELSE kv.main[1]

(* The arguments that sadd, and srem, find to be members: clear comes      *)
(* after the first n of them were looked up.                               *)
Found(c, n) == {i \in 1 .. n : kv.sub[Arg(c, i)] # Absent}

(* Mutant: every argument counts, also a member.                           *)
SaddAll(c, n, size, pairs) ==
  [pairs EXCEPT !.sub  = [i \in Items |-> IF Contains(pc[c].args, i) THEN 1 ELSE @[i]],
                !.main = <<size + Len(pc[c].args)>>]

(* redis_sadd: each argument that is not yet a member is put and counted,  *)
(* as often as it is named.                                                *)
SaddOn(c, n, size, pairs) ==
  LET new == DOMAIN pc[c].args \ Found(c, n)
  IN  [pairs EXCEPT !.sub  = [i \in Items |-> IF \E m \in new : Arg(c, m) = i THEN 1 ELSE @[i]],
                    !.main = <<size + Cardinality(new)>>]

Bounded(pairs) == pairs.main[1] \in -MaxSize .. MaxSize

Sadd(c) ==
  /\ Writing(c, "sadd")
  /\ kv' = SaddOn(c, Len(pc[c].args), Size, kv) /\ Bounded(kv')
SaddCut(c) ==
  {SaddOn(c, n, 0, Empty) : n \in DOMAIN pc[c].args} \cup {SaddOn(c, Len(pc[c].args), Size, Empty)}

(* redis_srem, which counts and removes likewise.                          *)
SremOn(c, n, size, pairs) ==
  [pairs EXCEPT !.sub  = [i \in Items |-> IF Contains(pc[c].args, i) THEN Absent ELSE @[i]],
                !.main = <<size - Cardinality(Found(c, n))>>]

Srem(c) ==
  /\ Writing(c, "srem")
  /\ kv' = SremOn(c, Len(pc[c].args), Size, kv) /\ Bounded(kv')
SremCut(c) ==
  {SremOn(c, n, 0, Empty) : n \in DOMAIN pc[c].args} \cup {SremOn(c, Len(pc[c].args), Size, Empty)}

(* redis_zadd: an element is put under its new score.  The old scores are  *)
(* collected in remove_keys, but del_keys, which is empty, is removed.     *)
(* The first n elements are looked up before clear comes.                  *)
NewPairs(c, n) ==
  SelectSeq(SubSeq(pc[c].args, 1, n), LAMBDA p : kv.sub[p[2]] # p[1]) \o SubSeq(pc[c].args, n + 1, Len(pc[c].args))
PutElem(sub, pair) == [sub EXCEPT ![pair[2]] = pair[1]]
PutScore(score, pair) == [score EXCEPT ![pair[1]] = pair[2]]

ZaddOn(c, n, pairs) ==
  [pairs EXCEPT !.main  = <<1>>,
                !.sub   = FoldLeft(PutElem, @, NewPairs(c, n)),
                !.score = FoldLeft(PutScore, @, NewPairs(c, n))]

Zadd(c) == Writing(c, "zadd") /\ kv' = ZaddOn(c, Len(pc[c].args), kv)
ZaddCut(c) == {ZaddOn(c, n, Empty) : n \in DOMAIN pc[c].args}

(* redis_zrem: as it only removes, a clear in its middle is one after it.  *)
Zrem(c) ==
  /\ Writing(c, "zrem")
  /\ kv' = [kv EXCEPT !.sub = [i \in Items |-> IF Contains(pc[c].args, i) THEN Absent ELSE @[i]],
              !.score = [s \in Scores |-> IF \E i \in ToSet(pc[c].args) : kv.sub[i] = s THEN Absent ELSE @[s]]]

(* The score that zincrby gives.                                           *)
NewScore(c) == (IF kv.sub[Arg(c, 1)] = Absent THEN 0 ELSE kv.sub[Arg(c, 1)]) + Arg(c, 2)

(* Mutant: the old score is removed after the new one is put.              *)
ZincrbySwapped(c, pairs) ==
  LET e == Arg(c, 1)
  IN  [pairs EXCEPT !.sub   = [@ EXCEPT ![e] = NewScore(c)],
                    !.score = [s \in Scores |-> IF s = kv.sub[e] THEN Absent
                                                ELSE IF s = NewScore(c) THEN e ELSE @[s]]]

(* redis_zincrby: remove the old score, put the new one with the element   *)
(* and then the pair of the new score.                                     *)
ZincrbyOn(c, pairs) ==
  LET e == Arg(c, 1)
  IN  [pairs EXCEPT !.sub   = [@ EXCEPT ![e] = NewScore(c)],
                    !.score = [s \in Scores |-> IF s = NewScore(c) THEN e
                                                ELSE IF s = kv.sub[e] THEN Absent ELSE @[s]]]

Zincrby(c) ==
  /\ Writing(c, "zincrby")
  /\ NewScore(c) \in Scores
  /\ kv' = ZincrbyOn(c, kv)
ZincrbyCut(c) ==
  {ZincrbyOn(c, Empty), [Empty EXCEPT !.score = ZincrbyOn(c, Empty).score]}

-----------------------------------------------------------------------------
(* clear in the middle of a command, called by another client.             *)

Calls(c) == \E other \in Clients \ {c} : pc[other].at = "idle"

ClearInCount(c, d) ==
  /\ Calls(c)
  /\ type = "string"
  /\ kv' = CountOn(d, Empty) /\ kv'.main[1] \in Numbers
  /\ Idling(c)

ClearInWrite(c) ==
  /\ Calls(c)
  /\ \/ Writing(c, "hset") /\ kv' \in HsetCut(c)
     \/ Writing(c, "hdel") /\ kv' \in HdelCut(c)
     \/ (Writing(c, "lpush") \/ Writing(c, "rpush")) /\ kv' \in PushCut(c) /\ Len(kv'.main[1]) <= MaxLen
     \/ (Writing(c, "lpop") \/ Writing(c, "rpop")) /\ kv' \in PopCut(c)
     \/ Writing(c, "sadd") /\ kv' \in SaddCut(c) /\ Bounded(kv')
     \/ Writing(c, "srem") /\ kv' \in SremCut(c) /\ Bounded(kv')
     \/ Writing(c, "zadd") /\ kv' \in ZaddCut(c)
     \/ Writing(c, "zincrby") /\ NewScore(c) \in Scores /\ kv' \in ZincrbyCut(c)

-----------------------------------------------------------------------------
(* What the reading commands answer of a name that is not expired.         *)

Hkeys == Fields                                             \* redis_hkeys
Hget(f) == kv.sub[f]                                        \* redis_hget
Scard == Size                                               \* redis_scard
Smembers == {i \in Items : kv.sub[i] # Absent}              \* redis_smembers
Zscore(e) == kv.sub[e]                                      \* redis_zscore
Zcard == Cardinality({s \in Scores : kv.score[s] # Absent}) \* redis_zcard

(* Mutant: a negative stop index is one too small.                         *)
PartShort(s, start, stop) ==
  LET first == IF start < 0 THEN start + Len(s) ELSE start
      last  == IF stop < 0 THEN stop + Len(s) - 1 ELSE stop
  IN  SubSeq(s, (IF first < 0 THEN 0 ELSE first) + 1,
                (IF last < 0 \/ last >= Len(s) THEN Len(s) - 1 ELSE last) + 1)

(* The index arithmetic of redis_lrange and redis_zrange.  The stop index  *)
(* is compared with the length as an unsigned number: one that is still    *)
(* negative is large.                                                      *)
Part(s, start, stop) ==
  LET first == IF start < 0 THEN start + Len(s) ELSE start
      last  == IF stop < 0 THEN stop + Len(s) ELSE stop
  IN  SubSeq(s, (IF first < 0 THEN 0 ELSE first) + 1,
                (IF last < 0 \/ last >= Len(s) THEN Len(s) - 1 ELSE last) + 1)

(* redis_lrange                                                            *)
Lrange(start, stop) == Part(Elements, start, stop)

-----------------------------------------------------------------------------
Tick ==
  /\ now < MaxTime
  /\ now' = now + 1
  /\ UNCHANGED <<type, kv, pc>>

Init ==
  /\ type \in Types
  /\ kv = Empty
  /\ now = 0
  /\ pc = [c \in Clients |-> Idle]

Next ==
  \/ Tick
  \/ \E c \in Clients :
       \/ Read(c)
       \/ ReadOrphan(c)
       \/ \E w \in WriteCommands : Check(c, w[1], w[2])
       \/ Clean(c)
       \/ CleanOrphan(c)
       \/ \E v \in Numbers : Set(c, v)
       \/ \E d \in {-1, 1} : Count(c, d)
       \/ \E n \in Seconds : Expire(c, n)
       \/ Del(c)
       \/ Clear(c)
       \/ Hset(c)
       \/ Hdel(c)
       \/ Push(c)
       \/ Pop(c)
       \/ Sadd(c)
       \/ Srem(c)
       \/ Zadd(c)
       \/ Zrem(c)
       \/ Zincrby(c)
       \/ \E d \in {-1, 1} : ClearInCount(c, d)
       \/ ClearInWrite(c)

Spec == Init /\ [][Next]_vars

-----------------------------------------------------------------------------
(* Properties.                                                             *)

NonEmptyLists == UNION {[1..n -> Items] : n \in 1..MaxLen}

(* The pair of the name has the form of its type: the lists of a hash and  *)
(* of a list are never empty, because the last hdel or pop removes the     *)
(* pair.                                                                   *)
TypeOK ==
  /\ type \in Types
  /\ kv.main = <<>> \/ /\ Len(kv.main) = 1
                       /\ kv.main[1] \in CASE type = "string" -> Numbers
                                           [] type = "hash"   -> {s \in NonEmptyLists : IsInjective(s)}
                                           [] type = "list"   -> NonEmptyLists
                                           [] type = "set"    -> -MaxSize .. MaxSize
                                           [] type = "zset"   -> {1}
  /\ \A i \in Items : kv.sub[i] \in {Absent} \cup Numbers \cup Scores
  /\ \A s \in Scores : kv.score[s] \in {Absent} \cup Items
  /\ kv.exp \in {Absent} \cup (0 .. MaxTime + 1)
  /\ now \in 0..MaxTime
  /\ \A c \in Clients : pc[c].at \in {"idle", "clean", "orphan", "write"}

(* A command whose lock does not keep a clear out.                         *)
ClearWithin == \E c \in Clients : ClearInWrite(c)

(* hkeys lists, once each, exactly the fields that hget finds.             *)
FieldsAgree ==
  /\ IsInjective(Hkeys)
  /\ ToSet(Hkeys) = {f \in Items : Hget(f) # Absent}

(* Only a clear in the middle of hset or hdel makes the fields that hkeys  *)
(* lists differ from those that hget finds.  The clean-up of a hash that   *)
(* others have changed since it was found expired (expire_hash_clean) does *)
(* not, nor does del, nor hset with a field named twice.                   *)
FieldsLostOnlyByClearWithin ==
  [][type = "hash" /\ FieldsAgree /\ ~FieldsAgree' => ClearWithin]_vars

(* By how much the size that a set stores is above the number of its       *)
(* members.                                                                *)
Drift == Scard - Cardinality(Smembers)

(* A command that names a member twice.                                    *)
NamesTwice(c) == ~IsInjective(pc[c].args)

(* Three things make the size of a set drift away from its members: del,   *)
(* which keeps the members; sadd and srem with a member that is named      *)
(* twice, which they count twice; and a clear in the middle of either.     *)
(* Nothing else does, also not once they differ, and not an expiry that is *)
(* cleaned up between the two locks of sadd or srem.                       *)
DriftOnlyByDelOrRepeat ==
  [][type = "set" /\ Drift' \notin {Drift, 0} =>
       \/ ClearWithin
       \/ \E c \in Clients : Del(c) \/ (NamesTwice(c) /\ (Sadd(c) \/ Srem(c)))]_vars

(* The pairs of a sorted set match: a score leads to an element if and     *)
(* only if the element has that score.                                     *)
Paired == \A s \in Scores, e \in Items : kv.score[s] = e <=> kv.sub[e] = s

(* A step that gives an element a score.                                   *)
Scored(e) == kv'.sub[e] \notin {kv.sub[e], Absent}

(* A zadd that puts an element under two scores.                           *)
TwoScores(c, e) == \E n, m \in DOMAIN pc[c].args : Arg(c, n)[2] = e /\ Arg(c, m)[2] = e /\ Arg(c, n)[1] # Arg(c, m)[1]

(* A score that had another element, or is given to another one as well.   *)
Tie(e) == \/ kv.score[kv'.sub[e]] \notin {Absent, e}
          \/ \E other \in Items \ {e} : kv'.sub[other] = kv'.sub[e]

(* Three things break the match: a zadd that puts an element under another *)
(* score than it has, or under two at once; a zadd or zincrby to the score *)
(* of another element; and a clear in the middle.  Neither zrem, nor a     *)
(* zincrby to a free score, nor the cleaning of an expired name do.        *)
PairsLostOnlyByMoveOrTie ==
  [][type = "zset" /\ Paired /\ ~Paired' =>
       \/ ClearWithin
       \/ \E e \in Items : /\ Scored(e)
                           /\ \/ \E c \in Clients : Zadd(c) /\ (kv.sub[e] # Absent \/ TwoScores(c, e))
                              \/ Tie(e)]_vars

(* zcard, which counts the scores, is the number of elements that zscore   *)
(* finds: redis_zcard relies on scores and elements coming in pairs.       *)
ZcardCountsElements ==
  type = "zset" => Zcard = Cardinality({e \in Items : Zscore(e) # Absent})

(* lrange returns the elements from start to stop, both included, where a  *)
(* negative index counts from the end; a stop that lies before the first   *)
(* element, which redis_lrange compares as an unsigned number, stands for  *)
(* the last one.                                                           *)
FromStart(s, i) == IF i < 0 THEN Len(s) + i ELSE i

LrangeReturnsPart ==
  type = "list" =>
    \A start, stop \in -(MaxLen + 1) .. MaxLen + 1 :
      LET wanted == {i \in DOMAIN Elements :
                       /\ FromStart(Elements, start) <= i - 1
                       /\ FromStart(Elements, stop) \notin 0 .. i - 2}
      IN  Lrange(start, stop) = [n \in 1..Cardinality(wanted) |-> Elements[SetToSortSeq(wanted, <)[n]]]
=============================================================================
