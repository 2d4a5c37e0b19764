-------------------------- MODULE BlockCacheProofs --------------------------
(***************************************************************************)
(* Theorems about BlockCache, for every set of blocks and readers, every   *)
(* capacity and every K above 1.                                           *)
(*                                                                         *)
(* CacheInv is inductive.  The capacity bound needs the agreement of map   *)
(* and lists: the node put pops from a list frees a place only if it is    *)
(* the node of a name that the map holds.                                  *)
(***************************************************************************)
EXTENDS BlockCache, FiniteSetTheorems, SequenceTheorems, TLAPS

CacheInv ==
  /\ TypeOK
  /\ IndexMatchesLists
  /\ IsFiniteSet(Cached)
  /\ WithinCapacity

-----------------------------------------------------------------------------
(* A list has a length and its positions are 1 .. Len.                     *)
LEMMA ListShape ==
  ASSUME NEW s \in Seq(Blocks)
  PROVE  /\ Len(s) \in Nat /\ DOMAIN s = 1 .. Len(s)
         /\ \A i \in 1 .. Len(s) : s[i] \in Blocks
OBVIOUS

(* A sequence given position by position is a list of blocks.              *)
LEMMA ListOf ==
  ASSUME NEW n \in Nat, NEW s \in [1 .. n -> Blocks]
  PROVE  s \in Seq(Blocks) /\ Len(s) = n /\ DOMAIN s = 1 .. n
BY SeqDef, LenProperties

(* Pushing a name to the front of a list (push_front).                     *)
LEMMA PushFront ==
  ASSUME NEW s \in Seq(Blocks), NEW b \in Blocks
  PROVE  /\ <<b>> \o s \in Seq(Blocks)
         /\ \A x : Holds(<<b>> \o s, x) <=> x = b \/ Holds(s, x)
         /\ Distinct(s) /\ ~Holds(s, b) => Distinct(<<b>> \o s)
<1> DEFINE n == Len(s)
           t == <<b>> \o s
<1>1. n \in Nat /\ DOMAIN s = 1 .. n
  BY ListShape
<1>2. /\ t \in Seq(Blocks) /\ DOMAIN t = 1 .. n + 1
      /\ t[1] = b /\ \A i \in 1 .. n : t[i + 1] = s[i]
  BY <1>1
<1> HIDE DEF n, t
<1>3. \A i \in 1 .. n + 1 : i = 1 \/ (i - 1 \in 1 .. n /\ t[i] = s[i - 1])
  <2> SUFFICES ASSUME NEW i \in 1 .. n + 1, i # 1 PROVE i - 1 \in 1 .. n /\ t[i] = s[i - 1]
    OBVIOUS
  <2>1. i - 1 \in 1 .. n /\ (i - 1) + 1 = i
    BY <1>1
  <2> QED
    BY <1>2, <2>1
<1>4. ASSUME NEW x PROVE Holds(t, x) <=> x = b \/ Holds(s, x)
  <2>1. ASSUME Holds(t, x) PROVE x = b \/ Holds(s, x)
    <3>1. PICK i \in 1 .. n + 1 : t[i] = x
      BY <1>2, <2>1 DEF Holds
    <3>2. i = 1 \/ (i - 1 \in 1 .. n /\ t[i] = s[i - 1])
      BY <1>3
    <3> QED
      BY <1>1, <1>2, <3>1, <3>2 DEF Holds
  <2>2. ASSUME x = b PROVE Holds(t, x)
    BY <1>1, <1>2, <2>2 DEF Holds
  <2>3. ASSUME Holds(s, x) PROVE Holds(t, x)
    <3>1. PICK i \in 1 .. n : s[i] = x
      BY <1>1, <2>3 DEF Holds
    <3>2. i + 1 \in 1 .. n + 1 /\ t[i + 1] = x
      BY <1>1, <1>2, <3>1
    <3> QED
      BY <1>2, <3>2 DEF Holds
  <2> QED
    BY <2>1, <2>2, <2>3
<1>5. ASSUME Distinct(s), ~Holds(s, b) PROVE Distinct(t)
  <2> SUFFICES ASSUME NEW i \in 1 .. n + 1, NEW j \in 1 .. n + 1, t[i] = t[j] PROVE i = j
    BY <1>2 DEF Distinct
  <2>1. ASSUME NEW k \in 1 .. n + 1, k # 1 PROVE t[k] # b
    BY <1>1, <1>3, <1>5, <2>1 DEF Holds
  <2>2. CASE i = 1 \/ j = 1
    BY <1>2, <2>1, <2>2
  <2>3. CASE i # 1 /\ j # 1
    <3>1. /\ i - 1 \in DOMAIN s /\ j - 1 \in DOMAIN s
          /\ s[i - 1] = s[j - 1]
      BY <1>1, <1>3, <2>3
    <3>2. i - 1 = j - 1
      BY <1>5, <3>1 DEF Distinct
    <3> QED
      BY <1>1, <3>2
  <2> QED
    BY <2>2, <2>3
<1> QED
  BY <1>2, <1>4, <1>5 DEF t

(* Unlinking the node of a name (erase, splice).                           *)
LEMMA Unlink ==
  ASSUME NEW s \in Seq(Blocks), NEW b
  PROVE  /\ Without(s, b) \in Seq(Blocks)
         /\ Distinct(s) /\ Holds(s, b) =>
              /\ Distinct(Without(s, b))
              /\ \A x : Holds(Without(s, b), x) <=> Holds(s, x) /\ x # b
<1> DEFINE n == Len(s)
           a == At(s, b)
           w == Without(s, b)
<1>1. n \in Nat /\ DOMAIN s = 1 .. n /\ \A i \in 1 .. n : s[i] \in Blocks
  BY ListShape
<1>2. w = [i \in 1 .. n - 1 |-> IF i < a THEN s[i] ELSE s[i + 1]]
  BY DEF Without
<1> HIDE DEF n, a, w
<1>3. w \in Seq(Blocks) /\ DOMAIN w = 1 .. n - 1
  <2>1. CASE n = 0
    <3>1. 1 .. n - 1 = {}
      BY <2>1
    <3>2. w = <<>>
      BY <1>2, <3>1
    <3> QED
      BY <3>1, <3>2
  <2>2. CASE n # 0
    <3>1. n - 1 \in Nat /\ \A i \in 1 .. n - 1 : i \in 1 .. n /\ i + 1 \in 1 .. n
      BY <1>1, <2>2
    <3>2. w \in [1 .. n - 1 -> Blocks]
      BY <1>1, <1>2, <3>1
    <3> QED
      BY <3>1, <3>2, ListOf
  <2> QED
    BY <2>1, <2>2
<1>4. ASSUME Distinct(s), Holds(s, b)
      PROVE  Distinct(w) /\ \A x : Holds(w, x) <=> Holds(s, x) /\ x # b
  <2>1. a \in 1 .. n /\ s[a] = b /\ n - 1 \in Nat
    <3>1. a \in DOMAIN s /\ s[a] = b
      BY <1>4 DEF Holds, At, a
    <3> QED
      BY <1>1, <3>1
  <2>2. \A i, j \in 1 .. n : s[i] = s[j] => i = j
    BY <1>1, <1>4 DEF Distinct
  <2> DEFINE src(i) == IF i < a THEN i ELSE i + 1
  <2>3. ASSUME NEW i \in 1 .. n - 1
        PROVE  w[i] = s[src(i)] /\ src(i) \in 1 .. n /\ src(i) # a
    BY <1>1, <1>2, <2>1
  <2>4. ASSUME NEW i \in 1 .. n - 1, NEW j \in 1 .. n - 1, src(i) = src(j) PROVE i = j
    BY <1>1, <2>1, <2>4
  <2>5. Distinct(w)
    <3> SUFFICES ASSUME NEW i \in 1 .. n - 1, NEW j \in 1 .. n - 1, w[i] = w[j] PROVE i = j
      BY <1>3 DEF Distinct
    <3>1. src(i) = src(j)
      BY <2>2, <2>3
    <3> QED
      BY <2>4, <3>1
  <2>6. ASSUME NEW x, Holds(w, x) PROVE Holds(s, x) /\ x # b
    <3>1. PICK i \in 1 .. n - 1 : w[i] = x
      BY <1>3, <2>6 DEF Holds
    <3>2. s[src(i)] = x /\ src(i) \in 1 .. n /\ src(i) # a
      BY <2>3, <3>1
    <3> HIDE DEF src
    <3> QED
      BY <1>1, <2>1, <2>2, <3>2 DEF Holds
  <2>7. ASSUME NEW x, Holds(s, x), x # b PROVE Holds(w, x)
    <3>1. PICK j \in 1 .. n : s[j] = x
      BY <1>1, <2>7 DEF Holds
    <3>2. j # a
      BY <2>1, <2>7, <3>1
    <3>3. CASE j < a
      <4>1. j \in 1 .. n - 1 /\ src(j) = j
        BY <1>1, <2>1, <3>3
      <4> QED
        BY <1>3, <2>3, <3>1, <4>1 DEF Holds
    <3>4. CASE j > a
      <4>1. j - 1 \in 1 .. n - 1 /\ src(j - 1) = j
        BY <1>1, <2>1, <3>4
      <4> QED
        BY <1>3, <2>3, <3>1, <4>1 DEF Holds
    <3> QED
      BY <2>1, <3>2, <3>3, <3>4
  <2> QED
    BY <2>5, <2>6, <2>7
<1> QED
  BY <1>3, <1>4 DEF w

(* Moving a name to the front of a list, or adding it there.               *)
LEMMA MoveToFront ==
  ASSUME NEW s \in Seq(Blocks), NEW b \in Blocks
  PROVE  /\ ToFront(s, b) \in Seq(Blocks)
         /\ Distinct(s) => /\ Distinct(ToFront(s, b))
                           /\ \A x : Holds(ToFront(s, b), x) <=> x = b \/ Holds(s, x)
<1>1. CASE Holds(s, b)
  <2> DEFINE w == Without(s, b)
  <2>1. ToFront(s, b) = <<b>> \o w
    BY <1>1 DEF ToFront
  <2>2. /\ w \in Seq(Blocks)
        /\ Distinct(s) => Distinct(w) /\ \A x : Holds(w, x) <=> Holds(s, x) /\ x # b
    BY <1>1, Unlink
  <2> HIDE DEF w
  <2>3. /\ <<b>> \o w \in Seq(Blocks)
        /\ \A x : Holds(<<b>> \o w, x) <=> x = b \/ Holds(w, x)
        /\ Distinct(w) /\ ~Holds(w, b) => Distinct(<<b>> \o w)
    BY <2>2, PushFront
  <2> QED
    BY <1>1, <2>1, <2>2, <2>3, ZenonT(60)
<1>2. CASE ~Holds(s, b)
  <2>1. ToFront(s, b) = <<b>> \o s
    BY <1>2 DEF ToFront
  <2> QED
    BY <1>2, <2>1, PushFront
<1> QED
  BY <1>1, <1>2

(* Removing the last node of a list (pop_back).                            *)
LEMMA PopBack ==
  ASSUME NEW s \in Seq(Blocks), s # <<>>, Distinct(s)
  PROVE  LET p == SubSeq(s, 1, Len(s) - 1)
         IN  /\ p \in Seq(Blocks) /\ Distinct(p)
             /\ \A x : Holds(p, x) <=> Holds(s, x) /\ x # s[Len(s)]
             /\ Holds(s, s[Len(s)]) /\ s[Len(s)] \in Blocks
<1> DEFINE n == Len(s)
           p == SubSeq(s, 1, n - 1)
<1>1. n \in Nat \ {0} /\ DOMAIN s = 1 .. n /\ \A i \in 1 .. n : s[i] \in Blocks
  BY ListShape
<1>2. p \in Seq(Blocks) /\ DOMAIN p = 1 .. n - 1 /\ \A i \in 1 .. n - 1 : p[i] = s[i]
  BY <1>1
<1> HIDE DEF n, p
<1>3. \A i, j \in 1 .. n : s[i] = s[j] => i = j
  BY <1>1 DEF Distinct
<1>4. \A i \in 1 .. n - 1 : i \in 1 .. n /\ i # n
  BY <1>1
<1>5. \A i \in 1 .. n : i = n \/ i \in 1 .. n - 1
  BY <1>1
<1>6. n \in 1 .. n
  BY <1>1
<1>7. Distinct(p)
  BY <1>2, <1>3, <1>4 DEF Distinct
<1>8. ASSUME NEW x PROVE Holds(p, x) <=> Holds(s, x) /\ x # s[n]
  BY <1>1, <1>2, <1>3, <1>4, <1>5, <1>6 DEF Holds
<1>9. Holds(s, s[n]) /\ s[n] \in Blocks
  BY <1>1, <1>6 DEF Holds
<1> QED
  BY <1>2, <1>7, <1>8, <1>9 DEF n, p

-----------------------------------------------------------------------------
(* A hit, and the update branch of put (update_access_count).              *)
LEMMA TouchInv ==
  ASSUME CacheInv, NEW b \in Blocks, cache_map_[b] # "none", UpdateAccessCount(b),
         total_requests_' \in Nat, hit_requests_' \in 0 .. total_requests_',
         loading' \in [Readers -> Blocks \cup {None}]
  PROVE  CacheInv'
<1> DEFINE less == cache_list_less_k
           more == cache_list_greater_k
           n == access_count[b] + 1
<1>1. /\ less \in Seq(Blocks) /\ more \in Seq(Blocks) /\ recency \in Seq(Blocks)
      /\ cache_map_ \in [Blocks -> {"none", "less", "greater"}]
      /\ access_count \in [Blocks -> Nat]
  BY DEF CacheInv, TypeOK
<1>2. /\ Distinct(less) /\ Distinct(more)
      /\ \A x \in Blocks :
           /\ cache_map_[x] = "less" <=> Holds(less, x)
           /\ cache_map_[x] = "greater" <=> Holds(more, x)
           /\ cache_map_[x] = "none" <=> access_count[x] = 0
           /\ cache_map_[x] = "greater" <=> access_count[x] >= K
  BY DEF CacheInv, IndexMatchesLists
<1>3. /\ access_count' = [access_count EXCEPT ![b] = n]
      /\ recency' = ToFront(recency, b)
  BY DEF UpdateAccessCount
<1>4. recency' \in Seq(Blocks)
  BY <1>1, <1>3, MoveToFront
<1>5. access_count[b] \in Nat \ {0} /\ n \in Nat /\ n > 1 /\ K \in Nat /\ K > 1
  BY <1>1, <1>2, CacheAssumption
<1>6. \A x \in Blocks : access_count'[x] = IF x = b THEN n ELSE access_count[x]
  BY <1>1, <1>3
<1>7. access_count' \in [Blocks -> Nat]
  BY <1>1, <1>3, <1>5
<1>8. /\ cache_list_less_k' \in Seq(Blocks) /\ cache_list_greater_k' \in Seq(Blocks)
      /\ cache_map_' \in [Blocks -> {"none", "less", "greater"}]
      /\ Distinct(cache_list_less_k') /\ Distinct(cache_list_greater_k')
      /\ \A x \in Blocks :
           /\ cache_map_'[x] = "less" <=> Holds(cache_list_less_k', x)
           /\ cache_map_'[x] = "greater" <=> Holds(cache_list_greater_k', x)
           /\ cache_map_'[x] = "none" <=> access_count'[x] = 0
           /\ cache_map_'[x] = "greater" <=> access_count'[x] >= K
           /\ cache_map_'[x] = "none" <=> cache_map_[x] = "none"
  <2>1. CASE n < K
    <3>1. /\ cache_list_less_k' = ToFront(less, b)
          /\ cache_list_greater_k' = more /\ cache_map_' = cache_map_
      BY <1>5, <2>1 DEF UpdateAccessCount
    <3>2. /\ ToFront(less, b) \in Seq(Blocks) /\ Distinct(ToFront(less, b))
          /\ \A x : Holds(ToFront(less, b), x) <=> x = b \/ Holds(less, x)
      BY <1>1, <1>2, MoveToFront, SMTT(60)
    <3>3. ~(access_count[b] >= K) /\ ~(n >= K) /\ n # 0
      BY <1>5, <2>1
    <3>4. cache_map_[b] = "less"
      BY <1>1, <1>2, <3>3
    <3> QED
      BY <1>1, <1>2, <1>6, <3>1, <3>2, <3>3, <3>4, SMTT(60)
  <2>2. CASE n = K
    <3>1. /\ cache_list_less_k' = Without(less, b)
          /\ cache_list_greater_k' = ToFront(more, b)
          /\ cache_map_' = [cache_map_ EXCEPT ![b] = "greater"]
      BY <1>5, <2>2 DEF UpdateAccessCount
    <3>2. ~(access_count[b] >= K) /\ n >= K /\ n # 0
      BY <1>5, <2>2
    <3>3. cache_map_[b] = "less" /\ Holds(less, b)
      BY <1>1, <1>2, <3>2
    <3>4. /\ Without(less, b) \in Seq(Blocks) /\ Distinct(Without(less, b))
          /\ \A x : Holds(Without(less, b), x) <=> Holds(less, x) /\ x # b
      BY <1>1, <1>2, <3>3, Unlink
    <3>5. /\ ToFront(more, b) \in Seq(Blocks) /\ Distinct(ToFront(more, b))
          /\ \A x : Holds(ToFront(more, b), x) <=> x = b \/ Holds(more, x)
      BY <1>1, <1>2, MoveToFront, SMTT(60)
    <3>6. /\ cache_map_' \in [Blocks -> {"none", "less", "greater"}]
          /\ \A x \in Blocks : cache_map_'[x] = IF x = b THEN "greater" ELSE cache_map_[x]
      BY <1>1, <3>1
    <3> QED
      BY <1>1, <1>2, <1>6, <3>1, <3>2, <3>3, <3>4, <3>5, <3>6, SMTT(60)
  <2>3. CASE n > K
    <3>1. /\ cache_list_less_k' = less
          /\ cache_list_greater_k' = ToFront(more, b) /\ cache_map_' = cache_map_
      BY <1>5, <2>3 DEF UpdateAccessCount
    <3>2. /\ ToFront(more, b) \in Seq(Blocks) /\ Distinct(ToFront(more, b))
          /\ \A x : Holds(ToFront(more, b), x) <=> x = b \/ Holds(more, x)
      BY <1>1, <1>2, MoveToFront, SMTT(60)
    <3>3. access_count[b] >= K /\ n >= K /\ n # 0
      BY <1>5, <2>3
    <3>4. cache_map_[b] = "greater"
      BY <1>1, <1>2, <3>3
    <3> QED
      BY <1>1, <1>2, <1>6, <3>1, <3>2, <3>3, <3>4
  <2> QED
    BY <1>5, <2>1, <2>2, <2>3, SMTT(60)
<1>9. Cached' = Cached
  BY <1>8 DEF Cached
<1>10. TypeOK'
  BY <1>4, <1>7, <1>8 DEF TypeOK
<1>11. IndexMatchesLists'
  BY <1>8 DEF IndexMatchesLists
<1>12. IsFiniteSet(Cached)' /\ WithinCapacity'
  BY <1>9 DEF CacheInv, WithinCapacity
<1> QED
  BY <1>10, <1>11, <1>12 DEF CacheInv

(* The insert branch of put, after a miss.                                 *)
LEMMA InsertInv ==
  ASSUME CacheInv, NEW b \in Blocks, cache_map_[b] = "none", Insert(b),
         total_requests_' = total_requests_, hit_requests_' = hit_requests_,
         loading' \in [Readers -> Blocks \cup {None}]
  PROVE  CacheInv'
<1> DEFINE less == cache_list_less_k
           more == cache_list_greater_k
           v == Victim
           pl == PopVictim(less)
           pm == PopVictim(more)
<1>1. /\ less \in Seq(Blocks) /\ more \in Seq(Blocks) /\ recency \in Seq(Blocks)
      /\ cache_map_ \in [Blocks -> {"none", "less", "greater"}]
      /\ access_count \in [Blocks -> Nat]
      /\ total_requests_ \in Nat /\ hit_requests_ \in 0 .. total_requests_
  BY DEF CacheInv, TypeOK
<1>2. /\ Distinct(less) /\ Distinct(more)
      /\ \A x \in Blocks :
           /\ cache_map_[x] = "less" <=> Holds(less, x)
           /\ cache_map_[x] = "greater" <=> Holds(more, x)
           /\ cache_map_[x] = "none" <=> access_count[x] = 0
           /\ cache_map_[x] = "greater" <=> access_count[x] >= K
  BY DEF CacheInv, IndexMatchesLists
<1>3. /\ cache_list_less_k' = <<b>> \o pl /\ cache_list_greater_k' = pm
      /\ cache_map_' = [x \in Blocks |-> IF x = b THEN "less"
                                         ELSE IF x = v THEN "none" ELSE cache_map_[x]]
      /\ access_count' = [x \in Blocks |-> IF x = b THEN 1
                                           ELSE IF x = v THEN 0 ELSE access_count[x]]
      /\ recency' = <<b>> \o (IF v = None THEN recency ELSE Without(recency, v))
  BY DEF Insert
<1>4. /\ IsFiniteSet(Cached) /\ Cardinality(Cached) \in Nat
      /\ Cardinality(Cached) <= Capacity /\ Capacity \in Nat \ {0}
  BY FS_CardinalityType, CacheAssumption DEF CacheInv, WithinCapacity
<1>5. /\ pl \in Seq(Blocks) /\ Distinct(pl)
      /\ \A x \in Blocks : Holds(pl, x) <=> Holds(less, x) /\ x # v
      /\ pm \in Seq(Blocks) /\ Distinct(pm)
      /\ \A x \in Blocks : Holds(pm, x) <=> Holds(more, x) /\ x # v
      /\ (v = None /\ Cardinality(Cached) < Capacity) \/ v \in Cached
  <2>1. CASE Cardinality(Cached) < Capacity
    <3>1. v = None
      BY <1>4, <2>1 DEF Victim, Full
    <3>2. pl = less /\ pm = more
      BY <3>1 DEF PopVictim
    <3> QED
      BY <1>1, <1>2, <2>1, <3>1, <3>2, CacheAssumption, SMTT(60)
  <2>2. CASE ~(Cardinality(Cached) < Capacity) /\ less # <<>>
    <3> DEFINE p == SubSeq(less, 1, Len(less) - 1)
    <3>1. v = less[Len(less)]
      BY <1>4, <2>2, SMTT(60) DEF Victim, Full
    <3>2. /\ p \in Seq(Blocks) /\ Distinct(p)
          /\ \A x : Holds(p, x) <=> Holds(less, x) /\ x # less[Len(less)]
          /\ Holds(less, less[Len(less)]) /\ less[Len(less)] \in Blocks
      BY <1>1, <1>2, <2>2, PopBack, SMTT(60)
    <3> HIDE DEF p
    <3>3. v \in Blocks /\ Holds(less, v) /\ v # None /\ \A x : Holds(p, x) <=> Holds(less, x) /\ x # v
      BY <3>1, <3>2, CacheAssumption
    <3>4. cache_map_[v] = "less" /\ ~Holds(more, v) /\ v \in Cached
      BY <1>2, <3>3 DEF Cached
    <3>5. pl = p /\ pm = more
      BY <3>3, <3>4 DEF PopVictim, p
    <3> HIDE DEF v
    <3> QED
      BY <1>1, <1>2, <3>2, <3>3, <3>4, <3>5, SMTT(60)
  <2>3. CASE ~(Cardinality(Cached) < Capacity) /\ less = <<>>
    <3> DEFINE p == SubSeq(more, 1, Len(more) - 1)
    <3>1. v = more[Len(more)]
      BY <1>4, <2>3 DEF Victim, Full
    <3>2. more # <<>>
      <4>1. Cached # {}
        BY <1>4, <2>3, FS_EmptySet
      <4>2. PICK x \in Blocks : cache_map_[x] # "none"
        BY <4>1 DEF Cached
      <4>3. ~Holds(less, x)
        BY <2>3 DEF Holds
      <4>4. Holds(more, x)
        BY <1>1, <1>2, <4>2, <4>3
      <4> QED
        BY <4>4 DEF Holds
    <3>3. /\ p \in Seq(Blocks) /\ Distinct(p)
          /\ \A x : Holds(p, x) <=> Holds(more, x) /\ x # more[Len(more)]
          /\ Holds(more, more[Len(more)]) /\ more[Len(more)] \in Blocks
      BY <1>1, <1>2, <3>2, PopBack, SMTT(60)
    <3> HIDE DEF p
    <3>4. v \in Blocks /\ Holds(more, v) /\ v # None /\ \A x : Holds(p, x) <=> Holds(more, x) /\ x # v
      BY <3>1, <3>3, CacheAssumption
    <3>5. cache_map_[v] = "greater" /\ ~Holds(less, v) /\ v \in Cached
      BY <1>2, <3>4 DEF Cached
    <3>6. pl = less /\ pm = p
      BY <3>4, <3>5, SMTT(60) DEF PopVictim, p
    <3> HIDE DEF v
    <3> QED
      BY <1>1, <1>2, <3>3, <3>4, <3>5, <3>6, SMTT(60)
  <2> QED
    BY <2>1, <2>2, <2>3
<1> HIDE DEF v, pl, pm
<1>6. ~Holds(pl, b) /\ ~Holds(pm, b) /\ v # b
  BY <1>2, <1>5, CacheAssumption, SMTT(60) DEF Cached
<1>7. /\ cache_list_less_k' \in Seq(Blocks) /\ Distinct(cache_list_less_k')
      /\ \A x : Holds(cache_list_less_k', x) <=> x = b \/ Holds(pl, x)
  BY <1>3, <1>5, <1>6, PushFront, SMTT(60)
<1>8. recency' \in Seq(Blocks)
  <2>1. (IF v = None THEN recency ELSE Without(recency, v)) \in Seq(Blocks)
    BY <1>1, Unlink
  <2> QED
    BY <1>3, <2>1, PushFront
<1>9. /\ cache_map_' \in [Blocks -> {"none", "less", "greater"}]
      /\ access_count' \in [Blocks -> Nat]
      /\ \A x \in Blocks :
           /\ cache_map_'[x] = IF x = b THEN "less" ELSE IF x = v THEN "none" ELSE cache_map_[x]
           /\ access_count'[x] = IF x = b THEN 1 ELSE IF x = v THEN 0 ELSE access_count[x]
  BY <1>1, <1>3, SMTT(60)
<1>10. TypeOK'
  BY <1>1, <1>3, <1>5, <1>7, <1>8, <1>9, SMTT(60) DEF TypeOK
<1>11. IndexMatchesLists'
  <2>1. K \in Nat /\ ~(1 >= K) /\ ~(0 >= K)
    BY CacheAssumption, SMTT(60)
  <2>2. ASSUME NEW x \in Blocks
        PROVE  /\ cache_map_'[x] = "less" <=> Holds(cache_list_less_k', x)
               /\ cache_map_'[x] = "greater" <=> Holds(cache_list_greater_k', x)
               /\ cache_map_'[x] = "none" <=> access_count'[x] = 0
               /\ cache_map_'[x] = "greater" <=> access_count'[x] >= K
    BY <1>2, <1>3, <1>5, <1>6, <1>7, <1>9, <2>1, SMTT(60)
  <2> QED
    BY <1>3, <1>5, <1>7, <2>2 DEF IndexMatchesLists
<1>12. Cached' = (Cached \ {v}) \cup {b} /\ b \notin Cached
  BY <1>9 DEF Cached
<1>13. IsFiniteSet(Cached') /\ Cardinality(Cached') <= Capacity
  <2> DEFINE R == Cached \ {v}
  <2>1. /\ IsFiniteSet(R) /\ Cardinality(R) \in Nat
        /\ Cardinality(R) = IF v \in Cached THEN Cardinality(Cached) - 1 ELSE Cardinality(Cached)
    BY <1>4, FS_RemoveElement, FS_CardinalityType
  <2>2. b \notin R
    BY <1>12
  <2> HIDE DEF R
  <2>3. IsFiniteSet(R \cup {b}) /\ Cardinality(R \cup {b}) = Cardinality(R) + 1
    BY <2>1, <2>2, FS_AddElement, SMTT(60)
  <2>4. Cardinality(R) + 1 <= Capacity
    BY <1>4, <1>5, <2>1
  <2> QED
    BY <1>12, <2>3, <2>4 DEF R
<1> QED
  BY <1>10, <1>11, <1>13 DEF CacheInv, WithinCapacity

-----------------------------------------------------------------------------
(* Every step of a reader keeps the invariant.                             *)
LEMMA CacheNextInv == CacheInv /\ [Next]_vars => CacheInv'
<1> SUFFICES ASSUME CacheInv, [Next]_vars PROVE CacheInv'
  OBVIOUS
<1>1. /\ total_requests_ \in Nat /\ hit_requests_ \in 0 .. total_requests_
      /\ loading \in [Readers -> Blocks \cup {None}]
  BY DEF CacheInv, TypeOK
<1>2. ASSUME NEW r \in Readers, NEW b \in Blocks, Get(r, b) PROVE CacheInv'
  <2>1. CASE cache_map_[b] = "none"
    <3>1. /\ cache_list_less_k' = cache_list_less_k /\ recency' = recency
          /\ cache_list_greater_k' = cache_list_greater_k /\ cache_map_' = cache_map_
          /\ access_count' = access_count /\ hit_requests_' = hit_requests_
          /\ loading' \in [Readers -> Blocks \cup {None}] /\ total_requests_' \in Nat
          /\ hit_requests_ \in 0 .. total_requests_'
      BY <1>1, <1>2, <2>1, SMTT(60) DEF Get
    <3>2. TypeOK'
      BY <1>1, <3>1 DEF CacheInv, TypeOK
    <3>3. IndexMatchesLists' /\ Cached' = Cached
      BY <3>1 DEF CacheInv, IndexMatchesLists, Cached
    <3> QED
      BY <3>2, <3>3, SMTT(60) DEF CacheInv, WithinCapacity
  <2>2. CASE cache_map_[b] # "none"
    <3>1. /\ UpdateAccessCount(b) /\ total_requests_' \in Nat /\ hit_requests_' \in 0 .. total_requests_'
          /\ loading' \in [Readers -> Blocks \cup {None}]
      BY <1>1, <1>2, <2>2, SMTT(60) DEF Get
    <3> QED
      BY <2>2, <3>1, TouchInv
  <2> QED
    BY <2>1, <2>2
<1>3. ASSUME NEW r \in Readers, Put(r) PROVE CacheInv'
  <2>1. /\ loading[r] \in Blocks /\ loading' \in [Readers -> Blocks \cup {None}]
        /\ total_requests_' = total_requests_ /\ hit_requests_' = hit_requests_
    BY <1>1, <1>3 DEF Put
  <2>2. CASE cache_map_[loading[r]] # "none"
    <3>1. UpdateAccessCount(loading[r])
      BY <1>3, <2>2 DEF Put
    <3> QED
      BY <1>1, <2>1, <2>2, <3>1, TouchInv, SMTT(60)
  <2>3. CASE cache_map_[loading[r]] = "none"
    <3>1. Insert(loading[r])
      BY <1>3, <2>3, SMTT(60) DEF Put
    <3> QED
      BY <2>1, <2>3, <3>1, InsertInv
  <2> QED
    BY <2>2, <2>3, SMTT(60)
<1>4. CASE UNCHANGED vars
  BY <1>4 DEF vars, CacheInv, TypeOK, IndexMatchesLists, WithinCapacity, Cached
<1> QED
  BY <1>2, <1>3, <1>4 DEF Next

(* The cache's invariant holds in every reachable state.                   *)
THEOREM CacheInvariant == Spec => []CacheInv
<1>1. Init => CacheInv
  <2> SUFFICES ASSUME Init PROVE CacheInv
    OBVIOUS
  <2>1. Cached = {}
    BY DEF Init, Cached
  <2>2. IsFiniteSet({}) /\ Cardinality({}) = 0
    BY FS_EmptySet
  <2>3. TypeOK
    BY DEF Init, TypeOK
  <2>4. IndexMatchesLists
    BY CacheAssumption DEF Init, IndexMatchesLists, Distinct, Holds
  <2> QED
    BY <2>1, <2>2, <2>3, <2>4, CacheAssumption DEF CacheInv, WithinCapacity
<1> QED
  BY <1>1, CacheNextInv, PTL DEF Spec

(* Map and lists agree, so update_access_count and put unlink a node only  *)
(* from the list it is in, whatever the readers' interleaving.             *)
THEOREM CacheIndexAgrees == Spec => []IndexMatchesLists
<1>1. CacheInv => IndexMatchesLists
  BY DEF CacheInv
<1> QED
  BY <1>1, CacheInvariant, PTL

(* The cache never holds more blocks than its capacity.                    *)
THEOREM CacheBounded == Spec => []WithinCapacity
<1>1. CacheInv => WithinCapacity
  BY DEF CacheInv
<1> QED
  BY <1>1, CacheInvariant, PTL
=============================================================================
