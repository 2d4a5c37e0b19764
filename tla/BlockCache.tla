------------------------------ MODULE BlockCache ----------------------------
(***************************************************************************)
(* The LRU-K cache of decoded blocks: class BlockCache                     *)
(* (src/src/block/block_cache.cpp) and its one client, SST::read_block     *)
(* (src/src/sst/sst.cpp), run by several reader threads.                   *)
(*                                                                         *)
(* A block is named by its (sst_id, block_id).  The cache keeps two lists, *)
(* most recently used first: blocks used fewer than K times and blocks     *)
(* used at least K times, and a hash map from names to list nodes.         *)
(* BlockCache::get and put each run under the cache's mutex, so each is    *)
(* one step; read_block holds no lock between them.                        *)
(***************************************************************************)
EXTENDS Integers, Sequences, FiniteSets

CONSTANTS
  Blocks,       \* the names of the blocks of all files
  Readers,      \* threads that run SST::read_block
  Capacity,     \* capacity_
  K,            \* k_
  MaxRequests,  \* bound: calls of BlockCache::get in a behaviour
  None          \* a value that is not a block

ASSUME CacheAssumption ==
  /\ Capacity \in Nat \ {0}
  /\ K \in Nat \ {0, 1}
  /\ MaxRequests \in Nat
  /\ None \notin Blocks

VARIABLES
  cache_list_less_k,     \* names, most recently used first
  cache_list_greater_k,
  cache_map_,            \* for each name, the list its node is in
  access_count,          \* of the node of a name; 0 if there is none
  total_requests_,
  hit_requests_,
  loading,               \* for each reader, the block it reads from its file
  recency                \* history: cached names, last used first

vars == <<cache_list_less_k, cache_list_greater_k, cache_map_, access_count,
          total_requests_, hit_requests_, loading, recency>>

-----------------------------------------------------------------------------
At(s, b) == CHOOSE i \in DOMAIN s : s[i] = b

Holds(s, b) == \E i \in DOMAIN s : s[i] = b

(* s with the node of b unlinked.                                          *)
Without(s, b) ==
  [i \in 1 .. Len(s) - 1 |-> IF i < At(s, b) THEN s[i] ELSE s[i + 1]]

(* Mutant: the node is copied to the head and not unlinked.                *)
CopyToFront(s, b) == <<b>> \o s

(* s with b at its head.                                                   *)
ToFront(s, b) == <<b>> \o (IF Holds(s, b) THEN Without(s, b) ELSE s)

Cached == {b \in Blocks : cache_map_[b] # "none"}

(* update_access_count.  The branches depend on the new count only; which  *)
(* list the node is really in is an invariant of the program.              *)
UpdateAccessCount(b) ==
  LET n == access_count[b] + 1
  IN  /\ access_count' = [access_count EXCEPT ![b] = n]
      /\ \/ /\ n < K
            /\ cache_list_less_k' = ToFront(cache_list_less_k, b)
            /\ UNCHANGED <<cache_list_greater_k, cache_map_>>
         \/ /\ n = K
            /\ cache_list_less_k' = Without(cache_list_less_k, b)
            /\ cache_list_greater_k' = ToFront(cache_list_greater_k, b)
            /\ cache_map_' = [cache_map_ EXCEPT ![b] = "greater"]
         \/ /\ n > K
            /\ cache_list_greater_k' = ToFront(cache_list_greater_k, b)
            /\ UNCHANGED <<cache_list_less_k, cache_map_>>
      /\ recency' = ToFront(recency, b)

(* Mutant: only a miss counts as a request.                                *)
GetCountsMisses(r, b) ==
  /\ loading[r] = None
  /\ total_requests_ < MaxRequests
  /\ IF cache_map_[b] = "none"
     THEN /\ loading' = [loading EXCEPT ![r] = b]
          /\ total_requests_' = total_requests_ + 1
          /\ UNCHANGED <<cache_list_less_k, cache_list_greater_k, cache_map_,
                         access_count, hit_requests_, recency>>
     ELSE /\ hit_requests_' = hit_requests_ + 1
          /\ UpdateAccessCount(b)
          /\ UNCHANGED <<loading, total_requests_>>

(* BlockCache::get, as read_block calls it: a hit returns the block, a     *)
(* miss sends the reader to the file.                                      *)
Get(r, b) ==
  /\ loading[r] = None
  /\ total_requests_ < MaxRequests
  /\ total_requests_' = total_requests_ + 1
  /\ IF cache_map_[b] = "none"
     THEN /\ loading' = [loading EXCEPT ![r] = b]
          /\ UNCHANGED <<cache_list_less_k, cache_list_greater_k, cache_map_,
                         access_count, hit_requests_, recency>>
     ELSE /\ hit_requests_' = hit_requests_ + 1
          /\ UpdateAccessCount(b)
          /\ UNCHANGED loading

(* Mutant: put evicts only when the cache has outgrown its capacity.       *)
Overfull == Cardinality(Cached) > Capacity

Full == Cardinality(Cached) >= Capacity

(* Mutant: the list of often used blocks is tried first.                   *)
VictimOftenUsed ==
  IF ~Full
  THEN None
  ELSE IF cache_list_greater_k # <<>>
       THEN cache_list_greater_k[Len(cache_list_greater_k)]
       ELSE cache_list_less_k[Len(cache_list_less_k)]

(* The node put evicts when the cache is full: the last one of the list    *)
(* of rarely used blocks, or of the other list if that is empty.           *)
Victim ==
  IF ~Full
  THEN None
  ELSE IF cache_list_less_k # <<>>
       THEN cache_list_less_k[Len(cache_list_less_k)]
       ELSE cache_list_greater_k[Len(cache_list_greater_k)]

PopVictim(s) == IF Victim # None /\ Holds(s, Victim) THEN SubSeq(s, 1, Len(s) - 1) ELSE s

(* The branch of put that inserts a new node.                              *)
Insert(b) ==
  /\ cache_list_less_k' = <<b>> \o PopVictim(cache_list_less_k)
  /\ cache_list_greater_k' = PopVictim(cache_list_greater_k)
  /\ cache_map_' = [x \in Blocks |-> IF x = b THEN "less"
                                     ELSE IF x = Victim THEN "none" ELSE cache_map_[x]]
  /\ access_count' = [x \in Blocks |-> IF x = b THEN 1
                                       ELSE IF x = Victim THEN 0 ELSE access_count[x]]
  /\ recency' = <<b>> \o (IF Victim = None THEN recency ELSE Without(recency, Victim))

(* BlockCache::put, as read_block calls it after reading the file.         *)
Put(r) ==
  /\ loading[r] # None
  /\ IF cache_map_[loading[r]] # "none"
     THEN UpdateAccessCount(loading[r])
     ELSE Insert(loading[r])
  /\ loading' = [loading EXCEPT ![r] = None]
  /\ UNCHANGED <<total_requests_, hit_requests_>>

Init ==
  /\ cache_list_less_k = <<>>
  /\ cache_list_greater_k = <<>>
  /\ cache_map_ = [b \in Blocks |-> "none"]
  /\ access_count = [b \in Blocks |-> 0]
  /\ total_requests_ = 0
  /\ hit_requests_ = 0
  /\ loading = [r \in Readers |-> None]
  /\ recency = <<>>

Next ==
  \/ \E r \in Readers, b \in Blocks : Get(r, b)
  \/ \E r \in Readers : Put(r)

Spec == Init /\ [][Next]_vars

-----------------------------------------------------------------------------
(* Properties.                                                             *)

(* The types of the variables; a rate of hits is at most 1 (hit_rate).     *)
TypeOK ==
  /\ cache_list_less_k \in Seq(Blocks)
  /\ cache_list_greater_k \in Seq(Blocks)
  /\ cache_map_ \in [Blocks -> {"none", "less", "greater"}]
  /\ access_count \in [Blocks -> Nat]
  /\ total_requests_ \in Nat
  /\ hit_requests_ \in 0 .. total_requests_
  /\ loading \in [Readers -> Blocks \cup {None}]
  /\ recency \in Seq(Blocks)

Distinct(s) == \A i, j \in DOMAIN s : s[i] = s[j] => i = j

(* Every node is in exactly one list, once; the map names that list; and   *)
(* the lists separate the blocks by their count.  update_access_count      *)
(* splices and erases nodes on the strength of the count alone, so a node  *)
(* in the wrong list would be unlinked from a list it is not in.           *)
IndexMatchesLists ==
  /\ Distinct(cache_list_less_k)
  /\ Distinct(cache_list_greater_k)
  /\ \A b \in Blocks :
       /\ cache_map_[b] = "less" <=> Holds(cache_list_less_k, b)
       /\ cache_map_[b] = "greater" <=> Holds(cache_list_greater_k, b)
       /\ cache_map_[b] = "none" <=> access_count[b] = 0
       /\ cache_map_[b] = "greater" <=> access_count[b] >= K

(* put makes room before it inserts: the map never outgrows capacity_,     *)
(* also when several readers missed the same or different blocks at once.  *)
WithinCapacity == Cardinality(Cached) <= Capacity

Evicted == {b \in Blocks : cache_map_[b] # "none" /\ cache_map_'[b] = "none"}

(* The block that put evicts is the least recently used of those used      *)
(* fewer than K times, and a block used K times goes only if there is no   *)
(* such block.                                                             *)
VictimIsColdest ==
  [][\A b \in Evicted :
       LET rare == {x \in Cached : access_count[x] < K}
           pool == IF rare = {} THEN Cached ELSE rare
       IN  b \in pool /\ \A x \in pool : At(recency, x) <= At(recency, b)]_vars
=============================================================================
