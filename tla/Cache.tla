------------------------------- MODULE Cache -------------------------------
(***************************************************************************)
(* The cache of redis/cache.go in front of a data source: GetOrSet and its *)
(* variants, Set and MSet, Delete, DeleteByPattern and Expire, by callers  *)
(* whose calls interleave at every Redis command.                          *)
(*                                                                         *)
(* A value is the version of the source it was computed from.  Time is in  *)
(* seconds and relative.  The keys are on one server: SCAN of a cluster    *)
(* client would visit one node only.                                       *)
(***************************************************************************)
EXTENDS Integers, FiniteSets, RedisErrors

CONSTANTS
  Key,
  Proc,        \* callers
  Pattern,     \* the keys the argument of DeleteByPattern matches
  TTL,         \* the times to live entries are stored with
  ExpireTTL,   \* the arguments of Expire
  BatchSize,   \* keys that DeleteByPattern collects for one DEL
  MaxVersion,  \* bound: how often the source changes
  CanFail      \* connections can break

ASSUME CacheConstants ==
  /\ Pattern \subseteq Key
  /\ TTL \subseteq Nat          \* 0: without expiration
  /\ ExpireTTL \subseteq Nat
  /\ BatchSize \in Nat \ {0}
  /\ MaxVersion \in Nat
  /\ CanFail \in BOOLEAN

VARIABLES
  source,   \* source[k]: the version of what compute returns for k
  cache,    \* cache[k]: the entry of k
  job       \* job[p]: the call p is in

vars == <<source, cache, job>>

-----------------------------------------------------------------------------

NoExpiry == -1

Version == 0..MaxVersion

Absent == [val |-> 0, ttl |-> 0]

Present(k) == cache[k].ttl # 0

(* keys: what is still to be set or deleted; seen and batch: where the scan *)
(* is and what it has collected.  untouched is history: the keys that were  *)
(* there when the scan began and have not been set since.                   *)
Idle ==
  [pc |-> "idle", keys |-> {}, val |-> [k \in Key |-> 0], seen |-> {},
   batch |-> {}, untouched |-> {}]

Init ==
  /\ source = [k \in Key |-> 0]
  /\ cache = [k \in Key |-> Absent]
  /\ job = [p \in Proc |-> Idle]

At(p, c) == job[p].pc = c

Go(p, j) == job' = [job EXCEPT ![p] = j]

Del(keys) ==
  cache' = [k \in Key |-> IF k \in keys THEN Absent ELSE cache[k]]

-----------------------------------------------------------------------------
(* GetOrSet, GetOrSetJSON and their WithTTL variants: Get, compute, Set.    *)

Hit == [is |-> "nil", msg |-> {}]

Get(k) ==
  {IF Present(k) THEN Hit ELSE Nil}
    \cup {e \in CommandErrors : CanFail}

(* On a miss the value is computed; a hit, or an error of the Get, is       *)
(* returned and changes nothing.                                            *)
GetOrSet(p) ==
  /\ At(p, "idle")
  /\ \E k \in Key : \E reply \in Get(k) :
       /\ reply # Hit /\ IsNotFound(FromRedisError(reply))
       /\ Go(p, [Idle EXCEPT !.pc = "compute", !.keys = {k}])
  /\ UNCHANGED <<source, cache>>

(* compute reads the source, or fails and nothing is stored.                *)
Compute(p) ==
  /\ At(p, "compute")
  /\ \/ Go(p, [job[p] EXCEPT !.pc = "set", !.val = source])
     \/ Go(p, Idle)
  /\ UNCHANGED <<source, cache>>

(* MSet, and Set for one key, with values the caller has just read.         *)
MSet(p) ==
  /\ At(p, "idle")
  /\ \E K \in SUBSET Key \ {{}} :
       Go(p, [Idle EXCEPT !.pc = "set", !.keys = K, !.val = source])
  /\ UNCHANGED <<source, cache>>

FaultyEntry(v, t) == [val |-> v, ttl |-> NoExpiry]   \* SET drops the TTL

(* SET with a time to live; without one if that is 0.                       *)
NewEntry(v, t) == [val |-> v, ttl |-> IF t = 0 THEN NoExpiry ELSE t]

(* One SET of the pipeline, in the order of the map's iteration.            *)
SetWithTTL(p) ==
  /\ At(p, "set")
  /\ \E k \in job[p].keys, t \in TTL :
       /\ cache' = [cache EXCEPT ![k] = NewEntry(job[p].val[k], t)]
       /\ job' = [q \in Proc |->
            CASE q # p -> [job[q] EXCEPT !.untouched = @ \ {k}]
              [] q = p /\ job[p].keys = {k} -> Idle
              [] OTHER -> [job[p] EXCEPT !.keys = @ \ {k}]]
  /\ UNCHANGED source

-----------------------------------------------------------------------------
(* Invalidation.                                                           *)

(* A caller changes the source; its next step is to Delete the key.         *)
Change(p) ==
  /\ At(p, "idle")
  /\ \E k \in Key :
       /\ source[k] < MaxVersion
       /\ source' = [source EXCEPT ![k] = @ + 1]
       /\ Go(p, [Idle EXCEPT !.pc = "delete", !.keys = {k}])
  /\ UNCHANGED cache

Delete(p) ==
  /\ At(p, "delete")
  /\ Del(job[p].keys)
  /\ Go(p, Idle)
  /\ UNCHANGED source

FaultyMatching == Key                                \* the prefix is left out

(* prefixedPattern := c.prefixKey(pattern)                                  *)
Matching == Pattern

DeleteByPattern(p) ==
  /\ At(p, "idle")
  /\ Go(p, [Idle EXCEPT !.pc = "scan",
                         !.untouched = {k \in Pattern : Present(k)}])
  /\ UNCHANGED <<source, cache>>

FaultyCollect(b, k) ==                               \* the key that fills the
  IF Cardinality(b) + 1 = BatchSize THEN b ELSE b \cup {k}   \* batch is lost

(* keysToDelete = append(keysToDelete, iter.Val())                          *)
Collect(b, k) == b \cup {k}

(* The iterator comes to a key, which it returns if it is there.            *)
Scan(p) ==
  /\ At(p, "scan")
  /\ Cardinality(job[p].batch) < BatchSize
  /\ \E k \in Matching \ job[p].seen :
       Go(p, [job[p] EXCEPT
                !.seen = @ \cup {k},
                !.batch = IF Present(k) THEN Collect(@, k) ELSE @])
  /\ UNCHANGED <<source, cache>>

DeleteBatch(p) ==
  /\ At(p, "scan")
  /\ Cardinality(job[p].batch) >= BatchSize
  /\ Del(job[p].batch)
  /\ Go(p, [job[p] EXCEPT !.batch = {}])
  /\ UNCHANGED source

(* The scan is over: the remaining keys, if any, are deleted.               *)
DeleteRest(p) ==
  /\ At(p, "scan")
  /\ Cardinality(job[p].batch) < BatchSize
  /\ Matching \subseteq job[p].seen
  /\ Del(job[p].batch)
  /\ Go(p, Idle)
  /\ UNCHANGED source

(* EXPIRE with 0 deletes the key.                                           *)
Expire(p) ==
  /\ At(p, "idle")
  /\ \E k \in Key, t \in ExpireTTL :
       /\ Present(k)
       /\ cache' = [cache EXCEPT ![k] = IF t = 0 THEN Absent
                                        ELSE [cache[k] EXCEPT !.ttl = t]]
  /\ UNCHANGED <<source, job>>

-----------------------------------------------------------------------------

(* The call ends with an error, or GetOrSet with a value it did not store.  *)
Fail(p) ==
  /\ CanFail
  /\ ~ At(p, "idle")
  /\ Go(p, Idle)
  /\ UNCHANGED <<source, cache>>

Pass(n) == IF n > 0 THEN n - 1 ELSE n

Tick ==
  /\ \E k \in Key : cache[k].ttl > 0
  /\ cache' = [k \in Key |-> IF cache[k].ttl = 1 THEN Absent
                             ELSE [cache[k] EXCEPT !.ttl = Pass(@)]]
  /\ UNCHANGED <<source, job>>

Call(p) ==
  GetOrSet(p) \/ MSet(p) \/ Change(p) \/ DeleteByPattern(p) \/ Expire(p)

Continue(p) ==
  \/ Compute(p) \/ SetWithTTL(p) \/ Delete(p)
  \/ Scan(p) \/ DeleteBatch(p) \/ DeleteRest(p) \/ Fail(p)

Next == Tick \/ \E p \in Proc : Call(p) \/ Continue(p)

Spec == Init /\ [][Next]_vars

(* Time passes and a call that was begun goes on.                           *)
FairSpec ==
  Spec /\ WF_vars(Tick) /\ \A p \in Proc : WF_vars(Continue(p))

-----------------------------------------------------------------------------
(* Properties.                                                             *)

TypeOK ==
  /\ source \in [Key -> Version]
  /\ cache \in [Key -> [val : Version, ttl : Nat \cup {NoExpiry}]]
  /\ job \in [Proc -> [pc : {"idle", "compute", "set", "delete", "scan"},
                       keys : SUBSET Key, val : [Key -> Version],
                       seen : SUBSET Pattern, batch : SUBSET Pattern,
                       untouched : SUBSET Pattern]]

(* When DeleteByPattern returns without error, every matching key that was  *)
(* there when it was called is gone, unless somebody has set it meanwhile:  *)
(* neither the batches nor concurrent calls make it pass over a key.        *)
PatternDeletes ==
  [][\A p \in Proc :
       DeleteRest(p) => \A k \in job[p].untouched : ~ Present(k)']_vars

(* If the source stops changing the cache agrees with it in the end, when   *)
(* entries have a time to live that callers do not go on prolonging with    *)
(* Expire: a value stored after it was invalidated, or whose invalidation   *)
(* failed, is not served for ever.                                          *)
Converges ==
  \/ <>[](\A k \in Key : Present(k) => cache[k].val = source[k])
  \/ []<><<\E p \in Proc : Expire(p)>>_vars
=============================================================================
