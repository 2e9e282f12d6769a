---------------------------- MODULE CacheProofs ----------------------------
(***************************************************************************)
(* Proofs about Cache, for any keys, callers, batch size and times to      *)
(* live.                                                                   *)
(*                                                                         *)
(* PatternDeletes speaks of the last step of a scan only.  Between its     *)
(* steps the keys it has come to are either collected and not yet deleted, *)
(* or gone, or somebody has set them since: that is inductive.             *)
(***************************************************************************)
EXTENDS Cache, TLAPS

-----------------------------------------------------------------------------
(* The inductive invariant.                                                *)

(* What a scan has come to and nobody has set since is gone or will be      *)
(* deleted with the batch.                                                  *)
Collected ==
  \A p \in Proc : At(p, "scan") =>
    \A k \in job[p].untouched \cap job[p].seen :
      Present(k) => k \in job[p].batch

IInv == TypeOK /\ Collected

Job == [pc : {"idle", "compute", "set", "delete", "scan"},
        keys : SUBSET Key, val : [Key -> Version],
        seen : SUBSET Pattern, batch : SUBSET Pattern,
        untouched : SUBSET Pattern]

Item == [val : Version, ttl : Nat \cup {NoExpiry}]

(* No key appears in the cache.                                             *)
NothingAppears == \A k \in Key : Present(k)' => Present(k)

-----------------------------------------------------------------------------
(* Lemmas.                                                                 *)

(* A caller without a call, and an entry that is not there.                 *)
LEMMA IdleTypes == Idle \in Job /\ Absent \in Item
  BY CacheConstants DEF Idle, Job, Absent, Item, Version

(* What does not write to the cache, nor lets a job scan further, keeps the *)
(* invariant.                                                               *)
LEMMA JobSteps ==
  ASSUME IInv, NEW p \in Proc, NEW j \in Job, Go(p, j),
         source' \in [Key -> Version], cache' \in [Key -> Item],
         NothingAppears,
         j.pc = "scan" =>
           \A k \in j.untouched \cap j.seen : Present(k)' => k \in j.batch
  PROVE  IInv'
<1>1. job \in [Proc -> Job]
  BY DEF IInv, TypeOK, Job
<1>2. job' \in [Proc -> Job]
      /\ \A q \in Proc : job'[q] = IF q = p THEN j ELSE job[q]
  BY <1>1 DEF Go
<1>3. TypeOK'
  BY <1>2 DEF TypeOK, Job, Item
<1>4. Collected'
  <2> SUFFICES ASSUME NEW q \in Proc, job'[q].pc = "scan",
                      NEW k \in job'[q].untouched \cap job'[q].seen,
                      Present(k)'
               PROVE  k \in job'[q].batch
    BY DEF Collected, At
  <2>1. CASE q = p
    BY <1>2, <2>1
  <2>2. CASE q # p
    <3>1. k \in Key
      BY <1>1, <1>2, <2>2, CacheConstants DEF Job
    <3>2. Present(k)
      BY <3>1 DEF NothingAppears
    <3> QED
      BY <1>2, <2>2, <3>2 DEF IInv, Collected, At
  <2> QED
    BY <2>1, <2>2
<1> QED
  BY <1>3, <1>4 DEF IInv

(* DEL lets no key appear and leaves none of its keys.                      *)
LEMMA DelSteps ==
  ASSUME IInv, NEW keys, Del(keys)
  PROVE  /\ cache' \in [Key -> Item]
         /\ \A k \in Key : Present(k)' <=> Present(k) /\ k \notin keys
<1>1. cache \in [Key -> Item]
  BY DEF IInv, TypeOK, Item
<1>2. \A k \in Key : cache'[k] = IF k \in keys THEN Absent ELSE cache[k]
  BY DEF Del
<1>3. cache' \in [Key -> Item]
  BY <1>1, IdleTypes DEF Del
<1> QED
  BY <1>2, <1>3 DEF Present, Absent

(* EXPIRE changes the time to live of a key that is there, or deletes it.   *)
LEMMA ExpireKeeps ==
  ASSUME IInv, UNCHANGED <<source, job>>, cache' \in [Key -> Item],
         NothingAppears
  PROVE  IInv'
<1>1. TypeOK'
  BY DEF IInv, TypeOK, Item
<1>2. Collected'
  <2> SUFFICES ASSUME NEW q \in Proc, job[q].pc = "scan",
                      NEW k \in job[q].untouched \cap job[q].seen,
                      Present(k)'
               PROVE  k \in job[q].batch
    BY DEF Collected, At
  <2>1. k \in Key
    BY CacheConstants DEF IInv, TypeOK
  <2> QED
    BY <2>1 DEF IInv, Collected, At, NothingAppears
<1> QED
  BY <1>1, <1>2 DEF IInv

-----------------------------------------------------------------------------
(* The actions.                                                            *)

(* Time lets keys end and none appear.                                      *)
LEMMA TickKeeps == ASSUME IInv, Tick PROVE IInv'
<1>1. cache \in [Key -> Item]
  BY DEF IInv, TypeOK, Item
<1> DEFINE later(k) == IF cache[k].ttl = 1 THEN Absent
                       ELSE [cache[k] EXCEPT !.ttl = Pass(@)]
<1>2. cache' = [k \in Key |-> later(k)]
  BY DEF Tick
<1>3. ASSUME NEW k \in Key
      PROVE  later(k) \in Item /\ (later(k).ttl # 0 => cache[k].ttl # 0)
  <2>1. cache[k].ttl \in Nat \cup {-1} /\ cache[k].val \in Version
        /\ cache[k] \in Item
    BY <1>1 DEF Item, NoExpiry
  <2>2. CASE cache[k].ttl = 1
    BY <2>2, IdleTypes
  <2>3. CASE cache[k].ttl # 1
    <3>1. Pass(cache[k].ttl) \in Nat \cup {-1}
          /\ (Pass(cache[k].ttl) # 0 => cache[k].ttl # 0)
      BY <2>1, <2>3 DEF Pass
    <3> QED
      BY <2>1, <2>3, <3>1 DEF Item, NoExpiry
  <2> QED
    BY <2>2, <2>3
<1> HIDE DEF later
<1>4. cache' \in [Key -> Item]
  BY <1>2, <1>3
<1>5. NothingAppears
  BY <1>2, <1>3 DEF NothingAppears, Present
<1> QED
  BY <1>4, <1>5, ExpireKeeps DEF Tick

(* A key that is set is no longer untouched for any scan, so it may be      *)
(* there without being collected.                                           *)
LEMMA SetKeeps == ASSUME IInv, NEW p \in Proc, SetWithTTL(p) PROVE IInv'
<1>1. job \in [Proc -> Job] /\ cache \in [Key -> Item]
  BY DEF IInv, TypeOK, Job, Item
<1>2. PICK k \in job[p].keys, t \in TTL :
        /\ cache' = [cache EXCEPT ![k] = NewEntry(job[p].val[k], t)]
        /\ job' = [q \in Proc |->
             CASE q # p -> [job[q] EXCEPT !.untouched = @ \ {k}]
               [] q = p /\ job[p].keys = {k} -> Idle
               [] OTHER -> [job[p] EXCEPT !.keys = @ \ {k}]]
  BY DEF SetWithTTL
<1>3. k \in Key /\ job[p].val[k] \in Version
  BY <1>1 DEF Job
<1>4. NewEntry(job[p].val[k], t) \in Item
  BY <1>3, CacheConstants DEF NewEntry, Item, NoExpiry
<1>5. /\ cache' \in [Key -> Item]
      /\ \A x \in Key : x # k => cache'[x] = cache[x]
  BY <1>1, <1>2, <1>3, <1>4
<1>6. ASSUME NEW q \in Proc, q # p
      PROVE  /\ job'[q] = [job[q] EXCEPT !.untouched = @ \ {k}]
             /\ job'[q] \in Job
  <2>1. job'[q] = [job[q] EXCEPT !.untouched = @ \ {k}]
    BY <1>2, <1>6
  <2> QED
    BY <1>1, <2>1 DEF Job
<1>7. job'[p] \in Job /\ job'[p].pc # "scan"
  <2>1. CASE job[p].keys = {k}
    <3>1. job'[p] = Idle
      BY <1>2, <2>1
    <3> QED
      BY <3>1, IdleTypes DEF Idle
  <2>2. CASE job[p].keys # {k}
    <3>1. job'[p] = [job[p] EXCEPT !.keys = @ \ {k}]
      BY <1>2, <2>2
    <3>2. job'[p] \in Job
      BY <1>1, <3>1 DEF Job
    <3>3. job'[p].pc = "set"
      BY <1>1, <3>1 DEF SetWithTTL, At, Job
    <3> QED
      BY <3>2, <3>3
  <2> QED
    BY <2>1, <2>2
<1>8. job' \in [Proc -> Job]
  <2>1. \A q \in Proc : job'[q] \in Job
    BY <1>6, <1>7
  <2> QED
    BY <1>2, <2>1
<1>9. TypeOK'
  BY <1>5, <1>8 DEF IInv, TypeOK, SetWithTTL, Job, Item
<1>10. Collected'
  <2> SUFFICES ASSUME NEW q \in Proc, job'[q].pc = "scan",
                      NEW x \in job'[q].untouched \cap job'[q].seen,
                      Present(x)'
               PROVE  x \in job'[q].batch
    BY DEF Collected, At
  <2>1. q # p
    BY <1>7
  <2>2. /\ job[q].pc = "scan" /\ job[q].batch = job'[q].batch
        /\ x \in job[q].untouched \cap job[q].seen /\ x # k
    <3>1. job[q] \in Job /\ job'[q] = [job[q] EXCEPT !.untouched = @ \ {k}]
      BY <1>1, <1>6, <2>1
    <3>2. /\ job'[q].untouched = job[q].untouched \ {k}
          /\ job'[q].pc = job[q].pc /\ job'[q].seen = job[q].seen
          /\ job'[q].batch = job[q].batch
      BY <3>1 DEF Job
    <3> QED
      BY <3>2
  <2>3. x \in Key
    BY <1>1, <2>2, CacheConstants DEF Job
  <2>4. Present(x)
    BY <1>5, <2>2, <2>3 DEF Present
  <2> QED
    BY <2>2, <2>4 DEF IInv, Collected, At
<1> QED
  BY <1>9, <1>10 DEF IInv

(* Every start of a call keeps the invariant; a scan starts with nothing    *)
(* seen.                                                                    *)
LEMMA CallKeeps == ASSUME IInv, NEW p \in Proc, Call(p) PROVE IInv'
<1>1. source \in [Key -> Version] /\ cache \in [Key -> Item]
      /\ job \in [Proc -> Job]
  BY DEF IInv, TypeOK, Job, Item
<1>2. UNCHANGED cache => NothingAppears
  BY DEF NothingAppears, Present
<1>3. ASSUME NEW c \in {"compute", "set", "delete"}, NEW K \in SUBSET Key,
             NEW v \in [Key -> Version]
      PROVE  /\ [Idle EXCEPT !.pc = c, !.keys = K, !.val = v] \in Job
             /\ [Idle EXCEPT !.pc = c, !.keys = K] \in Job
             /\ [Idle EXCEPT !.pc = c, !.keys = K].pc # "scan"
             /\ [Idle EXCEPT !.pc = c, !.keys = K, !.val = v].pc # "scan"
  BY IdleTypes DEF Job, Idle
<1>4. CASE GetOrSet(p)
  <2>1. PICK k \in Key : Go(p, [Idle EXCEPT !.pc = "compute", !.keys = {k}])
    BY <1>4 DEF GetOrSet
  <2> DEFINE j == [Idle EXCEPT !.pc = "compute", !.keys = {k}]
  <2>2. {k} \in SUBSET Key
    OBVIOUS
  <2>3. j \in Job /\ j.pc # "scan"
    BY <2>2, IdleTypes DEF Job, Idle
  <2>4. Go(p, j) /\ UNCHANGED <<source, cache>>
    BY <1>4, <2>1 DEF GetOrSet
  <2> HIDE DEF j
  <2> QED
    BY <1>1, <1>2, <2>3, <2>4, JobSteps
<1>5. CASE MSet(p)
  <2>1. PICK K \in SUBSET Key \ {{}} :
          Go(p, [Idle EXCEPT !.pc = "set", !.keys = K, !.val = source])
    BY <1>5, ZenonT(60) DEF MSet
  <2> DEFINE j == [Idle EXCEPT !.pc = "set", !.keys = K, !.val = source]
  <2>2. Go(p, j) /\ j \in Job /\ j.pc # "scan"
    BY <1>1, <1>3, <2>1
  <2>3. UNCHANGED <<source, cache>>
    BY <1>5 DEF MSet
  <2> HIDE DEF j
  <2> QED
    BY <1>1, <1>2, <2>2, <2>3, JobSteps
<1>6. CASE Change(p)
  <2>1. PICK k \in Key :
          /\ source[k] < MaxVersion
          /\ source' = [source EXCEPT ![k] = @ + 1]
          /\ Go(p, [Idle EXCEPT !.pc = "delete", !.keys = {k}])
    BY <1>6 DEF Change
  <2>2. source' \in [Key -> Version]
    BY <1>1, <2>1, CacheConstants DEF Version
  <2> DEFINE j == [Idle EXCEPT !.pc = "delete", !.keys = {k}]
  <2>3. {k} \in SUBSET Key
    OBVIOUS
  <2>4. j \in Job /\ j.pc # "scan"
    BY <2>3, IdleTypes DEF Job, Idle
  <2>5. Go(p, j) /\ UNCHANGED cache
    BY <1>6, <2>1 DEF Change
  <2> HIDE DEF j
  <2> QED
    BY <1>1, <1>2, <2>2, <2>4, <2>5, JobSteps
<1>7. CASE DeleteByPattern(p)
  <2> DEFINE j == [Idle EXCEPT !.pc = "scan",
                               !.untouched = {k \in Pattern : Present(k)}]
  <2>1. Go(p, j)
    BY <1>7 DEF DeleteByPattern
  <2>2. j \in Job /\ j.seen = {}
    BY IdleTypes DEF Job, Idle
  <2> HIDE DEF j
  <2> QED
    BY <1>1, <1>2, <1>7, <2>1, <2>2, JobSteps DEF DeleteByPattern
<1>8. CASE Expire(p)
  <2>1. PICK k \in Key, t \in ExpireTTL :
          /\ Present(k)
          /\ cache' = [cache EXCEPT ![k] = IF t = 0 THEN Absent
                                           ELSE [cache[k] EXCEPT !.ttl = t]]
    BY <1>8 DEF Expire
  <2>2. [cache[k] EXCEPT !.ttl = t] \in Item
    BY <1>1, CacheConstants DEF Item
  <2>3. cache' \in [Key -> Item]
    BY <1>1, <2>1, <2>2, IdleTypes
  <2>4. NothingAppears
    BY <1>1, <2>1 DEF NothingAppears, Present
  <2> QED
    BY <1>8, <2>3, <2>4, ExpireKeeps DEF Expire
<1> QED
  BY <1>4, <1>5, <1>6, <1>7, <1>8 DEF Call

(* Every other step of a call keeps it: a scan collects what it sees, and   *)
(* forgets a batch only by deleting it.                                     *)
LEMMA ContinueKeeps == ASSUME IInv, NEW p \in Proc, Continue(p) PROVE IInv'
<1>1. source \in [Key -> Version] /\ cache \in [Key -> Item]
      /\ job \in [Proc -> Job]
  BY DEF IInv, TypeOK, Job, Item
<1>2. UNCHANGED cache => NothingAppears
  BY DEF NothingAppears, Present
<1>3. ASSUME NEW keys, Del(keys) PROVE NothingAppears
  BY <1>3, DelSteps DEF NothingAppears
<1>4. Idle.pc # "scan"
  BY DEF Idle
<1>5. CASE Compute(p)
  <2>1. [job[p] EXCEPT !.pc = "set", !.val = source] \in Job
        /\ [job[p] EXCEPT !.pc = "set", !.val = source].pc # "scan"
    BY <1>1 DEF Job
  <2> QED
    BY <1>1, <1>2, <1>4, <1>5, <2>1, IdleTypes, JobSteps DEF Compute
<1>6. CASE Delete(p)
  BY <1>1, <1>3, <1>4, <1>6, IdleTypes, DelSteps, JobSteps DEF Delete
<1>7. CASE Scan(p)
  <2>1. PICK k \in Pattern :
          Go(p, [job[p] EXCEPT
                   !.seen = @ \cup {k},
                   !.batch = IF Present(k) THEN @ \cup {k} ELSE @])
    BY <1>7 DEF Scan, Matching, Collect
  <2> DEFINE j == [job[p] EXCEPT
                     !.seen = @ \cup {k},
                     !.batch = IF Present(k) THEN @ \cup {k} ELSE @]
  <2>2. j \in Job
    BY <1>1, ZenonT(60) DEF Job
  <2>3. /\ j.untouched = job[p].untouched
        /\ j.seen = job[p].seen \cup {k}
        /\ j.batch = IF Present(k) THEN job[p].batch \cup {k}
                                   ELSE job[p].batch
    BY <1>1 DEF Job
  <2>4. UNCHANGED <<source, cache>> /\ At(p, "scan")
    BY <1>7 DEF Scan
  <2>5. \A x \in j.untouched \cap j.seen : Present(x)' => x \in j.batch
    BY <2>3, <2>4 DEF IInv, Collected, Present
  <2>6. Go(p, j)
    BY <2>1
  <2> HIDE DEF j
  <2> QED
    BY <1>1, <1>2, <2>2, <2>4, <2>5, <2>6, JobSteps
<1>8. CASE DeleteBatch(p)
  <2> DEFINE j == [job[p] EXCEPT !.batch = {}]
  <2>1. Go(p, j) /\ Del(job[p].batch) /\ At(p, "scan") /\ UNCHANGED source
    BY <1>8 DEF DeleteBatch
  <2>2. j \in Job /\ j.untouched = job[p].untouched /\ j.seen = job[p].seen
        /\ j.seen \subseteq Key
    BY <1>1, CacheConstants DEF Job
  <2>3. \A x \in j.untouched \cap j.seen : ~ Present(x)'
    BY <2>1, <2>2, DelSteps DEF IInv, Collected
  <2> HIDE DEF j
  <2> QED
    BY <1>1, <1>3, <2>1, <2>2, <2>3, DelSteps, JobSteps
<1>9. CASE DeleteRest(p)
  BY <1>1, <1>3, <1>4, <1>9, IdleTypes, DelSteps, JobSteps DEF DeleteRest
<1>10. CASE Fail(p)
  BY <1>1, <1>2, <1>4, <1>10, IdleTypes, JobSteps DEF Fail
<1> QED
  BY <1>5, <1>6, <1>7, <1>8, <1>9, <1>10, SetKeeps DEF Continue

-----------------------------------------------------------------------------

(* The invariant holds in the beginning.                                    *)
LEMMA InitInv == Init => IInv
<1> SUFFICES ASSUME Init PROVE IInv
  OBVIOUS
<1>1. TypeOK
  <2>1. source \in [Key -> Version]
    BY CacheConstants DEF Init, Version
  <2>2. cache \in [Key -> Item] /\ job \in [Proc -> Job]
    BY IdleTypes DEF Init
  <2> QED
    BY <2>1, <2>2 DEF TypeOK, Job, Item
<1>2. Collected
  BY DEF Init, Collected, At, Idle
<1> QED
  BY <1>1, <1>2 DEF IInv

(* Every step keeps the invariant.                                          *)
LEMMA NextKeeps == IInv /\ [Next]_vars => IInv'
<1> SUFFICES ASSUME IInv, [Next]_vars PROVE IInv'
  OBVIOUS
<1>1. CASE UNCHANGED vars
  BY <1>1 DEF vars, IInv, TypeOK, Collected, At, Present
<1> QED
  BY <1>1, TickKeeps, CallKeeps, ContinueKeeps DEF Next

(* The invariant holds for ever.                                            *)
LEMMA Invariance == Spec => []IInv
  BY InitInv, NextKeeps, PTL DEF Spec

(* Every variable has its type: no entry has a negative time to live other  *)
(* than NoExpiry, and a scan collects nothing outside its pattern.          *)
THEOREM TypeCorrect == Spec => []TypeOK
<1>1. IInv => TypeOK
  BY DEF IInv
<1> QED
  BY <1>1, Invariance, PTL

(* For every batch size, every order of the iterator and all concurrent     *)
(* callers: when DeleteByPattern returns without error, the matching keys   *)
(* that were there when it was called and were not set meanwhile are gone.  *)
THEOREM PatternIsDeleted == Spec => PatternDeletes
<1>1. ASSUME IInv, NEW p \in Proc, DeleteRest(p),
             NEW k \in job[p].untouched
      PROVE  ~ Present(k)'
  <2>1. k \in Pattern /\ k \in Key
    BY <1>1, CacheConstants DEF IInv, TypeOK
  <2>2. k \in job[p].seen /\ At(p, "scan") /\ Del(job[p].batch)
    BY <1>1, <2>1 DEF DeleteRest, Matching
  <2>3. Present(k) => k \in job[p].batch
    BY <1>1, <2>2 DEF IInv, Collected
  <2> QED
    BY <1>1, <2>1, <2>2, <2>3, DelSteps
<1>2. IInv /\ [Next]_vars =>
        [\A p \in Proc :
           DeleteRest(p) => \A k \in job[p].untouched : ~ Present(k)']_vars
  BY <1>1
<1> QED
  BY <1>2, Invariance, PTL DEF Spec, PatternDeletes
=============================================================================
