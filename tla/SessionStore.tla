---------------------------- MODULE SessionStore ----------------------------
(***************************************************************************)
(* The session store of redis/session.go for one user: the session keys,   *)
(* the set that indexes them, and calls that interleave at every Redis     *)
(* command.  A pipeline is not a transaction: its commands interleave too, *)
(* and a lost connection cuts it anywhere.  go-redis sends a command or a  *)
(* pipeline again when its answer is late.                                 *)
(*                                                                         *)
(* Times are remaining times, and Tick takes one unit from each of them.   *)
(* The time to live a call sends is computed before it is sent and does    *)
(* not shrink on the way, ExpiresAt is a point in time and does.           *)
(***************************************************************************)
EXTENDS Integers, FiniteSets

CONSTANTS
  Session,     \* session ids (generateSessionID)
  NoSession,
  Proc,        \* callers of the store
  Keeper,      \* bound: the callers that keep a Session value for Update
  Goroutine,   \* bound: cleanups that run at the same time
  TTL,         \* arguments of CreateWithTTL
  ExtendTTL,   \* arguments of Extend
  DefaultTTL,  \* SessionStore.defaultTTL
  Sec,         \* units of time in a second
  SlowCalls,   \* time passes also while a call is in progress
  CanFail,     \* connections can break
  MaxResends   \* how often go-redis repeats a command of one call

ASSUME SessionConstants ==
  /\ NoSession \notin Session
  /\ Keeper \subseteq Proc
  /\ TTL \subseteq Nat \ {0}
  /\ ExtendTTL \subseteq Nat
  /\ DefaultTTL \in Nat \ {0}
  /\ Sec \in Nat \ {0}
  /\ SlowCalls \in BOOLEAN
  /\ CanFail \in BOOLEAN
  /\ MaxResends \in Nat

VARIABLES
  sess,      \* sess[s]: time to live and stored ExpiresAt of key session:s
  index,     \* the members of session:user:sessions:<user>
  ittl,      \* time to live of the index
  job,       \* job[p]: the call p is in
  hand,      \* hand[p]: a Session value p was given and may Update with
  cleanup,   \* cleanup[g]: the ids goroutine g is about to SREM
  made,      \* history: sessions that CreateWithTTL has returned
  lapsed     \* history: sessions that have ended, or were written after
             \* their ExpiresAt

store == <<sess, index, ittl>>
history == <<made, lapsed>>
vars == <<sess, index, ittl, job, hand, cleanup, made, lapsed>>

-----------------------------------------------------------------------------

NoExpiry == -1      \* the key exists and never expires

Absent == [ttl |-> 0, exp |-> 0]

Live(s) == sess[s].ttl # 0

Command ==
  {"create_ttl", "create_set", "create_sadd", "create_expire",
   "update_set", "extend_set", "extend_ttl", "extend_expire", "delete_del",
   "delete_srem", "user_del", "list_mget", "count_exists"}

(* read is history: what is left of the time to live that the index had     *)
(* when the call asked for it.                                              *)
Idle ==
  [pc |-> "idle", s |-> NoSession, ttl |-> 0, exp |-> 0, arg |-> 0,
   read |-> 0, ids |-> {}, missing |-> {}, resent |-> 0]

NoHand == [s |-> NoSession, exp |-> 0]

Init ==
  /\ sess = [s \in Session |-> Absent]
  /\ index = {} /\ ittl = 0
  /\ job = [p \in Proc |-> Idle]
  /\ hand = [p \in Proc |-> NoHand]
  /\ cleanup = [g \in Goroutine |-> {}]
  /\ made = {} /\ lapsed = {}

-----------------------------------------------------------------------------
(* Redis.                                                                  *)

(* The TTL command rounds to the nearest second and tells apart a missing   *)
(* key (-2) and one without expiry (-1).                                    *)
TTLReply ==
  CASE index = {}       -> -2
    [] index # {} /\ ittl = NoExpiry -> -1
    [] OTHER            -> Sec * ((ittl + Sec \div 2) \div Sec)

(* go-redis sends EXPIRE in seconds: rounded down, but at least one for a   *)
(* positive duration.                                                       *)
formatSec(d) == IF d > 0 /\ d < Sec THEN Sec ELSE Sec * (d \div Sec)

Set(s, t, e) ==
  /\ sess' = [sess EXCEPT ![s] = [ttl |-> t, exp |-> e]]
  /\ UNCHANGED <<index, ittl>>

Del(ids) ==
  /\ sess' = [s \in Session |-> IF s \in ids THEN Absent ELSE sess[s]]
  /\ lapsed' = lapsed \cup {s \in ids : Live(s)}

SAdd(s) ==
  /\ index' = index \cup {s}
  /\ ittl' = IF index = {} THEN NoExpiry ELSE ittl
  /\ UNCHANGED sess

(* A set without members is no key.                                         *)
SRem(ids) ==
  /\ index' = index \ ids
  /\ ittl' = IF index \subseteq ids THEN 0 ELSE ittl

(* EXPIRE with no positive time deletes the key.                            *)
Expire(d) ==
  /\ LET kept == index # {} /\ formatSec(d) > 0 IN
       /\ index' = IF kept THEN index ELSE {}
       /\ ittl' = IF kept THEN formatSec(d) ELSE 0
  /\ UNCHANGED sess

Pass(n) == IF n > 0 THEN n - 1 ELSE n

Tick ==
  /\ SlowCalls \/ \A p \in Proc : job[p].pc = "idle"
  /\ \/ ittl > 0
     \/ \E s \in Session : sess[s].ttl > 0 \/ sess[s].exp > 0
     \/ \E p \in Proc : job[p].exp > 0 \/ hand[p].exp > 0
  /\ sess' = [s \in Session |->
                IF sess[s].ttl = 1 THEN Absent
                ELSE [ttl |-> Pass(sess[s].ttl), exp |-> Pass(sess[s].exp)]]
  /\ lapsed' = lapsed \cup {s \in Session : sess[s].ttl = 1}
  /\ index' = IF ittl = 1 THEN {} ELSE index
  /\ ittl' = Pass(ittl)
  /\ job' = [p \in Proc |-> [job[p] EXCEPT !.exp = Pass(@),
                                           !.read = Pass(@)]]
  /\ hand' = [p \in Proc |-> [hand[p] EXCEPT !.exp = Pass(@)]]
  /\ UNCHANGED <<cleanup, made>>

-----------------------------------------------------------------------------
(* Calls.                                                                  *)

At(p, c) == job[p].pc = c

Go(p, j) == job' = [job EXCEPT ![p] = j]

(* The command ran: the call goes on at c, or go-redis saw no answer and    *)
(* sends again from the first command of the pipeline.                      *)
Advance(p, c, first) ==
  \/ Go(p, [job[p] EXCEPT !.pc = c])
  \/ /\ job[p].resent < MaxResends
     /\ Go(p, [job[p] EXCEPT !.pc = first, !.resent = @ + 1])

Finish(p, first) ==
  \/ Go(p, Idle)
  \/ /\ job[p].resent < MaxResends
     /\ Go(p, [job[p] EXCEPT !.pc = first, !.resent = @ + 1])

Finished(p) == job'[p] = Idle

(* The caller was given the Session value h.                                *)
Keep(p, h) == hand' = IF p \in Keeper THEN [hand EXCEPT ![p] = h] ELSE hand

(* update: the Session is marshalled with the ExpiresAt it has; after that  *)
(* moment the key gets the default time to live.                            *)
updateTTL(e) == IF e > 0 THEN e ELSE DefaultTTL

FaultyUpdateSet(p) ==                                   \* SET without expiry
  /\ Set(job[p].s, NoExpiry, job[p].exp)
  /\ UNCHANGED lapsed

updateSet(p) ==
  /\ Set(job[p].s, job[p].ttl, job[p].exp)
  /\ lapsed' = IF job[p].arg = 0 THEN lapsed \cup {job[p].s} ELSE lapsed

(* The start of a call of update for s with ExpiresAt e; arg is what        *)
(* time.Until returned, or zero for anything not positive.                  *)
Updating(c, s, e) ==
  [Idle EXCEPT !.pc = c, !.s = s, !.exp = e, !.arg = e, !.ttl = updateTTL(e)]

Unused(s) ==
  /\ s \notin made \cup lapsed /\ ~ Live(s)
  /\ \A p \in Proc : job[p].s # s

(* CreateWithTTL: TTL of the index, then the pipeline SET, SADD, EXPIRE.    *)
CreateWithTTL(p) ==
  /\ At(p, "idle")
  /\ \E s \in Session, t \in TTL :
       /\ Unused(s)
       /\ Go(p, [Idle EXCEPT !.pc = "create_ttl", !.s = s, !.exp = t,
                             !.ttl = t])
  /\ UNCHANGED <<store, hand, cleanup, history>>

(* The larger of the index's and the new session's time to live.            *)
indexTTL(t) == IF TTLReply > 0 /\ TTLReply > t THEN TTLReply ELSE t

FaultyReadsTTL(p) ==                                    \* SADD before SET
  /\ At(p, "create_ttl")
  /\ SAdd(job[p].s)
  /\ Go(p, [job[p] EXCEPT !.pc = "create_set", !.arg = indexTTL(job[p].ttl),
                          !.read = ittl])
  /\ UNCHANGED <<hand, cleanup, history>>

CreateReadsTTL(p) ==
  /\ At(p, "create_ttl")
  /\ Go(p, [job[p] EXCEPT !.pc = "create_set", !.arg = indexTTL(job[p].ttl),
                          !.read = ittl])
  /\ UNCHANGED <<store, hand, cleanup, history>>

CreateSets(p) ==
  /\ At(p, "create_set")
  /\ Set(job[p].s, job[p].ttl, job[p].exp)
  /\ Advance(p, "create_sadd", "create_set")
  /\ UNCHANGED <<hand, cleanup, history>>

CreateAdds(p) ==
  /\ At(p, "create_sadd")
  /\ SAdd(job[p].s)
  /\ Advance(p, "create_expire", "create_set")
  /\ UNCHANGED <<hand, cleanup, history>>

CreateExpires(p) ==
  /\ At(p, "create_expire")
  /\ Expire(job[p].arg)
  /\ Finish(p, "create_set")
  /\ IF Finished(p)
     THEN /\ made' = made \cup {job[p].s}
          /\ Keep(p, [s |-> job[p].s, exp |-> job[p].exp])
     ELSE UNCHANGED <<made, hand>>
  /\ UNCHANGED <<cleanup, lapsed>>

(* Ids that callers can know: returned by Create, or seen in the index.     *)
Known == made \cup index

(* GetWithTouch(false), and its read when nothing more is to be done.       *)
GetWithoutTouch(p) ==
  /\ At(p, "idle")
  /\ \E s \in Known :
       /\ Live(s)
       /\ Keep(p, [s |-> s, exp |-> sess[s].exp])
  /\ UNCHANGED <<store, job, cleanup, history>>

(* Get: the read, and the write of last_active that update makes of it.     *)
Get(p) ==
  /\ At(p, "idle")
  /\ \E s \in Known :
       /\ Live(s)
       /\ Go(p, Updating("update_set", s, sess[s].exp))
  /\ UNCHANGED <<store, hand, cleanup, history>>

(* The caller gets the Session with the ExpiresAt update has put in.        *)
updated(p) ==
  [s |-> job[p].s, exp |-> IF job[p].arg = 0 THEN job[p].ttl ELSE job[p].exp]

Update(p) ==
  /\ At(p, "idle") /\ hand[p] # NoHand
  /\ Go(p, Updating("update_set", hand[p].s, hand[p].exp))
  /\ UNCHANGED <<store, hand, cleanup, history>>

Updates(p) ==
  /\ At(p, "update_set")
  /\ updateSet(p)
  /\ Finish(p, "update_set")
  /\ IF Finished(p) THEN Keep(p, updated(p)) ELSE UNCHANGED hand
  /\ UNCHANGED <<cleanup, made>>

(* Extend: read, update with the new ExpiresAt, then the index's TTL.       *)
Extend(p) ==
  /\ At(p, "idle")
  /\ \E s \in Known, t \in ExtendTTL :
       /\ Live(s)
       /\ Go(p, Updating("extend_set", s, t))
  /\ UNCHANGED <<store, hand, cleanup, history>>

ExtendSets(p) ==
  /\ At(p, "extend_set")
  /\ updateSet(p)
  /\ Advance(p, "extend_ttl", "extend_set")
  /\ UNCHANGED <<hand, cleanup, made>>

FaultyExtendReadsTTL(p) ==               \* the TTL is not compared
  /\ At(p, "extend_ttl")
  /\ Go(p, [job[p] EXCEPT !.pc = "extend_expire", !.read = ittl])
  /\ UNCHANGED <<store, hand, cleanup, history>>

ExtendReadsTTL(p) ==
  /\ At(p, "extend_ttl")
  /\ IF TTLReply < 0 \/ job[p].arg > TTLReply
     THEN Go(p, [job[p] EXCEPT !.pc = "extend_expire", !.read = ittl])
     ELSE Go(p, Idle)
  /\ UNCHANGED <<store, hand, cleanup, history>>

ExtendExpires(p) ==
  /\ At(p, "extend_expire")
  /\ Expire(job[p].arg)
  /\ Finish(p, "extend_expire")
  /\ UNCHANGED <<hand, cleanup, history>>

(* Delete: read the session, then the pipeline DEL, SREM.                   *)
Delete(p) ==
  /\ At(p, "idle")
  /\ \E s \in Known :
       /\ Live(s)
       /\ Go(p, [Idle EXCEPT !.pc = "delete_del", !.s = s])
  /\ UNCHANGED <<store, hand, cleanup, history>>

DeleteDels(p) ==
  /\ At(p, "delete_del")
  /\ Del({job[p].s})
  /\ Advance(p, "delete_srem", "delete_del")
  /\ UNCHANGED <<index, ittl, hand, cleanup, made>>

DeleteRems(p) ==
  /\ At(p, "delete_srem")
  /\ SRem({job[p].s})
  /\ Finish(p, "delete_del")
  /\ UNCHANGED <<sess, hand, cleanup, made, lapsed>>

(* DeleteByUserID, ListByUserID and Count: SMEMBERS first.                  *)
SMembers(p, c) ==
  /\ At(p, "idle")
  /\ index # {}
  /\ Go(p, [Idle EXCEPT !.pc = c, !.ids = index])
  /\ UNCHANGED <<store, hand, cleanup, history>>

DeleteByUserID(p) == SMembers(p, "user_del")

UserDels(p) ==
  /\ At(p, "user_del")
  /\ Del(job[p].ids)
  /\ index' = {} /\ ittl' = 0
  /\ Finish(p, "user_del")
  /\ UNCHANGED <<hand, cleanup, made>>

(* The ids without a session go to a goroutine of their own.                *)
StartCleanup(ids) ==
  IF ids = {} THEN UNCHANGED cleanup
  ELSE LET g == CHOOSE h \in Goroutine : cleanup[h] = {} IN
       /\ \E h \in Goroutine : cleanup[h] = {}
       /\ cleanup' = [cleanup EXCEPT ![g] = ids]

ListByUserID(p) == SMembers(p, "list_mget")

ListGets(p) ==
  /\ At(p, "list_mget")
  /\ StartCleanup({s \in job[p].ids : ~ Live(s)})
  /\ \E h \in {hand[p]} \cup
              {[s |-> s, exp |-> sess[s].exp] : s \in {i \in job[p].ids : Live(i)}} :
       Keep(p, h)
  /\ Go(p, Idle)
  /\ UNCHANGED <<store, history>>

Count(p) == SMembers(p, "count_exists")

(* One EXISTS of the pipeline; SMEMBERS gave the ids in no order.           *)
CountChecks(p) ==
  /\ At(p, "count_exists")
  /\ \E s \in job[p].ids :
       Go(p, [job[p] EXCEPT !.ids = @ \ {s},
                            !.missing = IF Live(s) THEN @ ELSE @ \cup {s}])
  /\ UNCHANGED <<store, hand, cleanup, history>>

CountReturns(p) ==
  /\ At(p, "count_exists") /\ job[p].ids = {}
  /\ StartCleanup(job[p].missing)
  /\ Go(p, Idle)
  /\ UNCHANGED <<store, hand, history>>

(* The goroutine's SREM, or its timeout.                                    *)
CleanupRuns(g) ==
  /\ cleanup[g] # {}
  /\ \/ SRem(cleanup[g])
     \/ CanFail /\ UNCHANGED <<index, ittl>>
  /\ cleanup' = [cleanup EXCEPT ![g] = {}]
  /\ UNCHANGED <<sess, job, hand, history>>

(* The call returns an error and what it had not sent is never run; Get     *)
(* only logs the error and returns the Session, and the Session given to    *)
(* Update has its new ExpiresAt.                                            *)
Fail(p) ==
  /\ CanFail
  /\ ~ At(p, "idle")
  /\ Go(p, Idle)
  /\ IF At(p, "update_set") THEN Keep(p, updated(p)) ELSE UNCHANGED hand
  /\ UNCHANGED <<store, cleanup, history>>

-----------------------------------------------------------------------------

Call(p) ==
  \/ CreateWithTTL(p) \/ GetWithoutTouch(p) \/ Get(p) \/ Update(p)
  \/ Extend(p) \/ Delete(p) \/ DeleteByUserID(p) \/ ListByUserID(p)
  \/ Count(p)

Continue(p) ==
  \/ CreateReadsTTL(p) \/ CreateSets(p) \/ CreateAdds(p) \/ CreateExpires(p)
  \/ Updates(p)
  \/ ExtendSets(p) \/ ExtendReadsTTL(p) \/ ExtendExpires(p)
  \/ DeleteDels(p) \/ DeleteRems(p) \/ UserDels(p)
  \/ ListGets(p) \/ CountChecks(p) \/ CountReturns(p) \/ Fail(p)

Next ==
  \/ Tick
  \/ \E p \in Proc : Call(p) \/ Continue(p)
  \/ \E g \in Goroutine : CleanupRuns(g)

Spec == Init /\ [][Next]_vars

(* Time passes, calls in progress go on, and goroutines are scheduled.      *)
FairSpec ==
  /\ Spec
  /\ WF_vars(Tick)
  /\ \A p \in Proc : WF_vars(Continue(p))
  /\ \A g \in Goroutine : WF_vars(CleanupRuns(g))

-----------------------------------------------------------------------------
(* Properties.                                                             *)

TypeOK ==
  /\ sess \in [Session -> [ttl : Nat, exp : Nat]]
  /\ index \subseteq Session
  /\ ittl \in Nat \cup {NoExpiry}
  /\ (index = {}) <=> (ittl = 0)
  /\ job \in [Proc -> [pc : Command \cup {"idle"},
                       s : Session \cup {NoSession}, ttl : Nat, exp : Nat,
                       arg : Nat, read : Nat \cup {NoExpiry},
                       ids : SUBSET Session, missing : SUBSET Session,
                       resent : 0..MaxResends]]
  /\ hand \in [Proc -> [s : Session \cup {NoSession}, exp : Nat]]
  /\ cleanup \in [Goroutine -> SUBSET Session]
  /\ made \subseteq Session
  /\ lapsed \subseteq Session

(* The asynchronous cleanup of ListByUserID and Count never takes a session *)
(* in its first life out of the index: an id that was in the index and had  *)
(* no session is not that of one being created.  (A session that has ended, *)
(* or was written after its ExpiresAt, and then came back by the write of a *)
(* call that had read it before, can lose its entry.)                       *)
CleanupSparesLive ==
  \A g \in Goroutine : \A s \in cleanup[g] : Live(s) => s \in lapsed

(* No session lives for ever: it ends again and again, or somebody keeps    *)
(* writing it.                                                              *)
SessionsEnd ==
  \A s \in Session :
    \/ []<>(~ Live(s))
    \/ []<>(\E p \in Proc :
              job[p].s = s
                /\ job[p].pc \in {"update_set", "extend_set"})

(* The end of the index is brought nearer by CreateWithTTL and Extend only  *)
(* if another call has moved it between the TTL and the EXPIRE of this one, *)
(* or by the rounding of the TTL reply: less than half a second.            *)
IndexLosesLittle ==
  [][\A p \in Proc :
       /\ CreateExpires(p) \/ ExtendExpires(p)
       /\ 0 < ittl /\ ittl <= job[p].read
       => 2 * (ittl - ittl') < Sec]_vars

(* What the comments of CreateWithTTL ("preserve longer-lived sessions")    *)
(* and of Extend ("only extend forward, never shrink") say: neither brings  *)
(* the end of the index nearer.                                             *)
IndexNeverShrinks ==
  [][(\E p \in Proc : CreateExpires(p) \/ ExtendExpires(p))
       => ittl = NoExpiry \/ ittl' >= ittl]_vars
=============================================================================
