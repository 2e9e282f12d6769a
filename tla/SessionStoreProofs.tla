------------------------- MODULE SessionStoreProofs -------------------------
(***************************************************************************)
(* Proofs about SessionStore, for any callers, sessions and times, with    *)
(* slow calls, lost connections and resent commands.                       *)
(*                                                                         *)
(* CleanupSparesLive speaks of ids that a goroutine was given.  They come  *)
(* from an SMEMBERS and were without a key at a later moment; for them to  *)
(* be ids of ended sessions, whatever is in the index must have been       *)
(* written before (the SET of a pipeline comes before its SADD), and this  *)
(* must stay so while calls keep ids in their local variables.             *)
(*                                                                         *)
(* IndexLosesLittle speaks of the EXPIRE of a call and of the time to live *)
(* that the call was told before.  What it sends is never much less, and   *)
(* stays so while time passes and while its pipeline is sent again.        *)
(***************************************************************************)
EXTENDS SessionStore, TLAPS

-----------------------------------------------------------------------------
(* The inductive invariant.                                                *)

(* What TypeOK says of a key, of a call and of what a caller has in hand.   *)
Key == [ttl : Nat, exp : Nat]

Job == [pc : Command \cup {"idle"}, s : Session \cup {NoSession},
        ttl : Nat, exp : Nat, arg : Nat, read : Nat \cup {NoExpiry},
        ids : SUBSET Session, missing : SUBSET Session,
        resent : 0..MaxResends]

Hand == [s : Session \cup {NoSession}, exp : Nat]

(* The sessions that run or have run.                                       *)
started == {s \in Session : Live(s)} \cup lapsed

(* An id gets into the index after its session was written.                 *)
StoreOK ==
  /\ sess \in [Session -> Key]
  /\ index \subseteq Session
  /\ ittl \in Nat \cup {NoExpiry}
  /\ index = {} <=> ittl = 0
  /\ made \subseteq Session /\ lapsed \subseteq Session
  /\ index \subseteq started

Creating == {"create_ttl", "create_set", "create_sadd", "create_expire"}
Extending == {"extend_set", "extend_ttl", "extend_expire"}
Deleting == {"delete_del", "delete_srem"}
Expiring == {"create_set", "create_sadd", "create_expire", "extend_expire"}

(* An EXPIRE with argument a takes less than half a second from r.          *)
Reads(r, a) == 2 * (r - formatSec(a)) < Sec

(* What a call in progress knows, when S are the sessions that run or have  *)
(* run and L those that have lapsed.                                        *)
JobOK(j, S, L) ==
  /\ j \in Job
  /\ j.pc \in Creating \cup Extending \cup Deleting \cup {"update_set"} =>
       j.s \in Session
  /\ j.pc \in Creating \cup Extending \cup {"update_set"} => j.ttl > 0
  /\ j.pc \in {"create_sadd", "create_expire", "delete_del"} => j.s \in S
  /\ j.pc = "delete_srem" => j.s \in L
  /\ j.pc \in Expiring => Reads(j.read, j.arg)
  /\ j.ids \subseteq S
  /\ j.missing \subseteq L

(* A caller that has a Session has its id.                                  *)
HandOK(h) == h \in Hand /\ (h # NoHand => h.s \in Session)

JobsOK ==
  /\ job \in [Proc -> Job]
  /\ \A p \in Proc : JobOK(job[p], started, lapsed)

HandsOK == hand \in [Proc -> Hand] /\ \A p \in Proc : HandOK(hand[p])

(* Cleanups are about sessions that have ended.                             *)
CleanupOK ==
  /\ cleanup \in [Goroutine -> SUBSET Session]
  /\ \A g \in Goroutine : cleanup[g] \subseteq lapsed

IInv == StoreOK /\ JobsOK /\ HandsOK /\ CleanupOK

-----------------------------------------------------------------------------
(* Commands.                                                               *)

(* A session that is no longer there has lapsed.                            *)
NothingLost == lapsed \subseteq lapsed' /\ started \subseteq started'

(* A caller without a call and without a Session knows nothing wrong.       *)
LEMMA IdleTypes ==
  (\A S, L : JobOK(Idle, S, L)) /\ HandOK(NoHand)
<1>1. Idle \in Job
  BY SessionConstants DEF Idle, Job
<1>2. NoHand \in Hand
  BY DEF NoHand, Hand
<1> QED
  BY <1>1, <1>2
  DEF Idle, JobOK, HandOK, Creating, Extending, Deleting, Expiring

(* Nobody's session is lost by a step that writes no key.                   *)
LEMMA StoreUnchanged ==
  ASSUME IInv, UNCHANGED <<sess, lapsed>> PROVE NothingLost
  BY DEF NothingLost, started, Live

(* Nor is the store's part of the invariant by a step that leaves it.       *)
LEMMA StoreSame ==
  ASSUME IInv, UNCHANGED store, UNCHANGED history
  PROVE  StoreOK' /\ NothingLost
  BY DEF IInv, StoreOK, started, Live, NothingLost, store, history

(* After SET the session runs.                                              *)
LEMMA SetSteps ==
  ASSUME IInv, NEW s \in Session, NEW t \in Nat \ {0}, NEW e \in Nat,
         Set(s, t, e), lapsed' = lapsed \/ lapsed' = lapsed \cup {s},
         made' \subseteq Session
  PROVE  StoreOK' /\ NothingLost /\ s \in started'
<1>1. sess \in [Session -> Key] /\ [ttl |-> t, exp |-> e] \in Key
  BY DEF IInv, StoreOK, Key
<1>2. sess' = [sess EXCEPT ![s] = [ttl |-> t, exp |-> e]]
      /\ UNCHANGED <<index, ittl>>
  BY DEF Set
<1>3. sess' \in [Session -> Key]
  BY <1>1, <1>2
<1>4. Live(s)'
  BY <1>1, <1>2 DEF Live
<1>5. \A x \in Session : x # s => sess'[x] = sess[x]
  BY <1>1, <1>2
<1>6. NothingLost
  BY <1>4, <1>5 DEF NothingLost, started, Live
<1>7. StoreOK'
  BY <1>2, <1>3, <1>6 DEF IInv, StoreOK, NothingLost
<1> QED
  BY <1>4, <1>6, <1>7 DEF started

(* DEL ends the sessions that run, and they have lapsed.                    *)
LEMMA DelSteps ==
  ASSUME IInv, NEW ids \in SUBSET Session, Del(ids)
  PROVE  /\ sess' \in [Session -> Key] /\ lapsed' \subseteq Session
         /\ NothingLost
         /\ ids \cap started \subseteq lapsed'
<1>1. sess \in [Session -> Key] /\ Absent \in Key
  BY DEF IInv, StoreOK, Key, Absent
<1>2. \A s \in Session : sess'[s] = IF s \in ids THEN Absent ELSE sess[s]
  BY DEF Del
<1>3. sess' \in [Session -> Key]
  BY <1>1 DEF Del
<1>4. lapsed' = lapsed \cup {s \in ids : Live(s)}
  BY DEF Del
<1>5. NothingLost
  BY <1>2, <1>4 DEF NothingLost, started, Live
<1> QED
  BY <1>3, <1>4, <1>5 DEF IInv, StoreOK, started

(* SADD of a session that runs or has run.                                  *)
LEMMA SAddSteps ==
  ASSUME IInv, NEW s \in Session, s \in started, SAdd(s),
         UNCHANGED <<made, lapsed>>
  PROVE  StoreOK' /\ NothingLost
<1>1. NothingLost
  BY StoreUnchanged DEF SAdd
<1>2. ittl' \in Nat \cup {NoExpiry} /\ (index' = {} <=> ittl' = 0)
  BY DEF SAdd, IInv, StoreOK, NoExpiry
<1> QED
  BY <1>1, <1>2 DEF SAdd, IInv, StoreOK, NothingLost

(* SREM, which deletes a set it makes empty.                                *)
LEMMA SRemSteps ==
  ASSUME IInv, NEW ids, SRem(ids), UNCHANGED <<sess, made, lapsed>>
  PROVE  StoreOK' /\ NothingLost
<1>1. NothingLost
  BY StoreUnchanged
<1>2. ittl' \in Nat \cup {NoExpiry} /\ (index' = {} <=> ittl' = 0)
  BY DEF SRem, IInv, StoreOK
<1> QED
  BY <1>1, <1>2 DEF SRem, IInv, StoreOK, NothingLost

(* EXPIRE gets a natural number.                                            *)
LEMMA FormatTypes == ASSUME NEW d \in Nat PROVE formatSec(d) \in Nat
<1>1. d \div Sec \in Nat
  BY SessionConstants
<1>2. Sec * (d \div Sec) \in Nat
  BY <1>1, SessionConstants
<1> QED
  BY <1>2, SessionConstants DEF formatSec

(* EXPIRE, which deletes a key at once if the time is zero.                 *)
LEMMA ExpireSteps ==
  ASSUME IInv, NEW d \in Nat, Expire(d), made' \subseteq Session,
         UNCHANGED lapsed
  PROVE  StoreOK' /\ NothingLost
<1>1. NothingLost
  BY StoreUnchanged DEF Expire
<1>2. formatSec(d) \in Nat
  BY FormatTypes
<1>3. /\ index' = IF index # {} /\ formatSec(d) > 0 THEN index ELSE {}
      /\ ittl' = IF index # {} /\ formatSec(d) > 0 THEN formatSec(d) ELSE 0
      /\ UNCHANGED sess
  BY DEF Expire
<1>4. ittl' \in Nat \cup {NoExpiry} /\ (index' = {} <=> ittl' = 0)
  BY <1>2, <1>3
<1> QED
  BY <1>1, <1>3, <1>4 DEF IInv, StoreOK, NothingLost

(* TTL replies a number, and what CreateWithTTL makes of it is natural.     *)
LEMMA ReplyTypes ==
  ASSUME IInv PROVE TTLReply \in Int /\ \A t \in Nat : indexTTL(t) \in Nat
<1>1. CASE index = {}
  BY <1>1 DEF TTLReply, indexTTL
<1>2. CASE index # {} /\ ittl = NoExpiry
  BY <1>2 DEF TTLReply, indexTTL
<1>3. CASE index # {} /\ ittl # NoExpiry
  <2>1. ittl \in Nat /\ Sec \in Nat \ {0}
    BY <1>3, SessionConstants DEF IInv, StoreOK
  <2>2. ittl + Sec \div 2 \in Nat
    BY <2>1
  <2>3. (ittl + Sec \div 2) \div Sec \in Nat
    BY <2>1, <2>2
  <2>4. Sec * ((ittl + Sec \div 2) \div Sec) \in Nat
    BY <2>1, <2>3
  <2>5. TTLReply = Sec * ((ittl + Sec \div 2) \div Sec)
    BY <1>3 DEF TTLReply
  <2> QED
    BY <2>4, <2>5 DEF indexTTL
<1> QED
  BY <1>1, <1>2, <1>3

(* Division leaves a remainder.                                             *)
LEMMA Division ==
  ASSUME NEW a \in Nat, NEW d \in Nat \ {0}
  PROVE  /\ a \div d \in Nat /\ a % d \in Nat /\ a % d < d
         /\ a = d * (a \div d) + (a % d)
  OBVIOUS

(* Multiples of d are ordered as their factors.                             *)
LEMMA Multiples ==
  ASSUME NEW d \in Nat \ {0}, NEW m \in Nat, NEW n \in Nat
  PROVE  /\ d * m \in Nat /\ d * n \in Nat
         /\ m >= n => d * m >= d * n
         /\ d * n < d * m + d => n <= m
<1>1. d * m \in Nat /\ d * n \in Nat /\ d * (m + 1) = d * m + d
  OBVIOUS
<1>2. m >= n => d * m >= d * n
  OBVIOUS
<1>3. n >= m + 1 => d * n >= d * (m + 1)
  OBVIOUS
<1> QED
  BY <1>1, <1>2, <1>3

(* EXPIRE with at least as many whole seconds as q sets at least q.         *)
LEMMA FormatKeeps ==
  ASSUME NEW a \in Nat, a > 0, NEW q \in Nat, a >= Sec * q
  PROVE  formatSec(a) >= Sec * q
<1> DEFINE m == a \div Sec
           r == a % Sec
<1>1. Sec \in Nat \ {0} /\ m \in Nat /\ r \in Nat
      /\ r < Sec /\ a = Sec * m + r
  BY SessionConstants, Division
<1> HIDE DEF m, r
<1>2. q <= m /\ Sec * m \in Nat /\ Sec * q \in Nat
  BY <1>1, Multiples
<1>3. Sec * m >= Sec * q
  BY <1>1, <1>2, Multiples
<1>4. formatSec(a) = IF a < Sec THEN Sec ELSE Sec * m
  BY <1>1 DEF formatSec, m
<1> QED
  BY <1>1, <1>2, <1>3, <1>4

(* The TTL reply is within half a second of the truth.                      *)
LEMMA RoundingIsSmall ==
  ASSUME NEW i \in Nat
  PROVE  /\ (i + Sec \div 2) \div Sec \in Nat
         /\ 2 * (i - Sec * ((i + Sec \div 2) \div Sec)) < Sec
<1> DEFINE h == Sec \div 2
           q == (i + h) \div Sec
           r == (i + h) % Sec
<1>1. Sec \in Nat \ {0} /\ h \in Nat /\ 2 * h >= Sec - 1
  BY SessionConstants
<1>2. q \in Nat /\ r \in Nat /\ r < Sec /\ i + h = Sec * q + r
  <2>1. i + h \in Nat
    BY <1>1
  <2> QED
    BY <1>1, <2>1, Division
<1> HIDE DEF h, q, r
<1>3. Sec * q \in Nat
  BY <1>1, <1>2
<1>4. 2 * (i - Sec * q) < Sec
  BY <1>1, <1>2, <1>3
<1> QED
  BY <1>2, <1>4 DEF q, h

(* A call that sends no less than it was told takes little from the index.  *)
LEMMA ReadsReply ==
  ASSUME IInv, NEW a \in Nat, TTLReply < 0 \/ (a > 0 /\ a >= TTLReply)
  PROVE  Reads(ittl, a)
<1>1. formatSec(a) \in Nat /\ Sec \in Nat \ {0} /\ ittl \in Int
  BY FormatTypes, SessionConstants DEF IInv, StoreOK, NoExpiry
<1>2. CASE ittl <= 0
  BY <1>1, <1>2 DEF Reads
<1>3. CASE ittl > 0
  <2> DEFINE q == (ittl + Sec \div 2) \div Sec
  <2>1. ittl \in Nat /\ index # {} /\ ittl # NoExpiry
    BY <1>3 DEF IInv, StoreOK, NoExpiry
  <2>2. TTLReply = Sec * q
    BY <2>1 DEF TTLReply
  <2>3. q \in Nat /\ 2 * (ittl - Sec * q) < Sec
    BY <2>1, RoundingIsSmall
  <2> HIDE DEF q
  <2>4. Sec * q \in Nat
    BY <1>1, <2>3
  <2>5. formatSec(a) >= Sec * q
    BY <2>2, <2>3, <2>4, FormatKeeps
  <2> QED
    BY <1>1, <2>1, <2>3, <2>4, <2>5 DEF Reads
<1> QED
  BY <1>1, <1>2, <1>3

(* And the less the longer it takes.                                        *)
LEMMA ReadsLater ==
  ASSUME NEW r \in Nat \cup {NoExpiry}, NEW a \in Nat, Reads(r, a)
  PROVE  Reads(Pass(r), a)
<1>1. formatSec(a) \in Nat /\ Sec \in Nat
  BY FormatTypes, SessionConstants
<1> QED
  BY <1>1 DEF Reads, Pass, NoExpiry

-----------------------------------------------------------------------------
(* Calls.                                                                  *)

(* One call goes on.                                                        *)
LEMMA CallSteps ==
  ASSUME IInv, NEW p \in Proc, NEW j, Go(p, j), JobOK(j, started', lapsed'),
         StoreOK', NothingLost, NEW h, HandOK(h),
         hand' = hand \/ hand' = [hand EXCEPT ![p] = h],
         \/ UNCHANGED cleanup
         \/ \E g, ids : /\ ids \subseteq lapsed /\ ids \subseteq Session
                        /\ cleanup' = [cleanup EXCEPT ![g] = ids]
  PROVE  IInv'
<1>1. job \in [Proc -> Job] /\ hand \in [Proc -> Hand]
  BY DEF IInv, JobsOK, HandsOK
<1>2. /\ job' \in [Proc -> Job]
      /\ \A q \in Proc : job'[q] = IF q = p THEN j ELSE job[q]
  BY <1>1 DEF Go, JobOK
<1>3. /\ hand' \in [Proc -> Hand]
      /\ \A q \in Proc : hand'[q] = h \/ hand'[q] = hand[q]
  BY <1>1 DEF HandOK
<1>4. \A q \in Proc : JobOK(job[q], started', lapsed')
  BY DEF IInv, JobsOK, JobOK, NothingLost
<1>5. JobsOK' /\ HandsOK'
  BY <1>2, <1>3, <1>4 DEF JobsOK, IInv, HandsOK
<1>6. CleanupOK'
  BY DEF IInv, CleanupOK, NothingLost
<1> QED
  BY <1>5, <1>6 DEF IInv

(* What a call knows stays true: sessions that have run have run for ever.  *)
LEMMA JobLater ==
  ASSUME IInv, NEW p \in Proc
  PROVE  /\ JobOK(job[p], started, lapsed)
         /\ NothingLost => JobOK(job[p], started', lapsed')
  BY DEF IInv, JobsOK, JobOK, NothingLost

(* What a call that goes on, or starts again, still knows.                  *)
SameCall(j, k) ==
  /\ j \in Job
  /\ j.s = k.s /\ j.ttl = k.ttl /\ j.exp = k.exp
  /\ j.arg = k.arg /\ j.read = k.read
  /\ j.ids = k.ids /\ j.missing = k.missing

(* A call keeps its arguments when it goes on.                              *)
LEMMA GoOnTypes ==
  ASSUME IInv, NEW p \in Proc, NEW c \in Command, NEW j,
         j = [job[p] EXCEPT !.pc = c]
  PROVE  SameCall(j, job[p]) /\ j.pc = c
<1>1. job[p] \in Job
  BY DEF IInv, JobsOK
<1>2. j \in Job
  BY <1>1 DEF Job
<1> QED
  BY <1>1, <1>2 DEF Job, SameCall

(* And when its pipeline is sent again.                                     *)
LEMMA ResendTypes ==
  ASSUME IInv, NEW p \in Proc, NEW c \in Command, NEW j, NEW r,
         job[p].resent < MaxResends, r = job[p].resent + 1,
         j = [job[p] EXCEPT !.pc = c, !.resent = r]
  PROVE  SameCall(j, job[p]) /\ j.pc = c
<1>1. job[p] \in Job
  BY DEF IInv, JobsOK
<1>2. r \in 0..MaxResends
  BY <1>1, SessionConstants DEF Job
<1>3. j \in Job
  BY <1>1, <1>2 DEF Job
<1> QED
  BY <1>1, <1>3 DEF Job, SameCall

(* The call goes on, or go-redis sends its pipeline again.                  *)
LEMMA AdvanceSteps ==
  ASSUME IInv, NEW p \in Proc, NEW c \in Command, NEW first \in Command,
         Advance(p, c, first)
  PROVE  \E j : Go(p, j) /\ SameCall(j, job[p]) /\ j.pc \in {c, first}
<1>1. CASE Go(p, [job[p] EXCEPT !.pc = c])
  <2> DEFINE j == [job[p] EXCEPT !.pc = c]
  <2>1. Go(p, j) /\ j = [job[p] EXCEPT !.pc = c]
    BY <1>1
  <2> HIDE DEF j
  <2>2. SameCall(j, job[p]) /\ j.pc = c
    BY <2>1, GoOnTypes
  <2> QED
    BY <2>1, <2>2
<1>2. CASE /\ job[p].resent < MaxResends
           /\ Go(p, [job[p] EXCEPT !.pc = first, !.resent = @ + 1])
  <2> DEFINE j == [job[p] EXCEPT !.pc = first, !.resent = @ + 1]
           r == job[p].resent + 1
  <2>1. Go(p, j)
    BY <1>2
  <2>2. /\ job[p].resent < MaxResends /\ r = job[p].resent + 1
        /\ j = [job[p] EXCEPT !.pc = first, !.resent = r]
    BY <1>2
  <2> HIDE DEF j, r
  <2>3. SameCall(j, job[p]) /\ j.pc = first
    BY <2>2, ResendTypes
  <2> QED
    BY <2>1, <2>3
<1> QED
  BY <1>1, <1>2 DEF Advance

(* The call returns, or go-redis sends its pipeline again.                  *)
LEMMA FinishSteps ==
  ASSUME IInv, NEW p \in Proc, NEW first \in Command, Finish(p, first)
  PROVE  \E j : /\ Go(p, j)
                /\ j = Idle \/ (SameCall(j, job[p]) /\ j.pc = first)
<1>1. CASE Go(p, Idle)
  BY <1>1
<1>2. CASE /\ job[p].resent < MaxResends
           /\ Go(p, [job[p] EXCEPT !.pc = first, !.resent = @ + 1])
  <2> DEFINE j == [job[p] EXCEPT !.pc = first, !.resent = @ + 1]
           r == job[p].resent + 1
  <2>1. Go(p, j)
    BY <1>2
  <2>2. /\ job[p].resent < MaxResends /\ r = job[p].resent + 1
        /\ j = [job[p] EXCEPT !.pc = first, !.resent = r]
    BY <1>2
  <2> HIDE DEF j, r
  <2>3. SameCall(j, job[p]) /\ j.pc = first
    BY <2>2, ResendTypes
  <2> QED
    BY <2>1, <2>3
<1> QED
  BY <1>1, <1>2 DEF Finish

-----------------------------------------------------------------------------
(* The first step of a call.                                               *)

(* What the records that start a call are made from.                        *)
LEMMA IdleFields ==
  Idle \in Job /\ Idle.ids = {} /\ Idle.missing = {}
  BY IdleTypes DEF JobOK, Idle

(* The start of update for a session.                                       *)
LEMMA UpdatingTypes ==
  ASSUME NEW c \in {"update_set", "extend_set"}, NEW s \in Session,
         NEW e \in Nat, NEW S, NEW L
  PROVE  JobOK(Updating(c, s, e), S, L)
<1>1. updateTTL(e) \in Nat \ {0}
  BY SessionConstants DEF updateTTL
<1>2. Updating(c, s, e) \in Job
  BY <1>1, IdleFields DEF Updating, Job, Command
<1> QED
  BY <1>1, <1>2, IdleFields
  DEF JobOK, Updating, Job, Creating, Extending, Deleting, Expiring

(* The ids callers can know are ids.                                        *)
LEMMA KnownTypes ==
  ASSUME IInv, NEW s \in Known PROVE s \in Session /\ sess[s].exp \in Nat
  BY DEF IInv, StoreOK, Known, Key

(* Every start of a call keeps the invariant.                               *)
LEMMA CreateWithTTLKeeps ==
  ASSUME IInv, NEW p \in Proc, CreateWithTTL(p) PROVE IInv'
<1>1. PICK s \in Session, t \in TTL :
        Go(p, [Idle EXCEPT !.pc = "create_ttl", !.s = s, !.exp = t,
                           !.ttl = t])
  BY DEF CreateWithTTL
<1> DEFINE j == [Idle EXCEPT !.pc = "create_ttl", !.s = s, !.exp = t,
                             !.ttl = t]
<1>2. j \in Job /\ t > 0
  <2>1. t \in Nat /\ t > 0
    BY SessionConstants
  <2>2. "create_ttl" \in Command
    BY DEF Command
  <2>3. j \in Job
    BY <2>1, <2>2, IdleFields DEF Job
  <2> QED
    BY <2>1, <2>3
<1>3. JobOK(j, started', lapsed')
  BY <1>2, IdleFields DEF JobOK, Job, Creating, Extending, Deleting, Expiring
<1>4. StoreOK' /\ NothingLost
  BY StoreSame DEF CreateWithTTL
<1>5. Go(p, j) /\ UNCHANGED <<hand, cleanup>>
  BY <1>1 DEF CreateWithTTL
<1> HIDE DEF j
<1> QED
  BY <1>3, <1>4, <1>5, CallSteps, IdleTypes

(* GetWithoutTouch puts a Session with an id in the caller's hand.          *)
LEMMA GetWithoutTouchKeeps ==
  ASSUME IInv, NEW p \in Proc, GetWithoutTouch(p) PROVE IInv'
<1>1. PICK s \in Known :
        \/ hand' = hand
        \/ hand' = [hand EXCEPT ![p] = [s |-> s, exp |-> sess[s].exp]]
  BY DEF GetWithoutTouch, Keep
<1>2. HandOK([s |-> s, exp |-> sess[s].exp])
  BY KnownTypes DEF HandOK, Hand
<1>3. StoreOK' /\ NothingLost
  BY StoreSame DEF GetWithoutTouch
<1>4. Go(p, job[p]) /\ UNCHANGED cleanup
  BY DEF Go, GetWithoutTouch, IInv, JobsOK
<1> QED
  BY <1>1, <1>2, <1>3, <1>4, JobLater, CallSteps

(* Get, Update and Extend start alike.                                      *)
LEMMA UpdatingKeeps ==
  ASSUME IInv, NEW p \in Proc, NEW c \in {"update_set", "extend_set"},
         NEW s \in Session, NEW e \in Nat, Go(p, Updating(c, s, e)),
         UNCHANGED <<store, hand, cleanup, history>>
  PROVE  IInv'
<1>1. JobOK(Updating(c, s, e), started', lapsed')
  BY UpdatingTypes
<1>2. StoreOK' /\ NothingLost
  BY StoreSame
<1> QED
  BY <1>1, <1>2, CallSteps, IdleTypes

(* Get starts an update of what it has read.                                *)
LEMMA GetKeeps == ASSUME IInv, NEW p \in Proc, Get(p) PROVE IInv'
<1>1. PICK s \in Known : Go(p, Updating("update_set", s, sess[s].exp))
  BY DEF Get
<1> QED
  BY <1>1, KnownTypes, UpdatingKeeps DEF Get

(* Update starts one of what the caller has in hand.                        *)
LEMMA UpdateKeeps == ASSUME IInv, NEW p \in Proc, Update(p) PROVE IInv'
<1>1. hand[p].s \in Session /\ hand[p].exp \in Nat
  BY DEF Update, IInv, HandsOK, HandOK, Hand
<1> QED
  BY <1>1, UpdatingKeeps DEF Update

(* Extend starts one with a new ExpiresAt.                                  *)
LEMMA ExtendKeeps == ASSUME IInv, NEW p \in Proc, Extend(p) PROVE IInv'
<1>1. PICK s \in Known, t \in ExtendTTL : Go(p, Updating("extend_set", s, t))
  BY DEF Extend
<1>2. t \in Nat
  BY SessionConstants
<1> QED
  BY <1>1, <1>2, KnownTypes, UpdatingKeeps DEF Extend

(* Delete goes on only with a session that runs.                            *)
LEMMA DeleteKeeps == ASSUME IInv, NEW p \in Proc, Delete(p) PROVE IInv'
<1>1. PICK s \in Known :
        Live(s) /\ Go(p, [Idle EXCEPT !.pc = "delete_del", !.s = s])
  BY DEF Delete
<1> DEFINE j == [Idle EXCEPT !.pc = "delete_del", !.s = s]
<1>2. s \in Session /\ s \in started
  BY <1>1, KnownTypes DEF started
<1>3. StoreOK' /\ NothingLost
  BY StoreSame DEF Delete
<1>4. j \in Job
  BY <1>2, IdleFields DEF Job, Command
<1>5. JobOK(j, started', lapsed')
  BY <1>2, <1>3, <1>4, IdleFields
  DEF JobOK, NothingLost, Job, Creating, Extending, Deleting, Expiring
<1>6. Go(p, j) /\ UNCHANGED <<hand, cleanup>>
  BY <1>1 DEF Delete
<1> HIDE DEF j
<1> QED
  BY <1>3, <1>5, <1>6, CallSteps, IdleTypes

(* SMEMBERS returns ids of sessions that run or have run.                   *)
LEMMA SMembersKeeps ==
  ASSUME IInv, NEW p \in Proc,
         NEW c \in {"user_del", "list_mget", "count_exists"}, SMembers(p, c)
  PROVE  IInv'
<1> DEFINE j == [Idle EXCEPT !.pc = c, !.ids = index]
<1>1. index \subseteq Session /\ index \subseteq started
  BY DEF IInv, StoreOK
<1>2. StoreOK' /\ NothingLost
  BY StoreSame DEF SMembers
<1>3. j \in Job
  BY <1>1, IdleFields DEF Job, Command
<1>4. JobOK(j, started', lapsed')
  BY <1>1, <1>2, <1>3, IdleFields
  DEF JobOK, NothingLost, Job, Creating, Extending, Deleting, Expiring
<1>5. Go(p, j) /\ UNCHANGED <<hand, cleanup>>
  BY DEF SMembers
<1> HIDE DEF j
<1> QED
  BY <1>2, <1>4, <1>5, CallSteps, IdleTypes

(* All starts of a call.                                                    *)
LEMMA CallKeeps == ASSUME IInv, NEW p \in Proc, Call(p) PROVE IInv'
  BY CreateWithTTLKeeps, GetWithoutTouchKeeps, GetKeeps, UpdateKeeps,
     ExtendKeeps, DeleteKeeps, SMembersKeeps
  DEF Call, DeleteByUserID, ListByUserID, Count

-----------------------------------------------------------------------------
(* The other steps of a call.                                              *)

(* So does every other step of a call.                                      *)
LEMMA CreateReadsTTLKeeps ==
  ASSUME IInv, NEW p \in Proc, CreateReadsTTL(p) PROVE IInv'
<1> DEFINE a == indexTTL(job[p].ttl)
           j == [job[p] EXCEPT !.pc = "create_set", !.arg = a, !.read = ittl]
<1>1. StoreOK' /\ NothingLost
  BY StoreSame DEF CreateReadsTTL
<1>2. JobOK(job[p], started', lapsed') /\ job[p].pc = "create_ttl"
  BY <1>1, JobLater DEF CreateReadsTTL, At
<1>3. /\ job[p] \in Job /\ job[p].ttl \in Nat /\ job[p].ttl > 0
      /\ a \in Nat /\ TTLReply \in Int /\ ittl \in Nat \cup {NoExpiry}
  BY <1>2, ReplyTypes DEF JobOK, Job, Creating, IInv, StoreOK
<1>4. Reads(ittl, a)
  <2>1. a > 0 /\ a >= TTLReply
    BY <1>3 DEF indexTTL
  <2> QED
    BY <1>3, <2>1, ReadsReply
<1>5. Go(p, j) /\ UNCHANGED <<hand, cleanup>>
  BY DEF CreateReadsTTL
<1> HIDE DEF a
<1>6. j \in Job
  <2> DEFINE j1 == [job[p] EXCEPT !.pc = "create_set", !.arg = a]
  <2>1. j1 \in Job
    BY <1>3 DEF Job, Command
  <2>2. j = [j1 EXCEPT !.read = ittl]
    OBVIOUS
  <2> HIDE DEF j1
  <2> QED
    BY <1>3, <2>1, <2>2 DEF Job
<1>7. JobOK(j, started', lapsed')
  BY <1>2, <1>3, <1>4, <1>6
  DEF JobOK, Job, Creating, Extending, Deleting, Expiring
<1> HIDE DEF j
<1> QED
  BY <1>1, <1>5, <1>7, CallSteps, IdleTypes

(* After the SET the session has started.                                   *)
LEMMA CreateSetsKeeps ==
  ASSUME IInv, NEW p \in Proc, CreateSets(p) PROVE IInv'
<1>1. /\ JobOK(job[p], started, lapsed) /\ job[p].pc = "create_set"
      /\ UNCHANGED <<hand, cleanup>>
  BY JobLater DEF CreateSets, At
<1>2. job[p].s \in Session /\ job[p].ttl \in Nat \ {0} /\ job[p].exp \in Nat
  BY <1>1 DEF JobOK, Job, Creating
<1>3. lapsed' = lapsed /\ made' \subseteq Session
  BY DEF CreateSets, history, IInv, StoreOK
<1>4. StoreOK' /\ NothingLost /\ job[p].s \in started'
  BY <1>2, <1>3, SetSteps DEF CreateSets
<1>5. PICK j : /\ Go(p, j) /\ SameCall(j, job[p])
               /\ j.pc \in {"create_sadd", "create_set"}
  BY AdvanceSteps DEF CreateSets, Command
<1>6. JobOK(j, started', lapsed')
  BY <1>1, <1>4, <1>5, JobLater
  DEF JobOK, SameCall, Creating, Extending, Deleting, Expiring
<1> QED
  BY <1>1, <1>4, <1>5, <1>6, CallSteps, IdleTypes

(* The SADD comes after the SET: what the index gets has started.           *)
LEMMA CreateAddsKeeps ==
  ASSUME IInv, NEW p \in Proc, CreateAdds(p) PROVE IInv'
<1>1. /\ JobOK(job[p], started, lapsed) /\ job[p].pc = "create_sadd"
      /\ UNCHANGED <<hand, cleanup, made, lapsed>>
  BY JobLater DEF CreateAdds, At, history
<1>2. job[p].s \in Session /\ job[p].s \in started
  BY <1>1 DEF JobOK, Creating
<1>3. StoreOK' /\ NothingLost
  BY <1>1, <1>2, SAddSteps DEF CreateAdds
<1>4. PICK j : /\ Go(p, j) /\ SameCall(j, job[p])
               /\ j.pc \in {"create_expire", "create_set"}
  BY AdvanceSteps DEF CreateAdds, Command
<1>5. JobOK(j, started', lapsed')
  BY <1>1, <1>3, <1>4, JobLater
  DEF JobOK, SameCall, Creating, Extending, Deleting, Expiring
<1> QED
  BY <1>1, <1>3, <1>4, <1>5, CallSteps, IdleTypes

(* Create returns a Session with its id, or is sent again.                  *)
LEMMA CreateExpiresKeeps ==
  ASSUME IInv, NEW p \in Proc, CreateExpires(p) PROVE IInv'
<1> DEFINE h == [s |-> job[p].s, exp |-> job[p].exp]
<1>1. /\ JobOK(job[p], started, lapsed) /\ job[p].pc = "create_expire"
      /\ UNCHANGED <<cleanup, lapsed>>
      /\ made' \in {made, made \cup {job[p].s}}
      /\ hand' = hand \/ hand' = [hand EXCEPT ![p] = h]
  BY JobLater DEF CreateExpires, At, Keep
<1>2. /\ job[p].s \in Session /\ job[p].exp \in Nat /\ job[p].arg \in Nat
  BY <1>1 DEF JobOK, Job, Creating
<1>3. HandOK(h)
  BY <1>2 DEF HandOK, Hand
<1>4. made' \subseteq Session
  BY <1>1, <1>2 DEF IInv, StoreOK
<1>5. StoreOK' /\ NothingLost
  BY <1>1, <1>2, <1>4, ExpireSteps DEF CreateExpires
<1>6. PICK j : /\ Go(p, j)
               /\ j = Idle \/ (SameCall(j, job[p]) /\ j.pc = "create_set")
  BY FinishSteps DEF CreateExpires, Command
<1>7. JobOK(j, started', lapsed')
  BY <1>1, <1>5, <1>6, JobLater, IdleTypes
  DEF JobOK, SameCall, Creating, Extending, Deleting, Expiring
<1> HIDE DEF h
<1> QED
  BY <1>1, <1>3, <1>5, <1>6, <1>7, CallSteps

(* The SET of update.                                                       *)
LEMMA UpdateSetSteps ==
  ASSUME IInv, NEW p \in Proc, job[p].pc \in {"update_set", "extend_set"},
         updateSet(p), UNCHANGED made
  PROVE  StoreOK' /\ NothingLost
<1>1. JobOK(job[p], started, lapsed)
  BY JobLater
<1>2. job[p].s \in Session /\ job[p].ttl \in Nat \ {0} /\ job[p].exp \in Nat
  BY <1>1 DEF JobOK, Job, Extending
<1>3. /\ lapsed' = lapsed \/ lapsed' = lapsed \cup {job[p].s}
      /\ Set(job[p].s, job[p].ttl, job[p].exp)
      /\ made' \subseteq Session
  BY DEF updateSet, IInv, StoreOK
<1> QED
  BY <1>2, <1>3, SetSteps

(* The Session that Update and Get give back.                               *)
LEMMA UpdatedTypes ==
  ASSUME IInv, NEW p \in Proc, job[p].pc = "update_set"
  PROVE  HandOK(updated(p))
<1>1. JobOK(job[p], started, lapsed)
  BY JobLater
<1>2. job[p].s \in Session /\ job[p].ttl \in Nat /\ job[p].exp \in Nat
  BY <1>1 DEF JobOK, Job
<1> QED
  BY <1>2 DEF updated, HandOK, Hand

(* The SET of Get and Update, which returns a Session or is sent again.     *)
LEMMA UpdatesKeeps == ASSUME IInv, NEW p \in Proc, Updates(p) PROVE IInv'
<1>1. /\ job[p].pc = "update_set" /\ UNCHANGED cleanup
      /\ hand' = hand \/ hand' = [hand EXCEPT ![p] = updated(p)]
  BY DEF Updates, At, Keep
<1>2. HandOK(updated(p))
  BY <1>1, UpdatedTypes
<1>3. StoreOK' /\ NothingLost
  BY <1>1, UpdateSetSteps DEF Updates
<1>4. PICK j : /\ Go(p, j)
               /\ j = Idle \/ (SameCall(j, job[p]) /\ j.pc = "update_set")
  BY FinishSteps DEF Updates, Command
<1>5. JobOK(j, started', lapsed')
  BY <1>1, <1>3, <1>4, JobLater, IdleTypes
  DEF JobOK, SameCall, Creating, Extending, Deleting, Expiring
<1> QED
  BY <1>1, <1>2, <1>3, <1>4, <1>5, CallSteps

(* The SET of Extend.                                                       *)
LEMMA ExtendSetsKeeps ==
  ASSUME IInv, NEW p \in Proc, ExtendSets(p) PROVE IInv'
<1>1. job[p].pc = "extend_set" /\ UNCHANGED <<hand, cleanup>>
  BY DEF ExtendSets, At
<1>2. StoreOK' /\ NothingLost
  BY <1>1, UpdateSetSteps DEF ExtendSets
<1>3. PICK j : /\ Go(p, j) /\ SameCall(j, job[p])
               /\ j.pc \in {"extend_ttl", "extend_set"}
  BY AdvanceSteps DEF ExtendSets, Command
<1>4. JobOK(j, started', lapsed')
  BY <1>1, <1>2, <1>3, JobLater
  DEF JobOK, SameCall, Creating, Extending, Deleting, Expiring
<1> QED
  BY <1>1, <1>2, <1>3, <1>4, CallSteps, IdleTypes

(* Extend is done, or has an EXPIRE to send.                                *)
LEMMA ExtendReadsTTLKeeps ==
  ASSUME IInv, NEW p \in Proc, ExtendReadsTTL(p) PROVE IInv'
<1>1. job[p].pc = "extend_ttl" /\ UNCHANGED <<hand, cleanup>>
  BY DEF ExtendReadsTTL, At
<1>2. StoreOK' /\ NothingLost
  BY StoreSame DEF ExtendReadsTTL
<1>3. JobOK(job[p], started', lapsed') /\ job[p] \in Job
  BY <1>2, JobLater DEF IInv, JobsOK
<1>4. CASE Go(p, Idle)
  BY <1>1, <1>2, <1>4, CallSteps, IdleTypes
<1>5. CASE /\ TTLReply < 0 \/ job[p].arg > TTLReply
           /\ Go(p, [job[p] EXCEPT !.pc = "extend_expire", !.read = ittl])
  <2> DEFINE j == [job[p] EXCEPT !.pc = "extend_expire", !.read = ittl]
  <2>1. /\ job[p].arg \in Nat /\ ittl \in Nat \cup {NoExpiry}
        /\ TTLReply \in Int
    BY <1>3, ReplyTypes DEF Job, IInv, StoreOK
  <2>2. Reads(ittl, job[p].arg)
    <3>1. TTLReply < 0 \/ (job[p].arg > 0 /\ job[p].arg >= TTLReply)
      BY <1>5, <2>1
    <3> QED
      BY <2>1, <3>1, ReadsReply
  <2>3. j \in Job
    BY <1>3, <2>1 DEF Job, Command
  <2>4. JobOK(j, started', lapsed')
    BY <1>1, <1>3, <2>2, <2>3
    DEF JobOK, Job, Creating, Extending, Deleting, Expiring
  <2>5. Go(p, j)
    BY <1>5
  <2> HIDE DEF j
  <2> QED
    BY <1>1, <1>2, <2>4, <2>5, CallSteps, IdleTypes
<1> QED
  BY <1>4, <1>5 DEF ExtendReadsTTL

(* The EXPIRE of Extend.                                                    *)
LEMMA ExtendExpiresKeeps ==
  ASSUME IInv, NEW p \in Proc, ExtendExpires(p) PROVE IInv'
<1>1. /\ JobOK(job[p], started, lapsed) /\ job[p].pc = "extend_expire"
      /\ UNCHANGED <<hand, cleanup, lapsed>> /\ made' \subseteq Session
  BY JobLater DEF ExtendExpires, At, history, IInv, StoreOK
<1>2. job[p].arg \in Nat
  BY <1>1 DEF JobOK, Job
<1>3. StoreOK' /\ NothingLost
  BY <1>1, <1>2, ExpireSteps DEF ExtendExpires
<1>4. PICK j :
        /\ Go(p, j)
        /\ j = Idle \/ (SameCall(j, job[p]) /\ j.pc = "extend_expire")
  BY FinishSteps DEF ExtendExpires, Command
<1>5. JobOK(j, started', lapsed')
  BY <1>1, <1>3, <1>4, JobLater, IdleTypes
  DEF JobOK, SameCall, Creating, Extending, Deleting, Expiring
<1> QED
  BY <1>1, <1>3, <1>4, <1>5, CallSteps, IdleTypes

(* The DEL comes before the SREM: what it takes from the index has lapsed.  *)
LEMMA DeleteDelsKeeps ==
  ASSUME IInv, NEW p \in Proc, DeleteDels(p) PROVE IInv'
<1>1. /\ JobOK(job[p], started, lapsed) /\ job[p].pc = "delete_del"
      /\ UNCHANGED <<index, ittl, hand, cleanup, made>>
  BY JobLater DEF DeleteDels, At
<1>2. job[p].s \in Session /\ job[p].s \in started
  BY <1>1 DEF JobOK, Deleting
<1>3. /\ sess' \in [Session -> Key] /\ lapsed' \subseteq Session
      /\ NothingLost /\ job[p].s \in lapsed'
  <2>1. {job[p].s} \in SUBSET Session /\ Del({job[p].s})
    BY <1>2 DEF DeleteDels
  <2> QED
    BY <1>2, <2>1, DelSteps
<1>4. StoreOK'
  BY <1>1, <1>3 DEF IInv, StoreOK, NothingLost
<1>5. PICK j : /\ Go(p, j) /\ SameCall(j, job[p])
               /\ j.pc \in {"delete_srem", "delete_del"}
  BY AdvanceSteps DEF DeleteDels, Command
<1>6. JobOK(j, started', lapsed')
  BY <1>1, <1>3, <1>5, JobLater
  DEF JobOK, SameCall, Creating, Extending, Deleting, Expiring
<1> QED
  BY <1>1, <1>3, <1>4, <1>5, <1>6, CallSteps, IdleTypes

(* Delete is done, or starts again with a session that has lapsed.          *)
LEMMA DeleteRemsKeeps ==
  ASSUME IInv, NEW p \in Proc, DeleteRems(p) PROVE IInv'
<1>1. /\ JobOK(job[p], started, lapsed) /\ job[p].pc = "delete_srem"
      /\ UNCHANGED <<sess, hand, cleanup, made, lapsed>>
  BY JobLater DEF DeleteRems, At
<1>2. StoreOK' /\ NothingLost
  BY <1>1, SRemSteps DEF DeleteRems
<1>3. PICK j : /\ Go(p, j)
               /\ j = Idle \/ (SameCall(j, job[p]) /\ j.pc = "delete_del")
  BY FinishSteps DEF DeleteRems, Command
<1>4. lapsed \subseteq started'
  BY <1>1 DEF started
<1>5. JobOK(j, started', lapsed')
  BY <1>1, <1>2, <1>3, <1>4, JobLater, IdleTypes
  DEF JobOK, SameCall, Creating, Extending, Deleting, Expiring
<1> QED
  BY <1>1, <1>2, <1>3, <1>5, CallSteps, IdleTypes

(* DeleteByUserID leaves no index.                                          *)
LEMMA UserDelsKeeps == ASSUME IInv, NEW p \in Proc, UserDels(p) PROVE IInv'
<1>1. /\ JobOK(job[p], started, lapsed) /\ job[p].pc = "user_del"
      /\ UNCHANGED <<hand, cleanup, made>> /\ index' = {} /\ ittl' = 0
  BY JobLater DEF UserDels, At
<1>2. job[p].ids \in SUBSET Session
  BY <1>1 DEF JobOK, Job
<1>3. /\ sess' \in [Session -> Key] /\ lapsed' \subseteq Session
      /\ NothingLost
  BY <1>2, DelSteps DEF UserDels
<1>4. StoreOK'
  BY <1>1, <1>3 DEF IInv, StoreOK
<1>5. PICK j : /\ Go(p, j)
               /\ j = Idle \/ (SameCall(j, job[p]) /\ j.pc = "user_del")
  BY FinishSteps DEF UserDels, Command
<1>6. JobOK(j, started', lapsed')
  BY <1>1, <1>3, <1>5, JobLater, IdleTypes
  DEF JobOK, SameCall, Creating, Extending, Deleting, Expiring
<1> QED
  BY <1>1, <1>3, <1>4, <1>5, <1>6, CallSteps, IdleTypes

(* A goroutine is started for nothing, or for sessions that have ended.     *)
LEMMA CleanupSteps ==
  ASSUME NEW ids, StartCleanup(ids), ids \subseteq lapsed,
         ids \subseteq Session
  PROVE  \/ UNCHANGED cleanup
         \/ \E g, x : /\ x \subseteq lapsed /\ x \subseteq Session
                      /\ cleanup' = [cleanup EXCEPT ![g] = x]
  BY DEF StartCleanup

(* An id from the index without a key is that of a session that has ended:  *)
(* it started before it was listed.                                         *)
LEMMA ListGetsKeeps == ASSUME IInv, NEW p \in Proc, ListGets(p) PROVE IInv'
<1> DEFINE gone == {s \in job[p].ids : ~ Live(s)}
<1>1. /\ JobOK(job[p], started, lapsed) /\ job[p].ids \subseteq Session
      /\ StartCleanup(gone)
  BY JobLater DEF ListGets, JobOK, Job
<1>2. gone \subseteq lapsed /\ gone \subseteq Session
  BY <1>1 DEF JobOK, started
<1>3. \/ UNCHANGED cleanup
      \/ \E g, ids : /\ ids \subseteq lapsed /\ ids \subseteq Session
                     /\ cleanup' = [cleanup EXCEPT ![g] = ids]
  <2> HIDE DEF gone
  <2> QED
    BY <1>1, <1>2, CleanupSteps
<1>4. PICK h : /\ hand' = hand \/ hand' = [hand EXCEPT ![p] = h]
               /\ h \in {hand[p]} \cup {[s |-> s, exp |-> sess[s].exp] :
                                         s \in {i \in job[p].ids : Live(i)}}
  BY DEF ListGets, Keep
<1>5. HandOK(h)
  <2>1. CASE h = hand[p]
    BY <2>1 DEF IInv, HandsOK
  <2>2. ASSUME NEW s \in job[p].ids, h = [s |-> s, exp |-> sess[s].exp]
        PROVE  HandOK(h)
    BY <1>1, <2>2 DEF HandOK, Hand, IInv, StoreOK, Key
  <2> QED
    BY <1>4, <2>1, <2>2
<1>6. StoreOK' /\ NothingLost
  BY StoreSame DEF ListGets
<1>7. Go(p, Idle)
  BY DEF ListGets
<1> QED
  BY <1>3, <1>4, <1>5, <1>6, <1>7, CallSteps, IdleTypes

(* The same for each EXISTS of Count.                                       *)
LEMMA CountChecksKeeps ==
  ASSUME IInv, NEW p \in Proc, CountChecks(p) PROVE IInv'
<1>1. PICK s \in job[p].ids :
        Go(p, [job[p] EXCEPT !.ids = @ \ {s},
                             !.missing = IF Live(s) THEN @ ELSE @ \cup {s}])
  BY DEF CountChecks
<1> DEFINE j == [job[p] EXCEPT !.ids = @ \ {s},
                             !.missing = IF Live(s) THEN @ ELSE @ \cup {s}]
<1>2. StoreOK' /\ NothingLost
  BY StoreSame DEF CountChecks
<1>3. /\ JobOK(job[p], started, lapsed) /\ JobOK(job[p], started', lapsed')
      /\ job[p] \in Job /\ job[p].pc = "count_exists"
  BY <1>2, JobLater DEF CountChecks, At, JobOK
<1>4. s \in Session /\ (~ Live(s) => s \in lapsed)
  BY <1>3 DEF JobOK, Job, started
<1>5. j \in Job
  BY <1>3, <1>4 DEF Job
<1>6. JobOK(j, started', lapsed')
  BY <1>2, <1>3, <1>4, <1>5
  DEF JobOK, Job, NothingLost, Creating, Extending, Deleting, Expiring
<1>7. Go(p, j) /\ UNCHANGED <<hand, cleanup>>
  BY <1>1 DEF CountChecks
<1> HIDE DEF j
<1> QED
  BY <1>2, <1>6, <1>7, CallSteps, IdleTypes

(* Count hands its goroutine what it found missing.                         *)
LEMMA CountReturnsKeeps ==
  ASSUME IInv, NEW p \in Proc, CountReturns(p) PROVE IInv'
<1>1. job[p].missing \subseteq lapsed /\ job[p].missing \subseteq Session
  BY JobLater DEF JobOK, Job
<1>2. StoreOK' /\ NothingLost
  BY StoreSame DEF CountReturns
<1>3. StartCleanup(job[p].missing) /\ Go(p, Idle) /\ UNCHANGED hand
  BY DEF CountReturns
<1>4. \/ UNCHANGED cleanup
      \/ \E g, ids : /\ ids \subseteq lapsed /\ ids \subseteq Session
                     /\ cleanup' = [cleanup EXCEPT ![g] = ids]
  BY <1>1, <1>3, CleanupSteps
<1> QED
  BY <1>2, <1>3, <1>4, CallSteps, IdleTypes

(* A call that is cut off leaves nothing that it knew wrong.                *)
LEMMA FailKeeps == ASSUME IInv, NEW p \in Proc, Fail(p) PROVE IInv'
<1>1. StoreOK' /\ NothingLost
  BY StoreSame DEF Fail
<1>2. Go(p, Idle) /\ UNCHANGED cleanup
  BY DEF Fail
<1>3. CASE job[p].pc = "update_set"
  BY <1>1, <1>2, <1>3, UpdatedTypes, CallSteps, IdleTypes DEF Fail, At, Keep
<1>4. CASE job[p].pc # "update_set"
  BY <1>1, <1>2, <1>4, CallSteps, IdleTypes DEF Fail, At
<1> QED
  BY <1>3, <1>4

(* All other steps of a call.                                               *)
LEMMA ContinueKeeps == ASSUME IInv, NEW p \in Proc, Continue(p) PROVE IInv'
  BY CreateReadsTTLKeeps, CreateSetsKeeps, CreateAddsKeeps,
     CreateExpiresKeeps, UpdatesKeeps, ExtendSetsKeeps, ExtendReadsTTLKeeps,
     ExtendExpiresKeeps, DeleteDelsKeeps, DeleteRemsKeeps, UserDelsKeeps,
     ListGetsKeeps, CountChecksKeeps, CountReturnsKeeps, FailKeeps
  DEF Continue

-----------------------------------------------------------------------------
(* Time, and the cleanups.                                                 *)

(* A session that time ends has lapsed.                                     *)
LEMMA TickStore == ASSUME IInv, Tick PROVE StoreOK' /\ NothingLost
<1>1. sess \in [Session -> Key] /\ Absent \in Key
  BY DEF IInv, StoreOK, Key, Absent
<1>2. \A n \in Nat : Pass(n) \in Nat
  BY DEF Pass
<1>3. \A s \in Session :
        sess'[s] = IF sess[s].ttl = 1 THEN Absent
                   ELSE [ttl |-> Pass(sess[s].ttl), exp |-> Pass(sess[s].exp)]
  BY DEF Tick
<1>4. \A s \in Session :
        [ttl |-> Pass(sess[s].ttl), exp |-> Pass(sess[s].exp)] \in Key
  BY <1>1, <1>2 DEF Key
<1>5. sess' \in [Session -> Key]
  BY <1>1, <1>4 DEF Tick
<1>6. lapsed' = lapsed \cup {s \in Session : sess[s].ttl = 1}
  BY DEF Tick
<1>7. \A s \in Session : Live(s) => s \in lapsed' \/ Live(s)'
  <2> SUFFICES ASSUME NEW s \in Session, Live(s), s \notin lapsed'
               PROVE  sess'[s].ttl # 0
    BY DEF Live
  <2>1. sess[s].ttl \in Nat /\ sess[s].ttl # 0 /\ sess[s].ttl # 1
    BY <1>1, <1>6 DEF Key, Live
  <2>2. sess'[s] = [ttl |-> Pass(sess[s].ttl), exp |-> Pass(sess[s].exp)]
    BY <1>3, <2>1
  <2> QED
    BY <2>1, <2>2 DEF Pass
<1>8. NothingLost
  BY <1>6, <1>7 DEF NothingLost, started
<1>9. /\ ittl' \in Nat \cup {NoExpiry} /\ (index' = {} <=> ittl' = 0)
      /\ index' \subseteq index
  <2>1. ittl' = Pass(ittl) /\ index' = IF ittl = 1 THEN {} ELSE index
    BY DEF Tick
  <2> QED
    BY <2>1 DEF Pass, NoExpiry, IInv, StoreOK
<1>10. lapsed' \subseteq Session /\ made' \subseteq Session
  BY <1>6 DEF Tick, IInv, StoreOK
<1> QED
  BY <1>5, <1>8, <1>9, <1>10 DEF IInv, StoreOK, NothingLost

(* Time keeps the invariant.                                                *)
LEMMA TickKeeps == ASSUME IInv, Tick PROVE IInv'
<1>1. StoreOK' /\ NothingLost
  BY TickStore
<1>2. job \in [Proc -> Job] /\ hand \in [Proc -> Hand]
  BY DEF IInv, JobsOK, HandsOK
<1>3. \A n \in Nat : Pass(n) \in Nat /\ (n = 0 => Pass(n) = 0)
  BY DEF Pass
<1>4. ASSUME NEW p \in Proc
      PROVE  job'[p] \in Job /\ JobOK(job'[p], started', lapsed')
  <2> DEFINE e == Pass(job[p].exp)
             r == Pass(job[p].read)
             j1 == [job[p] EXCEPT !.exp = e]
  <2>1. job'[p] = [j1 EXCEPT !.read = r]
    BY DEF Tick
  <2>2. JobOK(job[p], started', lapsed') /\ job[p] \in Job
    BY <1>1, <1>2, JobLater
  <2>3. e \in Nat /\ r \in Nat \cup {NoExpiry}
    BY <2>2 DEF Job, Pass, NoExpiry
  <2>4. job[p].pc \in Expiring => Reads(r, job[p].arg)
    BY <2>2, ReadsLater DEF JobOK, Job
  <2> HIDE DEF e, r
  <2>5. j1 \in Job
    BY <2>2, <2>3 DEF Job
  <2>6. job'[p] \in Job
    <3> HIDE DEF j1
    <3> QED BY <2>1, <2>3, <2>5 DEF Job
  <2> QED
    BY <2>1, <2>2, <2>3, <2>4, <2>6 DEF JobOK, Job
<1>5. ASSUME NEW p \in Proc PROVE hand'[p] \in Hand /\ HandOK(hand'[p])
  <2>1. hand'[p] = [hand[p] EXCEPT !.exp = Pass(@)]
    BY DEF Tick
  <2>2. hand[p] \in Hand /\ HandOK(hand[p])
    BY <1>2 DEF IInv, HandsOK
  <2>3. hand'[p] \in Hand /\ hand'[p].s = hand[p].s
    BY <1>3, <2>1, <2>2 DEF Hand
  <2>4. hand[p] = NoHand => hand'[p] = NoHand
    BY <1>3, <2>1, <2>2 DEF NoHand, Hand
  <2> QED
    BY <2>2, <2>3, <2>4 DEF HandOK
<1>6. JobsOK'
  <2>1. job' = [p \in Proc |-> job'[p]]
    BY DEF Tick
  <2> QED
    BY <1>4, <2>1 DEF JobsOK
<1>7. HandsOK'
  <2>1. hand' = [p \in Proc |-> hand'[p]]
    BY DEF Tick
  <2> QED
    BY <1>5, <2>1 DEF HandsOK
<1>8. CleanupOK'
  BY <1>1 DEF Tick, IInv, CleanupOK, NothingLost
<1> QED
  BY <1>1, <1>6, <1>7, <1>8 DEF IInv

(* So does a goroutine, whether its SREM runs or not.                       *)
LEMMA CleanupRunsKeeps ==
  ASSUME IInv, NEW g \in Goroutine, CleanupRuns(g) PROVE IInv'
<1>1. UNCHANGED <<sess, job, hand, made, lapsed>>
  BY DEF CleanupRuns, history
<1>2. StoreOK' /\ NothingLost
  <2>1. CASE SRem(cleanup[g])
    BY <1>1, <2>1, SRemSteps
  <2>2. CASE UNCHANGED <<index, ittl>>
    BY <1>1, <2>2, StoreSame DEF store, history
  <2> QED
    BY <2>1, <2>2 DEF CleanupRuns
<1>3. JobsOK' /\ HandsOK'
  BY <1>1, <1>2 DEF IInv, JobsOK, HandsOK, started, Live
<1>4. CleanupOK'
  BY <1>1 DEF CleanupRuns, IInv, CleanupOK
<1> QED
  BY <1>2, <1>3, <1>4 DEF IInv

-----------------------------------------------------------------------------

(* The invariant holds in the beginning.                                    *)
LEMMA InitInv == Init => IInv
<1> SUFFICES ASSUME Init PROVE IInv
  OBVIOUS
<1>1. StoreOK
  BY DEF Init, StoreOK, Key, Absent, started, Live
<1>2. JobsOK
  BY IdleTypes, IdleFields DEF Init, JobsOK
<1>3. HandsOK
  BY IdleTypes DEF Init, HandsOK, HandOK
<1>4. CleanupOK
  BY DEF Init, CleanupOK
<1> QED
  BY <1>1, <1>2, <1>3, <1>4 DEF IInv

(* Every step keeps the invariant.                                          *)
LEMMA NextKeeps == IInv /\ [Next]_vars => IInv'
<1> SUFFICES ASSUME IInv, [Next]_vars PROVE IInv'
  OBVIOUS
<1>1. CASE UNCHANGED vars
  BY <1>1
  DEF vars, IInv, StoreOK, JobsOK, HandsOK, CleanupOK, started, Live
<1> QED
  BY <1>1, TickKeeps, CallKeeps, ContinueKeeps, CleanupRunsKeeps DEF Next

(* The invariant holds for ever.                                            *)
LEMMA Invariance == Spec => []IInv
  BY InitInv, NextKeeps, PTL DEF Spec

(* Every variable has its type: every key of a session has an expiry, the   *)
(* index exists exactly when it has members, and calls resend within their  *)
(* bound.                                                                   *)
THEOREM TypeCorrect == Spec => []TypeOK
<1>1. IInv => TypeOK
  BY DEF IInv, StoreOK, JobsOK, HandsOK, CleanupOK, Key, Job, Hand, TypeOK
<1> QED
  BY <1>1, Invariance, PTL

(* The goroutines of ListByUserID and Count are only ever given ids of      *)
(* sessions that have ended, however calls, expiry, resends and failures    *)
(* interleave: an id that is in the index without a key is never that of a  *)
(* session being created.  A session that has ended and is written again by *)
(* a call that had read it before has ended in this sense.                  *)
THEOREM CleanupIsSafe == Spec => []CleanupSparesLive
<1>1. IInv => CleanupSparesLive
  BY DEF IInv, CleanupOK, CleanupSparesLive
<1> QED
  BY <1>1, Invariance, PTL

(* Neither CreateWithTTL nor Extend takes half a second or more from the    *)
(* index, for any callers, times and length of a second, unless another     *)
(* call has prolonged the index between the TTL and the EXPIRE of this one. *)
THEOREM IndexOnlyRounds == Spec => IndexLosesLittle
<1> DEFINE A == \A p \in Proc :
                  /\ CreateExpires(p) \/ ExtendExpires(p)
                  /\ 0 < ittl /\ ittl <= job[p].read
                  => 2 * (ittl - ittl') < Sec
<1>1. IInv => A
  <2> SUFFICES ASSUME IInv, NEW p \in Proc,
                      CreateExpires(p) \/ ExtendExpires(p),
                      0 < ittl, ittl <= job[p].read
               PROVE  2 * (ittl - ittl') < Sec
    OBVIOUS
  <2>1. /\ Reads(job[p].read, job[p].arg)
        /\ job[p].read \in Int /\ job[p].arg \in Nat
    BY JobLater
    DEF JobOK, Job, Expiring, CreateExpires, ExtendExpires, At, NoExpiry
  <2>2. formatSec(job[p].arg) \in Nat /\ Sec \in Nat
    BY <2>1, FormatTypes, SessionConstants
  <2>3. ittl \in Int /\ index # {}
    BY DEF IInv, StoreOK, NoExpiry
  <2>4. ittl' = formatSec(job[p].arg)
    <3>1. Expire(job[p].arg)
      BY DEF CreateExpires, ExtendExpires
    <3> QED
      BY <2>2, <2>3, <3>1 DEF Expire
  <2> QED
    BY <2>1, <2>2, <2>3, <2>4 DEF Reads
<1> QED
  BY <1>1, Invariance, PTL DEF IndexLosesLittle
=============================================================================
