----------------------------- MODULE RedisLock -----------------------------
(***************************************************************************)
(* The distributed lock of redis/lock.go on one resource.                  *)
(*                                                                         *)
(* Clients call the Locker; every call is one Redis command, written to a  *)
(* connection.  The server runs a command at any later time, also after    *)
(* the caller has stopped waiting for the answer, and go-redis sends a     *)
(* command again when the answer is late (client.go leaves its MaxRetries  *)
(* at the default), so a command may run twice.  Time is relative: Tick    *)
(* takes one unit from everything that runs out.                           *)
(***************************************************************************)
EXTENDS Integers

CONSTANTS
  Client,      \* callers, each with at most one Lock handle at a time
  Owner,       \* owner tokens (generateOwner)
  Conn,        \* connections to the server
  NoOwner,     \* the key is absent; the client has no token
  NoConn,      \* the client waits on no connection
  TTL,         \* lease times given to the acquire operations
  ExtendTTL,   \* lease times given to Extend
  RetryCount,  \* Locker.retryCount
  MaxSends     \* how often go-redis sends one command at most

ASSUME LockConstants ==
  /\ NoOwner \notin Owner
  /\ NoConn \notin Conn
  /\ TTL \subseteq Nat \ {0}
  /\ ExtendTTL \subseteq Nat
  /\ RetryCount \in Nat
  /\ MaxSends \in Nat \ {0}

VARIABLES
  holder,   \* value of the lock key, NoOwner when the key is absent
  pttl,     \* remaining time to live of the key
  net,      \* net[k]: the command written to connection k and not yet run
  cl        \* cl[c]: the state of client c inside the Locker

vars == <<holder, pttl, net, cl>>

-----------------------------------------------------------------------------
(* Commands and client states.                                             *)

Op == {"setnx", "extend", "verify", "release"}

Request == [op : Op, owner : Owner, ttl : Nat]

NoRequest == [op |-> "none", owner |-> NoOwner, ttl |-> 0]

Mode == {"acquire", "retry", "withlock"}   \* which Locker operation was called

(* pc names the command in progress; "sleep" is time.Sleep between attempts *)
(* and "held" the time the caller has a Lock (or fn of WithLock runs).      *)
(* The rest is history.  budget is what is left of the lease that the last  *)
(* successful SetNX or Extend gave, and left what would be left of the one  *)
(* that the pending command asks for, both counted from the moment it was   *)
(* first sent.  A lease is exposed if another Extend or Release of the same *)
(* Lock was still on its way when it was asked for.                         *)
ClientState ==
  [pc       : Op \cup {"idle", "sleep", "held"},
   mode     : Mode \cup {"none"},
   attempt  : {0, 1} \cup 1..RetryCount, \* i + 1 in AcquireWithRetryAndTTL
   owner    : Owner \cup {NoOwner},     \* Lock.owner
   acquired : BOOLEAN,                  \* Lock.acquired
   ttl      : Nat,                      \* the TTL argument of the current call
   conn     : Conn \cup {NoConn},       \* where the answer is awaited
   sends    : 0..MaxSends,
   reply    : {"none", "ok", "no"},
   budget   : Nat,
   left     : Nat,
   exposed  : BOOLEAN,                  \* the lease of budget is exposed
   exposing : BOOLEAN]                  \* the lease of left is

NotStarted ==
  [pc |-> "idle", mode |-> "none", attempt |-> 0, owner |-> NoOwner,
   acquired |-> FALSE, ttl |-> 0, conn |-> NoConn, sends |-> 0,
   reply |-> "none", budget |-> 0, left |-> 0,
   exposed |-> FALSE, exposing |-> FALSE]

Init ==
  /\ holder = NoOwner
  /\ pttl = 0
  /\ net = [k \in Conn |-> NoRequest]
  /\ cl = [c \in Client |-> NotStarted]

-----------------------------------------------------------------------------
(* Helpers.                                                                *)

Waiting(c) == cl[c].pc \in Op

(* A connection no command occupies and on which nobody awaits an answer.   *)
Free(k) == net[k] = NoRequest /\ \A c \in Client : cl[c].conn # k

(* A token nothing in the system mentions.                                  *)
Fresh(o) ==
  /\ holder # o
  /\ \A k \in Conn : net[k].owner # o
  /\ \A c \in Client : cl[c].owner # o

FaultyOwner == CHOOSE o \in Owner : TRUE   \* the same token every time

(* 16 random bytes: any fresh token, as they are interchangeable; so are    *)
(* the free connections of the pool.                                        *)
generateOwner == CHOOSE o \in Owner : Fresh(o)

getConn == CHOOSE k \in Conn : Free(k)

CanSend == \E k \in Conn : Free(k)

(* No command that could end or shorten o's lease is still on its way.      *)
NothingPending(o) ==
  \A k \in Conn : net[k].owner = o => net[k].op \notin {"extend", "release"}

Lesser(a, b) == IF a <= b THEN a ELSE b

(* The state s of a client once command op has been written to k.           *)
Sent(s, op, k, t, x) ==
  [s EXCEPT !.pc = op, !.conn = k, !.ttl = t, !.sends = 1,
            !.reply = "none", !.left = t, !.exposing = x]

SentAgain(s, k) ==
  [s EXCEPT !.conn = k, !.reply = "none", !.sends = s.sends + 1]

Write(k, op, o, t) ==
  net' = [net EXCEPT ![k] = [op |-> op, owner |-> o, ttl |-> t]]

(* The state s of a client that has stopped waiting and goes to pc p.       *)
Answered(s, p) ==
  [s EXCEPT !.pc = p, !.conn = NoConn, !.sends = 0, !.reply = "none",
            !.left = 0, !.exposing = FALSE]

(* The Lock of s once its call has ended, with a lease of b.                *)
Leased(s, a, b, x) ==
  [Answered(s, "held") EXCEPT !.acquired = a, !.budget = b, !.exposed = x]

(* Lock.acquired = false.                                                   *)
Dropped(s) == Leased(s, FALSE, 0, FALSE)

-----------------------------------------------------------------------------
(* The server.  SET NX PX, the two Lua scripts and GET each run atomically. *)

FaultySetXX(r) == holder' = r.owner /\ pttl' = r.ttl   \* SET without NX

FaultySetNoPX(r) ==                                     \* SET NX without PX
  IF holder = NoOwner
  THEN holder' = r.owner /\ pttl' = 0
  ELSE UNCHANGED <<holder, pttl>>

SetNX(r) ==
  IF holder = NoOwner
  THEN holder' = r.owner /\ pttl' = r.ttl
  ELSE UNCHANGED <<holder, pttl>>

FaultyPExpire(r) ==                                     \* no owner check
  IF holder # NoOwner
  THEN /\ holder' = IF r.ttl = 0 THEN NoOwner ELSE holder
       /\ pttl' = r.ttl
  ELSE UNCHANGED <<holder, pttl>>

(* PEXPIRE with 0 removes the key at once.                                  *)
ExtendScript(r) ==
  IF holder = r.owner
  THEN /\ holder' = IF r.ttl = 0 THEN NoOwner ELSE holder
       /\ pttl' = r.ttl
  ELSE UNCHANGED <<holder, pttl>>

FaultyDel(r) == holder' = NoOwner /\ pttl' = 0          \* no owner check

ReleaseScript(r) ==
  IF holder = r.owner
  THEN holder' = NoOwner /\ pttl' = 0
  ELSE UNCHANGED <<holder, pttl>>

(* What the command answers: the key was set, or is (was) the owner's.      *)
Result(r) ==
  IF (IF r.op = "setnx" THEN holder = NoOwner ELSE holder = r.owner)
  THEN "ok" ELSE "no"

(* The server runs the command on connection k.  The answer reaches a       *)
(* client only if it still waits on k.                                      *)
Exec(k) ==
  LET r == net[k] IN
  /\ r # NoRequest
  /\ CASE r.op = "setnx"   -> SetNX(r)
       [] r.op = "extend"  -> ExtendScript(r)
       [] r.op = "release" -> ReleaseScript(r)
       [] OTHER            -> UNCHANGED <<holder, pttl>>
  /\ net' = [net EXCEPT ![k] = NoRequest]
  /\ cl' = [c \in Client |->
              IF cl[c].conn = k THEN [cl[c] EXCEPT !.reply = Result(r)]
                                ELSE cl[c]]

(* Connection k breaks before the server has read the command.              *)
Lose(k) ==
  /\ net[k] # NoRequest
  /\ net' = [net EXCEPT ![k] = NoRequest]
  /\ UNCHANGED <<holder, pttl, cl>>

Pass(n) == IF n > 0 THEN n - 1 ELSE 0

Tick ==
  /\ \/ pttl > 0
     \/ \E c \in Client : cl[c].budget > 0 \/ cl[c].left > 0
  /\ pttl' = Pass(pttl)
  /\ holder' = IF pttl = 1 THEN NoOwner ELSE holder
  /\ cl' = [c \in Client |-> [cl[c] EXCEPT !.budget = Pass(@),
                                           !.left = Pass(@)]]
  /\ UNCHANGED net

-----------------------------------------------------------------------------
(* The client: acquiring.                                                  *)

(* AcquireWithTTL up to the call of SetNX, with a new token for every call. *)
AcquireWithTTL(c, s, t) ==
  LET o == generateOwner
      k == getConn IN
  /\ \E p \in Owner : Fresh(p)
  /\ CanSend
  /\ Write(k, "setnx", o, t)
  /\ cl' = [cl EXCEPT ![c] = Sent([s EXCEPT !.owner = o], "setnx", k, t,
                                 FALSE)]
  /\ UNCHANGED <<holder, pttl>>

(* Acquire, TryAcquire ("acquire"), AcquireWithRetry and WithLock; the last *)
(* two make no attempt at all when retryCount is 0.                         *)
Start(c) ==
  /\ cl[c].pc = "idle"
  /\ \E m \in Mode, t \in TTL :
       /\ m # "acquire" => RetryCount > 0
       /\ AcquireWithTTL(c, [NotStarted EXCEPT !.mode = m, !.attempt = 1], t)

(* SetNX answered: the Lock exists, or the key was taken.  Contention is    *)
(* retried by AcquireWithRetryAndTTL unless the context is done.            *)
SetNXOk(c) ==
  /\ cl[c].pc = "setnx" /\ cl[c].reply = "ok"
  /\ cl' = [cl EXCEPT ![c] = Leased(@, TRUE, cl[c].left, FALSE)]
  /\ UNCHANGED <<holder, pttl, net>>

SetNXTaken(c) ==
  /\ cl[c].pc = "setnx" /\ cl[c].reply = "no"
  /\ \/ /\ cl[c].mode # "acquire"
        /\ cl' = [cl EXCEPT ![c] = [Answered(@, "sleep") EXCEPT
                                      !.owner = NoOwner]]
     \/ cl' = [cl EXCEPT ![c] = NotStarted]
  /\ UNCHANGED <<holder, pttl, net>>

FaultyWakeAlways(c) ==                                  \* i never advances
  /\ cl[c].pc = "sleep"
  /\ cl[c].attempt < RetryCount
  /\ AcquireWithTTL(c, cl[c], cl[c].ttl)

FaultyWakeOnceMore(c) ==                                \* i <= retryCount
  /\ cl[c].pc = "sleep"
  /\ cl[c].attempt <= RetryCount
  /\ AcquireWithTTL(c, [cl[c] EXCEPT !.attempt = @ + 1], cl[c].ttl)

Wake(c) ==
  /\ cl[c].pc = "sleep"
  /\ cl[c].attempt < RetryCount
  /\ AcquireWithTTL(c, [cl[c] EXCEPT !.attempt = @ + 1], cl[c].ttl)

(* After the last attempt, or when the pool has no connection to give.      *)
GiveUp(c) ==
  /\ cl[c].pc = "sleep"
  /\ cl[c].attempt >= RetryCount \/ ~ CanSend
  /\ cl' = [cl EXCEPT ![c] = NotStarted]
  /\ UNCHANGED <<holder, pttl, net>>

-----------------------------------------------------------------------------
(* The client: using a Lock.  fn of WithLock gets no handle, so in that     *)
(* mode the only call is the deferred Release.                              *)

CallOnHandle(c, op, t, b, x) ==
  /\ cl[c].pc = "held"
  /\ cl[c].acquired
  /\ CanSend
  /\ Write(getConn, op, cl[c].owner, t)
  /\ cl' = [cl EXCEPT ![c] = [Sent(@, op, getConn, t, x) EXCEPT !.budget = b]]
  /\ UNCHANGED <<holder, pttl>>

(* From here on the client relies on no more than it has asked for.         *)
Extend(c) ==
  /\ cl[c].mode # "withlock"
  /\ \E t \in ExtendTTL :
       CallOnHandle(c, "extend", t, Lesser(cl[c].budget, t),
                    ~ NothingPending(cl[c].owner))

Verify(c) ==
  /\ cl[c].mode # "withlock"
  /\ CallOnHandle(c, "verify", 0, cl[c].budget, FALSE)

Release(c) == CallOnHandle(c, "release", 0, 0, FALSE)

ExtendAnswered(c) ==
  /\ cl[c].pc = "extend" /\ cl[c].reply # "none"
  /\ cl' = [cl EXCEPT ![c] =
       IF cl[c].reply = "ok"
       THEN Leased(@, TRUE, cl[c].left, cl[c].exposing)
       ELSE Dropped(@)]
  /\ UNCHANGED <<holder, pttl, net>>

VerifyAnswered(c) ==
  /\ cl[c].pc = "verify" /\ cl[c].reply # "none"
  /\ cl' = [cl EXCEPT ![c] =
       IF cl[c].reply = "ok"
       THEN Answered(@, "held")
       ELSE Dropped(@)]
  /\ UNCHANGED <<holder, pttl, net>>

(* WithLock ends with its deferred Release, whatever that returned; a Lock  *)
(* whose Release found another owner stays marked as acquired.              *)
ReleaseAnswered(c) ==
  /\ cl[c].pc = "release" /\ cl[c].reply # "none"
  /\ cl' = [cl EXCEPT ![c] =
       CASE cl[c].mode = "withlock" -> NotStarted
         [] cl[c].mode # "withlock" /\ cl[c].reply = "ok" -> Dropped(@)
         [] OTHER -> Answered(@, "held")]
  /\ UNCHANGED <<holder, pttl, net>>

-----------------------------------------------------------------------------
(* What goes wrong between the client and the server.                        *)

(* The answer is late or its connection broke: go-redis sends again.        *)
Resend(c) ==
  /\ Waiting(c)
  /\ cl[c].sends < MaxSends
  /\ CanSend
  /\ Write(getConn, cl[c].pc, cl[c].owner, cl[c].ttl)
  /\ cl' = [cl EXCEPT ![c] = SentAgain(@, getConn)]
  /\ UNCHANGED <<holder, pttl>>

(* The call returns an error (timeout, done context, broken connection);    *)
(* its command may still be on its way.  An error other than contention     *)
(* ends an acquisition; on a Lock it changes nothing.                       *)
Fail(c) ==
  /\ Waiting(c)
  /\ cl' = [cl EXCEPT ![c] =
       IF \/ cl[c].pc = "setnx"
          \/ cl[c].pc = "release" /\ cl[c].mode = "withlock"
       THEN NotStarted
       ELSE Answered(@, "held")]
  /\ UNCHANGED <<holder, pttl, net>>

(* The process dies, or the caller forgets its Lock without releasing it.   *)
Crash(c) ==
  /\ cl[c].pc # "idle"
  /\ cl' = [cl EXCEPT ![c] = NotStarted]
  /\ UNCHANGED <<holder, pttl, net>>

-----------------------------------------------------------------------------

Return(c) ==
  \/ SetNXOk(c) \/ SetNXTaken(c)
  \/ ExtendAnswered(c) \/ VerifyAnswered(c) \/ ReleaseAnswered(c)
  \/ Wake(c) \/ GiveUp(c) \/ Fail(c)

Use(c) == Start(c) \/ Extend(c) \/ Verify(c) \/ Release(c)

Next ==
  \/ Tick
  \/ \E k \in Conn : Exec(k) \/ Lose(k)
  \/ \E c \in Client : Return(c) \/ Use(c) \/ Resend(c) \/ Crash(c)

Spec == Init /\ [][Next]_vars

(* Time passes, connections are drained or closed, and a call that waits    *)
(* gets its answer or its timeout.  Nothing is assumed of the callers: fn   *)
(* may run for ever.                                                        *)
Fairness ==
  /\ WF_vars(Tick)
  /\ \A k \in Conn : WF_vars(Exec(k) \/ Lose(k))
  /\ \A c \in Client : WF_vars(Return(c))

FairSpec == Spec /\ Fairness
-----------------------------------------------------------------------------
(* Properties.                                                             *)

TypeOK ==
  /\ holder \in Owner \cup {NoOwner}
  /\ pttl \in Nat
  /\ net \in [Conn -> Request \cup {NoRequest}]
  /\ cl \in [Client -> ClientState]

(* The client has a Lock, and by its own clock, started when the last       *)
(* successful SetNX or Extend was sent, the lease is still running; and     *)
(* that Extend overtook no other Extend or Release of the same Lock.  One   *)
(* that it did overtake runs later, sets the key's time to live to its own  *)
(* argument or deletes the key, and the code does nothing against it.       *)
Protected(c) ==
  cl[c].acquired /\ cl[c].budget > 0 /\ ~ cl[c].exposed

(* A lease is honoured: while it runs by the client's clock the key is this *)
(* client's and lives at least as long, whatever late, repeated or orphaned *)
(* commands of other clients, of this client's earlier tokens, or sent for  *)
(* this Lock after the lease was asked for the server runs meanwhile.  (Not *)
(* for the lease of an Extend that overtook another one: see Protected.)    *)
LeaseHonoured ==
  \A c \in Client :
    Protected(c) => holder = cl[c].owner /\ pttl >= cl[c].budget

(* Two callers never hold the lock at the same time within their leases:    *)
(* what Acquire, AcquireWithRetry and WithLock are for.                     *)
MutualExclusion ==
  \A c, d \in Client : Protected(c) /\ Protected(d) => c = d

(* A caller whose lease still runs is never told by Extend or Verify that   *)
(* it lost the lock (LockNotHeld, false).                                   *)
NoFalseLoss ==
  \A c \in Client :
    cl[c].pc \in {"extend", "verify"} /\ cl[c].reply = "no"
      => ~ Protected(c)

(* The leases of the abstract lock, and who relies on them.                 *)
leaseOf == [o \in Owner |-> IF holder = o THEN pttl ELSE 0]

insideOf ==
  [c \in Client |-> IF Protected(c) THEN cl[c].owner ELSE NoOwner]

Abstract == INSTANCE LeasedMutex
  WITH lease <- leaseOf, inside <- insideOf, Time <- TTL \cup ExtendTTL

(* Lock and Locker implement the leased mutex: a lease is granted only when *)
(* none runs, and is ended by time or by an owner that relies on it no more.*)
ImplementsLeasedMutex == Abstract!Spec

(* Every call of the Locker or of a Lock returns: the retry loop of         *)
(* AcquireWithRetryAndTTL ends even if the key is taken every time.         *)
CallsReturn ==
  \A c \in Client :
    Waiting(c) \/ cl[c].pc = "sleep" ~> cl[c].pc \in {"idle", "held"}

(* A lock nobody renews is free again and again, also when its holder died, *)
(* lost the reply to its SetNX or failed to release it.                     *)
NeverStuck ==
  []<>(holder = NoOwner) \/ []<>(\E c \in Client : cl[c].pc = "extend")
=============================================================================
