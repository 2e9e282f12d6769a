-------------------------- MODULE RedisLockProofs --------------------------
(***************************************************************************)
(* Proofs about RedisLock, for any clients, tokens, connections and times. *)
(*                                                                         *)
(* LeaseHonoured is not inductive: what the server will do next depends on *)
(* the commands on their way, and a lease starts with a command that was   *)
(* sent earlier.  IInv says which commands can be on their way for a token *)
(* and what an answer still means when its client reads it.                *)
(***************************************************************************)
EXTENDS RedisLock, TLAPS

-----------------------------------------------------------------------------
(* The inductive invariant.                                                *)

(* The key exists exactly while it has time to live.                        *)
KeyExpires == holder = NoOwner <=> pttl = 0

(* What a command on its way may ask for.                                   *)
RequestTimes ==
  \A k \in Conn :
    /\ net[k].op = "setnx" => net[k].ttl \in TTL
    /\ net[k].op = "extend" => net[k].ttl \in ExtendTTL

(* What the state of a client inside a call looks like.                     *)
Shape(s) ==
  /\ s.pc \in {"setnx", "sleep"} => s.ttl \in TTL
  /\ s.pc = "extend" => s.ttl \in ExtendTTL /\ s.budget <= s.ttl
  /\ s.pc = "release" => s.budget = 0
  /\ s.pc \in Op \cup {"held"} => s.owner \in Owner
  /\ s.pc \in {"idle", "sleep"} => s.owner = NoOwner
  /\ s.acquired => s.pc \in {"held", "extend", "verify", "release"}
  /\ s.pc \in {"extend", "verify", "release"} => s.acquired
  /\ s.conn # NoConn => s.pc \in Op
  /\ s.reply # "none" => s.conn # NoConn
  /\ s.pc = "setnx" => s.left <= s.ttl
  /\ s.pc = "extend" => s.left <= s.ttl

Shapes == \A c \in Client : Shape(cl[c])

(* The connection a client waits on carries that client's command.          *)
OwnConn ==
  \A c \in Client :
    cl[c].conn # NoConn /\ net[cl[c].conn] # NoRequest
      => net[cl[c].conn] = [op |-> cl[c].pc, owner |-> cl[c].owner,
                            ttl |-> cl[c].ttl]

(* No two clients use the same token.                                       *)
OwnersDiffer ==
  \A c, d \in Client :
    cl[c].owner = cl[d].owner /\ cl[c].owner # NoOwner => c = d

(* No command on its way for o ends its lease within n.                     *)
Undisturbed(o, n) ==
  \A k \in Conn :
    net[k].owner = o => /\ net[k].op # "release"
                        /\ net[k].op = "extend" => net[k].ttl >= n

Running(o, n) == holder = o /\ pttl >= n

(* A new token has been sent in no command but its own SetNX.               *)
AcquirePending(c) ==
  cl[c].pc = "setnx"
    => /\ \A k \in Conn : net[k].owner = cl[c].owner => net[k].op = "setnx"
       /\ cl[c].reply = "ok" /\ cl[c].left > 0
            => Running(cl[c].owner, cl[c].left)

ExtendPending(c) ==
  cl[c].pc = "extend" /\ cl[c].left > 0 /\ ~ cl[c].exposing
    => /\ Undisturbed(cl[c].owner, cl[c].left)
       /\ cl[c].reply = "ok" => Running(cl[c].owner, cl[c].left)

Lease(c) ==
  Protected(c)
    => /\ Undisturbed(cl[c].owner, cl[c].budget)
       /\ Running(cl[c].owner, cl[c].budget)

Leases ==
  \A c \in Client : AcquirePending(c) /\ ExtendPending(c) /\ Lease(c)

IInv ==
  /\ TypeOK
  /\ KeyExpires
  /\ RequestTimes
  /\ Shapes
  /\ OwnConn
  /\ OwnersDiffer
  /\ Leases
  /\ NoFalseLoss

-----------------------------------------------------------------------------
(* Initial states.                                                         *)

(* Nothing is on its way and nobody has a lock.                             *)
LEMMA InitIInv == Init => IInv
<1> SUFFICES ASSUME Init PROVE IInv
  OBVIOUS
<1> USE LockConstants DEF Init
<1>1. NotStarted \in ClientState
  BY DEF NotStarted, ClientState, Op, Mode
<1>2. TypeOK
  BY <1>1 DEF TypeOK
<1>3. KeyExpires /\ RequestTimes /\ OwnConn
  BY DEF KeyExpires, RequestTimes, OwnConn, NoRequest, NotStarted
<1>4. Shapes
  BY DEF Shapes, Shape, NotStarted, Op
<1>5. OwnersDiffer /\ NoFalseLoss
  BY DEF OwnersDiffer, NoFalseLoss, NotStarted
<1>6. Leases
  BY DEF Leases, AcquirePending, ExtendPending, Lease, Protected, NotStarted
<1> QED
  BY <1>2, <1>3, <1>4, <1>5, <1>6 DEF IInv

-----------------------------------------------------------------------------
(* Steps of one client that send nothing: the end of a call.               *)

(* If the client stops waiting, keeps its token or drops it, and relies on  *)
(* nothing it does not have, the invariant is preserved.                    *)
LEMMA LocalStep ==
  ASSUME IInv, NEW c \in Client, NEW s \in ClientState,
         cl' = [cl EXCEPT ![c] = s],
         UNCHANGED <<holder, pttl, net>>,
         Shape(s),
         s.conn = NoConn,
         s.pc \in {"idle", "sleep", "held"},
         s.owner \in {cl[c].owner, NoOwner},
         s.acquired /\ s.budget > 0 /\ ~ s.exposed
           => Undisturbed(s.owner, s.budget) /\ Running(s.owner, s.budget)
  PROVE  IInv'
<1> USE DEF IInv
<1>0. cl'[c] = s /\ \A d \in Client : d # c => cl'[d] = cl[d]
  BY DEF TypeOK
<1>1. TypeOK'
  BY DEF TypeOK
<1>2. KeyExpires' /\ RequestTimes'
  BY DEF KeyExpires, RequestTimes
<1>3. Shapes'
  BY <1>0 DEF Shapes
<1>4. OwnConn'
  BY <1>0 DEF OwnConn
<1>5. OwnersDiffer'
  BY <1>0 DEF OwnersDiffer
<1>6. Leases'
  BY <1>0 DEF Leases, AcquirePending, ExtendPending, Lease, Protected,
              Undisturbed, Running
<1>7. NoFalseLoss'
  BY <1>0 DEF NoFalseLoss, Protected
<1> QED
  BY <1>1, <1>2, <1>3, <1>4, <1>5, <1>6, <1>7

(* A client that ends a call keeps everything but the call.                 *)
LEMMA AnsweredShape ==
  ASSUME NEW s \in ClientState, NEW p \in {"sleep", "held"}
  PROVE  /\ Answered(s, p) \in ClientState
         /\ Answered(s, p).pc = p
         /\ Answered(s, p).conn = NoConn
         /\ Answered(s, p).reply = "none"
         /\ Answered(s, p).owner = s.owner
         /\ Answered(s, p).acquired <=> s.acquired
         /\ Answered(s, p).exposed <=> s.exposed
         /\ Answered(s, p).budget = s.budget
         /\ Answered(s, p).ttl = s.ttl
<1> USE LockConstants DEF ClientState
<1> DEFINE s1 == [s EXCEPT !.pc = p, !.conn = NoConn]
           s2 == [s1 EXCEPT !.sends = 0]
           s3 == [s2 EXCEPT !.reply = "none"]
           s4 == [s3 EXCEPT !.left = 0]
           s5 == [s4 EXCEPT !.exposing = FALSE]
<1>1. s1 \in ClientState
  OBVIOUS
<1>2. s2 \in ClientState
  <2> HIDE DEF s1
  <2> QED BY <1>1
<1>3. s3 \in ClientState
  <2> HIDE DEF s2
  <2> QED BY <1>2
<1>4. s4 \in ClientState
  <2> HIDE DEF s3
  <2> QED BY <1>3
<1>5. s5 \in ClientState
  <2> HIDE DEF s4
  <2> QED BY <1>4, ZenonT(60)
<1>6. Answered(s, p) = s5
  BY DEF Answered
<1> QED
  BY <1>5, <1>6 DEF Answered

(* r is the Lock of s with a lease of b, and nothing in progress.           *)
IsLease(r, s, a, b, x) ==
  /\ r \in ClientState
  /\ r.pc = "held" /\ r.conn = NoConn /\ r.reply = "none"
  /\ r.owner = s.owner
  /\ (r.acquired <=> a)
  /\ r.budget = b
  /\ (r.exposed <=> x)

(* What a call says about the lease keeps the client well typed.            *)
LEMMA LeaseShape ==
  ASSUME NEW s \in ClientState, NEW a \in BOOLEAN, NEW b \in Nat,
         NEW x \in BOOLEAN
  PROVE  IsLease(Leased(s, a, b, x), s, a, b, x)
<1> DEFINE s0 == Answered(s, "held")
           s1 == [s0 EXCEPT !.acquired = a]
           s2 == [s1 EXCEPT !.budget = b]
           s3 == [s2 EXCEPT !.exposed = x]
<1>1. /\ s0 \in ClientState /\ s0.pc = "held" /\ s0.conn = NoConn
      /\ s0.reply = "none" /\ s0.owner = s.owner
  BY AnsweredShape
<1> HIDE DEF s0
<1>2. s1 \in ClientState
  BY <1>1 DEF ClientState
<1>3. s2 \in ClientState
  <2> HIDE DEF s1
  <2> QED BY <1>2 DEF ClientState
<1>4. s3 \in ClientState
  <2> HIDE DEF s2
  <2> QED BY <1>3 DEF ClientState
<1>5. Leased(s, a, b, x) = s3
  BY DEF Leased, s0
<1> QED
  BY <1>1, <1>4, <1>5 DEF ClientState, IsLease

(* Dropping everything is always safe.                                      *)
LEMMA ResetStep ==
  ASSUME IInv, NEW c \in Client,
         cl' = [cl EXCEPT ![c] = NotStarted],
         UNCHANGED <<holder, pttl, net>>
  PROVE  IInv'
<1>1. NotStarted \in ClientState /\ Shape(NotStarted)
  BY LockConstants DEF NotStarted, ClientState, Op, Mode, Shape
<1> QED
  BY <1>1, LocalStep DEF NotStarted

(* So is keeping the Lock as it was when a call on it has ended.            *)
LEMMA KeepStep ==
  ASSUME IInv, NEW c \in Client, cl[c].pc \in {"extend", "verify", "release"},
         cl' = [cl EXCEPT ![c] = Answered(cl[c], "held")],
         UNCHANGED <<holder, pttl, net>>
  PROVE  IInv'
<1>1. cl[c] \in ClientState /\ Shape(cl[c]) /\ Lease(c)
  BY DEF IInv, TypeOK, Shapes, Leases
<1>2. Shape(Answered(cl[c], "held"))
  BY <1>1, AnsweredShape DEF Shape, Op
<1> QED
  BY <1>1, <1>2, AnsweredShape, LocalStep DEF Lease, Protected

(* And marking the Lock as lost, relying on it no more.                     *)
LEMMA LostStep ==
  ASSUME IInv, NEW c \in Client, cl[c].pc \in {"extend", "verify", "release"},
         cl' = [cl EXCEPT ![c] = Dropped(cl[c])],
         UNCHANGED <<holder, pttl, net>>
  PROVE  IInv'
<1> DEFINE s == Dropped(cl[c])
<1>1. cl[c] \in ClientState /\ Shape(cl[c])
  BY DEF IInv, TypeOK, Shapes
<1>2. /\ s \in ClientState
      /\ s.conn = NoConn /\ s.pc = "held" /\ s.owner = cl[c].owner
      /\ s.reply = "none" /\ ~ s.acquired
  <2>1. IsLease(s, cl[c], FALSE, 0, FALSE)
    BY <1>1, LeaseShape DEF Dropped
  <2> HIDE DEF s
  <2> QED
    BY <2>1 DEF IsLease
<1>3. Shape(s)
  <2> HIDE DEF s
  <2> QED BY <1>1, <1>2 DEF Op, Shape
<1> QED
  BY <1>2, <1>3, LocalStep

(* AcquireWithTTL returning a Lock: the answer stands for a lease.          *)
LEMMA SetNXOkIInv == ASSUME IInv, NEW c \in Client, SetNXOk(c) PROVE IInv'
<1> DEFINE s == Leased(cl[c], TRUE, cl[c].left, FALSE)
<1>1. /\ cl[c] \in ClientState /\ Shape(cl[c]) /\ AcquirePending(c)
      /\ cl[c].left \in Nat
  BY DEF IInv, TypeOK, Shapes, Leases, ClientState
<1>2. /\ s \in ClientState
      /\ s.conn = NoConn /\ s.pc = "held" /\ s.owner = cl[c].owner
      /\ s.reply = "none" /\ s.budget = cl[c].left
  <2>1. IsLease(s, cl[c], TRUE, cl[c].left, FALSE)
    BY <1>1, LeaseShape
  <2> HIDE DEF s
  <2> QED
    BY <2>1 DEF IsLease
<1>3. cl' = [cl EXCEPT ![c] = s] /\ UNCHANGED <<holder, pttl, net>>
  BY DEF SetNXOk
<1> HIDE DEF s
<1>4. Shape(s)
  BY <1>1, <1>2 DEF SetNXOk, Op, Shape
<1>5. cl[c].left > 0
        => Undisturbed(cl[c].owner, cl[c].left)
           /\ Running(cl[c].owner, cl[c].left)
  BY <1>1 DEF SetNXOk, AcquirePending, Undisturbed
<1> QED
  BY <1>2, <1>3, <1>4, <1>5, LocalStep

(* An acquisition that was refused: it sleeps, or returns its error.        *)
LEMMA SetNXTakenIInv ==
  ASSUME IInv, NEW c \in Client, SetNXTaken(c) PROVE IInv'
<1> DEFINE s == [Answered(cl[c], "sleep") EXCEPT !.owner = NoOwner]
<1>1. cl[c] \in ClientState /\ Shape(cl[c])
  BY DEF IInv, TypeOK, Shapes
<1>2. CASE cl' = [cl EXCEPT ![c] = s]
  <2>1. s \in ClientState
    BY <1>1, AnsweredShape DEF ClientState
  <2>2. /\ Shape(s)
        /\ s.conn = NoConn /\ s.pc = "sleep" /\ s.owner = NoOwner
        /\ ~ s.acquired
    BY <1>1, AnsweredShape DEF SetNXTaken, ClientState, Op, Shape
  <2> QED
    BY <1>2, <2>1, <2>2, LocalStep DEF SetNXTaken
<1>3. CASE cl' = [cl EXCEPT ![c] = NotStarted]
  BY <1>3, ResetStep DEF SetNXTaken
<1> QED
  BY <1>2, <1>3 DEF SetNXTaken

(* Extend returning: the lease is renewed, or the Lock marked as lost.      *)
LEMMA ExtendAnsweredIInv ==
  ASSUME IInv, NEW c \in Client, ExtendAnswered(c) PROVE IInv'
<1> DEFINE s == Leased(cl[c], TRUE, cl[c].left, cl[c].exposing)
<1>1. /\ cl[c] \in ClientState /\ Shape(cl[c]) /\ ExtendPending(c)
      /\ cl[c].left \in Nat /\ cl[c].exposing \in BOOLEAN
  BY DEF IInv, TypeOK, Shapes, Leases, ClientState
<1>2. CASE cl[c].reply = "ok"
  <2>1. /\ s \in ClientState
        /\ s.conn = NoConn /\ s.pc = "held" /\ s.owner = cl[c].owner
        /\ s.reply = "none" /\ s.budget = cl[c].left
        /\ (s.exposed <=> cl[c].exposing)
    <3>1. IsLease(s, cl[c], TRUE, cl[c].left, cl[c].exposing)
      BY <1>1, LeaseShape
    <3> HIDE DEF s
    <3> QED
      BY <3>1 DEF IsLease
  <2>2. cl' = [cl EXCEPT ![c] = s] /\ UNCHANGED <<holder, pttl, net>>
    BY <1>2 DEF ExtendAnswered
  <2> HIDE DEF s
  <2>3. Shape(s)
    BY <1>1, <2>1 DEF ExtendAnswered, Op, Shape
  <2>4. s.budget > 0 /\ ~ s.exposed
          => Undisturbed(s.owner, s.budget) /\ Running(s.owner, s.budget)
    BY <1>1, <1>2, <2>1 DEF ExtendPending, ExtendAnswered
  <2> QED
    BY <2>1, <2>2, <2>3, <2>4, LocalStep
<1>3. CASE cl[c].reply # "ok"
  BY <1>3, LostStep DEF ExtendAnswered
<1> QED
  BY <1>2, <1>3

(* Verify returning: the Lock is kept, or marked as lost.                   *)
LEMMA VerifyAnsweredIInv ==
  ASSUME IInv, NEW c \in Client, VerifyAnswered(c) PROVE IInv'
  BY KeepStep, LostStep DEF VerifyAnswered

(* Release returning, alone or at the end of WithLock.                      *)
LEMMA ReleaseAnsweredIInv ==
  ASSUME IInv, NEW c \in Client, ReleaseAnswered(c) PROVE IInv'
<1>1. CASE cl[c].mode = "withlock"
  BY <1>1, ResetStep DEF ReleaseAnswered
<1>2. CASE cl[c].mode # "withlock" /\ cl[c].reply = "ok"
  BY <1>2, LostStep DEF ReleaseAnswered
<1>3. CASE cl[c].mode # "withlock" /\ cl[c].reply # "ok"
  BY <1>3, KeepStep DEF ReleaseAnswered
<1> QED
  BY <1>1, <1>2, <1>3

(* A call that ends with an error of the connection.                        *)
LEMMA FailIInv == ASSUME IInv, NEW c \in Client, Fail(c) PROVE IInv'
  BY ResetStep, KeepStep DEF Fail, Waiting, Op

(* The retry loop ending when its context does.                             *)
LEMMA GiveUpIInv == ASSUME IInv, NEW c \in Client, GiveUp(c) PROVE IInv'
  BY ResetStep DEF GiveUp

(* A process that dies, leaving its commands on their way.                  *)
LEMMA CrashIInv == ASSUME IInv, NEW c \in Client, Crash(c) PROVE IInv'
  BY ResetStep DEF Crash

-----------------------------------------------------------------------------
(* Steps that send a command.                                              *)

(* The connection and the token a command is sent with are free ones.       *)
LEMMA Chosen ==
  /\ CanSend => getConn \in Conn /\ Free(getConn)
  /\ (\E o \in Owner : Fresh(o)) => generateOwner \in Owner
                                    /\ Fresh(generateOwner)
  BY DEF CanSend, getConn, generateOwner

(* A command on a free connection, for a token nobody else uses, disturbs   *)
(* nobody if it does not disturb its sender.                                *)
LEMMA SendStep ==
  ASSUME IInv, NEW c \in Client, NEW s \in ClientState,
         NEW k \in Conn, Free(k),
         net' = [net EXCEPT ![k] = [op |-> s.pc, owner |-> s.owner,
                                    ttl |-> s.ttl]],
         cl' = [cl EXCEPT ![c] = s],
         UNCHANGED <<holder, pttl>>,
         Shape(s), s.conn = k, s.reply = "none", s.pc \in Op,
         \A d \in Client : d # c => cl[d].owner # s.owner,
         s.pc = "setnx" =>
           \A j \in Conn : net[j].owner = s.owner => net[j].op = "setnx",
         s.pc = "extend" /\ s.left > 0 /\ ~ s.exposing
           => Undisturbed(s.owner, s.left),
         s.acquired /\ s.budget > 0 /\ ~ s.exposed
           => Undisturbed(s.owner, s.budget) /\ Running(s.owner, s.budget)
  PROVE  IInv'
<1> DEFINE r == [op |-> s.pc, owner |-> s.owner, ttl |-> s.ttl]
<1> USE DEF IInv
<1>0. cl'[c] = s /\ \A d \in Client : d # c => cl'[d] = cl[d]
  BY DEF TypeOK
<1>a. /\ s.owner \in Owner /\ s.ttl \in Nat /\ s.left \in Nat
      /\ s.budget \in Nat /\ s.conn = k /\ k # NoConn
  BY LockConstants DEF Shape, ClientState
<1>b. net'[k] = r /\ \A j \in Conn : j # k => net'[j] = net[j]
  BY DEF TypeOK
<1>c. r \in Request /\ r # NoRequest
  BY <1>a, LockConstants DEF Request, NoRequest
<1>1. TypeOK'
  BY <1>c DEF TypeOK
<1>2. KeyExpires'
  BY DEF KeyExpires
<1>3. RequestTimes'
  BY <1>b DEF RequestTimes, Shape
<1>4. Shapes'
  BY <1>0 DEF Shapes
<1>5. OwnConn'
  <2> SUFFICES ASSUME NEW d \in Client, cl'[d].conn # NoConn,
                      net'[cl'[d].conn] # NoRequest
               PROVE  net'[cl'[d].conn] =
                        [op |-> cl'[d].pc, owner |-> cl'[d].owner,
                         ttl |-> cl'[d].ttl]
    BY DEF OwnConn
  <2>1. CASE d = c
    BY <2>1, <1>0, <1>b
  <2>2. CASE d # c
    <3>1. cl[d].conn # k /\ cl[d].conn \in Conn
      BY <2>2, <1>0 DEF Free, TypeOK, ClientState
    <3> QED
      BY <2>2, <3>1, <1>0, <1>b DEF OwnConn
  <2> QED
    BY <2>1, <2>2
<1>6. OwnersDiffer'
  BY <1>0 DEF OwnersDiffer
<1>7. Leases'
  <2> SUFFICES ASSUME NEW d \in Client
               PROVE  (AcquirePending(d) /\ ExtendPending(d) /\ Lease(d))'
    BY DEF Leases
  <2>1. CASE d = c
    <3>1. AcquirePending(c)'
      BY <1>0, <1>b DEF AcquirePending
    <3>2. ExtendPending(c)'
      BY <1>0, <1>a, <1>b DEF ExtendPending, Undisturbed, Shape
    <3>3. Lease(c)'
      BY <1>0, <1>a, <1>b DEF Lease, Protected, Undisturbed, Running, Shape
    <3> QED
      BY <2>1, <3>1, <3>2, <3>3
  <2>2. CASE d # c
    <3>1. \A j \in Conn : net'[j].owner = cl[d].owner => net'[j] = net[j]
      BY <2>2, <1>b
    <3>2. cl'[d] = cl[d] /\ AcquirePending(d) /\ ExtendPending(d) /\ Lease(d)
      BY <2>2, <1>0 DEF Leases
    <3>3. AcquirePending(d)'
      BY <3>1, <3>2 DEF AcquirePending, Running
    <3>4. ExtendPending(d)'
      BY <3>1, <3>2 DEF ExtendPending, Undisturbed, Running
    <3>5. Lease(d)'
      BY <3>1, <3>2 DEF Lease, Protected, Undisturbed, Running
    <3> QED
      BY <3>3, <3>4, <3>5
  <2> QED
    BY <2>1, <2>2
<1>8. NoFalseLoss'
  BY <1>0 DEF NoFalseLoss, Protected
<1> QED
  BY <1>1, <1>2, <1>3, <1>4, <1>5, <1>6, <1>7, <1>8

(* r is s waiting on k for the answer to op.                                *)
IsSent(r, s, op, k, t, x) ==
  /\ r \in ClientState
  /\ r.pc = op /\ r.conn = k /\ r.ttl = t /\ r.left = t
  /\ r.reply = "none"
  /\ r.owner = s.owner
  /\ (r.acquired <=> s.acquired)
  /\ r.budget = s.budget
  /\ (r.exposed <=> s.exposed)
  /\ (r.exposing <=> x)

(* The state of a client whose command has just been written.               *)
LEMMA SentShape ==
  ASSUME NEW s \in ClientState, NEW op \in Op, NEW k \in Conn,
         NEW t \in Nat, NEW x \in BOOLEAN
  PROVE  IsSent(Sent(s, op, k, t, x), s, op, k, t, x)
<1> USE LockConstants DEF ClientState
<1> DEFINE s1 == [s EXCEPT !.pc = op, !.conn = k]
           s2 == [s1 EXCEPT !.ttl = t]
           s3 == [s2 EXCEPT !.sends = 1]
           s4 == [s3 EXCEPT !.reply = "none"]
           s5 == [s4 EXCEPT !.left = t]
           s6 == [s5 EXCEPT !.exposing = x]
<1>1. s1 \in ClientState
  OBVIOUS
<1>2. s2 \in ClientState
  <2> HIDE DEF s1
  <2> QED BY <1>1
<1>3. s3 \in ClientState
  <2> HIDE DEF s2
  <2> QED BY <1>2
<1>4. s4 \in ClientState
  <2> HIDE DEF s3
  <2> QED BY <1>3
<1>5. s5 \in ClientState
  <2> HIDE DEF s4
  <2> QED BY <1>4
<1>6. s6 \in ClientState
  <2> HIDE DEF s5
  <2> QED BY <1>5
<1>7. Sent(s, op, k, t, x) = s6
  BY DEF Sent
<1> QED
  BY <1>6, <1>7 DEF Sent, IsSent

(* A new acquisition starts with a token of its own.                        *)
LEMMA AcquireIInv ==
  ASSUME IInv, NEW c \in Client, NEW s \in ClientState, NEW t \in TTL,
         ~ s.acquired,
         AcquireWithTTL(c, s, t)
  PROVE  IInv'
<1> DEFINE o == generateOwner
           k == getConn
           s1 == [s EXCEPT !.owner = o]
           s2 == Sent(s1, "setnx", k, t, FALSE)
<1>1. o \in Owner /\ Fresh(o) /\ k \in Conn /\ Free(k) /\ t \in Nat
  BY Chosen, LockConstants DEF AcquireWithTTL
<1> HIDE DEF o, k
<1>2. s1 \in ClientState
  BY <1>1 DEF ClientState
<1>3. s1.owner = o /\ ~ s1.acquired
  BY <1>1 DEF ClientState
<1> HIDE DEF s1
<1>4. /\ s2 \in ClientState /\ s2.pc = "setnx" /\ s2.conn = k
      /\ s2.ttl = t /\ s2.left = t /\ s2.reply = "none" /\ s2.owner = o
      /\ ~ s2.acquired
  <2>1. IsSent(s2, s1, "setnx", k, t, FALSE)
    BY <1>1, <1>2, SentShape DEF Op
  <2> HIDE DEF s2
  <2> QED
    BY <1>3, <2>1 DEF IsSent
<1> HIDE DEF s2
<1>5. Shape(s2)
  BY <1>1, <1>4 DEF Shape, Op
<1>6. /\ net' = [net EXCEPT ![k] = [op |-> s2.pc, owner |-> s2.owner,
                                    ttl |-> s2.ttl]]
      /\ cl' = [cl EXCEPT ![c] = s2]
      /\ UNCHANGED <<holder, pttl>>
  BY <1>4 DEF AcquireWithTTL, Write, o, k, s1, s2
<1>7. /\ \A d \in Client : d # c => cl[d].owner # s2.owner
      /\ \A j \in Conn : net[j].owner # s2.owner
  BY <1>1, <1>4 DEF Fresh
<1>8. s2.pc \in Op /\ s2.pc # "extend"
  BY <1>4 DEF Op
<1> QED
  BY <1>1, <1>4, <1>5, <1>6, <1>7, <1>8, SendStep

(* The start of an acquisition, which sends SETNX with a new token.         *)
LEMMA StartIInv == ASSUME IInv, NEW c \in Client, Start(c) PROVE IInv'
<1> PICK m \in Mode, t \in TTL :
      AcquireWithTTL(c, [NotStarted EXCEPT !.mode = m, !.attempt = 1], t)
  BY DEF Start
<1> DEFINE s == [NotStarted EXCEPT !.mode = m, !.attempt = 1]
<1>1. NotStarted \in ClientState /\ ~ NotStarted.acquired
  BY LockConstants DEF NotStarted, ClientState, Op, Mode
<1>2. s \in ClientState
  BY <1>1 DEF ClientState
<1>3. ~ s.acquired
  BY <1>1 DEF ClientState
<1> QED
  BY <1>2, <1>3, AcquireIInv

(* The retry loop's next attempt, which sends SETNX with a new token.       *)
LEMMA WakeIInv == ASSUME IInv, NEW c \in Client, Wake(c) PROVE IInv'
<1> DEFINE s == [cl[c] EXCEPT !.attempt = @ + 1]
<1>1. cl[c] \in ClientState /\ Shape(cl[c])
  BY DEF IInv, TypeOK, Shapes
<1>2. cl[c].attempt + 1 \in {0, 1} \cup 1..RetryCount
  BY <1>1, LockConstants DEF Wake, ClientState
<1>3. s \in ClientState
  BY <1>1, <1>2 DEF ClientState
<1>4. ~ s.acquired /\ cl[c].ttl \in TTL
  BY <1>1 DEF Wake, Shape, ClientState
<1> QED
  BY <1>3, <1>4, AcquireIInv DEF Wake

(* A call on a Lock whose caller relies on no more than it did before.      *)
LEMMA CallIInv ==
  ASSUME IInv, NEW c \in Client, NEW op \in {"extend", "verify", "release"},
         NEW t \in Nat, NEW b \in Nat, NEW x \in BOOLEAN,
         CallOnHandle(c, op, t, b, x),
         b <= cl[c].budget,
         op = "release" => b = 0,
         op = "extend" => t \in ExtendTTL /\ b <= t,
         op = "extend" /\ ~ x => NothingPending(cl[c].owner)
  PROVE  IInv'
<1> DEFINE k == getConn
           s1 == Sent(cl[c], op, k, t, x)
           s2 == [s1 EXCEPT !.budget = b]
<1>1. k \in Conn /\ Free(k)
  BY Chosen DEF CallOnHandle
<1>2. cl[c] \in ClientState /\ Shape(cl[c]) /\ Lease(c)
  BY DEF IInv, TypeOK, Shapes, Leases
<1>3. cl[c].acquired /\ cl[c].owner \in Owner /\ cl[c].pc = "held"
  BY <1>2 DEF CallOnHandle, Shape
<1> HIDE DEF k
<1>4. /\ s1 \in ClientState /\ s1.pc = op /\ s1.conn = k
      /\ s1.ttl = t /\ s1.left = t /\ s1.reply = "none"
      /\ s1.owner = cl[c].owner /\ s1.acquired
      /\ (s1.exposed <=> cl[c].exposed) /\ (s1.exposing <=> x)
  <2>1. IsSent(s1, cl[c], op, k, t, x)
    BY <1>1, <1>2, SentShape DEF Op
  <2> HIDE DEF s1
  <2> QED
    BY <1>3, <2>1 DEF IsSent
<1>5. /\ net' = [net EXCEPT ![k] = [op |-> op, owner |-> cl[c].owner,
                                    ttl |-> t]]
      /\ cl' = [cl EXCEPT ![c] = s2]
      /\ UNCHANGED <<holder, pttl>>
  BY DEF CallOnHandle, Write, k
<1> HIDE DEF s1
<1>6. s2 \in ClientState
  BY <1>4 DEF ClientState
<1>7. /\ s2.pc = op /\ s2.conn = k /\ s2.ttl = t /\ s2.left = t
      /\ s2.reply = "none" /\ s2.owner = cl[c].owner /\ s2.acquired
      /\ s2.budget = b
      /\ (s2.exposed <=> cl[c].exposed) /\ (s2.exposing <=> x)
  BY <1>4 DEF ClientState
<1> HIDE DEF s2
<1>8. Shape(s2)
  BY <1>3, <1>7 DEF Shape, Op
<1>9. \A d \in Client : d # c => cl[d].owner # s2.owner
  BY <1>3, <1>7, LockConstants DEF IInv, OwnersDiffer
<1>10. s2.pc = "extend" /\ s2.left > 0 /\ ~ s2.exposing
         => Undisturbed(s2.owner, s2.left)
  BY <1>7 DEF Undisturbed, NothingPending
<1>11. /\ cl[c].budget \in Nat /\ pttl \in Nat
       /\ \A j \in Conn : net[j].ttl \in Nat
  BY <1>2 DEF ClientState, IInv, TypeOK, Request, NoRequest
<1>12. s2.acquired /\ s2.budget > 0 /\ ~ s2.exposed
         => Undisturbed(s2.owner, s2.budget) /\ Running(s2.owner, s2.budget)
  BY <1>2, <1>3, <1>7, <1>11 DEF Lease, Protected, Undisturbed, Running
<1>13. /\ net' = [net EXCEPT ![k] = [op |-> s2.pc, owner |-> s2.owner,
                                     ttl |-> s2.ttl]]
       /\ s2.pc \in Op /\ s2.pc # "setnx"
  BY <1>5, <1>7 DEF Op
<1> QED
  BY <1>1, <1>5, <1>6, <1>7, <1>8, <1>9, <1>10, <1>12, <1>13, SendStep

(* Extend sending its script.                                               *)
LEMMA ExtendIInv == ASSUME IInv, NEW c \in Client, Extend(c) PROVE IInv'
<1> PICK t \in ExtendTTL :
      CallOnHandle(c, "extend", t, Lesser(cl[c].budget, t),
                   ~ NothingPending(cl[c].owner))
  BY DEF Extend
<1> DEFINE b == Lesser(cl[c].budget, t)
           x == ~ NothingPending(cl[c].owner)
<1>1. t \in Nat /\ cl[c].budget \in Nat
  BY LockConstants DEF IInv, TypeOK, ClientState
<1>2. b \in Nat /\ b <= cl[c].budget /\ b <= t
  BY <1>1 DEF Lesser
<1>3. x \in BOOLEAN /\ (~ x => NothingPending(cl[c].owner))
  OBVIOUS
<1> QED
  BY <1>1, <1>2, <1>3, CallIInv

(* Verify sending its GET.                                                  *)
LEMMA VerifyIInv == ASSUME IInv, NEW c \in Client, Verify(c) PROVE IInv'
<1>1. cl[c].budget \in Nat
  BY DEF IInv, TypeOK, ClientState
<1>2. FALSE \in BOOLEAN /\ 0 \in Nat /\ cl[c].budget <= cl[c].budget
  BY <1>1
<1> QED
  BY <1>1, <1>2, CallIInv, Zenon DEF Verify

(* Release sending its script; its caller relies on the lease no more.      *)
LEMMA ReleaseIInv == ASSUME IInv, NEW c \in Client, Release(c) PROVE IInv'
<1>1. FALSE \in BOOLEAN /\ 0 \in Nat /\ 0 <= cl[c].budget
  BY DEF IInv, TypeOK, ClientState
<1> QED
  BY <1>1, CallIInv, Zenon DEF Release

(* A copy of a command disturbs no more than the command.                   *)
LEMMA ResendIInv == ASSUME IInv, NEW c \in Client, Resend(c) PROVE IInv'
<1> DEFINE k == getConn
           s1 == [cl[c] EXCEPT !.conn = k, !.reply = "none"]
           s == SentAgain(cl[c], k)
<1>1. k \in Conn /\ Free(k)
  BY Chosen DEF Resend
<1>2. /\ cl[c] \in ClientState /\ Shape(cl[c])
      /\ AcquirePending(c) /\ ExtendPending(c) /\ Lease(c)
  BY DEF IInv, TypeOK, Shapes, Leases
<1>3. /\ net' = [net EXCEPT ![k] = [op |-> cl[c].pc, owner |-> cl[c].owner,
                                    ttl |-> cl[c].ttl]]
      /\ UNCHANGED <<holder, pttl>>
      /\ cl[c].pc \in Op
  BY DEF Resend, Write, Waiting
<1>a. cl' = [cl EXCEPT ![c] = s]
  BY DEF Resend
<1> HIDE DEF k
<1>4. cl[c].sends + 1 \in 0..MaxSends
  BY <1>2, LockConstants DEF Resend, ClientState
<1>5. s \in ClientState
  <2>1. s1 \in ClientState /\ s1.sends = cl[c].sends
    BY <1>1, <1>2, ZenonT(60) DEF ClientState
  <2>2. [s1 EXCEPT !.sends = cl[c].sends + 1] \in ClientState
    <3> HIDE DEF s1
    <3> QED BY <2>1, <1>4 DEF ClientState
  <2> QED
    BY <2>2 DEF SentAgain
<1>6. /\ s.pc = cl[c].pc /\ s.conn = k /\ s.ttl = cl[c].ttl
      /\ s.left = cl[c].left /\ s.reply = "none" /\ s.owner = cl[c].owner
      /\ (s.acquired <=> cl[c].acquired) /\ s.budget = cl[c].budget
      /\ (s.exposed <=> cl[c].exposed) /\ (s.exposing <=> cl[c].exposing)
  BY <1>1, <1>2 DEF ClientState, SentAgain
<1> HIDE DEF s
<1>7. Shape(s) /\ s.owner \in Owner
  BY <1>2, <1>3, <1>6 DEF Shape
<1>8. \A d \in Client : d # c => cl[d].owner # s.owner
  BY <1>6, <1>7, LockConstants DEF IInv, OwnersDiffer
<1>9. /\ s.pc = "setnx" =>
           \A j \in Conn : net[j].owner = s.owner => net[j].op = "setnx"
      /\ s.pc = "extend" /\ s.left > 0 /\ ~ s.exposing
           => Undisturbed(s.owner, s.left)
      /\ s.acquired /\ s.budget > 0 /\ ~ s.exposed
           => Undisturbed(s.owner, s.budget) /\ Running(s.owner, s.budget)
  BY <1>2, <1>6 DEF AcquirePending, ExtendPending, Lease, Protected
<1> QED
  BY <1>1, <1>3, <1>a, <1>5, <1>6, <1>7, <1>8, <1>9, SendStep

-----------------------------------------------------------------------------
(* Steps of the server and of time.                                        *)

(* A connection that breaks, taking its command with it.                    *)
LEMMA LoseIInv == ASSUME IInv, NEW k \in Conn, Lose(k) PROVE IInv'
<1> USE DEF IInv
<1>1. net'[k] = NoRequest /\ \A j \in Conn : j # k => net'[j] = net[j]
  BY DEF Lose, TypeOK
<1>2. NoRequest.op = "none" /\ NoRequest.owner = NoOwner
  BY DEF NoRequest
<1>3. UNCHANGED <<holder, pttl, cl>>
  BY DEF Lose
<1>4. TypeOK' /\ KeyExpires'
  BY <1>3 DEF Lose, TypeOK, KeyExpires
<1>5. RequestTimes' /\ Shapes' /\ OwnersDiffer' /\ NoFalseLoss'
  BY <1>1, <1>2, <1>3
     DEF RequestTimes, Shapes, Shape, OwnersDiffer, NoFalseLoss, Protected
<1>6. OwnConn'
  BY <1>1, <1>3 DEF OwnConn, TypeOK, ClientState
<1>7. Leases'
  <2>1. \A d \in Client : AcquirePending(d)'
    BY <1>1, <1>2, <1>3, LockConstants
       DEF Leases, AcquirePending, Running, Shapes, Shape, Op
  <2>2. \A d \in Client : ExtendPending(d)'
    BY <1>1, <1>2, <1>3 DEF Leases, ExtendPending, Undisturbed, Running
  <2>3. \A d \in Client : Lease(d)'
    BY <1>1, <1>2, <1>3 DEF Leases, Lease, Protected, Undisturbed, Running
  <2> QED
    BY <2>1, <2>2, <2>3 DEF Leases
<1> QED
  BY <1>4, <1>5, <1>6, <1>7

(* What the server does to the key, by command.                             *)
LEMMA ExecKey ==
  ASSUME IInv, NEW k \in Conn, Exec(k)
  PROVE  /\ net[k] \in Request
         /\ KeyExpires' /\ holder' \in Owner \cup {NoOwner} /\ pttl' \in Nat
         /\ net[k].op = "setnx" /\ holder = NoOwner
              => holder' = net[k].owner /\ pttl' = net[k].ttl
         /\ net[k].op = "extend" /\ holder = net[k].owner /\ net[k].ttl > 0
              => holder' = holder /\ pttl' = net[k].ttl
         /\ \A o \in Owner, n \in Nat :
              n > 0 /\ Running(o, n) /\ Undisturbed(o, n) => Running(o, n)'
<1> DEFINE r == net[k]
<1>1. r \in Request /\ r.op \in Op /\ r.owner \in Owner /\ r.ttl \in Nat
  BY DEF Exec, IInv, TypeOK, Request
<1>2. /\ r.op = "setnx" => r.ttl \in Nat \ {0}
      /\ NoOwner \notin Owner /\ r.owner # NoOwner
  BY <1>1, LockConstants DEF IInv, RequestTimes
<1>3. /\ holder \in Owner \cup {NoOwner} /\ pttl \in Nat
      /\ (holder = NoOwner <=> pttl = 0)
  BY DEF IInv, TypeOK, KeyExpires
<1>4. CASE r.op = "setnx"
  <2>1. SetNX(r)
    BY <1>4 DEF Exec
  <2> QED
    BY <1>1, <1>2, <1>3, <1>4, <2>1 DEF SetNX, KeyExpires, Running
<1>5. CASE r.op = "extend"
  <2>1. ExtendScript(r)
    BY <1>5 DEF Exec
  <2> QED
    BY <1>1, <1>2, <1>3, <1>5, <2>1
       DEF ExtendScript, KeyExpires, Running, Undisturbed
<1>6. CASE r.op = "release"
  <2>1. ReleaseScript(r)
    BY <1>6 DEF Exec
  <2> QED
    BY <1>1, <1>2, <1>3, <1>6, <2>1
       DEF ReleaseScript, KeyExpires, Running, Undisturbed
<1>7. CASE r.op = "verify"
  <2>1. UNCHANGED <<holder, pttl>>
    BY <1>7 DEF Exec
  <2> QED
    BY <1>1, <1>3, <1>7, <2>1 DEF KeyExpires, Running
<1> QED
  BY <1>1, <1>4, <1>5, <1>6, <1>7 DEF Op

(* Only the answer changes in a client, and only in the one that waits.     *)
LEMMA ExecClients ==
  ASSUME IInv, NEW k \in Conn, Exec(k), NEW d \in Client
  PROVE  /\ cl'[d] \in ClientState
         /\ cl'[d].pc = cl[d].pc /\ cl'[d].owner = cl[d].owner
         /\ cl'[d].ttl = cl[d].ttl /\ cl'[d].conn = cl[d].conn
         /\ cl'[d].budget = cl[d].budget /\ cl'[d].left = cl[d].left
         /\ (cl'[d].acquired <=> cl[d].acquired)
         /\ (cl'[d].exposed <=> cl[d].exposed)
         /\ (cl'[d].exposing <=> cl[d].exposing)
         /\ cl[d].conn # k => cl'[d].reply = cl[d].reply
         /\ cl[d].conn = k => cl'[d].reply = Result(net[k])
<1>1. cl[d] \in ClientState
  BY DEF IInv, TypeOK
<1>2. Result(net[k]) \in {"ok", "no"}
  BY DEF Result
<1>3. cl'[d] = IF cl[d].conn = k
               THEN [cl[d] EXCEPT !.reply = Result(net[k])] ELSE cl[d]
  BY DEF Exec
<1>4. [cl[d] EXCEPT !.reply = Result(net[k])] \in ClientState
  BY <1>1, <1>2 DEF ClientState
<1> QED
  BY <1>1, <1>3, <1>4 DEF ClientState

(* The server running a command, however late.                              *)
LEMMA ExecIInv == ASSUME IInv, NEW k \in Conn, Exec(k) PROVE IInv'
<1> USE DEF IInv
<1>1. /\ net'[k] = NoRequest /\ \A j \in Conn : j # k => net'[j] = net[j]
      /\ NoRequest.op = "none" /\ NoRequest.owner = NoOwner
      /\ net' \in [Conn -> Request \cup {NoRequest}]
  BY DEF Exec, TypeOK, NoRequest
<1>2. \A o \in Owner, n \in Nat : Undisturbed(o, n) => Undisturbed(o, n)'
  BY <1>1, LockConstants DEF Undisturbed
<1>3. TypeOK' /\ KeyExpires'
  <2>1. cl' \in [Client -> ClientState]
    BY ExecClients DEF Exec
  <2> QED
    BY <2>1, <1>1, ExecKey DEF TypeOK
<1>4. RequestTimes'
  BY <1>1 DEF RequestTimes
<1>5. Shapes'
  <2> SUFFICES ASSUME NEW d \in Client PROVE Shape(cl'[d])
    BY DEF Shapes
  <2>1. Shape(cl[d]) /\ k # NoConn
    BY LockConstants DEF Shapes
  <2> QED
    BY <2>1, ExecClients DEF Shape
<1>6. OwnConn'
  <2> SUFFICES ASSUME NEW d \in Client, cl'[d].conn # NoConn,
                      net'[cl'[d].conn] # NoRequest
               PROVE  net'[cl'[d].conn] =
                        [op |-> cl'[d].pc, owner |-> cl'[d].owner,
                         ttl |-> cl'[d].ttl]
    BY DEF OwnConn
  <2>1. cl[d].conn \in Conn /\ cl[d].conn # k
    BY <1>1, ExecClients DEF TypeOK, ClientState
  <2> QED
    BY <2>1, <1>1, ExecClients DEF OwnConn
<1>7. OwnersDiffer'
  BY ExecClients DEF OwnersDiffer
<1>8. ASSUME NEW d \in Client
      PROVE  /\ cl[d].left \in Nat /\ cl[d].budget \in Nat
             /\ cl[d].ttl \in Nat /\ Shape(cl[d])
             /\ cl[d].conn = k =>
                  net[k].op = cl[d].pc /\ net[k].owner = cl[d].owner
                  /\ net[k].ttl = cl[d].ttl
  <2>1. /\ cl[d].left \in Nat /\ cl[d].budget \in Nat
        /\ cl[d].ttl \in Nat /\ Shape(cl[d])
    BY DEF TypeOK, ClientState, Shapes
  <2>2. net[k] # NoRequest /\ k # NoConn
    BY LockConstants DEF Exec
  <2>3. ASSUME cl[d].conn = k
        PROVE  net[k] = [op |-> cl[d].pc, owner |-> cl[d].owner,
                         ttl |-> cl[d].ttl]
    BY <2>2, <2>3 DEF OwnConn
  <2>4. ASSUME cl[d].conn = k
        PROVE  /\ net[k].op = cl[d].pc /\ net[k].owner = cl[d].owner
               /\ net[k].ttl = cl[d].ttl
    BY <2>3, <2>4
  <2> QED
    BY <2>1, <2>4
<1>9. ASSUME NEW d \in Client PROVE AcquirePending(d)'
  <2> SUFFICES ASSUME cl[d].pc = "setnx" PROVE AcquirePending(d)'
    BY ExecClients DEF AcquirePending
  <2>1. cl[d].owner \in Owner /\ cl[d].left <= cl[d].ttl
    BY <1>8 DEF Shape, Op
  <2>2. \A j \in Conn : net[j].owner = cl[d].owner => net[j].op = "setnx"
    BY DEF Leases, AcquirePending
  <2>3. \A j \in Conn : net'[j].owner = cl[d].owner => net'[j].op = "setnx"
    BY <2>1, <2>2, <1>1, LockConstants
  <2>4. ASSUME cl'[d].reply = "ok", cl[d].left > 0
        PROVE  holder' = cl[d].owner /\ pttl' >= cl[d].left
    <3>1. CASE cl[d].conn = k
      <4>1. holder = NoOwner
        BY <3>1, <2>4, <1>8, ExecClients DEF Result
      <4> QED
        BY <3>1, <4>1, <2>1, <1>8, ExecKey DEF Running
    <3>2. CASE cl[d].conn # k
      <4>1. Running(cl[d].owner, cl[d].left)
        BY <3>2, <2>4, ExecClients DEF Leases, AcquirePending
      <4>2. Undisturbed(cl[d].owner, cl[d].left)
        BY <2>2 DEF Undisturbed
      <4> QED
        BY <4>1, <4>2, <2>1, <2>4, <1>8, ExecKey DEF Running
    <3> QED
      BY <3>1, <3>2
  <2> QED
    BY <2>3, <2>4, ExecClients DEF AcquirePending, Running
<1>10. ASSUME NEW d \in Client PROVE ExtendPending(d)'
  <2> SUFFICES ASSUME cl[d].pc = "extend", cl[d].left > 0, ~ cl[d].exposing
               PROVE  ExtendPending(d)'
    BY ExecClients DEF ExtendPending
  <2>1. cl[d].owner \in Owner /\ cl[d].left <= cl[d].ttl
    BY <1>8 DEF Shape, Op
  <2>2. /\ Undisturbed(cl[d].owner, cl[d].left)
        /\ Undisturbed(cl[d].owner, cl[d].left)'
    BY <2>1, <1>2, <1>8, ExecClients DEF Leases, ExtendPending, Undisturbed
  <2>3. ASSUME cl'[d].reply = "ok"
        PROVE  holder' = cl[d].owner /\ pttl' >= cl[d].left
    <3>1. CASE cl[d].conn = k
      <4>1. holder = cl[d].owner
        BY <3>1, <2>3, <1>8, ExecClients DEF Result
      <4> QED
        BY <3>1, <4>1, <2>1, <1>8, ExecKey DEF Running
    <3>2. CASE cl[d].conn # k
      <4>1. Running(cl[d].owner, cl[d].left)
        BY <3>2, <2>3, ExecClients DEF Leases, ExtendPending
      <4> QED
        BY <4>1, <2>1, <2>2, <1>8, ExecKey DEF Running
    <3> QED
      BY <3>1, <3>2
  <2> QED
    BY <2>2, <2>3, ExecClients DEF ExtendPending, Running, Undisturbed
<1>11. ASSUME NEW d \in Client PROVE Lease(d)'
  <2> SUFFICES ASSUME Protected(d) PROVE Lease(d)'
    BY ExecClients DEF Lease, Protected
  <2>1. cl[d].owner \in Owner /\ cl[d].budget > 0
    BY <1>8 DEF Shape, Op, Protected
  <2>2. /\ Undisturbed(cl[d].owner, cl[d].budget)
        /\ Running(cl[d].owner, cl[d].budget)
    BY DEF Leases, Lease
  <2>3. /\ Undisturbed(cl[d].owner, cl[d].budget)'
        /\ Running(cl[d].owner, cl[d].budget)'
    BY <2>1, <2>2, <1>2, <1>8, ExecKey, ExecClients DEF Undisturbed, Running
  <2> QED
    BY <2>3, ExecClients DEF Lease, Undisturbed, Running
<1>12. NoFalseLoss'
  <2> SUFFICES ASSUME NEW d \in Client, cl[d].pc \in {"extend", "verify"},
                      cl'[d].reply = "no"
               PROVE  ~ Protected(d)
    BY ExecClients DEF NoFalseLoss, Protected
  <2>1. CASE cl[d].conn = k
    <3>1. holder # cl[d].owner
      BY <2>1, <1>8, ExecClients DEF Result
    <3> QED
      BY <3>1 DEF Leases, Lease, Running
  <2>2. CASE cl[d].conn # k
    BY <2>2, ExecClients DEF NoFalseLoss
  <2> QED
    BY <2>1, <2>2
<1> QED
  BY <1>3, <1>4, <1>5, <1>6, <1>7, <1>9, <1>10, <1>11, <1>12 DEF Leases

(* Time passing: keys and leases come nearer to their end together.         *)
LEMMA TickIInv == ASSUME IInv, Tick PROVE IInv'
<1> USE DEF IInv
<1>1. ASSUME NEW d \in Client
      PROVE  /\ cl'[d] \in ClientState
             /\ cl'[d].pc = cl[d].pc /\ cl'[d].owner = cl[d].owner
             /\ cl'[d].ttl = cl[d].ttl /\ cl'[d].conn = cl[d].conn
             /\ (cl'[d].acquired <=> cl[d].acquired)
             /\ (cl'[d].exposed <=> cl[d].exposed)
             /\ (cl'[d].exposing <=> cl[d].exposing)
             /\ cl'[d].reply = cl[d].reply
             /\ cl'[d].budget = Pass(cl[d].budget)
             /\ cl'[d].left = Pass(cl[d].left)
             /\ cl[d].budget \in Nat /\ cl[d].left \in Nat
             /\ cl[d].ttl \in Nat
  <2>1. cl[d] \in ClientState /\ cl[d].budget \in Nat /\ cl[d].left \in Nat
    BY DEF TypeOK, ClientState
  <2>2. Pass(cl[d].budget) \in Nat /\ Pass(cl[d].left) \in Nat
    BY <2>1 DEF Pass
  <2>3. cl'[d] = [cl[d] EXCEPT !.budget = Pass(cl[d].budget),
                               !.left = Pass(cl[d].left)]
    BY DEF Tick
  <2>4. cl'[d] \in ClientState
    BY <2>1, <2>2, <2>3, ZenonT(60) DEF ClientState
  <2> QED
    BY <2>1, <2>3, <2>4 DEF ClientState
<1>2. /\ holder \in Owner \cup {NoOwner} /\ pttl \in Nat
      /\ (holder = NoOwner <=> pttl = 0) /\ NoOwner \notin Owner
  BY LockConstants DEF TypeOK, KeyExpires
<1>a. /\ pttl' = Pass(pttl) /\ net' = net
      /\ holder' = IF pttl = 1 THEN NoOwner ELSE holder
  BY DEF Tick
<1>3. /\ holder' \in Owner \cup {NoOwner} /\ pttl' \in Nat
      /\ KeyExpires' /\ net' = net
  BY <1>2, <1>a DEF Pass, KeyExpires
<1>4. TypeOK'
  <2>1. cl' \in [Client -> ClientState]
    BY <1>1 DEF Tick
  <2> QED
    BY <2>1, <1>3 DEF TypeOK
<1>5. RequestTimes' /\ OwnConn' /\ OwnersDiffer'
  BY <1>1, <1>3 DEF RequestTimes, OwnConn, OwnersDiffer
<1>6. Shapes'
  <2> SUFFICES ASSUME NEW d \in Client PROVE Shape(cl'[d])
    BY DEF Shapes
  <2>1. Shape(cl[d])
    BY DEF Shapes
  <2> QED
    BY <2>1, <1>1 DEF Shape, Pass
<1>7. ASSUME NEW o \in Owner, NEW n \in Nat, Pass(n) > 0
      PROVE  /\ Undisturbed(o, n) => Undisturbed(o, Pass(n))
             /\ Running(o, n) => holder' = o /\ pttl' >= Pass(n)
  <2>1. \A j \in Conn : net[j].ttl \in Nat
    BY DEF TypeOK, Request, NoRequest
  <2>2. n > 0 /\ Pass(n) = n - 1 /\ Pass(n) \in Nat
    BY <1>7 DEF Pass
  <2>3. Undisturbed(o, n) => Undisturbed(o, Pass(n))
    BY <2>1, <2>2 DEF Undisturbed
  <2>4. Running(o, n) => holder' = o /\ pttl' >= Pass(n)
    <3> SUFFICES ASSUME Running(o, n) PROVE holder' = o /\ pttl' >= Pass(n)
      OBVIOUS
    <3>1. holder = o /\ pttl >= n /\ n >= 2
      BY <1>7 DEF Running, Pass
    <3> QED
      BY <3>1, <2>2, <1>2, <1>a DEF Pass
  <2> QED
    BY <2>3, <2>4
<1>8. ASSUME NEW d \in Client
      PROVE  AcquirePending(d)' /\ ExtendPending(d)' /\ Lease(d)'
  <2>1. AcquirePending(d) /\ ExtendPending(d) /\ Lease(d) /\ Shape(cl[d])
    BY DEF Leases, Shapes
  <2>2. Pass(cl[d].left) > 0 => cl[d].left > 0
    BY <1>1 DEF Pass
  <2>3. Pass(cl[d].budget) > 0 => cl[d].budget > 0
    BY <1>1 DEF Pass
  <2>4. AcquirePending(d)'
    <3> SUFFICES ASSUME cl[d].pc = "setnx" PROVE AcquirePending(d)'
      BY <1>1 DEF AcquirePending
    <3>1. cl[d].owner \in Owner
      BY <2>1 DEF Shape, Op
    <3>2. \A j \in Conn : net'[j].owner = cl[d].owner => net'[j].op = "setnx"
      BY <2>1, <1>3 DEF AcquirePending
    <3>3. cl[d].reply = "ok" /\ Pass(cl[d].left) > 0
            => holder' = cl[d].owner /\ pttl' >= Pass(cl[d].left)
      BY <3>1, <2>1, <2>2, <1>1, <1>7 DEF AcquirePending
    <3> QED
      BY <3>2, <3>3, <1>1 DEF AcquirePending, Running
  <2>5. ExtendPending(d)'
    <3> SUFFICES ASSUME cl[d].pc = "extend", Pass(cl[d].left) > 0,
                        ~ cl[d].exposing
                 PROVE  ExtendPending(d)'
      BY <1>1 DEF ExtendPending
    <3>1. cl[d].owner \in Owner
      BY <2>1 DEF Shape, Op
    <3>2. /\ Undisturbed(cl[d].owner, Pass(cl[d].left))
          /\ cl[d].reply = "ok"
               => holder' = cl[d].owner /\ pttl' >= Pass(cl[d].left)
      BY <3>1, <2>1, <2>2, <1>1, <1>7 DEF ExtendPending
    <3> QED
      BY <3>2, <1>1, <1>a DEF ExtendPending, Running, Undisturbed
  <2>6. Lease(d)'
    <3> SUFFICES ASSUME cl[d].acquired, Pass(cl[d].budget) > 0,
                        ~ cl[d].exposed
                 PROVE  Lease(d)'
      BY <1>1 DEF Lease, Protected
    <3>1. cl[d].owner \in Owner
      BY <2>1 DEF Shape, Op
    <3>2. /\ Undisturbed(cl[d].owner, Pass(cl[d].budget))
          /\ holder' = cl[d].owner /\ pttl' >= Pass(cl[d].budget)
      BY <3>1, <2>1, <2>3, <1>1, <1>7 DEF Lease, Protected
    <3> QED
      BY <3>2, <1>1, <1>a, ZenonT(60) DEF Lease, Running, Undisturbed
  <2> QED
    BY <2>4, <2>5, <2>6
<1>9. NoFalseLoss'
  BY <1>1 DEF NoFalseLoss, Protected, Pass
<1> QED
  BY <1>3, <1>4, <1>5, <1>6, <1>8, <1>9 DEF Leases

-----------------------------------------------------------------------------
(* Every step.                                                             *)

(* Every step of the lock keeps the inductive invariant.                    *)
LEMMA NextIInv == IInv /\ [Next]_vars => IInv'
<1> SUFFICES ASSUME IInv, [Next]_vars PROVE IInv'
  OBVIOUS
<1>1. CASE Tick
  BY <1>1, TickIInv
<1>2. ASSUME NEW k \in Conn, Exec(k) \/ Lose(k) PROVE IInv'
  BY <1>2, ExecIInv, LoseIInv
<1>3. ASSUME NEW c \in Client, Return(c) PROVE IInv'
  BY <1>3, SetNXOkIInv, SetNXTakenIInv, ExtendAnsweredIInv,
     VerifyAnsweredIInv, ReleaseAnsweredIInv, WakeIInv, GiveUpIInv, FailIInv
     DEF Return
<1>4. ASSUME NEW c \in Client, Use(c) PROVE IInv'
  BY <1>4, StartIInv, ExtendIInv, VerifyIInv, ReleaseIInv DEF Use
<1>5. ASSUME NEW c \in Client, Resend(c) \/ Crash(c) PROVE IInv'
  BY <1>5, ResendIInv, CrashIInv
<1>6. CASE UNCHANGED vars
  BY <1>6 DEF vars, IInv, TypeOK, KeyExpires, RequestTimes, Shapes, Shape,
              OwnConn, OwnersDiffer, Leases, AcquirePending, ExtendPending,
              Lease, Protected, Undisturbed, Running, NoFalseLoss
<1> QED
  BY <1>1, <1>2, <1>3, <1>4, <1>5, <1>6 DEF Next

(* The types of lock.go's state are kept, and the bounds on attempts and on *)
(* repeated sends: retryCount and MaxRetries are never exceeded.            *)
THEOREM TypeCorrect == Spec => []TypeOK
<1>1. IInv => TypeOK
  BY DEF IInv
<1> QED
  BY <1>1, InitIInv, NextIInv, PTL DEF Spec

(* While the lease runs by the client's clock the key is the client's: late *)
(* and repeated commands of other clients, of earlier tokens, and those     *)
(* sent for this Lock after the lease was asked for cannot take it away.    *)
(* Left out is the lease of an Extend sent while an earlier Extend or       *)
(* Release of the same Lock was on its way: that one can.                   *)
THEOREM LeaseIsHonoured == Spec => []LeaseHonoured
<1>1. IInv => LeaseHonoured
  BY DEF IInv, Leases, Lease, LeaseHonoured, Running
<1> QED
  BY <1>1, InitIInv, NextIInv, PTL DEF Spec

(* No two clients rely on the lock at the same time, for any number of      *)
(* clients and any interleaving of their commands.                          *)
THEOREM LockIsExclusive == Spec => []MutualExclusion
<1>1. IInv => MutualExclusion
  BY LockConstants
     DEF IInv, Leases, Lease, Running, Protected, OwnersDiffer, Shapes, Shape,
         Op, MutualExclusion
<1> QED
  BY <1>1, InitIInv, NextIInv, PTL DEF Spec

(* Extend and Verify never report the loss of a lock whose lease runs.      *)
THEOREM LossIsReal == Spec => []NoFalseLoss
<1>1. IInv => NoFalseLoss
  BY DEF IInv
<1> QED
  BY <1>1, InitIInv, NextIInv, PTL DEF Spec

-----------------------------------------------------------------------------
(* RedisLock implements LeasedMutex.                                       *)

(* The lock starts as a free leased mutex.                                  *)
LEMMA InitAbstract == Init => Abstract!Init
  BY LockConstants
     DEF Init, Abstract!Init, leaseOf, insideOf, Protected, NotStarted

(* What IInv says in terms of the abstract state.                           *)
LEMMA InsideFacts ==
  ASSUME IInv, NEW c \in Client
  PROVE  /\ insideOf[c] = IF Protected(c) THEN cl[c].owner ELSE NoOwner
         /\ Protected(c) => /\ cl[c].owner \in Owner /\ holder = cl[c].owner
                            /\ pttl >= cl[c].budget /\ cl[c].budget > 0
                            /\ cl[c].budget \in Nat
                            /\ Undisturbed(cl[c].owner, cl[c].budget)
<1>1. Shape(cl[c]) /\ cl[c].budget \in Nat /\ Lease(c)
  BY DEF IInv, TypeOK, ClientState, Shapes, Leases
<1>2. cl[c].acquired => cl[c].owner \in Owner
  BY <1>1 DEF Shape, Op
<1> QED
  BY <1>1, <1>2 DEF insideOf, Protected, Lease, Running

(* A step of one client that leaves the key alone enters, leaves, or is no  *)
(* step of the abstract lock.                                               *)
LEMMA ClientAbstract ==
  ASSUME IInv, IInv', NEW c \in Client,
         UNCHANGED <<holder, pttl>>,
         \A d \in Client : d # c => cl'[d] = cl[d],
         Protected(c)' => cl'[c].owner = cl[c].owner
  PROVE  [Abstract!Next]_(Abstract!vars)
<1>1. UNCHANGED leaseOf
  BY DEF leaseOf
<1>2. \A d \in Client : d # c => insideOf'[d] = insideOf[d]
  BY DEF insideOf, Protected
<1>3. insideOf' = [insideOf EXCEPT ![c] = insideOf'[c]]
  BY <1>2 DEF insideOf
<1>4. CASE ~ Protected(c)'
  <2>1. insideOf'[c] = NoOwner
    BY <1>4 DEF insideOf
  <2> QED
    BY <1>1, <1>3, <2>1 DEF Abstract!Next, Abstract!Leave
<1>5. CASE Protected(c) /\ Protected(c)'
  <2>1. insideOf'[c] = insideOf[c]
    BY <1>5 DEF insideOf
  <2>2. UNCHANGED insideOf
    BY <1>2, <2>1 DEF insideOf
  <2> QED
    BY <1>1, <2>2 DEF Abstract!vars
<1>6. CASE ~ Protected(c) /\ Protected(c)'
  <2> DEFINE o == cl'[c].owner
  <2>1. /\ insideOf'[c] = o /\ o \in Owner /\ holder = o
        /\ pttl > 0 /\ pttl \in Nat
    <3>1. cl'[c].owner \in Owner /\ holder' = cl'[c].owner
      BY <1>6 DEF IInv, Leases, Lease, Running, Shapes, Shape, Protected, Op
    <3>2. pttl \in Nat /\ pttl # 0
      BY <3>1, LockConstants DEF IInv, TypeOK, KeyExpires
    <3> QED
      BY <3>1, <3>2, <1>6 DEF insideOf
  <2>2. leaseOf[o] > 0
    BY <2>1 DEF leaseOf
  <2>3. ASSUME NEW d \in Client PROVE insideOf[d] = NoOwner
    <3>1. CASE d = c
      BY <3>1, <1>6 DEF insideOf
    <3>2. CASE d # c
      <4>1. ASSUME Protected(d) PROVE FALSE
        <5>1. holder = cl[d].owner /\ cl'[d].owner = cl[d].owner
          BY <4>1, <3>2, InsideFacts
        <5> QED
          BY <5>1, <3>2, <2>1, LockConstants DEF IInv, OwnersDiffer
      <4> QED
        BY <4>1 DEF insideOf
    <3> QED
      BY <3>1, <3>2
  <2>4. Abstract!Enter(c, o)
    BY <1>1, <1>3, <2>1, <2>2, <2>3 DEF Abstract!Enter
  <2> QED
    BY <2>1, <2>4 DEF Abstract!Next
<1> QED
  BY <1>4, <1>5, <1>6

(* A command the server runs grants, renews or surrenders a lease.          *)
LEMMA ExecAbstract ==
  ASSUME IInv, NEW k \in Conn, Exec(k)
  PROVE  [Abstract!Next]_(Abstract!vars)
<1> DEFINE r == net[k]
<1>1. UNCHANGED insideOf
  <2>1. \A d \in Client : insideOf'[d] = insideOf[d]
    BY ExecClients DEF insideOf, Protected
  <2> QED
    BY <2>1 DEF insideOf
<1>2. /\ r.op \in Op /\ r.owner \in Owner /\ r.ttl \in Nat
      /\ r.op = "setnx" => r.ttl \in TTL
      /\ r.op = "extend" => r.ttl \in ExtendTTL
      /\ NoOwner \notin Owner /\ r.owner # NoOwner
  BY LockConstants DEF Exec, IInv, TypeOK, Request, RequestTimes
<1>3. /\ holder \in Owner \cup {NoOwner} /\ pttl \in Nat
      /\ (holder = NoOwner <=> pttl = 0)
  BY DEF IInv, TypeOK, KeyExpires
<1>4. CASE UNCHANGED <<holder, pttl>>
  BY <1>1, <1>4 DEF Abstract!vars, leaseOf
<1>5. CASE r.op = "setnx" /\ holder = NoOwner
  <2>1. holder' = r.owner /\ pttl' = r.ttl
    BY <1>5 DEF Exec, SetNX
  <2>2. \A p \in Owner : leaseOf[p] = 0
    BY <1>2, <1>5 DEF leaseOf
  <2>3. leaseOf' = [leaseOf EXCEPT ![r.owner] = r.ttl]
    BY <1>2, <1>5, <2>1, <2>2 DEF leaseOf
  <2>4. Abstract!Grant(r.owner, r.ttl)
    BY <1>1, <2>2, <2>3 DEF Abstract!Grant
  <2> QED
    BY <1>2, <1>5, <2>4 DEF Abstract!Next
<1>6. CASE r.op = "extend" /\ holder = r.owner
  <2>1. pttl' = r.ttl /\ holder' = IF r.ttl = 0 THEN NoOwner ELSE holder
    BY <1>6 DEF Exec, ExtendScript
  <2>2. leaseOf[r.owner] > 0
    BY <1>2, <1>3, <1>6 DEF leaseOf
  <2>3. leaseOf' = [leaseOf EXCEPT ![r.owner] = r.ttl]
    BY <1>2, <1>6, <2>1 DEF leaseOf
  <2>4. ASSUME NEW c \in Client, insideOf[c] = r.owner PROVE r.ttl > 0
    BY <2>4, <1>2, <1>6, InsideFacts DEF Undisturbed
  <2>5. Abstract!Renew(r.owner, r.ttl)
    BY <1>1, <2>2, <2>3, <2>4 DEF Abstract!Renew
  <2> QED
    BY <1>2, <1>6, <2>5 DEF Abstract!Next
<1>7. CASE r.op = "release" /\ holder = r.owner
  <2>1. pttl' = 0 /\ holder' = NoOwner
    BY <1>7 DEF Exec, ReleaseScript
  <2>2. leaseOf[r.owner] > 0
    BY <1>2, <1>3, <1>7 DEF leaseOf
  <2>3. leaseOf' = [leaseOf EXCEPT ![r.owner] = 0]
    BY <1>2, <1>7, <2>1 DEF leaseOf
  <2>4. ASSUME NEW c \in Client PROVE insideOf[c] # r.owner
    BY <1>2, <1>7, InsideFacts DEF Undisturbed
  <2>5. Abstract!Surrender(r.owner)
    BY <1>1, <2>2, <2>3, <2>4 DEF Abstract!Surrender
  <2> QED
    BY <1>2, <2>5 DEF Abstract!Next
<1>8. \/ UNCHANGED <<holder, pttl>>
      \/ r.op = "setnx" /\ holder = NoOwner
      \/ r.op \in {"extend", "release"} /\ holder = r.owner
  BY <1>2 DEF Exec, SetNX, ExtendScript, ReleaseScript, Op
<1> QED
  BY <1>4, <1>5, <1>6, <1>7, <1>8

(* Time takes one unit from the lease, and from everybody inside on it.     *)
LEMMA TickAbstract == ASSUME IInv, IInv', Tick PROVE Abstract!Tick
<1>1. /\ pttl' = Pass(pttl)
      /\ holder' = IF pttl = 1 THEN NoOwner ELSE holder
  BY DEF Tick
<1>2. /\ pttl \in Nat /\ (holder = NoOwner <=> pttl = 0)
      /\ NoOwner \notin Owner
  BY LockConstants DEF IInv, TypeOK, KeyExpires
<1>3. leaseOf' = [o \in Owner |->
                    IF leaseOf[o] > 0 THEN leaseOf[o] - 1 ELSE 0]
  BY <1>1, <1>2 DEF leaseOf, Pass
<1>4. ASSUME NEW c \in Client
      PROVE  /\ insideOf'[c] \in Owner \cup {NoOwner}
             /\ insideOf'[c] \in {insideOf[c], NoOwner}
             /\ insideOf'[c] # NoOwner => leaseOf'[insideOf'[c]] > 0
  <2>1. CASE ~ Protected(c)'
    BY <2>1 DEF insideOf
  <2>2. CASE Protected(c)'
    <3>1. cl[c] \in ClientState /\ cl[c].budget \in Nat
      BY DEF IInv, TypeOK, ClientState
    <3>2. /\ cl'[c].owner = cl[c].owner
          /\ (cl'[c].acquired <=> cl[c].acquired)
          /\ (cl'[c].exposed <=> cl[c].exposed)
          /\ cl'[c].budget = Pass(cl[c].budget)
      BY <3>1 DEF Tick, ClientState
    <3>3. Protected(c)
      BY <2>2, <3>1, <3>2 DEF Protected, Pass
    <3>4. insideOf'[c] = cl[c].owner /\ insideOf[c] = cl[c].owner
      BY <2>2, <3>2, <3>3 DEF insideOf
    <3>5. cl[c].owner \in Owner /\ holder' = cl[c].owner /\ pttl' > 0
      <4>1. cl'[c].owner \in Owner /\ holder' = cl'[c].owner
        BY <2>2 DEF IInv, Leases, Lease, Running, Shapes, Shape, Protected, Op
      <4>2. pttl' \in Nat /\ pttl' # 0
        BY <4>1, LockConstants DEF IInv, TypeOK, KeyExpires
      <4> QED
        BY <4>1, <4>2, <3>2
    <3> QED
      BY <3>4, <3>5 DEF leaseOf
  <2> QED
    BY <2>1, <2>2
<1>5. insideOf' \in [Client -> Owner \cup {NoOwner}]
  BY <1>4 DEF insideOf
<1> QED
  BY <1>3, <1>4, <1>5 DEF Abstract!Tick

(* A client changes its token only when it has no Lock afterwards.          *)
OwnStep(c) ==
  /\ UNCHANGED <<holder, pttl>>
  /\ \A d \in Client : d # c => cl'[d] = cl[d]
  /\ \/ cl'[c].owner = cl[c].owner
     \/ cl'[c].pc \in {"idle", "sleep", "setnx"}

(* What a client does by itself leaves the key and the other clients alone, *)
(* and changes its token only where it is not relied upon.                  *)
LEMMA ClientSteps ==
  ASSUME IInv, NEW c \in Client,
         Return(c) \/ Use(c) \/ Resend(c) \/ Crash(c)
  PROVE  OwnStep(c)
<1>1. cl[c] \in ClientState /\ DOMAIN cl = Client
  BY DEF IInv, TypeOK
<1>2. ASSUME NEW s, UNCHANGED <<holder, pttl>>, cl' = [cl EXCEPT ![c] = s],
             s.owner = cl[c].owner \/ s.pc \in {"idle", "sleep", "setnx"}
      PROVE  OwnStep(c)
  BY <1>1, <1>2 DEF OwnStep
<1>3. /\ \A p : Answered(cl[c], p).owner = cl[c].owner
      /\ \A a, b, x : Leased(cl[c], a, b, x).owner = cl[c].owner
      /\ NotStarted.pc = "idle"
  BY <1>1 DEF Answered, Leased, NotStarted, ClientState
<1>a. ASSUME UNCHANGED <<holder, pttl>>, cl' = [cl EXCEPT ![c] = NotStarted]
      PROVE  OwnStep(c)
  <2>1. cl'[c] = NotStarted /\ \A d \in Client : d # c => cl'[d] = cl[d]
    BY <1>1, <1>a
  <2> QED
    BY <1>3, <1>a, <2>1 DEF OwnStep
<1>b. ASSUME UNCHANGED <<holder, pttl>>,
             cl' = [cl EXCEPT ![c] = Answered(cl[c], "held")]
      PROVE  OwnStep(c)
  BY <1>2, <1>3, <1>b
<1>c. ASSUME UNCHANGED <<holder, pttl>>,
             NEW a, NEW b, NEW x,
             cl' = [cl EXCEPT ![c] = Leased(cl[c], a, b, x)]
      PROVE  OwnStep(c)
  BY <1>2, <1>3, <1>c
<1>4. CASE SetNXOk(c)
  BY <1>4, <1>c DEF SetNXOk
<1>5. CASE SetNXTaken(c)
  <2> DEFINE s == [Answered(cl[c], "sleep") EXCEPT !.owner = NoOwner]
  <2>1. s.pc = "sleep"
    BY <1>1 DEF Answered, ClientState
  <2> QED
    BY <1>2, <1>a, <1>5, <2>1 DEF SetNXTaken
<1>6. CASE ExtendAnswered(c)
  BY <1>6, <1>c DEF ExtendAnswered, Dropped
<1>7. CASE VerifyAnswered(c) \/ ReleaseAnswered(c) \/ Fail(c)
  BY <1>a, <1>b, <1>c, <1>7
     DEF VerifyAnswered, ReleaseAnswered, Fail, Dropped
<1>8. CASE GiveUp(c) \/ Crash(c)
  BY <1>a, <1>8 DEF GiveUp, Crash
<1>9. ASSUME NEW s \in ClientState, NEW t, AcquireWithTTL(c, s, t)
      PROVE  OwnStep(c)
  <2> DEFINE s1 == [s EXCEPT !.owner = generateOwner]
             s2 == Sent(s1, "setnx", getConn, t, FALSE)
  <2>1. s2.pc = "setnx"
    BY <1>1 DEF Sent, ClientState
  <2> QED
    BY <1>2, <1>9, <2>1 DEF AcquireWithTTL
<1>10. CASE Start(c)
  <2>1. PICK m \in Mode, t \in TTL :
      AcquireWithTTL(c, [NotStarted EXCEPT !.mode = m, !.attempt = 1], t)
    BY <1>10 DEF Start
  <2>2. NotStarted \in ClientState
    BY LockConstants DEF NotStarted, ClientState, Op, Mode
  <2>3. [NotStarted EXCEPT !.mode = m, !.attempt = 1] \in ClientState
    BY <2>2 DEF ClientState
  <2> QED
    BY <1>9, <2>1, <2>3
<1>11. CASE Wake(c)
  <2>1. cl[c].attempt + 1 \in {0, 1} \cup 1..RetryCount
    BY <1>1, <1>11, LockConstants DEF Wake, ClientState
  <2>2. [cl[c] EXCEPT !.attempt = @ + 1] \in ClientState
    BY <1>1, <2>1 DEF ClientState
  <2> QED
    BY <1>9, <1>11, <2>2 DEF Wake
<1>12. ASSUME NEW op, NEW t, NEW b, NEW x, CallOnHandle(c, op, t, b, x)
       PROVE  OwnStep(c)
  <2> DEFINE s == [Sent(cl[c], op, getConn, t, x) EXCEPT !.budget = b]
  <2>1. s.owner = cl[c].owner
    BY <1>1 DEF Sent, ClientState
  <2> QED
    BY <1>2, <1>12, <2>1 DEF CallOnHandle
<1>13. CASE Extend(c) \/ Verify(c) \/ Release(c)
  BY <1>12, <1>13 DEF Extend, Verify, Release
<1>14. CASE Resend(c)
  <2>1. SentAgain(cl[c], getConn).owner = cl[c].owner
    BY <1>1 DEF SentAgain, ClientState
  <2> QED
    BY <1>2, <1>14, <2>1 DEF Resend
<1> QED
  BY <1>4, <1>5, <1>6, <1>7, <1>8, <1>10, <1>11, <1>13, <1>14
     DEF Return, Use

(* Every step of the lock is one of the abstract mutex, or not visible.     *)
LEMMA NextAbstract ==
  IInv /\ IInv' /\ [Next]_vars => [Abstract!Next]_(Abstract!vars)
<1> SUFFICES ASSUME IInv, IInv', [Next]_vars
             PROVE  [Abstract!Next]_(Abstract!vars)
  OBVIOUS
<1>1. CASE Tick
  BY <1>1, TickAbstract DEF Abstract!Next
<1>2. ASSUME NEW k \in Conn, Exec(k) PROVE [Abstract!Next]_(Abstract!vars)
  BY <1>2, ExecAbstract
<1>3. ASSUME NEW k \in Conn, Lose(k) PROVE [Abstract!Next]_(Abstract!vars)
  BY <1>3 DEF Lose, Abstract!vars, leaseOf, insideOf, Protected
<1>4. ASSUME NEW c \in Client, Return(c) \/ Use(c) \/ Resend(c) \/ Crash(c)
      PROVE  [Abstract!Next]_(Abstract!vars)
  <2>1. Protected(c)' => cl'[c].pc \notin {"idle", "sleep", "setnx"}
    BY DEF IInv, Shapes, Shape, Protected
  <2> QED
    BY <1>4, <2>1, ClientSteps, ClientAbstract DEF OwnStep
<1>5. CASE UNCHANGED vars
  BY <1>5 DEF vars, Abstract!vars, leaseOf, insideOf, Protected
<1> QED
  BY <1>1, <1>2, <1>3, <1>4, <1>5 DEF Next

(* The lock of lock.go implements the leased mutex.                         *)
THEOREM LockImplementsLeasedMutex == Spec => ImplementsLeasedMutex
  BY InitIInv, NextIInv, InitAbstract, NextAbstract, PTL
  DEF Spec, ImplementsLeasedMutex, Abstract!Spec
=============================================================================
