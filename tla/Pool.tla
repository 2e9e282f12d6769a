-------------------------------- MODULE Pool --------------------------------
(***************************************************************************)
(* The connection pool of postgres/pool.go and the connections of conn.go: *)
(* the configuration it is created with, goroutines that use it without a  *)
(* transaction, and its Close.  pgxpool is external: it hands out at most  *)
(* MaxConns connections, makes callers wait, and once Close was called     *)
(* destroys what comes back and refuses the callers that wait.             *)
(*                                                                         *)
(* TxManager extends this module; its calls are holders like the users.    *)
(***************************************************************************)
EXTENDS Integers, FiniteSets

CONSTANTS
  User,         \* goroutines that use the pool directly
  DbMax,        \* DatabaseConfig.MaxConnections
  PoolOptions,  \* the options given: functions from field to value
  MaxInt32,     \* the largest int32
  MinConns,     \* DefaultPoolConfig().MinConns
  CanClose      \* somebody may close the pool

ASSUME PoolConstants ==
  /\ DbMax \subseteq Int
  /\ \A o \in PoolOptions :
       \A f \in DOMAIN o : o[f] \in -(MaxInt32 + 1)..MaxInt32
  /\ MaxInt32 \in Nat \ {0}
  /\ MinConns \in 0..MaxInt32
  /\ CanClose \in BOOLEAN

VARIABLES
  pool,   \* its phase, and the number of its connections
  held,   \* the holders of a connection
  user    \* user[u]: what u is doing

poolvars == <<pool, held, user>>

-----------------------------------------------------------------------------
(* Configuration.                                                          *)

(* int32(n) keeps the low bits.                                             *)
Int32(n) == ((n + MaxInt32 + 1) % (2 * (MaxInt32 + 1))) - (MaxInt32 + 1)

Clamped(n) ==
  IF n > MaxInt32 THEN MaxInt32 ELSE IF n < 1 THEN 1 ELSE n

FromDatabaseConfig(n, opts) ==
  LET cfg == [MaxConns |-> Int32(Clamped(n)), MinConns |-> MinConns]
  IN [f \in DOMAIN cfg |-> IF f \in DOMAIN opts THEN opts[f] ELSE cfg[f]]

FaultyValidate(cfg) == cfg.MinConns <= cfg.MaxConns

Validate(cfg) ==
  /\ cfg.MaxConns >= 1
  /\ cfg.MinConns >= 0
  /\ cfg.MinConns <= cfg.MaxConns

NoPool == [phase |-> "none", max |-> 0]

PoolInit ==
  /\ pool = NoPool
  /\ held = {}
  /\ user = [u \in User |-> "idle"]

(* A configuration that is not valid is refused and there is no pool.       *)
NewPoolFromConfig ==
  /\ pool = NoPool
  /\ \E n \in DbMax, o \in PoolOptions :
       LET cfg == FromDatabaseConfig(n, o) IN
       /\ Validate(cfg)
       /\ pool' = [phase |-> "open", max |-> cfg.MaxConns]
  /\ UNCHANGED <<held, user>>

-----------------------------------------------------------------------------
(* Connections.                                                            *)

ConnFree == Cardinality(held) < pool.max

CanAcquire == pool.phase = "open" /\ ConnFree

(* Acquire, Exec, Query, QueryRow and Ping.                                 *)
Acquire(u) ==
  /\ user[u] = "idle" /\ pool.phase # "none"
  /\ user' = [user EXCEPT ![u] = "waiting"]
  /\ UNCHANGED <<pool, held>>

Acquired(u) ==
  /\ user[u] = "waiting" /\ CanAcquire
  /\ user' = [user EXCEPT ![u] = "using"]
  /\ held' = held \cup {u}
  /\ UNCHANGED pool

(* The user's context has ended, the pool was closed, or the server could   *)
(* not be reached.                                                          *)
AcquireFails(u) ==
  /\ user[u] = "waiting"
  /\ user' = [user EXCEPT ![u] = "idle"]
  /\ UNCHANGED <<pool, held>>

(* A transaction that does not go through the TxManager: Begin and BeginTx  *)
(* of the connection or of the pool, ended by Commit or Rollback.           *)
Begin(u) ==
  /\ user[u] = "using"
  /\ user' = [user EXCEPT ![u] = "in_tx"]
  /\ UNCHANGED <<pool, held>>

End(u) ==
  /\ user[u] = "in_tx"
  /\ user' = [user EXCEPT ![u] = "using"]
  /\ UNCHANGED <<pool, held>>

(* Conn.Release, Rows.Close or Row.Scan, or the end of Exec and Ping.  The  *)
(* pool closes a connection that comes back in a transaction.               *)
Release(u) ==
  /\ user[u] \in {"using", "in_tx"}
  /\ user' = [user EXCEPT ![u] = "idle"]
  /\ held' = held \ {u}
  /\ UNCHANGED pool

(* Close returns when all connections have come back.                       *)
Close ==
  /\ CanClose /\ pool.phase = "open"
  /\ pool' = [pool EXCEPT !.phase = "closing"]
  /\ UNCHANGED <<held, user>>

CloseReturns ==
  /\ pool.phase = "closing" /\ held = {}
  /\ pool' = [pool EXCEPT !.phase = "closed"]
  /\ UNCHANGED <<held, user>>

PoolNext ==
  \/ NewPoolFromConfig \/ Close \/ CloseReturns
  \/ \E u \in User :
       \/ Acquire(u) \/ Acquired(u) \/ AcquireFails(u)
       \/ Begin(u) \/ End(u) \/ Release(u)

PoolTypeOK ==
  /\ pool \in [phase : {"none", "open", "closing", "closed"}, max : 0..MaxInt32]
  /\ user \in [User -> {"idle", "waiting", "using", "in_tx"}]
=============================================================================
