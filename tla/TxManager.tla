----------------------------- MODULE TxManager -----------------------------
(***************************************************************************)
(* WithTx of postgres/txmanager.go over postgres/tx.go and the connection  *)
(* pool of module Pool.                                                    *)
(*                                                                         *)
(* Goroutines (callers) call WithTx with a function fn that may do what a  *)
(* function can: run statements that succeed or fail, set and leave        *)
(* savepoints, call WithTx again, return nil or an error, or panic.  A     *)
(* nested WithTx whose context holds the transaction runs fn on it; with   *)
(* any other context it is a call of its own, with its own transaction and *)
(* connection, while the outer one waits: calls form a stack.              *)
(***************************************************************************)
EXTENDS Pool, PgErrors

CONSTANTS
  Caller,      \* goroutines
  MaxRetries,  \* TxManagerConfig.MaxRetries
  RetryBaseDelay, RetryMaxDelay,
  MaxShift,    \* the attempt from which on the delay no longer doubles: 30
  MaxInt64,    \* the largest time.Duration
  MaxDepth,    \* how deep calls with a transaction of their own nest
  SQLState,    \* the errors statements can fail with; NoState: no answer
  Via,         \* how fn runs statements: subset of {"exec", "queryrow"}
  CommitError, \* how COMMIT can fail: subset of {"conflict", "before", "after"}
  CanCancel    \* contexts given to WithTx can be cancelled or expire

ASSUME TxConstants ==
  /\ MaxRetries \in Nat
  /\ MaxShift \in Nat \ {0}
  /\ RetryBaseDelay \in Nat \ {0}
  /\ MaxInt64 \in Nat
  /\ \A k \in 0..(MaxShift - 1) :          \* see calculateRetryDelay
       RetryBaseDelay * 2^k \in 1..MaxInt64
  /\ RetryMaxDelay \in Nat \ {0}
  /\ RetryMaxDelay + RetryMaxDelay \div 4 <= MaxInt64
  /\ MaxDepth \in Nat \ {0}
  /\ Via \subseteq {"exec", "queryrow"}
  /\ CommitError \subseteq {"conflict", "before", "after"}
  /\ CanCancel \in BOOLEAN
  /\ (Caller \X (1..MaxDepth)) \cap User = {}

VARIABLES
  depth,    \* depth[c]: number of calls of c on the stack
  frame,    \* frame[c][l]: the state of its call at level l
  commits,  \* commits[c][l]: how often the work of that call was committed
  result    \* result[c][l]: what the last call at that level ended with

txvars == <<depth, frame, commits, result>>

vars == <<depth, frame, commits, result, pool, held, user>>

-----------------------------------------------------------------------------

Level == 1..MaxDepth

(* Errors that hold no *Error: one of fn's own, or what Row.Scan returned,  *)
(* which may be a conflict.                                                 *)
Foreign == {"own", "raw", "raw_conflict"}

Err == Code \cup Foreign

Result == Err \cup {"nil", "panic"}

Frame ==
  [pc      : {"off", "begin", "fn", "rollback", "commit", "backoff"},
   attempt : 0..MaxRetries,
   tx      : {"none", "open", "aborted"},   \* at the server
   savept  : BOOLEAN,                       \* tx.Begin, not yet ended
   joined  : BOOLEAN,                       \* in a nested WithTx on this tx
   delay   : -(MaxInt64 + 1)..MaxInt64,     \* before the next attempt
   err     : Result]                        \* the last error fn has met

Off ==
  [pc |-> "off", attempt |-> 0, tx |-> "none", savept |-> FALSE,
   joined |-> FALSE, delay |-> 0, err |-> "nil"]

Entered == [Off EXCEPT !.pc = "begin"]

Init ==
  /\ PoolInit
  /\ depth = [c \in Caller |-> 0]
  /\ frame = [c \in Caller |-> [l \in Level |-> Off]]
  /\ commits = [c \in Caller |-> [l \in Level |-> 0]]
  /\ result = [c \in Caller |-> [l \in Level |-> "none"]]

(* The call in progress.                                                    *)
top(c) == frame[c][depth[c]]

In(c, p) == depth[c] > 0 /\ top(c).pc = p

Goto(c, f) ==
  /\ frame' = [frame EXCEPT ![c][depth[c]] = f]
  /\ UNCHANGED <<depth, commits, result, pool, user>>

(* The call in progress holds a connection from BeginTx to Commit or        *)
(* Rollback.                                                                *)
conn(c) == <<c, depth[c]>>

-----------------------------------------------------------------------------
(* WithTxOptions: a context without a transaction starts executeWithRetry.  *)

Push(c) ==
  /\ depth' = [depth EXCEPT ![c] = @ + 1]
  /\ frame' = [frame EXCEPT ![c][depth[c] + 1] = Entered]
  /\ commits' = [commits EXCEPT ![c][depth[c] + 1] = 0]
  /\ result' = [result EXCEPT ![c][depth[c] + 1] = "none"]
  /\ UNCHANGED poolvars

WithTx(c) ==
  /\ depth[c] = 0 /\ pool.phase # "none"
  /\ Push(c)

(* fn calls WithTx with a context that does not hold the transaction.       *)
WithTxNested(c) ==
  /\ In(c, "fn")
  /\ depth[c] < MaxDepth
  /\ Push(c)

FaultyPop(c, r, n) ==                    \* a panic passes without rollback
  LET l == depth[c] IN
  /\ depth' = [depth EXCEPT ![c] = l - 1]
  /\ frame' = [frame EXCEPT ![c][l] = Off]
  /\ commits' = [commits EXCEPT ![c][l] = @ + n]
  /\ result' = [result EXCEPT ![c][l] = r]
  /\ held' = IF r = "panic" THEN held ELSE held \ {conn(c)}
  /\ UNCHANGED <<pool, user>>

(* The call ends with r after its work was committed n more times.  A       *)
(* panic goes on through the caller's fn, an error is handed to it.         *)
Pop(c, r, n) ==
  LET l == depth[c] IN
  /\ depth' = [depth EXCEPT ![c] = l - 1]
  /\ frame' = [frame EXCEPT ![c] =
       [k \in Level |->
          CASE k = l -> Off
            [] k = l - 1 /\ r = "panic" ->
                 [@[k] EXCEPT !.pc = "rollback", !.err = "panic"]
            [] k = l - 1 /\ r \notin {"nil", "panic"} ->
                 [@[k] EXCEPT !.err = r]
            [] OTHER -> @[k]]]
  /\ commits' = [commits EXCEPT ![c][l] = @ + n]
  /\ result' = [result EXCEPT ![c][l] = r]
  /\ held' = held \ {conn(c)}
  /\ UNCHANGED <<pool, user>>

(* time.Duration arithmetic: products wrap around, quotients are truncated. *)
Int64(n) == ((n + MaxInt64 + 1) % (2 * (MaxInt64 + 1))) - (MaxInt64 + 1)

Quot(a, b) == IF a >= 0 THEN a \div b ELSE - ((- a) \div b)

FaultyBounded(attempt) == attempt                    \* it is left as it is

Bounded(attempt) ==
  IF attempt < 1 THEN 1 ELSE IF attempt > MaxShift THEN MaxShift ELSE attempt

(* The delay without jitter: RetryBaseDelay * 2^(attempt-1), at most        *)
(* RetryMaxDelay.                                                           *)
Backoff(attempt) ==
  LET delay == Int64(RetryBaseDelay * 2^(Bounded(attempt) - 1))
  IN IF delay > RetryMaxDelay THEN RetryMaxDelay ELSE delay

Jitter(delay) == IF Quot(delay, 2) > 0 THEN 0..(Quot(delay, 2) - 1) ELSE {0}

(* The delays that rand.Int64N can bring about.                             *)
calculateRetryDelay(attempt) ==
  LET delay == Backoff(attempt)
  IN {delay - Quot(delay, 4) + j : j \in Jitter(delay)}

FaultyRetryBound(c, e, n) ==             \* one attempt too many
  IF isRetryable(e) /\ top(c).attempt <= MaxRetries
  THEN /\ frame' = [frame EXCEPT ![c][depth[c]] =
                      [Off EXCEPT !.pc = "backoff", !.delay = 1,
                                  !.attempt = top(c).attempt]]
       /\ held' = held \ {conn(c)}
       /\ UNCHANGED <<depth, commits, result, pool, user>>
  ELSE Pop(c, e, n)

FaultyRetryLeaks(c, e, n) ==             \* retries without the rollback
  IF isRetryable(e) /\ top(c).attempt < MaxRetries
  THEN Goto(c, [top(c) EXCEPT !.pc = "backoff"]) /\ UNCHANGED held
  ELSE Pop(c, e, n)

(* executeWithRetry after an attempt that failed with e.                    *)
Retry(c, e, n) ==
  \/ /\ isRetryable(e) /\ top(c).attempt < MaxRetries
     /\ \E d \in calculateRetryDelay(top(c).attempt + 1) :
          frame' = [frame EXCEPT ![c][depth[c]] =
                      [Off EXCEPT !.pc = "backoff", !.delay = d,
                                  !.attempt = top(c).attempt]]
     /\ commits' = [commits EXCEPT ![c][depth[c]] = @ + n]
     /\ held' = held \ {conn(c)}
     /\ UNCHANGED <<depth, result, pool, user>>
  \/ /\ isRetryable(e) /\ top(c).attempt = MaxRetries
     /\ Pop(c, "serialization", n)
  \/ /\ ~ isRetryable(e)
     /\ Pop(c, e, n)

FaultyBackoffEnds(c) ==                  \* the attempt is not counted
  /\ In(c, "backoff")
  /\ Goto(c, [top(c) EXCEPT !.pc = "begin", !.delay = 0])
  /\ UNCHANGED held

BackoffEnds(c) ==
  /\ In(c, "backoff")
  /\ Goto(c, [top(c) EXCEPT !.pc = "begin", !.delay = 0, !.attempt = @ + 1])
  /\ UNCHANGED held

BackoffCancelled(c) ==
  /\ In(c, "backoff")
  /\ CanCancel
  /\ Pop(c, "timeout", 0)

-----------------------------------------------------------------------------
(* executeTx.                                                              *)

BeginTx(c) ==
  /\ In(c, "begin")
  /\ CanAcquire
  /\ Goto(c, [top(c) EXCEPT !.pc = "fn", !.tx = "open"])
  /\ held' = held \cup {conn(c)}

(* No connection within the context's time, a closed pool, or BEGIN itself  *)
(* failed.                                                                  *)
BeginTxFails(c) ==
  /\ In(c, "begin")
  /\ CanCancel \/ ConnFree
  /\ Retry(c, "connection", 0)

FnReturns(c) ==
  /\ In(c, "fn") /\ ~ top(c).joined
  /\ UNCHANGED held
  /\ \/ Goto(c, [top(c) EXCEPT !.pc = "commit"])
     \/ \E e \in {"own", top(c).err} \ {"nil"} :
          Goto(c, [top(c) EXCEPT !.pc = "rollback", !.err = e])

FnPanics(c) ==
  /\ In(c, "fn")
  /\ UNCHANGED held
  /\ Goto(c, [top(c) EXCEPT !.pc = "rollback", !.err = "panic"])

(* The deferred rollback re-panics; after an error the loop goes on.  If    *)
(* ROLLBACK fails the connection is closed, which ends the transaction too. *)
Rollback(c) ==
  /\ In(c, "rollback")
  /\ IF top(c).err = "panic" THEN Pop(c, "panic", 0)
                             ELSE Retry(c, top(c).err, 0)

CommitSucceeds(c) ==
  /\ In(c, "commit") /\ top(c).tx = "open"
  /\ Pop(c, "nil", 1)

(* Tx.Commit wraps whatever went wrong as a connection error: a conflict    *)
(* found at COMMIT, a connection lost before or after the commit took       *)
(* effect, or the server's ROLLBACK of an aborted transaction.              *)
FaultyCommitFails(c) ==        \* Commit error mapped like a statement's
  /\ In(c, "commit")
  /\ \/ top(c).tx = "aborted" /\ Retry(c, "connection", 0)
     \/ top(c).tx = "open" /\ \E h \in CommitError :
          Retry(c, "serialization", IF h = "after" THEN 1 ELSE 0)

CommitFails(c) ==
  /\ In(c, "commit")
  /\ \/ top(c).tx = "aborted" /\ Retry(c, "connection", 0)
     \/ top(c).tx = "open" /\ \E h \in CommitError :
          Retry(c, "connection", IF h = "after" THEN 1 ELSE 0)

-----------------------------------------------------------------------------
(* What fn does with its Tx.                                               *)

(* Exec and Query convert the error, Row.Scan returns it as it is.          *)
StatementError(s, v) ==
  CASE v = "exec" -> FromPgError(s)
    [] v = "queryrow" /\ isRetryable(FromPgError(s)) -> "raw_conflict"
    [] OTHER -> "raw"

(* In an aborted transaction every statement fails with 25P02.              *)
StatementFails(c) ==
  /\ In(c, "fn")
  /\ UNCHANGED held
  /\ \E s \in SQLState, v \in Via :
       LET state == IF top(c).tx = "aborted" THEN InFailedTransaction ELSE s
       IN Goto(c, [top(c) EXCEPT !.tx = "aborted",
                                 !.err = StatementError(state, v)])

(* tx.Begin on a Tx is SAVEPOINT.                                           *)
Savepoint(c) ==
  /\ In(c, "fn") /\ top(c).tx = "open" /\ ~ top(c).savept
  /\ UNCHANGED held
  /\ Goto(c, [top(c) EXCEPT !.savept = TRUE])

(* Commit of the nested Tx: RELEASE SAVEPOINT.                              *)
SavepointCommit(c) ==
  /\ In(c, "fn") /\ top(c).tx = "open" /\ top(c).savept
  /\ UNCHANGED held
  /\ Goto(c, [top(c) EXCEPT !.savept = FALSE])

(* Rollback of the nested Tx: ROLLBACK TO SAVEPOINT revives the outer one.  *)
SavepointRollback(c) ==
  /\ In(c, "fn") /\ top(c).savept
  /\ UNCHANGED held
  /\ Goto(c, [top(c) EXCEPT !.savept = FALSE, !.tx = "open"])

(* WithTx with a context that holds the transaction: return fn(existingTx). *)
JoinTx(c) ==
  /\ In(c, "fn") /\ ~ top(c).joined
  /\ UNCHANGED held
  /\ Goto(c, [top(c) EXCEPT !.joined = TRUE])

JoinedReturns(c) ==
  /\ In(c, "fn") /\ top(c).joined
  /\ UNCHANGED held
  /\ \E e \in {"nil", "own", top(c).err} :
       Goto(c, [top(c) EXCEPT !.joined = FALSE,
                              !.err = IF e = "nil" THEN @ ELSE e])

-----------------------------------------------------------------------------

Manager(c) ==
  \/ BeginTx(c) \/ BeginTxFails(c) \/ Rollback(c)
  \/ CommitSucceeds(c) \/ CommitFails(c)
  \/ BackoffEnds(c) \/ BackoffCancelled(c)

Returns(c) == FnReturns(c) \/ JoinedReturns(c)

Uses(c) ==
  \/ WithTx(c) \/ WithTxNested(c) \/ FnPanics(c) \/ StatementFails(c)
  \/ Savepoint(c) \/ SavepointCommit(c) \/ SavepointRollback(c) \/ JoinTx(c)

Next ==
  \/ \E c \in Caller : Manager(c) \/ Returns(c) \/ Uses(c)
  \/ PoolNext /\ UNCHANGED txvars

Spec == Init /\ [][Next]_vars

(* The manager goes on, every fn returns and users give back what they      *)
(* acquired.  pgxpool serves waiters in the order they came, so a BeginTx   *)
(* for which connections become free again and again gets one.              *)
Fairness ==
  /\ \A c \in Caller :
       /\ WF_vars(Manager(c)) /\ SF_vars(BeginTx(c))
       /\ SF_vars(FnReturns(c)) /\ WF_vars(Returns(c))
  /\ \A u \in User : WF_vars(Release(u) /\ UNCHANGED txvars)
  /\ WF_vars(CloseReturns /\ UNCHANGED txvars)

FairSpec == Spec /\ Fairness

-----------------------------------------------------------------------------
(* Properties.                                                             *)

TypeOK ==
  /\ PoolTypeOK
  /\ held \subseteq User \cup (Caller \X Level)
  /\ depth \in [Caller -> 0..MaxDepth]
  /\ frame \in [Caller -> [Level -> Frame]]
  /\ commits \in [Caller -> [Level -> 0..1]]
  /\ result \in [Caller -> [Level -> Result \cup {"none"}]]

(* The calls of WithTx and what is known of their work.                     *)
running == {x \in Caller \X Level : x[2] <= depth[x[1]]}

applied == [x \in Caller \X Level |-> commits[x[1]][x[2]]]

outcome == [x \in Caller \X Level |-> result[x[1]][x[2]]]

Abstract == INSTANCE AtMostOnce
  WITH Call <- Caller \X Level, Outcome <- Result, Unknown <- {"connection"}

(* The work of fn is committed exactly once if WithTx returns nil and never *)
(* if it panics or returns an error, retries included, except an error of   *)
(* class CodeConnection, which may follow a commit whose reply was lost.    *)
WorkAtMostOnce == Abstract!Spec

(* The pool counts a connection as in use exactly while a user has it or a  *)
(* call is between BeginTx and the end of its transaction: nothing is left  *)
(* checked out, or idle in transaction, once a call has returned, panicked  *)
(* or waits to try again.                                                   *)
NoLeak ==
  /\ \A u \in User : u \in held <=> user[u] \in {"using", "in_tx"}
  /\ \A c \in Caller, l \in Level :
       /\ <<c, l>> \in held
            <=> l <= depth[c] /\ frame[c][l].pc \in {"fn", "rollback", "commit"}
       /\ <<c, l>> \in held <=> frame[c][l].tx # "none"

(* Before it tries again a call waits some time, and not longer than a      *)
(* quarter more than RetryMaxDelay, whatever the number of attempts: the    *)
(* jitter is added after the cap (TestCalculateRetryDelayMaxDelay).         *)
DelayBounded ==
  \A c \in Caller, l \in Level :
    frame[c][l].pc = "backoff" =>
      /\ frame[c][l].delay > 0
      /\ 4 * frame[c][l].delay <= 5 * RetryMaxDelay

(* "Only retry on serialization failures or deadlocks": a call that ends    *)
(* with one of these errors has used all its attempts, also when it was     *)
(* met by a call nested in its fn.                                          *)
ConflictsExhaustRetries ==
  [][\A c \in Caller :
       depth'[c] < depth[c]
         /\ result'[c][depth[c]] \in {"serialization", "deadlock"}
         => top(c).attempt = MaxRetries]_vars

(* Every call of WithTx ends: the retry loop is bounded and the pool serves *)
(* everybody or refuses them once it is closed, while nested calls pass the *)
(* transaction in their context.                                            *)
CallsEnd == \A c \in Caller : depth[c] > 0 ~> depth[c] = 0

(* "It waits for all connections to be returned to the pool": Close returns *)
(* although calls are in the middle of a transaction, panic, or are about   *)
(* to try again when it is called.                                          *)
CloseEnds == pool.phase = "closing" ~> pool.phase = "closed"

(* "Serialization failures and deadlocks are automatically retried": a      *)
(* call does not end with an error after its COMMIT failed on a conflict    *)
(* while it has attempts left.                                              *)
CommitConflictRetried ==
  [][\A c \in Caller :
       /\ CommitFails(c) /\ top(c).attempt < MaxRetries
       /\ top(c).tx = "open" /\ CommitError = {"conflict"}
       => depth'[c] = depth[c]]_vars
=============================================================================
