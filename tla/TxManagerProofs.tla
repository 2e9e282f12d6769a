-------------------------- MODULE TxManagerProofs --------------------------
(***************************************************************************)
(* Proofs about TxManager, for any number of callers, users, retries and   *)
(* nested calls.  Every step of a call enters a nested call, ends the call *)
(* in progress or stays in it; what the theorems need to know of the       *)
(* manager's many actions is what these three kinds of step do.            *)
(***************************************************************************)
EXTENDS TxManager, TLAPS

-----------------------------------------------------------------------------
(* The inductive invariant.                                                *)

Holding == {"fn", "rollback", "commit"}

(* What a call in progress looks like: it has a transaction from BeginTx on *)
(* until it ends or waits; it waits only with an attempt left and for a     *)
(* bounded time; and it rolls back because of an error or a panic.          *)
Sound(f) ==
  /\ f.pc # "off"
  /\ f.pc \in Holding <=> f.tx # "none"
  /\ f.pc = "backoff" =>
       /\ f.attempt < MaxRetries
       /\ f.delay > 0 /\ 4 * f.delay <= 5 * RetryMaxDelay
  /\ f.pc = "rollback" => f.err # "nil"

(* The calls of a goroutine are a stack: all but the last are in their fn.  *)
Stack ==
  \A c \in Caller : \A l \in Level :
    /\ l > depth[c] => frame[c][l] = Off
    /\ l <= depth[c] => Sound(frame[c][l])
    /\ l < depth[c] => frame[c][l].pc = "fn"

(* A call that runs has not committed anything.                             *)
Uncommitted ==
  \A c \in Caller : \A l \in Level : l <= depth[c] => commits[c][l] = 0

(* A connection is in use while its holder says so.                         *)
Balanced ==
  /\ \A u \in User : u \in held <=> user[u] \in {"using", "in_tx"}
  /\ \A c \in Caller : \A l \in Level :
       <<c, l>> \in held <=> frame[c][l].pc \in Holding

IInv == TypeOK /\ Stack /\ Uncommitted /\ Balanced

-----------------------------------------------------------------------------
(* The three kinds of step.                                                *)

Stays(c) ==
  \E f \in Frame :
    /\ Sound(f)
    /\ frame' = [frame EXCEPT ![c][depth[c]] = f]
    /\ held' = IF f.pc \in Holding THEN held \cup {conn(c)}
                                   ELSE held \ {conn(c)}
    /\ UNCHANGED <<depth, commits, result, pool, user>>

Ends(c) ==
  \E r \in Result, n \in {0, 1} :
    /\ Pop(c, r, n)
    /\ r = "nil" => n = 1
    /\ r \notin {"nil", "connection"} => n = 0
    /\ isRetryable(r) => top(c).attempt = MaxRetries

Enters(c) ==
  /\ depth[c] < MaxDepth
  /\ depth[c] > 0 => top(c).pc = "fn"
  /\ Push(c)

-----------------------------------------------------------------------------
(* Lemmas about the state of calls.                                        *)

(* One entry of a table with a row for each caller is replaced.             *)
LEMMA EntryReplaced ==
  ASSUME NEW S, NEW g \in [Caller -> [Level -> S]],
         NEW c \in Caller, NEW l \in Level, NEW v \in S
  PROVE  /\ [g EXCEPT ![c][l] = v] \in [Caller -> [Level -> S]]
         /\ \A q \in Caller : \A k \in Level :
              [g EXCEPT ![c][l] = v][q][k] =
                IF q = c /\ k = l THEN v ELSE g[q][k]
  OBVIOUS

(* The frames that Init and Push put in place.                              *)
LEMMA FreshFrames == Off \in Frame /\ Entered \in Frame /\ Sound(Entered)
<1>1. Off \in Frame
  BY TxConstants DEF Off, Frame, Result, Err
<1>2. Entered \in Frame
  BY <1>1 DEF Entered, Frame
<1> QED
  BY <1>1, <1>2 DEF Entered, Off, Sound, Holding

(* The call in progress has a level and a sound frame.                      *)
LEMMA TopTypes ==
  ASSUME IInv, NEW c \in Caller, depth[c] > 0
  PROVE  depth[c] \in Level /\ top(c) \in Frame /\ Sound(top(c))
<1>1. depth[c] \in Level
  BY TxConstants DEF IInv, TypeOK, Level
<1> QED
  BY <1>1 DEF IInv, TypeOK, Stack, top

-----------------------------------------------------------------------------
(* The delay before the next attempt.                                      *)

(* A conversion that has nothing to cut off.                                *)
LEMMA SmallModulus ==
  ASSUME NEW a \in Nat, NEW b \in Nat, a < b PROVE a % b = a
  OBVIOUS

(* Within the bounds of time.Duration nothing wraps around.                 *)
LEMMA Int64Exact ==
  ASSUME NEW n \in 1..MaxInt64 PROVE Int64(n) = n
<1>1. n + MaxInt64 + 1 \in Nat /\ 2 * (MaxInt64 + 1) \in Nat
  BY TxConstants
<1>2. n + MaxInt64 + 1 < 2 * (MaxInt64 + 1)
  BY TxConstants
<1>3. (n + MaxInt64 + 1) % (2 * (MaxInt64 + 1)) = n + MaxInt64 + 1
  BY <1>1, <1>2, SmallModulus
<1> QED
  BY <1>3, TxConstants DEF Int64

(* The delay without jitter is positive and bounded for every attempt: the  *)
(* attempt is bounded before it becomes an exponent.                        *)
LEMMA BackoffTypes ==
  ASSUME NEW a \in Nat PROVE Backoff(a) \in 1..RetryMaxDelay
<1> DEFINE k == Bounded(a) - 1
<1>1. k \in 0..(MaxShift - 1)
  BY TxConstants DEF Bounded
<1>2. RetryBaseDelay * 2^k \in 1..MaxInt64
  BY <1>1, TxConstants, Zenon
<1> DEFINE delay == RetryBaseDelay * 2^k
<1>3. Backoff(a) = IF Int64(delay) > RetryMaxDelay THEN RetryMaxDelay
                   ELSE Int64(delay)
  BY Zenon DEF Backoff
<1>4. delay \in 1..MaxInt64
  BY <1>2
<1> HIDE DEF delay, k
<1>5. Int64(delay) = delay
  BY <1>4, Int64Exact
<1> QED
  BY <1>3, <1>4, <1>5, TxConstants

(* Jitter takes away a quarter and adds less than a half.                   *)
LEMMA DelayTypes ==
  ASSUME NEW a \in Nat, NEW d \in calculateRetryDelay(a)
  PROVE  d \in 1..MaxInt64 /\ 4 * d <= 5 * RetryMaxDelay
<1> DEFINE D == Backoff(a)
<1>1. D \in 1..RetryMaxDelay
  BY BackoffTypes
<1>2. PICK j \in Jitter(D) : d = D - Quot(D, 4) + j
  BY DEF calculateRetryDelay
<1> HIDE DEF D
<1>3. Quot(D, 4) = D \div 4 /\ Quot(D, 2) = D \div 2
  BY <1>1, TxConstants DEF Quot
<1>4. j \in Nat /\ (j = 0 \/ j < D \div 2)
  BY <1>1, <1>3, TxConstants DEF Jitter
<1>5. d = D - (D \div 4) + j
  BY <1>2, <1>3
<1>6. /\ RetryMaxDelay \in Nat /\ MaxInt64 \in Nat
      /\ RetryMaxDelay + RetryMaxDelay \div 4 <= MaxInt64
  BY TxConstants
<1> QED
  BY <1>1, <1>4, <1>5, <1>6

-----------------------------------------------------------------------------
(* Every action of a call is one of the three kinds.                       *)

(* What fn gets from a statement is an error.                               *)
LEMMA StatementErrors ==
  ASSUME NEW s, NEW v PROVE StatementError(s, v) \in Err
<1>1. FromPgError(s) \in Code
  BY DEF FromPgError, mapSQLState, Code
<1> QED
  BY <1>1 DEF StatementError, Err, Foreign

(* executeWithRetry waits with the connection given back, or ends the call: *)
(* with a conflict only after the last attempt, and with committed work     *)
(* only when the error says that the connection was lost.                   *)
LEMMA RetrySteps ==
  ASSUME IInv, NEW c \in Caller, depth[c] > 0, NEW e \in Err,
         NEW n \in {0, 1}, n = 1 => e = "connection", Retry(c, e, n)
  PROVE  Stays(c) \/ Ends(c)
<1>1. depth[c] \in Level /\ top(c) \in Frame
  BY TopTypes
<1>2. CASE ~ isRetryable(e)
  <2>1. Pop(c, e, n)
    BY <1>2 DEF Retry
  <2>2. e \in Result /\ e # "nil"
    BY DEF Result, Err, Code, Foreign
  <2> QED
    BY <1>2, <2>1, <2>2 DEF Ends
<1>3. CASE isRetryable(e) /\ top(c).attempt = MaxRetries
  <2>1. n = 0 /\ ~ (top(c).attempt < MaxRetries)
    BY <1>3, TxConstants DEF isRetryable
  <2>3. Pop(c, "serialization", n)
    BY <1>3, <2>1 DEF Retry
  <2>2. "serialization" \in Result
    BY DEF Result, Err, Code
  <2> QED
    BY <1>3, <2>1, <2>2, <2>3 DEF Ends
<1>4. CASE isRetryable(e) /\ top(c).attempt # MaxRetries
  <2>1. n = 0 /\ top(c).attempt < MaxRetries
    BY <1>1, <1>4, TxConstants DEF isRetryable, Frame
  <2>2. PICK d \in calculateRetryDelay(top(c).attempt + 1) :
          frame' = [frame EXCEPT ![c][depth[c]] =
                      [Off EXCEPT !.pc = "backoff", !.delay = d,
                                  !.attempt = top(c).attempt]]
    BY <1>4, <2>1 DEF Retry
  <2>3. /\ commits' = [commits EXCEPT ![c][depth[c]] = @ + n]
        /\ held' = held \ {conn(c)}
        /\ UNCHANGED <<depth, result, pool, user>>
    BY <1>4, <2>1 DEF Retry
  <2>4. d \in 1..MaxInt64 /\ 4 * d <= 5 * RetryMaxDelay
    BY <1>1, <2>2, DelayTypes DEF Frame
  <2> DEFINE f == [Off EXCEPT !.pc = "backoff", !.delay = d,
                              !.attempt = top(c).attempt]
  <2>5. f \in Frame
    <3>1. d \in -(MaxInt64 + 1)..MaxInt64
      BY <2>4, TxConstants
    <3>2. top(c).attempt \in 0..MaxRetries
      BY <1>1 DEF Frame
    <3> QED
      BY <3>1, <3>2, FreshFrames DEF Frame
  <2>6. Sound(f) /\ f.pc \notin Holding
    BY <1>1, <2>1, <2>4 DEF Sound, Off, Holding, Frame
  <2>7. commits' = commits
    <3>1. /\ commits \in [Caller -> [Level -> 0..1]]
          /\ commits[c][depth[c]] \in 0..1
      BY <1>1 DEF IInv, TypeOK
    <3>2. commits[c][depth[c]] + n = commits[c][depth[c]]
      BY <2>1, <3>1
    <3>3. [commits EXCEPT ![c][depth[c]] = commits[c][depth[c]]] = commits
      BY <1>1, <3>1
    <3> QED
      BY <2>3, <3>2, <3>3
  <2> QED
    BY <2>2, <2>3, <2>5, <2>6, <2>7 DEF Stays
<1> QED
  BY <1>2, <1>3, <1>4

(* What fn and the manager do without leaving the call.                     *)
LEMMA GotoSteps ==
  ASSUME IInv, NEW c \in Caller, depth[c] > 0, NEW f \in Frame, Sound(f),
         Goto(c, f),
         held' = IF f.pc \in Holding THEN held \cup {conn(c)}
                                     ELSE held \ {conn(c)}
  PROVE  Stays(c)
  BY DEF Goto, Stays

(* A step of fn, which leaves the connection where it is.                   *)
LEMMA FnSteps ==
  ASSUME IInv, NEW c \in Caller, In(c, "fn"), NEW f \in Frame, Sound(f),
         f.pc \in Holding, Goto(c, f), UNCHANGED held
  PROVE  Stays(c)
<1>1. depth[c] \in Level
  BY TopTypes DEF In
<1>2. conn(c) \in held
  BY <1>1 DEF IInv, Balanced, conn, In, top, Holding
<1> QED
  BY <1>2, GotoSteps DEF In

(* Every action of a call is of one of the three kinds.                     *)
LEMMA CallSteps ==
  ASSUME IInv, NEW c \in Caller, Manager(c) \/ Returns(c) \/ Uses(c)
  PROVE  Stays(c) \/ Ends(c) \/ Enters(c)
<1> DEFINE t == top(c)
<1>1. ASSUME NEW p, In(c, p)
      PROVE  /\ depth[c] > 0 /\ depth[c] \in Level /\ t.pc = p
             /\ t \in Frame /\ Sound(t)
  BY <1>1, TopTypes DEF In
<1>2. {"nil", "panic", "own", "connection", "timeout"} \subseteq Result
  BY DEF Result, Err, Code, Foreign
<1>3. CASE BeginTx(c)
  <2>1. In(c, "begin") /\ Goto(c, [t EXCEPT !.pc = "fn", !.tx = "open"])
        /\ held' = held \cup {conn(c)}
    BY <1>3 DEF BeginTx
  <2>2. [t EXCEPT !.pc = "fn", !.tx = "open"] \in Frame
    BY <1>1, <2>1 DEF Frame
  <2>3. Sound([t EXCEPT !.pc = "fn", !.tx = "open"])
    BY <1>1, <2>1 DEF Frame, Sound, Holding
  <2>4. [t EXCEPT !.pc = "fn", !.tx = "open"].pc \in Holding
    BY <1>1, <2>1 DEF Frame, Holding
  <2> QED
    BY <1>1, <2>1, <2>2, <2>3, <2>4, GotoSteps
<1>4. CASE BeginTxFails(c)
  <2>1. In(c, "begin") /\ Retry(c, "connection", 0)
    BY <1>4 DEF BeginTxFails
  <2>2. "connection" \in Err
    BY DEF Err, Code
  <2> QED
    BY <1>1, <2>1, <2>2, RetrySteps
<1>5. CASE Rollback(c)
  <2>1. In(c, "rollback") /\ t.err # "nil" /\ t.err \in Result
    BY <1>1, <1>5 DEF Rollback, Sound, Frame
  <2>2. CASE t.err = "panic"
    BY <1>2, <1>5, <2>1, <2>2 DEF Rollback, Ends, isRetryable
  <2>3. CASE t.err # "panic"
    <3>1. t.err \in Err /\ Retry(c, t.err, 0)
      BY <1>5, <2>1, <2>3 DEF Rollback, Result
    <3> QED
      BY <1>1, <2>1, <3>1, RetrySteps
  <2> QED
    BY <2>2, <2>3
<1>6. CASE CommitSucceeds(c)
  BY <1>2, <1>6 DEF CommitSucceeds, Ends, isRetryable
<1>7. CASE CommitFails(c)
  <2>1. In(c, "commit") /\ \E n \in {0, 1} : Retry(c, "connection", n)
    BY <1>7 DEF CommitFails
  <2>2. "connection" \in Err
    BY DEF Err, Code
  <2> QED
    BY <1>1, <2>1, <2>2, RetrySteps
<1>8. CASE BackoffEnds(c)
  <2> DEFINE f == [t EXCEPT !.pc = "begin", !.delay = 0, !.attempt = @ + 1]
  <2>1. In(c, "backoff") /\ Goto(c, f) /\ UNCHANGED held
    BY <1>8 DEF BackoffEnds
  <2>2. t.attempt + 1 \in 0..MaxRetries
    BY <1>1, <2>1, TxConstants DEF Frame, Sound
  <2>3. f \in Frame
    <3>1. 0 \in -(MaxInt64 + 1)..MaxInt64
      BY TxConstants
    <3> QED
      BY <1>1, <2>1, <2>2, <3>1 DEF Frame
  <2>4. Sound(f) /\ f.pc \notin Holding
    BY <1>1, <2>1 DEF Frame, Sound, Holding
  <2>5. conn(c) \notin held
    BY <1>1, <2>1 DEF IInv, Balanced, conn, top, Holding
  <2> HIDE DEF f
  <2> QED
    BY <1>1, <2>1, <2>3, <2>4, <2>5, GotoSteps
<1>9. CASE BackoffCancelled(c)
  BY <1>2, <1>9 DEF BackoffCancelled, Ends, isRetryable
<1>10. CASE FnReturns(c)
  <2>1. In(c, "fn") /\ UNCHANGED held
    BY <1>10 DEF FnReturns
  <2>2. CASE Goto(c, [t EXCEPT !.pc = "commit"])
    <3> DEFINE f == [t EXCEPT !.pc = "commit"]
    <3>1. f \in Frame /\ Sound(f) /\ f.pc \in Holding
      BY <1>1, <2>1 DEF Frame, Sound, Holding
    <3> HIDE DEF f
    <3> QED
      BY <2>1, <2>2, <3>1, FnSteps DEF f
  <2>3. ASSUME NEW e \in {"own", t.err} \ {"nil"},
               Goto(c, [t EXCEPT !.pc = "rollback", !.err = e])
        PROVE  Stays(c)
    <3> DEFINE f == [t EXCEPT !.pc = "rollback", !.err = e]
    <3>1. e \in Result
      BY <1>1, <1>2, <2>1 DEF Frame
    <3>2. f \in Frame /\ Sound(f) /\ f.pc \in Holding
      BY <1>1, <2>1, <3>1 DEF Frame, Sound, Holding
    <3> HIDE DEF f
    <3> QED
      BY <2>1, <2>3, <3>2, FnSteps DEF f
  <2> QED
    BY <1>10, <2>2, <2>3 DEF FnReturns
<1>11. CASE FnPanics(c)
  <2> DEFINE f == [t EXCEPT !.pc = "rollback", !.err = "panic"]
  <2>1. In(c, "fn") /\ UNCHANGED held /\ Goto(c, f)
    BY <1>11 DEF FnPanics
  <2>2. f \in Frame /\ Sound(f) /\ f.pc \in Holding
    BY <1>1, <1>2, <2>1 DEF Frame, Sound, Holding
  <2> HIDE DEF f
  <2> QED
    BY <2>1, <2>2, FnSteps
<1>12. CASE StatementFails(c)
  <2>1. In(c, "fn") /\ UNCHANGED held
    BY <1>12 DEF StatementFails
  <2>2. PICK e \in Err : Goto(c, [t EXCEPT !.tx = "aborted", !.err = e])
    BY <1>12, StatementErrors DEF StatementFails
  <2> DEFINE f == [t EXCEPT !.tx = "aborted", !.err = e]
  <2>3. e \in Result
    BY DEF Result
  <2>4. f \in Frame
    BY <1>1, <2>1, <2>3 DEF Frame
  <2>5. f.pc = "fn" /\ f.tx = "aborted"
    BY <1>1, <2>1 DEF Frame
  <2>6. Sound(f) /\ f.pc \in Holding
    BY <2>5 DEF Sound, Holding
  <2> HIDE DEF f
  <2> QED
    BY <2>1, <2>2, <2>4, <2>6, FnSteps DEF f
<1>13. CASE Savepoint(c)
  <2> DEFINE f == [t EXCEPT !.savept = TRUE]
  <2>1. In(c, "fn") /\ UNCHANGED held /\ Goto(c, f)
    BY <1>13 DEF Savepoint
  <2>2. f \in Frame /\ Sound(f) /\ f.pc \in Holding
    BY <1>1, <2>1 DEF Frame, Sound, Holding
  <2> HIDE DEF f
  <2> QED
    BY <2>1, <2>2, FnSteps
<1>14. CASE SavepointCommit(c)
  <2> DEFINE f == [t EXCEPT !.savept = FALSE]
  <2>1. In(c, "fn") /\ UNCHANGED held /\ Goto(c, f)
    BY <1>14 DEF SavepointCommit
  <2>2. f \in Frame /\ Sound(f) /\ f.pc \in Holding
    BY <1>1, <2>1 DEF Frame, Sound, Holding
  <2> HIDE DEF f
  <2> QED
    BY <2>1, <2>2, FnSteps
<1>15. CASE SavepointRollback(c)
  <2> DEFINE f == [t EXCEPT !.savept = FALSE, !.tx = "open"]
  <2>1. In(c, "fn") /\ UNCHANGED held /\ Goto(c, f)
    BY <1>15 DEF SavepointRollback
  <2>2. f \in Frame /\ Sound(f) /\ f.pc \in Holding
    BY <1>1, <2>1 DEF Frame, Sound, Holding
  <2> HIDE DEF f
  <2> QED
    BY <2>1, <2>2, FnSteps
<1>16. CASE JoinTx(c)
  <2> DEFINE f == [t EXCEPT !.joined = TRUE]
  <2>1. In(c, "fn") /\ UNCHANGED held /\ Goto(c, f)
    BY <1>16 DEF JoinTx
  <2>2. f \in Frame /\ Sound(f) /\ f.pc \in Holding
    BY <1>1, <2>1 DEF Frame, Sound, Holding
  <2> HIDE DEF f
  <2> QED
    BY <2>1, <2>2, FnSteps
<1>17. CASE JoinedReturns(c)
  <2>1. In(c, "fn") /\ UNCHANGED held
    BY <1>17 DEF JoinedReturns
  <2>2. PICK e \in {"nil", "own", t.err} :
          Goto(c, [t EXCEPT !.joined = FALSE,
                            !.err = IF e = "nil" THEN @ ELSE e])
    BY <1>17 DEF JoinedReturns
  <2> DEFINE f == [t EXCEPT !.joined = FALSE,
                            !.err = IF e = "nil" THEN @ ELSE e]
  <2>3. (IF e = "nil" THEN t.err ELSE e) \in Result
    BY <1>1, <1>2, <2>1 DEF Frame
  <2>4. f \in Frame /\ Sound(f) /\ f.pc \in Holding
    BY <1>1, <2>1, <2>3 DEF Frame, Sound, Holding
  <2> HIDE DEF f
  <2> QED
    BY <2>1, <2>2, <2>4, FnSteps DEF f
<1>18. CASE WithTx(c) \/ WithTxNested(c)
  BY <1>18, TxConstants DEF WithTx, WithTxNested, Enters, In
<1> QED
  BY <1>3, <1>4, <1>5, <1>6, <1>7, <1>8, <1>9, <1>10, <1>11, <1>12, <1>13,
     <1>14, <1>15, <1>16, <1>17, <1>18 DEF Manager, Returns, Uses

-----------------------------------------------------------------------------
(* The three kinds of step, and those of the pool, keep the invariant.     *)

(* A step inside a call keeps the invariant.                                *)
LEMMA StaysKeeps ==
  ASSUME IInv, NEW c \in Caller, depth[c] > 0, Stays(c)
  PROVE  IInv'
<1>1. depth[c] \in Level
  BY TopTypes
<1>2. PICK f \in Frame :
        /\ Sound(f)
        /\ frame' = [frame EXCEPT ![c][depth[c]] = f]
        /\ held' = IF f.pc \in Holding THEN held \cup {conn(c)}
                                       ELSE held \ {conn(c)}
        /\ UNCHANGED <<depth, commits, result, pool, user>>
  BY DEF Stays
<1>3. /\ frame' \in [Caller -> [Level -> Frame]]
      /\ \A q \in Caller : \A k \in Level :
           frame'[q][k] = IF q = c /\ k = depth[c] THEN f ELSE frame[q][k]
  BY <1>1, <1>2, EntryReplaced DEF IInv, TypeOK
<1>4. held' \subseteq User \cup (Caller \X Level)
  BY <1>1, <1>2 DEF IInv, TypeOK, conn
<1>5. TypeOK'
  BY <1>2, <1>3, <1>4 DEF IInv, TypeOK, PoolTypeOK
<1>6. Stack'
  BY <1>2, <1>3, <1>1 DEF IInv, TypeOK, Stack, Level
<1>7. Uncommitted'
  BY <1>2 DEF IInv, Uncommitted
<1>8. Balanced'
  <2>1. \A u \in User : u # conn(c)
    BY <1>1, TxConstants DEF conn, Level
  <2>2. \A u \in User : u \in held' <=> user'[u] \in {"using", "in_tx"}
    BY <1>2, <2>1 DEF IInv, Balanced
  <2>3. ASSUME NEW q \in Caller, NEW k \in Level
        PROVE  <<q, k>> \in held' <=> frame'[q][k].pc \in Holding
    BY <1>2, <1>3 DEF IInv, Balanced, conn
  <2> QED
    BY <2>2, <2>3 DEF Balanced
<1> QED
  BY <1>5, <1>6, <1>7, <1>8 DEF IInv

(* The start of a call keeps the invariant.                                 *)
LEMMA EntersKeeps ==
  ASSUME IInv, NEW c \in Caller, Enters(c)
  PROVE  IInv'
<1> DEFINE l == depth[c] + 1
<1>1. l \in Level /\ depth[c] \in 0..MaxDepth
  BY TxConstants DEF IInv, TypeOK, Enters, Level
<1>2. /\ depth' = [depth EXCEPT ![c] = l]
      /\ frame' = [frame EXCEPT ![c][l] = Entered]
      /\ commits' = [commits EXCEPT ![c][l] = 0]
      /\ result' = [result EXCEPT ![c][l] = "none"]
      /\ UNCHANGED <<pool, held, user>>
  BY DEF Enters, Push, poolvars
<1>3. depth' \in [Caller -> 0..MaxDepth]
      /\ \A q \in Caller : depth'[q] = IF q = c THEN l ELSE depth[q]
  BY <1>1, <1>2 DEF IInv, TypeOK, Level
<1> HIDE DEF l
<1>4. /\ frame' \in [Caller -> [Level -> Frame]]
      /\ \A q \in Caller : \A k \in Level :
           frame'[q][k] = IF q = c /\ k = l THEN Entered ELSE frame[q][k]
  BY <1>1, <1>2, EntryReplaced, FreshFrames DEF IInv, TypeOK
<1>5. /\ commits' \in [Caller -> [Level -> 0..1]]
      /\ \A q \in Caller : \A k \in Level :
           commits'[q][k] = IF q = c /\ k = l THEN 0 ELSE commits[q][k]
  BY <1>1, <1>2, EntryReplaced DEF IInv, TypeOK
<1>6. result' \in [Caller -> [Level -> Result \cup {"none"}]]
  BY <1>1, <1>2, EntryReplaced DEF IInv, TypeOK
<1>7. TypeOK'
  BY <1>2, <1>3, <1>4, <1>5, <1>6 DEF IInv, TypeOK, PoolTypeOK
<1>8. Stack'
  BY <1>1, <1>3, <1>4, FreshFrames
  DEF IInv, TypeOK, Stack, Level, Enters, top, l
<1>9. Uncommitted'
  BY <1>1, <1>3, <1>5 DEF IInv, TypeOK, Uncommitted, Level, l
<1>10. Balanced'
  <2>1. frame[c][l] = Off
    BY <1>1 DEF IInv, Stack, Level, l
  <2> QED
    BY <1>2, <1>4, <2>1 DEF IInv, Balanced, Entered, Off, Holding
<1> QED
  BY <1>7, <1>8, <1>9, <1>10 DEF IInv

(* The frame that a call returns or panics to.                              *)
Resumed(f, r) ==
  IF r = "panic" THEN [f EXCEPT !.pc = "rollback", !.err = "panic"]
  ELSE IF r = "nil" THEN f ELSE [f EXCEPT !.err = r]

(* The outer call goes on with a sound frame and its connection.            *)
LEMMA ResumedTypes ==
  ASSUME NEW f \in Frame, Sound(f), f.pc = "fn", NEW r \in Result
  PROVE  /\ Resumed(f, r) \in Frame /\ Sound(Resumed(f, r))
         /\ Resumed(f, r).pc \in Holding
<1>1. "panic" \in Result
  BY DEF Result
<1> QED
  BY <1>1 DEF Resumed, Frame, Sound, Holding

(* The frames after the end of a call.                                      *)
LEMMA PopFrames ==
  ASSUME IInv, NEW c \in Caller, depth[c] > 0, NEW r \in Result, NEW n,
         Pop(c, r, n)
  PROVE  /\ frame' \in [Caller -> [Level -> Frame]]
         /\ \A q \in Caller : \A k \in Level :
              frame'[q][k] = IF q = c /\ k = depth[c] THEN Off
                             ELSE IF q = c /\ k = depth[c] - 1
                             THEN Resumed(frame[q][k], r)
                             ELSE frame[q][k]
<1> DEFINE l == depth[c]
           R(k) == CASE k = l -> Off
                     [] k = l - 1 /\ r = "panic" ->
                          [frame[c][k] EXCEPT !.pc = "rollback",
                                              !.err = "panic"]
                     [] k = l - 1 /\ r \notin {"nil", "panic"} ->
                          [frame[c][k] EXCEPT !.err = r]
                     [] OTHER -> frame[c][k]
<1>1. l \in Level
  BY TopTypes
<1>2. frame' = [frame EXCEPT ![c] = [k \in Level |-> R(k)]]
  BY DEF Pop
<1>3. ASSUME NEW k \in Level
      PROVE  R(k) = IF k = l THEN Off
                    ELSE IF k = l - 1 THEN Resumed(frame[c][k], r)
                    ELSE frame[c][k]
  BY <1>1 DEF Resumed, Level
<1>4. ASSUME NEW k \in Level PROVE R(k) \in Frame
  <2>1. k = l - 1 => Sound(frame[c][k]) /\ frame[c][k].pc = "fn"
    BY <1>1 DEF IInv, Stack, Level
  <2>2. frame[c][k] \in Frame
    BY DEF IInv, TypeOK
  <2>3. k = l - 1 => Resumed(frame[c][k], r) \in Frame
    BY <2>1, <2>2, ResumedTypes
  <2> HIDE DEF R
  <2> QED
    BY <1>3, <2>2, <2>3, FreshFrames
<1> HIDE DEF R, l
<1>5. [k \in Level |-> R(k)] \in [Level -> Frame]
  BY <1>4
<1> QED
  BY <1>2, <1>3, <1>5 DEF IInv, TypeOK, l

(* The end of a call keeps the invariant: the outer call, if any, still     *)
(* holds its own connection and no other.                                   *)
LEMMA EndsKeeps ==
  ASSUME IInv, NEW c \in Caller, depth[c] > 0, Ends(c)
  PROVE  IInv'
<1> DEFINE l == depth[c]
<1>1. l \in Level
  BY TopTypes
<1>2. PICK r \in Result, n \in {0, 1} : Pop(c, r, n)
  BY DEF Ends
<1>3. /\ depth' = [depth EXCEPT ![c] = l - 1]
      /\ commits' = [commits EXCEPT ![c][l] = @ + n]
      /\ result' = [result EXCEPT ![c][l] = r]
      /\ held' = held \ {conn(c)}
      /\ UNCHANGED <<pool, user>>
  BY <1>2 DEF Pop
<1>4. /\ depth' \in [Caller -> 0..MaxDepth]
      /\ \A q \in Caller : depth'[q] = IF q = c THEN l - 1 ELSE depth[q]
  BY <1>1, <1>3, TxConstants DEF IInv, TypeOK, Level
<1>5. /\ frame' \in [Caller -> [Level -> Frame]]
      /\ \A q \in Caller : \A k \in Level :
           frame'[q][k] = IF q = c /\ k = l THEN Off
                          ELSE IF q = c /\ k = l - 1
                          THEN Resumed(frame[q][k], r)
                          ELSE frame[q][k]
  BY <1>2, PopFrames
<1> HIDE DEF l
<1>6. commits[c][l] = 0
  BY <1>1 DEF IInv, Uncommitted, Level, l
<1>7. commits' = [commits EXCEPT ![c][l] = n]
  BY <1>1, <1>3, <1>6 DEF IInv, TypeOK
<1>8. /\ commits' \in [Caller -> [Level -> 0..1]]
      /\ \A q \in Caller : \A k \in Level :
           commits'[q][k] = IF q = c /\ k = l THEN n ELSE commits[q][k]
  BY <1>1, <1>7, EntryReplaced DEF IInv, TypeOK
<1>9. result' \in [Caller -> [Level -> Result \cup {"none"}]]
  BY <1>1, <1>3, EntryReplaced DEF IInv, TypeOK
<1>10. TypeOK'
  BY <1>3, <1>4, <1>5, <1>8, <1>9 DEF IInv, TypeOK, PoolTypeOK
<1>11. ASSUME NEW k \in Level, k = l - 1
       PROVE  /\ frame[c][k].pc = "fn"
              /\ Sound(Resumed(frame[c][k], r))
              /\ Resumed(frame[c][k], r).pc \in Holding
  <2>1. frame[c][k] \in Frame /\ Sound(frame[c][k]) /\ frame[c][k].pc = "fn"
    <3>1. k < depth[c] /\ k <= depth[c]
      BY <1>1, <1>11 DEF Level, l
    <3>2. frame[c][k] \in Frame
      BY DEF IInv, TypeOK
    <3> QED
      BY <3>1, <3>2 DEF IInv, Stack
  <2> QED
    BY <2>1, ResumedTypes
<1>12. Stack'
  <2> SUFFICES ASSUME NEW q \in Caller, NEW k \in Level
               PROVE  /\ k > depth'[q] => frame'[q][k] = Off
                      /\ k <= depth'[q] => Sound(frame'[q][k])
                      /\ k < depth'[q] => frame'[q][k].pc = "fn"
    BY DEF Stack
  <2>1. CASE q # c
    BY <1>4, <1>5, <2>1 DEF IInv, Stack
  <2>2. CASE q = c /\ k >= l
    BY <1>1, <1>4, <1>5, <2>2 DEF IInv, Stack, Level, l
  <2>3. CASE q = c /\ k = l - 1
    BY <1>1, <1>4, <1>5, <1>11, <2>3 DEF Level
  <2>4. CASE q = c /\ k < l - 1
    BY <1>1, <1>4, <1>5, <2>4 DEF IInv, Stack, Level, l
  <2> QED
    BY <1>1, <2>1, <2>2, <2>3, <2>4 DEF Level
<1>13. Uncommitted'
  <2> SUFFICES ASSUME NEW q \in Caller, NEW k \in Level, k <= depth'[q]
               PROVE  commits'[q][k] = 0
    BY DEF Uncommitted
  <2>1. k <= depth[q] /\ ~ (q = c /\ k = l)
    BY <1>1, <1>4 DEF Level, l
  <2> QED
    BY <1>8, <2>1 DEF IInv, Uncommitted
<1>14. Balanced'
  <2>1. \A u \in User : u # conn(c)
    BY <1>1, TxConstants DEF conn, Level, l
  <2>2. \A u \in User : u \in held' <=> user'[u] \in {"using", "in_tx"}
    BY <1>3, <2>1 DEF IInv, Balanced
  <2>3. ASSUME NEW q \in Caller, NEW k \in Level
        PROVE  <<q, k>> \in held' <=> frame'[q][k].pc \in Holding
    <3>1. <<q, k>> \in held' <=> <<q, k>> \in held /\ ~ (q = c /\ k = l)
      BY <1>3 DEF conn, l
    <3>2. <<q, k>> \in held <=> frame[q][k].pc \in Holding
      BY DEF IInv, Balanced
    <3>3. CASE q = c /\ k = l
      BY <1>5, <3>1, <3>3 DEF Off, Holding
    <3>4. CASE q = c /\ k = l - 1 /\ k # l
      <4>1. frame[q][k].pc \in Holding /\ frame'[q][k].pc \in Holding
        BY <1>5, <1>11, <3>4 DEF Holding
      <4> QED
        BY <3>1, <3>2, <3>4, <4>1
    <3>5. CASE ~ (q = c /\ k = l) /\ ~ (q = c /\ k = l - 1)
      BY <1>5, <3>1, <3>2, <3>5
    <3> QED
      BY <3>3, <3>4, <3>5
  <2> QED
    BY <2>2, <2>3 DEF Balanced
<1> QED
  BY <1>10, <1>12, <1>13, <1>14 DEF IInv

(* The size of a pool that is created: the conversion to int32 is exact.    *)
LEMMA PoolSize ==
  ASSUME NEW n \in DbMax, NEW o \in PoolOptions,
         Validate(FromDatabaseConfig(n, o))
  PROVE  FromDatabaseConfig(n, o).MaxConns \in 1..MaxInt32
<1> DEFINE m == Clamped(n)
           M == FromDatabaseConfig(n, o).MaxConns
<1>1. m \in 1..MaxInt32
  BY PoolConstants DEF Clamped
<1> HIDE DEF m
<1>2. m + MaxInt32 + 1 \in Nat /\ 2 * (MaxInt32 + 1) \in Nat
      /\ m + MaxInt32 + 1 < 2 * (MaxInt32 + 1)
  BY <1>1, PoolConstants
<1>3. (m + MaxInt32 + 1) % (2 * (MaxInt32 + 1)) = m + MaxInt32 + 1
  BY <1>2, SmallModulus
<1>4. Int32(m) = m
  BY <1>1, <1>3, PoolConstants DEF Int32
<1>5. M = IF "MaxConns" \in DOMAIN o THEN o["MaxConns"] ELSE Int32(m)
  BY DEF FromDatabaseConfig, m
<1>6. M >= 1
  BY DEF Validate
<1> HIDE DEF M
<1>7. M \in -(MaxInt32 + 1)..MaxInt32
  <2>1. CASE "MaxConns" \in DOMAIN o
    BY <1>5, <2>1, PoolConstants
  <2>2. CASE "MaxConns" \notin DOMAIN o
    BY <1>1, <1>4, <1>5, <2>2, PoolConstants
  <2> QED
    BY <2>1, <2>2
<1>8. M \in 1..MaxInt32
  BY <1>6, <1>7, PoolConstants
<1> QED
  BY <1>8 DEF M

(* The pool's own actions keep the invariant: a user's connection is never  *)
(* one of a call.                                                           *)
LEMMA PoolKeeps ==
  ASSUME IInv, PoolNext, UNCHANGED txvars
  PROVE  IInv'
<1>1. UNCHANGED <<depth, frame, commits, result>>
  BY DEF txvars
<1>2. ASSUME pool' \in [phase : {"none", "open", "closing", "closed"},
                        max : 0..MaxInt32],
             UNCHANGED <<held, user>>
      PROVE  IInv'
  BY <1>1, <1>2 DEF IInv, TypeOK, PoolTypeOK, Stack, Uncommitted, Balanced
<1>3. CASE NewPoolFromConfig
  <2>1. PICK n \in DbMax, o \in PoolOptions :
          /\ Validate(FromDatabaseConfig(n, o))
          /\ pool' = [phase |-> "open",
                      max |-> FromDatabaseConfig(n, o).MaxConns]
    BY <1>3 DEF NewPoolFromConfig
  <2>2. FromDatabaseConfig(n, o).MaxConns \in 0..MaxInt32
    BY <2>1, PoolSize, PoolConstants
  <2> QED
    BY <1>2, <1>3, <2>1, <2>2 DEF NewPoolFromConfig
<1>4. CASE Close \/ CloseReturns
  <2>1. pool' \in [phase : {"none", "open", "closing", "closed"},
                   max : 0..MaxInt32]
    BY <1>4 DEF Close, CloseReturns, IInv, TypeOK, PoolTypeOK
  <2> QED
    BY <1>2, <1>4, <2>1 DEF Close, CloseReturns
<1>5. ASSUME NEW u \in User,
             \/ Acquire(u) \/ Acquired(u) \/ AcquireFails(u)
             \/ Begin(u) \/ End(u) \/ Release(u)
      PROVE  IInv'
  <2>1. PICK s \in {"idle", "waiting", "using", "in_tx"} :
          /\ user' = [user EXCEPT ![u] = s]
          /\ held' = IF s \in {"using", "in_tx"} THEN held \cup {u}
                                                ELSE held \ {u}
          /\ UNCHANGED pool
    <3>1. u \in held <=> user[u] \in {"using", "in_tx"}
      BY DEF IInv, Balanced
    <3>2. CASE Acquire(u)
      BY <3>1, <3>2 DEF Acquire
    <3>3. CASE Acquired(u)
      BY <3>3 DEF Acquired
    <3>4. CASE AcquireFails(u)
      BY <3>1, <3>4 DEF AcquireFails
    <3>5. CASE Begin(u)
      BY <3>1, <3>5 DEF Begin
    <3>6. CASE End(u)
      BY <3>1, <3>6 DEF End
    <3>7. CASE Release(u)
      BY <3>7 DEF Release
    <3> QED
      BY <1>5, <3>2, <3>3, <3>4, <3>5, <3>6, <3>7
  <2>2. user' \in [User -> {"idle", "waiting", "using", "in_tx"}]
    BY <2>1 DEF IInv, TypeOK, PoolTypeOK
  <2>3. held' \subseteq User \cup (Caller \X Level)
    BY <2>1 DEF IInv, TypeOK
  <2>4. TypeOK'
    BY <1>1, <2>1, <2>2, <2>3 DEF IInv, TypeOK, PoolTypeOK
  <2>5. \A v \in User : v \in held' <=> user'[v] \in {"using", "in_tx"}
    BY <2>1 DEF IInv, Balanced, TypeOK, PoolTypeOK
  <2>6. ASSUME NEW c \in Caller, NEW l \in Level
        PROVE  <<c, l>> \in held' <=> frame'[c][l].pc \in Holding
    <3>1. <<c, l>> # u
      BY TxConstants DEF Level
    <3> QED
      BY <1>1, <2>1, <3>1 DEF IInv, Balanced
  <2> QED
    BY <1>1, <2>4, <2>5, <2>6
    DEF IInv, Stack, Uncommitted, Balanced
<1> QED
  BY <1>3, <1>4, <1>5 DEF PoolNext

-----------------------------------------------------------------------------
(* The invariant holds.                                                    *)

(* The invariant holds in the beginning.                                    *)
LEMMA InitInv == Init => IInv
<1> SUFFICES ASSUME Init PROVE IInv
  OBVIOUS
<1>1. PoolTypeOK /\ held = {} /\ \A u \in User : user[u] = "idle"
  BY PoolConstants DEF Init, PoolInit, NoPool, PoolTypeOK
<1>2. TypeOK
  BY <1>1, FreshFrames, TxConstants DEF Init, TypeOK
<1>3. \A c \in Caller : depth[c] = 0
  BY DEF Init
<1>4. \A c \in Caller : \A l \in Level : frame[c][l] = Off
  BY DEF Init
<1>5. Stack /\ Uncommitted
  BY <1>3, <1>4 DEF Stack, Uncommitted, Level
<1>6. Balanced
  BY <1>1, <1>4 DEF Balanced, Off, Holding
<1> QED
  BY <1>2, <1>5, <1>6 DEF IInv

(* Every step is of a kind that the theorems know.                          *)
LEMMA Steps ==
  ASSUME IInv, [Next]_vars
  PROVE  \/ \E c \in Caller : depth[c] > 0 /\ (Stays(c) \/ Ends(c))
         \/ \E c \in Caller : Enters(c)
         \/ PoolNext /\ UNCHANGED txvars
         \/ UNCHANGED vars
<1>1. ASSUME NEW c \in Caller, Manager(c) \/ Returns(c) \/ Uses(c)
      PROVE  (depth[c] > 0 /\ (Stays(c) \/ Ends(c))) \/ Enters(c)
  <2>1. depth[c] > 0 \/ WithTx(c)
    BY <1>1 DEF Manager, Returns, Uses, In, BeginTx, BeginTxFails, Rollback,
       CommitSucceeds, CommitFails, BackoffEnds, BackoffCancelled, FnReturns,
       JoinedReturns, WithTxNested, FnPanics, StatementFails, Savepoint,
       SavepointCommit, SavepointRollback, JoinTx
  <2>2. WithTx(c) => Enters(c)
    BY TxConstants DEF WithTx, Enters
  <2> QED
    BY <1>1, <2>1, <2>2, CallSteps
<1> QED
  BY <1>1 DEF Next

(* Every step keeps the invariant.                                          *)
LEMMA NextKeeps == IInv /\ [Next]_vars => IInv'
<1> SUFFICES ASSUME IInv, [Next]_vars PROVE IInv'
  OBVIOUS
<1>1. CASE UNCHANGED vars
  BY <1>1 DEF vars, IInv, TypeOK, PoolTypeOK, Stack, Uncommitted, Balanced
<1> QED
  BY <1>1, Steps, StaysKeeps, EndsKeeps, EntersKeeps, PoolKeeps

(* The invariant holds for ever.                                            *)
LEMMA Invariance == Spec => []IInv
  BY InitInv, NextKeeps, PTL DEF Spec

(* Every variable of the manager and of the pool has its type: the delay    *)
(* stays within a time.Duration, the pool's size within an int32 and the    *)
(* stack of calls within its depth.                                         *)
THEOREM TypeCorrect == Spec => []TypeOK
<1>1. IInv => TypeOK
  BY DEF IInv
<1> QED
  BY <1>1, Invariance, PTL

(* Whatever fn, COMMIT, ROLLBACK and the contexts do, a connection is       *)
(* checked out exactly while a user has it or a call has its transaction    *)
(* open: none is left behind by an error, a panic, a nested call or a       *)
(* retry.                                                                   *)
THEOREM NothingLeaks == Spec => []NoLeak
<1>1. IInv => NoLeak
  <2> SUFFICES ASSUME IInv, NEW c \in Caller, NEW l \in Level
               PROVE  /\ <<c, l>> \in held
                           <=> l <= depth[c] /\ frame[c][l].pc \in Holding
                      /\ <<c, l>> \in held <=> frame[c][l].tx # "none"
    BY DEF NoLeak, IInv, Balanced, Holding
  <2>1. <<c, l>> \in held <=> frame[c][l].pc \in Holding
    BY DEF IInv, Balanced
  <2>2. depth[c] \in Int /\ l \in Int
    BY DEF IInv, TypeOK, Level
  <2>3. CASE l > depth[c]
    BY <2>1, <2>2, <2>3 DEF IInv, Stack, Off, Holding
  <2>4. CASE l <= depth[c]
    BY <2>1, <2>4 DEF IInv, Stack, Sound
  <2> QED
    BY <2>2, <2>3, <2>4
<1> QED
  BY <1>1, Invariance, PTL

(* calculateRetryDelay never yields zero, a negative number or more than a  *)
(* quarter above RetryMaxDelay, for every number of attempts.               *)
THEOREM DelaysBounded == Spec => []DelayBounded
<1>1. IInv => DelayBounded
  <2> SUFFICES ASSUME IInv, NEW c \in Caller, NEW l \in Level,
                      frame[c][l].pc = "backoff"
               PROVE  /\ frame[c][l].delay > 0
                      /\ 4 * frame[c][l].delay <= 5 * RetryMaxDelay
    BY DEF DelayBounded
  <2>1. frame[c][l] # Off
    BY DEF Off
  <2>2. depth[c] \in Nat /\ l \in Nat
    BY TxConstants DEF IInv, TypeOK, Level
  <2>3. l <= depth[c]
    BY <2>1, <2>2 DEF IInv, Stack
  <2> QED
    BY <2>3 DEF IInv, Stack, Sound
<1> QED
  BY <1>1, Invariance, PTL

(* A stack of calls gets lower only when its call in progress ends.         *)
LEMMA DepthSteps ==
  ASSUME IInv, [Next]_vars, NEW c \in Caller, depth'[c] < depth[c]
  PROVE  depth[c] > 0 /\ Ends(c)
<1>0. depth \in [Caller -> 0..MaxDepth] /\ depth[c] \in Int
  BY DEF IInv, TypeOK
<1>1. ASSUME NEW q \in Caller, depth[q] > 0, Stays(q) PROVE FALSE
  BY <1>0, <1>1 DEF Stays
<1>2. ASSUME NEW q \in Caller, depth[q] > 0, Ends(q) PROVE q = c
  <2>1. depth' = [depth EXCEPT ![q] = depth[q] - 1]
    BY <1>2 DEF Ends, Pop
  <2> QED
    BY <1>0, <2>1
<1>3. ASSUME NEW q \in Caller, Enters(q) PROVE FALSE
  <2>1. depth' = [depth EXCEPT ![q] = depth[q] + 1]
    BY <1>3 DEF Enters, Push
  <2> QED
    BY <1>0, <2>1
<1>4. depth' # depth
  BY <1>0
<1>5. ~ UNCHANGED txvars /\ ~ UNCHANGED vars
  BY <1>4 DEF txvars, vars
<1> QED
  BY <1>1, <1>2, <1>3, <1>5, Steps

(* A call ends with a serialization failure or a deadlock only after its    *)
(* last attempt.                                                            *)
THEOREM RetriesExhausted == Spec => ConflictsExhaustRetries
<1>1. IInv /\ [Next]_vars =>
        [\A c \in Caller :
           depth'[c] < depth[c]
             /\ result'[c][depth[c]] \in {"serialization", "deadlock"}
             => top(c).attempt = MaxRetries]_vars
  <2> SUFFICES ASSUME IInv, [Next]_vars, NEW c \in Caller,
                      depth'[c] < depth[c],
                      result'[c][depth[c]] \in {"serialization", "deadlock"}
               PROVE  top(c).attempt = MaxRetries
    OBVIOUS
  <2>1. depth[c] > 0 /\ Ends(c)
    BY DepthSteps
  <2>2. depth[c] \in Level
    BY <2>1, TopTypes
  <2>3. PICK r \in Result : /\ result' = [result EXCEPT ![c][depth[c]] = r]
                            /\ isRetryable(r) => top(c).attempt = MaxRetries
    BY <2>1 DEF Ends, Pop
  <2>4. result'[c][depth[c]] = r
    BY <2>2, <2>3 DEF IInv, TypeOK
  <2> QED
    BY <2>3, <2>4 DEF isRetryable
<1> QED
  BY <1>1, Invariance, PTL DEF Spec, ConflictsExhaustRetries

-----------------------------------------------------------------------------
(* The refinement.                                                         *)

(* In the beginning no call runs and nothing is applied.                    *)
LEMMA InitAbstract == Init => Abstract!Init
<1> SUFFICES ASSUME Init PROVE Abstract!Init
  OBVIOUS
<1>1. \A c \in Caller : depth[c] = 0
  BY DEF Init
<1>2. running = {}
  BY <1>1 DEF running, Level
<1>3. applied = [x \in Caller \X Level |-> 0]
      /\ outcome = [x \in Caller \X Level |-> "none"]
  BY DEF Init, applied, outcome
<1> QED
  BY <1>2, <1>3 DEF Abstract!Init

(* What a replaced entry of commits or result is to the abstract tables.    *)
LEMMA AppliedReplaced ==
  ASSUME TypeOK, NEW c \in Caller, NEW l \in Level, NEW v,
         commits' = [commits EXCEPT ![c][l] = v]
  PROVE  applied' = [applied EXCEPT ![<<c, l>>] = v]
<1>1. commits \in [Caller -> [Level -> 0..1]]
  BY DEF TypeOK
<1>2. \A q \in Caller : \A k \in Level :
        commits'[q][k] = IF q = c /\ k = l THEN v ELSE commits[q][k]
  BY <1>1
<1>3. ASSUME NEW x \in Caller \X Level
      PROVE  applied'[x] = [applied EXCEPT ![<<c, l>>] = v][x]
  <2>1. PICK q \in Caller, k \in Level : x = <<q, k>>
    OBVIOUS
  <2>2. applied'[x] = IF q = c /\ k = l THEN v ELSE commits[q][k]
    BY <1>2, <2>1 DEF applied
  <2>3. [applied EXCEPT ![<<c, l>>] = v][x] =
          IF q = c /\ k = l THEN v ELSE commits[q][k]
    BY <2>1 DEF applied
  <2> QED
    BY <2>2, <2>3
<1> QED
  BY <1>3 DEF applied

(* The same for the results.                                                *)
LEMMA OutcomeReplaced ==
  ASSUME TypeOK, NEW c \in Caller, NEW l \in Level, NEW v,
         result' = [result EXCEPT ![c][l] = v]
  PROVE  outcome' = [outcome EXCEPT ![<<c, l>>] = v]
<1>1. result \in [Caller -> [Level -> Result \cup {"none"}]]
  BY DEF TypeOK
<1>2. \A q \in Caller : \A k \in Level :
        result'[q][k] = IF q = c /\ k = l THEN v ELSE result[q][k]
  BY <1>1
<1>3. ASSUME NEW x \in Caller \X Level
      PROVE  outcome'[x] = [outcome EXCEPT ![<<c, l>>] = v][x]
  <2>1. PICK q \in Caller, k \in Level : x = <<q, k>>
    OBVIOUS
  <2>2. outcome'[x] = IF q = c /\ k = l THEN v ELSE result[q][k]
    BY <1>2, <2>1 DEF outcome
  <2>3. [outcome EXCEPT ![<<c, l>>] = v][x] =
          IF q = c /\ k = l THEN v ELSE result[q][k]
    BY <2>1 DEF outcome
  <2> QED
    BY <2>2, <2>3
<1> QED
  BY <1>3 DEF outcome

(* Steps that neither start nor end a call are not visible above.           *)
LEMMA StaysAbstract ==
  ASSUME UNCHANGED <<depth, commits, result>>
  PROVE  UNCHANGED Abstract!vars
  BY DEF Abstract!vars, running, applied, outcome

(* A call that starts is a call that starts.                                *)
LEMMA EntersAbstract ==
  ASSUME IInv, NEW c \in Caller, Enters(c)
  PROVE  Abstract!Next
<1> DEFINE l == depth[c] + 1
<1>1. l \in Level /\ depth[c] \in Int
  BY TxConstants DEF IInv, TypeOK, Enters, Level
<1>2. /\ depth' = [depth EXCEPT ![c] = l]
      /\ commits' = [commits EXCEPT ![c][l] = 0]
      /\ result' = [result EXCEPT ![c][l] = "none"]
  BY DEF Enters, Push
<1>3. \A q \in Caller : depth'[q] = IF q = c THEN l ELSE depth[q]
  BY <1>2 DEF IInv, TypeOK
<1>4. <<c, l>> \notin running
  BY <1>1 DEF running, Level
<1>5. running' = running \cup {<<c, l>>}
  <2>1. ASSUME NEW q \in Caller, NEW k \in Level
        PROVE  k <= depth'[q] <=> k <= depth[q] \/ (q = c /\ k = l)
    BY <1>1, <1>3 DEF Level
  <2> QED
    BY <1>1, <2>1 DEF running
<1> HIDE DEF l
<1>6. applied' = [applied EXCEPT ![<<c, l>>] = 0]
  BY <1>1, <1>2, AppliedReplaced DEF IInv
<1>7. outcome' = [outcome EXCEPT ![<<c, l>>] = "none"]
  BY <1>1, <1>2, OutcomeReplaced DEF IInv
<1> QED
  BY <1>1, <1>4, <1>5, <1>6, <1>7 DEF Abstract!Next, Abstract!Start

(* A call that ends returns what it returns, with its work applied as often *)
(* as that tells.                                                           *)
LEMMA EndsAbstract ==
  ASSUME IInv, NEW c \in Caller, depth[c] > 0, Ends(c)
  PROVE  Abstract!Next
<1> DEFINE l == depth[c]
<1>1. l \in Level
  BY TopTypes
<1>2. PICK r \in Result, n \in {0, 1} :
        /\ Pop(c, r, n)
        /\ r = "nil" => n = 1
        /\ r \notin {"nil", "connection"} => n = 0
  BY DEF Ends
<1>3. /\ depth' = [depth EXCEPT ![c] = l - 1]
      /\ commits' = [commits EXCEPT ![c][l] = @ + n]
      /\ result' = [result EXCEPT ![c][l] = r]
  BY <1>2 DEF Pop
<1>4. \A q \in Caller : depth'[q] = IF q = c THEN l - 1 ELSE depth[q]
  BY <1>3 DEF IInv, TypeOK
<1>5. commits[c][l] = 0
  BY <1>1 DEF IInv, Uncommitted, Level
<1>6. commits' = [commits EXCEPT ![c][l] = n]
  <2>1. commits[c][l] + n = n
    BY <1>5
  <2> QED
    BY <1>3, <2>1
<1>7. <<c, l>> \in running
  BY <1>1 DEF running, Level
<1>8. running' = running \ {<<c, l>>}
  <2>1. ASSUME NEW q \in Caller, NEW k \in Level
        PROVE  k <= depth'[q] <=> k <= depth[q] /\ ~ (q = c /\ k = l)
    BY <1>1, <1>4 DEF Level
  <2> QED
    BY <1>1, <2>1 DEF running
<1> HIDE DEF l
<1>9. applied' = [applied EXCEPT ![<<c, l>>] = n]
  BY <1>1, <1>6, AppliedReplaced DEF IInv
<1>10. outcome' = [outcome EXCEPT ![<<c, l>>] = r]
  BY <1>1, <1>3, OutcomeReplaced DEF IInv
<1> QED
  BY <1>1, <1>2, <1>7, <1>8, <1>9, <1>10 DEF Abstract!Next, Abstract!Return

(* Every step is one of the abstract specification or not visible.          *)
LEMMA NextAbstract == IInv /\ [Next]_vars => [Abstract!Next]_(Abstract!vars)
<1> SUFFICES ASSUME IInv, [Next]_vars
             PROVE  Abstract!Next \/ UNCHANGED Abstract!vars
  OBVIOUS
<1>1. ASSUME NEW c \in Caller, Stays(c) PROVE UNCHANGED Abstract!vars
  BY <1>1, StaysAbstract DEF Stays
<1>2. UNCHANGED txvars \/ UNCHANGED vars => UNCHANGED Abstract!vars
  BY StaysAbstract DEF txvars, vars
<1> QED
  BY <1>1, <1>2, Steps, EndsAbstract, EntersAbstract

(* TxManager implements AtMostOnce: the work of fn is committed exactly     *)
(* once if WithTx returns nil and never if it returns an error or panics,   *)
(* unless the error says that the connection was lost.                      *)
THEOREM Refinement == Spec => WorkAtMostOnce
  BY Invariance, InitAbstract, NextAbstract, PTL
  DEF Spec, WorkAtMostOnce, Abstract!Spec
=============================================================================
