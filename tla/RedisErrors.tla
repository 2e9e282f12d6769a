---------------------------- MODULE RedisErrors ----------------------------
(***************************************************************************)
(* The error classification of redis/errors.go.  An error of go-redis is   *)
(* the sentinel it matches with errors.Is, if any, and the words of its    *)
(* message that the code looks for, which is done without regard to case.  *)
(***************************************************************************)

ConnectionPatterns ==
  {"connection refused", "connection reset", "no connection", "connect:",
   "dial tcp", "eof", "broken pipe"}

TimeoutPatterns ==
  {"timeout", "deadline exceeded", "context deadline", "i/o timeout"}

isConnectionError(msg) == msg \cap ConnectionPatterns # {}

isTimeoutError(msg) == msg \cap TimeoutPatterns # {}

(* A missing key.                                                           *)
Nil == [is |-> "redis.Nil", msg |-> {}]

(* The other errors of a command: the client was closed, the server could   *)
(* not be reached or broke the connection, a dial or a reply took too long, *)
(* or the context was cancelled.                                            *)
CommandErrors ==
  {[is |-> "redis.ErrClosed", msg |-> {}],
   [is |-> "none", msg |-> {"dial tcp", "connect:", "connection refused"}],
   [is |-> "none", msg |-> {"eof"}],
   [is |-> "none", msg |-> {"dial tcp", "i/o timeout", "timeout"}],
   [is |-> "none", msg |-> {"i/o timeout", "timeout"}],
   [is |-> "none", msg |-> {}]}

(* The first test that matches decides: a dial that times out is a          *)
(* connection error, a cancelled context an internal one.                   *)
FromRedisError(err) ==
  CASE err.is = "redis.Nil" -> "not_found"
    [] err.is = "redis.ErrClosed" -> "connection"
    [] err.is = "none" /\ isConnectionError(err.msg) -> "connection"
    [] err.is = "none" /\ ~ isConnectionError(err.msg)
         /\ isTimeoutError(err.msg) -> "timeout"
    [] OTHER -> "internal"

IsNotFound(code) == code = "not_found"
=============================================================================
