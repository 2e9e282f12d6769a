------------------------------ MODULE PgErrors ------------------------------
(***************************************************************************)
(* The error classification of postgres/errors.go and the retry decision   *)
(* of postgres/txmanager.go.  An SQLSTATE is its two-character class and   *)
(* the rest; a Go error is the Code of its outermost *Error, if it         *)
(* holds one.                                                              *)
(***************************************************************************)

UniqueViolation      == <<"23", "505">>
ForeignKeyViolation  == <<"23", "503">>
CheckViolation       == <<"23", "514">>
NotNullViolation     == <<"23", "502">>
SerializationFailure == <<"40", "001">>
DeadlockDetected     == <<"40", "P01">>
QueryCanceled        == <<"57", "014">>
InFailedTransaction  == <<"25", "P02">>
ConnectionException  == "08"

Code ==
  {"not_found", "duplicate", "foreign_key", "check_violation", "connection",
   "timeout", "serialization", "deadlock", "invalid_input", "internal"}

mapSQLState(s) ==
  CASE s = UniqueViolation      -> "duplicate"
    [] s = ForeignKeyViolation  -> "foreign_key"
    [] s = CheckViolation       -> "check_violation"
    [] s = NotNullViolation     -> "invalid_input"
    [] s = SerializationFailure -> "serialization"
    [] s = DeadlockDetected     -> "deadlock"
    [] s = QueryCanceled        -> "timeout"
    [] s[1] = ConnectionException -> "connection"
    [] OTHER                    -> "internal"

(* An error that is no PgError (a broken connection) has no SQLSTATE.       *)
NoState == <<"", "">>

FromPgError(s) == IF s = NoState THEN "internal" ELSE mapSQLState(s)

FaultyRetryOnlySerialization(e) ==       \* deadlocks are forgotten
  e = "serialization"

(* errors.As finds the outermost *Error; a foreign error is not retried.    *)
isRetryable(e) == e \in {"serialization", "deadlock"}
=============================================================================
