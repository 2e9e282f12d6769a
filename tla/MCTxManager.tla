---------------------------- MODULE MCTxManager ----------------------------
(* Instances of TxManager for TLC. *)
EXTENDS TxManager

(* Conflicts, an error that is not retried, and a lost connection.          *)
States == {SerializationFailure, DeadlockDetected, UniqueViolation, NoState}

Conflict == {SerializationFailure}

(* No option, a pool without connections, which is refused, and one that    *)
(* keeps two connections, which is refused where only one may be opened.    *)
Options ==
  {<<>>,
   [f \in {"MaxConns", "MinConns"} |-> 0],
   [f \in {"MinConns"} |-> 2]}

NoOption == {<<>>}
=============================================================================
