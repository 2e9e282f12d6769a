---------------------------- MODULE LeasedMutex ----------------------------
(***************************************************************************)
(* What the distributed lock of redis/lock.go promises, without Redis.     *)
(*                                                                         *)
(* An owner token holds a lease for some time; at most one lease runs at a *)
(* time.  A client is `inside' while it may rely on the lock.  A lease     *)
(* ends by the passing of time or because its owner gives it up, and it is *)
(* never given up, shortened to nothing or granted to somebody else while  *)
(* a client is inside on it.                                               *)
(***************************************************************************)
EXTENDS Integers

CONSTANTS
  Client,    \* the callers of the Locker
  Owner,     \* the owner tokens
  NoOwner,   \* "no owner"
  Time       \* the lease times a caller may ask for

VARIABLES
  lease,     \* lease[o]: time left of the lease of owner o, 0 for none
  inside     \* inside[c]: the owner on whose lease c relies, or NoOwner

vars == <<lease, inside>>

Init ==
  /\ lease = [o \in Owner |-> 0]
  /\ inside = [c \in Client |-> NoOwner]

(* A lease starts only when none is running. *)
Grant(o, t) ==
  /\ \A p \in Owner : lease[p] = 0
  /\ lease' = [lease EXCEPT ![o] = t]
  /\ UNCHANGED inside

(* A running lease is set to t; a client inside keeps something to rely on. *)
Renew(o, t) ==
  /\ lease[o] > 0
  /\ \A c \in Client : inside[c] = o => t > 0
  /\ lease' = [lease EXCEPT ![o] = t]
  /\ UNCHANGED inside

(* A running lease is given up, by an owner on which no client relies. *)
Surrender(o) ==
  /\ lease[o] > 0
  /\ \A c \in Client : inside[c] # o
  /\ lease' = [lease EXCEPT ![o] = 0]
  /\ UNCHANGED inside

(* Nobody else is inside when a client comes to rely on a running lease. *)
Enter(c, o) ==
  /\ lease[o] > 0
  /\ \A d \in Client : inside[d] = NoOwner
  /\ inside' = [inside EXCEPT ![c] = o]
  /\ UNCHANGED lease

Leave(c) ==
  /\ inside' = [inside EXCEPT ![c] = NoOwner]
  /\ UNCHANGED lease

(* Time passes; whoever is still inside afterwards is inside on a lease    *)
(* that is still running.                                                  *)
Tick ==
  /\ lease' = [o \in Owner |-> IF lease[o] > 0 THEN lease[o] - 1 ELSE 0]
  /\ inside' \in [Client -> Owner \cup {NoOwner}]
  /\ \A c \in Client :
       /\ inside'[c] \in {inside[c], NoOwner}
       /\ inside'[c] # NoOwner => lease'[inside'[c]] > 0

Next ==
  \/ \E o \in Owner, t \in Time : Grant(o, t) \/ Renew(o, t)
  \/ \E o \in Owner : Surrender(o)
  \/ \E c \in Client, o \in Owner : Enter(c, o)
  \/ \E c \in Client : Leave(c)
  \/ Tick

Spec == Init /\ [][Next]_vars
=============================================================================
