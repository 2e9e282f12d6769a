---------------------------- MODULE MCRedisLock ----------------------------
(* Instances of RedisLock for TLC. *)
EXTENDS RedisLock, TLC

Symmetry ==
  Permutations(Client) \cup Permutations(Owner) \cup Permutations(Conn)
=============================================================================
