------------------------------ MODULE Migrator ------------------------------
(***************************************************************************)
(* The migration runner of postgres/migrate.go: Migrators in different     *)
(* processes that run Up, Down, Steps and Force on one database, while     *)
(* migrations fail and processes die.                                      *)
(*                                                                         *)
(* golang-migrate and its pgx driver are external and modelled as the code *)
(* uses them: an advisory lock of the database session, which a call gives *)
(* up waiting for but which the session then still gets; a table that      *)
(* holds the version and the dirty mark, written before and after the body *)
(* of each migration; and the errors of a call.  The context that Up, Down *)
(* and Steps are given is not handed on, so no call is cancelled.          *)
(*                                                                         *)
(* The session is a connection of the process's pgxpool                    *)
(* (stdlib.OpenDBFromPool).  Close gives it back alive, and a lock that    *)
(* was granted to nobody goes with it: into the pool, from there perhaps   *)
(* to a later Migrator of the process, and away with the connection.       *)
(***************************************************************************)
EXTENDS Integers

CONSTANTS
  Runner,    \* Migrators, one in each process
  Nobody,    \* the lock is free
  Operator,  \* the Migrator with which somebody recovers failed migrations
  Latest,    \* the migration files are 1..Latest
  StepArg    \* how many migrations Steps is asked for, up or down

ASSUME MigratorConstants ==
  /\ Nobody \notin Runner
  /\ Operator \in Runner
  /\ Latest \in Nat \ {0}
  /\ StepArg \subseteq Nat

VARIABLES
  schema,   \* how many migrations the tables really have
  partial,  \* a migration was applied in part
  table,    \* the row of schema_migrations
  lock,     \* the process with the session that has the advisory lock
  left,     \* where that session is when no call will give its lock back:
            \* in the "pool", with a later "migrator", or "none"
  queued,   \* the sessions whose request for it has not been granted
  call      \* call[r]: the Migrator r and its call in progress

vars == <<schema, partial, table, lock, left, queued, call>>

database == <<schema, partial, table>>

-----------------------------------------------------------------------------

NilVersion == -1

Level(v) == IF v = NilVersion THEN 0 ELSE v

(* The version below v.                                                     *)
Below(v) == IF v = 1 THEN NilVersion ELSE v - 1

MigrateErr ==
  {"nil", "no_change", "not_exist", "short_limit", "dirty", "failed"}

(* n is the argument of Steps or Force, done counts the migrations the call *)
(* has run.  from is history: the schema when the call got the lock.        *)
Closed ==
  [pc |-> "closed", op |-> "none", n |-> 0, done |-> 0, from |-> 0,
   err |-> "nil"]

Idle == [Closed EXCEPT !.pc = "idle"]

Init ==
  /\ schema = 0 /\ partial = FALSE
  /\ table = [version |-> NilVersion, dirty |-> FALSE]
  /\ lock = Nobody /\ left = "none" /\ queued = {}
  /\ call = [r \in Runner |-> Closed]

At(r, p) == call[r].pc = p

Go(r, c) == call' = [call EXCEPT ![r] = c]

EndsWith(r, e) == Go(r, [call[r] EXCEPT !.pc = "unlock", !.err = e])

-----------------------------------------------------------------------------
(* NewMigrator creates the table if it is missing, under the lock, which a  *)
(* session that has it already gets once more.                              *)

NewMigrator(r) ==
  /\ At(r, "closed")
  /\ \/ lock = Nobody /\ UNCHANGED left
     \/ lock = r /\ left = "pool" /\ left' = "migrator"
  /\ Go(r, Idle)
  /\ UNCHANGED <<database, lock, queued>>

FaultyClose(r) ==                        \* refuses while it is locked
  /\ At(r, "idle") /\ r \notin queued /\ lock # r
  /\ Go(r, Closed)
  /\ UNCHANGED <<database, lock, left, queued>>

(* migrate.Close waits for a request that the server has not granted, and   *)
(* the connection goes back to the pool.                                    *)
Close(r) ==
  /\ At(r, "idle") /\ r \notin queued
  /\ left' = IF lock = r THEN "pool" ELSE left
  /\ Go(r, Closed)
  /\ UNCHANGED <<database, lock, queued>>

(* The pool ends the connection, when its time is over or with the process. *)
Retire ==
  /\ left = "pool"
  /\ lock' = Nobody /\ left' = "none"
  /\ UNCHANGED <<database, queued, call>>

(* A call asks for the lock.  While an earlier request of the session is    *)
(* pending, or was granted to nobody, the driver refuses with ErrLocked.    *)
Request(r, op, n) ==
  /\ At(r, "idle")
  /\ r \notin queued
  /\ lock = r => left # "none"
  /\ queued' = queued \cup {r}
  /\ Go(r, [Idle EXCEPT !.pc = "lock", !.op = op, !.n = n])
  /\ UNCHANGED <<database, lock, left>>

Up(r) == Request(r, "up", 0)

Down(r) == Request(r, "down", 0)

(* n = 0 returns nil at once.                                               *)
Steps(r, n) ==
  /\ n # 0
  /\ Request(r, "steps", n)

NoneRuns == \A r \in Runner : call[r].pc \in {"closed", "idle", "lock"}

(* Migrator.Force.  Somebody who has seen that a run failed, and has made   *)
(* the schema whole again, forces the version it is at; no migration (-1)   *)
(* can also be 0.                                                           *)
ForceVersion(r, v) ==
  /\ r = Operator
  /\ table.dirty /\ NoneRuns /\ ~ partial /\ Level(v) = schema
  /\ Request(r, "force", v)

-----------------------------------------------------------------------------
(* The lock.                                                               *)

Granted(r) ==
  /\ r \in queued
  /\ lock = Nobody \/ (lock = r /\ left = "migrator")
  /\ lock' = r /\ queued' = queued \ {r}
  /\ IF At(r, "lock")
     THEN /\ Go(r, [call[r] EXCEPT !.pc = "run", !.from = schema])
          /\ UNCHANGED left
     ELSE left' = "none" /\ UNCHANGED call
  /\ UNCHANGED database

(* ErrLockTimeout: the call returns, the request stays with the server.     *)
LockTimesOut(r) ==
  /\ At(r, "lock") /\ r \in queued
  /\ Go(r, Idle)
  /\ UNCHANGED <<database, lock, left, queued>>

-----------------------------------------------------------------------------
(* A run: the next migration of the call, if there is one.                  *)

Upward(r) == call[r].op = "up" \/ (call[r].op = "steps" /\ call[r].n > 0)

AtLimit(r) ==
  /\ call[r].op = "steps"
  /\ call[r].done = IF call[r].n > 0 THEN call[r].n ELSE - call[r].n

FaultyAtEnd(r) ==                        \* off by one
  IF Upward(r) THEN table.version > Latest ELSE table.version = NilVersion

AtEnd(r) ==
  IF Upward(r) THEN table.version = Latest ELSE table.version = NilVersion

(* The version is one the files know.                                       *)
Known == table.version \in {NilVersion} \cup 1..Latest

Target(r) ==
  IF Upward(r) THEN Level(table.version) + 1 ELSE Below(table.version)

FaultyMark(v) == [version |-> v, dirty |-> FALSE]   \* dirty is not set

(* SetVersion(target, true)                                                 *)
Mark(v) == [version |-> v, dirty |-> TRUE]

BeginMigration(r) ==
  /\ At(r, "run") /\ call[r].op # "force"
  /\ ~ table.dirty /\ Known /\ ~ AtLimit(r) /\ ~ AtEnd(r)
  /\ table' = Mark(Target(r))
  /\ Go(r, [call[r] EXCEPT !.pc = "body"])
  /\ UNCHANGED <<schema, partial, lock, left, queued>>

RunBody(r) ==
  /\ At(r, "body")
  /\ schema' = Level(table.version)
  /\ Go(r, [call[r] EXCEPT !.pc = "mark"])
  /\ UNCHANGED <<partial, table, lock, left, queued>>

(* A statement fails, or the connection: nothing, a part or all of the      *)
(* migration was applied.                                                   *)
BodyFails(r) ==
  /\ At(r, "body")
  /\ schema' \in {schema, Level(table.version)}
  /\ partial' \in BOOLEAN
  /\ EndsWith(r, "failed")
  /\ UNCHANGED <<table, lock, left, queued>>

MarkClean(r) ==
  /\ At(r, "mark")
  /\ \/ /\ table' = [table EXCEPT !.dirty = FALSE]
        /\ Go(r, [call[r] EXCEPT !.pc = "run", !.done = @ + 1])
     \/ EndsWith(r, "failed") /\ UNCHANGED table
  /\ UNCHANGED <<schema, partial, lock, left, queued>>

(* What the run ends with when it has nothing more to do.                   *)
RunErr(r) ==
  CASE table.dirty -> "dirty"
    [] ~ table.dirty /\ ~ Known -> "not_exist"
    [] ~ table.dirty /\ Known /\ call[r].op # "steps" ->
         IF call[r].done = 0 THEN "no_change" ELSE "nil"
    [] ~ table.dirty /\ Known /\ call[r].op = "steps" ->
         IF AtLimit(r) THEN "nil"
         ELSE IF call[r].done = 0 THEN "not_exist" ELSE "short_limit"

EndRun(r) ==
  /\ At(r, "run") /\ call[r].op # "force"
  /\ table.dirty \/ ~ Known \/ AtLimit(r) \/ AtEnd(r)
  /\ EndsWith(r, RunErr(r))
  /\ UNCHANGED <<database, lock, left, queued>>

ForceSets(r) ==
  /\ At(r, "run") /\ call[r].op = "force"
  /\ table' = [version |-> call[r].n, dirty |-> FALSE]
  /\ EndsWith(r, "nil")
  /\ UNCHANGED <<schema, partial, lock, left, queued>>

FaultyReturned(e) == IF e = "dirty" THEN "error" ELSE "nil"   \* logged only

(* Up, Down and Steps: ErrNoChange is no error.                             *)
Returned(e) == IF e \in {"nil", "no_change"} THEN "nil" ELSE "error"

(* The lock is free unless the session had it before the call.              *)
Unlock(r) ==
  /\ At(r, "unlock")
  /\ lock' = IF left = "migrator" THEN r ELSE Nobody
  /\ Go(r, Idle)
  /\ UNCHANGED <<database, left, queued>>

-----------------------------------------------------------------------------
(* Faults and their repair.                                                *)

(* The process dies with its connections; what the server makes of a body   *)
(* that was running is not known.                                           *)
Crash(r) ==
  /\ ~ At(r, "closed")
  /\ lock' = IF lock = r THEN Nobody ELSE lock
  /\ left' = IF lock = r THEN "none" ELSE left
  /\ queued' = queued \ {r}
  /\ Go(r, Closed)
  /\ IF At(r, "body")
     THEN /\ schema' \in {schema, Level(table.version)}
          /\ partial' \in BOOLEAN
     ELSE UNCHANGED <<schema, partial>>
  /\ UNCHANGED table

(* The half-applied migration is completed or undone by hand.               *)
Repair ==
  /\ table.dirty /\ NoneRuns
  /\ \A r \in Runner : call[r].op # "force"
  /\ partial
  /\ partial' = FALSE
  /\ schema' \in {schema, Level(table.version)}
  /\ UNCHANGED <<table, lock, left, queued, call>>

-----------------------------------------------------------------------------

Calls(r) ==
  \/ NewMigrator(r) \/ Up(r) \/ Down(r)
  \/ \E n \in StepArg : Steps(r, n) \/ Steps(r, - n)
  \/ \E v \in NilVersion..Latest : ForceVersion(r, v)

Continue(r) ==
  \/ BeginMigration(r) \/ RunBody(r) \/ BodyFails(r) \/ MarkClean(r)
  \/ EndRun(r) \/ ForceSets(r) \/ Unlock(r)

Next ==
  \/ Repair \/ Retire
  \/ \E r \in Runner :
       \/ Calls(r) \/ Granted(r) \/ LockTimesOut(r) \/ Continue(r)
       \/ Close(r) \/ Crash(r)

Spec == Init /\ [][Next]_vars

(* A run goes on, a wait for the lock ends, the server grants a lock that   *)
(* is free, who has created a Migrator closes it between two calls at some  *)
(* time (defer migrator.Close()), and no connection outlives                *)
(* MaxConnLifetime, however often it is taken from the pool.                *)
FairSpec ==
  /\ Spec
  /\ SF_vars(Retire)
  /\ \A r \in Runner :
       /\ WF_vars(Continue(r)) /\ WF_vars(LockTimesOut(r))
       /\ WF_vars(Granted(r)) /\ SF_vars(Close(r))

-----------------------------------------------------------------------------
(* Properties.                                                             *)

Call ==
  [pc : {"closed", "idle", "lock", "run", "body", "mark", "unlock"},
   op : {"none", "up", "down", "steps", "force"}, n : Int,
   done : 0..Latest, from : 0..Latest, err : MigrateErr]

TypeOK ==
  /\ schema \in 0..Latest /\ partial \in BOOLEAN
  /\ table \in [version : NilVersion..Latest, dirty : BOOLEAN]
  /\ lock \in Runner \cup {Nobody} /\ left \in {"none", "pool", "migrator"}
  /\ queued \in SUBSET Runner
  /\ call \in [Runner -> Call]

(* What Migrator.Version returns: no version is 0 and never dirty.          *)
Version ==
  IF table.version = NilVersion THEN [version |-> 0, dirty |-> FALSE]
  ELSE table

(* A version that Version reports as clean is what the tables really have,  *)
(* through failed and interrupted runs of several processes and the         *)
(* recovery from them: no run starts on a half-migrated schema, and none    *)
(* is forgotten.  (A failed Down of the first migration is reported as 0,   *)
(* clean.)                                                                  *)
VersionIsTrue ==
  Version.version > 0 /\ ~ Version.dirty
    => ~ partial /\ schema = Version.version

(* The schema that the call was to bring about.                             *)
Goal(r) ==
  CASE call[r].op = "up"    -> Latest
    [] call[r].op = "down"  -> 0
    [] call[r].op = "steps" -> call[r].from + call[r].n
    [] call[r].op = "force" -> Level(call[r].n)

(* A call that returns nil has done its work, also when another process ran *)
(* migrations first: Up ends with all of them applied, Down with none,      *)
(* Steps with exactly n more or fewer than when it got the lock.            *)
NilMeansDone ==
  [][\A r \in Runner :
       Unlock(r) /\ Returned(call[r].err) = "nil"
         => ~ partial /\ ~ table.dirty /\ schema = Goal(r)]_vars

(* The lock does not stay with a session that no longer uses it: after a    *)
(* crash, after a failed migration, and after a wait that was given up and  *)
(* granted later, it becomes free, so that other processes can go on.  In   *)
(* the last case that takes as long as the connection of the Migrator that  *)
(* was closed lives on in the pool.                                         *)
LockIsFreed == []<>(lock = Nobody)
=============================================================================
