--------------------------- MODULE MigratorProofs ---------------------------
(***************************************************************************)
(* Proofs about Migrator: its type invariant, that a clean version is the  *)
(* true one, and that a call which returns nil has done its work, for any  *)
(* number of processes and migrations.                                     *)
(***************************************************************************)
EXTENDS Migrator, TLAPS

-----------------------------------------------------------------------------
(* The inductive invariant.                                                *)

Running == {"run", "body", "mark"}

(* Who runs migrations has the lock, and not with a session in the pool.    *)
RunnerHasLock ==
  /\ lock = Nobody => left = "none"
  /\ \A r \in Runner :
       call[r].pc \in Running \cup {"unlock"} => lock = r /\ left # "pool"

(* A database that is not dirty is at its version.                          *)
CleanIsTrue == ~ table.dirty => ~ partial /\ schema = Level(table.version)

(* The mark is set as long as a migration is in progress, and a migration   *)
(* in progress is to bring about a version that the files know.             *)
MarkedWhileRunning ==
  \A r \in Runner : call[r].pc \in {"body", "mark"} =>
    /\ table.dirty /\ ~ partial /\ Known
    /\ call[r].pc = "mark" => schema = Level(table.version)

Moved(r, k) == IF Upward(r) THEN call[r].from + k ELSE call[r].from - k

(* The schema has moved by the migrations the call has run, and the version *)
(* is one ahead of it while a migration is in progress.                     *)
StepsCounted ==
  \A r \in Runner : call[r].op # "force" =>
    /\ call[r].pc \in {"lock", "idle", "closed"} => call[r].done = 0
    /\ call[r].pc \in {"run", "body"} => schema = Moved(r, call[r].done)
    /\ call[r].pc \in {"body", "mark"} =>
         Level(table.version) = Moved(r, call[r].done + 1)

(* A Force that is waiting or about to write finds the schema as it was     *)
(* when it was called: the dirty mark has kept everybody else away.         *)
ForceIsCurrent ==
  \A r \in Runner : call[r].op = "force" =>
    /\ r = Operator
    /\ call[r].n \in NilVersion..Latest
    /\ call[r].pc \in {"lock", "run", "unlock"}
    /\ call[r].done = 0
    /\ call[r].pc \in {"lock", "run"} =>
         /\ table.dirty /\ ~ partial /\ schema = Level(call[r].n)
         /\ \A q \in Runner : call[q].pc \notin {"body", "mark"}

(* What is to be shown when the call returns.                               *)
NilIsDone ==
  \A r \in Runner :
    call[r].pc = "unlock" /\ Returned(call[r].err) = "nil" =>
      ~ table.dirty /\ schema = Goal(r)

(* A call that is under way is one of the four.                             *)
CallsHaveNames ==
  \A r \in Runner :
    /\ call[r].pc \notin {"closed", "idle"} => call[r].op # "none"
    /\ call[r].op = "steps" => call[r].n # 0

IInv ==
  /\ TypeOK
  /\ RunnerHasLock
  /\ CleanIsTrue
  /\ MarkedWhileRunning
  /\ StepsCounted
  /\ ForceIsCurrent
  /\ NilIsDone
  /\ CallsHaveNames

-----------------------------------------------------------------------------
(* Lemmas about the state of a call.                                       *)

(* A Migrator that is idle or closed has a state of the right type.         *)
LEMMA RestTypes == Idle \in Call /\ Closed \in Call
  BY MigratorConstants DEF Call, MigrateErr, Idle, Closed

(* The state of one call is replaced by another.                            *)
LEMMA GoTypes ==
  ASSUME TypeOK, NEW r \in Runner, NEW c \in Call, Go(r, c)
  PROVE  call' \in [Runner -> Call]
  BY DEF TypeOK, Go

(* The state in which a run ends, with its error.                           *)
LEMMA EndsWithTypes ==
  ASSUME TypeOK, NEW r \in Runner, NEW e \in MigrateErr, EndsWith(r, e)
  PROVE  call' \in [Runner -> Call]
<1>1. [call[r] EXCEPT !.pc = "unlock", !.err = e] \in Call
  BY ZenonT(60) DEF TypeOK, Call
<1> QED BY <1>1, GoTypes DEF EndsWith

(* A version of the table is a number of migrations.                        *)
LEMMA LevelTypes == ASSUME TypeOK PROVE Level(table.version) \in 0..Latest
  BY MigratorConstants DEF TypeOK, Level, NilVersion

-----------------------------------------------------------------------------
(* One lemma for each action, or for what several actions have in common.  *)

(* NewMigrator, Close, LockTimesOut, Unlock: a call is over, the database   *)
(* stays and nobody else loses the lock.                                    *)
LEMMA RestKeeps ==
  ASSUME IInv, NEW r \in Runner, NEW c \in {Idle, Closed}, Go(r, c),
         UNCHANGED database, queued' \in SUBSET Runner,
         lock' \in Runner \cup {Nobody},
         left' \in {"none", "pool", "migrator"},
         lock' = Nobody => left' = "none",
         \A q \in Runner \ {r} : lock = q => lock' = q /\ left' = left
  PROVE  IInv'
<1>1. TypeOK'
  <2>1. call' \in [Runner -> Call] BY RestTypes, GoTypes DEF IInv
  <2> QED BY <2>1 DEF IInv, TypeOK, database
<1>2. RunnerHasLock'
  BY DEF IInv, RunnerHasLock, Running, TypeOK, Go, Idle, Closed
<1>3. CleanIsTrue' BY DEF IInv, CleanIsTrue, database
<1>4. MarkedWhileRunning'
  BY DEF IInv, MarkedWhileRunning, Known, Go, Idle, Closed, database
<1>5. StepsCounted'
  BY DEF IInv, StepsCounted, Moved, Upward, Go, Idle, Closed, database
<1>6. ForceIsCurrent'
  BY DEF IInv, ForceIsCurrent, Go, Idle, Closed, database
<1>7. NilIsDone'
  BY DEF IInv, NilIsDone, CallsHaveNames, Goal, TypeOK, Call, Go, Idle,
     Closed, database
<1>8. CallsHaveNames' BY DEF IInv, CallsHaveNames, Go, Idle, Closed
<1> QED BY <1>1, <1>2, <1>3, <1>4, <1>5, <1>6, <1>7, <1>8 DEF IInv

(* Up, Down, Steps and Force ask for the lock; a Force knows the schema.    *)
LEMMA RequestKeeps ==
  ASSUME IInv, NEW r \in Runner, NEW n \in Int,
         NEW op \in {"up", "down", "steps", "force"}, Request(r, op, n),
         op = "steps" => n # 0,
         op = "force" =>
           /\ r = Operator /\ n \in NilVersion..Latest
           /\ table.dirty /\ NoneRuns /\ ~ partial /\ Level(n) = schema
  PROVE  IInv'
<1>1. TypeOK'
  <2>1. [Idle EXCEPT !.pc = "lock", !.op = op, !.n = n] \in Call
    BY RestTypes DEF Call
  <2>2. call' \in [Runner -> Call] BY <2>1, GoTypes DEF IInv, Request
  <2> QED BY <2>2 DEF IInv, TypeOK, database, Request
<1>2. RunnerHasLock' BY DEF IInv, RunnerHasLock, Running, Request, Go
<1>3. CleanIsTrue' BY DEF IInv, CleanIsTrue, Request, database
<1>4. MarkedWhileRunning'
  BY DEF IInv, MarkedWhileRunning, Known, Request, Go, database
<1>5. StepsCounted'
  BY DEF IInv, StepsCounted, Moved, Upward, Request, Go, Idle, Closed,
     database
<1>6. ForceIsCurrent'
  BY DEF IInv, ForceIsCurrent, NoneRuns, Request, Go, Idle, Closed, database
<1>7. NilIsDone'
  BY DEF IInv, NilIsDone, CallsHaveNames, Goal, TypeOK, Call, Request, Go,
     database
<1>8. CallsHaveNames' BY DEF IInv, CallsHaveNames, Request, Go
<1> QED BY <1>1, <1>2, <1>3, <1>4, <1>5, <1>6, <1>7, <1>8 DEF IInv

(* The server grants a request; the call that waits for it starts its run,  *)
(* and the lock of a session that has given up waiting runs nothing.        *)
LEMMA GrantedKeeps ==
  ASSUME IInv, NEW r \in Runner, Granted(r)
  PROVE  IInv'
<1>1. TypeOK'
  <2>1. [call[r] EXCEPT !.pc = "run", !.from = schema] \in Call
    BY ZenonT(60) DEF IInv, TypeOK, Call
  <2>2. call' \in [Runner -> Call]
    BY <2>1, GoTypes DEF IInv, Granted, TypeOK
  <2> QED BY <2>2 DEF IInv, TypeOK, database, Granted
<1>2. /\ lock = Nobody \/ (lock = r /\ left = "migrator")
      /\ lock' = r /\ UNCHANGED database
  BY DEF Granted
<1>3. CASE At(r, "lock")
  <2>0. /\ Go(r, [call[r] EXCEPT !.pc = "run", !.from = schema])
        /\ UNCHANGED left
    BY <1>3 DEF Granted
  <2>1. RunnerHasLock'
    BY <1>2, <2>0, MigratorConstants DEF IInv, RunnerHasLock, Go
  <2>2. CleanIsTrue' BY <1>2 DEF IInv, CleanIsTrue, database
  <2>3. MarkedWhileRunning'
    BY <1>2, <2>0 DEF IInv, MarkedWhileRunning, Known, Go, database
  <2>4. StepsCounted'
    BY <1>3, <1>2, <2>0 DEF IInv, StepsCounted, Moved, Upward, TypeOK, At,
       Go, database
  <2>5. ForceIsCurrent'
    BY <1>3, <1>2, <2>0 DEF IInv, ForceIsCurrent, At, Go, database
  <2>6. NilIsDone'
    BY <1>2, <2>0 DEF IInv, NilIsDone, CallsHaveNames, Goal, TypeOK, Call,
       Go, database
  <2>7. CallsHaveNames' BY <1>3, <2>0 DEF IInv, CallsHaveNames, At, Go
  <2> QED BY <1>1, <2>1, <2>2, <2>3, <2>4, <2>5, <2>6, <2>7 DEF IInv
<1>4. CASE ~ At(r, "lock")
  <2>0. left' = "none" /\ UNCHANGED call
    BY <1>4 DEF Granted
  <2>1. RunnerHasLock'
    BY <1>2, <2>0, MigratorConstants DEF IInv, RunnerHasLock
  <2>2. CleanIsTrue' BY <1>2 DEF IInv, CleanIsTrue, database
  <2>3. MarkedWhileRunning'
    BY <1>2, <2>0 DEF IInv, MarkedWhileRunning, Known, database
  <2>4. StepsCounted'
    BY <1>2, <2>0 DEF IInv, StepsCounted, Moved, Upward, database
  <2>5. ForceIsCurrent' BY <1>2, <2>0 DEF IInv, ForceIsCurrent, database
  <2>6. NilIsDone'
    BY <1>2, <2>0 DEF IInv, NilIsDone, CallsHaveNames, Goal, TypeOK, Call,
       database
  <2>7. CallsHaveNames' BY <2>0 DEF IInv, CallsHaveNames
  <2> QED BY <1>1, <2>1, <2>2, <2>3, <2>4, <2>5, <2>6, <2>7 DEF IInv
<1> QED BY <1>3, <1>4

(* The table is marked with the version to come.                            *)
LEMMA BeginMigrationKeeps ==
  ASSUME IInv, NEW r \in Runner, BeginMigration(r)
  PROVE  IInv'
<1>1. TypeOK'
  <2>1. [call[r] EXCEPT !.pc = "body"] \in Call BY DEF IInv, TypeOK, Call
  <2>2. call' \in [Runner -> Call] BY <2>1, GoTypes DEF IInv, BeginMigration
  <2>3. table' \in [version : NilVersion..Latest, dirty : BOOLEAN]
    BY MigratorConstants DEF IInv, TypeOK, BeginMigration, Mark, Target,
       Below, AtEnd, Upward, Level, NilVersion, Known
  <2> QED BY <2>2, <2>3 DEF IInv, TypeOK, BeginMigration
<1>2. RunnerHasLock'
  BY DEF IInv, RunnerHasLock, Running, At, BeginMigration, Go
<1>3. CleanIsTrue' BY DEF IInv, CleanIsTrue, BeginMigration, Mark
<1>4. MarkedWhileRunning'
  BY MigratorConstants DEF IInv, CleanIsTrue, MarkedWhileRunning,
     ForceIsCurrent, Level, Known, BeginMigration, Mark, Target, Below,
     AtEnd, Go
<1>5. StepsCounted'
  BY DEF IInv, CleanIsTrue, MarkedWhileRunning, StepsCounted, Level, Known,
     Moved, Upward, TypeOK, Call, At, NilVersion, BeginMigration, Mark,
     Target, Below, AtEnd, Go
<1>6. ForceIsCurrent' BY DEF IInv, ForceIsCurrent, BeginMigration, Go
<1>7. NilIsDone'
  BY DEF IInv, RunnerHasLock, NilIsDone, Running, At, BeginMigration, Go
<1>8. CallsHaveNames' BY DEF IInv, CallsHaveNames, At, BeginMigration, Go
<1> QED BY <1>1, <1>2, <1>3, <1>4, <1>5, <1>6, <1>7, <1>8 DEF IInv

(* The body has run: the schema is what the table says.                     *)
LEMMA RunBodyKeeps ==
  ASSUME IInv, NEW r \in Runner, RunBody(r)
  PROVE  IInv'
<1>1. TypeOK'
  <2>1. [call[r] EXCEPT !.pc = "mark"] \in Call BY DEF IInv, TypeOK, Call
  <2>2. call' \in [Runner -> Call] BY <2>1, GoTypes DEF IInv, RunBody
  <2> QED BY <2>2, LevelTypes DEF IInv, TypeOK, RunBody
<1>2. RunnerHasLock' BY DEF IInv, RunnerHasLock, Running, At, RunBody, Go
<1>3. CleanIsTrue' BY DEF IInv, CleanIsTrue, RunBody
<1>4. MarkedWhileRunning'
  BY DEF IInv, MarkedWhileRunning, Known, At, RunBody
<1>5. StepsCounted'
  BY DEF IInv, RunnerHasLock, StepsCounted, Running, Moved, Upward, TypeOK,
     At, RunBody, Go
<1>6. ForceIsCurrent' BY DEF IInv, ForceIsCurrent, At, RunBody, Go
<1>7. NilIsDone' BY DEF IInv, MarkedWhileRunning, NilIsDone, At, RunBody, Go
<1>8. CallsHaveNames' BY DEF IInv, CallsHaveNames, At, RunBody, Go
<1> QED BY <1>1, <1>2, <1>3, <1>4, <1>5, <1>6, <1>7, <1>8 DEF IInv

(* The body has failed: the mark stays.                                     *)
LEMMA BodyFailsKeeps ==
  ASSUME IInv, NEW r \in Runner, BodyFails(r)
  PROVE  IInv'
<1>1. TypeOK'
  <2>1. call' \in [Runner -> Call]
    BY EndsWithTypes DEF IInv, BodyFails, MigrateErr
  <2> QED BY <2>1, LevelTypes DEF IInv, TypeOK, BodyFails
<1>2. RunnerHasLock'
  BY DEF IInv, RunnerHasLock, Running, At, BodyFails, EndsWith, Go
<1>3. CleanIsTrue' BY DEF IInv, CleanIsTrue, MarkedWhileRunning, At, BodyFails
<1>4. MarkedWhileRunning'
  BY DEF IInv, RunnerHasLock, MarkedWhileRunning, Running, TypeOK, At,
     BodyFails, EndsWith, Go
<1>5. StepsCounted'
  BY DEF IInv, RunnerHasLock, StepsCounted, Running, TypeOK, At, BodyFails,
     EndsWith, Go
<1>6. ForceIsCurrent'
  BY DEF IInv, ForceIsCurrent, At, BodyFails, EndsWith, Go
<1>7. NilIsDone'
  BY DEF IInv, MarkedWhileRunning, NilIsDone, Returned, At, BodyFails,
     EndsWith, Go
<1>8. CallsHaveNames'
  BY DEF IInv, CallsHaveNames, At, BodyFails, EndsWith, Go
<1> QED BY <1>1, <1>2, <1>3, <1>4, <1>5, <1>6, <1>7, <1>8 DEF IInv

(* The mark is taken off, or that fails and it stays.                       *)
LEMMA MarkCleanKeeps ==
  ASSUME IInv, NEW r \in Runner, MarkClean(r)
  PROVE  IInv'
<1>1. call[r].done + 1 \in 0..Latest
  <2>1. call[r].op # "force" BY DEF IInv, ForceIsCurrent, MarkClean, At
  <2> QED
    BY <2>1, MigratorConstants DEF IInv, TypeOK, Call, MarkClean, At,
       StepsCounted, Moved, Level, NilVersion
<1>2. CASE /\ table' = [table EXCEPT !.dirty = FALSE]
           /\ Go(r, [call[r] EXCEPT !.pc = "run", !.done = @ + 1])
  <2>0. TypeOK'
    <3>1. [call[r] EXCEPT !.pc = "run", !.done = @ + 1] \in Call
      BY <1>1, ZenonT(60) DEF IInv, TypeOK, Call
    <3>2. call' \in [Runner -> Call] BY <1>2, <3>1, GoTypes DEF IInv
    <3> QED BY <1>2, <3>2 DEF IInv, TypeOK, MarkClean
  <2>1. RunnerHasLock'
    BY <1>2 DEF IInv, RunnerHasLock, Running, At, MarkClean, Go
  <2>2. CleanIsTrue'
    BY <1>2 DEF IInv, CleanIsTrue, MarkedWhileRunning, At, MarkClean
  <2>3. MarkedWhileRunning'
    BY <1>2 DEF IInv, RunnerHasLock, MarkedWhileRunning, Running, TypeOK, At,
       MarkClean, Go
  <2>4. StepsCounted'
    BY <1>2 DEF IInv, MarkedWhileRunning, StepsCounted, Moved, Upward, At,
       MarkClean, Go
  <2>5. ForceIsCurrent' BY <1>2 DEF IInv, ForceIsCurrent, At, MarkClean, Go
  <2>6. NilIsDone'
    BY <1>2 DEF IInv, NilIsDone, CallsHaveNames, Goal, TypeOK, Call,
       MarkClean, Go
  <2>7. CallsHaveNames' BY <1>2 DEF IInv, CallsHaveNames, At, MarkClean, Go
  <2> QED BY <2>0, <2>1, <2>2, <2>3, <2>4, <2>5, <2>6, <2>7 DEF IInv
<1>3. CASE EndsWith(r, "failed") /\ UNCHANGED table
  <2>0. TypeOK'
    <3>1. call' \in [Runner -> Call]
      BY <1>3, EndsWithTypes DEF IInv, MigrateErr
    <3> QED BY <1>3, <3>1 DEF IInv, TypeOK, MarkClean
  <2>1. RunnerHasLock'
    BY <1>3 DEF IInv, RunnerHasLock, Running, At, MarkClean, EndsWith, Go
  <2>2. CleanIsTrue' BY <1>3 DEF IInv, CleanIsTrue, MarkClean
  <2>3. MarkedWhileRunning'
    BY <1>3 DEF IInv, MarkedWhileRunning, Known, MarkClean, EndsWith, Go
  <2>4. StepsCounted'
    BY <1>3 DEF IInv, StepsCounted, Moved, Upward, MarkClean, EndsWith, Go
  <2>5. ForceIsCurrent'
    BY <1>3 DEF IInv, ForceIsCurrent, MarkClean, EndsWith, Go
  <2>6. NilIsDone'
    BY <1>3 DEF IInv, NilIsDone, CallsHaveNames, Goal, Returned, TypeOK,
       Call, MarkClean, EndsWith, Go
  <2>7. CallsHaveNames'
    BY <1>3 DEF IInv, CallsHaveNames, At, MarkClean, EndsWith, Go
  <2> QED BY <2>0, <2>1, <2>2, <2>3, <2>4, <2>5, <2>6, <2>7 DEF IInv
<1> QED BY <1>2, <1>3 DEF MarkClean

(* A run has nothing more to do: nil only at its goal.                      *)
LEMMA EndRunKeeps ==
  ASSUME IInv, NEW r \in Runner, EndRun(r)
  PROVE  IInv'
<1>1. TypeOK'
  <2>1. RunErr(r) \in MigrateErr BY DEF RunErr, MigrateErr, IInv, TypeOK, Call
  <2>2. call' \in [Runner -> Call] BY <2>1, EndsWithTypes DEF IInv, EndRun
  <2> QED BY <2>2 DEF IInv, TypeOK, database, EndRun
<1>2. RunnerHasLock'
  BY DEF IInv, RunnerHasLock, Running, At, EndRun, EndsWith, Go
<1>3. CleanIsTrue' BY DEF IInv, CleanIsTrue, EndRun, database
<1>4. MarkedWhileRunning'
  BY DEF IInv, MarkedWhileRunning, Known, EndRun, EndsWith, Go, database
<1>5. StepsCounted'
  BY DEF IInv, StepsCounted, Moved, Upward, EndRun, EndsWith, Go, database
<1>6. ForceIsCurrent'
  BY DEF IInv, ForceIsCurrent, EndRun, EndsWith, Go, database
<1>7. NilIsDone'
  BY DEF IInv, CleanIsTrue, StepsCounted, NilIsDone, CallsHaveNames, Level,
     Moved, Upward, Goal, Returned, TypeOK, Call, At, NilVersion, EndRun,
     RunErr, AtLimit, AtEnd, EndsWith, Go, database
<1>8. CallsHaveNames' BY DEF IInv, CallsHaveNames, At, EndRun, EndsWith, Go
<1> QED BY <1>1, <1>2, <1>3, <1>4, <1>5, <1>6, <1>7, <1>8 DEF IInv

(* Force writes the version that the schema is at.                          *)
LEMMA ForceSetsKeeps ==
  ASSUME IInv, NEW r \in Runner, ForceSets(r)
  PROVE  IInv'
<1>1. TypeOK'
  <2>1. call[r].n \in NilVersion..Latest
    BY DEF IInv, ForceIsCurrent, ForceSets
  <2>2. call' \in [Runner -> Call]
    BY EndsWithTypes DEF IInv, ForceSets, MigrateErr
  <2> QED BY <2>1, <2>2 DEF IInv, TypeOK, ForceSets
<1>2. RunnerHasLock'
  BY DEF IInv, RunnerHasLock, Running, At, ForceSets, EndsWith, Go
<1>3. CleanIsTrue' BY DEF IInv, CleanIsTrue, ForceIsCurrent, At, ForceSets
<1>4. MarkedWhileRunning'
  BY DEF IInv, MarkedWhileRunning, ForceIsCurrent, At, ForceSets, EndsWith,
     Go
<1>5. StepsCounted'
  BY DEF IInv, StepsCounted, ForceIsCurrent, Moved, Upward, At, ForceSets,
     EndsWith, Go
<1>6. ForceIsCurrent'
  BY DEF IInv, ForceIsCurrent, TypeOK, ForceSets, EndsWith, Go
<1>7. NilIsDone'
  BY DEF IInv, ForceIsCurrent, NilIsDone, Goal, At, ForceSets, EndsWith, Go
<1>8. CallsHaveNames' BY DEF IInv, CallsHaveNames, ForceSets, EndsWith, Go
<1> QED BY <1>1, <1>2, <1>3, <1>4, <1>5, <1>6, <1>7, <1>8 DEF IInv

(* A process dies, and with it perhaps the migration that it was running.   *)
LEMMA CrashKeeps ==
  ASSUME IInv, NEW r \in Runner, Crash(r)
  PROVE  IInv'
<1>1. TypeOK'
  <2>1. call' \in [Runner -> Call] BY RestTypes, GoTypes DEF IInv, Crash
  <2> QED BY <2>1, LevelTypes DEF IInv, TypeOK, Crash
<1>2. RunnerHasLock'
  BY DEF IInv, RunnerHasLock, Running, TypeOK, Crash, Go, Closed
<1>3. CleanIsTrue' BY DEF IInv, CleanIsTrue, MarkedWhileRunning, At, Crash
<1>4. MarkedWhileRunning'
  BY DEF IInv, RunnerHasLock, MarkedWhileRunning, Running, Known, TypeOK,
     At, Crash, Go, Closed
<1>5. StepsCounted'
  BY DEF IInv, RunnerHasLock, StepsCounted, Running, Moved, Upward, TypeOK,
     At, Crash, Go, Closed
<1>6. ForceIsCurrent' BY DEF IInv, ForceIsCurrent, At, Crash, Go, Closed
<1>7. NilIsDone'
  BY DEF IInv, MarkedWhileRunning, NilIsDone, CallsHaveNames, Goal, TypeOK,
     Call, At, Crash, Go, Closed
<1>8. CallsHaveNames' BY DEF IInv, CallsHaveNames, Crash, Go, Closed
<1> QED BY <1>1, <1>2, <1>3, <1>4, <1>5, <1>6, <1>7, <1>8 DEF IInv

(* A half-applied migration is completed or undone.                         *)
LEMMA RepairKeeps ==
  ASSUME IInv, Repair
  PROVE  IInv'
<1>1. TypeOK' BY LevelTypes DEF IInv, TypeOK, Repair
<1>2. RunnerHasLock' BY DEF IInv, RunnerHasLock, Repair
<1>3. CleanIsTrue' BY DEF IInv, CleanIsTrue, Repair
<1>4. MarkedWhileRunning' BY DEF IInv, MarkedWhileRunning, Repair
<1>5. StepsCounted'
  BY DEF IInv, StepsCounted, Moved, Upward, NoneRuns, Repair
<1>6. ForceIsCurrent' BY DEF IInv, ForceIsCurrent, Repair
<1>7. NilIsDone' BY DEF IInv, NilIsDone, Repair
<1>8. CallsHaveNames' BY DEF IInv, CallsHaveNames, Repair
<1> QED BY <1>1, <1>2, <1>3, <1>4, <1>5, <1>6, <1>7, <1>8 DEF IInv

(* A connection in the pool ends: it runs nothing.                          *)
LEMMA RetireKeeps ==
  ASSUME IInv, Retire
  PROVE  IInv'
<1>1. TypeOK' BY DEF IInv, TypeOK, Retire, database
<1>2. RunnerHasLock' BY DEF IInv, RunnerHasLock, Retire
<1>3. CleanIsTrue' BY DEF IInv, CleanIsTrue, Retire, database
<1>4. MarkedWhileRunning'
  BY DEF IInv, MarkedWhileRunning, Known, Retire, database
<1>5. StepsCounted'
  BY DEF IInv, StepsCounted, Moved, Upward, Retire, database
<1>6. ForceIsCurrent' BY DEF IInv, ForceIsCurrent, Retire, database
<1>7. NilIsDone'
  BY DEF IInv, NilIsDone, CallsHaveNames, Goal, TypeOK, Call, Retire,
     database
<1>8. CallsHaveNames' BY DEF IInv, CallsHaveNames, Retire
<1> QED BY <1>1, <1>2, <1>3, <1>4, <1>5, <1>6, <1>7, <1>8 DEF IInv

-----------------------------------------------------------------------------
(* The theorems.                                                           *)

(* Every step of every process, and of the operator, keeps the invariant.   *)
LEMMA NextKeeps ==
  ASSUME IInv, [Next]_vars
  PROVE  IInv'
<1>1. CASE UNCHANGED vars
  BY <1>1 DEF vars, IInv, TypeOK, RunnerHasLock, CleanIsTrue,
     MarkedWhileRunning, StepsCounted, ForceIsCurrent, NilIsDone,
     CallsHaveNames, Known, Moved, Upward, Goal
<1>2. CASE Repair \/ Retire
  BY <1>2, RepairKeeps, RetireKeeps
<1>3. ASSUME NEW r \in Runner, Calls(r) PROVE IInv'
  <2>1. CASE NewMigrator(r)
    BY <2>1, RestKeeps, MigratorConstants
    DEF NewMigrator, IInv, TypeOK, RunnerHasLock
  <2>2. CASE Up(r)
    BY <2>2, RequestKeeps DEF Up
  <2>3. CASE Down(r)
    BY <2>3, RequestKeeps DEF Down
  <2>4. ASSUME NEW n \in StepArg, Steps(r, n) \/ Steps(r, - n) PROVE IInv'
    <3>1. n \in Int /\ - n \in Int BY MigratorConstants
    <3> QED BY <2>4, <3>1, RequestKeeps DEF Steps
  <2>5. ASSUME NEW v \in NilVersion..Latest, ForceVersion(r, v) PROVE IInv'
    <3>1. v \in Int BY MigratorConstants DEF NilVersion
    <3> QED BY <2>5, <3>1, RequestKeeps DEF ForceVersion
  <2> QED BY <1>3, <2>1, <2>2, <2>3, <2>4, <2>5 DEF Calls
<1>4. ASSUME NEW r \in Runner, LockTimesOut(r) PROVE IInv'
  BY <1>4, RestKeeps DEF LockTimesOut, IInv, TypeOK, RunnerHasLock
<1>5. ASSUME NEW r \in Runner, Continue(r) PROVE IInv'
  <2>1. CASE Unlock(r)
    <3>1. lock = r /\ left # "pool"
      BY <2>1 DEF Unlock, At, IInv, RunnerHasLock
    <3> QED
      BY <2>1, <3>1, RestKeeps, MigratorConstants DEF Unlock, IInv, TypeOK
  <2> QED
    BY <1>5, <2>1, BeginMigrationKeeps, RunBodyKeeps, BodyFailsKeeps,
       MarkCleanKeeps, EndRunKeeps, ForceSetsKeeps DEF Continue
<1>6. ASSUME NEW r \in Runner, Close(r) PROVE IInv'
  BY <1>6, RestKeeps, MigratorConstants
  DEF Close, IInv, TypeOK, RunnerHasLock
<1> QED
  BY <1>1, <1>2, <1>3, <1>4, <1>5, <1>6, GrantedKeeps, CrashKeeps DEF Next

(* A database without migrations, and nobody connected.                     *)
LEMMA InitKeeps == Init => IInv
<1> SUFFICES ASSUME Init PROVE IInv
  OBVIOUS
<1>1. TypeOK
  <2>1. call \in [Runner -> Call] BY RestTypes DEF Init
  <2>2. table \in [version : NilVersion..Latest, dirty : BOOLEAN]
    BY MigratorConstants DEF Init, NilVersion
  <2>3. schema \in 0..Latest BY MigratorConstants DEF Init
  <2> QED BY <2>1, <2>2, <2>3 DEF Init, TypeOK
<1>2. \A r \in Runner : call[r] = Closed
  BY DEF Init
<1> QED
  BY <1>1, <1>2 DEF Init, Closed, IInv, RunnerHasLock, Running, CleanIsTrue,
     Level, MarkedWhileRunning, StepsCounted, ForceIsCurrent, NilIsDone,
     CallsHaveNames

(* The invariant holds in every state.                                      *)
LEMMA Invariance == Spec => []IInv
<1> QED BY InitKeeps, NextKeeps, PTL DEF Spec

(* The type invariant.  In particular no run counts more migrations than    *)
(* there are.                                                               *)
THEOREM TypeCorrect == Spec => []TypeOK
<1>1. IInv => TypeOK
  BY DEF IInv
<1> QED BY Invariance, <1>1, PTL

(* A clean version above 0 that Version reports is what the tables have,    *)
(* for any number of processes, migrations, failures, crashes and           *)
(* recoveries.                                                              *)
THEOREM VersionTrue == Spec => []VersionIsTrue
<1>1. IInv => VersionIsTrue
  BY DEF IInv, TypeOK, CleanIsTrue, VersionIsTrue, Version, Level, NilVersion
<1> QED BY Invariance, <1>1, PTL

(* A call that returns nil has done its work, whatever others did before.   *)
THEOREM NilDone == Spec => NilMeansDone
<1>1. IInv /\ [Next]_vars =>
        [\A r \in Runner :
           Unlock(r) /\ Returned(call[r].err) = "nil"
             => ~ partial /\ ~ table.dirty /\ schema = Goal(r)]_vars
  BY DEF IInv, CleanIsTrue, NilIsDone, Unlock, At
<1> QED BY Invariance, <1>1, PTL DEF Spec, NilMeansDone
=============================================================================
