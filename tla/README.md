# TLA+ models of txova-go-db

txova-go-db is a Go library of database utilities: a PostgreSQL package (pool,
transactions, query builders, migrations, errors) and a Redis package (cache,
sessions, rate limits, distributed locks). This directory holds TLA+ models of
the parts with behaviour of their own, TLC configurations that check them, and
TLAPS proofs about seven of them. Line numbers are those of the source
tree; `PROJECT.json` maps every definition to the lines it stands for.

## Inventory

| Component | Source | State | Operations | Hard behaviour | Correct when |
|---|---|---|---|---|---|
| Distributed lock | redis/lock.go | key `lock:<resource>` = owner token with PX; in each `Lock`: `acquired`, `expiresAt` | Acquire, AcquireWithRetry, TryAcquire, WithLock, Extend, Release, Verify | late, lost and repeated commands; crashes; leases that end while their holder works | within their leases holders exclude each other; nobody ends another's lease; calls return; the lock is freed |
| Transaction manager | postgres/txmanager.go, tx.go | one transaction per call, attempt counter, a pooled connection | WithTx, nested WithTx, statements, savepoints, Commit, Rollback | retries, panics, lost COMMIT replies, nesting, exhausted pool | work applied at most once, no leaked transaction, bounded retries |
| Error classification | postgres/errors.go | none | FromPgError, mapSQLState, isRetryable | which failures are retried | conflicts are retryable, nothing else |
| Session store | redis/session.go | `session:<id>` with ExpiresAt; the set of a user's ids with its TTL | Create, Get (touch), Update, Extend, Delete, DeleteByUserID, ListByUserID, Count, cleanup goroutines | read-modify-write without transactions, pipelines cut in two, TTL read and written back, asynchronous cleanup | cleanup spares running sessions, sessions end, the index is not cut short |
| Rate limiter | redis/ratelimit.go | counter with PTTL; sorted set of requests | Allow(N), SlidingWindowAllow(N), Reset, GetStatus | edges of windows, clocks read before sending, members that collide | bounded number of requests in any stretch of time |
| Cache | redis/cache.go | keys with TTL | Get, Set, MSet, GetOrSet, Delete, DeleteByPattern, Expire | stale values stored late, scan and delete in batches | a pattern delete misses nothing, stale values go away |
| Query builders | postgres/query.go, insert.go, update.go, delete.go | the clauses collected so far | the fluent methods, Build | calls in any order, placeholders numbered across clauses | every placeholder is bound to its value, listed columns are on the allowlist |
| Connection pool | postgres/pool.go, conn.go | configuration; the connections in use; open, closing or closed | NewPool, Acquire, Exec, Query, Begin, Release, Close | more callers than connections, Close while they work, configurations at their limits | a connection is in use exactly while somebody has it, everybody is served or refused, Close returns |
| Migrations | postgres/migrate.go | the row of the version table, an advisory lock, the schema itself | NewMigrator, Up, Down, Steps, Force, Version, Close | several processes at once, failed and interrupted migrations, waits given up and granted later, pooled sessions, recovery by hand | a clean version is the true one, nil means done, the lock becomes free |
| Redis error classification | redis/errors.go | none | FromRedisError, IsNotFound | text of messages decides | only a missing key counts as a miss |
| Redis client | redis/client.go | configuration | constructors, Ping, Close | command retries (MaxRetries) | |

The four Redis components share nothing but the client: each has its own keys.
What the client contributes to all of them is that a command whose answer is
late is sent again, that a caller may give up while its command is still on its
way, and that a pipeline is not a transaction. The transaction manager calls the
pool (`BeginTx`), the Tx wrapper and the error classification, and competes for
connections with callers that use the pool directly. A Migrator takes one
connection of a pool for as long as it is open and otherwise meets other
processes only in the database. Query builders are used by callers only.

## Modules

| Module | What it is |
|---|---|
| `RedisLock` | clients, connections and the server of one lock |
| `LeasedMutex` | the abstract lock that `RedisLock` implements |
| `RedisLockProofs` | TLAPS proofs about `RedisLock` |
| `Pool` | the connection pool: configuration, users without transaction manager, Close |
| `TxManager`, `PgErrors` | `WithTx` over `Pool` and server; error codes and the retry decision |
| `AtMostOnce` | the abstract promise of `WithTx` that `TxManager` implements |
| `TxManagerProofs` | TLAPS proofs about `TxManager` and `Pool` |
| `SessionStore` | the session keys and the index of one user |
| `SessionStoreProofs` | TLAPS proofs about `SessionStore` |
| `RateLimiter` | both limiters for one identifier |
| `RateLimiterProofs` | TLAPS proofs about `RateLimiter` |
| `Cache`, `RedisErrors` | the cache in front of a data source; the classification of errors |
| `CacheProofs` | TLAPS proofs about `Cache` |
| `Migrator` | migrators of several processes and one database |
| `MigratorProofs` | TLAPS proofs about `Migrator` |
| `QueryBuilder` | the four builders: methods, validation, rendering |
| `QueryBuilderProofs` | TLAPS proofs about `QueryBuilder` |
| `MCRedisLock`, `MCTxManager`, `MCQueryBuilder` | symmetry sets and instances for TLC |

Each module has the state of its component as variables, one action for each
command a call sends or each step of a call between two points where others can
run, and nondeterminism for what the environment does. Time is relative in all
modules: a variable holds what remains of a time to live, and `Tick` takes one
unit from each.

### RedisLock

`holder` and `pttl` are the key, `net[k]` the command on its way on connection
`k`, and `cl[c]` a client: the point its call has reached, its token, whether
its `Lock` says acquired, and `budget`, the lease left by its own clock since it
sent the command that granted it (the code's `expiresAt`, counted from the
sending and not from the answer; while an Extend is in progress no more than
that Extend asks for). A lease is `exposed` if its Extend was sent while an
earlier Extend or Release of the same `Lock`, whose call had given up, was still
on its way; `Protected` is an unexposed lease that runs. `Exec` runs a command at the server at any
later moment, also after its caller has gone (`Fail`, `Crash`); `Lose` drops it
with the connection; `Resend` is go-redis' retry and can run a command twice.
The scripts of Release and Extend compare the token first. The retry loop of
`AcquireWithRetryAndTTL` is `SetNXTaken`, `Wake` and `GiveUp`. `WithLock`
releases on return; fn may take any time.

Left out: a lock TTL of zero or below a millisecond; goroutines that share one
`Lock` without synchronisation; the `Resource`, `Owner`, `ExpiresAt`, `TTL`
accessors, which change nothing; fail-over of the Redis server.

### Pool and TxManager

`Pool` creates the pool from a `DatabaseConfig` and options (`Clamped`,
`FromDatabaseConfig`, `Validate`; the int32 has the width `MaxInt32`), and has
`held`, the set of holders of a connection. Users acquire, may open a
transaction of their own, and release. After `Close` the pool hands out nothing,
and `CloseReturns` waits for `held` to be empty. `TxManager` extends `Pool`: a
call between `BeginTx` and the end of its transaction is a holder, so the two
modules' next-state relations share `pool` and `held`. Callers and users wait at
the same pool; only the contexts of users are assumed to end, so that whether
calls end depends on the pool serving them.

A caller has a stack of frames, one for each `WithTx` that opened a transaction
of its own; a frame has the point of `executeTx` it has reached, the attempt, and
the state of the transaction at the server. fn is the environment: it runs
statements that fail (which aborts the transaction) through Exec or QueryRow,
sets savepoints, nests or joins, returns any error it has met or its own, or
panics. COMMIT can fail with a conflict, or lose its connection before or after
it took effect. `Retry` is the loop of `executeWithRetry`; the delay before the
next attempt is computed by `calculateRetryDelay` with arithmetic that wraps
around at `MaxInt64`, and the set of its results is what the random jitter
allows. `MaxShift` is the code's 30, a parameter so that overflow is near.
Left out: `runtime.Goexit` in fn, an fn that calls Commit on its own Tx, a
negative `MaxRetries` (no attempt is made and the call fails).

### SessionStore

`sess[s]` is the key of a session with the ExpiresAt stored in it, `index` and
`ittl` the set of ids. `job[p]` is the call of a caller between two commands,
`hand[p]` a `*Session` it was given and may pass to Update (`Keeper` bounds the
callers that keep one). `job[p].read` is history: what is left of the time to
live that the index had when the call asked for it. Conversions are modelled,
with `Sec` units of time in a second: TTL answers in whole seconds, rounded to
the nearest (`TTLReply`), EXPIRE sends whole seconds, rounded down
(`formatSec`), `time.Until` of a time that has passed leads to the default TTL
(`updateTTL`). Left out: `Exists` (a read), the data a session carries, and more
than one user (users share no key). Session ids are a finite supply and never
used twice, as in the code; when all are used up the model can come to rest,
which is why `SessionConcurrent` does not check for deadlock.

### RateLimiter

The two scripts are atomic; the sliding one is given a clock reading that is up
to `MaxDelay` old. Members of the sorted set are told apart by score, number
within the request and random number. `GetStatus` is two commands of one
pipeline; `status[g]` is what its caller knows, with the history whether the
window it counted is still the current one. Left out: negative n and windows
below a millisecond (PEXPIRE 0 deletes the counter, and nothing is limited).

### Cache

A value is the version of the source it was computed from. A caller that
changes the source deletes the key afterwards, as the package's documentation
suggests; that Delete can fail. `Scan` visits each matching key once at any
moment during the scan, which is what SCAN guarantees for keys that stay. The
reply to GET is a hit, redis.Nil or one of the errors a command can fail with,
and goes through `FromRedisError`: only a missing key leads to `compute`. Left
out: JSON encoding, the key builder, MGet, Exists and TTL (reads), sub-second
times.

### Migrator

`table` is the row of schema_migrations, `schema` and `partial` what the
migrations have really done, `lock` and `queued` the advisory lock. A call of
Up, Down, Steps or Force requests the lock (`Request`), runs migrations one by
one (`BeginMigration` sets the version and the dirty mark, `RunBody` or
`BodyFails`, `MarkClean`), and unlocks; `Returned` is the code's treatment of
ErrNoChange. All of the run itself is golang-migrate and marked external: its
lock, which a waiting call gives up on while the server still grants it to the
session, and the two writes around each migration. The session is a connection
of the process's pgxpool (`stdlib.OpenDBFromPool`, migrate.go:110), so `Close`
waits for a pending request and then gives the live connection back, with any
lock that was granted to nobody. `left` says where that lock is: in the pool,
where it stays until the pool ends the connection (`Retire`), or with a later
Migrator of the same process that was given this very connection, gets the lock
at once and does not free it with its own Unlock. `Crash` ends a process at any
point, and its connections. `Repair` and `ForceVersion` are an operator who makes a half-migrated schema
whole and then forces the version it is at; Force with any other version makes
the version whatever the operator says, and no property could hold. The
contexts of Up, Down and Steps are not used by the code, so no call is
cancelled, and `LockTimeout` of the configuration is not handed on.

### QueryBuilder

The state is one builder; each method call is an action, and `Valid` and
`Build` are operators of the builder. A condition is the sequence of its `?`
marks, each named by the value its caller means for it, and the SQL text is the
sequence of its placeholders. Callers give one value for each mark; a `?` in a
literal or a jsonb operator breaks that, and the code has no way to escape one.
The other text of a condition is the caller's, also the column argument of
WhereIn, WhereNotIn, WhereLike, WhereILike, WhereNull, WhereNotNull and
WhereBetween: it is written into the SQL and checked against no allowlist
(query.go:165-225), and the model leaves it out. `TrimSpace` is a parameter, a
function on the columns; Build checks GROUP BY and ORDER BY entries without the
space around them and writes them with it. A caller may stop at any time, so deadlock is not checked.

The loops of `buildConditionClauses`, `buildJoinClauses` and the WHERE of UPDATE
and DELETE are one recursive function, `first[n]` being what the first `n`
clauses give; `Write` is the body of the loop. SET and VALUES number one
placeholder for each value, which is what a clause with a mark for each does,
and use the same function.

## Runs

TLC finishes each of them within about three minutes on two workers. The safety
run of the lock uses symmetry; where that module chooses a token or a
connection, it is one that is free and occurs nowhere else in the state, so the
choice does not break the symmetry.

| Run | Question | Bounds, and why they are enough | States |
|---|---|---|---|
| LockSafety | exclusion, honoured leases, no false loss, refinement of `LeasedMutex`, all for leases that are not exposed | 2 clients, 2 connections so that a late command overtakes a new one, 3 tokens so that a client comes back with a new one, one resend, Extend with the TTL, which is longer than what is left of a lease, and with zero; the theorems below lift all of it to any bounds | 1.2M |
| LockLiveness | calls return; the lock is freed | 2 clients and retries, 1 connection | 53k |
| TxSafety | at most once (`AtMostOnce`), no leaked connection or transaction, bounded delays, conflicts use up all attempts | one caller, two levels of nesting, a user, two connections, all kinds of failure; three retries with `MaxShift` 2 and a width at which the third doubling overflows | 344k |
| TxPool | calls end; Close returns | two callers and a user with one or two connections, so that each waits for the others; valid and invalid configurations at and beyond the limits of the int32; one retry | 97k |
| SessionConcurrent | cleanup spares running sessions; sessions end; what the index loses to rounding | two callers and one id, since the races are about one session; broken pipelines, one resend, half seconds so that rounding matters; one caller that keeps Session values for Update | 1.4M |
| RateBounds | bounds on requests, windows end, GetStatus is an upper bound | maximum 2 asked for in portions of 1 and 2, a window of 4, delays up to 2, one reader; two random numbers suffice for two members | 838k |
| CacheSafety | pattern deletes miss nothing; stale values go away | two callers, three keys of which two match, batches of two, so that a batch is full, partly full and empty at the end | 915k |
| QueryBinding | placeholders bound; allowlist | four calls, so that JOIN, WHERE, HAVING and a repetition come in any order; up to two values or columns each; columns on and off the allowlist, one with space around it, `*` and the empty name | 6.6M |
| Migrations | a clean version above 0 is true, nil means done, the lock is freed | two processes, three migrations, steps of 1, 2 and beyond the end in both directions | 41k |

Three runs show that the code does not do what a line of the repository says;
`PROJECT.json` quotes the lines.

- `TxCommitConflict`: a serialization failure reported by COMMIT is wrapped as a
  connection error and not retried.
- `SessionIndexShrinks`: one caller whose calls take no time, and a second of
  three units. A session with six units, and after two of them another with
  three: TTL answers one second for the four units left, so EXPIRE leaves the
  index three, and it ends before the first session. The comments at
  session.go:182 and :413 promise the opposite.
- `RateCollision`: requests of the same millisecond can be the same member of
  the sorted set and are counted once. `SlidingBound` is therefore claimed for
  random numbers that differ (`CanCollide = FALSE`).

### What the properties leave out, and why

Places where a stronger property would be wanted and the code does not provide
it. The models contain the behaviour; the properties are worded around it.

- fn of `WithLock` runs on when the lease has ended, so `MutualExclusion` is
  about leases and not about fn (USAGE.md: "Exclusive access guaranteed").
- An Extend whose call has timed out can still run after a later Extend of the
  same `Lock`, and sets the time to live back to its own argument or, with zero,
  deletes the key. `expiresAt` (lock.go:293) then promises more than the key
  has, another client may acquire it, and the holder learns of it only from its
  next Extend or Verify. TLC finds this when the lease properties are stated
  without `exposed`: Extend A times out, Extend B is answered, A runs. They are
  therefore about leases whose Extend overtook nothing.
- `Release` leaves `acquired` true when the server says the key is not its own,
  so `IsHeld` may be wrong after it; Extend and Verify clear it.
- A SETNX that is sent again can be refused because of its own first copy; the
  caller is told that another owner has the lock, which is free again only after
  the TTL (`NeverStuck`).
- fn has no context that holds its transaction, so a nested `WithTx` opens a
  second one; with a full pool such callers wait for each other until their
  contexts end. `TxPool` has no nesting for this reason.
- `DelayBounded` allows five quarters of `RetryMaxDelay`, which txmanager.go:40
  and USAGE.md:965 call the maximum: the jitter is added after the cap, and the
  comment at txmanager_test.go:191 expects it. That the delay is above zero needs a
  base delay above zero, which `TxConstants` assumes.
- A conflict that shows in `Row.Scan` carries no `*Error` and is not retried.
- An Update, a touching Get or an Extend that read a session before it was
  deleted writes it again; such a session, or one written after its ExpiresAt,
  can lose its index entry to a cleanup, so `CleanupSparesLive` is about
  sessions in their first life. DeleteByUserID removes index entries of sessions
  that were created after its SMEMBERS, a broken pipeline leaves a session
  without entry or an index without expiry, and the index can expire between
  SADD and EXPIRE: no property says that the index is complete.
- CreateWithTTL and Extend write back a TTL that was rounded and that another
  call may have raised in the meantime, and so shorten the index.
  `IndexNeverShrinks`, which is what the comments say, is violated;
  `IndexLosesLittle` says that the rounding takes less than half a second, and
  leaves out an index that another call has prolonged between the TTL and the
  EXPIRE. With the half seconds of `SessionConcurrent` rounding loses nothing;
  the theorem is about a second of any length.
- Update after ExpiresAt gives a session the default TTL, so `SessionsEnd`
  excepts sessions that somebody keeps writing.
- GetOrSet computes in all callers that miss together. In cluster mode SCAN
  visits one node. `Converges` needs entries with a TTL.
- A Down that fails in the first migration leaves the version -1 and dirty, which
  `Version` reports as (0, false); the next Up fails. `VersionIsTrue` is about
  versions above 0. `Force(0)` is not the same as `Force(-1)`: there is no
  migration 0, and the next Up fails with "file does not exist".
- An advisory lock that is granted after its call has given up stays with the
  connection, and `Close` puts that back into the pool. No other process can
  migrate until the pool ends the connection, by default after half an hour
  without use or an hour in all (pool.go:63), or with the process; `LockIsFreed`
  says no more than that it does end.
- `FromDatabaseConfig` leaves `MinConns` at 5, so a `MaxConnections` below 5 is
  refused by `Validate` unless an option lowers `MinConns`.
- A `RetryBaseDelay` above 17 seconds overflows with 30 doublings in spite of the
  bound; `TxConstants` excludes it.
- DeleteBuilder does not look up its RETURNING columns in the allowlist, although
  `DeleteWithAllowlist` is said to create a builder "with column validation"
  (delete.go:28), and no builder looks up columns inside conditions.
  `AllowlistHonoured` is about the lists of SELECT, INSERT and UPDATE.
- WhereIn with no value adds no condition (the tests ask for it).

### Fairness

- `RedisLock`: time passes; a command on a connection is run or lost; a call
  that waits gets its answer or its timeout (go-redis has read and write
  timeouts, the loop a timer). Nothing is assumed of callers or of fn.
- `TxManager`: the manager's own steps and the return of fn. `BeginTx` is
  strongly fair because pgxpool hands connections to waiters in the order they
  came. fn must return if it can again and again, otherwise no call would end.
  Users of the pool release what they acquired, and Close returns when it can.
- `Migrator`: a run goes on, a wait for the lock ends (golang-migrate has a
  timeout), the server grants a lock that is free, and whoever has created a
  Migrator closes it at some time between two calls (`defer migrator.Close()`),
  even if it makes calls again and again (strong fairness). `Retire` is strongly
  fair too: pgxpool ends a connection that is older than `MaxConnLifetime` when
  it finds it idle or gets it back, so one that is taken from the pool again and
  again is also ended. Without this assumption `LockIsFreed` does not hold.
- `SessionStore`, `Cache`: time passes, a call in progress goes on or fails, and
  goroutines are scheduled. Callers may stop between calls.
- `RateLimiter`: time passes.

## Proofs

`RedisLockProofs` proves, for any sets of clients, connections and tokens, any
TTLs, any retry count and any number of resends:

| Theorem | Statement |
|---|---|
| `TypeCorrect` | `Spec => []TypeOK` |
| `LeaseIsHonoured` | `Spec => []LeaseHonoured`, for leases that are not exposed |
| `LockIsExclusive` | `Spec => []MutualExclusion` |
| `LossIsReal` | `Spec => []NoFalseLoss` |
| `LockImplementsLeasedMutex` | `Spec => Abstract!Spec` |

Assumptions are those named in `RedisLock` (`LockConstants`): positive TTLs (Extend may be given any),
natural counts, and `NoOwner`, `NoConn` outside their sets. That tokens of
running calls differ is not assumed but follows from `generateOwner` choosing an
unused one, which stands for 128 random bits.

The argument is one inductive invariant, `IInv`. `LeaseHonoured` alone is not
inductive: a step that runs a command needs to know what commands can be on
their way. Its parts are

- `TypeOK`, and `KeyExpires`: a key that exists has a time to live;
- `RequestTimes`: the times in requests are those of the constants;
- `Shapes`: the point a client has reached fits its other fields;
- `OwnConn`: a request a client waits for is on the client's own connection;
- `OwnersDiffer`: no two clients, and no client and a stray request of another,
  use one token, so that the comparison in the scripts protects a holder;
- `Leases`: an answer not yet read stands for a lease that the server still
  grants for at least what the client's clock leaves, and no command on its way
  will end it sooner, unless the lease is exposed; and the same for holders;
- `NoFalseLoss`, which the answers of Extend and Verify need.

Each action has a lemma that it preserves `IInv`; the refinement maps the lease
of a token to the time to live of the key if it holds that token, and the
clients inside to those that are within their lease. With `IInv` every step is a
grant, a renewal, an end, a passing of time or a stutter of `LeasedMutex`.

`MigratorProofs` proves, for any number of processes and of migrations, from
`MigratorConstants`:

| Theorem | Statement |
|---|---|
| `TypeCorrect` | `Spec => []TypeOK` |
| `VersionTrue` | `Spec => []VersionIsTrue`, for versions above 0 |
| `NilDone` | `Spec => NilMeansDone` |

`VersionIsTrue` is not inductive: whether a run may take the mark off depends on
what it has done since it set it. The parts of this `IInv` are

- `TypeOK`, and `RunnerHasLock`: whoever runs migrations, or has yet to unlock,
  has the lock, and not in a connection that is in the pool, so there is one run
  at a time;
- `CleanIsTrue`: without the dirty mark the schema is at the version of the
  table, and whole;
- `MarkedWhileRunning`: the mark is set from before a body runs until after it;
- `StepsCounted`: the schema is where the call found it, moved by the migrations
  it has run; this also bounds the counter in `TypeOK`;
- `ForceIsCurrent`: a Force that waits for the lock still finds the schema as it
  was when it was called, since the dirty mark keeps every other run away;
- `NilIsDone`: the promise of `NilMeansDone`, from the end of the run until the
  call returns, and `CallsHaveNames`.

Each action, or what several actions have in common (a call that is over, a call
that asks for the lock), has a lemma.

`TxManagerProofs` proves, for any callers, users of the pool, depth of nesting
and number of retries, from `TxConstants` and the assumptions of `Pool`:

| Theorem | Statement |
|---|---|
| `TypeCorrect` | `Spec => []TypeOK` |
| `NothingLeaks` | `Spec => []NoLeak` |
| `DelaysBounded` | `Spec => []DelayBounded` |
| `RetriesExhausted` | `Spec => ConflictsExhaustRetries` |
| `Refinement` | `Spec => WorkAtMostOnce`, that is the specification of `AtMostOnce` |

`NoLeak` is not inductive: that the end of a nested call gives back one
connection and not that of the call around it depends on what the calls below
the last one are doing. `IInv` adds

- `Stack`: the calls of a goroutine are a stack, all but the last are in their
  fn, and each has a transaction exactly from `BeginTx` until it ends or waits;
  a call that waits has an attempt left and a bounded delay;
- `Uncommitted`: a call that runs has committed nothing;
- `Balanced`: the pool's view of who has a connection and the callers' agree.

Every action of a call is shown to be of one of three kinds, `Stays`, `Ends` and
`Enters`, and each kind keeps `IInv` and is a step or a stutter of `AtMostOnce`.
The delay is bounded because the attempt is bounded before it becomes an
exponent; `TxConstants` asks that the base delay can be doubled that often.

`CacheProofs` proves, from `CacheConstants`, `Spec => []TypeOK` (`TypeCorrect`)
and `Spec => PatternDeletes` (`PatternIsDeleted`) for any keys, callers and
batch size. `PatternDeletes` is about the last step of a scan. The invariant
`Collected` holds throughout it: what the scan has come to and nobody has set
since is gone, or collected and not yet deleted.

`RateLimiterProofs` proves, from `RateConstants`, for any maximum, window, delay
and portions:

| Theorem | Statement |
|---|---|
| `TypeCorrect` | `Spec => []TypeOK` |
| `FixedIsBounded` | `Spec => []FixedBound` |
| `StatusIsBound` | `Spec => []StatusHolds` |
| `SlidingIsBounded` | `~ CanCollide` implies `Spec => []SlidingBound` |
| `TotalIsKept` | `~ CanCollide` and `MaxDelay = 0` imply `Spec => []TotalIsMaximum` |

The last one says what the violation of `RateCollision` needs: members that
collide, or clocks that are read too early. The bounds compare a sum over the
history with a counter or a cardinality, and are inductive only when they are
stated for the right part of the history:

- `FixedWindow`: the counter is the sum over the units since its window began,
  and before these at most one maximum passed (`Alive`: a counter has a time to
  live);
- `Stored`: for each `w` up to `Window - MaxDelay`, what passed in the last `w`
  units is at most the number of members younger than `w + MaxDelay`, and there
  are never more members than the maximum. One `w` would not do, because `Tick`
  turns the statement for `w` into the one for `w + 1`;
- `Quiet`: the key outlives its members;
- `StatusKnown`: while the window lasts in which `GetStatus` has read the
  counter, its answer bounds what still fits.

`Passed` is a recursive function. What it computes is proved by induction with
the property as a set of numbers (`UpTo`), from the library's facts that `<` is
well-founded on the naturals and that non-empty sets have a minimal element.

`SessionStoreProofs` proves, from `SessionConstants`, for any sessions, callers,
goroutines, times and length of a second, with slow calls, failures and resent
pipelines:

| Theorem | Statement |
|---|---|
| `TypeCorrect` | `Spec => []TypeOK` |
| `CleanupIsSafe` | `Spec => []CleanupSparesLive` |
| `IndexOnlyRounds` | `Spec => IndexLosesLittle` |

Its invariant follows an id from the index into the calls and from there to a
goroutine: `StoreOK`, what is in the index runs or has run, because the SET of a
pipeline comes before its SADD; `JobsOK`, the same for the ids a call remembers,
and those it found missing have ended; `CleanupOK`, which is slightly more than
the property. For the index, `JobsOK` also says that a call about to send EXPIRE
sends less than half a second less than what is left of the time to live it was
told of (`Reads`). Three facts about division carry it: the reply is within half
a second of the truth (`RoundingIsSmall`), EXPIRE with at least that many whole
seconds sets at least them (`FormatKeeps`), and time makes the difference
smaller (`ReadsLater`).

`QueryBuilderProofs` proves, from `QueryConstants` (there are four kinds of
builder, the bounds are natural numbers), for any columns, tables and allowlist,
any number of calls and of values in a call:

| Theorem | Statement |
|---|---|
| `TypesKept` | `Spec => []TypeOK` |
| `AllowlistKept` | `Spec => []AllowlistHonoured` |
| `StatementsBind` | `Spec => []PlaceholdersBind` |

`AllowlistHonoured` is about all lists of columns, but each Build validates only
those of its own statement (and a DELETE none, which the property leaves out).
The invariant therefore adds `Unused`: a builder has
no method that fills another statement's list. `PlaceholdersBind` needs that
every clause has a mark for each argument (`Clause`), and an argument about what
the rendering computes. A fragment is `Bound` to a number if its placeholders
count up from there, one for each argument and meant for it. An empty fragment
is; a fragment and one that begins where it ends are together (`JoinedBound`);
a clause is, and so is each further round of the loop (`WriteBound`); by
induction over the clauses (`UpTo`, as for the rate limiter) so is the whole
list (`ClausesBound`), whatever number it starts with, which is what JOIN, WHERE
and HAVING, or SET and WHERE, hand on. `RenderSteps` shows that the recursion
has a solution, without which the function would be unspecified.
`ClausesCounted` is the same induction for the number of values of an INSERT.

TLC has checked each of these invariants on the bounds of the component's runs.

Every invariant, action property and refinement that a passing run checks is
proved. Only model-checked is what is about time that must pass or calls that
must return (`CallsReturn`, `NeverStuck`, `CallsEnd`, `CloseEnds`,
`SessionsEnd`, `WindowsEnd`, `Converges`, `LockIsFreed`): liveness and fairness
are outside what TLAPS 1.4.5 can prove.

## Not modelled

- The Redis client (redis/client.go) is configuration, validation of single
  fields and delegation to go-redis. What it contributes to the behaviour is in
  the other modules: commands that are sent again, and errors. Cluster mode is
  not: SCAN would visit one node only and a DEL of several keys be refused, so
  `Cache` is about one server.
- Of the error packages the constructors, `Is`, `As`, formatting and the mapping
  to core codes, which nothing in the library reads back.
- Statements of a connection (postgres/conn.go) are those of a transaction with
  other names; interfaces.go declares types.
- Logging, metrics and `Stat`.

## Plan

In this order; done so far: 1 to 10.

1. `RedisLock` with `LeasedMutex`: the component with the most distributed
   behaviour. 2. `TxManager` with `PgErrors` and `AtMostOnce`. 3. `SessionStore`.
4. `RateLimiter`. 5. `Cache`. 6. `QueryBuilder`. 7. `Pool`, composed with
   `TxManager`; retry delays; `GetStatus`. 8. `Migrator`.
9. Proofs about the lock, the migrations, the transaction manager, the cache,
   the rate limiter and the session store: all their safety properties.
10. Proofs about `QueryBuilder`, with its loops as a recursive function:
    `AllowlistHonoured`, then `PlaceholdersBind` along the rendered fragments.
11. The nodes of a cluster in `Cache`.
