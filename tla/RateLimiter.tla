---------------------------- MODULE RateLimiter ----------------------------
(***************************************************************************)
(* The rate limiter of redis/ratelimit.go for one identifier.  AllowN and  *)
(* SlidingWindowAllowN are one Lua script each, which the server runs      *)
(* atomically; Reset is a pipeline of two commands.  The sliding script    *)
(* works with the clock reading its caller took before sending it, so the  *)
(* time it sees is up to MaxDelay behind the server's.                     *)
(*                                                                         *)
(* A score is represented by its age, and Tick makes everything older.  A  *)
(* script that go-redis sends twice is two requests here.                  *)
(***************************************************************************)
EXTENDS Integers, FiniteSets

CONSTANTS
  MaxAllowed,  \* maxReqs + burst
  Window,      \* window, in units of time
  N,           \* the numbers of requests callers ask for at once
  Caller,      \* goroutines that call Reset
  Reader,      \* goroutines that call GetStatus
  Rand,        \* what math.random(1000000) returns
  CanCollide,  \* math.random may repeat itself within one unit of time
  MaxDelay     \* how late a script can run after its caller read the clock

ASSUME RateConstants ==
  /\ MaxAllowed \in Nat
  /\ Window \in Nat \ {0}
  /\ N \subseteq Nat
  /\ CanCollide \in BOOLEAN
  /\ MaxDelay \in 0..(Window - 1)

VARIABLES
  count,     \* the fixed-window counter, NoKey if the key is absent
  cttl,      \* its time to live
  entries,   \* the members of the sorted set with the age of their score
  zttl,      \* its time to live
  resetting, \* resetting[c]: c has run the first DEL of Reset
  status,    \* status[g]: what g knows in GetStatus
  fixed,     \* history: fixed[a]: requests AllowN let pass a units ago
  sliding    \* history: the same for SlidingWindowAllowN

vars == <<count, cttl, entries, zttl, resetting, status, fixed, sliding>>

-----------------------------------------------------------------------------

NoKey == -1

(* No script purges by a clock further back than this.                      *)
Oldest == Window + MaxDelay

Age == 0..Oldest

(* Members are "now_ms:i:random"; two with the same score, i and random     *)
(* number are one.                                                          *)
Entry == [age : Age, i : Nat, rand : Rand]

Past == 0..(Window - 1)

Nothing == [a \in Past |-> 0]

(* The answer to GetStatus: Remaining, and ResetAt as the time until then.  *)
(* live is history: the window that was counted has not ended.              *)
Unasked == [pc |-> "idle", remaining |-> 0, reset |-> 0, live |-> FALSE]

Init ==
  /\ count = NoKey /\ cttl = 0
  /\ entries = {} /\ zttl = 0
  /\ resetting = [c \in Caller |-> FALSE]
  /\ status = [g \in Reader |-> Unasked]
  /\ fixed = Nothing
  /\ sliding = Nothing

Current == IF count = NoKey THEN 0 ELSE count

-----------------------------------------------------------------------------
(* AllowN.                                                                 *)

FaultyFits(n) == Current < MaxAllowed    \* n is not looked at

Fits(n) == Current + n <= MaxAllowed

FaultyWindowTTL == cttl                  \* INCRBY alone: no expiry

(* PEXPIRE only when the key is new, so a window is not prolonged.          *)
WindowTTL == IF count = NoKey THEN Window ELSE cttl

(* A request that does not fit changes nothing.                             *)
AllowN(n) ==
  /\ Fits(n)
  /\ count' = Current + n
  /\ cttl' = WindowTTL
  /\ fixed' = [fixed EXCEPT ![0] = @ + n]
  /\ UNCHANGED <<entries, zttl, resetting, status, sliding>>

-----------------------------------------------------------------------------
(* SlidingWindowAllowN for a caller whose clock reading is d old.           *)

FaultyKept(d) == {e \in entries : e.age < Window + d - 1}   \* min_time + 1

(* ZREMRANGEBYSCORE 0 now_ms - window_ms: what is left.                     *)
Kept(d) == {e \in entries : e.age < Window + d}

(* The members ZADD writes, one for each i, with random numbers r.          *)
Members(n, d, r) == {[age |-> d, i |-> i, rand |-> r[i]] : i \in 1..n}

SlidingAllowed(n, d) ==
  /\ Cardinality(Kept(d)) + n <= MaxAllowed
  /\ \E r \in [1..n -> Rand] :
       /\ CanCollide \/ Members(n, d, r) \cap Kept(d) = {}
       /\ entries' = Kept(d) \cup Members(n, d, r)
  /\ zttl' = IF entries' = {} THEN 0 ELSE Window
  /\ sliding' = [sliding EXCEPT ![0] = @ + n]
  /\ UNCHANGED <<count, cttl, resetting, status, fixed>>

(* A request that is refused purges the set all the same.                   *)
SlidingRefused(n, d) ==
  /\ Cardinality(Kept(d)) + n > MaxAllowed
  /\ entries' = Kept(d)
  /\ zttl' = IF entries' = {} THEN 0 ELSE zttl
  /\ UNCHANGED <<count, cttl, resetting, status, fixed, sliding>>

SlidingWindowAllowN(n, d) == SlidingAllowed(n, d) \/ SlidingRefused(n, d)

-----------------------------------------------------------------------------
(* GetStatus: GET and PTTL in one pipeline, which other clients' commands   *)
(* and the key's expiry can come between.                                   *)

WindowOver == [g \in Reader |-> [status[g] EXCEPT !.live = FALSE]]

Remaining == IF MaxAllowed > Current THEN MaxAllowed - Current ELSE 0

(* Without a key, or with one that has no expiry, a full window.            *)
PTTL == IF cttl > 0 THEN cttl ELSE Window

Counted(a) ==
  [a EXCEPT !.remaining = Remaining, !.live = (count # NoKey)]

Timed(a) == [a EXCEPT !.reset = PTTL]

FaultyReply(k, a) == IF k = 1 THEN Timed(a) ELSE Counted(a)

(* The reply to the k-th command: GET, then PTTL.                           *)
Reply(k, a) == IF k = 1 THEN Counted(a) ELSE Timed(a)

GetStatus(g) ==
  /\ status[g].pc = "idle"
  /\ status' = [status EXCEPT ![g] = [Reply(1, @) EXCEPT !.pc = "got"]]
  /\ UNCHANGED <<count, cttl, entries, zttl, resetting, fixed, sliding>>

GetStatusReturns(g) ==
  /\ status[g].pc = "got"
  /\ status' = [status EXCEPT ![g] = [Reply(2, @) EXCEPT !.pc = "told"]]
  /\ UNCHANGED <<count, cttl, entries, zttl, resetting, fixed, sliding>>

(* The caller is done with the answer, or got an error instead of one.      *)
Forget(g) ==
  /\ status[g].pc # "idle"
  /\ status' = [status EXCEPT ![g] = Unasked]
  /\ UNCHANGED <<count, cttl, entries, zttl, resetting, fixed, sliding>>

-----------------------------------------------------------------------------
(* Reset deletes the two keys one after the other; the limit starts anew.   *)

Reset(c) ==
  /\ ~ resetting[c]
  /\ count' = NoKey /\ cttl' = 0
  /\ fixed' = Nothing
  /\ status' = WindowOver
  /\ resetting' = [resetting EXCEPT ![c] = TRUE]
  /\ UNCHANGED <<entries, zttl, sliding>>

(* The second DEL, unless the connection broke before it.                   *)
ResetEnds(c) ==
  /\ resetting[c]
  /\ \/ entries' = {} /\ zttl' = 0 /\ sliding' = Nothing
     \/ UNCHANGED <<entries, zttl, sliding>>
  /\ resetting' = [resetting EXCEPT ![c] = FALSE]
  /\ UNCHANGED <<count, cttl, status, fixed>>

-----------------------------------------------------------------------------

Pass(n) == IF n > 0 THEN n - 1 ELSE 0

Shift(log) == [a \in Past |-> IF a = 0 THEN 0 ELSE log[a - 1]]

(* ResetAt is fixed when GetStatus returns.                                 *)
Later(a) ==
  [a EXCEPT !.reset = IF a.pc = "told" THEN Pass(@) ELSE @,
            !.live = @ /\ cttl # 1]

Older(e) == [e EXCEPT !.age = IF @ < Oldest THEN @ + 1 ELSE @]

Tick ==
  /\ cttl' = Pass(cttl)
  /\ count' = IF cttl = 1 THEN NoKey ELSE count
  /\ zttl' = Pass(zttl)
  /\ entries' = IF zttl = 1 THEN {} ELSE {Older(e) : e \in entries}
  /\ fixed' = Shift(fixed)
  /\ sliding' = Shift(sliding)
  /\ status' = [g \in Reader |-> Later(status[g])]
  /\ UNCHANGED resetting

Next ==
  \/ Tick
  \/ \E n \in N : AllowN(n) \/ \E d \in 0..MaxDelay : SlidingWindowAllowN(n, d)
  \/ \E c \in Caller : Reset(c) \/ ResetEnds(c)
  \/ \E g \in Reader : GetStatus(g) \/ GetStatusReturns(g) \/ Forget(g)

Spec == Init /\ [][Next]_vars

(* Time passes.                                                             *)
FairSpec == Spec /\ WF_vars(Tick)

-----------------------------------------------------------------------------
(* Properties.                                                             *)

TypeOK ==
  /\ count \in 0..MaxAllowed \cup {NoKey}
  /\ cttl \in 0..Window
  /\ entries \subseteq Entry
  /\ zttl \in 0..Window
  /\ resetting \in [Caller -> BOOLEAN]
  /\ status \in [Reader -> [pc : {"idle", "got", "told"}, live : BOOLEAN,
                            remaining : 0..MaxAllowed, reset : 0..Window]]
  /\ fixed \in [Past -> Nat]
  /\ sliding \in [Past -> Nat]

(* The requests let pass in the last w units of time.                       *)
Passed(log, w) ==
  LET sum[k \in 0..Window] == IF k = 0 THEN 0 ELSE sum[k - 1] + log[k - 1]
  IN sum[w]

(* A fixed window may be used up at its end and the next one at its start,  *)
(* but no stretch of time as long as a window sees more than that: AllowN   *)
(* lets at most twice the maximum pass, however the calls are spaced.       *)
FixedBound == Passed(fixed, Window) <= 2 * MaxAllowed

(* A window that was opened ends: requests never prolong it, and a caller   *)
(* that was refused is not locked out.                                      *)
WindowsEnd == []<>(count = NoKey)

(* As long as the window that GetStatus has counted lasts, its answer is an *)
(* upper bound: the window ends by ResetAt and at most Remaining requests   *)
(* still fit into it, although the pipeline's two replies may come from     *)
(* two windows.                                                             *)
StatusHolds ==
  \A g \in Reader :
    status[g].pc = "told" /\ status[g].live =>
      /\ cttl <= status[g].reset
      /\ MaxAllowed - Current <= status[g].remaining

(* With random numbers that differ, the sliding window lets at most the     *)
(* maximum pass in any stretch of time that is shorter than the window by   *)
(* the largest delay of a script: late scripts purge nothing too early and  *)
(* the key outlives its members.                                            *)
SlidingBound == Passed(sliding, Window - MaxDelay) <= MaxAllowed

(* "Total is the maximum number of requests allowed per window": no window  *)
(* sees more than that, also when requests arrive at the same time.         *)
TotalIsMaximum == Passed(sliding, Window) <= MaxAllowed
=============================================================================
