------------------------- MODULE RateLimiterProofs -------------------------
(***************************************************************************)
(* Proofs about RateLimiter, for any maximum, window, delay and numbers of *)
(* callers.                                                                *)
(*                                                                         *)
(* The bounds compare sums over a history with a counter and with the      *)
(* cardinality of a set.  For the fixed window the counter is the sum over *)
(* the part of the history that its window covers, and what lies before it *)
(* is one earlier window at most.  For the sliding window the sum over the *)
(* last w units is at most the number of members younger than              *)
(* w + MaxDelay, for each w at once: a request enters with the age its     *)
(* script's clock is behind by, and then ages with the history.            *)
(*                                                                         *)
(* Sums are recursive functions.  What they compute is proved from the     *)
(* well-foundedness of the natural numbers, with the property as a set T   *)
(* of numbers (UpTo).                                                      *)
(***************************************************************************)
EXTENDS RateLimiter, FiniteSetTheorems, TLAPS

-----------------------------------------------------------------------------
(* The inductive invariant.                                                *)

(* A counter has a time to live.                                            *)
Alive == count = NoKey <=> cttl = 0

(* The counter has counted what passed since its window began, and before   *)
(* that at most the maximum passed.                                         *)
FixedWindow ==
  /\ count = NoKey => fixed[0] = 0 /\ Passed(fixed, Window) <= MaxAllowed
  /\ count # NoKey =>
       /\ Passed(fixed, Window - cttl + 1) = count
       /\ Passed(fixed, Window) <= count + MaxAllowed

(* While the window it was taken in lasts, what GetStatus has read is an    *)
(* upper bound.                                                             *)
StatusKnown ==
  \A g \in Reader : status[g].pc # "idle" /\ status[g].live =>
    /\ count # NoKey
    /\ MaxAllowed - count <= status[g].remaining
    /\ status[g].pc = "told" => cttl <= status[g].reset

(* The members of E whose score is less than a old.                         *)
Recent(E, a) == {e \in E : e.age < a}

(* The set never has more members than may pass.  Each request is in it     *)
(* with a score at most MaxDelay older than itself, at least for as long as *)
(* that score is less than a window old.                                    *)
Stored ==
  /\ IsFiniteSet(entries)
  /\ Cardinality(entries) <= MaxAllowed
  /\ ~ CanCollide =>
       \A w \in 0..(Window - MaxDelay) :
         Passed(sliding, w) <= Cardinality(Recent(entries, w + MaxDelay))

(* The set expires a window after the last request that was let pass.       *)
Quiet ==
  zttl > 0 => \A a \in Past : a < Window - zttl => sliding[a] = 0

IInv == TypeOK /\ Alive /\ FixedWindow /\ StatusKnown /\ Stored /\ Quiet

-----------------------------------------------------------------------------
(* Sums.                                                                   *)

(* Induction up to m.                                                       *)
LEMMA UpTo ==
  ASSUME NEW m \in Nat, NEW T, 0 \in T,
         \A n \in 0..(m - 1) : n \in T => n + 1 \in T
  PROVE  0..m \subseteq T
<1> DEFINE R == OpToRel(<, Nat)
           Bad == (0..m) \ T
<1>1. SUFFICES ASSUME Bad # {} PROVE FALSE
  OBVIOUS
<1>2. IsWellFoundedOn(R, Nat)
  BY NatLessThanWellFounded
<1>3. Bad \subseteq Nat
  OBVIOUS
<1>4. PICK x \in Bad : \A y \in Bad : ~ (<<y, x>> \in R)
  <2> HIDE DEF R, Bad
  <2> QED
    BY <1>1, <1>2, <1>3, WFMin
<1>5. \A y \in Bad : ~ (y < x)
  <2> HIDE DEF Bad
  <2> QED
    BY <1>3, <1>4 DEF OpToRel
<1>6. x - 1 \in 0..(m - 1) /\ x - 1 < x
  OBVIOUS
<1>7. x - 1 \in T
  BY <1>5, <1>6
<1>8. (x - 1) + 1 \in T
  BY <1>6, <1>7
<1> QED
  BY <1>8

(* The function that Passed defines.                                        *)
Sum(log) == CHOOSE sum :
  sum = [k \in 0..Window |-> IF k = 0 THEN 0 ELSE sum[k - 1] + log[k - 1]]

(* There is a function that satisfies the recursion of Passed, so that the  *)
(* CHOOSE behind a recursive function has something to choose.              *)
LEMMA SumExists ==
  ASSUME NEW log \in [Past -> Nat]
  PROVE  \E f : f = [k \in 0..Window |->
                       IF k = 0 THEN 0 ELSE f[k - 1] + log[k - 1]]
<1> DEFINE Good(f, n) == /\ f \in [0..n -> Nat] /\ f[0] = 0
                         /\ \A k \in 1..n : f[k] = f[k - 1] + log[k - 1]
           T == {n \in 0..Window : \E f : Good(f, n)}
<1>1. 0 \in T
  <2>1. Good([k \in 0..0 |-> 0], 0)
    OBVIOUS
  <2> HIDE DEF Good
  <2> QED
    BY <2>1, RateConstants
<1>2. ASSUME NEW n \in 0..(Window - 1), n \in T PROVE n + 1 \in T
  <2>1. PICK f : Good(f, n)
    BY <1>2
  <2> DEFINE g == [k \in 0..(n + 1) |->
                     IF k = n + 1 THEN f[n] + log[n] ELSE f[k]]
  <2>2. log[n] \in Nat /\ f[n] \in Nat
    BY <2>1 DEF Past
  <2>3. g \in [0..(n + 1) -> Nat] /\ g[0] = 0
    BY <2>1, <2>2
  <2>4. ASSUME NEW k \in 1..(n + 1) PROVE g[k] = g[k - 1] + log[k - 1]
    BY <2>1
  <2>5. n + 1 \in 0..Window
    BY RateConstants
  <2> HIDE DEF g
  <2>6. Good(g, n + 1)
    BY <2>3, <2>4
  <2> HIDE DEF Good
  <2> QED
    BY <2>5, <2>6
<1>3. Window \in T
  <2> HIDE DEF T
  <2>1. 0..Window \subseteq T
    BY <1>1, <1>2, UpTo, RateConstants
  <2> QED
    BY <2>1, RateConstants
<1>4. PICK f : Good(f, Window)
  BY <1>3
<1>5. f = [k \in 0..Window |-> IF k = 0 THEN 0 ELSE f[k - 1] + log[k - 1]]
  BY <1>4
<1> QED
  BY <1>5

(* The two equations of Passed, and that its values are natural numbers.    *)
LEMMA PassedSteps ==
  ASSUME NEW log \in [Past -> Nat]
  PROVE  /\ Passed(log, 0) = 0
         /\ \A k \in Past : Passed(log, k + 1) = Passed(log, k) + log[k]
         /\ \A k \in 0..Window : Passed(log, k) \in Nat
<1>1. \A k : Passed(log, k) = Sum(log)[k]
  BY DEF Passed, Sum
<1>2. Sum(log) = [k \in 0..Window |->
                    IF k = 0 THEN 0 ELSE Sum(log)[k - 1] + log[k - 1]]
  BY SumExists DEF Sum
<1>3. Sum(log)[0] = 0
  BY <1>2, RateConstants
<1>4. \A k \in Past : Sum(log)[k + 1] = Sum(log)[k] + log[k]
  BY <1>2, RateConstants DEF Past
<1> DEFINE T == {k \in 0..Window : Sum(log)[k] \in Nat}
<1>5. 0..Window \subseteq T
  <2>1. 0 \in T
    BY <1>3, RateConstants
  <2>2. ASSUME NEW n \in 0..(Window - 1), n \in T PROVE n + 1 \in T
    BY <1>4, <2>2, RateConstants DEF Past
  <2> HIDE DEF T
  <2> QED
    BY <2>1, <2>2, UpTo, RateConstants
<1> QED
  BY <1>1, <1>3, <1>4, <1>5

(* A longer stretch of time sees no fewer requests.                         *)
LEMMA PassedGrows ==
  ASSUME NEW log \in [Past -> Nat], NEW v \in 0..Window, NEW w \in 0..v
  PROVE  Passed(log, w) <= Passed(log, v)
<1> DEFINE P(k) == Passed(log, k)
           T == {k \in 0..Window : w <= k => P(w) <= P(k)}
<1>1. /\ \A k \in Past : P(k + 1) = P(k) + log[k]
      /\ \A k \in 0..Window : P(k) \in Nat
  BY PassedSteps
<1> HIDE DEF P
<1>2. 0 \in T
  BY <1>1, RateConstants
<1>3. ASSUME NEW n \in 0..(Window - 1), n \in T PROVE n + 1 \in T
  <2>1. n \in Past /\ n \in 0..Window /\ n + 1 \in 0..Window
        /\ w \in 0..Window
    BY RateConstants DEF Past
  <2>2. P(n + 1) = P(n) + log[n] /\ log[n] \in Nat /\ P(n) \in Nat
        /\ P(w) \in Nat
    BY <1>1, <2>1
  <2>3. w <= n \/ w = n + 1 \/ w > n + 1
    OBVIOUS
  <2> QED
    BY <1>3, <2>1, <2>2, <2>3
<1>4. 0..Window \subseteq T
  <2> HIDE DEF T
  <2> QED
    BY <1>2, <1>3, UpTo, RateConstants
<1>5. v \in T
  BY <1>4
<1> QED
  BY <1>5 DEF P

(* A history that has got older.                                            *)
LEMMA ShiftTypes ==
  ASSUME NEW log \in [Past -> Nat] PROVE Shift(log) \in [Past -> Nat]
<1>1. \A a \in Past : a # 0 => a - 1 \in Past
  BY RateConstants DEF Past
<1>2. \A a \in Past : (IF a = 0 THEN 0 ELSE log[a - 1]) \in Nat
  BY <1>1
<1> QED
  BY <1>2 DEF Shift

(* A unit of time later everything is a unit further back.                  *)
LEMMA PassedShifts ==
  ASSUME NEW log \in [Past -> Nat], NEW w \in Past
  PROVE  Passed(Shift(log), w + 1) = Passed(log, w)
<1> DEFINE P(k) == Passed(log, k)
           S(k) == Passed(Shift(log), k)
           T == {k \in 0..(Window - 1) : S(k + 1) = P(k)}
<1>1. Shift(log) \in [Past -> Nat]
  BY ShiftTypes
<1>2. /\ Shift(log)[0] = 0
      /\ \A k \in 1..(Window - 1) : Shift(log)[k] = log[k - 1]
  BY RateConstants DEF Shift, Past
<1>3. /\ P(0) = 0 /\ \A k \in Past : P(k + 1) = P(k) + log[k]
      /\ S(0) = 0 /\ \A k \in Past : S(k + 1) = S(k) + Shift(log)[k]
      /\ \A k \in 0..Window : P(k) \in Nat /\ S(k) \in Nat
  BY <1>1, PassedSteps
<1> HIDE DEF P, S
<1>4. 0 \in T
  <2>1. 0 \in Past /\ 0 \in 0..(Window - 1)
    BY RateConstants DEF Past
  <2>2. S(0 + 1) = S(0) + Shift(log)[0]
    BY <1>3, <2>1
  <2> QED
    BY <1>2, <1>3, <2>1, <2>2
<1>5. ASSUME NEW n \in 0..(Window - 2), n \in T PROVE n + 1 \in T
  <2>1. n \in Past /\ n + 1 \in Past /\ n + 1 \in 1..(Window - 1)
    BY RateConstants DEF Past
  <2>2. S((n + 1) + 1) = S(n + 1) + Shift(log)[n + 1]
    BY <1>3, <2>1
  <2>3. Shift(log)[n + 1] = log[n]
    BY <1>2, <2>1
  <2>4. P(n + 1) = P(n) + log[n]
    BY <1>3, <2>1
  <2> QED
    BY <1>5, <2>1, <2>2, <2>3, <2>4
<1>6. 0..(Window - 1) \subseteq T
  <2> HIDE DEF T
  <2>1. Window - 1 \in Nat /\ (Window - 1) - 1 = Window - 2
    BY RateConstants
  <2> QED
    BY <1>4, <1>5, <2>1, UpTo
<1>7. w \in T
  BY <1>6 DEF Past
<1> QED
  BY <1>7 DEF P, S

(* Requests let pass now count in every stretch of time up to now.          *)
LEMMA PassedNow ==
  ASSUME NEW log \in [Past -> Nat], NEW n \in Nat, NEW w \in 1..Window
  PROVE  Passed([log EXCEPT ![0] = @ + n], w) = Passed(log, w) + n
<1> DEFINE new == [log EXCEPT ![0] = @ + n]
           P(k) == Passed(log, k)
           S(k) == Passed(new, k)
           T == {k \in 0..Window : k > 0 => S(k) = P(k) + n}
<1>0. 0 \in Past
  BY RateConstants DEF Past
<1>1. new \in [Past -> Nat] /\ new[0] = log[0] + n
  BY <1>0
<1>2. \A k \in Past : k > 0 => new[k] = log[k]
  BY DEF Past
<1> HIDE DEF new
<1>3. /\ P(0) = 0 /\ \A k \in Past : P(k + 1) = P(k) + log[k]
      /\ S(0) = 0 /\ \A k \in Past : S(k + 1) = S(k) + new[k]
      /\ \A k \in 0..Window : P(k) \in Nat /\ S(k) \in Nat
  BY <1>1, PassedSteps
<1> HIDE DEF P, S
<1>4. 0 \in T
  BY RateConstants
<1>5. ASSUME NEW k \in 0..(Window - 1), k \in T PROVE k + 1 \in T
  <2>1. k \in Past /\ k + 1 \in 0..Window /\ log[k] \in Nat /\ P(k) \in Nat
    BY <1>3, RateConstants DEF Past
  <2>2. S(k + 1) = S(k) + new[k] /\ P(k + 1) = P(k) + log[k]
    BY <1>3, <2>1
  <2>3. CASE k = 0
    BY <1>1, <1>3, <2>1, <2>2, <2>3
  <2>4. CASE k > 0
    <3>1. S(k) = P(k) + n
      BY <1>5, <2>4
    <3>2. new[k] = log[k]
      BY <1>2, <2>1, <2>4
    <3> QED
      BY <2>1, <2>2, <3>1, <3>2
  <2> QED
    BY <2>3, <2>4
<1>6. 0..Window \subseteq T
  <2> HIDE DEF T
  <2> QED
    BY <1>4, <1>5, UpTo, RateConstants
<1>7. w \in T
  BY <1>6
<1> QED
  BY <1>7 DEF P, S, new

(* Where no requests passed none are counted.                               *)
LEMMA PassedNone ==
  ASSUME NEW log \in [Past -> Nat], NEW w \in 0..Window,
         \A k \in Past : k < w => log[k] = 0
  PROVE  Passed(log, w) = 0
<1> DEFINE P(k) == Passed(log, k)
           T == {k \in 0..Window : k <= w => P(k) = 0}
<1>1. P(0) = 0 /\ \A k \in Past : P(k + 1) = P(k) + log[k]
  BY PassedSteps
<1> HIDE DEF P
<1>2. 0 \in T
  BY <1>1, RateConstants
<1>3. ASSUME NEW n \in 0..(Window - 1), n \in T PROVE n + 1 \in T
  <2>1. n \in Past /\ n + 1 \in 0..Window
    BY RateConstants DEF Past
  <2>2. P(n + 1) = P(n) + log[n]
    BY <1>1, <2>1
  <2>3. n + 1 <= w => P(n) = 0 /\ log[n] = 0
    BY <1>3, <2>1
  <2> QED
    BY <2>1, <2>2, <2>3
<1>4. 0..Window \subseteq T
  <2> HIDE DEF T
  <2> QED
    BY <1>2, <1>3, UpTo, RateConstants
<1>5. w \in T
  BY <1>4
<1> QED
  BY <1>5 DEF P

-----------------------------------------------------------------------------
(* Counting members.                                                       *)

(* One ZADD for each i makes n members, whatever the random numbers.        *)
LEMMA MembersCount ==
  ASSUME NEW n \in Nat, NEW d, NEW r
  PROVE  IsFiniteSet(Members(n, d, r)) /\ Cardinality(Members(n, d, r)) = n
<1> DEFINE M == Members(n, d, r)
           f == [i \in 1..n |-> [age |-> d, i |-> i, rand |-> r[i]]]
<1>1. f \in [1..n -> M] /\ \A m \in M : \E i \in 1..n : f[i] = m
  BY DEF Members
<1>2. \A i, j \in 1..n : f[i] = f[j] => i = j
  OBVIOUS
<1> HIDE DEF f, M
<1>3. f \in Surjection(1..n, M)
  BY <1>1 DEF Surjection
<1>4. f \in Injection(1..n, M)
  BY <1>1, <1>2 DEF Injection, IsInjective
<1>5. IsFiniteSet(1..n) /\ Cardinality(1..n) = n
  BY FS_Interval
<1>6. IsFiniteSet(M) /\ Cardinality(M) = Cardinality(1..n)
  BY <1>3, <1>4, <1>5, FS_Surjection
<1> QED
  BY <1>5, <1>6 DEF M

(* A member that has got older.                                             *)
LEMMA OlderTypes ==
  ASSUME NEW e \in Entry
  PROVE  /\ Older(e) \in Entry
         /\ Older(e).age = IF e.age < Oldest THEN e.age + 1 ELSE e.age
         /\ Older(e).i = e.i /\ Older(e).rand = e.rand
<1>1. e.age \in Age /\ Oldest \in Nat
  BY RateConstants DEF Entry, Oldest
<1>2. (IF e.age < Oldest THEN e.age + 1 ELSE e.age) \in Age
  BY <1>1 DEF Age
<1> QED
  BY <1>2 DEF Older, Entry

(* Time does not make two members one.                                      *)
LEMMA OlderCount ==
  ASSUME NEW E \in SUBSET Entry, IsFiniteSet(E)
  PROVE  LET L == {Older(e) : e \in E}
         IN  IsFiniteSet(L) /\ Cardinality(L) <= Cardinality(E)
<1> DEFINE L == {Older(e) : e \in E}
           f == [e \in E |-> Older(e)]
<1>1. f \in [E -> L] /\ \A x \in L : \E e \in E : f[e] = x
  OBVIOUS
<1> HIDE DEF f, L
<1>2. f \in Surjection(E, L)
  BY <1>1 DEF Surjection
<1>3. IsFiniteSet(L) /\ Cardinality(L) <= Cardinality(E)
  BY <1>2, FS_Surjection
<1> QED
  BY <1>3 DEF L

(* What was recent is recent a unit of time later, with one unit more.      *)
LEMMA RecentCount ==
  ASSUME NEW E \in SUBSET Entry, IsFiniteSet(E), NEW a \in 0..Window
  PROVE  LET L == {Older(e) : e \in E}
         IN  Cardinality(Recent(E, a)) <= Cardinality(Recent(L, a + 1))
<1> DEFINE L == {Older(e) : e \in E}
           S == Recent(E, a)
           T == Recent(L, a + 1)
           f == [e \in S |-> Older(e)]
<1>1. ASSUME NEW e \in S PROVE e \in Entry /\ Older(e).age = e.age + 1
  <2>1. e \in Entry /\ e.age < a
    BY DEF Recent
  <2>2. e.age < Oldest
    BY <2>1, RateConstants DEF Entry, Age, Oldest
  <2> QED
    BY <2>1, <2>2, OlderTypes
<1>2. ASSUME NEW e \in S PROVE Older(e) \in T
  <2>1. Older(e).age < a + 1
    BY <1>1, RateConstants DEF Recent, Entry, Age, Oldest
  <2> QED
    BY <2>1 DEF Recent
<1>3. ASSUME NEW e \in S, NEW g \in S, Older(e) = Older(g) PROVE e = g
  <2>1. e \in Entry /\ g \in Entry
    BY <1>1
  <2>2. e.age + 1 = g.age + 1 /\ e.i = g.i /\ e.rand = g.rand
    BY <1>1, <1>3, <2>1, OlderTypes
  <2>3. e.age = g.age
    BY <2>1, <2>2, RateConstants DEF Entry, Age, Oldest
  <2> QED
    BY <2>1, <2>2, <2>3 DEF Entry
<1>4. IsFiniteSet(T)
  <2>1. IsFiniteSet(L)
    BY OlderCount
  <2>2. T \in SUBSET L
    BY DEF Recent
  <2> HIDE DEF L, T
  <2> QED
    BY <2>1, <2>2, FS_Subset
<1> HIDE DEF S, T
<1>5. f \in [S -> T] /\ \A e, g \in S : f[e] = f[g] => e = g
  BY <1>2, <1>3
<1> HIDE DEF f
<1>6. f \in Injection(S, T)
  BY <1>5 DEF Injection, IsInjective
<1>7. Cardinality(S) <= Cardinality(T)
  BY <1>4, <1>6, FS_Injection
<1> QED
  BY <1>7 DEF S, T

-----------------------------------------------------------------------------
(* The actions of the fixed window.                                        *)

Answer == [pc : {"idle", "got", "told"}, live : BOOLEAN,
           remaining : 0..MaxAllowed, reset : 0..Window]

(* An empty history.                                                        *)
LEMMA NothingTypes ==
  /\ Nothing \in [Past -> Nat] /\ Unasked \in Answer
  /\ 0 \in Past /\ Nothing[0] = 0
  /\ \A w \in 0..Window : Passed(Nothing, w) = 0
<1>1. Nothing \in [Past -> Nat] /\ \A k \in Past : Nothing[k] = 0
  BY DEF Nothing
<1>2. \A w \in 0..Window : Passed(Nothing, w) = 0
  BY <1>1, PassedNone
<1>3. Unasked \in Answer
  BY RateConstants DEF Unasked, Answer
<1>4. 0 \in Past
  BY RateConstants DEF Past
<1> QED
  BY <1>1, <1>2, <1>3, <1>4

(* The windows are independent of each other.                               *)
LEMMA SlidingUntouched ==
  ASSUME IInv, UNCHANGED <<entries, zttl, sliding>>
  PROVE  Stored' /\ Quiet'
  BY DEF IInv, Stored, Quiet

(* What leaves the counter, its history and the answers alone.              *)
LEMMA FixedUntouched ==
  ASSUME IInv, UNCHANGED <<count, cttl, fixed, status>>
  PROVE  Alive' /\ FixedWindow' /\ StatusKnown'
  BY DEF IInv, Alive, FixedWindow, StatusKnown

(* AllowN counts exactly what it lets pass.                                 *)
LEMMA AllowKeeps == ASSUME IInv, NEW n \in N, AllowN(n) PROVE IInv'
<1>1. /\ count \in 0..MaxAllowed \cup {-1} /\ cttl \in 0..Window
      /\ fixed \in [Past -> Nat] /\ n \in Nat
      /\ MaxAllowed \in Nat /\ Window \in Nat \ {0} /\ 0 \in Past
  BY RateConstants, NothingTypes DEF IInv, TypeOK, NoKey
<1>2. /\ count' = Current + n /\ count' <= MaxAllowed /\ cttl' = WindowTTL
      /\ fixed' = [fixed EXCEPT ![0] = @ + n]
      /\ UNCHANGED <<entries, zttl, resetting, status, sliding>>
  BY DEF AllowN, Fits
<1>3. count' \in 0..MaxAllowed /\ cttl' \in 1..Window
  BY <1>1, <1>2 DEF Current, WindowTTL, NoKey, IInv, Alive
<1>4. fixed' \in [Past -> Nat] /\ fixed'[0] = fixed[0] + n
  BY <1>1, <1>2
<1>5. TypeOK'
  BY <1>2, <1>3, <1>4 DEF IInv, TypeOK
<1>6. Alive'
  BY <1>1, <1>3 DEF Alive, NoKey
<1>7. \A w \in 1..Window : Passed(fixed', w) = Passed(fixed, w) + n
  BY <1>1, <1>2, PassedNow
<1>8. Window \in 1..Window /\ Passed(fixed, Window) \in Nat
  BY <1>1, PassedSteps
<1>9. FixedWindow'
  <2>1. CASE count = NoKey
    <3>1. count' = n /\ cttl' = Window
      BY <1>1, <1>2, <2>1 DEF Current, WindowTTL
    <3>2. fixed[0] = 0 /\ Passed(fixed, Window) <= MaxAllowed
      BY <2>1 DEF IInv, FixedWindow
    <3>3. Passed(fixed', 0 + 1) = Passed(fixed', 0) + fixed'[0]
          /\ Passed(fixed', 0) = 0
      BY <1>1, <1>4, PassedSteps
    <3>4. Window - cttl' + 1 = 1
      BY <1>1, <3>1
    <3>5. Passed(fixed', Window - cttl' + 1) = n
      BY <1>1, <1>4, <3>2, <3>3, <3>4
    <3>6. Passed(fixed', Window) <= n + MaxAllowed
      BY <1>1, <1>7, <1>8, <3>2
    <3> QED
      BY <1>1, <3>1, <3>5, <3>6 DEF FixedWindow, NoKey
  <2>2. CASE count # NoKey
    <3>1. count' = count + n /\ cttl' = cttl /\ cttl \in 1..Window
      BY <1>2, <1>3, <2>2 DEF Current, WindowTTL
    <3>2. /\ Passed(fixed, Window - cttl + 1) = count
          /\ Passed(fixed, Window) <= count + MaxAllowed
      BY <2>2 DEF IInv, FixedWindow
    <3>3. Window - cttl + 1 \in 1..Window
      BY <1>1, <3>1
    <3>4. Passed(fixed', Window - cttl + 1) = count + n
      BY <1>7, <3>2, <3>3
    <3>5. Passed(fixed', Window) <= count + n + MaxAllowed
      BY <1>1, <1>7, <1>8, <3>2
    <3> QED
      BY <1>1, <1>3, <3>1, <3>4, <3>5 DEF FixedWindow, NoKey
  <2> QED
    BY <2>1, <2>2
<1>10. StatusKnown'
  <2> SUFFICES ASSUME NEW g \in Reader,
                      status[g].pc # "idle" /\ status[g].live
               PROVE  /\ count' # NoKey
                      /\ MaxAllowed - count' <= status[g].remaining
                      /\ status[g].pc = "told" => cttl' <= status[g].reset
    BY <1>2 DEF StatusKnown
  <2>1. /\ count # NoKey
        /\ MaxAllowed - count <= status[g].remaining
        /\ status[g].pc = "told" => cttl <= status[g].reset
    BY DEF IInv, StatusKnown
  <2>2. count' = count + n /\ cttl' = cttl
    BY <1>2, <2>1 DEF Current, WindowTTL
  <2>3. status[g].remaining \in Nat
    BY RateConstants DEF IInv, TypeOK
  <2> QED
    BY <1>1, <1>3, <2>1, <2>2, <2>3 DEF NoKey
<1> QED
  BY <1>2, <1>5, <1>6, <1>9, <1>10, SlidingUntouched DEF IInv

(* The first DEL of Reset starts a window with an empty history.            *)
LEMMA ResetKeeps == ASSUME IInv, NEW c \in Caller, Reset(c) PROVE IInv'
<1>1. /\ count' = NoKey /\ cttl' = 0 /\ fixed' = Nothing
      /\ status' = WindowOver
      /\ resetting' = [resetting EXCEPT ![c] = TRUE]
      /\ UNCHANGED <<entries, zttl, sliding>>
  BY DEF Reset
<1>2. status \in [Reader -> Answer]
  BY DEF IInv, TypeOK, Answer
<1>3. /\ status' \in [Reader -> Answer]
      /\ \A g \in Reader : ~ status'[g].live
  BY <1>1, <1>2 DEF WindowOver, Answer
<1>4. TypeOK'
  BY <1>1, <1>3, NothingTypes, RateConstants DEF IInv, TypeOK, Answer
<1>5. Alive' /\ StatusKnown'
  BY <1>1, <1>3 DEF Alive, StatusKnown
<1>6. FixedWindow'
  <2>1. Window \in 0..Window /\ MaxAllowed \in Nat
    BY RateConstants
  <2>2. Passed(fixed', Window) = 0 /\ fixed'[0] = 0
    BY <1>1, <2>1, NothingTypes
  <2> QED
    BY <1>1, <2>1, <2>2 DEF FixedWindow
<1> QED
  BY <1>1, <1>4, <1>5, <1>6, SlidingUntouched DEF IInv

(* GET comes before PTTL: while the window that was counted lasts, both     *)
(* answers are about it.                                                    *)
LEMMA StatusKeeps ==
  ASSUME IInv, NEW g \in Reader,
         GetStatus(g) \/ GetStatusReturns(g) \/ Forget(g)
  PROVE  IInv'
<1>1. UNCHANGED <<count, cttl, entries, zttl, resetting, fixed, sliding>>
  BY DEF GetStatus, GetStatusReturns, Forget
<1>2. status \in [Reader -> Answer] /\ status[g] \in Answer
  BY DEF IInv, TypeOK, Answer
<1>3. /\ count \in 0..MaxAllowed \cup {-1} /\ cttl \in 0..Window
      /\ MaxAllowed \in Nat /\ Window \in Nat \ {0}
  BY RateConstants DEF IInv, TypeOK, NoKey
<1>4. Remaining \in 0..MaxAllowed /\ PTTL \in 0..Window
  BY <1>3 DEF Remaining, PTTL, Current, NoKey
<1> DEFINE Right(a) == a.pc # "idle" /\ a.live =>
             /\ count # NoKey
             /\ MaxAllowed - count <= a.remaining
             /\ a.pc = "told" => cttl <= a.reset
<1>5. PICK a : a \in Answer /\ Right(a) /\ status' = [status EXCEPT ![g] = a]
  <2>1. CASE GetStatus(g)
    <3> DEFINE a == [Reply(1, status[g]) EXCEPT !.pc = "got"]
    <3>1. status' = [status EXCEPT ![g] = a]
      BY <2>1 DEF GetStatus
    <3>2. a = [status[g] EXCEPT !.remaining = Remaining,
                                !.live = (count # NoKey), !.pc = "got"]
      BY DEF Reply, Counted
    <3> HIDE DEF a
    <3>3. /\ a \in Answer /\ a.pc = "got" /\ a.remaining = Remaining
          /\ a.live = (count # NoKey)
      BY <1>2, <1>4, <3>2 DEF Answer
    <3>4. count # NoKey => MaxAllowed - count <= Remaining
      BY <1>3 DEF Remaining, Current
    <3> QED
      BY <3>1, <3>3, <3>4
  <2>2. CASE GetStatusReturns(g)
    <3> DEFINE a == [Reply(2, status[g]) EXCEPT !.pc = "told"]
    <3>1. status' = [status EXCEPT ![g] = a] /\ status[g].pc = "got"
      BY <2>2 DEF GetStatusReturns
    <3>2. a = [status[g] EXCEPT !.reset = PTTL, !.pc = "told"]
      BY DEF Reply, Timed
    <3> HIDE DEF a
    <3>3. /\ a \in Answer /\ a.pc = "told" /\ a.reset = PTTL
          /\ a.live = status[g].live /\ a.remaining = status[g].remaining
      BY <1>2, <1>4, <3>2 DEF Answer
    <3>4. status[g].live =>
            count # NoKey /\ MaxAllowed - count <= status[g].remaining
      BY <3>1 DEF IInv, StatusKnown
    <3>5. cttl <= PTTL
      BY <1>3 DEF PTTL
    <3> QED
      BY <3>1, <3>3, <3>4, <3>5
  <2>3. CASE Forget(g)
    <3>1. status' = [status EXCEPT ![g] = Unasked]
      BY <2>3 DEF Forget
    <3>2. Unasked.pc = "idle"
      BY DEF Unasked
    <3> QED
      BY <3>1, <3>2, NothingTypes
  <2> QED
    BY <2>1, <2>2, <2>3
<1>6. /\ status' \in [Reader -> Answer]
      /\ \A h \in Reader : status'[h] = IF h = g THEN a ELSE status[h]
  BY <1>2, <1>5
<1>7. TypeOK'
  BY <1>1, <1>6 DEF IInv, TypeOK, Answer
<1>8. StatusKnown'
  BY <1>1, <1>5, <1>6 DEF IInv, StatusKnown
<1>9. Alive' /\ FixedWindow'
  BY <1>1 DEF IInv, Alive, FixedWindow
<1> QED
  BY <1>1, <1>7, <1>8, <1>9, SlidingUntouched DEF IInv

-----------------------------------------------------------------------------
(* The actions of the sliding window.                                      *)

(* A script keeps all members that count for some stretch of time, however  *)
(* late it runs.                                                            *)
LEMMA PurgeKeeps ==
  ASSUME IInv, NEW d \in 0..MaxDelay
  PROVE  /\ Kept(d) \subseteq Entry
         /\ IsFiniteSet(Kept(d)) /\ Cardinality(Kept(d)) \in Nat
         /\ Cardinality(Kept(d)) <= MaxAllowed
         /\ \A w \in 0..(Window - MaxDelay) :
              Recent(Kept(d), w + MaxDelay) = Recent(entries, w + MaxDelay)
<1>1. entries \in SUBSET Entry /\ IsFiniteSet(entries)
      /\ Cardinality(entries) <= MaxAllowed
  BY DEF IInv, TypeOK, Stored
<1>2. Kept(d) \in SUBSET entries
  BY DEF Kept
<1>3. IsFiniteSet(Kept(d)) /\ Cardinality(Kept(d)) <= Cardinality(entries)
      /\ Cardinality(Kept(d)) \in Nat /\ Cardinality(entries) \in Nat
  BY <1>1, <1>2, FS_Subset, FS_CardinalityType
<1>4. Cardinality(Kept(d)) <= MaxAllowed
  BY <1>1, <1>3, RateConstants
<1>5. ASSUME NEW w \in 0..(Window - MaxDelay), NEW e \in entries,
             e.age < w + MaxDelay
      PROVE  e \in Kept(d)
  <2>1. e.age \in Nat
    BY <1>1 DEF Entry, Age, Oldest
  <2> QED
    BY <1>5, <2>1, RateConstants DEF Kept
<1>6. \A w \in 0..(Window - MaxDelay) :
        Recent(Kept(d), w + MaxDelay) = Recent(entries, w + MaxDelay)
  BY <1>2, <1>5 DEF Recent
<1> QED
  BY <1>1, <1>2, <1>3, <1>4, <1>6

(* A refused request purges no member that still counts.                    *)
LEMMA RefusedKeeps ==
  ASSUME IInv, NEW n \in N, NEW d \in 0..MaxDelay, SlidingRefused(n, d)
  PROVE  IInv'
<1>1. /\ entries' = Kept(d) /\ zttl' = IF entries' = {} THEN 0 ELSE zttl
      /\ UNCHANGED <<count, cttl, resetting, status, fixed, sliding>>
  BY DEF SlidingRefused
<1>2. TypeOK'
  BY <1>1, PurgeKeeps, RateConstants DEF IInv, TypeOK
<1>3. Stored'
  BY <1>1, PurgeKeeps DEF IInv, Stored
<1>4. Quiet'
  BY <1>1, RateConstants DEF IInv, TypeOK, Quiet
<1> QED
  BY <1>1, <1>2, <1>3, <1>4, FixedUntouched DEF IInv

(* A request that passes adds as many members as it counts; they are as old *)
(* as the script's clock is behind, so they leave with the history or after *)
(* it.                                                                      *)
LEMMA AllowedKeeps ==
  ASSUME IInv, NEW n \in N, NEW d \in 0..MaxDelay, SlidingAllowed(n, d)
  PROVE  IInv'
<1> DEFINE K == Kept(d)
<1>1. PICK r \in [1..n -> Rand] :
        /\ CanCollide \/ Members(n, d, r) \cap K = {}
        /\ entries' = K \cup Members(n, d, r)
  BY DEF SlidingAllowed
<1> DEFINE M == Members(n, d, r)
<1>2. /\ Cardinality(K) + n <= MaxAllowed
      /\ zttl' = IF entries' = {} THEN 0 ELSE Window
      /\ sliding' = [sliding EXCEPT ![0] = @ + n]
      /\ UNCHANGED <<count, cttl, resetting, status, fixed>>
  BY DEF SlidingAllowed
<1>3. n \in Nat /\ sliding \in [Past -> Nat] /\ 0 \in Past
      /\ MaxAllowed \in Nat /\ MaxDelay \in Nat /\ Window \in Nat
      /\ MaxDelay < Window
  BY RateConstants, NothingTypes DEF IInv, TypeOK
<1>4. K \subseteq Entry /\ IsFiniteSet(K) /\ Cardinality(K) \in Nat
  BY PurgeKeeps
<1>5. IsFiniteSet(M) /\ Cardinality(M) = n
  BY <1>3, MembersCount
<1>6. M \subseteq Entry /\ \A e \in M : e.age = d
  BY <1>3 DEF Members, Entry, Age, Oldest
<1>7. entries' = K \cup M /\ (CanCollide \/ K \cap M = {})
  BY <1>1
<1> HIDE DEF K, M
<1>8. TypeOK'
  <2>1. sliding' \in [Past -> Nat]
    BY <1>2, <1>3
  <2>2. entries' \subseteq Entry /\ zttl' \in 0..Window
    BY <1>2, <1>3, <1>4, <1>6, <1>7
  <2> QED
    BY <1>2, <2>1, <2>2 DEF IInv, TypeOK
<1>9. IsFiniteSet(entries') /\ Cardinality(entries') <= MaxAllowed
  <2>1. IsFiniteSet(K \cup M)
        /\ Cardinality(K \cup M) =
             Cardinality(K) + Cardinality(M) - Cardinality(K \cap M)
    BY <1>4, <1>5, FS_Union
  <2>2. IsFiniteSet(K \cap M) /\ Cardinality(K \cap M) \in Nat
    BY <1>4, FS_Intersection, FS_Subset, FS_CardinalityType
  <2> QED
    BY <1>2, <1>3, <1>4, <1>5, <1>7, <2>1, <2>2
<1>10. ASSUME ~ CanCollide, NEW w \in 0..(Window - MaxDelay)
       PROVE  Passed(sliding', w)
                <= Cardinality(Recent(entries', w + MaxDelay))
  <2> DEFINE R == Recent(K, w + MaxDelay)
  <2>1. R = Recent(entries, w + MaxDelay)
    BY PurgeKeeps DEF K
  <2>2. Passed(sliding, w) <= Cardinality(R)
    BY <1>10, <2>1 DEF IInv, Stored
  <2>3. w \in 0..Window
    BY <1>3
  <2>4. CASE w = 0
    <3>1. Passed(sliding', w) = 0
      BY <1>8, <2>4, PassedSteps DEF TypeOK
    <3>2. IsFiniteSet(Recent(entries', w + MaxDelay))
      <4>1. Recent(entries', w + MaxDelay) \in SUBSET entries'
        BY DEF Recent
      <4> QED
        BY <1>9, <4>1, FS_Subset
    <3>3. Cardinality(Recent(entries', w + MaxDelay)) \in Nat
      BY <3>2, FS_CardinalityType
    <3> QED
      BY <3>1, <3>3
  <2>5. CASE w > 0
    <3>1. Passed(sliding', w) = Passed(sliding, w) + n
      <4>1. w \in 1..Window
        BY <2>3, <2>5
      <4> QED
        BY <1>2, <1>3, <4>1, PassedNow
    <3>2. \A e \in M : e.age < w + MaxDelay
      BY <1>3, <1>6, <2>5
    <3>3. Recent(entries', w + MaxDelay) = R \cup M
      BY <1>7, <3>2 DEF Recent
    <3>4. R \cap M = {} /\ R \in SUBSET K
      BY <1>7, <1>10 DEF Recent
    <3> HIDE DEF R
    <3>5. IsFiniteSet(R) /\ Cardinality(R) \in Nat
      BY <1>4, <3>4, FS_Subset, FS_CardinalityType
    <3>6. Cardinality(R \cup M) =
            Cardinality(R) + Cardinality(M) - Cardinality(R \cap M)
      BY <1>5, <3>5, FS_Union
    <3>7. Cardinality(R \cup M) = Cardinality(R) + n
      <4>1. Cardinality(R \cap M) = 0
        BY <3>4, FS_EmptySet
      <4> QED
        BY <1>3, <1>5, <3>5, <3>6, <4>1
    <3>8. Passed(sliding, w) \in Nat
      BY <1>3, <2>3, PassedSteps
    <3> QED
      <4>1. Cardinality(Recent(entries', w + MaxDelay)) = Cardinality(R) + n
        BY <3>3, <3>7
      <4> QED
        BY <1>3, <2>2, <3>1, <3>5, <3>8, <4>1
  <2> QED
    BY <2>4, <2>5
<1>11. Stored'
  BY <1>9, <1>10 DEF Stored
<1>12. Quiet'
  BY <1>2, <1>3 DEF Quiet, Past
<1> QED
  BY <1>2, <1>8, <1>11, <1>12, FixedUntouched DEF IInv

(* An empty set goes with an empty history.                                 *)
LEMMA NothingStored ==
  ASSUME entries' = {}, zttl' = 0, sliding' \in [Past -> Nat],
         \A w \in 0..(Window - MaxDelay) : Passed(sliding', w) = 0
  PROVE  Stored' /\ Quiet'
<1>1. IsFiniteSet(entries') /\ Cardinality(entries') = 0
  BY FS_EmptySet
<1>2. ASSUME NEW w \in 0..(Window - MaxDelay)
      PROVE  Passed(sliding', w)
               <= Cardinality(Recent(entries', w + MaxDelay))
  <2>1. Recent(entries', w + MaxDelay) = {}
    BY DEF Recent
  <2>2. Cardinality(Recent(entries', w + MaxDelay)) = 0
    BY <2>1, FS_EmptySet
  <2>3. Passed(sliding', w) = 0
    OBVIOUS
  <2> QED
    BY <2>2, <2>3
<1>3. Cardinality(entries') <= MaxAllowed
  BY <1>1, RateConstants
<1>4. Stored'
  BY <1>1, <1>2, <1>3 DEF Stored
<1> QED
  BY <1>4 DEF Quiet

(* The second DEL of Reset, or none.                                        *)
LEMMA ResetEndsKeeps ==
  ASSUME IInv, NEW c \in Caller, ResetEnds(c) PROVE IInv'
<1>1. /\ resetting' = [resetting EXCEPT ![c] = FALSE]
      /\ UNCHANGED <<count, cttl, status, fixed>>
  BY DEF ResetEnds
<1>2. CASE entries' = {} /\ zttl' = 0 /\ sliding' = Nothing
  <2>1. TypeOK'
    BY <1>1, <1>2, NothingTypes, RateConstants DEF IInv, TypeOK
  <2>2. \A w \in 0..(Window - MaxDelay) : w \in 0..Window
    BY RateConstants
  <2>3. Stored' /\ Quiet'
    BY <1>2, <2>2, NothingTypes, NothingStored
  <2> QED
    BY <1>1, <2>1, <2>3, FixedUntouched DEF IInv
<1>3. CASE UNCHANGED <<entries, zttl, sliding>>
  <2>1. TypeOK'
    BY <1>1, <1>3 DEF IInv, TypeOK
  <2> QED
    BY <1>1, <1>3, <2>1, FixedUntouched, SlidingUntouched DEF IInv
<1> QED
  BY <1>2, <1>3 DEF ResetEnds

-----------------------------------------------------------------------------
(* Time passes.                                                            *)

(* Time keeps the types.                                                    *)
LEMMA TickTypes == ASSUME IInv, Tick PROVE TypeOK'
<1>1. /\ count \in 0..MaxAllowed \cup {NoKey} /\ cttl \in 0..Window
      /\ entries \subseteq Entry /\ zttl \in 0..Window
      /\ status \in [Reader -> Answer] /\ resetting \in [Caller -> BOOLEAN]
      /\ fixed \in [Past -> Nat] /\ sliding \in [Past -> Nat]
      /\ Window \in Nat
  BY RateConstants DEF IInv, TypeOK, Answer
<1>2. \A n \in 0..Window : Pass(n) \in 0..Window
  BY <1>1 DEF Pass
<1>3. cttl' \in 0..Window /\ zttl' \in 0..Window
      /\ count' \in 0..MaxAllowed \cup {NoKey} /\ resetting' = resetting
  BY <1>1, <1>2 DEF Tick
<1>4. entries' \subseteq Entry
  BY <1>1, OlderTypes DEF Tick
<1>5. fixed' \in [Past -> Nat] /\ sliding' \in [Past -> Nat]
  BY <1>1, ShiftTypes DEF Tick
<1>6. ASSUME NEW a \in Answer PROVE Later(a) \in Answer
  <2>1. (IF a.pc = "told" THEN Pass(a.reset) ELSE a.reset) \in 0..Window
    BY <1>2 DEF Answer
  <2>2. (a.live /\ cttl # 1) \in BOOLEAN
    OBVIOUS
  <2> QED
    BY <2>1, <2>2 DEF Later, Answer
<1>7. status' \in [Reader -> Answer]
  BY <1>1, <1>6 DEF Tick
<1> QED
  BY <1>1, <1>3, <1>4, <1>5, <1>7 DEF TypeOK, Answer

(* Time moves the history and the counter's window together; when the       *)
(* window ends the next one has nothing before it but this one.             *)
LEMMA TickFixed == ASSUME IInv, Tick PROVE Alive' /\ FixedWindow'
<1>1. /\ count \in 0..MaxAllowed \cup {-1} /\ cttl \in 0..Window
      /\ fixed \in [Past -> Nat]
      /\ MaxAllowed \in Nat /\ Window \in Nat \ {0}
      /\ 0 \in Past /\ Window - 1 \in Past /\ (count = -1 <=> cttl = 0)
  BY RateConstants, NothingTypes DEF IInv, TypeOK, NoKey, Alive, Past
<1>2. /\ cttl' = IF cttl > 0 THEN cttl - 1 ELSE 0
      /\ count' = IF cttl = 1 THEN -1 ELSE count
      /\ fixed' = Shift(fixed)
  BY DEF Tick, Pass, NoKey
<1>3. Alive'
  BY <1>1, <1>2 DEF Alive, NoKey
<1>4. fixed'[0] = 0
  BY <1>1, <1>2 DEF Shift
<1>5. \A w \in Past : Passed(fixed', w + 1) = Passed(fixed, w)
  BY <1>1, <1>2, PassedShifts
<1>6. Passed(fixed', Window) <= Passed(fixed, Window)
  <2>1. (Window - 1) + 1 = Window
        /\ Window - 1 \in 0..Window /\ Window \in 0..Window
    BY <1>1
  <2>2. Passed(fixed', (Window - 1) + 1) = Passed(fixed, Window - 1)
    BY <1>1, <1>5
  <2>3. Passed(fixed, Window - 1) <= Passed(fixed, Window)
    BY <1>1, <2>1, PassedGrows
  <2> QED
    BY <2>1, <2>2, <2>3
<1>7. FixedWindow'
  <2>0. Passed(fixed', Window) \in Nat /\ Passed(fixed, Window) \in Nat
    BY <1>1, <1>2, ShiftTypes, PassedSteps
  <2>1. CASE cttl = 0
    BY <1>1, <1>2, <1>4, <1>6, <2>0, <2>1 DEF IInv, FixedWindow, NoKey
  <2>2. CASE cttl = 1
    <3>1. Passed(fixed, Window) = count
      BY <1>1, <2>2 DEF IInv, FixedWindow, NoKey
    <3> QED
      BY <1>1, <1>2, <1>4, <1>6, <2>0, <2>2, <3>1 DEF FixedWindow, NoKey
  <2>3. CASE cttl > 1
    <3>1. /\ Passed(fixed, Window - cttl + 1) = count
          /\ Passed(fixed, Window) <= count + MaxAllowed
      BY <1>1, <2>3 DEF IInv, FixedWindow, NoKey
    <3>2. Window - cttl + 1 \in Past /\ count' = count
          /\ Window - cttl' + 1 = (Window - cttl + 1) + 1
      BY <1>1, <1>2, <2>3 DEF Past
    <3>3. Passed(fixed', Window - cttl' + 1) = count'
      BY <1>5, <3>1, <3>2
    <3> QED
      BY <1>1, <1>6, <2>0, <2>3, <3>1, <3>2, <3>3 DEF FixedWindow, NoKey
  <2> QED
    BY <1>1, <2>1, <2>2, <2>3
<1> QED
  BY <1>3, <1>7

(* Answers end with the window they are about.                              *)
LEMMA TickStatus == ASSUME IInv, Tick PROVE StatusKnown'
<1> SUFFICES ASSUME NEW g \in Reader,
                    status'[g].pc # "idle" /\ status'[g].live
             PROVE  /\ count' # NoKey
                    /\ MaxAllowed - count' <= status'[g].remaining
                    /\ status'[g].pc = "told" => cttl' <= status'[g].reset
  BY DEF StatusKnown
<1>1. status[g] \in Answer /\ cttl \in 0..Window /\ Window \in Nat
  BY RateConstants DEF IInv, TypeOK, Answer
<1>2. status'[g] = Later(status[g]) /\ cttl' = Pass(cttl)
      /\ count' = IF cttl = 1 THEN NoKey ELSE count
  BY DEF Tick
<1>3. /\ status'[g].pc = status[g].pc
      /\ status'[g].live = (status[g].live /\ cttl # 1)
      /\ status'[g].remaining = status[g].remaining
      /\ status'[g].reset =
           IF status[g].pc = "told" THEN Pass(status[g].reset)
                                    ELSE status[g].reset
  BY <1>1, <1>2 DEF Later, Answer
<1>4. status[g].pc # "idle" /\ status[g].live /\ cttl # 1
  BY <1>3
<1>5. /\ count # NoKey
      /\ MaxAllowed - count <= status[g].remaining
      /\ status[g].pc = "told" => cttl <= status[g].reset
  BY <1>4 DEF IInv, StatusKnown
<1>6. status[g].reset \in 0..Window
  BY <1>1 DEF Answer
<1>7. cttl <= status[g].reset => Pass(cttl) <= Pass(status[g].reset)
  BY <1>1, <1>6 DEF Pass
<1> QED
  BY <1>2, <1>3, <1>4, <1>5, <1>7

(* Time moves the history and the scores together; the set expires only     *)
(* when the history is empty.                                               *)
LEMMA TickSliding == ASSUME IInv, Tick PROVE Stored' /\ Quiet'
<1>1. /\ entries \in SUBSET Entry /\ zttl \in 0..Window
      /\ sliding \in [Past -> Nat]
      /\ Window \in Nat \ {0} /\ MaxDelay \in Nat /\ MaxDelay < Window
      /\ MaxAllowed \in Nat /\ 0 \in Past
  BY RateConstants, NothingTypes DEF IInv, TypeOK
<1>2. /\ zttl' = Pass(zttl) /\ sliding' = Shift(sliding)
      /\ entries' = IF zttl = 1 THEN {} ELSE {Older(e) : e \in entries}
  BY DEF Tick
<1>3. IsFiniteSet(entries) /\ Cardinality(entries) <= MaxAllowed
      /\ Cardinality(entries) \in Nat
  BY FS_CardinalityType DEF IInv, Stored
<1>4. sliding' \in [Past -> Nat]
  BY <1>1, <1>2, ShiftTypes
<1>5. \A w \in Past : Passed(sliding', w + 1) = Passed(sliding, w)
  BY <1>1, <1>2, PassedShifts
<1>6. Passed(sliding', 0) = 0
  BY <1>4, PassedSteps
<1>7. CASE zttl = 1
  <2>1. \A a \in Past : a < Window - 1 => sliding[a] = 0
    BY <1>7 DEF IInv, Quiet
  <2>2. ASSUME NEW w \in Past PROVE Passed(sliding, w) = 0
    <3>1. w \in 0..Window /\ \A k \in Past : k < w => sliding[k] = 0
      BY <1>1, <2>1 DEF Past
    <3> QED
      BY <1>1, <3>1, PassedNone
  <2>3. ASSUME NEW w \in 0..(Window - MaxDelay) PROVE Passed(sliding', w) = 0
    <3>1. w = 0 \/ (w - 1 \in Past /\ (w - 1) + 1 = w)
      BY <1>1 DEF Past
    <3>2. CASE w - 1 \in Past /\ (w - 1) + 1 = w
      BY <1>5, <2>2, <3>2
    <3> QED
      BY <1>6, <3>1, <3>2
  <2>4. zttl' = 0 /\ entries' = {}
    BY <1>2, <1>7 DEF Pass
  <2> QED
    BY <1>4, <2>3, <2>4, NothingStored
<1>8. CASE zttl # 1
  <2> DEFINE L == {Older(e) : e \in entries}
  <2>1. entries' = L
    BY <1>2, <1>8
  <2>2. IsFiniteSet(L) /\ Cardinality(L) <= Cardinality(entries)
        /\ Cardinality(L) \in Nat
    BY <1>1, <1>3, OlderCount, FS_CardinalityType
  <2>3. \A a \in 0..Window :
          Cardinality(Recent(entries, a)) <= Cardinality(Recent(L, a + 1))
    BY <1>1, <1>3, RecentCount
  <2> HIDE DEF L
  <2>4. ASSUME NEW a PROVE Cardinality(Recent(L, a)) \in Nat
    <3>1. Recent(L, a) \in SUBSET L
      BY DEF Recent
    <3> QED
      BY <2>2, <3>1, FS_Subset, FS_CardinalityType
  <2>5. ASSUME ~ CanCollide, NEW w \in 0..(Window - MaxDelay)
        PROVE  Passed(sliding', w) <= Cardinality(Recent(L, w + MaxDelay))
    <3>1. CASE w = 0
      BY <1>6, <2>4, <3>1
    <3>2. CASE w > 0
      <4> DEFINE v == w - 1
      <4>1. v \in Past /\ v \in 0..(Window - MaxDelay) /\ v + 1 = w
            /\ v + MaxDelay \in 0..Window
            /\ (v + MaxDelay) + 1 = w + MaxDelay
        BY <1>1, <3>2 DEF Past
      <4>2. Passed(sliding', w) = Passed(sliding, v)
        BY <1>5, <4>1
      <4>3. Passed(sliding, v) <= Cardinality(Recent(entries, v + MaxDelay))
        BY <2>5, <4>1 DEF IInv, Stored
      <4>4. Cardinality(Recent(entries, v + MaxDelay))
              <= Cardinality(Recent(L, w + MaxDelay))
        BY <2>3, <4>1
      <4>5. Cardinality(Recent(entries, v + MaxDelay)) \in Nat
        <5>1. Recent(entries, v + MaxDelay) \in SUBSET entries
          BY DEF Recent
        <5> QED
          BY <1>3, <5>1, FS_Subset, FS_CardinalityType
      <4>6. Passed(sliding, v) \in Nat
        <5>1. v \in 0..Window
          BY <1>1, <4>1
        <5> QED
          BY <1>1, <5>1, PassedSteps
      <4>7. Cardinality(Recent(L, w + MaxDelay)) \in Nat
        BY <2>4
      <4> HIDE DEF v
      <4> QED
        BY <4>2, <4>3, <4>4, <4>5, <4>6, <4>7
    <3> QED
      BY <3>1, <3>2
  <2>6. Stored'
    BY <1>1, <1>3, <2>1, <2>2, <2>5 DEF Stored
  <2>7. Quiet'
    <3> SUFFICES ASSUME zttl' > 0, NEW a \in Past, a < Window - zttl'
                 PROVE  sliding'[a] = 0
      BY DEF Quiet
    <3>1. zttl > 0 /\ zttl' = zttl - 1
      BY <1>1, <1>2 DEF Pass
    <3>2. sliding'[a] = IF a = 0 THEN 0 ELSE sliding[a - 1]
      BY <1>2 DEF Shift
    <3>3. CASE a # 0
      <4>1. a - 1 \in Past /\ a - 1 < Window - zttl
        BY <1>1, <3>1, <3>3 DEF Past
      <4> QED
        BY <3>1, <3>2, <3>3, <4>1 DEF IInv, Quiet
    <3> QED
      BY <3>2, <3>3
  <2> QED
    BY <2>6, <2>7
<1> QED
  BY <1>7, <1>8

(* Time keeps the invariant.                                                *)
LEMMA TickKeeps == ASSUME IInv, Tick PROVE IInv'
  BY TickTypes, TickFixed, TickStatus, TickSliding DEF IInv

-----------------------------------------------------------------------------

(* The invariant holds in the beginning.                                    *)
LEMMA InitInv == Init => IInv
<1> SUFFICES ASSUME Init PROVE IInv
  OBVIOUS
<1>1. /\ Window \in Nat \ {0} /\ MaxAllowed \in Nat
      /\ MaxDelay \in 0..(Window - 1)
  BY RateConstants
<1>2. TypeOK
  BY <1>1, NothingTypes DEF Init, TypeOK, Answer
<1>3. Alive
  BY DEF Init, Alive
<1>4. Passed(Nothing, Window) = 0
  BY <1>1, NothingTypes
<1>5. FixedWindow
  BY <1>1, <1>4, NothingTypes DEF Init, FixedWindow
<1>6. StatusKnown
  BY DEF Init, StatusKnown, Unasked
<1>7. entries = {} /\ \A w \in 0..(Window - MaxDelay) : Passed(sliding, w) = 0
  BY <1>1, NothingTypes DEF Init
<1>8. ASSUME NEW w \in 0..(Window - MaxDelay)
      PROVE  Passed(sliding, w) <= Cardinality(Recent(entries, w + MaxDelay))
  <2>1. Recent(entries, w + MaxDelay) = {}
    BY <1>7 DEF Recent
  <2>2. Cardinality(Recent(entries, w + MaxDelay)) = 0
    BY <2>1, FS_EmptySet
  <2>3. Passed(sliding, w) = 0
    BY <1>7
  <2> QED
    BY <2>2, <2>3
<1>9. Stored
  <2>1. IsFiniteSet(entries) /\ Cardinality(entries) = 0
    BY <1>7, FS_EmptySet
  <2>2. Cardinality(entries) <= MaxAllowed
    BY <1>1, <2>1
  <2> QED
    BY <1>8, <2>1, <2>2 DEF Stored
<1>10. Quiet
  BY DEF Init, Quiet
<1> QED
  BY <1>2, <1>3, <1>5, <1>6, <1>9, <1>10 DEF IInv

(* Every step keeps the invariant.                                          *)
LEMMA NextKeeps == IInv /\ [Next]_vars => IInv'
<1> SUFFICES ASSUME IInv, [Next]_vars PROVE IInv'
  OBVIOUS
<1>1. CASE UNCHANGED vars
  <2>1. TypeOK'
    BY <1>1 DEF vars, IInv, TypeOK
  <2> QED
    BY <1>1, <2>1, FixedUntouched, SlidingUntouched DEF vars, IInv
<1> QED
  BY <1>1, TickKeeps, AllowKeeps, AllowedKeeps, RefusedKeeps, ResetKeeps,
     ResetEndsKeeps, StatusKeeps DEF Next, SlidingWindowAllowN

(* The invariant holds for ever.                                            *)
LEMMA Invariance == Spec => []IInv
  BY InitInv, NextKeeps, PTL DEF Spec

(* Every variable has its type: the counter never exceeds the maximum and   *)
(* no time to live exceeds the window.                                      *)
THEOREM TypeCorrect == Spec => []TypeOK
<1>1. IInv => TypeOK
  BY DEF IInv
<1> QED
  BY <1>1, Invariance, PTL

(* No stretch of time as long as a window sees AllowN let more than twice   *)
(* the maximum pass, for every maximum and every window.                    *)
THEOREM FixedIsBounded == Spec => []FixedBound
<1>1. IInv => FixedBound
  <2> SUFFICES ASSUME IInv PROVE FixedBound
    OBVIOUS
  <2>1. count \in 0..MaxAllowed \cup {-1} /\ MaxAllowed \in Nat
        /\ Passed(fixed, Window) \in Nat
    BY PassedSteps, RateConstants DEF IInv, TypeOK, NoKey
  <2> QED
    BY <2>1 DEF IInv, FixedWindow, FixedBound, NoKey
<1> QED
  BY <1>1, Invariance, PTL

(* While the window that GetStatus has counted lasts, at most Remaining     *)
(* requests fit and the window ends by ResetAt, whatever happens between    *)
(* the two commands of its pipeline.                                        *)
THEOREM StatusIsBound == Spec => []StatusHolds
<1>1. IInv => StatusHolds
  BY DEF IInv, StatusKnown, StatusHolds, Current
<1> QED
  BY <1>1, Invariance, PTL

(* When the random parts of the members differ, SlidingWindowAllowN lets at *)
(* most the maximum pass in any stretch of time shorter than the window by  *)
(* the largest delay of a script.                                           *)
THEOREM SlidingIsBounded ==
  ASSUME ~ CanCollide PROVE Spec => []SlidingBound
<1>1. IInv => SlidingBound
  <2> SUFFICES ASSUME IInv PROVE SlidingBound
    OBVIOUS
  <2> DEFINE w == Window - MaxDelay
             R == Recent(entries, w + MaxDelay)
  <2>1. w \in 0..w /\ w \in 0..Window
    BY RateConstants
  <2>2. Passed(sliding, w) <= Cardinality(R)
    BY <2>1 DEF IInv, Stored
  <2>3. R \in SUBSET entries /\ IsFiniteSet(entries)
        /\ Cardinality(entries) <= MaxAllowed
    BY DEF Recent, IInv, Stored
  <2>4. Passed(sliding, w) \in Nat
    BY <2>1, PassedSteps DEF IInv, TypeOK
  <2> HIDE DEF R, w
  <2>5. /\ Cardinality(R) <= Cardinality(entries)
        /\ Cardinality(R) \in Nat /\ Cardinality(entries) \in Nat
    BY <2>3, FS_Subset, FS_CardinalityType
  <2>6. Passed(sliding, w) <= MaxAllowed
    BY <2>2, <2>3, <2>4, <2>5, RateConstants
  <2> QED
    BY <2>6 DEF SlidingBound, w
<1> QED
  BY <1>1, Invariance, PTL

(* When besides no script is late, no window at all sees more than the      *)
(* maximum: what the comment on RateLimitStatus.Total says fails only       *)
(* through equal members (RateCollision) and late clocks.                   *)
THEOREM TotalIsKept ==
  ASSUME ~ CanCollide, MaxDelay = 0 PROVE Spec => []TotalIsMaximum
<1>1. SlidingBound => TotalIsMaximum
  <2>1. Window - MaxDelay = Window
    BY RateConstants
  <2> QED
    BY <2>1 DEF SlidingBound, TotalIsMaximum
<1> QED
  BY <1>1, SlidingIsBounded, PTL
=============================================================================
