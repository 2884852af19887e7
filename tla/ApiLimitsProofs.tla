--------------------------- MODULE ApiLimitsProofs ---------------------------
(***************************************************************************)
(* Proofs about what the API rations: requests (RateLimits) and event      *)
(* sockets (EventSocket).                                                  *)
(*                                                                         *)
(* RateLimits, for any number of addresses, keys and requests, any         *)
(* capacities and periods and any size of the tables: the buckets behave   *)
(* as the plain budgets of TokenBudgets, and whoever waits as it was told  *)
(* to is granted a token.  The argument: what the tables hold is seen      *)
(* through LevelIn only.  Fetching a bucket, the sweep included, leaves    *)
(* LevelIn as it is (FetchedLevel), taking from it lowers one level by a   *)
(* token or none (TakeLevel), and a tick raises each as the plain budget   *)
(* does (TickStep).                                                        *)
(*                                                                         *)
(* EventSocket, for any number of sockets, any window, any folders: the    *)
(* count of open sockets is right, and a client that applies the updates   *)
(* has the window its socket last saw.                                     *)
(***************************************************************************)
EXTENDS RateLimits, EventSocket, FiniteSetTheorems, WellFoundedInduction, TLAPS

-----------------------------------------------------------------------------
(* Arithmetic that the prover needs to be told. *)

\* A product of naturals is one.
LEMMA ProductIsNat ==
    ASSUME NEW x \in Nat, NEW y \in Nat
    PROVE  x * y \in Nat
  OBVIOUS

\* Multiplication is monotone.
LEMMA ProductGrows ==
    ASSUME NEW x \in Nat, NEW y \in Nat, NEW c \in Nat, x <= y
    PROVE  c * x <= y * c
  OBVIOUS

\* One second more brings one more capacity.
LEMMA OneMore ==
    ASSUME NEW n \in Nat, NEW u \in Nat, NEW c \in Nat, u <= n
    PROVE  (n + 1 - u) * c = (n - u) * c + c
  OBVIOUS

\* The quotient rounded down, and one more of it, makes up the whole.
LEMMA RoundsUp ==
    ASSUME NEW x \in Nat, NEW c \in Nat \ {0}
    PROVE  x \div c \in Nat /\ (x \div c + 1) * c >= x
  <1> DEFINE q == x \div c
  <1>1. q \in Nat /\ x = c * q + (x % c) /\ x % c \in 0..c - 1
    OBVIOUS
  <1>2. c * q \in Nat /\ (q + 1) * c = c * q + c
    BY <1>1
  <1> HIDE DEF q
  <1> QED BY <1>1, <1>2 DEF q

LEMMA OneLess ==
    ASSUME NEW n \in Nat \ {0}, NEW c \in Nat
    PROVE  (n - 1) * c \in Nat /\ n * c = (n - 1) * c + c
  <1>1. n - 1 \in Nat
    OBVIOUS
  <1>2. (n - 1) * c \in Nat
    BY <1>1, ProductIsNat
  <1> QED BY <1>2

\* A limited budget holds at least one token when it is whole.
LEMMA OneToken ==
    ASSUME NEW c \in Nat \ {0}, NEW p \in Nat
    PROVE  c * p >= p
  OBVIOUS

\* A whole budget is a natural number of units.
LEMMA FullIsNat ==
    ASSUME NEW b \in Budgets
    PROVE  Full(b) \in Nat /\ Capacity[b] \in Nat /\ Period[b] \in Nat
  BY LimitsAssumption, ProductIsNat DEF Full

-----------------------------------------------------------------------------
(* Buckets. *)

\* A bucket that exists holds between nothing and its whole budget.
LEMMA RefilledType ==
    ASSUME now \in Nat, NEW B, BucketsOK(B), NEW b \in DOMAIN B
    PROVE  /\ Refilled(B, b) \in Nat /\ Refilled(B, b) <= Full(b)
           /\ B[b].tokens \in Nat /\ B[b].updated \in Nat /\ B[b].updated <= now
           /\ B[b].tokens <= Full(b)
           /\ Refilled(B, b) = IF B[b].tokens + (now - B[b].updated) * Capacity[b] > Full(b)
                               THEN Full(b) ELSE B[b].tokens + (now - B[b].updated) * Capacity[b]
  <1>1. b \in Budgets /\ B[b] \in [tokens : Nat, updated : Nat] /\ B[b].updated <= now
        /\ B[b].tokens <= Full(b)
    BY DEF BucketsOK
  <1>2. Full(b) \in Nat /\ Capacity[b] \in Nat
    BY <1>1, FullIsNat
  <1>3. (now - B[b].updated) * Capacity[b] \in Nat
    <2>1. now - B[b].updated \in Nat
      BY <1>1
    <2> QED BY <2>1, <1>2, ProductIsNat
  <1> QED BY <1>1, <1>2, <1>3 DEF Refilled

\* What a budget holds is between nothing and the whole of it.
LEMMA LevelType ==
    ASSUME now \in Nat, NEW B, BucketsOK(B)
    PROVE  \A b \in Budgets : LevelIn(B)[b] \in Nat /\ LevelIn(B)[b] <= Full(b)
  BY RefilledType, FullIsNat DEF LevelIn

\* The sweep drops full buckets only.
LEMMA SweptLevel ==
    ASSUME now \in Nat, NEW B, BucketsOK(B), NEW limiter
    PROVE  BucketsOK(Swept(B, limiter)) /\ LevelIn(Swept(B, limiter)) = LevelIn(B)
  <1> DEFINE S == Swept(B, limiter)
  <1>1. /\ DOMAIN S = {c \in DOMAIN B : c[1] = limiter => now - B[c].updated <= Period[c]}
        /\ \A b \in DOMAIN S : b \in DOMAIN B /\ S[b] = B[b]
    BY DEF Swept
  <1>2. BucketsOK(S)
    <2>1. S \in [DOMAIN S -> [tokens : Nat, updated : Nat]]
      BY <1>1 DEF BucketsOK, Swept
    <2> QED BY <1>1, <2>1 DEF BucketsOK
  <1>3. ASSUME NEW b \in Budgets
        PROVE  LevelIn(S)[b] = LevelIn(B)[b]
    <2>1. CASE b \in DOMAIN S
      <3>1. Refilled(S, b) = Refilled(B, b)
        BY <2>1, <1>1 DEF Refilled
      <3> QED BY <2>1, <1>1, <3>1 DEF LevelIn
    <2>2. CASE b \in DOMAIN B \ DOMAIN S
      <3>1. now - B[b].updated > Period[b] /\ B[b].tokens \in Nat /\ B[b].updated \in Nat
            /\ now - B[b].updated \in Nat
        BY <2>2, <1>1, FullIsNat, RefilledType
      <3>2. (now - B[b].updated) * Capacity[b] >= Full(b)
            /\ (now - B[b].updated) * Capacity[b] \in Nat
        BY <3>1, FullIsNat, ProductGrows, ProductIsNat DEF Full
      <3>3. Refilled(B, b) = Full(b)
        BY <2>2, <3>1, <3>2, RefilledType, FullIsNat
      <3> QED BY <2>2, <3>3 DEF LevelIn
    <2>3. CASE b \notin DOMAIN B
      BY <2>3, <1>1 DEF LevelIn
    <2> QED BY <2>1, <2>2, <2>3
  <1> QED BY <1>2, <1>3 DEF LevelIn

\* Looking a bucket up, with the sweep it may cause, changes no level.
LEMMA FetchedLevel ==
    ASSUME now \in Nat, NEW B, BucketsOK(B), NEW b \in Budgets
    PROVE  /\ BucketsOK(FetchedBucket(B, b)) /\ b \in DOMAIN FetchedBucket(B, b)
           /\ LevelIn(FetchedBucket(B, b)) = LevelIn(B)
  <1>1. CASE b \in DOMAIN B
    BY <1>1 DEF FetchedBucket
  <1>2. CASE b \notin DOMAIN B
    <2> DEFINE room == IF b[1] \in Limiters /\ Cardinality(Table(B, b[1])) >= SweepAt
                       THEN Swept(B, b[1]) ELSE B
               fresh == [tokens |-> Full(b), updated |-> now]
               F == [c \in DOMAIN room \cup {b} |-> IF c = b THEN fresh ELSE room[c]]
    <2>1. BucketsOK(room) /\ LevelIn(room) = LevelIn(B)
      BY SweptLevel
    <2>2. b \notin DOMAIN room
      BY <1>2 DEF Swept
    <2>3. FetchedBucket(B, b) = F
      BY <1>2 DEF FetchedBucket
    <2> HIDE DEF room
    <2>4. fresh \in [tokens : Nat, updated : Nat] /\ fresh.tokens = Full(b) /\ fresh.updated = now
      BY FullIsNat
    <2>5. BucketsOK(F)
      <3>1. F \in [DOMAIN F -> [tokens : Nat, updated : Nat]]
        BY <2>1, <2>4 DEF BucketsOK
      <3>2. \A c \in DOMAIN F : F[c].tokens <= Full(c) /\ F[c].updated <= now
        BY <2>1, <2>4, FullIsNat DEF BucketsOK
      <3> QED BY <3>1, <3>2, <2>1 DEF BucketsOK
    <2>6. ASSUME NEW c \in Budgets
          PROVE  LevelIn(F)[c] = LevelIn(room)[c]
      <3>1. CASE c = b
        <4>1. b \in DOMAIN F /\ F[b] = fresh
          OBVIOUS
        <4>2. (now - now) * Capacity[b] = 0
          BY FullIsNat
        <4>3. Refilled(F, b) = Full(b)
          BY <2>4, <4>1, <4>2, FullIsNat DEF Refilled
        <4> QED BY <3>1, <4>1, <4>3, <2>2 DEF LevelIn
      <3>2. CASE c # b
        <4>1. c \in DOMAIN F <=> c \in DOMAIN room
          BY <3>2
        <4>2. c \in DOMAIN room => Refilled(F, c) = Refilled(room, c)
          BY <3>2 DEF Refilled
        <4> QED BY <4>1, <4>2 DEF LevelIn
      <3> QED BY <3>1, <3>2
    <2>7. LevelIn(F) = LevelIn(room)
      BY <2>6 DEF LevelIn
    <2> QED BY <2>1, <2>3, <2>5, <2>7
  <1> QED BY <1>1, <1>2

\* Asking a bucket grants exactly when the plain budget holds a token, and
\* then takes that token; otherwise it takes nothing.
LEMMA TakeLevel ==
    ASSUME now \in Nat, NEW B, BucketsOK(B), NEW b \in Budgets
    PROVE  /\ BucketsOK(Take(B, b))
           /\ HasToken(B, b) <=> LevelIn(B)[b] >= Period[b]
           /\ LevelIn(Take(B, b)) =
                [LevelIn(B) EXCEPT ![b] = @ - (IF HasToken(B, b) THEN Period[b] ELSE 0)]
  <1> DEFINE F == FetchedBucket(B, b)
             left == Refilled(F, b) - (IF HasToken(B, b) THEN Period[b] ELSE 0)
             T == [F EXCEPT ![b] = [tokens |-> left, updated |-> now]]
  <1>1. BucketsOK(F) /\ b \in DOMAIN F /\ LevelIn(F) = LevelIn(B)
    BY FetchedLevel
  <1>2. Refilled(F, b) \in Nat /\ Refilled(F, b) <= Full(b)
    BY <1>1, RefilledType
  <1>3. LevelIn(B)[b] = Refilled(F, b)
    BY <1>1 DEF LevelIn
  <1>4. HasToken(B, b) <=> Refilled(F, b) >= Period[b]
    BY DEF HasToken
  <1>5. left \in Nat /\ left <= Full(b)
    BY <1>2, <1>4, FullIsNat
  <1>6. Take(B, b) = T
    BY DEF Take
  <1> HIDE DEF F, left
  <1>7. /\ DOMAIN T = DOMAIN F /\ T[b] = [tokens |-> left, updated |-> now]
        /\ \A c \in DOMAIN F : c # b => T[c] = F[c]
    BY <1>1
  <1>8. BucketsOK(T)
    <2>1. T \in [DOMAIN T -> [tokens : Nat, updated : Nat]]
      BY <1>1, <1>5 DEF BucketsOK
    <2>2. \A c \in DOMAIN T : T[c].tokens <= Full(c) /\ T[c].updated <= now
      BY <1>1, <1>5, <1>7 DEF BucketsOK
    <2> QED BY <1>1, <1>7, <2>1, <2>2 DEF BucketsOK
  <1>9. Refilled(T, b) = left
    <2>1. (now - now) * Capacity[b] = 0
      BY FullIsNat
    <2> QED BY <1>5, <1>7, <2>1, FullIsNat DEF Refilled
  <1>10. \A c \in DOMAIN F : c # b => Refilled(T, c) = Refilled(F, c)
    BY <1>7 DEF Refilled
  <1>11. LevelIn(T) = [LevelIn(F) EXCEPT ![b] = left]
    BY <1>1, <1>7, <1>9, <1>10 DEF LevelIn
  <1> QED BY <1>1, <1>3, <1>4, <1>6, <1>8, <1>11 DEF left

\* The same of a budget that may be unlimited.
LEMMA AfterLevel ==
    ASSUME now \in Nat, NEW B, BucketsOK(B), NEW b \in Budgets
    PROVE  /\ BucketsOK(After(B, b))
           /\ LevelIn(After(B, b)) =
                IF Limited(b) /\ Passes(B, b) THEN [LevelIn(B) EXCEPT ![b] = @ - Period[b]]
                                              ELSE LevelIn(B)
           /\ Limited(b) /\ Passes(B, b) => LevelIn(B)[b] >= Period[b]
  <1>1. CASE Limited(b) /\ HasToken(B, b)
    BY <1>1, TakeLevel DEF After, Passes
  <1>2. CASE Limited(b) /\ ~HasToken(B, b)
    <2>1. LevelIn(B)[b] - 0 = LevelIn(B)[b]
      BY LevelType
    <2>2. [LevelIn(B) EXCEPT ![b] = @ - 0] = LevelIn(B)
      BY <2>1 DEF LevelIn
    <2> QED BY <1>2, <2>2, TakeLevel DEF After, Passes
  <1>3. CASE ~Limited(b)
    BY <1>3 DEF After, Passes
  <1> QED BY <1>1, <1>2, <1>3

-----------------------------------------------------------------------------
(* The steps. *)

\* What every step keeps, and the refinement rests on.
Shape ==
    /\ now \in Nat
    /\ BucketsOK(bucket)
    /\ req \in [Requests -> Asked \cup {Idle}]

\* Well-formed tables stay so as time passes.
LEMMA BucketsKeep ==
    ASSUME now \in Nat, now' = now + 1, bucket' = bucket, BucketsOK(bucket)
    PROVE  BucketsOK(bucket)'
  BY DEF BucketsOK, Full

\* With the clock standing still, the new tables' levels are what LevelIn says.
LEMMA LevelNext ==
    ASSUME now' = now, NEW B, bucket' = B
    PROVE  Level' = LevelIn(B) /\ (BucketsOK(bucket)' <=> BucketsOK(B))
  BY DEF Level, LevelIn, Refilled, BucketsOK, Full

\* A second fills every budget by its capacity, up to the whole of it.
LEMMA TickStep ==
    ASSUME Shape, Tick
    PROVE  Plain!Tick /\ Shape'
  <1>1. now \in Nat /\ now' = now + 1 /\ bucket' = bucket /\ req' = req
    BY DEF Shape, Tick
  <1>2. ASSUME NEW b \in Budgets
        PROVE  Level'[b] = IF Level[b] + Capacity[b] > Full(b) THEN Full(b)
                           ELSE Level[b] + Capacity[b]
    <2>1. Full(b) \in Nat /\ Capacity[b] \in Nat
      BY FullIsNat
    <2>2. CASE b \notin DOMAIN bucket
      BY <1>1, <2>1, <2>2 DEF Level, LevelIn, Full
    <2>3. CASE b \in DOMAIN bucket
      <3> DEFINE age == now - bucket[b].updated
      <3>1. BucketsOK(bucket)
        BY DEF Shape
      <3>2. /\ bucket[b].tokens \in Nat /\ bucket[b].updated \in Nat /\ bucket[b].updated <= now
            /\ Level[b] = IF bucket[b].tokens + age * Capacity[b] > Full(b)
                          THEN Full(b) ELSE bucket[b].tokens + age * Capacity[b]
        BY <1>1, <2>3, <3>1, RefilledType DEF Level, LevelIn
      <3>3. (now + 1 - bucket[b].updated) * Capacity[b] = age * Capacity[b] + Capacity[b]
        BY <1>1, <2>1, <3>2, OneMore
      <3>4. age * Capacity[b] \in Nat
        <4>1. age \in Nat
          BY <1>1, <3>2
        <4> QED BY <4>1, <2>1, ProductIsNat
      <3>5. Level'[b] = IF bucket[b].tokens + (now + 1 - bucket[b].updated) * Capacity[b] > Full(b)
                        THEN Full(b)
                        ELSE bucket[b].tokens + (now + 1 - bucket[b].updated) * Capacity[b]
        <4>1. Level'[b] = Refilled(bucket, b)'
          BY <1>1, <2>3 DEF Level, LevelIn
        <4>2. Refilled(bucket, b)' =
                IF bucket'[b].tokens + (now' - bucket'[b].updated) * Capacity[b] > Full(b)
                THEN Full(b)
                ELSE bucket'[b].tokens + (now' - bucket'[b].updated) * Capacity[b]
          BY DEF Refilled
        <4>3. bucket'[b] = bucket[b] /\ now' - bucket'[b].updated = now + 1 - bucket[b].updated
          BY <1>1, <3>2
        <4>4. (now' - bucket'[b].updated) * Capacity[b]
                = (now + 1 - bucket[b].updated) * Capacity[b]
          BY <4>3, Zenon
        <4> QED BY <4>1, <4>2, <4>3, <4>4
      <3> HIDE DEF age
      <3> QED BY <2>1, <3>2, <3>3, <3>4, <3>5
    <2> QED BY <2>2, <2>3
  <1>3. Plain!Tick
    BY <1>2 DEF Plain!Tick, Plain!Full, Full, Level, LevelIn
  <1>4. BucketsOK(bucket)'
    BY <1>1, BucketsKeep DEF Shape
  <1> QED BY <1>1, <1>3, <1>4 DEF Shape

\* Asking one budget and changing nothing else is a grant or a stutter.
LEMMA AskStep ==
    ASSUME Shape, NEW b \in Budgets, bucket' = After(bucket, b), now' = now
    PROVE  BucketsOK(bucket)' /\ (Plain!Next \/ Level' = Level)
  <1>1. BucketsOK(bucket) /\ now \in Nat
    BY DEF Shape
  <1>2. BucketsOK(After(bucket, b)) /\ Level' = LevelIn(After(bucket, b))
        /\ (BucketsOK(bucket)' <=> BucketsOK(After(bucket, b)))
    BY <1>1, AfterLevel, LevelNext
  <1>3. CASE Limited(b) /\ Passes(bucket, b)
    <2>1. Level' = [Level EXCEPT ![b] = @ - Period[b]] /\ Level[b] >= Period[b]
      BY <1>1, <1>2, <1>3, AfterLevel DEF Level
    <2>2. Plain!Grant({b}, {})
      BY <2>1 DEF Plain!Grant, Level, LevelIn
    <2> QED BY <1>2, <2>2 DEF Plain!Next
  <1>4. CASE ~(Limited(b) /\ Passes(bucket, b))
    <2>1. LevelIn(After(bucket, b)) = LevelIn(bucket)
      BY <1>1, <1>4, AfterLevel
    <2> QED BY <1>2, <2>1 DEF Level
  <1> QED BY <1>3, <1>4

\* A request over its day has been charged to its minute all the same.
LEMMA OverDayStep ==
    ASSUME Shape, NEW r \in Requests, OverDay(r), Minute(r) \in Budgets, Day(r) \in Budgets
    PROVE  BucketsOK(bucket)' /\ (Plain!Next \/ Level' = Level)
  <1> DEFINE m == Minute(r)
             d == Day(r)
             spent == After(Charged(r), d)
  <1>1. BucketsOK(bucket) /\ now \in Nat /\ now' = now /\ Charged(r) = After(bucket, m)
        /\ Passes(bucket, m) /\ ~Passes(Charged(r), d) /\ bucket' = spent
    BY DEF Shape, OverDay, Charged
  <1>2. /\ BucketsOK(Charged(r))
        /\ LevelIn(Charged(r)) = IF Limited(m) THEN [Level EXCEPT ![m] = @ - Period[m]] ELSE Level
        /\ Limited(m) => Level[m] >= Period[m]
    BY <1>1, AfterLevel DEF Level
  <1>3. BucketsOK(spent) /\ LevelIn(spent) = LevelIn(Charged(r))
    BY <1>1, <1>2, AfterLevel
  <1> HIDE DEF spent
  <1>4. Level' = LevelIn(Charged(r)) /\ BucketsOK(bucket)'
    BY <1>1, <1>3, LevelNext
  <1>5. CASE Limited(m)
    <2>1. Plain!Grant({m}, {})
      BY <1>2, <1>4, <1>5 DEF Plain!Grant, Level, LevelIn
    <2> QED BY <1>4, <2>1 DEF Plain!Next
  <1>6. CASE ~Limited(m)
    BY <1>2, <1>4, <1>6
  <1> QED BY <1>5, <1>6

\* A request served is charged to its key's minute and day, and its address'
\* failures are restored.
LEMMA ServeStep ==
    ASSUME Shape, NEW r \in Requests, Serve(r)
    PROVE  Plain!Next /\ BucketsOK(bucket)'
  <1> DEFINE m == Minute(r)
             d == Day(r)
             forget == <<"failures", req[r].address>>
             spent == After(Charged(r), d)
             charged == {b \in {m, d} : Limited(b)}
             kept == [b \in DOMAIN spent \ {forget} |-> spent[b]]
  <1>1. BucketsOK(bucket) /\ now \in Nat /\ now' = now
    BY DEF Shape, Serve
  <1>2. m \in Budgets /\ d \in Budgets /\ forget \in Budgets /\ m # d /\ forget # m /\ forget # d
    <2>1. req[r] \in Asked
      BY DEF Shape, Serve, Idle
    <2>2. req[r].key \in Keys /\ req[r].address \in Addresses
      BY <2>1 DEF Asked, Serve
    <2> QED BY <2>2 DEF Budgets, Minute, Day, Limiters
  <1>3. Passes(bucket, m) /\ Passes(Charged(r), d) /\ bucket' = kept
    BY DEF Serve
  <1>4. Charged(r) = After(bucket, m)
    BY DEF Charged
  <1> HIDE DEF m, d, forget
  <1>5. /\ BucketsOK(Charged(r))
        /\ LevelIn(Charged(r)) = IF Limited(m) THEN [Level EXCEPT ![m] = @ - Period[m]] ELSE Level
        /\ Limited(m) => Level[m] >= Period[m]
    BY <1>1, <1>2, <1>3, <1>4, AfterLevel DEF Level
  <1>6. /\ BucketsOK(spent)
        /\ LevelIn(spent) = IF Limited(d) THEN [LevelIn(Charged(r)) EXCEPT ![d] = @ - Period[d]]
                                          ELSE LevelIn(Charged(r))
        /\ Limited(d) => LevelIn(Charged(r))[d] >= Period[d]
    BY <1>1, <1>2, <1>3, <1>5, AfterLevel
  <1>7. Level = [b \in Budgets |-> Level[b]]
    BY DEF Level, LevelIn
  <1>8. /\ \A b \in charged : Level[b] >= Period[b]
        /\ \A b \in Budgets :
              LevelIn(spent)[b] = IF b \in charged THEN Level[b] - Period[b] ELSE Level[b]
    BY <1>2, <1>5, <1>6, <1>7
  <1> HIDE DEF spent
  <1>9. BucketsOK(kept)
    BY <1>6 DEF BucketsOK
  <1>10. ASSUME NEW b \in Budgets
         PROVE  LevelIn(kept)[b] = IF b = forget THEN Full(b) ELSE LevelIn(spent)[b]
    <2>1. b \in DOMAIN kept => Refilled(kept, b) = Refilled(spent, b)
      BY DEF Refilled
    <2>2. b \in DOMAIN kept <=> b \in DOMAIN spent /\ b # forget
      OBVIOUS
    <2> QED BY <2>1, <2>2 DEF LevelIn
  <1> HIDE DEF kept
  <1>11. Level' = LevelIn(kept) /\ (BucketsOK(bucket)' <=> BucketsOK(kept))
    BY <1>1, <1>3, LevelNext
  <1>12. Plain!Grant(charged, {forget})
    <2>1. LevelIn(kept) = [b \in Budgets |-> LevelIn(kept)[b]]
      BY DEF LevelIn
    <2>2. \A b \in Budgets :
              LevelIn(kept)[b] = CASE b \in {forget} -> Full(b)
                                   [] b \in charged \ {forget} -> Level[b] - Period[b]
                                   [] OTHER -> Level[b]
      BY <1>2, <1>8, <1>10
    <2>3. Level' = [b \in Budgets |-> CASE b \in {forget} -> Full(b)
                                        [] b \in charged \ {forget} -> Level[b] - Period[b]
                                        [] OTHER -> Level[b]]
      BY <1>11, <2>1, <2>2
    <2> QED BY <1>8, <2>3 DEF Plain!Grant, Plain!Full, Full
  <1>13. charged \in SUBSET Budgets /\ {forget} \in SUBSET Forgivable
    BY <1>2, <1>1 DEF forget, Forgivable, Budgets, m, d, Minute, Day, Limiters
  <1> QED BY <1>9, <1>11, <1>12, <1>13 DEF Plain!Next

\* The tables start as budgets that are whole.
LEMMA Starts == LimitsInit => Shape /\ Plain!Init
  <1> SUFFICES ASSUME LimitsInit PROVE Shape /\ Plain!Init
    OBVIOUS
  <1>1. Level = [b \in Budgets |-> Full(b)]
    BY DEF LimitsInit, Level, LevelIn
  <1>2. BucketsOK(bucket)
    BY DEF LimitsInit, BucketsOK
  <1> QED BY <1>1, <1>2 DEF LimitsInit, Shape, Plain!Init, Plain!Full, Full

\* Every step is one of the plain budgets', or changes no level.
LEMMA StepsMap == Shape /\ [LimitsNext]_limits_vars => Shape' /\ [Plain!Next]_Level
  <1> SUFFICES ASSUME Shape, [LimitsNext]_limits_vars PROVE Shape' /\ (Plain!Next \/ Level' = Level)
    OBVIOUS
  <1>1. CASE Tick
    BY <1>1, TickStep DEF Plain!Next
  <1>2. ASSUME NEW r \in Requests, NEW a \in Addresses, NEW k \in Keys \cup {NoKey}, Arrive(r, a, k)
        PROVE  Shape' /\ (Plain!Next \/ Level' = Level)
    <2> DEFINE b == <<"anonymous", a>>
    <2>1. b \in Budgets
      BY DEF Budgets, Limiters
    <2>2. bucket' = After(bucket, b) /\ now' = now
          /\ (req' = [req EXCEPT ![r] = [address |-> a, key |-> k]] \/ req' = req)
      BY <1>2 DEF Arrive
    <2>3. BucketsOK(bucket)' /\ (Plain!Next \/ Level' = Level)
      BY <2>1, <2>2, AskStep
    <2>4. req' \in [Requests -> Asked \cup {Idle}]
      BY <2>2 DEF Shape, Asked
    <2> QED BY <2>2, <2>3, <2>4 DEF Shape
  <1>3. ASSUME NEW r \in Requests, Fail(r) \/ OverMinute(r) \/ OverDay(r) \/ Serve(r)
        PROVE  Shape' /\ (Plain!Next \/ Level' = Level)
    <2>1. req[r] \in Asked
      BY <1>3 DEF Shape, Fail, OverMinute, OverDay, Serve, Idle
    <2>2. /\ req' \in [Requests -> Asked \cup {Idle}] /\ now' = now
          /\ <<"failures", req[r].address>> \in Budgets
          /\ req[r].key # NoKey => Minute(r) \in Budgets /\ Day(r) \in Budgets
      BY <1>3, <2>1 DEF Shape, Fail, OverMinute, OverDay, Serve, Done, Asked, Budgets, Limiters,
                        Minute, Day
    <2>3. CASE Fail(r)
      BY <2>2, <2>3, AskStep DEF Fail, Shape
    <2>4. CASE OverMinute(r)
      <3>1. bucket' = After(bucket, Minute(r)) /\ Minute(r) \in Budgets
        BY <2>2, <2>4 DEF OverMinute, Charged
      <3> QED BY <2>2, <3>1, AskStep DEF Shape
    <2>5. CASE OverDay(r)
      <3>1. Minute(r) \in Budgets /\ Day(r) \in Budgets
        BY <2>2, <2>5 DEF OverDay
      <3>2. BucketsOK(bucket)' /\ (Plain!Next \/ Level' = Level)
        BY <2>5, <3>1, OverDayStep
      <3> QED BY <2>2, <3>2 DEF Shape
    <2>6. CASE Serve(r)
      BY <2>2, <2>6, ServeStep DEF Shape
    <2> QED BY <1>3, <2>3, <2>4, <2>5, <2>6
  <1>4. CASE UNCHANGED limits_vars
    <2>1. now' = now /\ bucket' = bucket /\ req' = req
      BY <1>4 DEF limits_vars
    <2>2. Level' = Level /\ (BucketsOK(bucket)' <=> BucketsOK(bucket))
      BY <2>1, LevelNext DEF Level
    <2> QED BY <2>1, <2>2 DEF Shape
  <1> QED BY <1>1, <1>2, <1>3, <1>4 DEF LimitsNext

-----------------------------------------------------------------------------
\* For every choice of the constants the tables are invisible: requests are
\* granted and refused as if every caller had a plain budget of its own that
\* fills as time passes, whatever is swept, forgotten or filled late.
THEOREM TablesAreInvisible == LimitsSpec => KeepsTheBudgets
  BY Starts, StepsMap, PTL DEF LimitsSpec, KeepsTheBudgets, Plain!Spec

-----------------------------------------------------------------------------
(* Waiting as told.                                                        *)

\* Whoever was told to come back at some moment finds a token then: what its budget
\* holds now, in tables B, and what comes until then, make one.
Promised(t, B) ==
    \A b \in Budgets : t[b] # 0 =>
        /\ Limited(b)
        /\ t[b] > now => LevelIn(B)[b] + (t[b] - now) * Capacity[b] >= Period[b]
        /\ t[b] <= now => LevelIn(B)[b] >= Period[b]

Told(t) == t \in [Budgets -> Nat]

\* What a refused caller is told is long enough: retry_after rounds up.
LEMMA RefusalPromises ==
    ASSUME now \in Nat, NEW B, BucketsOK(B), NEW b \in Budgets, Limited(b), ~HasToken(B, b)
    PROVE  /\ RetryAfter(Take(B, b), b) \in Nat \ {0}
           /\ LevelIn(B)[b] + RetryAfter(Take(B, b), b) * Capacity[b] >= Period[b]
  <1> DEFINE left == Refilled(FetchedBucket(B, b), b) - (IF HasToken(B, b) THEN Period[b] ELSE 0)
             x == Period[b] - LevelIn(B)[b]
             c == Capacity[b]
  <1>1. BucketsOK(FetchedBucket(B, b)) /\ b \in DOMAIN FetchedBucket(B, b)
        /\ LevelIn(FetchedBucket(B, b)) = LevelIn(B)
    BY FetchedLevel
  <1>2. LevelIn(B)[b] = Refilled(FetchedBucket(B, b), b)
    BY <1>1 DEF LevelIn
  <1>3. Refilled(FetchedBucket(B, b), b) \in Nat
    BY <1>1, RefilledType
  <1>4. Take(B, b)[b].tokens = LevelIn(B)[b]
    <2>1. left = LevelIn(B)[b]
      BY <1>2, <1>3
    <2>2. Take(B, b) = [FetchedBucket(B, b) EXCEPT ![b] = [tokens |-> left, updated |-> now]]
      BY DEF Take
    <2> HIDE DEF left
    <2> QED BY <1>1, <2>1, <2>2
  <1>5. ~(LevelIn(B)[b] >= Period[b])
    BY TakeLevel
  <1>6. c \in Nat \ {0} /\ Period[b] \in Nat
    BY FullIsNat DEF Limited
  <1>7. x \in Nat
    BY <1>2, <1>3, <1>5, <1>6
  <1>8. RetryAfter(Take(B, b), b) = x \div c + 1
    BY <1>4 DEF RetryAfter
  <1>9. x \div c \in Nat /\ (x \div c + 1) * c >= x
    BY <1>6, <1>7, RoundsUp
  <1>10. (x \div c + 1) * c \in Nat
    BY <1>6, <1>9, ProductIsNat
  <1>11. \A n, k, p \in Int : k >= p - n => n + k >= p
    OBVIOUS
  <1> QED BY <1>2, <1>3, <1>6, <1>8, <1>9, <1>10, <1>11

\* Asking one budget keeps every promise that is left.
LEMMA AskedPromises ==
    ASSUME now \in Nat, NEW B, BucketsOK(B), NEW b \in Budgets, NEW t, Told(t), Promised(t, B)
    PROVE  Told(Noted(t, B, b)) /\ Promised(Noted(t, B, b), After(B, b))
  <1> DEFINE wait == RetryAfter(Take(B, b), b)
  <1>1. BucketsOK(After(B, b))
    BY AfterLevel
  <1>2. CASE ~Limited(b)
    BY <1>2 DEF Noted, After
  <1>3. CASE Limited(b) /\ HasToken(B, b)
    <2>1. Noted(t, B, b) = [t EXCEPT ![b] = 0]
      BY <1>3 DEF Noted
    <2>2. \A k \in Budgets : k # b => LevelIn(After(B, b))[k] = LevelIn(B)[k]
      BY <1>3, AfterLevel DEF Passes, LevelIn
    <2> QED BY <2>1, <2>2 DEF Told, Promised
  <1>4. CASE Limited(b) /\ ~HasToken(B, b)
    <2>1. Noted(t, B, b) = [t EXCEPT ![b] = now + wait]
      BY <1>4 DEF Noted
    <2>2. LevelIn(After(B, b)) = LevelIn(B)
      BY <1>4, AfterLevel DEF Passes
    <2>3. wait \in Nat \ {0} /\ LevelIn(B)[b] + wait * Capacity[b] >= Period[b]
      BY <1>4, RefusalPromises
    <2> HIDE DEF wait
    <2>4. now + wait \in Nat /\ now + wait > now /\ (now + wait) - now = wait
      BY <2>3
    <2> QED BY <1>4, <2>1, <2>2, <2>3, <2>4 DEF Told, Promised
  <1> QED BY <1>2, <1>3, <1>4

\* A second brings what was promised of it.
LEMMA TickPromises ==
    ASSUME Shape, Tick, Told(told), Promised(told, bucket)
    PROVE  Told(told)' /\ Promised(told, bucket)'
  <1>1. now \in Nat /\ now' = now + 1 /\ BucketsOK(bucket)
    BY DEF Shape, Tick
  <1>2. told' = [b \in Budgets |-> IF told[b] <= now THEN 0 ELSE told[b]]
    BY DEF Tick
  <1>3. ASSUME NEW b \in Budgets, told'[b] # 0
        PROVE  /\ Limited(b)
               /\ told'[b] > now' => Level'[b] + (told'[b] - now') * Capacity[b] >= Period[b]
               /\ told'[b] <= now' => Level'[b] >= Period[b]
    <2> DEFINE c == Capacity[b]  p == Period[b]  n == Level[b]  d == told[b] - now
    <2>1. told[b] \in Nat /\ told'[b] = told[b] /\ told[b] > now
      BY <1>1, <1>2, <1>3 DEF Told
    <2>2. Limited(b) /\ n + d * c >= p
      <3>1. told[b] # 0
        BY <1>1, <2>1
      <3> HIDE DEF c, p
      <3> QED BY <2>1, <3>1, Zenon DEF Promised, Level, c, p
    <2>3. c \in Nat \ {0} /\ p \in Nat /\ Full(b) \in Nat
      BY <2>2, FullIsNat DEF Limited
    <2>4. Full(b) >= p
      BY <2>3, OneToken DEF Full
    <2>5. n \in Nat
      BY <1>1, LevelType DEF Level
    <2>6. Level'[b] = IF n + c > Full(b) THEN Full(b) ELSE n + c
      <3>1. Plain!Tick
        BY TickStep
      <3> QED BY <3>1 DEF Plain!Tick, Plain!Full, Full
    <2>7. d \in Nat \ {0} /\ told'[b] - now' = d - 1
      BY <1>1, <2>1
    <2> HIDE DEF c, p, n, d
    <2>8. (d - 1) * c \in Nat /\ d * c = (d - 1) * c + c
      BY <2>3, <2>7, OneLess
    <2>9. Level'[b] + (d - 1) * c >= p
      BY <2>2, <2>3, <2>4, <2>5, <2>6, <2>8
    <2>10. told'[b] <= now' => Level'[b] >= p
      <3>1. told'[b] <= now' => d - 1 = 0
        BY <1>1, <2>1, <2>7
      <3>2. 0 * c = 0
        BY <2>3
      <3>3. Level'[b] \in Nat
        BY <2>3, <2>5, <2>6
      <3> QED BY <2>9, <3>1, <3>2, <3>3
    <2> QED BY <2>2, <2>7, <2>9, <2>10 DEF c, p
  <1>4. Told(told)'
    BY <1>1, <1>2 DEF Told
  <1> QED BY <1>3, <1>4 DEF Promised, Level, Limited

\* A budget restored in full owes nothing.
LEMMA ForgivenPromises ==
    ASSUME NEW B, NEW f \in Budgets, NEW t, Told(t), Promised(t, B)
    PROVE  /\ Told([t EXCEPT ![f] = 0])
           /\ Promised([t EXCEPT ![f] = 0], [b \in DOMAIN B \ {f} |-> B[b]])
  <1> DEFINE kept == [b \in DOMAIN B \ {f} |-> B[b]]
             left == [t EXCEPT ![f] = 0]
  <1>1. ASSUME NEW b \in Budgets, b # f
        PROVE  LevelIn(kept)[b] = LevelIn(B)[b]
    <2>1. b \in DOMAIN kept <=> b \in DOMAIN B
      BY <1>1
    <2>2. b \in DOMAIN kept => Refilled(kept, b) = Refilled(B, b)
      BY DEF Refilled
    <2> QED BY <2>1, <2>2 DEF LevelIn
  <1>2. /\ left \in [Budgets -> Nat] /\ left[f] = 0
        /\ \A b \in Budgets : b # f => left[b] = t[b]
    BY DEF Told
  <1> HIDE DEF kept, left
  <1>3. Told(left) /\ Promised(left, kept)
    BY <1>1, <1>2 DEF Told, Promised
  <1> QED BY <1>3 DEF kept, left

\* With the clock standing still, the new tables' promises are what Promised says.
LEMMA PromisedNext ==
    ASSUME now' = now, NEW B, NEW t, bucket' = B, told' = t, Told(t), Promised(t, B)
    PROVE  Told(told)' /\ Promised(told, bucket)'
  BY DEF Told, Promised, LevelIn, Refilled, Full, Limited

LEMMA PromisesKeep ==
    ASSUME Shape, [LimitsNext]_limits_vars, Told(told), Promised(told, bucket)
    PROVE  Told(told)' /\ Promised(told, bucket)'
  <1>1. BucketsOK(bucket) /\ now \in Nat
    BY DEF Shape
  <1>2. CASE Tick
    BY <1>2, TickPromises
  <1>3. ASSUME NEW r \in Requests, NEW a \in Addresses, NEW k \in Keys \cup {NoKey},
               Arrive(r, a, k)
        PROVE  Told(told)' /\ Promised(told, bucket)'
    <2> DEFINE b == <<"anonymous", a>>
    <2>1. b \in Budgets
      BY DEF Budgets, Limiters
    <2>2. bucket' = After(bucket, b) /\ told' = Noted(told, bucket, b) /\ now' = now
      BY <1>3 DEF Arrive
    <2> HIDE DEF b
    <2>3. Told(Noted(told, bucket, b)) /\ Promised(Noted(told, bucket, b), After(bucket, b))
      BY <1>1, <2>1, AskedPromises
    <2> QED BY <2>2, <2>3, PromisedNext
  <1>4. ASSUME NEW r \in Requests, Fail(r) \/ OverMinute(r) \/ OverDay(r) \/ Serve(r)
        PROVE  Told(told)' /\ Promised(told, bucket)'
    <2> DEFINE failures == <<"failures", req[r].address>>  m == Minute(r)  d == Day(r)
               t == Noted(told, bucket, m)
               u == Noted(t, Charged(r), d)
               spent == After(Charged(r), d)
    <2>1. req[r] \in Asked
      BY <1>4 DEF Shape, Fail, OverMinute, OverDay, Serve, Idle
    <2>2. failures \in Budgets /\ (req[r].key # NoKey => m \in Budgets /\ d \in Budgets)
      BY <2>1 DEF Asked, Budgets, Limiters, Minute, Day
    <2>3. Charged(r) = After(bucket, m) /\ now' = now
      BY <1>4 DEF Charged, Fail, OverMinute, OverDay, Serve
    <2>4. CASE Fail(r)
      <3>1. bucket' = After(bucket, failures) /\ told' = Noted(told, bucket, failures)
        BY <2>4 DEF Fail
      <3> HIDE DEF failures
      <3>2. /\ Told(Noted(told, bucket, failures))
            /\ Promised(Noted(told, bucket, failures), After(bucket, failures))
        BY <1>1, <2>2, AskedPromises
      <3> QED BY <2>3, <3>1, <3>2, PromisedNext
    <2>5. req[r].key # NoKey =>
            Told(t) /\ Promised(t, Charged(r)) /\ BucketsOK(Charged(r))
      <3> HIDE DEF m
      <3> QED BY <1>1, <2>2, <2>3, AskedPromises, AfterLevel
    <2>6. req[r].key # NoKey => Told(u) /\ Promised(u, spent)
      <3> HIDE DEF t, d
      <3> QED BY <1>1, <2>2, <2>5, AskedPromises
    <2>7. CASE OverMinute(r)
      <3>1. bucket' = Charged(r) /\ told' = t /\ req[r].key # NoKey
        BY <2>7 DEF OverMinute
      <3> HIDE DEF t
      <3> QED BY <2>3, <2>5, <3>1, PromisedNext
    <2>8. CASE OverDay(r)
      <3>1. bucket' = spent /\ told' = u /\ req[r].key # NoKey
        BY <2>8 DEF OverDay
      <3> HIDE DEF spent, u
      <3> QED BY <2>3, <2>6, <3>1, PromisedNext
    <2>9. CASE Serve(r)
      <3> DEFINE kept == [b \in DOMAIN spent \ {failures} |-> spent[b]]
                 left == [u EXCEPT ![failures] = 0]
      <3>1. bucket' = kept /\ told' = left /\ req[r].key # NoKey
        BY <2>9 DEF Serve
      <3> HIDE DEF spent, u, failures
      <3>2. Told(left) /\ Promised(left, kept)
        BY <2>2, <2>6, <3>1, ForgivenPromises
      <3> HIDE DEF kept, left
      <3> QED BY <2>3, <3>1, <3>2, PromisedNext
    <2> QED BY <1>4, <2>4, <2>7, <2>8, <2>9
  <1>5. CASE UNCHANGED limits_vars
    <2>1. now' = now /\ bucket' = bucket /\ told' = told
      BY <1>5 DEF limits_vars
    <2> QED BY <2>1, PromisedNext
  <1> QED BY <1>2, <1>3, <1>4, <1>5 DEF LimitsNext

PromisesOK == Shape /\ Told(told) /\ Promised(told, bucket)

LEMMA PromisesHold == LimitsSpec => []PromisesOK
  <1>1. LimitsInit => PromisesOK
    BY Starts DEF PromisesOK, LimitsInit, Told, Promised
  <1>2. PromisesOK /\ [LimitsNext]_limits_vars => PromisesOK'
    BY StepsMap, PromisesKeep DEF PromisesOK
  <1> QED BY <1>1, <1>2, PTL DEF LimitsSpec

\* The tables stay well formed: no bucket holds more than it may or was asked later than
\* now, whatever is swept, forgotten or charged.
THEOREM TypesAreKept == LimitsSpec => []LimitsTypeOK
  <1>1. PromisesOK => LimitsTypeOK
    BY DEF PromisesOK, Shape, Told, LimitsTypeOK
  <1> QED BY <1>1, PromisesHold, PTL

\* Whoever comes back when it was told to, and finds that nobody has spent its budget
\* meanwhile, is granted a token (Bucket.retry_after), for every capacity and period:
\* those that do not divide one another too.
THEOREM WaitingIsEnough == LimitsSpec => []WaitIsEnough
  <1>1. PromisesOK => WaitIsEnough
    BY DEF PromisesOK, Promised, WaitIsEnough, Level
  <1> QED BY <1>1, PromisesHold, PTL

-----------------------------------------------------------------------------
(* Listings. *)

\* What is restricted is a listing again, of the uids that were asked for.
LEMMA RestrictedType ==
    ASSUME NEW list \in List, NEW uids
    PROVE  /\ Restricted(list, uids) \in List
           /\ DOMAIN Restricted(list, uids) = uids \cap DOMAIN list
           /\ \A u \in uids \cap DOMAIN list : Restricted(list, uids)[u] = list[u]
  <1>1. PICK d \in SUBSET Uids : list \in [d -> Flags]
    BY DEF List
  <1>2. Restricted(list, uids) \in [uids \cap d -> Flags]
    BY <1>1 DEF Restricted
  <1>3. uids \cap d \in SUBSET Uids
    OBVIOUS
  <1> QED BY <1>1, <1>2, <1>3 DEF List, Restricted

\* A listing's uids are some of the finitely many there ever are.
LEMMA ListFinite ==
    ASSUME NEW list \in List
    PROVE  /\ DOMAIN list \subseteq Uids
           /\ IsFiniteSet(DOMAIN list)
           /\ \A u \in DOMAIN list : list[u] \in Flags
           /\ list = [u \in DOMAIN list |-> list[u]]
  <1>1. DOMAIN list \subseteq Uids /\ (\A u \in DOMAIN list : list[u] \in Flags)
        /\ list = [u \in DOMAIN list |-> list[u]]
    BY DEF List
  <1>2. IsFiniteSet(Uids)
    BY FS_Interval, SocketsAssumption DEF Uids
  <1> QED BY <1>1, <1>2, FS_Subset

\* Fewer than Window of these uids are newer than any one of them.
Narrow(uids) == \A u \in uids : Cardinality({v \in uids : v > u}) < Window

\* Being narrow is inherited by the uids that are left.
LEMMA NarrowSubset ==
    ASSUME NEW wide \in SUBSET Uids, Narrow(wide), NEW part \in SUBSET wide
    PROVE  Narrow(part)
  <1> SUFFICES ASSUME NEW u \in part
               PROVE  Cardinality({v \in part : v > u}) < Window
    BY DEF Narrow
  <1>1. IsFiniteSet(Uids)
    BY FS_Interval, SocketsAssumption DEF Uids
  <1>2. IsFiniteSet({v \in wide : v > u})
    BY <1>1, FS_Subset
  <1>3. {v \in part : v > u} \subseteq {v \in wide : v > u}
    OBVIOUS
  <1>4. /\ IsFiniteSet({v \in part : v > u})
        /\ Cardinality({v \in part : v > u}) <= Cardinality({v \in wide : v > u})
    BY <1>2, <1>3, FS_Subset
  <1>5. Cardinality({v \in part : v > u}) \in Nat /\ Cardinality({v \in wide : v > u}) \in Nat
    BY <1>2, <1>4, FS_CardinalityType
  <1>6. Cardinality({v \in wide : v > u}) < Window
    BY DEF Narrow
  <1> QED BY <1>4, <1>5, <1>6, SocketsAssumption

\* The newest uids are narrow.
LEMMA NewestNarrow ==
    ASSUME NEW uids \in SUBSET Uids
    PROVE  Newest(uids) \in SUBSET uids /\ Narrow(Newest(uids))
  <1>0. Newest(uids) \subseteq uids
    BY DEF Newest
  <1> SUFFICES ASSUME NEW u \in Newest(uids)
               PROVE  Cardinality({v \in Newest(uids) : v > u}) < Window
    BY <1>0 DEF Narrow
  <1>1. IsFiniteSet(Uids)
    BY FS_Interval, SocketsAssumption DEF Uids
  <1>2. IsFiniteSet({v \in uids : v > u})
    BY <1>1, FS_Subset
  <1>4. /\ IsFiniteSet({v \in Newest(uids) : v > u})
        /\ Cardinality({v \in Newest(uids) : v > u}) <= Cardinality({v \in uids : v > u})
    BY <1>0, <1>2, FS_Subset
  <1>5. /\ Cardinality({v \in Newest(uids) : v > u}) \in Nat
        /\ Cardinality({v \in uids : v > u}) \in Nat
    BY <1>2, <1>4, FS_CardinalityType
  <1>6. Cardinality({v \in uids : v > u}) < Window
    BY DEF Newest
  <1> QED BY <1>4, <1>5, <1>6, SocketsAssumption

\* Among some uids there is an oldest one: of the intervals that end at them,
\* one has no other inside.
LEMMA LeastUid ==
    ASSUME NEW uids \in SUBSET Uids, uids # {}
    PROVE  \E u \in uids : \A v \in uids : u <= v
  <1> DEFINE upTo == {1..u : u \in uids}
  <1>1. upTo \subseteq FiniteSubsetsOf(Nat)
    <2> SUFFICES ASSUME NEW u \in uids
                 PROVE  1..u \in FiniteSubsetsOf(Nat)
      OBVIOUS
    <2>1. u \in Int /\ 1 \in Int
      BY DEF Uids
    <2>2. IsFiniteSet(1..u)
      BY <2>1, FS_Interval
    <2> QED BY <2>1, <2>2 DEF FiniteSubsetsOf
  <1>2. upTo # {}
    OBVIOUS
  <1>3. IsWellFoundedOn(StrictSubsetOrdering(Nat), FiniteSubsetsOf(Nat))
    BY FS_StrictSubsetOrderingWellFounded
  <1> HIDE DEF upTo
  <1>4. PICK x \in upTo : \A y \in upTo : <<y, x>> \notin StrictSubsetOrdering(Nat)
    BY <1>1, <1>2, <1>3, WFMin
  <1>5. PICK u \in uids : x = 1..u
    BY <1>4 DEF upTo
  <1>6. ASSUME NEW v \in uids
        PROVE  u <= v
    <2>1. 1..v \in upTo
      BY DEF upTo
    <2>2. <<1..v, 1..u>> \notin StrictSubsetOrdering(Nat)
      BY <1>4, <1>5, <2>1
    <2>3. u \in 1..MaxUid /\ v \in 1..MaxUid
      BY DEF Uids
    <2>4. CASE v < u
      <3>1. 1..v \subseteq 1..u /\ u \in 1..u /\ u \notin 1..v
        BY <2>3, <2>4
      <3>2. 1..v # 1..u
        BY <3>1
      <3>3. 1..v \in SUBSET Nat /\ 1..u \in SUBSET Nat
        BY <2>3
      <3> QED BY <2>2, <3>1, <3>2, <3>3 DEF StrictSubsetOrdering
    <2> QED BY <2>3, <2>4
  <1> QED BY <1>6

\* What a client makes of a correct picture and one update is the next listing,
\* though the update says nothing of the uids that were pushed off the window.
LEMMA UpdatesAddUp ==
    ASSUME NEW before \in List, NEW after \in List, Narrow(DOMAIN after)
    PROVE  Applied(before, Update(before, after)) = after
  <1> DEFINE update == Update(before, after)
  <1> DEFINE known == [u \in DOMAIN before \cup DOMAIN update.new |->
                          IF u \in DOMAIN update.new THEN update.new[u]
                          ELSE IF u \in DOMAIN update.changed THEN update.changed[u]
                          ELSE before[u]]
  <1> DEFINE left == DOMAIN known \ update.removed
  <1>1. /\ DOMAIN before \subseteq Uids /\ DOMAIN after \subseteq Uids
        /\ IsFiniteSet(DOMAIN after)
        /\ after = [u \in DOMAIN after |-> after[u]]
    BY ListFinite
  <1>2. /\ update.new = Restricted(after, DOMAIN after \ DOMAIN before)
        /\ update.changed = [u \in {v \in DOMAIN after \cap DOMAIN before :
                                       before[v] # after[v]} |-> after[u]]
        /\ update.removed = {u \in DOMAIN before \ DOMAIN after : u >= Floor(after)}
    BY DEF Update
  <1>3. /\ DOMAIN update.new = DOMAIN after \ DOMAIN before
        /\ \A u \in DOMAIN after \ DOMAIN before : update.new[u] = after[u]
    BY <1>2 DEF Restricted
  <1>4. DOMAIN known = DOMAIN before \cup DOMAIN after
    BY <1>3
  <1>5. \A u \in DOMAIN after : known[u] = after[u]
    BY <1>2, <1>3
  <1>6. DOMAIN after \subseteq left
    BY <1>2, <1>4
  <1>7. Newest(left) = DOMAIN after
    <2>1. CASE Cardinality(DOMAIN after) >= Window
      <3>1. DOMAIN after # {}
        BY <2>1, FS_EmptySet, SocketsAssumption
      <3>2. Floor(after) \in DOMAIN after /\ \A v \in DOMAIN after : Floor(after) <= v
        <4>1. \E u \in DOMAIN after : \A v \in DOMAIN after : u <= v
          BY <1>1, <3>1, LeastUid
        <4> QED BY <2>1, <4>1 DEF Floor
      <3>3. \A u \in left \ DOMAIN after : \A v \in DOMAIN after : u < v
        BY <1>1, <1>2, <1>4, <3>2 DEF Uids
      <3>4. ASSUME NEW u \in DOMAIN after
            PROVE  u \in Newest(left)
        <4>1. {v \in left : v > u} = {v \in DOMAIN after : v > u}
          BY <1>1, <1>4, <1>6, <3>3 DEF Uids
        <4> QED BY <1>6, <4>1 DEF Newest, Narrow
      <3>5. ASSUME NEW u \in left \ DOMAIN after
            PROVE  u \notin Newest(left)
        <4>1. DOMAIN after \subseteq {v \in left : v > u}
          BY <1>1, <1>4, <1>6, <3>3 DEF Uids
        <4>2. IsFiniteSet(left)
          <5>1. left \subseteq Uids
            BY <1>1, <1>4
          <5>2. IsFiniteSet(Uids)
            BY FS_Interval, SocketsAssumption DEF Uids
          <5> QED BY <5>1, <5>2, FS_Subset
        <4>3. IsFiniteSet({v \in left : v > u})
          BY <4>2, FS_Subset
        <4>4. Cardinality(DOMAIN after) <= Cardinality({v \in left : v > u})
          BY <4>1, <4>3, FS_Subset
        <4>5. /\ Cardinality(DOMAIN after) \in Nat
              /\ Cardinality({v \in left : v > u}) \in Nat
          BY <1>1, <4>3, FS_CardinalityType
        <4>6. ~(Cardinality({v \in left : v > u}) < Window)
          BY <2>1, <4>4, <4>5, SocketsAssumption
        <4> QED BY <4>6 DEF Newest
      <3>6. Newest(left) \subseteq left
        BY DEF Newest
      <3> QED BY <1>6, <3>4, <3>5, <3>6
    <2>2. CASE ~(Cardinality(DOMAIN after) >= Window)
      <3>1. Floor(after) = 0
        BY <2>2 DEF Floor
      <3>2. left = DOMAIN after
        BY <1>1, <1>2, <1>4, <3>1 DEF Uids
      <3>3. \A u \in DOMAIN after : u \in Newest(DOMAIN after)
        BY DEF Newest, Narrow
      <3> QED BY <3>2, <3>3 DEF Newest
    <2> QED BY <2>1, <2>2
  <1>8. Applied(before, update) = Restricted(known, Newest(left))
    BY DEF Applied
  <1>9. Restricted(known, Newest(left)) = [u \in DOMAIN after |-> known[u]]
    BY <1>4, <1>7 DEF Restricted
  <1>10. [u \in DOMAIN after |-> known[u]] = [u \in DOMAIN after |-> after[u]]
    BY <1>5
  <1> QED BY <1>1, <1>8, <1>9, <1>10

-----------------------------------------------------------------------------
(* The invariant. *)

\* The stages in which a task holds a slot.
Held == {"connecting", "searching", "fetching", "waiting", "emit searching", "emit fetching"}

\* What a task remembers of its folder: SEARCH kept no more than a window, and
\* the client has followed every report.
Follows(socket) == Narrow(socket.found) /\ socket.picture = socket.view

Inv ==
    /\ TypeOK
    /\ SlotsMatchSockets
    /\ \A s \in Sockets : Follows(sock[s])

\* Those who hold a slot are finitely many.
LEMMA ServingFinite ==
    IsFiniteSet(Serving) /\ Cardinality(Serving) \in Nat
  <1>1. Serving \subseteq Sockets
    BY DEF Serving
  <1>2. IsFiniteSet(Serving)
    BY <1>1, SocketsAssumption, FS_Subset
  <1> QED BY <1>2, FS_CardinalityType

\* The empty listing, and a socket that has been closed.
LEMMA ClosedType ==
    /\ Nothing \in List /\ Narrow({})
    /\ NotYet \in Socket /\ Follows(NotYet)
    /\ [NotYet EXCEPT !.at = "closed"] \in Socket
    /\ Follows([NotYet EXCEPT !.at = "closed"])
  <1>1. Nothing \in [{} -> Flags]
    BY DEF Nothing, Flags
  <1>2. Nothing \in List
    BY <1>1 DEF List
  <1>3. Narrow({})
    BY DEF Narrow
  <1>4. "INBOX" \in Folders
    BY SocketsAssumption
  <1> QED BY <1>2, <1>3, <1>4 DEF NotYet, Socket, Stages, Follows

\* One task's step: the invariant holds afterwards if what it becomes is a
\* socket that follows its folder, and the count moves with its slot.
LEMMA OneSocket ==
    ASSUME Inv, NEW s \in Sockets, NEW r \in Socket, Follows(r),
           sock' = [sock EXCEPT ![s] = r], UNCHANGED box,
           \/ (r.at \in Held <=> s \in Serving) /\ count' = count
           \/ r.at \in Held /\ s \notin Serving /\ count' = count + 1
           \/ r.at \notin Held /\ s \in Serving /\ count' = count - 1
    PROVE  Inv'
  <1>1. TypeOK /\ SlotsMatchSockets /\ (\A t \in Sockets : Follows(sock[t]))
    BY DEF Inv
  <1>2. sock' \in [Sockets -> Socket] /\ \A t \in Sockets : Follows(sock'[t])
    BY <1>1 DEF TypeOK
  <1>3. /\ Serving = {t \in Sockets : sock[t].at \in Held}
        /\ Serving' = {t \in Sockets : sock'[t].at \in Held}
    BY DEF Serving, Held
  <1>4. \A t \in Sockets \ {s} : sock'[t] = sock[t]
    BY <1>1 DEF TypeOK
  <1>5. sock'[s] = r
    BY <1>1 DEF TypeOK
  <1>6. count' = Cardinality(Serving') /\ count' \in Nat
    <2>1. CASE (r.at \in Held <=> s \in Serving) /\ count' = count
      <3>1. Serving' = Serving
        BY <1>3, <1>4, <1>5, <2>1
      <3> QED BY <1>1, <2>1, <3>1 DEF TypeOK, SlotsMatchSockets
    <2>2. CASE r.at \in Held /\ s \notin Serving /\ count' = count + 1
      <3>1. Serving' = Serving \cup {s}
        BY <1>3, <1>4, <1>5, <2>2
      <3>2. Cardinality(Serving \cup {s}) = Cardinality(Serving) + 1
        BY <2>2, ServingFinite, FS_AddElement
      <3> QED BY <1>1, <2>2, <3>1, <3>2 DEF TypeOK, SlotsMatchSockets
    <2>3. CASE r.at \notin Held /\ s \in Serving /\ count' = count - 1
      <3>1. Serving' = Serving \ {s}
        BY <1>3, <1>4, <1>5, <2>3
      <3>2. Cardinality(Serving \ {s}) = Cardinality(Serving) - 1
        BY <2>3, ServingFinite, FS_RemoveElement
      <3>3. Cardinality(Serving \ {s}) \in Nat
        BY ServingFinite, FS_RemoveElement, FS_CardinalityType
      <3> QED BY <1>1, <2>3, <3>1, <3>2, <3>3 DEF SlotsMatchSockets
    <2> QED BY <2>1, <2>2, <2>3
  <1>7. TypeOK'
    BY <1>1, <1>2, <1>6 DEF TypeOK, box
  <1> QED BY <1>2, <1>6, <1>7 DEF Inv, SlotsMatchSockets

-----------------------------------------------------------------------------
(* The steps. *)

\* A task that goes away keeps no slot, and gives back the one it had.
LEMMA Ends ==
    ASSUME Inv, NEW s \in Sockets, Closed(s), UNCHANGED box,
           \/ s \notin Serving /\ count' = count
           \/ s \in Serving /\ count' = count - 1
    PROVE  Inv'
  <1> DEFINE r == [NotYet EXCEPT !.at = "closed"]
  <1>1. r \in Socket /\ Follows(r)
    BY ClosedType
  <1>2. r.at \notin Held
    BY DEF Held, NotYet
  <1>3. sock' = [sock EXCEPT ![s] = r]
    BY DEF Closed
  <1> HIDE DEF r
  <1> QED BY <1>1, <1>2, <1>3, OneSocket

\* A task that only goes on to another stage, in or out of its slot as before.
LEMMA GoesOn ==
    ASSUME Inv, NEW s \in Sockets, NEW stage \in Stages, GoTo(s, stage), UNCHANGED box,
           \/ (stage \in Held <=> s \in Serving) /\ count' = count
           \/ stage \in Held /\ s \notin Serving /\ count' = count + 1
    PROVE  Inv'
  <1> DEFINE r == [sock[s] EXCEPT !.at = stage]
  <1>1. sock \in [Sockets -> Socket] /\ Follows(sock[s])
    BY DEF Inv, TypeOK
  <1>2. r \in Socket /\ r.at = stage /\ Follows(r)
    BY <1>1 DEF Socket, Follows
  <1>3. sock' = [sock EXCEPT ![s] = r]
    BY <1>1 DEF GoTo
  <1> HIDE DEF r
  <1> QED BY <1>2, <1>3, OneSocket

\* What FETCH returns of a window is a listing no wider than the window.
LEMMA FetchedType ==
    ASSUME Inv, NEW s \in Sockets
    PROVE  /\ InFolder(s) \in List /\ Fetched(s) \in List
           /\ Narrow(DOMAIN Fetched(s))
  <1>1. sock[s] \in Socket /\ Follows(sock[s]) /\ folder \in [Folders -> List]
    BY DEF Inv, TypeOK
  <1>2. InFolder(s) \in List
    BY <1>1 DEF InFolder, Socket
  <1>3. /\ Fetched(s) \in List
        /\ DOMAIN Fetched(s) = sock[s].found \cap DOMAIN InFolder(s)
    BY <1>2, RestrictedType DEF Fetched
  <1>4. sock[s].found \in SUBSET Uids /\ Narrow(sock[s].found)
    BY <1>1 DEF Socket, Follows
  <1>5. Narrow(sock[s].found \cap DOMAIN InFolder(s))
    BY <1>4, NarrowSubset
  <1> QED BY <1>2, <1>3, <1>5

\* A client gets in, or does not.
LEMMA GettingIn ==
    ASSUME Inv, NEW s \in Sockets,
           Open(s) \/ FirstMessage(s) \/ Resolve(s) \/ Admit(s) \/ Accept(s)
    PROVE  Inv'
  <1>1. sock \in [Sockets -> Socket] /\ sock[s] \in Socket /\ Follows(sock[s])
    BY DEF Inv, TypeOK
  <1>2. ASSUME NEW r \in Socket, sock' = [sock EXCEPT ![s] = r], Follows(r), UNCHANGED box,
               s \notin Serving,
               \/ r.at \notin Held /\ count' = count
               \/ r.at \in Held /\ count' = count + 1
        PROVE  Inv'
    BY <1>2, OneSocket
  <1>3. CASE Open(s)
    <2>1. s \notin Serving
      BY <1>3 DEF Open, At, Serving
    <2>2. CASE GoTo(s, "resolving")
      BY <1>3, <2>1, <2>2, GoesOn DEF Open, Outside, Held, Stages
    <2>3. CASE sock' = [sock EXCEPT ![s].at = "asking", ![s].accepted = TRUE]
      <3> DEFINE r == [sock[s] EXCEPT !.at = "asking", !.accepted = TRUE]
      <3>1. r \in Socket /\ Follows(r) /\ r.at \notin Held
        BY <1>1 DEF Socket, Follows, Stages, Held
      <3>2. sock' = [sock EXCEPT ![s] = r]
        BY <1>1, <2>3
      <3>3. UNCHANGED box /\ count' = count
        BY <1>3 DEF Open, Outside
      <3> HIDE DEF r
      <3> QED BY <1>2, <2>1, <3>1, <3>2, <3>3
    <2> QED BY <1>3, <2>2, <2>3 DEF Open
  <1>4. CASE FirstMessage(s)
    <2>1. s \notin Serving
      BY <1>4 DEF FirstMessage, At, Serving
    <2> QED BY <1>4, <2>1, GoesOn, Ends DEF FirstMessage, Outside, Held, Stages
  <1>5. CASE Resolve(s)
    <2>1. s \notin Serving
      BY <1>5 DEF Resolve, At, Serving
    <2> QED BY <1>5, <2>1, GoesOn, Ends DEF Resolve, Outside, Held, Stages
  <1>6. CASE Admit(s)
    <2>1. s \notin Serving
      BY <1>6 DEF Admit, At, Serving
    <2> QED BY <1>6, <2>1, GoesOn, Ends DEF Admit, Outside, Held, Stages
  <1>7. CASE Accept(s)
    <2>1. s \notin Serving
      BY <1>7 DEF Accept, At, Serving
    <2>2. CASE sock' = [sock EXCEPT ![s].at = "connecting", ![s].accepted = TRUE]
               /\ count' = count + 1
      <3> DEFINE r == [sock[s] EXCEPT !.at = "connecting", !.accepted = TRUE]
      <3>1. r \in Socket /\ Follows(r) /\ r.at \in Held
        BY <1>1 DEF Socket, Follows, Stages, Held
      <3>2. sock' = [sock EXCEPT ![s] = r]
        BY <1>1, <2>2
      <3>3. UNCHANGED box
        BY <1>7 DEF Accept, Outside
      <3> HIDE DEF r
      <3> QED BY <1>2, <2>1, <2>2, <3>1, <3>2, <3>3
    <2>3. CASE Closed(s) /\ UNCHANGED count
      BY <1>7, <2>1, <2>3, Ends DEF Accept, Outside
    <2> QED BY <1>7, <2>2, <2>3 DEF Accept
  <1> QED BY <1>3, <1>4, <1>5, <1>6, <1>7

\* What a task that holds a slot does, and what ends it.
LEMMA ServingSteps ==
    ASSUME Inv, NEW s \in Sockets,
           \/ Connect(s) \/ Search(s) \/ Snapshot(s) \/ Emit(s) \/ Hear(s)
           \/ Push(s) \/ Watch(s) \/ Break(s)
    PROVE  Inv'
  <1>1. sock \in [Sockets -> Socket] /\ sock[s] \in Socket /\ Follows(sock[s])
    BY DEF Inv, TypeOK
  <1>2. s \in Serving /\ UNCHANGED box
    <2>1. CASE Connect(s) \/ Search(s) \/ Snapshot(s) \/ Emit(s)
      BY <2>1 DEF Connect, Search, Snapshot, Emit, At, Serving, Outside
    <2>2. CASE Hear(s) \/ Push(s) \/ Watch(s) \/ Break(s)
      BY <2>2 DEF Hear, Push, Watch, Break, At, Serving, Outside
    <2> QED BY <2>1, <2>2
  <1>3. ASSUME NEW r \in Socket, sock' = [sock EXCEPT ![s] = r], Follows(r),
               r.at \in Held, count' = count
        PROVE  Inv'
    BY <1>2, <1>3, OneSocket
  <1>4. CASE Leave(s)
    BY <1>2, <1>4, Ends DEF Leave
  <1>5. CASE Connect(s)
    BY <1>2, <1>5, GoesOn DEF Connect, Held, Stages
  <1>6. CASE Search(s)
    <2>1. PICK stage \in {"fetching", "emit fetching"} :
            sock' = [sock EXCEPT ![s].at = stage, ![s].found = Newest(DOMAIN InFolder(s))]
      BY <1>6 DEF Search
    <2>2. DOMAIN InFolder(s) \in SUBSET Uids
      BY FetchedType, ListFinite
    <2>3. Newest(DOMAIN InFolder(s)) \in SUBSET Uids /\ Narrow(Newest(DOMAIN InFolder(s)))
      BY <2>2, NewestNarrow
    <2> DEFINE r == [sock[s] EXCEPT !.at = stage, !.found = Newest(DOMAIN InFolder(s))]
    <2>4. r \in Socket /\ Follows(r) /\ r.at \in Held
      BY <1>1, <2>3 DEF Socket, Follows, Stages, Held
    <2>5. sock' = [sock EXCEPT ![s] = r]
      BY <1>1, <2>1
    <2>6. count' = count
      BY <1>6 DEF Search
    <2> HIDE DEF r
    <2> QED BY <1>3, <2>4, <2>5, <2>6
  <1>7. CASE Snapshot(s)
    <2> DEFINE r == [sock[s] EXCEPT !.at = "waiting", !.found = {}, !.view = Fetched(s),
                                    !.picture = Fetched(s)]
    <2>1. r \in Socket /\ Follows(r) /\ r.at \in Held
      BY <1>1, FetchedType, ClosedType DEF Socket, Follows, Stages, Held
    <2>2. sock' = [sock EXCEPT ![s] = r] /\ count' = count
      BY <1>1, <1>7 DEF Snapshot
    <2> HIDE DEF r
    <2> QED BY <1>3, <2>1, <2>2
  <1>8. CASE Emit(s) /\ ~Leave(s)
    <2>1. /\ sock' = [sock EXCEPT
                ![s].at = "waiting", ![s].found = {}, ![s].view = Fetched(s),
                ![s].picture = Applied(@, Update(sock[s].view, Fetched(s)))]
          /\ count' = count
      BY <1>8 DEF Emit
    <2>2. Applied(sock[s].picture, Update(sock[s].view, Fetched(s))) = Fetched(s)
      <3>1. sock[s].picture = sock[s].view /\ sock[s].view \in List
        BY <1>1 DEF Follows, Socket
      <3> QED BY <3>1, FetchedType, UpdatesAddUp
    <2> DEFINE r == [sock[s] EXCEPT !.at = "waiting", !.found = {}, !.view = Fetched(s),
                                    !.picture = Fetched(s)]
    <2>3. r \in Socket /\ Follows(r) /\ r.at \in Held
      BY <1>1, FetchedType, ClosedType DEF Socket, Follows, Stages, Held
    <2>4. sock' = [sock EXCEPT ![s] = r]
      BY <1>1, <2>1, <2>2
    <2> HIDE DEF r
    <2> QED BY <1>3, <2>1, <2>3, <2>4
  <1>9. CASE Push(s)
    <2> DEFINE r == [sock[s] EXCEPT !.at = "emit searching", !.last = sock[s].gone]
    <2>1. r \in Socket /\ Follows(r) /\ r.at \in Held
      BY <1>1 DEF Socket, Follows, Stages, Held
    <2>2. sock' = [sock EXCEPT ![s] = r] /\ count' = count
      BY <1>1, <1>9 DEF Push
    <2> HIDE DEF r
    <2> QED BY <1>3, <2>1, <2>2
  <1>10. CASE Watch(s) /\ ~Leave(s)
    <2>1. PICK f \in Folders : sock' = [sock EXCEPT ![s].folder = f, ![s].at = "searching"]
                               /\ count' = count
      BY <1>10 DEF Watch
    <2> DEFINE r == [sock[s] EXCEPT !.folder = f, !.at = "searching"]
    <2>2. r \in Socket /\ Follows(r) /\ r.at \in Held
      BY <1>1 DEF Socket, Follows, Stages, Held
    <2>3. sock' = [sock EXCEPT ![s] = r]
      BY <1>1, <2>1
    <2> HIDE DEF r
    <2> QED BY <1>3, <2>1, <2>2, <2>3
  <1> QED BY <1>4, <1>5, <1>6, <1>7, <1>8, <1>9, <1>10 DEF Hear, Break

\* The mailbox changes, or a client leaves.
LEMMA WorldSteps ==
    ASSUME Inv, Change \/ \E s \in Sockets : Go(s)
    PROVE  Inv'
  <1>1. /\ folder \in [Folders -> List] /\ nextUid \in [Folders -> 1..MaxUid + 1]
        /\ changes \in 0..MaxChanges /\ sock \in [Sockets -> Socket]
    BY DEF Inv, TypeOK
  <1>2. CASE Change
    <2>1. changes' \in 0..MaxChanges /\ UNCHANGED <<count, sock>>
      BY <1>1, <1>2, SocketsAssumption DEF Change
    <2>2. PICK f \in Folders :
            Deliver(f) \/ \E u \in DOMAIN folder[f] : Flag(f, u) \/ Expunge(f, u)
      BY <1>2 DEF Change
    <2>3. folder[f] \in List
      BY <1>1
    <2>4. PICK d \in SUBSET Uids : folder[f] \in [d -> Flags]
      BY <2>3 DEF List
    <2>5. folder' \in [Folders -> List] /\ nextUid' \in [Folders -> 1..MaxUid + 1]
      <3>1. CASE Deliver(f)
        <4> DEFINE more == [u \in DOMAIN folder[f] \cup {nextUid[f]} |->
                              IF u = nextUid[f] THEN "unseen" ELSE folder[f][u]]
        <4>1. nextUid[f] \in Uids /\ nextUid[f] + 1 \in 1..MaxUid + 1
          BY <1>1, <3>1, SocketsAssumption DEF Deliver, Uids
        <4>2. more \in [d \cup {nextUid[f]} -> Flags]
          BY <2>4 DEF Flags
        <4>3. more \in List
          BY <4>1, <4>2 DEF List
        <4>4. /\ folder' = [folder EXCEPT ![f] = more]
              /\ nextUid' = [nextUid EXCEPT ![f] = @ + 1]
          BY <3>1 DEF Deliver
        <4> HIDE DEF more
        <4> QED BY <1>1, <4>1, <4>3, <4>4
      <3>2. ASSUME NEW u \in DOMAIN folder[f], Flag(f, u)
            PROVE  folder' \in [Folders -> List] /\ nextUid' = nextUid
        <4> DEFINE flagged == [folder[f] EXCEPT ![u] = IF @ = "seen" THEN "unseen" ELSE "seen"]
        <4>1. flagged \in [d -> Flags]
          BY <2>4 DEF Flags
        <4>2. flagged \in List
          BY <4>1 DEF List
        <4>3. folder' = [folder EXCEPT ![f] = flagged] /\ nextUid' = nextUid
          BY <3>2 DEF Flag
        <4> HIDE DEF flagged
        <4> QED BY <1>1, <4>2, <4>3
      <3>3. ASSUME NEW u \in DOMAIN folder[f], Expunge(f, u)
            PROVE  folder' \in [Folders -> List] /\ nextUid' = nextUid
        <4>1. Restricted(folder[f], DOMAIN folder[f] \ {u}) \in List
          BY <2>3, RestrictedType
        <4> QED BY <1>1, <3>3, <4>1 DEF Expunge
      <3> QED BY <1>1, <2>2, <3>1, <3>2, <3>3
    <2>6. Serving' = Serving
      BY <2>1 DEF Serving
    <2> QED BY <2>1, <2>5, <2>6 DEF Inv, TypeOK, SlotsMatchSockets, Follows, Narrow
  <1>3. ASSUME NEW s \in Sockets, Go(s)
        PROVE  Inv'
    <2>1. sock[s] \in Socket /\ Follows(sock[s])
      BY DEF Inv, TypeOK
    <2> DEFINE r == [sock[s] EXCEPT !.gone = TRUE]
    <2>2. r \in Socket /\ Follows(r) /\ r.at = sock[s].at
      BY <2>1 DEF Socket, Follows
    <2>3. sock' = [sock EXCEPT ![s] = r] /\ UNCHANGED box /\ count' = count
      BY <1>1, <1>3 DEF Go
    <2>4. r.at \in Held <=> s \in Serving
      BY <2>2 DEF Serving, Held
    <2> HIDE DEF r
    <2> QED BY <2>2, <2>3, <2>4, OneSocket
  <1> QED BY <1>2, <1>3

-----------------------------------------------------------------------------
(* The theorems. *)

\* Nobody has connected: no slot is held.
LEMMA InitInv == Init => Inv
  <1> SUFFICES ASSUME Init
               PROVE  Inv
    OBVIOUS
  <1>1. \A f \in Folders : Initial[f] \in 0..MaxUid
    BY SocketsAssumption
  <1>2. folder \in [Folders -> List]
    <2> SUFFICES ASSUME NEW f \in Folders
                 PROVE  [u \in 1..Initial[f] |-> "unseen"] \in List
      BY DEF Init
    <2>1. 1..Initial[f] \in SUBSET Uids
      BY <1>1, SocketsAssumption DEF Uids
    <2>2. [u \in 1..Initial[f] |-> "unseen"] \in [1..Initial[f] -> Flags]
      BY DEF Flags
    <2> QED BY <2>1, <2>2 DEF List
  <1>3. nextUid \in [Folders -> 1..MaxUid + 1] /\ changes \in 0..MaxChanges /\ count \in Nat
    BY <1>1, SocketsAssumption DEF Init
  <1>4. sock \in [Sockets -> Socket] /\ \A s \in Sockets : Follows(sock[s])
    BY ClosedType DEF Init
  <1>5. Serving = {}
    BY DEF Init, Serving, NotYet
  <1>6. SlotsMatchSockets
    BY <1>5, FS_EmptySet DEF Init, SlotsMatchSockets
  <1> QED BY <1>2, <1>3, <1>4, <1>6 DEF Inv, TypeOK

\* No step disturbs the invariant.
LEMMA NextInv == Inv /\ [Next]_vars => Inv'
  <1> SUFFICES ASSUME Inv, [Next]_vars
               PROVE  Inv'
    OBVIOUS
  <1>1. CASE UNCHANGED vars
    BY <1>1 DEF vars, box, Inv, TypeOK, SlotsMatchSockets, Serving, Follows, Narrow
  <1>2. ASSUME NEW s \in Sockets, Open(s) \/ Own(s) \/ Push(s) \/ Watch(s) \/ Break(s)
        PROVE  Inv'
    BY <1>2, GettingIn, ServingSteps DEF Own
  <1>3. CASE Change \/ \E s \in Sockets : Go(s)
    BY <1>3, WorldSteps
  <1> QED BY <1>1, <1>2, <1>3 DEF Next

\* Every reachable state is one of the invariant.
LEMMA Invariant == Spec => []Inv
  BY InitInv, NextInv, PTL DEF Spec

\* However clients come and go, the server's count of a mailbox's sockets is
\* the number it serves (_admit and the finally of events()).
THEOREM SlotsAreCounted == Spec => []SlotsMatchSockets
  <1>1. Inv => SlotsMatchSockets
    BY DEF Inv
  <1> QED BY <1>1, Invariant, PTL

\* However the folder changes, a client that applies the updates has what its
\* socket last saw (_emit and its floor).
THEOREM PicturesAreRight == Spec => []PictureIsTheWindow
  <1>1. Inv => PictureIsTheWindow
    BY DEF Inv, Follows, PictureIsTheWindow, Serving
  <1> QED BY <1>1, Invariant, PTL
=============================================================================
