----------------------------- MODULE RateLimits -----------------------------
(***************************************************************************)
(* The token buckets of ratelimit.py and the order in which the API's      *)
(* middleware asks them (api/app.py): the address' requests, then, once    *)
(* the key has been looked up, its failures or the key's minute and day.   *)
(* A bucket is filled when it is next asked, and a full table drops the    *)
(* buckets nobody has asked for a whole period.                            *)
(*                                                                         *)
(* Asking a bucket has no await in it, so everything between two awaits is *)
(* one action.  Time is counted in seconds.  The limiters of the SMTP      *)
(* listeners and of the sign-in are the same class.                        *)
(***************************************************************************)
EXTENDS Integers, FiniteSets

CONSTANTS
    Addresses,  \* client addresses
    Keys,       \* API keys
    Requests,   \* requests the server may be working on at once
    NoKey,      \* a request whose key is missing, wrong, expired or revoked
    Capacity,   \* tokens of each budget: limits.*, rate_limit, daily_limit
    Period,     \* seconds in which they come back
    SweepAt,    \* Limiter.SWEEP_AT
    MaxTime     \* bound on the clock

Limiters == {"anonymous", "failures"}
Budgets == (Limiters \X Addresses) \cup ({"minute", "day"} \X Keys)

ASSUME LimitsAssumption ==
    /\ NoKey \notin Keys
    /\ Capacity \in [Budgets -> Nat]
    /\ Period \in [Budgets -> Nat \ {0}]
    /\ SweepAt \in Nat /\ MaxTime \in Nat

VARIABLES
    now,     \* time.monotonic()
    bucket,  \* the buckets that exist, of all tables: tokens and updated
    req,     \* what each request being worked on awaits
    told     \* history: when the caller refused last was told to come back,
             \* until then or until its budget grants something; 0 if nobody

limits_vars == <<now, bucket, req, told>>

\* No code edits the two limits of a key once it is made.
\* Zero means unlimited: limiter() makes none, check() passes on.
Limited(b) == Capacity[b] > 0

Full(b) == Capacity[b] * Period[b]

Asked == [address : Addresses, key : Keys \cup {NoKey}]
Idle == [address |-> "none", key |-> NoKey]

LimitsInit ==
    /\ now = 0
    /\ bucket = [b \in {} |-> [tokens |-> 0, updated |-> 0]]
    /\ req = [r \in Requests |-> Idle]
    /\ told = [b \in Budgets |-> 0]

-----------------------------------------------------------------------------
(* Buckets.  B is the state of all tables. *)

Table(B, limiter) == {b \in DOMAIN B : b[1] = limiter}

Refilled(B, b) ==
    LET tokens == B[b].tokens + (now - B[b].updated) * Capacity[b]
    IN  IF tokens > Full(b) THEN Full(b) ELSE tokens

Swept_mut(B, limiter) ==
    [b \in {c \in DOMAIN B : c[1] = limiter => now - B[c].updated < 1} |-> B[b]]

\* Only the buckets that have filled up again are dropped.
Swept(B, limiter) ==
    [b \in {c \in DOMAIN B : c[1] = limiter => now - B[c].updated <= Period[c]} |-> B[b]]

\* Limiter.bucket, and the look-up in KeyLimiter.check, which never sweeps.
FetchedBucket(B, b) ==
    IF b \in DOMAIN B THEN B
    ELSE LET room == IF b[1] \in Limiters /\ Cardinality(Table(B, b[1])) >= SweepAt
                     THEN Swept(B, b[1]) ELSE B
         IN  [c \in DOMAIN room \cup {b} |->
                IF c = b THEN [tokens |-> Full(b), updated |-> now] ELSE room[c]]

HasToken(B, b) == Refilled(FetchedBucket(B, b), b) >= Period[b]

\* Bucket.take: filled up to now, and one token less when there is one.
Take(B, b) ==
    LET left == Refilled(FetchedBucket(B, b), b) - (IF HasToken(B, b) THEN Period[b] ELSE 0)
    IN  [FetchedBucket(B, b) EXCEPT ![b] = [tokens |-> left, updated |-> now]]

\* Bucket.retry_after, asked right after take said no.
RetryAfter_mut(B, b) ==
    IF (Period[b] - B[b].tokens) \div Capacity[b] > 1
    THEN (Period[b] - B[b].tokens) \div Capacity[b] ELSE 1

RetryAfter(B, b) == (Period[b] - B[b].tokens) \div Capacity[b] + 1

-----------------------------------------------------------------------------
(* Asking one budget in state B; unlimited ones pass. *)

Passes(B, b) == Limited(b) => HasToken(B, b)
After(B, b) == IF Limited(b) THEN Take(B, b) ELSE B

\* What callers have been told after budget b was asked in state B.
Noted(t, B, b) ==
    IF ~Limited(b) THEN t
    ELSE [t EXCEPT ![b] = IF HasToken(B, b) THEN 0 ELSE now + RetryAfter(Take(B, b), b)]

Done(r) == req' = [req EXCEPT ![r] = Idle]

Tick ==
    /\ now < MaxTime
    /\ now' = now + 1
    /\ told' = [b \in Budgets |-> IF told[b] <= now THEN 0 ELSE told[b]]
    /\ UNCHANGED <<bucket, req>>

\* A request arrives: its address is charged before the key is looked up.
Arrive(r, address, key) ==
    LET b == <<"anonymous", address>> IN
    /\ req[r] = Idle
    /\ bucket' = After(bucket, b)
    /\ told' = Noted(told, bucket, b)
    /\ \/ Passes(bucket, b) /\ req' = [req EXCEPT ![r] = [address |-> address, key |-> key]]
       \/ ~Passes(bucket, b) /\ req' = req  \* 429
    /\ now' = now

\* The look-up found no usable key: 401, or 429 when the address has failed
\* too often.
Fail(r) ==
    LET b == <<"failures", req[r].address>> IN
    /\ req[r] # Idle /\ req[r].key = NoKey
    /\ bucket' = After(bucket, b)
    /\ told' = Noted(told, bucket, b)
    /\ Done(r) /\ now' = now

\* KeyLimiter.check: the minute is charged before the day is asked.
Minute(r) == <<"minute", req[r].key>>
Day(r) == <<"day", req[r].key>>
Charged(r) == After(bucket, Minute(r))

\* The key has spent its minute, or its day: 429.
OverMinute(r) ==
    /\ req[r].key # NoKey
    /\ ~Passes(bucket, Minute(r))
    /\ bucket' = Charged(r)
    /\ told' = Noted(told, bucket, Minute(r))
    /\ Done(r) /\ now' = now

OverDay(r) ==
    /\ req[r].key # NoKey
    /\ Passes(bucket, Minute(r))
    /\ ~Passes(Charged(r), Day(r))
    /\ bucket' = After(Charged(r), Day(r))
    /\ told' = Noted(Noted(told, bucket, Minute(r)), Charged(r), Day(r))
    /\ Done(r) /\ now' = now

\* The request is served, and its address' failures are forgotten.
Serve(r) ==
    LET spent  == After(Charged(r), Day(r))
        forget == <<"failures", req[r].address>>
    IN
    /\ req[r].key # NoKey
    /\ Passes(bucket, Minute(r)) /\ Passes(Charged(r), Day(r))
    /\ bucket' = [b \in DOMAIN spent \ {forget} |-> spent[b]]
    /\ told' = [Noted(Noted(told, bucket, Minute(r)), Charged(r), Day(r)) EXCEPT ![forget] = 0]
    /\ Done(r) /\ now' = now

LimitsNext ==
    \/ Tick
    \/ \E r \in Requests :
         \/ \E a \in Addresses, k \in Keys \cup {NoKey} : Arrive(r, a, k)
         \/ Fail(r) \/ OverMinute(r) \/ OverDay(r) \/ Serve(r)

LimitsSpec == LimitsInit /\ [][LimitsNext]_limits_vars

-----------------------------------------------------------------------------
\* The tables of all limiters, well formed: no bucket holds more than it may.
BucketsOK(B) ==
    /\ DOMAIN B \subseteq Budgets
    /\ B \in [DOMAIN B -> [tokens : Nat, updated : Nat]]
    /\ \A b \in DOMAIN B : B[b].tokens <= Full(b) /\ B[b].updated <= now

LimitsTypeOK ==
    /\ now \in Nat
    /\ BucketsOK(bucket)
    /\ req \in [Requests -> Asked \cup {Idle}]
    /\ told \in [Budgets -> Nat]

\* What a budget holds at this moment, whether its bucket exists or not.
LevelIn(B) == [b \in Budgets |-> IF b \in DOMAIN B THEN Refilled(B, b) ELSE Full(b)]

Level == LevelIn(bucket)

Forgivable == {"failures"} \X Addresses

Plain == INSTANCE TokenBudgets WITH level <- Level

\* The tables are invisible: filling a bucket only when it is asked, dropping
\* the idle ones of a full table (Limiter._sweep) and forgetting an address
\* never give a caller a token that a plain budget would not have, nor take
\* one; and no caller's requests are charged to another.
KeepsTheBudgets == Plain!Spec

\* A caller that comes back when it was told to, and finds nobody else has
\* spent its budget meanwhile, is not refused again by that budget:
\* Bucket.retry_after rounds up, never down.
WaitIsEnough == \A b \in Budgets : told[b] # 0 /\ told[b] <= now => Level[b] >= Period[b]
=============================================================================
