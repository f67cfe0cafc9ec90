----------------------------- MODULE RateLimit -----------------------------
(***************************************************************************)
(* Rate limiting (app/auth/rate_limit.py, AuthRateLimitMiddleware in       *)
(* app/middleware.py).                                                     *)
(*                                                                         *)
(* A request for one of the limited paths is counted by its key: the scope *)
(* its path belongs to and the address it comes from.  Each worker process *)
(* counts for itself, or all of them in one Redis, by what the environment *)
(* says when they start.  A check is atomic: it holds a lock, or is one    *)
(* Redis transaction.                                                      *)
(*                                                                         *)
(* Time is counted in ticks.  A bucket's age is the time since its window  *)
(* began, or, in Redis, since its time to live was set: at Window it is    *)
(* over, and older is the same.  A count above the limit is kept at one    *)
(* above, which is all that is ever asked of it.                           *)
(***************************************************************************)
EXTENDS Integers, FiniteSets

CONSTANTS
    Workers,        \* worker processes
    Redis,          \* the store they share when there is one
    Keys,           \* scope and client address
    Limit,          \* the limit of each key's scope
    Window          \* ticks in a window

ASSUME StoresAssumption == Redis \notin Workers /\ Workers # {} /\ IsFiniteSet(Workers)
ASSUME LimitAssumption == Limit \in [Keys -> Nat \ {0}]
ASSUME WindowAssumption == Window \in Nat \ {0}

VARIABLES
    backend,        \* "in_process" or "redis"
    bucket,         \* by store and key
    answer,         \* by store and key: what its last check returned
    last,           \* what the last request of each key was told
    admitted        \* by key: how many were let in 0, 1, ... ticks ago

vars == <<backend, bucket, answer, last, admitted>>

Stores == Workers \cup {Redis}
Bucket == [age : 0 .. Window, count : Nat]
Answers == {"none", "in", "out"}

Older(age) == IF age < Window THEN age + 1 ELSE Window

-----------------------------------------------------------------------------

\* Where worker w counts: get_limiter.
Store(w) == IF backend = "redis" THEN Redis ELSE w

Over(b) == b.age = Window

CountUp(n, k) == IF n > Limit[k] THEN n ELSE n + 1

\* Mutant: a window that is over is given a new start, but the count stays.
HitKeepingCount(b, k) ==
    [age |-> IF Over(b) THEN 0 ELSE b.age, count |-> CountUp(b.count, k)]

\* Mutant: every hit starts the window anew.
HitRenewing(b, k) == [age |-> 0, count |-> IF Over(b) THEN 1 ELSE CountUp(b.count, k)]

\* InProcessLimiter.check: a window starts with the first hit after the last one.
HitInProcess(b, k) ==
    [age |-> IF Over(b) THEN 0 ELSE b.age,
     count |-> IF Over(b) THEN 1 ELSE CountUp(b.count, k)]

\* Mutant: two hits at once are counted as one.
HitLost(b, k) == [age |-> 0, count |-> IF Over(b) THEN 1 ELSE b.count]

\* RedisLimiter.check: INCR, then EXPIRE, which sets the time to live anew.
HitRedis(b, k) ==
    [age |-> 0, count |-> IF Over(b) THEN 1 ELSE CountUp(b.count, k)]

Hit(b, k) == IF backend = "redis" THEN HitRedis(b, k) ELSE HitInProcess(b, k)

\* Redis has no key.  window_start is 0.0 at first, of a clock that may be as young.
Init ==
    /\ backend \in {"in_process", "redis"}
    /\ bucket \in [Stores -> [Keys -> {[age |-> a, count |-> 0] : a \in 0 .. Window}]]
    /\ \A k \in Keys : bucket[Redis][k].age = Window
    /\ answer = [s \in Stores |-> [k \in Keys |-> "none"]]
    /\ last = [k \in Keys |-> "none"]
    /\ admitted = [k \in Keys |-> [t \in 0 .. Window - 1 |-> 0]]

\* A request with key k reaches worker w.
Dispatch(w, k) ==
    LET s == Store(w)
        b == Hit(bucket[s][k], k)
        told == IF b.count <= Limit[k] THEN "in" ELSE "out"
    IN  /\ bucket' = [bucket EXCEPT ![s][k] = b]
        /\ answer' = [answer EXCEPT ![s][k] = told]
        /\ last' = [last EXCEPT ![k] = told]
        /\ admitted' = IF told = "in" THEN [admitted EXCEPT ![k][0] = @ + 1] ELSE admitted
        /\ UNCHANGED backend

Tick ==
    /\ bucket' = [s \in Stores |-> [k \in Keys |->
                    [bucket[s][k] EXCEPT !.age = Older(@)]]]
    /\ admitted' = [k \in Keys |-> [t \in 0 .. Window - 1 |->
                       IF t = 0 THEN 0 ELSE admitted[k][t - 1]]]
    /\ UNCHANGED <<backend, answer, last>>

Next == Tick \/ \E w \in Workers, k \in Keys : Dispatch(w, k)

\* Time passes, and every client goes on asking; which worker it gets is open, and
\* so is how long it pauses.
Fairness ==
    /\ WF_vars(Tick)
    /\ \A k \in Keys : WF_vars(\E w \in Workers : Dispatch(w, k))

Spec == Init /\ [][Next]_vars /\ Fairness

-----------------------------------------------------------------------------
(* Properties *)

\* Buckets, answers and the history have their types.
TypeOK ==
    /\ backend \in {"in_process", "redis"}
    /\ bucket \in [Stores -> [Keys -> Bucket]]
    /\ \A s \in Stores, k \in Keys : bucket[s][k].count <= Limit[k] + 1
    /\ answer \in [Stores -> [Keys -> Answers]]
    /\ last \in [Keys -> Answers]
    /\ admitted \in [Keys -> [0 .. Window - 1 -> Nat]]

Quota(n, k) == IF n > Limit[k] THEN 0 ELSE Limit[k] - n
Counters == Stores \X Keys
Left == [c \in Counters |->
            LET b == bucket[c[1]][c[2]]
            IN  IF Over(b) THEN Limit[c[2]] ELSE Quota(b.count, c[2])]

Promised == INSTANCE Admission WITH
    Keys <- Counters, Limit <- [c \in Counters |-> Limit[c[2]]],
    quota <- Left, answer <- [c \in Counters |-> answer[c[1]][c[2]]]

\* Every counter is the limiter that is promised: a request is let in exactly when
\* something is left, takes one, and only time gives the whole back (check).
KeepsPromise == Promised!Spec

\* The sum of f[0] .. f[n - 1].
Total(f, n) ==
    LET sum[i \in 0 .. n] == IF i = 0 THEN 0 ELSE sum[i - 1] + f[i - 1]
    IN  sum[n]

\* Whatever a client does, and however its requests fall on windows and workers:
\* in the time of one window it gets in at most twice the limit for every counter
\* in use, and through Redis at most once the limit (check).
BurstBounded ==
    \A k \in Keys :
        Total(admitted[k], Window) <=
            IF backend = "redis" THEN Limit[k] ELSE 2 * Limit[k] * Cardinality(Workers)

\* Kept out, and let in later.
InAgain(k) == last[k] = "out" ~> last[k] = "in"

\* A client that is kept out by the counters of the workers and goes on asking, at
\* whatever pace, gets in again: windows end by the clock alone (InProcessLimiter.check).
LetInAgain == \A k \in Keys : backend = "in_process" => InAgain(k)

\* The same of the counter in Redis, which is documented as a fixed window whose time
\* to live is the duration of the window, and of a client that comes back, as
\* Retry-After tells it to, before that: violated, since EXPIRE renews the time to
\* live at every hit (RedisLimiter.check).
RedisLetsInAgain == \A k \in Keys : backend = "redis" => InAgain(k)

=============================================================================
