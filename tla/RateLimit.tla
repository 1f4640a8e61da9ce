------------------------------ MODULE RateLimit -------------------------------
(***************************************************************************)
(* The rate limiter: a token bucket with an exponential cooldown for each   *)
(* level a request passes.  main uses the global level alone (Allow);       *)
(* AllowWithContext adds one limiter per account and per model, made when   *)
(* first met and evicted when unused.  Time is relative: each limiter knows *)
(* how long ago it was refilled and used and how long it still cools.       *)
(* Tokens are counted in parts of 1/Window, so that one tick of the clock   *)
(* adds rpm parts.                                                          *)
(***************************************************************************)
EXTENDS Integers, Sequences, Functions

CONSTANTS
    Chain,       \* the limiters a request passes, the global one first
    Callers,     \* requests
    Rpms,        \* bound: the limits an administrator may set; 0 switches a level off
    Window,      \* a minute, in ticks
    Durations,   \* cooldownDurations, in ticks
    EvictionTTL  \* evictionTTL, in ticks

ASSUME RateLimitAssumption ==
    /\ Chain \in Seq(Range(Chain)) /\ Len(Chain) > 0
    /\ Rpms \subseteq Nat /\ \E r \in Rpms : r > 0 /\ \A s \in Rpms : s <= r
    /\ {Window, EvictionTTL} \subseteq Nat \ {0}
    /\ Durations \in Seq(1..EvictionTTL) /\ Len(Durations) > 0
    /\ Window <= EvictionTTL

VARIABLES
    rlRpm,     \* the configured limit of each level
    rlLimiter, \* the limiters by level
    rlCaller,  \* 0: idle; i: at the i-th limiter
    rlPassed   \* history: what each limiter let through in the last 1, 2, ..., Window ticks

rlVars == <<rlRpm, rlLimiter, rlCaller, rlPassed>>

Levels == Range(Chain)
Global == Chain[1]

\* tokens and since: the bucket and the ticks since lastRefill.  cool: the ticks until
\* resetAt.  level: of the cooldown.  age: the ticks since lastAccess.  The two clocks
\* stop where they make no difference any more.
newLevelLimiter(rpm) ==
    [exists |-> TRUE, tokens |-> rpm * Window, since |-> 0, cool |-> 0, level |-> 0, age |-> 0]

Absent == [exists |-> FALSE, tokens |-> 0, since |-> 0, cool |-> 0, level |-> 0, age |-> 0]

RateLimitInit ==
    /\ rlRpm = [l \in Levels |-> CHOOSE r \in Rpms : \A s \in Rpms : s <= r]
    /\ rlLimiter = [l \in Levels |-> IF l = Global THEN newLevelLimiter(rlRpm[l]) ELSE Absent]
    /\ rlCaller = [c \in Callers |-> 0]
    /\ rlPassed = [l \in Levels |-> [n \in 1..Window |-> 0]]

-----------------------------------------------------------------------------

\* Mutant: the time since the last refill counts again at the next one.
refillAgain(l, b) ==
    LET sum == b.tokens + b.since * rlRpm[l]
        max == rlRpm[l] * Window
    IN  [b EXCEPT !.tokens = IF sum > max THEN max ELSE sum]

\* The bucket after a refill.
refill(l, b) ==
    LET sum == b.tokens + b.since * rlRpm[l]
        max == rlRpm[l] * Window
    IN  [b EXCEPT !.tokens = IF sum > max THEN max ELSE sum, !.since = 0]

enterCooldown(b) ==
    LET next == IF b.level < Len(Durations) THEN b.level + 1 ELSE b.level
    IN  [b EXCEPT !.level = next, !.cool = Durations[next]]

\* LevelLimiter.allow, under its lock; a level that is off lets everything pass.
grants(l, b) == b.cool = 0 /\ refill(l, b).tokens >= Window

\* Mutant: a request refused during a cooldown starts it again.
allowExtends(l, b) ==
    LET used == [b EXCEPT !.age = 0]
    IN  CASE rlRpm[l] = 0 -> used
          [] rlRpm[l] > 0 /\ b.cool > 0 -> enterCooldown(used)
          [] grants(l, b) /\ rlRpm[l] > 0 ->
               [refill(l, used) EXCEPT !.tokens = @ - Window]
          [] OTHER -> enterCooldown(refill(l, used))

allow(l, b) ==
    LET used == [b EXCEPT !.age = 0]
    IN  CASE rlRpm[l] = 0 -> used
          [] rlRpm[l] > 0 /\ b.cool > 0 -> used
          [] grants(l, b) /\ rlRpm[l] > 0 ->
               [refill(l, used) EXCEPT !.tokens = @ - Window]
          [] OTHER -> enterCooldown(refill(l, used))

\* One level of Allow or AllowWithContext.  The token of an earlier level is not given
\* back when a later one refuses.
checkLevel(c, i) ==
    LET l == Chain[i]
        b == IF rlLimiter[l].exists THEN rlLimiter[l] ELSE newLevelLimiter(rlRpm[l])
        ok == rlRpm[l] = 0 \/ grants(l, b)
    IN  /\ rlLimiter' = [rlLimiter EXCEPT ![l] = IF rlRpm[l] = 0 /\ l # Global THEN @
                                                 ELSE allow(l, b)]
        /\ rlCaller' = [rlCaller EXCEPT ![c] = IF ok /\ i < Len(Chain) THEN i + 1 ELSE 0]
        /\ rlPassed' = [rlPassed EXCEPT ![l] = IF ok /\ rlRpm[l] > 0
                                                THEN [n \in 1..Window |-> @[n] + 1] ELSE @]
        /\ UNCHANGED rlRpm

Arrive(c) == rlCaller[c] = 0 /\ checkLevel(c, 1)

Continue(c) == rlCaller[c] > 0 /\ checkLevel(c, rlCaller[c])

\* AllowWithContext holds the read lock of the limiter maps, except around the making of
\* a limiter it did not find.
unlocked(c) ==
    rlCaller[c] > 0 => LET l == Chain[rlCaller[c]] IN rlRpm[l] > 0 /\ ~rlLimiter[l].exists

\* tokenBucket.updateRPM: the tokens keep their share of the bucket (rounded down to a
\* part), and a level that was off starts with a full one.
rescaled(l, rpm) ==
    LET b == rlLimiter[l]
    IN  [b EXCEPT !.tokens = IF ~b.exists THEN 0
                             ELSE IF rlRpm[l] = 0 THEN rpm * Window
                             ELSE (@ * rpm) \div rlRpm[l],
                  !.since = 0]

\* UpdateGlobalRPM, UpdateAccountRPM, UpdateModelRPM, under the write lock of the limiter
\* maps; a cooldown goes on.
updateRPM(l, rpm) ==
    /\ rpm # rlRpm[l]
    /\ \A c \in Callers : unlocked(c)
    /\ rlRpm' = [rlRpm EXCEPT ![l] = rpm]
    /\ rlLimiter' = [rlLimiter EXCEPT ![l] = rescaled(l, rpm)]
    /\ rlPassed' = [rlPassed EXCEPT ![l] = [n \in 1..Window |-> 0]]
    /\ UNCHANGED rlCaller

evictStaleLimiters(l) ==
    /\ l # Global
    /\ rlLimiter[l].exists
    /\ rlLimiter[l].age > EvictionTTL
    /\ \A c \in Callers : unlocked(c)
    /\ rlLimiter' = [rlLimiter EXCEPT ![l] = Absent]
    /\ UNCHANGED <<rlRpm, rlCaller, rlPassed>>

tick(b) == IF ~b.exists THEN b
           ELSE [b EXCEPT !.since = IF @ < Window THEN @ + 1 ELSE @,
                          !.cool  = IF @ > 0 THEN @ - 1 ELSE 0,
                          !.age   = IF @ <= EvictionTTL THEN @ + 1 ELSE @]

RateLimitTick ==
    /\ rlLimiter' = [l \in Levels |-> tick(rlLimiter[l])]
    /\ rlPassed' = [l \in Levels |-> [n \in 1..Window |-> IF n = 1 THEN 0 ELSE rlPassed[l][n - 1]]]
    /\ UNCHANGED <<rlRpm, rlCaller>>

RateLimitNext ==
    \/ \E c \in Callers : Arrive(c) \/ Continue(c)
    \/ \E l \in Levels : evictStaleLimiters(l) \/ \E rpm \in Rpms : updateRPM(l, rpm)
    \/ RateLimitTick

RateLimitSpec == RateLimitInit /\ [][RateLimitNext]_rlVars

\* Time passes, and clients that are refused or served ask again.
RateLimitFairness ==
    /\ WF_rlVars(RateLimitTick)
    /\ \A c \in Callers : WF_rlVars(Arrive(c)) /\ WF_rlVars(Continue(c))

-----------------------------------------------------------------------------

RateLimitTypeOK ==
    /\ rlRpm \in [Levels -> Rpms]
    /\ \A l \in Levels :
          /\ rlLimiter[l].tokens \in 0..(rlRpm[l] * Window)
          /\ rlLimiter[l].since \in 0..Window
          /\ rlLimiter[l].level \in 0..Len(Durations)
          /\ rlLimiter[l].cool \in 0..EvictionTTL
    /\ rlCaller \in [Callers -> 0..Len(Chain)]

\* Whatever the bursts, the idle times, the evictions and the changes of other levels, a
\* limiter lets at most two minutes' worth of requests through in a minute: a full bucket
\* and what flows in (tokenBucket.allow).
RateBounded ==
    \A l \in Levels :
        rlRpm[l] > 0 => rlPassed[l][Window] <= 2 * rlRpm[l]

\* evictStaleLimiters forgets only limiters that are no longer cooling: the time a limiter
\* must have been unused is not shorter than the longest cooldown.
EvictionKeepsCooldown ==
    [][\A l \in Levels : rlLimiter[l].exists /\ ~rlLimiter'[l].exists => rlLimiter[l].cool = 0]_rlVars

\* No order of bursts, pauses, changes of the limit and evictions gets more through than
\* the limit allows: not by refilling twice, not by forgetting a cooldown (RateBounded,
\* EvictionKeepsCooldown).
LimiterSound == [](RateLimitTypeOK /\ RateBounded) /\ EvictionKeepsCooldown

=============================================================================
