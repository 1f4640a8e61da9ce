----------------------------- MODULE TokenRefresh -----------------------------
(***************************************************************************)
(* The tokens of one account: in memory, in the token cache, in the        *)
(* database and at rt-manager, and the refreshes that move them.  The      *)
(* background pass and the administrator's calls run refreshAccount, or    *)
(* refreshAccountViaRTManager when the account has no refresh token of its *)
(* own, at the same time; each step below is one critical section, one     *)
(* cache or database call, or one answer from the network.                 *)
(*                                                                         *)
(* Refresh tokens are numbered in the order upstream issues them, and 0    *)
(* stands for none.  An access token is known by the time it expires.      *)
(* Time is counted in ticks of a few minutes, and a refresh, whose network *)
(* calls have timeouts of 30 seconds, sees at most one of them pass.       *)
(***************************************************************************)
EXTENDS Integers

CONSTANTS
    Background,   \* the refreshers that parallelRefreshAll starts
    Admins,       \* the ones that RefreshSingle starts
    Scenarios,    \* bound: the sets of events that may happen together
    MaxRT,        \* bound: no refresh begins once this token is issued
    MaxTime,      \* bound: ticks
    Life,         \* how long an access token is valid
    Margin,       \* the 5 minutes before expiry
    CacheClaim,   \* the 30 minutes that a token found in the cache is given
    WaitClaim,    \* the 55 minutes that a token waited for is given
    CoolFor,      \* how long a request may have the account cooled down
    MaxRetries    \* attempts of RefreshWithRetry

Refreshers == Background \cup Admins

Events == {"cache",      \* a call of the token cache (Redis) returns an error
           "transient",  \* a refresh fails and may be tried again
           "lost",       \* upstream refreshes and its answer is lost
           "put",        \* rt-manager does not store the new refresh token
           "db",         \* the database does not store what it is given
           "restart",    \* the process ends and starts again
           "cooldown"}   \* a request has the account cooled down

ASSUME ScenarioAssumption == Scenarios \subseteq SUBSET Events
ASSUME TimeAssumption     ==
    /\ {Life, Margin, CacheClaim, WaitClaim, MaxRetries, MaxRT, MaxTime} \subseteq Nat \ {0}
    /\ CoolFor \subseteq Nat \ {0}
    /\ Margin <= CacheClaim

VARIABLES
    now,
    upstream,   \* rt: the refresh token that upstream accepts; rotating: whether it
                \* issues a new one with every access token
    acc,        \* the account in memory
    db,         \* its row in the database
    cache,      \* what the token cache holds: the expiry of an access token, or 0
    lock,       \* whether the refresh lock is taken
    rtm,        \* store: the refresh token at rt-manager; index: the one in the
                \* index kept here, or 0; fresh: whether that index is in its TTL
    ref,        \* the state of every refresher
    may,        \* the events of this behaviour
    lost        \* history: the newest refresh token was never stored anywhere

vars == <<may, now, upstream, acc, db, cache, lock, rtm, ref, lost>>

Pcs == {"idle", "get", "adopt", "lock", "wait", "adoptWaited", "exchange", "store",
        "cache", "save", "clear", "unlock", "error", "saveError",
        "lookup", "install", "find", "rtm", "put", "index"}

Idle == [pc     |-> "idle",
         rt     |-> 0,       \* the refresh token read at the start
         until  |-> 0,       \* the end of the cooldown in force then, or 0
         cooled |-> FALSE,   \* whether a cooldown was over then
         at     |-> 0,       \* the access token obtained
         newRT  |-> 0,       \* the refresh token obtained
         tries  |-> 0,
         mine   |-> FALSE,   \* it took the lock
         late   |-> FALSE]   \* a tick has passed since it began

RefRec == [pc : Pcs, rt : Nat, until : Nat, cooled : BOOLEAN, at : Nat, newRT : Nat,
           tries : Nat, mine : BOOLEAN, late : BOOLEAN]
AccRec == [rt : Nat, at : Nat, exp : Nat, status : {"ready", "cooldown", "error", "gone"},
           until : Nat]
RowRec == [rt : Nat, at : Nat, until : Nat, active : BOOLEAN]

HasRT == acc.rt # 0

-----------------------------------------------------------------------------
(* Helpers. *)

NeedsRefresh == acc.exp < now + Margin

\* Mutant: the entry lives as long as the token.
liveInCacheToTheEnd(at) == at > now

\* A cache entry is written to live until Margin before the token expires.
liveInCache(at) == at > now + Margin

\* The status and cooldown that a refresh writes: those it found at its start.
settled(a, r) == [a EXCEPT !.status = IF r.until > 0 THEN "cooldown" ELSE "ready",
                           !.until  = r.until]

go(r, pc) == ref' = [ref EXCEPT ![r].pc = pc]

\* A refresh that has no more work to do: the deferred release, or its end.
leave(r) == IF ref[r].mine THEN go(r, "unlock") ELSE ref' = [ref EXCEPT ![r] = Idle]

\* The last thing a successful refresh does.
finish(r) == IF ref[r].cooled THEN go(r, "clear") ELSE leave(r)

-----------------------------------------------------------------------------
(* The start: what both refreshes read under acc.mu. *)

begin(r) ==
    /\ ref[r].pc = "idle"
    /\ acc.status # "gone"
    /\ upstream.rt < MaxRT
    /\ ref' = [ref EXCEPT ![r] =
                  [Idle EXCEPT !.pc     = IF HasRT THEN "get" ELSE "lookup",
                               !.rt     = acc.rt,
                               !.until  = IF acc.status = "cooldown" /\ now < acc.until
                                          THEN acc.until ELSE 0,
                               !.cooled = acc.status = "cooldown" /\ now >= acc.until]]
    /\ UNCHANGED <<may, now, upstream, acc, db, cache, lock, rtm, lost>>

\* A pass skips accounts in error and those with time left; it waits for the
\* refreshes it started, so that one of them runs at a time.
parallelRefreshAll(r) ==
    /\ \A b \in Background : ref[b].pc = "idle"
    /\ acc.status # "error"
    /\ NeedsRefresh
    /\ begin(r)

RefreshSingle(r) == begin(r)

-----------------------------------------------------------------------------
(* refreshAccount: the cache and its lock. *)

\* A hit is used; a miss or an error leads to the lock.
GetAccessToken(r) ==
    /\ ref[r].pc = "get"
    /\ \/ /\ liveInCache(cache)
          /\ ref' = [ref EXCEPT ![r].pc = "adopt", ![r].at = cache]
       \/ /\ ~liveInCache(cache) \/ "cache" \in may
          /\ go(r, "lock")
    /\ UNCHANGED <<may, now, upstream, acc, db, cache, lock, rtm, lost>>

AdoptCached(r) ==
    /\ ref[r].pc = "adopt"
    /\ acc' = [settled(acc, ref[r]) EXCEPT
                  !.at  = ref[r].at,
                  !.exp = IF NeedsRefresh THEN now + CacheClaim ELSE @]
    /\ finish(r)
    /\ UNCHANGED <<may, now, upstream, db, cache, lock, rtm, lost>>

\* When the cache cannot say who holds the lock the refresh goes on without it.
AcquireRefreshLock(r) ==
    /\ ref[r].pc = "lock"
    /\ \/ /\ ~lock
          /\ lock' = TRUE
          /\ ref' = [ref EXCEPT ![r].pc = "exchange", ![r].mine = TRUE]
       \/ lock /\ go(r, "wait") /\ UNCHANGED lock
       \/ "cache" \in may /\ go(r, "exchange") /\ UNCHANGED lock
    /\ UNCHANGED <<may, now, upstream, acc, db, cache, rtm, lost>>

\* It polls until the lock is gone and a token is there.  After 30 seconds, or when
\* the cache fails, the refresh goes on without the lock.
WaitForRefreshComplete(r) ==
    /\ ref[r].pc = "wait"
    /\ \/ /\ ~lock /\ liveInCache(cache)
          /\ ref' = [ref EXCEPT ![r].pc = "adoptWaited", ![r].at = cache]
       \/ /\ lock \/ ~liveInCache(cache) \/ "cache" \in may
          /\ go(r, "exchange")
    /\ UNCHANGED <<may, now, upstream, acc, db, cache, lock, rtm, lost>>

AdoptWaited(r) ==
    /\ ref[r].pc = "adoptWaited"
    /\ acc' = [settled(acc, ref[r]) EXCEPT !.at = ref[r].at, !.exp = now + WaitClaim]
    /\ finish(r)
    /\ UNCHANGED <<may, now, upstream, db, cache, lock, rtm, lost>>

\* Every entry of the lock table has a TTL of 30 seconds.
LockExpires ==
    /\ lock
    /\ lock' = FALSE
    /\ UNCHANGED <<may, now, upstream, acc, db, cache, rtm, ref, lost>>

\* It deletes the lock whoever has it by now.
ReleaseRefreshLock(r) ==
    /\ ref[r].pc = "unlock"
    /\ \/ lock' = FALSE
       \/ "cache" \in may /\ UNCHANGED lock
    /\ ref' = [ref EXCEPT ![r] = Idle]
    /\ UNCHANGED <<may, now, upstream, acc, db, cache, rtm, lost>>

-----------------------------------------------------------------------------
(* The exchange of a refresh token, by RefreshWithRetry or through rt-manager: *)
(* upstream accepts its newest refresh token and no other.                     *)

issued == IF upstream.rotating THEN upstream.rt + 1 ELSE upstream.rt

\* The tokens arrive.  Without a new refresh token the old one is kept.
granted(r, next) ==
    /\ ref[r].rt = upstream.rt
    /\ upstream' = [upstream EXCEPT !.rt = issued]
    /\ ref' = [ref EXCEPT ![r].pc = next, ![r].at = now + Life, ![r].newRT = issued]
    /\ UNCHANGED lost

\* Upstream has answered and the answer does not arrive.
grantLost ==
    /\ "lost" \in may
    /\ upstream' = [upstream EXCEPT !.rt = issued]
    /\ lost' = (lost \/ upstream.rotating)

\* invalid_grant is final; any other failure is tried again up to MaxRetries times.
RefreshWithRetry(r) ==
    /\ ref[r].pc = "exchange"
    /\ \/ granted(r, "store")
       \/ ref[r].rt # upstream.rt /\ go(r, "error") /\ UNCHANGED <<upstream, lost>>
       \/ /\ \/ "transient" \in may /\ UNCHANGED <<upstream, lost>>
             \/ ref[r].rt = upstream.rt /\ grantLost
          /\ IF ref[r].tries + 1 < MaxRetries
             THEN ref' = [ref EXCEPT ![r].tries = @ + 1]
             ELSE leave(r)
    /\ UNCHANGED <<may, now, acc, db, cache, lock, rtm>>

\* One attempt only.
RTManagerRefresh(r) ==
    /\ ref[r].pc = "rtm"
    /\ \/ granted(r, "put")
       \/ ref[r].rt # upstream.rt /\ go(r, "error") /\ UNCHANGED <<upstream, lost>>
       \/ "transient" \in may /\ leave(r) /\ UNCHANGED <<upstream, lost>>
       \/ ref[r].rt = upstream.rt /\ grantLost /\ leave(r)
    /\ UNCHANGED <<may, now, acc, db, cache, lock, rtm>>

-----------------------------------------------------------------------------
(* What a refused refresh does. *)

MarkError(r) ==
    /\ ref[r].pc = "error"
    /\ acc' = [acc EXCEPT !.status = "error"]
    /\ go(r, "saveError")
    /\ UNCHANGED <<may, now, upstream, db, cache, lock, rtm, lost>>

SetError(r) ==
    /\ ref[r].pc = "saveError"
    /\ \/ db' = [db EXCEPT !.active = FALSE, !.until = 0]
       \/ "db" \in may /\ UNCHANGED db
    /\ leave(r)
    /\ UNCHANGED <<may, now, upstream, acc, cache, lock, rtm, lost>>

-----------------------------------------------------------------------------
(* What a refresh that got its tokens does: memory, cache, database. *)

\* Mutant: the refresh token in memory is left as it is.
StoreAccessOnly(r) ==
    /\ ref[r].pc = "store"
    /\ acc' = [settled(acc, ref[r]) EXCEPT !.at = ref[r].at, !.exp = ref[r].at]
    /\ go(r, "cache")
    /\ UNCHANGED <<may, now, upstream, db, cache, lock, rtm, lost>>

\* An account without a refresh token of its own does not get one.
Store(r) ==
    /\ ref[r].pc = "store"
    /\ acc' = [settled(acc, ref[r]) EXCEPT
                  !.rt  = IF HasRT THEN ref[r].newRT ELSE 0,
                  !.at  = ref[r].at,
                  !.exp = ref[r].at]
    /\ go(r, "cache")
    /\ UNCHANGED <<may, now, upstream, db, cache, lock, rtm, lost>>

\* An error is ignored, and so is a token that has no more than Margin to live.
SetAccessToken(r) ==
    /\ ref[r].pc = "cache"
    /\ \/ liveInCache(ref[r].at) /\ cache' = ref[r].at
       \/ ~liveInCache(ref[r].at) /\ UNCHANGED cache
       \/ "cache" \in may /\ UNCHANGED cache
    /\ go(r, "save")
    /\ UNCHANGED <<may, now, upstream, acc, db, lock, rtm, lost>>

UpdateCredentials(r) ==
    /\ ref[r].pc = "save"
    /\ \/ db' = [db EXCEPT !.at = ref[r].at, !.rt = IF HasRT THEN ref[r].newRT ELSE @]
       \/ "db" \in may /\ UNCHANGED db
    /\ finish(r)
    /\ UNCHANGED <<may, now, upstream, acc, cache, lock, rtm, lost>>

ClearCooldown(r) ==
    /\ ref[r].pc = "clear"
    /\ \/ db' = [db EXCEPT !.until = 0]
       \/ "db" \in may /\ UNCHANGED db
    /\ leave(r)
    /\ UNCHANGED <<may, now, upstream, acc, cache, lock, rtm, lost>>

-----------------------------------------------------------------------------
(* refreshAccountViaRTManager: the index and what is stored at rt-manager. *)

\* Without a fresh index the list of accounts is fetched.
ensureIndex(r) ==
    /\ ref[r].pc = "lookup"
    /\ \/ rtm.fresh /\ go(r, "find")
       \/ ~rtm.fresh /\ ref' = [ref EXCEPT ![r].pc = "install", ![r].rt = rtm.store]
       \/ ~rtm.fresh /\ "transient" \in may /\ leave(r)
    /\ UNCHANGED <<may, now, upstream, acc, db, cache, lock, rtm, lost>>

\* The list becomes the index, whatever the index has become meanwhile.
InstallIndex(r) ==
    /\ ref[r].pc = "install"
    /\ rtm' = [rtm EXCEPT !.index = ref[r].rt, !.fresh = TRUE]
    /\ go(r, "find")
    /\ UNCHANGED <<may, now, upstream, acc, db, cache, lock, lost>>

Lookup(r) ==
    /\ ref[r].pc = "find"
    /\ ref' = [ref EXCEPT ![r].pc = "rtm", ![r].rt = rtm.index]
    /\ UNCHANGED <<may, now, upstream, acc, db, cache, lock, rtm, lost>>

\* Mutant: the new refresh token is not sent to rt-manager.
UpdateAccountLocally(r) ==
    /\ ref[r].pc = "put"
    /\ go(r, "index")
    /\ UNCHANGED <<may, now, upstream, acc, db, cache, lock, rtm, lost>>

\* The new refresh token is stored at rt-manager; when that fails, or its answer is
\* lost, the refresh goes on.
UpdateAccount(r) ==
    /\ ref[r].pc = "put"
    /\ \/ rtm' = [rtm EXCEPT !.store = ref[r].newRT] /\ go(r, "index") /\ UNCHANGED lost
       \/ /\ "put" \in may
          /\ go(r, "store")
          /\ \/ rtm' = [rtm EXCEPT !.store = ref[r].newRT] /\ UNCHANGED lost
             \/ UNCHANGED rtm /\ lost' = (lost \/ upstream.rotating)
    /\ UNCHANGED <<may, now, upstream, acc, db, cache, lock>>

UpdateIndex(r) ==
    /\ ref[r].pc = "index"
    /\ rtm' = [rtm EXCEPT !.index = ref[r].newRT]
    /\ go(r, "store")
    /\ UNCHANGED <<may, now, upstream, acc, db, cache, lock, lost>>

\* The index has become older than five minutes.
IndexExpires ==
    /\ rtm.fresh
    /\ rtm' = [rtm EXCEPT !.fresh = FALSE]
    /\ UNCHANGED <<may, now, upstream, acc, db, cache, lock, ref, lost>>

-----------------------------------------------------------------------------
(* The rest of the system. *)

\* A request has the account cooled down, in memory and in the database.
MarkCooldown(d) ==
    /\ "cooldown" \in may
    /\ acc.status # "gone"
    /\ acc' = [acc EXCEPT !.status = "cooldown", !.until = now + d]
    /\ \/ db' = [db EXCEPT !.until = now + d]
       \/ "db" \in may /\ UNCHANGED db
    /\ UNCHANGED <<may, now, upstream, cache, lock, rtm, ref, lost>>

Tick ==
    /\ now < MaxTime
    /\ \A r \in Refreshers : ~ref[r].late
    /\ now' = now + 1
    /\ ref' = [r \in Refreshers |->
                  [ref[r] EXCEPT !.late = ref[r].pc # "idle"]]
    /\ UNCHANGED <<may, upstream, acc, db, cache, lock, rtm, lost>>

\* loadFromDB loads the active rows; the lock and the token stay in Redis and are
\* gone from the memory cache.
loadFromDB ==
    [rt     |-> db.rt,
     at     |-> db.at,
     exp    |-> db.at,
     status |-> IF ~db.active THEN "gone"
                ELSE IF now < db.until THEN "cooldown" ELSE "ready",
     until  |-> IF db.active /\ now < db.until THEN db.until ELSE 0]

Restart ==
    /\ "restart" \in may
    /\ ref' = [r \in Refreshers |-> Idle]
    /\ acc' = loadFromDB
    /\ db' = IF db.active /\ now >= db.until THEN [db EXCEPT !.until = 0] ELSE db
    /\ \/ UNCHANGED <<cache, lock>>
       \/ cache' = 0 /\ lock' = FALSE
    /\ rtm' = [rtm EXCEPT !.index = 0, !.fresh = FALSE]
    /\ lost' = (lost \/ upstream.rt # IF db.rt = 0 THEN rtm.store ELSE db.rt)
    /\ UNCHANGED <<may, now, upstream>>

-----------------------------------------------------------------------------
\* An account with a refresh token, with or without an access token, or one with
\* an access token whose refresh token is at rt-manager.
Init ==
    /\ may \in Scenarios
    /\ now = 0
    /\ upstream \in [rt : {1}, rotating : BOOLEAN]
    /\ \E rt \in {0, 1}, at \in {0, Life} :
          /\ rt = 0 => at = Life
          /\ acc = [rt |-> rt, at |-> at, exp |-> at, status |-> "ready", until |-> 0]
          /\ db = [rt |-> rt, at |-> at, until |-> 0, active |-> TRUE]
    /\ cache = 0
    /\ lock = FALSE
    /\ rtm = [store |-> 1, index |-> 0, fresh |-> FALSE]
    /\ ref = [r \in Refreshers |-> Idle]
    /\ lost = FALSE

RefreshStep(r) ==
    \/ GetAccessToken(r) \/ AdoptCached(r)
    \/ AcquireRefreshLock(r) \/ WaitForRefreshComplete(r) \/ AdoptWaited(r)
    \/ RefreshWithRetry(r) \/ ReleaseRefreshLock(r)
    \/ MarkError(r) \/ SetError(r)
    \/ Store(r) \/ SetAccessToken(r) \/ UpdateCredentials(r) \/ ClearCooldown(r)
    \/ ensureIndex(r) \/ InstallIndex(r) \/ Lookup(r) \/ RTManagerRefresh(r)
    \/ UpdateAccount(r) \/ UpdateIndex(r)

Next ==
    \/ \E r \in Background : parallelRefreshAll(r)
    \/ \E r \in Admins : RefreshSingle(r)
    \/ \E r \in Refreshers : RefreshStep(r)
    \/ \E d \in CoolFor : MarkCooldown(d)
    \/ LockExpires \/ IndexExpires \/ Tick \/ Restart

Spec == Init /\ [][Next]_vars

-----------------------------------------------------------------------------
(* Properties. *)

\* Every variable has its type (the fields of Account, its row and the cache), and only
\* a refresh that acquired the lock comes to release it.
TypeOK ==
    /\ may \in Scenarios
    /\ now \in Nat
    /\ upstream \in [rt : Nat, rotating : BOOLEAN]
    /\ acc \in AccRec
    /\ db \in RowRec
    /\ cache \in Nat
    /\ lock \in BOOLEAN
    /\ rtm \in [store : Nat, index : Nat, fresh : BOOLEAN]
    /\ ref \in [Refreshers -> RefRec]
    /\ \A r \in Refreshers : ref[r].pc = "unlock" => ref[r].mine
    /\ lost \in BOOLEAN

Holds(r, pc) == ref[r].pc = pc /\ ref[r].newRT = upstream.rt

\* Whatever the lock does, whoever waited, gave up or was refused: the one refresh
\* token that upstream still accepts is in the account, or at rt-manager, or with
\* the refresh that is about to put it there, unless an answer, a write to rt-manager
\* or the process was lost (refreshAccount's write of RefreshToken, UpdateAccount).
NewestKept ==
    ~lost => IF HasRT
             THEN acc.rt = upstream.rt \/ \E r \in Refreshers : Holds(r, "store")
             ELSE rtm.store = upstream.rt \/ \E r \in Refreshers : Holds(r, "put")

\* What is kept and held is what it should be (NewestKept, with the types).
TokensSound == TypeOK /\ NewestKept

\* The latest expiry that a refresh ever promises.
LongestClaim == CHOOSE d \in {Life, CacheClaim, WaitClaim} :
                    \A e \in {Life, CacheClaim, WaitClaim} : e <= d

\* ExpiresAt may promise more than the access token holds: a token from the cache is
\* given 30 minutes, one that was waited for 55, and one that is adopted while the account
\* has time left keeps the expiry of the token it replaces, which may be the newer one.
\* The cache's TTL bounds the difference: whatever was promised, less the 5 minutes.
ExpiryOffBounded == acc.exp <= acc.at + (LongestClaim - Margin)

\* "防止并发刷新同一账号" (AcquireRefreshLock): an account is not put in error over a
\* refresh token that another refresh has just used, while the account has a good one.
ErrorOnlyIfRevoked ==
    [][acc'.status = "error" => acc.status = "error" \/ acc.rt # upstream.rt]_vars

====
