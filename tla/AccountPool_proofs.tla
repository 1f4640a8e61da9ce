-------------------------- MODULE AccountPool_proofs --------------------------
(***************************************************************************)
(* Theorems about AccountPool: its types, the count of requests in flight, *)
(* the bound on them, that a removed account nobody refers to stays gone,  *)
(* and that a 5h limit lets one request through at a time, for every pool, *)
(* set of requests and configuration.                                      *)
(***************************************************************************)
EXTENDS AccountPool, FiniteSetTheorems, TLAPS

-----------------------------------------------------------------------------
(* Operators of module Account keep account records well formed: of their     *)
(* type, with a cached limit and an override that the configuration allows.   *)

WellFormed(r) == r \in AccountRec /\ Allowed(r.limit) /\ Allowed(r.override)

\* A base concurrency the code may compute with.
Base(n) == n \in Nat /\ Allowed(n)

\* What is allowed bounds what is smaller; 0 and 1 are always allowed.
LEMMA AllowedDown ==
    ASSUME NEW n \in Int, Allowed(n), NEW m \in Int, m <= n
    PROVE  Allowed(m)
<1>1. PICK c \in {1, InitConcurrency} \cup MaxConcurrencies \cup Overrides : n <= c
  BY DEF Allowed
<1>2. c \in Int
  BY ConcurrencyAssumption
<1> QED
  BY <1>1, <1>2 DEF Allowed

\* One request and none are allowed under every configuration.
LEMMA AllowedOne == Allowed(1) /\ Allowed(0)
BY DEF Allowed

\* concurrencyLimitForTier never exceeds its base, or 1.
LEMMA TierLimit ==
    ASSUME NEW n \in Nat, NEW tier \in Tiers
    PROVE  /\ concurrencyLimitForTier(n, tier) \in Nat
           /\ concurrencyLimitForTier(n, tier) <= n \/ concurrencyLimitForTier(n, tier) <= 1
BY DEF concurrencyLimitForTier, Tiers, DispatchTiers, Healthy, Warm, Risky, Banned

\* What concurrencyLimitForTier returns for an allowed base is allowed.
LEMMA TierLimitAllowed ==
    ASSUME NEW n, Base(n), NEW tier \in Tiers
    PROVE  Base(concurrencyLimitForTier(n, tier))
BY TierLimit, AllowedDown, AllowedOne DEF Base

\* effectiveBaseConcurrencyLocked returns an allowed base: the override or the
\* store's.
LEMMA EffectiveBase ==
    ASSUME NEW r, WellFormed(r), NEW b, Base(b)
    PROVE  Base(effectiveBaseConcurrencyLocked(r, b))
BY AllowedOne DEF effectiveBaseConcurrencyLocked, WellFormed, Base, AccountRec

\* Rescoring ends in one of the four tiers.
LEMMA RecomputedTier ==
    ASSUME NEW r \in AccountRec
    PROVE  recomputedTier(r) \in Tiers
BY DEF recomputedTier, AccountRec, Tiers, DispatchTiers, Healthy, Warm, Risky, Banned

\* recomputeSchedulerLocked keeps an account record well formed.
LEMMA Recompute ==
    ASSUME NEW r, WellFormed(r), NEW b, Base(b)
    PROVE  WellFormed(recomputeSchedulerLocked(r, b))
<1> DEFINE tier  == recomputedTier(r)
           limit == concurrencyLimitForTier(effectiveBaseConcurrencyLocked(r, b), tier)
           cut   == IF premium5hRateLimitedLocked(r) /\ limit > 1 THEN 1 ELSE limit
<1>1. r \in AccountRec /\ tier \in Tiers
  BY RecomputedTier DEF WellFormed
<1>2. Base(limit)
  BY <1>1, EffectiveBase, TierLimitAllowed
<1>3. Base(cut)
  BY <1>2, AllowedOne DEF Base
<1>4. recomputeSchedulerLocked(r, b) = [r EXCEPT !.tier = tier, !.limit = cut]
  BY DEF recomputeSchedulerLocked
<1> HIDE DEF tier, cut, limit
<1> QED
  BY <1>1, <1>3, <1>4 DEF WellFormed, Base, AccountRec

\* fastSchedulerSnapshot's rescoring keeps an account record well formed.
LEMMA Snapshot ==
    ASSUME NEW r, WellFormed(r), NEW b, Base(b)
    PROVE  WellFormed(snapshotRec(r, b))
BY Recompute DEF snapshotRec

\* The scheduler files accounts under tiers that have a bucket.
LEMMA Filed ==
    ASSUME NEW r, WellFormed(r), NEW b, Base(b)
    PROVE  filed(r, b) \in Entries
<1> DEFINE s == snapshotRec(r, b)
<1>1. s.tier \in Tiers
  BY Snapshot DEF WellFormed, AccountRec
<1>2. snapshotAvailable(s) => s.tier # Banned
  BY DEF snapshotAvailable
<1>3. \/ filed(r, b) = s.tier /\ snapshotAvailable(s)
      \/ filed(r, b) = NoEntry
  BY DEF filed
<1> QED
  BY <1>1, <1>2, <1>3 DEF Entries, Tiers

\* The limit that fastSchedulerSnapshot returns is allowed.
LEMMA SnapshotLimit ==
    ASSUME NEW r, WellFormed(r), NEW b, Base(b)
    PROVE  Base(snapshotLimit(r, b))
<1>1. Base(r.limit) /\ r.tier \in Tiers
  BY DEF WellFormed, Base, AccountRec
<1>2. Base(concurrencyLimitForTier(effectiveBaseConcurrencyLocked(r, b), r.tier))
  BY <1>1, EffectiveBase, TierLimitAllowed
<1> QED
  BY <1>1, <1>2 DEF snapshotLimit

\* ReportRequestSuccess keeps an account record well formed.
LEMMA Success ==
    ASSUME NEW r, WellFormed(r), NEW b, Base(b)
    PROVE  WellFormed(ReportRequestSuccess(r, b))
<1>1. WellFormed([r EXCEPT !.failed = FALSE])
  BY DEF WellFormed, AccountRec
<1> QED
  BY <1>1, Recompute DEF ReportRequestSuccess

\* ReportRequestFailure keeps an account record well formed, for every kind.
LEMMA Failure ==
    ASSUME NEW r, WellFormed(r), NEW b, Base(b), NEW kind \in Kinds
    PROVE  WellFormed(ReportRequestFailure(r, kind, b))
<1> DEFINE tier == CASE kind = "unauthorized" -> Banned
                     [] kind \in {"timeout", "server", "transport"} -> demoted(r.tier)
                     [] kind = "client" -> IF r.tier = Healthy THEN Warm ELSE r.tier
           s == [r EXCEPT !.failed = TRUE, !.tier = tier,
                          !.recent401 = @ \/ kind = "unauthorized"]
<1>1. r \in AccountRec /\ r.tier \in Tiers /\ r.recent401 \in BOOLEAN
  BY DEF WellFormed, AccountRec
<1>2. tier \in Tiers
  BY <1>1 DEF Kinds, demoted, Tiers, DispatchTiers
<1> HIDE DEF tier
<1>3. WellFormed(s)
  BY <1>1, <1>2 DEF WellFormed, AccountRec
<1>4. ReportRequestFailure(r, kind, b) = recomputeSchedulerLocked(s, b)
  BY DEF ReportRequestFailure, tier
<1> QED
  BY <1>3, <1>4, Recompute

\* The first section of MarkCooldown keeps an account record well formed.
LEMMA Penalty ==
    ASSUME NEW r, WellFormed(r), NEW b, Base(b), NEW reason
    PROVE  WellFormed(markPenalty(r, reason, b))
<1> DEFINE tier == IF reason = "rate_limited" THEN demoted(r.tier) ELSE Banned
           s == [r EXCEPT !.failed = TRUE, !.tier = tier,
                          !.recent401 = @ \/ reason # "rate_limited"]
<1>1. r \in AccountRec /\ r.tier \in Tiers /\ r.recent401 \in BOOLEAN
  BY DEF WellFormed, AccountRec
<1>2. tier \in Tiers
  BY <1>1 DEF demoted, Tiers, DispatchTiers
<1> HIDE DEF tier
<1>3. WellFormed(s)
  BY <1>1, <1>2 DEF WellFormed, AccountRec
<1>4. markPenalty(r, reason, b) = recomputeSchedulerLocked(s, b)
  BY DEF markPenalty, tier
<1> QED
  BY <1>3, <1>4, Recompute

\* SetCooldownUntil keeps an account record well formed; it leaves the limit alone.
LEMMA Cooldown ==
    ASSUME NEW r, WellFormed(r), NEW until \in Durations, NEW reason \in Reasons
    PROVE  WellFormed(SetCooldownUntil(r, until, reason))
<1> DEFINE tier == CASE reason = "unauthorized" -> Banned
                     [] reason = "rate_limited" -> demoted(r.tier)
                     [] OTHER -> r.tier
<1>1. r \in AccountRec /\ r.tier \in Tiers
  BY DEF WellFormed, AccountRec
<1>2. tier \in Tiers
  BY <1>1 DEF demoted, Tiers, DispatchTiers
<1> HIDE DEF tier
<1>3. SetCooldownUntil(r, until, reason) =
        [r EXCEPT !.status = "cooldown", !.until = until, !.reason = reason, !.tier = tier]
  BY DEF SetCooldownUntil, tier
<1> QED
  BY <1>1, <1>2, <1>3 DEF WellFormed, AccountRec, Statuses

\* ClearCooldown keeps an account record well formed.
LEMMA Cleared ==
    ASSUME NEW r, WellFormed(r), NEW b, Base(b)
    PROVE  WellFormed(ClearCooldown(r, b))
<1> DEFINE status == IF r.status = "cooldown" THEN "ready" ELSE r.status
           tier == IF r.status = "cooldown" /\ ~premium5hRateLimitedLocked(r)
                   THEN Warm ELSE r.tier
           s == [r EXCEPT !.status = status, !.until = "past", !.reason = "", !.tier = tier]
<1>1. r \in AccountRec /\ status \in Statuses /\ tier \in Tiers
  BY DEF WellFormed, AccountRec, Statuses, Tiers, DispatchTiers
<1>2. ClearCooldown(r, b) = recomputeSchedulerLocked(s, b)
  BY DEF ClearCooldown
<1> HIDE DEF status, tier
<1>3. WellFormed(s)
  BY <1>1 DEF WellFormed, AccountRec, Durations, Reasons
<1> QED
  BY <1>2, <1>3, Recompute

\* Lifting a ban after a recovery probe keeps an account record well formed.
LEMMA Lifted ==
    ASSUME NEW r, WellFormed(r), NEW b, Base(b)
    PROVE  WellFormed(liftBan(r, b))
<1> DEFINE cooling == r.status = "cooldown"
           status == IF cooling THEN "ready" ELSE r.status
           until  == IF cooling THEN "past" ELSE r.until
           reason == IF cooling THEN "" ELSE r.reason
           s == [r EXCEPT !.tier = Warm, !.failed = FALSE, !.status = status,
                          !.until = until, !.reason = reason]
<1>1. r \in AccountRec /\ status \in Statuses /\ until \in Durations /\ reason \in Reasons
  BY DEF WellFormed, AccountRec, Statuses, Durations, Reasons
<1>2. liftBan(r, b) = IF r.tier # Banned THEN r ELSE recomputeSchedulerLocked(s, b)
  BY DEF liftBan
<1> HIDE DEF status, until, reason
<1>3. WellFormed(s)
  BY <1>1 DEF WellFormed, AccountRec, Tiers, DispatchTiers
<1> QED
  BY <1>2, <1>3, Recompute

\* MarkPremium5hRateLimited keeps an account record well formed.
LEMMA Premium5h ==
    ASSUME NEW r, WellFormed(r), NEW b, Base(b)
    PROVE  WellFormed(MarkPremium5hRateLimited(r, b))
<1> DEFINE limited == r.status = "cooldown" /\ r.reason = "rate_limited"
           status == IF limited THEN "ready" ELSE r.status
           until  == IF limited THEN "past" ELSE r.until
           reason == IF limited THEN "" ELSE r.reason
           tier   == IF r.tier # Banned THEN Risky ELSE r.tier
           s == [r EXCEPT !.usage5h = "full", !.status = status, !.until = until,
                          !.reason = reason, !.tier = tier]
<1>1. /\ r \in AccountRec /\ status \in Statuses /\ until \in Durations
      /\ reason \in Reasons /\ tier \in Tiers
  BY DEF WellFormed, AccountRec, Statuses, Durations, Reasons, Tiers, DispatchTiers
<1>2. MarkPremium5hRateLimited(r, b) = recomputeSchedulerLocked(s, b)
  BY DEF MarkPremium5hRateLimited
<1> HIDE DEF status, until, reason, tier
<1>3. WellFormed(s)
  BY <1>1 DEF WellFormed, AccountRec
<1> QED
  BY <1>2, <1>3, Recompute

\* SyncAccountPlanType keeps an account record well formed.
LEMMA PlanSynced ==
    ASSUME NEW r, WellFormed(r), NEW b, Base(b), NEW plan \in Plans
    PROVE  WellFormed(SyncAccountPlanType(r, plan, b))
<1>1. WellFormed([r EXCEPT !.plan = plan])
  BY DEF WellFormed, AccountRec
<1> QED
  BY <1>1, Recompute DEF SyncAccountPlanType

\* The passing of time keeps an account record well formed.
LEMMA Clock ==
    ASSUME NEW r, WellFormed(r), NEW band \in DispatchTiers
    PROVE  /\ WellFormed(cooldownElapses(r)) /\ WellFormed(window5hResets(r))
           /\ WellFormed(dayPasses(r)) /\ WellFormed(scoreMoves(r, band))
BY DEF WellFormed, AccountRec, Durations, cooldownElapses, window5hResets, dayPasses,
       scoreMoves

\* Storing a usage window keeps an account record well formed.
LEMMA UsageSet ==
    ASSUME NEW r, WellFormed(r)
    PROVE  /\ \A u \in {"low", "soft", "hard"} : WellFormed(SetUsageSnapshot(r, u))
           /\ \A u \in {"ok", "full"} : WellFormed(SetUsageSnapshot5h(r, u))
BY DEF WellFormed, AccountRec, SetUsageSnapshot, SetUsageSnapshot5h

-----------------------------------------------------------------------------
(* The inductive invariant.                                                    *)

\* What a request goroutine knows: it holds an account from its first look at it
\* to the end of applyCooldown, and every later step has an outcome to work with.
GoodReq(x) ==
    /\ x \in ReqRec
    /\ Allowed(x.limit)
    /\ x.pc # "idle" => x.acct \in Accounts
    /\ x.pc = "rel" => x.out # "none"
    /\ x.pc = "disable" => x.out \in {"401", "402", "missing_scope"}
    /\ x.pc \in {"cool", "set"} => x.out \in {"429", "401", "402"}

Recs  == \A a \in Accounts : WellFormed(acc[a])
Bases == Base(maxConcurrency) /\ Base(base) /\ Base(rebuild.base)
Reqs  == \A q \in Requests : GoodReq(req[q])

PoolInv == TypeOK /\ Recs /\ Bases /\ Reqs

IInv == PoolInv /\ InFlightCounted /\ NeverOverLimit

-----------------------------------------------------------------------------
(* What a step may do to one account and to one request. *)

\* Writing one well-formed record keeps the pool of records well formed.
LEMMA WriteAcc ==
    ASSUME PoolInv, NEW a \in Accounts, NEW r, WellFormed(r),
           acc' = [acc EXCEPT ![a] = r]
    PROVE  acc' \in [Accounts -> AccountRec] /\ Recs'
BY DEF PoolInv, TypeOK, Recs, WellFormed

\* So does a write followed by fastSchedulerUpdate, which files the account under a
\* bucket or nowhere.
LEMMA Write ==
    ASSUME PoolInv, NEW a \in Accounts, NEW r, WellFormed(r), WriteAndUpdate(a, r)
    PROVE  acc' \in [Accounts -> AccountRec] /\ Recs' /\ index' \in [Accounts -> Entries]
<1>1. WellFormed(snapshotRec(r, base)) /\ filed(r, base) \in Entries
  BY Snapshot, Filed DEF PoolInv, Bases
<1>2. acc' = [acc EXCEPT ![a] = snapshotRec(r, base)]
  BY DEF WriteAndUpdate
<1>3. index' \in [Accounts -> Entries]
  BY <1>1 DEF WriteAndUpdate, PoolInv, TypeOK
<1> QED
  BY <1>1, <1>2, <1>3, WriteAcc

\* A request that stays well formed keeps the set of requests well formed.
LEMMA ReqStep ==
    ASSUME PoolInv, NEW q \in Requests, NEW x, GoodReq(x), req' = [req EXCEPT ![q] = x]
    PROVE  req' \in [Requests -> ReqRec] /\ Reqs'
BY DEF PoolInv, TypeOK, Reqs, GoodReq

\* A request that holds nothing is well formed.
LEMMA IdleGood == GoodReq(IdleReq)
BY AllowedOne DEF GoodReq, IdleReq, ReqRec, ReqPcs, Durations

\* A request that has just taken an account is well formed.
LEMMA RunGood ==
    ASSUME NEW a \in Accounts
    PROVE  GoodReq([IdleReq EXCEPT !.pc = "run", !.acct = a])
BY AllowedOne DEF GoodReq, IdleReq, ReqRec, ReqPcs, Durations

\* The parts of PoolInv that an action leaves alone.
LEMMA Kept ==
    ASSUME PoolInv
    PROVE  /\ acc' = acc => acc' \in [Accounts -> AccountRec] /\ Recs'
           /\ req' = req => req' \in [Requests -> ReqRec] /\ Reqs'
           /\ maxConcurrency' = maxConcurrency /\ base' = base /\ rebuild' = rebuild
                => Bases'
BY DEF PoolInv, TypeOK, Recs, Reqs, Bases

-----------------------------------------------------------------------------
(* PoolInv is inductive.                                                      *)

\* Reporting an outcome keeps an account record well formed.
LEMMA ReportedGood ==
    ASSUME PoolInv, NEW r, WellFormed(r), NEW out \in AllOutcomes
    PROVE  WellFormed(reported(r, out))
<1>1. Base(maxConcurrency)
  BY DEF PoolInv, Bases
<1>2. out \notin {"ok", "429", "dropped"} => failureKind(out) \in Kinds
  BY DEF AllOutcomes, failureKind, Kinds
<1>3. CASE out = "ok"
  BY <1>1, <1>3, Success DEF reported
<1>4. CASE out \in {"429", "dropped"}
  BY <1>4 DEF reported
<1>5. CASE out \notin {"ok", "429", "dropped"}
  <2>1. reported(r, out) = ReportRequestFailure(r, failureKind(out), maxConcurrency)
    BY <1>5 DEF reported
  <2> QED
    BY <1>1, <1>2, <1>5, <2>1, Failure
<1> QED
  BY <1>3, <1>4, <1>5

\* SyncCodexUsageState keeps an account record well formed.
LEMMA UsageSynced ==
    ASSUME PoolInv, NEW r, WellFormed(r), NEW usage \in AllUsageHeaders
    PROVE  WellFormed(SyncCodexUsageState(r, usage))
<1>1. Base(maxConcurrency)
  BY DEF PoolInv, Bases
<1>2. CASE usage = "none"
  BY <1>2 DEF SyncCodexUsageState
<1>3. CASE usage \in {"low", "soft", "hard"}
  BY <1>3, UsageSet DEF SyncCodexUsageState
<1>4. CASE usage = "ok5h"
  BY <1>4, UsageSet DEF SyncCodexUsageState
<1>5. CASE usage = "full5h"
  BY <1>1, <1>5, UsageSet, Premium5h DEF SyncCodexUsageState
<1> QED
  BY <1>2, <1>3, <1>4, <1>5 DEF AllUsageHeaders

\* A request takes an account, or looks at one.
LEMMA TakingKeepsPool ==
    ASSUME PoolInv, NEW q \in Requests, NEW a \in Accounts,
           Acquire(q, a) \/ Visit(q, a) \/ TakeByID(q, a)
    PROVE  PoolInv'
<1>0. WellFormed(acc[a]) /\ Base(base) /\ Base(maxConcurrency)
  BY DEF PoolInv, Recs, Bases
<1>1. CASE Acquire(q, a)
  <2>1. acc' = [acc EXCEPT ![a] = snapshotRec(acc[a], base)]
    BY <1>1 DEF Acquire
  <2>2. acc' \in [Accounts -> AccountRec] /\ Recs'
    BY <1>0, <2>1, Snapshot, WriteAcc
  <2>3. req' = [req EXCEPT ![q] = [IdleReq EXCEPT !.pc = "run", !.acct = a]]
    BY <1>1 DEF Acquire
  <2>4. req' \in [Requests -> ReqRec] /\ Reqs'
    BY <2>3, RunGood, ReqStep
  <2>5. active' \in [Accounts -> Int]
    BY <1>1 DEF Acquire, PoolInv, TypeOK
  <2> QED
    BY <1>1, <2>2, <2>4, <2>5, Kept DEF Acquire, PoolInv, TypeOK, schedVars
<1>2. CASE Visit(q, a)
  <2>1. acc' = [acc EXCEPT ![a] = snapshotRec(acc[a], base)]
    BY <1>2 DEF Visit
  <2>2. acc' \in [Accounts -> AccountRec] /\ Recs'
    BY <1>0, <2>1, Snapshot, WriteAcc
  <2>3. filed(snapshotRec(acc[a], base), base) \in Entries
    BY <1>0, Snapshot, Filed
  <2>4. index' \in [Accounts -> Entries]
    BY <1>2, <2>3 DEF Visit, PoolInv, TypeOK
  <2> QED
    BY <1>2, <2>2, <2>4, Kept DEF Visit, PoolInv, TypeOK
<1>3. CASE TakeByID(q, a)
  <2> DEFINE s == snapshotRec(acc[a], maxConcurrency)
             x == [IdleReq EXCEPT !.pc = "peek", !.acct = a,
                                  !.limit = snapshotLimit(s, maxConcurrency)]
  <2>1. acc' = [acc EXCEPT ![a] = s] /\ req' = [req EXCEPT ![q] = x]
    BY <1>3 DEF TakeByID
  <2>2. WellFormed(s) /\ Base(snapshotLimit(s, maxConcurrency))
    BY <1>0, Snapshot, SnapshotLimit
  <2>3. acc' \in [Accounts -> AccountRec] /\ Recs'
    BY <2>1, <2>2, WriteAcc
  <2>4. GoodReq(x)
    BY <2>2 DEF GoodReq, IdleReq, ReqRec, ReqPcs, Durations, Base
  <2>5. req' \in [Requests -> ReqRec] /\ Reqs'
    BY <2>1, <2>4, ReqStep
  <2> QED
    BY <1>3, <2>3, <2>5, Kept DEF TakeByID, PoolInv, TypeOK, schedVars
<1> QED
  BY <1>1, <1>2, <1>3

\* tryAcquireAccount, whether it takes the slot or not.
LEMMA TryAcquireKeepsPool ==
    ASSUME PoolInv, NEW q \in Requests, TryAcquire(q)
    PROVE  PoolInv'
<1> DEFINE a == req[q].acct
           x == IF active[a] < req[q].limit
                THEN [IdleReq EXCEPT !.pc = "run", !.acct = a] ELSE IdleReq
<1>1. a \in Accounts
  BY DEF PoolInv, Reqs, GoodReq, TryAcquire
<1>2. GoodReq(x)
  BY <1>1, RunGood, IdleGood
<1>3. req' = [req EXCEPT ![q] = x]
  BY DEF TryAcquire
<1>4. req' \in [Requests -> ReqRec] /\ Reqs'
  BY <1>2, <1>3, ReqStep
<1>5. active' \in [Accounts -> Int]
  BY <1>1 DEF TryAcquire, PoolInv, TypeOK
<1> QED
  BY <1>4, <1>5, Kept DEF TryAcquire, PoolInv, TypeOK, schedVars, accountVars

\* An answer is reported and its usage headers are stored.
LEMMA FinishKeepsPool ==
    ASSUME PoolInv, NEW q \in Requests, NEW out \in Outcomes, NEW usage \in UsageHeaders,
           Finish(q, out, usage)
    PROVE  PoolInv'
<1> DEFINE a == req[q].acct
           r == IF out \in {"ok", "timeout", "transport", "dropped"}
                THEN reported(SyncCodexUsageState(acc[a], usage), out)
                ELSE SyncCodexUsageState(reported(acc[a], out), usage)
           x == [req[q] EXCEPT !.pc = "rel", !.out = out]
<1>1. a \in Accounts /\ GoodReq(req[q])
  BY DEF PoolInv, Reqs, GoodReq, Finish
<1>2. out \in AllOutcomes /\ usage \in AllUsageHeaders
  BY OutcomeAssumption
<1>3. WellFormed(acc[a])
  BY <1>1 DEF PoolInv, Recs
<1>4. WellFormed(r)
  BY <1>2, <1>3, ReportedGood, UsageSynced
<1>5. (acc' = acc /\ index' = index) \/ WriteAndUpdate(a, r)
  BY DEF Finish
<1>6. acc' \in [Accounts -> AccountRec] /\ Recs' /\ index' \in [Accounts -> Entries]
  <2>1. CASE acc' = acc /\ index' = index
    BY <2>1, Kept DEF PoolInv, TypeOK
  <2>2. CASE WriteAndUpdate(a, r)
    <3> HIDE DEF r
    <3> QED
      BY <1>1, <1>4, <2>2, Write
  <2> QED
    BY <1>5, <2>1, <2>2
<1>7. GoodReq(x)
  BY <1>1, <1>2 DEF GoodReq, ReqRec, ReqPcs, AllOutcomes
<1>8. req' = [req EXCEPT ![q] = x]
  BY DEF Finish
<1>9. req' \in [Requests -> ReqRec] /\ Reqs'
  BY <1>7, <1>8, ReqStep
<1> QED
  BY <1>6, <1>9, Kept DEF Finish, PoolInv, TypeOK

\* Store.Release.
LEMMA ReleaseKeepsPool ==
    ASSUME PoolInv, NEW q \in Requests, Release(q)
    PROVE  PoolInv'
<1> DEFINE next == pcAfterRelease(req[q].out)
           x == IF next = "idle" THEN IdleReq ELSE [req[q] EXCEPT !.pc = next]
<1>1. GoodReq(req[q]) /\ req[q].pc = "rel" /\ req[q].acct \in Accounts
  BY DEF PoolInv, Reqs, GoodReq, Release
<1>2. /\ next \in {"idle", "disable", "cool"}
      /\ next = "disable" => req[q].out \in {"401", "402", "missing_scope"}
      /\ next = "cool" => req[q].out = "429"
  BY DEF pcAfterRelease
<1>3. GoodReq(x)
  <2> HIDE DEF next
  <2>1. CASE next = "idle"
    BY <2>1, IdleGood
  <2>2. CASE next # "idle"
    BY <1>1, <1>2, <2>2 DEF GoodReq, ReqRec, ReqPcs
  <2> QED
    BY <2>1, <2>2
<1>4. req' = [req EXCEPT ![q] = x]
  BY DEF Release
<1>5. req' \in [Requests -> ReqRec] /\ Reqs'
  BY <1>3, <1>4, ReqStep
<1>6. active' \in [Accounts -> Int]
  BY <1>1 DEF Release, PoolInv, TypeOK
<1> QED
  BY <1>5, <1>6, Kept DEF Release, PoolInv, TypeOK, schedVars, accountVars

\* applyCooldown sets the Disabled flag, or takes it back.
LEMMA DisableKeepsPool ==
    ASSUME PoolInv, NEW q \in Requests, Disable(q) \/ Undisable(q)
    PROVE  PoolInv'
<1>1. GoodReq(req[q]) /\ req[q].acct \in Accounts
  BY DEF PoolInv, Reqs, GoodReq, Disable, Undisable
<1>2. CASE Disable(q)
  <2> DEFINE pc == IF req[q].out = "missing_scope" THEN "undo" ELSE "cool"
             x  == [req[q] EXCEPT !.pc = pc]
  <2>1. GoodReq(x)
    BY <1>1, <1>2 DEF Disable, GoodReq, ReqRec, ReqPcs
  <2>2. req' = [req EXCEPT ![q] = x]
    BY <1>2 DEF Disable
  <2>3. req' \in [Requests -> ReqRec] /\ Reqs'
    BY <2>1, <2>2, ReqStep
  <2> QED
    BY <1>1, <1>2, <2>3, Kept DEF Disable, PoolInv, TypeOK, schedVars
<1>3. CASE Undisable(q)
  <2>1. req' \in [Requests -> ReqRec] /\ Reqs'
    BY <1>3, IdleGood, ReqStep DEF Undisable
  <2> QED
    BY <1>1, <1>3, <2>1, Kept DEF Undisable, PoolInv, TypeOK, schedVars
<1> QED
  BY <1>2, <1>3

\* RemoveAccount keeps the life and the scheduler entries of accounts typed.
LEMMA RemoveKeepsPool ==
    ASSUME PoolInv, NEW a \in Accounts, Remove(a)
    PROVE  /\ life' \in [Accounts -> {"new", "live", "removed"}]
           /\ index' \in [Accounts -> Entries]
BY DEF Remove, PoolInv, TypeOK, Entries

\* A 401 or a 402 deletes the account.
LEMMA CleanKeepsPool ==
    ASSUME PoolInv, NEW q \in Requests, CleanUnauthorized(q)
    PROVE  PoolInv'
<1>1. req[q].acct \in Accounts
  BY DEF PoolInv, Reqs, GoodReq, CleanUnauthorized
<1>2. /\ life' \in [Accounts -> {"new", "live", "removed"}]
      /\ index' \in [Accounts -> Entries]
  BY <1>1, RemoveKeepsPool DEF CleanUnauthorized
<1>3. req' \in [Requests -> ReqRec] /\ Reqs'
  BY IdleGood, ReqStep DEF CleanUnauthorized
<1> QED
  BY <1>2, <1>3, Kept DEF CleanUnauthorized, PoolInv, TypeOK, accountVars

\* MarkCooldown's first section on a 401 or a 402.
LEMMA MarkBanKeepsPool ==
    ASSUME PoolInv, NEW q \in Requests, MarkBan(q)
    PROVE  PoolInv'
<1> DEFINE a == req[q].acct
           reason == cooldownReason(req[q].out)
           dur == markDuration(acc[a], "7d", reason)
           x == [req[q] EXCEPT !.pc = "set", !.dur = dur]
<1>1. GoodReq(req[q]) /\ a \in Accounts /\ req[q].out \in {"429", "401", "402"}
  BY DEF PoolInv, Reqs, GoodReq, MarkBan
<1>2. WellFormed(acc[a]) /\ Base(maxConcurrency)
  BY <1>1 DEF PoolInv, Recs, Bases
<1>3. WellFormed(markPenalty(acc[a], reason, maxConcurrency))
  BY <1>2, Penalty
<1>4. acc' = [acc EXCEPT ![a] = markPenalty(acc[a], reason, maxConcurrency)]
  BY DEF MarkBan
<1>5. acc' \in [Accounts -> AccountRec] /\ Recs'
  BY <1>1, <1>3, <1>4, WriteAcc
<1>6. dur \in Durations
  BY DEF markDuration, Durations
<1>7. GoodReq(x)
  <2> HIDE DEF dur
  <2> QED
    BY <1>1, <1>6 DEF GoodReq, ReqRec, ReqPcs
<1>8. req' = [req EXCEPT ![q] = x]
  BY DEF MarkBan
<1>9. req' \in [Requests -> ReqRec] /\ Reqs'
  BY <1>7, <1>8, ReqStep
<1> QED
  BY <1>5, <1>9, Kept DEF MarkBan, PoolInv, TypeOK, schedVars

\* Apply429Cooldown, whichever window it finds exhausted.
LEMMA Mark429KeepsPool ==
    ASSUME PoolInv, NEW q \in Requests, NEW window5h \in BOOLEAN, Mark429(q, window5h)
    PROVE  PoolInv'
<1> DEFINE a == req[q].acct
           synced(plan) == SyncAccountPlanType(acc[a], plan, maxConcurrency)
           x == [req[q] EXCEPT !.pc = "set", !.dur = "quota"]
<1>1. GoodReq(req[q]) /\ a \in Accounts /\ req[q].out = "429"
  BY DEF PoolInv, Reqs, GoodReq, Mark429
<1>2. WellFormed(acc[a]) /\ Base(maxConcurrency) /\ Base(base)
  BY <1>1 DEF PoolInv, Recs, Bases
<1>3. PICK plan \in BodyPlans \cup {acc[a].plan} :
        IF isPremium5hPlan(acc[a]) /\ window5h
        THEN /\ WriteAndUpdate(a, MarkPremium5hRateLimited(synced(plan), maxConcurrency))
             /\ req' = [req EXCEPT ![q] = IdleReq]
        ELSE /\ acc' = [acc EXCEPT ![a] = markPenalty(synced(plan), "rate_limited",
                                                      maxConcurrency)]
             /\ index' = IF plan = acc[a].plan THEN index
                         ELSE [index EXCEPT ![a] = filed(synced(plan), base)]
             /\ req' = [req EXCEPT ![q] = x]
  BY DEF Mark429
<1>4. plan \in Plans
  BY <1>2, OutcomeAssumption DEF WellFormed, AccountRec
<1>5. WellFormed(synced(plan))
  BY <1>2, <1>4, PlanSynced
<1> HIDE DEF synced
<1>6. CASE isPremium5hPlan(acc[a]) /\ window5h
  <2>1. WellFormed(MarkPremium5hRateLimited(synced(plan), maxConcurrency))
    BY <1>2, <1>5, Premium5h
  <2>2. acc' \in [Accounts -> AccountRec] /\ Recs' /\ index' \in [Accounts -> Entries]
    BY <1>1, <1>3, <1>6, <2>1, Write
  <2>3. req' \in [Requests -> ReqRec] /\ Reqs'
    BY <1>3, <1>6, IdleGood, ReqStep
  <2> QED
    BY <2>2, <2>3, Kept DEF Mark429, PoolInv, TypeOK
<1>7. CASE ~(isPremium5hPlan(acc[a]) /\ window5h)
  <2>1. WellFormed(markPenalty(synced(plan), "rate_limited", maxConcurrency))
    BY <1>2, <1>5, Penalty
  <2>2. acc' \in [Accounts -> AccountRec] /\ Recs'
    BY <1>1, <1>3, <1>7, <2>1, WriteAcc
  <2>3. filed(synced(plan), base) \in Entries
    BY <1>2, <1>5, Filed
  <2>4. index' \in [Accounts -> Entries]
    BY <1>3, <1>7, <2>3 DEF PoolInv, TypeOK
  <2>5. GoodReq(x)
    BY <1>1 DEF GoodReq, ReqRec, ReqPcs, Durations
  <2>6. req' \in [Requests -> ReqRec] /\ Reqs'
    BY <1>3, <1>7, <2>5, ReqStep
  <2> QED
    BY <2>2, <2>4, <2>6, Kept DEF Mark429, PoolInv, TypeOK
<1> QED
  BY <1>6, <1>7

\* MarkCooldown's second section.
LEMMA SetCooldownKeepsPool ==
    ASSUME PoolInv, NEW q \in Requests, SetCooldown(q)
    PROVE  PoolInv'
<1> DEFINE a == req[q].acct
           reason == cooldownReason(req[q].out)
           r == SetCooldownUntil(acc[a], req[q].dur, reason)
<1>1. GoodReq(req[q]) /\ a \in Accounts /\ req[q].out \in {"429", "401", "402"}
  BY DEF PoolInv, Reqs, GoodReq, SetCooldown
<1>2. WellFormed(acc[a]) /\ req[q].dur \in Durations
  BY <1>1 DEF PoolInv, Recs, GoodReq, ReqRec
<1>3. reason \in Reasons
  BY <1>1 DEF cooldownReason, Reasons
<1>4. WellFormed(r)
  BY <1>2, <1>3, Cooldown
<1>5. acc' \in [Accounts -> AccountRec] /\ Recs' /\ index' \in [Accounts -> Entries]
  BY <1>1, <1>4, Write DEF SetCooldown
<1>6. req' \in [Requests -> ReqRec] /\ Reqs'
  BY IdleGood, ReqStep DEF SetCooldown
<1> QED
  BY <1>5, <1>6, Kept DEF SetCooldown, PoolInv, TypeOK

\* The administration of single accounts.
LEMMA AdminKeepsPool ==
    ASSUME PoolInv, NEW a \in Accounts,
           \/ AddAccount(a)
           \/ RemoveAccount(a)
           \/ AdminClearCooldown(a)
           \/ \E n \in Overrides : ApplyAccountSchedulerOverrides(a, n)
    PROVE  PoolInv'
<1>0. WellFormed(acc[a]) /\ Base(maxConcurrency)
  BY DEF PoolInv, Recs, Bases
<1>1. CASE AddAccount(a)
  <2>1. acc' \in [Accounts -> AccountRec] /\ Recs' /\ index' \in [Accounts -> Entries]
    BY <1>0, <1>1, Recompute, Write DEF AddAccount
  <2> QED
    BY <1>1, <2>1, Kept DEF AddAccount, PoolInv, TypeOK
<1>2. CASE RemoveAccount(a)
  <2>1. /\ life' \in [Accounts -> {"new", "live", "removed"}]
        /\ index' \in [Accounts -> Entries]
    BY <1>2, RemoveKeepsPool DEF RemoveAccount
  <2> QED
    BY <1>2, <2>1, Kept DEF RemoveAccount, PoolInv, TypeOK, accountVars
<1>3. CASE AdminClearCooldown(a)
  <2>1. acc' \in [Accounts -> AccountRec] /\ Recs' /\ index' \in [Accounts -> Entries]
    BY <1>0, <1>3, Cleared, Write DEF AdminClearCooldown
  <2> QED
    BY <1>3, <2>1, Kept DEF AdminClearCooldown, PoolInv, TypeOK
<1>4. CASE \E n \in Overrides : ApplyAccountSchedulerOverrides(a, n)
  <2>1. PICK n \in Overrides : ApplyAccountSchedulerOverrides(a, n)
    BY <1>4
  <2>2. Base(n)
    BY ConcurrencyAssumption DEF Base, Allowed
  <2>3. WellFormed([acc[a] EXCEPT !.override = n])
    BY <1>0, <2>2 DEF WellFormed, AccountRec, Base
  <2>4. acc' \in [Accounts -> AccountRec] /\ Recs' /\ index' \in [Accounts -> Entries]
    BY <1>0, <2>1, <2>3, Recompute, Write DEF ApplyAccountSchedulerOverrides
  <2> QED
    BY <2>1, <2>4, Kept DEF ApplyAccountSchedulerOverrides, PoolInv, TypeOK
<1> QED
  BY <1>1, <1>2, <1>3, <1>4

\* A scheduler built from a pool of well-formed accounts.
LEMMA BuiltGood ==
    ASSUME NEW pool, \A a \in Accounts : WellFormed(pool[a]), NEW b, Base(b)
    PROVE  /\ built(pool, b) \in [on : BOOLEAN, index : [Accounts -> Entries], base : Nat]
           /\ built(pool, b).base = b
           /\ rescored(pool, b) \in [Accounts -> AccountRec]
           /\ \A a \in Accounts : WellFormed(rescored(pool, b)[a])
<1>1. \A a \in Accounts : filed(pool[a], b) \in Entries /\ WellFormed(snapshotRec(pool[a], b))
  BY Filed, Snapshot
<1>2. NoEntry \in Entries /\ b \in Nat
  BY DEF Entries, Base
<1>3. \A a \in Accounts : WellFormed(rescored(pool, b)[a])
  BY <1>1 DEF rescored
<1>4. rescored(pool, b) \in [Accounts -> AccountRec]
  BY <1>1 DEF rescored, WellFormed
<1> QED
  BY <1>1, <1>2, <1>3, <1>4 DEF built

\* The two halves of a rebuild, and a new base concurrency.
LEMMA RebuildKeepsPool ==
    ASSUME PoolInv,
           RebuildBuild \/ RebuildInstall \/ \E n \in MaxConcurrencies : SetMaxConcurrency(n)
    PROVE  PoolInv'
<1>1. CASE RebuildBuild
  <2>1. (\A a \in Accounts : WellFormed(acc[a])) /\ Base(maxConcurrency)
    BY DEF PoolInv, Recs, Bases
  <2>2. /\ rebuild' \in [on : BOOLEAN, index : [Accounts -> Entries], base : Nat]
        /\ rebuild'.base = maxConcurrency
        /\ acc' \in [Accounts -> AccountRec]
        /\ \A a \in Accounts : WellFormed(acc'[a])
    BY <1>1, <2>1, BuiltGood DEF RebuildBuild
  <2>3. Bases' /\ Recs'
    BY <1>1, <2>2 DEF RebuildBuild, PoolInv, Bases, Recs
  <2> QED
    BY <1>1, <2>2, <2>3, Kept DEF RebuildBuild, PoolInv, TypeOK
<1>2. CASE RebuildInstall
  <2>1. Base(0)
    BY AllowedOne DEF Base
  <2>2. /\ rebuild' \in [on : BOOLEAN, index : [Accounts -> Entries], base : Nat]
        /\ rebuild'.base = 0
    BY <1>2 DEF RebuildInstall, NoRebuild, Entries
  <2>3. Bases'
    BY <1>2, <2>1, <2>2 DEF RebuildInstall, PoolInv, Bases
  <2> QED
    BY <1>2, <2>2, <2>3, Kept DEF RebuildInstall, PoolInv, TypeOK, accountVars
<1>3. CASE \E n \in MaxConcurrencies : SetMaxConcurrency(n)
  <2>1. PICK n \in MaxConcurrencies : SetMaxConcurrency(n)
    BY <1>3
  <2> DEFINE pool == [a \in Accounts |-> IF life[a] = "live"
                                        THEN recomputeSchedulerLocked(acc[a], n)
                                        ELSE acc[a]]
  <2>2. Base(n)
    BY ConcurrencyAssumption DEF Base, Allowed
  <2>3. \A a \in Accounts : WellFormed(pool[a])
    BY <2>2, Recompute DEF PoolInv, Recs
  <2>4. rebuild' = built(pool, n) /\ acc' = rescored(pool, n) /\ maxConcurrency' = n
    BY <2>1 DEF SetMaxConcurrency
  <2> HIDE DEF pool
  <2>5. /\ rebuild' \in [on : BOOLEAN, index : [Accounts -> Entries], base : Nat]
        /\ rebuild'.base = n
        /\ acc' \in [Accounts -> AccountRec]
        /\ \A a \in Accounts : WellFormed(acc'[a])
    BY <2>2, <2>3, <2>4, BuiltGood
  <2>6. Bases' /\ Recs'
    BY <2>1, <2>2, <2>4, <2>5 DEF SetMaxConcurrency, PoolInv, Bases, Recs
  <2>7. maxConcurrency' \in Nat
    BY <2>2, <2>4 DEF Base
  <2> QED
    BY <2>1, <2>5, <2>6, <2>7, Kept DEF SetMaxConcurrency, PoolInv, TypeOK
<1> QED
  BY <1>1, <1>2, <1>3

\* The answer to a recovery probe.
LEMMA ProbeKeepsPool ==
    ASSUME PoolInv, NEW a \in Accounts, NEW out \in Outcomes \ RequestOnly,
           NEW usage \in UsageHeaders, RecoveryAnswer(a, out, usage)
    PROVE  PoolInv'
<1> DEFINE r == SyncCodexUsageState(acc[a], usage)
<1>1. out \in AllOutcomes /\ usage \in AllUsageHeaders
  BY OutcomeAssumption
<1>2. WellFormed(acc[a]) /\ Base(maxConcurrency)
  BY DEF PoolInv, Recs, Bases
<1>3. WellFormed(r)
  BY <1>1, <1>2, UsageSynced
<1> HIDE DEF r
<1>4. /\ acc' \in [Accounts -> AccountRec] /\ Recs' /\ index' \in [Accounts -> Entries]
      /\ disabled' \in [Accounts -> BOOLEAN]
      /\ probe' \in [Accounts -> {"no", "sent", "ok", "refused"}]
  <2>1. CASE out = "ok"
    <3> DEFINE s == ReportRequestSuccess(r, maxConcurrency)
    <3>1. ProbeOK(a, usage)
      BY <2>1 DEF RecoveryAnswer
    <3>2. PICK clears \in clearsCooldown(acc[a], usage) :
            /\ WriteAndUpdate(a, IF clears THEN ClearCooldown(s, maxConcurrency) ELSE s)
            /\ disabled' = [disabled EXCEPT ![a] = @ /\ ~clears]
      BY <3>1 DEF ProbeOK, r
    <3>3. WellFormed(s)
      BY <1>2, <1>3, Success
    <3> HIDE DEF s
    <3>4. WellFormed(IF clears THEN ClearCooldown(s, maxConcurrency) ELSE s)
      BY <1>2, <3>3, Cleared
    <3>5. acc' \in [Accounts -> AccountRec] /\ Recs' /\ index' \in [Accounts -> Entries]
      BY <3>2, <3>4, Write
    <3>6. disabled' \in [Accounts -> BOOLEAN]
      BY <3>2 DEF PoolInv, TypeOK
    <3>7. probe' \in [Accounts -> {"no", "sent", "ok", "refused"}]
      BY <3>1 DEF ProbeOK, PoolInv, TypeOK
    <3> QED
      BY <3>5, <3>6, <3>7
  <2>2. CASE out \in {"401", "429"}
    <3> DEFINE s == ReportRequestFailure(r, "client", maxConcurrency)
               cooled(reason, dur) ==
                   SetCooldownUntil(markPenalty(s, reason, maxConcurrency),
                                    markDuration(s, dur, reason), reason)
    <3>1. ProbeRefused(a, out, usage)
      BY <2>2 DEF RecoveryAnswer
    <3>2. WellFormed(s)
      BY <1>2, <1>3, Failure DEF Kinds
    <3>3. \/ WriteAndUpdate(a, cooled("unauthorized", "24h"))
          \/ WriteAndUpdate(a, cooled("rate_limited", "quota"))
          \/ WriteAndUpdate(a, MarkPremium5hRateLimited(s, maxConcurrency))
      BY <3>1 DEF ProbeRefused, r
    <3> HIDE DEF s
    <3>4. \A reason \in Reasons, dur \in Durations : WellFormed(cooled(reason, dur))
      <4>1. TAKE reason \in Reasons, dur \in Durations
      <4>2. WellFormed(markPenalty(s, reason, maxConcurrency))
        BY <1>2, <3>2, Penalty
      <4>3. markDuration(s, dur, reason) \in Durations
        BY DEF markDuration, Durations
      <4> QED
        BY <4>2, <4>3, Cooldown
    <3>5. WellFormed(cooled("unauthorized", "24h")) /\ WellFormed(cooled("rate_limited", "quota"))
      BY <3>4 DEF Reasons, Durations
    <3>6. WellFormed(MarkPremium5hRateLimited(s, maxConcurrency))
      BY <1>2, <3>2, Premium5h
    <3> HIDE DEF cooled
    <3>7. acc' \in [Accounts -> AccountRec] /\ Recs' /\ index' \in [Accounts -> Entries]
      BY <3>3, <3>5, <3>6, Write
    <3> QED
      BY <3>1, <3>7 DEF ProbeRefused, PoolInv, TypeOK
  <2>3. CASE out \notin {"ok", "401", "429"}
    <3> DEFINE kind == IF out = "server" THEN "server" ELSE "client"
               s == ReportRequestFailure(r, kind, maxConcurrency)
    <3>1. ProbeFailed(a, out, usage)
      BY <2>3 DEF RecoveryAnswer
    <3>2. WellFormed(s)
      BY <1>2, <1>3, Failure DEF Kinds
    <3>3. (acc' = acc /\ index' = index) \/ WriteAndUpdate(a, s)
      BY <3>1 DEF ProbeFailed, r
    <3> HIDE DEF s
    <3>4. acc' \in [Accounts -> AccountRec] /\ Recs' /\ index' \in [Accounts -> Entries]
      <4>1. CASE acc' = acc /\ index' = index
        BY <4>1, Kept DEF PoolInv, TypeOK
      <4>2. CASE WriteAndUpdate(a, s)
        BY <3>2, <4>2, Write
      <4> QED
        BY <3>3, <4>1, <4>2
    <3> QED
      BY <3>1, <3>4 DEF ProbeFailed, PoolInv, TypeOK
  <2> QED
    BY <2>1, <2>2, <2>3
<1> QED
  BY <1>4, Kept DEF RecoveryAnswer, PoolInv, TypeOK

\* All steps of a recovery probe.
LEMMA RecoveryKeepsPool ==
    ASSUME PoolInv, NEW a \in Accounts, RecoveryStep(a)
    PROVE  PoolInv'
<1>1. CASE RecoveryBegin(a)
  BY <1>1, Kept DEF RecoveryBegin, PoolInv, TypeOK, accountVars, schedVars
<1>2. CASE \E out \in Outcomes \ RequestOnly, usage \in UsageHeaders :
              RecoveryAnswer(a, out, usage)
  BY <1>2, ProbeKeepsPool
<1>3. CASE RecoveryLift(a)
  <2>1. WellFormed(liftBan(acc[a], maxConcurrency))
    BY Lifted DEF PoolInv, Recs, Bases
  <2>2. acc' = acc \/ acc' = [acc EXCEPT ![a] = liftBan(acc[a], maxConcurrency)]
    BY <1>3 DEF RecoveryLift, accountVars
  <2>3. acc' \in [Accounts -> AccountRec] /\ Recs'
    BY <2>1, <2>2, WriteAcc, Kept
  <2> QED
    BY <1>3, <2>3, Kept DEF RecoveryLift, PoolInv, TypeOK, accountVars, schedVars
<1> QED
  BY <1>1, <1>2, <1>3 DEF RecoveryStep

\* The clock.
LEMMA ClockKeepsPool ==
    ASSUME PoolInv, NEW a \in Accounts, ClockStep(a)
    PROVE  PoolInv'
<1>1. PICK r : WellFormed(r) /\ acc' = [acc EXCEPT ![a] = r]
  <2>1. WellFormed(acc[a]) /\ Healthy \in DispatchTiers
    BY DEF PoolInv, Recs, DispatchTiers
  <2>2. CASE CooldownElapses(a)
    BY <2>1, <2>2, Clock DEF CooldownElapses
  <2>3. CASE Window5hResets(a)
    BY <2>1, <2>3, Clock DEF Window5hResets
  <2>4. CASE DayPasses(a)
    BY <2>1, <2>4, Clock DEF DayPasses
  <2>5. CASE \E band \in Bands : ScoreMoves(a, band)
    <3>1. PICK band \in Bands : ScoreMoves(a, band)
      BY <2>5
    <3>2. band \in DispatchTiers
      BY OutcomeAssumption
    <3> QED
      BY <2>1, <3>1, <3>2, Clock DEF ScoreMoves
  <2> QED
    BY <2>2, <2>3, <2>4, <2>5 DEF ClockStep
<1>2. acc' \in [Accounts -> AccountRec] /\ Recs'
  BY <1>1, WriteAcc
<1>3. UNCHANGED <<disabled, active, life, maxConcurrency, schedVars, req, probe>>
  BY DEF ClockStep, CooldownElapses, Window5hResets, DayPasses, ScoreMoves
<1> QED
  BY <1>2, <1>3, Kept DEF PoolInv, TypeOK, schedVars

\* The pool is well formed at start ...
LEMMA PoolInit == Init => PoolInv
<1> SUFFICES ASSUME Init PROVE PoolInv
  OBVIOUS
<1>1. \A a \in Accounts : WellFormed(NewAccount(PlanOf[a]))
  BY PlanAssumption, AllowedOne
  DEF NewAccount, WellFormed, AccountRec, Statuses, Durations, Reasons, Tiers,
      DispatchTiers, Plans
<1>2. acc \in [Accounts -> AccountRec] /\ Recs
  BY <1>1 DEF Init, Recs, WellFormed
<1>3. Base(0) /\ Base(InitConcurrency)
  BY AllowedOne, ConcurrencyAssumption DEF Base, Allowed
<1>4. Bases
  BY <1>3 DEF Init, Bases, NoRebuild
<1>5. req \in [Requests -> ReqRec] /\ Reqs
  BY IdleGood DEF Init, Reqs, GoodReq
<1> QED
  BY <1>2, <1>3, <1>4, <1>5 DEF PoolInv, TypeOK, Init, NoRebuild, Entries, Base

\* ... and every step keeps it so.
LEMMA PoolStep == PoolInv /\ [Next]_vars => PoolInv'
<1> SUFFICES ASSUME PoolInv, [Next]_vars PROVE PoolInv'
  OBVIOUS
<1>1. CASE \E q \in Requests : RequestStep(q)
  <2>1. PICK q \in Requests : RequestStep(q)
    BY <1>1
  <2> QED
    BY <2>1, TakingKeepsPool, TryAcquireKeepsPool, FinishKeepsPool, ReleaseKeepsPool,
       DisableKeepsPool, CleanKeepsPool, MarkBanKeepsPool, Mark429KeepsPool,
       SetCooldownKeepsPool DEF RequestStep
<1>2. CASE AdminStep \/ Rebuild
  BY <1>2, AdminKeepsPool, RebuildKeepsPool DEF AdminStep, Rebuild
<1>3. CASE \E a \in Accounts : RecoveryStep(a) \/ ClockStep(a)
  BY <1>3, RecoveryKeepsPool, ClockKeepsPool
<1>4. CASE UNCHANGED vars
  BY <1>4, Kept DEF vars, PoolInv, TypeOK
<1> QED
  BY <1>1, <1>2, <1>3, <1>4 DEF Next

\* Every reachable state of the pool has its types, and every record, limit and
\* request in it is well formed.
THEOREM PoolTypes == Spec => []TypeOK
<1>1. PoolInv => TypeOK
  BY DEF PoolInv
<1> QED
  BY PoolInit, PoolStep, <1>1, PTL DEF Spec

-----------------------------------------------------------------------------
(* Requests in flight are counted, and never more than is allowed.             *)

Holding == {"run", "rel"}

\* The requests that hold an account are finitely many, so they can be counted.
LEMMA FiniteHolders ==
    ASSUME NEW a
    PROVE  IsFiniteSet(Holders(a))
<1>1. Holders(a) \subseteq Requests
  BY DEF Holders
<1> QED
  BY <1>1, RequestsAssumption, FS_Subset

\* A step that moves no request into or out of Holding, and no counter.
LEMMA HoldersSame ==
    ASSUME InFlightCounted, NeverOverLimit, active' = active,
           \A q \in Requests : /\ req'[q].pc \in Holding <=> req[q].pc \in Holding
                               /\ req[q].pc \in Holding => req'[q].acct = req[q].acct
    PROVE  InFlightCounted' /\ NeverOverLimit'
<1>1. \A a \in Accounts : Holders(a)' = Holders(a)
  BY DEF Holders, Holding
<1> QED
  BY <1>1 DEF InFlightCounted, NeverOverLimit

\* The usual case: one request changes, and holds nothing before and after.
LEMMA HolderNone ==
    ASSUME PoolInv, InFlightCounted, NeverOverLimit, active' = active,
           NEW q \in Requests, NEW x, req' = [req EXCEPT ![q] = x],
           req[q].pc \notin Holding, x.pc \notin Holding
    PROVE  InFlightCounted' /\ NeverOverLimit'
<1>1. \A p \in Requests : req'[p] = IF p = q THEN x ELSE req[p]
  BY DEF PoolInv, TypeOK
<1> QED
  BY <1>1, HoldersSame

\* A request takes an account that is below its limit: the counter and the number of
\* holders both grow by one, and an allowed limit still bounds them.
LEMMA HolderAdded ==
    ASSUME PoolInv, InFlightCounted, NeverOverLimit, NEW q \in Requests,
           NEW a \in Accounts, req[q].pc \notin Holding,
           req' = [req EXCEPT ![q] = [IdleReq EXCEPT !.pc = "run", !.acct = a]],
           active' = [active EXCEPT ![a] = @ + 1],
           NEW limit, Base(limit), active[a] < limit
    PROVE  InFlightCounted' /\ NeverOverLimit'
<1>1. active \in [Accounts -> Int] /\ req \in [Requests -> ReqRec]
  BY DEF PoolInv, TypeOK
<1>2. /\ req'[q].pc = "run" /\ req'[q].acct = a
      /\ \A p \in Requests \ {q} : req'[p] = req[p]
  BY <1>1 DEF IdleReq
<1>3. Holders(a)' = Holders(a) \cup {q} /\ q \notin Holders(a)
  BY <1>2 DEF Holders, Holding
<1>4. \A b \in Accounts \ {a} : Holders(b)' = Holders(b)
  BY <1>2 DEF Holders, Holding
<1>5. Cardinality(Holders(a)') = Cardinality(Holders(a)) + 1
  BY <1>3, FiniteHolders, FS_AddElement
<1>6. InFlightCounted'
  BY <1>1, <1>4, <1>5 DEF InFlightCounted
<1>7. Allowed(active[a] + 1)
  BY <1>1, AllowedDown DEF Base
<1> QED
  BY <1>1, <1>6, <1>7 DEF NeverOverLimit

\* A request gives its account back: both fall by one.
LEMMA HolderLeft ==
    ASSUME PoolInv, InFlightCounted, NeverOverLimit, NEW q \in Requests, NEW x,
           NEW a \in Accounts, req[q].pc \in Holding, req[q].acct = a,
           x.pc \notin Holding, req' = [req EXCEPT ![q] = x],
           active' = [active EXCEPT ![a] = @ - 1]
    PROVE  InFlightCounted' /\ NeverOverLimit'
<1>1. active \in [Accounts -> Int] /\ req \in [Requests -> ReqRec]
  BY DEF PoolInv, TypeOK
<1>2. req'[q] = x /\ \A p \in Requests \ {q} : req'[p] = req[p]
  BY <1>1
<1>3. Holders(a)' = Holders(a) \ {q} /\ q \in Holders(a)
  BY <1>2 DEF Holders, Holding
<1>4. \A b \in Accounts \ {a} : Holders(b)' = Holders(b)
  BY <1>2 DEF Holders, Holding
<1>5. Cardinality(Holders(a)') = Cardinality(Holders(a)) - 1
  BY <1>3, FiniteHolders, FS_RemoveElement
<1>6. InFlightCounted'
  BY <1>1, <1>4, <1>5 DEF InFlightCounted
<1>7. Allowed(active[a] - 1)
  BY <1>1, AllowedDown DEF NeverOverLimit
<1> QED
  BY <1>1, <1>6, <1>7 DEF NeverOverLimit

\* No step of a request breaks the count or the bound.
LEMMA RequestsCounted ==
    ASSUME PoolInv, InFlightCounted, NeverOverLimit, NEW q \in Requests, RequestStep(q)
    PROVE  InFlightCounted' /\ NeverOverLimit'
<1>0. Base(base) /\ Base(maxConcurrency) /\ GoodReq(req[q])
  BY DEF PoolInv, Bases, Reqs
<1>1. ASSUME NEW a \in Accounts, Acquire(q, a)
      PROVE  InFlightCounted' /\ NeverOverLimit'
  <2> DEFINE limit == snapshotLimit(snapshotRec(acc[a], base), base)
  <2>1. WellFormed(acc[a])
    BY DEF PoolInv, Recs
  <2>2. Base(limit)
    BY <1>0, <2>1, Snapshot, SnapshotLimit
  <2>3. /\ req[q].pc \notin Holding
        /\ req' = [req EXCEPT ![q] = [IdleReq EXCEPT !.pc = "run", !.acct = a]]
        /\ active' = [active EXCEPT ![a] = @ + 1]
        /\ active[a] < limit
    BY <1>1 DEF Acquire, Holding
  <2> HIDE DEF limit
  <2> QED
    BY <2>2, <2>3, HolderAdded
<1>2. ASSUME NEW a \in Accounts, Visit(q, a)
      PROVE  InFlightCounted' /\ NeverOverLimit'
  BY <1>2, HoldersSame DEF Visit
<1>3. ASSUME NEW a \in Accounts, TakeByID(q, a)
      PROVE  InFlightCounted' /\ NeverOverLimit'
  <2> DEFINE x == [IdleReq EXCEPT !.pc = "peek", !.acct = a,
                       !.limit = snapshotLimit(snapshotRec(acc[a], maxConcurrency),
                                               maxConcurrency)]
  <2>1. /\ active' = active /\ req' = [req EXCEPT ![q] = x]
        /\ req[q].pc \notin Holding /\ x.pc \notin Holding
    BY <1>3 DEF TakeByID, Holding, IdleReq
  <2> QED
    BY <2>1, HolderNone
<1>4. CASE TryAcquire(q)
  <2>1. req[q].pc \notin Holding /\ req[q].acct \in Accounts /\ Base(req[q].limit)
    BY <1>0, <1>4 DEF TryAcquire, GoodReq, ReqRec, Base, Holding
  <2>2. CASE active[req[q].acct] < req[q].limit
    BY <1>4, <2>1, <2>2, HolderAdded DEF TryAcquire
  <2>3. CASE ~(active[req[q].acct] < req[q].limit)
    <3>1. active' = active /\ req' = [req EXCEPT ![q] = IdleReq] /\ IdleReq.pc \notin Holding
      BY <1>4, <2>3 DEF TryAcquire, IdleReq, Holding
    <3> QED
      BY <2>1, <3>1, HolderNone
  <2> QED
    BY <2>2, <2>3
<1>5. ASSUME NEW out \in Outcomes, NEW usage \in UsageHeaders, Finish(q, out, usage)
      PROVE  InFlightCounted' /\ NeverOverLimit'
  <2>1. /\ active' = active /\ req[q].pc = "run"
        /\ req' = [req EXCEPT ![q] = [@ EXCEPT !.pc = "rel", !.out = out]]
    BY <1>5 DEF Finish
  <2>2. req \in [Requests -> ReqRec]
    BY DEF PoolInv, TypeOK
  <2>3. /\ req'[q].pc = "rel" /\ req'[q].acct = req[q].acct
        /\ \A p \in Requests \ {q} : req'[p] = req[p]
    BY <2>1, <2>2 DEF ReqRec
  <2> QED
    BY <2>1, <2>3, HoldersSame DEF Holding
<1>6. CASE Release(q)
  <2> DEFINE next == pcAfterRelease(req[q].out)
             x == IF next = "idle" THEN IdleReq ELSE [req[q] EXCEPT !.pc = next]
  <2>1. next \in {"idle", "disable", "cool"}
    BY DEF pcAfterRelease
  <2>2. /\ req[q].pc \in Holding /\ req[q].acct \in Accounts
        /\ req' = [req EXCEPT ![q] = x]
        /\ active' = [active EXCEPT ![req[q].acct] = @ - 1]
    BY <1>0, <1>6 DEF Release, Holding, GoodReq
  <2>3. x.pc = next
    BY <1>0, <2>1 DEF IdleReq, GoodReq, ReqRec
  <2>4. x.pc \notin Holding
    BY <2>1, <2>3 DEF Holding
  <2> HIDE DEF x
  <2> QED
    BY <2>2, <2>4, HolderLeft
<1>7. CASE Disable(q)
  <2> DEFINE x == [req[q] EXCEPT !.pc = IF req[q].out = "missing_scope" THEN "undo"
                                        ELSE "cool"]
  <2>1. /\ active' = active /\ req' = [req EXCEPT ![q] = x]
        /\ req[q].pc \notin Holding
    BY <1>7 DEF Disable, Holding
  <2>2. x.pc \notin Holding
    BY <1>0 DEF GoodReq, ReqRec, Holding
  <2> HIDE DEF x
  <2> QED
    BY <2>1, <2>2, HolderNone
<1>8. CASE Undisable(q) \/ CleanUnauthorized(q) \/ SetCooldown(q)
  <2>1. /\ active' = active /\ req' = [req EXCEPT ![q] = IdleReq]
        /\ req[q].pc \notin Holding /\ IdleReq.pc \notin Holding
    BY <1>8 DEF Undisable, CleanUnauthorized, SetCooldown, Holding, IdleReq
  <2> QED
    BY <2>1, HolderNone
<1>9. CASE MarkBan(q)
  <2> DEFINE x == [req[q] EXCEPT !.pc = "set",
                      !.dur = markDuration(acc[req[q].acct], "7d",
                                           cooldownReason(req[q].out))]
  <2>1. active' = active /\ req' = [req EXCEPT ![q] = x] /\ req[q].pc \notin Holding
    BY <1>9 DEF MarkBan, Holding
  <2>2. x.pc \notin Holding
    BY <1>0 DEF GoodReq, ReqRec, Holding
  <2> HIDE DEF x
  <2> QED
    BY <2>1, <2>2, HolderNone
<1>10. ASSUME NEW window5h \in BOOLEAN, Mark429(q, window5h)
       PROVE  InFlightCounted' /\ NeverOverLimit'
  <2> DEFINE x == [req[q] EXCEPT !.pc = "set", !.dur = "quota"]
  <2>1. /\ active' = active /\ req[q].pc \notin Holding
        /\ req' = [req EXCEPT ![q] = IdleReq] \/ req' = [req EXCEPT ![q] = x]
    BY <1>10 DEF Mark429, Holding
  <2>2. x.pc \notin Holding /\ IdleReq.pc \notin Holding
    BY <1>0 DEF GoodReq, ReqRec, Holding, IdleReq
  <2> HIDE DEF x
  <2> QED
    BY <2>1, <2>2, HolderNone
<1> QED
  BY <1>1, <1>2, <1>3, <1>4, <1>5, <1>6, <1>7, <1>8, <1>9, <1>10 DEF RequestStep

\* Nothing but a request changes a counter or what a request holds.
LEMMA OthersCounted ==
    ASSUME InFlightCounted, NeverOverLimit,
           \/ AdminStep
           \/ Rebuild
           \/ \E a \in Accounts : RecoveryStep(a) \/ ClockStep(a)
           \/ UNCHANGED vars
    PROVE  InFlightCounted' /\ NeverOverLimit'
<1>1. active' = active /\ req' = req
  <2>1. CASE AdminStep
    BY <2>1 DEF AdminStep, AddAccount, RemoveAccount, AdminClearCooldown,
                ApplyAccountSchedulerOverrides, SetMaxConcurrency
  <2>2. CASE Rebuild
    BY <2>2 DEF Rebuild, RebuildBuild, RebuildInstall
  <2>3. CASE \E a \in Accounts : RecoveryStep(a)
    BY <2>3 DEF RecoveryStep, RecoveryBegin, RecoveryAnswer, RecoveryLift
  <2>4. CASE \E a \in Accounts : ClockStep(a)
    BY <2>4 DEF ClockStep, CooldownElapses, Window5hResets, DayPasses, ScoreMoves
  <2>5. CASE UNCHANGED vars
    BY <2>5 DEF vars
  <2> QED
    BY <2>1, <2>2, <2>3, <2>4, <2>5
<1> QED
  BY <1>1, HoldersSame

\* The inductive invariant holds at start ...
LEMMA InvInit == Init => IInv
<1> SUFFICES ASSUME Init PROVE IInv
  OBVIOUS
<1>1. \A a \in Accounts : Holders(a) = {}
  BY DEF Init, Holders, IdleReq
<1>2. InFlightCounted
  BY <1>1, FS_EmptySet DEF Init, InFlightCounted
<1>3. NeverOverLimit
  BY AllowedOne DEF Init, NeverOverLimit
<1> QED
  BY <1>2, <1>3, PoolInit DEF IInv

\* ... and every step keeps it.
LEMMA InvStep == IInv /\ [Next]_vars => IInv'
<1> SUFFICES ASSUME IInv, [Next]_vars PROVE IInv'
  OBVIOUS
<1>1. PoolInv'
  BY PoolStep DEF IInv
<1>2. InFlightCounted' /\ NeverOverLimit'
  BY RequestsCounted, OthersCounted DEF IInv, Next
<1> QED
  BY <1>1, <1>2 DEF IInv

\* ActiveRequests of every account is the number of requests that hold it, in
\* every interleaving of requests, administration, rebuilds and probes.
THEOREM Counted == Spec => []InFlightCounted
<1>1. IInv => InFlightCounted
  BY DEF IInv
<1> QED
  BY InvInit, InvStep, <1>1, PTL DEF Spec

\* No account ever runs more requests than the largest base concurrency that was
\* configured, however limits, overrides and tiers change meanwhile.
THEOREM WithinLimit == Spec => []NeverOverLimit
<1>1. IInv => NeverOverLimit
  BY DEF IInv
<1> QED
  BY InvInit, InvStep, <1>1, PTL DEF Spec

-----------------------------------------------------------------------------
(* A removed account that nothing refers to stays gone.                        *)

\* A write to another account leaves the entry of a alone.
LEMMA WriteElsewhere ==
    ASSUME PoolInv, NEW a \in Accounts, NEW b \in Accounts, b # a, NEW r,
           WriteAndUpdate(b, r)
    PROVE  index'[a] = index[a]
BY DEF WriteAndUpdate, PoolInv, TypeOK

\* A request that does not hold a removed account cannot bring it back.
LEMMA RequestsLeaveGone ==
    ASSUME PoolInv, NEW a \in Accounts, Gone(a), NEW q \in Requests, RequestStep(q)
    PROVE  Gone(a)'
<1>0. /\ life[a] = "removed" /\ index[a] = NoEntry /\ rebuild.index[a] = NoEntry
      /\ \A p \in Requests : req[p].acct # a
      /\ probe[a] = "no"
  BY DEF Gone
<1>1. /\ GoodReq(req[q]) /\ index \in [Accounts -> Entries]
      /\ req \in [Requests -> ReqRec]
      /\ IdleReq.acct # a
      /\ req[q].acct # a
      /\ req[q].pc # "idle" => req[q].acct \in Accounts
  BY <1>0, NoAccountAssumption DEF PoolInv, TypeOK, Reqs, GoodReq, IdleReq
<1>2. SUFFICES /\ life'[a] = "removed" /\ index'[a] = NoEntry
               /\ rebuild' = rebuild /\ probe' = probe
               /\ \E x : x.acct # a /\ req' = [req EXCEPT ![q] = x]
  <2>1. PICK x : x.acct # a /\ req' = [req EXCEPT ![q] = x]
    BY <1>2
  <2>2. \A p \in Requests : req'[p].acct # a
    BY <1>0, <1>1, <2>1
  <2> QED
    BY <1>0, <1>2, <2>2 DEF Gone
<1>3. ASSUME NEW b \in Accounts, Acquire(q, b) \/ Visit(q, b) \/ TakeByID(q, b)
      PROVE  /\ life'[a] = "removed" /\ index'[a] = NoEntry
             /\ rebuild' = rebuild /\ probe' = probe
             /\ \E x : x.acct # a /\ req' = [req EXCEPT ![q] = x]
  <2>1. b # a
    BY <1>0, <1>3 DEF Acquire, Visit, TakeByID
  <2>2. CASE Acquire(q, b)
    <3>1. [IdleReq EXCEPT !.pc = "run", !.acct = b].acct # a
      BY <2>1 DEF IdleReq
    <3> QED
      BY <1>0, <2>2, <3>1 DEF Acquire, schedVars
  <2>3. CASE Visit(q, b)
    <3>1. req' = [req EXCEPT ![q] = req[q]]
      BY <1>1, <2>3 DEF Visit
    <3>2. index'[a] = index[a]
      BY <1>1, <2>1, <2>3 DEF Visit
    <3> QED
      BY <1>0, <1>1, <2>3, <3>1, <3>2 DEF Visit
  <2>4. CASE TakeByID(q, b)
    <3> DEFINE n == snapshotLimit(snapshotRec(acc[b], maxConcurrency), maxConcurrency)
               x == [IdleReq EXCEPT !.pc = "peek", !.acct = b, !.limit = n]
    <3>1. x.acct # a
      BY <2>1 DEF IdleReq
    <3>2. req' = [req EXCEPT ![q] = x]
      BY <2>4 DEF TakeByID
    <3> QED
      BY <1>0, <2>4, <3>1, <3>2 DEF TakeByID, schedVars
  <2> QED
    BY <1>3, <2>2, <2>3, <2>4
<1>4. CASE TryAcquire(q)
  <2>1. [IdleReq EXCEPT !.pc = "run", !.acct = req[q].acct].acct # a
    BY <1>1 DEF IdleReq
  <2> QED
    BY <1>0, <1>1, <1>4, <2>1 DEF TryAcquire, schedVars
<1>5. ASSUME NEW out \in Outcomes, NEW usage \in UsageHeaders, Finish(q, out, usage)
      PROVE  /\ life'[a] = "removed" /\ index'[a] = NoEntry
             /\ rebuild' = rebuild /\ probe' = probe
             /\ \E x : x.acct # a /\ req' = [req EXCEPT ![q] = x]
  <2>1. [req[q] EXCEPT !.pc = "rel", !.out = out].acct # a
    BY <1>1 DEF GoodReq, ReqRec
  <2>2. req[q].acct \in Accounts
    BY <1>1, <1>5 DEF Finish
  <2>3. index' = index \/ \E r : WriteAndUpdate(req[q].acct, r)
    BY <1>5 DEF Finish
  <2>4. index'[a] = index[a]
    BY <1>1, <2>2, <2>3, WriteElsewhere
  <2> QED
    BY <1>0, <1>5, <2>1, <2>4 DEF Finish
<1>6. CASE Release(q)
  <2>1. \A pc : [req[q] EXCEPT !.pc = pc].acct # a
    BY <1>1 DEF GoodReq, ReqRec
  <2> QED
    BY <1>0, <1>1, <1>6, <2>1 DEF Release, schedVars
<1>7. CASE Disable(q)
  <2>1. \A pc : [req[q] EXCEPT !.pc = pc].acct # a
    BY <1>1 DEF GoodReq, ReqRec
  <2> QED
    BY <1>0, <1>1, <1>7, <2>1 DEF Disable, schedVars
<1>8. CASE Undisable(q)
  BY <1>0, <1>1, <1>8 DEF Undisable, schedVars
<1>9. CASE CleanUnauthorized(q)
  <2>1. req[q].acct \in Accounts /\ life \in [Accounts -> {"new", "live", "removed"}]
    BY <1>1, <1>9 DEF CleanUnauthorized, PoolInv, TypeOK
  <2>2. life'[a] = life[a] /\ index'[a] = index[a]
    BY <1>1, <1>9, <2>1 DEF CleanUnauthorized, Remove
  <2> QED
    BY <1>0, <1>1, <1>9, <2>2 DEF CleanUnauthorized
<1>10. CASE MarkBan(q)
  <2>1. \A dur : [req[q] EXCEPT !.pc = "set", !.dur = dur].acct # a
    BY <1>1 DEF GoodReq, ReqRec
  <2> QED
    BY <1>0, <1>1, <1>10, <2>1 DEF MarkBan, schedVars
<1>11. ASSUME NEW window5h \in BOOLEAN, Mark429(q, window5h)
       PROVE  /\ life'[a] = "removed" /\ index'[a] = NoEntry
              /\ rebuild' = rebuild /\ probe' = probe
              /\ \E x : x.acct # a /\ req' = [req EXCEPT ![q] = x]
  <2>1. [req[q] EXCEPT !.pc = "set", !.dur = "quota"].acct # a
    BY <1>1 DEF GoodReq, ReqRec
  <2>2. req[q].acct \in Accounts
    BY <1>1, <1>11 DEF Mark429
  <2>3. \/ index' = index
        \/ \E r : WriteAndUpdate(req[q].acct, r)
        \/ \E e : index' = [index EXCEPT ![req[q].acct] = e]
    BY <1>11 DEF Mark429
  <2>4. index'[a] = index[a]
    BY <1>1, <2>2, <2>3, WriteElsewhere
  <2>5. \/ req' = [req EXCEPT ![q] = IdleReq]
        \/ req' = [req EXCEPT ![q] = [@ EXCEPT !.pc = "set", !.dur = "quota"]]
    BY <1>11 DEF Mark429
  <2>6. \E x : x.acct # a /\ req' = [req EXCEPT ![q] = x]
    BY <1>1, <2>1, <2>5
  <2> QED
    BY <1>0, <1>11, <2>4, <2>6 DEF Mark429
<1>12. CASE SetCooldown(q)
  <2>1. req[q].acct \in Accounts /\ \E r : WriteAndUpdate(req[q].acct, r)
    BY <1>1, <1>12 DEF SetCooldown
  <2>2. index'[a] = index[a]
    BY <1>1, <2>1, WriteElsewhere
  <2> QED
    BY <1>0, <1>1, <1>12, <2>2 DEF SetCooldown
<1> QED
  BY <1>3, <1>4, <1>5, <1>6, <1>7, <1>8, <1>9, <1>10, <1>11, <1>12 DEF RequestStep

\* Neither can administration, a rebuild, a probe of another account or the clock.
LEMMA OthersLeaveGone ==
    ASSUME PoolInv, NEW a \in Accounts, Gone(a),
           \/ AdminStep
           \/ Rebuild
           \/ \E b \in Accounts : RecoveryStep(b) \/ ClockStep(b)
    PROVE  Gone(a)'
<1>0. /\ life[a] = "removed" /\ index[a] = NoEntry /\ rebuild.index[a] = NoEntry
      /\ \A p \in Requests : req[p].acct # a
      /\ probe[a] = "no"
  BY DEF Gone
<1>1. /\ index \in [Accounts -> Entries] /\ probe \in [Accounts -> {"no", "sent", "ok", "refused"}]
      /\ life \in [Accounts -> {"new", "live", "removed"}]
  BY DEF PoolInv, TypeOK
<1>2. SUFFICES /\ life'[a] = "removed" /\ index'[a] = NoEntry
               /\ rebuild'.index[a] = NoEntry /\ probe'[a] = "no" /\ req' = req
  BY <1>0, <1>2 DEF Gone
<1>3. ASSUME NEW b \in Accounts, AddAccount(b) \/ RemoveAccount(b) \/ AdminClearCooldown(b)
                \/ \E n \in Overrides : ApplyAccountSchedulerOverrides(b, n)
      PROVE  /\ life'[a] = "removed" /\ index'[a] = NoEntry
             /\ rebuild'.index[a] = NoEntry /\ probe'[a] = "no" /\ req' = req
  <2>1. b # a
    BY <1>0, <1>3 DEF AddAccount, RemoveAccount, AdminClearCooldown,
                      ApplyAccountSchedulerOverrides
  <2>2. life'[a] = "removed" /\ rebuild' = rebuild /\ probe' = probe /\ req' = req
    BY <1>0, <1>1, <1>3, <2>1 DEF AddAccount, RemoveAccount, AdminClearCooldown,
                      ApplyAccountSchedulerOverrides, Remove
  <2>3. (\E r : WriteAndUpdate(b, r)) \/ Remove(b)
    BY <1>3 DEF AddAccount, RemoveAccount, AdminClearCooldown,
                ApplyAccountSchedulerOverrides
  <2>4. index'[a] = index[a]
    BY <1>1, <2>1, <2>3, WriteElsewhere DEF Remove
  <2> QED
    BY <1>0, <2>2, <2>4
<1>4. \A pool, n : built(pool, n).index[a] = NoEntry
  BY <1>0 DEF built
<1>5. CASE \E n \in MaxConcurrencies : SetMaxConcurrency(n)
  BY <1>0, <1>4, <1>5 DEF SetMaxConcurrency
<1>6. CASE Rebuild
  <2>1. CASE RebuildBuild
    BY <1>0, <1>4, <2>1 DEF RebuildBuild
  <2>2. CASE RebuildInstall
    BY <1>0, <2>2 DEF RebuildInstall, NoRebuild
  <2> QED
    BY <1>6, <2>1, <2>2 DEF Rebuild
<1>7. ASSUME NEW b \in Accounts, RecoveryStep(b)
      PROVE  /\ life'[a] = "removed" /\ index'[a] = NoEntry
             /\ rebuild'.index[a] = NoEntry /\ probe'[a] = "no" /\ req' = req
  <2>1. life' = life /\ rebuild' = rebuild /\ req' = req
    BY <1>7 DEF RecoveryStep, RecoveryBegin, RecoveryAnswer, RecoveryLift, schedVars
  <2>2. b # a
    BY <1>0, <1>7 DEF RecoveryStep, RecoveryBegin, RecoveryAnswer, RecoveryLift
  <2>3. \E s : probe' = [probe EXCEPT ![b] = s]
    BY <1>7 DEF RecoveryStep, RecoveryBegin, RecoveryAnswer, RecoveryLift, ProbeOK,
                ProbeRefused, ProbeFailed
  <2>4. index' = index \/ \E r : WriteAndUpdate(b, r)
    BY <1>7 DEF RecoveryStep, RecoveryBegin, RecoveryAnswer, RecoveryLift, ProbeOK,
                ProbeRefused, ProbeFailed, schedVars
  <2>5. index'[a] = index[a] /\ probe'[a] = probe[a]
    BY <1>1, <2>2, <2>3, <2>4, WriteElsewhere
  <2> QED
    BY <1>0, <2>1, <2>5
<1>8. ASSUME NEW b \in Accounts, ClockStep(b)
      PROVE  /\ life'[a] = "removed" /\ index'[a] = NoEntry
             /\ rebuild'.index[a] = NoEntry /\ probe'[a] = "no" /\ req' = req
  BY <1>0, <1>8 DEF ClockStep, CooldownElapses, Window5hResets, DayPasses, ScoreMoves,
                    schedVars
<1> QED
  BY <1>3, <1>5, <1>6, <1>7, <1>8 DEF AdminStep

\* A removed account that no entry, no scheduler under construction, no request
\* and no probe refers to never comes back into the scheduler.
THEOREM GoneStaysGone == Spec => GoneForGood
<1>1. PoolInv /\ [Next]_vars => [\A a \in Accounts : Gone(a) => Gone(a)']_vars
  BY RequestsLeaveGone, OthersLeaveGone DEF Next
<1> QED
  BY <1>1, PoolInit, PoolStep, PTL DEF Spec, GoneForGood

-----------------------------------------------------------------------------
(* A premium account with an exhausted 5h window runs one request at a time.  *)

\* A snapshot of such an account has limit 1, whatever limit was cached before.
LEMMA LimitedToOne ==
    ASSUME NEW r, WellFormed(r), NEW b, Base(b), NEW s, s = snapshotRec(r, b),
           premium5hRateLimitedLocked(s), snapshotAvailable(s)
    PROVE  snapshotLimit(s, b) = 1
<1>1. r \in AccountRec
  BY DEF WellFormed
<1>2. r.plan = s.plan /\ r.usage5h = s.usage5h
  BY <1>1 DEF snapshotRec, recomputeSchedulerLocked, AccountRec
<1>3. s = recomputeSchedulerLocked(r, b) /\ premium5hRateLimitedLocked(r)
  BY <1>2 DEF snapshotRec, premium5hRateLimitedLocked, isPremium5hPlan
<1>4. recomputedTier(r) = IF r.tier = Banned THEN Banned ELSE Risky
  BY <1>3 DEF recomputedTier
<1>5. s.tier = recomputedTier(r)
  BY <1>1, <1>3 DEF recomputeSchedulerLocked, AccountRec
<1>6. recomputedTier(r) = Risky
  BY <1>4, <1>5 DEF snapshotAvailable
<1>7. concurrencyLimitForTier(effectiveBaseConcurrencyLocked(r, b), Risky) = 1
  <2>1. effectiveBaseConcurrencyLocked(r, b) \in Int
    BY EffectiveBase DEF Base
  <2>2. \A n \in Int : concurrencyLimitForTier(n, Risky) = 1
    BY DEF concurrencyLimitForTier, Healthy, Warm, Risky, Banned
  <2> QED
    BY <2>1, <2>2
<1>8. s.limit = 1
  BY <1>1, <1>3, <1>6, <1>7 DEF recomputeSchedulerLocked, AccountRec
<1> QED
  BY <1>8 DEF snapshotLimit

\* Only the scheduler starts a request at once; a session's binding looks first.
LEMMA StartsByAcquire ==
    ASSUME PoolInv, [Next]_vars, NEW q \in Requests, req[q].pc = "idle", req'[q].pc = "run"
    PROVE  \E a \in Accounts : Acquire(q, a) /\ req'[q].acct = a
<1>1. req \in [Requests -> ReqRec]
  BY DEF PoolInv, TypeOK
<1>2. PICK p \in Requests : RequestStep(p)
  BY DEF Next, AdminStep, AddAccount, RemoveAccount, AdminClearCooldown,
         ApplyAccountSchedulerOverrides, SetMaxConcurrency, Rebuild, RebuildBuild,
         RebuildInstall, RecoveryStep, RecoveryBegin, RecoveryAnswer, RecoveryLift,
         ClockStep, CooldownElapses, Window5hResets, DayPasses, ScoreMoves, vars
<1>3. CASE \E a \in Accounts : Acquire(p, a)
  <2>1. PICK a \in Accounts : Acquire(p, a)
    BY <1>3
  <2>2. req' = [req EXCEPT ![p] = [IdleReq EXCEPT !.pc = "run", !.acct = a]]
    BY <2>1 DEF Acquire
  <2>3. p = q
    BY <1>1, <2>2
  <2>4. req'[q].acct = a
    BY <1>1, <2>2, <2>3 DEF IdleReq
  <2> QED
    BY <2>1, <2>3, <2>4
<1>4. CASE ~(\E a \in Accounts : Acquire(p, a))
  <2>1. \E x : req' = [req EXCEPT ![p] = x] /\ (req[p].pc = "idle" => x.pc # "run")
    <3>1. CASE \E a \in Accounts : Visit(p, a)
      <4>1. req' = [req EXCEPT ![p] = req[p]]
        BY <1>1, <3>1 DEF Visit
      <4> QED
        BY <4>1
    <3>2. CASE \E a \in Accounts : TakeByID(p, a)
      <4>1. PICK a \in Accounts : TakeByID(p, a)
        BY <3>2
      <4>2. PICK n : req' = [req EXCEPT ![p] = [IdleReq EXCEPT !.pc = "peek", !.acct = a,
                                                                !.limit = n]]
        BY <4>1 DEF TakeByID
      <4>3. [IdleReq EXCEPT !.pc = "peek", !.acct = a, !.limit = n].pc = "peek"
        BY DEF IdleReq
      <4> QED
        BY <4>2, <4>3
    <3>3. CASE req[p].pc # "idle"
      <4>1. \E x : req' = [req EXCEPT ![p] = x]
        BY <1>2, <1>4, <3>3
           DEF RequestStep, Acquire, Visit, TakeByID, TryAcquire, Finish, Release, Disable,
               Undisable, CleanUnauthorized, MarkBan, Mark429, SetCooldown
      <4> QED
        BY <3>3, <4>1
    <3>4. CASE req[p].pc = "idle" /\ ~(\E a \in Accounts : Visit(p, a) \/ TakeByID(p, a))
      BY <1>2, <1>4, <3>4
         DEF RequestStep, TryAcquire, Finish, Release, Disable, Undisable, CleanUnauthorized,
             MarkBan, Mark429, SetCooldown
    <3> QED
      BY <3>1, <3>2, <3>3, <3>4
  <2>2. PICK x : req' = [req EXCEPT ![p] = x] /\ (req[p].pc = "idle" => x.pc # "run")
    BY <2>1
  <2> QED
    BY <1>1, <2>2
<1> QED
  BY <1>3, <1>4

\* A premium account whose 5h window is exhausted gets a request from the scheduler only
\* when it runs none (premium5hRateLimitedLocked in recomputeSchedulerLocked).
THEOREM OneAtA5hLimit == Spec => Premium5hThrottled
<1>1. ASSUME IInv, [Next]_vars, NEW q \in Requests, NEW a \in Accounts,
             req[q].pc = "idle", req'[q].pc = "run", req'[q].acct = a,
             premium5hRateLimitedLocked(acc'[a])
      PROVE  active'[a] = 1
  <2>1. PoolInv /\ InFlightCounted
    BY <1>1 DEF IInv
  <2>2. Acquire(q, a)
    BY <1>1, <2>1, StartsByAcquire
  <2>3. PICK s : s = snapshotRec(acc[a], base)
    OBVIOUS
  <2>4. /\ acc' = [acc EXCEPT ![a] = s] /\ snapshotAvailable(s)
        /\ active[a] < snapshotLimit(s, base) /\ active' = [active EXCEPT ![a] = @ + 1]
    BY <2>2, <2>3 DEF Acquire
  <2>5. acc \in [Accounts -> AccountRec] /\ active \in [Accounts -> Int]
    BY <2>1 DEF PoolInv, TypeOK
  <2>6. WellFormed(acc[a]) /\ Base(base)
    BY <2>1 DEF PoolInv, Recs, Bases
  <2>7. acc'[a] = s /\ active'[a] = active[a] + 1
    BY <2>4, <2>5
  <2>8. snapshotLimit(s, base) = 1
    BY <1>1, <2>3, <2>4, <2>6, <2>7, LimitedToOne
  <2>9. active[a] \in Nat
    BY <2>1, FiniteHolders, FS_CardinalityType DEF InFlightCounted
  <2> QED
    BY <2>4, <2>7, <2>8, <2>9
<1>2. IInv /\ [Next]_vars
        => [\A q \in Requests, a \in Accounts :
               /\ req[q].pc = "idle" /\ req'[q].pc = "run" /\ req'[q].acct = a
               /\ premium5hRateLimitedLocked(acc'[a])
               => active'[a] = 1]_vars
  BY <1>1
<1> QED
  BY <1>2, InvInit, InvStep, PTL DEF Spec, Premium5hThrottled

=============================================================================
