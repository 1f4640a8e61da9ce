------------------------------- MODULE Account -------------------------------
(***************************************************************************)
(* The run-time state of one upstream account (auth.Account) and what the  *)
(* methods of Account and the per-account half of the methods of Store do  *)
(* to it.  Everything here happens inside one critical section of acc.mu,  *)
(* so each operation is a function from account records to account         *)
(* records; the modules that extend this one decide how the sections of    *)
(* different goroutines interleave.                                        *)
(*                                                                         *)
(* Data that the scheduler only compares is abstracted to what it is       *)
(* compared with:                                                          *)
(*   until     -- how long the last cooldown was set for; "past" once now  *)
(*                is no longer before CooldownUtil                         *)
(*   band      -- the tier that the score gives, or would if it were       *)
(*                computed now; a 7d usage of 85 to 90% counts as score    *)
(*   failed    -- LastFailureAt is later than LastSuccessAt                *)
(*   usage7d   -- UsagePercent7d below 90, in [90, 110), or at least 110   *)
(*   usage5h   -- no 5h snapshot; one that limits nothing; 100% with       *)
(*                Reset5hAt still ahead                                    *)
(*   recent401 -- LastUnauthorizedAt is less than 24 hours ago             *)
(*   override  -- BaseConcurrencyOverride, 0 for nil                       *)
(***************************************************************************)
EXTENDS Integers

Healthy == "healthy"
Warm    == "warm"
Risky   == "risky"
Banned  == "banned"

\* The tiers the fast scheduler has a bucket for, and all tiers.
DispatchTiers == {Healthy, Warm, Risky}
Tiers         == DispatchTiers \cup {Banned}

Statuses  == {"ready", "cooldown", "error"}
Reasons   == {"", "rate_limited", "unauthorized", "deactivated_workspace"}
Durations == {"past", "quota", "6h", "24h", "7d"}
Plans     == {"free", "plus"}
Kinds     == {"unauthorized", "timeout", "server", "transport", "client"}

AccountRec ==
    [status    : Statuses,
     until     : Durations,
     reason    : Reasons,
     tier      : Tiers,
     band      : DispatchTiers,
     failed    : BOOLEAN,
     limit     : Nat,
     override  : Nat,
     token     : BOOLEAN,
     plan      : Plans,
     usage7d   : {"low", "soft", "hard"},
     usage5h   : {"none", "ok", "full"},
     recent401 : BOOLEAN]

\* An account as loaded or imported with an access token; AddAccount rescores it.
NewAccount(plan) ==
    [status |-> "ready", until |-> "past", reason |-> "", tier |-> Healthy,
     band |-> Healthy, failed |-> FALSE, limit |-> 0, override |-> 0,
     token |-> TRUE, plan |-> plan, usage7d |-> "low", usage5h |-> "none",
     recent401 |-> FALSE]

-----------------------------------------------------------------------------
(* Tests on an account. *)

isPremium5hPlan(r) == r.plan # "free"

premium5hRateLimitedLocked(r) == isPremium5hPlan(r) /\ r.usage5h = "full"

premium5hCooldownSuppressedLocked(r) ==
    /\ r.status = "cooldown"
    /\ r.reason = "rate_limited"
    /\ premium5hRateLimitedLocked(r)

usageExhaustedLocked(r) == r.plan = "free" /\ r.usage7d = "hard"

HasActiveCooldown(r) == r.status = "cooldown" /\ r.until # "past"

\* What Store.NextExcluding's scan and takeByIDExcluding ask of an account.
IsAvailable(r, disabled) ==
    /\ ~disabled
    /\ r.status # "error"
    /\ r.tier # Banned
    /\ ~usageExhaustedLocked(r)
    /\ ~premium5hRateLimitedLocked(r)
    /\ ~HasActiveCooldown(r)
    /\ r.token

\* Mutant: a cooldown that has passed still counts as one.
NeedsRecoveryProbeNotCooling(r) == r.tier = Banned /\ r.status # "cooldown"

\* Accounts have a refresh token; the minimum interval between two probes is left
\* to the scheduling of probes.
NeedsRecoveryProbe(r) == r.tier = Banned /\ ~HasActiveCooldown(r)

-----------------------------------------------------------------------------
(* Tier and concurrency. *)

concurrencyLimitForTier(baseLimit, tier) ==
    LET base == IF baseLimit <= 0 THEN 1 ELSE baseLimit
        half == base \div 2
    IN  CASE tier = Healthy -> base
          [] tier = Warm    -> IF half < 1 THEN 1 ELSE half
          [] tier = Risky   -> 1
          [] tier = Banned  -> 0

effectiveBaseConcurrencyLocked(r, storeBaseLimit) ==
    IF r.override > 0 THEN r.override
    ELSE IF storeBaseLimit <= 0 THEN 1 ELSE storeBaseLimit

\* A ban is sticky; a 5h limit, then a free plan's 90% mark, force the tier to
\* risky; otherwise the score decides, and it takes a last success and a day
\* without a 401 to be healthy.
recomputedTier(r) ==
    IF r.tier = Banned THEN Banned
    ELSE IF premium5hRateLimitedLocked(r) THEN Risky
    ELSE IF r.plan = "free" /\ r.usage7d \in {"soft", "hard"} THEN Risky
    ELSE IF r.band = Healthy /\ (r.failed \/ r.recent401) THEN Warm
    ELSE r.band

\* Mutant: the rescoring does not look at the 5h window.
recomputeWithout5h(r, baseLimit) ==
    LET tier == recomputedTier([r EXCEPT !.usage5h = "ok"])
    IN  [r EXCEPT !.tier = tier,
                  !.limit = concurrencyLimitForTier(
                                effectiveBaseConcurrencyLocked(r, baseLimit), tier)]

recomputeSchedulerLocked(r, baseLimit) ==
    LET tier  == recomputedTier(r)
        limit == concurrencyLimitForTier(
                     effectiveBaseConcurrencyLocked(r, baseLimit), tier)
    IN  [r EXCEPT !.tier  = tier,
                  !.limit = IF premium5hRateLimitedLocked(r) /\ limit > 1
                            THEN 1 ELSE limit]

-----------------------------------------------------------------------------
(* fastSchedulerSnapshot: a premium account with a 5h snapshot is rescored   *)
(* first; the cached tier and limit of the others are used as they are.      *)

snapshotRec(r, baseLimit) ==
    IF isPremium5hPlan(r) /\ r.usage5h # "none"
    THEN recomputeSchedulerLocked(r, baseLimit)
    ELSE r

snapshotLimit(r, baseLimit) ==
    IF r.limit <= 0
    THEN concurrencyLimitForTier(effectiveBaseConcurrencyLocked(r, baseLimit), r.tier)
    ELSE r.limit

\* Neither the Disabled flag nor a premium 5h limit makes an account unavailable
\* here, unlike in IsAvailable.
snapshotAvailable(r) ==
    /\ r.status # "error"
    /\ r.tier # Banned
    /\ r.token
    /\ HasActiveCooldown(r) => premium5hCooldownSuppressedLocked(r)
    /\ ~usageExhaustedLocked(r)

-----------------------------------------------------------------------------
(* Requests report their outcome.  How far it moves the score is left open:   *)
(* see scoreMoves.                                                            *)

ReportRequestSuccess(r, baseLimit) ==
    recomputeSchedulerLocked([r EXCEPT !.failed = FALSE], baseLimit)

\* One tier down: anything below healthy becomes risky, a banned tier too.
demoted(tier) == IF tier = Healthy THEN Warm ELSE Risky

ReportRequestFailure(r, kind, baseLimit) ==
    LET tier == CASE kind = "unauthorized" -> Banned
                  [] kind \in {"timeout", "server", "transport"} -> demoted(r.tier)
                  [] kind = "client" -> IF r.tier = Healthy THEN Warm ELSE r.tier
    IN  recomputeSchedulerLocked(
            [r EXCEPT !.failed = TRUE, !.tier = tier,
                      !.recent401 = @ \/ kind = "unauthorized"], baseLimit)

-----------------------------------------------------------------------------
(* Cooldowns.  Store.MarkCooldown has two critical sections: the penalty and  *)
(* the rescoring, then Account.SetCooldownUntil.                              *)

\* The requested duration is used unless the reason is "unauthorized".
markDuration(r, duration, reason) ==
    IF reason = "unauthorized" THEN (IF r.recent401 THEN "24h" ELSE "6h")
    ELSE duration

markPenalty(r, reason, baseLimit) ==
    recomputeSchedulerLocked(
        [r EXCEPT !.failed = TRUE,
                  !.tier = IF reason = "rate_limited" THEN demoted(@) ELSE Banned,
                  !.recent401 = @ \/ reason # "rate_limited"], baseLimit)

SetCooldownUntil(r, until, reason) ==
    [r EXCEPT !.status = "cooldown", !.until = until, !.reason = reason,
              !.tier = CASE reason = "unauthorized" -> Banned
                         [] reason = "rate_limited" -> demoted(@)
                         [] OTHER -> @]

ClearCooldown(r, baseLimit) ==
    LET cooling == r.status = "cooldown"
    IN  recomputeSchedulerLocked(
            [r EXCEPT !.status = IF cooling THEN "ready" ELSE @,
                      !.until = "past", !.reason = "",
                      !.tier = IF cooling /\ ~premium5hRateLimitedLocked(r)
                               THEN Warm ELSE @], baseLimit)

\* parallelRecoveryProbe once the probe function returned no error.
liftBan(r, baseLimit) ==
    IF r.tier # Banned THEN r
    ELSE LET cooling == r.status = "cooldown"
         IN  recomputeSchedulerLocked(
                 [r EXCEPT !.tier = Warm, !.failed = FALSE,
                           !.status = IF cooling THEN "ready" ELSE @,
                           !.until  = IF cooling THEN "past" ELSE @,
                           !.reason = IF cooling THEN "" ELSE @], baseLimit)

-----------------------------------------------------------------------------
(* Usage windows and plans. *)

SetUsageSnapshot(r, usage) == [r EXCEPT !.usage7d = usage]

SetUsageSnapshot5h(r, usage) == [r EXCEPT !.usage5h = usage]

MarkPremium5hRateLimited(r, baseLimit) ==
    LET limited == r.status = "cooldown" /\ r.reason = "rate_limited"
    IN  recomputeSchedulerLocked(
            [r EXCEPT !.usage5h = "full",
                      !.status = IF limited THEN "ready" ELSE @,
                      !.until  = IF limited THEN "past" ELSE @,
                      !.reason = IF limited THEN "" ELSE @,
                      !.tier   = IF @ # Banned THEN Risky ELSE @], baseLimit)

SyncAccountPlanType(r, plan, baseLimit) ==
    IF r.plan = plan THEN r
    ELSE recomputeSchedulerLocked([r EXCEPT !.plan = plan], baseLimit)

-----------------------------------------------------------------------------
(* The clock: a cooldown ends, a 5h window resets, a day passes after a 401.  *)
(* Penalties fade, streaks, latency and usage move the score.                 *)

cooldownElapses(r) == [r EXCEPT !.until = "past"]

window5hResets(r) == [r EXCEPT !.usage5h = "ok"]

dayPasses(r) == [r EXCEPT !.recent401 = FALSE]

scoreMoves(r, band) == [r EXCEPT !.band = band]

=============================================================================
