----------------------------- MODULE AccountPool -----------------------------
(***************************************************************************)
(* The account pool of auth.Store with its fast scheduler, the requests of *)
(* proxy.Handler that take accounts from it and report back, the admin and *)
(* background operations on it, and the clock.                             *)
(*                                                                         *)
(* Goroutines meet in three places: acc.mu (one critical section is one    *)
(* operator of module Account), FastScheduler.mu (one update of index) and *)
(* the atomic counters.  A goroutine keeps its *Account after it let go of *)
(* the locks; that pointer is req[q].acct or probe[a], and it stays valid  *)
(* after the account left the pool.                                        *)
(*                                                                         *)
(* The scheduler is kept as the tier each account is filed under (index);  *)
(* module FastScheduler has the buckets, the positions and the scan.       *)
(***************************************************************************)
EXTENDS Account, FiniteSets

CONSTANTS
    Accounts,          \* database ids; an id is used for one account only
    Requests,          \* request goroutines
    NoAccount,
    PlanOf,            \* the plan each account is imported with
    MaxConcurrencies,  \* values an administrator gives maxConcurrency
    InitConcurrency,   \* its value at start
    Overrides,         \* BaseConcurrencyOverride values; 0 removes it
    Outcomes,          \* what upstream may answer a request or a probe
    UsageHeaders,      \* usage an answer's x-codex-* headers may carry
    BodyPlans,         \* plans a 429's error body may name
    Bands,             \* tiers that scores may fall in
    CleanSettings      \* AutoCleanUnauthorized may be these when it is read

\* "timeout" and "transport" are a failed connection or a broken stream, "dropped"
\* a client that left or a capacity error before the first byte.
AllOutcomes == {"ok", "timeout", "transport", "dropped", "server", "client",
                "429", "401", "missing_scope", "402"}

\* What only a request, and no recovery probe, can end with.
RequestOnly == {"missing_scope", "dropped"}

\* "none": no headers; the others: the 7d window of a free plan, the 5h window
\* of a premium one.
AllUsageHeaders == {"none", "low", "soft", "hard", "ok5h", "full5h"}

ASSUME NoAccountAssumption   == NoAccount \notin Accounts
ASSUME RequestsAssumption    == IsFiniteSet(Requests)
ASSUME PlanAssumption        == PlanOf \in [Accounts -> Plans]
ASSUME ConcurrencyAssumption == /\ MaxConcurrencies \subseteq Nat
                                /\ InitConcurrency \in Nat
                                /\ Overrides \subseteq Nat
ASSUME OutcomeAssumption     == /\ Outcomes \subseteq AllOutcomes
                                /\ UsageHeaders \subseteq AllUsageHeaders
                                /\ BodyPlans \subseteq Plans
                                /\ Bands \subseteq DispatchTiers
                                /\ CleanSettings \subseteq BOOLEAN

NoEntry == "none"

VARIABLES
    acc,            \* the account records
    disabled,       \* Account.Disabled
    active,         \* Account.ActiveRequests
    life,           \* not imported yet, in Store.accounts, removed from it
    maxConcurrency, \* Store.maxConcurrency
    index,          \* current scheduler: the bucket that holds the account
    base,           \* current scheduler: baseLimit
    rebuild,        \* a scheduler that is built and not yet installed
    req,            \* the request goroutines
    probe           \* the recovery probes

accountVars == <<acc, disabled>>
schedVars   == <<index, base, rebuild>>
vars == <<acc, disabled, active, life, maxConcurrency, index, base, rebuild,
          req, probe>>

\* idle: choosing an account; peek: takeByIDExcluding between its checks and
\* tryAcquireAccount; run: upstream request in flight; rel: reported, to be
\* released; disable, undo, cool, set: the steps of applyCooldown.
ReqPcs == {"idle", "peek", "run", "rel", "disable", "undo", "cool", "set"}

ReqRec == [pc    : ReqPcs,
           acct  : Accounts \cup {NoAccount},
           limit : Nat,                         \* read by takeByIDExcluding
           out   : AllOutcomes \cup {"none"},
           dur   : Durations]

IdleReq == [pc |-> "idle", acct |-> NoAccount, limit |-> 0, out |-> "none",
            dur |-> "past"]

Entries == DispatchTiers \cup {NoEntry}

NoRebuild == [on |-> FALSE, index |-> [a \in Accounts |-> NoEntry], base |-> 0]

Live == {a \in Accounts : life[a] = "live"}

-----------------------------------------------------------------------------
(* The scheduler's view of an account. *)

\* Mutant: the availability and the limit are not looked at.
filedUnchecked(r, baseLimit) == snapshotRec(r, baseLimit).tier

\* insertLocked: where an account with record r is filed, if anywhere.
filed(r, baseLimit) ==
    LET s == snapshotRec(r, baseLimit)
    IN  IF snapshotAvailable(s) /\ snapshotLimit(s, baseLimit) > 0
        THEN s.tier ELSE NoEntry

\* fastSchedulerUpdate after r was written: nothing looks at life[a] here.
WriteAndUpdate(a, r) ==
    /\ acc'   = [acc EXCEPT ![a] = snapshotRec(r, base)]
    /\ index' = [index EXCEPT ![a] = filed(r, base)]

-----------------------------------------------------------------------------
(* A request takes an account. *)

\* AcquireExcluding hands out an account whose filed tier is up to date.
Acquire(q, a) ==
    LET s == snapshotRec(acc[a], base)
    IN  /\ req[q].pc = "idle"
        /\ index[a] # NoEntry
        /\ index[a] = s.tier
        /\ snapshotAvailable(s)
        /\ active[a] < snapshotLimit(s, base)
        /\ acc'    = [acc EXCEPT ![a] = s]
        /\ active' = [active EXCEPT ![a] = @ + 1]
        /\ req'    = [req EXCEPT ![q] = [IdleReq EXCEPT !.pc = "run", !.acct = a]]
        /\ UNCHANGED <<disabled, life, maxConcurrency, schedVars, probe>>

\* scanRangeLocked visits an entry it does not hand out; one whose tier has
\* changed is filed again, or dropped when the account is unavailable.
Visit(q, a) ==
    LET s == snapshotRec(acc[a], base)
    IN  /\ req[q].pc = "idle"
        /\ index[a] # NoEntry
        /\ acc'   = [acc EXCEPT ![a] = s]
        /\ index' = [index EXCEPT ![a] = IF s.tier # @ THEN filed(s, base) ELSE @]
        /\ UNCHANGED <<disabled, active, life, maxConcurrency, base, rebuild,
                       req, probe>>

\* takeByIDExcluding for the account a session is bound to: the checks ...
TakeByID(q, a) ==
    LET s == snapshotRec(acc[a], maxConcurrency)
    IN  /\ req[q].pc = "idle"
        /\ life[a] = "live"
        /\ IsAvailable(acc[a], disabled[a])
        /\ snapshotAvailable(s)
        /\ snapshotLimit(s, maxConcurrency) > 0
        /\ acc' = [acc EXCEPT ![a] = s]
        /\ req' = [req EXCEPT ![q] = [IdleReq EXCEPT !.pc = "peek", !.acct = a,
                              !.limit = snapshotLimit(s, maxConcurrency)]]
        /\ UNCHANGED <<disabled, active, life, maxConcurrency, schedVars, probe>>

\* Mutant: the counter is incremented without comparing it with the limit.
TryAcquireBlind(q) ==
    /\ req[q].pc = "peek"
    /\ active' = [active EXCEPT ![req[q].acct] = @ + 1]
    /\ req'    = [req EXCEPT ![q] = [IdleReq EXCEPT !.pc = "run", !.acct = req[q].acct]]
    /\ UNCHANGED <<accountVars, life, maxConcurrency, schedVars, probe>>

\* ... and tryAcquireAccount, a compare-and-swap on ActiveRequests.
TryAcquire(q) ==
    LET a == req[q].acct
    IN  /\ req[q].pc = "peek"
        /\ IF active[a] < req[q].limit
           THEN /\ active' = [active EXCEPT ![a] = @ + 1]
                /\ req'    = [req EXCEPT ![q] = [IdleReq EXCEPT !.pc = "run",
                                                                !.acct = a]]
           ELSE /\ req'    = [req EXCEPT ![q] = IdleReq]
                /\ UNCHANGED active
        /\ UNCHANGED <<accountVars, life, maxConcurrency, schedVars, probe>>

-----------------------------------------------------------------------------
(* The request ends: report, usage headers, release, cooldown. *)

failureKind(out) ==
    CASE out \in {"401", "missing_scope"} -> "unauthorized"
      [] out = "402" -> "client"
      [] OTHER       -> out

\* A 429 is not reported, applyCooldown handles it; nor is what is not the
\* account's fault.
reported(r, out) ==
    CASE out = "ok" -> ReportRequestSuccess(r, maxConcurrency)
      [] out \in {"429", "dropped"} -> r
      [] OTHER -> ReportRequestFailure(r, failureKind(out), maxConcurrency)

SyncCodexUsageState(r, usage) ==
    CASE usage = "none" -> r
      [] usage \in {"low", "soft", "hard"} -> SetUsageSnapshot(r, usage)
      [] usage = "ok5h"   -> SetUsageSnapshot5h(r, "ok")
      [] usage = "full5h" -> IF isPremium5hPlan(r)
                             THEN MarkPremium5hRateLimited(r, maxConcurrency)
                             ELSE SetUsageSnapshot5h(r, "full")

\* A response with status 200 has its usage synced before its stream is reported,
\* one with another status after; a failed connection has no headers.
Finish(q, out, usage) ==
    LET a == req[q].acct
        r == IF out \in {"ok", "timeout", "transport", "dropped"}
             THEN reported(SyncCodexUsageState(acc[a], usage), out)
             ELSE SyncCodexUsageState(reported(acc[a], out), usage)
    IN  /\ req[q].pc = "run"
        /\ IF out \in {"429", "dropped"} /\ usage = "none"
           THEN UNCHANGED <<acc, index>>
           ELSE WriteAndUpdate(a, r)
        /\ req' = [req EXCEPT ![q] = [@ EXCEPT !.pc = "rel", !.out = out]]
        /\ UNCHANGED <<disabled, active, life, maxConcurrency, base, rebuild, probe>>

pcAfterRelease(out) ==
    CASE out \in {"401", "missing_scope", "402"} -> "disable"
      [] out = "429" -> "cool"
      [] OTHER       -> "idle"

\* Mutant: the retry after a 429 keeps the slot.
ReleaseUnlessLimited(q) ==
    /\ req[q].pc = "rel"
    /\ active' = [active EXCEPT ![req[q].acct] = IF req[q].out = "429" THEN @ ELSE @ - 1]
    /\ req' = [req EXCEPT ![q] = IF pcAfterRelease(req[q].out) = "idle" THEN IdleReq
                                 ELSE [@ EXCEPT !.pc = pcAfterRelease(req[q].out)]]
    /\ UNCHANGED <<accountVars, life, maxConcurrency, schedVars, probe>>

\* The account is released before applyCooldown runs.
Release(q) ==
    LET a    == req[q].acct
        next == pcAfterRelease(req[q].out)
    IN  /\ req[q].pc = "rel"
        /\ active' = [active EXCEPT ![a] = @ - 1]
        /\ req' = [req EXCEPT ![q] = IF next = "idle" THEN IdleReq
                                     ELSE [@ EXCEPT !.pc = next]]
        /\ UNCHANGED <<accountVars, life, maxConcurrency, schedVars, probe>>

\* applyCooldown on a 401 or a 402: the Disabled flag first, no scheduler update.
Disable(q) ==
    /\ req[q].pc = "disable"
    /\ disabled' = [disabled EXCEPT ![req[q].acct] = TRUE]
    /\ req' = [req EXCEPT ![q] = [@ EXCEPT !.pc =
                                     IF req[q].out = "missing_scope" THEN "undo" ELSE "cool"]]
    /\ UNCHANGED <<acc, active, life, maxConcurrency, schedVars, probe>>

\* A missing_scope 401 takes the flag back.
Undisable(q) ==
    /\ req[q].pc = "undo"
    /\ disabled' = [disabled EXCEPT ![req[q].acct] = FALSE]
    /\ req' = [req EXCEPT ![q] = IdleReq]
    /\ UNCHANGED <<acc, active, life, maxConcurrency, schedVars, probe>>

\* Store.RemoveAccount; an account that is no longer in the pool is left alone.
Remove(a) ==
    IF life[a] = "live"
    THEN /\ life'  = [life EXCEPT ![a] = "removed"]
         /\ index' = [index EXCEPT ![a] = NoEntry]
    ELSE UNCHANGED <<life, index>>

cooldownReason(out) ==
    CASE out = "429" -> "rate_limited"
      [] out = "401" -> "unauthorized"
      [] out = "402" -> "deactivated_workspace"

\* With automatic cleaning a 401 or a 402 deletes the account.
CleanUnauthorized(q) ==
    /\ req[q].pc = "cool"
    /\ TRUE \in CleanSettings
    /\ req[q].out # "429"
    /\ Remove(req[q].acct)
    /\ req' = [req EXCEPT ![q] = IdleReq]
    /\ UNCHANGED <<accountVars, active, maxConcurrency, base, rebuild, probe>>

\* MarkCooldown, first critical section, for a 401 or a 402.
MarkBan(q) ==
    LET a == req[q].acct
        reason == cooldownReason(req[q].out)
    IN  /\ req[q].pc = "cool"
        /\ FALSE \in CleanSettings
        /\ req[q].out # "429"
        /\ acc' = [acc EXCEPT ![a] = markPenalty(@, reason, maxConcurrency)]
        /\ req' = [req EXCEPT ![q] = [@ EXCEPT !.pc = "set",
                                  !.dur = markDuration(acc[a], "7d", reason)]]
        /\ UNCHANGED <<disabled, active, life, maxConcurrency, schedVars, probe>>

\* Apply429Cooldown: the window is classified by the plan the account had, then
\* the plan that the error body names is adopted, then the account is limited.
Mark429(q, window5h) ==
    LET a == req[q].acct
        synced(plan) == SyncAccountPlanType(acc[a], plan, maxConcurrency)
    IN  /\ req[q].pc = "cool"
        /\ req[q].out = "429"
        /\ \E plan \in BodyPlans \cup {acc[a].plan} :
             IF isPremium5hPlan(acc[a]) /\ window5h
             THEN /\ WriteAndUpdate(a, MarkPremium5hRateLimited(synced(plan),
                                                              maxConcurrency))
                  /\ req' = [req EXCEPT ![q] = IdleReq]
             ELSE /\ acc' = [acc EXCEPT ![a] = markPenalty(synced(plan),
                                        "rate_limited", maxConcurrency)]
                  /\ index' = IF plan = acc[a].plan THEN index
                              ELSE [index EXCEPT ![a] = filed(synced(plan), base)]
                  /\ req' = [req EXCEPT ![q] = [@ EXCEPT !.pc = "set", !.dur = "quota"]]
        /\ UNCHANGED <<disabled, active, life, maxConcurrency, base, rebuild, probe>>

\* MarkCooldown, second critical section, and the scheduler update.
SetCooldown(q) ==
    LET a == req[q].acct
    IN  /\ req[q].pc = "set"
        /\ WriteAndUpdate(a, SetCooldownUntil(acc[a], req[q].dur,
                                              cooldownReason(req[q].out)))
        /\ req' = [req EXCEPT ![q] = IdleReq]
        /\ UNCHANGED <<disabled, active, life, maxConcurrency, base, rebuild, probe>>

-----------------------------------------------------------------------------
(* Administration. *)

AddAccount(a) ==
    /\ life[a] = "new"
    /\ life' = [life EXCEPT ![a] = "live"]
    /\ WriteAndUpdate(a, recomputeSchedulerLocked(acc[a], maxConcurrency))
    /\ UNCHANGED <<disabled, active, maxConcurrency, base, rebuild, req, probe>>

RemoveAccount(a) ==
    /\ life[a] = "live"
    /\ Remove(a)
    /\ UNCHANGED <<accountVars, active, maxConcurrency, base, rebuild, req, probe>>

AdminClearCooldown(a) ==
    /\ life[a] = "live"
    /\ disabled' = [disabled EXCEPT ![a] = FALSE]
    /\ WriteAndUpdate(a, ClearCooldown(acc[a], maxConcurrency))
    /\ UNCHANGED <<active, life, maxConcurrency, base, rebuild, req, probe>>

ApplyAccountSchedulerOverrides(a, n) ==
    /\ life[a] = "live"
    /\ n # acc[a].override
    /\ WriteAndUpdate(a, recomputeSchedulerLocked([acc[a] EXCEPT !.override = n],
                                                  maxConcurrency))
    /\ UNCHANGED <<disabled, active, life, maxConcurrency, base, rebuild, req, probe>>

-----------------------------------------------------------------------------
(* rebuildFastScheduler builds a new scheduler from a copy of the pool and     *)
(* installs it afterwards; whatever is done to the old one in between is lost. *)

\* Mutant: accounts that left the pool are filed too.
builtFromAll(pool, baseLimit) ==
    [on |-> TRUE, base |-> baseLimit,
     index |-> [a \in Accounts |->
                  IF life[a] # "new" THEN filed(pool[a], baseLimit) ELSE NoEntry]]

\* Mutant: the new scheduler takes over the old one's entries only.
builtFromIndex(pool, baseLimit) ==
    [on |-> TRUE, base |-> baseLimit,
     index |-> [a \in Accounts |->
                  IF life[a] = "live" /\ index[a] # NoEntry
                  THEN filed(pool[a], baseLimit) ELSE NoEntry]]

built(pool, baseLimit) ==
    [on |-> TRUE, base |-> baseLimit,
     index |-> [a \in Accounts |->
                  IF life[a] = "live" THEN filed(pool[a], baseLimit) ELSE NoEntry]]

rescored(pool, baseLimit) ==
    [a \in Accounts |->
       IF life[a] = "live" THEN snapshotRec(pool[a], baseLimit) ELSE pool[a]]

RebuildBuild ==
    /\ ~rebuild.on
    /\ rebuild' = built(acc, maxConcurrency)
    /\ acc' = rescored(acc, maxConcurrency)
    /\ UNCHANGED <<disabled, active, life, maxConcurrency, index, base, req, probe>>

RebuildInstall ==
    /\ rebuild.on
    /\ index' = rebuild.index
    /\ base'  = rebuild.base
    /\ rebuild' = NoRebuild
    /\ UNCHANGED <<accountVars, active, life, maxConcurrency, req, probe>>

\* SetMaxConcurrency rescores the pool and rebuilds the scheduler.
SetMaxConcurrency(n) ==
    LET pool == [a \in Accounts |-> IF life[a] = "live"
                                    THEN recomputeSchedulerLocked(acc[a], n)
                                    ELSE acc[a]]
    IN  /\ ~rebuild.on
        /\ n # maxConcurrency
        /\ maxConcurrency' = n
        /\ rebuild' = built(pool, n)
        /\ acc' = rescored(pool, n)
        /\ UNCHANGED <<disabled, active, life, index, base, req, probe>>

-----------------------------------------------------------------------------
(* parallelRecoveryProbe.  The probe function is admin's ProbeUsageSnapshot.   *)

RecoveryBegin(a) ==
    /\ life[a] = "live"
    /\ probe[a] = "no"
    /\ NeedsRecoveryProbe(acc[a])
    /\ probe' = [probe EXCEPT ![a] = "sent"]
    /\ UNCHANGED <<accountVars, active, life, maxConcurrency, schedVars, req>>

\* A 200 clears the cooldown unless this answer's headers show a window at 100%:
\* "soft" is either side of that mark.
clearsCooldown(r, usage) ==
    CASE usage = "hard"   -> {FALSE}
      [] usage = "soft"   -> BOOLEAN
      [] usage = "full5h" -> {~isPremium5hPlan(r)}
      [] OTHER            -> {TRUE}

\* ProbeUsageSnapshot: usage is synced, then the status is acted on; a 401 or a
\* 429 is marked, and is not an error to the caller.
ProbeOK(a, usage) ==
    LET r == SyncCodexUsageState(acc[a], usage)
        reportedOK == ReportRequestSuccess(r, maxConcurrency)
    IN  /\ probe' = [probe EXCEPT ![a] = "ok"]
        /\ \E clears \in clearsCooldown(acc[a], usage) :
              /\ WriteAndUpdate(a, IF clears THEN ClearCooldown(reportedOK, maxConcurrency)
                                   ELSE reportedOK)
              /\ disabled' = [disabled EXCEPT ![a] = @ /\ ~clears]

ProbeRefused(a, out, usage) ==
    LET r == ReportRequestFailure(SyncCodexUsageState(acc[a], usage), "client",
                                  maxConcurrency)
        cooled(reason, dur) ==
            SetCooldownUntil(markPenalty(r, reason, maxConcurrency),
                             markDuration(r, dur, reason), reason)
    IN  /\ probe' = [probe EXCEPT ![a] = "refused"]
        /\ UNCHANGED disabled
        /\ \/ /\ out = "401"
              /\ WriteAndUpdate(a, cooled("unauthorized", "24h"))
           \/ /\ out = "429"
              /\ WriteAndUpdate(a, cooled("rate_limited", "quota"))
           \/ /\ out = "429"
              /\ isPremium5hPlan(r)
              /\ WriteAndUpdate(a, MarkPremium5hRateLimited(r, maxConcurrency))

\* Any other answer is an error.
ProbeFailed(a, out, usage) ==
    LET r == SyncCodexUsageState(acc[a], usage)
        kind == IF out = "server" THEN "server" ELSE "client"
    IN  /\ probe' = [probe EXCEPT ![a] = "no"]
        /\ UNCHANGED disabled
        /\ IF out \in {"timeout", "transport"}
           THEN usage = "none" /\ UNCHANGED <<acc, index>>
           ELSE WriteAndUpdate(a, ReportRequestFailure(r, kind, maxConcurrency))

RecoveryAnswer(a, out, usage) ==
    /\ probe[a] = "sent"
    /\ CASE out = "ok" -> ProbeOK(a, usage)
         [] out \in {"401", "429"} -> ProbeRefused(a, out, usage)
         [] OTHER -> ProbeFailed(a, out, usage)
    /\ UNCHANGED <<active, life, maxConcurrency, base, rebuild, req>>

\* The probe function returned no error: the ban is lifted in memory, and the
\* scheduler is not told.
RecoveryLift(a) ==
    /\ probe[a] \in {"ok", "refused"}
    /\ IF usageExhaustedLocked(acc[a]) THEN UNCHANGED accountVars
       ELSE /\ disabled' = [disabled EXCEPT ![a] = FALSE]
            /\ acc' = [acc EXCEPT ![a] = liftBan(@, maxConcurrency)]
    /\ probe' = [probe EXCEPT ![a] = "no"]
    /\ UNCHANGED <<active, life, maxConcurrency, schedVars, req>>

-----------------------------------------------------------------------------
(* The clock. *)

CooldownElapses(a) ==
    /\ HasActiveCooldown(acc[a])
    /\ acc' = [acc EXCEPT ![a] = cooldownElapses(@)]
    /\ UNCHANGED <<disabled, active, life, maxConcurrency, schedVars, req, probe>>

Window5hResets(a) ==
    /\ acc[a].usage5h = "full"
    /\ acc' = [acc EXCEPT ![a] = window5hResets(@)]
    /\ UNCHANGED <<disabled, active, life, maxConcurrency, schedVars, req, probe>>

DayPasses(a) ==
    /\ acc[a].recent401
    /\ acc' = [acc EXCEPT ![a] = dayPasses(@)]
    /\ UNCHANGED <<disabled, active, life, maxConcurrency, schedVars, req, probe>>

ScoreMoves(a, band) ==
    /\ band # acc[a].band
    /\ acc' = [acc EXCEPT ![a] = scoreMoves(@, band)]
    /\ UNCHANGED <<disabled, active, life, maxConcurrency, schedVars, req, probe>>

-----------------------------------------------------------------------------
Init ==
    /\ acc = [a \in Accounts |-> NewAccount(PlanOf[a])]
    /\ disabled = [a \in Accounts |-> FALSE]
    /\ active = [a \in Accounts |-> 0]
    /\ life = [a \in Accounts |-> "new"]
    /\ maxConcurrency = InitConcurrency
    /\ index = [a \in Accounts |-> NoEntry]
    /\ base = InitConcurrency
    /\ rebuild = NoRebuild
    /\ req = [q \in Requests |-> IdleReq]
    /\ probe = [a \in Accounts |-> "no"]

RequestStep(q) ==
    \/ \E a \in Accounts : Acquire(q, a) \/ Visit(q, a) \/ TakeByID(q, a)
    \/ TryAcquire(q)
    \/ \E out \in Outcomes, usage \in UsageHeaders : Finish(q, out, usage)
    \/ Release(q)
    \/ Disable(q)
    \/ Undisable(q)
    \/ CleanUnauthorized(q)
    \/ MarkBan(q)
    \/ \E window5h \in BOOLEAN : Mark429(q, window5h)
    \/ SetCooldown(q)

Rebuild == RebuildBuild \/ RebuildInstall

AdminStep ==
    \/ \E a \in Accounts : AddAccount(a) \/ RemoveAccount(a) \/ AdminClearCooldown(a)
    \/ \E a \in Accounts, n \in Overrides : ApplyAccountSchedulerOverrides(a, n)
    \/ \E n \in MaxConcurrencies : SetMaxConcurrency(n)

RecoveryStep(a) ==
    \/ RecoveryBegin(a)
    \/ \E out \in Outcomes \ RequestOnly, usage \in UsageHeaders :
          RecoveryAnswer(a, out, usage)
    \/ RecoveryLift(a)

ClockStep(a) ==
    \/ CooldownElapses(a)
    \/ Window5hResets(a)
    \/ DayPasses(a)
    \/ \E band \in Bands : ScoreMoves(a, band)

Next ==
    \/ \E q \in Requests : RequestStep(q)
    \/ AdminStep
    \/ Rebuild
    \/ \E a \in Accounts : RecoveryStep(a) \/ ClockStep(a)

Spec == Init /\ [][Next]_vars

\* The tickers of StartBackgroundRefresh rebuild the scheduler every 10 minutes
\* and probe banned accounts; a probe ends, it has a timeout; time passes.
Fairness ==
    /\ WF_vars(RebuildBuild) /\ WF_vars(RebuildInstall)
    /\ \A a \in Accounts :
         /\ WF_vars(RecoveryBegin(a)) /\ WF_vars(RecoveryLift(a))
         /\ []<>(probe[a] # "sent")
         /\ WF_vars(CooldownElapses(a))

FairSpec == Spec /\ Fairness

-----------------------------------------------------------------------------
(* Properties. *)

TypeOK ==
    /\ acc \in [Accounts -> AccountRec]
    /\ disabled \in [Accounts -> BOOLEAN]
    /\ active \in [Accounts -> Int]
    /\ life \in [Accounts -> {"new", "live", "removed"}]
    /\ maxConcurrency \in Nat
    /\ index \in [Accounts -> Entries]
    /\ base \in Nat
    /\ rebuild \in [on : BOOLEAN, index : [Accounts -> Entries], base : Nat]
    /\ req \in [Requests -> ReqRec]
    /\ probe \in [Accounts -> {"no", "sent", "ok", "refused"}]

Holders(a) == {q \in Requests : req[q].pc \in {"run", "rel"} /\ req[q].acct = a}

\* ActiveRequests of an account is the number of requests that hold it, in every
\* order of tryAcquireAccount, Release, removal and rebuild: no path leaks a slot
\* or gives one back twice.
InFlightCounted == \A a \in Accounts : active[a] = Cardinality(Holders(a))

\* Some base concurrency that was configured, or the 1 that stands in for none,
\* allows n requests.
Allowed(n) ==
    \E c \in {1, InitConcurrency} \cup MaxConcurrencies \cup Overrides : n <= c

\* Requests that take an account through the scheduler and requests that take it
\* through their session binding never run more at once on one account than the
\* largest base concurrency that was configured.
NeverOverLimit == \A a \in Accounts : Allowed(active[a])

\* Nothing refers to a removed account any more: no entry, no scheduler under
\* construction that has one, no request or probe that holds the pointer.
Gone(a) ==
    /\ life[a] = "removed"
    /\ index[a] = NoEntry
    /\ rebuild.index[a] = NoEntry
    /\ \A q \in Requests : req[q].acct # a
    /\ probe[a] = "no"

\* Once the last reference to a removed account is gone the account never comes
\* back: only a goroutine that still holds the pointer can file it again.
GoneForGood == [][\A a \in Accounts : Gone(a) => Gone(a)']_vars

\* A premium account whose 5h window is exhausted is not kept from the scheduler,
\* but it gets one request at a time there, whatever base concurrency, override,
\* plan and cooldown were set before, while or after the window filled up.
Premium5hThrottled ==
    [][\A q \in Requests, a \in Accounts :
          /\ req[q].pc = "idle" /\ req'[q].pc = "run" /\ req'[q].acct = a
          /\ premium5hRateLimitedLocked(acc'[a])
          => active'[a] = 1]_vars

\* An account that stays in the pool and available is filed again and again, even
\* though an ended cooldown, a lifted ban or an update lost to a rebuild leaves it
\* out of the scheduler: no account is lost for good.
EventuallyFiled ==
    \A a \in Accounts :
        <>[](life[a] = "live" /\ snapshotAvailable(acc[a])) => []<>(index[a] # NoEntry)

\* A late report files a removed account again; the next rebuild drops it.
RemovedLeaves ==
    \A a \in Accounts : life[a] = "removed" ~> index[a] = NoEntry

\* No ban is for ever: the recovery probe lifts it once its cooldown has passed,
\* however late reports and cooldowns of requests in flight interleave with it.
BanEnds ==
    \A a \in Accounts :
        life[a] = "live" /\ acc[a].tier = Banned
            ~> life[a] # "live" \/ acc[a].tier # Banned

=============================================================================
